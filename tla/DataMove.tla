------------------------------- MODULE DataMove -------------------------------
(***************************************************************************)
(* How katana moves the target's linked data to their new layout: the     *)
(* variable part of readAndApplyPatch (applyVariablePatch in               *)
(* patcher/patchapply.c) and the DWARF machine of dwarfvm.c                *)
(* (patchDataWithFDE, generatePatchesFromFDEAndState, makePatchData).      *)
(*                                                                         *)
(* The objects of the old program are its patched variables and the heap   *)
(* blocks they lead to. Every object has the fields Fields, pointers with  *)
(* a DW_CFA_KATANA_fixups_pointer rule in the FDE of the object's type.    *)
(* The recursion of makePatchData is an explicit stack of frames; the      *)
(* rules of a frame come in the order of a hash table, that is, any.       *)
(***************************************************************************)
EXTENDS Naturals, Sequences, FiniteSets

CONSTANTS
  Vars,           \* variables of the transformed types
  Heap,           \* objects that malloc has allocated
  Fields,
  Graphs,         \* values of the pointers, a set of functions
  InPatch,        \* those the patch transforms and has room for in .data.new
  Initialized(_), \* for the values of the pointers, the relocations the target
                  \* may have (--emit-relocs) for pointers that the compiler has
                  \* initialized: functions from their places to variables
  Key(_),         \* what the map dataMoved tells apart of an address
  MaxMalloc,      \* bound: blocks the target's malloc provides
  NULL

Objects == Vars \cup Heap

(* An address is an object and an offset: 0 for its first byte, 1 for a    *)
(* place in its middle, the next element of an array or a member that is   *)
(* a struct. What is at the fields' offsets from there is what the         *)
(* pointers there are: a word that is seen from both addresses has two     *)
(* names, and the same value and relocation by both.                       *)
OldAddr == Objects \X {0, 1}
NewAddr == ({"data"} \X Vars) \cup ({"malloc"} \X (1..MaxMalloc))

ASSUME GraphsAssumption ==
  /\ Graphs \subseteq [OldAddr \X Fields -> OldAddr \cup {NULL}]
  /\ InPatch \subseteq Vars
  /\ \A g \in Graphs : \A r \in Initialized(g) :
       /\ DOMAIN r \subseteq (Vars \X {0, 1}) \X Fields
       /\ \A x \in DOMAIN r : r[x] \in Vars
  /\ MaxMalloc \in Nat

\* Names of different things are different.
ASSUME DistinctAssumption ==
  /\ Vars \cap Heap = {} /\ {"data", "malloc"} \cap Objects = {}
  /\ NULL \notin OldAddr \cup NewAddr \cup Vars

\* Programs and their memory are finite.
ASSUME FiniteAssumption == IsFiniteSet(Vars) /\ IsFiniteSet(Heap) /\ IsFiniteSet(Fields)

VARIABLES
  ptr,        \* the old program's pointers
  relocs,     \* the relocations of the target for initialized pointers
  relocated,  \* the pointers to which one has been applied
  misread,    \* history: those of them that have been read after that
  new,        \* what has been written at the new addresses and fields
  left,       \* variables applyVariablePatch has not dealt with
  stack,      \* frames of generatePatchesFromFDEAndState, innermost last
  patches,    \* the list of PatchData under construction
  applying,   \* the variable whose list patchDataWithFDE has begun to apply
  dataMoved,  \* the map dataMoved, a set of <<key, new address>>
  mallocs,    \* blocks allocated by mallocTarget
  pc

vars == <<ptr, relocs, relocated, misread, new, left, stack, patches, applying, dataMoved, mallocs, pc>>

Frame == [old: OldAddr \cup NewAddr, to: NewAddr, todo: SUBSET Fields]
PatchData == [at: NewAddr, field: Fields, value: NewAddr \cup {NULL}]

TypeOK ==
  /\ ptr \in Graphs /\ relocs \in Initialized(ptr)
  /\ new \subseteq PatchData
  /\ left \subseteq InPatch
  /\ stack \in Seq(Frame) /\ patches \in Seq(PatchData)
  /\ relocated \subseteq DOMAIN relocs /\ misread \subseteq relocated
  /\ applying \in Vars \cup {NULL}
  /\ \A m \in dataMoved : m[2] \in NewAddr
  /\ mallocs \in 0..MaxMalloc
  /\ pc \in {"vars", "done", "dead"}

Init ==
  /\ ptr \in Graphs /\ relocs \in Initialized(ptr) /\ misread = {}
  /\ new = {} /\ left = InPatch /\ stack = << >> /\ patches = << >>
  /\ applying = NULL /\ relocated = {} /\ dataMoved = {} /\ mallocs = 0
  /\ pc = "vars"

-----------------------------------------------------------------------------

(* Mutant of StartVariable: the variable is not passed over.               *)
StartVariableAgain ==
  /\ pc = "vars" /\ stack = << >> /\ applying = NULL
  /\ \E v \in left :
        stack' = <<[old |-> <<v, 0>>, to |-> <<"data", v>>, todo |-> Fields]>>
  /\ UNCHANGED <<ptr, relocs, relocated, misread, new, left, patches, applying, dataMoved, mallocs, pc>>

(* applyVariablePatch and patchDataWithFDE begin a variable.               *)
StartVariable ==
  /\ pc = "vars" /\ stack = << >> /\ applying = NULL
  /\ \E v \in left :
        /\ left' = left \ {v}
        /\ stack' = <<[old |-> <<v, 0>>, to |-> <<"data", v>>, todo |-> Fields]>>
  /\ UNCHANGED <<ptr, relocs, relocated, misread, new, patches, applying, dataMoved, mallocs, pc>>

Top == stack[Len(stack)]
Busy == pc = "vars" /\ stack # << >> /\ applying = NULL

Without(frame, f) == [old |-> frame.old, to |-> frame.to, todo |-> frame.todo \ {f}]

(* The top frame without field f, and the PatchData for it, then frames.   *)
Emit(f, value, frames) ==
  /\ stack' = [stack EXCEPT ![Len(stack)] = Without(Top, f)] \o frames
  /\ patches' = Append(patches, [at |-> Top.to, field |-> f, value |-> value])

Moved(a) == { m \in dataMoved : m[1] = Key(a) }

Written(at, f) == { w.value : w \in { x \in new : x.at = at /\ x.field = f } }

(* What is read at field f from an address: the target's pointer, or the   *)
(* new address that relocateVar has put in its place. At a new address the *)
(* old layout is read, with the pointers where the new one has them.       *)
Read(o, f) ==
  CASE o \in OldAddr /\ <<o, f>> \in relocated    -> <<"data", relocs[<<o, f>>]>>
    [] o \in OldAddr /\ <<o, f>> \notin relocated -> ptr[<<o, f>>]
    [] o \in NewAddr -> IF Written(o, f) = {} THEN NULL
                        ELSE CHOOSE a \in Written(o, f) : TRUE

(* The field read is one that relocateVar has rewritten.                   *)
Misread(f) == misread \cup ({<<Top.old, f>>} \cap relocated)

NullPointer ==
  /\ Busy
  /\ \E f \in Top.todo :
        /\ Read(Top.old, f) = NULL
        /\ Emit(f, NULL, << >>)
  /\ UNCHANGED <<ptr, relocs, relocated, misread, new, left, applying, dataMoved, mallocs, pc>>

AlreadyMoved ==
  /\ Busy
  /\ \E f \in Top.todo :
        /\ Read(Top.old, f) # NULL
        /\ \E m \in Moved(Read(Top.old, f)) : Emit(f, m[2], << >>)
        /\ misread' = Misread(f)
  /\ UNCHANGED <<ptr, relocs, relocated, new, left, applying, dataMoved, mallocs, pc>>

(* Mutant of Recurse: the move is not entered in dataMoved.                *)
RecurseNoInsert(f, a, to) ==
  /\ Emit(f, to, <<[old |-> a, to |-> to, todo |-> Fields]>>)
  /\ UNCHANGED dataMoved

(* The move is entered in dataMoved before the object is transformed, from *)
(* the place the pointer leads to.                                         *)
Recurse(f, a, to) ==
  /\ dataMoved' = dataMoved \cup {<<Key(a), to>>}
  /\ Emit(f, to, <<[old |-> a, to |-> to, todo |-> Fields]>>)

(* findSymbolContainingAddress finds a variable around the address.  The   *)
(* new address is that of the variable, wherever in it a leads to: what is *)
(* there is written over the beginning of the new variable.                *)
IntoVariable ==
  /\ Busy
  /\ \E f \in Top.todo :
       LET a == Read(Top.old, f) IN
        /\ a # NULL /\ Moved(a) = {}
        /\ a[1] \in InPatch
        /\ Recurse(f, a, <<"data", a[1]>>)
  /\ UNCHANGED <<ptr, relocs, relocated, misread, new, left, applying, mallocs, pc>>

(* Mutant of IntoHeap: a block is not remembered from one variable to the  *)
(* next (dataMoved made local to patchDataWithFDE).                        *)
IntoHeapForgotten ==
  /\ Busy
  /\ \E f \in Top.todo :
       LET a == Read(Top.old, f) IN
        /\ a # NULL /\ Moved(a) = {}
        /\ a \in NewAddr \/ a[1] \in Heap
        /\ mallocs < MaxMalloc
        /\ mallocs' = mallocs + 1
        /\ misread' = Misread(f)
        /\ Emit(f, <<"malloc", mallocs + 1>>,
                <<[old |-> a, to |-> <<"malloc", mallocs + 1>>, todo |-> Fields]>>)
        /\ dataMoved' = { m \in dataMoved : Len(stack) > 1 }
                          \cup {<<Key(a), <<"malloc", mallocs + 1>>>>}
  /\ UNCHANGED <<ptr, relocs, relocated, new, left, applying, pc>>

(* Otherwise it is taken for a block of its own, a new address included.   *)
IntoHeap ==
  /\ Busy
  /\ \E f \in Top.todo :
       LET a == Read(Top.old, f) IN
        /\ a # NULL /\ Moved(a) = {}
        /\ a \in NewAddr \/ a[1] \in Heap
        /\ mallocs < MaxMalloc
        /\ mallocs' = mallocs + 1
        /\ misread' = Misread(f)
        /\ Recurse(f, a, <<"malloc", mallocs + 1>>)
  /\ UNCHANGED <<ptr, relocs, relocated, new, left, applying, pc>>

(* death: the patch has no symbol for the variable, or the target's malloc *)
(* fails, as it may at any time. What has been written of earlier          *)
(* variables stays.                                                        *)
CannotMove ==
  /\ Busy
  /\ \E f \in Top.todo :
       LET a == Read(Top.old, f) IN
        /\ a # NULL /\ Moved(a) = {}
        /\ \/ a[1] \in Vars \ InPatch
           \/ a[1] \in Heap
           \/ a \in NewAddr
  /\ pc' = "dead"
  /\ UNCHANGED <<ptr, relocs, relocated, misread, new, left, stack, patches, applying, dataMoved, mallocs>>

(* All rules of the frame are done: back to the caller, which for the      *)
(* first frame begins to apply the list.                                   *)
EndFrame ==
  /\ Busy
  /\ Top.todo = {}
  /\ stack' = SubSeq(stack, 1, Len(stack) - 1)
  /\ applying' = IF Len(stack) = 1 THEN Top.old[1] ELSE NULL
  /\ UNCHANGED <<ptr, relocs, relocated, misread, new, left, patches, dataMoved, mallocs, pc>>

(* Mutant of ApplyPatchData: the last element of the list is left out.     *)
ApplyAllButLast ==
  /\ pc = "vars" /\ applying # NULL
  /\ IF Len(patches) <= 1
     THEN patches' = << >> /\ applying' = NULL /\ UNCHANGED new
     ELSE /\ patches' = Tail(patches)
          /\ new' = { w \in new : w.at # Head(patches).at
                                    \/ w.field # Head(patches).field }
                      \cup {Head(patches)}
          /\ UNCHANGED applying
  /\ UNCHANGED <<ptr, relocs, relocated, misread, left, stack, dataMoved, mallocs, pc>>

(* memcpyToTarget of the next PatchData. After the last one, relocateVar   *)
(* applies the target's relocations for the variable, wherever they are.   *)
ApplyPatchData ==
  /\ pc = "vars" /\ applying # NULL
  /\ IF patches = << >>
     THEN /\ relocated' = relocated \cup { g \in DOMAIN relocs : relocs[g] = applying }
          /\ applying' = NULL /\ UNCHANGED <<patches, new>>
     ELSE /\ patches' = Tail(patches)
          /\ new' = { w \in new : w.at # Head(patches).at
                                    \/ w.field # Head(patches).field }
                      \cup {Head(patches)}
          /\ UNCHANGED <<applying, relocated>>
  /\ UNCHANGED <<ptr, relocs, misread, left, stack, dataMoved, mallocs, pc>>

Finish ==
  /\ pc = "vars" /\ left = {} /\ stack = << >> /\ applying = NULL
  /\ pc' = "done"
  /\ UNCHANGED <<ptr, relocs, relocated, misread, new, left, stack, patches, applying, dataMoved, mallocs>>

Next ==
  \/ StartVariable \/ NullPointer \/ AlreadyMoved \/ IntoVariable \/ IntoHeap
  \/ CannotMove \/ EndFrame \/ ApplyPatchData \/ Finish

Spec == Init /\ [][Next]_vars

(* katana runs, and its target is stopped meanwhile.                       *)
FairSpec == Spec /\ WF_vars(Next)

-----------------------------------------------------------------------------
(* Properties.                                                             *)

Targets == { ptr[x] : x \in OldAddr \X Fields } \ {NULL}
Beginnings == InPatch \X {0}

(* The addresses that lead from the variables of the patch by pointers     *)
(* that are not in X.                                                      *)
Closed(S, X) == \A x \in (S \X Fields) \ X : ptr[x] # NULL => ptr[x] \in S
ReachableBut(X) ==
  { a \in Beginnings \cup Targets :
      \A S \in SUBSET (Beginnings \cup Targets) : Beginnings \subseteq S /\ Closed(S, X) => a \in S }

(* The new addresses for an address: what the map says, and .data.new.     *)
Images(a) ==
  { m[2] : m \in Moved(a) } \cup (IF a \in Beginnings THEN {<<"data", a[1]>>} ELSE {})

(* The addresses of S that a new variable has to stand for besides a.      *)
Merged(a, S) == { b \in S : b = a \/ (b[1] = a[1] /\ a[1] \in Vars) }

(* Where the new pointer for x is to lead, and, if what relocateVar has    *)
(* put there has been read, where it leads instead.                        *)
Image(x) == IF ptr[x] = NULL THEN {NULL} ELSE Images(ptr[x])
Copies(x) == IF x \in misread THEN { m[2] : m \in Moved(<<"data", relocs[x]>>) } ELSE {}

(* The new data have the shape of the old: what a pointer leads to has one *)
(* image, no two share one, and each pointer of an image leads to the      *)
(* image of what the pointer leads to. Test t5_pointers prints the         *)
(* addresses of the variables and of what their pointers lead to before    *)
(* and after the patch to see this. Two cases are other in the code. A     *)
(* variable has one image for all places in it, so that where pointers     *)
(* lead into its middle each new pointer of it is that of one of these     *)
(* places. And what relocateVar has rewritten before it is read leads to a *)
(* copy of the new variable, which is taken for a block of the heap.       *)
SameShape ==
  pc = "done" =>
    LET all == ReachableBut({})
    IN  \A a \in ReachableBut(misread) :
          /\ Cardinality(Images(a)) = 1
          /\ \A b \in all \ Merged(a, all) : Images(a) \cap Images(b) = {}
          /\ \A f \in Fields, at \in Images(a) :
               /\ Written(at, f) # {}
               /\ Written(at, f) \subseteq
                    UNION { Image(<<b, f>>) \cup Copies(<<b, f>>) : b \in Merged(a, all) }

(* The recursion is no deeper than there are addresses in the pointers,    *)
(* the variable it starts from counted once more: a cycle of pointers does *)
(* not keep makePatchData from returning.  Only where pointers are read    *)
(* that relocateVar has rewritten does it follow new addresses as well.    *)
RecursionBounded ==
  Len(stack) <= Cardinality(Targets \cup (IF misread = {} THEN {} ELSE NewAddr)) + 1

(* Between two variables, and when katana dies, what has been written      *)
(* leads only to objects that have been written in full: patchDataWithFDE  *)
(* applies an object together with all that is first reached from it.      *)
WrittenDataIsComplete ==
  applying = NULL =>
    \A w \in new : w.value # NULL =>
       \A f \in Fields : Written(w.value, f) # {}

(* katana ends, whatever cycles the data contain.                          *)
Ends == <>(pc \in {"done", "dead"})
=============================================================================
