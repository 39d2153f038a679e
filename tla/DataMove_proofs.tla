--------------------------- MODULE DataMove_proofs ---------------------------
(***************************************************************************)
(* Proofs about DataMove, for any variables, blocks, fields and graphs of  *)
(* pointers: what is written is complete, the recursion is bounded, and    *)
(* the new data have the shape of the old.                                 *)
(***************************************************************************)
EXTENDS DataMove, FiniteSetTheorems, SequenceTheorems, TLAPS

(* The map tells all addresses apart.                                      *)
KeysDistinct == \A a, b \in OldAddr \cup NewAddr : Key(a) = Key(b) => a = b

(* One variable at a time, and its list is empty when it is done.          *)
Control ==
  /\ stack # << >> => stack[1].old \in Beginnings
  /\ applying # NULL => stack = << >>
  /\ stack = << >> /\ applying = NULL => patches = << >>
  /\ pc = "done" => left = {} /\ stack = << >> /\ applying = NULL

-----------------------------------------------------------------------------
(* Completeness.                                                           *)

Pending == { patches[k] : k \in DOMAIN patches }
Entries == new \cup Pending

Moves == { m[2] : m \in dataMoved }
Begun == Moves \cup { <<"data", v>> : v \in InPatch \ left }

(* A field is still to be dealt with by a frame, or an entry exists for it.*)
Open(t, f)    == \E k \in DOMAIN stack : stack[k].to = t /\ f \in stack[k].todo
Entered(t, f) == \E w \in Entries : w.at = t /\ w.field = f

(* No field of an object that has been begun is forgotten, and new         *)
(* pointers lead only to such objects.                                     *)
NoneForgotten ==
  /\ \A t \in Begun, f \in Fields : Open(t, f) \/ Entered(t, f)
  /\ \A w \in Entries : w.value # NULL => w.value \in Moves

-----------------------------------------------------------------------------
(* Depth.                                                                  *)

Followed == Targets \cup (IF misread = {} THEN {} ELSE NewAddr)

Opened == { a \in Followed : Moved(a) # {} }

(* Every frame but the first has entered an address in the map.            *)
Depth ==
  /\ misread = {} => \A k \in DOMAIN stack : stack[k].old \in OldAddr
  /\ Len(stack) <= Cardinality(Opened) + 1

-----------------------------------------------------------------------------
(* Shape.                                                                  *)

(* The map is a function, and gives a block of malloc to one object only.  *)
MovedOnce ==
  /\ \A m \in dataMoved : m = <<m[1], m[2]>>
  /\ Moves \subseteq ({"data"} \X InPatch) \cup ({"malloc"} \X (1..mallocs))
  /\ \A m, n \in dataMoved :
       /\ m[1] = n[1] => m[2] = n[2]
       /\ m[2] = n[2] /\ m[2][1] = "malloc" => m[1] = n[1]

(* The addresses the variables of the patch lead to, and those that        *)
(* makePatchData may come to from them.                                    *)
All == ReachableBut({})
Known == All \cup NewAddr

(* The new address of what is at an address.                               *)
Place(a, t) ==
  \/ a[1] \in InPatch /\ t = <<"data", a[1]>>
  \/ (a[1] \in Heap \/ a \in NewAddr) /\ t[1] = "malloc" /\ <<Key(a), t>> \in dataMoved

(* The value of a new pointer.                                             *)
Leads(a, f, value) ==
  \/ ptr[<<a, f>>] = NULL /\ value = NULL
  \/ ptr[<<a, f>>] # NULL /\ <<Key(ptr[<<a, f>>]), value>> \in dataMoved
  \/ <<a, f>> \in misread /\ <<Key(<<"data", relocs[<<a, f>>]>>), value>> \in dataMoved

(* Frames, the map and what has been written or is to be agree.            *)
FramesPlaced ==
  \A k \in DOMAIN stack : stack[k].old \in Known /\ Place(stack[k].old, stack[k].to)
KeyedRight(m) == \E a \in Known : m[1] = Key(a) /\ Place(a, m[2])
EntryRight(w) ==
  \E a \in Known : Place(a, w.at) /\ (a \in OldAddr => Leads(a, w.field, w.value))

(* What has been come to: no pointer of it is passed over, unless          *)
(* relocateVar has replaced it before.                                     *)
Visited == ((InPatch \ left) \X {0}) \cup { a \in OldAddr : Moved(a) # {} }
InHand(a, f) == \E k \in DOMAIN stack : stack[k].old = a /\ f \in stack[k].todo
Dealt(a, f) ==
  \/ <<a, f>> \in misread
  \/ ptr[<<a, f>>] = NULL
  \/ Moved(ptr[<<a, f>>]) # {}
NoneUnfollowed == \A a \in Visited, f \in Fields : InHand(a, f) \/ Dealt(a, f)

ShapeInv ==
  /\ FramesPlaced
  /\ \A m \in dataMoved : KeyedRight(m)
  /\ \A w \in Entries : EntryRight(w)
  /\ NoneUnfollowed

-----------------------------------------------------------------------------
(* Sequences.                                                              *)

LEMMA RangeOfAppend ==
  ASSUME NEW R, NEW s \in Seq(R), NEW x
  PROVE  { Append(s, x)[k] : k \in DOMAIN Append(s, x) } = { s[k] : k \in DOMAIN s } \cup {x}
<1>1. /\ Len(s) \in Nat /\ DOMAIN s = 1..Len(s)
      /\ DOMAIN Append(s, x) = 1..(Len(s) + 1)
      /\ Append(s, x)[Len(s) + 1] = x
      /\ \A k \in 1..Len(s) : Append(s, x)[k] = s[k]
  OBVIOUS
<1>2. 1..(Len(s) + 1) = (1..Len(s)) \cup {Len(s) + 1}
  BY <1>1
<1> QED
  BY <1>1, <1>2, Zenon

LEMMA RangeOfTail ==
  ASSUME NEW R, NEW s \in Seq(R), s # << >>
  PROVE  /\ Head(s) \in R /\ Tail(s) \in Seq(R)
         /\ { s[k] : k \in DOMAIN s } = { Tail(s)[k] : k \in DOMAIN Tail(s) } \cup {Head(s)}
<1>1. /\ Len(s) \in Nat /\ Len(s) > 0 /\ DOMAIN s = 1..Len(s)
      /\ DOMAIN Tail(s) = 1..(Len(s) - 1) /\ Head(s) = s[1]
      /\ \A k \in 1..(Len(s) - 1) : Tail(s)[k] = s[k + 1]
  OBVIOUS
<1>2. \A k \in 1..Len(s) : k = 1 \/ (k - 1 \in 1..(Len(s) - 1) /\ s[k] = Tail(s)[k - 1])
  BY <1>1
<1>3. \A k \in 1..(Len(s) - 1) : k + 1 \in 1..Len(s)
  BY <1>1
<1>4. 1 \in 1..Len(s)
  BY <1>1
<1> QED
  <2>1. Head(s) \in R /\ Tail(s) \in Seq(R)
    OBVIOUS
  <2>2. { s[k] : k \in DOMAIN s } \subseteq { Tail(s)[k] : k \in DOMAIN Tail(s) } \cup {Head(s)}
    <3> SUFFICES ASSUME NEW k \in DOMAIN s
                 PROVE  s[k] \in { Tail(s)[l] : l \in DOMAIN Tail(s) } \cup {Head(s)}
      OBVIOUS
    <3>1. CASE k = 1
      BY <1>1, <3>1
    <3>2. CASE k # 1
      BY <1>1, <1>2, <3>2, Zenon
    <3> QED
      BY <3>1, <3>2
  <2>3. { Tail(s)[k] : k \in DOMAIN Tail(s) } \cup {Head(s)} \subseteq { s[k] : k \in DOMAIN s }
    BY <1>1, <1>3, <1>4
  <2> QED
    BY <2>1, <2>2, <2>3, Zenon

-----------------------------------------------------------------------------
(* Types.                                                                  *)

LEMMA PointerTypes ==
  ASSUME TypeOK
  PROVE  /\ ptr \in [OldAddr \X Fields -> OldAddr \cup {NULL}]
         /\ \A x \in DOMAIN relocs : x \in (Vars \X {0, 1}) \X Fields /\ relocs[x] \in Vars
         /\ InPatch \subseteq Vars
BY GraphsAssumption DEF GraphsAssumption, TypeOK

(* Only pointers of the old data are rewritten.                            *)
LEMMA RelocatedTypes ==
  ASSUME TypeOK, NEW o, NEW f, <<o, f>> \in relocated
  PROVE  o \in OldAddr /\ f \in Fields /\ relocs[<<o, f>>] \in Vars
<1>1. <<o, f>> \in DOMAIN relocs
  BY DEF TypeOK
<1>2. <<o, f>> \in (Vars \X {0, 1}) \X Fields /\ relocs[<<o, f>>] \in Vars
  BY <1>1, PointerTypes
<1> QED
  BY <1>2 DEF OldAddr, Objects

LEMMA AddressTypes ==
  /\ \A a \in OldAddr : a[1] \in Objects /\ a[1] \notin {"data", "malloc"}
  /\ \A a \in NewAddr : a[1] \in {"data", "malloc"} /\ a[1] \notin Objects
  /\ NULL \notin OldAddr \cup NewAddr /\ OldAddr \cap NewAddr = {}
<1>1. \A a \in OldAddr : a[1] \in Objects
  BY DEF OldAddr
<1>2. \A a \in NewAddr : a[1] \in {"data", "malloc"}
  BY DEF NewAddr
<1>3. "data" \notin Objects /\ "malloc" \notin Objects /\ NULL \notin OldAddr \cup NewAddr
  BY DistinctAssumption DEF DistinctAssumption
<1> QED
  BY <1>1, <1>2, <1>3

(* What is read at a field.                                                *)
LEMMA ReadType ==
  ASSUME TypeOK, NEW o \in OldAddr \cup NewAddr, NEW f \in Fields
  PROVE  /\ Read(o, f) \in OldAddr \cup NewAddr \cup {NULL}
         /\ o \in OldAddr =>
              IF <<o, f>> \in relocated
              THEN Read(o, f) = <<"data", relocs[<<o, f>>]>> /\ Read(o, f) \in NewAddr
              ELSE Read(o, f) = ptr[<<o, f>>]
         /\ o \in NewAddr => Read(o, f) \in NewAddr \cup {NULL}
<1>1. CASE o \in OldAddr /\ <<o, f>> \in relocated
  <2>1. o \notin NewAddr
    BY <1>1, AddressTypes
  <2>2. Read(o, f) = <<"data", relocs[<<o, f>>]>>
    BY <1>1, <2>1 DEF Read
  <2>3. relocs[<<o, f>>] \in Vars
    BY <1>1, RelocatedTypes
  <2> QED
    BY <1>1, <2>1, <2>2, <2>3 DEF NewAddr
<1>2. CASE o \in OldAddr /\ <<o, f>> \notin relocated
  <2>1. o \notin NewAddr
    BY <1>2, AddressTypes
  <2>2. Read(o, f) = ptr[<<o, f>>]
    BY <1>2, <2>1 DEF Read
  <2> QED
    BY <1>2, <2>1, <2>2, PointerTypes
<1>3. CASE o \in NewAddr
  <2>1. o \notin OldAddr
    BY <1>3, AddressTypes
  <2>2. Read(o, f) = IF Written(o, f) = {} THEN NULL ELSE CHOOSE a \in Written(o, f) : TRUE
    BY <1>3, <2>1 DEF Read
  <2>3. Written(o, f) \subseteq NewAddr \cup {NULL}
    BY DEF Written, TypeOK, PatchData
  <2> QED
    BY <2>1, <2>2, <2>3
<1> QED
  BY <1>1, <1>2, <1>3

(* The frame at work.                                                      *)
LEMMA TopType ==
  ASSUME TypeOK, Busy
  PROVE  /\ Len(stack) \in Nat \ {0} /\ Len(stack) \in DOMAIN stack /\ DOMAIN stack = 1..Len(stack)
         /\ Top \in Frame /\ Top.old \in OldAddr \cup NewAddr /\ Top.to \in NewAddr
         /\ Top.todo \subseteq Fields
<1>1. stack \in Seq(Frame) /\ stack # << >>
  BY DEF TypeOK, Busy
<1>2. Len(stack) \in Nat \ {0} /\ Len(stack) \in DOMAIN stack /\ DOMAIN stack = 1..Len(stack) /\ Top \in Frame
  BY <1>1 DEF Top
<1> QED
  BY <1>2 DEF Frame

(* What a rule does to the stack and to the list.                          *)
LEMMA EmitEffect ==
  ASSUME TypeOK, Busy, NEW f \in Top.todo, NEW value \in NewAddr \cup {NULL},
         NEW frames \in Seq(Frame), Emit(f, value, frames)
  PROVE  /\ stack' \in Seq(Frame) /\ patches' \in Seq(PatchData)
         /\ Len(stack') = Len(stack) + Len(frames)
         /\ \A k \in 1..(Len(stack) - 1) : stack'[k] = stack[k]
         /\ stack'[Len(stack)] = Without(Top, f)
         /\ \A k \in 1..Len(frames) : stack'[Len(stack) + k] = frames[k]
         /\ Pending' = Pending \cup {[at |-> Top.to, field |-> f, value |-> value]}
<1> DEFINE s == [stack EXCEPT ![Len(stack)] = Without(Top, f)]
           w == [at |-> Top.to, field |-> f, value |-> value]
<1>1. Without(Top, f) \in Frame
  BY TopType DEF Without, Frame
<1>2. /\ s \in Seq(Frame) /\ Len(s) = Len(stack) /\ s[Len(stack)] = Without(Top, f)
      /\ \A k \in 1..(Len(stack) - 1) : s[k] = stack[k]
  <2>1. stack \in Seq(Frame)
    BY DEF TypeOK
  <2> QED
    BY <1>1, <2>1, TopType
<1>3. stack' = s \o frames
  BY DEF Emit
<1> HIDE DEF s
<1>4. /\ stack' \in Seq(Frame) /\ Len(stack') = Len(stack) + Len(frames)
      /\ \A k \in 1..Len(stack) : stack'[k] = s[k]
      /\ \A k \in 1..Len(frames) : stack'[Len(stack) + k] = frames[k]
  <2>1. /\ stack' \in Seq(Frame) /\ Len(stack') = Len(s) + Len(frames)
        /\ \A k \in 1..(Len(s) + Len(frames)) :
             stack'[k] = IF k <= Len(s) THEN s[k] ELSE frames[k - Len(s)]
    <3>1. s \in Seq(Frame)
      BY <1>2
    <3> QED
      BY <1>3, <3>1, ConcatProperties
  <2>2. Len(stack) \in Nat /\ Len(frames) \in Nat /\ Len(s) = Len(stack)
    BY <1>2, TopType
  <2>3. ASSUME NEW k \in 1..Len(stack)
        PROVE  stack'[k] = s[k]
    BY <2>1, <2>2
  <2>4. ASSUME NEW k \in 1..Len(frames)
        PROVE  stack'[Len(stack) + k] = frames[k]
    <3>1. Len(stack) + k \in 1..(Len(s) + Len(frames)) /\ ~(Len(stack) + k <= Len(s)) /\ Len(stack) + k - Len(s) = k
      BY <2>2
    <3> QED
      BY <2>1, <3>1
  <2> QED
    BY <2>1, <2>2, <2>3, <2>4
<1>5. w \in PatchData /\ patches \in Seq(PatchData) /\ patches' = Append(patches, w)
  BY TopType DEF PatchData, TypeOK, Emit
<1> HIDE DEF w
<1>6. patches' \in Seq(PatchData)
  BY <1>5
<1>7. Pending' = Pending \cup {w}
  <2>1. Pending' = { Append(patches, w)[k] : k \in DOMAIN Append(patches, w) }
    BY <1>5, Zenon DEF Pending
  <2>2. { Append(patches, w)[k] : k \in DOMAIN Append(patches, w) } = { patches[k] : k \in DOMAIN patches } \cup {w}
    BY <1>5, RangeOfAppend
  <2> QED
    BY <2>1, <2>2, Zenon DEF Pending
<1>8. stack'[Len(stack)] = Without(Top, f) /\ \A k \in 1..(Len(stack) - 1) : stack'[k] = stack[k]
  BY <1>2, <1>4, TopType
<1> QED
  BY <1>4, <1>6, <1>7, <1>8 DEF w

-----------------------------------------------------------------------------
(* The two kinds of rules: those that only emit a pointer, and those that  *)
(* recurse to the object it leads to.                                      *)

Rule(f, value, n) ==
  /\ Busy
  /\ stack' \in Seq(Frame) /\ patches' \in Seq(PatchData)
  /\ Len(stack') = Len(stack) + n
  /\ \A k \in 1..(Len(stack) - 1) : stack'[k] = stack[k]
  /\ stack'[Len(stack)] = Without(Top, f)
  /\ Pending' = Pending \cup {[at |-> Top.to, field |-> f, value |-> value]}
  /\ misread' = Misread(f)
  /\ UNCHANGED <<ptr, relocs, relocated, new, left, applying, pc>>

Flat(f, value) ==
  /\ Rule(f, value, 0)
  /\ UNCHANGED <<dataMoved, mallocs>>
  /\ \/ Read(Top.old, f) = NULL /\ value = NULL
     \/ /\ Read(Top.old, f) # NULL
        /\ \E m \in dataMoved : m[1] = Key(Read(Top.old, f)) /\ m[2] = value

Deep(f, a, to) ==
  /\ Rule(f, to, 1)
  /\ a = Read(Top.old, f) /\ a # NULL /\ Moved(a) = {}
  /\ stack'[Len(stack) + 1] = [old |-> a, to |-> to, todo |-> Fields]
  /\ dataMoved' = dataMoved \cup {<<Key(a), to>>}
  /\ \/ a[1] \in InPatch /\ to = <<"data", a[1]>> /\ UNCHANGED mallocs
     \/ /\ a \in NewAddr \/ a[1] \in Heap
        /\ mallocs < MaxMalloc /\ to = <<"malloc", mallocs + 1>> /\ mallocs' = mallocs + 1

LEMMA EmptySequence == << >> \in Seq(Frame) /\ Len(<< >>) = 0
OBVIOUS

LEMMA NullPointerIsFlat ==
  ASSUME TypeOK, NullPointer
  PROVE  \E f \in Top.todo : Flat(f, NULL)
<1>1. PICK f \in Top.todo : Read(Top.old, f) = NULL /\ Emit(f, NULL, << >>)
  BY DEF NullPointer
<1>2. Busy /\ UNCHANGED <<ptr, relocs, relocated, misread, new, left, applying, dataMoved, mallocs, pc>>
  BY DEF NullPointer
<1>3. <<Top.old, f>> \notin relocated
  <2>1. Top.old \in OldAddr \cup NewAddr /\ f \in Fields
    BY <1>2, TopType
  <2>2. CASE Top.old \in OldAddr
    BY <1>1, <2>1, <2>2, ReadType, AddressTypes
  <2>3. CASE Top.old \notin OldAddr
    BY <2>3, RelocatedTypes
  <2> QED
    BY <2>2, <2>3
<1>4. misread' = Misread(f)
  BY <1>2, <1>3 DEF Misread
<1>5. Rule(f, NULL, 0)
  BY <1>1, <1>2, <1>4, EmptySequence, EmitEffect, TopType DEF Rule, TypeOK
<1> QED
  BY <1>1, <1>2, <1>5 DEF Flat

LEMMA AlreadyMovedIsFlat ==
  ASSUME TypeOK, AlreadyMoved
  PROVE  \E f \in Top.todo : \E value \in NewAddr : Flat(f, value)
<1>1. PICK f \in Top.todo :
         /\ Read(Top.old, f) # NULL
         /\ \E m \in Moved(Read(Top.old, f)) : Emit(f, m[2], << >>)
         /\ misread' = Misread(f)
  BY DEF AlreadyMoved
<1>2. PICK m \in Moved(Read(Top.old, f)) : Emit(f, m[2], << >>)
  BY <1>1
<1>3. Busy /\ UNCHANGED <<ptr, relocs, relocated, new, left, applying, dataMoved, mallocs, pc>>
  BY DEF AlreadyMoved
<1>4. m \in dataMoved /\ m[1] = Key(Read(Top.old, f)) /\ m[2] \in NewAddr
  BY DEF Moved, TypeOK
<1>5. Rule(f, m[2], 0)
  <2> DEFINE value == m[2]
  <2>1. value \in NewAddr \cup {NULL} /\ Emit(f, value, << >>)
    BY <1>2, <1>4
  <2> HIDE DEF value
  <2>2. Rule(f, value, 0)
    BY <1>1, <1>3, <2>1, EmptySequence, EmitEffect, TopType DEF Rule
  <2> QED
    BY <2>2 DEF value
<1> QED
  BY <1>1, <1>3, <1>4, <1>5 DEF Flat

LEMMA RecurseEffect ==
  ASSUME TypeOK, Busy, NEW f \in Top.todo, NEW a, a = Read(Top.old, f), a # NULL,
         NEW to \in NewAddr, Recurse(f, a, to),
         misread' = Misread(f),
         UNCHANGED <<ptr, relocs, relocated, new, left, applying, pc>>
  PROVE  /\ Rule(f, to, 1)
         /\ stack'[Len(stack) + 1] = [old |-> a, to |-> to, todo |-> Fields]
         /\ dataMoved' = dataMoved \cup {<<Key(a), to>>}
<1> DEFINE frame  == [old |-> a, to |-> to, todo |-> Fields]
           frames == <<frame>>
<1>1. a \in OldAddr \cup NewAddr
  BY TopType, ReadType
<1>3. frame \in Frame
  BY <1>1 DEF Frame
<1> HIDE DEF frame
<1>4. frames \in Seq(Frame) /\ Len(frames) = 1 /\ frames[1] = frame
  BY <1>3
<1>5. Emit(f, to, frames) /\ dataMoved' = dataMoved \cup {<<Key(a), to>>}
  BY DEF Recurse, frame
<1> HIDE DEF frames
<1>6. /\ stack' \in Seq(Frame) /\ patches' \in Seq(PatchData)
      /\ Len(stack') = Len(stack) + Len(frames)
      /\ \A k \in 1..(Len(stack) - 1) : stack'[k] = stack[k]
      /\ stack'[Len(stack)] = Without(Top, f)
      /\ \A k \in 1..Len(frames) : stack'[Len(stack) + k] = frames[k]
      /\ Pending' = Pending \cup {[at |-> Top.to, field |-> f, value |-> to]}
  BY <1>4, <1>5, EmitEffect, Zenon
<1>7. Rule(f, to, 1)
  BY <1>4, <1>6 DEF Rule
<1>8. stack'[Len(stack) + 1] = frame
  BY <1>4, <1>6
<1> QED
  BY <1>5, <1>7, <1>8 DEF frame

LEMMA IntoVariableIsDeep ==
  ASSUME TypeOK, IntoVariable
  PROVE  \E f \in Top.todo : \E a \in OldAddr : \E to \in NewAddr : Deep(f, a, to)
<1>1. PICK f \in Top.todo :
         LET a == Read(Top.old, f) IN
          /\ a # NULL /\ Moved(a) = {} /\ a[1] \in InPatch
          /\ Recurse(f, a, <<"data", a[1]>>)
  BY DEF IntoVariable
<1> DEFINE a == Read(Top.old, f)
           to == <<"data", a[1]>>
<1>2. /\ Busy
      /\ UNCHANGED <<ptr, relocs, relocated, misread, new, left, applying, mallocs, pc>>
  BY DEF IntoVariable
<1>3. Top.old \in OldAddr \cup NewAddr /\ f \in Fields
  BY <1>2, TopType
<1>4. a \in OldAddr \cup NewAddr /\ a[1] \in InPatch /\ a # NULL /\ Moved(a) = {}
  BY <1>1, <1>3, ReadType
<1>5. a \in OldAddr
  BY <1>4, AddressTypes, PointerTypes DEF Objects
<1>6. <<Top.old, f>> \notin relocated
  <2>1. CASE Top.old \in OldAddr
    BY <1>3, <1>5, <2>1, ReadType, AddressTypes
  <2>2. CASE Top.old \notin OldAddr
    BY <2>2, RelocatedTypes
  <2> QED
    BY <2>1, <2>2
<1>7. to \in NewAddr
  BY <1>4, PointerTypes DEF NewAddr
<1>8. Recurse(f, a, to)
  BY <1>1
<1>9. misread' = Misread(f)
  BY <1>2, <1>6 DEF Misread
<1>10. /\ Rule(f, to, 1)
       /\ stack'[Len(stack) + 1] = [old |-> a, to |-> to, todo |-> Fields]
       /\ dataMoved' = dataMoved \cup {<<Key(a), to>>}
  <2>1. UNCHANGED <<ptr, relocs, relocated, new, left, applying, pc>>
    BY <1>2
  <2> HIDE DEF to
  <2> QED
    BY <1>2, <1>4, <1>7, <1>8, <1>9, <2>1, RecurseEffect
<1>11. Deep(f, a, to)
  BY <1>2, <1>4, <1>10 DEF Deep
<1> QED
  BY <1>5, <1>7, <1>11

LEMMA IntoHeapIsDeep ==
  ASSUME TypeOK, IntoHeap
  PROVE  \E f \in Top.todo : \E a \in OldAddr \cup NewAddr : \E to \in NewAddr : Deep(f, a, to)
<1>1. PICK f \in Top.todo :
         LET a == Read(Top.old, f) IN
          /\ a # NULL /\ Moved(a) = {}
          /\ a \in NewAddr \/ a[1] \in Heap
          /\ mallocs < MaxMalloc
          /\ mallocs' = mallocs + 1
          /\ misread' = Misread(f)
          /\ Recurse(f, a, <<"malloc", mallocs + 1>>)
  BY DEF IntoHeap
<1> DEFINE a == Read(Top.old, f)
           to == <<"malloc", mallocs + 1>>
<1>2. Busy /\ UNCHANGED <<ptr, relocs, relocated, new, left, applying, pc>>
  BY DEF IntoHeap
<1>3. Top.old \in OldAddr \cup NewAddr /\ f \in Fields
  BY <1>2, TopType
<1>4. a \in OldAddr \cup NewAddr /\ a # NULL /\ Moved(a) = {} /\ (a \in NewAddr \/ a[1] \in Heap)
  BY <1>1, <1>3, ReadType
<1>5. to \in NewAddr
  BY <1>1, GraphsAssumption DEF NewAddr, TypeOK, GraphsAssumption
<1>6. /\ Rule(f, to, 1)
      /\ stack'[Len(stack) + 1] = [old |-> a, to |-> to, todo |-> Fields]
      /\ dataMoved' = dataMoved \cup {<<Key(a), to>>}
  <2>1. Recurse(f, a, to) /\ misread' = Misread(f)
    BY <1>1
  <2> HIDE DEF to
  <2> QED
    BY <1>2, <1>4, <1>5, <2>1, RecurseEffect
<1>7. Deep(f, a, to)
  BY <1>1, <1>4, <1>6 DEF Deep
<1> QED
  BY <1>4, <1>5, <1>7

(* Frames stay where they are, and lose at most the field of the rule.     *)
LEMMA RuleFrames ==
  ASSUME TypeOK, NEW f, NEW value, NEW n \in {0, 1}, Rule(f, value, n)
  PROVE  /\ DOMAIN stack' = 1..(Len(stack) + n)
         /\ \A k \in DOMAIN stack :
              /\ k \in DOMAIN stack'
              /\ stack'[k].old = stack[k].old /\ stack'[k].to = stack[k].to
         /\ \A t, g : Open(t, g) => Open(t, g)' \/ (t = Top.to /\ g = f)
<1>1. /\ Len(stack) \in Nat \ {0} /\ DOMAIN stack = 1..Len(stack)
      /\ DOMAIN stack' = 1..(Len(stack) + n)
  BY TopType DEF Rule
<1>2. ASSUME NEW k \in DOMAIN stack
      PROVE  /\ k \in DOMAIN stack'
             /\ stack'[k].old = stack[k].old /\ stack'[k].to = stack[k].to
             /\ \A g \in stack[k].todo : g \in stack'[k].todo \/ (stack[k].to = Top.to /\ g = f)
  <2>1. k \in DOMAIN stack'
    BY <1>1
  <2>2. CASE k = Len(stack)
    <3>1. stack'[k] = Without(stack[k], f) /\ stack[k] = Top
      BY <2>2 DEF Rule, Top
    <3> QED
      BY <2>1, <3>1 DEF Without
  <2>3. CASE k # Len(stack)
    BY <1>1, <2>1, <2>3 DEF Rule
  <2> QED
    BY <2>2, <2>3
<1>3. ASSUME NEW t, NEW g, Open(t, g)
      PROVE  Open(t, g)' \/ (t = Top.to /\ g = f)
  <2>1. PICK k \in DOMAIN stack : stack[k].to = t /\ g \in stack[k].todo
    BY <1>3 DEF Open
  <2> QED
    BY <1>2, <2>1 DEF Open
<1> QED
  BY <1>1, <1>2, <1>3

-----------------------------------------------------------------------------
(* The other steps.                                                        *)

LEMMA StartEffect ==
  ASSUME TypeOK, StartVariable
  PROVE  \E v \in left :
           /\ v \in InPatch /\ left' = left \ {v} /\ stack = << >> /\ applying = NULL
           /\ stack' \in Seq(Frame) /\ Len(stack') = 1 /\ DOMAIN stack' = {1}
           /\ stack'[1] = [old |-> <<v, 0>>, to |-> <<"data", v>>, todo |-> Fields]
           /\ UNCHANGED <<ptr, relocs, relocated, misread, new, patches, applying, dataMoved, mallocs, pc>>
<1>1. PICK v \in left :
         left' = left \ {v} /\ stack' = <<[old |-> <<v, 0>>, to |-> <<"data", v>>, todo |-> Fields]>>
  BY DEF StartVariable
<1> DEFINE frame == [old |-> <<v, 0>>, to |-> <<"data", v>>, todo |-> Fields]
<1>2. v \in InPatch /\ v \in Vars
  BY PointerTypes DEF TypeOK
<1>3. frame \in Frame
  BY <1>2 DEF Frame, Objects, OldAddr, NewAddr
<1> HIDE DEF frame
<1>4. stack' = <<frame>>
  BY <1>1 DEF frame
<1>5. stack' \in Seq(Frame) /\ Len(stack') = 1 /\ DOMAIN stack' = {1} /\ stack'[1] = frame
  BY <1>3, <1>4
<1> QED
  BY <1>1, <1>2, <1>5 DEF StartVariable, frame

LEMMA EndFrameEffect ==
  ASSUME TypeOK, EndFrame
  PROVE  /\ Top.todo = {} /\ Len(stack) \in Nat \ {0} /\ applying = NULL
         /\ stack' \in Seq(Frame) /\ Len(stack') = Len(stack) - 1
         /\ DOMAIN stack' = 1..(Len(stack) - 1) /\ DOMAIN stack = 1..Len(stack)
         /\ \A k \in DOMAIN stack' : stack'[k] = stack[k]
         /\ applying' = IF Len(stack) = 1 THEN Top.old[1] ELSE NULL
         /\ \A t, g : Open(t, g) => Open(t, g)'
<1>1. Busy /\ Top.todo = {} /\ stack' = SubSeq(stack, 1, Len(stack) - 1)
  BY DEF EndFrame
<1>2. Len(stack) \in Nat \ {0} /\ DOMAIN stack = 1..Len(stack) /\ stack \in Seq(Frame)
  BY <1>1, TopType DEF TypeOK
<1>3. /\ stack' \in Seq(Frame) /\ Len(stack') = Len(stack) - 1
      /\ DOMAIN stack' = 1..(Len(stack) - 1)
      /\ \A k \in 1..(Len(stack) - 1) : stack'[k] = stack[k]
  BY <1>1, <1>2
<1>4. ASSUME NEW t, NEW g, Open(t, g)
      PROVE  Open(t, g)'
  <2>1. PICK k \in DOMAIN stack : stack[k].to = t /\ g \in stack[k].todo
    BY <1>4 DEF Open
  <2>2. k # Len(stack)
    BY <1>1, <2>1 DEF Top
  <2>3. k \in DOMAIN stack' /\ stack'[k] = stack[k]
    BY <1>2, <1>3, <2>1, <2>2
  <2> QED
    BY <2>1, <2>3 DEF Open
<1> QED
  BY <1>1, <1>2, <1>3, <1>4 DEF EndFrame, Busy

(* The next element of the list replaces what has been written in its      *)
(* place.                                                                  *)
LEMMA ApplyEffect ==
  ASSUME TypeOK, ApplyPatchData
  PROVE  \/ /\ patches = << >> /\ applying' = NULL /\ UNCHANGED <<patches, new, Entries>>
            /\ relocated \subseteq relocated' /\ relocated' \subseteq DOMAIN relocs
         \/ /\ patches' \in Seq(PatchData) /\ new' \subseteq PatchData
            /\ UNCHANGED <<applying, relocated>>
            /\ Entries' \subseteq Entries
            /\ \A t, g : Entered(t, g) => Entered(t, g)'
<1>1. CASE patches = << >>
  BY <1>1 DEF ApplyPatchData, TypeOK, Entries, Pending
<1>2. CASE patches # << >>
  <2> DEFINE w == Head(patches)
             kept == { x \in new : x.at # w.at \/ x.field # w.field }
  <2>1. patches' = Tail(patches) /\ new' = kept \cup {w} /\ UNCHANGED <<applying, relocated>>
    BY <1>2 DEF ApplyPatchData
  <2>2. w \in PatchData /\ Tail(patches) \in Seq(PatchData)
    BY <1>2, RangeOfTail DEF TypeOK
  <2>3. Pending = { Tail(patches)[k] : k \in DOMAIN Tail(patches) } \cup {w}
    BY <1>2, RangeOfTail DEF TypeOK, Pending
  <2>4. Pending = Pending' \cup {w}
    BY <2>1, <2>3 DEF Pending
  <2> HIDE DEF w
  <2>5. patches' \in Seq(PatchData) /\ new' \subseteq PatchData
    BY <2>1, <2>2 DEF TypeOK
  <2>6. Entries' \subseteq Entries /\ w \in Entries'
    BY <2>1, <2>4, Zenon DEF Entries
  <2>7. ASSUME NEW x \in Entries
        PROVE  x \in Entries' \/ (x.at = w.at /\ x.field = w.field)
    BY <2>1, <2>4, Zenon DEF Entries
  <2>8. \A t, g : Entered(t, g) => Entered(t, g)'
    BY <2>6, <2>7 DEF Entered
  <2> QED
    BY <2>1, <2>5, <2>6, <2>8
<1> QED
  BY <1>1, <1>2

-----------------------------------------------------------------------------
(* A step, as the invariants see it.                                       *)

LEMMA StepKinds ==
  ASSUME TypeOK, [Next]_vars
  PROVE  \/ StartVariable
         \/ \E f \in Top.todo : \E value \in NewAddr \cup {NULL} : Flat(f, value)
         \/ \E f \in Top.todo : \E a \in OldAddr \cup NewAddr : \E to \in NewAddr : Deep(f, a, to)
         \/ EndFrame \/ ApplyPatchData \/ CannotMove \/ Finish \/ UNCHANGED vars
<1>1. CASE NullPointer
  BY <1>1, NullPointerIsFlat
<1>2. CASE AlreadyMoved
  BY <1>2, AlreadyMovedIsFlat
<1>3. CASE IntoVariable
  BY <1>3, IntoVariableIsDeep
<1>4. CASE IntoHeap
  BY <1>4, IntoHeapIsDeep
<1> QED
  BY <1>1, <1>2, <1>3, <1>4, Zenon DEF Next

LEMMA TypeStep ==
  ASSUME TypeOK, Control, [Next]_vars
  PROVE  TypeOK'
<1> USE DEF TypeOK
<1>1. CASE StartVariable
  BY <1>1, StartEffect
<1>2. ASSUME NEW f \in Top.todo, NEW value \in NewAddr \cup {NULL}, Flat(f, value)
      PROVE  TypeOK'
  BY <1>2 DEF Flat, Rule, Misread
<1>3. ASSUME NEW f \in Top.todo, NEW a \in OldAddr \cup NewAddr, NEW to \in NewAddr, Deep(f, a, to)
      PROVE  TypeOK'
  <2>1. mallocs' \in 0..MaxMalloc
    BY <1>3, GraphsAssumption DEF Deep, GraphsAssumption
  <2>2. \A m \in dataMoved' : m[2] \in NewAddr
    BY <1>3 DEF Deep
  <2> QED
    BY <1>3, <2>1, <2>2 DEF Deep, Rule, Misread
<1>4. CASE EndFrame
  <2>1. applying' \in Vars \cup {NULL}
    <3>1. CASE Len(stack) = 1
      <4>1. applying' = stack[1].old[1] /\ stack # << >>
        BY <1>4, <3>1, EndFrameEffect DEF Top, EndFrame, Busy
      <4> QED
        BY <4>1, PointerTypes DEF Control, Beginnings
    <3>2. CASE Len(stack) # 1
      BY <1>4, <3>2, EndFrameEffect
    <3> QED
      BY <3>1, <3>2
  <2>2. stack' \in Seq(Frame)
    BY <1>4, EndFrameEffect
  <2> QED
    BY <1>4, <2>1, <2>2 DEF EndFrame
<1>5. CASE ApplyPatchData
  BY <1>5, ApplyEffect DEF ApplyPatchData
<1>6. CASE CannotMove \/ Finish
  BY <1>6 DEF CannotMove, Finish
<1>7. CASE UNCHANGED vars
  BY <1>7 DEF vars
<1> QED
  BY <1>1, <1>2, <1>3, <1>4, <1>5, <1>6, <1>7, StepKinds

LEMMA ControlStep ==
  ASSUME TypeOK, Control, [Next]_vars
  PROVE  Control'
<1> USE DEF Control
<1>1. CASE StartVariable
  <2>1. /\ stack' # << >> /\ UNCHANGED <<applying, pc>> /\ applying = NULL /\ pc = "vars"
        /\ stack'[1].old \in Beginnings
    <3>1. PICK v \in left :
            /\ v \in InPatch /\ Len(stack') = 1 /\ stack'[1] = [old |-> <<v, 0>>, to |-> <<"data", v>>, todo |-> Fields]
            /\ stack' \in Seq(Frame) /\ applying = NULL /\ UNCHANGED <<applying, pc>>
      BY <1>1, StartEffect
    <3> QED
      BY <1>1, <3>1 DEF StartVariable, Beginnings
  <2> QED
    BY <2>1
<1>2. ASSUME NEW f \in Top.todo, NEW value \in NewAddr \cup {NULL}, Flat(f, value)
      PROVE  Control'
  <2>1. Rule(f, value, 0)
    BY <1>2 DEF Flat
  <2>2. 1 \in DOMAIN stack /\ stack' # << >> /\ stack'[1].old = stack[1].old
    <3>1. 1 \in DOMAIN stack
      BY <2>1, TopType DEF Rule
    <3>2. 1 \in DOMAIN stack' /\ stack'[1].old = stack[1].old
      BY <2>1, <3>1, RuleFrames
    <3> QED
      BY <3>1, <3>2
  <2> QED
    BY <2>1, <2>2 DEF Rule, Busy
<1>3. ASSUME NEW f \in Top.todo, NEW a \in OldAddr \cup NewAddr, NEW to \in NewAddr, Deep(f, a, to)
      PROVE  Control'
  <2>1. Rule(f, to, 1)
    BY <1>3 DEF Deep
  <2>2. 1 \in DOMAIN stack /\ stack' # << >> /\ stack'[1].old = stack[1].old
    <3>1. 1 \in DOMAIN stack
      BY <2>1, TopType DEF Rule
    <3>2. 1 \in DOMAIN stack' /\ stack'[1].old = stack[1].old
      BY <2>1, <3>1, RuleFrames
    <3> QED
      BY <3>1, <3>2
  <2> QED
    BY <2>1, <2>2 DEF Rule, Busy
<1>4. CASE EndFrame
  <2>1. /\ Len(stack) \in Nat \ {0} /\ stack' \in Seq(Frame) /\ Len(stack') = Len(stack) - 1
        /\ \A k \in 1..(Len(stack) - 1) : stack'[k] = stack[k]
        /\ stack # << >> /\ pc' = "vars"
        /\ applying' = IF Len(stack) = 1 THEN Top.old[1] ELSE NULL
    BY <1>4, EndFrameEffect DEF EndFrame, Busy
  <2>2. CASE Len(stack) = 1
    <3>1. stack' = << >>
      BY <2>1, <2>2
    <3>2. applying' \in InPatch
      BY <2>1, <2>2 DEF Top, Beginnings
    <3> QED
      BY <2>1, <3>1, <3>2, PointerTypes, DistinctAssumption DEF DistinctAssumption
  <2>3. CASE Len(stack) # 1
    BY <2>1, <2>3
  <2> QED
    BY <2>2, <2>3
<1>5. CASE ApplyPatchData
  BY <1>5 DEF ApplyPatchData
<1>6. CASE CannotMove \/ Finish
  BY <1>6 DEF CannotMove, Finish
<1>7. CASE UNCHANGED vars
  BY <1>7 DEF vars
<1> QED
  BY <1>1, <1>2, <1>3, <1>4, <1>5, <1>6, <1>7, StepKinds

LEMMA UnchangedEntries ==
  ASSUME UNCHANGED <<new, patches>>
  PROVE  UNCHANGED Entries /\ \A t, g : Entered(t, g)' <=> Entered(t, g)
BY DEF Entries, Pending, Entered

LEMMA UnchangedFrames ==
  ASSUME UNCHANGED stack
  PROVE  \A t, g : Open(t, g)' <=> Open(t, g)
BY DEF Open

LEMMA ForgottenStep ==
  ASSUME TypeOK, Control, NoneForgotten, [Next]_vars
  PROVE  NoneForgotten'
<1>1. CASE StartVariable
  <2>1. PICK v \in left :
          /\ v \in InPatch /\ left' = left \ {v} /\ stack = << >>
          /\ DOMAIN stack' = {1} /\ stack'[1] = [old |-> <<v, 0>>, to |-> <<"data", v>>, todo |-> Fields]
          /\ UNCHANGED <<new, patches, dataMoved>>
    BY <1>1, StartEffect
  <2>2. Begun' \subseteq Begun \cup {<<"data", v>>} /\ UNCHANGED Moves
    BY <2>1 DEF Begun, Moves
  <2>3. \A g \in Fields : Open(<<"data", v>>, g)'
    BY <2>1 DEF Open
  <2>4. \A t, g : ~Open(t, g)
    BY <2>1 DEF Open
  <2> QED
    BY <2>1, <2>2, <2>3, <2>4, UnchangedEntries, Zenon DEF NoneForgotten
<1>2. ASSUME NEW f \in Top.todo, NEW value \in NewAddr \cup {NULL}, Flat(f, value)
      PROVE  NoneForgotten'
  <2> DEFINE w == [at |-> Top.to, field |-> f, value |-> value]
  <2>1. Rule(f, value, 0) /\ UNCHANGED <<new, left, dataMoved>>
    BY <1>2 DEF Flat, Rule
  <2>2. Entries' = Entries \cup {w} /\ UNCHANGED <<Moves, Begun>>
    BY <2>1 DEF Rule, Entries, Moves, Begun
  <2>3. value # NULL => value \in Moves
    BY <1>2, Zenon DEF Flat, Moves
  <2>4. \A t, g : Open(t, g) => Open(t, g)' \/ (t = Top.to /\ g = f)
    BY <2>1, RuleFrames
  <2>5. w.at = Top.to /\ w.field = f /\ w.value = value
    OBVIOUS
  <2> HIDE DEF w
  <2>6. \A t, g : Entered(t, g) => Entered(t, g)'
    BY <2>2 DEF Entered
  <2>7. \E x \in Entries' : x.at = Top.to /\ x.field = f
    BY <2>2, <2>5
  <2>8. ASSUME NEW t \in Begun, NEW g \in Fields
        PROVE  (Open(t, g) \/ Entered(t, g))'
    <3>1. Open(t, g) \/ Entered(t, g)
      BY DEF NoneForgotten
    <3>2. CASE t = Top.to /\ g = f
      BY <2>7, <3>2 DEF Entered
    <3> QED
      BY <2>4, <2>6, <3>1, <3>2
  <2>9. \A x \in Entries' : x.value # NULL => x.value \in Moves'
    BY <2>2, <2>3, <2>5, Zenon DEF NoneForgotten
  <2> QED
    BY <2>2, <2>8, <2>9, Zenon DEF NoneForgotten
<1>3. ASSUME NEW f \in Top.todo, NEW a \in OldAddr \cup NewAddr, NEW to \in NewAddr, Deep(f, a, to)
      PROVE  NoneForgotten'
  <2> DEFINE w == [at |-> Top.to, field |-> f, value |-> to]
  <2>1. /\ Rule(f, to, 1) /\ UNCHANGED <<new, left>> /\ dataMoved' = dataMoved \cup {<<Key(a), to>>}
        /\ stack'[Len(stack) + 1] = [old |-> a, to |-> to, todo |-> Fields]
    BY <1>3 DEF Deep, Rule
  <2>2. Entries' = Entries \cup {w} /\ Moves' = Moves \cup {to} /\ Begun' = Begun \cup {to}
    <3>1. Entries' = Entries \cup {w}
      BY <2>1 DEF Rule, Entries
    <3>2. Moves' = Moves \cup {to}
      <4>1. Moves' \subseteq Moves \cup {to}
        BY <2>1 DEF Moves
      <4>2. to \in Moves' /\ Moves \subseteq Moves'
        BY <2>1, Zenon DEF Moves
      <4> QED
        BY <4>1, <4>2
    <3> QED
      BY <2>1, <3>1, <3>2 DEF Begun
  <2>3. \A t, g : Open(t, g) => Open(t, g)' \/ (t = Top.to /\ g = f)
    BY <2>1, RuleFrames
  <2>4. \A g \in Fields : Open(to, g)'
    <3>1. Len(stack) + 1 \in DOMAIN stack'
      <4>1. DOMAIN stack' = 1..(Len(stack) + 1)
        BY <2>1, RuleFrames
      <4> QED
        BY <2>1, <4>1, TopType DEF Rule
    <3>2. stack'[Len(stack) + 1].to = to /\ stack'[Len(stack) + 1].todo = Fields
      BY <2>1
    <3> QED
      BY <3>1, <3>2, Zenon DEF Open
  <2>5. w.at = Top.to /\ w.field = f /\ w.value = to
    OBVIOUS
  <2> HIDE DEF w
  <2>6. \A t, g : Entered(t, g) => Entered(t, g)'
    BY <2>2 DEF Entered
  <2>7. \E x \in Entries' : x.at = Top.to /\ x.field = f
    BY <2>2, <2>5
  <2>8. ASSUME NEW t \in Begun, NEW g \in Fields
        PROVE  (Open(t, g) \/ Entered(t, g))'
    <3>1. Open(t, g) \/ Entered(t, g)
      BY DEF NoneForgotten
    <3>2. CASE t = Top.to /\ g = f
      BY <2>7, <3>2 DEF Entered
    <3> QED
      BY <2>3, <2>6, <3>1, <3>2
  <2>9. \A x \in Entries' : x.value # NULL => x.value \in Moves'
    BY <2>2, <2>5, Zenon DEF NoneForgotten
  <2> QED
    BY <2>2, <2>4, <2>8, <2>9, Zenon DEF NoneForgotten
<1>4. CASE EndFrame
  <2>1. UNCHANGED <<new, patches, dataMoved, left>>
    BY <1>4 DEF EndFrame
  <2>2. UNCHANGED <<Moves, Begun>>
    BY <2>1 DEF Moves, Begun
  <2> QED
    BY <1>4, <2>1, <2>2, EndFrameEffect, UnchangedEntries, Zenon DEF NoneForgotten
<1>5. CASE ApplyPatchData
  <2>1. UNCHANGED <<stack, dataMoved, left>>
    BY <1>5 DEF ApplyPatchData
  <2>2. UNCHANGED <<Moves, Begun>>
    BY <2>1 DEF Moves, Begun
  <2>3. Entries' \subseteq Entries /\ \A t, g : Entered(t, g) => Entered(t, g)'
    <3>1. CASE UNCHANGED <<patches, new>>
      BY <3>1, UnchangedEntries
    <3> QED
      BY <1>5, <3>1, ApplyEffect
  <2> QED
    BY <2>1, <2>2, <2>3, UnchangedFrames, Zenon DEF NoneForgotten
<1>6. CASE CannotMove \/ Finish \/ UNCHANGED vars
  <2>1. UNCHANGED <<new, patches, stack, dataMoved, left>>
    BY <1>6 DEF CannotMove, Finish, vars
  <2>2. UNCHANGED <<Moves, Begun>>
    BY <2>1 DEF Moves, Begun
  <2> QED
    BY <2>1, <2>2, UnchangedEntries, UnchangedFrames, Zenon DEF NoneForgotten
<1> QED
  BY <1>1, <1>2, <1>3, <1>4, <1>5, <1>6, StepKinds

LEMMA CompleteStep ==
  ASSUME TypeOK, Control, NoneForgotten, WrittenDataIsComplete, [Next]_vars
  PROVE  WrittenDataIsComplete'
<1>1. CASE UNCHANGED new /\ applying = NULL
  BY <1>1 DEF WrittenDataIsComplete, Written
<1>2. CASE applying' # NULL
  BY <1>2 DEF WrittenDataIsComplete
<1>3. CASE ApplyPatchData /\ applying' = NULL
  <2>1. patches = << >> /\ new' = new /\ stack = << >> /\ applying # NULL
    BY <1>3, ApplyEffect DEF ApplyPatchData, Control
  <2>2. Entries = new /\ \A t, g : ~Open(t, g)
    BY <2>1 DEF Entries, Pending, Open
  <2>3. ASSUME NEW w \in new, w.value # NULL, NEW f \in Fields
        PROVE  Written(w.value, f) # {}
    <3>1. Entered(w.value, f)
      BY <2>2, <2>3 DEF NoneForgotten, Begun
    <3> QED
      BY <2>2, <3>1 DEF Entered, Written
  <2> QED
    BY <2>1, <2>3 DEF WrittenDataIsComplete, Written
<1>4. CASE ~ApplyPatchData
  <2>1. new' = new /\ (applying' = NULL => applying = NULL)
    BY <1>4, StepKinds DEF StartVariable, Flat, Deep, Rule, EndFrame, Busy, CannotMove, Finish, vars
  <2> QED
    BY <1>1, <1>2, <2>1
<1> QED
  BY <1>2, <1>3, <1>4

-----------------------------------------------------------------------------
(* The recursion.                                                          *)

LEMMA FollowedIsFinite ==
  ASSUME TypeOK
  PROVE  IsFiniteSet(Followed)
<1>1. IsFiniteSet(OldAddr \X Fields)
  <2>1. IsFiniteSet(Objects) /\ IsFiniteSet(Fields)
    BY FiniteAssumption, FS_Union DEF FiniteAssumption, Objects
  <2>2. IsFiniteSet({0, 1})
    <3>1. IsFiniteSet({0} \cup {1})
      BY FS_Singleton, FS_Union
    <3>2. {0, 1} = {0} \cup {1}
      OBVIOUS
    <3> QED
      BY <3>1, <3>2, Zenon
  <2>3. IsFiniteSet(OldAddr)
    BY <2>1, <2>2, FS_Product DEF OldAddr
  <2> QED
    BY <2>1, <2>3, FS_Product
<1>2. IsFiniteSet(Targets)
  <2> DEFINE image == { ptr[x] : x \in OldAddr \X Fields }
  <2>1. ptr \in Surjection(OldAddr \X Fields, image)
    BY PointerTypes DEF Surjection
  <2>2. IsFiniteSet(image)
    BY <1>1, <2>1, FS_Surjection
  <2> QED
    BY <2>2, FS_Subset DEF Targets
<1>3. IsFiniteSet(NewAddr)
  <2>1. IsFiniteSet({"data"} \X Vars)
    BY FiniteAssumption, FS_Singleton, FS_Product DEF FiniteAssumption
  <2>2. IsFiniteSet({"malloc"} \X (1..MaxMalloc))
    <3>1. IsFiniteSet(1..MaxMalloc)
      BY GraphsAssumption, FS_Interval DEF GraphsAssumption
    <3> QED
      BY <3>1, FS_Singleton, FS_Product
  <2> QED
    BY <2>1, <2>2, FS_Union DEF NewAddr
<1>4. CASE misread # {}
  BY <1>2, <1>3, <1>4, FS_Union DEF Followed
<1>5. CASE misread = {}
  BY <1>2, <1>5 DEF Followed
<1> QED
  BY <1>4, <1>5

(* The addresses followed are old pointers, unless one has been misread.   *)
LEMMA ReadIsFollowed ==
  ASSUME TypeOK, Depth, Busy, NEW f \in Top.todo, Read(Top.old, f) # NULL,
         misread' = Misread(f), UNCHANGED ptr
  PROVE  /\ Read(Top.old, f) \in Followed'
         /\ misread' = {} => /\ misread = {} /\ Top.old \in OldAddr
                            /\ Read(Top.old, f) = ptr[<<Top.old, f>>] /\ Read(Top.old, f) \in OldAddr
<1> DEFINE o == Top.old
           a == Read(o, f)
<1>1. o \in OldAddr \cup NewAddr /\ f \in Fields
  BY TopType
<1>2. misread = {} => o \in OldAddr
  BY TopType DEF Depth, Top
<1>3. CASE o \in OldAddr /\ <<o, f>> \notin relocated
  <2>1. a = ptr[<<o, f>>]
    BY <1>1, <1>3, ReadType
  <2>2. a \in Targets /\ a \in OldAddr
    BY <1>1, <1>3, <2>1, PointerTypes DEF Targets
  <2>3. Targets' = Targets
    BY DEF Targets
  <2>4. misread \subseteq misread'
    BY DEF Misread
  <2> QED
    BY <1>2, <1>3, <2>1, <2>2, <2>3, <2>4 DEF Followed
<1>4. CASE ~(o \in OldAddr /\ <<o, f>> \notin relocated)
  <2>1. misread' # {}
    BY <1>2, <1>4 DEF Misread
  <2>2. a \in NewAddr
    BY <1>1, <1>4, ReadType
  <2> QED
    BY <2>1, <2>2 DEF Followed
<1> QED
  BY <1>3, <1>4

LEMMA OpenedGrows ==
  ASSUME TypeOK, TypeOK', UNCHANGED ptr, misread \subseteq misread', dataMoved \subseteq dataMoved'
  PROVE  /\ Opened \subseteq Opened' /\ IsFiniteSet(Opened')
         /\ Cardinality(Opened) \in Nat /\ Cardinality(Opened') \in Nat
         /\ Cardinality(Opened) <= Cardinality(Opened')
<1>1. Followed \subseteq Followed'
  BY DEF Followed, Targets
<1>2. \A a : Moved(a) # {} => (Moved(a) # {})'
  BY DEF Moved
<1>3. Opened \subseteq Opened'
  BY <1>1, <1>2, Zenon DEF Opened
<1>4. IsFiniteSet(Opened')
  <2>1. IsFiniteSet(Followed)'
    BY FollowedIsFinite, PTL
  <2> QED
    BY <2>1, FS_Subset DEF Opened
<1> QED
  BY <1>3, <1>4, FS_Subset, FS_CardinalityType

LEMMA DepthStep ==
  ASSUME TypeOK, TypeOK', Depth, [Next]_vars
  PROVE  Depth'
<1>0. Len(stack) \in Nat
  BY DEF TypeOK
<1>1. CASE StartVariable
  <2>1. PICK v \in left :
          /\ v \in InPatch /\ Len(stack') = 1 /\ DOMAIN stack' = {1}
          /\ stack'[1] = [old |-> <<v, 0>>, to |-> <<"data", v>>, todo |-> Fields]
          /\ UNCHANGED <<ptr, misread, dataMoved>>
    BY <1>1, StartEffect
  <2>2. Cardinality(Opened') \in Nat
    BY <2>1, OpenedGrows
  <2> QED
    BY <2>1, <2>2, PointerTypes DEF Depth, OldAddr, Objects
<1>2. ASSUME NEW f \in Top.todo, NEW value \in NewAddr \cup {NULL}, Flat(f, value)
      PROVE  Depth'
  <2>1. Rule(f, value, 0) /\ UNCHANGED <<ptr, dataMoved>> /\ misread \subseteq misread' /\ Len(stack') = Len(stack)
    <3>1. Rule(f, value, 0) /\ UNCHANGED <<ptr, dataMoved>> /\ Len(stack') = Len(stack) + 0
      BY <1>2 DEF Flat, Rule
    <3>2. misread \subseteq misread'
      BY <1>2 DEF Flat, Rule, Misread
    <3> QED
      BY <1>0, <3>1, <3>2
  <2>2. Cardinality(Opened) <= Cardinality(Opened') /\ Cardinality(Opened) \in Nat /\ Cardinality(Opened') \in Nat
    BY <2>1, OpenedGrows
  <2>3. DOMAIN stack' = DOMAIN stack /\ \A k \in DOMAIN stack : stack'[k].old = stack[k].old
    BY <2>1, <1>0, RuleFrames DEF TypeOK
  <2> QED
    BY <1>0, <2>1, <2>2, <2>3 DEF Depth
<1>3. ASSUME NEW f \in Top.todo, NEW a \in OldAddr \cup NewAddr, NEW to \in NewAddr, Deep(f, a, to)
      PROVE  Depth'
  <2>1. /\ Rule(f, to, 1) /\ UNCHANGED ptr /\ dataMoved' = dataMoved \cup {<<Key(a), to>>}
        /\ misread' = Misread(f)
        /\ Len(stack') = Len(stack) + 1 /\ Busy
        /\ a = Read(Top.old, f) /\ a # NULL /\ Moved(a) = {}
        /\ stack'[Len(stack) + 1] = [old |-> a, to |-> to, todo |-> Fields]
    BY <1>3 DEF Deep, Rule
  <2>2. /\ Opened \subseteq Opened' /\ IsFiniteSet(Opened')
        /\ Cardinality(Opened) \in Nat /\ Cardinality(Opened') \in Nat
    <3>1. misread \subseteq misread' /\ dataMoved \subseteq dataMoved'
      BY <2>1 DEF Misread
    <3> QED
      BY <2>1, <3>1, OpenedGrows
  <2>3. a \in Followed' /\ (misread' = {} => misread = {} /\ a \in OldAddr)
    BY <2>1, ReadIsFollowed
  <2>4. a \in Opened' /\ a \notin Opened
    <3>1. Moved(a)' # {}
      <4> DEFINE move == <<Key(a), to>>
      <4>1. move \in dataMoved' /\ move[1] = Key(a)
        BY <2>1
      <4> HIDE DEF move
      <4> QED
        BY <4>1 DEF Moved
    <3> QED
      BY <2>1, <2>3, <3>1 DEF Opened
  <2>5. Cardinality(Opened) + 1 <= Cardinality(Opened')
    <3>1. IsFiniteSet(Opened)
      BY <2>2, FS_Subset
    <3>2. Cardinality(Opened \cup {a}) = Cardinality(Opened) + 1
      BY <2>4, <3>1, FS_AddElement
    <3>3. Opened \cup {a} \subseteq Opened'
      BY <2>2, <2>4
    <3>4. Cardinality(Opened \cup {a}) <= Cardinality(Opened')
      BY <2>2, <3>3, FS_Subset
    <3> QED
      BY <3>2, <3>4
  <2>6. misread' = {} => \A k \in DOMAIN stack' : stack'[k].old \in OldAddr
    <3>1. DOMAIN stack' = 1..(Len(stack) + 1) /\ \A k \in DOMAIN stack : stack'[k].old = stack[k].old
      BY <2>1, RuleFrames
    <3>2. misread' = {} => stack'[Len(stack) + 1].old \in OldAddr
      BY <2>1, <2>3
    <3>3. DOMAIN stack = 1..Len(stack)
      BY DEF TypeOK
    <3> QED
      BY <1>0, <2>3, <3>1, <3>2, <3>3 DEF Depth
  <2>7. Len(stack') <= Cardinality(Opened') + 1
    BY <1>0, <2>1, <2>2, <2>5 DEF Depth
  <2> QED
    BY <2>6, <2>7 DEF Depth
<1>4. CASE EndFrame
  <2>1. UNCHANGED <<ptr, misread, dataMoved>>
    BY <1>4 DEF EndFrame
  <2>2. Cardinality(Opened) <= Cardinality(Opened') /\ Cardinality(Opened) \in Nat /\ Cardinality(Opened') \in Nat
    BY <2>1, OpenedGrows
  <2>3. /\ Len(stack') = Len(stack) - 1 /\ DOMAIN stack' \subseteq DOMAIN stack
        /\ \A k \in DOMAIN stack' : stack'[k] = stack[k]
    BY <1>4, EndFrameEffect
  <2> QED
    BY <1>0, <2>1, <2>2, <2>3 DEF Depth
<1>5. CASE ApplyPatchData \/ CannotMove \/ Finish \/ UNCHANGED vars
  <2>1. UNCHANGED <<ptr, misread, dataMoved, stack>>
    BY <1>5 DEF ApplyPatchData, CannotMove, Finish, vars
  <2>2. Cardinality(Opened) <= Cardinality(Opened') /\ Cardinality(Opened) \in Nat /\ Cardinality(Opened') \in Nat
    BY <2>1, OpenedGrows
  <2> QED
    BY <1>0, <2>1, <2>2 DEF Depth
<1> QED
  BY <1>1, <1>2, <1>3, <1>4, <1>5, StepKinds

-----------------------------------------------------------------------------
(* The map.                                                                *)

LEMMA MovedOnceStep ==
  ASSUME TypeOK, MovedOnce, [Next]_vars
  PROVE  MovedOnce'
<1>1. CASE UNCHANGED <<dataMoved, mallocs>>
  BY <1>1 DEF MovedOnce, Moves
<1>2. ASSUME NEW f \in Top.todo, NEW a \in OldAddr \cup NewAddr, NEW to \in NewAddr, Deep(f, a, to)
      PROVE  MovedOnce'
  <2> DEFINE move == <<Key(a), to>>
  <2>1. dataMoved' = dataMoved \cup {move} /\ Moved(a) = {} /\ mallocs \in Nat
    BY <1>2, GraphsAssumption DEF Deep, TypeOK, GraphsAssumption
  <2>2. \A m \in dataMoved : m[1] # move[1]
    BY <2>1 DEF Moved
  <2>3. \A m \in dataMoved : m[2] \in ({"data"} \X InPatch) \cup ({"malloc"} \X (1..mallocs))
    BY DEF MovedOnce, Moves
  <2>4. CASE a[1] \in InPatch /\ to = <<"data", a[1]>> /\ UNCHANGED mallocs
    <3>1. move = <<move[1], move[2]>> /\ move[2] = to /\ move[2][1] = "data"
      BY <2>4
    <3>2. to \in {"data"} \X InPatch
      BY <2>4
    <3> HIDE DEF move
    <3>3. Moves' \subseteq Moves \cup {to}
      BY <2>1, <3>1 DEF Moves
    <3> QED
      BY <2>1, <2>2, <2>4, <3>1, <3>2, <3>3 DEF MovedOnce
  <2>5. CASE to = <<"malloc", mallocs + 1>> /\ mallocs' = mallocs + 1
    <3>1. move = <<move[1], move[2]>> /\ move[2] = to
      OBVIOUS
    <3>2. to \in {"malloc"} \X (1..mallocs') /\ 1..mallocs \subseteq 1..mallocs'
      BY <2>1, <2>5
    <3>3. \A m \in dataMoved : m[2] # to
      BY <2>1, <2>3, <2>5
    <3> HIDE DEF move
    <3>4. Moves' \subseteq Moves \cup {to}
      BY <2>1, <3>1 DEF Moves
    <3>5. Moves' \subseteq ({"data"} \X InPatch) \cup ({"malloc"} \X (1..mallocs'))
      BY <3>2, <3>4 DEF MovedOnce
    <3> QED
      BY <2>1, <2>2, <3>1, <3>3, <3>5 DEF MovedOnce
  <2> QED
    BY <1>2, <2>4, <2>5 DEF Deep
<1> QED
  BY <1>1, <1>2, StepKinds
  DEF StartVariable, Flat, EndFrame, ApplyPatchData, CannotMove, Finish, vars

-----------------------------------------------------------------------------
(* The shape.                                                              *)

(* The addresses the variables lead to are closed under the pointers.      *)
LEMMA AllIsClosed ==
  ASSUME TypeOK
  PROVE  /\ Beginnings \subseteq All /\ All \subseteq OldAddr
         /\ \A a \in All, f \in Fields : ptr[<<a, f>>] # NULL => ptr[<<a, f>>] \in All
<1>1. Beginnings \subseteq All
  BY DEF All, ReachableBut
<1>2. All \subseteq OldAddr
  <2>1. Beginnings \subseteq OldAddr
    BY PointerTypes DEF Beginnings, OldAddr, Objects
  <2>2. Targets \subseteq OldAddr
    BY PointerTypes DEF Targets
  <2> QED
    BY <2>1, <2>2 DEF All, ReachableBut
<1>3. ASSUME NEW a \in All, NEW f \in Fields, ptr[<<a, f>>] # NULL
      PROVE  ptr[<<a, f>>] \in All
  <2>1. ptr[<<a, f>>] \in Targets
    <3>1. <<a, f>> \in OldAddr \X Fields
      BY <1>2
    <3> QED
      BY <1>3, <3>1 DEF Targets
  <2>2. ASSUME NEW S \in SUBSET (Beginnings \cup Targets), Beginnings \subseteq S, Closed(S, {})
        PROVE  ptr[<<a, f>>] \in S
    <3>1. a \in S
      BY <2>2 DEF All, ReachableBut
    <3>2. <<a, f>> \in (S \X Fields) \ {}
      BY <3>1
    <3> QED
      BY <1>3, <2>2, <3>2 DEF Closed
  <2> QED
    BY <2>1, <2>2 DEF All, ReachableBut
<1> QED
  BY <1>1, <1>2, <1>3

LEMMA AllStays ==
  ASSUME UNCHANGED ptr
  PROVE  All' = All /\ Known' = Known
<1>1. Targets' = Targets /\ \A S : Closed(S, {})' <=> Closed(S, {})
  BY DEF Targets, Closed
<1>2. All' = All
  BY <1>1 DEF All, ReachableBut
<1> QED
  BY <1>2 DEF Known

LEMMA PlaceKept ==
  ASSUME UNCHANGED <<ptr, relocs>>, dataMoved \subseteq dataMoved', misread \subseteq misread'
  PROVE  /\ \A a, t : Place(a, t) => Place(a, t)'
         /\ \A a, f, value : Leads(a, f, value) => Leads(a, f, value)'
         /\ \A m : KeyedRight(m) => KeyedRight(m)'
         /\ \A w : EntryRight(w) => EntryRight(w)'
<1>1. \A a, t : Place(a, t) => Place(a, t)'
  BY Zenon DEF Place
<1>2. \A a, f, value : Leads(a, f, value) => Leads(a, f, value)'
  <2> SUFFICES ASSUME NEW a, NEW f, NEW value, Leads(a, f, value)
               PROVE  Leads(a, f, value)'
    OBVIOUS
  <2> QED
    BY DEF Leads
<1>3. Known' = Known
  BY AllStays
<1>4. \A m : KeyedRight(m) => KeyedRight(m)'
  BY <1>1, <1>3, Zenon DEF KeyedRight
<1>5. \A w : EntryRight(w) => EntryRight(w)'
  BY <1>1, <1>2, <1>3, Zenon DEF EntryRight
<1> QED
  BY <1>1, <1>2, <1>4, <1>5

(* Pointers dealt with remain so.                                          *)
LEMMA DealtKept ==
  ASSUME UNCHANGED ptr, dataMoved \subseteq dataMoved', misread \subseteq misread'
  PROVE  \A a, f : Dealt(a, f) => Dealt(a, f)'
<1>1. \A b : Moved(b) # {} => (Moved(b) # {})'
  BY DEF Moved
<1> QED
  BY <1>1, Zenon DEF Dealt

(* The pointer a rule is about.                                            *)
LEMMA RuleReads ==
  ASSUME TypeOK, FramesPlaced, Busy, NEW f \in Top.todo
  PROVE  /\ Top.old \in Known /\ f \in Fields /\ Place(Top.old, Top.to)
         /\ Read(Top.old, f) \in Known \cup {NULL}
         /\ Top.old \in OldAddr =>
              \/ Read(Top.old, f) = ptr[<<Top.old, f>>]
              \/ <<Top.old, f>> \in Misread(f) /\ Read(Top.old, f) = <<"data", relocs[<<Top.old, f>>]>>
                                               /\ Read(Top.old, f) \in NewAddr
<1> DEFINE o == Top.old
<1>1. o \in Known /\ f \in Fields /\ Place(o, Top.to) /\ o \in OldAddr \cup NewAddr
  BY TopType DEF FramesPlaced, Top
<1>2. CASE o \in OldAddr /\ <<o, f>> \in relocated
  <2>1. <<o, f>> \in Misread(f)
    BY <1>2 DEF Misread
  <2> QED
    BY <1>1, <1>2, <2>1, ReadType DEF Known
<1>3. CASE o \in OldAddr /\ <<o, f>> \notin relocated
  <2>1. Read(o, f) = ptr[<<o, f>>] /\ o \in All
    BY <1>1, <1>3, ReadType, AddressTypes DEF Known
  <2> QED
    BY <1>1, <2>1, AllIsClosed DEF Known
<1>4. CASE o \notin OldAddr
  BY <1>1, <1>4, ReadType DEF Known
<1> QED
  BY <1>2, <1>3, <1>4

LEMMA KnownTypes ==
  ASSUME TypeOK
  PROVE  Known \subseteq OldAddr \cup NewAddr
BY AllIsClosed DEF Known

(* What a rule writes, once the address read is in the map.                *)
LEMMA RuleEntryRight ==
  ASSUME TypeOK, TypeOK', FramesPlaced, NEW f \in Top.todo, NEW value, NEW n, Rule(f, value, n),
         dataMoved \subseteq dataMoved',
         \/ Read(Top.old, f) = NULL /\ value = NULL
         \/ Read(Top.old, f) # NULL /\ <<Key(Read(Top.old, f)), value>> \in dataMoved'
  PROVE  \A w : w.at = Top.to /\ w.field = f /\ w.value = value => EntryRight(w)'
<1>0. PICK o, r : o = Top.old /\ r = Read(Top.old, f)
  OBVIOUS
<1>1. /\ o \in Known /\ Place(o, Top.to)
      /\ o \in OldAddr =>
           \/ r = ptr[<<o, f>>]
           \/ <<o, f>> \in misread' /\ r = <<"data", relocs[<<o, f>>]>> /\ r \in NewAddr
  BY <1>0, RuleReads DEF Rule
<1>2. UNCHANGED <<ptr, relocs>> /\ misread \subseteq misread'
  BY DEF Rule, Misread
<1>3. o \in OldAddr => Leads(o, f, value)'
  <2> SUFFICES ASSUME o \in OldAddr
               PROVE  Leads(o, f, value)'
    OBVIOUS
  <2>1. CASE r = ptr[<<o, f>>]
    BY <1>0, <1>2, <2>1 DEF Leads
  <2>2. CASE <<o, f>> \in misread' /\ r = <<"data", relocs[<<o, f>>]>> /\ r \in NewAddr
    BY <1>0, <1>2, <2>2, AddressTypes DEF Leads
  <2> QED
    BY <1>1, <2>1, <2>2
<1>4. PICK t : t = Top.to
  OBVIOUS
<1>5. Place(o, t)' /\ o \in Known'
  BY <1>1, <1>2, <1>4, PlaceKept, AllStays
<1> SUFFICES ASSUME NEW w, w.at = t, w.field = f, w.value = value
             PROVE  EntryRight(w)'
  BY <1>4
<1>6. Place(o, w.at)' /\ (o \in OldAddr => Leads(o, w.field, w.value)')
  BY <1>3, <1>5
<1> QED
  BY <1>5, <1>6, Zenon DEF EntryRight

(* The address a rule recurses to has the new address it is given.         *)
LEMMA DeepPlaces ==
  ASSUME TypeOK, FramesPlaced,
         NEW f \in Top.todo, NEW a \in OldAddr \cup NewAddr, NEW to \in NewAddr, Deep(f, a, to)
  PROVE  a \in Known' /\ Place(a, to)' /\ KeyedRight(<<Key(a), to>>)'
<1>1. Busy /\ a = Read(Top.old, f) /\ a # NULL /\ UNCHANGED ptr
  BY DEF Deep, Rule
<1>2. a \in Known'
  BY <1>1, RuleReads, AllStays
<1>3. Place(a, to)'
  <2>1. CASE a[1] \in InPatch /\ to = <<"data", a[1]>>
    BY <2>1 DEF Place
  <2>2. CASE (a \in NewAddr \/ a[1] \in Heap) /\ to = <<"malloc", mallocs + 1>>
    <3>1. <<Key(a), to>> \in dataMoved' /\ to[1] = "malloc"
      BY <2>2 DEF Deep
    <3> QED
      BY <2>2, <3>1 DEF Place
  <2> QED
    BY <2>1, <2>2 DEF Deep
<1>4. KeyedRight(<<Key(a), to>>)'
  BY <1>2, <1>3 DEF KeyedRight
<1> QED
  BY <1>2, <1>3, <1>4

(* The pointers in hand of the frames that stay are in hand or the rule's. *)
LEMMA RuleInHand ==
  ASSUME TypeOK, NEW f, NEW value, NEW n \in {0, 1}, Rule(f, value, n)
  PROVE  \A a, g : InHand(a, g) => InHand(a, g)' \/ (a = Top.old /\ g = f)
<1>1. /\ Len(stack) \in Nat \ {0} /\ DOMAIN stack = 1..Len(stack)
      /\ DOMAIN stack' = 1..(Len(stack) + n)
  BY TopType, RuleFrames DEF Rule
<1> SUFFICES ASSUME NEW a, NEW g, NEW k \in DOMAIN stack, stack[k].old = a, g \in stack[k].todo
             PROVE  InHand(a, g)' \/ (a = Top.old /\ g = f)
  BY DEF InHand
<1>2. k \in DOMAIN stack'
  BY <1>1
<1>3. CASE k = Len(stack)
  <2>1. stack'[k] = Without(stack[k], f) /\ stack[k] = Top
    BY <1>3 DEF Rule, Top
  <2> QED
    BY <1>2, <2>1 DEF Without, InHand
<1>4. CASE k # Len(stack)
  <2>1. stack'[k] = stack[k]
    BY <1>1, <1>4 DEF Rule
  <2> QED
    BY <1>2, <2>1 DEF InHand
<1> QED
  BY <1>3, <1>4

(* The pointer of a rule is dealt with when the address read is in the map.*)
LEMMA RuleDeals ==
  ASSUME TypeOK, FramesPlaced, NEW f \in Top.todo, NEW value, NEW n, Rule(f, value, n),
         NEW r, r = Read(Top.old, f), r = NULL \/ Moved(r)' # {}
  PROVE  \A a \in OldAddr : a = Top.old => Dealt(a, f)'
<1> SUFFICES ASSUME NEW a \in OldAddr, a = Top.old
             PROVE  Dealt(a, f)'
  OBVIOUS
<1>1. UNCHANGED ptr /\ (r = ptr[<<a, f>>] \/ <<a, f>> \in misread')
  BY RuleReads DEF Rule
<1> QED
  BY <1>1 DEF Dealt

-----------------------------------------------------------------------------
(* Each kind of step keeps the shape.                                      *)

LEMMA ShapeStart ==
  ASSUME TypeOK, ShapeInv, StartVariable
  PROVE  ShapeInv'
<1>1. PICK v \in left :
        /\ v \in InPatch /\ left' = left \ {v} /\ stack = << >> /\ DOMAIN stack' = {1}
        /\ stack'[1] = [old |-> <<v, 0>>, to |-> <<"data", v>>, todo |-> Fields]
        /\ UNCHANGED <<ptr, relocs, misread, new, patches, dataMoved>>
  BY StartEffect
<1>2. FramesPlaced'
  <2>1. <<v, 0>> \in Known'
    BY <1>1, AllIsClosed, AllStays DEF Known, Beginnings
  <2>2. Place(<<v, 0>>, <<"data", v>>)'
    BY <1>1 DEF Place
  <2> QED
    BY <1>1, <2>1, <2>2 DEF FramesPlaced
<1>3. (\A m \in dataMoved' : KeyedRight(m)') /\ (\A w \in Entries' : EntryRight(w)')
  BY <1>1, PlaceKept, UnchangedEntries, Zenon DEF ShapeInv
<1>4. NoneUnfollowed'
  <2>1. Visited' \subseteq Visited \cup {<<v, 0>>}
    BY <1>1 DEF Visited, Moved
  <2>2. \A f \in Fields : InHand(<<v, 0>>, f)'
    BY <1>1 DEF InHand
  <2>3. \A a, f : ~InHand(a, f)
    BY <1>1 DEF InHand
  <2>4. \A a, f : Dealt(a, f) => Dealt(a, f)'
    BY <1>1, DealtKept
  <2> QED
    BY <2>1, <2>2, <2>3, <2>4 DEF NoneUnfollowed, ShapeInv
<1> QED
  BY <1>2, <1>3, <1>4 DEF ShapeInv

LEMMA ShapeFlat ==
  ASSUME TypeOK, TypeOK', MovedOnce, ShapeInv,
         NEW f \in Top.todo, NEW value \in NewAddr \cup {NULL}, Flat(f, value)
  PROVE  ShapeInv'
<1>0. PICK e : e = [at |-> Top.to, field |-> f, value |-> value]
  OBVIOUS
<1>1. /\ Rule(f, value, 0) /\ UNCHANGED <<ptr, relocs, dataMoved, new, left>> /\ Pending' = Pending \cup {e}
      /\ misread \subseteq misread' /\ Busy
  BY <1>0 DEF Flat, Rule, Misread
<1>2. \/ Read(Top.old, f) = NULL /\ value = NULL
      \/ /\ Read(Top.old, f) # NULL
         /\ \E m \in dataMoved : m[1] = Key(Read(Top.old, f)) /\ m[2] = value
  BY DEF Flat
<1>3. FramesPlaced'
  <2>1. Len(stack) \in Nat /\ DOMAIN stack = 1..Len(stack) /\ DOMAIN stack' = 1..(Len(stack) + 0)
    BY <1>1, RuleFrames, TopType
  <2>2. \A k \in DOMAIN stack : stack'[k].old = stack[k].old /\ stack'[k].to = stack[k].to
    BY <1>1, RuleFrames
  <2> QED
    BY <1>1, <2>1, <2>2, PlaceKept, AllStays DEF FramesPlaced, ShapeInv
<1>4. EntryRight(e)'
  <2>1. Read(Top.old, f) # NULL => <<Key(Read(Top.old, f)), value>> \in dataMoved'
    BY <1>1, <1>2 DEF MovedOnce
  <2>2. \A w : w.at = Top.to /\ w.field = f /\ w.value = value => EntryRight(w)'
    BY <1>1, <1>2, <2>1, RuleEntryRight DEF ShapeInv
  <2> QED
    BY <1>0, <2>2
<1>5. (\A m \in dataMoved' : KeyedRight(m)') /\ (\A w \in Entries' : EntryRight(w)')
  <2>1. Entries' = Entries \cup {e}
    BY <1>1, Zenon DEF Entries
  <2> QED
    BY <1>1, <1>4, <2>1, PlaceKept, Zenon DEF ShapeInv
<1>6. NoneUnfollowed'
  <2>1. Visited' = Visited
    BY <1>1 DEF Visited, Moved
  <2>2. PICK r : r = Read(Top.old, f)
    OBVIOUS
  <2>3. r = NULL \/ Moved(r)' # {}
    BY <1>1, <1>2, <2>2 DEF Moved
  <2>4. \A a \in OldAddr : a = Top.old => Dealt(a, f)'
    BY <1>1, <2>2, <2>3, RuleDeals DEF ShapeInv
  <2>5. \A a, g : Dealt(a, g) => Dealt(a, g)'
    BY <1>1, DealtKept
  <2>6. \A a, g : InHand(a, g) => InHand(a, g)' \/ (a = Top.old /\ g = f)
    BY <1>1, RuleInHand
  <2>7. Visited \subseteq OldAddr
    BY PointerTypes DEF Visited, OldAddr, Objects, TypeOK
  <2> QED
    BY <2>1, <2>4, <2>5, <2>6, <2>7 DEF NoneUnfollowed, ShapeInv
<1> QED
  BY <1>3, <1>5, <1>6 DEF ShapeInv

LEMMA ShapeDeep ==
  ASSUME KeysDistinct, TypeOK, TypeOK', ShapeInv,
         NEW f \in Top.todo, NEW a \in OldAddr \cup NewAddr, NEW to \in NewAddr, Deep(f, a, to)
  PROVE  ShapeInv'
<1>0. PICK e : e = [at |-> Top.to, field |-> f, value |-> to]
  OBVIOUS
<1> DEFINE move == <<Key(a), to>>
<1>1. /\ Rule(f, to, 1) /\ UNCHANGED <<ptr, relocs, new, left>> /\ Pending' = Pending \cup {e}
      /\ dataMoved' = dataMoved \cup {move} /\ misread \subseteq misread' /\ Busy
      /\ stack'[Len(stack) + 1] = [old |-> a, to |-> to, todo |-> Fields]
      /\ a = Read(Top.old, f) /\ a # NULL
  BY <1>0 DEF Deep, Rule, Misread
<1>2. a \in Known' /\ Place(a, to)' /\ KeyedRight(move)'
  BY DeepPlaces DEF ShapeInv
<1>3. /\ DOMAIN stack' = 1..(Len(stack) + 1) /\ DOMAIN stack = 1..Len(stack) /\ Len(stack) \in Nat
      /\ \A k \in DOMAIN stack : stack'[k].old = stack[k].old /\ stack'[k].to = stack[k].to
  BY <1>1, RuleFrames, TopType
<1>4. FramesPlaced'
  <2> SUFFICES ASSUME NEW k \in DOMAIN stack'
               PROVE  stack'[k].old \in Known' /\ Place(stack[k].old, stack[k].to)'
    BY DEF FramesPlaced
  <2>1. CASE k = Len(stack) + 1
    BY <1>1, <1>2, <2>1
  <2>2. CASE k \in DOMAIN stack
    BY <1>1, <1>3, <2>2, PlaceKept, AllStays DEF FramesPlaced, ShapeInv
  <2> QED
    BY <1>3, <2>1, <2>2
<1>5. EntryRight(e)'
  <2>1. \A w : w.at = Top.to /\ w.field = f /\ w.value = to => EntryRight(w)'
    BY <1>1, RuleEntryRight DEF ShapeInv
  <2> QED
    BY <1>0, <2>1
<1>6. (\A m \in dataMoved' : KeyedRight(m)') /\ (\A w \in Entries' : EntryRight(w)')
  <2> HIDE DEF move
  <2>1. Entries' = Entries \cup {e}
    BY <1>1, Zenon DEF Entries
  <2> QED
    BY <1>1, <1>2, <1>5, <2>1, PlaceKept, Zenon DEF ShapeInv
<1>7. NoneUnfollowed'
  <2>1. Moved(a)' # {}
    <3>1. move \in dataMoved' /\ move[1] = Key(a)
      BY <1>1
    <3> HIDE DEF move
    <3> QED
      BY <3>1 DEF Moved
  <2>2. \A b \in Visited' : b \in Visited \/ b = a
    <3> SUFFICES ASSUME NEW b \in OldAddr, Moved(b)' # {}, Moved(b) = {}
                 PROVE  b = a
      BY <1>1 DEF Visited
    <3>1. PICK m \in dataMoved' : m[1] = Key(b)
      BY DEF Moved
    <3>2. m \notin dataMoved
      BY <3>1 DEF Moved
    <3>3. m[1] = Key(a)
      BY <1>1, <3>2
    <3> QED
      BY <3>1, <3>3 DEF KeysDistinct
  <2>3. \A g \in Fields : InHand(a, g)'
    <3>1. /\ Len(stack) + 1 \in DOMAIN stack'
          /\ stack'[Len(stack) + 1].old = a /\ stack'[Len(stack) + 1].todo = Fields
      BY <1>1, <1>3
    <3> QED
      BY <3>1, Zenon DEF InHand
  <2>4. \A b \in OldAddr : b = Top.old => Dealt(b, f)'
    BY <1>1, <2>1, RuleDeals DEF ShapeInv
  <2>5. \A b, g : Dealt(b, g) => Dealt(b, g)'
    BY <1>1, DealtKept
  <2>6. \A b, g : InHand(b, g) => InHand(b, g)' \/ (b = Top.old /\ g = f)
    BY <1>1, RuleInHand
  <2>7. Visited \subseteq OldAddr
    BY PointerTypes DEF Visited, OldAddr, Objects, TypeOK
  <2> QED
    BY <2>2, <2>3, <2>4, <2>5, <2>6, <2>7 DEF NoneUnfollowed, ShapeInv
<1> QED
  BY <1>4, <1>6, <1>7 DEF ShapeInv

LEMMA ShapeEndFrame ==
  ASSUME TypeOK, ShapeInv, EndFrame
  PROVE  ShapeInv'
<1>1. UNCHANGED <<ptr, relocs, misread, new, left, patches, dataMoved>>
  BY DEF EndFrame
<1>2. /\ DOMAIN stack' \subseteq DOMAIN stack /\ \A k \in DOMAIN stack' : stack'[k] = stack[k]
      /\ \A k \in DOMAIN stack \ DOMAIN stack' : stack[k].todo = {}
  <2>1. /\ Len(stack) \in Nat \ {0} /\ DOMAIN stack' = 1..(Len(stack) - 1) /\ DOMAIN stack = 1..Len(stack)
        /\ Top.todo = {} /\ \A k \in DOMAIN stack' : stack'[k] = stack[k]
    BY EndFrameEffect
  <2> QED
    BY <2>1 DEF Top
<1>3. FramesPlaced'
  BY <1>1, <1>2, PlaceKept, AllStays DEF FramesPlaced, ShapeInv
<1>4. (\A m \in dataMoved' : KeyedRight(m)') /\ (\A w \in Entries' : EntryRight(w)')
  BY <1>1, PlaceKept, UnchangedEntries, Zenon DEF ShapeInv
<1>5. NoneUnfollowed'
  <2>1. Visited' = Visited
    BY <1>1 DEF Visited, Moved
  <2>2. \A a, f : InHand(a, f) => InHand(a, f)'
    BY <1>2 DEF InHand
  <2>3. \A a, f : Dealt(a, f) => Dealt(a, f)'
    BY <1>1, DealtKept
  <2> QED
    BY <2>1, <2>2, <2>3 DEF NoneUnfollowed, ShapeInv
<1> QED
  BY <1>3, <1>4, <1>5 DEF ShapeInv

LEMMA ShapeOther ==
  ASSUME TypeOK, ShapeInv, ApplyPatchData \/ CannotMove \/ Finish \/ UNCHANGED vars
  PROVE  ShapeInv'
<1>1. UNCHANGED <<ptr, relocs, misread, left, stack, dataMoved>>
  BY DEF ApplyPatchData, CannotMove, Finish, vars
<1>2. Entries' \subseteq Entries
  <2>1. CASE ApplyPatchData
    BY <2>1, ApplyEffect
  <2>2. CASE UNCHANGED <<new, patches>>
    BY <2>2, UnchangedEntries
  <2> QED
    BY <2>1, <2>2 DEF CannotMove, Finish, vars
<1>3. FramesPlaced'
  BY <1>1, PlaceKept, AllStays DEF FramesPlaced, ShapeInv
<1>4. (\A m \in dataMoved' : KeyedRight(m)') /\ (\A w \in Entries' : EntryRight(w)')
  BY <1>1, <1>2, PlaceKept, Zenon DEF ShapeInv
<1>5. NoneUnfollowed'
  <2>1. Visited' = Visited
    BY <1>1 DEF Visited, Moved
  <2>2. \A a, f : InHand(a, f) => InHand(a, f)'
    BY <1>1 DEF InHand
  <2>3. \A a, f : Dealt(a, f) => Dealt(a, f)'
    BY <1>1, DealtKept
  <2> QED
    BY <2>1, <2>2, <2>3 DEF NoneUnfollowed, ShapeInv
<1> QED
  BY <1>3, <1>4, <1>5 DEF ShapeInv

LEMMA ShapeStep ==
  ASSUME KeysDistinct, TypeOK, TypeOK', MovedOnce, ShapeInv, [Next]_vars
  PROVE  ShapeInv'
BY StepKinds, ShapeStart, ShapeFlat, ShapeDeep, ShapeEndFrame, ShapeOther

-----------------------------------------------------------------------------
(* The specification.                                                      *)

(* What needs no hypothesis about the data.                                *)
BaseInv == TypeOK /\ Control /\ NoneForgotten /\ WrittenDataIsComplete /\ Depth /\ MovedOnce

LEMMA InitInv ==
  ASSUME Init
  PROVE  BaseInv /\ ShapeInv
<1>1. /\ stack = << >> /\ patches = << >> /\ DOMAIN stack = {} /\ DOMAIN patches = {} /\ Len(stack) = 0
      /\ new = {} /\ dataMoved = {} /\ mallocs = 0 /\ left = InPatch /\ applying = NULL /\ pc = "vars"
      /\ misread = {} /\ relocated = {} /\ ptr \in Graphs /\ relocs \in Initialized(ptr)
  BY DEF Init
<1>2. Entries = {} /\ Moves = {} /\ Begun = {}
  BY <1>1 DEF Entries, Pending, Moves, Begun
<1>3. TypeOK
  <2>1. stack \in Seq(Frame) /\ patches \in Seq(PatchData)
    BY <1>1
  <2>2. mallocs \in 0..MaxMalloc
    BY <1>1, GraphsAssumption DEF GraphsAssumption
  <2>3. /\ left \subseteq InPatch /\ relocated \subseteq DOMAIN relocs /\ misread \subseteq relocated
        /\ new \subseteq PatchData /\ applying \in Vars \cup {NULL} /\ pc \in {"vars", "done", "dead"}
        /\ \A m \in dataMoved : m[2] \in NewAddr
    BY <1>1
  <2> QED
    BY <1>1, <2>1, <2>2, <2>3 DEF TypeOK
<1>4. Control /\ NoneForgotten /\ WrittenDataIsComplete
  BY <1>1, <1>2 DEF Control, NoneForgotten, WrittenDataIsComplete
<1>5. Depth
  <2>1. Opened = {}
    BY <1>1 DEF Opened, Moved
  <2> QED
    BY <1>1, <2>1, FS_EmptySet DEF Depth
<1>6. MovedOnce
  BY <1>1, <1>2 DEF MovedOnce
<1>7. ShapeInv
  <2>1. Visited = {}
    BY <1>1 DEF Visited, Moved
  <2> QED
    BY <1>1, <1>2, <2>1 DEF ShapeInv, FramesPlaced, NoneUnfollowed
<1> QED
  BY <1>3, <1>4, <1>5, <1>6, <1>7 DEF BaseInv

LEMMA BaseStep ==
  ASSUME BaseInv, [Next]_vars
  PROVE  BaseInv'
<1>1. TypeOK'
  BY TypeStep DEF BaseInv
<1>2. Control' /\ NoneForgotten' /\ WrittenDataIsComplete'
  BY ControlStep, ForgottenStep, CompleteStep DEF BaseInv
<1>3. Depth' /\ MovedOnce'
  BY <1>1, DepthStep, MovedOnceStep DEF BaseInv
<1> QED
  BY <1>1, <1>2, <1>3 DEF BaseInv

LEMMA BaseInvariance == Spec => []BaseInv
<1>1. Init => BaseInv
  BY InitInv
<1>2. BaseInv /\ [Next]_vars => BaseInv'
  BY BaseStep
<1> QED
  BY <1>1, <1>2, PTL DEF Spec

LEMMA ShapeInvariance ==
  ASSUME KeysDistinct
  PROVE  Spec => []ShapeInv
<1>1. Init => ShapeInv
  BY InitInv
<1>2. BaseInv /\ BaseInv' /\ ShapeInv /\ [Next]_vars => ShapeInv'
  BY ShapeStep DEF BaseInv
<1> QED
  BY <1>1, <1>2, BaseInvariance, PTL DEF Spec

(* The state keeps its types.                                              *)
THEOREM TypeCorrect == Spec => []TypeOK
<1>1. BaseInv => TypeOK
  BY DEF BaseInv
<1> QED
  BY <1>1, BaseInvariance, PTL

(* What has been written leads only to objects written in full, whenever   *)
(* patchDataWithFDE is not at work on a list, and after any death: for     *)
(* every graph, whatever relocateVar has rewritten and whatever the map    *)
(* tells apart of an address.                                              *)
THEOREM WrittenIsComplete == Spec => []WrittenDataIsComplete
<1>1. BaseInv => WrittenDataIsComplete
  BY DEF BaseInv
<1> QED
  BY <1>1, BaseInvariance, PTL

(* makePatchData returns from any graph of pointers: the recursion of      *)
(* generatePatchesFromFDEAndState is no deeper than there are addresses.   *)
THEOREM RecursionIsBounded == Spec => []RecursionBounded
<1>1. BaseInv => RecursionBounded
  <2> SUFFICES ASSUME BaseInv
               PROVE  RecursionBounded
    OBVIOUS
  <2>1. IsFiniteSet(Followed) /\ Opened \subseteq Followed
    BY FollowedIsFinite DEF BaseInv, Opened
  <2>2. /\ Cardinality(Opened) <= Cardinality(Followed)
        /\ Cardinality(Opened) \in Nat /\ Cardinality(Followed) \in Nat
    BY <2>1, FS_Subset, FS_CardinalityType
  <2>3. Len(stack) \in Nat /\ Len(stack) <= Cardinality(Opened) + 1
    BY DEF BaseInv, Depth, TypeOK
  <2>4. Len(stack) <= Cardinality(Followed) + 1
    BY <2>2, <2>3
  <2> QED
    BY <2>4 DEF RecursionBounded, Followed
<1> QED
  BY <1>1, BaseInvariance, PTL

-----------------------------------------------------------------------------
(* When katana is done.                                                    *)

(* A new address is that of one address, or of places in one variable.     *)
LEMMA PlacesDiffer ==
  ASSUME KeysDistinct, TypeOK, MovedOnce
  PROVE  \A a, b \in OldAddr \cup NewAddr : \A t, u : Place(a, t) /\ Place(b, u) =>
            /\ a = b => t = u
            /\ t = u => a = b \/ (a[1] = b[1] /\ a[1] \in InPatch)
<1> SUFFICES ASSUME NEW a \in OldAddr \cup NewAddr, NEW b \in OldAddr \cup NewAddr,
                    NEW t, NEW u, Place(a, t), Place(b, u)
             PROVE  /\ a = b => t = u
                    /\ t = u => a = b \/ (a[1] = b[1] /\ a[1] \in InPatch)
  OBVIOUS
<1>1. \A c : c[1] \in InPatch => c[1] \notin Heap /\ c \notin NewAddr
  BY PointerTypes, DistinctAssumption, AddressTypes DEF DistinctAssumption, Objects
<1>2. CASE a[1] \in InPatch \/ b[1] \in InPatch
  <2>1. \A c, y : Place(c, y) => IF c[1] \in InPatch THEN y = <<"data", c[1]>> ELSE y[1] = "malloc"
    BY <1>1 DEF Place
  <2>2. a[1] \in InPatch /\ b[1] \in InPatch => (a[1] = b[1] <=> t = u)
    BY <2>1
  <2>3. t = u => (a[1] \in InPatch <=> b[1] \in InPatch)
    BY <2>1
  <2> QED
    BY <1>2, <2>2, <2>3
<1>3. CASE a[1] \notin InPatch /\ b[1] \notin InPatch
  <2> DEFINE m == <<Key(a), t>>
             n == <<Key(b), u>>
  <2>1. m \in dataMoved /\ n \in dataMoved /\ t[1] = "malloc"
    BY <1>3 DEF Place
  <2>2. m[1] = Key(a) /\ m[2] = t /\ n[1] = Key(b) /\ n[2] = u
    OBVIOUS
  <2> HIDE DEF m, n
  <2>3. (m[1] = n[1] => m[2] = n[2]) /\ (m[2] = n[2] /\ m[2][1] = "malloc" => m[1] = n[1])
    BY <2>1 DEF MovedOnce
  <2> QED
    BY <2>1, <2>2, <2>3 DEF KeysDistinct
<1> QED
  BY <1>2, <1>3

LEMMA ImagesArePlaces ==
  ASSUME KeysDistinct, TypeOK, \A m \in dataMoved : KeyedRight(m), NEW a \in OldAddr
  PROVE  \A t \in Images(a) : Place(a, t)
<1>1. ASSUME NEW m \in Moved(a)
      PROVE  Place(a, m[2])
  <2>1. m \in dataMoved /\ m[1] = Key(a)
    BY DEF Moved
  <2>2. PICK b \in Known : m[1] = Key(b) /\ Place(b, m[2])
    BY <2>1 DEF KeyedRight
  <2>3. a = b
    BY <2>1, <2>2, KnownTypes DEF KeysDistinct
  <2> QED
    BY <2>2, <2>3
<1>2. a \in Beginnings => Place(a, <<"data", a[1]>>)
  BY DEF Beginnings, Place
<1> QED
  BY <1>1, <1>2 DEF Images

LEMMA Singletons ==
  ASSUME NEW S, NEW x \in S, \A y \in S : y = x
  PROVE  Cardinality(S) = 1
<1>1. S = {x}
  OBVIOUS
<1> QED
  BY <1>1, FS_Singleton

(* What has been moved is what a pointer that leads to it may become.      *)
LEMMA LeadsToImages ==
  ASSUME NEW a, NEW f, NEW value, Leads(a, f, value)
  PROVE  value \in Image(<<a, f>>) \cup Copies(<<a, f>>)
<1>1. ASSUME NEW b, <<Key(b), value>> \in dataMoved
      PROVE  value \in { m[2] : m \in Moved(b) }
  <2> DEFINE move == <<Key(b), value>>
  <2>1. move \in dataMoved /\ move[1] = Key(b) /\ move[2] = value
    BY <1>1
  <2> HIDE DEF move
  <2>2. move \in Moved(b)
    BY <2>1 DEF Moved
  <2> QED
    BY <2>1, <2>2, Zenon
<1>2. CASE ptr[<<a, f>>] = NULL /\ value = NULL
  BY <1>2 DEF Image
<1>3. CASE ptr[<<a, f>>] # NULL /\ <<Key(ptr[<<a, f>>]), value>> \in dataMoved
  BY <1>1, <1>3 DEF Image, Images
<1>4. CASE <<a, f>> \in misread /\ <<Key(<<"data", relocs[<<a, f>>]>>), value>> \in dataMoved
  BY <1>1, <1>4 DEF Copies
<1> QED
  BY <1>2, <1>3, <1>4 DEF Leads

(* All that the variables lead to has been come to.                        *)
LEMMA ReachableIsVisited ==
  ASSUME TypeOK, NoneUnfollowed, stack = << >>, left = {}
  PROVE  \A a \in ReachableBut(misread) : a \in OldAddr /\ Images(a) # {}
<1> DEFINE S == Beginnings \cup { a \in Targets : Moved(a) # {} }
<1>1. S \subseteq Visited /\ Visited \subseteq OldAddr /\ S \subseteq Beginnings \cup Targets
  <2>1. Beginnings \subseteq OldAddr /\ Targets \subseteq OldAddr
    BY PointerTypes DEF Beginnings, Targets, OldAddr, Objects
  <2> QED
    BY <2>1 DEF Visited, Beginnings
<1>2. ASSUME NEW a \in S, NEW f \in Fields, <<a, f>> \notin misread, ptr[<<a, f>>] # NULL
      PROVE  ptr[<<a, f>>] \in S
  <2>1. ~InHand(a, f)
    BY DEF InHand
  <2>2. Moved(ptr[<<a, f>>]) # {}
    BY <1>1, <1>2, <2>1 DEF NoneUnfollowed, Dealt
  <2>3. ptr[<<a, f>>] \in Targets
    BY <1>1, <1>2 DEF Targets
  <2> QED
    BY <2>2, <2>3
<1>3. Closed(S, misread)
  <2> SUFFICES ASSUME NEW x \in (S \X Fields) \ misread, ptr[x] # NULL
               PROVE  ptr[x] \in S
    BY DEF Closed
  <2>1. x = <<x[1], x[2]>> /\ x[1] \in S /\ x[2] \in Fields
    OBVIOUS
  <2> HIDE DEF S
  <2> QED
    BY <1>2, <2>1
<1>4. ReachableBut(misread) \subseteq S
  BY <1>1, <1>3 DEF ReachableBut
<1>5. \A a \in S : Images(a) # {}
  BY DEF Images
<1> QED
  BY <1>1, <1>4, <1>5

LEMMA DoneHasTheShape ==
  ASSUME KeysDistinct, BaseInv, ShapeInv, pc = "done"
  PROVE  LET all == ReachableBut({})
         IN  \A a \in ReachableBut(misread) :
               /\ Cardinality(Images(a)) = 1
               /\ \A b \in all \ Merged(a, all) : Images(a) \cap Images(b) = {}
               /\ \A f \in Fields, at \in Images(a) :
                    /\ Written(at, f) # {}
                    /\ Written(at, f) \subseteq
                         UNION { Image(<<b, f>>) \cup Copies(<<b, f>>) : b \in Merged(a, all) }
<1>1. TypeOK /\ MovedOnce /\ stack = << >> /\ left = {} /\ InPatch \subseteq Vars
  BY PointerTypes DEF BaseInv, Control
<1>2. Entries = new /\ \A t, f : ~Open(t, f)
  BY DEF BaseInv, Control, Entries, Pending, Open
<1>3. \A a \in OldAddr : \A t \in Images(a) : Place(a, t)
  BY <1>1, ImagesArePlaces DEF ShapeInv
<1>4. All \subseteq OldAddr /\ Known \subseteq OldAddr \cup NewAddr
  BY <1>1, AllIsClosed, KnownTypes
<1>5. ASSUME NEW a \in OldAddr, NEW t, Place(a, t)
      PROVE  t \in Begun
  <2>1. CASE a[1] \in InPatch /\ t = <<"data", a[1]>>
    BY <1>1, <2>1 DEF Begun
  <2>2. CASE <<Key(a), t>> \in dataMoved
    <3> DEFINE m == <<Key(a), t>>
    <3>1. m \in dataMoved /\ m[2] = t
      BY <2>2
    <3> HIDE DEF m
    <3> QED
      BY <3>1, Zenon DEF Begun, Moves
  <2> QED
    BY <1>5, <2>1, <2>2 DEF Place
<1>6. ASSUME NEW a \in OldAddr, NEW t, Place(a, t), NEW f \in Fields
      PROVE  /\ Written(t, f) # {}
             /\ \A value \in Written(t, f) : \E b \in Merged(a, All) : Leads(b, f, value)
  <2>1. Entered(t, f)
    BY <1>2, <1>5, <1>6 DEF BaseInv, NoneForgotten
  <2>2. Written(t, f) # {}
    BY <1>2, <2>1 DEF Entered, Written
  <2>3. ASSUME NEW value \in Written(t, f)
        PROVE  \E b \in Merged(a, All) : Leads(b, f, value)
    <3>1. PICK w \in new : w.at = t /\ w.field = f /\ w.value = value
      BY DEF Written
    <3>2. PICK b \in Known : Place(b, t) /\ (b \in OldAddr => Leads(b, f, value))
      BY <1>2, <3>1 DEF EntryRight, ShapeInv
    <3>3. a = b \/ (a[1] = b[1] /\ a[1] \in InPatch)
      BY <1>1, <1>4, <1>6, <3>2, PlacesDiffer
    <3>4. b \in All
      BY <1>1, <3>2, <3>3, AddressTypes DEF Known, Objects
    <3>5. b \in Merged(a, All) /\ b \in OldAddr
      BY <1>1, <1>4, <3>3, <3>4 DEF Merged
    <3> QED
      BY <3>2, <3>5
  <2> QED
    BY <2>2, <2>3
<1> SUFFICES ASSUME NEW a \in ReachableBut(misread)
             PROVE  /\ Cardinality(Images(a)) = 1
                    /\ \A b \in All \ Merged(a, All) : Images(a) \cap Images(b) = {}
                    /\ \A f \in Fields, at \in Images(a) :
                         /\ Written(at, f) # {}
                         /\ Written(at, f) \subseteq
                              UNION { Image(<<b, f>>) \cup Copies(<<b, f>>) : b \in Merged(a, All) }
  BY DEF All
<1>7. a \in OldAddr /\ Images(a) # {}
  BY <1>1, ReachableIsVisited DEF ShapeInv
<1>8. Cardinality(Images(a)) = 1
  <2>1. PICK t \in Images(a) : TRUE
    BY <1>7
  <2>2. \A u \in Images(a) : u = t
    BY <1>1, <1>3, <1>7, <2>1, PlacesDiffer
  <2> QED
    BY <2>1, <2>2, Singletons
<1>9. ASSUME NEW b \in All \ Merged(a, All), NEW t \in Images(a) \cap Images(b)
      PROVE  FALSE
  <2>1. Place(a, t) /\ Place(b, t) /\ b \in OldAddr
    BY <1>3, <1>4, <1>7
  <2>2. a = b \/ (a[1] = b[1] /\ a[1] \in InPatch)
    BY <1>1, <1>7, <2>1, PlacesDiffer
  <2> QED
    BY <1>1, <2>2 DEF Merged
<1>10. ASSUME NEW f \in Fields, NEW at \in Images(a)
       PROVE  /\ Written(at, f) # {}
              /\ Written(at, f) \subseteq
                   UNION { Image(<<b, f>>) \cup Copies(<<b, f>>) : b \in Merged(a, All) }
  <2>1. Place(a, at)
    BY <1>3, <1>7
  <2>2. Written(at, f) # {} /\ \A value \in Written(at, f) : \E b \in Merged(a, All) : Leads(b, f, value)
    BY <1>6, <1>7, <2>1
  <2>3. \A value \in Written(at, f) : \E b \in Merged(a, All) : value \in Image(<<b, f>>) \cup Copies(<<b, f>>)
    BY <2>2, LeadsToImages
  <2> QED
    BY <2>2, <2>3
<1> QED
  BY <1>8, <1>9, <1>10

(* The new data have the shape of the old, for every graph of pointers,    *)
(* into the middle of variables and blocks too, and whatever relocateVar   *)
(* has rewritten before it was read: where readAndApplyPatch returns,      *)
(* each address reached has one image, which it shares at most with other  *)
(* places of its variable, and each pointer of the image leads to the      *)
(* image of what the pointer leads to, that of another such place, or, if  *)
(* it had been rewritten, to a copy of the new variable.                   *)
THEOREM ShapeIsKept ==
  ASSUME KeysDistinct
  PROVE  Spec => []SameShape
<1>1. BaseInv /\ ShapeInv => SameShape
  BY DoneHasTheShape DEF SameShape
<1> QED
  BY <1>1, BaseInvariance, ShapeInvariance, PTL
=============================================================================
