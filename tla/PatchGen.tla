------------------------------- MODULE PatchGen -------------------------------
(***************************************************************************)
(* How katana writes the patch for one compilation unit                    *)
(* (writeTypeAndFuncTransformationInfo, patchwrite/patchwrite.c): it       *)
(* compares the types of the variables (TypeDiff), writes the transforms   *)
(* it finds as FDEs (writeTransformationToDwarf, write_to_dwarf.c) and     *)
(* lists the functions that are unsafe to patch.                           *)
(***************************************************************************)
EXTENDS TypeDiff

CONSTANTS
  Vars,       \* variables of either version
  Funcs,      \* functions of both versions
  Rewritten,  \* those whose text differs
  Variadic,   \* those with variable parameters
  Uses,       \* types of the parameters and locals of each function
  Refs        \* variables the text of each function is relocated for

ASSUME FuncsAssumption ==
  /\ Rewritten \subseteq Funcs /\ Variadic \subseteq Funcs
  /\ Uses \in [Funcs -> SUBSET Types] /\ Refs \in [Funcs -> SUBSET Vars]
  /\ \A p \in Programs :
       /\ p.old.vars \in [Vars -> Types \cup {NULL}]
       /\ p.new.vars \in [Vars -> Types \cup {NULL}]

VARIABLES
  left,       \* variables not compared yet
  var,        \* the one being compared
  varTrans,   \* list of VarTransformations
  uses,       \* typesHead of each function of the new version
  writing,    \* frames of writeTransformationToDwarf, innermost last
  onDisk,     \* types whose transform is marked onDisk
  fdeIdx,     \* of the transform of each type, 0 when not set
  fdes,       \* the FDEs
  dies,       \* types of the new version written to .debug_info
  unsafe      \* the section .unsafe_functions

vars == <<diffVars, left, var, varTrans, uses, writing, onDisk, fdeIdx, fdes,
          dies, unsafe>>
genVars == <<left, var, varTrans, uses, writing, onDisk, fdeIdx, fdes, dies, unsafe>>

Sizes == { Length(p.old)[t] : p \in Programs, t \in Types } \cup { Size[t] : t \in Types }
Instructions ==
  [op : {"register", "fixups", "fixups_pointer"}, from : Offsets \cup {0},
   to : Offsets \cup {0, NULL}, size : Sizes, member : Nat, fde : Nat]

(* An instruction for a place: where a member was, where it comes, its size*)
(* and which it is; and the FDE it applies, if any.                        *)
Instr(op, place, fde) ==
  [op |-> op, from |-> place.from, to |-> place.to, size |-> place.size,
   member |-> place.member, fde |-> fde]

TypeOK ==
  /\ DiffTypeOK
  /\ left \subseteq Vars /\ var \in Vars \cup {NULL}
  /\ varTrans \in Seq([var : Vars, transform : Types \cup {NULL}])
  /\ writing \in Seq([type : Types, at : {"enter", "const", "body"}])
  /\ onDisk \subseteq Types
  /\ fdes \in Seq([from : Types, to : Types, instrs : Seq(Instructions)])
  /\ fdeIdx \in [Types -> 0..Len(fdes)]
  /\ unsafe \subseteq Funcs
  /\ pc \in {"diff", "new", "write", "functions", "done", "dead", "assertion", "undefined"}

Init ==
  /\ DiffInit
  /\ left = { v \in Vars : prog.old.vars[v] # NULL } /\ var = NULL /\ varTrans = << >>
  /\ uses = Uses
  /\ writing = << >> /\ onDisk = {} /\ fdeIdx = [t \in Types |-> 0]
  /\ fdes = << >> /\ dies = {} /\ unsafe = {}
  /\ pc = "diff"

-----------------------------------------------------------------------------
(* getTypeTransformationInfoForCU.                                         *)

Transforming(v, t) ==
  varTrans' = Append(varTrans,
    [var |-> v,
     transform |-> IF Kind[prog.new.vars[v]] = "const" THEN NULL ELSE t])

(* The next variable; its type may have a transform already.               *)
NextVariable ==
  /\ pc = "diff" /\ var = NULL
  /\ \E v \in left :
       LET t == prog.old.vars[v] IN
       /\ left' = left \ {v}
       /\ IF prog.new.vars[v] = NULL THEN UNCHANGED <<var, varTrans, stack>>
          ELSE IF transformer[t] # NULL THEN Transforming(v, t) /\ UNCHANGED <<var, stack>>
          ELSE /\ var' = v /\ stack' = <<Call(t, prog.new.vars[v])>>
               /\ UNCHANGED varTrans
  /\ UNCHANGED <<prog, diffAgainst, status, transformer, ret, pc, uses, writing,
                 onDisk, fdeIdx, fdes, dies, unsafe>>

CompareTypes ==
  /\ Compare
  /\ UNCHANGED genVars

(* The comparison has returned: without a transform katana aborts. Of a    *)
(* variable of the same type the initializer may have changed, which counts*)
(* for a const, and katana gives up if its symbol has moved to or from a   *)
(* special section.                                                        *)
VariableCompared ==
  /\ pc = "diff" /\ var # NULL /\ stack = << >>
  /\ var' = NULL /\ ret' = "none"
  /\ LET t == prog.old.vars[var] IN
     \/ /\ ret = "differs" /\ transformer[t] = NULL
        /\ pc' = "dead" /\ UNCHANGED varTrans
     \/ /\ ret = "differs" /\ transformer[t] # NULL
        /\ Transforming(var, t) /\ UNCHANGED pc
     \/ /\ ret # "differs"
        /\ \/ UNCHANGED <<varTrans, pc>>
           \/ Kind[t] = "const" /\ Transforming(var, t) /\ UNCHANGED pc
           \/ pc' = "dead" /\ UNCHANGED varTrans
  /\ UNCHANGED <<prog, diffAgainst, status, transformer, stack, left, uses,
                 writing, onDisk, fdeIdx, fdes, dies, unsafe>>

(* writeUnsafety: the types of the variables that change are added to the  *)
(* types used by the functions of the new version that refer to them. It   *)
(* needs the symbol of each.                                               *)
WriteUnsafety ==
  /\ pc = "diff" /\ var = NULL /\ left = {}
  /\ \/ /\ uses' = [f \in Funcs |-> uses[f] \cup
            { prog.new.vars[v] : v \in Refs[f] \cap { varTrans[k].var : k \in DOMAIN varTrans } }]
        /\ pc' = "new"
     \/ varTrans # << >> /\ pc' = "dead" /\ UNCHANGED uses
  /\ UNCHANGED <<prog, diffAgainst, status, transformer, stack, ret, left, var,
                 varTrans, writing, onDisk, fdeIdx, fdes, dies, unsafe>>

-----------------------------------------------------------------------------
(* writeVarTransforms and writeTransformationToDwarf.                      *)

WriterActive == pc = "write" /\ writing # << >>
Frame == writing[Len(writing)]
Outer == SubSeq(writing, 1, Len(writing) - 1)
WriterUnchanged ==
  UNCHANGED <<prog, diffAgainst, status, transformer, stack, ret, left, var, uses, unsafe>>
WriterStops(how) ==
  pc' = how /\ UNCHANGED <<varTrans, writing, onDisk, fdeIdx, fdes, dies>> /\ WriterUnchanged

(* writeTypeToDwarf: the type, and all it points to or has for a member.   *)
WrittenWith(S) ==
  LET next(T) == T \cup { Pointed[t] : t \in T \cap Pointing }
                   \cup UNION { { FieldsOf(prog.new, t)[k].type :
                                   k \in DOMAIN FieldsOf(prog.new, t) } : t \in T }
      upto[n \in 0..Cardinality(Types)] == IF n = 0 THEN S ELSE next(upto[n - 1])
  IN upto[Cardinality(Types)]

WriteNewVars ==
  /\ pc = "new"
  /\ dies' = WrittenWith({ prog.new.vars[v] : v \in
       { w \in Vars : prog.old.vars[w] = NULL /\ prog.new.vars[w] # NULL } })
  /\ pc' = "write"
  /\ UNCHANGED <<varTrans, writing, onDisk, fdeIdx, fdes>> /\ WriterUnchanged

WriteVariable ==
  /\ pc = "write" /\ writing = << >> /\ varTrans # << >>
  /\ LET vt == Head(varTrans) IN
     /\ dies' = dies \cup WrittenWith({prog.new.vars[vt.var]})
     /\ writing' = IF vt.transform = NULL THEN << >>
                   ELSE <<[type |-> vt.transform, at |-> "enter"]>>
  /\ varTrans' = Tail(varTrans)
  /\ UNCHANGED <<onDisk, fdeIdx, fdes, pc>> /\ WriterUnchanged

(* A transform is written once; a const has no FDE but that of its type.   *)
EnterConst(t) ==
  \/ transformer[Pointed[t]] = NULL /\ WriterStops("assertion")
  \/ /\ transformer[Pointed[t]] # NULL
     /\ onDisk' = onDisk \cup {t}
     /\ writing' = Outer \o <<[type |-> t, at |-> "const"],
                              [type |-> Pointed[t], at |-> "enter"]>>
     /\ UNCHANGED <<varTrans, fdeIdx, fdes, dies, pc>> /\ WriterUnchanged

EnterOther(t) ==
  \/ transformer[t].to \notin dies /\ WriterStops("assertion")
  \/ /\ transformer[t].to \in dies
     /\ onDisk' = onDisk \cup {t}
     /\ fdes' = Append(fdes, [from |-> t, to |-> transformer[t].to, instrs |-> << >>])
     /\ fdeIdx' = [fdeIdx EXCEPT ![t] = Len(fdes) + 1]
     /\ writing' = Append(Outer, [type |-> t, at |-> "body"])
     /\ UNCHANGED <<varTrans, dies, pc>> /\ WriterUnchanged

Enter ==
  /\ WriterActive /\ Frame.at = "enter"
  /\ LET t == Frame.type IN
     \/ ~transformer[t].live /\ WriterStops("undefined")
     \/ /\ transformer[t].live /\ t \in onDisk
        /\ writing' = Outer
        /\ UNCHANGED <<varTrans, onDisk, fdeIdx, fdes, dies, pc>> /\ WriterUnchanged
     \/ /\ transformer[t].live /\ t \notin onDisk
        /\ IF Kind[t] = "const" THEN EnterConst(t) ELSE EnterOther(t)

ConstWritten ==
  /\ WriterActive /\ Frame.at = "const"
  /\ fdeIdx' = [fdeIdx EXCEPT ![Frame.type] = fdeIdx[Pointed[Frame.type]]]
  /\ writing' = Outer
  /\ UNCHANGED <<varTrans, onDisk, fdes, dies, pc>> /\ WriterUnchanged

Emit(instr) ==
  fdes' = [fdes EXCEPT ![fdeIdx[Frame.type]] =
             [from |-> @.from, to |-> @.to, instrs |-> Append(@.instrs, instr)]]

StraightCopy ==
  /\ WriterActive /\ Frame.at = "body"
  /\ LET t == Frame.type
         len == Length(prog.old)[t]
     IN /\ transformer[t].straightCopy
        /\ IF len > Length(prog.new)[transformer[t].to]
           THEN WriterStops("assertion")
           ELSE /\ Emit(Instr("register", [from |-> 0, to |-> 0, size |-> len, member |-> 0], 0))
                /\ writing' = Outer
                /\ UNCHANGED <<varTrans, onDisk, fdeIdx, dies, pc>>
                /\ WriterUnchanged

(* Mutant of FixUp: the index is read before the transform is written.     *)
FixUpEarly(op, target, place, last) ==
  IF transformer[target] = NULL THEN WriterStops("assertion")
  ELSE /\ Emit(Instr(op, place, fdeIdx[target]))
       /\ writing' = (IF last THEN Outer ELSE Append(Outer, Frame))
            \o (IF target \in onDisk THEN << >> ELSE <<[type |-> target, at |-> "enter"]>>)
       /\ UNCHANGED <<varTrans, onDisk, fdeIdx, dies, pc>>
       /\ WriterUnchanged

(* An instruction that applies the FDE of target, written first if need be.*)
FixUp(op, target, place, last) ==
  IF transformer[target] = NULL THEN WriterStops("assertion")
  ELSE IF target \notin onDisk
  THEN /\ writing' = Append(writing, [type |-> target, at |-> "enter"])
       /\ UNCHANGED <<varTrans, onDisk, fdeIdx, fdes, dies, pc>> /\ WriterUnchanged
  ELSE /\ Emit(Instr(op, place, fdeIdx[target]))
       /\ writing' = IF last THEN Outer ELSE writing
       /\ UNCHANGED <<varTrans, onDisk, fdeIdx, dies, pc>> /\ WriterUnchanged

WritePointer ==
  /\ WriterActive /\ Frame.at = "body" /\ Kind[Frame.type] = "pointer"
  /\ FixUp("fixups_pointer", Pointed[Frame.type],
           [from |-> 0, to |-> 0, size |-> Size[Frame.type], member |-> 0], TRUE)

(* The members that have an instruction: all but the deleted.              *)
Kept(t) == { m \in DOMAIN transformer[t].fields : transformer[t].fields[m].how # "delete" }
LastMember(instrs) == IF instrs = << >> THEN 0 ELSE instrs[Len(instrs)].member

(* The next one that the FDE of t is to deal with.                         *)
NextMember(t) ==
  LET rest == { m \in Kept(t) : m > LastMember(fdes[fdeIdx[t]].instrs) }
  IN IF rest = {} THEN NULL ELSE CHOOSE k \in rest : \A j \in rest : k <= j

WriteMember ==
  /\ WriterActive /\ Frame.at = "body" /\ Kind[Frame.type] = "struct"
  /\ LET t == Frame.type
         k == NextMember(t)
         m == prog.old.fields[t][k]
         to == transformer[t].fields[k]
         place == [from |-> Offset(prog.old, t, k), to |-> to.offset,
                   size |-> Length(prog.old)[m.type], member |-> k]
     IN \/ /\ k = NULL
           /\ writing' = Outer
           /\ UNCHANGED <<varTrans, onDisk, fdeIdx, fdes, dies, pc>> /\ WriterUnchanged
        \/ /\ k # NULL /\ to.how = "copy"
           /\ Emit(Instr("register", place, 0))
           /\ UNCHANGED <<varTrans, writing, onDisk, fdeIdx, dies, pc>> /\ WriterUnchanged
        \/ /\ k # NULL /\ to.how # "copy"
           /\ IF Kind[m.type] = "pointer"
              THEN FixUp("fixups_pointer", Pointed[m.type], place, FALSE)
              ELSE FixUp("fixups", m.type, place, FALSE)

(* A base type has no transform that can be written.                       *)
CannotWrite ==
  /\ WriterActive /\ Frame.at = "body"
  /\ Kind[Frame.type] = "base"
  /\ WriterStops("dead")

EndWrite ==
  /\ pc = "write" /\ writing = << >> /\ varTrans = << >>
  /\ pc' = "functions"
  /\ UNCHANGED <<varTrans, writing, onDisk, fdeIdx, fdes, dies>> /\ WriterUnchanged

-----------------------------------------------------------------------------
(* writeFuncTransformationInfoForCU. The transformer fields of the types   *)
(* of the new version are never set: the old types hold the transforms.    *)
TransformerOfNew(t) == NULL

WriteFunctions ==
  /\ pc = "functions"
  /\ unsafe' = Rewritten \cup Variadic
                 \cup { f \in Funcs : \E t \in uses[f] : TransformerOfNew(t) # NULL }
  /\ pc' = "done"
  /\ UNCHANGED <<prog, diffAgainst, status, transformer, stack, ret, left, var,
                 varTrans, uses, writing, onDisk, fdeIdx, fdes, dies>>

Next ==
  \/ NextVariable \/ CompareTypes \/ VariableCompared \/ WriteUnsafety
  \/ WriteNewVars \/ WriteVariable \/ Enter \/ ConstWritten \/ StraightCopy \/ WritePointer
  \/ WriteMember \/ CannotWrite \/ EndWrite \/ WriteFunctions

Spec == Init /\ [][Next]_vars

-----------------------------------------------------------------------------
(* Properties.                                                             *)

FdeType(t) == IF Kind[t] = "const" THEN Pointed[t] ELSE t

(* Every fixup that has been written applies the FDE for the type of its   *)
(* member or of what the member points to, although an FDE is numbered     *)
(* before its instructions are known and others are begun meanwhile; and   *)
(* in the finished patch every member that is not deleted has one          *)
(* instruction (writeTransformationToDwarf, write_to_dwarf.c).             *)
(* Not so for a const: it is marked onDisk before its index is known, and  *)
(* a pointer to the const within what it qualifies gets index 0.           *)
FdesFit ==
  \A k \in DOMAIN fdes :
    LET t == fdes[k].from
        instrs == fdes[k].instrs
        lead(i) == IF Kind[t] = "struct"
                   THEN IF instrs[i].op = "fixups_pointer"
                        THEN Pointed[prog.old.fields[t][instrs[i].member].type]
                        ELSE prog.old.fields[t][instrs[i].member].type
                   ELSE Pointed[t]
    IN /\ \A i \in DOMAIN instrs : instrs[i].op # "register" =>
            \/ /\ instrs[i].fde \in DOMAIN fdes
               /\ fdes[instrs[i].fde].from = FdeType(lead(i))
            \/ Kind[lead(i)] = "const" /\ instrs[i].fde = 0
       /\ pc = "done" /\ Kind[t] = "struct" =>
            { instrs[i].member : i \in DOMAIN instrs } = Kept(t)

=============================================================================
