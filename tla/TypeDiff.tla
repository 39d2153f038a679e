------------------------------- MODULE TypeDiff -------------------------------
(***************************************************************************)
(* How katana finds the types that differ between two versions of a       *)
(* compilation unit and builds their TypeTransforms:                       *)
(* compareTypesAndGenTransforms (patchwrite/typediff.c), which recurses    *)
(* over cyclic types with the help of what it has noted in the types       *)
(* themselves. The recursion is an explicit stack of frames.               *)
(*                                                                         *)
(* A type is its name: the types of the old version and those of the new   *)
(* one with the same name are two objects, and notes are kept in the old.  *)
(***************************************************************************)
EXTENDS Integers, Sequences, FiniteSets, SequencesExt

CONSTANTS
  Types,      \* the names of types
  Kind,       \* TYPE_TYPE of each: "base", "enum", "pointer", "const", ...
  Pointed,    \* pointedType of the pointers, consts and arrays
  Size,       \* bytes of the base types, enums and pointers
  Anonymous,  \* the types whose name starts with anon_
  Programs,   \* pairs of versions
  NULL

Kinds == {"base", "enum", "pointer", "const", "array", "struct", "union"}
Pointing == { t \in Types : Kind[t] \in {"pointer", "const", "array"} }
Compound == { t \in Types : Kind[t] \in {"struct", "union"} }

(* A version has the members of its structs and unions, the upper bounds   *)
(* of its arrays (their lower bound is 0) and the types of its variables.  *)
ASSUME TypesAssumption ==
  /\ Kind \in [Types -> Kinds]
  /\ Pointed \in [Pointing -> Types]
  /\ \A p \in Programs, v \in {"old", "new"} :
       /\ p[v].fields \in [Compound -> Seq([name : STRING, type : Types])]
       /\ \A t \in Types : Kind[t] = "array" => p[v].upper[t] \in Nat

ASSUME FiniteAssumption == IsFiniteSet(Types)

\* In C the const of a const type is that type.
ASSUME ConstsAssumption ==
  \A t \in Types : Kind[t] = "const" => Kind[Pointed[t]] # "const"

-----------------------------------------------------------------------------
(* Layout of the types of a version q.                                     *)

FieldsOf(q, t) == IF t \in Compound THEN q.fields[t] ELSE << >>

Length(q) ==
  LET len[t \in Types] ==
        LET members == [k \in DOMAIN FieldsOf(q, t) |-> len[q.fields[t][k].type]]
        IN CASE Kind[t] = "const"  -> len[Pointed[t]]
             [] Kind[t] = "array"  -> len[Pointed[t]] * q.upper[t]
             [] Kind[t] = "struct" -> FoldLeft(LAMBDA x, y : x + y, 0, members)
             [] Kind[t] = "union"  ->
                  FoldLeft(LAMBDA x, y : IF x > y THEN x ELSE y, 0, members)
             [] OTHER -> Size[t]
  IN len

(* fieldOffsets: where the k-th member of t begins.                        *)
Offset(q, t, k) ==
  IF Kind[t] = "union" THEN 0
  ELSE FoldLeft(LAMBDA n, f : n + Length(q)[f.type], 0, SubSeq(q.fields[t], 1, k - 1))

(* getIndexForField, NULL for FIELD_DELETED.                               *)
IndexForField(q, t, name) ==
  IF \E k \in DOMAIN FieldsOf(q, t) : q.fields[t][k].name = name
  THEN CHOOSE k \in DOMAIN q.fields[t] :
         /\ q.fields[t][k].name = name
         /\ \A j \in 1..(k - 1) : q.fields[t][j].name # name
  ELSE NULL

-----------------------------------------------------------------------------
Offsets ==
  UNION { { Offset(p[v], t, k) : k \in DOMAIN p[v].fields[t] } :
            p \in Programs, v \in {"old", "new"}, t \in Compound }

FieldTransform ==
  [how : {"copy", "recurse", "delete"}, offset : Offsets \cup {NULL}]

Transform ==
  [to : Types, straightCopy : BOOLEAN, live : BOOLEAN, fields : Seq(FieldTransform)]

(* A call of compareTypesAndGenTransforms, and where it is.                *)
Calls ==
  [a : Types, b : Types, at : {"call", "pointed", "fields", "pointed member", "member"}]

\* NULL is none of the things it stands in for.
ASSUME NullAssumption == NULL \notin Types \cup Nat \cup Transform

VARIABLES
  prog,         \* the two versions
  diffAgainst,  \* of each old type
  status,       \* typediffStatus of each old type
  transformer,  \* TypeTransform of each old type
  stack,        \* frames of compareTypesAndGenTransforms, innermost last
  ret,          \* what the last call returned
  pc

diffVars == <<prog, diffAgainst, status, transformer, stack, ret, pc>>

DiffTypeOK ==
  /\ prog \in Programs
  /\ diffAgainst \in [Types -> Types \cup {NULL}]
  /\ status \in [Types -> {"not done", "differed", "same"}]
  /\ transformer \in [Types -> Transform \cup {NULL}]
  /\ stack \in Seq(Calls)
  /\ ret \in {"none", "same", "differs"}

DiffInit ==
  /\ prog \in Programs
  /\ diffAgainst = [t \in Types |-> NULL]
  /\ status = [t \in Types |-> "not done"]
  /\ transformer = [t \in Types |-> NULL]
  /\ stack = << >> /\ ret = "none"

-----------------------------------------------------------------------------
MemberChanged(x, y) ==
  LET same == Length(prog.old)[x.type] = Length(prog.new)[y.type] IN
  /\ ~(same /\ x.type = y.type /\ x.name = y.name)
  /\ ~(same /\ x.type \in Anonymous /\ Kind[x.type] = Kind[y.type] /\ x.name = y.name)

(* What compareTypesAndGenTransforms finds different in a and b themselves.*)
Changed(a, b) ==
  LET fa == FieldsOf(prog.old, a)
      fb == FieldsOf(prog.new, b)
  IN \/ a # b
     \/ Len(fa) # Len(fb)
     \/ Length(prog.old)[a] # Length(prog.new)[b]
     \/ \E k \in 1..Len(fa) : MemberChanged(fa[k], fb[k])
     \/ Kind[a] = "array" /\ prog.old.upper[a] # prog.new.upper[b]

-----------------------------------------------------------------------------
(* The recursion.                                                          *)

Call(a, b) == [a |-> a, b |-> b, at |-> "call"]
Top == stack[Len(stack)]
Below == SubSeq(stack, 1, Len(stack) - 1)
Active(at) == pc = "diff" /\ stack # << >> /\ Top.at = at

Return(v) == stack' = Below /\ ret' = v
At(at) == Append(Below, [a |-> Top.a, b |-> Top.b, at |-> at])
(* death, a failed assertion, or undefined behaviour.                      *)
Stop(how) ==
  /\ pc' = how
  /\ UNCHANGED <<prog, diffAgainst, status, transformer, stack, ret>>

OtherKind ==
  /\ Active("call") /\ Kind[Top.a] # Kind[Top.b]
  /\ Return("differs")
  /\ UNCHANGED <<prog, diffAgainst, status, transformer, pc>>

(* Mutant of Compared: a type that differs is gone over again.             *)
ComparedGoesOn ==
  /\ Active("call") /\ Kind[Top.a] = Kind[Top.b]
  /\ diffAgainst[Top.a] # NULL
  /\ IF status[Top.a] = "not done" THEN Stop("assertion")
     ELSE IF diffAgainst[Top.a] # Top.b THEN Stop("dead")
     ELSE /\ IF status[Top.a] = "differed"
             THEN stack' = At("fields") /\ UNCHANGED ret
             ELSE Return("same")
          /\ UNCHANGED <<prog, diffAgainst, status, transformer, pc>>

(* a has been compared before, or is being compared further down.          *)
Compared ==
  /\ Active("call") /\ Kind[Top.a] = Kind[Top.b]
  /\ diffAgainst[Top.a] # NULL
  /\ IF status[Top.a] = "not done" THEN Stop("assertion")
     ELSE IF diffAgainst[Top.a] # Top.b THEN Stop("dead")
     ELSE /\ Return(IF status[Top.a] = "differed" THEN "differs" ELSE "same")
          /\ UNCHANGED <<prog, diffAgainst, status, transformer, pc>>

(* The verdict on the top frame: SAME, or a transform is begun.            *)
Verdict(differs) ==
  LET a == Top.a IN
  IF differs
  THEN /\ status' = [status EXCEPT ![a] = "differed"]
       /\ transformer' = [transformer EXCEPT ![a] =
            [to |-> Top.b, live |-> TRUE, fields |-> << >>,
             straightCopy |-> Kind[a] \in {"union", "enum", "array"}]]
       /\ stack' = At("fields")
       /\ UNCHANGED ret
  ELSE /\ status' = [status EXCEPT ![a] = "same"]
       /\ Return("same")
       /\ UNCHANGED transformer

(* Mutant of Begin: a pointer of the same name is taken for the same.      *)
BeginByName ==
  /\ Active("call") /\ Kind[Top.a] = Kind[Top.b]
  /\ diffAgainst[Top.a] = NULL
  /\ diffAgainst' = [diffAgainst EXCEPT ![Top.a] = Top.b]
  /\ Verdict(Changed(Top.a, Top.b))
  /\ UNCHANGED <<prog, pc>>

(* A pointer, const or array differs also when what it leads to does.      *)
Begin ==
  /\ Active("call") /\ Kind[Top.a] = Kind[Top.b]
  /\ diffAgainst[Top.a] = NULL
  /\ diffAgainst' = [diffAgainst EXCEPT ![Top.a] = Top.b]
  /\ IF Top.a \in Pointing
     THEN /\ stack' = Append(At("pointed"), Call(Pointed[Top.a], Pointed[Top.b]))
          /\ UNCHANGED <<status, transformer, ret>>
     ELSE Verdict(Changed(Top.a, Top.b))
  /\ UNCHANGED <<prog, pc>>

PointedCompared ==
  /\ Active("pointed")
  /\ Verdict(Changed(Top.a, Top.b) \/ ret = "differs")
  /\ UNCHANGED <<prog, diffAgainst, pc>>

-----------------------------------------------------------------------------
(* The loop over the members of a type that differs.                       *)

Done == Len(transformer[Top.a].fields)
Member == prog.old.fields[Top.a][Done + 1]
Index == IndexForField(prog.new, Top.b, Member.name)
MemberNew == prog.new.fields[Top.b][Index]

InLoop(at) == Active(at) /\ Done < Len(FieldsOf(prog.old, Top.a))

Note(how) ==
  transformer' = [transformer EXCEPT ![Top.a] =
    [to |-> @.to, straightCopy |-> @.straightCopy, live |-> @.live,
     fields |-> Append(@.fields,
       [how |-> how,
        offset |-> IF how = "delete" THEN NULL ELSE Offset(prog.new, Top.b, Index)])]]

(* The check of the member's type after the switch.                        *)
TwoTargets ==
  LET t == transformer[Member.type] IN t # NULL /\ t.live /\ t.to # MemberNew.type
Freed == LET t == transformer[Member.type] IN t # NULL /\ ~t.live
Checked(Continue) ==
  IF Freed THEN Stop("undefined") ELSE IF TwoTargets THEN Stop("dead") ELSE Continue

(* freeTypeTransform: the transform is freed, the type still refers to it. *)
GiveUp ==
  /\ transformer' = [transformer EXCEPT ![Top.a] =
       [to |-> @.to, straightCopy |-> @.straightCopy, live |-> FALSE, fields |-> @.fields]]
  /\ Return("differs")
  /\ UNCHANGED <<prog, diffAgainst, status, pc>>

EndLoop ==
  /\ Active("fields") /\ Done = Len(FieldsOf(prog.old, Top.a))
  /\ Return("differs")
  /\ UNCHANGED <<prog, diffAgainst, status, transformer, pc>>

(* No such member in the new type: fieldTypes[FIELD_DELETED] is read, out  *)
(* of bounds; what is there is no type, or one of another kind.            *)
MemberGone ==
  /\ InLoop("fields") /\ Index = NULL
  /\ \/ Stop("undefined")
     \/ /\ Note("delete")
        /\ UNCHANGED <<prog, diffAgainst, status, stack, ret, pc>>

MemberOtherKind ==
  /\ InLoop("fields") /\ Index # NULL
  /\ Kind[Member.type] # Kind[MemberNew.type]
  /\ Note("delete")
  /\ UNCHANGED <<prog, diffAgainst, status, stack, ret, pc>>

SameKind(kinds) ==
  /\ InLoop("fields") /\ Index # NULL
  /\ Kind[Member.type] = Kind[MemberNew.type]
  /\ Kind[Member.type] \in kinds

PlainMember ==
  /\ SameKind({"base", "enum"})
  /\ Checked(/\ Note("copy")
             /\ UNCHANGED <<prog, diffAgainst, status, stack, ret, pc>>)

ArrayMember == SameKind({"array"}) /\ Stop("dead")

(* Mutant of PointerMember: only what is known of the pointed type counts. *)
PointerMemberUnchecked ==
  /\ SameKind({"pointer", "const"})
  /\ IF transformer[Pointed[Member.type]] = NULL
     THEN Note("copy") /\ UNCHANGED stack
     ELSE /\ stack' = Append(At("pointed member"),
                             Call(Pointed[Member.type], Pointed[MemberNew.type]))
          /\ UNCHANGED transformer
  /\ UNCHANGED <<prog, diffAgainst, status, ret, pc>>

PointerMember ==
  /\ SameKind({"pointer", "const"})
  /\ stack' = Append(At("pointed member"),
                     Call(Pointed[Member.type], Pointed[MemberNew.type]))
  /\ UNCHANGED <<prog, diffAgainst, status, transformer, ret, pc>>

(* Without a transform of what the member points to, the pointer is copied.*)
PointedMemberCompared ==
  /\ Active("pointed member")
  /\ LET t == transformer[Pointed[Member.type]] IN
     IF t = NULL /\ ret = "differs" THEN GiveUp
     ELSE Checked(
       \/ /\ t = NULL
          /\ Note("copy")
          /\ stack' = At("fields")
          /\ UNCHANGED <<prog, diffAgainst, status, ret, pc>>
       \/ /\ t # NULL
          /\ stack' = Append(At("member"), Call(Member.type, MemberNew.type))
          /\ UNCHANGED <<prog, diffAgainst, status, transformer, ret, pc>>)

CompoundMember ==
  /\ SameKind({"struct", "union"})
  /\ Checked(
       /\ stack' = Append(At("member"), Call(Member.type, MemberNew.type))
       /\ UNCHANGED <<prog, diffAgainst, status, transformer, ret, pc>>)

MemberCompared ==
  /\ Active("member")
  /\ IF ret = "differs" /\ transformer[Member.type] = NULL THEN GiveUp
     ELSE IF ret = "differs" /\ Kind[Top.a] = "union" THEN Stop("dead")
     ELSE /\ Note("recurse")
          /\ stack' = At("fields")
          /\ UNCHANGED <<prog, diffAgainst, status, ret, pc>>

Compare ==
  \/ OtherKind \/ Compared \/ Begin \/ PointedCompared \/ EndLoop
  \/ MemberGone \/ MemberOtherKind \/ PlainMember \/ ArrayMember
  \/ PointerMember \/ PointedMemberCompared \/ CompoundMember \/ MemberCompared

-----------------------------------------------------------------------------
(* Properties.                                                             *)

(* The cached verdicts agree: a type that was found the same has the name, *)
(* length and members of the type it was compared with, and what it points *)
(* to was found the same (compareTypesAndGenTransforms, typediff.c).       *)
SameIsSame ==
  \A a \in Types : status[a] = "same" =>
    /\ ~Changed(a, diffAgainst[a])
    /\ a \in Pointing => status[Pointed[a]] = "same"

(* Wherever the recursion over cyclic types began, the pointers that are   *)
(* copied as they are lead to types without a transform, and those that    *)
(* are followed lead to a type with one, which makes of it what the new    *)
(* member points to if that is of the same kind ("points to something      *)
(* that's fine, so we can just go ahead and copy the pointer", typediff.c).*)
PointersLeadToTransforms ==
  \A a \in Compound : transformer[a] # NULL /\ transformer[a].live =>
    \A k \in DOMAIN transformer[a].fields :
      LET m == prog.old.fields[a][k]
          b == transformer[a].to
          n == prog.new.fields[b][IndexForField(prog.new, b, m.name)]
          t == transformer[Pointed[m.type]]
      IN Kind[m.type] = "pointer" =>
           /\ transformer[a].fields[k].how = "copy" => t = NULL
           /\ transformer[a].fields[k].how = "recurse" =>
                /\ t # NULL
                /\ Kind[Pointed[m.type]] = Kind[Pointed[n.type]] => t.to = Pointed[n.type]

(* The recursion goes no deeper than there are types, the one it finds in  *)
(* progress counted once more (diffAgainst and transformer are set before  *)
(* the recursion, "do it up here in case we recurse on this type").        *)
DiffDepthBounded == Len(stack) <= Cardinality(Types) + 1
=============================================================================
