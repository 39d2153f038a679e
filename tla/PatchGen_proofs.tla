---------------------------- MODULE PatchGen_proofs ----------------------------
(***************************************************************************)
(* Proofs about PatchGen and the comparison of types within it, for any    *)
(* types and versions: the verdicts agree, the recursion is bounded, the   *)
(* pointers of transforms lead to transforms, and every fixup applies the  *)
(* FDE of its type.                                                        *)
(***************************************************************************)
EXTENDS PatchGen, WellFoundedInduction, FiniteSetTheorems, SequenceTheorems, TLAPS

-----------------------------------------------------------------------------
(* A set of natural numbers that is not empty has a least element, the     *)
(* form in which induction is used here: of the intervals from 0 to its    *)
(* elements one includes no other strictly.                                *)
LEMMA LeastNatural ==
  ASSUME NEW S \in SUBSET Nat, S # {}
  PROVE  \E n \in S : \A m \in S : n <= m
<1> DEFINE Intervals == {0..n : n \in S}
<1>1. Intervals \subseteq FiniteSubsetsOf(Nat)
  <2>1. \A n \in S : 0..n \in SUBSET Nat /\ IsFiniteSet(0..n)
    BY FS_Interval
  <2> QED
    BY <2>1, Zenon DEF FiniteSubsetsOf
<1>2. Intervals # {}
  OBVIOUS
<1>3. PICK I \in Intervals : \A J \in Intervals : ~ (<<J, I>> \in StrictSubsetOrdering(Nat))
  <2> HIDE DEF Intervals
  <2> QED
    BY <1>1, <1>2, FS_StrictSubsetOrderingWellFounded, WFMin
<1>4. PICK n \in S : I = 0..n
  OBVIOUS
<1>5. ASSUME NEW m \in S, m < n
      PROVE  FALSE
  <2>1. 0..m \subseteq 0..n /\ n \in 0..n /\ n \notin 0..m
    BY <1>5
  <2>2. 0..m # 0..n
    BY <2>1, Zenon
  <2>3. 0..m \in SUBSET Nat /\ 0..n \in SUBSET Nat /\ 0..m \in Intervals
    OBVIOUS
  <2>4. <<0..m, 0..n>> \notin StrictSubsetOrdering(Nat)
    BY <2>3, <1>3, <1>4, Zenon
  <2>5. \A A, B \in SUBSET Nat : A \subseteq B /\ A # B => <<A, B>> \in StrictSubsetOrdering(Nat)
    BY DEF StrictSubsetOrdering
  <2> QED
    BY <2>1, <2>2, <2>3, <2>4, <2>5, Zenon
<1> QED
  BY <1>5

-----------------------------------------------------------------------------
(* The comparison.                                                         *)

Verdicts ==
  \A t \in Types :
    /\ diffAgainst[t] = NULL => status[t] = "not done"
    /\ transformer[t] # NULL <=> status[t] = "differed"
    /\ transformer[t] # NULL =>
         /\ transformer[t].to = diffAgainst[t]
         /\ transformer[t].straightCopy <=> Kind[t] \in {"union", "enum", "array"}
         /\ t \in Compound => Len(transformer[t].fields) <= Len(prog.old.fields[t])

(* The member a frame is at, and the one of the same name.                 *)
MemberOf(fr) == prog.old.fields[fr.a][Len(transformer[fr.a].fields) + 1]
IndexOf(fr) == IndexForField(prog.new, fr.b, MemberOf(fr).name)
NewMemberOf(fr) == prog.new.fields[fr.b][IndexOf(fr)]

(* The call a frame makes.                                                 *)
Callee(fr) ==
  IF fr.at = "pointed" THEN Call(Pointed[fr.a], Pointed[fr.b])
  ELSE IF fr.at = "pointed member"
  THEN Call(Pointed[MemberOf(fr).type], Pointed[NewMemberOf(fr).type])
  ELSE Call(MemberOf(fr).type, NewMemberOf(fr).type)

(* A pointer to x, which becomes one to y, is to be followed.              *)
LeadsTo(x, y) == transformer[x] # NULL /\ (Kind[x] = Kind[y] => diffAgainst[x] = y)

(* What is known of a and b within the call for them.                      *)
AtMember(fr) ==
  /\ fr.a \in Compound /\ Len(transformer[fr.a].fields) < Len(prog.old.fields[fr.a])
  /\ IndexOf(fr) # NULL
  /\ Kind[MemberOf(fr).type] = Kind[NewMemberOf(fr).type]
  /\ fr.at = "pointed member" => Kind[MemberOf(fr).type] \in {"pointer", "const"}
  /\ fr.at = "member" /\ Kind[MemberOf(fr).type] = "pointer"
       => LeadsTo(Pointed[MemberOf(fr).type], Pointed[NewMemberOf(fr).type])

InProgress(fr) ==
  fr.at # "call" =>
    /\ Kind[fr.a] = Kind[fr.b] /\ diffAgainst[fr.a] = fr.b
    /\ IF fr.at = "pointed" THEN fr.a \in Pointing /\ status[fr.a] = "not done"
       ELSE status[fr.a] = "differed"
    /\ fr.at \in {"pointed member", "member"} => AtMember(fr)

(* What is known of x and y when the call for them has returned.           *)
Answered(x, y) ==
  /\ ret \in {"same", "differs"}
  /\ IF Kind[x] = Kind[y] THEN diffAgainst[x] = y ELSE ret = "differs"
  /\ ret = "same" => status[x] = "same"

Waiting == {"pointed", "pointed member", "member"}

Frames ==
  /\ \A k \in DOMAIN stack : InProgress(stack[k])
  /\ \A k \in DOMAIN stack : k < Len(stack) =>
       /\ stack[k].at \in Waiting
       /\ stack[k + 1].a = Callee(stack[k]).a /\ stack[k + 1].b = Callee(stack[k]).b
  /\ \A k, l \in DOMAIN stack :
       k # l /\ stack[k].at # "call" /\ stack[l].at # "call" => stack[k].a # stack[l].a
  /\ stack # << >> /\ Top.at \in Waiting => Answered(Callee(Top).a, Callee(Top).b)

(* A pointer that is copied leads to what is the same, one that is         *)
(* followed to what becomes the type the new member points to.             *)
PointerFits(a, k) ==
  LET m == prog.old.fields[a][k]
      b == transformer[a].to
      n == prog.new.fields[b][IndexForField(prog.new, b, m.name)]
  IN Kind[m.type] = "pointer" =>
       /\ transformer[a].fields[k].how = "copy" => status[Pointed[m.type]] = "same"
       /\ transformer[a].fields[k].how = "recurse" => LeadsTo(Pointed[m.type], Pointed[n.type])

Pointers ==
  \A a \in Compound : transformer[a] # NULL =>
    \A k \in DOMAIN transformer[a].fields : PointerFits(a, k)

(* Each call in progress has begun a type of its own.                      *)
Begun == { t \in Types : diffAgainst[t] # NULL }
Depth ==
  /\ Len(stack) <= Cardinality(Begun) + 1
  /\ stack # << >> /\ Top.at # "call" => Len(stack) <= Cardinality(Begun)

(* The transforms of the variables are those of types.                     *)
TransformsKnown ==
  \A k \in DOMAIN varTrans : varTrans[k].transform # NULL => transformer[varTrans[k].transform] # NULL

(* The variables.                                                          *)
Variables ==
  /\ \A v \in left : prog.old.vars[v] # NULL
  /\ var # NULL =>
       /\ prog.old.vars[var] \in Types /\ prog.new.vars[var] \in Types
       /\ stack # << >> => stack[1].a = prog.old.vars[var] /\ stack[1].b = prog.new.vars[var]
       /\ stack = << >> => Answered(prog.old.vars[var], prog.new.vars[var])
  /\ TransformsKnown

VarTypes ==
  /\ left \subseteq Vars /\ var \in Vars \cup {NULL}
  /\ varTrans \in Seq([var : Vars, transform : Types \cup {NULL}])

-----------------------------------------------------------------------------
(* The FDEs.                                                               *)

(* The FDE of t is for u.                                                  *)
FdeOf(t, u) == fdeIdx[t] \in DOMAIN fdes /\ fdes[fdeIdx[t]].from = u

WrittenTypes ==
  /\ \A t \in onDisk :
       IF Kind[t] = "const" THEN fdeIdx[t] = 0 \/ FdeOf(t, Pointed[t]) ELSE FdeOf(t, t)
  /\ \A t \in Types \ onDisk : fdeIdx[t] = 0
  /\ \A k \in DOMAIN fdes :
       LET t == fdes[k].from IN
       t \in onDisk /\ Kind[t] # "const" /\ fdeIdx[t] = k /\ transformer[t] # NULL

(* A const waits for the type it qualifies.                                *)
FrameFits(k) ==
  LET t == writing[k].type IN
  /\ transformer[t] # NULL
  /\ writing[k].at = "body" => t \in onDisk /\ Kind[t] # "const"
  /\ writing[k].at = "const" =>
       /\ t \in onDisk /\ Kind[t] = "const"
       /\ \/ Pointed[t] \in onDisk
          \/ k < Len(writing) /\ writing[k + 1] = [type |-> Pointed[t], at |-> "enter"]

WriterFrames == \A k \in DOMAIN writing : FrameFits(k)

BodyOf(t) == [type |-> t, at |-> "body"]

(* The FDE of a struct deals with its members in order, and with all of    *)
(* them before its frame is left.                                          *)
InOrder(t, instrs) ==
  /\ { instrs[i].member : i \in DOMAIN instrs } = { m \in Kept(t) : m <= LastMember(instrs) }
  /\ \/ \A m \in Kept(t) : m <= LastMember(instrs)
     \/ \E j \in DOMAIN writing : writing[j] = BodyOf(t)

MembersInOrder ==
  \A k \in DOMAIN fdes : Kind[fdes[k].from] = "struct" => InOrder(fdes[k].from, fdes[k].instrs)

Lead(t, instr) ==
  IF Kind[t] = "struct"
  THEN IF instr.op = "fixups_pointer"
       THEN Pointed[prog.old.fields[t][instr.member].type]
       ELSE prog.old.fields[t][instr.member].type
  ELSE Pointed[t]

Fits(t, instr) ==
  instr.op # "register" =>
    \/ instr.fde \in DOMAIN fdes /\ fdes[instr.fde].from = FdeType(Lead(t, instr))
    \/ Kind[Lead(t, instr)] = "const" /\ instr.fde = 0

AllFit ==
  \A k \in DOMAIN fdes : \A i \in DOMAIN fdes[k].instrs : Fits(fdes[k].from, fdes[k].instrs[i])

Phases ==
  /\ pc \in {"diff", "new"} => fdes = << >> /\ writing = << >> /\ onDisk = {}
  /\ pc \in {"functions", "done"} => writing = << >>

Core == DiffTypeOK /\ Verdicts /\ Frames /\ SameIsSame /\ Pointers
DiffInv == Core /\ Depth /\ Variables /\ VarTypes
WriterTypes ==
  /\ writing \in Seq([type : Types, at : {"enter", "const", "body"}])
  /\ onDisk \subseteq Types
  /\ fdes \in Seq([from : Types, to : Types, instrs : Seq(Instructions)])
  /\ fdeIdx \in [Types -> 0..Len(fdes)]
  /\ unsafe \subseteq Funcs
  /\ pc \in {"diff", "new", "write", "functions", "done", "dead", "assertion", "undefined"}
WriterInv == WriterTypes /\ WrittenTypes /\ WriterFrames /\ MembersInOrder /\ AllFit /\ Phases
IInv == DiffInv /\ WriterInv

-----------------------------------------------------------------------------
(* Types and their members.                                                *)

LEMMA VersionTypes ==
  ASSUME prog \in Programs, NEW t \in Compound
  PROVE  /\ prog.old.fields[t] \in Seq([name : STRING, type : Types])
         /\ prog.new.fields[t] \in Seq([name : STRING, type : Types])
         /\ FieldsOf(prog.old, t) = prog.old.fields[t] /\ FieldsOf(prog.new, t) = prog.new.fields[t]
<1>1. prog["old"].fields \in [Compound -> Seq([name : STRING, type : Types])]
  BY TypesAssumption DEF TypesAssumption
<1>2. prog["new"].fields \in [Compound -> Seq([name : STRING, type : Types])]
  BY TypesAssumption DEF TypesAssumption
<1> QED
  BY <1>1, <1>2 DEF FieldsOf

LEMMA PointedType ==
  ASSUME NEW t \in Types, Kind[t] \in {"pointer", "const", "array"}
  PROVE  t \in Pointing /\ Pointed[t] \in Types
BY TypesAssumption DEF TypesAssumption, Pointing

(* getIndexForField finds a member of the name.                            *)
LEMMA IndexFound ==
  ASSUME NEW q, NEW t \in Compound, NEW name, NEW R, q.fields[t] \in Seq(R),
         IndexForField(q, t, name) # NULL
  PROVE  IndexForField(q, t, name) \in DOMAIN q.fields[t]
<1> DEFINE s == q.fields[t]
           S == { k \in DOMAIN s : s[k].name = name }
<1>1. FieldsOf(q, t) = s
  BY DEF FieldsOf
<1>2. S # {}
  BY <1>1 DEF IndexForField
<1>3. S \in SUBSET Nat /\ \A k \in S : \A j \in 1..(k - 1) : j \in DOMAIN s
  OBVIOUS
<1>4. PICK n \in S : \A m \in S : n <= m
  <2> HIDE DEF S
  <2> QED
    BY <1>2, <1>3, LeastNatural
<1>5. n \in DOMAIN s /\ s[n].name = name /\ \A j \in 1..(n - 1) : s[j].name # name
  <2>1. ASSUME NEW j \in 1..(n - 1)
        PROVE  s[j].name # name
    <3>1. j \in DOMAIN s /\ ~(n <= j)
      BY <1>3
    <3> QED
      BY <1>4, <3>1
  <2> QED
    BY <2>1
<1>6. IndexForField(q, t, name) =
        CHOOSE k \in DOMAIN s : s[k].name = name /\ \A j \in 1..(k - 1) : s[j].name # name
  BY <1>1, <1>2 DEF IndexForField
<1> QED
  BY <1>5, <1>6

LEMMA MemberTypes ==
  ASSUME DiffTypeOK, NEW fr \in Calls, fr.a \in Compound, Kind[fr.a] = Kind[fr.b],
         transformer[fr.a] # NULL, Len(transformer[fr.a].fields) < Len(prog.old.fields[fr.a])
  PROVE  /\ MemberOf(fr).type \in Types
         /\ IndexOf(fr) # NULL => NewMemberOf(fr).type \in Types
<1>1. prog \in Programs /\ transformer[fr.a] \in Transform /\ fr.b \in Compound
  BY DEF DiffTypeOK, Calls, Compound
<1>2. /\ prog.old.fields[fr.a] \in Seq([name : STRING, type : Types])
      /\ prog.new.fields[fr.b] \in Seq([name : STRING, type : Types])
  BY <1>1, VersionTypes
<1>3. Len(transformer[fr.a].fields) \in Nat
  BY <1>1 DEF Transform
<1>4. MemberOf(fr) \in [name : STRING, type : Types]
  <2> DEFINE s == prog.old.fields[fr.a]
             k == Len(transformer[fr.a].fields)
  <2>1. s \in Seq([name : STRING, type : Types]) /\ k \in Nat /\ k < Len(s)
    BY <1>2, <1>3
  <2>2. MemberOf(fr) = s[k + 1]
    BY DEF MemberOf
  <2> DEFINE R == [name : STRING, type : Types]
  <2>3. s \in Seq(R)
    BY <2>1
  <2> HIDE DEF s, k, R
  <2>4. k + 1 \in 1..Len(s)
    BY <2>1, <2>3
  <2>5. s[k + 1] \in R
    BY <2>3, <2>4, ElementOfSeq
  <2> QED
    BY <2>2, <2>5 DEF R
<1>5. ASSUME IndexOf(fr) # NULL
      PROVE  NewMemberOf(fr) \in [name : STRING, type : Types]
  <2>1. IndexOf(fr) \in DOMAIN prog.new.fields[fr.b]
    BY <1>1, <1>2, <1>5, IndexFound DEF IndexOf
  <2> DEFINE s == prog.new.fields[fr.b]
             k == IndexOf(fr)
  <2>2. NewMemberOf(fr) = s[k] /\ s \in Seq([name : STRING, type : Types]) /\ k \in DOMAIN s
    BY <1>2, <2>1 DEF NewMemberOf
  <2> DEFINE R == [name : STRING, type : Types]
  <2>3. s \in Seq(R)
    BY <2>2
  <2> HIDE DEF s, k, R
  <2>4. s[k] \in R
    BY <2>2, <2>3, ElementOfSeq
  <2> QED
    BY <2>2, <2>4 DEF R
<1> QED
  BY <1>4, <1>5

-----------------------------------------------------------------------------
(* What steps do to the stack.                                             *)

LEMMA TopType ==
  ASSUME DiffTypeOK, stack # << >>
  PROVE  /\ Len(stack) \in Nat \ {0} /\ DOMAIN stack = 1..Len(stack) /\ Len(stack) \in DOMAIN stack
         /\ Top \in Calls /\ Top.a \in Types /\ Top.b \in Types
         /\ Top = [a |-> Top.a, b |-> Top.b, at |-> Top.at]
<1>1. stack \in Seq(Calls)
  BY DEF DiffTypeOK
<1>2. Len(stack) \in Nat \ {0} /\ DOMAIN stack = 1..Len(stack) /\ Len(stack) \in DOMAIN stack /\ Top \in Calls
  BY <1>1 DEF Top
<1> QED
  BY <1>2 DEF Calls

Places == {"call", "pointed", "fields", "pointed member", "member"}
TopAt(at) == [a |-> Top.a, b |-> Top.b, at |-> at]

Pops ==
  /\ stack # << >>
  /\ stack' \in Seq(Calls) /\ Len(stack') = Len(stack) - 1
  /\ \A k \in 1..(Len(stack) - 1) : stack'[k] = stack[k]

Moves(at) ==
  /\ stack # << >>
  /\ stack' \in Seq(Calls) /\ Len(stack') = Len(stack)
  /\ \A k \in 1..(Len(stack) - 1) : stack'[k] = stack[k]
  /\ stack'[Len(stack)] = TopAt(at)

Pushes(at) ==
  /\ stack # << >>
  /\ stack' \in Seq(Calls) /\ Len(stack') = Len(stack) + 1
  /\ \A k \in 1..(Len(stack) - 1) : stack'[k] = stack[k]
  /\ stack'[Len(stack)] = TopAt(at)
  /\ stack'[Len(stack) + 1] = Callee(TopAt(at))

LEMMA BelowEffect ==
  ASSUME DiffTypeOK, stack # << >>
  PROVE  /\ Below \in Seq(Calls) /\ Len(Below) = Len(stack) - 1
         /\ \A k \in 1..(Len(stack) - 1) : Below[k] = stack[k]
<1>1. stack \in Seq(Calls)
  BY DEF DiffTypeOK
<1> QED
  BY <1>1, TopType DEF Below

LEMMA PopEffect ==
  ASSUME DiffTypeOK, stack # << >>, stack' = Below
  PROVE  Pops
BY BelowEffect DEF Pops

LEMMA AtEffect ==
  ASSUME DiffTypeOK, stack # << >>, NEW at \in Places
  PROVE  /\ TopAt(at) \in Calls
         /\ At(at) \in Seq(Calls) /\ Len(At(at)) = Len(stack)
         /\ \A k \in 1..(Len(stack) - 1) : At(at)[k] = stack[k]
         /\ At(at)[Len(stack)] = TopAt(at)
<1>1. TopAt(at) \in Calls
  BY TopType DEF TopAt, Calls, Places
<1>2. At(at) = Append(Below, TopAt(at))
  BY DEF At, TopAt
<1> HIDE DEF TopAt
<1> QED
  BY <1>1, <1>2, BelowEffect, TopType

LEMMA MoveEffect ==
  ASSUME DiffTypeOK, stack # << >>, stack' = At("fields")
  PROVE  Moves("fields")
BY AtEffect DEF Moves, Places

LEMMA StayEffect ==
  ASSUME DiffTypeOK, stack # << >>, Top.at = "fields", stack' = stack
  PROVE  Moves("fields")
<1>1. stack[Len(stack)] = TopAt("fields")
  BY TopType DEF TopAt, Top
<1> QED
  BY <1>1 DEF Moves, DiffTypeOK

LEMMA PushEffect ==
  ASSUME DiffTypeOK, stack # << >>, NEW at \in Places, NEW x \in Types, NEW y \in Types,
         stack' = Append(At(at), Call(x, y)), Call(x, y) = Callee(TopAt(at))
  PROVE  Pushes(at)
<1> DEFINE s == At(at)
           c == Call(x, y)
           n == Len(stack)
<1>1. c \in Calls
  BY DEF Call, Calls
<1>2. /\ s \in Seq(Calls) /\ Len(s) = n /\ n \in Nat \ {0} /\ s[n] = TopAt(at)
      /\ \A k \in 1..(n - 1) : s[k] = stack[k]
  BY AtEffect, TopType
<1>3. stack' = Append(s, c) /\ c = Callee(TopAt(at))
  OBVIOUS
<1> HIDE DEF s, c, n
<1>4. /\ Append(s, c) \in Seq(Calls) /\ Len(Append(s, c)) = n + 1
      /\ \A k \in 1..n : Append(s, c)[k] = s[k]
      /\ Append(s, c)[n + 1] = c
  BY <1>1, <1>2
<1>5. n = Len(stack)
  BY DEF n
<1>6. /\ stack' \in Seq(Calls) /\ Len(stack') = n + 1
      /\ \A k \in 1..(n - 1) : stack'[k] = stack[k]
      /\ stack'[n] = TopAt(at) /\ stack'[n + 1] = Callee(TopAt(at))
  <2>1. stack' \in Seq(Calls) /\ Len(stack') = n + 1 /\ stack'[n + 1] = c
    BY <1>3, <1>4
  <2>2. \A k \in 1..n : stack'[k] = s[k]
    BY <1>3, <1>4
  <2> QED
    BY <1>2, <1>3, <2>1, <2>2
<1> QED
  BY <1>5, <1>6 DEF Pushes
-----------------------------------------------------------------------------
(* The kinds of step of a comparison, with a and b those of the innermost  *)
(* call.                                                                   *)

Halts == UNCHANGED <<prog, diffAgainst, status, transformer, stack, ret>>

Returns(a, b) ==
  /\ Pops /\ UNCHANGED <<prog, diffAgainst, status, transformer>>
  /\ ret' \in {"same", "differs"}
  /\ IF Kind[a] = Kind[b] THEN diffAgainst[a] = b ELSE ret' = "differs"
  /\ ret' = "same" => status[a] = "same"

Judges(a, b) ==
  /\ Top.at \in {"call", "pointed"} /\ Kind[a] = Kind[b]
  /\ diffAgainst[a] \in {NULL, b} /\ status[a] = "not done"
  /\ Top.at = "call" => diffAgainst[a] = NULL
  /\ prog' = prog /\ diffAgainst' = [diffAgainst EXCEPT ![a] = b]

FindsSame(a, b) ==
  /\ Judges(a, b) /\ Pops
  /\ status' = [status EXCEPT ![a] = "same"] /\ transformer' = transformer /\ ret' = "same"
  /\ ~Changed(a, b) /\ (a \in Pointing => status[Pointed[a]] = "same")

FindsDifferent(a, b) ==
  /\ Judges(a, b) /\ Moves("fields")
  /\ status' = [status EXCEPT ![a] = "differed"] /\ ret' = ret
  /\ transformer' = [transformer EXCEPT ![a] =
       [to |-> b, live |-> TRUE, fields |-> << >>,
        straightCopy |-> Kind[a] \in {"union", "enum", "array"}]]

BeginsPointing(a, b) ==
  /\ Top.at = "call" /\ Kind[a] = Kind[b] /\ diffAgainst[a] = NULL /\ a \in Pointing
  /\ Pushes("pointed")
  /\ diffAgainst' = [diffAgainst EXCEPT ![a] = b]
  /\ UNCHANGED <<prog, status, transformer, ret>>

Notes(a, how) ==
  /\ Top.at \in {"fields", "pointed member", "member"} /\ Moves("fields")
  /\ a \in Compound /\ Len(transformer[a].fields) < Len(prog.old.fields[a])
  /\ how \in {"copy", "recurse", "delete"}
  /\ how # "delete" => IndexOf(Top) # NULL
  /\ Kind[MemberOf(Top).type] = "pointer" =>
       /\ how = "copy" => status[Pointed[MemberOf(Top).type]] = "same"
       /\ how = "recurse" => LeadsTo(Pointed[MemberOf(Top).type], Pointed[NewMemberOf(Top).type])
  /\ UNCHANGED <<prog, diffAgainst, status, ret>>
  /\ Note(how)

Discards(a) ==
  /\ Top.at \in {"pointed member", "member"} /\ Pops
  /\ transformer' = [transformer EXCEPT ![a] =
       [to |-> @.to, straightCopy |-> @.straightCopy, live |-> FALSE, fields |-> @.fields]]
  /\ ret' = "differs" /\ UNCHANGED <<prog, diffAgainst, status>>

Descends(at) ==
  /\ Top.at \in {"fields", "pointed member"} /\ at \in {"pointed member", "member"}
  /\ Pushes(at) /\ AtMember(TopAt(at))
  /\ UNCHANGED <<prog, diffAgainst, status, transformer, ret>>

(* Within a call whose frame is not at its beginning.                      *)
LEMMA TopInProgress ==
  ASSUME DiffTypeOK, Verdicts, Frames, stack # << >>, Top.at \in {"fields", "pointed member", "member"}
  PROVE  /\ InProgress(Top) /\ Kind[Top.a] = Kind[Top.b] /\ diffAgainst[Top.a] = Top.b
         /\ status[Top.a] = "differed" /\ transformer[Top.a] # NULL
         /\ transformer[Top.a] \in Transform /\ Top.b \in Types
<1>1. InProgress(Top) /\ Top.a \in Types /\ Top.b \in Types
  BY TopType DEF Frames, Top
<1>2. Kind[Top.a] = Kind[Top.b] /\ diffAgainst[Top.a] = Top.b /\ status[Top.a] = "differed"
  BY <1>1 DEF InProgress
<1>3. transformer[Top.a] # NULL
  BY <1>1, <1>2 DEF Verdicts
<1> QED
  BY <1>1, <1>2, <1>3 DEF DiffTypeOK

LEMMA SameMember ==
  /\ Member = MemberOf(Top) /\ Index = IndexOf(Top) /\ MemberNew = NewMemberOf(Top)
BY DEF Member, MemberOf, Index, IndexOf, MemberNew, NewMemberOf, Done

LEMMA LoopEffect ==
  ASSUME DiffTypeOK, Verdicts, Frames, InLoop("fields")
  PROVE  /\ stack # << >> /\ Top.at = "fields"
         /\ Top.a \in Compound /\ Len(transformer[Top.a].fields) < Len(prog.old.fields[Top.a])
         /\ MemberOf(Top).type \in Types
         /\ IndexOf(Top) # NULL => NewMemberOf(Top).type \in Types
<1>1. stack # << >> /\ Top.at = "fields" /\ Len(transformer[Top.a].fields) < Len(FieldsOf(prog.old, Top.a))
  BY DEF InLoop, Active, Done
<1>2. Top \in Calls /\ transformer[Top.a] # NULL /\ transformer[Top.a] \in Transform /\ Kind[Top.a] = Kind[Top.b]
  BY <1>1, TopType, TopInProgress
<1>3. Top.a \in Compound /\ FieldsOf(prog.old, Top.a) = prog.old.fields[Top.a]
  <2>1. Len(transformer[Top.a].fields) \in Nat
    BY <1>2 DEF Transform
  <2>2. Len(<< >>) = 0
    OBVIOUS
  <2> QED
    BY <1>1, <2>1, <2>2 DEF FieldsOf
<1> QED
  BY <1>1, <1>2, <1>3, MemberTypes

LEMMA VerdictKind ==
  ASSUME DiffTypeOK, stack # << >>, Judges(Top.a, Top.b), NEW differs, Verdict(differs),
         ~differs => ~Changed(Top.a, Top.b) /\ (Top.a \in Pointing => status[Pointed[Top.a]] = "same")
  PROVE  FindsSame(Top.a, Top.b) \/ FindsDifferent(Top.a, Top.b)
<1>1. CASE differs
  <2>1. Moves("fields")
    BY <1>1, MoveEffect DEF Verdict
  <2> QED
    BY <1>1, <2>1 DEF Verdict, FindsDifferent
<1>2. CASE ~differs
  <2>1. Pops
    BY <1>2, PopEffect DEF Verdict, Return
  <2> QED
    BY <1>2, <2>1 DEF Verdict, Return, FindsSame
<1> QED
  BY <1>1, <1>2

LEMMA ComparedKind ==
  ASSUME DiffTypeOK, Compared
  PROVE  Halts \/ Returns(Top.a, Top.b)
<1>1. stack # << >> /\ Kind[Top.a] = Kind[Top.b] /\ Top.a \in Types
  BY TopType DEF Compared, Active
<1>2. CASE status[Top.a] = "not done" \/ diffAgainst[Top.a] # Top.b
  BY <1>2 DEF Compared, Stop, Halts
<1>3. CASE status[Top.a] # "not done" /\ diffAgainst[Top.a] = Top.b
  <2>1. /\ Return(IF status[Top.a] = "differed" THEN "differs" ELSE "same")
        /\ UNCHANGED <<prog, diffAgainst, status, transformer>>
    BY <1>3 DEF Compared
  <2>2. Pops
    BY <1>1, <2>1, PopEffect DEF Return
  <2>3. status[Top.a] \in {"differed", "same"}
    BY <1>1, <1>3 DEF DiffTypeOK
  <2> QED
    BY <1>1, <1>3, <2>1, <2>2, <2>3 DEF Return, Returns
<1> QED
  BY <1>2, <1>3

LEMMA BeginKind ==
  ASSUME DiffTypeOK, Verdicts, Begin
  PROVE  \/ FindsSame(Top.a, Top.b) \/ FindsDifferent(Top.a, Top.b) \/ BeginsPointing(Top.a, Top.b)
<1>1. /\ stack # << >> /\ Top.at = "call" /\ Kind[Top.a] = Kind[Top.b] /\ diffAgainst[Top.a] = NULL
      /\ Top.a \in Types /\ Top.b \in Types
      /\ diffAgainst' = [diffAgainst EXCEPT ![Top.a] = Top.b] /\ prog' = prog
  BY TopType DEF Begin, Active
<1>2. CASE Top.a \in Pointing
  <2>1. /\ stack' = Append(At("pointed"), Call(Pointed[Top.a], Pointed[Top.b]))
        /\ UNCHANGED <<status, transformer, ret>>
    BY <1>2 DEF Begin
  <2>2. Pointed[Top.a] \in Types /\ Pointed[Top.b] \in Types
    BY <1>1, <1>2, PointedType DEF Pointing
  <2>3. Call(Pointed[Top.a], Pointed[Top.b]) = Callee(TopAt("pointed"))
    BY DEF Callee, TopAt
  <2>4. Pushes("pointed")
    BY <1>1, <2>1, <2>2, <2>3, PushEffect DEF Places
  <2> QED
    BY <1>1, <1>2, <2>1, <2>4 DEF BeginsPointing
<1>3. CASE Top.a \notin Pointing
  <2>1. Judges(Top.a, Top.b)
    BY <1>1 DEF Judges, Verdicts
  <2>2. Verdict(Changed(Top.a, Top.b))
    BY <1>3 DEF Begin
  <2> QED
    BY <1>1, <1>3, <2>1, <2>2, VerdictKind
<1> QED
  BY <1>2, <1>3

LEMMA PointedComparedKind ==
  ASSUME DiffTypeOK, Frames, PointedCompared
  PROVE  FindsSame(Top.a, Top.b) \/ FindsDifferent(Top.a, Top.b)
<1>1. stack # << >> /\ Top.at = "pointed" /\ InProgress(Top) /\ Top.a \in Types /\ Top.b \in Types
  BY TopType DEF PointedCompared, Active, Frames, Top
<1>2. Kind[Top.a] = Kind[Top.b] /\ diffAgainst[Top.a] = Top.b /\ status[Top.a] = "not done"
  BY <1>1 DEF InProgress
<1>3. diffAgainst' = [diffAgainst EXCEPT ![Top.a] = Top.b] /\ prog' = prog
  BY <1>1, <1>2 DEF PointedCompared, DiffTypeOK
<1>4. Judges(Top.a, Top.b)
  BY <1>1, <1>2, <1>3 DEF Judges
<1>5. Verdict(Changed(Top.a, Top.b) \/ ret = "differs")
  BY DEF PointedCompared
<1>6. Answered(Pointed[Top.a], Pointed[Top.b])
  BY <1>1 DEF Frames, Waiting, Callee, Call
<1>7. ret # "differs" => status[Pointed[Top.a]] = "same"
  BY <1>6 DEF Answered
<1> QED
  BY <1>1, <1>4, <1>5, <1>7, VerdictKind

LEMMA PointerMemberKind ==
  ASSUME DiffTypeOK, Verdicts, Frames, PointerMember
  PROVE  Descends("pointed member")
<1>1. InLoop("fields") /\ Index # NULL /\ Kind[Member.type] = Kind[MemberNew.type]
      /\ Kind[Member.type] \in {"pointer", "const"}
  BY DEF PointerMember, SameKind
<1>2. /\ stack # << >> /\ Top.at = "fields"
      /\ Top.a \in Compound /\ Len(transformer[Top.a].fields) < Len(prog.old.fields[Top.a])
      /\ MemberOf(Top).type \in Types /\ NewMemberOf(Top).type \in Types
  BY <1>1, LoopEffect, SameMember
<1> DEFINE fr == TopAt("pointed member")
<1>3. /\ fr.a = Top.a /\ fr.b = Top.b /\ fr.at = "pointed member"
      /\ MemberOf(fr) = MemberOf(Top) /\ IndexOf(fr) = IndexOf(Top) /\ NewMemberOf(fr) = NewMemberOf(Top)
  BY DEF TopAt, MemberOf, IndexOf, NewMemberOf
<1>4. AtMember(fr)
  BY <1>1, <1>2, <1>3, SameMember DEF AtMember
<1> DEFINE x == Pointed[Member.type]
           y == Pointed[MemberNew.type]
<1>5. x \in Types /\ y \in Types
  BY <1>1, <1>2, SameMember, PointedType
<1>6. Call(x, y) = Callee(fr)
  BY <1>3, SameMember DEF Callee
<1>7. stack' = Append(At("pointed member"), Call(x, y)) /\ UNCHANGED <<prog, diffAgainst, status, transformer, ret>>
  BY DEF PointerMember
<1> HIDE DEF x, y
<1>8. Pushes("pointed member")
  BY <1>2, <1>5, <1>6, <1>7, PushEffect DEF Places
<1> QED
  BY <1>2, <1>4, <1>7, <1>8 DEF Descends

(* The call for a member itself, when a pointer among them leads on.       *)
LEMMA MemberCall ==
  ASSUME DiffTypeOK, stack # << >>, Top.at \in {"fields", "pointed member"},
         Top.a \in Compound, Len(transformer[Top.a].fields) < Len(prog.old.fields[Top.a]),
         IndexOf(Top) # NULL, Kind[MemberOf(Top).type] = Kind[NewMemberOf(Top).type],
         MemberOf(Top).type \in Types, NewMemberOf(Top).type \in Types,
         Kind[MemberOf(Top).type] = "pointer"
           => LeadsTo(Pointed[MemberOf(Top).type], Pointed[NewMemberOf(Top).type]),
         stack' = Append(At("member"), Call(Member.type, MemberNew.type)),
         UNCHANGED <<prog, diffAgainst, status, transformer, ret>>
  PROVE  Descends("member")
<1> DEFINE fr == TopAt("member")
<1>1. /\ fr.a = Top.a /\ fr.b = Top.b /\ fr.at = "member"
      /\ MemberOf(fr) = MemberOf(Top) /\ IndexOf(fr) = IndexOf(Top) /\ NewMemberOf(fr) = NewMemberOf(Top)
  BY DEF TopAt, MemberOf, IndexOf, NewMemberOf
<1>2. AtMember(fr)
  BY <1>1 DEF AtMember
<1>3. Call(Member.type, MemberNew.type) = Callee(fr)
  BY <1>1, SameMember DEF Callee
<1> DEFINE x == Member.type
           y == MemberNew.type
<1>4. x \in Types /\ y \in Types /\ stack' = Append(At("member"), Call(x, y)) /\ Call(x, y) = Callee(fr)
  BY <1>3, SameMember
<1> HIDE DEF x, y
<1>5. Pushes("member")
  BY <1>4, PushEffect DEF Places
<1> QED
  BY <1>2, <1>5 DEF Descends

LEMMA PointedMemberComparedKind ==
  ASSUME DiffTypeOK, Verdicts, Frames, PointedMemberCompared
  PROVE  Halts \/ Discards(Top.a) \/ Notes(Top.a, "copy") \/ Descends("member")
<1>1. stack # << >> /\ Top.at = "pointed member"
  BY DEF PointedMemberCompared, Active
<1>2. /\ AtMember(Top) /\ Kind[Top.a] = Kind[Top.b] /\ transformer[Top.a] # NULL
      /\ Top \in Calls /\ Top.a \in Types
  BY <1>1, TopInProgress, TopType DEF InProgress
<1>3. /\ Top.a \in Compound /\ Len(transformer[Top.a].fields) < Len(prog.old.fields[Top.a])
      /\ IndexOf(Top) # NULL /\ Kind[MemberOf(Top).type] = Kind[NewMemberOf(Top).type]
  BY <1>2 DEF AtMember
<1>4. MemberOf(Top).type \in Types /\ NewMemberOf(Top).type \in Types
  BY <1>2, <1>3, MemberTypes
<1> DEFINE x == Pointed[MemberOf(Top).type]
           y == Pointed[NewMemberOf(Top).type]
<1>5. Answered(x, y)
  BY <1>1 DEF Frames, Waiting, Callee, Call
<1>6. CASE transformer[x] = NULL /\ ret = "differs"
  <2>1. GiveUp
    BY <1>6, SameMember DEF PointedMemberCompared
  <2>2. Pops
    BY <1>1, <2>1, PopEffect DEF GiveUp, Return
  <2> QED
    BY <1>1, <2>1, <2>2 DEF GiveUp, Return, Discards
<1>7. CASE ~(transformer[x] = NULL /\ ret = "differs")
  <2>1. \/ Stop("undefined") \/ Stop("dead")
        \/ /\ transformer[x] = NULL /\ Note("copy") /\ stack' = At("fields")
           /\ UNCHANGED <<prog, diffAgainst, status, ret>>
        \/ /\ transformer[x] # NULL
           /\ stack' = Append(At("member"), Call(Member.type, MemberNew.type))
           /\ UNCHANGED <<prog, diffAgainst, status, transformer, ret>>
    BY <1>7, SameMember DEF PointedMemberCompared, Checked
  <2>2. CASE Stop("undefined") \/ Stop("dead")
    BY <2>2 DEF Stop, Halts
  <2>3. CASE /\ transformer[x] = NULL /\ Note("copy") /\ stack' = At("fields")
             /\ UNCHANGED <<prog, diffAgainst, status, ret>>
    <3>1. status[x] = "same"
      BY <1>5, <1>7, <2>3 DEF Answered
    <3>2. Moves("fields")
      BY <1>1, <2>3, MoveEffect
    <3> HIDE DEF x
    <3>3. x = Pointed[MemberOf(Top).type]
      BY DEF x
    <3> QED
      BY <1>1, <1>3, <2>3, <3>1, <3>2, <3>3 DEF Notes
  <2>4. CASE /\ transformer[x] # NULL
             /\ stack' = Append(At("member"), Call(Member.type, MemberNew.type))
             /\ UNCHANGED <<prog, diffAgainst, status, transformer, ret>>
    <3>1. LeadsTo(x, y)
      BY <1>5, <2>4 DEF Answered, LeadsTo
    <3> QED
      BY <1>1, <1>3, <1>4, <2>4, <3>1, MemberCall
  <2> QED
    BY <2>1, <2>2, <2>3, <2>4
<1> QED
  BY <1>6, <1>7

LEMMA CompoundMemberKind ==
  ASSUME DiffTypeOK, Verdicts, Frames, CompoundMember
  PROVE  Halts \/ Descends("member")
<1>1. InLoop("fields") /\ Index # NULL /\ Kind[Member.type] = Kind[MemberNew.type]
      /\ Kind[Member.type] \in {"struct", "union"}
  BY DEF CompoundMember, SameKind
<1>2. \/ Stop("undefined") \/ Stop("dead")
      \/ /\ stack' = Append(At("member"), Call(Member.type, MemberNew.type))
         /\ UNCHANGED <<prog, diffAgainst, status, transformer, ret>>
  BY DEF CompoundMember, Checked
<1>3. CASE Stop("undefined") \/ Stop("dead")
  BY <1>3 DEF Stop, Halts
<1>4. CASE /\ stack' = Append(At("member"), Call(Member.type, MemberNew.type))
           /\ UNCHANGED <<prog, diffAgainst, status, transformer, ret>>
  BY <1>1, <1>4, LoopEffect, SameMember, MemberCall
<1> QED
  BY <1>2, <1>3, <1>4

LEMMA MemberComparedKind ==
  ASSUME DiffTypeOK, Verdicts, Frames, MemberCompared
  PROVE  Halts \/ Discards(Top.a) \/ Notes(Top.a, "recurse")
<1>1. stack # << >> /\ Top.at = "member"
  BY DEF MemberCompared, Active
<1>2. AtMember(Top)
  BY <1>1, TopInProgress DEF InProgress
<1>3. \/ Stop("dead")
      \/ GiveUp
      \/ Note("recurse") /\ stack' = At("fields") /\ UNCHANGED <<prog, diffAgainst, status, ret>>
  BY DEF MemberCompared
<1>4. CASE Stop("dead")
  BY <1>4 DEF Stop, Halts
<1>5. CASE GiveUp
  <2>1. Pops
    BY <1>1, <1>5, PopEffect DEF GiveUp, Return
  <2> QED
    BY <1>1, <1>5, <2>1 DEF GiveUp, Return, Discards
<1>6. CASE Note("recurse") /\ stack' = At("fields") /\ UNCHANGED <<prog, diffAgainst, status, ret>>
  <2>1. Moves("fields")
    BY <1>1, <1>6, MoveEffect
  <2> QED
    BY <1>1, <1>2, <1>6, <2>1 DEF AtMember, Notes
<1> QED
  BY <1>3, <1>4, <1>5, <1>6

LEMMA NoteKinds ==
  ASSUME DiffTypeOK, Verdicts, Frames, MemberGone \/ MemberOtherKind \/ PlainMember
  PROVE  Halts \/ Notes(Top.a, "delete") \/ Notes(Top.a, "copy")
<1>1. InLoop("fields")
  BY DEF MemberGone, MemberOtherKind, PlainMember, SameKind
<1>2. /\ stack # << >> /\ Top.at = "fields" /\ Top.a \in Compound
      /\ Len(transformer[Top.a].fields) < Len(prog.old.fields[Top.a])
  BY <1>1, LoopEffect
<1>3. \/ Stop("undefined") \/ Stop("dead")
      \/ Note("delete") /\ UNCHANGED <<prog, diffAgainst, status, stack, ret>>
      \/ /\ IndexOf(Top) # NULL /\ Kind[MemberOf(Top).type] \in {"base", "enum"}
         /\ Note("copy") /\ UNCHANGED <<prog, diffAgainst, status, stack, ret>>
  BY SameMember DEF MemberGone, MemberOtherKind, PlainMember, SameKind, Checked
<1>4. CASE Stop("undefined") \/ Stop("dead")
  BY <1>4 DEF Stop, Halts
<1>5. CASE Note("delete") /\ UNCHANGED <<prog, diffAgainst, status, stack, ret>>
  BY <1>2, <1>5, StayEffect DEF Notes
<1>6. CASE /\ IndexOf(Top) # NULL /\ Kind[MemberOf(Top).type] \in {"base", "enum"}
           /\ Note("copy") /\ UNCHANGED <<prog, diffAgainst, status, stack, ret>>
  BY <1>2, <1>6, StayEffect DEF Notes
<1> QED
  BY <1>3, <1>4, <1>5, <1>6

LEMMA CompareKinds ==
  ASSUME DiffTypeOK, Verdicts, Frames, Compare
  PROVE  \/ Halts
         \/ stack # << >> /\ Returns(Top.a, Top.b)
         \/ stack # << >> /\ FindsSame(Top.a, Top.b)
         \/ stack # << >> /\ FindsDifferent(Top.a, Top.b)
         \/ stack # << >> /\ BeginsPointing(Top.a, Top.b)
         \/ stack # << >> /\ \E how \in {"copy", "recurse", "delete"} : Notes(Top.a, how)
         \/ stack # << >> /\ Discards(Top.a)
         \/ stack # << >> /\ \E at \in {"pointed member", "member"} : Descends(at)
<1>1. CASE OtherKind
  <2>1. stack # << >> /\ Kind[Top.a] # Kind[Top.b]
    BY <1>1 DEF OtherKind, Active
  <2>2. Pops
    BY <1>1, <2>1, PopEffect DEF OtherKind, Return
  <2> QED
    BY <1>1, <2>1, <2>2 DEF OtherKind, Return, Returns
<1>2. CASE Compared
  BY <1>2, ComparedKind DEF Returns, Pops
<1>3. CASE Begin
  <2>1. stack # << >>
    BY <1>3 DEF Begin, Active
  <2> QED
    BY <1>3, <2>1, BeginKind
<1>4. CASE PointedCompared
  <2>1. stack # << >>
    BY <1>4 DEF PointedCompared, Active
  <2> QED
    BY <1>4, <2>1, PointedComparedKind
<1>5. CASE EndLoop
  <2>1. stack # << >> /\ Top.at = "fields"
    BY <1>5 DEF EndLoop, Active
  <2>2. diffAgainst[Top.a] = Top.b
    BY <2>1, TopInProgress
  <2>3. Pops
    BY <1>5, <2>1, PopEffect DEF EndLoop, Return
  <2>4. Returns(Top.a, Top.b)
    BY <1>5, <2>2, <2>3 DEF EndLoop, Return, Returns
  <2> QED
    BY <2>1, <2>4
<1>6. CASE MemberGone \/ MemberOtherKind \/ PlainMember
  BY <1>6, NoteKinds DEF Notes, Moves
<1>7. CASE ArrayMember
  BY <1>7 DEF ArrayMember, Stop, Halts
<1>8. CASE PointerMember
  BY <1>8, PointerMemberKind DEF Descends, Pushes
<1>9. CASE PointedMemberCompared
  BY <1>9, PointedMemberComparedKind DEF Notes, Moves, Discards, Pops, Descends, Pushes
<1>10. CASE CompoundMember
  BY <1>10, CompoundMemberKind DEF Descends, Pushes
<1>11. CASE MemberCompared
  BY <1>11, MemberComparedKind DEF Notes, Moves, Discards, Pops
<1> QED
  BY <1>1, <1>2, <1>3, <1>4, <1>5, <1>6, <1>7, <1>8, <1>9, <1>10, <1>11 DEF Compare

-----------------------------------------------------------------------------
(* What a comparison keeps.                                                *)

(* What is noted of the types stays noted.                                 *)
Grows ==
  /\ prog' = prog
  /\ \A t \in Types :
       /\ diffAgainst[t] # NULL => diffAgainst'[t] = diffAgainst[t]
       /\ status[t] # "not done" => status'[t] = status[t]
       /\ transformer[t] # NULL => transformer'[t] # NULL

(* Nothing new is noted of t.                                              *)
Same(t) == status'[t] = status[t] /\ transformer'[t] = transformer[t]

LEMMA LeadsKept ==
  ASSUME DiffTypeOK, Verdicts, Grows, NEW x \in Types, NEW y, LeadsTo(x, y)
  PROVE  LeadsTo(x, y)'
<1>1. diffAgainst[x] # NULL
  <2>1. status[x] = "differed"
    BY DEF Verdicts, LeadsTo
  <2> QED
    BY <2>1 DEF Verdicts
<1> QED
  BY <1>1 DEF LeadsTo, Grows

LEMMA FrameKept ==
  ASSUME DiffTypeOK, Verdicts, Grows, NEW fr \in Calls, InProgress(fr), fr.at \in Waiting, Same(fr.a)
  PROVE  InProgress(fr)' /\ Callee(fr)' = Callee(fr)
<1>1. /\ Kind[fr.a] = Kind[fr.b] /\ diffAgainst[fr.a] = fr.b /\ fr.a \in Types /\ fr.b \in Types
      /\ IF fr.at = "pointed" THEN fr.a \in Pointing /\ status[fr.a] = "not done"
         ELSE status[fr.a] = "differed"
      /\ fr.at # "pointed" => AtMember(fr)
  BY DEF InProgress, Waiting, Calls
<1>2. fr.b # NULL
  BY <1>1, NullAssumption DEF NullAssumption
<1>3. /\ diffAgainst'[fr.a] = fr.b
      /\ IF fr.at = "pointed" THEN fr.a \in Pointing /\ status'[fr.a] = "not done"
         ELSE status'[fr.a] = "differed"
  BY <1>1, <1>2 DEF Grows, Same
<1>4. MemberOf(fr)' = MemberOf(fr) /\ IndexOf(fr)' = IndexOf(fr) /\ NewMemberOf(fr)' = NewMemberOf(fr)
  BY DEF MemberOf, IndexOf, NewMemberOf, Grows, Same
<1>5. ASSUME fr.at # "pointed"
      PROVE  AtMember(fr)'
  <2>1. /\ fr.a \in Compound /\ Len(transformer[fr.a].fields) < Len(prog.old.fields[fr.a])
        /\ IndexOf(fr) # NULL
        /\ Kind[MemberOf(fr).type] = Kind[NewMemberOf(fr).type]
        /\ fr.at = "pointed member" => Kind[MemberOf(fr).type] \in {"pointer", "const"}
    BY <1>1, <1>5 DEF AtMember
  <2>2. transformer[fr.a] # NULL
    BY <1>1, <1>5 DEF Verdicts
  <2>3. MemberOf(fr).type \in Types
    BY <1>1, <2>1, <2>2, MemberTypes
  <2> DEFINE x == Pointed[MemberOf(fr).type]
             y == Pointed[NewMemberOf(fr).type]
  <2>4. ASSUME fr.at = "member", Kind[MemberOf(fr).type] = "pointer"
        PROVE  LeadsTo(x, y)'
    <3>1. LeadsTo(x, y)
      BY <1>1, <1>5, <2>4 DEF AtMember
    <3>2. x \in Types
      BY <2>3, <2>4, PointedType
    <3>3. PICK u, v : u = x /\ v = y
      OBVIOUS
    <3>4. LeadsTo(u, v)'
      BY <3>1, <3>2, <3>3, LeadsKept
    <3> QED
      BY <1>4, <3>3, <3>4 DEF LeadsTo
  <2>5. transformer'[fr.a] = transformer[fr.a] /\ prog' = prog
    BY DEF Same, Grows
  <2> QED
    BY <1>4, <2>1, <2>4, <2>5 DEF AtMember
<1>6. InProgress(fr)'
  BY <1>1, <1>3, <1>5 DEF InProgress, Waiting
<1> QED
  BY <1>4, <1>6 DEF Callee, Call

(* A frame in its place.                                                   *)
LEMMA FrameInPlace ==
  ASSUME NEW fr, NEW k, stack'[k] = fr, InProgress(fr)'
  PROVE  InProgress(stack[k])'
BY DEF InProgress, AtMember, MemberOf, IndexOf, NewMemberOf, LeadsTo

LEMMA LowerFrame ==
  ASSUME DiffTypeOK, stack # << >>, NEW k \in 1..(Len(stack) - 1)
  PROVE  /\ k \in DOMAIN stack /\ k < Len(stack) /\ k # Len(stack) /\ Len(stack) \in DOMAIN stack
         /\ stack[k] \in Calls
<1>1. Len(stack) \in Nat \ {0} /\ DOMAIN stack = 1..Len(stack)
  BY TopType
<1>2. k \in DOMAIN stack /\ k < Len(stack) /\ k # Len(stack) /\ Len(stack) \in DOMAIN stack
  <2> DEFINE n == Len(stack)
  <2>1. n \in Nat \ {0} /\ k \in 1..(n - 1) /\ DOMAIN stack = 1..n
    BY <1>1
  <2> HIDE DEF n
  <2>2. k \in 1..n /\ k < n /\ k # n /\ n \in 1..n
    BY <2>1
  <2> QED
    BY <2>1, <2>2 DEF n
<1>3. stack \in Seq(Calls)
  BY DEF DiffTypeOK
<1> HIDE DEF Calls
<1> QED
  BY <1>1, <1>2, <1>3, ElementOfSeq

LEMMA LowerKept ==
  ASSUME DiffTypeOK, Verdicts, Frames, Grows, stack # << >>, NEW k \in 1..(Len(stack) - 1),
         Same(stack[k].a), stack'[k] = stack[k]
  PROVE  /\ InProgress(stack[k])' /\ stack[k].at \in Waiting
         /\ Callee(stack[k])' = Callee(stack[k])
<1>1. k \in DOMAIN stack /\ k < Len(stack) /\ stack[k] \in Calls
  BY LowerFrame
<1>2. PICK fr \in Calls : fr = stack[k]
  BY <1>1
<1>3. InProgress(fr) /\ fr.at \in Waiting
  BY <1>1, <1>2 DEF Frames
<1>4. InProgress(fr)' /\ Callee(fr)' = Callee(fr)
  BY <1>2, <1>3, FrameKept
<1>5. InProgress(stack[k])'
  BY <1>2, <1>4, FrameInPlace
<1>6. Callee(stack[k])' = Callee(stack[k])
  BY <1>2, <1>4 DEF Callee, Call, MemberOf, NewMemberOf, IndexOf
<1> QED
  BY <1>2, <1>3, <1>5, <1>6

(* The frames below are for other types.                                   *)
LEMMA TopIsOwn ==
  ASSUME DiffTypeOK, Frames, stack # << >>, Top.at # "call" \/ diffAgainst[Top.a] = NULL,
         NEW k \in 1..(Len(stack) - 1)
  PROVE  stack[k].a # Top.a
<1>1. /\ k \in DOMAIN stack /\ k < Len(stack) /\ k # Len(stack) /\ Len(stack) \in DOMAIN stack
      /\ stack[k] \in Calls
  BY LowerFrame
<1>2. stack[k].at \in Waiting /\ InProgress(stack[k])
  BY <1>1 DEF Frames
<1>3. CASE Top.at # "call"
  BY <1>1, <1>2, <1>3 DEF Frames, Waiting, Top
<1>4. CASE diffAgainst[Top.a] = NULL
  <2>1. diffAgainst[stack[k].a] = stack[k].b /\ stack[k].b \in Types
    BY <1>1, <1>2 DEF InProgress, Waiting, Calls
  <2> QED
    BY <1>4, <2>1, NullAssumption DEF NullAssumption
<1> QED
  BY <1>3, <1>4

LEMMA PopFrames ==
  ASSUME DiffTypeOK, Verdicts, Frames, Grows, Pops,
         \A k \in 1..(Len(stack) - 1) : Same(stack[k].a),
         NEW a, NEW b, a = Top.a, b = Top.b, Answered(a, b)'
  PROVE  Frames'
<1> DEFINE n == Len(stack)
<1>1. stack # << >> /\ n \in Nat \ {0} /\ DOMAIN stack = 1..n /\ DOMAIN stack' = 1..(n - 1) /\ Len(stack') = n - 1
  BY TopType DEF Pops
<1>2. \A k \in 1..(n - 1) :
        /\ stack'[k] = stack[k] /\ InProgress(stack[k])' /\ stack[k].at \in Waiting
        /\ Callee(stack[k])' = Callee(stack[k])
  BY <1>1, LowerKept DEF Pops
<1>3. \A k \in DOMAIN stack' : k < Len(stack') =>
        /\ stack'[k].at \in Waiting
        /\ stack'[k + 1].a = Callee(stack[k])'.a /\ stack'[k + 1].b = Callee(stack[k])'.b
  <2>1. ASSUME NEW k \in DOMAIN stack', k < Len(stack')
        PROVE  /\ stack'[k].at \in Waiting
               /\ stack'[k + 1].a = Callee(stack[k])'.a /\ stack'[k + 1].b = Callee(stack[k])'.b
    <3>1. k \in 1..(n - 1) /\ k + 1 \in 1..(n - 1) /\ k \in DOMAIN stack /\ k < Len(stack)
      BY <1>1, <2>1
    <3>2. stack[k + 1].a = Callee(stack[k]).a /\ stack[k + 1].b = Callee(stack[k]).b
      BY <3>1 DEF Frames
    <3> QED
      BY <1>2, <3>1, <3>2
  <2> QED
    BY <2>1
<1>4. \A k, l \in DOMAIN stack' :
        k # l /\ stack'[k].at # "call" /\ stack'[l].at # "call" => stack'[k].a # stack'[l].a
  <2>1. \A k \in DOMAIN stack' : k \in DOMAIN stack /\ stack'[k] = stack[k]
    BY <1>1, <1>2
  <2> QED
    BY <2>1 DEF Frames
<1>5. ASSUME stack' # << >>
      PROVE  Answered(Callee(Top).a, Callee(Top).b)'
  <2>1. n - 1 \in 1..(n - 1)
    <3>1. n - 1 # 0
      BY <1>1, <1>5, EmptySeq DEF Pops
    <3> QED
      BY <1>1, <3>1
  <2>2. Callee(Top)' = Callee(stack[n - 1])
    <3>1. Top' = stack[n - 1]
      BY <1>1, <1>2, <2>1 DEF Top
    <3>2. PICK j : j = n - 1
      OBVIOUS
    <3>3. Callee(stack[j])' = Callee(stack[j]) /\ Top' = stack'[j]
      BY <1>2, <2>1, <3>1, <3>2
    <3>4. Callee(Top)' = Callee(stack[j])'
      BY <3>3 DEF Callee, Call, MemberOf, NewMemberOf, IndexOf
    <3> QED
      BY <3>2, <3>3, <3>4
  <2>3. a = Callee(stack[n - 1]).a /\ b = Callee(stack[n - 1]).b
    <3>1. n - 1 \in DOMAIN stack /\ n - 1 < n /\ (n - 1) + 1 = n
      BY <1>1, <2>1
    <3> QED
      BY <3>1 DEF Frames, Top
  <2>4. Callee(Top)'.a = a /\ Callee(Top)'.b = b
    BY <2>2, <2>3
  <2> QED
    BY <2>4 DEF Answered
<1>6. \A k \in DOMAIN stack' : InProgress(stack[k])'
  BY <1>1, <1>2
<1> QED
  BY <1>3, <1>4, <1>5, <1>6 DEF Frames

(* The innermost call goes on, and its frame is told from those below.     *)
LEMMA GoesOnFrames ==
  ASSUME DiffTypeOK, Verdicts, Frames, Grows, stack # << >>,
         Top.at # "call" \/ diffAgainst[Top.a] = NULL,
         \A t \in Types \ {Top.a} : Same(t),
         NEW at \in Waiting \cup {"fields"}, NEW fr, fr = TopAt(at),
         \/ at = "fields" /\ Moves("fields")
         \/ at # "fields" /\ Pushes(at)
  PROVE  InProgress(fr)' /\ (at # "fields" => Callee(fr)' = Callee(fr)) => Frames'
<1>0. SUFFICES ASSUME InProgress(fr)', at # "fields" => Callee(fr)' = Callee(fr)
               PROVE  Frames'
  OBVIOUS
<1>1. PICK n : n = Len(stack)
  OBVIOUS
<1>2. n \in Nat \ {0} /\ DOMAIN stack = 1..n
  BY <1>1, TopType
<1>3. /\ stack' \in Seq(Calls) /\ stack'[n] = fr /\ \A k \in 1..(n - 1) : stack'[k] = stack[k]
      /\ at = "fields" => Len(stack') = n
      /\ at # "fields" => Len(stack') = n + 1 /\ stack'[n + 1] = Callee(fr)
  BY <1>1 DEF Moves, Pushes
<1> HIDE DEF Calls
<1>4. PICK m \in Nat : /\ m = Len(stack') /\ DOMAIN stack' = 1..m
                       /\ (at = "fields" => m = n) /\ (at # "fields" => m = n + 1)
  <2>1. stack' \in Seq(Calls)
    BY <1>3
  <2>2. DOMAIN stack' = 1..Len(stack') /\ Len(stack') \in Nat
    BY <2>1
  <2> QED
    BY <1>3, <2>2
<1>5. fr.at = at /\ fr.a = Top.a /\ fr.b = Top.b
  BY DEF TopAt
<1>6. \A k \in 1..(n - 1) : stack[k].a # Top.a
  BY <1>1, TopIsOwn
<1>7. \A k \in 1..(n - 1) :
        /\ stack'[k] = stack[k] /\ InProgress(stack[k])' /\ stack[k].at \in Waiting
        /\ Callee(stack[k])' = Callee(stack[k])
  <2>1. ASSUME NEW k \in 1..(n - 1)
        PROVE  Same(stack[k].a)
    BY <1>1, <1>6, LowerFrame DEF Calls
  <2> QED
    BY <1>1, <1>3, <2>1, LowerKept
<1>8. InProgress(stack[n])' /\ (at # "fields" => Callee(stack[n])' = Callee(fr))
  <2>1. InProgress(stack[n])'
    BY <1>0, <1>3, FrameInPlace
  <2>2. Callee(stack[n])' = Callee(fr)'
    BY <1>3 DEF Callee, Call, MemberOf, NewMemberOf, IndexOf
  <2> QED
    BY <1>0, <2>1, <2>2
<1>9. \A k \in DOMAIN stack' : k = n + 1 => stack'[k].at = "call"
  <2>1. n + 1 \in DOMAIN stack' => at # "fields"
    BY <1>2, <1>4
  <2>2. Callee(fr).at = "call"
    BY DEF Callee, Call
  <2> QED
    BY <1>3, <2>1, <2>2
<1>10. \A k \in DOMAIN stack' : k \in 1..(n - 1) \/ k = n \/ k = n + 1
  BY <1>2, <1>4
<1>11. \A k \in DOMAIN stack' : InProgress(stack[k])'
  <2>1. ASSUME NEW k, stack'[k].at = "call"
        PROVE  InProgress(stack[k])'
    BY <2>1 DEF InProgress
  <2> QED
    BY <1>7, <1>8, <1>9, <1>10, <2>1
<1>12. \A k \in DOMAIN stack' : k < Len(stack') =>
        /\ stack'[k].at \in Waiting
        /\ stack'[k + 1].a = Callee(stack[k])'.a /\ stack'[k + 1].b = Callee(stack[k])'.b
  <2> SUFFICES ASSUME NEW k \in 1..m, k < m
               PROVE  /\ stack'[k].at \in Waiting
                      /\ stack'[k + 1].a = Callee(stack[k])'.a /\ stack'[k + 1].b = Callee(stack[k])'.b
    BY <1>4
  <2>1. CASE k = n
    <3>1. at # "fields"
      BY <1>2, <1>4, <2>1
    <3>2. stack'[n].at = at /\ stack'[n + 1] = Callee(fr) /\ Callee(stack[n])' = Callee(fr)
      BY <1>3, <1>5, <1>8, <3>1
    <3> QED
      BY <2>1, <3>1, <3>2 DEF Waiting
  <2>2. CASE k \in 1..(n - 1)
    <3>1. k \in DOMAIN stack /\ k < Len(stack) /\ (k + 1 \in 1..(n - 1) \/ k + 1 = n)
      BY <1>1, <1>2, <2>2
    <3>2. stack[k + 1].a = Callee(stack[k]).a /\ stack[k + 1].b = Callee(stack[k]).b
      BY <3>1 DEF Frames
    <3>3. stack'[k + 1].a = stack[k + 1].a /\ stack'[k + 1].b = stack[k + 1].b
      BY <1>1, <1>3, <1>5, <3>1 DEF Top
    <3> QED
      BY <1>7, <2>2, <3>2, <3>3
  <2>3. k # n + 1 /\ k \in DOMAIN stack'
    BY <1>2, <1>4
  <2> QED
    BY <1>10, <2>1, <2>2, <2>3
<1>13. \A k, l \in DOMAIN stack' :
        k # l /\ stack'[k].at # "call" /\ stack'[l].at # "call" => stack'[k].a # stack'[l].a
  <2> SUFFICES ASSUME NEW k \in DOMAIN stack', NEW l \in DOMAIN stack', k # l,
                      stack'[k].at # "call", stack'[l].at # "call"
               PROVE  stack'[k].a # stack'[l].a
    OBVIOUS
  <2>1. (k \in 1..(n - 1) \/ k = n) /\ (l \in 1..(n - 1) \/ l = n)
    BY <1>9, <1>10
  <2>2. CASE k = n \/ l = n
    BY <1>3, <1>5, <1>6, <2>1, <2>2
  <2>3. CASE k \in 1..(n - 1) /\ l \in 1..(n - 1)
    <3>1. /\ k \in DOMAIN stack /\ l \in DOMAIN stack /\ stack'[k] = stack[k] /\ stack'[l] = stack[l]
      BY <1>2, <1>3, <2>3
    <3> QED
      BY <3>1 DEF Frames
  <2> QED
    BY <2>1, <2>2, <2>3
<1>14. Top'.at \in {"fields", "call"}
  <2>1. Top' = stack'[m]
    BY <1>4 DEF Top
  <2>2. CASE at = "fields"
    BY <1>3, <1>4, <1>5, <2>1, <2>2
  <2>3. CASE at # "fields"
    <3>1. stack'[m] = Callee(fr)
      BY <1>3, <1>4, <2>3
    <3>2. Callee(fr).at = "call"
      BY DEF Callee, Call
    <3> QED
      BY <2>1, <3>1, <3>2
  <2> QED
    BY <2>2, <2>3
<1>15. ~(Top'.at \in Waiting)
  BY <1>14 DEF Waiting
<1> QED
  BY <1>11, <1>12, <1>13, <1>15 DEF Frames

-----------------------------------------------------------------------------
(* What each kind of step does to what is noted.                           *)

LEMMA OffsetType ==
  ASSUME NEW p \in Programs, NEW v \in {"old", "new"}, NEW t \in Compound,
         NEW k \in DOMAIN p[v].fields[t]
  PROVE  Offset(p[v], t, k) \in Offsets
<1> DEFINE S == { Offset(p[v], t, j) : j \in DOMAIN p[v].fields[t] }
<1>1. Offset(p[v], t, k) \in S
  OBVIOUS
<1> DEFINE R(q, w, u) == { Offset(q[w], u, j) : j \in DOMAIN q[w].fields[u] }
<1>2. R(p, v, t) \in { R(q, w, u) : q \in Programs, w \in {"old", "new"}, u \in Compound }
  <2> HIDE DEF R
  <2> QED
    OBVIOUS
<1>3. S = R(p, v, t)
  OBVIOUS
<1>4. Offsets = UNION { R(q, w, u) : q \in Programs, w \in {"old", "new"}, u \in Compound }
  BY DEF Offsets
<1> HIDE DEF S, R
<1> QED
  BY <1>1, <1>2, <1>3, <1>4

LEMMA NotNull ==
  ASSUME NEW x \in Transform
  PROVE  x # NULL
BY NullAssumption DEF NullAssumption

(* One transform is replaced by another.                                   *)
LEMMA Replaced ==
  ASSUME DiffTypeOK, NEW a \in Types, NEW r \in Transform, transformer' = [transformer EXCEPT ![a] = r]
  PROVE  /\ transformer' \in [Types -> Transform \cup {NULL}]
         /\ transformer'[a] = r /\ transformer'[a] # NULL
         /\ \A t \in Types \ {a} : transformer'[t] = transformer[t]
<1> HIDE DEF Transform
<1>1. transformer \in [Types -> Transform \cup {NULL}]
  BY DEF DiffTypeOK
<1>2. transformer'[a] = r /\ \A t \in Types \ {a} : transformer'[t] = transformer[t]
  BY <1>1
<1>3. transformer' \in [Types -> Transform \cup {NULL}]
  BY <1>1
<1> QED
  BY <1>2, <1>3, NotNull

LEMMA NoteEffect ==
  ASSUME DiffTypeOK, Verdicts, Frames, stack # << >>, NEW how, Notes(Top.a, how)
  PROVE  /\ DiffTypeOK'
         /\ transformer'[Top.a] \in Transform /\ transformer'[Top.a] # NULL
         /\ transformer'[Top.a].to = transformer[Top.a].to
         /\ transformer'[Top.a].straightCopy = transformer[Top.a].straightCopy
         /\ \E e : transformer'[Top.a].fields = Append(transformer[Top.a].fields, e) /\ e.how = how
         /\ \A t \in Types \ {Top.a} : transformer'[t] = transformer[t]
<1> DEFINE a == Top.a
           x == transformer[a]
           off == IF how = "delete" THEN NULL ELSE Offset(prog.new, Top.b, Index)
           e == [how |-> how, offset |-> off]
           r == [to |-> x.to, straightCopy |-> x.straightCopy, live |-> x.live,
                 fields |-> Append(x.fields, e)]
<1>1. /\ a \in Types /\ x \in Transform /\ Kind[a] = Kind[Top.b] /\ Top.b \in Types /\ a \in Compound
      /\ how \in {"copy", "recurse", "delete"} /\ (how # "delete" => IndexOf(Top) # NULL)
      /\ UNCHANGED <<prog, diffAgainst, status, ret>> /\ stack' \in Seq(Calls)
  BY TopInProgress, TopType DEF Notes, Moves
<1>2. transformer' = [transformer EXCEPT ![a] = r]
  <2>1. transformer' = [transformer EXCEPT ![a] =
          [to |-> @.to, straightCopy |-> @.straightCopy, live |-> @.live,
           fields |-> Append(@.fields, e)]]
    BY DEF Notes, Note
  <2> HIDE DEF a, e
  <2> QED
    BY <2>1
<1>3. off \in Offsets \cup {NULL}
  <2>1. CASE how = "delete"
    BY <2>1
  <2>2. CASE how # "delete"
    <3>1. prog \in Programs /\ Top.b \in Compound
      BY <1>1 DEF DiffTypeOK, Compound
    <3>2. prog.new.fields[Top.b] \in Seq([name : STRING, type : Types])
      BY <3>1, VersionTypes
    <3>3. Index \in DOMAIN prog.new.fields[Top.b]
      BY <1>1, <2>2, <3>1, <3>2, SameMember, IndexFound DEF IndexOf
    <3>4. Offset(prog["new"], Top.b, Index) \in Offsets
      BY <3>1, <3>3, OffsetType
    <3> QED
      BY <2>2, <3>4
  <2> QED
    BY <2>1, <2>2
<1>4. e \in FieldTransform
  <2> HIDE DEF off
  <2> QED
    BY <1>1, <1>3 DEF FieldTransform
<1>5. r \in Transform
  <2>1. /\ x.to \in Types /\ x.straightCopy \in BOOLEAN /\ x.live \in BOOLEAN
        /\ x.fields \in Seq(FieldTransform)
    BY <1>1 DEF Transform
  <2> HIDE DEF e, x, FieldTransform
  <2>2. Append(x.fields, e) \in Seq(FieldTransform)
    BY <1>4, <2>1
  <2> QED
    BY <2>1, <2>2 DEF Transform
<1>6. r.to = x.to /\ r.straightCopy = x.straightCopy /\ r.fields = Append(x.fields, e) /\ e.how = how
  OBVIOUS
<1> HIDE DEF r, e
<1>7. /\ transformer' \in [Types -> Transform \cup {NULL}] /\ transformer'[a] = r /\ transformer'[a] # NULL
      /\ \A t \in Types \ {a} : transformer'[t] = transformer[t]
  BY <1>1, <1>2, <1>5, Replaced
<1>8. DiffTypeOK'
  BY <1>1, <1>7 DEF DiffTypeOK
<1> QED
  BY <1>5, <1>6, <1>7, <1>8

LEMMA DiscardEffect ==
  ASSUME DiffTypeOK, Verdicts, Frames, stack # << >>, Discards(Top.a)
  PROVE  /\ DiffTypeOK'
         /\ transformer'[Top.a] \in Transform /\ transformer'[Top.a] # NULL
         /\ transformer'[Top.a].to = transformer[Top.a].to
         /\ transformer'[Top.a].straightCopy = transformer[Top.a].straightCopy
         /\ transformer'[Top.a].fields = transformer[Top.a].fields
         /\ \A t \in Types \ {Top.a} : transformer'[t] = transformer[t]
<1> DEFINE a == Top.a
           x == transformer[a]
           r == [to |-> x.to, straightCopy |-> x.straightCopy, live |-> FALSE, fields |-> x.fields]
<1>1. /\ a \in Types /\ x \in Transform /\ stack' \in Seq(Calls)
      /\ UNCHANGED <<prog, diffAgainst, status>> /\ ret' = "differs"
  BY TopInProgress, TopType DEF Discards, Pops
<1>2. transformer' = [transformer EXCEPT ![a] = r]
  <2>1. transformer' = [transformer EXCEPT ![a] =
          [to |-> @.to, straightCopy |-> @.straightCopy, live |-> FALSE, fields |-> @.fields]]
    BY DEF Discards
  <2> HIDE DEF a
  <2> QED
    BY <2>1
<1>3. r \in Transform
  BY <1>1 DEF Transform
<1>4. r.to = x.to /\ r.straightCopy = x.straightCopy /\ r.fields = x.fields
  OBVIOUS
<1> HIDE DEF r
<1>5. /\ transformer' \in [Types -> Transform \cup {NULL}] /\ transformer'[a] = r /\ transformer'[a] # NULL
      /\ \A t \in Types \ {a} : transformer'[t] = transformer[t]
  BY <1>1, <1>2, <1>3, Replaced
<1>6. DiffTypeOK'
  BY <1>1, <1>5 DEF DiffTypeOK
<1> QED
  BY <1>3, <1>4, <1>5, <1>6

LEMMA DifferentEffect ==
  ASSUME DiffTypeOK, Verdicts, Frames, stack # << >>, FindsDifferent(Top.a, Top.b)
  PROVE  /\ DiffTypeOK'
         /\ transformer'[Top.a] \in Transform /\ transformer'[Top.a] # NULL
         /\ transformer'[Top.a].to = Top.b /\ transformer'[Top.a].fields = << >>
         /\ transformer'[Top.a].straightCopy <=> Kind[Top.a] \in {"union", "enum", "array"}
         /\ \A t \in Types \ {Top.a} : transformer'[t] = transformer[t]
<1> DEFINE a == Top.a
           c == Kind[a] \in {"union", "enum", "array"}
           r == [to |-> Top.b, live |-> TRUE, fields |-> << >>, straightCopy |-> c]
<1>1. /\ a \in Types /\ Top.b \in Types /\ prog' = prog /\ ret' = ret /\ stack' \in Seq(Calls)
      /\ diffAgainst' = [diffAgainst EXCEPT ![a] = Top.b] /\ status' = [status EXCEPT ![a] = "differed"]
      /\ transformer' = [transformer EXCEPT ![a] = r]
  BY TopType DEF FindsDifferent, Judges, Moves
<1>2. r \in Transform
  <2>1. c \in BOOLEAN /\ << >> \in Seq(FieldTransform)
    OBVIOUS
  <2> HIDE DEF c
  <2> QED
    BY <1>1, <2>1 DEF Transform
<1>3. r.to = Top.b /\ (r.straightCopy <=> c) /\ r.fields = << >>
  OBVIOUS
<1> HIDE DEF r
<1>4. /\ transformer' \in [Types -> Transform \cup {NULL}] /\ transformer'[a] = r /\ transformer'[a] # NULL
      /\ \A t \in Types \ {a} : transformer'[t] = transformer[t]
  BY <1>1, <1>2, Replaced
<1>5. /\ diffAgainst' \in [Types -> Types \cup {NULL}]
      /\ status' \in [Types -> {"not done", "differed", "same"}]
  BY <1>1 DEF DiffTypeOK
<1>6. DiffTypeOK'
  BY <1>1, <1>4, <1>5 DEF DiffTypeOK
<1> QED
  BY <1>2, <1>3, <1>4, <1>6
(* A type found to be the same stays so.                                   *)
LEMMA SameKept ==
  ASSUME DiffTypeOK, Verdicts, Grows, SameIsSame, NEW t \in Types, status[t] = "same"
  PROVE  /\ ~Changed(t, diffAgainst[t])'
         /\ t \in Pointing => status'[Pointed[t]] = "same"
<1>1. ~Changed(t, diffAgainst[t]) /\ (t \in Pointing => status[Pointed[t]] = "same")
  BY DEF SameIsSame
<1>2. diffAgainst[t] # NULL
  BY DEF Verdicts
<1>3. diffAgainst'[t] = diffAgainst[t] /\ prog' = prog
  BY <1>2 DEF Grows
<1>4. t \in Pointing => status'[Pointed[t]] = "same"
  BY <1>1, PointedType DEF Grows, Pointing
<1>5. ~Changed(t, diffAgainst[t])'
  BY <1>1, <1>3 DEF Changed, MemberChanged
<1> QED
  BY <1>4, <1>5

(* A field of a transform is for a member of the old type.                 *)
LEMMA FieldMember ==
  ASSUME DiffTypeOK, Verdicts, NEW a \in Compound, transformer[a] # NULL,
         NEW k \in DOMAIN transformer[a].fields
  PROVE  k \in DOMAIN prog.old.fields[a] /\ prog.old.fields[a][k].type \in Types
<1>1. a \in Types /\ transformer[a] \in Transform /\ prog \in Programs
  BY DEF DiffTypeOK, Compound
<1> DEFINE s == prog.old.fields[a]
           R == [name : STRING, type : Types]
           f == transformer[a].fields
<1>2. s \in Seq(R) /\ f \in Seq(FieldTransform) /\ Len(f) <= Len(s)
  BY <1>1, VersionTypes DEF Transform, Verdicts
<1>3. k \in 1..Len(s) /\ k \in DOMAIN s
  <2> HIDE DEF s, R, FieldTransform
  <2>1. k \in 1..Len(f) /\ Len(f) \in Nat /\ Len(s) \in Nat
    BY <1>2
  <2> HIDE DEF f
  <2> QED
    BY <1>2, <2>1
<1> HIDE DEF s, R
<1>4. s[k] \in R
  BY <1>2, <1>3, ElementOfSeq
<1> QED
  BY <1>3, <1>4 DEF s, R

LEMMA PointerKept ==
  ASSUME DiffTypeOK, Verdicts, Grows, NEW a \in Compound, transformer[a] # NULL,
         NEW k \in DOMAIN transformer[a].fields, PointerFits(a, k),
         transformer'[a].to = transformer[a].to,
         transformer'[a].fields[k] = transformer[a].fields[k]
  PROVE  PointerFits(a, k)'
<1> DEFINE m == prog.old.fields[a][k]
           b == transformer[a].to
           n == prog.new.fields[b][IndexForField(prog.new, b, m.name)]
<1>1. a \in Types /\ transformer[a] \in Transform /\ prog \in Programs /\ prog' = prog
  BY DEF DiffTypeOK, Compound, Grows
<1>2. m.type \in Types
  BY FieldMember
<1>3. m' = m /\ b' = b /\ n' = n
  BY <1>1
<1> SUFFICES ASSUME Kind[m.type] = "pointer"
             PROVE  /\ transformer'[a].fields[k].how = "copy" => status'[Pointed[m.type]] = "same"
                    /\ transformer'[a].fields[k].how = "recurse" => LeadsTo(Pointed[m.type], Pointed[n.type])'
  BY <1>3 DEF PointerFits
<1>4. /\ transformer[a].fields[k].how = "copy" => status[Pointed[m.type]] = "same"
      /\ transformer[a].fields[k].how = "recurse" => LeadsTo(Pointed[m.type], Pointed[n.type])
  BY DEF PointerFits
<1>5. Pointed[m.type] \in Types
  BY <1>2, PointedType
<1>6. status[Pointed[m.type]] = "same" => status'[Pointed[m.type]] = "same"
  <2> HIDE DEF m
  <2> QED
    BY <1>5 DEF Grows
<1>7. LeadsTo(Pointed[m.type], Pointed[n.type]) => LeadsTo(Pointed[m.type], Pointed[n.type])'
  <2>1. PICK x, y : x = Pointed[m.type] /\ y = Pointed[n.type]
    OBVIOUS
  <2>2. LeadsTo(x, y) => LeadsTo(x, y)'
    BY <1>5, <2>1, LeadsKept
  <2> QED
    BY <1>3, <2>1, <2>2 DEF LeadsTo
<1> QED
  BY <1>4, <1>6, <1>7

-----------------------------------------------------------------------------
(* Each kind of step keeps what is known of the types and the frames.      *)

LEMMA NothingNoted ==
  ASSUME Core, UNCHANGED <<prog, diffAgainst, status, transformer>>
  PROVE  Grows /\ (\A t : Same(t)) /\ Verdicts' /\ SameIsSame' /\ Pointers'
<1>1. Grows /\ \A t : Same(t)
  BY DEF Grows, Same
<1>2. Verdicts'
  BY DEF Core, Verdicts
<1>3. SameIsSame'
  BY DEF Core, SameIsSame, Changed, MemberChanged
<1>4. Pointers'
  BY DEF Core, Pointers, PointerFits, LeadsTo
<1> QED
  BY <1>1, <1>2, <1>3, <1>4

LEMMA HaltsKeeps ==
  ASSUME Core, Halts
  PROVE  Core'
<1>1. Verdicts' /\ SameIsSame' /\ Pointers'
  BY NothingNoted DEF Halts
<1>2. DiffTypeOK'
  BY DEF Core, Halts, DiffTypeOK
<1>3. Frames'
  <2>1. stack' = stack /\ UNCHANGED <<prog, diffAgainst, status, transformer, ret>>
    BY DEF Halts
  <2>2. ASSUME NEW k \in DOMAIN stack'
        PROVE  InProgress(stack[k])'
    <3>1. InProgress(stack[k])
      BY <2>1 DEF Core, Frames
    <3> QED
      BY <2>1, <3>1 DEF InProgress, AtMember, MemberOf, NewMemberOf, IndexOf, LeadsTo
  <2>3. \A k \in DOMAIN stack' : k < Len(stack') =>
          /\ stack'[k].at \in Waiting
          /\ stack'[k + 1].a = Callee(stack[k])'.a /\ stack'[k + 1].b = Callee(stack[k])'.b
    <3>1. \A k : Callee(stack[k])' = Callee(stack[k])
      BY <2>1 DEF Callee, Call, MemberOf, NewMemberOf, IndexOf
    <3> QED
      BY <2>1, <3>1 DEF Core, Frames
  <2>4. \A k, l \in DOMAIN stack' :
          k # l /\ stack'[k].at # "call" /\ stack'[l].at # "call" => stack'[k].a # stack'[l].a
    BY <2>1 DEF Core, Frames
  <2>5. stack' # << >> /\ Top'.at \in Waiting => Answered(Callee(Top).a, Callee(Top).b)'
    <3>1. Top' = Top /\ Callee(Top)' = Callee(Top)
      BY <2>1 DEF Top, Callee, Call, MemberOf, NewMemberOf, IndexOf
    <3> QED
      BY <2>1, <3>1 DEF Core, Frames, Answered
  <2> QED
    BY <2>2, <2>3, <2>4, <2>5 DEF Frames
<1> QED
  BY <1>1, <1>2, <1>3 DEF Core

LEMMA ReturnsKeeps ==
  ASSUME Core, stack # << >>, Returns(Top.a, Top.b)
  PROVE  Core'
<1>1. Grows /\ (\A t : Same(t)) /\ Verdicts' /\ SameIsSame' /\ Pointers'
  BY NothingNoted DEF Returns
<1>2. DiffTypeOK'
  BY DEF Core, Returns, Pops, DiffTypeOK
<1>3. PICK a, b : a = Top.a /\ b = Top.b
  OBVIOUS
<1>4. Answered(a, b)'
  BY <1>3 DEF Returns, Answered
<1>5. Frames'
  BY <1>1, <1>3, <1>4, PopFrames DEF Core, Returns
<1> QED
  BY <1>1, <1>2, <1>5 DEF Core

LEMMA DescendsKeeps ==
  ASSUME Core, stack # << >>, NEW at, Descends(at)
  PROVE  Core'
<1>1. Grows /\ (\A t : Same(t)) /\ Verdicts' /\ SameIsSame' /\ Pointers'
  BY NothingNoted DEF Descends
<1>2. DiffTypeOK'
  BY DEF Core, Descends, Pushes, DiffTypeOK
<1>3. /\ Top.at \in {"fields", "pointed member"} /\ at \in {"pointed member", "member"}
      /\ Pushes(at) /\ AtMember(TopAt(at))
      /\ UNCHANGED <<prog, diffAgainst, status, transformer>>
  BY DEF Descends
<1>4. PICK fr : fr = TopAt(at)
  OBVIOUS
<1>5. /\ Kind[Top.a] = Kind[Top.b] /\ diffAgainst[Top.a] = Top.b /\ status[Top.a] = "differed"
      /\ fr.a = Top.a /\ fr.b = Top.b /\ fr.at = at
  BY <1>3, <1>4, TopInProgress DEF Core, TopAt
<1>6. InProgress(fr)'
  <2>1. AtMember(fr)'
    BY <1>3, <1>4 DEF AtMember, MemberOf, NewMemberOf, IndexOf, LeadsTo
  <2> QED
    BY <1>3, <1>5, <2>1 DEF InProgress
<1>7. Callee(fr)' = Callee(fr)
  BY <1>3 DEF Callee, Call, MemberOf, NewMemberOf, IndexOf
<1>8. at \in Waiting \cup {"fields"} /\ at # "fields" /\ Top.at # "call"
  BY <1>3 DEF Waiting
<1>9. InProgress(fr)' /\ (at # "fields" => Callee(fr)' = Callee(fr)) => Frames'
  BY <1>1, <1>3, <1>4, <1>8, GoesOnFrames DEF Core
<1> QED
  BY <1>1, <1>2, <1>6, <1>7, <1>9 DEF Core

LEMMA NotesKeeps ==
  ASSUME Core, stack # << >>, NEW how, Notes(Top.a, how)
  PROVE  Core'
<1>1. /\ DiffTypeOK'
      /\ transformer'[Top.a] \in Transform /\ transformer'[Top.a] # NULL
      /\ transformer'[Top.a].to = transformer[Top.a].to
      /\ transformer'[Top.a].straightCopy = transformer[Top.a].straightCopy
      /\ \E e : transformer'[Top.a].fields = Append(transformer[Top.a].fields, e) /\ e.how = how
      /\ \A t \in Types \ {Top.a} : transformer'[t] = transformer[t]
  BY NoteEffect DEF Core
<1>2. PICK e : transformer'[Top.a].fields = Append(transformer[Top.a].fields, e) /\ e.how = how
  BY <1>1
<1>3. /\ Top.at \in {"fields", "pointed member", "member"} /\ Moves("fields")
      /\ Top.a \in Compound /\ Len(transformer[Top.a].fields) < Len(prog.old.fields[Top.a])
      /\ UNCHANGED <<prog, diffAgainst, status, ret>>
  BY DEF Notes
<1>4. /\ Kind[Top.a] = Kind[Top.b] /\ diffAgainst[Top.a] = Top.b /\ status[Top.a] = "differed"
      /\ transformer[Top.a] # NULL /\ transformer[Top.a] \in Transform /\ Top.a \in Types
  BY <1>3, TopInProgress, TopType DEF Core
<1>5. Grows /\ \A t \in Types \ {Top.a} : Same(t)
  BY <1>1, <1>3 DEF Grows, Same
<1> DEFINE f == transformer[Top.a].fields
           g == transformer'[Top.a].fields
           s == prog.old.fields[Top.a]
<1>6. /\ f \in Seq(FieldTransform) /\ g = Append(f, e) /\ Len(f) < Len(s) /\ Len(s) \in Nat
  <2>1. s \in Seq([name : STRING, type : Types])
    BY <1>3, VersionTypes DEF Core, DiffTypeOK
  <2>2. f \in Seq(FieldTransform)
    BY <1>4 DEF Transform
  <2>3. Len(s) \in Nat
    <3> HIDE DEF s
    <3> QED
      BY <2>1
  <2> QED
    BY <1>2, <1>3, <2>2, <2>3
<1>7. /\ Len(g) = Len(f) + 1 /\ Len(f) \in Nat /\ DOMAIN f = 1..Len(f)
      /\ DOMAIN g = 1..(Len(f) + 1)
      /\ \A k \in DOMAIN f : g[k] = f[k]
      /\ g[Len(f) + 1] = e
  <2> HIDE DEF f, g, s, FieldTransform
  <2>1. g \in Seq(FieldTransform \cup {e}) /\ Len(g) = Len(f) + 1
    BY <1>6
  <2> QED
    BY <1>6, <2>1
<1>8. Verdicts'
  <2> SUFFICES ASSUME NEW t \in Types
               PROVE  /\ diffAgainst'[t] = NULL => status'[t] = "not done"
                      /\ transformer'[t] # NULL <=> status'[t] = "differed"
                      /\ transformer'[t] # NULL =>
                           /\ transformer'[t].to = diffAgainst'[t]
                           /\ transformer'[t].straightCopy <=> Kind[t] \in {"union", "enum", "array"}
                           /\ t \in Compound => Len(transformer'[t].fields) <= Len(prog'.old.fields[t])
    BY DEF Verdicts
  <2>1. CASE t # Top.a
    <3>1. transformer'[t] = transformer[t]
      BY <1>1, <2>1
    <3> QED
      BY <1>3, <3>1 DEF Core, Verdicts
  <2>2. CASE t = Top.a
    <3>1. /\ transformer[t].to = diffAgainst[t]
          /\ transformer[t].straightCopy <=> Kind[t] \in {"union", "enum", "array"}
          /\ diffAgainst[t] # NULL
      BY <1>4, <2>2 DEF Core, Verdicts
    <3>2. Len(g) <= Len(s)
      <4> HIDE DEF f, g, s
      <4> QED
        BY <1>6, <1>7
    <3>3. Len(transformer'[t].fields) <= Len(prog'.old.fields[t])
      BY <1>3, <2>2, <3>2
    <3> QED
      BY <1>1, <1>3, <1>4, <2>2, <3>1, <3>3
  <2> QED
    BY <2>1, <2>2
<1>9. SameIsSame'
  BY <1>3 DEF Core, SameIsSame, Changed, MemberChanged
<1>10. Pointers'
  <2> SUFFICES ASSUME NEW a \in Compound, transformer'[a] # NULL, NEW k \in DOMAIN transformer'[a].fields
               PROVE  PointerFits(a, k)'
    BY DEF Pointers
  <2>1. CASE a # Top.a
    <3>1. transformer'[a] = transformer[a]
      BY <1>1, <2>1 DEF Compound
    <3>2. PointerFits(a, k)
      BY <3>1 DEF Core, Pointers
    <3> QED
      BY <1>5, <3>1, <3>2, PointerKept DEF Core
  <2>2. CASE a = Top.a /\ k \in DOMAIN f
    <3>1. PointerFits(a, k)
      BY <1>4, <2>2 DEF Core, Pointers
    <3>2. transformer'[a].fields[k] = transformer[a].fields[k]
      BY <1>7, <2>2
    <3> QED
      BY <1>1, <1>4, <1>5, <2>2, <3>1, <3>2, PointerKept DEF Core
  <2>3. CASE a = Top.a /\ k \notin DOMAIN f
    <3>1. k = Len(f) + 1
      <4> HIDE DEF f, g
      <4>1. k \in DOMAIN g
        BY <2>3 DEF g
      <4> QED
        BY <1>7, <2>3, <4>1
    <3>2. transformer'[a].fields[k].how = how
      BY <1>2, <1>7, <2>3, <3>1
    <3>3. prog'.old.fields[a][k] = MemberOf(Top)
      BY <1>3, <2>3, <3>1 DEF MemberOf
    <3>4. transformer'[a].to = Top.b
      BY <1>1, <1>4, <2>3 DEF Core, Verdicts
    <3>5. prog'.new.fields[Top.b][IndexForField(prog'.new, Top.b, MemberOf(Top).name)] = NewMemberOf(Top)
      BY <1>3 DEF NewMemberOf, IndexOf
    <3>6. Kind[MemberOf(Top).type] = "pointer" =>
            /\ how = "copy" => status[Pointed[MemberOf(Top).type]] = "same"
            /\ how = "recurse" => LeadsTo(Pointed[MemberOf(Top).type], Pointed[NewMemberOf(Top).type])
      BY DEF Notes
    <3>7. PICK x, y : x = Pointed[MemberOf(Top).type] /\ y = Pointed[NewMemberOf(Top).type]
      OBVIOUS
    <3>8. Kind[MemberOf(Top).type] = "pointer" => (LeadsTo(x, y) => LeadsTo(x, y)')
      <4>1. MemberOf(Top).type \in Types
        BY <1>3, <1>4, MemberTypes, TopType DEF Core
      <4>2. Kind[MemberOf(Top).type] = "pointer" => x \in Types
        BY <3>7, <4>1, PointedType
      <4> QED
        BY <1>5, <4>2, LeadsKept DEF Core
    <3>9. PICK m, n : m = MemberOf(Top) /\ n = NewMemberOf(Top)
      OBVIOUS
    <3>10. Kind[m.type] = "pointer" =>
             /\ transformer'[a].fields[k].how = "copy" => status'[Pointed[m.type]] = "same"
             /\ transformer'[a].fields[k].how = "recurse" => LeadsTo(Pointed[m.type], Pointed[n.type])'
      BY <1>3, <3>2, <3>6, <3>7, <3>8, <3>9
    <3>11. /\ m = prog'.old.fields[a][k]
           /\ n = prog'.new.fields[transformer'[a].to][IndexForField(prog'.new, transformer'[a].to, m.name)]
      BY <3>3, <3>4, <3>5, <3>9
    <3> HIDE DEF f, g, s
    <3> QED
      BY <3>10, <3>11 DEF PointerFits, LeadsTo
  <2> QED
    BY <2>1, <2>2, <2>3
<1>11. Frames'
  <2>1. PICK fr : fr = TopAt("fields")
    OBVIOUS
  <2>2. fr.a = Top.a /\ fr.b = Top.b /\ fr.at = "fields"
    BY <2>1 DEF TopAt
  <2>3. InProgress(fr)'
    BY <1>3, <1>4, <2>2 DEF InProgress
  <2>4. PICK at : at = "fields"
    OBVIOUS
  <2>5. at \in Waiting \cup {"fields"} /\ Top.at # "call" /\ fr = TopAt(at)
    BY <1>3, <2>1, <2>4
  <2>6. InProgress(fr)' /\ (at # "fields" => Callee(fr)' = Callee(fr)) => Frames'
    BY <1>3, <1>5, <2>4, <2>5, GoesOnFrames DEF Core
  <2> QED
    BY <2>3, <2>4, <2>6
<1> QED
  BY <1>1, <1>8, <1>9, <1>10, <1>11 DEF Core

LEMMA DiscardsKeeps ==
  ASSUME Core, stack # << >>, Discards(Top.a)
  PROVE  Core'
<1>1. /\ DiffTypeOK'
      /\ transformer'[Top.a] \in Transform /\ transformer'[Top.a] # NULL
      /\ transformer'[Top.a].to = transformer[Top.a].to
      /\ transformer'[Top.a].straightCopy = transformer[Top.a].straightCopy
      /\ transformer'[Top.a].fields = transformer[Top.a].fields
      /\ \A t \in Types \ {Top.a} : transformer'[t] = transformer[t]
  BY DiscardEffect DEF Core
<1>2. /\ Top.at \in {"pointed member", "member"} /\ Pops
      /\ UNCHANGED <<prog, diffAgainst, status>> /\ ret' = "differs"
  BY DEF Discards
<1>3. /\ Kind[Top.a] = Kind[Top.b] /\ diffAgainst[Top.a] = Top.b /\ status[Top.a] = "differed"
      /\ transformer[Top.a] # NULL /\ transformer[Top.a] \in Transform /\ Top.a \in Types
  BY <1>2, TopInProgress, TopType DEF Core
<1>4. Grows /\ \A t \in Types \ {Top.a} : Same(t)
  BY <1>1, <1>2 DEF Grows, Same
<1>5. \A t \in Types :
        /\ transformer'[t] # NULL <=> transformer[t] # NULL
        /\ transformer'[t] # NULL =>
             /\ transformer'[t].to = transformer[t].to
             /\ transformer'[t].straightCopy = transformer[t].straightCopy
             /\ transformer'[t].fields = transformer[t].fields
  BY <1>1, <1>3
<1>6. Verdicts'
  BY <1>2, <1>5 DEF Core, Verdicts
<1>7. SameIsSame'
  BY <1>2 DEF Core, SameIsSame, Changed, MemberChanged
<1>8. Pointers'
  <2> SUFFICES ASSUME NEW a \in Compound, transformer'[a] # NULL, NEW k \in DOMAIN transformer'[a].fields
               PROVE  PointerFits(a, k)'
    BY DEF Pointers
  <2>1. transformer[a] # NULL /\ transformer'[a].to = transformer[a].to /\ transformer'[a].fields = transformer[a].fields
    BY <1>5 DEF Compound
  <2>2. PointerFits(a, k)
    BY <2>1 DEF Core, Pointers
  <2> QED
    BY <1>4, <2>1, <2>2, PointerKept DEF Core
<1>9. Frames'
  <2>1. PICK a, b : a = Top.a /\ b = Top.b
    OBVIOUS
  <2>2. Answered(a, b)'
    BY <1>2, <1>3, <2>1 DEF Answered
  <2>3. \A k \in 1..(Len(stack) - 1) : Same(stack[k].a)
    BY <1>2, <1>4, TopIsOwn, LowerFrame DEF Core, Calls
  <2> QED
    BY <1>2, <1>4, <2>1, <2>2, <2>3, PopFrames DEF Core
<1> QED
  BY <1>1, <1>6, <1>7, <1>8, <1>9 DEF Core

(* A judgement of a type noted for the first time.                         *)
LEMMA JudgesGrows ==
  ASSUME Core, stack # << >>, Judges(Top.a, Top.b),
         \A t \in Types \ {Top.a} : Same(t), transformer'[Top.a] = transformer[Top.a] \/ transformer'[Top.a] # NULL
  PROVE  /\ Grows /\ Top.a \in Types /\ Top.b \in Types /\ Top.b # NULL
         /\ transformer[Top.a] = NULL
         /\ diffAgainst'[Top.a] = Top.b /\ \A t \in Types \ {Top.a} : diffAgainst'[t] = diffAgainst[t]
         /\ Top.at # "call" \/ diffAgainst[Top.a] = NULL
<1>1. /\ prog' = prog /\ diffAgainst' = [diffAgainst EXCEPT ![Top.a] = Top.b]
      /\ diffAgainst[Top.a] \in {NULL, Top.b} /\ status[Top.a] = "not done"
      /\ Top.at = "call" => diffAgainst[Top.a] = NULL
  BY DEF Judges
<1>2. Top.a \in Types /\ Top.b \in Types
  BY TopType DEF Core
<1>3. diffAgainst'[Top.a] = Top.b /\ \A t \in Types \ {Top.a} : diffAgainst'[t] = diffAgainst[t]
  BY <1>1, <1>2 DEF Core, DiffTypeOK
<1>4. transformer[Top.a] = NULL
  BY <1>1, <1>2 DEF Core, Verdicts
<1>5. Top.b # NULL
  BY <1>2, NullAssumption DEF NullAssumption
<1>6. Grows
  <2> SUFFICES ASSUME NEW t \in Types
               PROVE  /\ diffAgainst[t] # NULL => diffAgainst'[t] = diffAgainst[t]
                      /\ status[t] # "not done" => status'[t] = status[t]
                      /\ transformer[t] # NULL => transformer'[t] # NULL
    BY <1>1 DEF Grows
  <2>1. CASE t = Top.a
    BY <1>1, <1>3, <1>4, <2>1
  <2>2. CASE t # Top.a
    BY <1>3, <2>2 DEF Same
  <2> QED
    BY <2>1, <2>2
<1> QED
  BY <1>1, <1>2, <1>3, <1>4, <1>5, <1>6

LEMMA OthersVerdict ==
  ASSUME Core, prog' = prog, NEW t \in Types, Same(t), diffAgainst'[t] = diffAgainst[t]
  PROVE  /\ diffAgainst'[t] = NULL => status'[t] = "not done"
         /\ transformer'[t] # NULL <=> status'[t] = "differed"
         /\ transformer'[t] # NULL =>
              /\ transformer'[t].to = diffAgainst'[t]
              /\ transformer'[t].straightCopy <=> Kind[t] \in {"union", "enum", "array"}
              /\ t \in Compound => Len(transformer'[t].fields) <= Len(prog'.old.fields[t])
BY DEF Core, Verdicts, Same

LEMMA OthersPointers ==
  ASSUME Core, Grows, NEW a \in Compound, Same(a), transformer'[a] # NULL,
         NEW k \in DOMAIN transformer'[a].fields
  PROVE  PointerFits(a, k)'
<1>1. transformer'[a] = transformer[a]
  BY DEF Same
<1>2. PointerFits(a, k)
  BY <1>1 DEF Core, Pointers
<1> QED
  BY <1>1, <1>2, PointerKept DEF Core

LEMMA FindsSameKeeps ==
  ASSUME Core, stack # << >>, FindsSame(Top.a, Top.b)
  PROVE  Core'
<1>1. /\ Judges(Top.a, Top.b) /\ Pops
      /\ status' = [status EXCEPT ![Top.a] = "same"] /\ transformer' = transformer /\ ret' = "same"
      /\ ~Changed(Top.a, Top.b) /\ (Top.a \in Pointing => status[Pointed[Top.a]] = "same")
  BY DEF FindsSame
<1>2. Top.a \in Types /\ status'[Top.a] = "same" /\ \A t \in Types \ {Top.a} : Same(t)
  BY <1>1, TopType DEF Core, DiffTypeOK, Same
<1>3. /\ Grows /\ Top.b \in Types /\ Top.b # NULL /\ transformer[Top.a] = NULL
      /\ diffAgainst'[Top.a] = Top.b /\ \A t \in Types \ {Top.a} : diffAgainst'[t] = diffAgainst[t]
      /\ Top.at # "call" \/ diffAgainst[Top.a] = NULL
  BY <1>1, <1>2, JudgesGrows
<1>4. DiffTypeOK'
  <2>1. diffAgainst' = [diffAgainst EXCEPT ![Top.a] = Top.b] /\ prog' = prog
    BY <1>1 DEF Judges
  <2>2. diffAgainst' \in [Types -> Types \cup {NULL}]
    BY <1>3, <2>1 DEF Core, DiffTypeOK
  <2>3. status' \in [Types -> {"not done", "differed", "same"}]
    BY <1>1 DEF Core, DiffTypeOK
  <2>4. stack' \in Seq(Calls)
    BY <1>1 DEF Pops
  <2> QED
    BY <1>1, <2>1, <2>2, <2>3, <2>4 DEF Core, DiffTypeOK
<1>5. Verdicts'
  <2> SUFFICES ASSUME NEW t \in Types
               PROVE  /\ diffAgainst'[t] = NULL => status'[t] = "not done"
                      /\ transformer'[t] # NULL <=> status'[t] = "differed"
                      /\ transformer'[t] # NULL =>
                           /\ transformer'[t].to = diffAgainst'[t]
                           /\ transformer'[t].straightCopy <=> Kind[t] \in {"union", "enum", "array"}
                           /\ t \in Compound => Len(transformer'[t].fields) <= Len(prog'.old.fields[t])
    BY DEF Verdicts
  <2>1. CASE t # Top.a
    BY <1>2, <1>3, <2>1, OthersVerdict DEF Grows
  <2>2. CASE t = Top.a
    BY <1>1, <1>2, <1>3, <2>2
  <2> QED
    BY <2>1, <2>2
<1>6. SameIsSame'
  <2> SUFFICES ASSUME NEW t \in Types, status'[t] = "same"
               PROVE  /\ ~Changed(t, diffAgainst[t])'
                      /\ t \in Pointing => status'[Pointed[t]] = "same"
    BY DEF SameIsSame
  <2>1. CASE t # Top.a
    <3>1. status[t] = "same"
      BY <1>2, <2>1 DEF Same
    <3> QED
      BY <1>3, <3>1, SameKept DEF Core
  <2>2. CASE t = Top.a
    <3>1. ~Changed(t, diffAgainst[t])'
      <4>1. PICK x : x = Top.b
        OBVIOUS
      <4>2. ~Changed(t, x)
        BY <1>1, <2>2, <4>1
      <4>3. ~Changed(t, x)'
        BY <1>3, <4>2 DEF Changed, MemberChanged, Grows
      <4>4. diffAgainst'[t] = x
        BY <1>3, <2>2, <4>1
      <4> QED
        BY <4>3, <4>4
    <3>2. t \in Pointing => status'[Pointed[t]] = "same"
      BY <1>1, <1>3, <2>2, PointedType DEF Grows, Pointing
    <3> QED
      BY <3>1, <3>2
  <2> QED
    BY <2>1, <2>2
<1>7. Pointers'
  <2> SUFFICES ASSUME NEW a \in Compound, transformer'[a] # NULL, NEW k \in DOMAIN transformer'[a].fields
               PROVE  PointerFits(a, k)'
    BY DEF Pointers
  <2>1. transformer[a] # NULL /\ transformer'[a] = transformer[a]
    BY <1>1
  <2>2. PointerFits(a, k)
    BY <2>1 DEF Core, Pointers
  <2> QED
    BY <1>3, <2>1, <2>2, PointerKept DEF Core
<1>8. Frames'
  <2>1. PICK a, b : a = Top.a /\ b = Top.b
    OBVIOUS
  <2>2. Answered(a, b)'
    BY <1>1, <1>2, <1>3, <2>1 DEF Answered, Judges
  <2>3. \A k \in 1..(Len(stack) - 1) : Same(stack[k].a)
    BY <1>2, <1>3, TopIsOwn, LowerFrame DEF Core, Calls
  <2> QED
    BY <1>1, <1>3, <2>1, <2>2, <2>3, PopFrames DEF Core
<1> QED
  BY <1>4, <1>5, <1>6, <1>7, <1>8 DEF Core

LEMMA FindsDifferentKeeps ==
  ASSUME Core, stack # << >>, FindsDifferent(Top.a, Top.b)
  PROVE  Core'
<1>1. /\ Judges(Top.a, Top.b) /\ Moves("fields")
      /\ status' = [status EXCEPT ![Top.a] = "differed"] /\ ret' = ret
  BY DEF FindsDifferent
<1>2. /\ DiffTypeOK'
      /\ transformer'[Top.a] \in Transform /\ transformer'[Top.a] # NULL
      /\ transformer'[Top.a].to = Top.b /\ transformer'[Top.a].fields = << >>
      /\ transformer'[Top.a].straightCopy <=> Kind[Top.a] \in {"union", "enum", "array"}
      /\ \A t \in Types \ {Top.a} : transformer'[t] = transformer[t]
  BY DifferentEffect DEF Core
<1>3. Top.a \in Types /\ status'[Top.a] = "differed" /\ \A t \in Types \ {Top.a} : Same(t)
  BY <1>1, <1>2, TopType DEF Core, DiffTypeOK, Same
<1>4. /\ Grows /\ Top.b \in Types /\ Top.b # NULL /\ transformer[Top.a] = NULL
      /\ diffAgainst'[Top.a] = Top.b /\ \A t \in Types \ {Top.a} : diffAgainst'[t] = diffAgainst[t]
      /\ Top.at # "call" \/ diffAgainst[Top.a] = NULL
  BY <1>1, <1>2, <1>3, JudgesGrows
<1>5. Verdicts'
  <2> SUFFICES ASSUME NEW t \in Types
               PROVE  /\ diffAgainst'[t] = NULL => status'[t] = "not done"
                      /\ transformer'[t] # NULL <=> status'[t] = "differed"
                      /\ transformer'[t] # NULL =>
                           /\ transformer'[t].to = diffAgainst'[t]
                           /\ transformer'[t].straightCopy <=> Kind[t] \in {"union", "enum", "array"}
                           /\ t \in Compound => Len(transformer'[t].fields) <= Len(prog'.old.fields[t])
    BY DEF Verdicts
  <2>1. CASE t # Top.a
    BY <1>3, <1>4, <2>1, OthersVerdict DEF Grows
  <2>2. CASE t = Top.a
    <3>1. t \in Compound => Len(transformer'[t].fields) <= Len(prog'.old.fields[t])
      <4> SUFFICES ASSUME t \in Compound
                   PROVE  Len(transformer'[t].fields) <= Len(prog'.old.fields[t])
        OBVIOUS
      <4>1. Len(transformer'[t].fields) = 0
        BY <1>2, <2>2
      <4>2. prog' \in Programs /\ prog'.old.fields[t] \in Seq([name : STRING, type : Types])
        BY <1>4, VersionTypes DEF Core, DiffTypeOK, Grows
      <4> DEFINE s == prog'.old.fields[t]
      <4>3. Len(s) \in Nat
        <5>1. s \in Seq([name : STRING, type : Types])
          BY <4>2
        <5> HIDE DEF s
        <5> QED
          BY <5>1
      <4> QED
        BY <4>1, <4>3
    <3> QED
      BY <1>2, <1>3, <1>4, <2>2, <3>1
  <2> QED
    BY <2>1, <2>2
<1>6. SameIsSame'
  <2> SUFFICES ASSUME NEW t \in Types, status'[t] = "same"
               PROVE  /\ ~Changed(t, diffAgainst[t])'
                      /\ t \in Pointing => status'[Pointed[t]] = "same"
    BY DEF SameIsSame
  <2>1. status[t] = "same"
    BY <1>3 DEF Same
  <2> QED
    BY <1>4, <2>1, SameKept DEF Core
<1>7. Pointers'
  <2> SUFFICES ASSUME NEW a \in Compound, transformer'[a] # NULL, NEW k \in DOMAIN transformer'[a].fields
               PROVE  PointerFits(a, k)'
    BY DEF Pointers
  <2>1. a # Top.a
    BY <1>2
  <2> QED
    BY <1>3, <1>4, <2>1, OthersPointers DEF Compound
<1>8. Frames'
  <2>1. PICK fr, at : at = "fields" /\ fr = TopAt(at)
    OBVIOUS
  <2>2. fr.a = Top.a /\ fr.b = Top.b /\ fr.at = "fields"
    BY <2>1 DEF TopAt
  <2>3. InProgress(fr)'
    BY <1>1, <1>3, <1>4, <2>2 DEF InProgress, Judges
  <2>4. at \in Waiting \cup {"fields"}
    BY <2>1
  <2>5. InProgress(fr)' /\ (at # "fields" => Callee(fr)' = Callee(fr)) => Frames'
    BY <1>1, <1>3, <1>4, <2>1, <2>4, GoesOnFrames DEF Core
  <2> QED
    BY <2>1, <2>3, <2>5
<1> QED
  BY <1>2, <1>5, <1>6, <1>7, <1>8 DEF Core

LEMMA BeginsPointingKeeps ==
  ASSUME Core, stack # << >>, BeginsPointing(Top.a, Top.b)
  PROVE  Core'
<1>1. /\ Top.at = "call" /\ Kind[Top.a] = Kind[Top.b] /\ diffAgainst[Top.a] = NULL /\ Top.a \in Pointing
      /\ Pushes("pointed")
      /\ diffAgainst' = [diffAgainst EXCEPT ![Top.a] = Top.b]
      /\ UNCHANGED <<prog, status, transformer, ret>>
  BY DEF BeginsPointing
<1>2. Top.a \in Types /\ Top.b \in Types /\ \A t \in Types : Same(t)
  BY <1>1, TopType DEF Core, Same
<1>3. status[Top.a] = "not done"
  BY <1>1, <1>2 DEF Core, Verdicts
<1>4. Judges(Top.a, Top.b)
  BY <1>1, <1>3 DEF Judges
<1>5. /\ Grows /\ Top.b # NULL /\ transformer[Top.a] = NULL
      /\ diffAgainst'[Top.a] = Top.b /\ \A t \in Types \ {Top.a} : diffAgainst'[t] = diffAgainst[t]
  BY <1>1, <1>2, <1>4, JudgesGrows
<1>6. DiffTypeOK'
  <2>1. diffAgainst' \in [Types -> Types \cup {NULL}]
    BY <1>1, <1>2 DEF Core, DiffTypeOK
  <2> QED
    BY <1>1, <2>1 DEF Core, DiffTypeOK, Pushes
<1>7. Verdicts'
  <2> SUFFICES ASSUME NEW t \in Types
               PROVE  /\ diffAgainst'[t] = NULL => status'[t] = "not done"
                      /\ transformer'[t] # NULL <=> status'[t] = "differed"
                      /\ transformer'[t] # NULL =>
                           /\ transformer'[t].to = diffAgainst'[t]
                           /\ transformer'[t].straightCopy <=> Kind[t] \in {"union", "enum", "array"}
                           /\ t \in Compound => Len(transformer'[t].fields) <= Len(prog'.old.fields[t])
    BY DEF Verdicts
  <2>1. CASE t # Top.a
    BY <1>2, <1>5, <2>1, OthersVerdict DEF Grows
  <2>2. CASE t = Top.a
    BY <1>1, <1>3, <1>5, <2>2
  <2> QED
    BY <2>1, <2>2
<1>8. SameIsSame'
  <2> SUFFICES ASSUME NEW t \in Types, status'[t] = "same"
               PROVE  /\ ~Changed(t, diffAgainst[t])'
                      /\ t \in Pointing => status'[Pointed[t]] = "same"
    BY DEF SameIsSame
  <2>1. status[t] = "same"
    BY <1>1
  <2> QED
    BY <1>5, <2>1, SameKept DEF Core
<1>9. Pointers'
  <2> SUFFICES ASSUME NEW a \in Compound, transformer'[a] # NULL, NEW k \in DOMAIN transformer'[a].fields
               PROVE  PointerFits(a, k)'
    BY DEF Pointers
  <2> QED
    BY <1>2, <1>5, OthersPointers DEF Compound
<1>10. Frames'
  <2>1. PICK fr, at : at = "pointed" /\ fr = TopAt(at)
    OBVIOUS
  <2>2. fr.a = Top.a /\ fr.b = Top.b /\ fr.at = "pointed"
    BY <2>1 DEF TopAt
  <2>3. InProgress(fr)' /\ Callee(fr)' = Callee(fr)
    BY <1>1, <1>3, <1>5, <2>2 DEF InProgress, Callee, Call
  <2>4. at \in Waiting \cup {"fields"}
    BY <2>1 DEF Waiting
  <2>5. InProgress(fr)' /\ (at # "fields" => Callee(fr)' = Callee(fr)) => Frames'
    BY <1>1, <1>2, <1>5, <2>1, <2>4, GoesOnFrames DEF Core
  <2> QED
    BY <2>3, <2>5
<1> QED
  BY <1>6, <1>7, <1>8, <1>9, <1>10 DEF Core

LEMMA CompareKeeps ==
  ASSUME Core, Compare
  PROVE  Core'
BY CompareKinds, HaltsKeeps, ReturnsKeeps, FindsSameKeeps, FindsDifferentKeeps, BeginsPointingKeeps,
   NotesKeeps, DiscardsKeeps, DescendsKeeps DEF Core

-----------------------------------------------------------------------------
(* How deep the comparison goes.                                           *)

LEMMA TypesFinite ==
  ASSUME NEW S \in SUBSET Types
  PROVE  IsFiniteSet(S) /\ Cardinality(S) \in Nat /\ Cardinality(S) <= Cardinality(Types)
BY FiniteAssumption, FS_Subset, FS_CardinalityType DEF FiniteAssumption

LEMMA BegunFinite ==
  IsFiniteSet(Begun) /\ Cardinality(Begun) \in Nat /\ Cardinality(Begun) <= Cardinality(Types)
<1>1. Begun \in SUBSET Types
  BY DEF Begun
<1> QED
  BY <1>1, TypesFinite

LEMMA BegunGrows ==
  ASSUME DiffTypeOK, NEW a \in Types, NEW b \in Types, diffAgainst' = [diffAgainst EXCEPT ![a] = b]
  PROVE  /\ diffAgainst[a] = NULL => Cardinality(Begun)' = Cardinality(Begun) + 1
         /\ diffAgainst[a] # NULL => Cardinality(Begun)' = Cardinality(Begun)
<1>1. b # NULL
  BY NullAssumption DEF NullAssumption
<1>2. Begun' = Begun \cup {a}
  BY <1>1 DEF Begun, DiffTypeOK
<1>3. a \in Begun <=> diffAgainst[a] # NULL
  BY DEF Begun
<1>4. Cardinality(Begun \cup {a}) = IF a \in Begun THEN Cardinality(Begun) ELSE Cardinality(Begun) + 1
  BY BegunFinite, FS_AddElement
<1> QED
  BY <1>2, <1>3, <1>4

LEMMA DepthKeeps ==
  ASSUME Core, Depth, Compare
  PROVE  Depth'
<1>1. PICK c, d : c = Cardinality(Begun) /\ d = Cardinality(Begun')
  OBVIOUS
<1>2. c \in Nat
  BY <1>1, BegunFinite
<1>3. CASE Halts
  <2>1. Begun' = Begun /\ stack' = stack /\ Top' = Top
    BY <1>3 DEF Begun, Halts, Top
  <2> QED
    BY <2>1 DEF Depth
<1>0. SUFFICES ASSUME stack # << >>,
                    \/ Returns(Top.a, Top.b)
                    \/ FindsSame(Top.a, Top.b)
                    \/ FindsDifferent(Top.a, Top.b)
                    \/ BeginsPointing(Top.a, Top.b)
                    \/ \E how \in {"copy", "recurse", "delete"} : Notes(Top.a, how)
                    \/ Discards(Top.a)
                    \/ \E at \in {"pointed member", "member"} : Descends(at)
             PROVE  Depth'
  BY <1>3, CompareKinds DEF Core
<1>4. PICK n \in Nat : n = Len(stack)
  BY <1>0, TopType DEF Core
<1>5. n <= c + 1 /\ (Top.at # "call" => n <= c)
  BY <1>0, <1>1, <1>4 DEF Depth
<1>6. Top.a \in Types /\ Top.b \in Types
  BY <1>0, TopType DEF Core
<1>7. UNCHANGED diffAgainst => d = c
  BY <1>1 DEF Begun
<1>8. Judges(Top.a, Top.b) => d >= c /\ (Top.at = "call" => d = c + 1)
  <2> SUFFICES ASSUME Judges(Top.a, Top.b)
               PROVE  d >= c /\ (Top.at = "call" => d = c + 1)
    OBVIOUS
  <2>1. /\ diffAgainst[Top.a] = NULL => d = c + 1
        /\ diffAgainst[Top.a] # NULL => d = c
    BY <1>1, <1>6, BegunGrows DEF Core, Judges
  <2>2. Top.at = "call" => diffAgainst[Top.a] = NULL
    BY DEF Judges
  <2> QED
    BY <1>2, <2>1, <2>2
<1>9. CASE Pops /\ (UNCHANGED diffAgainst \/ Judges(Top.a, Top.b))
  <2>1. d \in Nat /\ d >= c
    <3>1. d \in Nat
      <4>1. Begun' \in SUBSET Types
        BY DEF Begun
      <4> QED
        BY <1>1, <4>1, TypesFinite
    <3> QED
      BY <1>2, <1>7, <1>8, <1>9, <3>1
  <2>2. Len(stack') = n - 1
    BY <1>4, <1>9 DEF Pops
  <2> QED
    BY <1>1, <1>2, <1>5, <2>1, <2>2 DEF Depth
<1>10. CASE Moves("fields") /\ ((UNCHANGED diffAgainst /\ Top.at # "call") \/ Judges(Top.a, Top.b))
  <2>1. Len(stack') = n
    BY <1>4, <1>10 DEF Moves
  <2>2. n <= d
    <3>1. (d = c /\ Top.at # "call") \/ (d >= c /\ (Top.at = "call" => d = c + 1))
      BY <1>7, <1>8, <1>10
    <3>2. d \in Nat
      <4>1. Begun' \in SUBSET Types
        BY DEF Begun
      <4> QED
        BY <1>1, <4>1, TypesFinite
    <3> QED
      BY <1>2, <1>5, <3>1, <3>2
  <2> QED
    BY <1>1, <1>2, <1>5, <1>7, <1>8, <1>10, <2>1, <2>2 DEF Depth
<1>11. CASE BeginsPointing(Top.a, Top.b)
  <2>1. d = c + 1
    BY <1>1, <1>6, <1>11, BegunGrows DEF Core, BeginsPointing
  <2>2. Len(stack') = n + 1 /\ Top'.at = "call"
    <3>1. Top' = Callee(TopAt("pointed"))
      BY <1>4, <1>11 DEF BeginsPointing, Pushes, Top
    <3>2. Callee(TopAt("pointed")).at = "call"
      BY DEF Callee, Call
    <3> QED
      BY <1>4, <1>11, <3>1, <3>2 DEF BeginsPointing, Pushes
  <2> QED
    BY <1>1, <1>2, <1>5, <2>1, <2>2 DEF Depth
<1>12. ASSUME NEW at, Descends(at)
       PROVE  Depth'
  <2>1. d = c /\ n <= c
    BY <1>5, <1>7, <1>12 DEF Descends
  <2>2. Len(stack') = n + 1 /\ Top'.at = "call"
    <3>1. Top' = Callee(TopAt(at))
      BY <1>4, <1>12 DEF Descends, Pushes, Top
    <3>2. Callee(TopAt(at)).at = "call"
      BY DEF Callee, Call
    <3> QED
      BY <1>4, <1>12, <3>1, <3>2 DEF Descends, Pushes
  <2> QED
    BY <1>1, <1>2, <2>1, <2>2 DEF Depth
<1>13. Returns(Top.a, Top.b) \/ Discards(Top.a) \/ FindsSame(Top.a, Top.b)
         => Pops /\ (UNCHANGED diffAgainst \/ Judges(Top.a, Top.b))
  BY DEF Returns, Discards, FindsSame
<1>14. FindsDifferent(Top.a, Top.b) \/ (\E how \in {"copy", "recurse", "delete"} : Notes(Top.a, how))
         => Moves("fields") /\ ((UNCHANGED diffAgainst /\ Top.at # "call") \/ Judges(Top.a, Top.b))
  BY DEF FindsDifferent, Notes
<1> QED
  BY <1>0, <1>9, <1>10, <1>11, <1>12, <1>13, <1>14

-----------------------------------------------------------------------------
(* The variables, and the steps of the rest of the writer.                 *)

LEMMA VariableType ==
  ASSUME prog \in Programs, NEW v \in Vars
  PROVE  /\ prog.old.vars[v] # NULL => prog.old.vars[v] \in Types
         /\ prog.new.vars[v] # NULL => prog.new.vars[v] \in Types
BY FuncsAssumption DEF FuncsAssumption

LEMMA PopAnswers ==
  ASSUME Core, stack # << >>, Returns(Top.a, Top.b) \/ FindsSame(Top.a, Top.b) \/ Discards(Top.a),
         NEW a, NEW b, a = Top.a, b = Top.b
  PROVE  Answered(a, b)'
<1>1. a \in Types /\ b \in Types
  BY TopType DEF Core
<1>2. CASE Returns(Top.a, Top.b)
  BY <1>2 DEF Returns, Answered
<1>3. CASE FindsSame(Top.a, Top.b)
  BY <1>1, <1>3 DEF FindsSame, Judges, Answered, Core, DiffTypeOK
<1>4. CASE Discards(Top.a)
  <2>1. Kind[Top.a] = Kind[Top.b] /\ diffAgainst[Top.a] = Top.b
    BY <1>4, TopInProgress DEF Discards, Core
  <2> QED
    BY <1>4, <2>1 DEF Discards, Answered
<1> QED
  BY <1>2, <1>3, <1>4

(* The first call is that for the variable.                                *)
LEMMA FirstCallKept ==
  ASSUME Core, Compare, NEW x, NEW y,
         stack # << >> => stack[1].a = x /\ stack[1].b = y,
         stack = << >> => Answered(x, y)
  PROVE  /\ stack' # << >> => stack'[1].a = x /\ stack'[1].b = y
         /\ stack' = << >> => Answered(x, y)'
<1>1. CASE Halts
  <2>1. stack' = stack /\ UNCHANGED <<diffAgainst, status, ret>>
    BY <1>1 DEF Halts
  <2> QED
    BY <2>1 DEF Answered
<1>2. CASE stack # << >> /\ (Returns(Top.a, Top.b) \/ FindsSame(Top.a, Top.b) \/ Discards(Top.a))
  <2>1. PICK n \in Nat \ {0} : n = Len(stack)
    BY <1>2, TopType DEF Core
  <2>2. /\ stack' \in Seq(Calls) /\ Len(stack') = n - 1
        /\ \A k \in 1..(n - 1) : stack'[k] = stack[k]
    BY <1>2, <2>1 DEF Returns, FindsSame, Discards, Pops
  <2>3. CASE n = 1
    <3>1. Top.a = x /\ Top.b = y
      BY <1>2, <2>1, <2>3 DEF Top
    <3>2. stack' = << >>
      BY <2>2, <2>3, EmptySeq
    <3> QED
      BY <1>2, <3>1, <3>2, PopAnswers
  <2>4. CASE n # 1
    <3>1. stack'[1] = stack[1]
      BY <2>1, <2>2, <2>4
    <3>2. stack' # << >>
      BY <2>1, <2>2, <2>4, EmptySeq
    <3> QED
      BY <1>2, <3>1, <3>2
  <2> QED
    BY <2>3, <2>4
<1>3. ASSUME stack # << >>, NEW at, Moves(at) \/ Pushes(at)
      PROVE  stack' # << >> /\ stack'[1].a = x /\ stack'[1].b = y
  <2>1. PICK n \in Nat \ {0} : n = Len(stack)
    BY <1>3, TopType DEF Core
  <2>2. /\ stack' \in Seq(Calls) /\ Len(stack') \in {n, n + 1}
        /\ \A k \in 1..(n - 1) : stack'[k] = stack[k]
        /\ stack'[n] = TopAt(at)
    BY <1>3, <2>1 DEF Moves, Pushes
  <2>3. stack' # << >>
    BY <2>1, <2>2, EmptySeq
  <2>4. CASE n = 1
    BY <1>3, <2>1, <2>2, <2>3, <2>4 DEF TopAt, Top
  <2>5. CASE n # 1
    <3>1. stack'[1] = stack[1]
      BY <2>1, <2>2, <2>5
    <3> QED
      BY <1>3, <2>3, <3>1
  <2> QED
    BY <2>4, <2>5
<1>4. FindsDifferent(Top.a, Top.b) => Moves("fields")
  BY DEF FindsDifferent
<1>5. \A how : Notes(Top.a, how) => Moves("fields")
  BY DEF Notes
<1>6. BeginsPointing(Top.a, Top.b) => Pushes("pointed")
  BY DEF BeginsPointing
<1>7. \A at : Descends(at) => Pushes(at)
  BY DEF Descends
<1> QED
  BY <1>1, <1>2, <1>3, <1>4, <1>5, <1>6, <1>7, CompareKinds DEF Core

LEMMA CompareGrows ==
  ASSUME Core, Compare, NEW t \in Types, transformer[t] # NULL
  PROVE  transformer'[t] # NULL
<1>1. CASE Halts \/ Returns(Top.a, Top.b) \/ FindsSame(Top.a, Top.b) \/ BeginsPointing(Top.a, Top.b)
           \/ \E at \in {"pointed member", "member"} : Descends(at)
  BY <1>1 DEF Halts, Returns, FindsSame, BeginsPointing, Descends
<1>2. CASE stack # << >> /\ FindsDifferent(Top.a, Top.b)
  BY <1>2, DifferentEffect DEF Core
<1>3. CASE stack # << >> /\ Discards(Top.a)
  BY <1>3, DiscardEffect DEF Core
<1>4. CASE stack # << >> /\ \E how \in {"copy", "recurse", "delete"} : Notes(Top.a, how)
  BY <1>4, NoteEffect DEF Core
<1> QED
  BY <1>1, <1>2, <1>3, <1>4, CompareKinds DEF Core

LEMMA TransformingEffect ==
  ASSUME TransformsKnown, VarTypes, NEW v \in Vars, NEW t \in Types, Transforming(v, t),
         Kind[prog.new.vars[v]] = "const" \/ transformer[t] # NULL, transformer' = transformer
  PROVE  TransformsKnown' /\ varTrans' \in Seq([var : Vars, transform : Types \cup {NULL}])
<1> DEFINE x == IF Kind[prog.new.vars[v]] = "const" THEN NULL ELSE t
           e == [var |-> v, transform |-> x]
           R == [var : Vars, transform : Types \cup {NULL}]
<1>1. varTrans' = Append(varTrans, e)
  BY DEF Transforming
<1>2. e \in R /\ e.transform = x /\ (x # NULL => transformer[x] # NULL) /\ varTrans \in Seq(R)
  BY DEF VarTypes
<1> HIDE DEF e, R, x
<1>3. PICK n \in Nat :
        /\ varTrans' \in Seq(R) /\ DOMAIN varTrans' = 1..(n + 1) /\ DOMAIN varTrans = 1..n
        /\ \A k \in 1..n : varTrans'[k] = varTrans[k]
        /\ varTrans'[n + 1] = e
  <2>1. PICK n \in Nat : n = Len(varTrans)
    BY <1>2
  <2> QED
    BY <1>1, <1>2, <2>1
<1>4. ASSUME NEW k \in DOMAIN varTrans'
      PROVE  varTrans'[k] = e \/ (k \in DOMAIN varTrans /\ varTrans'[k] = varTrans[k])
  <2>1. k = n + 1 \/ k \in 1..n
    BY <1>3
  <2> QED
    BY <1>3, <2>1
<1>5. TransformsKnown'
  BY <1>2, <1>4 DEF TransformsKnown
<1> QED
  BY <1>3, <1>5 DEF R

(* Nothing of the comparison changes.                                      *)
LEMMA DepthStays ==
  ASSUME Depth, Halts
  PROVE  Depth'
<1>1. Begun' = Begun /\ stack' = stack /\ Top' = Top
  BY DEF Begun, Halts, Top
<1> QED
  BY <1>1 DEF Depth

LEMMA NextVariableKeeps ==
  ASSUME DiffInv, NextVariable
  PROVE  DiffInv'
<1>1. PICK v \in left :
       /\ left' = left \ {v}
       /\ IF prog.new.vars[v] = NULL THEN UNCHANGED <<var, varTrans, stack>>
          ELSE IF transformer[prog.old.vars[v]] # NULL
          THEN Transforming(v, prog.old.vars[v]) /\ UNCHANGED <<var, stack>>
          ELSE /\ var' = v /\ stack' = <<Call(prog.old.vars[v], prog.new.vars[v])>>
               /\ UNCHANGED varTrans
  BY DEF NextVariable
<1>2. var = NULL /\ UNCHANGED <<prog, diffAgainst, status, transformer, ret>>
  BY DEF NextVariable
<1>3. /\ v \in Vars /\ prog.old.vars[v] \in Types
      /\ prog.new.vars[v] # NULL => prog.new.vars[v] \in Types
  BY VariableType DEF DiffInv, Core, DiffTypeOK, VarTypes, Variables
<1>4. left' \subseteq Vars /\ \A w \in left' : prog'.old.vars[w] # NULL
  BY <1>1, <1>2 DEF DiffInv, VarTypes, Variables
<1>5. CASE prog.new.vars[v] = NULL
  <2>1. Halts /\ UNCHANGED <<var, varTrans>>
    BY <1>1, <1>2, <1>5 DEF Halts
  <2>2. Core' /\ Depth'
    BY <2>1, HaltsKeeps, DepthStays DEF DiffInv
  <2>3. Variables'
    BY <1>2, <1>4, <2>1 DEF DiffInv, Variables, TransformsKnown
  <2> QED
    BY <1>4, <2>1, <2>2, <2>3 DEF DiffInv, VarTypes
<1>6. CASE prog.new.vars[v] # NULL /\ transformer[prog.old.vars[v]] # NULL
  <2>1. Halts /\ UNCHANGED var /\ Transforming(v, prog.old.vars[v])
    BY <1>1, <1>2, <1>6 DEF Halts
  <2>2. Core' /\ Depth'
    BY <2>1, HaltsKeeps, DepthStays DEF DiffInv
  <2>3. TransformsKnown' /\ varTrans' \in Seq([var : Vars, transform : Types \cup {NULL}])
    BY <1>2, <1>3, <1>6, <2>1, TransformingEffect DEF DiffInv, Variables
  <2>4. Variables'
    BY <1>2, <1>4, <2>1, <2>3 DEF Variables
  <2> QED
    BY <1>2, <1>4, <2>1, <2>2, <2>3, <2>4 DEF DiffInv, VarTypes
<1>7. CASE prog.new.vars[v] # NULL /\ transformer[prog.old.vars[v]] = NULL
  <2>1. var' = v /\ stack' = <<Call(prog.old.vars[v], prog.new.vars[v])>> /\ UNCHANGED varTrans
    BY <1>1, <1>7
  <2>2. PICK c : c = Call(prog.old.vars[v], prog.new.vars[v])
    OBVIOUS
  <2>3. c \in Calls /\ c.a = prog.old.vars[v] /\ c.b = prog.new.vars[v] /\ c.at = "call"
    BY <1>3, <1>7, <2>2 DEF Call, Calls
  <2>4. stack' = <<c>> /\ DOMAIN stack' = {1} /\ stack'[1] = c /\ Len(stack') = 1 /\ stack' # << >>
    BY <2>1, <2>2
  <2>5. stack' \in Seq(Calls)
    BY <2>3, <2>4
  <2>6. DiffTypeOK'
    BY <1>2, <2>5 DEF DiffInv, Core, DiffTypeOK
  <2>7. Verdicts' /\ SameIsSame' /\ Pointers'
    BY <1>2, NothingNoted DEF DiffInv
  <2>8. Top'.at = "call"
    BY <2>3, <2>4 DEF Top
  <2>9. Frames'
    <3>1. \A k \in DOMAIN stack' : InProgress(stack[k])'
      BY <2>3, <2>4 DEF InProgress
    <3>2. \A k \in DOMAIN stack' : ~(k < Len(stack'))
      BY <2>4
    <3>3. \A k, l \in DOMAIN stack' : ~(k # l)
      BY <2>4
    <3> QED
      BY <2>8, <3>1, <3>2, <3>3 DEF Frames, Waiting
  <2>10. Depth'
    <3>1. Begun' \in SUBSET Types
      BY DEF Begun
    <3>2. Cardinality(Begun') \in Nat
      BY <3>1, TypesFinite
    <3> QED
      BY <2>4, <2>8, <3>2 DEF Depth
  <2>11. Variables'
    BY <1>2, <1>3, <1>4, <1>7, <2>1, <2>3, <2>4 DEF DiffInv, Variables, TransformsKnown
  <2> QED
    BY <1>3, <1>4, <2>1, <2>6, <2>7, <2>9, <2>10, <2>11 DEF DiffInv, Core, VarTypes
<1> QED
  BY <1>5, <1>6, <1>7

LEMMA CompareTypesKeeps ==
  ASSUME DiffInv, CompareTypes
  PROVE  DiffInv'
<1>1. Compare /\ UNCHANGED <<left, var, varTrans>>
  BY DEF CompareTypes, genVars
<1>2. Core' /\ Depth'
  BY <1>1, CompareKeeps, DepthKeeps DEF DiffInv
<1>3. prog' = prog
  BY <1>1 DEF Compare, OtherKind, Compared, Begin, PointedCompared, EndLoop, MemberGone, MemberOtherKind,
         PlainMember, ArrayMember, PointerMember, PointedMemberCompared, CompoundMember, MemberCompared,
         Stop, GiveUp, Checked
<1>4. TransformsKnown'
  <2>1. \A k \in DOMAIN varTrans : varTrans[k].transform \in Types \cup {NULL}
    <3> DEFINE R == [var : Vars, transform : Types \cup {NULL}]
    <3>1. varTrans \in Seq(R)
      BY DEF DiffInv, VarTypes
    <3>2. \A k \in DOMAIN varTrans : varTrans[k] \in R
      <4> HIDE DEF R
      <4> QED
        BY <3>1
    <3> QED
      BY <3>2
  <2> QED
    BY <1>1, <2>1, CompareGrows DEF DiffInv, Variables, TransformsKnown
<1>5. Variables'
  <2>1. ASSUME var # NULL
        PROVE  /\ stack' # << >> => stack'[1].a = prog.old.vars[var] /\ stack'[1].b = prog.new.vars[var]
               /\ stack' = << >> => Answered(prog.old.vars[var], prog.new.vars[var])'
    <3>1. PICK x, y : x = prog.old.vars[var] /\ y = prog.new.vars[var]
      OBVIOUS
    <3>2. /\ stack # << >> => stack[1].a = x /\ stack[1].b = y
          /\ stack = << >> => Answered(x, y)
      BY <2>1, <3>1 DEF DiffInv, Variables
    <3>3. /\ stack' # << >> => stack'[1].a = x /\ stack'[1].b = y
          /\ stack' = << >> => Answered(x, y)'
      BY <1>1, <3>2, FirstCallKept DEF DiffInv
    <3>4. x = prog'.old.vars[var'] /\ y = prog'.new.vars[var']
      BY <1>1, <1>3, <3>1
    <3> QED
      BY <3>1, <3>3, <3>4 DEF Answered
  <2> QED
    BY <1>1, <1>3, <1>4, <2>1 DEF DiffInv, Variables
<1> QED
  BY <1>1, <1>2, <1>5 DEF DiffInv, VarTypes

LEMMA VariableComparedKeeps ==
  ASSUME DiffInv, VariableCompared
  PROVE  DiffInv'
<1>1. /\ var # NULL /\ stack = << >> /\ stack' = << >> /\ var' = NULL /\ ret' = "none" /\ left' = left
      /\ UNCHANGED <<prog, diffAgainst, status, transformer>>
  BY DEF VariableCompared
<1>2. /\ var \in Vars /\ prog.old.vars[var] \in Types /\ prog.new.vars[var] \in Types
      /\ Answered(prog.old.vars[var], prog.new.vars[var])
  BY <1>1 DEF DiffInv, Variables, VarTypes
<1>3. DiffTypeOK'
  BY <1>1 DEF DiffInv, Core, DiffTypeOK
<1>4. Verdicts' /\ SameIsSame' /\ Pointers'
  BY <1>1, NothingNoted DEF DiffInv
<1>5. Frames'
  BY <1>1 DEF Frames
<1>6. Depth'
  <2>1. Begun' = Begun
    BY <1>1 DEF Begun
  <2>2. Len(stack') = 0
    BY <1>1
  <2> QED
    BY <1>1, <2>1, <2>2, BegunFinite DEF Depth
<1>7. \/ UNCHANGED varTrans
      \/ /\ Transforming(var, prog.old.vars[var])
         /\ \/ transformer[prog.old.vars[var]] # NULL
            \/ ret # "differs" /\ Kind[prog.old.vars[var]] = "const"
  BY DEF VariableCompared
<1>8. TransformsKnown' /\ varTrans' \in Seq([var : Vars, transform : Types \cup {NULL}])
  <2>1. CASE UNCHANGED varTrans
    BY <1>1, <2>1 DEF DiffInv, Variables, VarTypes, TransformsKnown
  <2>2. CASE /\ Transforming(var, prog.old.vars[var])
             /\ \/ transformer[prog.old.vars[var]] # NULL
                \/ ret # "differs" /\ Kind[prog.old.vars[var]] = "const"
    <3>1. Kind[prog.new.vars[var]] = "const" \/ transformer[prog.old.vars[var]] # NULL
      BY <1>2, <2>2 DEF Answered
    <3> QED
      BY <1>1, <1>2, <2>2, <3>1, TransformingEffect DEF DiffInv, Variables
  <2> QED
    BY <1>7, <2>1, <2>2
<1> QED
  BY <1>1, <1>3, <1>4, <1>5, <1>6, <1>8 DEF DiffInv, Core, Variables, VarTypes

(* The other steps: variables are at most taken from the front of varTrans.*)
Rests ==
  /\ Halts /\ left' = left /\ var' = var
  /\ \/ varTrans' = varTrans
     \/ varTrans # << >> /\ varTrans' = Tail(varTrans)

LEMMA RestKeeps ==
  ASSUME DiffInv, Rests
  PROVE  DiffInv'
<1>0. /\ Halts /\ left' = left /\ var' = var
      /\ \/ varTrans' = varTrans
         \/ varTrans # << >> /\ varTrans' = Tail(varTrans)
  BY DEF Rests
<1>1. Core' /\ Depth'
  BY <1>0, HaltsKeeps, DepthStays DEF DiffInv
<1> DEFINE R == [var : Vars, transform : Types \cup {NULL}]
<1>2. varTrans' \in Seq(R) /\ TransformsKnown'
  <2>1. CASE varTrans' = varTrans
    BY <1>0, <2>1 DEF DiffInv, Variables, VarTypes, TransformsKnown, Halts
  <2>2. CASE varTrans # << >> /\ varTrans' = Tail(varTrans)
    <3>1. varTrans \in Seq(R)
      BY DEF DiffInv, VarTypes
    <3> HIDE DEF R
    <3>2. /\ Tail(varTrans) \in Seq(R)
          /\ \A k \in DOMAIN Tail(varTrans) : k + 1 \in DOMAIN varTrans /\ Tail(varTrans)[k] = varTrans[k + 1]
      <4>1. PICK n \in Nat \ {0} : n = Len(varTrans)
        BY <2>2, <3>1, EmptySeq
      <4>2. DOMAIN varTrans = 1..n /\ DOMAIN Tail(varTrans) = 1..(n - 1)
        BY <2>2, <3>1, <4>1
      <4> QED
        BY <2>2, <3>1, <4>1, <4>2
    <3> QED
      BY <1>0, <2>2, <3>2 DEF DiffInv, Variables, TransformsKnown, Halts
  <2> QED
    BY <1>0, <2>1, <2>2
<1>3. Variables'
  BY <1>0, <1>2 DEF DiffInv, Variables, Halts, Answered
<1> QED
  BY <1>0, <1>1, <1>2, <1>3 DEF DiffInv, VarTypes

LEMMA FrontStep ==
  ASSUME DiffInv, [Next]_vars
  PROVE  DiffInv'
<1>1. CASE WriteUnsafety
  <2>1. Rests
    BY <1>1 DEF WriteUnsafety, Halts, Rests
  <2> QED
    BY <2>1, RestKeeps
<1>2. CASE WriteNewVars
  <2>1. Rests
    BY <1>2 DEF WriteNewVars, WriterUnchanged, Halts, Rests
  <2> QED
    BY <2>1, RestKeeps
<1>3. CASE WriteVariable
  <2>1. Rests
    BY <1>3 DEF WriteVariable, WriterUnchanged, Halts, Rests
  <2> QED
    BY <2>1, RestKeeps
<1>4. CASE Enter
  <2>1. Rests
    BY <1>4 DEF Enter, EnterConst, EnterOther, WriterStops, WriterUnchanged, Halts, Rests
  <2> QED
    BY <2>1, RestKeeps
<1>5. CASE ConstWritten
  <2>1. Rests
    BY <1>5 DEF ConstWritten, WriterUnchanged, Halts, Rests
  <2> QED
    BY <2>1, RestKeeps
<1>6. CASE StraightCopy
  <2>1. Rests
    BY <1>6 DEF StraightCopy, WriterStops, WriterUnchanged, Halts, Rests
  <2> QED
    BY <2>1, RestKeeps
<1>7. CASE WritePointer
  <2>1. Rests
    BY <1>7 DEF WritePointer, FixUp, WriterStops, WriterUnchanged, Halts, Rests
  <2> QED
    BY <2>1, RestKeeps
<1>8. CASE WriteMember
  <2>1. Rests
    BY <1>8 DEF WriteMember, FixUp, WriterStops, WriterUnchanged, Halts, Rests
  <2> QED
    BY <2>1, RestKeeps
<1>9. CASE CannotWrite \/ EndWrite
  <2>1. Rests
    BY <1>9 DEF CannotWrite, EndWrite, WriterStops, WriterUnchanged, Halts, Rests
  <2> QED
    BY <2>1, RestKeeps
<1>10. CASE WriteFunctions
  <2>1. Rests
    BY <1>10 DEF WriteFunctions, Halts, Rests
  <2> QED
    BY <2>1, RestKeeps
<1>11. CASE UNCHANGED vars
  <2>1. Rests
    BY <1>11 DEF vars, diffVars, Halts, Rests
  <2> QED
    BY <2>1, RestKeeps
<1> QED
  BY <1>1, <1>2, <1>3, <1>4, <1>5, <1>6, <1>7, <1>8, <1>9, <1>10, <1>11,
     NextVariableKeeps, CompareTypesKeeps, VariableComparedKeeps DEF Next

LEMMA FrontInit ==
  ASSUME Init
  PROVE  DiffInv
<1>1. /\ prog \in Programs /\ stack = << >> /\ ret = "none" /\ var = NULL /\ varTrans = << >>
      /\ diffAgainst = [t \in Types |-> NULL] /\ status = [t \in Types |-> "not done"]
      /\ transformer = [t \in Types |-> NULL] /\ left = { v \in Vars : prog.old.vars[v] # NULL }
  BY DEF Init, DiffInit
<1>2. DiffTypeOK
  <2>1. transformer \in [Types -> Transform \cup {NULL}]
    BY <1>1
  <2>2. stack = << >> /\ << >> \in Seq(Calls)
    BY <1>1, EmptySeq
  <2>3. diffAgainst \in [Types -> Types \cup {NULL}] /\ status \in [Types -> {"not done", "differed", "same"}]
    BY <1>1
  <2> QED
    BY <1>1, <2>1, <2>2, <2>3 DEF DiffTypeOK
<1>3. Verdicts /\ SameIsSame /\ Pointers
  BY <1>1 DEF Verdicts, SameIsSame, Pointers, Compound
<1>4. stack = << >> /\ Len(<< >>) = 0 /\ DOMAIN << >> = {}
  <2>1. Len(<< >>) = 0 /\ DOMAIN << >> = {}
    OBVIOUS
  <2> QED
    BY <1>1, <2>1
<1>5. Frames
  BY <1>4 DEF Frames
<1>6. Depth
  BY <1>4, BegunFinite DEF Depth
<1>7. Variables /\ VarTypes
  <2>1. varTrans = << >> /\ << >> \in Seq([var : Vars, transform : Types \cup {NULL}])
    BY <1>1, EmptySeq
  <2>2. DOMAIN varTrans = {}
    BY <1>4, <2>1
  <2> QED
    BY <1>1, <2>1, <2>2 DEF Variables, VarTypes, TransformsKnown
<1> QED
  BY <1>2, <1>3, <1>5, <1>6, <1>7 DEF DiffInv, Core

LEMMA FrontAlways ==
  Spec => []DiffInv
BY FrontInit, FrontStep, PTL DEF Spec

-----------------------------------------------------------------------------
(* Theorems about the comparison.                                          *)

(* A type whose cached verdict is SAME has the name, length and members of *)
(* the type it was compared with, and what it points to was found the same *)
(* (compareTypesAndGenTransforms, typediff.c).                             *)
THEOREM VerdictsAgree ==
  Spec => []SameIsSame
BY FrontAlways, PTL DEF DiffInv, Core

(* A pointer is copied only to what has no transform, and followed only to *)
(* what has one that makes of it what the new member points to, wherever   *)
(* the recursion over cyclic types began (typediff.c).                     *)
THEOREM PointersLead ==
  Spec => []PointersLeadToTransforms
<1>1. DiffInv => PointersLeadToTransforms
  <2> SUFFICES ASSUME DiffInv, NEW a \in Compound, transformer[a] # NULL,
                      NEW k \in DOMAIN transformer[a].fields,
                      NEW m, m = prog.old.fields[a][k],
                      NEW n, n = prog.new.fields[transformer[a].to][IndexForField(prog.new, transformer[a].to, m.name)],
                      Kind[m.type] = "pointer"
               PROVE  /\ transformer[a].fields[k].how = "copy" => transformer[Pointed[m.type]] = NULL
                      /\ transformer[a].fields[k].how = "recurse" =>
                           /\ transformer[Pointed[m.type]] # NULL
                           /\ Kind[Pointed[m.type]] = Kind[Pointed[n.type]]
                                => transformer[Pointed[m.type]].to = Pointed[n.type]
    BY DEF PointersLeadToTransforms
  <2>1. m.type \in Types
    BY FieldMember DEF DiffInv, Core
  <2>2. Pointed[m.type] \in Types
    BY <2>1, PointedType
  <2>3. /\ transformer[a].fields[k].how = "copy" => status[Pointed[m.type]] = "same"
        /\ transformer[a].fields[k].how = "recurse" => LeadsTo(Pointed[m.type], Pointed[n.type])
    BY DEF DiffInv, Core, Pointers, PointerFits
  <2> DEFINE x == Pointed[m.type]
             y == Pointed[n.type]
  <2>4. /\ status[x] = "same" => transformer[x] = NULL
        /\ LeadsTo(x, y) => /\ transformer[x] # NULL
                            /\ Kind[x] = Kind[y] => transformer[x].to = y
    <3> HIDE DEF x, y
    <3>1. x \in Types
      BY <2>2 DEF x
    <3> QED
      BY <3>1 DEF DiffInv, Core, Verdicts, LeadsTo
  <2> QED
    BY <2>3, <2>4
<1> QED
  BY <1>1, FrontAlways, PTL

(* The comparison goes no deeper than there are types, one counted twice   *)
(* (typediff.c: diffAgainst is set before the recursion).                  *)
THEOREM RecursionIsBounded ==
  Spec => []DiffDepthBounded
<1>1. DiffInv => DiffDepthBounded
  <2> SUFFICES ASSUME DiffInv
               PROVE  Len(stack) <= Cardinality(Types) + 1
    BY DEF DiffDepthBounded
  <2>1. Len(stack) <= Cardinality(Begun) + 1
    BY DEF DiffInv, Depth
  <2>2. Cardinality(Begun) \in Nat /\ Cardinality(Begun) <= Cardinality(Types) /\ Cardinality(Types) \in Nat
    BY BegunFinite, TypesFinite
  <2>3. stack \in Seq(Calls)
    BY DEF DiffInv, Core, DiffTypeOK
  <2>4. Len(stack) \in Nat
    BY <2>3
  <2> QED
    BY <2>1, <2>2, <2>4
<1> QED
  BY <1>1, FrontAlways, PTL

-----------------------------------------------------------------------------
(* The stack of the writer.                                                *)

WFrame == [type : Types, at : {"enter", "const", "body"}]

LEMMA FrameType ==
  ASSUME WriterTypes, writing # << >>
  PROVE  /\ writing \in Seq(WFrame) /\ Len(writing) \in Nat \ {0} /\ DOMAIN writing = 1..Len(writing)
         /\ Frame \in WFrame /\ Frame.type \in Types /\ Frame = [type |-> Frame.type, at |-> Frame.at]
         /\ Outer \in Seq(WFrame) /\ Len(Outer) = Len(writing) - 1
         /\ \A k \in 1..(Len(writing) - 1) : Outer[k] = writing[k]
<1>1. writing \in Seq(WFrame)
  BY DEF WriterTypes, WFrame
<1>2. /\ Len(writing) \in Nat \ {0} /\ DOMAIN writing = 1..Len(writing) /\ Frame \in WFrame
      /\ Outer \in Seq(WFrame) /\ Len(Outer) = Len(writing) - 1
      /\ \A k \in 1..(Len(writing) - 1) : Outer[k] = writing[k]
  <2> HIDE DEF WFrame
  <2>1. Len(writing) \in Nat \ {0} /\ DOMAIN writing = 1..Len(writing) /\ Frame \in WFrame
    BY <1>1 DEF Frame
  <2>2. /\ Outer \in Seq(WFrame) /\ Len(Outer) = Len(writing) - 1
        /\ \A k \in 1..(Len(writing) - 1) : Outer[k] = writing[k]
    BY <1>1, <2>1 DEF Outer
  <2> QED
    BY <2>1, <2>2
<1> QED
  BY <1>1, <1>2 DEF WFrame

(* The frames below are kept.                                              *)
KeepsBelow(n) ==
  /\ writing # << >> /\ n = Len(writing) /\ n \in Nat \ {0}
  /\ writing' \in Seq(WFrame) /\ DOMAIN writing' = 1..Len(writing') /\ Len(writing') \in Nat
  /\ Len(writing') >= n - 1
  /\ \A k \in 1..(n - 1) : writing'[k] = writing[k]

LEMMA PopsFrame ==
  ASSUME WriterTypes, writing # << >>, writing' = Outer
  PROVE  KeepsBelow(Len(writing)) /\ Len(writing') = Len(writing) - 1
<1>1. PICK n : n = Len(writing)
  OBVIOUS
<1>2. /\ n \in Nat \ {0} /\ writing' \in Seq(WFrame) /\ Len(writing') = n - 1
      /\ \A k \in 1..(n - 1) : writing'[k] = writing[k]
  BY <1>1, FrameType
<1> HIDE DEF WFrame
<1>3. DOMAIN writing' = 1..Len(writing') /\ Len(writing') \in Nat
  BY <1>2
<1> QED
  BY <1>1, <1>2, <1>3 DEF KeepsBelow

LEMMA ReplacesFrame ==
  ASSUME WriterTypes, writing # << >>, NEW x \in WFrame, writing' = Append(Outer, x)
  PROVE  KeepsBelow(Len(writing)) /\ Len(writing') = Len(writing) /\ writing'[Len(writing)] = x
<1>1. PICK n, s : n = Len(writing) /\ s = Outer
  OBVIOUS
<1>2. /\ n \in Nat \ {0} /\ s \in Seq(WFrame) /\ Len(s) = n - 1
      /\ \A k \in 1..(n - 1) : s[k] = writing[k]
  BY <1>1, FrameType
<1> HIDE DEF WFrame
<1>3. /\ Append(s, x) \in Seq(WFrame) /\ Len(Append(s, x)) = n /\ Append(s, x)[n] = x
      /\ DOMAIN Append(s, x) = 1..n /\ \A k \in 1..(n - 1) : Append(s, x)[k] = s[k]
  BY <1>2
<1> QED
  BY <1>1, <1>2, <1>3 DEF KeepsBelow

LEMMA PushesFrame ==
  ASSUME WriterTypes, writing # << >>, NEW x \in WFrame, writing' = Append(writing, x)
  PROVE  /\ KeepsBelow(Len(writing)) /\ Len(writing') = Len(writing) + 1
         /\ writing'[Len(writing)] = Frame /\ writing'[Len(writing) + 1] = x
<1>1. PICK n, s : n = Len(writing) /\ s = writing
  OBVIOUS
<1>2. n \in Nat \ {0} /\ s \in Seq(WFrame) /\ Len(s) = n
  BY <1>1, FrameType
<1> HIDE DEF WFrame
<1>3. /\ Append(s, x) \in Seq(WFrame) /\ Len(Append(s, x)) = n + 1 /\ Append(s, x)[n + 1] = x
      /\ DOMAIN Append(s, x) = 1..(n + 1) /\ \A k \in 1..n : Append(s, x)[k] = s[k]
  BY <1>2
<1>4. writing'[n] = Frame
  BY <1>1, <1>2, <1>3 DEF Frame
<1> QED
  BY <1>1, <1>2, <1>3, <1>4 DEF KeepsBelow

LEMMA SplitsFrame ==
  ASSUME WriterTypes, writing # << >>, NEW x \in WFrame, NEW y \in WFrame,
         writing' = Outer \o <<x, y>>
  PROVE  /\ KeepsBelow(Len(writing)) /\ Len(writing') = Len(writing) + 1
         /\ writing'[Len(writing)] = x /\ writing'[Len(writing) + 1] = y
<1>1. PICK n, s : n = Len(writing) /\ s = Outer
  OBVIOUS
<1>2. /\ n \in Nat \ {0} /\ s \in Seq(WFrame) /\ Len(s) = n - 1
      /\ \A k \in 1..(n - 1) : s[k] = writing[k]
  BY <1>1, FrameType
<1> DEFINE two == <<x, y>>
<1> HIDE DEF WFrame
<1>3. two \in Seq(WFrame) /\ Len(two) = 2 /\ two[1] = x /\ two[2] = y
  OBVIOUS
<1> HIDE DEF two
<1>4. /\ s \o two \in Seq(WFrame) /\ Len(s \o two) = n + 1
      /\ DOMAIN (s \o two) = 1..(n + 1)
      /\ \A k \in 1..(n - 1) : (s \o two)[k] = s[k]
      /\ (s \o two)[n] = two[1] /\ (s \o two)[n + 1] = two[2]
  <2>1. /\ s \o two \in Seq(WFrame) /\ Len(s \o two) = Len(s) + Len(two)
        /\ \A k \in 1..(Len(s) + Len(two)) :
             (s \o two)[k] = IF k <= Len(s) THEN s[k] ELSE two[k - Len(s)]
    BY <1>2, <1>3, ConcatProperties
  <2>2. Len(s \o two) = n + 1 /\ DOMAIN (s \o two) = 1..(n + 1)
    BY <1>2, <1>3, <2>1
  <2>3. \A k \in 1..(n - 1) : (s \o two)[k] = s[k]
    BY <1>2, <1>3, <2>1
  <2>4. (s \o two)[n] = two[1] /\ (s \o two)[n + 1] = two[2]
    <3>1. n \in 1..(n + 1) /\ n + 1 \in 1..(n + 1) /\ n - (n - 1) = 1 /\ (n + 1) - (n - 1) = 2
          /\ ~(n <= n - 1) /\ ~(n + 1 <= n - 1)
      BY <1>2
    <3> QED
      BY <1>2, <1>3, <2>1, <3>1
  <2> QED
    BY <2>1, <2>2, <2>3, <2>4
<1>5. writing' = s \o two
  BY <1>1 DEF two
<1> QED
  BY <1>1, <1>2, <1>3, <1>4, <1>5 DEF KeepsBelow


LEMMA LowerFits ==
  ASSUME WriterTypes, WriterFrames, NEW n, KeepsBelow(n), transformer' = transformer,
         onDisk \subseteq onDisk', Frame.at = "enter" => Frame.type \in onDisk',
         NEW k \in 1..(n - 1)
  PROVE  FrameFits(k)'
<1>1. /\ n = Len(writing) /\ n \in Nat \ {0} /\ Len(writing') \in Nat /\ Len(writing') >= n - 1
      /\ \A j \in 1..(n - 1) : writing'[j] = writing[j]
  BY DEF KeepsBelow
<1>2. DOMAIN writing = 1..n
  BY <1>1, FrameType DEF KeepsBelow
<1>3. k \in DOMAIN writing /\ writing'[k] = writing[k]
  BY <1>1, <1>2
<1>4. FrameFits(k)
  BY <1>3 DEF WriterFrames
<1> DEFINE t == writing[k].type
<1>5. ASSUME writing[k].at = "const"
      PROVE  \/ Pointed[t] \in onDisk'
             \/ k < Len(writing') /\ writing'[k + 1] = [type |-> Pointed[t], at |-> "enter"]
  <2>1. \/ Pointed[t] \in onDisk
        \/ k < Len(writing) /\ writing[k + 1] = [type |-> Pointed[t], at |-> "enter"]
    BY <1>4, <1>5 DEF FrameFits
  <2>2. CASE Pointed[t] \in onDisk
    BY <2>2
  <2>3. CASE k = n - 1 /\ writing[k + 1] = [type |-> Pointed[t], at |-> "enter"]
    <3>1. k + 1 = n
      BY <1>1, <2>3
    <3>2. Frame = [type |-> Pointed[t], at |-> "enter"]
      BY <1>1, <2>3, <3>1 DEF Frame
    <3> QED
      BY <3>2
  <2>4. CASE k # n - 1 /\ writing[k + 1] = [type |-> Pointed[t], at |-> "enter"]
    <3>1. k + 1 \in 1..(n - 1) /\ k < Len(writing')
      BY <1>1, <2>4
    <3> QED
      BY <1>1, <2>4, <3>1
  <2> QED
    BY <2>1, <2>2, <2>3, <2>4
<1> QED
  BY <1>3, <1>4, <1>5 DEF FrameFits

LEMMA OrderKept ==
  ASSUME WriterTypes, NEW n, KeepsBelow(n), NEW t, NEW instrs, InOrder(t, instrs),
         transformer' = transformer,
         Frame # BodyOf(t) \/ (n \in DOMAIN writing' /\ writing'[n] = BodyOf(t))
  PROVE  InOrder(t, instrs)'
<1>1. /\ n = Len(writing) /\ n \in Nat \ {0} /\ Len(writing') \in Nat /\ Len(writing') >= n - 1
      /\ DOMAIN writing' = 1..Len(writing')
      /\ \A j \in 1..(n - 1) : writing'[j] = writing[j]
  BY DEF KeepsBelow
<1>2. DOMAIN writing = 1..n /\ Frame = writing[n]
  BY <1>1, FrameType DEF KeepsBelow, Frame
<1>3. ASSUME NEW j \in DOMAIN writing, writing[j] = BodyOf(t)
      PROVE  \E l \in DOMAIN writing' : writing'[l] = BodyOf(t)
  <2>1. CASE j = n
    BY <1>2, <1>3, <2>1
  <2>2. CASE j # n
    <3>1. j \in 1..(n - 1) /\ j \in DOMAIN writing'
      BY <1>1, <1>2, <2>2
    <3> QED
      BY <1>1, <1>3, <3>1
  <2> QED
    BY <2>1, <2>2
<1>4. Kept(t)' = Kept(t)
  BY DEF Kept
<1>5. /\ { instrs[i].member : i \in DOMAIN instrs } = { m \in Kept(t) : m <= LastMember(instrs) }
      /\ \/ \A m \in Kept(t) : m <= LastMember(instrs)
         \/ \E j \in DOMAIN writing : writing[j] = BodyOf(t)
  BY DEF InOrder
<1>6. \/ \A m \in Kept(t) : m <= LastMember(instrs)
      \/ \E j \in DOMAIN writing' : writing'[j] = BodyOf(t)
  BY <1>3, <1>5
<1> QED
  BY <1>4, <1>5, <1>6 DEF InOrder, LastMember, BodyOf

(* The FDEs are still those of the same types.                             *)
FromsKept == \A k \in DOMAIN fdes : k \in DOMAIN fdes' /\ fdes'[k].from = fdes[k].from

LEMMA FitsKept ==
  ASSUME FromsKept, prog' = prog, NEW t, NEW instr, Fits(t, instr)
  PROVE  Fits(t, instr)'
<1>1. Lead(t, instr)' = Lead(t, instr)
  BY DEF Lead
<1>2. instr.fde \in DOMAIN fdes => instr.fde \in DOMAIN fdes' /\ fdes'[instr.fde].from = fdes[instr.fde].from
  BY DEF FromsKept
<1> QED
  BY <1>1, <1>2 DEF Fits, FdeType

LEMMA FitsAlong ==
  ASSUME WriterInv, UNCHANGED <<prog, fdes>>
  PROVE  AllFit'
<1>1. FromsKept
  BY DEF FromsKept
<1> SUFFICES ASSUME NEW k \in DOMAIN fdes, NEW i \in DOMAIN fdes[k].instrs
             PROVE  Fits(fdes[k].from, fdes[k].instrs[i])'
  BY DEF AllFit
<1>2. PICK t, instr : t = fdes[k].from /\ instr = fdes[k].instrs[i]
  OBVIOUS
<1>3. Fits(t, instr)'
  BY <1>1, <1>2, FitsKept DEF WriterInv, AllFit
<1>4. t = fdes'[k].from /\ instr = fdes'[k].instrs[i]
  BY <1>2
<1> QED
  BY <1>3, <1>4 DEF Fits, Lead, FdeType

LEMMA OrdersAlong ==
  ASSUME WriterInv, UNCHANGED <<fdes, transformer>>, NEW n, KeepsBelow(n),
         \/ n \in DOMAIN writing' /\ writing'[n] = Frame
         \/ Frame.at # "body"
         \/ \A k \in DOMAIN fdes : Kind[fdes[k].from] = "struct" /\ fdes[k].from = Frame.type =>
              \A m \in Kept(Frame.type) : m <= LastMember(fdes[k].instrs)
  PROVE  MembersInOrder'
<1> SUFFICES ASSUME NEW k \in DOMAIN fdes, Kind[fdes[k].from] = "struct"
             PROVE  InOrder(fdes[k].from, fdes[k].instrs)'
  BY DEF MembersInOrder
<1>1. PICK t, instrs : t = fdes[k].from /\ instrs = fdes[k].instrs
  OBVIOUS
<1>2. WriterTypes /\ InOrder(t, instrs)
  BY <1>1 DEF WriterInv, MembersInOrder
<1>3. \/ Frame # BodyOf(t) \/ (n \in DOMAIN writing' /\ writing'[n] = BodyOf(t))
      \/ \A m \in Kept(t) : m <= LastMember(instrs)
  BY <1>1 DEF BodyOf
<1>4. InOrder(t, instrs)'
  <2>1. CASE Frame # BodyOf(t) \/ (n \in DOMAIN writing' /\ writing'[n] = BodyOf(t))
    BY <1>2, <2>1, OrderKept
  <2>2. CASE \A m \in Kept(t) : m <= LastMember(instrs)
    <3>1. Kept(t)' = Kept(t)
      BY DEF Kept
    <3> QED
      BY <1>2, <2>2, <3>1 DEF InOrder, LastMember
  <2> QED
    BY <1>3, <2>1, <2>2
<1>5. t = fdes'[k].from /\ instrs = fdes'[k].instrs
  BY <1>1
<1> QED
  BY <1>4, <1>5 DEF InOrder, Kept, LastMember, BodyOf

LEMMA WrittenAlong ==
  ASSUME WriterInv, FromsKept, DOMAIN fdes' = DOMAIN fdes, UNCHANGED <<onDisk, fdeIdx, transformer>>
  PROVE  WrittenTypes'
BY DEF WriterInv, WrittenTypes, FdeOf, FromsKept

LEMMA FramesAlong ==
  ASSUME WriterInv, NEW n, KeepsBelow(n), transformer' = transformer,
         onDisk \subseteq onDisk', Frame.at = "enter" => Frame.type \in onDisk',
         \A k \in n..Len(writing') : FrameFits(k)'
  PROVE  WriterFrames'
<1>1. /\ n \in Nat \ {0} /\ DOMAIN writing' = 1..Len(writing') /\ Len(writing') \in Nat
      /\ \A k \in 1..Len(writing') : k \in 1..(n - 1) \/ k \in n..Len(writing')
  BY DEF KeepsBelow
<1>2. \A k \in 1..(n - 1) : FrameFits(k)'
  BY LowerFits DEF WriterInv
<1> QED
  BY <1>1, <1>2 DEF WriterFrames

(* Nothing of the writer changes.                                          *)
LEMMA WriterStays ==
  ASSUME WriterInv, UNCHANGED <<prog, transformer, writing, onDisk, fdeIdx, fdes>>
  PROVE  WrittenTypes' /\ WriterFrames' /\ MembersInOrder' /\ AllFit'
<1>1. WrittenTypes'
  BY DEF WriterInv, WrittenTypes, FdeOf
<1>2. WriterFrames'
  BY DEF WriterInv, WriterFrames, FrameFits
<1>3. MembersInOrder'
  <2>1. \A t, instrs : InOrder(t, instrs) => InOrder(t, instrs)'
    BY DEF InOrder, Kept, LastMember, BodyOf
  <2> SUFFICES ASSUME NEW k \in DOMAIN fdes, Kind[fdes[k].from] = "struct"
               PROVE  InOrder(fdes[k].from, fdes[k].instrs)'
    BY DEF MembersInOrder
  <2>2. PICK t, instrs : t = fdes[k].from /\ instrs = fdes[k].instrs
    OBVIOUS
  <2>3. InOrder(t, instrs)'
    BY <2>1, <2>2 DEF WriterInv, MembersInOrder
  <2>4. t = fdes'[k].from /\ instrs = fdes'[k].instrs
    BY <2>2
  <2> QED
    BY <2>3, <2>4 DEF InOrder, Kept, LastMember, BodyOf
<1>4. AllFit'
  BY FitsAlong
<1> QED
  BY <1>1, <1>2, <1>3, <1>4

Ends == {"functions", "done", "dead", "assertion", "undefined"}

(* While types are compared nothing has been written.                      *)
LEMMA EarlyKeeps ==
  ASSUME WriterInv, pc \in {"diff", "new"}, UNCHANGED <<writing, onDisk, fdeIdx, fdes, unsafe>>,
         pc' \in {"diff", "new", "write"} \cup Ends
  PROVE  WriterInv'
<1>1. fdes = << >> /\ writing = << >> /\ onDisk = {} /\ WriterTypes /\ WrittenTypes
  BY DEF WriterInv, Phases
<1>2. DOMAIN fdes' = {} /\ DOMAIN writing' = {}
  BY <1>1
<1>3. WriterTypes'
  BY <1>1 DEF WriterTypes, Ends
<1>4. WrittenTypes'
  BY <1>1, <1>2 DEF WrittenTypes
<1>5. WriterFrames' /\ MembersInOrder' /\ AllFit'
  BY <1>2 DEF WriterFrames, MembersInOrder, AllFit
<1>6. Phases'
  BY <1>1 DEF Phases
<1> QED
  BY <1>3, <1>4, <1>5, <1>6 DEF WriterInv

LEMMA EndKeeps ==
  ASSUME WriterInv, UNCHANGED <<prog, transformer, writing, onDisk, fdeIdx, fdes>>,
         unsafe' \subseteq Funcs, pc' \in Ends, pc' \in {"functions", "done"} => writing = << >>
  PROVE  WriterInv'
<1>1. WriterTypes'
  BY DEF WriterInv, WriterTypes, Ends
<1>2. Phases'
  BY DEF Phases, Ends
<1> QED
  BY <1>1, <1>2, WriterStays DEF WriterInv

LEMMA StopKeeps ==
  ASSUME WriterInv, NEW how \in {"dead", "assertion", "undefined"}, WriterStops(how)
  PROVE  WriterInv'
<1>1. UNCHANGED <<prog, transformer, writing, onDisk, fdeIdx, fdes, unsafe>> /\ pc' = how
  BY DEF WriterStops, WriterUnchanged
<1>2. unsafe' \subseteq Funcs
  BY <1>1 DEF WriterInv, WriterTypes
<1> QED
  BY <1>1, <1>2, EndKeeps DEF Ends

LEMMA WriteVariableKeeps ==
  ASSUME DiffInv, WriterInv, WriteVariable
  PROVE  WriterInv'
<1>1. /\ pc = "write" /\ writing = << >> /\ varTrans # << >>
      /\ UNCHANGED <<onDisk, fdeIdx, fdes, pc, prog, transformer, unsafe>>
      /\ \/ writing' = << >>
         \/ /\ Head(varTrans).transform # NULL
            /\ writing' = <<[type |-> Head(varTrans).transform, at |-> "enter"]>>
  BY DEF WriteVariable, WriterUnchanged
<1>2. /\ Head(varTrans).transform # NULL => Head(varTrans).transform \in Types
      /\ Head(varTrans).transform # NULL => transformer[Head(varTrans).transform] # NULL
  <2> DEFINE R == [var : Vars, transform : Types \cup {NULL}]
  <2>1. varTrans \in Seq(R)
    BY DEF DiffInv, VarTypes
  <2>2. Head(varTrans) \in R /\ Head(varTrans) = varTrans[1] /\ 1 \in DOMAIN varTrans
    <3> HIDE DEF R
    <3> QED
      BY <1>1, <2>1
  <2> QED
    BY <2>2 DEF DiffInv, Variables, TransformsKnown
<1>3. writing' \in Seq(WFrame) /\ DOMAIN writing = {}
      /\ \A k \in DOMAIN writing' : writing'[k].at = "enter" /\ transformer[writing'[k].type] # NULL
  <2>1. CASE writing' = << >>
    BY <1>1, <2>1
  <2>2. CASE Head(varTrans).transform # NULL /\ writing' = <<[type |-> Head(varTrans).transform, at |-> "enter"]>>
    <3>1. PICK x : x = [type |-> Head(varTrans).transform, at |-> "enter"]
      OBVIOUS
    <3>2. x \in WFrame /\ x.at = "enter" /\ transformer[x.type] # NULL
      BY <1>2, <2>2, <3>1 DEF WFrame
    <3>3. writing' = <<x>>
      BY <2>2, <3>1
    <3> HIDE DEF WFrame
    <3>4. writing' \in Seq(WFrame) /\ \A k \in DOMAIN writing' : writing'[k] = x
      BY <3>2, <3>3
    <3> QED
      BY <1>1, <3>2, <3>4
  <2> QED
    BY <1>1, <2>1, <2>2
<1>4. WriterTypes'
  BY <1>1, <1>3 DEF WriterInv, WriterTypes, WFrame
<1>5. WrittenTypes'
  <2>1. FromsKept
    BY <1>1 DEF FromsKept
  <2> QED
    BY <1>1, <2>1, WrittenAlong
<1>6. WriterFrames'
  BY <1>1, <1>3 DEF WriterFrames, FrameFits
<1>7. MembersInOrder'
  <2> SUFFICES ASSUME NEW k \in DOMAIN fdes, Kind[fdes[k].from] = "struct"
               PROVE  InOrder(fdes[k].from, fdes[k].instrs)'
    BY <1>1 DEF MembersInOrder
  <2>1. PICK t, instrs : t = fdes[k].from /\ instrs = fdes[k].instrs
    OBVIOUS
  <2>2. InOrder(t, instrs)
    BY <2>1 DEF WriterInv, MembersInOrder
  <2>3. /\ { instrs[i].member : i \in DOMAIN instrs } = { m \in Kept(t) : m <= LastMember(instrs) }
        /\ \A m \in Kept(t) : m <= LastMember(instrs)
    BY <1>3, <2>2 DEF InOrder
  <2>4. Kept(t)' = Kept(t) /\ t = fdes'[k].from /\ instrs = fdes'[k].instrs
    BY <1>1, <2>1 DEF Kept
  <2>5. InOrder(t, instrs)'
    BY <2>3, <2>4 DEF InOrder, LastMember
  <2>6. t = fdes'[k].from /\ instrs = fdes'[k].instrs
    BY <2>4
  <2> QED
    BY <2>5, <2>6 DEF InOrder, Kept, LastMember, BodyOf
<1>8. AllFit' /\ Phases'
  BY <1>1, FitsAlong DEF Phases
<1> QED
  BY <1>4, <1>5, <1>6, <1>7, <1>8 DEF WriterInv

(* The top frame is left.                                                  *)
LEMMA LeaveKeeps ==
  ASSUME WriterInv, WriterActive, writing' = Outer, pc' = pc,
         UNCHANGED <<prog, transformer, onDisk, fdeIdx, fdes, unsafe>>,
         Frame.at = "enter" => Frame.type \in onDisk,
         \/ Frame.at # "body"
         \/ \A k \in DOMAIN fdes : Kind[fdes[k].from] = "struct" /\ fdes[k].from = Frame.type =>
              \A m \in Kept(Frame.type) : m <= LastMember(fdes[k].instrs)
  PROVE  WriterInv'
<1>1. PICK n : n = Len(writing)
  OBVIOUS
<1>2. KeepsBelow(n) /\ Len(writing') = n - 1 /\ writing # << >>
  BY <1>1, PopsFrame DEF WriterInv, WriterActive
<1>3. n \in Nat \ {0} /\ n..Len(writing') = {} /\ writing' \in Seq(WFrame)
  BY <1>2 DEF KeepsBelow
<1>4. WriterTypes'
  BY <1>3 DEF WriterInv, WriterTypes, WFrame
<1>5. WrittenTypes'
  <2>1. FromsKept
    BY DEF FromsKept
  <2> QED
    BY <2>1, WrittenAlong
<1>6. WriterFrames'
  BY <1>2, <1>3, FramesAlong
<1>7. MembersInOrder'
  BY <1>2, OrdersAlong
<1>8. AllFit' /\ Phases'
  BY FitsAlong DEF Phases, WriterActive
<1> QED
  BY <1>4, <1>5, <1>6, <1>7, <1>8 DEF WriterInv

LEMMA EnterConstKeeps ==
  ASSUME DiffInv, WriterInv, WriterActive, Frame.at = "enter", Frame.type \notin onDisk,
         Kind[Frame.type] = "const", EnterConst(Frame.type)
  PROVE  WriterInv'
<1>1. CASE WriterStops("assertion")
  BY <1>1, StopKeeps
<1>2. CASE ~ WriterStops("assertion")
  <2> DEFINE t == Frame.type
             x == [type |-> t, at |-> "const"]
             y == [type |-> Pointed[t], at |-> "enter"]
  <2>1. /\ transformer[Pointed[t]] # NULL /\ onDisk' = onDisk \cup {t}
        /\ writing' = Outer \o <<x, y>>
        /\ UNCHANGED <<prog, transformer, fdeIdx, fdes, unsafe, pc>>
    BY <1>2 DEF EnterConst, WriterUnchanged
  <2>2. WriterTypes /\ writing # << >> /\ t \in Types /\ Pointed[t] \in Types
    BY FrameType, PointedType DEF WriterInv, WriterActive
  <2>3. PICK n : n = Len(writing)
    OBVIOUS
  <2>4. x \in WFrame /\ y \in WFrame
    BY <2>2 DEF WFrame
  <2>5. KeepsBelow(n) /\ Len(writing') = n + 1 /\ writing'[n] = x /\ writing'[n + 1] = y
    <3> HIDE DEF x, y, WFrame
    <3> QED
      BY <2>1, <2>2, <2>3, <2>4, SplitsFrame
  <2>6. n \in Nat \ {0} /\ writing' \in Seq(WFrame)
    BY <2>5 DEF KeepsBelow
  <2>7. WriterTypes'
    BY <2>1, <2>2, <2>6 DEF WriterTypes, WFrame
  <2>8. WrittenTypes'
    <3>1. fdeIdx[t] = 0 /\ \A k \in DOMAIN fdes : fdes[k].from \in onDisk
      BY <2>2 DEF WriterInv, WrittenTypes
    <3> QED
      BY <2>1, <3>1 DEF WriterInv, WrittenTypes, FdeOf
  <2>9. transformer[t] # NULL
    <3>1. Len(writing) \in DOMAIN writing
      BY <2>2, FrameType
    <3> QED
      BY <3>1 DEF WriterInv, WriterFrames, FrameFits, Frame
  <2>10. FrameFits(n)' /\ FrameFits(n + 1)'
    <3>1. n < Len(writing') /\ writing'[n] = x /\ writing'[n + 1] = y
      BY <2>5, <2>6
    <3>2. x.type = t /\ x.at = "const" /\ y.type = Pointed[t] /\ y.at = "enter"
      OBVIOUS
    <3>3. t \in onDisk'
      BY <2>1
    <3>4. FrameFits(n)'
      BY <2>1, <2>9, <3>1, <3>2, <3>3 DEF FrameFits
    <3>5. FrameFits(n + 1)'
      BY <2>1, <3>1, <3>2 DEF FrameFits
    <3> QED
      BY <3>4, <3>5
  <2>11. WriterFrames'
    <3>1. \A k \in n..Len(writing') : k = n \/ k = n + 1
      BY <2>5, <2>6
    <3>2. onDisk \subseteq onDisk' /\ t \in onDisk'
      BY <2>1
    <3> QED
      BY <2>1, <2>5, <2>10, <3>1, <3>2, FramesAlong
  <2>12. MembersInOrder' /\ AllFit' /\ Phases'
    BY <2>1, <2>5, OrdersAlong, FitsAlong DEF Phases, WriterActive
  <2> QED
    BY <2>7, <2>8, <2>11, <2>12 DEF WriterInv
<1> QED
  BY <1>1, <1>2

LEMMA ConstWrittenKeeps ==
  ASSUME WriterInv, ConstWritten
  PROVE  WriterInv'
<1>1. /\ WriterActive /\ Frame.at = "const" /\ writing' = Outer
      /\ fdeIdx' = [fdeIdx EXCEPT ![Frame.type] = fdeIdx[Pointed[Frame.type]]]
      /\ UNCHANGED <<prog, transformer, onDisk, fdes, unsafe, pc>>
  BY DEF ConstWritten, WriterUnchanged
<1>2. PICK t : t = Frame.type
  OBVIOUS
<1>3. PICK n : n = Len(writing)
  OBVIOUS
<1>4. WriterTypes /\ writing # << >> /\ t \in Types /\ n \in DOMAIN writing
  BY <1>1, <1>2, <1>3, FrameType DEF WriterInv, WriterActive
<1>5. t \in onDisk /\ Kind[t] = "const" /\ Pointed[t] \in onDisk
  <2>1. FrameFits(n) /\ writing[n].at = "const" /\ writing[n].type = t
    BY <1>1, <1>2, <1>3, <1>4 DEF WriterInv, WriterFrames, Frame
  <2>2. ~(n < Len(writing))
    BY <1>3, <1>4, FrameType
  <2> QED
    BY <2>1, <2>2 DEF FrameFits
<1>6. Pointed[t] \in Types /\ Kind[Pointed[t]] # "const"
  BY <1>4, <1>5, PointedType, ConstsAssumption DEF ConstsAssumption
<1>7. FdeOf(Pointed[t], Pointed[t])
  BY <1>5, <1>6 DEF WriterInv, WrittenTypes
<1>8. KeepsBelow(n) /\ Len(writing') = n - 1
  BY <1>1, <1>3, <1>4, PopsFrame
<1>9. n \in Nat \ {0} /\ n..Len(writing') = {} /\ writing' \in Seq(WFrame)
  BY <1>8 DEF KeepsBelow
<1>10. /\ fdeIdx \in [Types -> 0..Len(fdes)] /\ fdeIdx' \in [Types -> 0..Len(fdes)]
       /\ fdeIdx'[t] = fdeIdx[Pointed[t]]
       /\ \A u \in Types : u # t => fdeIdx'[u] = fdeIdx[u]
  BY <1>1, <1>2, <1>4, <1>6 DEF WriterTypes
<1>11. WriterTypes'
  BY <1>1, <1>4, <1>9, <1>10 DEF WriterTypes, WFrame
<1>12. WrittenTypes'
  <2>1. /\ \A u \in onDisk :
             IF Kind[u] = "const" THEN fdeIdx[u] = 0 \/ FdeOf(u, Pointed[u]) ELSE FdeOf(u, u)
        /\ \A u \in Types \ onDisk : fdeIdx[u] = 0
        /\ \A k \in DOMAIN fdes :
             LET u == fdes[k].from IN
             u \in onDisk /\ Kind[u] # "const" /\ fdeIdx[u] = k /\ transformer[u] # NULL
        /\ onDisk \subseteq Types
    BY <1>4 DEF WriterInv, WrittenTypes, WriterTypes
  <2>2. \A u \in Types : \A v : u # t /\ FdeOf(u, v) => FdeOf(u, v)'
    BY <1>1, <1>10 DEF FdeOf
  <2>3. FdeOf(t, Pointed[t])'
    BY <1>1, <1>7, <1>10 DEF FdeOf
  <2>4. \A u \in onDisk' :
          IF Kind[u] = "const" THEN fdeIdx'[u] = 0 \/ FdeOf(u, Pointed[u])' ELSE FdeOf(u, u)'
    BY <1>1, <1>5, <1>10, <2>1, <2>2, <2>3
  <2>5. \A u \in Types \ onDisk' : fdeIdx'[u] = 0
    BY <1>1, <1>5, <1>10, <2>1
  <2>6. \A k \in DOMAIN fdes' :
          LET u == fdes'[k].from IN
          u \in onDisk' /\ Kind[u] # "const" /\ fdeIdx'[u] = k /\ transformer'[u] # NULL
    BY <1>1, <1>5, <1>10, <2>1
  <2> QED
    BY <2>4, <2>5, <2>6 DEF WrittenTypes
<1>13. WriterFrames'
  BY <1>1, <1>8, <1>9, FramesAlong
<1>14. MembersInOrder' /\ AllFit' /\ Phases'
  BY <1>1, <1>8, OrdersAlong, FitsAlong DEF Phases, WriterActive
<1> QED
  BY <1>11, <1>12, <1>13, <1>14 DEF WriterInv

FdeRecord == [from : Types, to : Types, instrs : Seq(Instructions)]

LEMMA KeptType ==
  ASSUME DiffTypeOK, NEW t \in Types, transformer[t] # NULL
  PROVE  /\ transformer[t].to \in Types /\ transformer[t].fields \in Seq(FieldTransform)
         /\ Kept(t) \subseteq Nat \ {0}
<1>1. transformer[t] \in Transform
  BY DEF DiffTypeOK
<1>2. transformer[t].to \in Types /\ transformer[t].fields \in Seq(FieldTransform)
  BY <1>1 DEF Transform
<1> HIDE DEF FieldTransform
<1>3. DOMAIN transformer[t].fields \subseteq Nat \ {0}
  BY <1>2
<1> QED
  BY <1>2, <1>3 DEF Kept

LEMMA EnterOtherKeeps ==
  ASSUME DiffInv, WriterInv, WriterActive, Frame.at = "enter", Frame.type \notin onDisk,
         Kind[Frame.type] # "const", EnterOther(Frame.type)
  PROVE  WriterInv'
<1>1. CASE WriterStops("assertion")
  BY <1>1, StopKeeps
<1>2. CASE ~ WriterStops("assertion")
  <2> DEFINE f == [from |-> Frame.type, to |-> transformer[Frame.type].to, instrs |-> << >>]
  <2>1. PICK t, n, L : t = Frame.type /\ n = Len(writing) /\ L = Len(fdes)
    OBVIOUS
  <2>2. /\ onDisk' = onDisk \cup {t} /\ fdes' = Append(fdes, f)
        /\ fdeIdx' = [fdeIdx EXCEPT ![t] = L + 1]
        /\ writing' = Append(Outer, BodyOf(t))
        /\ UNCHANGED <<prog, transformer, unsafe, pc>>
    BY <1>2, <2>1 DEF EnterOther, WriterUnchanged, BodyOf
  <2>3. WriterTypes /\ writing # << >> /\ t \in Types /\ n \in DOMAIN writing
    BY <2>1, FrameType DEF WriterInv, WriterActive
  <2>4. transformer[t] # NULL
    BY <2>1, <2>3 DEF WriterInv, WriterFrames, FrameFits, Frame
  <2>5. transformer[t].to \in Types /\ Kept(t) \subseteq Nat \ {0}
    BY <2>3, <2>4, KeptType DEF DiffInv, Core
  <2>6. f \in FdeRecord /\ f.from = t /\ f.instrs = << >>
    <3>1. << >> \in Seq(Instructions)
      BY EmptySeq
    <3> QED
      BY <2>1, <2>3, <2>5, <3>1 DEF FdeRecord
  <2>7. fdes \in Seq(FdeRecord) /\ fdeIdx \in [Types -> 0..L]
    BY <2>1, <2>3 DEF WriterTypes, FdeRecord
  <2>8. /\ L \in Nat /\ DOMAIN fdes = 1..L /\ fdes' \in Seq(FdeRecord) /\ Len(fdes') = L + 1
        /\ DOMAIN fdes' = 1..(L + 1)
        /\ fdes'[L + 1] = f /\ \A k \in 1..L : fdes'[k] = fdes[k]
    <3> HIDE DEF f, FdeRecord
    <3> QED
      BY <2>1, <2>2, <2>6, <2>7
  <2> HIDE DEF f
  <2>9. /\ fdeIdx' \in [Types -> 0..(L + 1)] /\ fdeIdx'[t] = L + 1
        /\ \A u \in Types : u # t => fdeIdx'[u] = fdeIdx[u]
    BY <2>2, <2>3, <2>7, <2>8
  <2>10. KeepsBelow(n) /\ Len(writing') = n /\ writing'[n] = BodyOf(t)
    <3>1. BodyOf(t) \in WFrame
      BY <2>3 DEF BodyOf, WFrame
    <3> QED
      BY <2>1, <2>2, <2>3, <3>1, ReplacesFrame
  <2>11. n \in Nat \ {0} /\ writing' \in Seq(WFrame) /\ n \in DOMAIN writing'
    BY <2>10 DEF KeepsBelow
  <2>12. WriterTypes'
    BY <2>2, <2>3, <2>8, <2>9, <2>11 DEF WriterTypes, WFrame, FdeRecord
  <2>13. \A k \in DOMAIN fdes : fdes[k].from \in onDisk /\ fdes[k].from # t
    BY <2>1 DEF WriterInv, WrittenTypes
  <2>14. WrittenTypes'
    <3>1. /\ \A u \in onDisk :
               IF Kind[u] = "const" THEN fdeIdx[u] = 0 \/ FdeOf(u, Pointed[u]) ELSE FdeOf(u, u)
          /\ \A u \in Types \ onDisk : fdeIdx[u] = 0
          /\ \A k \in DOMAIN fdes :
               LET u == fdes[k].from IN
               u \in onDisk /\ Kind[u] # "const" /\ fdeIdx[u] = k /\ transformer[u] # NULL
          /\ onDisk \subseteq Types /\ t \notin onDisk
      BY <2>1, <2>3 DEF WriterInv, WrittenTypes, WriterTypes
    <3>2. \A u \in Types : \A v : u # t /\ FdeOf(u, v) => FdeOf(u, v)'
      BY <2>8, <2>9 DEF FdeOf
    <3>3. FdeOf(t, t)'
      BY <2>6, <2>8, <2>9 DEF FdeOf
    <3>4. \A u \in onDisk' :
            IF Kind[u] = "const" THEN fdeIdx'[u] = 0 \/ FdeOf(u, Pointed[u])' ELSE FdeOf(u, u)'
      BY <2>1, <2>2, <2>9, <3>1, <3>2, <3>3
    <3>5. \A u \in Types \ onDisk' : fdeIdx'[u] = 0
      BY <2>2, <2>9, <3>1
    <3>6. ASSUME NEW k \in DOMAIN fdes', NEW u, u = fdes'[k].from
          PROVE  u \in onDisk' /\ Kind[u] # "const" /\ fdeIdx'[u] = k /\ transformer'[u] # NULL
      <4>1. CASE k = L + 1
        BY <2>1, <2>2, <2>4, <2>6, <2>8, <2>9, <3>6, <4>1
      <4>2. CASE k # L + 1
        BY <2>2, <2>8, <2>9, <2>13, <3>1, <3>6, <4>2
      <4> QED
        BY <4>1, <4>2
    <3> QED
      BY <3>4, <3>5, <3>6 DEF WrittenTypes
  <2>15. WriterFrames'
    <3>1. BodyOf(t).type = t /\ BodyOf(t).at = "body" /\ t \in onDisk'
      BY <2>2 DEF BodyOf
    <3>2. FrameFits(n)'
      BY <2>1, <2>2, <2>4, <2>10, <3>1 DEF FrameFits
    <3>3. \A k \in n..Len(writing') : k = n
      BY <2>10, <2>11
    <3>4. onDisk \subseteq onDisk'
      BY <2>2
    <3> QED
      BY <2>1, <2>2, <2>10, <3>1, <3>2, <3>3, <3>4, FramesAlong
  <2>16. MembersInOrder'
    <3> SUFFICES ASSUME NEW k \in DOMAIN fdes', Kind[fdes'[k].from] = "struct"
                 PROVE  InOrder(fdes[k].from, fdes[k].instrs)'
      BY DEF MembersInOrder
    <3>1. PICK u, instrs : u = fdes'[k].from /\ instrs = fdes'[k].instrs
      OBVIOUS
    <3>2. InOrder(u, instrs)'
      <4>1. CASE k = L + 1
        <5>1. u = t /\ instrs = << >> /\ DOMAIN << >> = {}
          BY <2>6, <2>8, <3>1, <4>1
        <5>2. Kept(t)' = Kept(t)
          BY <2>2 DEF Kept
        <5>3. \A m \in Kept(t) : ~(m <= 0)
          BY <2>5
        <5>4. { instrs[i].member : i \in DOMAIN instrs } = {} /\ LastMember(instrs) = 0
          BY <5>1 DEF LastMember
        <5>5. BodyOf(t)' = BodyOf(t) /\ LastMember(instrs)' = LastMember(instrs)
          BY DEF BodyOf, LastMember
        <5> QED
          BY <2>10, <2>11, <5>1, <5>2, <5>3, <5>4, <5>5 DEF InOrder
      <4>2. CASE k # L + 1
        <5>1. k \in DOMAIN fdes /\ fdes'[k] = fdes[k]
          BY <2>8, <4>2
        <5>2. InOrder(u, instrs)
          BY <3>1, <5>1 DEF WriterInv, MembersInOrder
        <5>3. Frame # BodyOf(u)
          BY DEF BodyOf
        <5> QED
          BY <2>2, <2>3, <2>10, <5>2, <5>3, OrderKept
      <4> QED
        BY <4>1, <4>2
    <3> QED
      BY <3>1, <3>2 DEF InOrder, Kept, LastMember, BodyOf
  <2>17. AllFit'
    <3> SUFFICES ASSUME NEW k \in DOMAIN fdes', NEW i \in DOMAIN fdes'[k].instrs
                 PROVE  Fits(fdes[k].from, fdes[k].instrs[i])'
      BY DEF AllFit
    <3>1. k # L + 1
      BY <2>6, <2>8
    <3>2. k \in DOMAIN fdes /\ fdes'[k] = fdes[k]
      BY <2>8, <3>1
    <3>3. PICK u, instr : u = fdes'[k].from /\ instr = fdes'[k].instrs[i]
      OBVIOUS
    <3>4. Fits(u, instr)
      BY <3>2, <3>3 DEF WriterInv, AllFit
    <3>5. FromsKept
      BY <2>8 DEF FromsKept
    <3>6. Fits(u, instr)'
      BY <2>2, <3>4, <3>5, FitsKept
    <3> QED
      BY <3>3, <3>6 DEF Fits, Lead, FdeType
  <2>18. Phases'
    BY <2>2 DEF Phases, WriterActive
  <2> QED
    BY <2>12, <2>14, <2>15, <2>16, <2>17, <2>18 DEF WriterInv
<1> QED
  BY <1>1, <1>2

LEMMA EnterKeeps ==
  ASSUME DiffInv, WriterInv, Enter
  PROVE  WriterInv'
<1>1. WriterActive /\ Frame.at = "enter"
  BY DEF Enter
<1>2. CASE WriterStops("undefined")
  BY <1>2, StopKeeps
<1>3. CASE /\ Frame.type \in onDisk /\ writing' = Outer
           /\ UNCHANGED <<varTrans, onDisk, fdeIdx, fdes, dies, pc>> /\ WriterUnchanged
  BY <1>1, <1>3, LeaveKeeps DEF WriterUnchanged
<1>4. CASE Frame.type \notin onDisk /\ Kind[Frame.type] = "const" /\ EnterConst(Frame.type)
  BY <1>1, <1>4, EnterConstKeeps
<1>5. CASE Frame.type \notin onDisk /\ Kind[Frame.type] # "const" /\ EnterOther(Frame.type)
  BY <1>1, <1>5, EnterOtherKeeps
<1> QED
  BY <1>2, <1>3, <1>4, <1>5 DEF Enter

-----------------------------------------------------------------------------
(* Instructions.                                                           *)

LEMMA BodyKnown ==
  ASSUME WriterInv, WriterActive, Frame.at = "body", NEW t, t = Frame.type
  PROVE  /\ WriterTypes /\ writing # << >> /\ t \in Types /\ t \in onDisk /\ Kind[t] # "const"
         /\ transformer[t] # NULL /\ Frame = BodyOf(t)
         /\ fdeIdx[t] \in DOMAIN fdes /\ fdes[fdeIdx[t]].from = t
         /\ \A k \in DOMAIN fdes : k # fdeIdx[t] => fdes[k].from # t
<1>1. WriterTypes /\ writing # << >> /\ t \in Types /\ Len(writing) \in DOMAIN writing /\ Frame = BodyOf(t)
  BY FrameType DEF WriterInv, WriterActive, BodyOf
<1>2. t \in onDisk /\ Kind[t] # "const" /\ transformer[t] # NULL
  BY <1>1 DEF WriterInv, WriterFrames, FrameFits, Frame
<1>3. FdeOf(t, t) /\ \A k \in DOMAIN fdes : fdeIdx[fdes[k].from] = k
  BY <1>2 DEF WriterInv, WrittenTypes
<1> QED
  BY <1>1, <1>2, <1>3 DEF FdeOf

LEMMA EmitEffect ==
  ASSUME WriterInv, WriterActive, Frame.at = "body", NEW instr \in Instructions, Emit(instr),
         NEW t, t = Frame.type, NEW i, i = fdeIdx[t]
  PROVE  /\ fdes' \in Seq(FdeRecord) /\ Len(fdes') = Len(fdes) /\ DOMAIN fdes' = DOMAIN fdes
         /\ fdes[i].instrs \in Seq(Instructions)
         /\ fdes'[i].from = t /\ fdes'[i].instrs = Append(fdes[i].instrs, instr)
         /\ \A k \in DOMAIN fdes : k # i => fdes'[k] = fdes[k]
         /\ FromsKept
<1>1. i \in DOMAIN fdes /\ fdes[i].from = t /\ WriterTypes
  BY BodyKnown
<1>2. fdes \in Seq(FdeRecord)
  BY <1>1 DEF WriterTypes, FdeRecord
<1>3. fdes[i] \in FdeRecord
  <2> HIDE DEF FdeRecord
  <2> QED
    BY <1>1, <1>2, ElementOfSeq
<1> DEFINE f == [from |-> fdes[i].from, to |-> fdes[i].to, instrs |-> Append(fdes[i].instrs, instr)]
<1>4. fdes[i].instrs \in Seq(Instructions) /\ fdes[i].from \in Types /\ fdes[i].to \in Types
  BY <1>3 DEF FdeRecord
<1>5. Append(fdes[i].instrs, instr) \in Seq(Instructions)
  <2> HIDE DEF Instructions
  <2> QED
    BY <1>4
<1>6. f \in FdeRecord /\ f.from = t /\ f.instrs = Append(fdes[i].instrs, instr)
  BY <1>1, <1>4, <1>5 DEF FdeRecord
<1>7. fdes' = [fdes EXCEPT ![i] = f]
  BY DEF Emit
<1> HIDE DEF f
<1>8. fdes' \in Seq(FdeRecord) /\ Len(fdes') = Len(fdes)
  <2> HIDE DEF FdeRecord
  <2> QED
    BY <1>1, <1>2, <1>6, <1>7, ExceptSeq
<1>9. DOMAIN fdes' = DOMAIN fdes /\ fdes'[i] = f /\ \A k \in DOMAIN fdes : k # i => fdes'[k] = fdes[k]
  BY <1>1, <1>7
<1>10. FromsKept
  BY <1>1, <1>6, <1>9 DEF FromsKept
<1> QED
  BY <1>4, <1>6, <1>8, <1>9, <1>10

LEMMA MembersAppended ==
  ASSUME NEW s \in Seq(Instructions), NEW instr \in Instructions
  PROVE  /\ { Append(s, instr)[i].member : i \in DOMAIN Append(s, instr) }
              = { s[i].member : i \in DOMAIN s } \cup {instr.member}
         /\ LastMember(Append(s, instr)) = instr.member /\ LastMember(s) \in Nat /\ instr.member \in Nat
         /\ \A i \in DOMAIN Append(s, instr) : i \in DOMAIN s \/ Append(s, instr)[i] = instr
         /\ \A i \in DOMAIN s : Append(s, instr)[i] = s[i]
<1>1. instr.member \in Nat /\ \A x \in Instructions : x.member \in Nat
  BY DEF Instructions
<1> DEFINE s2 == Append(s, instr)
<1> HIDE DEF Instructions
<1>2. PICK n : n \in Nat /\ n = Len(s)
  OBVIOUS
<1>3. /\ DOMAIN s = 1..n /\ DOMAIN s2 = 1..(n + 1) /\ Len(s2) = n + 1 /\ s2[n + 1] = instr
      /\ \A i \in 1..n : s2[i] = s[i]
  BY <1>2
<1>4. s2 # << >>
  <2> HIDE DEF s2
  <2> QED
    BY <1>2, <1>3
<1>5. LastMember(s2) = instr.member
  BY <1>3, <1>4 DEF LastMember
<1>6. LastMember(s) \in Nat
  BY <1>1 DEF LastMember
<1>7. \A i \in 1..(n + 1) : i \in 1..n \/ i = n + 1
  BY <1>2
<1>8. n + 1 \in 1..(n + 1) /\ \A i \in 1..n : i \in 1..(n + 1)
  BY <1>2
<1> HIDE DEF s2
<1>9. { s2[i].member : i \in DOMAIN s2 } = { s[i].member : i \in DOMAIN s } \cup {instr.member}
  BY <1>3, <1>7, <1>8
<1> QED
  BY <1>1, <1>3, <1>5, <1>6, <1>7, <1>9 DEF s2

LEMMA EmitFits ==
  ASSUME WriterInv, WriterActive, Frame.at = "body", NEW instr \in Instructions, Emit(instr),
         prog' = prog, Fits(Frame.type, instr)
  PROVE  AllFit'
<1>1. PICK t, i : t = Frame.type /\ i = fdeIdx[t]
  OBVIOUS
<1>2. /\ DOMAIN fdes' = DOMAIN fdes
      /\ fdes[i].instrs \in Seq(Instructions)
      /\ fdes'[i].from = t /\ fdes'[i].instrs = Append(fdes[i].instrs, instr)
      /\ \A k \in DOMAIN fdes : k # i => fdes'[k] = fdes[k]
      /\ FromsKept
  BY <1>1, EmitEffect, SMTT(30)
<1>3. i \in DOMAIN fdes /\ fdes[i].from = t
  BY <1>1, BodyKnown
<1> SUFFICES ASSUME NEW k \in DOMAIN fdes', NEW j \in DOMAIN fdes'[k].instrs
             PROVE  Fits(fdes[k].from, fdes[k].instrs[j])'
  BY DEF AllFit
<1>4. PICK u, x : u = fdes'[k].from /\ x = fdes'[k].instrs[j]
  OBVIOUS
<1>5. Fits(u, x)
  <2>1. CASE k = i
    <3>1. PICK s : s = fdes[i].instrs
      OBVIOUS
    <3>2. s \in Seq(Instructions) /\ fdes'[k].instrs = Append(s, instr)
      BY <1>2, <2>1, <3>1
    <3>3. j \in DOMAIN Append(s, instr) /\ x = Append(s, instr)[j]
      BY <1>4, <3>2
    <3>4. /\ j \in DOMAIN s \/ x = instr
          /\ j \in DOMAIN s => x = s[j]
      BY <3>2, <3>3, MembersAppended
    <3>5. CASE x = instr
      BY <1>1, <1>2, <1>4, <2>1, <3>5
    <3>6. CASE j \in DOMAIN s /\ x = s[j]
      BY <1>2, <1>3, <1>4, <2>1, <3>1, <3>6 DEF WriterInv, AllFit
    <3> QED
      BY <3>4, <3>5, <3>6
  <2>2. CASE k # i
    BY <1>2, <1>4, <2>2 DEF WriterInv, AllFit
  <2> QED
    BY <2>1, <2>2
<1>6. Fits(u, x)'
  BY <1>2, <1>5, FitsKept
<1> QED
  BY <1>4, <1>6 DEF Fits, Lead, FdeType

(* The instruction is for the next member.                                 *)
IsNext(t, instrs, m) ==
  /\ m \in Kept(t) /\ LastMember(instrs) < m
  /\ \A o \in Kept(t) : LastMember(instrs) < o => m <= o

LEMMA EmitInOrder ==
  ASSUME WriterInv, DiffInv, WriterActive, Frame.at = "body", NEW instr \in Instructions, Emit(instr),
         transformer' = transformer, NEW n, KeepsBelow(n),
         Kind[Frame.type] = "struct" =>
           /\ n \in DOMAIN writing' /\ writing'[n] = Frame
           /\ IsNext(Frame.type, fdes[fdeIdx[Frame.type]].instrs, instr.member)
  PROVE  MembersInOrder'
<1>1. PICK t, i : t = Frame.type /\ i = fdeIdx[t]
  OBVIOUS
<1>2. /\ DOMAIN fdes' = DOMAIN fdes
      /\ fdes[i].instrs \in Seq(Instructions)
      /\ fdes'[i].from = t /\ fdes'[i].instrs = Append(fdes[i].instrs, instr)
      /\ \A k \in DOMAIN fdes : k # i => fdes'[k] = fdes[k]
  BY <1>1, EmitEffect
<1>3. /\ i \in DOMAIN fdes /\ fdes[i].from = t /\ Frame = BodyOf(t) /\ WriterTypes
      /\ t \in Types /\ transformer[t] # NULL
      /\ \A k \in DOMAIN fdes : k # i => fdes[k].from # t
  BY <1>1, BodyKnown
<1> SUFFICES ASSUME NEW k \in DOMAIN fdes', Kind[fdes'[k].from] = "struct"
             PROVE  InOrder(fdes[k].from, fdes[k].instrs)'
  BY DEF MembersInOrder
<1>4. PICK u, instrs : u = fdes'[k].from /\ instrs = fdes'[k].instrs
  OBVIOUS
<1>5. InOrder(u, instrs)'
  <2>1. CASE k = i
    <3>1. PICK s : s = fdes[i].instrs
      OBVIOUS
    <3>2. PICK last, m : last = LastMember(s) /\ m = instr.member
      OBVIOUS
    <3>3. u = t /\ instrs = Append(s, instr) /\ s \in Seq(Instructions) /\ Kind[t] = "struct"
      BY <1>2, <1>4, <2>1, <3>1
    <3>4. /\ { instrs[l].member : l \in DOMAIN instrs } = { s[l].member : l \in DOMAIN s } \cup {m}
          /\ LastMember(instrs) = m /\ last \in Nat /\ m \in Nat
      BY <3>2, <3>3, MembersAppended
    <3>5. { s[l].member : l \in DOMAIN s } = { o \in Kept(t) : o <= last }
      BY <1>3, <3>1, <3>2, <3>3 DEF WriterInv, MembersInOrder, InOrder
    <3>6. m \in Kept(t) /\ last < m /\ \A o \in Kept(t) : last < o => m <= o
      BY <1>1, <3>1, <3>2, <3>3 DEF IsNext
    <3>7. Kept(t) \subseteq Nat
      BY <1>3, KeptType DEF DiffInv, Core
    <3>8. { o \in Kept(t) : o <= last } \cup {m} = { o \in Kept(t) : o <= m }
      BY <3>4, <3>6, <3>7
    <3>9. Kept(t)' = Kept(t) /\ BodyOf(t)' = BodyOf(t) /\ LastMember(instrs)' = LastMember(instrs)
      BY DEF Kept, BodyOf, LastMember
    <3>10. n \in DOMAIN writing' /\ writing'[n] = BodyOf(t)
      BY <1>1, <1>3, <3>3
    <3> QED
      BY <3>3, <3>4, <3>5, <3>8, <3>9, <3>10 DEF InOrder
  <2>2. CASE k # i
    <3>1. u # t /\ InOrder(u, instrs)
      BY <1>2, <1>3, <1>4, <2>2 DEF WriterInv, MembersInOrder
    <3>2. Frame # BodyOf(u)
      BY <1>3, <3>1 DEF BodyOf
    <3> QED
      BY <1>3, <3>1, <3>2, OrderKept
  <2> QED
    BY <2>1, <2>2
<1> QED
  BY <1>4, <1>5 DEF InOrder, Kept, LastMember, BodyOf

LEMMA EmitKeeps ==
  ASSUME WriterInv, DiffInv, WriterActive, Frame.at = "body", NEW instr \in Instructions, Emit(instr),
         UNCHANGED <<prog, transformer, onDisk, fdeIdx, unsafe, pc>>,
         Fits(Frame.type, instr),
         \/ writing' = Outer /\ Kind[Frame.type] # "struct"
         \/ /\ writing' = writing
            /\ Kind[Frame.type] = "struct" =>
                 IsNext(Frame.type, fdes[fdeIdx[Frame.type]].instrs, instr.member)
  PROVE  WriterInv'
<1>1. PICK t, n : t = Frame.type /\ n = Len(writing)
  OBVIOUS
<1>2. WriterTypes /\ writing # << >>
  BY <1>1, BodyKnown
<1>3. /\ KeepsBelow(n)
      /\ writing' = writing => n \in DOMAIN writing' /\ writing'[n] = Frame
  <2>1. CASE writing' = Outer
    <3>1. KeepsBelow(n) /\ Len(writing') = n - 1
      BY <1>1, <1>2, <2>1, PopsFrame
    <3>2. n \in Nat /\ n = Len(writing)
      BY <1>1, <3>1 DEF KeepsBelow
    <3>3. writing' # writing
      BY <3>1, <3>2
    <3> QED
      BY <3>1, <3>3
  <2>2. CASE writing' = writing
    <3>1. /\ writing \in Seq(WFrame) /\ n \in Nat \ {0} /\ DOMAIN writing = 1..n
      BY <1>1, <1>2, FrameType
    <3>2. n \in DOMAIN writing /\ n >= n - 1
      BY <3>1
    <3> QED
      BY <1>1, <1>2, <2>2, <3>1, <3>2 DEF KeepsBelow, Frame
  <2> QED
    BY <2>1, <2>2
<1>4. /\ fdes' \in Seq(FdeRecord) /\ Len(fdes') = Len(fdes) /\ DOMAIN fdes' = DOMAIN fdes /\ FromsKept
  BY EmitEffect
<1>5. WriterTypes'
  <2>1. writing' \in Seq(WFrame)
    BY <1>3 DEF KeepsBelow
  <2> QED
    BY <1>2, <1>4, <2>1 DEF WriterTypes, WFrame, FdeRecord
<1>6. WrittenTypes'
  BY <1>4, WrittenAlong
<1>7. WriterFrames'
  <2>1. CASE writing' = writing
    BY <2>1 DEF WriterInv, WriterFrames, FrameFits
  <2>2. CASE writing' = Outer
    <3>1. Len(writing') = n - 1 /\ n \in Nat
      BY <1>1, <1>2, <1>3, <2>2, PopsFrame DEF KeepsBelow
    <3>2. n..Len(writing') = {}
      BY <3>1
    <3> QED
      BY <1>3, <3>2, FramesAlong
  <2> QED
    BY <2>1, <2>2
<1>8. MembersInOrder'
  BY <1>3, EmitInOrder
<1>9. AllFit' /\ Phases'
  BY EmitFits DEF Phases, WriterActive
<1> QED
  BY <1>5, <1>6, <1>7, <1>8, <1>9 DEF WriterInv

LEMMA PushKeeps ==
  ASSUME WriterInv, WriterActive, Frame.at = "body", NEW target \in Types, transformer[target] # NULL,
         writing' = Append(writing, [type |-> target, at |-> "enter"]),
         UNCHANGED <<prog, transformer, onDisk, fdeIdx, fdes, unsafe, pc>>
  PROVE  WriterInv'
<1>1. PICK n, x : n = Len(writing) /\ x = [type |-> target, at |-> "enter"]
  OBVIOUS
<1>2. WriterTypes /\ writing # << >>
  BY BodyKnown
<1>3. x \in WFrame /\ x.at = "enter" /\ x.type = target
  BY <1>1 DEF WFrame
<1>4. KeepsBelow(n) /\ Len(writing') = n + 1 /\ writing'[n] = Frame /\ writing'[n + 1] = x
  <2> HIDE DEF WFrame
  <2> QED
    BY <1>1, <1>2, <1>3, PushesFrame
<1>5. n \in Nat \ {0} /\ writing' \in Seq(WFrame) /\ DOMAIN writing' = 1..Len(writing')
  BY <1>4 DEF KeepsBelow
<1>6. WriterTypes'
  BY <1>2, <1>5 DEF WriterTypes, WFrame
<1>7. WrittenTypes'
  <2>1. FromsKept
    BY DEF FromsKept
  <2> QED
    BY <2>1, WrittenAlong
<1>8. WriterFrames'
  <2>1. FrameFits(n)'
    <3>1. n \in DOMAIN writing
      BY <1>1, <1>2, FrameType
    <3>2. FrameFits(n) /\ writing[n] = Frame
      BY <1>1, <3>1 DEF WriterInv, WriterFrames, Frame
    <3> QED
      BY <1>4, <3>2 DEF FrameFits
  <2>2. FrameFits(n + 1)'
    BY <1>3, <1>4 DEF FrameFits
  <2>3. \A k \in n..Len(writing') : k = n \/ k = n + 1
    BY <1>4, <1>5
  <2> QED
    BY <1>4, <2>1, <2>2, <2>3, FramesAlong
<1>9. MembersInOrder'
  <2>1. n \in DOMAIN writing'
    BY <1>4, <1>5
  <2> QED
    BY <1>4, <2>1, OrdersAlong
<1>10. AllFit' /\ Phases'
  BY FitsAlong DEF Phases, WriterActive
<1> QED
  BY <1>6, <1>7, <1>8, <1>9, <1>10 DEF WriterInv

(* A fixup: the transform of its target is written first if need be.       *)
LEMMA FixUpKeeps ==
  ASSUME WriterInv, DiffInv, WriterActive, Frame.at = "body",
         NEW op, op # "register", NEW target \in Types, NEW place, NEW last \in BOOLEAN,
         FixUp(op, target, place, last),
         \A fde \in Nat : Instr(op, place, fde) \in Instructions,
         \A fde : Lead(Frame.type, Instr(op, place, fde)) = target,
         last <=> Kind[Frame.type] # "struct",
         Kind[Frame.type] = "struct" =>
           IsNext(Frame.type, fdes[fdeIdx[Frame.type]].instrs, place.member)
  PROVE  WriterInv'
<1>1. CASE WriterStops("assertion")
  BY <1>1, StopKeeps
<1>2. CASE /\ transformer[target] # NULL
           /\ writing' = Append(writing, [type |-> target, at |-> "enter"])
           /\ UNCHANGED <<varTrans, onDisk, fdeIdx, fdes, dies, pc>> /\ WriterUnchanged
  BY <1>2, PushKeeps DEF WriterUnchanged
<1>3. CASE /\ target \in onDisk
           /\ Emit(Instr(op, place, fdeIdx[target]))
           /\ writing' = IF last THEN Outer ELSE writing
           /\ UNCHANGED <<varTrans, onDisk, fdeIdx, dies, pc>> /\ WriterUnchanged
  <2>1. PICK instr : instr = Instr(op, place, fdeIdx[target])
    OBVIOUS
  <2>2. fdeIdx[target] \in Nat
    <3>1. fdes \in Seq(FdeRecord) /\ fdeIdx \in [Types -> 0..Len(fdes)]
      BY DEF WriterInv, WriterTypes, FdeRecord
    <3>2. Len(fdes) \in Nat
      <4> HIDE DEF FdeRecord
      <4> QED
        BY <3>1
    <3> QED
      BY <3>1, <3>2
  <2>3. instr \in Instructions /\ Lead(Frame.type, instr) = target
    BY <2>1, <2>2
  <2>4. instr.fde = fdeIdx[target] /\ instr.member = place.member
    BY <2>1 DEF Instr
  <2>5. Fits(Frame.type, instr)
    <3>1. IF Kind[target] = "const" THEN fdeIdx[target] = 0 \/ FdeOf(target, Pointed[target])
          ELSE FdeOf(target, target)
      BY <1>3 DEF WriterInv, WrittenTypes
    <3> QED
      BY <2>3, <2>4, <3>1 DEF Fits, FdeType, FdeOf
  <2>6. UNCHANGED <<prog, transformer, onDisk, fdeIdx, unsafe, pc>> /\ Emit(instr)
    BY <1>3, <2>1 DEF WriterUnchanged
  <2> QED
    BY <1>3, <2>3, <2>4, <2>5, <2>6, EmitKeeps
<1> QED
  BY <1>1, <1>2, <1>3 DEF FixUp

LEMMA SizeType ==
  ASSUME DiffTypeOK, NEW t \in Types
  PROVE  Length(prog.old)[t] \in Sizes /\ Size[t] \in Sizes
<1> DEFINE L(p, u) == Length(p.old)[u]
<1>1. Sizes = { L(p, u) : p \in Programs, u \in Types } \cup { Size[u] : u \in Types }
  BY DEF Sizes
<1>2. prog \in Programs
  BY DEF DiffTypeOK
<1>3. L(prog, t) \in Sizes /\ Size[t] \in Sizes
  <2> HIDE DEF L
  <2> QED
    BY <1>1, <1>2
<1> QED
  BY <1>3

LEMMA StraightCopyKeeps ==
  ASSUME DiffInv, WriterInv, StraightCopy
  PROVE  WriterInv'
<1>1. PICK t : t = Frame.type
  OBVIOUS
<1>2. WriterActive /\ Frame.at = "body" /\ transformer[t].straightCopy
  BY <1>1 DEF StraightCopy
<1>3. t \in Types /\ transformer[t] # NULL
  BY <1>1, <1>2, BodyKnown
<1>4. Kind[t] # "struct"
  BY <1>2, <1>3 DEF DiffInv, Core, Verdicts
<1>5. CASE WriterStops("assertion")
  BY <1>5, StopKeeps
<1>6. CASE ~ WriterStops("assertion")
  <2> DEFINE place == [from |-> 0, to |-> 0, size |-> Length(prog.old)[t], member |-> 0]
  <2>1. PICK instr : instr = Instr("register", place, 0)
    OBVIOUS
  <2>2. /\ Emit(instr) /\ writing' = Outer
        /\ UNCHANGED <<prog, transformer, onDisk, fdeIdx, unsafe, pc>>
    BY <1>1, <1>6, <2>1 DEF StraightCopy, WriterUnchanged
  <2>3. instr \in Instructions /\ instr.op = "register"
    BY <1>3, <2>1, SizeType DEF DiffInv, Core, Instr, Instructions
  <2>4. Fits(Frame.type, instr)
    BY <2>3 DEF Fits
  <2> QED
    BY <1>1, <1>2, <1>4, <2>2, <2>3, <2>4, EmitKeeps
<1> QED
  BY <1>5, <1>6

LEMMA WritePointerKeeps ==
  ASSUME DiffInv, WriterInv, WritePointer
  PROVE  WriterInv'
<1> DEFINE t == Frame.type
           place == [from |-> 0, to |-> 0, size |-> Size[Frame.type], member |-> 0]
<1>1. /\ WriterActive /\ Frame.at = "body" /\ Kind[t] = "pointer"
      /\ FixUp("fixups_pointer", Pointed[t], place, TRUE)
  BY DEF WritePointer
<1>2. t \in Types
  BY <1>1, BodyKnown
<1>3. Pointed[t] \in Types
  BY <1>1, <1>2, PointedType
<1>4. \A fde \in Nat : Instr("fixups_pointer", place, fde) \in Instructions
  BY <1>2, SizeType DEF DiffInv, Core, Instr, Instructions
<1>5. \A fde : Lead(t, Instr("fixups_pointer", place, fde)) = Pointed[t]
  BY <1>1 DEF Lead
<1>6. Kind[t] # "struct"
  BY <1>1
<1> HIDE DEF place
<1> QED
  BY <1>1, <1>3, <1>4, <1>5, <1>6, FixUpKeeps

LEMMA NextIsNext ==
  ASSUME DiffInv, NEW t \in Types, transformer[t] # NULL,
         NEW instrs, instrs = fdes[fdeIdx[t]].instrs, LastMember(instrs) \in Nat
  PROVE  /\ NextMember(t) # NULL => IsNext(t, instrs, NextMember(t))
         /\ NextMember(t) = NULL => \A m \in Kept(t) : m <= LastMember(instrs)
<1>1. PICK last \in Nat : last = LastMember(instrs)
  OBVIOUS
<1>2. Kept(t) \subseteq Nat
  BY KeptType DEF DiffInv, Core
<1> DEFINE rest == { k \in Kept(t) : k > last }
<1>3. NextMember(t) = IF rest = {} THEN NULL ELSE CHOOSE k \in rest : \A j \in rest : k <= j
  BY <1>1 DEF NextMember
<1>4. CASE rest = {}
  BY <1>1, <1>2, <1>3, <1>4
<1>5. CASE rest # {}
  <2>1. rest \in SUBSET Nat
    BY <1>2
  <2> HIDE DEF rest
  <2>2. \E k \in rest : \A j \in rest : k <= j
    BY <1>5, <2>1, LeastNatural
  <2>3. NextMember(t) \in rest /\ \A j \in rest : NextMember(t) <= j
    BY <1>3, <1>5, <2>2
  <2>4. NextMember(t) # NULL
    BY <2>1, <2>3, NullAssumption DEF NullAssumption
  <2> QED
    BY <1>1, <1>2, <2>3, <2>4 DEF IsNext, rest
<1> QED
  BY <1>4, <1>5

LEMMA WriteMemberKeeps ==
  ASSUME DiffInv, WriterInv, WriteMember
  PROVE  WriterInv'
<1>1. PICK t, k, m, to, place :
        /\ t = Frame.type /\ k = NextMember(t) /\ m = prog.old.fields[t][k]
        /\ to = transformer[t].fields[k]
        /\ place = [from |-> Offset(prog.old, t, k), to |-> to.offset,
                    size |-> Length(prog.old)[m.type], member |-> k]
  OBVIOUS
<1>2. /\ WriterActive /\ Frame.at = "body" /\ Kind[t] = "struct"
      /\ \/ /\ k = NULL
            /\ writing' = Outer
            /\ UNCHANGED <<varTrans, onDisk, fdeIdx, fdes, dies, pc>> /\ WriterUnchanged
         \/ /\ k # NULL /\ to.how = "copy"
            /\ Emit(Instr("register", place, 0))
            /\ UNCHANGED <<varTrans, writing, onDisk, fdeIdx, dies, pc>> /\ WriterUnchanged
         \/ /\ k # NULL /\ to.how # "copy"
            /\ IF Kind[m.type] = "pointer"
               THEN FixUp("fixups_pointer", Pointed[m.type], place, FALSE)
               ELSE FixUp("fixups", m.type, place, FALSE)
  BY <1>1 DEF WriteMember
<1>3. PICK i, instrs : i = fdeIdx[t] /\ instrs = fdes[i].instrs
  OBVIOUS
<1>4. /\ t \in Types /\ transformer[t] # NULL /\ i \in DOMAIN fdes /\ fdes[i].from = t
      /\ \A l \in DOMAIN fdes : l # i => fdes[l].from # t
      /\ WriterTypes
  BY <1>1, <1>2, <1>3, BodyKnown
<1>5. instrs \in Seq(Instructions)
  <2>1. fdes \in Seq(FdeRecord)
    BY <1>4 DEF WriterTypes, FdeRecord
  <2>2. fdes[i] \in FdeRecord
    <3> HIDE DEF FdeRecord
    <3> QED
      BY <1>4, <2>1, ElementOfSeq
  <2> QED
    BY <1>3, <2>2 DEF FdeRecord
<1>6. LastMember(instrs) \in Nat
  <2>1. \A x \in Instructions : x.member \in Nat
    BY DEF Instructions
  <2> HIDE DEF Instructions
  <2>2. instrs # << >> => instrs[Len(instrs)] \in Instructions
    BY <1>5
  <2> QED
    BY <2>1, <2>2 DEF LastMember
<1>7. /\ k # NULL => IsNext(t, instrs, k)
      /\ k = NULL => \A o \in Kept(t) : o <= LastMember(instrs)
  BY <1>1, <1>3, <1>4, <1>6, NextIsNext
<1>8. CASE k = NULL
  <2>1. /\ writing' = Outer
        /\ UNCHANGED <<prog, transformer, onDisk, fdeIdx, fdes, unsafe, pc>>
    BY <1>2, <1>8 DEF WriterUnchanged
  <2>2. \A l \in DOMAIN fdes : Kind[fdes[l].from] = "struct" /\ fdes[l].from = Frame.type =>
          \A o \in Kept(Frame.type) : o <= LastMember(fdes[l].instrs)
    BY <1>1, <1>3, <1>4, <1>7, <1>8
  <2> QED
    BY <1>2, <2>1, <2>2, LeaveKeeps
<1>9. CASE k # NULL
  <2>1. k \in DOMAIN transformer[t].fields /\ IsNext(t, instrs, k)
    BY <1>7, <1>9 DEF IsNext, Kept
  <2>2. t \in Compound
    BY <1>2, <1>4 DEF Compound
  <2>3. k \in DOMAIN prog.old.fields[t] /\ m.type \in Types
    BY <1>1, <1>4, <2>1, <2>2, FieldMember DEF DiffInv, Core
  <2>4. /\ Offset(prog.old, t, k) \in Offsets /\ to.offset \in Offsets \cup {NULL}
        /\ Length(prog.old)[m.type] \in Sizes /\ k \in Nat
    <3>1. prog \in Programs /\ transformer[t].fields \in Seq(FieldTransform)
      BY <1>4, KeptType DEF DiffInv, Core, DiffTypeOK
    <3>2. Offset(prog["old"], t, k) \in Offsets
      BY <2>2, <2>3, <3>1, OffsetType
    <3>3. to \in FieldTransform /\ k \in Nat
      <4> HIDE DEF FieldTransform
      <4> QED
        BY <1>1, <2>1, <3>1
    <3> QED
      BY <2>3, <3>2, <3>3, SizeType DEF DiffInv, Core, FieldTransform
  <2>5. \A op \in {"register", "fixups", "fixups_pointer"}, fde \in Nat : Instr(op, place, fde) \in Instructions
    BY <1>1, <2>4 DEF Instr, Instructions
  <2>6. place.member = k
    BY <1>1
  <2>7. CASE to.how = "copy"
    <3>1. PICK instr : instr = Instr("register", place, 0)
      OBVIOUS
    <3>2. /\ Emit(instr) /\ writing' = writing
          /\ UNCHANGED <<prog, transformer, onDisk, fdeIdx, unsafe, pc>>
      BY <1>2, <1>9, <2>7, <3>1 DEF WriterUnchanged
    <3>3. instr \in Instructions /\ instr.op = "register" /\ instr.member = k
      BY <2>5, <2>6, <3>1 DEF Instr
    <3>4. Fits(Frame.type, instr)
      BY <3>3 DEF Fits
    <3>5. IsNext(Frame.type, fdes[fdeIdx[Frame.type]].instrs, instr.member)
      BY <1>1, <1>3, <2>1, <3>3
    <3> QED
      BY <1>2, <3>2, <3>3, <3>4, <3>5, EmitKeeps
  <2>8. CASE to.how # "copy"
    <3>1. IsNext(Frame.type, fdes[fdeIdx[Frame.type]].instrs, place.member) /\ Kind[Frame.type] = "struct"
      BY <1>1, <1>2, <1>3, <2>1, <2>6
    <3>2. \A fde : /\ Lead(Frame.type, Instr("fixups_pointer", place, fde)) = Pointed[m.type]
                   /\ Lead(Frame.type, Instr("fixups", place, fde)) = m.type
      BY <1>1, <1>2, <2>6 DEF Lead, Instr
    <3>3. CASE Kind[m.type] = "pointer"
      <4>1. FixUp("fixups_pointer", Pointed[m.type], place, FALSE)
        BY <1>2, <1>9, <2>8, <3>3
      <4>2. Pointed[m.type] \in Types
        BY <2>3, <3>3, PointedType
      <4> QED
        BY <1>2, <2>5, <3>1, <3>2, <4>1, <4>2, FixUpKeeps
    <3>4. CASE Kind[m.type] # "pointer"
      <4>1. FixUp("fixups", m.type, place, FALSE)
        BY <1>2, <1>9, <2>8, <3>4
      <4> QED
        BY <1>2, <2>3, <2>5, <3>1, <3>2, <4>1, FixUpKeeps
    <3> QED
      BY <3>3, <3>4
  <2> QED
    BY <2>7, <2>8
<1> QED
  BY <1>8, <1>9

-----------------------------------------------------------------------------
(* The inductive invariant of the writer.                                  *)

LEMMA ComparePc ==
  ASSUME Compare
  PROVE  pc = "diff" /\ pc' \in {"diff", "dead", "assertion", "undefined"}
<1>1. CASE OtherKind \/ Compared \/ Begin
  BY <1>1 DEF OtherKind, Compared, Begin, Active, Stop
<1>2. CASE PointedCompared \/ EndLoop \/ MemberGone \/ MemberOtherKind
  BY <1>2 DEF PointedCompared, EndLoop, MemberGone, MemberOtherKind, InLoop, Active, Stop
<1>3. CASE PlainMember \/ ArrayMember \/ PointerMember \/ CompoundMember
  BY <1>3 DEF PlainMember, ArrayMember, PointerMember, CompoundMember, SameKind, InLoop, Active,
              Checked, Stop
<1>4. CASE PointedMemberCompared \/ MemberCompared
  BY <1>4 DEF PointedMemberCompared, MemberCompared, Active, Checked, GiveUp, Stop
<1> QED
  BY <1>1, <1>2, <1>3, <1>4 DEF Compare

LEMMA WriterInit ==
  ASSUME Init
  PROVE  WriterInv
<1>1. /\ fdes = << >> /\ writing = << >> /\ onDisk = {} /\ unsafe = {} /\ pc = "diff"
      /\ fdeIdx = [t \in Types |-> 0]
  BY DEF Init
<1>2. DOMAIN fdes = {} /\ DOMAIN writing = {} /\ Len(fdes) = 0
  BY <1>1
<1>3. WriterTypes
  BY <1>1, <1>2, EmptySeq DEF WriterTypes
<1> QED
  BY <1>1, <1>2, <1>3 DEF WriterInv, WrittenTypes, WriterFrames, MembersInOrder, AllFit, Phases

LEMMA WriterStep ==
  ASSUME DiffInv, WriterInv, [Next]_vars
  PROVE  WriterInv'
<1>1. CASE NextVariable
  BY <1>1, EarlyKeeps DEF NextVariable
<1>2. CASE CompareTypes
  <2>1. UNCHANGED <<writing, onDisk, fdeIdx, fdes, unsafe>>
    BY <1>2 DEF CompareTypes, genVars
  <2>2. pc = "diff" /\ pc' \in {"diff", "dead", "assertion", "undefined"}
    BY <1>2, ComparePc DEF CompareTypes
  <2> QED
    BY <2>1, <2>2, EarlyKeeps DEF Ends
<1>3. CASE VariableCompared
  <2>1. UNCHANGED <<writing, onDisk, fdeIdx, fdes, unsafe>>
    BY <1>3 DEF VariableCompared
  <2>2. pc = "diff" /\ pc' \in {"diff", "dead"}
    BY <1>3 DEF VariableCompared
  <2> QED
    BY <2>1, <2>2, EarlyKeeps DEF Ends
<1>4. CASE WriteUnsafety
  BY <1>4, EarlyKeeps DEF WriteUnsafety, Ends
<1>5. CASE WriteNewVars
  BY <1>5, EarlyKeeps DEF WriteNewVars, WriterUnchanged
<1>6. CASE WriteFunctions
  <2>1. UNCHANGED <<prog, transformer, writing, onDisk, fdeIdx, fdes>> /\ pc' = "done" /\ writing = << >>
    BY <1>6 DEF WriteFunctions, WriterInv, Phases
  <2>2. unsafe' \subseteq Funcs
    BY <1>6, FuncsAssumption DEF WriteFunctions, FuncsAssumption
  <2> QED
    BY <2>1, <2>2, EndKeeps DEF Ends
<1>7. CASE EndWrite
  <2>1. UNCHANGED <<prog, transformer, writing, onDisk, fdeIdx, fdes>> /\ pc' = "functions" /\ writing = << >>
    BY <1>7 DEF EndWrite, WriterUnchanged
  <2>2. unsafe' \subseteq Funcs
    BY <1>7 DEF EndWrite, WriterUnchanged, WriterInv, WriterTypes
  <2> QED
    BY <2>1, <2>2, EndKeeps DEF Ends
<1>8. CASE CannotWrite
  BY <1>8, StopKeeps DEF CannotWrite
<1>9. CASE UNCHANGED vars
  <2>1. UNCHANGED <<prog, transformer, writing, onDisk, fdeIdx, fdes, unsafe, pc>>
    BY <1>9 DEF vars, diffVars
  <2>2. WriterTypes' /\ Phases'
    BY <2>1 DEF WriterInv, WriterTypes, Phases
  <2> QED
    BY <2>1, <2>2, WriterStays DEF WriterInv
<1> QED
  BY <1>1, <1>2, <1>3, <1>4, <1>5, <1>6, <1>7, <1>8, <1>9, WriteVariableKeeps, EnterKeeps,
     ConstWrittenKeeps, StraightCopyKeeps, WritePointerKeeps, WriteMemberKeeps DEF Next

LEMMA WriterAlways ==
  Spec => []IInv
<1>1. Init => IInv
  BY FrontInit, WriterInit DEF IInv
<1>2. IInv /\ [Next]_vars => IInv'
  BY FrontStep, WriterStep DEF IInv
<1> QED
  BY <1>1, <1>2, PTL DEF Spec

(* Every variable of the comparison and of the writer keeps its type: the  *)
(* index a transform has is that of an FDE there is, and instructions move *)
(* members from and to places a version has (write_to_dwarf.c).            *)
THEOREM TypeCorrect ==
  Spec => []TypeOK
<1>1. IInv => TypeOK
  BY DEF IInv, DiffInv, Core, VarTypes, WriterInv, WriterTypes, TypeOK
<1> QED
  BY <1>1, WriterAlways, PTL

(* Every fixup applies the FDE for the type of its member or of what the   *)
(* member points to, and in a finished patch every member that is not      *)
(* deleted has an instruction, whatever types refer to each other in       *)
(* cycles (writeTransformationToDwarf, write_to_dwarf.c).                  *)
THEOREM FixupsFit ==
  Spec => []FdesFit
<1>1. ASSUME IInv
      PROVE  FdesFit
  <2> SUFFICES ASSUME NEW k \in DOMAIN fdes
               PROVE  /\ \A i \in DOMAIN fdes[k].instrs : Fits(fdes[k].from, fdes[k].instrs[i])
                      /\ pc = "done" /\ Kind[fdes[k].from] = "struct" =>
                           { fdes[k].instrs[i].member : i \in DOMAIN fdes[k].instrs } = Kept(fdes[k].from)
    BY DEF FdesFit, Lead, Fits
  <2>0. PICK t, instrs : t = fdes[k].from /\ instrs = fdes[k].instrs
    OBVIOUS
  <2>1. \A i \in DOMAIN instrs : Fits(t, instrs[i])
    BY <1>1, <2>0 DEF IInv, WriterInv, AllFit
  <2>2. ASSUME pc = "done", Kind[t] = "struct"
        PROVE  { instrs[i].member : i \in DOMAIN instrs } = Kept(t)
    <3>1. InOrder(t, instrs) /\ writing = << >>
      BY <1>1, <2>0, <2>2 DEF IInv, WriterInv, MembersInOrder, Phases
    <3>2. DOMAIN writing = {}
      BY <3>1
    <3>3. /\ { instrs[i].member : i \in DOMAIN instrs } = { m \in Kept(t) : m <= LastMember(instrs) }
          /\ \A m \in Kept(t) : m <= LastMember(instrs)
      BY <3>1, <3>2 DEF InOrder
    <3> QED
      BY <3>3
  <2> QED
    BY <2>0, <2>1, <2>2
<1> QED
  BY <1>1, WriterAlways, PTL

=============================================================================
