-------------------------- MODULE PatchApply_proofs --------------------------
(***************************************************************************)
(* Proofs about PatchApply, for any number of units, functions, variables  *)
(* and relocations: type correctness, that the first bytes of functions    *)
(* are kept, that there is one version of each variable, and that the      *)
(* symbols of a self-contained patch are found.                            *)
(***************************************************************************)
EXTENDS PatchApply, TLAPS


(* x has been applied.                                                     *)
Applied(x) ==
  /\ Patched(x)
  /\ prog.unit[x] < unit \/ (prog.unit[x] = unit /\ x \notin left)

Initially(x) == IF x \in Library THEN "undefined"
                ELSE IF x \in Existing THEN "old" ELSE NULL

Typed ==
  /\ prog \in Programs
  /\ TypeOK

(* How far katana has got: variables come first within a unit, and units   *)
(* are over when the new text is dealt with.                               *)
Progress ==
  /\ left \subseteq InUnit(unit)
  /\ left \cap Vars # {} => InUnit(unit) \cap Funcs \subseteq left
  /\ pc = "units" => unit <= Units
  /\ pc \in {"fixups", "relocate", "done"} => unit = Units + 1
  /\ pc \in {"relocate", "done"} => index = prog.newSites
  /\ pc = "done" => \A s \in prog.newSites : newText[s] # "raw"

(* Symbols follow what has been applied, and operands follow symbols.      *)
SymbolsFollow ==
  \A x \in Names : sym[x] = IF x \notin Library /\ Applied(x) THEN "new" ELSE Initially(x)

OperandsFollow ==
  \A s \in prog.sites :
     entry[s.in] = "code" => operand[s] = IF Applied(s.of) THEN "new" ELSE "old"

NewTextFollows ==
  /\ \A s \in index : sym[s.of] # NULL
  /\ \A s \in prog.newSites : newText[s] # "raw" =>
       /\ pc \in {"relocate", "done", "dead"}
       /\ newText[s] = IF sym[s.of] = "undefined" THEN "plt" ELSE sym[s.of]

(* A function of the target begins with the jump once it has been applied, *)
(* and with its own code if it has not.                                    *)
EntriesFollow ==
  LongEnough /\ ~RefersForward =>
    \A f \in Funcs \cap Existing : entry[f] = IF Applied(f) THEN "jump" ELSE "code"

(* A function whose first bytes are its code has no jump: needed to know   *)
(* which operands can still be executed.                                   *)
CodeNotApplied ==
  \A f \in Funcs : entry[f] = "code" => f \in Existing /\ ~Applied(f)

DeadForSymbol ==
  pc = "dead" /\ unit = Units + 1 => \E s \in prog.newSites : sym[s.of] = NULL

IInv ==
  /\ Typed /\ Progress /\ SymbolsFollow /\ OperandsFollow /\ NewTextFollows
  /\ EntriesFollow /\ CodeNotApplied /\ DeadForSymbol

-----------------------------------------------------------------------------
LEMMA ConstantTypes ==
  /\ Units \in Nat \ {0}
  /\ Funcs \cap Vars = {} /\ Library \cap (Funcs \cup Vars) = {}
  /\ NULL \notin Funcs /\ NULL \notin Nat
  /\ NULL \notin {"code", "jump", "spoilt", "old", "new", "undefined"}
BY ProgramsAssumption DEF ProgramsAssumption

(* What the assumption says of the target and the patch in prog.           *)
LEMMA ProgramTypes ==
  ASSUME Typed
  PROVE  /\ prog.names \subseteq Funcs \cup Vars
         /\ prog.sites \subseteq Site
         /\ \A s \in prog.sites : s.in \in Funcs /\ s.of \in Vars /\ s.in \in prog.names /\ s.of \in prog.names
         /\ \A f \in Funcs : prog.reaches[f] \in Funcs \cup {NULL} /\ prog.reaches[f] # f
         /\ \A x \in Funcs \cup Vars : prog.unit[x] \in (1..Units) \cup {NULL}
         /\ \A s \in prog.newSites : s.of \in Names /\ s.in \in Funcs
BY ProgramsAssumption DEF ProgramsAssumption, Typed, Site, NewSite, Names

(* Applying x of the current unit adds just x to what has been applied.    *)
LEMMA OneApplied ==
  ASSUME Typed, Progress, NEW x \in left,
         left' = left \ {x}, UNCHANGED <<prog, unit>>
  PROVE  /\ Applied(x)' /\ ~Applied(x) /\ Patched(x)
         /\ \A y \in Funcs \cup Vars : y # x => (Applied(y)' <=> Applied(y))
<1>1. x \in Funcs \cup Vars /\ prog.unit[x] = unit /\ unit \in Nat
  BY DEF Typed, TypeOK, Progress, InUnit
<1>2. NULL \notin Nat
  BY ProgramsAssumption DEF ProgramsAssumption
<1>. QED
  BY <1>1, <1>2 DEF Applied, Patched

(* Between units nothing is applied.                                       *)
LEMMA NoneApplied ==
  ASSUME Typed, Progress, NextUnit
  PROVE  \A y \in Funcs \cup Vars : Applied(y)' <=> Applied(y)
<1>. SUFFICES ASSUME NEW y \in Funcs \cup Vars
              PROVE  Applied(y)' <=> Applied(y)
  OBVIOUS
<1>1. prog.unit[y] \in (1..Units) \cup {NULL} /\ unit \in 1..(Units + 1)
  BY ProgramTypes DEF Typed, TypeOK
<1>2. left = {} /\ left' = InUnit(unit + 1) /\ unit' = unit + 1 /\ prog' = prog
  BY DEF NextUnit
<1>3. CASE prog.unit[y] = NULL
  BY <1>2, <1>3 DEF Applied, Patched
<1>4. CASE prog.unit[y] # NULL
  <2>1. prog.unit[y] \in 1..Units
    BY <1>1, <1>4
  <2>2. Applied(y) <=> prog.unit[y] <= unit
    BY <1>1, <1>2, <1>4, <2>1 DEF Applied, Patched
  <2>3. Applied(y)' <=> prog.unit[y] < unit + 1
    BY <1>1, <1>2, <1>4, <2>1 DEF Applied, Patched, InUnit
  <2>. QED
    BY <1>1, <2>1, <2>2, <2>3
<1>. QED
  BY <1>3, <1>4

LEMMA InitIInv == Init => IInv
<1>. SUFFICES ASSUME Init
              PROVE  IInv
  OBVIOUS
<1>. USE ConstantTypes
<1>1. Typed
  <2>1. prog \in Programs /\ unit \in 1..(Units + 1) /\ left \subseteq Funcs \cup Vars
    BY DEF Init, InUnit
  <2>2. sym \in [Names -> {"old", "new", "undefined", NULL}]
    BY DEF Init
  <2>. QED
    BY <2>1, <2>2 DEF Init, Typed, TypeOK
<1>2. Progress
  BY DEF Init, Progress, InUnit
<1>3. \A x \in Funcs \cup Vars : ~Applied(x)
  BY <1>1, ProgramTypes DEF Init, Applied, Patched, InUnit
<1>4. SymbolsFollow
  BY <1>3 DEF Init, SymbolsFollow, Initially, Names
<1>5. OperandsFollow
  BY <1>1, <1>3, ProgramTypes DEF Init, OperandsFollow
<1>6. NewTextFollows
  BY DEF Init, NewTextFollows
<1>7. EntriesFollow /\ CodeNotApplied
  BY <1>3 DEF Init, EntriesFollow, CodeNotApplied
<1>8. DeadForSymbol
  BY DEF Init, DeadForSymbol
<1>. QED
  BY <1>1, <1>2, <1>4, <1>5, <1>6, <1>7, <1>8 DEF IInv

-----------------------------------------------------------------------------
(* Steps that apply a variable or a function.                              *)

LEMMA VariableStep == IInv /\ ApplyVariablePatch => IInv'
<1>. SUFFICES ASSUME IInv, ApplyVariablePatch
              PROVE  IInv'
  OBVIOUS
<1>. USE ConstantTypes
<1>1. PICK v \in left \cap Vars :
        /\ left' = left \ {v}
        /\ IF v \in Existing THEN RelocateVar(v)
           ELSE sym' = [sym EXCEPT ![v] = "new"] /\ UNCHANGED <<entry, operand>>
  BY DEF ApplyVariablePatch
<1>2. pc = "units" /\ UNCHANGED <<prog, unit, index, newText, pc>>
  BY DEF ApplyVariablePatch
<1>3. sym' = [sym EXCEPT ![v] = "new"]
  BY <1>1 DEF RelocateVar
<1>4. Typed /\ Progress /\ prog.unit[v] = unit
  BY DEF IInv, Progress, InUnit
<1>5. /\ Applied(v)' /\ ~Applied(v) /\ Patched(v)
      /\ \A y \in Funcs \cup Vars : y # v => (Applied(y)' <=> Applied(y))
  BY <1>1, <1>2, <1>4, OneApplied
<1>6. \A f \in Funcs : entry'[f] = "code" => entry[f] = "code"
  BY <1>1 DEF RelocateVar
<1>7. Typed'
  <2>1. sym' \in [Names -> {"old", "new", "undefined", NULL}]
    BY <1>3, <1>4 DEF Typed, TypeOK
  <2>2. operand' \in [prog.sites -> {"old", "new", "jump"}]
    BY <1>1, <1>4 DEF RelocateVar, Typed, TypeOK
  <2>3. entry' \in [Funcs -> {"code", "jump", "spoilt", NULL}]
    BY <1>1, <1>4 DEF RelocateVar, Typed, TypeOK
  <2>. QED
    BY <1>1, <1>2, <1>4, <2>1, <2>2, <2>3 DEF Typed, TypeOK
<1>8. Progress'
  BY <1>1, <1>2, <1>4 DEF Progress, InUnit
<1>9. SymbolsFollow'
  <2>. SUFFICES ASSUME NEW x \in Names
                PROVE  sym'[x] = IF x \notin Library /\ Applied(x)' THEN "new" ELSE Initially(x)
    BY <1>2 DEF SymbolsFollow, Initially, Existing
  <2>1. sym[x] = IF x \notin Library /\ Applied(x) THEN "new" ELSE Initially(x)
    BY DEF IInv, SymbolsFollow
  <2>. QED
    BY <1>3, <1>4, <1>5, <2>1 DEF Typed, TypeOK, Names
<1>10. OperandsFollow'
  <2>. SUFFICES ASSUME NEW s \in prog.sites, entry'[s.in] = "code"
                PROVE  operand'[s] = IF Applied(s.of)' THEN "new" ELSE "old"
    BY <1>2 DEF OperandsFollow
  <2>1. s.in \in Funcs /\ s.of \in Vars /\ s.of \in Existing
    BY <1>4, ProgramTypes DEF Existing
  <2>2. operand[s] = IF Applied(s.of) THEN "new" ELSE "old"
    BY <1>6, <2>1 DEF IInv, OperandsFollow
  <2>3. CASE s.of = v
    BY <1>1, <1>5, <2>1, <2>3 DEF RelocateVar
  <2>4. CASE s.of # v
    <3>1. operand'[s] = operand[s]
      BY <1>1, <2>4 DEF RelocateVar
    <3>. QED
      BY <1>5, <2>1, <2>2, <2>4, <3>1
  <2>. QED
    BY <2>3, <2>4
<1>11. NewTextFollows'
  <2>1. \A s \in prog.newSites : s.of \in Names
    BY <1>4, ProgramTypes
  <2>2. \A s \in prog.newSites : newText[s] = "raw"
    BY <1>2 DEF IInv, NewTextFollows
  <2>3. \A s \in index : s.of \in Names /\ sym[s.of] # NULL
    BY <1>4, <2>1 DEF IInv, NewTextFollows, Typed, TypeOK
  <2>4. \A s \in index : sym'[s.of] # NULL
    BY <1>3, <1>4, <2>3 DEF Typed, TypeOK
  <2>. QED
    BY <1>2, <2>2, <2>4 DEF NewTextFollows
<1>12. EntriesFollow'
  <2>. SUFFICES ASSUME LongEnough, ~RefersForward, NEW f \in Funcs \cap Existing
                PROVE  entry'[f] = IF Applied(f)' THEN "jump" ELSE "code"
    BY <1>2 DEF EntriesFollow, LongEnough, RefersForward, Patched, Existing
  <2>1. entry[f] = IF Applied(f) THEN "jump" ELSE "code"
    BY DEF IInv, EntriesFollow
  <2>2. entry'[f] = entry[f]
    <3>. SUFFICES ASSUME entry[f] = "jump",
                         NEW s \in prog.sites, s.of = v, s.in = f, s.atEntry
                  PROVE  FALSE
      BY <1>1 DEF RelocateVar
    <3>0. Applied(f)
      BY <2>1
    <3>1. prog.unit[f] # unit
      <4>1. f \in InUnit(unit) => f \in left
        BY <1>1, <1>4 DEF Progress
      <4>2. unit \in Nat
        BY <1>4 DEF Typed, TypeOK
      <4>. QED
        BY <3>0, <4>1, <4>2 DEF InUnit, Applied
    <3>2. Patched(f) /\ prog.unit[f] < prog.unit[v]
      BY <1>4, <3>0, <3>1 DEF Applied
    <3>. QED
      BY <1>5, <3>2 DEF RefersForward
  <2>. QED
    BY <1>5, <2>1, <2>2
<1>13. CodeNotApplied'
  BY <1>2, <1>5, <1>6 DEF IInv, CodeNotApplied, Existing
<1>14. DeadForSymbol'
  BY <1>2 DEF DeadForSymbol
<1>. QED
  BY <1>7, <1>8, <1>9, <1>10, <1>11, <1>12, <1>13, <1>14 DEF IInv

LEMMA DieStep == IInv /\ Die => IInv'
<1>. SUFFICES ASSUME IInv, Die
              PROVE  IInv'
  OBVIOUS
<1>1. Typed'
  BY DEF IInv, Die, Typed, TypeOK
<1>2. Progress'
  BY DEF IInv, Die, Progress, InUnit
<1>3. SymbolsFollow' /\ OperandsFollow'
  BY DEF IInv, Die, SymbolsFollow, OperandsFollow, Applied, Patched, Initially, Existing
<1>4. NewTextFollows'
  BY DEF IInv, Die, NewTextFollows
<1>5. EntriesFollow' /\ CodeNotApplied'
  BY DEF IInv, Die, EntriesFollow, CodeNotApplied, LongEnough, RefersForward,
         Applied, Patched, Existing
<1>6. DeadForSymbol'
  BY ConstantTypes DEF IInv, Die, DeadForSymbol, Progress, Typed, TypeOK
<1>. QED
  BY <1>1, <1>2, <1>3, <1>4, <1>5, <1>6 DEF IInv

LEMMA FunctionStep == IInv /\ ApplyFunctionPatch => IInv'
<1>. SUFFICES ASSUME IInv, ApplyFunctionPatch
              PROVE  IInv'
  OBVIOUS
<1>. USE ConstantTypes
<1>1. PICK f \in left \cap Funcs :
        /\ left' = left \ {f}
        /\ sym' = [sym EXCEPT ![f] = "new"]
        /\ IF f \in Existing THEN InsertTrampolineJump(f) ELSE UNCHANGED <<entry, operand>>
  BY DEF ApplyFunctionPatch
<1>2. pc = "units" /\ left \cap Vars = {} /\ UNCHANGED <<prog, unit, index, newText, pc>>
  BY DEF ApplyFunctionPatch
<1>4. Typed /\ Progress
  BY DEF IInv
<1>5. /\ Applied(f)' /\ ~Applied(f) /\ Patched(f)
      /\ \A y \in Funcs \cup Vars : y # f => (Applied(y)' <=> Applied(y))
  BY <1>1, <1>2, <1>4, OneApplied
<1>6. \A x \in Funcs : entry'[x] = "code" =>
         /\ entry[x] = "code"
         /\ f \in Existing => x # f /\ x # prog.reaches[f]
  BY <1>1 DEF InsertTrampolineJump
<1>7. Typed'
  <2>1. sym' \in [Names -> {"old", "new", "undefined", NULL}]
    BY <1>1, <1>4 DEF Typed, TypeOK
  <2>2. operand' \in [prog.sites -> {"old", "new", "jump"}]
    BY <1>1, <1>4 DEF InsertTrampolineJump, Typed, TypeOK
  <2>3. entry' \in [Funcs -> {"code", "jump", "spoilt", NULL}]
    BY <1>1, <1>4 DEF InsertTrampolineJump, Typed, TypeOK
  <2>. QED
    BY <1>1, <1>2, <1>4, <2>1, <2>2, <2>3 DEF Typed, TypeOK
<1>8. Progress'
  BY <1>1, <1>2, <1>4 DEF Progress, InUnit
<1>9. SymbolsFollow'
  <2>. SUFFICES ASSUME NEW x \in Names
                PROVE  sym'[x] = IF x \notin Library /\ Applied(x)' THEN "new" ELSE Initially(x)
    BY <1>2 DEF SymbolsFollow, Initially, Existing
  <2>1. sym[x] = IF x \notin Library /\ Applied(x) THEN "new" ELSE Initially(x)
    BY DEF IInv, SymbolsFollow
  <2>. QED
    BY <1>1, <1>4, <1>5, <2>1 DEF Typed, TypeOK, Names
<1>10. OperandsFollow'
  <2>. SUFFICES ASSUME NEW s \in prog.sites, entry'[s.in] = "code"
                PROVE  operand'[s] = IF Applied(s.of)' THEN "new" ELSE "old"
    BY <1>2 DEF OperandsFollow
  <2>1. s.in \in Funcs /\ s.of \in Vars /\ s.in \in Existing
    BY <1>4, ProgramTypes DEF Existing
  <2>2. operand[s] = IF Applied(s.of) THEN "new" ELSE "old"
    BY <1>6, <2>1 DEF IInv, OperandsFollow
  <2>3. operand'[s] = operand[s]
    BY <1>1, <1>6, <2>1 DEF InsertTrampolineJump
  <2>. QED
    BY <1>1, <1>5, <2>1, <2>2, <2>3
<1>11. NewTextFollows'
  <2>1. \A s \in prog.newSites : s.of \in Names
    BY <1>4, ProgramTypes
  <2>2. \A s \in prog.newSites : newText[s] = "raw"
    BY <1>2 DEF IInv, NewTextFollows
  <2>3. \A s \in index : s.of \in Names /\ sym[s.of] # NULL
    BY <1>4, <2>1 DEF IInv, NewTextFollows, Typed, TypeOK
  <2>4. \A s \in index : sym'[s.of] # NULL
    BY <1>1, <1>4, <2>3 DEF Typed, TypeOK
  <2>. QED
    BY <1>2, <2>2, <2>4 DEF NewTextFollows
<1>12. EntriesFollow'
  <2>. SUFFICES ASSUME LongEnough, ~RefersForward, NEW g \in Funcs \cap Existing
                PROVE  entry'[g] = IF Applied(g)' THEN "jump" ELSE "code"
    BY <1>2 DEF EntriesFollow, LongEnough, RefersForward, Patched, Existing
  <2>1. entry[g] = IF Applied(g) THEN "jump" ELSE "code"
    BY DEF IInv, EntriesFollow
  <2>2. prog.reaches[f] = NULL
    BY <1>1, <1>5 DEF LongEnough
  <2>3. entry'[g] = IF g = f THEN "jump" ELSE entry[g]
    BY <1>1, <2>2 DEF InsertTrampolineJump
  <2>. QED
    BY <1>5, <2>1, <2>3
<1>13. CodeNotApplied'
  <2>. SUFFICES ASSUME NEW g \in Funcs, entry'[g] = "code"
                PROVE  g \in Existing /\ ~Applied(g)'
    BY <1>2 DEF CodeNotApplied, Existing
  <2>1. g \in Existing /\ ~Applied(g)
    BY <1>6 DEF IInv, CodeNotApplied
  <2>. QED
    BY <1>5, <1>6, <2>1
<1>14. DeadForSymbol'
  BY <1>2 DEF DeadForSymbol
<1>. QED
  BY <1>7, <1>8, <1>9, <1>10, <1>11, <1>12, <1>13, <1>14 DEF IInv

LEMMA UnitStep == IInv /\ NextUnit => IInv'
<1>. SUFFICES ASSUME IInv, NextUnit
              PROVE  IInv'
  OBVIOUS
<1>. USE ConstantTypes
<1>1. Typed /\ Progress
  BY DEF IInv
<1>2. /\ pc = "units" /\ unit' = unit + 1 /\ left' = InUnit(unit + 1)
      /\ pc' = IF unit = Units THEN "fixups" ELSE "units"
      /\ UNCHANGED <<prog, sym, entry, operand, index, newText>>
  BY DEF NextUnit
<1>3. \A y \in Funcs \cup Vars : Applied(y)' <=> Applied(y)
  BY <1>1, NoneApplied
<1>4. unit \in 1..Units
  BY <1>1, <1>2 DEF Typed, TypeOK, Progress
<1>5. Typed'
  <2>1. unit' \in 1..(Units + 1)
    BY <1>2, <1>4
  <2>. QED
    BY <1>1, <1>2, <2>1 DEF Typed, TypeOK, InUnit
<1>6. Progress'
  BY <1>1, <1>2, <1>4 DEF Progress, InUnit
<1>7. SymbolsFollow'
  BY <1>2, <1>3 DEF IInv, SymbolsFollow, Names, Initially, Existing
<1>8. OperandsFollow'
  BY <1>1, <1>2, <1>3, ProgramTypes DEF IInv, OperandsFollow
<1>9. NewTextFollows'
  BY <1>2 DEF IInv, NewTextFollows
<1>10. EntriesFollow' /\ CodeNotApplied'
  BY <1>2, <1>3 DEF IInv, EntriesFollow, CodeNotApplied, LongEnough, RefersForward,
                    Patched, Existing
<1>11. DeadForSymbol'
  BY <1>2 DEF DeadForSymbol
<1>. QED
  BY <1>5, <1>6, <1>7, <1>8, <1>9, <1>10, <1>11 DEF IInv

-----------------------------------------------------------------------------
(* Steps that relocate the new text: nothing is applied any more.          *)

LEMMA NothingApplied ==
  ASSUME UNCHANGED <<prog, unit, left, sym, entry, operand>>, IInv
  PROVE  SymbolsFollow' /\ OperandsFollow' /\ EntriesFollow' /\ CodeNotApplied'
BY DEF IInv, SymbolsFollow, OperandsFollow, EntriesFollow, CodeNotApplied, Applied,
       Initially, LongEnough, RefersForward, Patched, Existing

LEMMA FixupStep == IInv /\ FixupPatchRelocation => IInv'
<1>. SUFFICES ASSUME IInv, FixupPatchRelocation
              PROVE  IInv'
  OBVIOUS
<1>1. PICK s \in prog.newSites \ index :
        IF sym[s.of] = NULL THEN pc' = "dead" /\ UNCHANGED index
        ELSE index' = index \cup {s} /\ UNCHANGED pc
  BY DEF FixupPatchRelocation
<1>2. pc = "fixups" /\ UNCHANGED <<prog, unit, left, sym, entry, operand, newText>>
  BY DEF FixupPatchRelocation
<1>3. Typed'
  BY <1>1, <1>2 DEF IInv, Typed, TypeOK
<1>4. Progress'
  BY <1>1, <1>2 DEF IInv, Progress, InUnit
<1>5. NewTextFollows'
  BY <1>1, <1>2 DEF IInv, NewTextFollows
<1>6. DeadForSymbol'
  BY <1>1, <1>2 DEF IInv, DeadForSymbol
<1>. QED
  BY <1>2, <1>3, <1>4, <1>5, <1>6, NothingApplied DEF IInv

LEMMA EndFixupsStep == IInv /\ EndFixups => IInv'
<1>. SUFFICES ASSUME IInv, EndFixups
              PROVE  IInv'
  OBVIOUS
<1>1. /\ pc = "fixups" /\ index = prog.newSites /\ pc' = "relocate"
      /\ UNCHANGED <<prog, unit, left, sym, entry, operand, index, newText>>
  BY DEF EndFixups
<1>2. Typed'
  BY <1>1 DEF IInv, Typed, TypeOK
<1>3. Progress'
  BY <1>1 DEF IInv, Progress, InUnit
<1>4. NewTextFollows' /\ DeadForSymbol'
  BY <1>1 DEF IInv, NewTextFollows, DeadForSymbol
<1>. QED
  BY <1>1, <1>2, <1>3, <1>4, NothingApplied DEF IInv

LEMMA RelocateStep == IInv /\ RelocateNewText => IInv'
<1>. SUFFICES ASSUME IInv, RelocateNewText
              PROVE  IInv'
  OBVIOUS
<1>1. PICK s \in prog.newSites :
        /\ newText[s] = "raw"
        /\ newText' = [newText EXCEPT ![s] =
                         IF sym[s.of] = "undefined" THEN "plt" ELSE sym[s.of]]
  BY DEF RelocateNewText
<1>2. pc = "relocate" /\ UNCHANGED <<prog, unit, left, sym, entry, operand, index, pc>>
  BY DEF RelocateNewText
<1>3. sym[s.of] \in {"old", "new", "undefined"}
  <2>1. s.of \in Names
    BY ProgramTypes DEF IInv
  <2>2. s \in index
    BY <1>2 DEF IInv, Progress
  <2>. QED
    BY <2>1, <2>2 DEF IInv, NewTextFollows, Typed, TypeOK
<1>4. Typed'
  <2>1. newText' \in [prog.newSites -> {"raw", "old", "new", "plt"}]
    BY <1>1, <1>3 DEF IInv, Typed, TypeOK
  <2>. QED
    BY <1>2, <2>1 DEF IInv, Typed, TypeOK
<1>5. Progress'
  BY <1>2 DEF IInv, Progress, InUnit
<1>6. NewTextFollows'
  BY <1>1, <1>2 DEF IInv, NewTextFollows, Typed, TypeOK
<1>7. DeadForSymbol'
  BY <1>2 DEF IInv, DeadForSymbol
<1>. QED
  BY <1>2, <1>4, <1>5, <1>6, <1>7, NothingApplied DEF IInv

LEMMA EndStep == IInv /\ EndPtrace => IInv'
<1>. SUFFICES ASSUME IInv, EndPtrace
              PROVE  IInv'
  OBVIOUS
<1>1. /\ pc = "relocate" /\ pc' = "done"
      /\ \A s \in prog.newSites : newText[s] # "raw"
      /\ UNCHANGED <<prog, unit, left, sym, entry, operand, index, newText>>
  BY DEF EndPtrace
<1>2. Typed'
  BY <1>1 DEF IInv, Typed, TypeOK
<1>3. Progress'
  BY <1>1 DEF IInv, Progress, InUnit
<1>4. NewTextFollows' /\ DeadForSymbol'
  BY <1>1 DEF IInv, NewTextFollows, DeadForSymbol
<1>. QED
  BY <1>1, <1>2, <1>3, <1>4, NothingApplied DEF IInv

-----------------------------------------------------------------------------
(* Every reachable state satisfies the invariant.                          *)
LEMMA Invariance == Spec => []IInv
<1>1. IInv /\ [Next]_vars => IInv'
  <2>. SUFFICES ASSUME IInv, [Next]_vars
                PROVE  IInv'
    OBVIOUS
  <2>1. CASE Next
    BY <2>1, VariableStep, DieStep, FunctionStep, UnitStep, FixupStep, EndFixupsStep,
       RelocateStep, EndStep DEF Next
  <2>2. CASE UNCHANGED vars
    <3>1. UNCHANGED <<prog, unit, left, sym, entry, operand, index, newText, pc>>
      BY <2>2 DEF vars
    <3>2. Typed' /\ Progress' /\ NewTextFollows' /\ DeadForSymbol'
      BY <3>1 DEF IInv, Typed, TypeOK, Progress, InUnit, NewTextFollows, DeadForSymbol
    <3>. QED
      BY <3>1, <3>2, NothingApplied DEF IInv
  <2>. QED
    BY <2>1, <2>2
<1>. QED
  BY InitIInv, <1>1, PTL DEF Spec

(* After the last unit everything that is in the patch has been applied.   *)
LEMMA AllApplied ==
  ASSUME Typed, Progress, unit = Units + 1
  PROVE  \A x \in Funcs \cup Vars : Applied(x) <=> Patched(x)
BY ConstantTypes, ProgramTypes DEF Applied, Patched

(* The variables of the model keep their types, whatever the patch.        *)
THEOREM TypeCorrect == Spec => []TypeOK
<1>1. IInv => TypeOK
  BY DEF IInv, Typed
<1>. QED
  BY Invariance, <1>1, PTL

(* If patched functions are longer than the jump and do not begin with a   *)
(* reference to a variable of a later unit, then the target runs on with a *)
(* jump at each patched function (insertTrampolineJump) and its own code   *)
(* at each other one.                                                      *)
THEOREM EntriesAreKept == Spec => []EntriesKept
<1>1. IInv => EntriesKept
  <2>. SUFFICES ASSUME IInv, LongEnough, ~RefersForward, pc = "done"
                PROVE  \A f \in Funcs \cap Existing :
                         entry[f] = IF Patched(f) THEN "jump" ELSE "code"
    BY DEF EntriesKept, CodeIsOldOrRedirected
  <2>1. \A x \in Funcs \cup Vars : Applied(x) <=> Patched(x)
    BY AllApplied DEF IInv, Progress
  <2>. QED
    BY <2>1 DEF IInv, EntriesFollow
<1>. QED
  BY Invariance, <1>1, PTL

(* The code that can run after a patch refers to one version of each       *)
(* variable: the new one, if the patch has one (relocateVar for the old    *)
(* text, applyRelocation for the new one).                                 *)
THEOREM OneVersionRemains == Spec => []OneVersion
<1>1. IInv => OneVersion
  <2>. SUFFICES ASSUME IInv, pc = "done"
                PROVE  /\ \A s \in prog.sites :
                            entry[s.in] = "code" =>
                              operand[s] = IF Patched(s.of) THEN "new" ELSE "old"
                       /\ \A s \in prog.newSites :
                            newText[s] = IF s.of \in Library THEN "plt"
                                         ELSE IF Patched(s.of) THEN "new" ELSE "old"
    BY DEF OneVersion
  <2>. USE ConstantTypes
  <2>1. \A x \in Funcs \cup Vars : Applied(x) <=> Patched(x)
    BY AllApplied DEF IInv, Progress
  <2>2. \A s \in prog.sites : s.of \in Vars
    BY ProgramTypes DEF IInv
  <2>3. ASSUME NEW s \in prog.newSites
        PROVE  newText[s] = IF s.of \in Library THEN "plt"
                            ELSE IF Patched(s.of) THEN "new" ELSE "old"
    <3>1. s.of \in Names
      BY ProgramTypes DEF IInv
    <3>2. /\ newText[s] = IF sym[s.of] = "undefined" THEN "plt" ELSE sym[s.of]
          /\ sym[s.of] # NULL
      BY DEF IInv, NewTextFollows, Progress
    <3>3. sym[s.of] = IF s.of \notin Library /\ Applied(s.of) THEN "new" ELSE Initially(s.of)
      BY <3>1 DEF IInv, SymbolsFollow
    <3>. QED
      BY <2>1, <3>1, <3>2, <3>3 DEF Initially, Names
  <2>. QED
    BY <2>1, <2>2, <2>3 DEF IInv, OperandsFollow
<1>. QED
  BY Invariance, <1>1, PTL

(* No symbol is missing (reindexSymbol) for a patch that refers only to    *)
(* names of its own, of the target or of a library.                        *)
THEOREM SymbolsAreFound == Spec => []SymbolsFound
<1>1. IInv => SymbolsFound
  <2>. SUFFICES ASSUME IInv, SelfContained, pc = "dead", unit = Units + 1
                PROVE  FALSE
    BY DEF SymbolsFound
  <2>. USE ConstantTypes
  <2>1. PICK s \in prog.newSites : sym[s.of] = NULL
    BY DEF IInv, DeadForSymbol
  <2>2. s.of \in Names
    BY ProgramTypes DEF IInv
  <2>3. \A x \in Funcs \cup Vars : Applied(x) <=> Patched(x)
    BY AllApplied DEF IInv
  <2>4. sym[s.of] = IF s.of \notin Library /\ Applied(s.of) THEN "new" ELSE Initially(s.of)
    BY <2>2 DEF IInv, SymbolsFollow
  <2>. QED
    BY <2>1, <2>2, <2>3, <2>4 DEF SelfContained, Initially, Names
<1>. QED
  BY Invariance, <1>1, PTL
=============================================================================
