------------------------------ MODULE PatchApply ------------------------------
(***************************************************************************)
(* How katana applies a patch to a stopped target (readAndApplyPatch,      *)
(* patcher/patchapply.c): unit by unit it moves the variables and applies  *)
(* the target's relocations for them, puts a jump to the new text at the   *)
(* beginning of each patched function, and at last relocates the new text  *)
(* with the symbols of the patched binary.                                 *)
(*                                                                         *)
(* A name has an old address, in the target, and a new one, in the         *)
(* sections of the patch. The transformation of the data is DataMove, the  *)
(* memory of the sections FreeSpace.                                       *)
(***************************************************************************)
EXTENDS Integers, FiniteSets

CONSTANTS
  Funcs, Vars,  \* functions and variables of the target or of the patch
  Library,      \* functions that are called through the PLT
  Units,        \* compilation units of the patch, 1..Units
  Programs,     \* targets and patches
  NULL

Names == Funcs \cup Vars \cup Library
Site == [in : Funcs, atEntry : BOOLEAN, of : Vars]
NewSite == [in : Funcs, of : Names]

(* Of the target: its functions and variables, the relocations of its text *)
(* for variables (in the first JumpLength bytes of a function, or after),  *)
(* and the functions so short that those bytes reach into the next. Of the *)
(* patch: the unit of each function and variable, and its .rela.text.new.  *)
ASSUME ProgramsAssumption ==
  /\ Units \in Nat \ {0}
  /\ Funcs \cap Vars = {} /\ Library \cap (Funcs \cup Vars) = {}
  /\ NULL \notin Funcs /\ NULL \notin Nat
  /\ NULL \notin {"code", "jump", "spoilt", "old", "new", "undefined"}
  /\ \A p \in Programs :
       /\ p.names \subseteq Funcs \cup Vars
       /\ p.sites \subseteq Site
       /\ \A s \in p.sites : s.in \in p.names /\ s.of \in p.names
       /\ \A f \in Funcs : p.reaches[f] \in ((p.names \cap Funcs) \ {f}) \cup {NULL}
       /\ p.unit \in [Funcs \cup Vars -> (1..Units) \cup {NULL}]
       /\ p.newSites \subseteq NewSite
       /\ \A s \in p.newSites : p.unit[s.in] # NULL

VARIABLES
  prog,     \* the target and the patch
  unit,     \* compilation unit that is being applied
  left,     \* its variables and functions that are yet to be applied
  sym,      \* value of the symbol of each name in the patched binary
  entry,    \* the first bytes of each function of the target
  operand,  \* address at each site of the target's text
  index,    \* entries of .rela.text.new with an index of the patched binary
  newText,  \* address at each site of the new text
  pc

vars == <<prog, unit, left, sym, entry, operand, index, newText, pc>>

Patched(x) == prog.unit[x] # NULL
Existing == prog.names

TypeOK ==
  /\ unit \in 1..(Units + 1)
  /\ left \subseteq Funcs \cup Vars
  /\ sym \in [Names -> {"old", "new", "undefined", NULL}]
  /\ entry \in [Funcs -> {"code", "jump", "spoilt", NULL}]
  /\ operand \in [prog.sites -> {"old", "new", "jump"}]
  /\ index \subseteq prog.newSites
  /\ newText \in [prog.newSites -> {"raw", "old", "new", "plt"}]
  /\ pc \in {"units", "fixups", "relocate", "done", "dead"}

InUnit(n) == { x \in Funcs \cup Vars : prog.unit[x] = n }

Init ==
  /\ prog \in Programs
  /\ unit = 1 /\ left = InUnit(1)
  /\ sym = [x \in Names |-> IF x \in Library THEN "undefined"
                           ELSE IF x \in Existing THEN "old" ELSE NULL]
  /\ entry = [f \in Funcs |-> IF f \in Existing THEN "code" ELSE NULL]
  /\ operand = [s \in prog.sites |-> "old"]
  /\ index = {} /\ newText = [s \in prog.newSites |-> "raw"]
  /\ pc = "units"

-----------------------------------------------------------------------------
(* Variables.                                                              *)

(* Mutant of RelocateVar: the relocations are applied before the symbol    *)
(* has its new value.                                                      *)
RelocateVarTooSoon(v) ==
  /\ sym' = [sym EXCEPT ![v] = "new"]
  /\ operand' = [s \in prog.sites |-> IF s.of = v THEN sym[v] ELSE operand[s]]
  /\ UNCHANGED entry

(* The symbol gets its new value, then the target's relocations for it are *)
(* applied in its memory, whatever is there.                               *)
RelocateVar(v) ==
  /\ sym' = [sym EXCEPT ![v] = "new"]
  /\ operand' = [s \in prog.sites |-> IF s.of = v THEN "new" ELSE operand[s]]
  /\ entry' = [f \in Funcs |->
       IF /\ entry[f] = "jump"
          /\ \E s \in prog.sites : s.of = v /\ s.in = f /\ s.atEntry
       THEN "spoilt" ELSE entry[f]]

(* A variable of the target is transformed and relocated, another one only *)
(* gets a symbol. Variables come before functions, in any order.           *)
ApplyVariablePatch ==
  /\ pc = "units"
  /\ \E v \in left \cap Vars :
       /\ left' = left \ {v}
       /\ IF v \in Existing THEN RelocateVar(v)
          ELSE sym' = [sym EXCEPT ![v] = "new"] /\ UNCHANGED <<entry, operand>>
  /\ UNCHANGED <<prog, unit, index, newText, pc>>

(* death: no transformer, or no symbol in the patch. What has been written *)
(* stays, and the target runs on with it.                                  *)
Die ==
  /\ pc = "units" /\ left \cap Vars # {}
  /\ pc' = "dead"
  /\ UNCHANGED <<prog, unit, left, sym, entry, operand, index, newText>>

-----------------------------------------------------------------------------
(* Functions.                                                              *)

(* The jump takes 14 bytes on x86-64, be the function longer or not, and   *)
(* overwrites what the code there refers to.                               *)
InsertTrampolineJump(f) ==
  LET next == prog.reaches[f] IN
  /\ entry' = [h \in Funcs |-> IF h = f THEN "jump"
                           ELSE IF h = next THEN "spoilt" ELSE entry[h]]
  /\ \E hit \in SUBSET { s \in prog.sites : s.in = next /\ s.atEntry } :
       operand' = [s \in prog.sites |->
         IF s \in hit \/ (s.in = f /\ s.atEntry) THEN "jump" ELSE operand[s]]

(* Mutant of ApplyFunctionPatch: the jump of a function without a symbol   *)
(* in the target is forgotten, and so is its symbol.                       *)
ApplyFunctionPatchNoSymbol ==
  /\ pc = "units" /\ left \cap Vars = {}
  /\ \E f \in left \cap Funcs :
       /\ left' = left \ {f}
       /\ IF f \in Existing THEN InsertTrampolineJump(f) ELSE UNCHANGED <<entry, operand>>
       /\ sym' = IF f \in Existing THEN [sym EXCEPT ![f] = "new"] ELSE sym
  /\ UNCHANGED <<prog, unit, index, newText, pc>>

(* Mutant of ApplyFunctionPatch: it does not wait for the variables.       *)
ApplyFunctionPatchFirst ==
  /\ pc = "units"
  /\ \E f \in left \cap Funcs :
       /\ left' = left \ {f}
       /\ sym' = [sym EXCEPT ![f] = "new"]
       /\ IF f \in Existing THEN InsertTrampolineJump(f) ELSE UNCHANGED <<entry, operand>>
  /\ UNCHANGED <<prog, unit, index, newText, pc>>

ApplyFunctionPatch ==
  /\ pc = "units" /\ left \cap Vars = {}
  /\ \E f \in left \cap Funcs :
       /\ left' = left \ {f}
       /\ sym' = [sym EXCEPT ![f] = "new"]
       /\ IF f \in Existing THEN InsertTrampolineJump(f) ELSE UNCHANGED <<entry, operand>>
  /\ UNCHANGED <<prog, unit, index, newText, pc>>

NextUnit ==
  /\ pc = "units" /\ left = {}
  /\ unit' = unit + 1
  /\ left' = InUnit(unit + 1)
  /\ pc' = IF unit = Units THEN "fixups" ELSE "units"
  /\ UNCHANGED <<prog, sym, entry, operand, index, newText>>

-----------------------------------------------------------------------------
(* Relocation of the new text.                                             *)

(* fixupPatchRelocations: an entry refers to the symbol of its name in the *)
(* patched binary, if there is one (reindexSymbol).                        *)
FixupPatchRelocation ==
  /\ pc = "fixups"
  /\ \E s \in prog.newSites \ index :
       IF sym[s.of] = NULL THEN pc' = "dead" /\ UNCHANGED index
       ELSE index' = index \cup {s} /\ UNCHANGED pc
  /\ UNCHANGED <<prog, unit, left, sym, entry, operand, newText>>

EndFixups ==
  /\ pc = "fixups" /\ index = prog.newSites
  /\ pc' = "relocate"
  /\ UNCHANGED <<prog, unit, left, sym, entry, operand, index, newText>>

(* applyRelocation: an undefined function is looked up in the PLT.         *)
RelocateNewText ==
  /\ pc = "relocate"
  /\ \E s \in { t \in prog.newSites : newText[t] = "raw" } :
       newText' = [newText EXCEPT ![s] =
                     IF sym[s.of] = "undefined" THEN "plt" ELSE sym[s.of]]
  /\ UNCHANGED <<prog, unit, left, sym, entry, operand, index, pc>>

(* endPtrace: the target runs on.                                          *)
EndPtrace ==
  /\ pc = "relocate"
  /\ \A s \in prog.newSites : newText[s] # "raw"
  /\ pc' = "done"
  /\ UNCHANGED <<prog, unit, left, sym, entry, operand, index, newText>>

Next ==
  \/ ApplyVariablePatch \/ Die \/ ApplyFunctionPatch \/ NextUnit
  \/ FixupPatchRelocation \/ EndFixups \/ RelocateNewText \/ EndPtrace

Spec == Init /\ [][Next]_vars

-----------------------------------------------------------------------------
(* Properties.                                                             *)

(* When the target runs on, a patched function begins with the jump to its *)
(* new text and any other with its own code (insertTrampolineJump compares *)
(* what it has written: "failed to copy code into target properly").       *)
CodeIsOldOrRedirected ==
  pc = "done" =>
    \A f \in Funcs \cap Existing :
       entry[f] = IF Patched(f) THEN "jump" ELSE "code"

(* That is so unless a patched function is shorter than the jump, or its   *)
(* first bytes refer to a variable of a later unit.                        *)
LongEnough == \A f \in Funcs : Patched(f) => prog.reaches[f] = NULL
RefersForward ==
  \E s \in prog.sites :
     s.atEntry /\ Patched(s.in) /\ Patched(s.of) /\ prog.unit[s.in] < prog.unit[s.of]
EntriesKept == LongEnough /\ ~RefersForward => CodeIsOldOrRedirected

(* When the target runs on there is one version of each patched variable:  *)
(* the code that can run, what is left of the old code and the new text,   *)
(* refers to the new one, and new text calls new text (relocateVar and     *)
(* applyRelocation, whatever the unit).                                    *)
OneVersion ==
  pc = "done" =>
    /\ \A s \in prog.sites :
         entry[s.in] = "code" => operand[s] = IF Patched(s.of) THEN "new" ELSE "old"
    /\ \A s \in prog.newSites :
         newText[s] = IF s.of \in Library THEN "plt"
                      ELSE IF Patched(s.of) THEN "new" ELSE "old"

(* A patch that refers only to what is in it or in the target does not     *)
(* fail for a symbol that is missing ("Could not reindex symbol from patch *)
(* to patchedBin"): all units have been applied before.                    *)
SelfContained ==
  \A s \in prog.newSites : s.of \in Library \cup Existing \/ Patched(s.of)
SymbolsFound == SelfContained => ~(pc = "dead" /\ unit = Units + 1)
=============================================================================
