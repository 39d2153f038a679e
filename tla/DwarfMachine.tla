---------------------------- MODULE DwarfMachine ----------------------------
(***************************************************************************)
(* evaluateInstructionsToRules of dwarfvm.c: call frame instructions are   *)
(* evaluated to a dictionary of rules, up to a location.  Instructions are *)
(* records of a type and the operands that type has.  An evaluation is a   *)
(* record of what it works on, folded over the instructions; the stack of  *)
(* DW_CFA_remember_state is global in the code, so it is handed from one   *)
(* evaluation to the next.                                                 *)
(***************************************************************************)
EXTENDS Integers, Sequences, SequencesExt

CONSTANTS Registers   \* the target's registers, as DWARF numbers them

CFAReg == "cfa"

\* A rule of a dictionary; Absent is no entry.  A rule that has been inserted
\* and never been set is all zeros.
Rule(type, reg, offset) == [type |-> type, reg |-> reg, offset |-> offset]
Absent == Rule("absent", "none", 0)
Unset  == Rule("ERRT_UNDEF", "none", 0)

NoRules == [r \in Registers \cup {CFAReg} |-> Absent]

\* An instruction that moves the location, and by how much.
Advancing == {"set_loc", "advance_loc", "advance_loc1", "advance_loc2"}

\* Instructions whose rule is that of the CFA.
OfCfa == {"def_cfa", "def_cfa_register", "def_cfa_offset"}

\* Instructions the machine ignores, but for the unset rule that they leave
\* behind.
Ignored == {"expression", "val_expression"}

\* Those with a register for an operand that end in death(), and those
\* without, which fail the assertion of strForReg before.
Unexpected == {"offset_extended", "restore_extended", "same_value", "def_cfa_sf",
               "offset_extended_sf", "val_offset", "val_offset_sf"}
Asserting  == {"nop", "advance_loc4", "def_cfa_expression", "def_cfa_offset_sf", "GNU_args_size"}

\* freed: a name has been read after it was freed.
Evaluation(loc, rules, stack) ==
  [loc |-> loc, rules |-> rules, stack |-> stack, state |-> "running", freed |-> FALSE]

Stop(e, state) == [e EXCEPT !.state = state]

\* The location after an advancing instruction.  codeAlign is 1 (fderead.c:654).
NewLoc(e, i) == IF i.type = "set_loc" THEN i.to ELSE e.loc + i.by

Advance(e, i, stop) ==
  IF stop >= 0 /\ NewLoc(e, i) > stop
    THEN Stop(e, "stopped")
    ELSE [e EXCEPT !.loc = NewLoc(e, i)]

Remember(e) == [e EXCEPT !.stack = Append(e.stack, e.rules)]

\* Mutant: the copy shares its rules with the original.
RestoredShared(rules, saved) == rules

\* Every remembered rule is put back; a rule that was not there when the
\* state was remembered stays.
Restored(rules, saved) ==
  [r \in DOMAIN rules |-> IF saved[r] = Absent THEN rules[r] ELSE saved[r]]

RestoreState(e) ==
  IF e.stack = <<>>
    THEN Stop(e, "dead")
    ELSE [e EXCEPT !.rules = Restored(e.rules, Last(e.stack)), !.stack = Front(e.stack)]

\* The register whose rule an instruction is about.
RuleOf(i) == IF i.type \in OfCfa THEN CFAReg ELSE i.reg

\* What an instruction makes of the rule it has found or inserted.
NewRule(rule, i, initialRules) ==
  CASE i.type = "undefined"        -> [rule EXCEPT !.type = "ERRT_UNDEF"]
    [] i.type = "offset"           -> [rule EXCEPT !.type = "ERRT_OFFSET", !.offset = i.offset]
    [] i.type = "register"         -> [rule EXCEPT !.type = "ERRT_REGISTER", !.reg = i.other]
    [] i.type = "def_cfa"          -> Rule("ERRT_CFA", i.other, i.offset)
    [] i.type = "def_cfa_register" -> [rule EXCEPT !.type = "ERRT_CFA", !.reg = i.other]
    [] i.type = "def_cfa_offset"   -> [rule EXCEPT !.type = "ERRT_CFA", !.offset = i.offset]
    [] i.type = "restore"          -> initialRules[i.reg]
    [] OTHER                       -> rule

\* DW_CFA_restore looks for the initial rule by the register's name, which has
\* been freed by then.
SetRule(e, i, initialRules) ==
  IF i.type \in Unexpected \/ (i.type = "restore" /\ initialRules[i.reg] = Absent)
    THEN Stop(e, "dead")
    ELSE LET found == IF e.rules[RuleOf(i)] = Absent THEN Unset ELSE e.rules[RuleOf(i)]
         IN  [e EXCEPT !.rules[RuleOf(i)] = NewRule(found, i, initialRules),
                       !.freed = @ \/ i.type = "restore"]

Step(e, i, initialRules, stop) ==
  IF e.state # "running" THEN e
  ELSE IF i.type \in Advancing THEN Advance(e, i, stop)
  ELSE IF i.type = "remember_state" THEN Remember(e)
  ELSE IF i.type = "restore_state" THEN RestoreState(e)
  ELSE IF i.type \in Asserting THEN Stop(e, "dead")
  ELSE SetRule(e, i, initialRules)

\* evaluateInstructionsToRules: the instructions from the first one on,
\* until the location would pass stop; there is none if it is negative.
evaluateInstructionsToRules(instrs, rules, initialRules, start, stop, stack) ==
  FoldLeft(LAMBDA e, i : Step(e, i, initialRules, stop), Evaluation(start, rules, stack), instrs)

\* printRules passes over rules that are undefined.
printRules(rules) ==
  [r \in DOMAIN rules |-> IF rules[r].type = "ERRT_UNDEF" THEN Absent ELSE rules[r]]

-----------------------------------------------------------------------------
(* What DWARF (section 6.4) says the rules at a location are, for the       *)
(* instructions the machine handles.                                        *)

DwarfStep(s, i, initialRules, pc) ==
  IF s.over THEN s
  ELSE IF i.type \in Advancing
    THEN IF NewLoc(s, i) > pc THEN [s EXCEPT !.over = TRUE] ELSE [s EXCEPT !.loc = NewLoc(s, i)]
  ELSE IF i.type = "remember_state" THEN [s EXCEPT !.saved = Append(s.saved, s.rules)]
  ELSE IF i.type = "restore_state" THEN [s EXCEPT !.rules = Last(s.saved), !.saved = Front(s.saved)]
  ELSE [s EXCEPT !.rules[RuleOf(i)] = NewRule(s.rules[RuleOf(i)], i, initialRules)]

DwarfRules(instrs, initialRules, low, pc) ==
  FoldLeft(LAMBDA s, i : DwarfStep(s, i, initialRules, pc),
           [loc |-> low, rules |-> initialRules, saved |-> <<>>, over |-> FALSE], instrs).rules

\* Registers whose rule is changed between DW_CFA_remember_state and
\* DW_CFA_restore_state and is not given by an instruction before.  When
\* instructions are evaluated again from the first one on, into the rules
\* they have left, such a rule is remembered as it was changed.
Open(instrs, k) ==
  Len(SelectSeq(SubSeq(instrs, 1, k), LAMBDA i : i.type = "remember_state"))
    > Len(SelectSeq(SubSeq(instrs, 1, k), LAMBDA i : i.type = "restore_state"))

Setting == {"undefined", "offset", "register", "def_cfa", "restore"}

Changing == Setting \cup OfCfa

NotPutBack(instrs) ==
  {RuleOf(instrs[k]) : k \in {k \in DOMAIN instrs :
     /\ Open(instrs, k) /\ instrs[k].type \in Changing
     /\ \A j \in 1..(k - 1) : Open(instrs, j) \/ instrs[j].type \notin Setting
                                              \/ RuleOf(instrs[j]) # RuleOf(instrs[k])}}
=============================================================================
