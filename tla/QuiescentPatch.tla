---------------------------- MODULE QuiescentPatch ---------------------------
(***************************************************************************)
(* What bringing the target to a safe state promises: whatever the target  *)
(* does, the patch is applied at most once, in one step, at an instant     *)
(* when no unsafe function is active; or not at all.                       *)
(***************************************************************************)
CONSTANTS
  Funcs,      \* functions of the target
  Unsafe      \* those that must not be active while the patch is applied

VARIABLES
  active,     \* functions with an activation record
  state       \* "waiting", "patched" or "gaveUp"

Init == active \subseteq Funcs /\ state = "waiting"

Run == active' \subseteq Funcs /\ state' = state

Patch ==
  /\ state = "waiting"
  /\ active \cap Unsafe = {}
  /\ state' = "patched"
  /\ active' = active

GiveUp ==
  /\ state = "waiting"
  /\ state' = "gaveUp"
  /\ active' = active

Next == Run \/ Patch \/ GiveUp

Spec == Init /\ [][Next]_<<active, state>>
=============================================================================
