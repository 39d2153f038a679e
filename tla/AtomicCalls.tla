---------------------------- MODULE AtomicCalls ----------------------------
(***************************************************************************)
(* What the rest of katana takes an injected call for: one step that gives *)
(* it memory nobody has, or ends it.  mmapTarget may also give an error    *)
(* number for an address, to which no write succeeds.  A signal to the     *)
(* target in the middle of a call voids the promise.                       *)
(***************************************************************************)
CONSTANTS Memory,    \* addresses of blocks and pages
          Errno      \* -errno, taken for an address

VARIABLES given,     \* what katana has been given as addresses
          disturbed, \* the target has been stopped by a signal or killed
          outcome    \* "working", "done" or "dead"

Init ==
  /\ given = {}
  /\ disturbed \in BOOLEAN
  /\ outcome = "working"

GetMemory ==
  /\ outcome = "working"
  /\ \E a \in Memory \ given : given' = given \cup {a}
  /\ UNCHANGED <<disturbed, outcome>>

GetErrno ==
  /\ outcome = "working"
  /\ given' = given \cup {Errno}
  /\ UNCHANGED <<disturbed, outcome>>

End ==
  /\ outcome = "working"
  /\ outcome' \in {"done", "dead"}
  /\ UNCHANGED <<given, disturbed>>

Disturb ==
  /\ disturbed' = TRUE
  /\ UNCHANGED <<given, outcome>>

NoPromise ==
  /\ disturbed
  /\ UNCHANGED disturbed

Next == GetMemory \/ GetErrno \/ End \/ Disturb \/ NoPromise

Spec == Init /\ [][Next]_<<given, disturbed, outcome>>
=============================================================================
