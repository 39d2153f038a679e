--------------------------- MODULE SafeState_proofs --------------------------
(***************************************************************************)
(* Proofs about SafeState, for every target, patch, depth and time limit.  *)
(***************************************************************************)
EXTENDS SafeState, TLAPS

USE SitesAssumption, BoundsAssumption DEF SitesAssumption, BoundsAssumption

-----------------------------------------------------------------------------
(* Types.                                                                  *)

(* What planting a breakpoint leaves behind, whichever way it ends.        *)
LEMMA PlantType ==
  ASSUME TypeOK, NEW av \in BOOLEAN, NEW txt \in SUBSET Sites,
         PlantBreakpoint(av, txt)
  PROVE  /\ UNCHANGED <<stack, cur, at, signals, i>>
         /\ text' \subseteq Sites
         /\ tstate' \in {"running", "stopped", "exited", "killed"}
         /\ pend' \subseteq Signals
         /\ traced' \in BOOLEAN /\ event' \in BOOLEAN
         /\ pc' \in {"loop", "dead"}
         /\ bp' \in Sites \cup {NoSite}
         /\ restoreInfo' \subseteq Sites
         /\ outcome' \in {"none", "neverPatchable", "assertion", "patched",
                          "timeout", "targetGone"}
<1>1. CASE /\ GoodFrames = {}
           /\ text' = txt
           /\ Die("neverPatchable", FALSE)
           /\ UNCHANGED restoreInfo
  BY <1>1 DEF TypeOK, Die
<1>2. ASSUME NEW k \in GoodFrames,
             \/ /\ stack[k] \in restoreInfo
                /\ text' = txt
                /\ Die("assertion", FALSE)
                /\ UNCHANGED restoreInfo
             \/ /\ stack[k] \notin restoreInfo
                /\ restoreInfo' = restoreInfo \cup {stack[k]}
                /\ bp' = stack[k]
                /\ text' = txt \cup {stack[k]}
                /\ Resume
                /\ pc' = "loop"
                /\ UNCHANGED <<stack, cur, at, signals, traced, i, outcome>>
      PROVE /\ UNCHANGED <<stack, cur, at, signals, i>>
            /\ text' \subseteq Sites
            /\ tstate' \in {"running", "stopped", "exited", "killed"}
            /\ pend' \subseteq Signals
            /\ traced' \in BOOLEAN /\ event' \in BOOLEAN
            /\ pc' \in {"loop", "dead"}
            /\ bp' \in Sites \cup {NoSite}
            /\ restoreInfo' \subseteq Sites
            /\ outcome' \in {"none", "neverPatchable", "assertion", "patched",
                             "timeout", "targetGone"}
  <2>1. stack[k] \in Sites
    BY DEF GoodFrames, TypeOK
  <2>2. CASE Die("assertion", FALSE) /\ text' = txt /\ UNCHANGED restoreInfo
    BY <2>2 DEF TypeOK, Die
  <2>3. CASE /\ restoreInfo' = restoreInfo \cup {stack[k]}
             /\ bp' = stack[k]
             /\ text' = txt \cup {stack[k]}
             /\ Resume
             /\ pc' = "loop"
             /\ UNCHANGED <<stack, cur, at, signals, traced, i, outcome>>
    BY <2>1, <2>3 DEF TypeOK, Resume
  <2> QED BY <1>2, <2>2, <2>3
<1> QED BY <1>1, <1>2 DEF PlantBreakpoint

LEMMA InitType == Init => TypeOK
<1> SUFFICES ASSUME Init PROVE TypeOK
  OBVIOUS
<1>1. i \in 0..NumIterations /\ signals \in 0..MaxSignals
  BY DEF Init
<1>2. stack \in Seq(Sites)
  BY DEF Init
<1> QED BY <1>1, <1>2, Zenon DEF Init, TypeOK

(* Every variable keeps its type: the address katana breaks at is always a *)
(* return address it found on the stack, and the polling loop is bounded.  *)
THEOREM TypeCorrect == Spec => []TypeOK
<1>1. Init => TypeOK
  BY InitType
<1>2. TypeOK /\ [Next]_vars => TypeOK'
  <2> SUFFICES ASSUME TypeOK, [Next]_vars PROVE TypeOK'
    OBVIOUS
  <2> USE DEF TypeOK
  <2>1. CASE Call
    BY <2>1 DEF Call, Executes, katana
  <2>2. CASE Return
    BY <2>2 DEF Return, Executes, katana
  <2>3. CASE Reach
    BY <2>3 DEF Reach, Executes, katana
  <2>4. CASE Trap
    BY <2>4 DEF Trap, katana
  <2>5. CASE Exit
    BY <2>5 DEF Exit, Executes, katana
  <2>6. CASE OtherSignal
    BY <2>6 DEF OtherSignal, Signals, katana
  <2>7. CASE Deliver
    BY <2>7 DEF Deliver, katana
  <2>8. CASE Attach
    BY <2>8 DEF Attach, Die, Signals
  <2>9. CASE AttachWait
    BY <2>9 DEF AttachWait, target
  <2>10. CASE FirstBreakpoint
    BY <2>10, PlantType DEF FirstBreakpoint
  <2>11. CASE TargetGone
    BY <2>11 DEF TargetGone, Die
  <2>12. CASE RelaxStop
    BY <2>12 DEF RelaxStop, Signals
  <2>13. CASE RelaxBreakpoint
    <3>1. text \ {bp} \in SUBSET Sites
      OBVIOUS
    <3> QED BY <2>13, <3>1, PlantType DEF RelaxBreakpoint, RemoveBreakpoint
  <2>14. CASE Poll
    <3>1. i' \in 0..NumIterations
      BY <2>14 DEF Poll
    <3>2. /\ UNCHANGED <<stack, cur, at, trapped, text, tstate, pend, signals,
                         traced, avoid, bp, restoreInfo, outcome>>
          /\ event' \in BOOLEAN
          /\ pc' \in {"reached", pc}
      BY <2>14, Zenon DEF Poll, target
    <3> QED BY <3>1, <3>2
  <2>15. CASE Reached
    BY <2>15 DEF Reached, RemoveBreakpoint
  <2>16. CASE TimeOut
    BY <2>16 DEF TimeOut, Die
  <2>17. CASE ApplyPatch
    BY <2>17 DEF ApplyPatch, Signals
  <2>18. CASE UNCHANGED vars
    BY <2>18 DEF vars
  <2> QED
    BY <2>1, <2>2, <2>3, <2>4, <2>5, <2>6, <2>7, <2>8, <2>9, <2>10, <2>11,
       <2>12, <2>13, <2>14, <2>15, <2>16, <2>17, <2>18
       DEF Next, Target, Katana
<1>3. QED BY <1>1, <1>2, PTL DEF Spec

-----------------------------------------------------------------------------
(* The target's text, whatever its call graph and the signals it gets.     *)

(* Where the int3s are and which one the pc has just passed.               *)
TextInv ==
  /\ pc \in {"start", "attachWait", "find"} => text = {} /\ ~trapped
  /\ pc \in {"loop", "relaxWait", "reached"} =>
       text = {bp} /\ (trapped => at = bp /\ tstate # "running")
  /\ pc \in {"patching", "done"} => text = {} /\ ~trapped

LEMMA TextInvInductive == TypeOK /\ TextInv /\ [Next]_vars => TextInv'
<1> SUFFICES ASSUME TypeOK, TextInv, [Next]_vars PROVE TextInv'
  OBVIOUS
<1> USE DEF TextInv
<1>1. CASE Call
  BY <1>1 DEF Call, Executes, katana
<1>2. CASE Return
  BY <1>2 DEF Return, Executes, katana
<1>3. CASE Reach
  BY <1>3 DEF Reach, Executes, katana
<1>4. CASE Trap
  BY <1>4 DEF Trap, katana, TypeOK
<1>5. CASE Exit
  BY <1>5 DEF Exit, Executes, katana
<1>6. CASE OtherSignal
  BY <1>6 DEF OtherSignal, katana
<1>7. CASE Deliver
  BY <1>7 DEF Deliver, katana
<1>8. CASE Attach
  BY <1>8 DEF Attach, Die
<1>9. CASE AttachWait
  BY <1>9 DEF AttachWait, target
<1>10. CASE FirstBreakpoint
  <2>1. text = {} /\ ~trapped /\ ~trapped'
    BY <1>10 DEF FirstBreakpoint
  <2> QED BY <1>10, <2>1 DEF FirstBreakpoint, PlantBreakpoint, Die
<1>11. CASE TargetGone
  BY <1>11 DEF TargetGone, Die
<1>12. CASE RelaxStop
  BY <1>12 DEF RelaxStop
<1>13. CASE RelaxBreakpoint
  <2>1. text \ {bp} = {} /\ ~trapped'
    BY <1>13 DEF RelaxBreakpoint, RemoveBreakpoint
  <2> QED BY <1>13, <2>1 DEF RelaxBreakpoint, PlantBreakpoint, Die
<1>14. CASE Poll
  BY <1>14 DEF Poll, target
<1>15. CASE Reached
  <2>1. text \ {bp} = {} /\ ~trapped'
    BY <1>15 DEF Reached, RemoveBreakpoint
  <2> QED BY <1>15, <2>1 DEF Reached
<1>16. CASE TimeOut
  BY <1>16 DEF TimeOut, Die
<1>17. CASE ApplyPatch
  BY <1>17 DEF ApplyPatch
<1>18. CASE UNCHANGED vars
  BY <1>18 DEF vars
<1> QED
  BY <1>1, <1>2, <1>3, <1>4, <1>5, <1>6, <1>7, <1>8, <1>9, <1>10, <1>11,
     <1>12, <1>13, <1>14, <1>15, <1>16, <1>17, <1>18
     DEF Next, Target, Katana

(* While the patch is applied, and after, no int3 of katana's is left in   *)
(* the target and its pc is at an instruction's first byte: the breakpoint *)
(* removed is the one in force, and a target stopped past it is moved back *)
(* (removeBreakpoint in target.c), whatever stopped it.                    *)
THEOREM TextIsRestored == Spec => []TextRestored
<1>1. Init => TextInv
  BY DEF Init, TextInv
<1>2. TextInv => TextRestored
  BY DEF TextInv, TextRestored
<1>3. QED BY <1>1, <1>2, TypeCorrect, TextInvInductive, PTL DEF Spec

-----------------------------------------------------------------------------
(* The instant of the patch, for targets without recursion to which nobody *)
(* else sends a signal.                                                    *)

(* A ranking of the functions that every call increases.                   *)
Ranks(rank) ==
  /\ rank \in [Funcs -> Nat]
  /\ \A s \in Sites : \A f \in Callees[s] : rank[Owner[s]] < rank[f]

(* No function calls itself, even through others.                          *)
AcyclicCalls == \E rank \in [Funcs -> Nat] : Ranks(rank)

AllSafe ==
  /\ cur \notin Unsafe
  /\ \A k \in 1..Len(stack) : Owner[stack[k]] \notin Unsafe

(* The breakpoint is the return address of a frame that no unsafe one is   *)
(* above, and that has not returned.                                       *)
Ahead ==
  \E k \in 1..Len(stack) :
     /\ stack[k] = bp
     /\ \A j \in 1..k : Owner[stack[j]] \notin Unsafe

(* The frame has just returned to it.                                      *)
Hit == at = bp /\ AllSafe

(* The stack is the call chain of a target without recursion.              *)
Chain(rank) ==
  /\ \A m, n \in 1..Len(stack) :
        m < n => rank[Owner[stack[m]]] < rank[Owner[stack[n]]]
  /\ \A m \in 1..Len(stack) : rank[Owner[stack[m]]] < rank[cur]
  /\ at # NoSite => Owner[at] = cur

(* What each point of katana knows of the target. Two stops can be on      *)
(* their way at once, the breakpoint's and the relaxation's SIGSTOP: the   *)
(* breakpoint is then already hit, and nothing runs before the second.     *)
Control ==
  /\ signals = 0 /\ "other" \notin pend
  /\ pc = "start" => pend = {} /\ ~event /\ ~traced
  /\ pc \in {"start", "attachWait", "find"} => text = {}
  /\ pc = "attachWait" /\ tstate # "running" => tstate = "exited" \/ pend = {}
  /\ pc = "attachWait" /\ event => tstate # "running"
  /\ pc = "find" => tstate # "running" /\ (tstate = "exited" \/ pend = {})
  /\ pc \in {"attachWait", "find"} => traced
  /\ pc \in {"loop", "relaxWait"} =>
       /\ bp \in Sites
       /\ text = {bp}
       /\ traced
       /\ tstate \in {"running", "stopped"}
       /\ Ahead \/ Hit
       /\ event => tstate = "stopped"
  /\ pc = "loop" /\ tstate = "running" => pend = {}
  /\ pc = "loop" /\ tstate = "stopped" => AllSafe
  /\ pc = "relaxWait" /\ tstate = "stopped" /\ pend # {} => AllSafe
  /\ pc \in {"reached", "patching"} => AllSafe /\ tstate = "stopped"
  /\ outcome = "none" <=> pc \notin {"done", "dead"}

IInv(rank) == TypeOK /\ Chain(rank) /\ Control

(* A call, a return and a branch keep the chain of calls a chain.          *)
LEMMA CallKeeps ==
  ASSUME NEW rank, Ranks(rank), IInv(rank), Call
  PROVE  Chain(rank)' /\ (Ahead => Ahead')
<1> USE DEF IInv, TypeOK
<1>0. PICK s \in Sites : \E f \in Callees[s] :
         Owner[s] = cur /\ stack' = Append(stack, s) /\ cur' = f
  BY DEF Call
<1>1. PICK f \in Callees[s] :
         Owner[s] = cur /\ stack' = Append(stack, s) /\ cur' = f
  BY <1>0
<1>2. /\ Len(stack') = Len(stack) + 1
      /\ \A k \in 1..Len(stack) : stack'[k] = stack[k] /\ stack[k] \in Sites
      /\ stack'[Len(stack) + 1] = s
      /\ Len(stack) \in Nat
  BY <1>1
<1>3. /\ rank[cur] < rank[cur'] /\ rank[cur] \in Nat /\ rank[cur'] \in Nat
      /\ \A k \in 1..Len(stack) : rank[Owner[stack[k]]] \in Nat
  BY <1>1, <1>2 DEF Ranks
<1>4. at' = NoSite
  BY DEF Call
<1>5. ASSUME NEW m \in 1..Len(stack'), NEW n \in 1..Len(stack'), m < n
      PROVE  rank[Owner[stack'[m]]] < rank[Owner[stack'[n]]]
  <2>1. m \in 1..Len(stack)
    BY <1>2, <1>5
  <2>2. CASE n \in 1..Len(stack)
    BY <1>2, <1>5, <2>1, <2>2 DEF Chain
  <2>3. CASE n = Len(stack) + 1
    BY <1>1, <1>2, <2>1, <2>3 DEF Chain
  <2> QED BY <1>2, <2>2, <2>3
<1>6. ASSUME NEW m \in 1..Len(stack')
      PROVE  rank[Owner[stack'[m]]] < rank[cur']
  <2>1. CASE m \in 1..Len(stack)
    BY <1>2, <1>3, <2>1 DEF Chain
  <2>2. CASE m = Len(stack) + 1
    BY <1>1, <1>2, <1>3, <2>2
  <2> QED BY <1>2, <2>1, <2>2
<1>7. Ahead => Ahead'
  <2> SUFFICES ASSUME NEW k \in 1..Len(stack), stack[k] = bp,
                      \A j \in 1..k : Owner[stack[j]] \notin Unsafe
               PROVE  Ahead'
    BY DEF Ahead
  <2>1. k \in 1..Len(stack') /\ bp' = bp
    BY <1>2 DEF Call, katana
  <2>2. \A j \in 1..k : stack'[j] = stack[j]
    BY <1>2
  <2> QED BY <2>1, <2>2 DEF Ahead
<1> QED BY <1>4, <1>5, <1>6, <1>7 DEF Chain

LEMMA ReturnKeeps ==
  ASSUME NEW rank, Ranks(rank), IInv(rank), Return
  PROVE  Chain(rank)' /\ (Ahead => Ahead' \/ Hit')
<1> USE DEF IInv, TypeOK
<1> DEFINE n == Len(stack)
<1>1. /\ n \in Nat /\ n > 0
      /\ stack' = SubSeq(stack, 1, n - 1)
      /\ at' = stack[n] /\ cur' = Owner[stack[n]]
  BY DEF Return
<1>2. /\ Len(stack') = n - 1
      /\ \A k \in 1..(n - 1) : stack'[k] = stack[k] /\ k \in 1..n
      /\ \A k \in 1..n : stack[k] \in Sites
  <2> HIDE DEF n
  <2>1. \A k \in 1..n : stack[k] \in Sites
    BY DEF n
  <2>2. 1 \in 1..(n + 1) /\ n - 1 \in Nat
    BY <1>1
  <2>3. Len(stack') = n - 1
    BY <1>1, <2>2
  <2>4. \A k \in 1..(n - 1) : stack'[k] = stack[k]
    BY <1>1, <2>2
  <2> QED BY <1>1, <2>1, <2>3, <2>4
<1>3. Chain(rank)'
  <2>1. \A k \in 1..(n - 1) : rank[Owner[stack[k]]] < rank[Owner[stack[n]]]
    BY <1>1, <1>2 DEF Chain
  <2> HIDE DEF n
  <2>2. \A k \in 1..(n - 1) : rank[Owner[stack'[k]]] < rank[cur']
    BY <1>1, <1>2, <2>1
  <2>3. ASSUME NEW l \in 1..(n - 1), NEW m \in 1..(n - 1), l < m
        PROVE  rank[Owner[stack'[l]]] < rank[Owner[stack'[m]]]
    BY <1>2, <2>3 DEF Chain, n
  <2>4. at' # NoSite => Owner[at'] = cur'
    BY <1>1
  <2>5. Len(stack') = n - 1
    BY <1>2
  <2> HIDE <1>1, <1>2
  <2> QED BY <2>2, <2>3, <2>4, <2>5 DEF Chain
<1>4. Ahead => Ahead' \/ Hit'
  <2> SUFFICES ASSUME NEW k \in 1..n, stack[k] = bp,
                      \A j \in 1..k : Owner[stack[j]] \notin Unsafe
               PROVE  Ahead' \/ Hit'
    BY DEF Ahead
  <2>1. bp' = bp
    BY DEF Return, katana
  <2>2. CASE k = n
    <3>1. at' = bp' /\ cur' \notin Unsafe
      BY <1>1, <2>1, <2>2
    <3>2. \A j \in 1..Len(stack') : Owner[stack'[j]] \notin Unsafe
      BY <1>1, <1>2, <2>2
    <3> QED BY <3>1, <3>2 DEF Hit, AllSafe
  <2>3. CASE k < n
    <3>1. k \in 1..Len(stack') /\ stack'[k] = bp'
      BY <1>1, <1>2, <2>1, <2>3
    <3>2. \A j \in 1..k : Owner[stack'[j]] \notin Unsafe
      BY <1>1, <1>2, <2>3
    <3> QED BY <3>1, <3>2 DEF Ahead
  <2> QED BY <1>1, <2>2, <2>3
<1> QED BY <1>3, <1>4

(* A breakpoint planted in a stopped target is ahead of it.                *)
LEMMA PlantKeeps ==
  ASSUME TypeOK, NEW av \in BOOLEAN, PlantBreakpoint(av, {}),
         signals = 0, "other" \notin pend, outcome = "none",
         traced, tstate = "stopped", pend # {} => AllSafe
  PROVE  Control'
<1>1. CASE Die("neverPatchable", FALSE) \/ Die("assertion", FALSE)
  BY <1>1 DEF Die, Control
<1>2. ASSUME NEW k \in GoodFrames,
             bp' = stack[k], text' = {} \cup {stack[k]}, Resume, pc' = "loop",
             UNCHANGED <<stack, cur, at, signals, traced, i, outcome>>
      PROVE  Control'
  <2>1. /\ k \in 1..Len(stack) /\ stack[k] \in Sites
        /\ \A j \in 1..k : Owner[stack[j]] \notin Unsafe
    BY DEF GoodFrames, TypeOK
  <2>2. Ahead'
    BY <1>2, <2>1 DEF Ahead
  <2>3. CASE pend = {} /\ tstate' = "running" /\ event' = FALSE /\ UNCHANGED pend
    BY <1>2, <2>1, <2>2, <2>3 DEF Control
  <2>4. CASE \E s \in pend : /\ pend' = pend \ {s}
                             /\ event' = TRUE
                             /\ UNCHANGED tstate
    <3>1. AllSafe'
      BY <1>2, <2>4 DEF AllSafe
    <3>2. "other" \notin pend'
      BY <2>4
    <3> QED BY <1>2, <2>1, <2>2, <2>4, <3>1, <3>2 DEF Control
  <2> QED BY <1>2, <2>3, <2>4 DEF Resume
<1> QED BY <1>1, <1>2 DEF PlantBreakpoint

(* A target at its breakpoint executes nothing but the int3, and one that  *)
(* executes anything else still has the breakpoint ahead.                  *)
LEMMA HitOnlyTraps ==
  ASSUME NEW rank, Ranks(rank), IInv(rank), pc \in {"loop", "relaxWait"}
  PROVE  /\ Executes => Ahead
         /\ at = bp => AllSafe
<1>1. text = {bp} /\ (Ahead \/ Hit)
  BY DEF IInv, Control
<1>2. Executes => Ahead
  BY <1>1 DEF Executes, Hit
<1>3. at = bp => ~Ahead
  <2> SUFFICES ASSUME at = bp, NEW k \in 1..Len(stack), stack[k] = bp
               PROVE  FALSE
    BY DEF Ahead
  <2>1. rank[Owner[bp]] < rank[cur]
    BY DEF IInv, Chain
  <2>2. Owner[bp] = cur /\ cur \in Funcs
    BY DEF IInv, Chain, Control, TypeOK
  <2>3. rank[cur] \in Nat
    BY <2>2 DEF Ranks
  <2> QED BY <2>1, <2>2, <2>3
<1> QED BY <1>1, <1>2, <1>3 DEF Hit

LEMMA ControlInductive ==
  ASSUME NEW rank, Ranks(rank), IInv(rank), TypeOK', [Next]_vars
  PROVE  Chain(rank)' /\ Control'
<1> USE DEF IInv
<1>a. UNCHANGED <<stack, cur, at, bp>> =>
        /\ UNCHANGED <<AllSafe, Ahead, Hit>>
        /\ Chain(rank)'
  BY DEF AllSafe, Ahead, Hit, Chain
<1>1. CASE Call
  <2>1. Chain(rank)' /\ (Ahead => Ahead')
    BY <1>1, CallKeeps
  <2>2. Executes /\ tstate = "running"
    BY <1>1 DEF Call, Executes
  <2>3. UNCHANGED <<text, tstate, pend, signals, traced, event, pc, bp, outcome>>
    BY <1>1 DEF Call, katana
  <2>4. pc \in {"loop", "relaxWait"} => Ahead'
    BY <2>1, <2>2, HitOnlyTraps
  <2> QED BY <2>1, <2>2, <2>3, <2>4 DEF Control
<1>2. CASE Return
  <2>1. Chain(rank)' /\ (Ahead => Ahead' \/ Hit')
    BY <1>2, ReturnKeeps
  <2>2. Executes /\ tstate = "running"
    BY <1>2 DEF Return, Executes
  <2>3. UNCHANGED <<text, tstate, pend, signals, traced, event, pc, bp, outcome>>
    BY <1>2 DEF Return, katana
  <2>4. pc \in {"loop", "relaxWait"} => Ahead' \/ Hit'
    BY <2>1, <2>2, HitOnlyTraps
  <2> QED BY <2>1, <2>2, <2>3, <2>4 DEF Control
<1>3. CASE Reach
  <2>1. Executes /\ tstate = "running"
    BY <1>3 DEF Reach, Executes
  <2>2. UNCHANGED <<stack, cur, text, tstate, pend, signals, traced, event, pc, bp, outcome>>
    BY <1>3 DEF Reach, katana
  <2>3. Chain(rank)'
    BY <1>3, <2>2 DEF Reach, Chain
  <2>4. Ahead => Ahead'
    BY <2>2 DEF Ahead
  <2>5. pc \in {"loop", "relaxWait"} => Ahead'
    BY <2>1, <2>4, HitOnlyTraps
  <2> QED BY <2>1, <2>2, <2>3, <2>5 DEF Control
<1>4. CASE Trap
  <2>1. UNCHANGED <<stack, cur, at, text, pend, signals, traced, pc, bp, outcome>>
    BY <1>4 DEF Trap, katana
  <2>2. tstate = "running" /\ at \in text
    BY <1>4 DEF Trap
  <2>3. pc \in {"loop", "relaxWait"} => /\ AllSafe'
                                       /\ tstate' = "stopped" /\ event'
    BY <1>4, <2>1, <2>2, <1>a, HitOnlyTraps DEF Trap, Control
  <2>4. pc \notin {"start", "attachWait", "find", "reached", "patching"}
    BY <2>2 DEF Control
  <2> QED BY <1>a, <2>1, <2>2, <2>3, <2>4 DEF Control, TypeOK
<1>5. CASE Exit
  <2>1. UNCHANGED <<stack, cur, at, text, pend, signals, traced, pc, bp, outcome>>
    BY <1>5 DEF Exit, katana
  <2>2. /\ Executes /\ tstate = "running"
        /\ tstate' = "exited" /\ event' = traced
    BY <1>5 DEF Exit, Executes
  <2>3. ~Ahead
    BY <1>5 DEF Exit, Ahead
  <2>4. pc \notin {"loop", "relaxWait"}
    BY <2>2, <2>3, HitOnlyTraps
  <2> QED BY <1>a, <2>1, <2>2, <2>4 DEF Control
<1>6. CASE OtherSignal
  <2>1. signals = 0 /\ signals > 0
    BY <1>6 DEF OtherSignal, Control
  <2> QED BY <2>1
<1>7. CASE Deliver
  <2>1. /\ UNCHANGED <<stack, cur, at, text, signals, traced, pc, bp, outcome>>
        /\ tstate = "running" /\ event' = traced
    BY <1>7 DEF Deliver, katana
  <2>2. /\ pend = {"SIGSTOP"} /\ pend' = {} /\ tstate' = "stopped"
    BY <1>7, Zenon DEF Deliver, Control, TypeOK, Signals
  <2> QED BY <1>a, <2>1, <2>2 DEF Control
<1>8. CASE Attach
  <2>1. CASE Die("targetGone", FALSE) /\ UNCHANGED text
    BY <1>8, <2>1, <1>a DEF Attach, Die, Control, Chain
  <2>2. CASE /\ traced' = TRUE
             /\ pend' = pend \cup {"SIGSTOP"}
             /\ pc' = "attachWait"
             /\ tstate = "running"
             /\ UNCHANGED <<stack, cur, at, text, tstate, signals, event, bp, outcome>>
    <3>1. pc = "start" /\ ~event' /\ "other" \notin pend'
      BY <1>8, <2>2 DEF Attach, Control
    <3> QED BY <1>8, <2>2, <3>1, <1>a DEF Attach, Control
  <2> QED BY <1>8, <2>1, <2>2 DEF Attach
<1>9. CASE AttachWait
  BY <1>9, <1>a DEF AttachWait, target, Control
<1>10. CASE FirstBreakpoint
  <2>1. /\ text = {} /\ signals = 0 /\ "other" \notin pend /\ pend = {}
        /\ outcome = "none" /\ traced /\ tstate = "stopped"
    BY <1>10 DEF FirstBreakpoint, Control
  <2>2. PlantBreakpoint(avoid, {}) /\ avoid \in BOOLEAN
    BY <1>10, <2>1 DEF FirstBreakpoint, TypeOK
  <2>3. Control'
    BY <2>1, <2>2, PlantKeeps
  <2>4. UNCHANGED <<stack, cur, at>>
    BY <2>2, PlantType
  <2> QED BY <2>3, <2>4 DEF Chain
<1>11. CASE TargetGone
  BY <1>11, <1>a DEF TargetGone, Die, Control, Chain
<1>12. CASE RelaxStop
  <2>1. /\ UNCHANGED <<stack, cur, at, text, tstate, signals, traced, event, bp, outcome>>
        /\ pc = "loop" /\ pc' = "relaxWait"
        /\ "other" \notin pend'
    BY <1>12 DEF RelaxStop, Control
  <2> QED BY <1>a, <2>1 DEF Control
<1>13. CASE RelaxBreakpoint
  <2>1. /\ text \ {bp} = {} /\ signals = 0 /\ "other" \notin pend
        /\ outcome = "none" /\ traced /\ tstate = "stopped"
        /\ pend # {} => AllSafe
    BY <1>13 DEF RelaxBreakpoint, Control
  <2>2. PlantBreakpoint(FALSE, {})
    BY <1>13, <2>1 DEF RelaxBreakpoint
  <2>3. Control'
    BY <2>1, <2>2, PlantKeeps
  <2>4. UNCHANGED <<stack, cur, at>>
    BY <2>2, PlantType
  <2> QED BY <2>3, <2>4 DEF Chain
<1>14. CASE Poll
  <2>1. /\ UNCHANGED <<stack, cur, at, text, tstate, pend, signals, traced, bp, outcome>>
        /\ pc = "loop"
    BY <1>14 DEF Poll, target
  <2>2. CASE event /\ event' = FALSE /\ pc' = "reached"
    BY <1>a, <2>1, <2>2 DEF Control
  <2>3. CASE UNCHANGED <<event, pc>>
    BY <1>a, <2>1, <2>3 DEF Control
  <2> QED BY <1>14, <2>2, <2>3 DEF Poll
<1>15. CASE Reached
  BY <1>15, <1>a DEF Reached, Control
<1>16. CASE TimeOut
  BY <1>16, <1>a DEF TimeOut, Die, Control, Chain
<1>17. CASE ApplyPatch
  <2>1. "other" \notin pend' /\ signals' = 0
    BY <1>17 DEF ApplyPatch, Control
  <2> QED BY <1>17, <1>a, <2>1 DEF ApplyPatch, Control
<1>18. CASE UNCHANGED vars
  BY <1>18, <1>a DEF vars, Control
<1> QED
  BY <1>1, <1>2, <1>3, <1>4, <1>5, <1>6, <1>7, <1>8, <1>9, <1>10, <1>11,
     <1>12, <1>13, <1>14, <1>15, <1>16, <1>17, <1>18
     DEF Next, Target, Katana

(* katana's end is decided once, in a step that leaves the stack alone.    *)
LEMMA OutcomeChanges ==
  ASSUME TypeOK, [Next]_vars, outcome' # outcome
  PROVE  /\ pc \notin {"done", "dead"} /\ pc' \in {"done", "dead"}
         /\ UNCHANGED <<stack, cur>>
         /\ outcome' # "none"
         /\ outcome' = "patched" => pc = "patching"
<1>1. CASE Target \/ Deliver \/ UNCHANGED vars
  BY <1>1 DEF Target, Call, Return, Reach, Trap, Exit, OtherSignal, Deliver,
              katana, vars
<1>2. CASE Attach \/ TargetGone \/ TimeOut \/ ApplyPatch
  BY <1>2 DEF Attach, TargetGone, TimeOut, ApplyPatch, Die
<1>3. CASE AttachWait \/ RelaxStop \/ Poll \/ Reached
  BY <1>3 DEF AttachWait, RelaxStop, Poll, Reached
<1>4. CASE FirstBreakpoint \/ RelaxBreakpoint
  BY <1>4 DEF FirstBreakpoint, RelaxBreakpoint, PlantBreakpoint, Die
<1> QED BY <1>1, <1>2, <1>3, <1>4 DEF Next, Katana

(* For a target without recursion that gets no signal but katana's, every  *)
(* state of every run satisfies the invariant, under one fixed ranking.    *)
LEMMA Invariance ==
  ASSUME NEW rank, Ranks(rank), MaxSignals = 0
  PROVE  Spec => []IInv(rank)
<1>1. Init => IInv(rank)
  <2> SUFFICES ASSUME Init PROVE Chain(rank) /\ Control /\ TypeOK
    BY DEF IInv
  <2>1. TypeOK
    BY InitType
  <2>2. Len(stack) = 0
    BY DEF Init
  <2>3. Chain(rank)
    BY <2>2 DEF Init, Chain
  <2> QED BY <2>1, <2>3 DEF Init, Control
<1>2. IInv(rank) /\ TypeOK' /\ [Next]_vars => IInv(rank)'
  BY ControlInductive DEF IInv
<1> QED BY <1>1, <1>2, TypeCorrect, PTL DEF Spec

(* Whatever the target, the patch and the time limits: without recursion   *)
(* and without signals of others, no unsafe function has an activation     *)
(* record when bringTargetToSafeState returns. Both hypotheses are needed: *)
(* runs of TLC find the violation without either.                          *)
THEOREM SafePatching ==
  ASSUME AcyclicCalls, MaxSignals = 0
  PROVE  Spec => []PatchOnlyWhenSafe
<1>1. PICK rank \in [Funcs -> Nat] : Ranks(rank)
  BY DEF AcyclicCalls
<1>2. IInv(rank) => PatchOnlyWhenSafe
  BY DEF IInv, Control, AllSafe, PatchOnlyWhenSafe, ActiveFuncs
<1>3. Spec => []IInv(rank)
  BY <1>1, Invariance
<1> QED BY <1>2, <1>3, PTL

(* Under the same hypotheses the breakpoint katana waits for is never one  *)
(* that the target has left behind.                                        *)
THEOREM NeverOutrun ==
  ASSUME AcyclicCalls, MaxSignals = 0
  PROVE  Spec => []BreakpointAhead
<1>1. PICK rank \in [Funcs -> Nat] : Ranks(rank)
  BY DEF AcyclicCalls
<1>2. IInv(rank) => BreakpointAhead
  BY DEF IInv, Control, Ahead, Hit, BreakpointAhead
<1>3. Spec => []IInv(rank)
  BY <1>1, Invariance
<1> QED BY <1>2, <1>3, PTL

(* Under the same hypotheses the protocol implements its specification:    *)
(* the patch is applied at most once, at an instant of quiescence.         *)
THEOREM Implementation ==
  ASSUME AcyclicCalls, MaxSignals = 0
  PROVE  Spec => ImplementsQuiescentPatch
<1>1. PICK rank \in [Funcs -> Nat] : Ranks(rank)
  BY DEF AcyclicCalls
<1>2. TypeOK => ActiveFuncs \subseteq Funcs
  BY DEF TypeOK, ActiveFuncs
<1>3. Init => Quiescent!Init
  BY <1>2, InitType DEF Init, PatchState, Quiescent!Init
<1>4. IInv(rank) /\ TypeOK' /\ [Next]_vars
        => [Quiescent!Next]_<<ActiveFuncs, PatchState>>
  <2> SUFFICES ASSUME IInv(rank), TypeOK', [Next]_vars
               PROVE  [Quiescent!Next]_<<ActiveFuncs, PatchState>>
    OBVIOUS
  <2>1. ActiveFuncs' \subseteq Funcs
    BY DEF TypeOK, ActiveFuncs
  <2>2. CASE UNCHANGED outcome
    <3>1. UNCHANGED PatchState
      BY <2>2 DEF PatchState
    <3> QED BY <2>1, <3>1 DEF Quiescent!Next, Quiescent!Run
  <2>3. CASE outcome' # outcome
    <3>1. pc' \in {"done", "dead"} /\ UNCHANGED <<stack, cur>>
      BY <2>3, OutcomeChanges DEF IInv
    <3>2. outcome = "none" /\ outcome' # "none"
          /\ (outcome' = "patched" => pc = "patching")
      BY <2>3, OutcomeChanges DEF IInv, Control
    <3>3. UNCHANGED ActiveFuncs
      BY <3>1 DEF ActiveFuncs
    <3>4. CASE outcome' = "patched"
      <4>1. ActiveFuncs \cap Unsafe = {}
        BY <3>2, <3>4 DEF IInv, Control, AllSafe, ActiveFuncs
      <4> QED BY <3>2, <3>3, <3>4, <4>1
              DEF Quiescent!Next, Quiescent!Patch, PatchState
    <3>5. CASE outcome' # "patched"
      BY <3>2, <3>3, <3>5 DEF Quiescent!Next, Quiescent!GiveUp, PatchState
    <3> QED BY <3>4, <3>5
  <2> QED BY <2>2, <2>3
<1>5. Spec => []IInv(rank)
  BY <1>1, Invariance
<1> QED
  BY <1>3, <1>4, <1>5, TypeCorrect, PTL
     DEF Spec, ImplementsQuiescentPatch, Quiescent!Spec


-----------------------------------------------------------------------------
(* katana writes the target's text, breakpoints set and taken back, only   *)
(* while the target is stopped, whatever has stopped it.                   *)
THEOREM TextWrittenWhileStopped == Spec => WritesWhileStopped
<1>1. [Next]_vars => [text' # text => tstate = "stopped"]_vars
  <2> SUFFICES ASSUME Next, text' # text
               PROVE  tstate = "stopped"
    OBVIOUS
  <2>1. ~Target /\ ~Deliver
    BY DEF Target, Call, Return, Reach, Trap, Exit, OtherSignal, Deliver
  <2>2. ~(Attach \/ AttachWait \/ TargetGone \/ RelaxStop \/ Poll \/ TimeOut \/ ApplyPatch)
    BY DEF Attach, AttachWait, TargetGone, RelaxStop, Poll, TimeOut, ApplyPatch
  <2>3. FirstBreakpoint \/ RelaxBreakpoint \/ Reached
    BY <2>1, <2>2 DEF Next, Katana
  <2> QED
    BY <2>3 DEF FirstBreakpoint, RelaxBreakpoint, Reached
<1> QED
  BY <1>1, PTL DEF Spec, WritesWhileStopped
=============================================================================
