------------------------------ MODULE SafeState ------------------------------
(***************************************************************************)
(* How katana brings a running target to a state in which its unsafe       *)
(* functions have no activation frame, so that it may be patched:          *)
(* patcher/safety.c (findActivationFrames, findSafeBreakpointForPatch,     *)
(* bringTargetToSafeState) over the ptrace primitives of patcher/target.c. *)
(*                                                                         *)
(* Two actors run concurrently: the target process, which calls and        *)
(* returns, and katana, which attaches, plants an int3 at a return address *)
(* of the stack, polls with waitpid(WNOHANG), and after a while interrupts *)
(* the target with SIGSTOP to plant the breakpoint nearer.                 *)
(*                                                                         *)
(* An address of the target is abstracted to the return address of a call  *)
(* site: the only addresses katana ever breaks at.                         *)
(***************************************************************************)
EXTENDS Naturals, Sequences, FiniteSets

CONSTANTS
  Funcs,          \* functions the target executes, its libraries' included
  Main,           \* the outermost function the unwinder sees
  TextFuncs,      \* those with an STT_FUNC symbol in the target's .text
  Unsafe,         \* the patch's .unsafe_functions, reindexed to the target
  Sites,          \* call sites, each named by its return address
  Owner,          \* Owner[s]: the function that holds site s
  Callees,        \* Callees[s]: the functions a call at s may enter
  NoSite,         \* "the pc is at no return address"
  MaxDepth,       \* bound: calls in progress
  MaxSignals,     \* bound: signals other than katana's sent to the target
  NumIterations,  \* maxWaitForPatching * 1e6 / WAIT_FOR_SAFE_PATCHING_USLEEP
  RelaxAfter,     \* iterations before the current frame is allowed as well
  StopTarget      \* EKCF_P_STOP_TARGET

ASSUME SitesAssumption ==
  /\ Main \in Funcs
  /\ Unsafe \subseteq TextFuncs
  /\ TextFuncs \subseteq Funcs
  /\ Owner \in [Sites -> Funcs]
  /\ Callees \in [Sites -> SUBSET Funcs]
  /\ NoSite \notin Sites

ASSUME BoundsAssumption ==
  /\ MaxDepth \in Nat /\ MaxSignals \in Nat
  /\ NumIterations \in Nat /\ RelaxAfter \in Nat
  /\ StopTarget \in BOOLEAN

VARIABLES
  \* the target
  stack,        \* return addresses of the calls in progress, oldest first
  cur,          \* the executing function (the frame unw_step steps over)
  at,           \* the return address the pc is at, or NoSite
  trapped,      \* the pc is just past the int3 at `at`
  text,         \* return addresses whose code bytes hold an int3
  tstate,       \* "running", "stopped", "exited" or "killed" (by SIGTRAP)
  pend,         \* signals generated for the target and not yet delivered
  signals,      \* signals of other processes still to come
  \* the kernel, between the two
  traced,       \* katana is the target's tracer
  event,        \* a change of the target's state waits for a waitpid
  \* katana
  pc,           \* where katana is
  i,            \* iterations of the polling loop
  avoid,        \* avoidCurrentFrame
  bp,           \* safeBreakpointSpot
  restoreInfo,  \* domain of the map breakpointRestoreInfo
  outcome       \* how katana ended

target == <<stack, cur, at, trapped, tstate, pend, signals>>
katana == <<pc, i, avoid, bp, restoreInfo, outcome>>
vars == <<stack, cur, at, trapped, text, tstate, pend, signals, traced, event,
          pc, i, avoid, bp, restoreInfo, outcome>>

Signals == {"SIGSTOP", "other"}

TypeOK ==
  /\ stack \in Seq(Sites)
  /\ cur \in Funcs
  /\ at \in Sites \cup {NoSite}
  /\ trapped \in BOOLEAN
  /\ text \subseteq Sites
  /\ tstate \in {"running", "stopped", "exited", "killed"}
  /\ pend \subseteq Signals
  /\ signals \in 0..MaxSignals
  /\ traced \in BOOLEAN
  /\ event \in BOOLEAN
  /\ pc \in {"start", "attachWait", "find", "loop", "relaxWait", "reached",
             "patching", "done", "dead"}
  /\ i \in 0..NumIterations
  /\ avoid \in BOOLEAN
  /\ bp \in Sites \cup {NoSite}
  /\ restoreInfo \subseteq Sites
  /\ outcome \in {"none", "patched", "neverPatchable", "assertion", "timeout",
                  "targetGone"}

Init ==
  /\ stack = << >> /\ cur = Main /\ at = NoSite /\ trapped = FALSE
  /\ text = {} /\ tstate = "running" /\ pend = {} /\ signals = MaxSignals
  /\ traced = FALSE /\ event = FALSE
  /\ pc = "start" /\ i = 0 /\ avoid = TRUE /\ bp = NoSite
  /\ restoreInfo = {} /\ outcome = "none"

-----------------------------------------------------------------------------
(* The target.  An int3 at the pc keeps it from executing anything else.   *)

Executes == tstate = "running" /\ ~(at \in text)

Call ==
  /\ Executes
  /\ Len(stack) < MaxDepth
  /\ \E s \in Sites : \E f \in Callees[s] :
        /\ Owner[s] = cur
        /\ stack' = Append(stack, s)
        /\ cur' = f
  /\ at' = NoSite
  /\ UNCHANGED <<trapped, text, tstate, pend, signals, traced, event, katana>>

Return ==
  /\ Executes
  /\ Len(stack) > 0
  /\ stack' = SubSeq(stack, 1, Len(stack) - 1)
  /\ at' = stack[Len(stack)]
  /\ cur' = Owner[stack[Len(stack)]]
  /\ UNCHANGED <<trapped, text, tstate, pend, signals, traced, event, katana>>

(* A return address is also reached by a branch around its call.           *)
Reach ==
  /\ Executes
  /\ \E s \in Sites : Owner[s] = cur /\ at' = s
  /\ UNCHANGED <<stack, cur, trapped, text, tstate, pend, signals, traced,
                 event, katana>>

(* The int3 stops a traced target and kills one nobody traces.             *)
Trap ==
  /\ tstate = "running"
  /\ at \in text
  /\ trapped' = TRUE
  /\ tstate' = IF traced THEN "stopped" ELSE "killed"
  /\ event' = traced
  /\ UNCHANGED <<stack, cur, at, text, pend, signals, traced, katana>>

Exit ==
  /\ Executes
  /\ stack = << >>
  /\ tstate' = "exited"
  /\ event' = traced
  /\ UNCHANGED <<stack, cur, at, trapped, text, pend, signals, traced, katana>>

OtherSignal ==
  /\ signals > 0
  /\ signals' = signals - 1
  /\ pend' = pend \cup {"other"}
  /\ UNCHANGED <<stack, cur, at, trapped, text, tstate, traced, event, katana>>

(* Every signal stops a traced target before it is delivered; an untraced  *)
(* one is stopped by SIGSTOP and handles the others.                       *)
Deliver ==
  /\ tstate = "running"
  /\ \E s \in pend :
        /\ pend' = pend \ {s}
        /\ tstate' = IF traced \/ s = "SIGSTOP" THEN "stopped" ELSE "running"
  /\ event' = traced
  /\ UNCHANGED <<stack, cur, at, trapped, text, signals, traced, katana>>

Target == Call \/ Return \/ Reach \/ Trap \/ Exit \/ OtherSignal

-----------------------------------------------------------------------------
(* katana: the choice of a breakpoint.                                     *)

(* Mutant of GoodFrames: an unsafe frame does not reject the newer ones.   *)
GoodFramesOneByOne ==
  { k \in 1..Len(stack) : Owner[stack[k]] \in TextFuncs \ Unsafe }

(* Positions of stack that findActivationFrames keeps and that have no     *)
(* unsafe function at or above them: the frames up to deepestGoodFrame.    *)
GoodFrames ==
  { k \in 1..Len(stack) :
      /\ Owner[stack[k]] \in TextFuncs
      /\ \A j \in 1..k : Owner[stack[j]] \notin Unsafe }

Deepest(k, S) == k \in S /\ \A j \in S : j <= k

(* findSafeBreakpointForPatch returns the pc of frame k: the deepest good  *)
(* one, or its predecessor when there is one and av (avoidCurrentFrame).   *)
SafeBreakpointFrame(av, k) ==
  \E d \in GoodFrames :
     /\ Deepest(d, GoodFrames)
     /\ IF av /\ GoodFrames # {d} THEN Deepest(k, GoodFrames \ {d}) ELSE k = d

(* death: katana aborts; the kernel detaches the target and lets it run,   *)
(* with whatever its text holds. A SIGTRAP not yet taken back kills it.    *)
Die(why, hit) ==
  /\ pc' = "dead" /\ outcome' = why
  /\ traced' = FALSE /\ event' = FALSE
  /\ tstate' = IF tstate # "stopped" THEN tstate
               ELSE IF hit THEN "killed" ELSE "running"
  /\ UNCHANGED <<stack, cur, at, pend, signals, i, bp>>

(* PTRACE_CONT with signal 0: the target runs, unless a signal is pending, *)
(* which stops it again before it executes anything.                       *)
Resume ==
  \/ /\ pend = {}
     /\ tstate' = "running" /\ event' = FALSE
     /\ UNCHANGED pend
  \/ \E s \in pend :
        /\ pend' = pend \ {s}
        /\ event' = TRUE
        /\ UNCHANGED tstate

(* findSafeBreakpointForPatch, setBreakpoint and continuePtrace, the text  *)
(* holding the int3s txt. mapInsert asserts that the key is new.           *)
PlantBreakpoint(av, txt) ==
  \/ /\ GoodFrames = {}
     /\ text' = txt
     /\ Die("neverPatchable", FALSE)
     /\ UNCHANGED restoreInfo
  \/ \E k \in GoodFrames :
        /\ SafeBreakpointFrame(av, k)
        /\ \/ /\ stack[k] \in restoreInfo
              /\ text' = txt
              /\ Die("assertion", FALSE)
              /\ UNCHANGED restoreInfo
           \/ /\ stack[k] \notin restoreInfo
              /\ restoreInfo' = restoreInfo \cup {stack[k]}
              /\ bp' = stack[k]
              /\ text' = txt \cup {stack[k]}
              /\ Resume
              /\ pc' = "loop"
              /\ UNCHANGED <<stack, cur, at, signals, traced, i, outcome>>

-----------------------------------------------------------------------------
(* katana: one action per stretch between two points where the target may  *)
(* run.                                                                    *)

(* startPtrace: PTRACE_ATTACH sends a SIGSTOP; one that finds no process   *)
(* fails.                                                                  *)
Attach ==
  /\ pc = "start"
  /\ \/ /\ tstate = "running"
        /\ traced' = TRUE
        /\ pend' = pend \cup {"SIGSTOP"}
        /\ pc' = "attachWait"
        /\ UNCHANGED <<stack, cur, at, trapped, text, tstate, signals, event,
                       i, avoid, bp, restoreInfo, outcome>>
     \/ /\ tstate = "exited"
        /\ Die("targetGone", FALSE)
        /\ UNCHANGED <<trapped, text, avoid, restoreInfo>>

(* startPtrace's blocking waitpid: the first change of state ends it.      *)
AttachWait ==
  /\ pc = "attachWait" /\ event
  /\ event' = FALSE
  /\ pc' = "find"
  /\ UNCHANGED <<target, text, traced, i, avoid, bp, restoreInfo, outcome>>

FirstBreakpoint ==
  /\ pc = "find" /\ tstate = "stopped"
  /\ PlantBreakpoint(avoid, text)
  /\ UNCHANGED <<trapped, avoid>>

(* ptrace requests on a target that has exited fail, and katana dies.      *)
TargetGone ==
  /\ \/ pc \in {"find", "reached"}
     \/ pc = "relaxWait" /\ event
  /\ tstate = "exited"
  /\ Die("targetGone", FALSE)
  /\ UNCHANGED <<trapped, text, avoid, restoreInfo>>

MustRelax == avoid /\ i > RelaxAfter

(* Mutant of RelaxStop: no waitpid after the SIGSTOP.                       *)
RelaxStopNoWait ==
  /\ pc = "loop" /\ i < NumIterations /\ MustRelax
  /\ pend' = IF tstate = "exited" THEN pend ELSE pend \cup {"SIGSTOP"}
  /\ avoid' = FALSE
  /\ UNCHANGED <<stack, cur, at, trapped, text, tstate, signals, traced, event,
                 pc, i, bp, restoreInfo, outcome>>

(* Mutant of RelaxStop: the waitpid without the SIGSTOP.                    *)
RelaxStopNoKill ==
  /\ pc = "loop" /\ i < NumIterations /\ MustRelax
  /\ pc' = "relaxWait"
  /\ UNCHANGED <<target, text, traced, event, i, avoid, bp, restoreInfo, outcome>>

(* Relaxing the restriction on the current frame: kill(pid, SIGSTOP) ...   *)
RelaxStop ==
  /\ pc = "loop" /\ i < NumIterations /\ MustRelax
  /\ pend' = IF tstate = "exited" THEN pend ELSE pend \cup {"SIGSTOP"}
  /\ pc' = "relaxWait"
  /\ UNCHANGED <<stack, cur, at, trapped, text, tstate, signals, traced, event,
                 i, avoid, bp, restoreInfo, outcome>>

(* Mutant of RemoveBreakpoint: the pc is left past the int3.               *)
RemoveBreakpointKeepPc == UNCHANGED trapped

(* removeBreakpoint: the original bytes come back, and a pc that has just  *)
(* passed the int3 goes back to the instruction it replaced.               *)
RemoveBreakpoint == trapped' = (trapped /\ at # bp)

(* Mutant of RelaxBreakpoint: the stop is not waited for.                  *)
RelaxBreakpointAtOnce ==
  /\ pc = "relaxWait"
  /\ avoid' = FALSE
  /\ RemoveBreakpoint
  /\ PlantBreakpoint(FALSE, text \ {bp})

(* ... waitpid, removeBreakpoint, and a new breakpoint.                    *)
RelaxBreakpoint ==
  /\ pc = "relaxWait" /\ event /\ tstate = "stopped"
  /\ avoid' = FALSE
  /\ RemoveBreakpoint
  /\ PlantBreakpoint(FALSE, text \ {bp})

(* waitpid(-1, NULL, WNOHANG): any change of state, whatever its cause, is *)
(* taken for the breakpoint.                                               *)
Poll ==
  /\ pc = "loop" /\ i < NumIterations /\ ~MustRelax
  /\ \/ /\ event
        /\ event' = FALSE
        /\ pc' = "reached"
        /\ UNCHANGED i
     \/ /\ ~event
        /\ i' = i + 1
        /\ UNCHANGED <<event, pc>>
  /\ UNCHANGED <<target, text, traced, avoid, bp, restoreInfo, outcome>>

Reached ==
  /\ pc = "reached" /\ tstate = "stopped"
  /\ RemoveBreakpoint
  /\ text' = text \ {bp}
  /\ pc' = "patching"
  /\ UNCHANGED <<stack, cur, at, tstate, pend, signals, traced, event, i, avoid,
                 bp, restoreInfo, outcome>>

(* Mutant of TimeOut: breakpointReached is not tested after the loop.      *)
TimeOutPatches ==
  /\ pc = "loop" /\ i >= NumIterations
  /\ pc' = "patching"
  /\ UNCHANGED <<target, text, traced, event, i, avoid, bp, restoreInfo, outcome>>

TimeOut ==
  /\ pc = "loop" /\ i >= NumIterations
  /\ Die("timeout", trapped)
  /\ UNCHANGED <<trapped, text, avoid, restoreInfo>>

(* The rest of readAndApplyPatch, then endPtrace: PTRACE_DETACH, and a     *)
(* SIGSTOP, or a SIGCONT, which takes back a pending SIGSTOP.              *)
ApplyPatch ==
  /\ pc = "patching"
  /\ pc' = "done" /\ outcome' = "patched"
  /\ traced' = FALSE
  /\ tstate' = "running"
  /\ pend' = IF StopTarget THEN pend \cup {"SIGSTOP"} ELSE pend \ {"SIGSTOP"}
  /\ UNCHANGED <<stack, cur, at, trapped, text, signals, event, i, avoid, bp,
                 restoreInfo>>

Katana ==
  \/ Attach \/ AttachWait \/ FirstBreakpoint \/ TargetGone
  \/ RelaxStop \/ RelaxBreakpoint \/ Poll \/ Reached \/ TimeOut \/ ApplyPatch

Next == Target \/ Deliver \/ Katana

Spec == Init /\ [][Next]_vars

(* katana is a runnable process, and the kernel delivers the signals of a  *)
(* running one; nothing obliges the target to call, return or exit.        *)
Fairness == WF_vars(Katana) /\ WF_vars(Deliver)
FairSpec == Spec /\ Fairness

-----------------------------------------------------------------------------
(* Properties.                                                             *)

ActiveFuncs == { Owner[stack[k]] : k \in 1..Len(stack) } \cup {cur}

(* The patch is applied only while no unsafe function has an activation    *)
(* record: what .unsafe_functions is for (doc/katana.txt 3.6), and what    *)
(* bringTargetToSafeState returns having established.                      *)
PatchOnlyWhenSafe ==
  pc = "patching" => ActiveFuncs \cap Unsafe = {}

(* The whole protocol implements QuiescentPatch: the target changes its    *)
(* stack freely, and the one step that applies the patch happens while no  *)
(* unsafe function is active.                                              *)
PatchState ==
  IF outcome = "none" THEN "waiting"
  ELSE IF outcome = "patched" THEN "patched" ELSE "gaveUp"
Quiescent == INSTANCE QuiescentPatch WITH active <- ActiveFuncs, state <- PatchState
ImplementsQuiescentPatch == Quiescent!Spec

(* While katana polls, its breakpoint is still ahead of the target (a      *)
(* return address of the stack, under no unsafe frame), or the target is   *)
(* at it: findSafeBreakpointForPatch never plants one that execution has   *)
(* passed, and the target cannot outrun it.                                *)
BreakpointAhead ==
  pc = "loop" /\ ~event =>
    \/ at = bp
    \/ \E k \in 1..Len(stack) :
          /\ stack[k] = bp
          /\ \A j \in 1..k : Owner[stack[j]] \notin Unsafe

(* When the patch is applied and ever after, katana's int3s are gone and   *)
(* the pc is not left past the first byte of the instruction one of them   *)
(* replaced (removeBreakpoint), even where the stop was not the            *)
(* breakpoint's or the breakpoint had been moved.                          *)
TextRestored ==
  pc \in {"patching", "done"} => text = {} /\ ~trapped

(* katana writes the target's text only while the target is stopped: the   *)
(* SIGSTOP of the relaxation is waited for before removeBreakpoint.        *)
WritesWhileStopped == [][text' # text => tstate = "stopped"]_vars

(* katana always comes to an end: the blocking waitpids of startPtrace and *)
(* of the relaxation return whatever the target does meanwhile.            *)
KatanaFinishes == <>(pc \in {"done", "dead"})
=============================================================================
