---------------------------- MODULE InjectedCall ----------------------------
(***************************************************************************)
(* Code that katana runs in the stopped target: mallocTarget and           *)
(* mmapTarget of patcher/target.c, and the search for malloc in the link   *)
(* map that precedes them.  A call saves the registers and some text,      *)
(* writes its own code there, lets the target run until wait(NULL) reports *)
(* a change of state, whatever its reason, takes register AX for the       *)
(* result and puts text and registers back.  Requests of ptrace are single *)
(* steps; the target runs between PTRACE_CONT and its next stop, and can   *)
(* be killed at any time.                                                  *)
(***************************************************************************)
EXTENDS LinkMap

CONSTANTS
  Blocks,      \* addresses of the target's heap that malloc may return
  Pages,       \* addresses mmap may return
  NULL,        \* what malloc returns when it fails
  MAP_FAILED,  \* -1, which the kernel returns for EPERM only
  Errno,       \* any other error the kernel returns: -errno
  Own,         \* a value of the target's own computation
  SYS_mmap,    \* the number of the system call, in AX before the call
  LinkMaps,    \* the link maps of a run
  Stops,       \* where the target may be when the patch is applied
  MaxCalls,    \* bound: injected calls
  MaxForeign   \* bound: signals of other processes, SIGKILL included

ASSUME StopsAssumption == Stops \subseteq {"afterCall", "leaf", "inMalloc"}

\* An object does not import what it defines: the linker gives a name one
\* entry of the dynamic symbol table.
ASSUME LinkMapsAssumption ==
  /\ LinkMaps \subseteq Seq([kind : ObjectKind, chain : Seq(DynSymbol)])
  /\ \A m \in LinkMaps : \A i \in DOMAIN m : \A j, k \in DOMAIN m[i].chain :
       m[i].chain[j].name = m[i].chain[k].name
         => m[i].chain[j].imported = m[i].chain[k].imported

ASSUME BoundsAssumption == MaxCalls \in Nat /\ MaxForeign \in Nat

VARIABLES
  pc,            \* katana: its next request
  at,            \* the object of the link map it examines
  linkMap,
  mallocAddress, \* the symbol it has found, or <<>>
  kind,          \* the call under way: "malloc", "mmap" or "none"
  oldRegs,       \* registers saved by the call under way
  newRegs,       \* registers to be set, and those read after the call
  oldText,       \* what the call under way has saved of the text
  given,         \* all results so far
  calls,
  run,           \* the target: "stopped", "running", "killed" or "left"
  regs,          \* its registers
  text,          \* its text at targetTextStart and where it has stopped
  below,         \* the word of the stack below its stack pointer
  busy,          \* malloc is in the middle of a change of the heap
  where,         \* where it was stopped for the patch
  foreign,       \* signals so far
  disturbed      \* history: it has been stopped or killed by a signal

katana == <<pc, at, linkMap, mallocAddress, kind, oldRegs, newRegs, oldText, given, calls>>
target == <<run, regs, text, below, busy>>
world  == <<where, foreign, disturbed>>
vars   == <<katana, target, world>>

Place == {"start", "ip"}
Code  == {"own", "malloc", "mmap"}

\* Instruction pointers: where the target has stopped, in the code of one of
\* the calls (first instruction, or past its int3), in malloc, or waiting in
\* malloc for a change of the heap to end that never will.
Ip == {"own", "start", "afterMalloc", "here", "afterMmap", "malloc", "lock"}
Value == Blocks \cup Pages \cup {NULL, MAP_FAILED, Errno, Own, SYS_mmap}
Regs  == [ip : Ip, ax : Value]

OwnRegs == [ip |-> "own", ax |-> Own]

KatanaSteps == {"locate", "idle", "code", "push", "regs", "cont", "wait",
                "result", "untext", "unregs", "done", "dead"}

Ended == pc \in {"done", "dead"}

Init ==
  /\ pc = "locate" /\ at = 1 /\ linkMap \in LinkMaps /\ mallocAddress = <<>>
  /\ kind = "none" /\ oldRegs = OwnRegs /\ newRegs = OwnRegs /\ oldText = "own"
  /\ given = {} /\ calls = 0
  /\ run = "stopped" /\ regs = OwnRegs /\ text = [p \in Place |-> "own"]
  /\ where \in Stops
  /\ below = IF where = "leaf" THEN "live" ELSE "free"
  /\ busy = (where = "inMalloc")
  /\ foreign = 0 /\ disturbed = (where # "afterCall")

-----------------------------------------------------------------------------
(* katana *)

\* death(): the kernel detaches a traced process, which goes on where it is.
Die ==
  /\ pc' = "dead"
  /\ run' = IF run = "killed" THEN run ELSE "left"
  /\ UNCHANGED <<at, linkMap, mallocAddress, kind, oldRegs, newRegs, oldText, given, calls,
                 regs, text, below, busy, world>>

\* Every request of ptrace fails once the target is gone.
TargetGone ==
  /\ run = "killed" /\ ~Ended
  /\ Die

Goto(next) == run # "killed" /\ pc' = next

\* Mutant: an import symbol is taken for the definition.
LocateSymbolImported ==
  /\ pc = "locate" /\ at <= Len(linkMap)
  /\ IF linkMap[at].kind = "plain" /\ Matches(linkMap[at].chain) # {}
       THEN /\ mallocAddress' = locateSymbolInLinkMap(linkMap, at)
            /\ Goto("idle") /\ UNCHANGED at
       ELSE /\ at' = at + 1
            /\ Goto("locate") /\ UNCHANGED mallocAddress
  /\ UNCHANGED <<linkMap, kind, oldRegs, newRegs, oldText, given, calls, target, world>>

\* locateRuntimeSymbolInTarget: one object of the link map.
LocateSymbol ==
  /\ pc = "locate" /\ at <= Len(linkMap)
  /\ IF Found(linkMap[at])
       THEN /\ mallocAddress' = locateSymbolInLinkMap(linkMap, at)
            /\ Goto("idle") /\ UNCHANGED at
       ELSE /\ at' = at + 1
            /\ Goto("locate") /\ UNCHANGED mallocAddress
  /\ UNCHANGED <<linkMap, kind, oldRegs, newRegs, oldText, given, calls, target, world>>

NotLocated ==
  /\ pc = "locate" /\ at > Len(linkMap)
  /\ Die

\* Where a call writes its code, and which code.
CodePlace(k) == IF k = "malloc" THEN "start" ELSE "ip"
CodeOf(k)    == k

\* getTargetRegs and memcpyFromTarget: what will be put back.
SaveState(k) ==
  /\ pc = "idle" /\ calls < MaxCalls
  /\ kind' = k /\ oldRegs' = regs /\ oldText' = text[CodePlace(k)]
  /\ calls' = calls + 1
  /\ Goto("code")
  /\ UNCHANGED <<at, linkMap, mallocAddress, newRegs, given, target, world>>

WriteCode ==
  /\ pc = "code"
  /\ text' = [text EXCEPT ![CodePlace(kind)] = CodeOf(kind)]
  /\ Goto(IF kind = "mmap" THEN "push" ELSE "regs")
  /\ UNCHANGED <<at, linkMap, mallocAddress, kind, oldRegs, newRegs, oldText, given, calls,
                 run, regs, below, busy, world>>

\* mmapTarget pushes the address of its int3, which nothing pops.
PushReturnAddress ==
  /\ pc = "push"
  /\ below' = "returnAddr"
  /\ Goto("regs")
  /\ UNCHANGED <<at, linkMap, mallocAddress, kind, oldRegs, newRegs, oldText, given, calls,
                 run, regs, text, busy, world>>

\* mallocTarget moves the instruction pointer; mmapTarget has written its
\* code where the pointer already is.
CallRegs == IF kind = "malloc"
              THEN [ip |-> "start", ax |-> oldRegs.ax]
              ELSE [ip |-> "here", ax |-> SYS_mmap]

SetTargetRegs ==
  /\ pc = "regs"
  /\ newRegs' = CallRegs /\ regs' = CallRegs
  /\ Goto("cont")
  /\ UNCHANGED <<at, linkMap, mallocAddress, kind, oldRegs, oldText, given, calls,
                 run, text, below, busy, world>>

ContinuePtrace ==
  /\ pc = "cont" /\ run = "stopped"
  /\ Goto("wait") /\ run' = "running"
  /\ UNCHANGED <<at, linkMap, mallocAddress, kind, oldRegs, newRegs, oldText, given, calls,
                 regs, text, below, busy, world>>

\* Mutant: a stop that is not the one of the int3 is fatal.
WaitOrDie ==
  /\ pc = "wait" /\ run = "stopped"
  /\ IF regs.ip \in {"afterMalloc", "afterMmap"}
       THEN /\ Goto("result")
            /\ UNCHANGED <<at, linkMap, mallocAddress, kind, oldRegs, newRegs, oldText, given, calls,
                           target, world>>
       ELSE Die

\* Mutant: only the stop of the int3 ends the wait.
WaitForInt3 ==
  /\ pc = "wait" /\ run = "stopped" /\ regs.ip \in {"afterMalloc", "afterMmap"}
  /\ Goto("result")
  /\ UNCHANGED <<at, linkMap, mallocAddress, kind, oldRegs, newRegs, oldText, given, calls,
                 target, world>>

\* wait(NULL): any change of state of the target.
Wait ==
  /\ pc = "wait" /\ run = "stopped"
  /\ Goto("result")
  /\ UNCHANGED <<at, linkMap, mallocAddress, kind, oldRegs, newRegs, oldText, given, calls,
                 target, world>>

Refused(value) == value = IF kind = "malloc" THEN NULL ELSE MAP_FAILED

\* Mutant: the result is taken from the registers as they were set.
GetResultUnread ==
  /\ pc = "result" /\ ~Refused(newRegs.ax)
  /\ Goto("untext")
  /\ UNCHANGED <<at, linkMap, mallocAddress, kind, oldRegs, newRegs, oldText, given, calls,
                 target, world>>

GetResult ==
  /\ pc = "result" /\ ~Refused(regs.ax)
  /\ newRegs' = regs
  /\ Goto("untext")
  /\ UNCHANGED <<at, linkMap, mallocAddress, kind, oldRegs, oldText, given, calls,
                 target, world>>

\* death("malloc in target of size %i failed") and "mmap in target failed".
GetRefusal ==
  /\ pc = "result" /\ Refused(regs.ax) /\ run # "killed"
  /\ Die

\* Mutant: the text is restored where the call has ended.
RestoreTextAtEnd ==
  /\ pc = "untext"
  /\ text' = IF newRegs.ip = "here" THEN [text EXCEPT !["ip"] = oldText] ELSE text
  /\ Goto("unregs")
  /\ UNCHANGED <<at, linkMap, mallocAddress, kind, oldRegs, newRegs, oldText, given, calls,
                 run, regs, below, busy, world>>

\* The restored text lies at the old instruction pointer, not at the one the
\* call has ended with.
RestoreText ==
  /\ pc = "untext"
  /\ text' = [text EXCEPT ![CodePlace(kind)] = oldText]
  /\ Goto("unregs")
  /\ UNCHANGED <<at, linkMap, mallocAddress, kind, oldRegs, newRegs, oldText, given, calls,
                 run, regs, below, busy, world>>

RestoreRegs ==
  /\ pc = "unregs"
  /\ regs' = oldRegs
  /\ given' = given \cup {newRegs.ax} /\ kind' = "none"
  /\ Goto("idle")
  /\ UNCHANGED <<at, linkMap, mallocAddress, oldRegs, newRegs, oldText, calls,
                 run, text, below, busy, world>>

\* The patch is complete: endPtrace.
EndPtrace ==
  /\ pc = "idle" /\ given # {}
  /\ Goto("done") /\ run' = "left"
  /\ UNCHANGED <<at, linkMap, mallocAddress, kind, oldRegs, newRegs, oldText, given, calls,
                 regs, text, below, busy, world>>

Katana ==
  \/ TargetGone \/ LocateSymbol \/ NotLocated
  \/ SaveState("malloc") \/ SaveState("mmap")
  \/ WriteCode \/ PushReturnAddress \/ SetTargetRegs \/ ContinuePtrace \/ Wait
  \/ GetResult \/ GetRefusal \/ RestoreText \/ RestoreRegs \/ EndPtrace

-----------------------------------------------------------------------------
(* The target, the kernel and other processes *)

Runs(ip) == run = "running" /\ regs.ip = ip

\* The call of malloc.  A heap that is being changed already cannot be
\* changed: malloc waits for the lock it holds itself.
CallMalloc ==
  /\ Runs("start") /\ text["start"] = "malloc"
  /\ regs' = [ip |-> IF busy THEN "lock" ELSE "malloc", ax |-> regs.ax]
  /\ busy' = TRUE /\ below' = "returnAddr"
  /\ UNCHANGED <<katana, run, text, world>>

\* malloc returns, and the int3 behind the call stops the target.
MallocReturns ==
  /\ Runs("malloc")
  /\ \E value \in (Blocks \ given) \cup {NULL} :
        regs' = [ip |-> "afterMalloc", ax |-> value]
  /\ busy' = FALSE /\ run' = "stopped"
  /\ UNCHANGED <<katana, text, below, world>>

\* The system call and the int3 behind it.
SystemCall ==
  /\ Runs("here") /\ text["ip"] = "mmap" /\ regs.ax = SYS_mmap
  /\ \E value \in (Pages \ given) \cup {MAP_FAILED, Errno} :
        regs' = [ip |-> "afterMmap", ax |-> value]
  /\ run' = "stopped"
  /\ UNCHANGED <<katana, text, below, busy, world>>

\* A signal of another process or of a timer, or a fault in malloc, which
\* katana has called with a stack that is not aligned.
ForeignStop ==
  /\ run = "running" /\ foreign < MaxForeign
  /\ run' = "stopped" /\ foreign' = foreign + 1 /\ disturbed' = TRUE
  /\ \E ax \in {regs.ax} \cup (IF regs.ip = "malloc" THEN {Own, NULL} ELSE {}) :
        regs' = [ip |-> regs.ip, ax |-> ax]
  /\ UNCHANGED <<katana, text, below, busy, where>>

Kill ==
  /\ run \in {"running", "stopped"} /\ foreign < MaxForeign
  /\ run' = "killed" /\ foreign' = foreign + 1 /\ disturbed' = TRUE
  /\ UNCHANGED <<katana, regs, text, below, busy, where>>

Target == CallMalloc \/ MallocReturns \/ SystemCall

Next == Katana \/ Target \/ ForeignStop \/ Kill

\* katana is one thread that never stops by itself; the target is scheduled,
\* and malloc and the kernel return.
Fairness == WF_vars(Katana) /\ WF_vars(Target)

Spec == Init /\ [][Next]_vars /\ Fairness

-----------------------------------------------------------------------------
(* Properties *)

TypeOK ==
  /\ pc \in KatanaSteps /\ at \in 1..Len(linkMap) + 1 /\ linkMap \in LinkMaps
  /\ mallocAddress = <<>> \/ mallocAddress.name \in Names
  /\ kind \in {"none", "malloc", "mmap"}
  /\ oldRegs \in Regs /\ newRegs \in Regs /\ oldText \in Code
  /\ given \subseteq Value /\ calls \in 0..MaxCalls
  /\ run \in {"stopped", "running", "killed", "left"}
  /\ regs \in Regs /\ text \in [Place -> Code]
  /\ below \in {"free", "live", "returnAddr"} /\ busy \in BOOLEAN
  /\ where \in Stops /\ foreign \in 0..MaxForeign /\ disturbed \in BOOLEAN

\* Between two calls, and when katana leaves the target to itself, text and
\* registers are the target's own (target.c:393-397 and :497-502), whatever
\* has ended the calls; and without signals no malloc has been abandoned.
TargetIsItsOwn ==
  pc \in {"idle", "done"} =>
    /\ text = [p \in Place |-> "own"]
    /\ regs = OwnRegs
    /\ disturbed \/ ~busy

\* When katana dies and the target lives on, the target continues in its own
\* text and with its own registers, or its memory was refused: only the two
\* deaths of target.c:391 and :494 leave it in katana's code.
OnlyRefusalLeavesCode ==
  pc = "dead" /\ run = "left" =>
    \/ text = [p \in Place |-> "own"] /\ regs = OwnRegs
    \/ Refused(regs.ax)

\* Where every object of the link map that defines malloc can be examined,
\* and no symbol of its bucket has a name that begins with malloc, katana
\* calls the malloc the target's own calls are bound to (linkmap.c:222-254).
MallocIsTheTargets ==
  (/\ mallocAddress # <<>>
   /\ \A i \in Definers(linkMap) : linkMap[i].kind = "plain"
   /\ \A i \in DOMAIN linkMap : \A j \in DOMAIN linkMap[i].chain : linkMap[i].chain[j].name \notin Longer)
  => /\ mallocAddress.name = Wanted
     /\ mallocAddress.object \in Definers(linkMap)
     /\ \A i \in Definers(linkMap) : mallocAddress.object <= i

\* As long as no signal interferes, an injected call is the atomic step that
\* hotpatch.c:96 and dwarfvm.c:460 take it for (AtomicCalls).
AtomicCall ==
  INSTANCE AtomicCalls WITH
    Memory <- Blocks \cup Pages,
    outcome <- IF Ended THEN pc ELSE "working"

ImplementsAtomicCalls == AtomicCall!Spec

\* katana ends, whatever the signals and refusals (the wait of target.c:386
\* and :489 has no time limit), unless it has made the target call malloc
\* while a signal had stopped it within malloc.
KatanaEnds == <>(Ended \/ (regs.ip = "lock" /\ disturbed))
=============================================================================
