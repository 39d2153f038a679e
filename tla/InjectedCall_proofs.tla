------------------------- MODULE InjectedCall_proofs -------------------------
(***************************************************************************)
(* Proofs about InjectedCall, for any link maps, any results of malloc and *)
(* mmap, and any number of calls and signals: type correctness, that text  *)
(* and registers are given back, that the malloc called is the target's    *)
(* own, and that an undisturbed call is an atomic step.                    *)
(***************************************************************************)
EXTENDS InjectedCall, Integers, FiniteSets, FiniteSetTheorems, WellFoundedInduction, TLAPS

-----------------------------------------------------------------------------
(* A set of natural numbers that is not empty has a least element, the     *)
(* form in which induction is used here: of the intervals from 0 to its    *)
(* elements one includes no other strictly.                                *)
LEMMA LeastNatural ==
  ASSUME NEW S \in SUBSET Nat, S # {}
  PROVE  \E n \in S : \A m \in S : n <= m
<1> DEFINE Intervals == {0..n : n \in S}
<1>1. Intervals \subseteq FiniteSubsetsOf(Nat)
  <2>1. \A n \in S : 0..n \in SUBSET Nat /\ IsFiniteSet(0..n)
    BY FS_Interval
  <2> QED
    BY <2>1, Zenon DEF FiniteSubsetsOf
<1>2. Intervals # {}
  OBVIOUS
<1>3. PICK I \in Intervals : \A J \in Intervals : ~ (<<J, I>> \in StrictSubsetOrdering(Nat))
  <2> HIDE DEF Intervals
  <2> QED
    BY <1>1, <1>2, FS_StrictSubsetOrderingWellFounded, WFMin
<1>4. PICK n \in S : I = 0..n
  OBVIOUS
<1>5. ASSUME NEW m \in S, m < n
      PROVE  FALSE
  <2>1. 0..m \subseteq 0..n /\ n \in 0..n /\ n \notin 0..m
    BY <1>5
  <2>2. 0..m # 0..n
    BY <2>1, Zenon
  <2>3. 0..m \in SUBSET Nat /\ 0..n \in SUBSET Nat /\ 0..m \in Intervals
    OBVIOUS
  <2>4. <<0..m, 0..n>> \notin StrictSubsetOrdering(Nat)
    BY <2>3, <1>3, <1>4, Zenon
  <2>5. \A A, B \in SUBSET Nat : A \subseteq B /\ A # B => <<A, B>> \in StrictSubsetOrdering(Nat)
    BY DEF StrictSubsetOrdering
  <2> QED
    BY <2>1, <2>2, <2>3, <2>4, <2>5, Zenon
<1> QED
  BY <1>5

-----------------------------------------------------------------------------
Calling == {"code", "push", "regs", "cont", "wait", "result", "untext", "unregs"}

OwnText == [p \in Place |-> "own"]

(* What the call under way has changed of the text.                        *)
CallText == [p \in Place |-> IF p = CodePlace(kind) THEN CodeOf(kind) ELSE "own"]

(* A call has saved what is the target's own, and has borrowed text,       *)
(* registers and the target's run from one request to another.             *)
Borrowed ==
  /\ pc \in {"locate", "idle", "done"} => kind = "none"
  /\ pc \in Calling => kind \in {"malloc", "mmap"} /\ oldRegs = OwnRegs /\ oldText = "own"
  /\ pc = "push" => kind = "mmap"
  /\ pc \in {"locate", "idle", "done", "code", "unregs"} => text = OwnText
  /\ pc \in {"push", "regs", "cont", "wait", "result", "untext"} => text = CallText
  /\ pc \in {"locate", "idle", "done", "code", "push", "regs"} => regs = OwnRegs

(* The target runs only while katana waits, until it is left to itself.    *)
Running ==
  /\ run = "killed" => disturbed
  /\ run = "running" => pc = "wait"
  /\ run = "left" <=> (Ended /\ run # "killed")

(* When katana dies.                                                       *)
AtDeath ==
  pc = "dead" /\ run = "left" => (text = OwnText /\ regs = OwnRegs) \/ Refused(regs.ax)

(* The objects before the one under examination do not have the symbol.    *)
Search ==
  /\ \A i \in 1..(at - 1) : ~Found(linkMap[i])
  /\ pc = "locate" => mallocAddress = <<>>
  /\ mallocAddress # <<>> =>
       /\ at \in DOMAIN linkMap /\ Found(linkMap[at])
       /\ mallocAddress = locateSymbolInLinkMap(linkMap, at)

(* Without a signal, the target is where the call has put it.              *)
FreshResult(value) ==
  value \in (IF kind = "malloc" THEN (Blocks \ given) \cup {NULL}
             ELSE (Pages \ given) \cup {MAP_FAILED, Errno})

Undisturbed ==
  ~disturbed =>
    /\ busy => pc = "wait" /\ run = "running" /\ regs.ip = "malloc"
    /\ pc = "cont" => regs = CallRegs
    /\ pc = "wait" /\ run = "running" =>
         \/ regs = CallRegs
         \/ kind = "malloc" /\ regs.ip = "malloc"
    /\ (pc = "wait" /\ run = "stopped") \/ pc = "result" => FreshResult(regs.ax)
    /\ pc \in {"untext", "unregs"} => FreshResult(newRegs.ax) /\ ~Refused(newRegs.ax)

IInv == TypeOK /\ Borrowed /\ Running /\ AtDeath /\ Search /\ Undisturbed

-----------------------------------------------------------------------------
(* The first of a set of positions.                                        *)
LEMMA FirstOfIsFirst ==
  ASSUME NEW S \in SUBSET Nat, S # {}
  PROVE  FirstOf(S) \in S /\ \A j \in S : FirstOf(S) <= j
<1>1. \E i \in S : \A j \in S : i <= j
  BY LeastNatural
<1> QED
  BY <1>1 DEF FirstOf

LEMMA ElementOfSequence ==
  ASSUME NEW R, NEW m \in Seq(R), NEW i \in DOMAIN m
  PROVE  m[i] \in R
OBVIOUS

(* The symbol found in an object is one of its chain.                      *)
LEMMA LocatedSymbol ==
  ASSUME NEW m \in LinkMaps, NEW i \in DOMAIN m, Found(m[i])
  PROVE  /\ FirstOf(Matches(m[i].chain)) \in Matches(m[i].chain)
         /\ locateSymbolInLinkMap(m, i).name \in Names
<1> DEFINE chain == m[i].chain
<1>1. chain \in Seq(DynSymbol)
  <2>1. m \in Seq([kind : ObjectKind, chain : Seq(DynSymbol)])
    BY LinkMapsAssumption, Zenon
  <2>2. m[i] \in [kind : ObjectKind, chain : Seq(DynSymbol)]
    BY <2>1, ElementOfSequence
  <2> QED
    BY <2>2
<1>2. Matches(chain) \in SUBSET Nat /\ Matches(chain) # {}
  BY <1>1 DEF Matches, Found
<1>3. FirstOf(Matches(chain)) \in Matches(chain)
  BY <1>2, FirstOfIsFirst
<1> HIDE DEF chain
<1>4. FirstOf(Matches(chain)) \in DOMAIN chain
  BY <1>3 DEF Matches
<1>5. chain[FirstOf(Matches(chain))].name \in Names
  <2>1. chain[FirstOf(Matches(chain))] \in DynSymbol
    BY <1>1, <1>4
  <2> QED
    BY <2>1 DEF DynSymbol
<1> QED
  BY <1>3, <1>5 DEF locateSymbolInLinkMap, chain

(* Where no name is longer than the one looked up, the look-up finds it in *)
(* exactly the plain objects that define it.                               *)
LEMMA FoundWhereDefined ==
  ASSUME NEW m \in LinkMaps, NEW i \in DOMAIN m,
         \A j \in DOMAIN m[i].chain : m[i].chain[j].name \notin Longer
  PROVE  /\ Found(m[i]) => Defines(m[i]) /\ locateSymbolInLinkMap(m, i).name = Wanted
         /\ m[i].kind = "plain" /\ Defines(m[i]) => Found(m[i])
<1> DEFINE chain == m[i].chain
           first == FirstOf(Matches(chain))
<1>1. chain \in Seq(DynSymbol)
  <2>1. m \in Seq([kind : ObjectKind, chain : Seq(DynSymbol)])
    BY LinkMapsAssumption, Zenon
  <2>2. m[i] \in [kind : ObjectKind, chain : Seq(DynSymbol)]
    BY <2>1, ElementOfSequence
  <2> QED
    BY <2>2
<1>2. \A j, k \in DOMAIN chain : chain[j].name = chain[k].name => chain[j].imported = chain[k].imported
  BY LinkMapsAssumption, Zenon
<1>3. Matches(chain) \subseteq Nat
  BY <1>1 DEF Matches
<1>4. \A j \in DOMAIN chain : j \in Matches(chain) <=> chain[j].name = Wanted
  BY DEF Matches, strnmatchTarget
<1>5. Matches(chain) # {} => first \in DOMAIN chain /\ chain[first].name = Wanted
  <2>1. Matches(chain) # {} => first \in Matches(chain)
    BY <1>3, FirstOfIsFirst
  <2>2. Matches(chain) \subseteq DOMAIN chain
    BY DEF Matches
  <2> QED
    BY <1>4, <2>1, <2>2, Zenon
<1>6. ASSUME Found(m[i])
      PROVE  Defines(m[i]) /\ locateSymbolInLinkMap(m, i).name = Wanted
  <2>1. Matches(chain) # {} /\ ~chain[first].imported
    BY <1>6, Zenon DEF Found
  <2>2. Defines(m[i])
    BY <1>5, <2>1, Zenon DEF Defines
  <2>3. locateSymbolInLinkMap(m, i).name = chain[first].name
    BY DEF locateSymbolInLinkMap
  <2> QED
    BY <1>5, <2>1, <2>2, <2>3, Zenon
<1>7. ASSUME m[i].kind = "plain", Defines(m[i])
      PROVE  Found(m[i])
  <2>1. PICK j \in DOMAIN chain : chain[j].name = Wanted /\ ~chain[j].imported
    BY <1>7, Zenon DEF Defines
  <2>2. Matches(chain) # {}
    BY <1>4, <2>1, Zenon
  <2>3. chain[first].imported = chain[j].imported
    BY <1>2, <1>5, <2>1, <2>2, Zenon
  <2> QED
    BY <1>7, <2>1, <2>2, <2>3, Zenon DEF Found
<1> QED
  BY <1>6, <1>7, Zenon

LEMMA TypeStep ==
  ASSUME TypeOK, Borrowed, [Next]_vars
  PROVE  TypeOK'
<1> USE LinkMapsAssumption, BoundsAssumption DEF TypeOK, Goto, katana, target, world, Regs, Value, Ip, Place, Code, KatanaSteps, OwnRegs
<1>1. CASE TargetGone
  BY <1>1 DEF TargetGone, Die
<1>2. CASE LocateSymbol
  BY <1>2, LocatedSymbol DEF LocateSymbol
<1>3. CASE NotLocated
  BY <1>3 DEF NotLocated, Die
<1>4. CASE SaveState("malloc")
  BY <1>4 DEF SaveState, CodePlace
<1>5. CASE SaveState("mmap")
  BY <1>5 DEF SaveState, CodePlace
<1>6. CASE WriteCode
  BY <1>6 DEF WriteCode, Borrowed, Calling, CodePlace, CodeOf
<1>7. CASE PushReturnAddress
  BY <1>7 DEF PushReturnAddress
<1>8. CASE SetTargetRegs
  BY <1>8 DEF SetTargetRegs, CallRegs
<1>9. CASE ContinuePtrace
  BY <1>9 DEF ContinuePtrace
<1>10. CASE Wait
  BY <1>10 DEF Wait
<1>11. CASE GetResult
  BY <1>11 DEF GetResult
<1>12. CASE GetRefusal
  BY <1>12 DEF GetRefusal, Die
<1>13. CASE RestoreText
  BY <1>13 DEF RestoreText, CodePlace
<1>14. CASE RestoreRegs
  BY <1>14 DEF RestoreRegs
<1>15. CASE EndPtrace
  BY <1>15 DEF EndPtrace
<1>16. CASE CallMalloc
  BY <1>16 DEF CallMalloc, Runs
<1>17. CASE MallocReturns
  <2>1. PICK value \in (Blocks \ given) \cup {NULL} : regs' = [ip |-> "afterMalloc", ax |-> value]
    BY <1>17 DEF MallocReturns
  <2>2. regs' \in Regs
    BY <2>1
  <2>3. busy' = FALSE /\ run' = "stopped" /\ UNCHANGED <<katana, text, below, world>>
    BY <1>17 DEF MallocReturns
  <2> HIDE DEF Regs, Value, Ip
  <2> QED
    BY <2>2, <2>3
<1>18. CASE SystemCall
  BY <1>18 DEF SystemCall, Runs
<1>19. CASE ForeignStop
  BY <1>19 DEF ForeignStop
<1>20. CASE Kill
  BY <1>20 DEF Kill
<1>21. CASE UNCHANGED vars
  BY <1>21 DEF vars, katana, target, world
<1> QED
  BY <1>1, <1>2, <1>3, <1>4, <1>5, <1>6, <1>7, <1>8, <1>9, <1>10, <1>11, <1>12, <1>13, <1>14, <1>15, <1>16, <1>17, <1>18, <1>19, <1>20, <1>21 DEF Next, Katana, Target

LEMMA BorrowedStep ==
  ASSUME TypeOK, Borrowed, [Next]_vars
  PROVE  Borrowed'
<1> USE DEF Borrowed, TypeOK, Place, OwnText, CallText, CodePlace, CodeOf, OwnRegs, Regs, Goto, Ended, katana, target, world, Calling
<1>1. CASE TargetGone
  BY <1>1 DEF TargetGone, Die
<1>2. CASE LocateSymbol
  BY <1>2 DEF LocateSymbol
<1>3. CASE NotLocated
  BY <1>3 DEF NotLocated, Die
<1>4. CASE SaveState("malloc")
  <2>1. /\ pc' = "code" /\ kind' = "malloc" /\ UNCHANGED <<text, regs>>
        /\ oldRegs' = regs /\ oldText' = text["start"]
    BY <1>4 DEF SaveState
  <2>2. regs = OwnRegs /\ text = OwnText
    BY <1>4 DEF SaveState
  <2>3. oldText' = "own"
    BY <2>1, <2>2
  <2> QED
    BY <2>1, <2>2, <2>3
<1>5. CASE SaveState("mmap")
  <2>1. /\ pc' = "code" /\ kind' = "mmap" /\ UNCHANGED <<text, regs>>
        /\ oldRegs' = regs /\ oldText' = text["ip"]
    BY <1>5 DEF SaveState
  <2>2. regs = OwnRegs /\ text = OwnText
    BY <1>5 DEF SaveState
  <2>3. oldText' = "own"
    BY <2>1, <2>2
  <2> QED
    BY <2>1, <2>2, <2>3
<1>6. CASE WriteCode
  BY <1>6 DEF WriteCode
<1>7. CASE PushReturnAddress
  BY <1>7 DEF PushReturnAddress
<1>8. CASE SetTargetRegs
  BY <1>8 DEF SetTargetRegs
<1>9. CASE ContinuePtrace
  BY <1>9 DEF ContinuePtrace
<1>10. CASE Wait
  BY <1>10 DEF Wait
<1>11. CASE GetResult
  BY <1>11 DEF GetResult
<1>12. CASE GetRefusal
  BY <1>12 DEF GetRefusal, Die
<1>13. CASE RestoreText
  BY <1>13 DEF RestoreText
<1>14. CASE RestoreRegs
  BY <1>14 DEF RestoreRegs
<1>15. CASE EndPtrace
  BY <1>15 DEF EndPtrace
<1>16. CASE CallMalloc
  BY <1>16 DEF CallMalloc, Runs
<1>17. CASE MallocReturns
  BY <1>17 DEF MallocReturns, Runs
<1>18. CASE SystemCall
  BY <1>18 DEF SystemCall, Runs
<1>19. CASE ForeignStop
  BY <1>19 DEF ForeignStop
<1>20. CASE Kill
  BY <1>20 DEF Kill
<1>21. CASE UNCHANGED vars
  BY <1>21 DEF vars, katana, target, world
<1> QED
  BY <1>1, <1>2, <1>3, <1>4, <1>5, <1>6, <1>7, <1>8, <1>9, <1>10, <1>11, <1>12, <1>13, <1>14, <1>15, <1>16, <1>17, <1>18, <1>19, <1>20, <1>21 DEF Next, Katana, Target

LEMMA RunningStep ==
  ASSUME TypeOK, Running, [Next]_vars
  PROVE  Running'
<1> USE DEF Running, TypeOK, Goto, Ended, katana, target, world, Calling
<1>1. CASE TargetGone
  BY <1>1 DEF TargetGone, Die
<1>2. CASE LocateSymbol
  BY <1>2 DEF LocateSymbol
<1>3. CASE NotLocated
  BY <1>3 DEF NotLocated, Die
<1>4. CASE SaveState("malloc")
  BY <1>4 DEF SaveState
<1>5. CASE SaveState("mmap")
  BY <1>5 DEF SaveState
<1>6. CASE WriteCode
  BY <1>6 DEF WriteCode
<1>7. CASE PushReturnAddress
  BY <1>7 DEF PushReturnAddress
<1>8. CASE SetTargetRegs
  BY <1>8 DEF SetTargetRegs
<1>9. CASE ContinuePtrace
  BY <1>9 DEF ContinuePtrace
<1>10. CASE Wait
  BY <1>10 DEF Wait
<1>11. CASE GetResult
  BY <1>11 DEF GetResult
<1>12. CASE GetRefusal
  BY <1>12 DEF GetRefusal, Die
<1>13. CASE RestoreText
  BY <1>13 DEF RestoreText
<1>14. CASE RestoreRegs
  BY <1>14 DEF RestoreRegs
<1>15. CASE EndPtrace
  BY <1>15 DEF EndPtrace
<1>16. CASE CallMalloc
  BY <1>16 DEF CallMalloc, Runs
<1>17. CASE MallocReturns
  BY <1>17 DEF MallocReturns, Runs
<1>18. CASE SystemCall
  BY <1>18 DEF SystemCall, Runs
<1>19. CASE ForeignStop
  BY <1>19 DEF ForeignStop
<1>20. CASE Kill
  BY <1>20 DEF Kill
<1>21. CASE UNCHANGED vars
  BY <1>21 DEF vars, katana, target, world
<1> QED
  BY <1>1, <1>2, <1>3, <1>4, <1>5, <1>6, <1>7, <1>8, <1>9, <1>10, <1>11, <1>12, <1>13, <1>14, <1>15, <1>16, <1>17, <1>18, <1>19, <1>20, <1>21 DEF Next, Katana, Target

LEMMA DeathStep ==
  ASSUME TypeOK, Borrowed, Running, AtDeath, [Next]_vars
  PROVE  AtDeath'
<1> USE DEF AtDeath, Borrowed, Running, TypeOK, Refused, OwnText, Goto, Ended, katana, target, world, Calling
<1>1. CASE TargetGone
  BY <1>1 DEF TargetGone, Die
<1>2. CASE LocateSymbol
  BY <1>2 DEF LocateSymbol
<1>3. CASE NotLocated
  BY <1>3 DEF NotLocated, Die
<1>4. CASE SaveState("malloc")
  BY <1>4 DEF SaveState
<1>5. CASE SaveState("mmap")
  BY <1>5 DEF SaveState
<1>6. CASE WriteCode
  BY <1>6 DEF WriteCode
<1>7. CASE PushReturnAddress
  BY <1>7 DEF PushReturnAddress
<1>8. CASE SetTargetRegs
  BY <1>8 DEF SetTargetRegs
<1>9. CASE ContinuePtrace
  BY <1>9 DEF ContinuePtrace
<1>10. CASE Wait
  BY <1>10 DEF Wait
<1>11. CASE GetResult
  BY <1>11 DEF GetResult
<1>12. CASE GetRefusal
  BY <1>12 DEF GetRefusal, Die
<1>13. CASE RestoreText
  BY <1>13 DEF RestoreText
<1>14. CASE RestoreRegs
  BY <1>14 DEF RestoreRegs
<1>15. CASE EndPtrace
  BY <1>15 DEF EndPtrace
<1>16. CASE CallMalloc
  BY <1>16 DEF CallMalloc, Runs
<1>17. CASE MallocReturns
  BY <1>17 DEF MallocReturns, Runs
<1>18. CASE SystemCall
  BY <1>18 DEF SystemCall, Runs
<1>19. CASE ForeignStop
  BY <1>19 DEF ForeignStop
<1>20. CASE Kill
  BY <1>20 DEF Kill
<1>21. CASE UNCHANGED vars
  BY <1>21 DEF vars, katana, target, world
<1> QED
  BY <1>1, <1>2, <1>3, <1>4, <1>5, <1>6, <1>7, <1>8, <1>9, <1>10, <1>11, <1>12, <1>13, <1>14, <1>15, <1>16, <1>17, <1>18, <1>19, <1>20, <1>21 DEF Next, Katana, Target

LEMMA SearchStep ==
  ASSUME TypeOK, Search, [Next]_vars
  PROVE  Search'
<1> USE DEF Search, TypeOK, Goto, Ended, katana, target, world, Calling
<1>1. CASE TargetGone
  BY <1>1 DEF TargetGone, Die
<1>2. CASE LocateSymbol
  BY <1>2 DEF LocateSymbol
<1>3. CASE NotLocated
  BY <1>3 DEF NotLocated, Die
<1>4. CASE SaveState("malloc")
  BY <1>4 DEF SaveState
<1>5. CASE SaveState("mmap")
  BY <1>5 DEF SaveState
<1>6. CASE WriteCode
  BY <1>6 DEF WriteCode
<1>7. CASE PushReturnAddress
  BY <1>7 DEF PushReturnAddress
<1>8. CASE SetTargetRegs
  BY <1>8 DEF SetTargetRegs
<1>9. CASE ContinuePtrace
  BY <1>9 DEF ContinuePtrace
<1>10. CASE Wait
  BY <1>10 DEF Wait
<1>11. CASE GetResult
  BY <1>11 DEF GetResult
<1>12. CASE GetRefusal
  BY <1>12 DEF GetRefusal, Die
<1>13. CASE RestoreText
  BY <1>13 DEF RestoreText
<1>14. CASE RestoreRegs
  BY <1>14 DEF RestoreRegs
<1>15. CASE EndPtrace
  BY <1>15 DEF EndPtrace
<1>16. CASE CallMalloc
  BY <1>16 DEF CallMalloc, Runs
<1>17. CASE MallocReturns
  BY <1>17 DEF MallocReturns, Runs
<1>18. CASE SystemCall
  BY <1>18 DEF SystemCall, Runs
<1>19. CASE ForeignStop
  BY <1>19 DEF ForeignStop
<1>20. CASE Kill
  BY <1>20 DEF Kill
<1>21. CASE UNCHANGED vars
  BY <1>21 DEF vars, katana, target, world
<1> QED
  BY <1>1, <1>2, <1>3, <1>4, <1>5, <1>6, <1>7, <1>8, <1>9, <1>10, <1>11, <1>12, <1>13, <1>14, <1>15, <1>16, <1>17, <1>18, <1>19, <1>20, <1>21 DEF Next, Katana, Target

LEMMA UndisturbedStep ==
  ASSUME TypeOK, Borrowed, Running, Undisturbed, [Next]_vars
  PROVE  Undisturbed'
<1> USE DEF Undisturbed, Borrowed, Running, TypeOK, Regs, Refused, FreshResult, CallRegs, CallText, OwnText, CodePlace, CodeOf, OwnRegs, Goto, Ended, katana, target, world, Calling
<1>1. CASE TargetGone
  BY <1>1 DEF TargetGone, Die
<1>2. CASE LocateSymbol
  BY <1>2 DEF LocateSymbol
<1>3. CASE NotLocated
  BY <1>3 DEF NotLocated, Die
<1>4. CASE SaveState("malloc")
  BY <1>4 DEF SaveState
<1>5. CASE SaveState("mmap")
  BY <1>5 DEF SaveState
<1>6. CASE WriteCode
  BY <1>6 DEF WriteCode
<1>7. CASE PushReturnAddress
  BY <1>7 DEF PushReturnAddress
<1>8. CASE SetTargetRegs
  BY <1>8 DEF SetTargetRegs
<1>9. CASE ContinuePtrace
  BY <1>9 DEF ContinuePtrace
<1>10. CASE Wait
  BY <1>10 DEF Wait
<1>11. CASE GetResult
  BY <1>11 DEF GetResult
<1>12. CASE GetRefusal
  BY <1>12 DEF GetRefusal, Die
<1>13. CASE RestoreText
  BY <1>13 DEF RestoreText
<1>14. CASE RestoreRegs
  BY <1>14 DEF RestoreRegs
<1>15. CASE EndPtrace
  BY <1>15 DEF EndPtrace
<1>16. CASE CallMalloc
  BY <1>16 DEF CallMalloc, Runs
<1>17. CASE MallocReturns
  BY <1>17 DEF MallocReturns, Runs
<1>18. CASE SystemCall
  BY <1>18 DEF SystemCall, Runs
<1>19. CASE ForeignStop
  BY <1>19 DEF ForeignStop
<1>20. CASE Kill
  BY <1>20 DEF Kill
<1>21. CASE UNCHANGED vars
  BY <1>21 DEF vars, katana, target, world
<1> QED
  BY <1>1, <1>2, <1>3, <1>4, <1>5, <1>6, <1>7, <1>8, <1>9, <1>10, <1>11, <1>12, <1>13, <1>14, <1>15, <1>16, <1>17, <1>18, <1>19, <1>20, <1>21 DEF Next, Katana, Target

-----------------------------------------------------------------------------
LEMMA InitInv == Init => IInv
<1> SUFFICES ASSUME Init
             PROVE  IInv
  OBVIOUS
<1>1. linkMap \in LinkMaps /\ Len(linkMap) \in Nat
  <2>1. linkMap \in Seq([kind : ObjectKind, chain : Seq(DynSymbol)])
    BY LinkMapsAssumption, Zenon DEF Init
  <2> QED
    BY <2>1 DEF Init
<1>2. TypeOK
  BY <1>1, BoundsAssumption
  DEF Init, TypeOK, KatanaSteps, OwnRegs, Regs, Ip, Value, Place, Code
<1>3. Borrowed /\ Running /\ AtDeath
  BY DEF Init, Borrowed, Running, AtDeath, OwnText, Calling, Ended
<1>4. Search
  BY DEF Init, Search
<1>5. Undisturbed
  BY StopsAssumption DEF Init, Undisturbed
<1> QED
  BY <1>2, <1>3, <1>4, <1>5 DEF IInv

LEMMA Invariance == Spec => []IInv
<1>1. IInv /\ [Next]_vars => IInv'
  BY TypeStep, BorrowedStep, RunningStep, DeathStep, SearchStep, UndisturbedStep DEF IInv
<1> QED
  BY InitInv, <1>1, PTL DEF Spec

(* katana, the target and the world keep the types of TypeOK.              *)
THEOREM TypeCorrect == Spec => []TypeOK
<1>1. IInv => TypeOK
  BY DEF IInv
<1> QED
  BY Invariance, <1>1, PTL

(* Whatever ends a call (target.c:393-397 and :497-502), text and          *)
(* registers are the target's own between two calls and in the end.        *)
THEOREM TextAndRegistersReturned == Spec => []TargetIsItsOwn
<1>1. IInv => TargetIsItsOwn
  BY DEF IInv, TargetIsItsOwn, TypeOK, Borrowed, OwnText, Undisturbed
<1> QED
  BY Invariance, <1>1, PTL

(* A death of katana leaves the living target in katana's code only where  *)
(* target.c:391 or :494 has seen the request for memory refused.           *)
THEOREM DeathLeavesOwnCode == Spec => []OnlyRefusalLeavesCode
<1>1. IInv => OnlyRefusalLeavesCode
  BY DEF IInv, OnlyRefusalLeavesCode, AtDeath, OwnText
<1> QED
  BY Invariance, <1>1, PTL

(* The malloc found in any link map is the first definition in it, where   *)
(* all definers can be examined and no name begins with malloc             *)
(* (linkmap.c:222-254).                                                    *)
THEOREM FirstDefinitionIsCalled == Spec => []MallocIsTheTargets
<1>1. ASSUME IInv, mallocAddress # <<>>,
             \A i \in Definers(linkMap) : linkMap[i].kind = "plain",
             \A i \in DOMAIN linkMap : \A j \in DOMAIN linkMap[i].chain :
               linkMap[i].chain[j].name \notin Longer
      PROVE  /\ mallocAddress.name = Wanted
             /\ mallocAddress.object \in Definers(linkMap)
             /\ \A i \in Definers(linkMap) : mallocAddress.object <= i
  <2>1. linkMap \in LinkMaps /\ at \in DOMAIN linkMap /\ Found(linkMap[at])
    BY <1>1 DEF IInv, TypeOK, Search
  <2>2. mallocAddress.object = at /\ mallocAddress.name = locateSymbolInLinkMap(linkMap, at).name
    BY <1>1 DEF IInv, Search, locateSymbolInLinkMap
  <2>3. Defines(linkMap[at]) /\ mallocAddress.name = Wanted
    BY <1>1, <2>1, <2>2, FoundWhereDefined, Zenon
  <2>4. linkMap \in Seq([kind : ObjectKind, chain : Seq(DynSymbol)])
    BY <2>1, LinkMapsAssumption, Zenon
  <2>5. ASSUME NEW i \in Definers(linkMap)
        PROVE  at <= i
    <3>1. i \in DOMAIN linkMap /\ Defines(linkMap[i])
      BY Zenon DEF Definers
    <3>2. Found(linkMap[i])
      BY <1>1, <2>1, <3>1, FoundWhereDefined, Zenon
    <3>3. i \notin 1..(at - 1)
      BY <1>1, <3>2 DEF IInv, Search
    <3> QED
      BY <2>1, <2>4, <3>1, <3>3
  <2>6. at \in Definers(linkMap)
    BY <2>1, <2>3, Zenon DEF Definers
  <2> QED
    BY <2>2, <2>3, <2>5, <2>6, Zenon
<1>2. IInv => MallocIsTheTargets
  BY <1>1 DEF MallocIsTheTargets
<1> QED
  BY Invariance, <1>2, PTL

(* What AtomicCalls sees of a state.                                       *)
Outcome == IF Ended THEN pc ELSE "working"

LEMMA AtomicStep ==
  ASSUME IInv, [Next]_vars
  PROVE  [AtomicCall!Next]_<<given, disturbed, Outcome>>
<1> USE DEF IInv, TypeOK, Running, Goto, Ended, Outcome, katana, target, world, Calling
<1>1. CASE TargetGone
  BY <1>1 DEF TargetGone, Die, AtomicCall!Next, AtomicCall!End
<1>2. CASE NotLocated
  BY <1>2 DEF NotLocated, Die, AtomicCall!Next, AtomicCall!End
<1>3. CASE GetRefusal
  BY <1>3 DEF GetRefusal, Die, AtomicCall!Next, AtomicCall!End
<1>4. CASE EndPtrace
  BY <1>4 DEF EndPtrace, AtomicCall!Next, AtomicCall!End
<1>5. CASE LocateSymbol
  BY <1>5 DEF LocateSymbol
<1>6. CASE SaveState("malloc")
  BY <1>6 DEF SaveState
<1>7. CASE SaveState("mmap")
  BY <1>7 DEF SaveState
<1>8. CASE WriteCode
  BY <1>8 DEF WriteCode
<1>9. CASE PushReturnAddress
  BY <1>9 DEF PushReturnAddress
<1>10. CASE SetTargetRegs
  BY <1>10 DEF SetTargetRegs
<1>11. CASE ContinuePtrace
  BY <1>11 DEF ContinuePtrace
<1>12. CASE Wait
  BY <1>12 DEF Wait
<1>13. CASE GetResult
  BY <1>13 DEF GetResult
<1>14. CASE RestoreText
  BY <1>14 DEF RestoreText
<1>15. CASE CallMalloc
  BY <1>15 DEF CallMalloc, Runs
<1>16. CASE MallocReturns
  BY <1>16 DEF MallocReturns, Runs
<1>17. CASE SystemCall
  BY <1>17 DEF SystemCall, Runs
<1>18. CASE RestoreRegs
  <2>1. /\ pc = "unregs" /\ given' = given \cup {newRegs.ax} /\ UNCHANGED disturbed
        /\ Outcome = "working" /\ Outcome' = "working"
    BY <1>18 DEF RestoreRegs
  <2>2. CASE disturbed
    BY <2>1, <2>2 DEF AtomicCall!Next, AtomicCall!NoPromise
  <2>3. CASE ~disturbed
    <3>1. newRegs.ax \in ((Blocks \cup Pages) \ given) \cup {Errno}
      BY <2>1, <2>3 DEF Undisturbed, FreshResult, Refused, Borrowed
    <3> QED
      BY <2>1, <3>1 DEF AtomicCall!Next, AtomicCall!GetMemory, AtomicCall!GetErrno
  <2> QED
    BY <2>2, <2>3
<1>19. CASE ForeignStop
  BY <1>19 DEF ForeignStop, AtomicCall!Next, AtomicCall!Disturb
<1>20. CASE Kill
  BY <1>20 DEF Kill, AtomicCall!Next, AtomicCall!Disturb
<1>21. CASE UNCHANGED vars
  BY <1>21 DEF vars
<1> QED
  BY <1>1, <1>2, <1>3, <1>4, <1>5, <1>6, <1>7, <1>8, <1>9, <1>10, <1>11, <1>12, <1>13, <1>14, <1>15, <1>16, <1>17, <1>18, <1>19, <1>20, <1>21 DEF Next, Katana, Target

(* As long as no signal interferes, an injected call is the atomic step    *)
(* that hotpatch.c:96 and dwarfvm.c:460 take it for: every behaviour of    *)
(* the calls, request by request, is one of AtomicCalls.                   *)
THEOREM CallsAreAtomic == Spec => ImplementsAtomicCalls
<1>1. Init => AtomicCall!Init
  BY DEF Init, AtomicCall!Init, Ended
<1>2. IInv /\ [Next]_vars => [AtomicCall!Next]_<<given, disturbed, Outcome>>
  BY AtomicStep
<1> QED
  BY Invariance, <1>1, <1>2, PTL DEF Spec, ImplementsAtomicCalls, AtomicCall!Spec, Outcome
==============================================================================
