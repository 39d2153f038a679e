--------------------------- MODULE PatchUnits_proofs ---------------------------
(***************************************************************************)
(* Proofs about PatchUnits, for any two source trees: which objects the    *)
(* walk through them finds (NoneIsLost), that the comparison of two        *)
(* versions of a function says whether they do the same                    *)
(* (ComparisonIsRight), which functions get into the patch                 *)
(* (DifferencesGetIn), and what they refer to there (TargetsAreKept).      *)
(***************************************************************************)
EXTENDS PatchUnits, WellFoundedInduction, FiniteSetTheorems, SequenceTheorems, TLAPS

-----------------------------------------------------------------------------
(* A set of natural numbers that is not empty has a least element, the     *)
(* form in which induction is used here: of the intervals from 0 to its    *)
(* elements one includes no other strictly.                                *)
LEMMA LeastNatural ==
  ASSUME NEW S \in SUBSET Nat, S # {}
  PROVE  \E n \in S : \A m \in S : n <= m
<1> DEFINE Intervals == {0..n : n \in S}
<1>1. Intervals \subseteq FiniteSubsetsOf(Nat)
  <2>1. \A n \in S : 0..n \in SUBSET Nat /\ IsFiniteSet(0..n)
    BY FS_Interval
  <2> QED
    BY <2>1, Zenon DEF FiniteSubsetsOf
<1>2. Intervals # {}
  OBVIOUS
<1>3. PICK I \in Intervals : \A J \in Intervals : ~ (<<J, I>> \in StrictSubsetOrdering(Nat))
  <2> HIDE DEF Intervals
  <2> QED
    BY <1>1, <1>2, FS_StrictSubsetOrderingWellFounded, WFMin
<1>4. PICK n \in S : I = 0..n
  OBVIOUS
<1>5. ASSUME NEW m \in S, m < n
      PROVE  FALSE
  <2>1. 0..m \subseteq 0..n /\ n \in 0..n /\ n \notin 0..m
    BY <1>5
  <2>2. 0..m # 0..n
    BY <2>1, Zenon
  <2>3. 0..m \in SUBSET Nat /\ 0..n \in SUBSET Nat /\ 0..m \in Intervals
    OBVIOUS
  <2>4. <<0..m, 0..n>> \notin StrictSubsetOrdering(Nat)
    BY <2>3, <1>3, <1>4, Zenon
  <2>5. \A A, B \in SUBSET Nat : A \subseteq B /\ A # B => <<A, B>> \in StrictSubsetOrdering(Nat)
    BY DEF StrictSubsetOrdering
  <2> QED
    BY <2>1, <2>2, <2>3, <2>4, <2>5, Zenon
<1> QED
  BY <1>5

-----------------------------------------------------------------------------
(* p is in the directory d, or below; and in which entry of it.            *)
Below(p, d) == Len(d) < Len(p) /\ SubSeq(p, 1, Len(d)) = d
EntryOf(d, p) == p[Len(d) + 1]

CallType == [path : Path, orig : SUBSET Nat, mod : SUBSET Nat]

(* What is left of a directory are entries of it.  What has been passed of *)
(* the old one comes before all that is left of the new one.               *)
CallFits(c) ==
  /\ c.orig \subseteq ScanDir(trees.old, c.path)
  /\ c.mod \subseteq ScanDir(trees.new, c.path)
  /\ \A x \in ScanDir(trees.old, c.path) \ c.orig : \A y \in c.mod : x < y

(* A call is for an entry that the calls around it have passed.            *)
Nested(w) ==
  \A k, l \in DOMAIN w : k < l =>
    /\ Below(w[l].path, w[k].path)
    /\ EntryOf(w[k].path, w[l].path) \notin w[k].orig \cup w[k].mod

WalkFits(w) == w \in Seq(CallType) /\ (\A k \in DOMAIN w : CallFits(w[k])) /\ Nested(w)

(* A call comes to p in both trees; it comes to p in the new one.          *)
Meets(c, p) == Below(p, c.path) /\ EntryOf(c.path, p) \in c.orig \cap c.mod
MeetsInNew(c, p) == Below(p, c.path) /\ EntryOf(c.path, p) \in c.mod

Ahead(w, p) == \E k \in DOMAIN w : Meets(w[k], p)
AheadInNew(w, p) == \E k \in DOMAIN w : MeetsInNew(w[k], p)

Found(objs) == { objs[i].path : i \in DOMAIN objs }
AllModified(objs) == \A i \in DOMAIN objs : objs[i].state = "modified"

Common == ObjectPaths(trees.old) \cap ObjectPaths(trees.new)
OnlyNew == ObjectPaths(trees.new) \ ObjectPaths(trees.old)

(* An object of both trees has been found or is ahead, and not both: it is *)
(* found once.  Of new objects this holds as long as katana is to survive. *)
Complete(w, objs) ==
  /\ Found(objs) \subseteq Common
  /\ \A i, j \in DOMAIN objs : i # j => objs[i].path # objs[j].path
  /\ \A p \in Common : p \in Found(objs) \/ Ahead(w, p)
  /\ \A p \in Found(objs) : ~Ahead(w, p)
  /\ \A p \in OnlyNew : Hidden(p) \/ AheadInNew(w, p)

ObjectType == [state : {"modified", "new"}, path : Path]

TreeInv ==
  /\ IsTree(trees.old) /\ IsTree(trees.new)
  /\ WalkFits(walk)
  /\ objects \in Seq(ObjectType)
  /\ AllModified(objects) => Complete(walk, objects)

(* No object is passed over but those that are not new.                    *)
Phases ==
  /\ at \in Nat \ {0} /\ (pc = "trees" => at = 1)
  /\ pc \notin {"trees", "dead"} =>
       walk = <<>> /\ \A i \in DOMAIN objects : i < at => objects[i].state = "modified"
  /\ pc \in {"units", "new functions", "functions"} =>
       at \in DOMAIN objects /\ objects[at].state = "modified"
  /\ pc = "done" => at > Len(objects)

IInv == TreeInv /\ Phases

-----------------------------------------------------------------------------
(* Paths and directories.                                                  *)

LEMMA PathTop ==
  ASSUME NEW p \in Path, p # <<>>
  PROVE  /\ Front(p) \in Path /\ Last(p) \in Nat /\ Len(p) \in Nat \ {0}
         /\ Len(Front(p)) = Len(p) - 1
         /\ Front(p) = SubSeq(p, 1, Len(p) - 1)
         /\ p = Append(Front(p), Last(p))
<1>1. p \in Seq(Nat) /\ Len(p) \in Nat \ {0}
  BY EmptySeq DEF Path
<1>2. Front(p) \in Seq(Nat) /\ Len(Front(p)) = Len(p) - 1 /\ Last(p) \in Nat
  <2>1. \A i \in 1..(Len(p) - 1) : p[i] \in Nat
    BY <1>1
  <2>2. Last(p) \in Nat
    BY <1>1 DEF Last
  <2>3. /\ SubSeq(p, 1, Len(p) - 1) \in Seq(Nat)
        /\ Len(SubSeq(p, 1, Len(p) - 1)) = IF 1 <= Len(p) - 1 THEN (Len(p) - 1) - 1 + 1 ELSE 0
    <3>1. 1 \in Int /\ Len(p) - 1 \in Int
      BY <1>1
    <3> QED
      BY <2>1, <3>1, SubSeqProperties
  <2>4. Front(p) = SubSeq(p, 1, Len(p) - 1)
    BY Zenon DEF Front
  <2>5. Front(p) \in Seq(Nat)
        /\ Len(Front(p)) = IF 1 <= Len(p) - 1 THEN (Len(p) - 1) - 1 + 1 ELSE 0
    BY <2>3, <2>4, Zenon
  <2>6. Len(p) - 1 = IF 1 <= Len(p) - 1 THEN (Len(p) - 1) - 1 + 1 ELSE 0
    BY <1>1
  <2>7. Len(Front(p)) = Len(p) - 1
    BY <2>5, <2>6
  <2> QED
    BY <2>2, <2>5, <2>7, Zenon
<1>3. p = Append(Front(p), Last(p))
  <2>1. Append(Front(p), Last(p)) \in Seq(Nat) /\ Len(Append(Front(p), Last(p))) = Len(p)
    BY <1>1, <1>2
  <2>2. ASSUME NEW i \in 1..Len(p)
        PROVE  p[i] = Append(Front(p), Last(p))[i]
    <3>1. CASE i = Len(p)
      BY <1>1, <1>2, <3>1 DEF Last
    <3>2. CASE i # Len(p)
      <4>1. i \in 1..(Len(p) - 1)
        BY <1>1, <3>2
      <4>2. Front(p)[i] = p[i]
        BY <1>1, <4>1 DEF Front
      <4>3. Append(Front(p), Last(p))[i] = Front(p)[i]
        BY <1>2, <4>1
      <4> QED
        BY <4>2, <4>3
    <3> QED
      BY <3>1, <3>2
  <2> QED
    BY <1>1, <2>1, <2>2, SeqEqual
<1> QED
  BY <1>1, <1>2, <1>3 DEF Front, Path

LEMMA PathAppend ==
  ASSUME NEW d \in Path, NEW name \in Nat
  PROVE  /\ Append(d, name) \in Path /\ Append(d, name) # <<>>
         /\ Len(Append(d, name)) = Len(d) + 1
         /\ Front(Append(d, name)) = d /\ Last(Append(d, name)) = name
         /\ Below(Append(d, name), d) /\ EntryOf(d, Append(d, name)) = name
<1> DEFINE p == Append(d, name)
<1>1. d \in Seq(Nat) /\ Len(d) \in Nat
  BY DEF Path
<1>2. p \in Seq(Nat) /\ Len(p) = Len(d) + 1 /\ p # <<>> /\ p[Len(d) + 1] = name
      /\ \A i \in 1..Len(d) : p[i] = d[i]
  BY <1>1
<1>3. SubSeq(p, 1, Len(d)) = d
  <2>1. SubSeq(p, 1, Len(d)) \in Seq(Nat) /\ Len(SubSeq(p, 1, Len(d))) = Len(d)
        /\ \A i \in 1..Len(d) : SubSeq(p, 1, Len(d))[i] = p[i]
    BY <1>1, <1>2
  <2> HIDE DEF p
  <2> QED
    BY <1>1, <1>2, <2>1, SeqEqual
<1> HIDE DEF p
<1>4. Front(p) = d /\ Last(p) = name
  BY <1>1, <1>2, <1>3 DEF Front, Last
<1>5. Below(p, d) /\ EntryOf(d, p) = name
  BY <1>1, <1>2, <1>3 DEF Below, EntryOf
<1> QED
  BY <1>2, <1>4, <1>5 DEF p, Path

(* One step further down.                                                  *)
LEMMA BelowEntry ==
  ASSUME NEW p \in Path, NEW d \in Path, Below(p, d)
  PROVE  /\ EntryOf(d, p) \in Nat
         /\ p = Append(d, EntryOf(d, p)) \/ Below(p, Append(d, EntryOf(d, p)))
         /\ SubSeq(p, 1, Len(d) + 1) = Append(d, EntryOf(d, p))
<1> DEFINE q == Append(d, EntryOf(d, p))
<1>1. p \in Seq(Nat) /\ Len(p) \in Nat /\ Len(d) \in Nat /\ Len(d) < Len(p) /\ d \in Seq(Nat)
      /\ SubSeq(p, 1, Len(d)) = d
  BY DEF Path, Below
<1>2. EntryOf(d, p) \in Nat
  BY <1>1 DEF EntryOf
<1>3. q \in Seq(Nat) /\ Len(q) = Len(d) + 1 /\ q[Len(d) + 1] = p[Len(d) + 1]
      /\ \A i \in 1..Len(d) : q[i] = d[i]
  BY <1>1, <1>2 DEF EntryOf
<1>4. \A i \in 1..Len(d) : d[i] = p[i]
  BY <1>1
<1>5. SubSeq(p, 1, Len(d) + 1) = q
  <2>1. SubSeq(p, 1, Len(d) + 1) \in Seq(Nat) /\ Len(SubSeq(p, 1, Len(d) + 1)) = Len(d) + 1
        /\ \A i \in 1..(Len(d) + 1) : SubSeq(p, 1, Len(d) + 1)[i] = p[i]
    BY <1>1
  <2>2. ASSUME NEW i \in 1..Len(q)
        PROVE  p[i] = q[i]
    <3>1. i \in 1..Len(d) \/ i = Len(d) + 1
      BY <1>1, <1>3
    <3> QED
      BY <1>3, <1>4, <3>1
  <2> HIDE DEF q
  <2> QED
    BY <1>1, <1>3, <2>1, <2>2, SeqEqual
<1>6. CASE Len(p) = Len(d) + 1
  <2>1. SubSeq(p, 1, Len(p)) = p
    BY <1>1
  <2> QED
    BY <1>2, <1>5, <1>6, <2>1
<1>7. CASE Len(p) # Len(d) + 1
  <2>1. Len(d) + 1 < Len(p)
    BY <1>1, <1>7
  <2> HIDE DEF q
  <2>2. Below(p, q)
    BY <1>3, <1>5, <2>1 DEF Below
  <2> QED
    BY <1>2, <1>5, <2>2 DEF q
<1> QED
  BY <1>6, <1>7

(* Below an entry is below the directory.                                  *)
LEMMA BelowUp ==
  ASSUME NEW p \in Path, NEW d \in Path, NEW name \in Nat, Below(p, Append(d, name))
  PROVE  Below(p, d) /\ EntryOf(d, p) = name
<1> DEFINE q == Append(d, name)
<1>1. p \in Seq(Nat) /\ Len(p) \in Nat /\ Len(d) \in Nat /\ d \in Seq(Nat)
      /\ q \in Seq(Nat) /\ Len(q) = Len(d) + 1 /\ q[Len(d) + 1] = name
      /\ \A i \in 1..Len(d) : q[i] = d[i]
  BY DEF Path
<1>2. Len(q) < Len(p) /\ SubSeq(p, 1, Len(q)) = q
  BY DEF Below
<1> HIDE DEF q
<1>3. \A i \in 1..Len(q) : p[i] = q[i]
  <2>1. \A i \in 1..Len(q) : SubSeq(p, 1, Len(q))[i] = p[i]
    BY <1>1, <1>2
  <2> QED
    BY <1>2, <2>1
<1>4. SubSeq(p, 1, Len(d)) = d
  <2>1. SubSeq(p, 1, Len(d)) \in Seq(Nat) /\ Len(SubSeq(p, 1, Len(d))) = Len(d)
        /\ \A i \in 1..Len(d) : SubSeq(p, 1, Len(d))[i] = p[i]
    BY <1>1, <1>2
  <2>2. \A i \in 1..Len(d) : SubSeq(p, 1, Len(d))[i] = d[i]
    BY <1>1, <1>3, <2>1
  <2> QED
    BY <1>1, <2>1, <2>2, SeqEqual
<1> QED
  BY <1>1, <1>2, <1>3, <1>4 DEF Below, EntryOf

(* Below is transitive, and an entry of the outermost stays the same.      *)
LEMMA BelowBelow ==
  ASSUME NEW p \in Path, NEW d \in Path, NEW e \in Path, Below(p, d), Below(d, e)
  PROVE  Below(p, e) /\ EntryOf(e, p) = EntryOf(e, d)
<1>1. p \in Seq(Nat) /\ Len(p) \in Nat /\ Len(d) \in Nat /\ d \in Seq(Nat)
      /\ e \in Seq(Nat) /\ Len(e) \in Nat
  BY DEF Path
<1>2. Len(d) < Len(p) /\ SubSeq(p, 1, Len(d)) = d /\ Len(e) < Len(d) /\ SubSeq(d, 1, Len(e)) = e
  BY DEF Below
<1>3. \A i \in 1..Len(d) : p[i] = d[i]
  <2>1. \A i \in 1..Len(d) : SubSeq(p, 1, Len(d))[i] = p[i]
    BY <1>1, <1>2
  <2> QED
    BY <1>2, <2>1
<1>4. SubSeq(p, 1, Len(e)) = e
  <2>1. SubSeq(p, 1, Len(e)) \in Seq(Nat) /\ Len(SubSeq(p, 1, Len(e))) = Len(e)
        /\ \A i \in 1..Len(e) : SubSeq(p, 1, Len(e))[i] = p[i]
    BY <1>1, <1>2
  <2>2. \A i \in 1..Len(e) : SubSeq(d, 1, Len(e))[i] = d[i]
    BY <1>1, <1>2
  <2>3. \A i \in 1..Len(e) : SubSeq(p, 1, Len(e))[i] = e[i]
    BY <1>1, <1>2, <1>3, <2>1, <2>2
  <2> QED
    BY <1>1, <2>1, <2>3, SeqEqual
<1> QED
  BY <1>1, <1>2, <1>3, <1>4 DEF Below, EntryOf

(* What is in a directory.                                                 *)
LEMMA Scanned ==
  ASSUME NEW tree, IsTree(tree), NEW d \in Path
  PROVE  /\ ScanDir(tree, d) \in SUBSET Nat
         /\ IsFiniteSet(ScanDir(tree, d))
         /\ \A name \in Nat : name \in ScanDir(tree, d) <=>
              Append(d, name) \in DOMAIN tree /\ tree[Append(d, name)].kind \in {"obj", "dir"}
<1> DEFINE Inner == { q \in DOMAIN tree : q # <<>> /\ Front(q) = d /\ filterOnlyObjAndDirs(tree[q]) }
<1>1. DOMAIN tree \subseteq Path /\ IsFiniteSet(DOMAIN tree)
  BY DEF IsTree
<1>2. ScanDir(tree, d) = { Last(p) : p \in Inner }
  BY DEF ScanDir
<1>3. \A p \in Inner : p \in Path /\ Last(p) \in Nat /\ p = Append(d, Last(p))
  BY <1>1, PathTop
<1>4. IsFiniteSet(ScanDir(tree, d))
  <2>1. IsFiniteSet(Inner)
    BY <1>1, FS_Subset
  <2> HIDE DEF Inner
  <2> DEFINE last == [p \in Inner |-> Last(p)]
  <2>2. last \in Surjection(Inner, { Last(p) : p \in Inner })
    BY Zenon DEF Surjection
  <2>3. IsFiniteSet({ Last(p) : p \in Inner })
    BY <2>1, <2>2, FS_Surjection
  <2> QED
    BY <1>2, <2>3
<1>5. ASSUME NEW name \in Nat
      PROVE  name \in ScanDir(tree, d) <=>
              Append(d, name) \in DOMAIN tree /\ tree[Append(d, name)].kind \in {"obj", "dir"}
  <2>1. Append(d, name) # <<>> /\ Front(Append(d, name)) = d /\ Last(Append(d, name)) = name
    BY PathAppend
  <2>2. ASSUME name \in ScanDir(tree, d)
        PROVE  Append(d, name) \in Inner
    <3> HIDE DEF Inner
    <3> QED
      BY <1>2, <1>3, <2>2
  <2>3. ASSUME Append(d, name) \in Inner
        PROVE  name \in ScanDir(tree, d)
    <3> HIDE DEF Inner
    <3> QED
      BY <1>2, <2>1, <2>3
  <2> QED
    BY <2>1, <2>2, <2>3 DEF filterOnlyObjAndDirs
<1> QED
  BY <1>2, <1>3, <1>4, <1>5

(* What a tree has below a directory begins with an entry of it, which is  *)
(* a directory unless that is all.                                         *)
LEMMA EntryScanned ==
  ASSUME NEW tree, IsTree(tree), NEW d \in Path, NEW p \in ObjectPaths(tree), Below(p, d)
  PROVE  /\ p \in Path /\ EntryOf(d, p) \in ScanDir(tree, d)
         /\ Append(d, EntryOf(d, p)) \in DOMAIN tree
         /\ p = Append(d, EntryOf(d, p)) \/ tree[Append(d, EntryOf(d, p))].kind = "dir"
<1> DEFINE q == Append(d, EntryOf(d, p))
<1>1. p \in DOMAIN tree /\ p \in Path /\ tree[p].kind = "obj"
  BY DEF ObjectPaths, IsTree
<1>2. EntryOf(d, p) \in Nat /\ (p = q \/ Below(p, q)) /\ SubSeq(p, 1, Len(d) + 1) = q
  BY <1>1, BelowEntry
<1>3. Len(q) = Len(d) + 1 /\ Len(d) \in Nat /\ Len(p) \in Nat
  BY <1>1, <1>2, PathAppend DEF Path
<1> HIDE DEF q
<1>4. ASSUME Below(p, q)
      PROVE  q \in DOMAIN tree /\ tree[q].kind = "dir"
  <2>1. Len(d) + 1 \in 0..(Len(p) - 1)
    BY <1>3, <1>4 DEF Below
  <2> QED
    BY <1>1, <1>2, <2>1 DEF IsTree
<1>5. q \in DOMAIN tree /\ tree[q].kind \in {"obj", "dir"}
  BY <1>1, <1>2, <1>4
<1>6. EntryOf(d, p) \in ScanDir(tree, d)
  BY <1>2, <1>5, Scanned DEF q
<1> QED
  BY <1>1, <1>2, <1>4, <1>5, <1>6 DEF q

(* Nothing is in what is not a directory.                                  *)
LEMMA NothingScanned ==
  ASSUME NEW tree, IsTree(tree), NEW d \in Path, NEW name \in Nat, name \notin ScanDir(tree, d)
  PROVE  ScanDir(tree, Append(d, name)) = {}
<1> DEFINE q == Append(d, name)
<1>1. q \in Path /\ Len(q) = Len(d) + 1 /\ Len(d) \in Nat
  BY PathAppend DEF Path
<1> SUFFICES ASSUME NEW x \in ScanDir(tree, q)
             PROVE  FALSE
  OBVIOUS
<1> HIDE DEF q
<1>2. x \in Nat /\ Append(q, x) \in DOMAIN tree
  BY <1>1, Scanned
<1>3. Len(Append(q, x)) = Len(q) + 1 /\ SubSeq(Append(q, x), 1, Len(q)) = q
  BY <1>1, <1>2, PathAppend DEF Below
<1>4. Len(q) \in 0..(Len(Append(q, x)) - 1)
  BY <1>1, <1>3
<1>5. q \in DOMAIN tree /\ tree[q].kind = "dir"
  BY <1>2, <1>3, <1>4 DEF IsTree
<1> QED
  BY <1>5, Scanned DEF q

LEMMA LeastIsMin ==
  ASSUME NEW S \in SUBSET Nat, S # {}
  PROVE  Min(S) \in S /\ \A x \in S : Min(S) <= x
<1>1. \E n \in S : \A m \in S : n <= m
  BY LeastNatural
<1> QED
  BY <1>1 DEF Min

-----------------------------------------------------------------------------
(* The walk: what has been passed, a call, and the end of one.             *)

LEMMA Top ==
  ASSUME WalkFits(walk), walk # <<>>
  PROVE  /\ Len(walk) \in Nat \ {0} /\ DOMAIN walk = 1..Len(walk)
         /\ call = walk[Len(walk)] /\ call \in CallType /\ CallFits(call)
<1>1. walk \in Seq(CallType) /\ \A k \in DOMAIN walk : CallFits(walk[k])
  BY DEF WalkFits
<1>2. Len(walk) \in Nat \ {0} /\ DOMAIN walk = 1..Len(walk) /\ Len(walk) \in DOMAIN walk
  BY <1>1, EmptySeq
<1>3. walk[Len(walk)] \in CallType
  BY <1>1, <1>2
<1>4. call = walk[Len(walk)]
  BY Zenon DEF call, Last
<1> QED
  BY <1>1, <1>2, <1>3, <1>4, Zenon

LEMMA FrontOf ==
  ASSUME NEW S, NEW w \in Seq(S), w # <<>>
  PROVE  /\ Front(w) \in Seq(S) /\ Len(Front(w)) = Len(w) - 1
         /\ \A k \in 1..(Len(w) - 1) : Front(w)[k] = w[k]
<1>1. Len(w) \in Nat \ {0} /\ \A k \in 1..(Len(w) - 1) : w[k] \in S
  BY EmptySeq
<1>2. 1 \in Int /\ Len(w) - 1 \in Int
  BY <1>1
<1>3. /\ SubSeq(w, 1, Len(w) - 1) \in Seq(S)
      /\ Len(SubSeq(w, 1, Len(w) - 1)) = IF 1 <= Len(w) - 1 THEN (Len(w) - 1) - 1 + 1 ELSE 0
      /\ \A k \in 1..((Len(w) - 1) - 1 + 1) : SubSeq(w, 1, Len(w) - 1)[k] = w[1 + k - 1]
  BY <1>1, <1>2, SubSeqProperties
<1> DEFINE f == SubSeq(w, 1, Len(w) - 1)
<1>4. Front(w) = f
  BY Zenon DEF Front
<1> HIDE DEF f
<1>5. Len(f) = Len(w) - 1
  <2>1. Len(f) = IF 1 <= Len(w) - 1 THEN (Len(w) - 1) - 1 + 1 ELSE 0
    BY <1>3, Zenon DEF f
  <2>2. \A n \in Nat \ {0} : (IF 1 <= n - 1 THEN (n - 1) - 1 + 1 ELSE 0) = n - 1
    OBVIOUS
  <2>3. Len(w) \in Nat \ {0}
    BY <1>1, Zenon
  <2> QED
    BY <2>1, <2>2, <2>3, Zenon
<1>6. \A k \in 1..(Len(w) - 1) : f[k] = w[k]
  <2>1. \A k \in 1..((Len(w) - 1) - 1 + 1) : f[k] = w[1 + k - 1]
    BY <1>3, Zenon DEF f
  <2> QED
    BY <1>1, <2>1
<1>7. f \in Seq(S)
  BY <1>3, Zenon DEF f
<1> QED
  BY <1>4, <1>5, <1>6, <1>7

LEMMA Stepped ==
  ASSUME WalkFits(walk), walk # <<>>, NEW o, NEW m
  PROVE  /\ Step(o, m) \in Seq(CallType) /\ Len(Step(o, m)) = Len(walk)
         /\ \A k \in 1..(Len(walk) - 1) : Step(o, m)[k] = walk[k]
         /\ Step(o, m)[Len(walk)] =
              [path |-> call.path, orig |-> call.orig \ o, mod |-> call.mod \ m]
<1> DEFINE c == [path |-> call.path, orig |-> call.orig \ o, mod |-> call.mod \ m]
           f == Front(walk)
<1>1. Len(walk) \in Nat \ {0} /\ call \in CallType
  BY Top
<1>2. f \in Seq(CallType) /\ Len(f) = Len(walk) - 1
      /\ \A k \in 1..(Len(walk) - 1) : f[k] = walk[k]
  BY FrontOf DEF WalkFits
<1>3. c \in CallType
  <2>1. call.path \in Path /\ call.orig \in SUBSET Nat /\ call.mod \in SUBSET Nat
    BY <1>1 DEF CallType
  <2> QED
    BY <2>1 DEF CallType
<1>4. Step(o, m) = Append(f, c)
  BY Zenon DEF Step
<1> HIDE DEF c, f
<1>5. Append(f, c) \in Seq(CallType) /\ Len(Append(f, c)) = Len(walk)
      /\ (\A k \in 1..(Len(walk) - 1) : Append(f, c)[k] = walk[k]) /\ Append(f, c)[Len(walk)] = c
  BY <1>1, <1>2, <1>3
<1> QED
  BY <1>4, <1>5 DEF c

LEMMA StepFits ==
  ASSUME WalkFits(walk), walk # <<>>, NEW o, NEW m,
         \A x \in ScanDir(trees.old, call.path) \ (call.orig \ o), y \in call.mod \ m : x < y
  PROVE  WalkFits(Step(o, m))
<1> DEFINE w == Step(o, m)
           c == [path |-> call.path, orig |-> call.orig \ o, mod |-> call.mod \ m]
<1>1. w \in Seq(CallType) /\ Len(w) = Len(walk) /\ w[Len(walk)] = c
      /\ \A k \in 1..(Len(walk) - 1) : w[k] = walk[k]
  BY Stepped
<1>2. Len(walk) \in Nat \ {0} /\ DOMAIN walk = 1..Len(walk) /\ call = walk[Len(walk)]
      /\ CallFits(call)
  BY Top
<1>3. CallFits(c)
  BY <1>2 DEF CallFits
<1>4. \A k \in DOMAIN walk : CallFits(walk[k])
  BY DEF WalkFits
<1> HIDE DEF w
<1>5. \A k \in DOMAIN w : w[k].path = walk[k].path
                          /\ w[k].orig \subseteq walk[k].orig /\ w[k].mod \subseteq walk[k].mod
  <2> SUFFICES ASSUME NEW k \in DOMAIN w
               PROVE  w[k].path = walk[k].path
                      /\ w[k].orig \subseteq walk[k].orig /\ w[k].mod \subseteq walk[k].mod
    OBVIOUS
  <2>1. k \in 1..(Len(walk) - 1) \/ k = Len(walk)
    BY <1>1, <1>2
  <2>2. CASE k \in 1..(Len(walk) - 1)
    BY <1>1, <2>2
  <2>3. CASE k = Len(walk)
    BY <1>1, <1>2, <2>3
  <2> QED
    BY <2>1, <2>2, <2>3
<1>6. \A k \in DOMAIN w : CallFits(w[k])
  <2> SUFFICES ASSUME NEW k \in DOMAIN w
               PROVE  CallFits(w[k])
    OBVIOUS
  <2> HIDE DEF c
  <2>1. k \in 1..(Len(walk) - 1) \/ k = Len(walk)
    BY <1>1, <1>2
  <2>2. k \in 1..(Len(walk) - 1) => CallFits(w[k])
    BY <1>1, <1>2, <1>4
  <2>3. k = Len(walk) => CallFits(w[k])
    BY <1>1, <1>3, Zenon
  <2> QED
    BY <2>1, <2>2, <2>3
<1>7. Nested(w)
  <2>1. Nested(walk)
    BY DEF WalkFits
  <2>2. DOMAIN w = DOMAIN walk
    BY <1>1, <1>2
  <2> SUFFICES ASSUME NEW k \in DOMAIN w, NEW l \in DOMAIN w, k < l
               PROVE  Below(w[l].path, w[k].path)
                      /\ EntryOf(w[k].path, w[l].path) \notin w[k].orig \cup w[k].mod
    BY DEF Nested
  <2>3. Below(walk[l].path, walk[k].path)
        /\ EntryOf(walk[k].path, walk[l].path) \notin walk[k].orig \cup walk[k].mod
    BY <2>1, <2>2 DEF Nested
  <2>4. w[l].path = walk[l].path /\ w[k].path = walk[k].path
        /\ w[k].orig \subseteq walk[k].orig /\ w[k].mod \subseteq walk[k].mod
    BY <1>5
  <2> QED
    BY <2>3, <2>4
<1> QED
  BY <1>1, <1>6, <1>7 DEF WalkFits, w

LEMMA Pushed ==
  ASSUME NEW w, WalkFits(w), w # <<>>, NEW d \in CallType, CallFits(d),
         NEW name \in Nat, d.path = Append(w[Len(w)].path, name),
         name \notin w[Len(w)].orig \cup w[Len(w)].mod
  PROVE  WalkFits(Append(w, d))
<1> DEFINE v == Append(w, d)
           n == Len(w)
<1>1. w \in Seq(CallType) /\ (\A k \in DOMAIN w : CallFits(w[k])) /\ Nested(w)
  BY DEF WalkFits
<1>2. n \in Nat \ {0} /\ DOMAIN w = 1..n
  BY <1>1, EmptySeq
<1>3. v \in Seq(CallType) /\ DOMAIN v = 1..(n + 1) /\ v[n + 1] = d /\ \A k \in 1..n : v[k] = w[k]
  BY <1>1
<1>4. \A k \in 1..n : w[k].path \in Path
  <2>1. \A c \in CallType : c.path \in Path
    BY DEF CallType
  <2>2. \A k \in 1..n : w[k] \in CallType
    BY <1>1, <1>2
  <2> QED
    BY <2>1, <2>2, Zenon
<1>5. Below(d.path, w[n].path) /\ EntryOf(w[n].path, d.path) = name /\ d.path \in Path
  BY <1>2, <1>4, PathAppend
<1> HIDE DEF v, n
<1>6. \A k \in DOMAIN v : CallFits(v[k])
  <2> SUFFICES ASSUME NEW k \in DOMAIN v
               PROVE  CallFits(v[k])
    OBVIOUS
  <2>1. k \in 1..n \/ k = n + 1
    BY <1>2, <1>3
  <2> QED
    BY <1>1, <1>2, <1>3, <2>1, Zenon
<1>7. Nested(v)
  <2> SUFFICES ASSUME NEW k \in DOMAIN v, NEW l \in DOMAIN v, k < l
               PROVE  Below(v[l].path, v[k].path)
                      /\ EntryOf(v[k].path, v[l].path) \notin v[k].orig \cup v[k].mod
    BY DEF Nested
  <2>1. k \in 1..n /\ v[k] = w[k]
    BY <1>2, <1>3
  <2>2. CASE l \in 1..n
    BY <1>1, <1>2, <1>3, <2>1, <2>2 DEF Nested
  <2>3. CASE l \notin 1..n
    <3>1. l = n + 1 /\ v[l] = d
      BY <1>2, <1>3, <2>3
    <3>2. CASE k = n
      BY <1>5, <2>1, <3>1, <3>2 DEF n
    <3>3. CASE k # n
      <4>1. k < n /\ n \in 1..n /\ k \in DOMAIN w /\ n \in DOMAIN w
        BY <1>2, <2>1, <3>3
      <4>2. Below(w[n].path, w[k].path)
            /\ EntryOf(w[k].path, w[n].path) \notin w[k].orig \cup w[k].mod
        BY <1>1, <4>1 DEF Nested
      <4>3. Below(d.path, w[k].path) /\ EntryOf(w[k].path, d.path) = EntryOf(w[k].path, w[n].path)
        BY <1>4, <1>5, <2>1, <4>1, <4>2, BelowBelow
      <4> QED
        BY <2>1, <3>1, <4>2, <4>3
    <3> QED
      BY <3>2, <3>3
  <2> QED
    BY <2>2, <2>3
<1> QED
  BY <1>3, <1>6, <1>7 DEF WalkFits, v

LEMMA Popped ==
  ASSUME WalkFits(walk), walk # <<>>
  PROVE  WalkFits(Front(walk))
<1> DEFINE f == Front(walk)
<1>1. walk \in Seq(CallType) /\ (\A k \in DOMAIN walk : CallFits(walk[k])) /\ Nested(walk)
  BY DEF WalkFits
<1>2. Len(walk) \in Nat \ {0} /\ DOMAIN walk = 1..Len(walk)
  BY Top
<1>3. f \in Seq(CallType) /\ Len(f) = Len(walk) - 1 /\ \A k \in 1..(Len(walk) - 1) : f[k] = walk[k]
  BY <1>1, FrontOf
<1> HIDE DEF f
<1>4. DOMAIN f = 1..(Len(walk) - 1) /\ DOMAIN f \subseteq DOMAIN walk
  BY <1>2, <1>3
<1>5. \A k \in DOMAIN f : CallFits(f[k])
  BY <1>1, <1>3, <1>4, Zenon
<1>6. Nested(f)
  BY <1>1, <1>3, <1>4 DEF Nested
<1> QED
  BY <1>3, <1>5, <1>6 DEF WalkFits, f

(* A step of the innermost call: what is no longer ahead is what it has    *)
(* passed, and that is not ahead in another call.                          *)
LEMMA AheadStep ==
  ASSUME WalkFits(walk), walk # <<>>, NEW o, NEW m, NEW p \in Path
  PROVE  /\ Ahead(Step(o, m), p) => Ahead(walk, p)
         /\ Ahead(walk, p) =>
              Ahead(Step(o, m), p) \/ (Meets(call, p) /\ EntryOf(call.path, p) \in o \cup m)
         /\ AheadInNew(walk, p) =>
              AheadInNew(Step(o, m), p) \/ (MeetsInNew(call, p) /\ EntryOf(call.path, p) \in m)
         /\ Below(p, call.path) /\ EntryOf(call.path, p) \in o \cup m => ~Ahead(Step(o, m), p)
<1> DEFINE w == Step(o, m)
           c == [path |-> call.path, orig |-> call.orig \ o, mod |-> call.mod \ m]
           n == Len(walk)
<1>1. w \in Seq(CallType) /\ Len(w) = n /\ w[n] = c /\ \A k \in 1..(n - 1) : w[k] = walk[k]
  BY Stepped
<1>2. n \in Nat \ {0} /\ DOMAIN walk = 1..n /\ call = walk[n] /\ call \in CallType
  BY Top
<1>3. Meets(c, p) <=> Meets(call, p) /\ EntryOf(call.path, p) \notin o \cup m
  BY DEF Meets
<1>4. MeetsInNew(c, p) <=> MeetsInNew(call, p) /\ EntryOf(call.path, p) \notin m
  BY DEF MeetsInNew
<1> HIDE DEF w, c, n
<1>5. DOMAIN w = 1..n /\ n \in 1..n
  BY <1>1, <1>2
<1>6. \A k \in 1..n : k = n \/ k \in 1..(n - 1)
  BY <1>2
<1>7. Ahead(w, p) => Ahead(walk, p)
  BY <1>1, <1>2, <1>3, <1>5, <1>6, Zenon DEF Ahead
<1>8. Ahead(walk, p) => Ahead(w, p) \/ (Meets(call, p) /\ EntryOf(call.path, p) \in o \cup m)
  BY <1>1, <1>2, <1>3, <1>5, <1>6, Zenon DEF Ahead
<1>9. AheadInNew(walk, p) => AheadInNew(w, p) \/ (MeetsInNew(call, p) /\ EntryOf(call.path, p) \in m)
  BY <1>1, <1>2, <1>4, <1>5, <1>6, Zenon DEF AheadInNew
<1>10. ASSUME Below(p, call.path), EntryOf(call.path, p) \in o \cup m
       PROVE  ~Ahead(w, p)
  <2> SUFFICES ASSUME NEW k \in 1..(n - 1), Meets(walk[k], p)
               PROVE  FALSE
    BY <1>1, <1>3, <1>5, <1>6, <1>10, Zenon DEF Ahead
  <2>1. k \in DOMAIN walk /\ n \in DOMAIN walk /\ k < n
    BY <1>2
  <2>2. Below(call.path, walk[k].path)
        /\ EntryOf(walk[k].path, call.path) \notin walk[k].orig \cup walk[k].mod
    BY <1>2, <2>1 DEF WalkFits, Nested
  <2>3. walk[k].path \in Path /\ call.path \in Path
    <3>1. walk[k] \in CallType
      BY <1>2, <2>1 DEF WalkFits
    <3> QED
      BY <1>2, <3>1 DEF CallType
  <2>4. EntryOf(walk[k].path, p) = EntryOf(walk[k].path, call.path)
    BY <1>10, <2>2, <2>3, BelowBelow
  <2> QED
    BY <2>2, <2>4 DEF Meets
<1> QED
  BY <1>7, <1>8, <1>9, <1>10 DEF w

(* A call, and the end of one.                                             *)
LEMMA AheadPush ==
  ASSUME NEW S, NEW w \in Seq(S), NEW d, NEW p
  PROVE  /\ Ahead(Append(w, d), p) <=> Ahead(w, p) \/ Meets(d, p)
         /\ AheadInNew(Append(w, d), p) <=> AheadInNew(w, p) \/ MeetsInNew(d, p)
<1> DEFINE v == Append(w, d)
           n == Len(w)
<1>1. n \in Nat /\ DOMAIN w = 1..n /\ DOMAIN v = 1..(n + 1) /\ v[n + 1] = d
      /\ \A k \in 1..n : v[k] = w[k]
  <2>1. v \in Seq(S \cup {d}) /\ w \in Seq(S \cup {d})
    BY SeqMonotonic
  <2> QED
    BY <2>1
<1> HIDE DEF v, n
<1>2. n + 1 \in 1..(n + 1) /\ \A k \in 1..(n + 1) : k = n + 1 \/ k \in 1..n
  BY <1>1
<1>3. 1..n \subseteq 1..(n + 1)
  BY <1>1
<1>4. Ahead(v, p) <=> Ahead(w, p) \/ Meets(d, p)
  BY <1>1, <1>2, <1>3, Zenon DEF Ahead
<1>5. AheadInNew(v, p) <=> AheadInNew(w, p) \/ MeetsInNew(d, p)
  BY <1>1, <1>2, <1>3, Zenon DEF AheadInNew
<1> QED
  BY <1>4, <1>5 DEF v

LEMMA AheadPop ==
  ASSUME WalkFits(walk), walk # <<>>, NEW p
  PROVE  /\ Ahead(walk, p) <=> Ahead(Front(walk), p) \/ Meets(call, p)
         /\ AheadInNew(walk, p) <=> AheadInNew(Front(walk), p) \/ MeetsInNew(call, p)
<1> DEFINE f == Front(walk)
           n == Len(walk)
<1>1. n \in Nat \ {0} /\ DOMAIN walk = 1..n /\ call = walk[n]
  BY Top
<1>2. f \in Seq(CallType) /\ Len(f) = n - 1 /\ \A k \in 1..(n - 1) : f[k] = walk[k]
  BY FrontOf DEF WalkFits
<1> HIDE DEF f, n
<1>3. DOMAIN f = 1..(n - 1) /\ n \in 1..n /\ \A k \in 1..n : k = n \/ k \in 1..(n - 1)
  BY <1>1, <1>2
<1>4. 1..(n - 1) \subseteq 1..n
  BY <1>1
<1>5. Ahead(walk, p) <=> Ahead(f, p) \/ Meets(call, p)
  BY <1>1, <1>2, <1>3, <1>4, Zenon DEF Ahead
<1>6. AheadInNew(walk, p) <=> AheadInNew(f, p) \/ MeetsInNew(call, p)
  BY <1>1, <1>2, <1>3, <1>4, Zenon DEF AheadInNew
<1> QED
  BY <1>5, <1>6 DEF f

-----------------------------------------------------------------------------
(* The steps of the walk.                                                  *)

LEMMA Called ==
  ASSUME IsTree(trees.old), IsTree(trees.new), NEW d \in Path,
         NEW old \in BOOLEAN, NEW new \in BOOLEAN,
         old \/ ~new \/ ScanDir(trees.old, d) = {}
  PROVE  /\ DirCall(d, old, new) \in CallType /\ CallFits(DirCall(d, old, new))
         /\ DirCall(d, old, new).path = d
         /\ DirCall(d, old, new).orig = IF old THEN ScanDir(trees.old, d) ELSE {}
         /\ DirCall(d, old, new).mod = IF new THEN ScanDir(trees.new, d) ELSE {}
<1> DEFINE c == DirCall(d, old, new)
<1>1. ScanDir(trees.old, d) \in SUBSET Nat /\ ScanDir(trees.new, d) \in SUBSET Nat
  BY Scanned
<1>2. c.path = d /\ c.orig = (IF old THEN ScanDir(trees.old, d) ELSE {})
      /\ c.mod = IF new THEN ScanDir(trees.new, d) ELSE {}
  BY DEF DirCall
<1>3. c \in CallType
  BY <1>1 DEF DirCall, CallType
<1> HIDE DEF c
<1>4. CallFits(c)
  BY <1>2 DEF CallFits
<1> QED
  BY <1>2, <1>3, <1>4 DEF c

(* The entries the walk has come to.                                       *)
LEMMA Next2 ==
  ASSUME TreeInv, BothLeft
  PROVE  /\ walk # <<>> /\ WalkFits(walk) /\ IsTree(trees.old) /\ IsTree(trees.new)
         /\ call.path \in Path /\ call.orig \in SUBSET Nat /\ call.mod \in SUBSET Nat
         /\ orig \in call.orig /\ \A x \in call.orig : orig <= x
         /\ mod \in call.mod /\ \A y \in call.mod : mod <= y
         /\ orig \in Nat /\ mod \in Nat
         /\ Inside(orig) \in Path /\ Inside(mod) \in Path
<1>1. walk # <<>> /\ WalkFits(walk) /\ IsTree(trees.old) /\ IsTree(trees.new)
      /\ call.orig # {} /\ call.mod # {}
  BY DEF TreeInv, BothLeft
<1>2. call \in CallType
  BY <1>1, Top
<1>3. call.path \in Path /\ call.orig \in SUBSET Nat /\ call.mod \in SUBSET Nat
  BY <1>2 DEF CallType
<1>4. orig \in call.orig /\ \A x \in call.orig : orig <= x
  BY <1>1, <1>3, LeastIsMin, Zenon DEF orig
<1>5. mod \in call.mod /\ \A y \in call.mod : mod <= y
  BY <1>1, <1>3, LeastIsMin, Zenon DEF mod
<1>6. orig \in Nat /\ mod \in Nat
  BY <1>3, <1>4, <1>5
<1>7. Inside(orig) \in Path /\ Inside(mod) \in Path
  BY <1>3, <1>6, PathAppend DEF Inside
<1> QED
  BY <1>1, <1>3, <1>4, <1>5, <1>6, <1>7

(* Objects below an entry that is a directory are in entries of that.      *)
LEMMA InsideDirectory ==
  ASSUME NEW tree, IsTree(tree), NEW d \in Path, NEW name \in Nat,
         NEW p \in ObjectPaths(tree), Below(p, d), EntryOf(d, p) = name,
         p # Append(d, name)
  PROVE  /\ Below(p, Append(d, name))
         /\ EntryOf(Append(d, name), p) \in ScanDir(tree, Append(d, name))
         /\ tree[Append(d, name)].kind = "dir"
<1>1. p \in Path /\ Append(d, name) \in Path
  BY PathAppend DEF ObjectPaths, IsTree
<1>2. Below(p, Append(d, name))
  BY <1>1, BelowEntry
<1> QED
  BY <1>1, <1>2, EntryScanned

LEMMA TreeKept ==
  ASSUME UNCHANGED trees, IsTree(trees.old), IsTree(trees.new),
         WalkFits(walk'), objects' \in Seq(ObjectType),
         AllModified(objects') => Complete(walk', objects')
  PROVE  TreeInv'
<1>1. trees' = trees
  OBVIOUS
<1>2. IsTree(trees.old)' /\ IsTree(trees.new)'
  BY <1>1 DEF IsTree
<1>3. WalkFits(walk)'
  BY <1>1 DEF WalkFits, CallFits, Nested
<1>4. Complete(walk, objects)' <=> Complete(walk', objects')
  BY <1>1 DEF Complete, Common, OnlyNew, Hidden
<1>5. AllModified(objects)' <=> AllModified(objects')
  BY DEF AllModified
<1> QED
  BY <1>2, <1>3, <1>4, <1>5 DEF TreeInv

LEMMA KeepSameDirectory ==
  ASSUME TreeInv, SameDirectory
  PROVE  TreeInv'
<1> DEFINE q == Inside(orig)
           w == Step({orig}, {mod})
           d == DirCall(q, TRUE, TRUE)
<1>1. BothLeft /\ orig = mod /\ walk' = Append(w, d) /\ trees' = trees /\ objects' = objects
  BY Zenon DEF SameDirectory
<1>2. walk # <<>> /\ WalkFits(walk) /\ IsTree(trees.old) /\ IsTree(trees.new)
      /\ call.path \in Path /\ call.orig \in SUBSET Nat /\ call.mod \in SUBSET Nat
      /\ orig \in call.orig /\ (\A x \in call.orig : orig <= x)
      /\ mod \in call.mod /\ (\A y \in call.mod : mod <= y)
      /\ orig \in Nat /\ mod \in Nat /\ q \in Path
  BY <1>1, Next2
<1>3. trees.old[q].kind = "dir" /\ trees.new[q].kind = "dir" /\ q = Append(call.path, orig)
  BY <1>1 DEF SameDirectory, OrigIsDir, ModIsDir, IsDir, Inside
<1>4. d \in CallType /\ CallFits(d) /\ d.path = q
      /\ d.orig = ScanDir(trees.old, q) /\ d.mod = ScanDir(trees.new, q)
  BY <1>2, Called
<1>5. CallFits(call)
  BY <1>2, Top
<1>6. WalkFits(w)
  <2>1. ASSUME NEW x \in ScanDir(trees.old, call.path) \ (call.orig \ {orig}),
               NEW y \in call.mod \ {mod}
        PROVE  x < y
    <3>1. mod <= y /\ y \in Nat /\ y # orig
      BY <1>1, <1>2
    <3>2. CASE x = orig
      BY <1>1, <1>2, <3>1, <3>2
    <3>3. CASE x # orig
      BY <1>5, <3>3 DEF CallFits
    <3> QED
      BY <3>2, <3>3
  <2> QED
    BY <1>2, <2>1, StepFits
<1>7. w \in Seq(CallType) /\ Len(w) = Len(walk) /\ Len(walk) \in Nat \ {0}
      /\ w[Len(w)] = [path |-> call.path, orig |-> call.orig \ {orig}, mod |-> call.mod \ {mod}]
  BY <1>2, Stepped, Top
<1> HIDE DEF w, d
<1>8. w # <<>> /\ w[Len(w)].path = call.path
      /\ orig \notin w[Len(w)].orig \cup w[Len(w)].mod
  BY <1>1, <1>7
<1>9. WalkFits(walk')
  BY <1>1, <1>2, <1>3, <1>4, <1>6, <1>8, Pushed
<1>10. \A p : (Ahead(walk', p) <=> Ahead(w, p) \/ Meets(d, p))
              /\ (AheadInNew(walk', p) <=> AheadInNew(w, p) \/ MeetsInNew(d, p))
  BY <1>1, <1>7, AheadPush
<1>11. ASSUME Complete(walk, objects)
       PROVE  Complete(walk', objects')
  <2>1. ASSUME NEW p \in Common, p \notin Found(objects)
        PROVE  Ahead(walk', p)
    <3>1. Ahead(walk, p) /\ p \in ObjectPaths(trees.old) /\ p \in ObjectPaths(trees.new)
      BY <1>11, <2>1 DEF Complete, Common
    <3>2. p \in Path /\ trees.old[p].kind = "obj"
      BY <1>2, <3>1 DEF ObjectPaths, IsTree
    <3>3. CASE Ahead(w, p)
      BY <1>10, <3>3
    <3>4. CASE Meets(call, p) /\ EntryOf(call.path, p) \in {orig} \cup {mod}
      <4>1. Below(p, call.path) /\ EntryOf(call.path, p) = orig
        BY <1>1, <3>4 DEF Meets
      <4>2. p # q
        BY <1>3, <3>2
      <4>3. Below(p, q) /\ EntryOf(q, p) \in ScanDir(trees.old, q)
            /\ EntryOf(q, p) \in ScanDir(trees.new, q)
        BY <1>2, <1>3, <3>1, <4>1, <4>2, InsideDirectory
      <4> QED
        BY <1>4, <1>10, <4>3 DEF Meets
    <3> QED
      BY <1>2, <3>1, <3>2, <3>3, <3>4, AheadStep DEF w
  <2>2. ASSUME NEW p \in Found(objects), Ahead(walk', p)
        PROVE  FALSE
    <3>1. p \in Path /\ ~Ahead(walk, p)
      BY <1>2, <1>11, <2>2 DEF Complete, Common, ObjectPaths, IsTree
    <3>2. ~Ahead(w, p)
      BY <1>2, <3>1, AheadStep DEF w
    <3>3. Meets(d, p)
      BY <1>10, <2>2, <3>2
    <3>4. Below(p, call.path) /\ EntryOf(call.path, p) = orig
      BY <1>2, <1>3, <1>4, <3>1, <3>3, BelowUp DEF Meets
    <3>5. Meets(call, p)
      BY <1>1, <1>2, <3>4 DEF Meets
    <3>6. Len(walk) \in DOMAIN walk /\ call = walk[Len(walk)]
      BY <1>2, Top
    <3> QED
      BY <3>1, <3>5, <3>6 DEF Ahead
  <2>3. ASSUME NEW p \in OnlyNew, ~Hidden(p)
        PROVE  AheadInNew(walk', p)
    <3>1. AheadInNew(walk, p) /\ p \in ObjectPaths(trees.new)
      BY <1>11, <2>3 DEF Complete, OnlyNew
    <3>2. p \in Path /\ trees.new[p].kind = "obj"
      BY <1>2, <3>1 DEF ObjectPaths, IsTree
    <3>3. CASE AheadInNew(w, p)
      BY <1>10, <3>3
    <3>4. CASE MeetsInNew(call, p) /\ EntryOf(call.path, p) \in {mod}
      <4>1. Below(p, call.path) /\ EntryOf(call.path, p) = orig
        BY <1>1, <3>4 DEF MeetsInNew
      <4>2. p # q
        BY <1>3, <3>2
      <4>3. Below(p, q) /\ EntryOf(q, p) \in ScanDir(trees.new, q)
        BY <1>2, <1>3, <3>1, <4>1, <4>2, InsideDirectory
      <4> QED
        BY <1>4, <1>10, <4>3 DEF MeetsInNew
    <3> QED
      BY <1>2, <3>1, <3>2, <3>3, <3>4, AheadStep DEF w
  <2>4. Found(objects) \subseteq Common
        /\ \A i, j \in DOMAIN objects : i # j => objects[i].path # objects[j].path
    BY <1>11 DEF Complete
  <2> QED
    BY <1>1, <2>1, <2>2, <2>3, <2>4, Zenon DEF Complete
<1>12. objects \in Seq(ObjectType) /\ (AllModified(objects) => Complete(walk, objects))
  BY DEF TreeInv
<1> QED
  BY <1>1, <1>2, <1>9, <1>11, <1>12, TreeKept

(* An object more.                                                         *)
LEMMA OneMore ==
  ASSUME NEW objs \in Seq(ObjectType), NEW o \in ObjectType
  PROVE  /\ Append(objs, o) \in Seq(ObjectType)
         /\ Found(Append(objs, o)) = Found(objs) \cup {o.path}
         /\ AllModified(Append(objs, o)) <=> AllModified(objs) /\ o.state = "modified"
         /\ (\A i, j \in DOMAIN objs : i # j => objs[i].path # objs[j].path) /\ o.path \notin Found(objs) =>
              \A i, j \in DOMAIN Append(objs, o) :
                i # j => Append(objs, o)[i].path # Append(objs, o)[j].path
<1> DEFINE v == Append(objs, o)
           n == Len(objs)
<1>1. n \in Nat /\ DOMAIN objs = 1..n /\ v \in Seq(ObjectType) /\ DOMAIN v = 1..(n + 1)
      /\ v[n + 1] = o /\ \A k \in 1..n : v[k] = objs[k]
  OBVIOUS
<1> HIDE DEF v, n
<1>2. n + 1 \in 1..(n + 1) /\ 1..n \subseteq 1..(n + 1)
      /\ \A k \in 1..(n + 1) : k = n + 1 \/ k \in 1..n
  BY <1>1
<1>3. Found(v) = Found(objs) \cup {o.path}
  <2>1. Found(v) \subseteq Found(objs) \cup {o.path}
    BY <1>1, <1>2 DEF Found
  <2>2. Found(objs) \cup {o.path} \subseteq Found(v)
    BY <1>1, <1>2 DEF Found
  <2> QED
    BY <2>1, <2>2
<1>4. AllModified(v) <=> AllModified(objs) /\ o.state = "modified"
  BY <1>1, <1>2, Zenon DEF AllModified
<1>5. ASSUME \A i, j \in DOMAIN objs : i # j => objs[i].path # objs[j].path,
             o.path \notin Found(objs),
             NEW i \in DOMAIN v, NEW j \in DOMAIN v, i # j
      PROVE  v[i].path # v[j].path
  <2>1. \A k \in 1..n : objs[k].path # o.path
    BY <1>1, <1>5 DEF Found
  <2>2. (i = n + 1 \/ i \in 1..n) /\ (j = n + 1 \/ j \in 1..n)
    BY <1>1, <1>2
  <2> QED
    BY <1>1, <1>5, <2>1, <2>2
<1> QED
  BY <1>1, <1>3, <1>4, <1>5 DEF v

LEMMA KeepSameObject ==
  ASSUME TreeInv, SameObject
  PROVE  TreeInv'
<1> DEFINE q == Inside(orig)
           w == Step({orig}, {mod})
           o == [state |-> "modified", path |-> q]
<1>1. BothLeft /\ orig = mod /\ ~OrigIsDir /\ ~ModIsDir /\ walk' = w /\ trees' = trees
      /\ objects' = Append(objects, o)
  BY Zenon DEF SameObject, elfcmp
<1>2. walk # <<>> /\ WalkFits(walk) /\ IsTree(trees.old) /\ IsTree(trees.new)
      /\ call.path \in Path /\ call.orig \in SUBSET Nat /\ call.mod \in SUBSET Nat
      /\ orig \in call.orig /\ (\A x \in call.orig : orig <= x)
      /\ mod \in call.mod /\ (\A y \in call.mod : mod <= y)
      /\ orig \in Nat /\ mod \in Nat /\ q \in Path
  BY <1>1, Next2
<1>3. trees.old[q].kind # "dir" /\ trees.new[q].kind # "dir" /\ q = Append(call.path, orig)
  BY <1>1 DEF OrigIsDir, ModIsDir, IsDir, Inside
<1>4. CallFits(call)
  BY <1>2, Top
<1>5. q \in Common /\ Below(q, call.path) /\ EntryOf(call.path, q) = orig
  <2>1. orig \in ScanDir(trees.old, call.path) /\ orig \in ScanDir(trees.new, call.path)
    BY <1>1, <1>2, <1>4 DEF CallFits
  <2>2. q \in DOMAIN trees.old /\ trees.old[q].kind = "obj"
        /\ q \in DOMAIN trees.new /\ trees.new[q].kind = "obj"
    BY <1>2, <1>3, <2>1, Scanned
  <2>3. Below(q, call.path) /\ EntryOf(call.path, q) = orig
    BY <1>2, <1>3, PathAppend
  <2> QED
    BY <2>2, <2>3 DEF Common, ObjectPaths
<1>6. WalkFits(w)
  <2>1. ASSUME NEW x \in ScanDir(trees.old, call.path) \ (call.orig \ {orig}),
               NEW y \in call.mod \ {mod}
        PROVE  x < y
    <3>1. mod <= y /\ y \in Nat /\ y # orig
      BY <1>1, <1>2
    <3>2. CASE x = orig
      BY <1>1, <1>2, <3>1, <3>2
    <3>3. CASE x # orig
      BY <1>4, <3>3 DEF CallFits
    <3> QED
      BY <3>2, <3>3
  <2> QED
    BY <1>2, <2>1, StepFits
<1>7. objects \in Seq(ObjectType) /\ (AllModified(objects) => Complete(walk, objects))
  BY DEF TreeInv
<1>8. o \in ObjectType /\ o.path = q /\ o.state = "modified"
  BY <1>2 DEF ObjectType
<1>9. /\ objects' \in Seq(ObjectType)
      /\ Found(objects') = Found(objects) \cup {q}
      /\ AllModified(objects') => AllModified(objects)
      /\ (\A i, j \in DOMAIN objects : i # j => objects[i].path # objects[j].path) /\ q \notin Found(objects) =>
            \A i, j \in DOMAIN objects' : i # j => objects'[i].path # objects'[j].path
  BY <1>1, <1>7, <1>8, OneMore
<1> HIDE DEF w, o
<1>10. ASSUME Complete(walk, objects)
       PROVE  Complete(walk', objects')
  <2>1. q \notin Found(objects)
    <3>1. Meets(call, q)
      BY <1>1, <1>2, <1>5 DEF Meets
    <3>2. Len(walk) \in DOMAIN walk /\ call = walk[Len(walk)]
      BY <1>2, Top
    <3> QED
      BY <1>10, <3>1, <3>2 DEF Ahead, Complete
  <2>2. ASSUME NEW p, p \in ObjectPaths(trees.old) \/ p \in ObjectPaths(trees.new),
               Below(p, call.path), EntryOf(call.path, p) = orig
        PROVE  p = q
    BY <1>2, <1>3, <2>2, InsideDirectory
  <2>3. ASSUME NEW p \in Common, p \notin Found(objects'), ~Ahead(walk', p)
        PROVE  FALSE
    <3>1. Ahead(walk, p) /\ p \in ObjectPaths(trees.old)
      BY <1>9, <1>10, <2>3 DEF Complete, Common
    <3>2. p \in Path
      BY <1>2, <3>1 DEF ObjectPaths, IsTree
    <3>3. Meets(call, p) /\ EntryOf(call.path, p) \in {orig} \cup {mod}
      BY <1>1, <1>2, <2>3, <3>1, <3>2, AheadStep DEF w
    <3>4. p = q
      BY <1>1, <2>2, <3>1, <3>3 DEF Meets
    <3> QED
      BY <1>9, <2>3, <3>4
  <2>4. ASSUME NEW p \in Found(objects'), Ahead(walk', p)
        PROVE  FALSE
    <3>1. CASE p \in Found(objects)
      <4>1. p \in Path /\ ~Ahead(walk, p)
        BY <1>2, <1>10, <3>1 DEF Complete, Common, ObjectPaths, IsTree
      <4> QED
        BY <1>1, <1>2, <2>4, <4>1, AheadStep DEF w
    <3>2. CASE p = q
      <4>1. EntryOf(call.path, q) \in {orig} \cup {mod}
        BY <1>5
      <4> QED
        BY <1>1, <1>2, <1>5, <2>4, <3>2, <4>1, AheadStep DEF w
    <3> QED
      BY <1>9, <2>4, <3>1, <3>2
  <2>5. ASSUME NEW p \in OnlyNew, ~Hidden(p), ~AheadInNew(walk', p)
        PROVE  FALSE
    <3>1. AheadInNew(walk, p) /\ p \in ObjectPaths(trees.new)
      BY <1>10, <2>5 DEF Complete, OnlyNew
    <3>2. p \in Path
      BY <1>2, <3>1 DEF ObjectPaths, IsTree
    <3>3. MeetsInNew(call, p) /\ EntryOf(call.path, p) \in {mod}
      BY <1>1, <1>2, <2>5, <3>1, <3>2, AheadStep DEF w
    <3>4. p = q
      BY <1>1, <2>2, <3>1, <3>3 DEF MeetsInNew
    <3> QED
      BY <1>5, <2>5, <3>4 DEF Common, OnlyNew
  <2>6. Found(objects') \subseteq Common
    BY <1>5, <1>9, <1>10 DEF Complete
  <2>7. \A i, j \in DOMAIN objects' : i # j => objects'[i].path # objects'[j].path
    BY <1>9, <1>10, <2>1, Zenon DEF Complete
  <2> QED
    BY <2>3, <2>4, <2>5, <2>6, <2>7, Zenon DEF Complete
<1> QED
  BY <1>1, <1>2, <1>6, <1>7, <1>9, <1>10, TreeKept

(* The walk has gone on and no object has been found: none is lost if what *)
(* was ahead is.                                                           *)
LEMMA NoneFound ==
  ASSUME TreeInv, UNCHANGED <<trees, objects>>, WalkFits(walk'),
         \A p \in Path : Ahead(walk', p) <=> Ahead(walk, p),
         \A p \in OnlyNew : AheadInNew(walk, p) => Hidden(p) \/ AheadInNew(walk', p)
  PROVE  TreeInv'
<1>1. IsTree(trees.old) /\ IsTree(trees.new) /\ objects \in Seq(ObjectType)
      /\ (AllModified(objects) => Complete(walk, objects)) /\ trees' = trees /\ objects' = objects
  BY DEF TreeInv
<1>2. Common \subseteq Path
  BY <1>1 DEF Common, ObjectPaths, IsTree
<1>3. ASSUME Complete(walk, objects)
      PROVE  Complete(walk', objects')
  <2>1. \A p \in Common : Ahead(walk', p) <=> Ahead(walk, p)
    BY <1>2
  <2> QED
    BY <1>1, <1>3, <2>1 DEF Complete
<1> QED
  BY <1>1, <1>3, TreeKept

LEMMA KeepRemoved ==
  ASSUME TreeInv, Removed
  PROVE  TreeInv'
<1> DEFINE q == Inside(orig)
           w == Step({orig}, {})
           d == DirCall(q, TRUE, FALSE)
<1>1. BothLeft /\ orig < mod /\ (walk' = w \/ walk' = Append(w, d)) /\ UNCHANGED <<trees, objects>>
  BY Zenon DEF Removed
<1>2. walk # <<>> /\ WalkFits(walk) /\ IsTree(trees.old) /\ IsTree(trees.new)
      /\ call.path \in Path /\ call.orig \in SUBSET Nat /\ call.mod \in SUBSET Nat
      /\ orig \in call.orig /\ (\A y \in call.mod : mod <= y)
      /\ orig \in Nat /\ mod \in Nat /\ q \in Path /\ q = Append(call.path, orig)
  BY <1>1, Next2 DEF Inside
<1>3. orig \notin call.mod /\ CallFits(call)
  <2>1. orig \notin call.mod
    BY <1>1, <1>2
  <2> QED
    BY <1>2, <2>1, Top
<1>4. d \in CallType /\ CallFits(d) /\ d.path = q /\ d.mod = {}
  BY <1>2, Called
<1>5. WalkFits(w)
  <2>1. ASSUME NEW x \in ScanDir(trees.old, call.path) \ (call.orig \ {orig}),
               NEW y \in call.mod \ {}
        PROVE  x < y
    <3>1. mod <= y /\ y \in Nat
      BY <1>2
    <3>2. CASE x = orig
      BY <1>1, <1>2, <3>1, <3>2
    <3>3. CASE x # orig
      BY <1>3, <3>3 DEF CallFits
    <3> QED
      BY <3>2, <3>3
  <2> QED
    BY <1>2, <2>1, StepFits
<1>6. w \in Seq(CallType) /\ Len(w) = Len(walk) /\ Len(walk) \in Nat \ {0}
      /\ w[Len(w)] = [path |-> call.path, orig |-> call.orig \ {orig}, mod |-> call.mod \ {}]
  BY <1>2, Stepped, Top
<1>7. ASSUME NEW p \in Path
      PROVE  /\ Ahead(w, p) <=> Ahead(walk, p)
             /\ AheadInNew(walk, p) => AheadInNew(w, p)
  <2>1. ~(Meets(call, p) /\ EntryOf(call.path, p) \in {orig} \cup {})
    BY <1>3 DEF Meets
  <2> QED
    BY <1>2, <2>1, AheadStep
<1> HIDE DEF w, d
<1>8. \A p \in Path : (Ahead(walk', p) <=> Ahead(walk, p))
                      /\ (AheadInNew(walk, p) => AheadInNew(walk', p))
  <2>1. \A p : ~Meets(d, p)
    BY <1>4 DEF Meets
  <2>2. \A p : (Ahead(Append(w, d), p) <=> Ahead(w, p) \/ Meets(d, p))
               /\ (AheadInNew(Append(w, d), p) <=> AheadInNew(w, p) \/ MeetsInNew(d, p))
    BY <1>6, AheadPush
  <2>3. CASE walk' = w
    BY <1>7, <2>3
  <2>4. CASE walk' = Append(w, d)
    BY <1>7, <2>1, <2>2, <2>4
  <2> QED
    BY <1>1, <2>3, <2>4
<1>9. WalkFits(walk')
  <2>1. w # <<>> /\ w[Len(w)].path = call.path /\ orig \notin w[Len(w)].orig \cup w[Len(w)].mod
    BY <1>3, <1>6
  <2>2. WalkFits(Append(w, d))
    BY <1>2, <1>4, <1>5, <2>1, Pushed
  <2> QED
    BY <1>1, <1>5, <2>2
<1>10. OnlyNew \subseteq Path
  BY <1>2 DEF OnlyNew, ObjectPaths, IsTree
<1> QED
  BY <1>1, <1>8, <1>9, <1>10, NoneFound

LEMMA KeepAdded ==
  ASSUME TreeInv, Added
  PROVE  TreeInv'
<1> DEFINE q == Inside(mod)
           w == Step({}, {mod})
           d == DirCall(q, FALSE, TRUE)
<1>1. BothLeft /\ orig > mod /\ trees' = trees
      /\ \/ OrigIsDir /\ walk' = Append(w, d) /\ objects' = objects
         \/ walk' = w /\ objects' = Append(objects, [state |-> "new", path |-> q])
  BY Zenon DEF Added
<1>2. walk # <<>> /\ WalkFits(walk) /\ IsTree(trees.old) /\ IsTree(trees.new)
      /\ call.path \in Path /\ call.orig \in SUBSET Nat /\ call.mod \in SUBSET Nat
      /\ orig \in call.orig /\ (\A x \in call.orig : orig <= x) /\ mod \in call.mod
      /\ orig \in Nat /\ mod \in Nat /\ q \in Path /\ q = Append(call.path, mod)
  BY <1>1, Next2 DEF Inside
<1>3. CallFits(call) /\ mod \notin call.orig
  <2>1. mod \notin call.orig
    BY <1>1, <1>2
  <2> QED
    BY <1>2, <2>1, Top
<1>4. mod \notin ScanDir(trees.old, call.path)
  <2> SUFFICES ASSUME mod \in ScanDir(trees.old, call.path)
               PROVE  FALSE
    OBVIOUS
  <2>1. mod < mod
    BY <1>2, <1>3 DEF CallFits
  <2> QED
    BY <1>2, <2>1
<1>5. d \in CallType /\ CallFits(d) /\ d.path = q /\ d.orig = {} /\ d.mod = ScanDir(trees.new, q)
  <2>1. ScanDir(trees.old, q) = {}
    BY <1>2, <1>4, NothingScanned
  <2> QED
    BY <1>2, <2>1, Called
<1>6. WalkFits(w)
  <2>1. \A x \in ScanDir(trees.old, call.path) \ (call.orig \ {}), y \in call.mod \ {mod} : x < y
    BY <1>3 DEF CallFits
  <2> QED
    BY <1>2, <2>1, StepFits
<1>7. w \in Seq(CallType) /\ Len(w) = Len(walk) /\ Len(walk) \in Nat \ {0}
      /\ w[Len(w)] = [path |-> call.path, orig |-> call.orig \ {}, mod |-> call.mod \ {mod}]
  BY <1>2, Stepped, Top
<1>8. ASSUME NEW p \in Path
      PROVE  /\ Ahead(w, p) <=> Ahead(walk, p)
             /\ AheadInNew(walk, p) =>
                  AheadInNew(w, p) \/ (MeetsInNew(call, p) /\ EntryOf(call.path, p) = mod)
  <2>1. ~(Meets(call, p) /\ EntryOf(call.path, p) \in {} \cup {mod})
    BY <1>3 DEF Meets
  <2> QED
    BY <1>2, <2>1, AheadStep
<1> HIDE DEF w, d
\* Where the old tree has a directory next, a file is passed over.
<1>9. CASE OrigIsDir /\ walk' = Append(w, d) /\ objects' = objects
  <2>1. WalkFits(walk')
    <3>1. w # <<>> /\ w[Len(w)].path = call.path /\ mod \notin w[Len(w)].orig \cup w[Len(w)].mod
      BY <1>3, <1>7
    <3> QED
      BY <1>2, <1>5, <1>6, <1>9, <3>1, Pushed
  <2>2. \A p : (Ahead(walk', p) <=> Ahead(w, p) \/ Meets(d, p))
               /\ (AheadInNew(walk', p) <=> AheadInNew(w, p) \/ MeetsInNew(d, p))
    BY <1>7, <1>9, AheadPush
  <2>3. \A p \in Path : Ahead(walk', p) <=> Ahead(walk, p)
    <3>1. \A p : ~Meets(d, p)
      BY <1>5 DEF Meets
    <3> QED
      BY <1>8, <2>2, <3>1
  <2>4. Hidden(q)
    <3> DEFINE later == {name \in ScanDir(trees.old, call.path) : name > mod}
    <3>1. Front(q) = call.path /\ Last(q) = mod
      BY <1>2, PathAppend
    <3>2. ScanDir(trees.old, call.path) \in SUBSET Nat
      BY <1>2, Scanned
    <3>3. orig \in later /\ later \in SUBSET Nat
      BY <1>1, <1>2, <1>3, <3>2 DEF CallFits
    <3>4. \A x \in later : x \in call.orig
      <4> SUFFICES ASSUME NEW x \in later, x \notin call.orig
                   PROVE  FALSE
        OBVIOUS
      <4>1. x < mod
        BY <1>2, <1>3 DEF CallFits
      <4> QED
        BY <1>2, <3>2, <4>1
    <3> HIDE DEF later
    <3>5. Min(later) \in later /\ Min(later) <= orig /\ later # {}
      BY <3>3, LeastIsMin
    <3>6. Min(later) = orig
      <4>1. orig <= Min(later) /\ Min(later) \in Nat
        BY <1>2, <3>3, <3>4, <3>5
      <4> QED
        BY <1>2, <3>5, <4>1
    <3>7. trees.old[Append(call.path, orig)].kind = "dir"
      BY <1>9 DEF OrigIsDir, IsDir, Inside
    <3> QED
      BY <3>1, <3>5, <3>6, <3>7 DEF Hidden, later
  <2>5. ASSUME NEW p \in OnlyNew, AheadInNew(walk, p), ~Hidden(p)
        PROVE  AheadInNew(walk', p)
    <3>1. p \in ObjectPaths(trees.new) /\ p \in Path
      BY <1>2 DEF OnlyNew, ObjectPaths, IsTree
    <3>2. CASE AheadInNew(w, p)
      BY <2>2, <3>2
    <3>3. CASE MeetsInNew(call, p) /\ EntryOf(call.path, p) = mod
      <4>1. p # Append(call.path, mod)
        BY <1>2, <2>4, <2>5
      <4>2. Below(p, q) /\ EntryOf(q, p) \in ScanDir(trees.new, q)
        BY <1>2, <3>1, <3>3, <4>1, InsideDirectory DEF MeetsInNew
      <4> QED
        BY <1>5, <2>2, <4>2 DEF MeetsInNew
    <3> QED
      BY <1>8, <2>5, <3>1, <3>2, <3>3
  <2> QED
    BY <1>1, <1>9, <2>1, <2>3, <2>5, NoneFound
\* A new object, on which katana ends.
<1>10. CASE walk' = w /\ objects' = Append(objects, [state |-> "new", path |-> q])
  <2> DEFINE o == [state |-> "new", path |-> q]
  <2>1. objects \in Seq(ObjectType)
    BY DEF TreeInv
  <2>2. o \in ObjectType /\ o.state # "modified"
    BY <1>2 DEF ObjectType
  <2> HIDE DEF o
  <2>3. objects' \in Seq(ObjectType) /\ ~AllModified(objects')
    BY <1>10, <2>1, <2>2, OneMore DEF o
  <2> QED
    BY <1>1, <1>2, <1>6, <1>10, <2>3, TreeKept
<1> QED
  BY <1>1, <1>9, <1>10

LEMMA KeepEndDirectory ==
  ASSUME TreeInv, EndDirectory
  PROVE  TreeInv'
<1> DEFINE new == [k \in 1..Cardinality(call.mod) |-> [state |-> "new", path |-> call.path]]
           n == Cardinality(call.mod)
<1>1. walk # <<>> /\ ~BothLeft /\ walk' = Front(walk) /\ objects' = objects \o new /\ trees' = trees
  BY Zenon DEF EndDirectory
<1>2. WalkFits(walk) /\ IsTree(trees.old) /\ IsTree(trees.new) /\ objects \in Seq(ObjectType)
  BY DEF TreeInv
<1>3. call \in CallType /\ CallFits(call)
  BY <1>1, <1>2, Top
<1>4. call.path \in Path /\ (call.orig = {} \/ call.mod = {})
  BY <1>1, <1>3 DEF CallType, BothLeft
<1>5. IsFiniteSet(call.mod)
  BY <1>2, <1>3, <1>4, Scanned, FS_Subset DEF CallFits
<1>6. n \in Nat /\ (n = 0 <=> call.mod = {})
  BY <1>5, FS_CardinalityType, FS_EmptySet
<1>7. WalkFits(walk')
  BY <1>1, <1>2, Popped
<1> HIDE DEF n
<1>8. new \in Seq(ObjectType) /\ Len(new) = n /\ \A k \in 1..n : new[k].state = "new"
  <2>1. [state |-> "new", path |-> call.path] \in ObjectType
    BY <1>4 DEF ObjectType
  <2>2. new = [k \in 1..n |-> [state |-> "new", path |-> call.path]]
    BY DEF n
  <2> HIDE DEF new
  <2>3. new \in [1..n -> ObjectType] /\ \A k \in 1..n : new[k].state = "new"
    BY <2>1, <2>2
  <2>4. new \in Seq(ObjectType)
    BY <1>6, <2>3, SeqDef, Zenon
  <2>5. DOMAIN new = 1..n /\ Len(new) \in Nat /\ DOMAIN new = 1..Len(new)
    BY <2>3, <2>4
  <2>6. Len(new) = n
    BY <1>6, <2>5
  <2> QED
    BY <2>3, <2>4, <2>6
<1> HIDE DEF new
<1>9. CASE call.mod = {}
  <2>1. objects' = objects
    <3>1. new = <<>>
      BY <1>6, <1>8, <1>9
    <3> QED
      BY <1>1, <1>2, <3>1
  <2>2. \A p : ~Meets(call, p) /\ ~MeetsInNew(call, p)
    BY <1>9 DEF Meets, MeetsInNew
  <2>3. \A p : (Ahead(walk', p) <=> Ahead(walk, p)) /\ (AheadInNew(walk', p) <=> AheadInNew(walk, p))
    BY <1>1, <1>2, <2>2, AheadPop
  <2> QED
    BY <1>1, <1>7, <2>1, <2>3, NoneFound
\* What is left of the new directory is new, on which katana ends.
<1>10. CASE call.mod # {}
  <2>1. objects' \in Seq(ObjectType) /\ Len(objects) + 1 \in DOMAIN objects'
        /\ objects'[Len(objects) + 1] = new[1] /\ 1 \in 1..n
    BY <1>1, <1>2, <1>6, <1>8, <1>10
  <2>2. ~AllModified(objects')
    BY <1>8, <2>1 DEF AllModified
  <2> QED
    BY <1>1, <1>2, <1>7, <2>1, <2>2, TreeKept
<1> QED
  BY <1>9, <1>10

-----------------------------------------------------------------------------
(* The walk as a whole.                                                    *)

LEMMA WalkStarts == TreeInit => TreeInv
<1> SUFFICES ASSUME TreeInit
             PROVE  TreeInv
  OBVIOUS
<1> DEFINE d == DirCall(<<>>, TRUE, TRUE)
<1>1. walk = <<d>> /\ objects = <<>> /\ IsTree(trees.old) /\ IsTree(trees.new)
  BY TreesAssumption DEF TreeInit
<1>2. <<>> \in Path
  BY DEF Path
<1>3. d \in CallType /\ CallFits(d) /\ d.path = <<>>
      /\ d.orig = ScanDir(trees.old, <<>>) /\ d.mod = ScanDir(trees.new, <<>>)
  BY <1>1, <1>2, Called
<1> HIDE DEF d
<1>4. walk \in Seq(CallType) /\ DOMAIN walk = {1} /\ walk[1] = d
  BY <1>1, <1>3
<1>5. WalkFits(walk)
  BY <1>3, <1>4 DEF WalkFits, Nested
<1>6. ASSUME NEW tree, IsTree(tree), NEW p \in ObjectPaths(tree)
      PROVE  Below(p, <<>>) /\ EntryOf(<<>>, p) \in ScanDir(tree, <<>>)
  <2>1. p \in Seq(Nat) /\ p \in Path /\ tree[p].kind = "obj" /\ tree[<<>>].kind = "dir"
    BY <1>6 DEF ObjectPaths, IsTree, Path
  <2>2. Len(p) \in Nat \ {0} /\ SubSeq(p, 1, 0) = <<>>
    BY <2>1, EmptySeq
  <2>3. Below(p, <<>>)
    BY <2>2 DEF Below
  <2> QED
    BY <1>2, <1>6, <2>1, <2>3, EntryScanned
<1>7. Complete(walk, objects)
  <2>1. Found(objects) = {} /\ DOMAIN objects = {}
    BY <1>1 DEF Found
  <2>2. \A p \in Common : Ahead(walk, p)
    BY <1>1, <1>3, <1>4, <1>6 DEF Common, Ahead, Meets
  <2>3. \A p \in OnlyNew : AheadInNew(walk, p)
    BY <1>1, <1>3, <1>4, <1>6 DEF OnlyNew, AheadInNew, MeetsInNew
  <2> QED
    BY <2>1, <2>2, <2>3 DEF Complete
<1> QED
  BY <1>1, <1>5, <1>7 DEF TreeInv

LEMMA WalkGoesOn ==
  ASSUME TreeInv, TreeNext
  PROVE  TreeInv'
BY KeepSameDirectory, KeepSameObject, KeepRemoved, KeepAdded, KeepEndDirectory DEF TreeNext

LEMMA WalkStays ==
  ASSUME TreeInv, UNCHANGED <<trees, walk, objects>>
  PROVE  TreeInv'
<1>1. trees' = trees /\ walk' = walk /\ objects' = objects
  OBVIOUS
<1>2. IsTree(trees.old) /\ IsTree(trees.new) /\ WalkFits(walk) /\ objects \in Seq(ObjectType)
      /\ (AllModified(objects) => Complete(walk, objects))
  BY DEF TreeInv
<1> QED
  BY <1>1, <1>2, TreeKept

-----------------------------------------------------------------------------
(* createPatch.                                                            *)

LEMMA StepKeepsIInv ==
  ASSUME IInv, [Next]_vars
  PROVE  IInv'
<1>1. TreeInv /\ Phases /\ at \in Nat \ {0} /\ objects \in Seq(ObjectType)
  BY DEF IInv, Phases, TreeInv
<1>2. CASE WalkTrees
  <2>1. pc = "trees" /\ pc' = pc /\ at' = at /\ TreeNext
    BY <1>2 DEF WalkTrees
  <2>2. TreeInv'
    BY <1>1, <2>1, WalkGoesOn
  <2>3. Phases'
    BY <1>1, <2>1 DEF Phases
  <2> QED
    BY <2>2, <2>3 DEF IInv
<1>3. CASE WalkDies
  <2>1. TreeInv'
    BY <1>1, <1>3, WalkStays DEF WalkDies, Here
  <2> QED
    BY <1>1, <1>3, <2>1 DEF IInv, Phases, WalkDies, Here
\* With the walk at its end, pc is where objects are dealt with.
<1>4. CASE TreesWalked
  <2>1. TreeInv'
    BY <1>1, <1>4, WalkStays DEF TreesWalked, Here
  <2> QED
    BY <1>1, <1>4, <2>1 DEF IInv, Phases, TreesWalked, Here
<1>5. CASE StartObject
  <2>1. TreeInv'
    BY <1>1, <1>5, WalkStays DEF StartObject, Here
  <2>2. at \in DOMAIN objects
    BY <1>1, <1>5 DEF StartObject
  <2> QED
    BY <1>1, <1>5, <2>1, <2>2 DEF IInv, Phases, StartObject, Here, Object
<1>6. CASE SkipObject
  <2>1. TreeInv'
    BY <1>1, <1>6, WalkStays DEF SkipObject, Here
  <2>2. pc = "objects" /\ pc' = pc /\ at' = at + 1 /\ objects' = objects /\ walk' = walk
        /\ objects[at].state = "modified"
    BY <1>6 DEF SkipObject, Here, Object
  <2>3. \A i \in DOMAIN objects : i < at + 1 => i < at \/ i = at
    BY <1>1
  <2> QED
    BY <1>1, <2>1, <2>2, <2>3 DEF IInv, Phases
<1>7. CASE RefuseObject
  <2>1. TreeInv'
    BY <1>1, <1>7, WalkStays DEF RefuseObject, Here
  <2> QED
    BY <1>1, <1>7, <2>1 DEF IInv, Phases, RefuseObject, Here
<1>8. CASE EndObject
  <2>1. TreeInv'
    BY <1>1, <1>8, WalkStays DEF EndObject, Here
  <2>2. pc = "units" /\ pc' = "objects" /\ at' = at + 1 /\ objects' = objects /\ walk' = walk
    BY <1>8 DEF EndObject, Here
  <2>3. \A i \in DOMAIN objects : i < at + 1 => i < at \/ i = at
    BY <1>1
  <2>4. objects[at].state = "modified"
    BY <1>1, <2>2 DEF Phases
  <2> QED
    BY <1>1, <2>1, <2>2, <2>3, <2>4 DEF IInv, Phases
\* Within an object nothing changes that the invariant is about.
<1>9. CASE StartUnit \/ NewFunction \/ NewFunctionsWritten \/ CompareFunction \/ EndUnit
  <2>1. /\ UNCHANGED <<trees, walk, objects, at>>
        /\ pc \in {"units", "new functions", "functions"}
        /\ pc' \in {"units", "new functions", "functions", "dead"}
    BY <1>9 DEF StartUnit, NewFunction, NewFunctionsWritten, CompareFunction, EndUnit, Here, GoOn
  <2>2. TreeInv'
    BY <1>1, <2>1, WalkStays
  <2> QED
    BY <1>1, <2>1, <2>2 DEF IInv, Phases
<1>10. CASE Finish
  <2>1. TreeInv'
    BY <1>1, <1>10, WalkStays DEF Finish, Here
  <2> QED
    BY <1>1, <1>10, <2>1 DEF IInv, Phases, Finish, Here
<1>11. CASE UNCHANGED vars
  <2>1. TreeInv'
    BY <1>1, <1>11, WalkStays DEF vars
  <2> QED
    BY <1>1, <1>11, <2>1 DEF IInv, Phases, vars
<1> QED
  BY <1>2, <1>3, <1>4, <1>5, <1>6, <1>7, <1>8, <1>9, <1>10, <1>11 DEF Next

(* The invariant of the walk and of the loop over what it has found        *)
(* (getChangedObjectFilesInSourceTree, createPatch): what both trees have  *)
(* is found or ahead, never both; what only the new tree has is ahead,     *)
(* hidden, or on the list of what katana refuses.                          *)
THEOREM WalkInvariance == Spec => []IInv
<1>1. Init => IInv
  BY WalkStarts DEF Init, IInv, Phases
<1>2. IInv /\ [Next]_vars => IInv'
  BY StepKeepsIInv
<1> QED
  BY <1>1, <1>2, PTL DEF Spec

(* Of distinct things there are as many as places.                         *)
LEMMA AsManyAsFound ==
  ASSUME NEW objs \in Seq(ObjectType),
         \A i, j \in DOMAIN objs : i # j => objs[i].path # objs[j].path
  PROVE  Cardinality(Found(objs)) = Len(objs)
<1> DEFINE I == 1..Len(objs)
           f == [i \in I |-> objs[i].path]
<1>1. Len(objs) \in Nat /\ DOMAIN objs = I
  OBVIOUS
<1>2. IsFiniteSet(I) /\ Cardinality(I) = Len(objs)
  <2>1. 1 \in Int /\ Len(objs) \in Int
    BY <1>1
  <2>2. Cardinality(I) = IF 1 > Len(objs) THEN 0 ELSE Len(objs) - 1 + 1
    BY <2>1, FS_Interval
  <2> QED
    BY <1>1, <2>1, <2>2, FS_Interval
<1> HIDE DEF I
<1>3. f \in [I -> Found(objs)] /\ \A i \in I : f[i] = objs[i].path
  BY <1>1 DEF Found
<1> HIDE DEF f
<1>4. \A i, j \in I : f[i] = f[j] => i = j
  BY <1>1, <1>3
<1>5. \A p \in Found(objs) : \E i \in I : f[i] = p
  BY <1>1, <1>3 DEF Found
<1>6. f \in Bijection(I, Found(objs))
  BY <1>3, <1>4, <1>5, Zenon DEF Bijection, Injection, Surjection, IsInjective
<1> QED
  BY <1>2, <1>6, FS_Bijection, Zenon DEF ExistsBijection

(* Every object file that both trees have is compared, and once, however   *)
(* deep the trees are and whatever else is in them; and katana does not    *)
(* finish when there is a new one, unless the next name of the old tree is *)
(* that of a directory (getChangedObjectFilesInSourceTree, createPatch).   *)
THEOREM NoneIsLost == Spec => []NoObjectIsLost
<1>1. ASSUME IInv, pc = "done"
      PROVE  /\ {o.path : o \in Range(objects)} = Common
             /\ Len(objects) = Cardinality(Common)
             /\ \A p \in OnlyNew : Hidden(p)
  <2>1. walk = <<>> /\ objects \in Seq(ObjectType) /\ at > Len(objects) /\ at \in Nat
        /\ (\A i \in DOMAIN objects : i < at => objects[i].state = "modified")
        /\ (AllModified(objects) => Complete(walk, objects))
    BY <1>1 DEF IInv, TreeInv, Phases
  <2>2. AllModified(objects)
    BY <2>1 DEF AllModified
  <2>3. Complete(walk, objects)
    BY <2>1, <2>2
  <2>4. \A p : ~Ahead(walk, p) /\ ~AheadInNew(walk, p)
    BY <2>1 DEF Ahead, AheadInNew
  <2>5. Found(objects) = Common
    BY <2>3, <2>4 DEF Complete
  <2>6. {o.path : o \in Range(objects)} = Found(objects)
    BY DEF Range, Found
  <2>7. Len(objects) = Cardinality(Found(objects))
    BY <2>1, <2>3, AsManyAsFound DEF Complete
  <2>8. \A p \in OnlyNew : Hidden(p)
    BY <2>3, <2>4 DEF Complete
  <2> QED
    BY <2>5, <2>6, <2>7, <2>8
<1>2. IInv => NoObjectIsLost
  BY <1>1 DEF NoObjectIsLost, Common, OnlyNew
<1> QED
  BY <1>2, WalkInvariance, PTL

-----------------------------------------------------------------------------
(* Relocations in the order of their places, as they are compared.         *)

(* No two of them are for one place.                                       *)
Apart(R) == IsFiniteSet(R) /\ (\A r \in R : r.at \in Nat) /\ \A r, q \in R : r.at = q.at => r = q

LEMMA InOrderOf ==
  ASSUME NEW R, Apart(R)
  PROVE  /\ Cardinality(R) \in Nat /\ InOrder(R) \in [1..Cardinality(R) -> R]
         /\ InOrder(R) \in Seq(R) /\ Len(InOrder(R)) = Cardinality(R)
         /\ \A r \in R : \E k \in 1..Cardinality(R) : InOrder(R)[k] = r
         /\ \A k, l \in 1..Cardinality(R) : k < l => InOrder(R)[k].at < InOrder(R)[l].at
         /\ \A k \in 1..Cardinality(R) : Cardinality({q \in R : q.at <= InOrder(R)[k].at}) = k
<1> DEFINE n == Cardinality(R)
           upTo(r) == {q \in R : q.at <= r.at}
           rank == [r \in R |-> Cardinality(upTo(r))]
           s == InOrder(R)
<1>1. n \in Nat /\ IsFiniteSet(R)
  BY FS_CardinalityType DEF Apart
<1>2. \A r \in R : /\ upTo(r) \subseteq R /\ IsFiniteSet(upTo(r)) /\ r \in upTo(r)
                   /\ Cardinality(upTo(r)) \in 1..n
  <2> SUFFICES ASSUME NEW r \in R
               PROVE  /\ upTo(r) \subseteq R /\ IsFiniteSet(upTo(r)) /\ r \in upTo(r)
                      /\ Cardinality(upTo(r)) \in 1..n
    OBVIOUS
  <2>1. upTo(r) \subseteq R /\ r \in upTo(r)
    BY DEF Apart
  <2> HIDE DEF upTo
  <2>2. IsFiniteSet(upTo(r)) /\ Cardinality(upTo(r)) <= n
    BY <1>1, <2>1, FS_Subset
  <2>3. Cardinality(upTo(r)) \in Nat /\ Cardinality(upTo(r)) # 0
    BY <2>1, <2>2, FS_CardinalityType, FS_EmptySet
  <2> QED
    BY <1>1, <2>1, <2>2, <2>3
<1>3. \A q, r \in R : q.at < r.at => Cardinality(upTo(q)) < Cardinality(upTo(r))
  <2> SUFFICES ASSUME NEW q \in R, NEW r \in R, q.at < r.at
               PROVE  Cardinality(upTo(q)) < Cardinality(upTo(r))
    OBVIOUS
  <2>1. upTo(q) \subseteq upTo(r) /\ r \notin upTo(q)
    BY DEF Apart
  <2>2. r \in upTo(r) /\ IsFiniteSet(upTo(r)) /\ Cardinality(upTo(r)) \in Nat /\ Cardinality(upTo(q)) \in Nat
    BY <1>2
  <2> HIDE DEF upTo
  <2>3. Cardinality(upTo(q)) <= Cardinality(upTo(r))
        /\ (Cardinality(upTo(q)) = Cardinality(upTo(r)) => upTo(q) = upTo(r))
    BY <2>1, <2>2, FS_Subset
  <2> QED
    BY <2>1, <2>2, <2>3
<1>4. \A k \in 1..n : \E r \in R : Cardinality(upTo(r)) = k
  <2> HIDE DEF upTo, n
  <2>1. rank \in [R -> 1..n] /\ \A r \in R : rank[r] = Cardinality(upTo(r))
    BY <1>2
  <2>2. \A q, r \in R : rank[q] = rank[r] => q = r
    <3> SUFFICES ASSUME NEW q \in R, NEW r \in R, rank[q] = rank[r], q # r
                 PROVE  FALSE
      OBVIOUS
    <3>1. q.at < r.at \/ r.at < q.at
      BY DEF Apart
    <3>2. rank[q] \in Nat /\ rank[r] \in Nat
      BY <1>2, <2>1
    <3> QED
      BY <1>3, <2>1, <3>1, <3>2
  <2> HIDE DEF rank
  <2>3. rank \in Injection(R, 1..n)
    BY <2>1, <2>2, Zenon DEF Injection, IsInjective
  <2>4. IsFiniteSet(1..n) /\ Cardinality(1..n) = n
    <3>1. 1 \in Int /\ n \in Int
      BY <1>1 DEF n
    <3>2. Cardinality(1..n) = IF 1 > n THEN 0 ELSE n - 1 + 1
      BY <3>1, FS_Interval
    <3> QED
      BY <1>1, <3>1, <3>2, FS_Interval DEF n
  <2>5. rank \in Surjection(R, 1..n)
    BY <2>3, <2>4, FS_Injection DEF n
  <2> QED
    BY <2>1, <2>5, Zenon DEF Surjection
<1>5. s = [k \in 1..n |-> CHOOSE r \in R : Cardinality(upTo(r)) = k]
  BY DEF InOrder
<1> HIDE DEF upTo, s, rank, n
<1>6. \A k \in 1..n : s[k] \in R /\ Cardinality(upTo(s[k])) = k
  <2> SUFFICES ASSUME NEW k \in 1..n
               PROVE  s[k] \in R /\ Cardinality(upTo(s[k])) = k
    OBVIOUS
  <2>1. s[k] = CHOOSE r \in R : Cardinality(upTo(r)) = k
    BY <1>5
  <2>2. \E r \in R : Cardinality(upTo(r)) = k
    BY <1>4
  <2> QED
    BY <2>1, <2>2, Zenon
<1>7. s \in [1..n -> R]
  BY <1>5, <1>6
<1>8. s \in Seq(R) /\ Len(s) = n
  <2>1. s \in Seq(R)
    BY <1>1, <1>7, SeqDef, Zenon DEF n
  <2>2. DOMAIN s = 1..n /\ Len(s) \in Nat /\ DOMAIN s = 1..Len(s)
    BY <1>7, <2>1
  <2> QED
    BY <1>1, <2>1, <2>2 DEF n
<1>9. \A k, l \in 1..n : k < l => s[k].at < s[l].at
  <2> SUFFICES ASSUME NEW k \in 1..n, NEW l \in 1..n, k < l, ~(s[k].at < s[l].at)
               PROVE  FALSE
    OBVIOUS
  <2>1. s[k] \in R /\ s[l] \in R /\ Cardinality(upTo(s[k])) = k /\ Cardinality(upTo(s[l])) = l
    BY <1>6
  <2>2. s[l].at < s[k].at \/ s[l] = s[k]
    BY <2>1 DEF Apart
  <2>3. k \in Nat /\ l \in Nat
    BY <1>1 DEF n
  <2> QED
    BY <1>3, <2>1, <2>2, <2>3
<1>10. \A r \in R : \E k \in 1..n : s[k] = r
  <2> SUFFICES ASSUME NEW r \in R
               PROVE  \E k \in 1..n : s[k] = r
    OBVIOUS
  <2>1. Cardinality(upTo(r)) \in 1..n
    BY <1>2
  <2> DEFINE k == Cardinality(upTo(r))
  <2>2. s[k] \in R /\ Cardinality(upTo(s[k])) = k
    BY <1>6, <2>1
  <2>3. k \in Nat
    BY <1>1, <2>1 DEF n
  <2>4. s[k].at = r.at
    <3>1. s[k].at \in Nat /\ r.at \in Nat
      BY <2>2 DEF Apart
    <3> QED
      BY <1>3, <2>2, <2>3, <3>1
  <2> QED
    BY <2>1, <2>2, <2>4 DEF Apart
<1> QED
  BY <1>1, <1>6, <1>7, <1>8, <1>9, <1>10 DEF s, n, upTo

-----------------------------------------------------------------------------
(* The comparison, unfolded.                                               *)
SameBody(e1, f, e2, g, F, i, k) ==
  LET len == f.high - f.low
      relocs1 == InOrder(RelocationsOf(e1, f))
      relocs2 == InOrder(RelocationsOf(e2, g))
      text1 == e1.sections[TextOf(e1, f.name)].data
      text2 == e2.sections[TextOf(e2, g.name)].data
      old == Relocated(relocs1, k, f.low + i)
      new == Relocated(relocs2, k, g.low + i)
      s1  == e1.syms[relocs1[k].sym]
      s2  == e2.syms[relocs2[k].sym]
  IN  \/ i >= len
      \/ /\ old /\ new /\ SymbolsAgree(s1, s2)
         /\ \/ SpecialSectionsDiffer(s1, s2)
            \/ /\ s1.scn = s2.scn
               /\ relocs1[k].addend = relocs2[k].addend
               /\ F[i + AddrSize(e1)][k + 1]
      \/ /\ ~old /\ ~new
         /\ text1[f.low + i + 1] = text2[g.low + i + 1]
         /\ F[i + 1][k]

Unfolds(e1, f, e2, g, F) == F = [i \in Nat |-> [k \in Nat |-> SameBody(e1, f, e2, g, F, i, k)]]

LEMMA SameFromChosen ==
  ASSUME NEW e1, NEW f, NEW e2, NEW g
  PROVE  SameFrom(e1, f, e2, g) = CHOOSE F : Unfolds(e1, f, e2, g, F)
BY Zenon DEF SameFrom, SameBody, Unfolds

LEMMA BodyDepends ==
  ASSUME NEW e1, NEW f, NEW e2, NEW g, NEW F, NEW G, NEW i, NEW k,
         F[i + 1][k] = G[i + 1][k], F[i + AddrSize(e1)][k + 1] = G[i + AddrSize(e1)][k + 1]
  PROVE  SameBody(e1, f, e2, g, F, i, k) = SameBody(e1, f, e2, g, G, i, k)
BY Zenon DEF SameBody

LEMMA BodyBoolean ==
  ASSUME NEW e1, NEW f, NEW e2, NEW g, NEW F, NEW i \in Nat, NEW k
  PROVE  i >= f.high - f.low => SameBody(e1, f, e2, g, F, i, k) = TRUE
BY Zenon DEF SameBody

LEMMA SameFromUnfolds ==
  ASSUME NEW e1, NEW f, NEW e2, NEW g, f.high - f.low \in Nat
  PROVE  Unfolds(e1, f, e2, g, SameFrom(e1, f, e2, g))
<1> DEFINE len == f.high - f.low
           body(F, i, k) == SameBody(e1, f, e2, g, F, i, k)
           A == AddrSize(e1)
           P(m) == \E F : \A i, k \in Nat : i + m >= len => F[i][k] = body(F, i, k)
<1>1. A \in Nat /\ A >= 1
  BY DEF AddrSize
<1>2. P(0)
  <2> DEFINE F == [i \in Nat |-> [k \in Nat |-> TRUE]]
  <2>1. \A i, k \in Nat : F[i][k] = TRUE
    OBVIOUS
  <2> HIDE DEF F
  <2>2. ASSUME NEW i \in Nat, NEW k \in Nat, i + 0 >= len
        PROVE  F[i][k] = body(F, i, k)
    <3>1. i + 0 = i
      OBVIOUS
    <3>2. i >= f.high - f.low
      BY <2>2, <3>1, Zenon
    <3> QED
      BY <2>1, <3>2, BodyBoolean, Zenon
  <2> QED
    BY <2>2, Zenon
<1>3. ASSUME NEW m \in Nat \ {0}, P(m - 1)
      PROVE  P(m)
  <2>1. PICK F : \A i, k \in Nat : i + (m - 1) >= len => F[i][k] = body(F, i, k)
    BY <1>3, Zenon
  <2> DEFINE G == [i \in Nat |-> [k \in Nat |-> IF i + (m - 1) >= len THEN F[i][k] ELSE body(F, i, k)]]
  <2>2. \A i, k \in Nat : G[i][k] = IF i + (m - 1) >= len THEN F[i][k] ELSE body(F, i, k)
    BY Zenon
  <2> HIDE DEF G
  <2>3. ASSUME NEW i \in Nat, NEW k \in Nat, i + m >= len
        PROVE  G[i][k] = body(G, i, k)
    <3>1. i + 1 \in Nat /\ i + A \in Nat /\ k + 1 \in Nat
          /\ i + 1 + (m - 1) >= len /\ i + A + (m - 1) >= len
      <4> HIDE DEF A
      <4> QED
        BY <1>1, <2>3
    <3>2. G[i + 1][k] = F[i + 1][k] /\ G[i + A][k + 1] = F[i + A][k + 1]
      BY <2>2, <3>1, Zenon
    <3>3. body(G, i, k) = body(F, i, k)
      BY <3>2, BodyDepends
    <3>4. i + (m - 1) >= len => F[i][k] = body(F, i, k)
      BY <2>1, Zenon
    <3>5. G[i][k] = body(F, i, k)
      BY <2>2, <3>4, Zenon
    <3> QED
      BY <3>3, <3>5, Zenon
  <2> QED
    BY <2>3, Zenon
<1> HIDE DEF P
<1>4. P(len)
  <2> SUFFICES ASSUME ~P(len)
               PROVE  FALSE
    OBVIOUS
  <2> DEFINE Bad == {m \in Nat : ~P(m)}
  <2>1. Bad \in SUBSET Nat /\ len \in Bad
    OBVIOUS
  <2>2. PICK m \in Bad : \A n \in Bad : m <= n
    BY <2>1, LeastNatural
  <2>3. m \in Nat \ {0}
    BY <1>2
  <2>4. m - 1 \in Nat /\ ~(m <= m - 1)
    BY <2>3
  <2>5. P(m - 1)
    BY <2>2, <2>4
  <2> QED
    BY <1>3, <2>3, <2>5
<1>5. PICK F : \A i, k \in Nat : i + len >= len => F[i][k] = body(F, i, k)
  BY <1>4 DEF P
<1> DEFINE G == [i \in Nat |-> [k \in Nat |-> F[i][k]]]
<1>6. \A i, k \in Nat : G[i][k] = F[i][k]
  OBVIOUS
<1>7. G = [i \in Nat |-> [k \in Nat |-> body(G, i, k)]]
  <2>1. ASSUME NEW i \in Nat, NEW k \in Nat
        PROVE  F[i][k] = body(G, i, k)
    <3>1. i + len >= len /\ i + 1 \in Nat /\ i + A \in Nat /\ k + 1 \in Nat
      <4> HIDE DEF A
      <4> QED
        BY <1>1
    <3> HIDE DEF G
    <3>2. F[i + 1][k] = G[i + 1][k] /\ F[i + A][k + 1] = G[i + A][k + 1]
      BY <1>6, <3>1, Zenon
    <3>3. body(F, i, k) = body(G, i, k)
      BY <3>2, BodyDepends
    <3> QED
      BY <1>5, <3>1, <3>3, Zenon
  <2> HIDE DEF body
  <2>2. G = [i \in Nat |-> [k \in Nat |-> F[i][k]]]
    OBVIOUS
  <2> HIDE DEF G
  <2> DEFINE H == [i \in Nat |-> [k \in Nat |-> body(G, i, k)]]
  <2>3. \A i \in Nat : G[i] = [k \in Nat |-> F[i][k]]
    BY <2>2, Zenon
  <2>4. \A i \in Nat : [k \in Nat |-> F[i][k]] = [k \in Nat |-> body(G, i, k)]
    BY <2>1, Zenon
  <2>5. G = [i \in Nat |-> [k \in Nat |-> body(G, i, k)]]
    BY <2>2, <2>4, Zenon
  <2> QED
    BY <2>5
<1>8. Unfolds(e1, f, e2, g, G)
  BY <1>7, Zenon DEF Unfolds
<1> QED
  BY <1>8, SameFromChosen, Zenon

LEMMA SameFromStep ==
  ASSUME NEW e1, NEW f, NEW e2, NEW g, f.high - f.low \in Nat, NEW i \in Nat, NEW k \in Nat
  PROVE  SameFrom(e1, f, e2, g)[i][k] = SameBody(e1, f, e2, g, SameFrom(e1, f, e2, g), i, k)
<1> DEFINE F == SameFrom(e1, f, e2, g)
<1>1. F = [x \in Nat |-> [y \in Nat |-> SameBody(e1, f, e2, g, F, x, y)]]
  <2>1. Unfolds(e1, f, e2, g, F)
    BY SameFromUnfolds
  <2> HIDE DEF F
  <2> QED
    BY <2>1, Zenon DEF Unfolds
<1> HIDE DEF F
<1>2. F[i] = [y \in Nat |-> SameBody(e1, f, e2, g, F, i, y)]
  BY <1>1, Zenon
<1>3. F[i][k] = SameBody(e1, f, e2, g, F, i, k)
  BY <1>2, Zenon
<1> QED
  BY <1>3 DEF F

-----------------------------------------------------------------------------
(* The relocations that are compared are those in the function.            *)

LEMMA FirstInOf ==
  ASSUME NEW S \in SUBSET Nat, S # {}
  PROVE  FirstIn(S) \in S
<1>1. FirstIn(S) = CHOOSE x \in S : \A y \in S : x <= y
  BY DEF FirstIn
<1>2. \E x \in S : \A y \in S : x <= y
  BY LeastNatural
<1> QED
  BY <1>1, <1>2

LEMMA LastInOf ==
  ASSUME NEW n \in Nat, NEW S \in SUBSET (1..n), S # {}
  PROVE  LastIn(S) \in S /\ LastIn(S) # NONE
<1> DEFINE D == {n - x : x \in S}
<1>0. \A x \in S : x \in Int /\ x <= n
  OBVIOUS
<1>1. D \in SUBSET Nat /\ D # {}
  <2>1. \A x \in S : n - x \in Nat
    BY <1>0
  <2> QED
    BY <2>1
<1>2. PICK d \in D : \A c \in D : d <= c
  <2> HIDE DEF D
  <2> QED
    BY <1>1, LeastNatural
<1>3. PICK x \in S : d = n - x
  BY <1>2
<1>4. \A y \in S : n - x <= n - y
  BY <1>2, <1>3
<1>5. \E z \in S : \A y \in S : z >= y
  BY <1>4
<1>6. LastIn(S) = CHOOSE z \in S : \A y \in S : z >= y
  BY Zenon DEF LastIn
<1>7. LastIn(S) \in S
  BY <1>5, <1>6, Zenon
<1> QED
  BY <1>7 DEF NONE

LEMMA TextSection ==
  ASSUME NEW e, NEW f, IsObject(e), IsFunction(e, f)
  PROVE  /\ TextOf(e, f.name) \in DOMAIN e.sections
         /\ Text(e, f) \in Range(e.sections)
         /\ IsFiniteSet(Text(e, f).relocs)
         /\ \A r, q \in Text(e, f).relocs : r.at = q.at => r = q
         /\ Text(e, f).relocs \subseteq [at : Nat, kind : STRING, sym : DOMAIN e.syms, addend : Int]
<1> DEFINE Rel == [at : Nat, kind : STRING, sym : DOMAIN e.syms, addend : Int]
<1>1. e.sections \in Seq([name : Seq(STRING), data : Seq(0..255), relocs : SUBSET Rel])
  BY Zenon DEF IsObject
<1>2. TextOf(e, f.name) # NONE
  BY DEF IsFunction
<1>3. \A S \in SUBSET Nat : FirstIn(S) # NONE => FirstIn(S) \in S
  BY FirstInOf DEF FirstIn
<1>4. TextOf(e, f.name) \in DOMAIN e.sections
  <2> DEFINE own == getSectionByName(e, <<"text", f.name>>)
             T == {i \in DOMAIN e.sections : e.sections[i].name[1] = "text"}
  <2>1. DOMAIN e.sections = 1..Len(e.sections) /\ Len(e.sections) \in Nat
    BY <1>1
  <2>2. CASE own # NONE
    <3>1. TextOf(e, f.name) = own
      BY <2>2 DEF TextOf
    <3>2. {i \in DOMAIN e.sections : e.sections[i].name = <<"text", f.name>>} \in SUBSET Nat
      BY <2>1
    <3> QED
      BY <1>3, <2>2, <3>1, <3>2 DEF getSectionByName
  <2>3. CASE own = NONE
    <3>1. TextOf(e, f.name) = LastIn(T)
      BY <2>3, Zenon DEF TextOf, sectionIndices
    <3>2. T # {}
      BY <1>2, <3>1 DEF LastIn
    <3>3. T \in SUBSET (1..Len(e.sections))
      BY <2>1
    <3>4. LastIn(T) \in T
      <4> HIDE DEF T
      <4> QED
        BY <2>1, <3>2, <3>3, LastInOf
    <3> QED
      BY <3>1, <3>4
  <2> QED
    BY <2>2, <2>3
<1>5. e.sections[TextOf(e, f.name)] \in [name : Seq(STRING), data : Seq(0..255), relocs : SUBSET Rel]
  <2> DEFINE Scn == [name : Seq(STRING), data : Seq(0..255), relocs : SUBSET Rel]
  <2>1. e.sections \in Seq(Scn)
    BY <1>1
  <2>2. ASSUME NEW X, NEW s \in Seq(X), NEW i \in DOMAIN s
        PROVE  s[i] \in X
    OBVIOUS
  <2> HIDE DEF Scn
  <2>3. e.sections[TextOf(e, f.name)] \in Scn
    BY <1>4, <2>1, <2>2
  <2> QED
    BY <2>3 DEF Scn
<1>6. Text(e, f) \in Range(e.sections)
  BY <1>4, Zenon DEF Text, Range
<1>7. /\ IsFiniteSet(Text(e, f).relocs)
      /\ \A r, q \in Text(e, f).relocs : r.at = q.at => r = q
  BY <1>6, Zenon DEF IsObject
<1>8. Text(e, f).relocs \subseteq Rel
  <2> HIDE DEF Rel
  <2> QED
    BY <1>5 DEF Text
<1> QED
  BY <1>4, <1>6, <1>7, <1>8

\* A relocation as katana reads it.
Read(e, r) == IF e.rel THEN [r EXCEPT !.addend = computeAddend(e, r)] ELSE r

LEMMA ReadExact ==
  ASSUME NEW e, NEW r \in [at : Nat, kind : STRING, sym : DOMAIN e.syms, addend : Int], Exact(e, r)
  PROVE  Read(e, r) = r
<1>1. CASE ~e.rel
  BY <1>1, Zenon DEF Read
<1>2. CASE e.rel
  <2>2. e.syms[r.sym].value = 0 /\ (r.kind = "32" \/ r.addend = -4)
    BY <1>2, Zenon DEF Exact
  <2>3. AddrSize(e) = 4
    BY <1>2 DEF AddrSize
  <2>4. computeAddend(e, r) = r.addend
    <3> DEFINE sym == e.syms[r.sym]
               symVal == IF sym.scn = COMMON THEN 0 ELSE sym.value
               computation == r.addend - symVal + r.at + AddrSize(e)
    <3>1. symVal = 0
      BY <2>2
    <3>2. computeAddend(e, r) = IF r.kind = "32" THEN r.addend - symVal
                                ELSE IF symVal = 0 /\ computation = r.at THEN -AddrSize(e)
                                ELSE computation
      BY Zenon DEF computeAddend
    <3>3. r.at \in Nat /\ r.addend \in Int
      OBVIOUS
    <3> HIDE DEF symVal
    <3> QED
      BY <2>2, <2>3, <3>1, <3>2, <3>3
  <2>5. r = [at |-> r.at, kind |-> r.kind, sym |-> r.sym, addend |-> r.addend]
    OBVIOUS
  <2>6. Read(e, r) = [r EXCEPT !.addend = computeAddend(e, r)]
    BY <1>2, Zenon DEF Read
  <2> QED
    BY <2>4, <2>5, <2>6
<1> QED
  BY <1>1, <1>2

LEMMA RelocationsReadIn ==
  ASSUME NEW e, NEW f \in Subprogram, IsObject(e), IsFunction(e, f)
  PROVE  /\ RelocationsOf(e, f) = {Read(e, r) : r \in In(e, f)}
         /\ Apart(In(e, f))
         /\ f.low \in Nat /\ f.high \in Nat /\ f.high - f.low \in Nat
         /\ \A r \in In(e, f) : /\ r.at \in Nat /\ r.addend \in Int /\ r.sym \in DOMAIN e.syms
                                /\ f.low <= r.at /\ r.at < f.high
                                /\ r \in Text(e, f).relocs
                                /\ r \in [at : Nat, kind : STRING, sym : DOMAIN e.syms, addend : Int]
<1> DEFINE Rel == [at : Nat, kind : STRING, sym : DOMAIN e.syms, addend : Int]
           T == Text(e, f).relocs
<1>1. /\ IsFiniteSet(T) /\ T \subseteq Rel
      /\ \A r, q \in T : r.at = q.at => r = q
  BY TextSection, Zenon
<1>2. In(e, f) \subseteq T /\ \A r \in In(e, f) : f.low <= r.at /\ r.at < f.high
  BY DEF In
<1>3. IsFiniteSet(In(e, f))
  <2> HIDE DEF T
  <2> QED
    BY <1>1, <1>2, FS_Subset
<1>4. \A r \in Rel : r.at \in Nat /\ r.addend \in Int /\ r.sym \in DOMAIN e.syms
  OBVIOUS
<1>5. f.low \in Nat /\ f.high \in Nat /\ f.low <= f.high
  BY DEF Subprogram, IsFunction
<1>6. Apart(In(e, f))
  <2> HIDE DEF T, Rel
  <2> QED
    BY <1>1, <1>2, <1>3, <1>4, Zenon DEF Apart
<1>7. In(e, f) = {r \in T : f.low <= r.at /\ r.at <= f.high}
  <2>1. \A r \in T : r.at \in Nat /\ r.at # f.high
    BY <1>1, <1>4, Zenon DEF IsFunction
  <2> HIDE DEF T
  <2>2. \A r \in T : (f.low <= r.at /\ r.at < f.high) <=> (f.low <= r.at /\ r.at <= f.high)
    BY <1>5, <2>1
  <2>3. In(e, f) = {r \in T : f.low <= r.at /\ r.at < f.high}
    BY Zenon DEF In, T
  <2> QED
    BY <2>2, <2>3
<1>8. RelocationsOf(e, f) = {Read(e, r) : r \in In(e, f)}
  <2> DEFINE scn == getRelocationSection(e, f.name)
  <2>1. RelocationsOf(e, f) =
          IF scn = NONE THEN {}
          ELSE {Read(e, r) : r \in {r \in e.sections[scn].relocs : f.low <= r.at /\ r.at <= f.high}}
    BY Zenon DEF RelocationsOf, getRelocationItemsInRange, Read
  <2>2. scn = IF T = {} THEN NONE ELSE TextOf(e, f.name)
    BY Zenon DEF IsFunction
  <2>3. CASE T = {}
    <3>1. In(e, f) = {}
      BY <1>2, <2>3
    <3> QED
      BY <2>1, <2>2, <2>3, <3>1, Zenon
  <2>4. CASE T # {}
    <3>1. scn = TextOf(e, f.name) /\ scn # NONE
      BY <2>2, <2>4, Zenon DEF IsFunction
    <3>2. e.sections[scn].relocs = T
      BY <3>1, Zenon DEF Text
    <3> HIDE DEF scn
    <3> QED
      BY <1>7, <2>1, <3>1, <3>2, Zenon
  <2> QED
    BY <2>3, <2>4
<1> QED
  BY <1>1, <1>2, <1>4, <1>5, <1>6, <1>8

LEMMA RelocationsIn ==
  ASSUME NEW e, NEW f \in Subprogram, IsObject(e), IsFunction(e, f), AllExact(e, f)
  PROVE  /\ RelocationsOf(e, f) = In(e, f)
         /\ Apart(In(e, f))
         /\ f.low \in Nat /\ f.high \in Nat /\ f.high - f.low \in Nat
         /\ \A r \in In(e, f) : /\ r.at \in Nat /\ r.addend \in Int /\ r.sym \in DOMAIN e.syms
                                /\ f.low <= r.at /\ r.at < f.high
                                /\ r \in Text(e, f).relocs
<1>1. \A r \in In(e, f) : r \in [at : Nat, kind : STRING, sym : DOMAIN e.syms, addend : Int]
  BY RelocationsReadIn
<1>2. \A r \in In(e, f) : Read(e, r) = r
  BY <1>1, ReadExact, Zenon DEF AllExact
<1>3. RelocationsOf(e, f) = {Read(e, r) : r \in In(e, f)}
  BY RelocationsReadIn
<1>4. RelocationsOf(e, f) = In(e, f)
  BY <1>2, <1>3
<1> QED
  BY <1>4, RelocationsReadIn

-----------------------------------------------------------------------------
(* Functions that mean the same are found identical.                       *)

\* Relocations of T1, seen from a, all have one of T2 as far from b.
Matched(T1, a, T2, b) == \A r \in T1 : \E q \in T2 : q.at - b = r.at - a

LEMMA OffsetsCounted ==
  ASSUME NEW T1, NEW T2, NEW a \in Int, NEW b \in Int, Apart(T1), Apart(T2),
         Matched(T1, a, T2, b)
  PROVE  Cardinality(T1) <= Cardinality(T2)
<1> DEFINE h == [r \in T1 |-> CHOOSE q \in T2 : q.at - b = r.at - a]
<1>1. \A r \in T1 : h[r] \in T2 /\ h[r].at - b = r.at - a
  BY DEF Matched
<1>2. \A r, q \in T1 : h[r] = h[q] => r = q
  <2> SUFFICES ASSUME NEW r \in T1, NEW q \in T1, h[r] = h[q]
               PROVE  r = q
    OBVIOUS
  <2>1. r.at - a = q.at - a
    BY <1>1
  <2>2. r.at \in Nat /\ q.at \in Nat
    BY DEF Apart
  <2>3. r.at = q.at
    BY <2>1, <2>2
  <2> QED
    BY <2>3 DEF Apart
<1>3. h \in [T1 -> T2]
  BY <1>1
<1> HIDE DEF h
<1>4. h \in Injection(T1, T2)
  BY <1>2, <1>3, Zenon DEF Injection, IsInjective
<1> QED
  BY <1>4, FS_Injection DEF Apart

SameOffsets(T1, a, T2, b) ==
  \A k \in 1..Cardinality(T1) : InOrder(T1)[k].at - a = InOrder(T2)[k].at - b

LEMMA OffsetsRanked ==
  ASSUME NEW T1, NEW T2, NEW a \in Int, NEW b \in Int, Apart(T1), Apart(T2),
         Matched(T1, a, T2, b), Matched(T2, b, T1, a)
  PROVE  Cardinality(T1) = Cardinality(T2) /\ SameOffsets(T1, a, T2, b)
<1> DEFINE n == Cardinality(T1)
           p == InOrder(T1)
           q == InOrder(T2)
           upTo(T, x) == {r \in T : r.at <= x}
<1>1. Cardinality(T1) = n /\ Cardinality(T2) = n /\ n \in Nat
  <2>1. Cardinality(T1) <= Cardinality(T2)
    BY OffsetsCounted
  <2>2. Cardinality(T2) <= Cardinality(T1)
    BY OffsetsCounted
  <2> QED
    BY <2>1, <2>2, FS_CardinalityType DEF Apart
<1>2. ASSUME NEW k \in 1..n
      PROVE  p[k].at - a = q[k].at - b
  <2>1. p[k] \in T1 /\ Cardinality(upTo(T1, p[k].at)) = k
    BY <1>1, InOrderOf
  <2>2. PICK r \in T2 : r.at - b = p[k].at - a
    BY <2>1 DEF Matched
  <2>3. PICK l \in 1..n : q[l] = r
    BY <1>1, InOrderOf
  <2>4. Cardinality(upTo(T2, r.at)) = l
    <3>1. Cardinality(upTo(T2, q[l].at)) = l
      BY <1>1, InOrderOf
    <3> QED
      BY <2>3, <3>1, Zenon
  <2>5. \A T, x : Apart(T) => Apart(upTo(T, x))
    <3> SUFFICES ASSUME NEW T, NEW x, Apart(T)
                 PROVE  Apart(upTo(T, x))
      OBVIOUS
    <3>1. upTo(T, x) \subseteq T
      OBVIOUS
    <3> HIDE DEF upTo
    <3>2. IsFiniteSet(upTo(T, x))
      BY <3>1, FS_Subset DEF Apart
    <3> QED
      BY <3>1, <3>2 DEF Apart
  <2>6. Apart(upTo(T1, p[k].at)) /\ Apart(upTo(T2, r.at))
    BY <2>5, Zenon
  <2>7. /\ \A u \in T1 : u.at \in Nat
        /\ \A u \in T2 : u.at \in Nat
    BY DEF Apart
  <2>8. Matched(upTo(T1, p[k].at), a, upTo(T2, r.at), b)
    BY <2>1, <2>2, <2>7 DEF Matched
  <2>9. Matched(upTo(T2, r.at), b, upTo(T1, p[k].at), a)
    BY <2>1, <2>2, <2>7 DEF Matched
  <2> HIDE DEF upTo
  <2>10. Cardinality(upTo(T1, p[k].at)) <= Cardinality(upTo(T2, r.at))
    BY <2>6, <2>8, OffsetsCounted
  <2>11. Cardinality(upTo(T2, r.at)) <= Cardinality(upTo(T1, p[k].at))
    BY <2>6, <2>9, OffsetsCounted
  <2>12. k = l
    BY <1>1, <2>1, <2>4, <2>10, <2>11
  <2> QED
    BY <2>2, <2>3, <2>12
<1> QED
  BY <1>1, <1>2 DEF SameOffsets

\* The hypotheses of the theorem about the comparison, for f in e1 and g in e2.
Comparable(e1, f, e2, g) ==
  /\ IsObject(e1) /\ IsObject(e2) /\ IsFunction(e1, f) /\ IsFunction(e2, g)
  /\ AllExact(e1, f) /\ AllExact(e2, g) /\ e1.rel = e2.rel

\* A relocation has a counterpart in the other function, in all but the value
\* of its symbol.
Counterpart(e1, f, e2, g, r, q) ==
  /\ q.at - g.low = r.at - f.low /\ q.addend = r.addend
  /\ [e2.syms[q.sym] EXCEPT !.value = 0] = [e1.syms[r.sym] EXCEPT !.value = 0]

Ref(e, r) == [to |-> [e.syms[r.sym] EXCEPT !.value = 0], addend |-> r.addend]

Refs(e, f, i) == {Ref(e, r) : r \in {r \in In(e, f) : r.at - f.low = i}}

Covered(e, f, i) == \E r \in In(e, f) : i \in (r.at - f.low)..(r.at - f.low + 3)

Byte(e, f, i) == Text(e, f).data[f.low + i + 1]

LEMMA MeaningAt ==
  ASSUME NEW e, NEW f
  PROVE  /\ DOMAIN Meaning(e, f) = 0..(f.high - f.low - 1)
         /\ \A i \in 0..(f.high - f.low - 1) :
              Meaning(e, f)[i] = [refs |-> Refs(e, f, i), byte |-> IF Covered(e, f, i) THEN 0 ELSE Byte(e, f, i)]
<1>1. Meaning(e, f) = [i \in 0..(f.high - f.low - 1) |->
                         [refs |-> Refs(e, f, i), byte |-> IF Covered(e, f, i) THEN 0 ELSE Byte(e, f, i)]]
  BY Zenon DEF Meaning, Refs, Ref, Covered, Byte
<1> QED
  BY <1>1, Zenon

LEMMA CounterpartOf ==
  ASSUME NEW e1, NEW f \in Subprogram, NEW e2, NEW g \in Subprogram, Comparable(e1, f, e2, g),
         f.high - f.low = g.high - g.low, Meaning(e1, f) = Meaning(e2, g), NEW r \in In(e1, f)
  PROVE  \E q \in In(e2, g) : Counterpart(e1, f, e2, g, r, q)
<1> DEFINE i == r.at - f.low
           ref == [to |-> [e1.syms[r.sym] EXCEPT !.value = 0], addend |-> r.addend]
<1>1. r.at \in Nat /\ f.low \in Nat /\ f.high \in Nat /\ f.low <= r.at /\ r.at < f.high
  BY RelocationsIn DEF Comparable
<1>2. i \in 0..(f.high - f.low - 1) /\ i \in 0..(g.high - g.low - 1)
  BY <1>1
<1>3. ref \in Refs(e1, f, i)
  BY Zenon DEF Refs, Ref
<1>4. Refs(e1, f, i) = Refs(e2, g, i)
  <2>0. ASSUME NEW e, NEW h, NEW j \in 0..(h.high - h.low - 1)
        PROVE  Meaning(e, h)[j].refs = Refs(e, h, j)
    <3>1. Meaning(e, h)[j] = [refs |-> Refs(e, h, j), byte |-> IF Covered(e, h, j) THEN 0 ELSE Byte(e, h, j)]
      BY MeaningAt, Zenon
    <3> QED
      BY <3>1
  <2> HIDE DEF i
  <2>1. Meaning(e1, f)[i].refs = Refs(e1, f, i)
    BY <1>2, <2>0, Zenon
  <2>2. Meaning(e2, g)[i].refs = Refs(e2, g, i)
    BY <1>2, <2>0, Zenon
  <2> QED
    BY <2>1, <2>2, Zenon
<1>5. PICK q \in {q \in In(e2, g) : q.at - g.low = i} :
        ref = [to |-> [e2.syms[q.sym] EXCEPT !.value = 0], addend |-> q.addend]
  <2> HIDE DEF ref
  <2> QED
    BY <1>3, <1>4, Zenon DEF Refs, Ref
<1>6. q \in In(e2, g) /\ q.at - g.low = r.at - f.low
  BY <1>5
<1>7. ref.to = [e2.syms[q.sym] EXCEPT !.value = 0] /\ ref.addend = q.addend
  BY <1>5
<1>8. Counterpart(e1, f, e2, g, r, q)
  BY <1>6, <1>7, Zenon DEF Counterpart
<1> QED
  BY <1>6, <1>8

LEMMA SymbolsEqual ==
  ASSUME NEW s1 \in Symbol, NEW s2 \in Symbol,
         [s2 EXCEPT !.value = 0] = [s1 EXCEPT !.value = 0]
  PROVE  SymbolsAgree(s1, s2) /\ s1.scn = s2.scn
<1>1. \A s \in Symbol : LET z == [s EXCEPT !.value = 0]
                        IN  z.name = s.name /\ z.type = s.type /\ z.bind = s.bind /\ z.scn = s.scn
  BY DEF Symbol
<1> QED
  BY <1>1, Zenon DEF SymbolsAgree

LEMMA SymbolOfRelocation ==
  ASSUME NEW e, NEW f \in Subprogram, IsObject(e), IsFunction(e, f), AllExact(e, f), NEW r \in In(e, f)
  PROVE  e.syms[r.sym] \in Symbol
<1>1. r.sym \in DOMAIN e.syms
  BY RelocationsIn
<1>2. e.syms \in Seq(Symbol)
  BY Zenon DEF IsObject, AreSymbols
<1>3. ASSUME NEW X, NEW s \in Seq(X), NEW i \in DOMAIN s
      PROVE  s[i] \in X
  OBVIOUS
<1> QED
  BY <1>1, <1>2, <1>3

LEMMA BytesEqual ==
  ASSUME NEW e1, NEW f \in Subprogram, NEW e2, NEW g \in Subprogram, Comparable(e1, f, e2, g), Alike(e1, e2),
         f.high - f.low = g.high - g.low, Meaning(e1, f) = Meaning(e2, g),
         NEW i \in 0..(f.high - f.low - 1)
  PROVE  Byte(e1, f, i) = Byte(e2, g, i)
<1>1. /\ f.low \in Nat /\ f.high \in Nat /\ g.low \in Nat /\ g.high \in Nat
      /\ \A r \in In(e1, f) : r.at \in Nat /\ r \in Text(e1, f).relocs
      /\ \A q \in In(e2, g) : q.at \in Nat /\ q \in Text(e2, g).relocs
  BY RelocationsIn DEF Comparable
<1>2. i \in 0..(g.high - g.low - 1) /\ i \in Nat
  BY <1>1
<1>3. CASE Covered(e1, f, i)
  <2>1. PICK r \in In(e1, f) : i \in (r.at - f.low)..(r.at - f.low + 3)
    BY <1>3 DEF Covered
  <2>2. PICK q \in In(e2, g) : Counterpart(e1, f, e2, g, r, q)
    BY CounterpartOf
  <2> DEFINE j == i - (r.at - f.low) + 1
  <2>3. q.at - g.low = r.at - f.low /\ q.addend = r.addend
    BY <2>2, Zenon DEF Counterpart
  <2>4. j \in 1..4 /\ f.low + i + 1 = r.at + j /\ g.low + i + 1 = q.at + j
    BY <1>1, <1>2, <2>1, <2>3
  <2>5. Text(e1, f) \in Range(e1.sections) /\ Text(e2, g) \in Range(e2.sections)
    BY TextSection, Zenon DEF Comparable
  <2> HIDE DEF j
  <2>6. Text(e1, f).data[r.at + j] = Text(e2, g).data[q.at + j]
    BY <1>1, <2>3, <2>4, <2>5, Zenon DEF Alike
  <2> QED
    BY <2>4, <2>6, Zenon DEF Byte
<1>4. CASE Covered(e2, g, i) /\ ~Covered(e1, f, i)
  <2>1. PICK q \in In(e2, g) : i \in (q.at - g.low)..(q.at - g.low + 3)
    BY <1>4 DEF Covered
  <2>2. Comparable(e2, g, e1, f) /\ g.high - g.low = f.high - f.low
    BY DEF Comparable
  <2>3. PICK r \in In(e1, f) : Counterpart(e2, g, e1, f, q, r)
    BY <2>2, CounterpartOf
  <2>4. r.at - f.low = q.at - g.low
    BY <2>3, Zenon DEF Counterpart
  <2>5. Covered(e1, f, i)
    BY <2>1, <2>4, Zenon DEF Covered
  <2> QED
    BY <1>4, <2>5
<1>5. CASE ~Covered(e1, f, i) /\ ~Covered(e2, g, i)
  <2>1. Meaning(e1, f)[i] = [refs |-> Refs(e1, f, i), byte |-> Byte(e1, f, i)]
    BY <1>5, MeaningAt, Zenon
  <2>2. Meaning(e2, g)[i] = [refs |-> Refs(e2, g, i), byte |-> Byte(e2, g, i)]
    BY <1>2, <1>5, MeaningAt, Zenon
  <2> QED
    BY <2>1, <2>2
<1> QED
  BY <1>3, <1>4, <1>5

\* What is not identical differs.
LEMMA SameWhereMeaningIs ==
  ASSUME NEW e1, NEW f \in Subprogram, NEW e2, NEW g \in Subprogram, Comparable(e1, f, e2, g), Alike(e1, e2),
         Meaning(e1, f) = Meaning(e2, g)
  PROVE  areSubprogramsIdentical(e1, f, e2, g)
<1> DEFINE len == f.high - f.low
           A == AddrSize(e1)
           F == SameFrom(e1, f, e2, g)
           R == In(e1, f)
           S == In(e2, g)
           p == InOrder(R)
           q == InOrder(S)
           n == Cardinality(R)
<1>1. /\ RelocationsOf(e1, f) = R /\ RelocationsOf(e2, g) = S /\ Apart(R) /\ Apart(S)
      /\ f.low \in Nat /\ f.high \in Nat /\ g.low \in Nat /\ g.high \in Nat
      /\ len \in Nat /\ g.high - g.low \in Nat
  BY RelocationsIn DEF Comparable
<1>2. len = g.high - g.low
  <2>1. 0..(f.high - f.low - 1) = 0..(g.high - g.low - 1)
    BY MeaningAt, Zenon
  <2>2. \A m, k \in Nat : 0..(m - 1) = 0..(k - 1) => m = k
    <3> SUFFICES ASSUME NEW m \in Nat, NEW k \in Nat, 0..(m - 1) = 0..(k - 1), m < k \/ k < m
                 PROVE  FALSE
      OBVIOUS
    <3>1. CASE m < k
      <4>1. m \in 0..(k - 1) /\ m \notin 0..(m - 1)
        BY <3>1
      <4> QED
        BY <4>1
    <3>2. CASE k < m
      <4>1. k \in 0..(m - 1) /\ k \notin 0..(k - 1)
        BY <3>2
      <4> QED
        BY <4>1
    <3> QED
      BY <3>1, <3>2
  <2> QED
    BY <1>1, <2>1, <2>2
<1>3. Comparable(e2, g, e1, f)
  BY Zenon DEF Comparable
<1>4. /\ \A r \in R : \E s \in S : Counterpart(e1, f, e2, g, r, s)
      /\ \A s \in S : \E r \in R : Counterpart(e2, g, e1, f, s, r)
  BY <1>2, <1>3, CounterpartOf
<1>5. /\ n = Cardinality(S) /\ n \in Nat
      /\ \A k \in 1..n : p[k].at - f.low = q[k].at - g.low
  <2>1. Matched(R, f.low, S, g.low) /\ Matched(S, g.low, R, f.low)
    BY <1>4, Zenon DEF Counterpart, Matched
  <2> HIDE DEF R, S
  <2>2. Cardinality(R) = Cardinality(S) /\ SameOffsets(R, f.low, S, g.low)
    <3>1. f.low \in Int /\ g.low \in Int /\ Apart(R) /\ Apart(S)
      BY <1>1
    <3> QED
      BY <2>1, <3>1, OffsetsRanked
  <2>3. Cardinality(R) \in Nat
    BY <1>1, FS_CardinalityType DEF Apart
  <2> QED
    BY <2>2, <2>3, Zenon DEF SameOffsets, R, S
<1>6. p \in Seq(R) /\ q \in Seq(S) /\ Len(p) = n /\ Len(q) = n
      /\ p \in [1..n -> R] /\ q \in [1..n -> S]
  BY <1>1, <1>5, InOrderOf
<1>7. /\ A \in Nat /\ A >= 1
      /\ \A r \in R : r.at \in Nat
      /\ \A s \in S : s.at \in Nat
  BY <1>1 DEF AddrSize, Apart
<1>8. \A k \in 1..n : Counterpart(e1, f, e2, g, p[k], q[k])
  <2> SUFFICES ASSUME NEW k \in 1..n
               PROVE  Counterpart(e1, f, e2, g, p[k], q[k])
    OBVIOUS
  <2>1. p[k] \in R /\ q[k] \in S
    BY <1>6
  <2>2. PICK s \in S : Counterpart(e1, f, e2, g, p[k], s)
    BY <1>4, <2>1
  <2>3. s.at - g.low = p[k].at - f.low
    BY <2>2, Zenon DEF Counterpart
  <2>4. p[k].at - f.low = q[k].at - g.low
    BY <1>5
  <2> HIDE DEF p, q, R, S, n
  <2>5. s.at = q[k].at
    BY <1>1, <1>7, <2>1, <2>3, <2>4
  <2>6. s = q[k]
    BY <1>1, <2>1, <2>5 DEF Apart
  <2> QED
    BY <2>2, <2>6
<1>9. \A i \in 0..(len - 1) : Byte(e1, f, i) = Byte(e2, g, i)
  BY <1>2, BytesEqual
<1> DEFINE Holds(i) == \A k \in Nat \ {0} : F[i][k] = TRUE
<1>10. ASSUME NEW i \in Nat, i >= len
       PROVE  Holds(i)
  <2> SUFFICES ASSUME NEW k \in Nat
               PROVE  F[i][k] = TRUE
    OBVIOUS
  <2>1. F[i][k] = SameBody(e1, f, e2, g, F, i, k)
    BY <1>1, SameFromStep
  <2> QED
    BY <1>10, <2>1, BodyBoolean, Zenon
<1>11. ASSUME NEW i \in Nat, i < len, \A j \in Nat : j > i => Holds(j)
       PROVE  Holds(i)
  <2> SUFFICES ASSUME NEW k \in Nat \ {0}
               PROVE  F[i][k] = TRUE
    OBVIOUS
  <2> DEFINE old == Relocated(p, k, f.low + i)
             new == Relocated(q, k, g.low + i)
             s1 == e1.syms[p[k].sym]
             s2 == e2.syms[q[k].sym]
  <2>1. F[i][k] = SameBody(e1, f, e2, g, F, i, k)
    BY <1>1, SameFromStep
  <2>2. Holds(i + 1) /\ Holds(i + A)
    <3> HIDE DEF Holds, A
    <3> QED
      BY <1>7, <1>11
  <2>3. F[i + 1][k] = TRUE /\ F[i + A][k + 1] = TRUE
    <3>1. k + 1 \in Nat \ {0}
      OBVIOUS
    <3> QED
      BY <2>2, <3>1, Zenon
  <2>4. old <=> new
    <3>1. k <= n <=> k \in 1..n
      BY <1>5
    <3>2. k \in 1..n => p[k] \in R /\ q[k] \in S /\ p[k].at - f.low = q[k].at - g.low
      BY <1>5, <1>6
    <3>3. k \in 1..n => (p[k].at = f.low + i <=> q[k].at = g.low + i)
      <4> HIDE DEF p, q, R, S, n
      <4> QED
        BY <1>1, <1>7, <3>2
    <3> HIDE DEF p, q, n
    <3> QED
      BY <1>6, <3>1, <3>3, Zenon DEF Relocated
  <2>5. CASE old
    <3>1. k \in 1..n
      BY <1>5, <1>6, <2>5 DEF Relocated
    <3>2. Counterpart(e1, f, e2, g, p[k], q[k])
      BY <1>8, <3>1
    <3>3. p[k] \in R /\ q[k] \in S
      BY <1>6, <3>1
    <3>4. s1 \in Symbol /\ s2 \in Symbol
      <4> HIDE DEF p, q
      <4> QED
        BY <3>3, SymbolOfRelocation DEF Comparable
    <3>5. [s2 EXCEPT !.value = 0] = [s1 EXCEPT !.value = 0] /\ q[k].addend = p[k].addend
      BY <3>2, Zenon DEF Counterpart
    <3>6. SymbolsAgree(s1, s2) /\ s1.scn = s2.scn
      <4> HIDE DEF s1, s2
      <4> QED
        BY <3>4, <3>5, SymbolsEqual
    <3>7. SameBody(e1, f, e2, g, F, i, k) = TRUE
      <4> HIDE DEF p, q, F, R, S
      <4>1. /\ InOrder(RelocationsOf(e1, f)) = p /\ InOrder(RelocationsOf(e2, g)) = q
        BY <1>1 DEF p, q
      <4> QED
        BY <2>3, <2>4, <2>5, <3>5, <3>6, <4>1, Zenon DEF SameBody
    <3> QED
      BY <2>1, <3>7
  <2>6. CASE ~old
    <3>1. Byte(e1, f, i) = Byte(e2, g, i)
      BY <1>1, <1>9, <1>11
    <3>2. SameBody(e1, f, e2, g, F, i, k) = TRUE
      <4> HIDE DEF p, q, F, R, S
      <4>1. /\ InOrder(RelocationsOf(e1, f)) = p /\ InOrder(RelocationsOf(e2, g)) = q
        BY <1>1 DEF p, q
      <4> QED
        BY <2>3, <2>4, <2>6, <3>1, <4>1, Zenon DEF SameBody, Byte, Text
    <3> QED
      BY <2>1, <3>2
  <2> QED
    BY <2>5, <2>6
<1>12. Holds(0)
  <2> HIDE DEF Holds
  <2> SUFFICES ASSUME ~Holds(0)
               PROVE  FALSE
    OBVIOUS
  <2> DEFINE Left == {len - i : i \in {i \in 0..len : ~Holds(i)}}
  <2> HIDE DEF len
  <2>1. Left \in SUBSET Nat /\ Left # {}
    BY <1>1
  <2>2. PICK m \in Left : \A l \in Left : m <= l
    <3> HIDE DEF Left
    <3> QED
      BY <2>1, LeastNatural
  <2>3. PICK i \in 0..len : ~Holds(i) /\ m = len - i
    BY <2>2
  <2>4. \A j \in 0..len : ~Holds(j) => len - i <= len - j
    BY <2>2, <2>3
  <2>5. i \in Nat /\ i < len
    BY <1>1, <1>10, <2>3
  <2>6. \A j \in Nat : j > i => Holds(j)
    BY <1>1, <1>10, <2>4, <2>5
  <2> QED
    BY <1>11, <2>3, <2>5, <2>6
<1>13. F[0][1] = TRUE
  BY <1>12
<1> QED
  BY <1>1, <1>2, <1>5, <1>13 DEF areSubprogramsIdentical

-----------------------------------------------------------------------------
(* Functions that differ in sight are found to differ.                     *)

OnlyOne(e, f, i, r0) ==
  \A r \in In(e, f) : r.at \in Nat /\ (r = r0 \/ r.at + 4 <= f.low + i \/ f.low + i + 4 <= r.at)

LEMMA MeaningOfReference ==
  ASSUME NEW e, NEW f, f.low \in Nat, NEW i \in Nat,
         NEW r0 \in In(e, f), r0.at = f.low + i, OnlyOne(e, f, i, r0),
         NEW j \in 0..(f.high - f.low - 1)
  PROVE  /\ j = i => Meaning(e, f)[j] = [refs |-> {Ref(e, r0)}, byte |-> 0]
         /\ j \in (i + 1)..(i + 3) => Meaning(e, f)[j] = [refs |-> {}, byte |-> 0]
<1>1. Meaning(e, f)[j] = [refs |-> Refs(e, f, j), byte |-> IF Covered(e, f, j) THEN 0 ELSE Byte(e, f, j)]
  BY MeaningAt, Zenon
<1>2. j = i \/ j \in (i + 1)..(i + 3) => Covered(e, f, j)
  <2>1. j = i \/ j \in (i + 1)..(i + 3) => j \in (r0.at - f.low)..(r0.at - f.low + 3)
    OBVIOUS
  <2> QED
    BY <2>1, Zenon DEF Covered
<1>3. Refs(e, f, j) = {Ref(e, r) : r \in {r \in In(e, f) : r.at - f.low = j}}
  BY Zenon DEF Refs
<1>4. ASSUME j = i
      PROVE  Refs(e, f, j) = {Ref(e, r0)}
  <2>1. {r \in In(e, f) : r.at - f.low = j} = {r0}
    BY <1>4 DEF OnlyOne
  <2> QED
    BY <1>3, <2>1
<1>5. ASSUME j \in (i + 1)..(i + 3)
      PROVE  Refs(e, f, j) = {}
  <2>1. {r \in In(e, f) : r.at - f.low = j} = {}
    BY <1>5 DEF OnlyOne
  <2> QED
    BY <1>3, <2>1
<1> QED
  BY <1>1, <1>2, <1>4, <1>5, Zenon

LEMMA MeaningOfByte ==
  ASSUME NEW e, NEW f, NEW A \in Nat, A >= 4, f.low \in Nat, NEW i \in 0..(f.high - f.low - 1), i \in Nat,
         \A r \in In(e, f) : r.at \in Nat /\ (r.at + A <= f.low + i \/ f.low + i < r.at)
  PROVE  Meaning(e, f)[i] = [refs |-> {}, byte |-> Byte(e, f, i)]
<1>1. Meaning(e, f)[i] = [refs |-> Refs(e, f, i), byte |-> IF Covered(e, f, i) THEN 0 ELSE Byte(e, f, i)]
  BY MeaningAt, Zenon
<1>2. ~Covered(e, f, i)
  BY DEF Covered
<1>3. Refs(e, f, i) = {Ref(e, r) : r \in {r \in In(e, f) : r.at - f.low = i}}
  BY Zenon DEF Refs
<1>4. {r \in In(e, f) : r.at - f.low = i} = {}
  OBVIOUS
<1>5. Refs(e, f, i) = {}
  BY <1>3, <1>4
<1> QED
  BY <1>1, <1>2, <1>5, Zenon

LEMMA SymbolsAlike ==
  ASSUME NEW s1 \in Symbol, NEW s2 \in Symbol, SymbolsAgree(s1, s2), s1.scn = s2.scn
  PROVE  [s1 EXCEPT !.value = 0] = [s2 EXCEPT !.value = 0]
<1>1. \A s \in Symbol : [s EXCEPT !.value = 0] =
                          [name |-> s.name, bind |-> s.bind, type |-> s.type, scn |-> s.scn, value |-> 0]
  BY DEF Symbol
<1> QED
  BY <1>1, Zenon DEF SymbolsAgree

LEMMA IdenticalMeansTheSame ==
  ASSUME NEW e1, NEW f \in Subprogram, NEW e2, NEW g \in Subprogram, Comparable(e1, f, e2, g),
         Spaced(e1, f), Spaced(e2, g), SectionsKept(e1, f, e2, g),
         areSubprogramsIdentical(e1, f, e2, g),
         NEW i0 \in (DOMAIN Meaning(e1, f)) \ (Shadow(e1, f) \cup Shadow(e2, g))
  PROVE  Meaning(e1, f)[i0] = Meaning(e2, g)[i0]
<1> DEFINE len == f.high - f.low
           A == AddrSize(e1)
           F == SameFrom(e1, f, e2, g)
           R == In(e1, f)
           S == In(e2, g)
           p == InOrder(R)
           q == InOrder(S)
           n == Cardinality(R)
<1>1. /\ RelocationsOf(e1, f) = R /\ RelocationsOf(e2, g) = S /\ Apart(R) /\ Apart(S)
      /\ f.low \in Nat /\ f.high \in Nat /\ g.low \in Nat /\ g.high \in Nat
      /\ len \in Nat
      /\ \A r \in R : r.at \in Nat /\ f.low <= r.at
      /\ \A s \in S : s.at \in Nat /\ g.low <= s.at
  BY RelocationsIn DEF Comparable
<1>2. len = g.high - g.low /\ Cardinality(S) = n /\ F[0][1]
  BY <1>1 DEF areSubprogramsIdentical
<1>3. n \in Nat /\ A \in Nat /\ A >= 4 /\ AddrSize(e2) = A
  BY <1>1, FS_CardinalityType DEF Apart, AddrSize, Comparable
<1>4. /\ p \in Seq(R) /\ q \in Seq(S) /\ Len(p) = n /\ Len(q) = n
      /\ p \in [1..n -> R] /\ q \in [1..n -> S]
      /\ \A k, l \in 1..n : k < l => p[k].at < p[l].at /\ q[k].at < q[l].at
      /\ \A r \in R : \E k \in 1..n : p[k] = r
      /\ \A s \in S : \E k \in 1..n : q[k] = s
  BY <1>1, <1>2, InOrderOf
<1>5. \A k, l \in 1..n : k < l => p[k].at + A <= p[l].at /\ q[k].at + A <= q[l].at
  <2> SUFFICES ASSUME NEW k \in 1..n, NEW l \in 1..n, k < l
               PROVE  p[k].at + A <= p[l].at /\ q[k].at + A <= q[l].at
    OBVIOUS
  <2>1. p[k] \in R /\ p[l] \in R /\ q[k] \in S /\ q[l] \in S
    BY <1>4
  <2>2. p[k].at < p[l].at /\ q[k].at < q[l].at
    BY <1>4
  <2> HIDE DEF p, q, A
  <2> QED
    BY <1>3, <2>1, <2>2, Zenon DEF Spaced, A
<1> DEFINE Sees(r, a, i) == i \in (r.at - a)..(r.at - a + 3)
           Dark(i) == i \in Shadow(e1, f) \/ i \in Shadow(e2, g)
           Agree(j) == Dark(j) \/ Meaning(e1, f)[j] = Meaning(e2, g)[j]
           \* k - 1 relocations of each lie before byte i
           Come(i, k) ==
             /\ \A x \in 1..n : x < k => p[x].at + A <= f.low + i /\ q[x].at + A <= g.low + i
             /\ \A x \in 1..n : x >= k => f.low + i <= p[x].at /\ g.low + i <= q[x].at
           Right(i) == \A k \in Nat \ {0} : Come(i, k) /\ F[i][k] => \A j \in i..(len - 1) : Agree(j)

<1>6. ASSUME NEW i \in Nat, i < len, NEW k \in Nat \ {0}, Come(i, k), F[i][k],
             \A j \in Nat : j > i => Right(j)
      PROVE  \A j \in i..(len - 1) : Agree(j)
  <2> DEFINE old == Relocated(p, k, f.low + i)
             new == Relocated(q, k, g.low + i)
             s1 == e1.syms[p[k].sym]
             s2 == e2.syms[q[k].sym]
  <2>1. \/ /\ old /\ new /\ SymbolsAgree(s1, s2)
           /\ \/ SpecialSectionsDiffer(s1, s2)
              \/ s1.scn = s2.scn /\ p[k].addend = q[k].addend /\ F[i + A][k + 1]
        \/ /\ ~old /\ ~new /\ Byte(e1, f, i) = Byte(e2, g, i)
           /\ F[i + 1][k]
    <3>1. F[i][k] = SameBody(e1, f, e2, g, F, i, k)
      BY <1>1, SameFromStep
    <3>2. ~(i >= f.high - f.low)
      BY <1>1, <1>6
    <3>3. InOrder(RelocationsOf(e1, f)) = p /\ InOrder(RelocationsOf(e2, g)) = q
      BY <1>1
    <3> HIDE DEF p, q, F, R, S
    <3> QED
      BY <1>6, <3>1, <3>2, <3>3, Zenon DEF SameBody, Byte, Text
  <2>2. \A x \in 1..n : p[x] \in R /\ q[x] \in S /\ p[x].at \in Nat /\ q[x].at \in Nat
    BY <1>1, <1>4
  <2>3. CASE old
    <3>1. /\ new /\ SymbolsAgree(s1, s2)
          /\ \/ SpecialSectionsDiffer(s1, s2)
             \/ s1.scn = s2.scn /\ p[k].addend = q[k].addend /\ F[i + A][k + 1]
      <4> HIDE DEF p, q, F, s1, s2, old, new
      <4> QED
        BY <2>1, <2>3
    <3>2. k \in 1..n /\ p[k].at = f.low + i /\ q[k].at = g.low + i
      BY <1>3, <1>4, <2>3, <3>1 DEF Relocated
    <3>3. p[k] \in R /\ q[k] \in S
      BY <2>2, <3>2
    <3>4. s1.scn = s2.scn /\ p[k].addend = q[k].addend /\ F[i + A][k + 1]
      <4>1. s1.name = s2.name
        BY <3>1 DEF SymbolsAgree
      <4> QED
        BY <3>1, <3>3, <4>1, Zenon DEF SectionsKept
    <3>5. /\ \A x \in 1..n : x = k \/ p[x].at + A <= f.low + i \/ f.low + i + A <= p[x].at
          /\ \A x \in 1..n : x = k \/ q[x].at + A <= g.low + i \/ g.low + i + A <= q[x].at
      <4> SUFFICES ASSUME NEW x \in 1..n, x # k
                   PROVE  /\ p[x].at + A <= f.low + i \/ f.low + i + A <= p[x].at
                          /\ q[x].at + A <= g.low + i \/ g.low + i + A <= q[x].at
        OBVIOUS
      <4>1. CASE x < k
        BY <1>6, <4>1
      <4>2. CASE k < x
        <5>1. p[k].at + A <= p[x].at /\ q[k].at + A <= q[x].at
          BY <1>5, <3>2, <4>2
        <5> QED
          BY <3>2, <5>1
      <4>3. x < k \/ k < x
        BY <1>3
      <4> QED
        BY <4>1, <4>2, <4>3
    <3>6. Come(i + A, k + 1)
      <4> SUFFICES ASSUME NEW x \in 1..n
                   PROVE  /\ x < k + 1 => p[x].at + A <= f.low + (i + A) /\ q[x].at + A <= g.low + (i + A)
                          /\ x >= k + 1 => f.low + (i + A) <= p[x].at /\ g.low + (i + A) <= q[x].at
        OBVIOUS
      <4>1. CASE x < k
        <5>1. p[x].at + A <= f.low + i /\ q[x].at + A <= g.low + i
          BY <1>6, <4>1
        <5>2. p[x].at \in Nat /\ q[x].at \in Nat
          BY <2>2
        <5> HIDE DEF p, q, A, n
        <5> QED
          BY <1>1, <1>3, <4>1, <5>1, <5>2
      <4>2. CASE x = k
        <5> HIDE DEF p, q, A
        <5> QED
          BY <1>1, <1>3, <3>2, <4>2
      <4>3. CASE k < x
        <5>1. p[k].at + A <= p[x].at /\ q[k].at + A <= q[x].at
          BY <1>5, <3>2, <4>3
        <5> HIDE DEF p, q, A, n
        <5> QED
          BY <1>1, <1>3, <3>2, <4>3, <5>1
      <4>4. x < k \/ x = k \/ k < x
        BY <1>3
      <4> QED
        BY <4>1, <4>2, <4>3, <4>4
    <3>7. \A j \in (i + A)..(len - 1) : Agree(j)
      <4>1. i + A \in Nat /\ i + A > i /\ k + 1 \in Nat \ {0}
        <5> HIDE DEF A
        <5> QED
          BY <1>3
      <4>2. Right(i + A)
        <5> HIDE DEF Right
        <5> QED
          BY <1>6, <4>1
      <4> HIDE DEF Come, Agree, F
      <4> QED
        BY <3>4, <3>6, <4>1, <4>2
    <3>8. /\ \A r \in R : r.at \in Nat /\ (r = p[k] \/ r.at + A <= f.low + i \/ f.low + i + A <= r.at)
          /\ \A s \in S : s.at \in Nat /\ (s = q[k] \/ s.at + A <= g.low + i \/ g.low + i + A <= s.at)
      <4> HIDE DEF p, q, R, S, A, n
      <4> QED
        BY <1>1, <1>4, <3>5
    <3>9. ASSUME NEW j \in i..(i + 3), j < len
          PROVE  Meaning(e1, f)[j] = Meaning(e2, g)[j]
      <4>1. j \in 0..(f.high - f.low - 1) /\ j \in 0..(g.high - g.low - 1)
        BY <1>1, <1>2, <3>9
      <4>2. /\ j = i => Meaning(e1, f)[j] = [refs |-> {Ref(e1, p[k])}, byte |-> 0]
            /\ j \in (i + 1)..(i + 3) => Meaning(e1, f)[j] = [refs |-> {}, byte |-> 0]
        <5>1. f.low \in Nat /\ p[k].at = f.low + i /\ p[k] \in In(e1, f)
          BY <1>1, <3>2, <3>3
        <5>2. OnlyOne(e1, f, i, p[k])
          <6> HIDE DEF A, p, q
          <6> QED
            BY <1>1, <1>3, <3>8 DEF OnlyOne
        <5> HIDE DEF p
        <5> QED
          BY <4>1, <5>1, <5>2, MeaningOfReference
      <4>3. /\ j = i => Meaning(e2, g)[j] = [refs |-> {Ref(e2, q[k])}, byte |-> 0]
            /\ j \in (i + 1)..(i + 3) => Meaning(e2, g)[j] = [refs |-> {}, byte |-> 0]
        <5>1. g.low \in Nat /\ q[k].at = g.low + i /\ q[k] \in In(e2, g)
          BY <1>1, <3>2, <3>3
        <5>2. OnlyOne(e2, g, i, q[k])
          <6> HIDE DEF A, p, q
          <6> QED
            BY <1>1, <1>3, <3>8 DEF OnlyOne
        <5> HIDE DEF q
        <5> QED
          BY <4>1, <5>1, <5>2, MeaningOfReference
      <4>4. Ref(e1, p[k]) = Ref(e2, q[k])
        <5>1. s1 \in Symbol /\ s2 \in Symbol
          <6> HIDE DEF p, q
          <6> QED
            BY <3>3, SymbolOfRelocation DEF Comparable
        <5>2. [s1 EXCEPT !.value = 0] = [s2 EXCEPT !.value = 0]
          <6> HIDE DEF s1, s2
          <6> QED
            BY <3>1, <3>4, <5>1, SymbolsAlike
        <5> QED
          BY <3>4, <5>2, Zenon DEF Ref
      <4>5. j = i \/ j \in (i + 1)..(i + 3)
        BY <3>9
      <4> HIDE DEF p, q
      <4> QED
        BY <4>2, <4>3, <4>4, <4>5, Zenon
    <3>10. ASSUME NEW j \in (i + 4)..(i + A - 1)
           PROVE  Dark(j)
      <4>1. j \in (p[k].at - f.low + 4)..(p[k].at - f.low + A - 1)
        <5> HIDE DEF p, A
        <5> QED
          BY <1>1, <1>3, <3>2
      <4> QED
        BY <3>3, <4>1, Zenon DEF Shadow
    <3>11. ASSUME NEW j \in i..(len - 1)
           PROVE  Agree(j)
      <4>1. \/ j \in i..(i + 3) /\ j < len
            \/ j \in (i + 4)..(i + A - 1)
            \/ j \in (i + A)..(len - 1)
        <5> HIDE DEF A
        <5> QED
          BY <1>1, <1>3
      <4> HIDE DEF Dark
      <4> QED
        BY <3>7, <3>9, <3>10, <4>1, Zenon
    <3> QED
      BY <3>11
  <2>4. CASE ~old
    <3>1. ~new /\ Byte(e1, f, i) = Byte(e2, g, i) /\ F[i + 1][k]
      BY <2>1, <2>4, Zenon
    <3>2. \A x \in 1..n : x >= k => f.low + i < p[x].at /\ g.low + i < q[x].at
      <4> SUFFICES ASSUME NEW x \in 1..n, x >= k
                   PROVE  f.low + i < p[x].at /\ g.low + i < q[x].at
        OBVIOUS
      <4>1. k \in 1..n
        BY <1>3
      <4>2. f.low + i <= p[k].at /\ g.low + i <= q[k].at
        BY <1>3, <1>6, <4>1
      <4>3. p[k].at # f.low + i /\ q[k].at # g.low + i
        BY <1>3, <1>4, <2>4, <3>1, <4>1 DEF Relocated
      <4>4. p[k].at \in Nat /\ q[k].at \in Nat /\ p[x].at \in Nat /\ q[x].at \in Nat
        BY <2>2, <4>1
      <4>5. x = k \/ (p[k].at + A <= p[x].at /\ q[k].at + A <= q[x].at)
        BY <1>3, <1>5, <4>1
      <4> HIDE DEF p, q, A, n
      <4>6. f.low + i < p[k].at /\ g.low + i < q[k].at
        <5>1. \A x1, y1 \in Nat : x1 <= y1 /\ y1 # x1 => x1 < y1
          OBVIOUS
        <5>2. f.low + i \in Nat /\ g.low + i \in Nat
          BY <1>1
        <5> QED
          BY <4>2, <4>3, <4>4, <5>1, <5>2, Zenon
      <4> QED
        BY <1>1, <1>3, <4>4, <4>5, <4>6
    <3>3. Come(i + 1, k)
      <4> SUFFICES ASSUME NEW x \in 1..n
                   PROVE  /\ x < k => p[x].at + A <= f.low + (i + 1) /\ q[x].at + A <= g.low + (i + 1)
                          /\ x >= k => f.low + (i + 1) <= p[x].at /\ g.low + (i + 1) <= q[x].at
        OBVIOUS
      <4>1. p[x].at \in Nat /\ q[x].at \in Nat
        BY <2>2
      <4>2. x < k => p[x].at + A <= f.low + i /\ q[x].at + A <= g.low + i
        BY <1>6
      <4>3. x >= k => f.low + i < p[x].at /\ g.low + i < q[x].at
        BY <3>2
      <4> HIDE DEF p, q, A, n
      <4> QED
        BY <1>1, <1>3, <4>1, <4>2, <4>3
    <3>4. \A j \in (i + 1)..(len - 1) : Agree(j)
      <4>1. i + 1 \in Nat /\ i + 1 > i
        OBVIOUS
      <4>2. Right(i + 1)
        <5> HIDE DEF Right
        <5> QED
          BY <1>6, <4>1
      <4> HIDE DEF Come, Agree, F
      <4> QED
        BY <3>1, <3>3, <4>2
    <3>5. /\ \A r \in R : r.at \in Nat /\ (r.at + A <= f.low + i \/ f.low + i < r.at)
          /\ \A s \in S : s.at \in Nat /\ (s.at + A <= g.low + i \/ g.low + i < s.at)
      <4>1. \A x \in 1..n : /\ p[x].at + A <= f.low + i \/ f.low + i < p[x].at
                            /\ q[x].at + A <= g.low + i \/ g.low + i < q[x].at
        <5> SUFFICES ASSUME NEW x \in 1..n
                     PROVE  /\ p[x].at + A <= f.low + i \/ f.low + i < p[x].at
                            /\ q[x].at + A <= g.low + i \/ g.low + i < q[x].at
          OBVIOUS
        <5>1. x < k \/ x >= k
          BY <1>3
        <5> QED
          BY <1>6, <3>2, <5>1
      <4> HIDE DEF p, q, R, S, A, n
      <4> QED
        BY <1>1, <1>4, <4>1
    <3>6. Meaning(e1, f)[i] = Meaning(e2, g)[i]
      <4>1. i \in 0..(f.high - f.low - 1) /\ i \in 0..(g.high - g.low - 1)
        BY <1>1, <1>2, <1>6
      <4>2. Meaning(e1, f)[i] = [refs |-> {}, byte |-> Byte(e1, f, i)]
        <5> HIDE DEF A
        <5> QED
          BY <1>1, <1>3, <3>5, <4>1, MeaningOfByte
      <4>3. Meaning(e2, g)[i] = [refs |-> {}, byte |-> Byte(e2, g, i)]
        <5> HIDE DEF A
        <5> QED
          BY <1>1, <1>3, <3>5, <4>1, MeaningOfByte
      <4> QED
        BY <3>1, <4>2, <4>3, Zenon
    <3>7. ASSUME NEW j \in i..(len - 1)
          PROVE  Agree(j)
      <4>1. j = i \/ j \in (i + 1)..(len - 1)
        BY <1>1
      <4> HIDE DEF Dark
      <4> QED
        BY <3>4, <3>6, <4>1, Zenon
    <3> QED
      BY <3>7
  <2> QED
    BY <2>3, <2>4
<1>7. Right(0)
  <2>1. ASSUME NEW i \in Nat, ~Right(i)
        PROVE  i < len /\ \E j \in Nat : j > i /\ ~Right(j)
    <3>1. PICK k \in Nat \ {0} : Come(i, k) /\ F[i][k] /\ ~ \A j \in i..(len - 1) : Agree(j)
      BY <2>1
    <3>2. i < len
      <4> HIDE DEF Agree, len
      <4> QED
        BY <1>1, <3>1
    <3>3. \E j \in Nat : j > i /\ ~Right(j)
      <4> HIDE DEF Agree, Right, Come, F, len
      <4> QED
        BY <1>6, <3>1, <3>2
    <3> QED
      BY <3>2, <3>3
  <2> HIDE DEF Right
  <2> SUFFICES ASSUME ~Right(0)
               PROVE  FALSE
    OBVIOUS
  <2> DEFINE Left == {len - i : i \in {i \in 0..len : ~Right(i)}}
  <2> HIDE DEF len
  <2>2. Left \in SUBSET Nat /\ Left # {}
    BY <1>1
  <2>3. PICK m \in Left : \A l \in Left : m <= l
    <3> HIDE DEF Left
    <3> QED
      BY <2>2, LeastNatural
  <2>4. PICK i \in 0..len : ~Right(i) /\ m = len - i
    BY <2>3
  <2>5. \A j \in 0..len : ~Right(j) => len - i <= len - j
    BY <2>3, <2>4
  <2>6. PICK j \in Nat : j > i /\ ~Right(j)
    BY <1>1, <2>1, <2>4
  <2>7. j < len
    BY <2>1, <2>6
  <2> QED
    BY <1>1, <2>4, <2>5, <2>6, <2>7
<1>8. Come(0, 1)
  <2> SUFFICES ASSUME NEW x \in 1..n
               PROVE  /\ ~(x < 1)
                      /\ f.low + 0 <= p[x].at /\ g.low + 0 <= q[x].at
    OBVIOUS
  <2>1. p[x] \in R /\ q[x] \in S
    BY <1>4
  <2>2. ~(x < 1)
    BY <1>3
  <2> HIDE DEF p, q, R, S
  <2> QED
    BY <1>1, <2>1, <2>2
<1>9. \A j \in 0..(len - 1) : Agree(j)
  <2> HIDE DEF Come, F, Agree
  <2> QED
    BY <1>2, <1>7, <1>8
<1>10. i0 \in 0..(len - 1) /\ ~Dark(i0)
  BY MeaningAt
<1> QED
  BY <1>9, <1>10

(* The comparison of two functions (areSubprogramsIdentical) tells them    *)
(* apart if they do something else where it looks, and only if they do     *)
(* something else: whatever the functions, their relocations and symbols.  *)
(* Both are where assemblers put them, and their addends are made out.     *)
THEOREM ComparisonIsRight ==
  ASSUME NEW e1, NEW f \in Subprogram, NEW e2, NEW g \in Subprogram, Comparable(e1, f, e2, g), Alike(e1, e2)
  PROVE  /\ ChangedInSight(e1, f, e2, g) => ~areSubprogramsIdentical(e1, f, e2, g)
         /\ ~areSubprogramsIdentical(e1, f, e2, g) => Meaning(e1, f) # Meaning(e2, g)
<1>1. ASSUME ChangedInSight(e1, f, e2, g), areSubprogramsIdentical(e1, f, e2, g)
      PROVE  FALSE
  <2>1. f.high - f.low = g.high - g.low
    BY <1>1, Zenon DEF areSubprogramsIdentical
  <2>2. PICK i \in (DOMAIN Meaning(e1, f)) \ (Shadow(e1, f) \cup Shadow(e2, g)) :
               Meaning(e1, f)[i] # Meaning(e2, g)[i]
    BY <1>1, <2>1, Zenon DEF ChangedInSight
  <2>3. Spaced(e1, f) /\ Spaced(e2, g) /\ SectionsKept(e1, f, e2, g)
    BY <1>1, Zenon DEF ChangedInSight
  <2> QED
    BY <1>1, <2>2, <2>3, IdenticalMeansTheSame
<1>2. Meaning(e1, f) = Meaning(e2, g) => areSubprogramsIdentical(e1, f, e2, g)
  BY SameWhereMeaningIs
<1> QED
  BY <1>1, <1>2

-----------------------------------------------------------------------------
(* The patch object and what is done to it.                                *)

(* To the provers no string is known to be in STRING.                      *)
Strings == STRING \cup {"", "LOCAL", "GLOBAL", "SECTION", "FUNC", "UNDEF", "data", "text", "rodata", "new"}

PatchSymbol == [name : Strings, bind : Strings, type : Strings, scn : Seq(Strings), value : Nat]

Rela == [at : Int, kind : STRING, sym : Nat, addend : Int]
Die == [cu : STRING, name : STRING, low : Int, high : Int, sym : Nat, new : BOOLEAN]
Patch == [text : Seq(0..255), rodata : Seq(0..255), relas : Seq(Rela), dies : Seq(Die),
          unsafe : Seq(Nat), syms : Seq(PatchSymbol), rodataOffset : Nat, died : BOOLEAN]

LEMMA StringsInside ==
  /\ "" \in Strings /\ "LOCAL" \in Strings /\ "GLOBAL" \in Strings /\ "SECTION" \in Strings
  /\ "FUNC" \in Strings
  /\ <<"rodata", "new">> \in Seq(Strings) /\ <<"text", "new">> \in Seq(Strings)
  /\ <<"data", "new">> \in Seq(Strings) /\ UNDEF \in Seq(Strings)
  /\ STRING \subseteq Strings /\ Symbol \subseteq PatchSymbol
<1>1. /\ "" \in Strings /\ "LOCAL" \in Strings /\ "GLOBAL" \in Strings /\ "SECTION" \in Strings
      /\ "FUNC" \in Strings /\ "UNDEF" \in Strings
      /\ "data" \in Strings /\ "text" \in Strings /\ "rodata" \in Strings /\ "new" \in Strings
      /\ STRING \subseteq Strings
  BY DEF Strings
<1>2. \A a, b \in Strings : <<a, b>> \in Seq(Strings) /\ <<a>> \in Seq(Strings)
  OBVIOUS
<1>3. \A x \in Seq(STRING) : x \in Seq(Strings)
  <2> SUFFICES ASSUME NEW x \in Seq(STRING)
               PROVE  x \in Seq(Strings)
    OBVIOUS
  <2>1. x \in [1..Len(x) -> STRING] /\ Len(x) \in Nat
    OBVIOUS
  <2>2. x \in [1..Len(x) -> Strings]
    BY <1>1, <2>1
  <2> DEFINE n == Len(x)
  <2>3. n \in Nat /\ x \in [1..n -> Strings]
    BY <2>1, <2>2
  <2> HIDE DEF n
  <2> QED
    BY <2>3, SeqDef, Zenon
<1>4. Symbol \subseteq PatchSymbol
  BY <1>1, <1>3 DEF Symbol, PatchSymbol
<1> QED
  BY <1>1, <1>2, <1>4 DEF UNDEF

LEMMA PatchFields ==
  ASSUME NEW p \in Patch
  PROVE  /\ p.text \in Seq(0..255) /\ p.rodata \in Seq(0..255) /\ p.relas \in Seq(Rela)
         /\ p.dies \in Seq(Die) /\ p.unsafe \in Seq(Nat) /\ p.syms \in Seq(PatchSymbol)
         /\ p.rodataOffset \in Nat /\ p.died \in BOOLEAN
BY DEF Patch

SameCode(p, q) == q.text = p.text /\ q.relas = p.relas /\ q.dies = p.dies /\ q.unsafe = p.unsafe
SameData(p, q) == q.rodata = p.rodata /\ q.rodataOffset = p.rodataOffset

SymbolsKept(p, q) ==
  Len(p.syms) <= Len(q.syms) /\ \A i \in DOMAIN p.syms : q.syms[i] = p.syms[i]

LEMMA SetSyms ==
  ASSUME NEW p \in Patch, NEW x \in Seq(PatchSymbol)
  PROVE  LET q == [p EXCEPT !.syms = x]
         IN  q \in Patch /\ q.syms = x /\ SameCode(p, q) /\ SameData(p, q) /\ q.died = p.died
BY DEF Patch, SameCode, SameData

LEMMA SetDied ==
  ASSUME NEW p \in Patch
  PROVE  LET q == [p EXCEPT !.died = TRUE]
         IN  q \in Patch /\ q.syms = p.syms /\ SameCode(p, q) /\ SameData(p, q) /\ q.died
BY DEF Patch, SameCode, SameData

LEMMA SetText ==
  ASSUME NEW p \in Patch, NEW x \in Seq(0..255)
  PROVE  LET q == [p EXCEPT !.text = x]
         IN  /\ q \in Patch /\ q.text = x /\ q.syms = p.syms /\ q.relas = p.relas /\ q.dies = p.dies
             /\ q.unsafe = p.unsafe /\ SameData(p, q) /\ q.died = p.died
BY DEF Patch, SameData

LEMMA SetRelas ==
  ASSUME NEW p \in Patch, NEW x \in Seq(Rela)
  PROVE  LET q == [p EXCEPT !.relas = x]
         IN  /\ q \in Patch /\ q.relas = x /\ q.syms = p.syms /\ q.text = p.text /\ q.dies = p.dies
             /\ q.unsafe = p.unsafe /\ SameData(p, q) /\ q.died = p.died
BY DEF Patch, SameData

LEMMA SetDies ==
  ASSUME NEW p \in Patch, NEW x \in Seq(Die)
  PROVE  LET q == [p EXCEPT !.dies = x]
         IN  /\ q \in Patch /\ q.dies = x /\ q.syms = p.syms /\ q.text = p.text /\ q.relas = p.relas
             /\ q.unsafe = p.unsafe /\ SameData(p, q) /\ q.died = p.died
BY DEF Patch, SameData

LEMMA SetUnsafe ==
  ASSUME NEW p \in Patch, NEW x \in Seq(Nat)
  PROVE  LET q == [p EXCEPT !.unsafe = x]
         IN  /\ q \in Patch /\ q.unsafe = x /\ q.syms = p.syms /\ q.text = p.text /\ q.relas = p.relas
             /\ q.dies = p.dies /\ SameData(p, q) /\ q.died = p.died
BY DEF Patch, SameData

LEMMA KnownSection ==
  ASSUME NEW e, IsObject(e), NEW part, hasERS(e, part)
  PROVE  LET n == sectionIndices(e, part)
         IN  /\ n \in DOMAIN e.sections /\ e.sections[n].data \in Seq(0..255)
             /\ e.sections[n].name[1] = part
<1> DEFINE T == {i \in DOMAIN e.sections : e.sections[i].name[1] = part}
           Scn == [name : Seq(STRING), data : Seq(0..255),
                   relocs : SUBSET [at : Nat, kind : STRING, sym : DOMAIN e.syms, addend : Int]]
<1>1. e.sections \in Seq(Scn)
  BY Zenon DEF IsObject
<1>2. \A s \in Scn : s.data \in Seq(0..255)
  OBVIOUS
<1> HIDE DEF Scn
<1>3. DOMAIN e.sections = 1..Len(e.sections) /\ Len(e.sections) \in Nat
  BY <1>1
<1>4. sectionIndices(e, part) = LastIn(T) /\ LastIn(T) # NONE
  BY Zenon DEF hasERS, sectionIndices
<1>5. T # {} /\ T \in SUBSET (1..Len(e.sections))
  BY <1>3, <1>4 DEF LastIn
<1>6. LastIn(T) \in T
  <2> HIDE DEF T
  <2> QED
    BY <1>3, <1>5, LastInOf
<1>7. sectionIndices(e, part) \in DOMAIN e.sections /\ e.sections[sectionIndices(e, part)].name[1] = part
  BY <1>4, <1>6, Zenon
<1> QED
  BY <1>1, <1>2, <1>7

LEMMA DataWritten ==
  ASSUME NEW p \in Patch, NEW e, IsObject(e)
  PROVE  LET q == writeROData(p, e)
         IN  q \in Patch /\ SameCode(p, q) /\ q.syms = p.syms /\ q.died = p.died
<1> DEFINE n == sectionIndices(e, "rodata")
           d == e.sections[n].data
           q == [p EXCEPT !.rodataOffset = Len(p.rodata)]
<1>1. CASE ~hasERS(e, "rodata")
  BY <1>1 DEF writeROData, SameCode
<1>2. CASE hasERS(e, "rodata")
  <2>1. writeROData(p, e) = [q EXCEPT !.rodata = q.rodata \o d]
    BY <1>2, Zenon DEF writeROData
  <2>2. p.rodata \in Seq(0..255)
    BY DEF Patch
  <2>3. d \in Seq(0..255)
    BY <1>2, KnownSection
  <2>4. q \in Patch /\ SameCode(p, q) /\ q.syms = p.syms /\ q.died = p.died
    <3>1. Len(p.rodata) \in Nat
      BY <2>2
    <3> HIDE DEF d, n
    <3> QED
      BY <3>1 DEF Patch, SameCode
  <2> HIDE DEF q
  <2>5. q.rodata \o d \in Seq(0..255)
    BY <2>3, <2>4 DEF Patch
  <2> QED
    BY <2>1, <2>4, <2>5 DEF Patch, SameCode
<1> QED
  BY <1>1, <1>2

LEMMA SymbolsKeptTrans ==
  ASSUME NEW p \in Patch, NEW q \in Patch, NEW s \in Patch, SymbolsKept(p, q), SymbolsKept(q, s)
  PROVE  SymbolsKept(p, s)
<1>1. p.syms \in Seq(PatchSymbol) /\ q.syms \in Seq(PatchSymbol) /\ s.syms \in Seq(PatchSymbol)
  BY PatchFields
<1> QED
  BY <1>1 DEF SymbolsKept

LEMMA EntryAdded ==
  ASSUME NEW p \in Patch, NEW sym \in PatchSymbol
  PROVE  LET q == addSymtabEntry(p, sym)
         IN  /\ q \in Patch /\ SameCode(p, q) /\ SameData(p, q) /\ q.died = p.died /\ SymbolsKept(p, q)
             /\ q.syms = Append(p.syms, sym)
<1> DEFINE x == Append(p.syms, sym)
           q == [p EXCEPT !.syms = x]
<1>1. p.syms \in Seq(PatchSymbol) /\ x \in Seq(PatchSymbol)
  BY PatchFields
<1>2. addSymtabEntry(p, sym) = q
  BY Zenon DEF addSymtabEntry
<1>3. q \in Patch /\ q.syms = x /\ SameCode(p, q) /\ SameData(p, q) /\ q.died = p.died
  BY <1>1, SetSyms
<1> HIDE DEF q
<1>4. SymbolsKept(p, q)
  BY <1>1, <1>3 DEF SymbolsKept
<1> QED
  BY <1>2, <1>3, <1>4

-----------------------------------------------------------------------------
(* Symbols of the patch.                                                   *)

LEMMA IsItself ==
  ASSUME NEW s
  PROVE  IsSymbol(s, s)
BY Zenon DEF IsSymbol

\* What has been found is among the symbols, and is the one looked for.
LEMMA SymbolFound ==
  ASSUME NEW o, NEW sym, NEW S0, o.syms \in Seq(S0)
  PROVE  /\ findSymbol(o, sym) \in Nat
         /\ findSymbol(o, sym) # NONE =>
              findSymbol(o, sym) \in DOMAIN o.syms /\ IsSymbol(sym, o.syms[findSymbol(o, sym)])
         /\ (\E i \in DOMAIN o.syms : IsSymbol(sym, o.syms[i])) => findSymbol(o, sym) # NONE
<1> DEFINE S == {i \in DOMAIN o.syms : IsSymbol(sym, o.syms[i])}
<1>1. findSymbol(o, sym) = LastIn(S)
  BY Zenon DEF findSymbol
<1>2. DOMAIN o.syms = 1..Len(o.syms) /\ Len(o.syms) \in Nat
  OBVIOUS
<1>3. S \in SUBSET (1..Len(o.syms))
  BY <1>2
<1>4. S # {} => LastIn(S) \in S /\ LastIn(S) # NONE
  <2> HIDE DEF S
  <2> QED
    BY <1>2, <1>3, LastInOf
<1>5. S = {} => LastIn(S) = NONE
  BY DEF LastIn
<1> QED
  BY <1>1, <1>2, <1>4, <1>5 DEF NONE

LEMMA SymbolThere ==
  ASSUME NEW p \in Patch, NEW sym \in PatchSymbol
  PROVE  LET q == WithSymbol(p, sym)
         IN  /\ q \in Patch /\ SameCode(p, q) /\ SameData(p, q) /\ q.died = p.died /\ SymbolsKept(p, q)
             /\ findSymbol(q, sym) \in DOMAIN q.syms
             /\ IsSymbol(sym, q.syms[findSymbol(q, sym)])
<1> DEFINE q == WithSymbol(p, sym)
<1>1. p.syms \in Seq(PatchSymbol)
  BY PatchFields
<1>2. CASE findSymbol(p, sym) # NONE
  <2>1. q = p
    BY <1>2 DEF WithSymbol
  <2>2. SymbolsKept(p, p)
    BY <1>1 DEF SymbolsKept
  <2> QED
    BY <1>1, <1>2, <2>1, <2>2, SymbolFound DEF SameCode, SameData
<1>3. CASE findSymbol(p, sym) = NONE
  <2>1. q = addSymtabEntry(p, sym)
    BY <1>3 DEF WithSymbol
  <2>2. q \in Patch /\ SameCode(p, q) /\ SameData(p, q) /\ q.died = p.died /\ SymbolsKept(p, q)
        /\ q.syms = Append(p.syms, sym)
    BY <2>1, EntryAdded
  <2> HIDE DEF q
  <2>3. Len(q.syms) \in DOMAIN q.syms /\ q.syms[Len(q.syms)] = sym /\ q.syms \in Seq(PatchSymbol)
    BY <1>1, <2>2
  <2>4. findSymbol(q, sym) # NONE
    BY <2>3, SymbolFound, IsItself
  <2>5. findSymbol(q, sym) \in DOMAIN q.syms /\ IsSymbol(sym, q.syms[findSymbol(q, sym)])
    BY <2>3, <2>4, SymbolFound
  <2> QED
    BY <2>2, <2>5 DEF q
<1> QED
  BY <1>2, <1>3

LEMMA SectionReindexed ==
  ASSUME NEW p \in Patch, NEW scn \in Seq(Strings)
  PROVE  LET q == reindexSectionForPatch(p, scn)
         IN  /\ q \in Patch /\ SameCode(p, q) /\ SameData(p, q) /\ q.died = p.died /\ SymbolsKept(p, q)
             /\ SectionSymbol(PatchSection(scn)) \in Range(q.syms)
<1> DEFINE q == reindexSectionForPatch(p, scn)
           sym == SectionSymbol(PatchSection(scn))
<1>1. p.syms \in Seq(PatchSymbol)
  BY PatchFields
<1>2. sym \in PatchSymbol
  <2> DEFINE x == PatchSection(scn)
  <2>1. x \in Seq(Strings)
    BY StringsInside, Zenon DEF PatchSection
  <2> HIDE DEF x
  <2>2. [name |-> "", bind |-> "LOCAL", type |-> "SECTION", scn |-> x, value |-> 0] \in PatchSymbol
    BY <2>1, StringsInside DEF PatchSymbol
  <2> QED
    BY <2>2 DEF SectionSymbol, x
<1> HIDE DEF sym
<1>3. CASE sym \in Range(p.syms)
  <2>1. q = p
    BY <1>3 DEF reindexSectionForPatch, sym
  <2> QED
    BY <1>1, <1>3, <2>1 DEF SymbolsKept, SameCode, SameData, sym
<1>4. CASE sym \notin Range(p.syms)
  <2>1. q = addSymtabEntry(p, sym)
    BY <1>4 DEF reindexSectionForPatch, sym
  <2>2. q \in Patch /\ SameCode(p, q) /\ SameData(p, q) /\ q.died = p.died /\ SymbolsKept(p, q)
        /\ q.syms = Append(p.syms, sym)
    BY <1>2, <2>1, EntryAdded
  <2> HIDE DEF q
  <2>3. Len(q.syms) \in DOMAIN q.syms /\ q.syms[Len(q.syms)] = sym
    BY <1>1, <1>2, <2>2
  <2>4. sym \in Range(q.syms)
    BY <2>3, Zenon DEF Range
  <2> QED
    BY <2>2, <2>4 DEF q, sym
<1> QED
  BY <1>3, <1>4

LEMMA ElementOf ==
  ASSUME NEW S, NEW s \in Seq(S), NEW i \in DOMAIN s
  PROVE  s[i] \in S
OBVIOUS

\* What a name that is not empty is looked up for has that name.
LEMMA FoundByName ==
  ASSUME NEW e, IsObject(e), NEW idx \in DOMAIN e.syms, e.syms[idx].name # "",
         AreSymbols(trees.binary.syms),
         findSymbol(trees.binary, e.syms[idx]) # NONE
  PROVE  LET s == trees.binary.syms[findSymbol(trees.binary, e.syms[idx])]
         IN  s \in Symbol /\ s.name = e.syms[idx].name /\ s.type # "SECTION"
<1> DEFINE n == findSymbol(trees.binary, e.syms[idx])
           s == trees.binary.syms[n]
<1>1. trees.binary.syms \in Seq(Symbol) /\ e.syms \in Seq(Symbol)
  BY Zenon DEF AreSymbols, IsObject
<1>2. n \in DOMAIN trees.binary.syms /\ IsSymbol(e.syms[idx], s)
  BY <1>1, SymbolFound
<1>3. s \in Range(trees.binary.syms) /\ e.syms[idx] \in Range(e.syms)
  BY <1>2, Zenon DEF Range
<1>4. s.type = "SECTION" => s.name = ""
  BY <1>3, Zenon DEF AreSymbols
<1>5. e.syms[idx].type # "SECTION"
  BY <1>3, Zenon DEF IsObject, AreSymbols
<1>6. s.name = e.syms[idx].name
  BY <1>2, <1>5, Zenon DEF IsSymbol
<1>7. s \in Symbol
  <2> HIDE DEF n
  <2> QED
    BY <1>1, <1>2, ElementOf, Zenon
<1> QED
  BY <1>4, <1>6, <1>7, Zenon

LEMMA AddedFromBinary ==
  ASSUME NEW p \in Patch, NEW e, IsObject(e), AreSymbols(trees.binary.syms),
         NEW idx, idx = NONE \/ idx \in DOMAIN e.syms
  PROVE  LET a == addSymbolFromBinaryToPatch(p, e, idx)
             q == a.patch
         IN  /\ q \in Patch /\ SameCode(p, q) /\ SameData(p, q) /\ SymbolsKept(p, q)
             /\ a.sym \in Nat
             /\ p.died => q.died
             /\ ~q.died => /\ a.sym \in DOMAIN q.syms /\ idx # NONE
                           /\ e.syms[idx].name # "" => q.syms[a.sym].name = e.syms[idx].name
<1> DEFINE inNew == IF idx = NONE THEN NONE ELSE findSymbol(trees.binary, e.syms[idx])
           s   == trees.binary.syms[inNew]
           scn == IF s.type = "SECTION" THEN PatchSection(s.scn) ELSE UNDEF
           sym == [s EXCEPT !.scn = scn]
           r   == IF s.type = "SECTION" THEN reindexSectionForPatch(p, s.scn) ELSE p
           q   == WithSymbol(r, sym)
           a   == addSymbolFromBinaryToPatch(p, e, idx)
<1>1. a = IF inNew = NONE THEN [patch |-> [p EXCEPT !.died = TRUE], sym |-> NONE]
          ELSE [patch |-> q, sym |-> findSymbol(q, sym)]
  BY Zenon DEF addSymbolFromBinaryToPatch
<1>2. p.syms \in Seq(PatchSymbol) /\ trees.binary.syms \in Seq(Symbol)
  BY PatchFields, Zenon DEF AreSymbols
<1>3. CASE inNew = NONE
  <2> DEFINE d == [p EXCEPT !.died = TRUE]
  <2>1. a.patch = d /\ a.sym = NONE
    <3> HIDE DEF d, inNew, a, q
    <3>1. a = [patch |-> d, sym |-> NONE]
      BY <1>1, <1>3, Zenon DEF d
    <3> QED
      BY <3>1
  <2>2. d \in Patch /\ d.syms = p.syms /\ SameCode(p, d) /\ SameData(p, d) /\ d.died
    BY SetDied
  <2> HIDE DEF d, a, inNew
  <2>3. SymbolsKept(p, d)
    BY <1>2, <2>2 DEF SymbolsKept
  <2> QED
    BY <2>1, <2>2, <2>3 DEF a, NONE
<1>4. CASE inNew # NONE
  <2>1. idx # NONE /\ idx \in DOMAIN e.syms /\ inNew = findSymbol(trees.binary, e.syms[idx])
    BY <1>4
  <2>2. inNew \in DOMAIN trees.binary.syms
    BY <1>2, <1>4, <2>1, SymbolFound
  <2>3. s \in Symbol
    <3> HIDE DEF inNew
    <3> QED
      BY <1>2, <2>2
  <2>4. e.syms[idx].name # "" => s.name = e.syms[idx].name /\ s.type # "SECTION"
    BY <1>4, <2>1, FoundByName
  <2>5. a.patch = q /\ a.sym = findSymbol(q, sym)
    <3> HIDE DEF inNew, a, q, sym
    <3> QED
      BY <1>1, <1>4
  <2> HIDE DEF inNew, a
  <2>6. s.scn \in Seq(Strings) /\ scn \in Seq(Strings)
    <3>1. s \in PatchSymbol
      BY <2>3, StringsInside
    <3>2. s.scn \in Seq(Strings)
      BY <3>1 DEF PatchSymbol
    <3> HIDE DEF s
    <3> QED
      BY <3>2, StringsInside, Zenon DEF PatchSection
  <2> HIDE DEF scn
  <2>7. sym \in PatchSymbol /\ sym.name = s.name /\ sym.type = s.type
    <3>1. s \in PatchSymbol
      BY <2>3, StringsInside
    <3> HIDE DEF s
    <3> QED
      BY <2>6, <3>1 DEF PatchSymbol
  <2> HIDE DEF s, sym
  <2>8. r \in Patch /\ SameCode(p, r) /\ SameData(p, r) /\ r.died = p.died /\ SymbolsKept(p, r)
    <3>1. CASE s.type = "SECTION"
      BY <2>6, <3>1, SectionReindexed
    <3>2. CASE s.type # "SECTION"
      BY <1>2, <3>2 DEF SymbolsKept, SameCode, SameData
    <3> QED
      BY <3>1, <3>2
  <2> HIDE DEF r
  <2>9. /\ q \in Patch /\ SameCode(r, q) /\ SameData(r, q) /\ q.died = r.died /\ SymbolsKept(r, q)
        /\ findSymbol(q, sym) \in DOMAIN q.syms
        /\ IsSymbol(sym, q.syms[findSymbol(q, sym)])
    BY <2>7, <2>8, SymbolThere
  <2> HIDE DEF q
  <2>10. SameCode(p, q) /\ SameData(p, q) /\ SymbolsKept(p, q)
    BY <2>8, <2>9, SymbolsKeptTrans DEF SameCode, SameData
  <2>11. findSymbol(q, sym) \in Nat
    BY <2>9, SymbolFound, PatchFields
  <2>12. e.syms[idx].name # "" => q.syms[findSymbol(q, sym)].name = e.syms[idx].name
    BY <2>4, <2>7, <2>9, Zenon DEF IsSymbol
  <2> QED
    BY <2>1, <2>5, <2>8, <2>9, <2>10, <2>11, <2>12 DEF a
<1> QED
  BY <1>3, <1>4

-----------------------------------------------------------------------------
(* Relocations of the patch.                                               *)

RelocOf(e) == [at : Nat, kind : STRING, sym : DOMAIN e.syms, addend : Int]

LEMMA RelocFields ==
  ASSUME NEW e, NEW r \in RelocOf(e)
  PROVE  r.at \in Nat /\ r.kind \in STRING /\ r.sym \in DOMAIN e.syms /\ r.addend \in Int
BY DEF RelocOf

LEMMA AddendMadeOut ==
  ASSUME NEW e, IsObject(e), NEW r \in RelocOf(e)
  PROVE  LET q == [r EXCEPT !.addend = computeAddend(e, r)]
         IN  q \in RelocOf(e) /\ q.at = r.at
<1>1. e.syms[r.sym] \in Symbol
  <2>1. e.syms \in Seq(Symbol)
    BY Zenon DEF IsObject, AreSymbols
  <2> QED
    BY <2>1, RelocFields, ElementOf
<1>2. e.syms[r.sym].value \in Nat /\ AddrSize(e) \in Nat
  BY <1>1 DEF Symbol, AddrSize
<1>3. r.at \in Nat /\ r.addend \in Int
  BY RelocFields
<1>4. computeAddend(e, r) \in Int
  BY <1>2, <1>3 DEF computeAddend
<1> QED
  BY <1>4 DEF RelocOf

LEMMA RelocationsRead ==
  ASSUME NEW e, IsObject(e), NEW f
  PROVE  Apart(RelocationsOf(e, f)) /\ RelocationsOf(e, f) \in SUBSET RelocOf(e)
<1> DEFINE scn == getRelocationSection(e, f.name)
           all == e.sections[scn].relocs
           near == {r \in all : f.low <= r.at /\ r.at <= f.high}
           Scn == [name : Seq(STRING), data : Seq(0..255), relocs : SUBSET RelocOf(e)]
<1>1. RelocationsOf(e, f) = IF scn = NONE THEN {} ELSE {Read(e, r) : r \in near}
  BY Zenon DEF RelocationsOf, getRelocationItemsInRange, Read
<1>2. e.sections \in Seq(Scn)
  BY Zenon DEF IsObject, RelocOf
<1>3. scn # NONE => scn \in DOMAIN e.sections
  <2> DEFINE S(name) == {i \in DOMAIN e.sections : e.sections[i].name = name /\ e.sections[i].relocs # {}}
             own == FirstIn(S(<<"text", f.name>>))
             any == FirstIn(S(<<"text">>))
  <2>1. scn = IF own # NONE THEN own ELSE any
    BY Zenon DEF getRelocationSection
  <2>2. DOMAIN e.sections = 1..Len(e.sections)
    BY <1>2
  <2>3. ASSUME NEW name
        PROVE  FirstIn(S(name)) # NONE => FirstIn(S(name)) \in DOMAIN e.sections
    <3>1. S(name) \in SUBSET Nat /\ S(name) \subseteq DOMAIN e.sections
      BY <2>2
    <3> HIDE DEF S
    <3>2. S(name) # {} => FirstIn(S(name)) \in S(name)
      BY <3>1, FirstInOf
    <3>3. S(name) = {} => FirstIn(S(name)) = NONE
      BY DEF FirstIn
    <3> QED
      BY <3>1, <3>2, <3>3
  <2> HIDE DEF S
  <2>4. own # NONE => own \in DOMAIN e.sections
    BY <2>3, Zenon
  <2>5. any # NONE => any \in DOMAIN e.sections
    BY <2>3, Zenon
  <2> HIDE DEF own, any, scn
  <2> QED
    BY <2>1, <2>4, <2>5
<1>4. CASE scn = NONE
  <2>1. RelocationsOf(e, f) = {}
    BY <1>1, <1>4, Zenon
  <2> QED
    BY <2>1, FS_EmptySet DEF Apart
<1>5. CASE scn # NONE
  <2> HIDE DEF scn
  <2>1. e.sections[scn] \in Scn
    BY <1>2, <1>3, <1>5, ElementOf
  <2>2. all \in SUBSET RelocOf(e)
    BY <2>1
  <2>3. IsFiniteSet(all) /\ \A r, q \in all : r.at = q.at => r = q
    <3>1. e.sections[scn] \in Range(e.sections)
      BY <1>3, <1>5, Zenon DEF Range
    <3> QED
      BY <3>1, Zenon DEF IsObject
  <2>4. near \in SUBSET RelocOf(e) /\ near \subseteq all
    BY <2>2
  <2> HIDE DEF all
  <2>5. IsFiniteSet(near)
    <3> HIDE DEF near
    <3> QED
      BY <2>3, <2>4, FS_Subset
  <2> HIDE DEF near
  <2>6. \A r \in near : Read(e, r) \in RelocOf(e) /\ Read(e, r).at = r.at
    <3> SUFFICES ASSUME NEW r \in near
                 PROVE  Read(e, r) \in RelocOf(e) /\ Read(e, r).at = r.at
      OBVIOUS
    <3>1. r \in RelocOf(e)
      BY <2>4
    <3>2. CASE e.rel
      BY <3>1, <3>2, AddendMadeOut DEF Read
    <3>3. CASE ~e.rel
      BY <3>1, <3>3, RelocFields DEF Read
    <3> QED
      BY <3>2, <3>3
  <2>7. RelocationsOf(e, f) = {Read(e, r) : r \in near}
    BY <1>1, <1>5, Zenon
  <2>8. IsFiniteSet({Read(e, r) : r \in near})
    <3> DEFINE h == [r \in near |-> Read(e, r)]
               T == {Read(e, r) : r \in near}
    <3>1. h \in [near -> T] /\ \A t \in T : \E r \in near : h[r] = t
      OBVIOUS
    <3> HIDE DEF h, T
    <3>2. h \in Surjection(near, T)
      BY <3>1, Zenon DEF Surjection
    <3>3. IsFiniteSet(T)
      BY <2>5, <3>2, FS_Surjection
    <3> QED
      BY <3>3 DEF T
  <2>9. \A q \in RelocationsOf(e, f) : \E r \in near : q = Read(e, r) /\ q \in RelocOf(e) /\ q.at = r.at
    BY <2>6, <2>7
  <2>10. \A q \in RelocOf(e) : q.at \in Nat
    BY RelocFields
  <2>11. Apart(RelocationsOf(e, f))
    <3>1. \A q1, q2 \in RelocationsOf(e, f) : q1.at = q2.at => q1 = q2
      BY <2>3, <2>4, <2>9
    <3> QED
      BY <2>7, <2>8, <2>9, <2>10, <3>1, Zenon DEF Apart
  <2> QED
    BY <2>9, <2>11
<1> QED
  BY <1>4, <1>5

(* What relocations and symbols that are added leave alone.                *)
CodeKept(p, q) ==
  /\ q.text = p.text /\ q.dies = p.dies /\ q.unsafe = p.unsafe /\ SameData(p, q)
  /\ SymbolsKept(p, q) /\ (p.died => q.died)

LEMMA RelocationWritten ==
  ASSUME NEW p \in Patch, NEW e, IsObject(e), AreSymbols(trees.binary.syms),
         NEW f \in Subprogram, NEW base \in Nat, NEW r \in RelocOf(e)
  PROVE  LET q == writeRelocation(p, e, f, base, r)
         IN  /\ q \in Patch /\ CodeKept(p, q)
             /\ Len(q.relas) = Len(p.relas) + 1 /\ \A i \in DOMAIN p.relas : q.relas[i] = p.relas[i]
<1> DEFINE added == addSymbolFromBinaryToPatch(p, e, r.sym)
           s == added.patch
           add == IF e.syms[r.sym].scn = e.sections[sectionIndices(e, "rodata")].name
                    THEN r.addend + p.rodataOffset ELSE r.addend
           rela == [at |-> r.at - f.low + base, kind |-> r.kind, sym |-> added.sym, addend |-> add]
           q == [s EXCEPT !.relas = Append(s.relas, rela)]
<1>1. writeRelocation(p, e, f, base, r) = q
  BY Zenon DEF writeRelocation
<1>2. r.at \in Nat /\ r.kind \in STRING /\ r.sym \in DOMAIN e.syms /\ r.addend \in Int
  BY RelocFields
<1>3. /\ s \in Patch /\ SameCode(p, s) /\ SameData(p, s) /\ SymbolsKept(p, s)
      /\ added.sym \in Nat
      /\ p.died => s.died
  BY <1>2, AddedFromBinary
<1>4. rela \in Rela
  <2>1. f.low \in Nat
    BY DEF Subprogram
  <2>2. add \in Int
    BY <1>2, PatchFields
  <2>3. added.sym \in Nat
    BY <1>3
  <2> HIDE DEF add, added
  <2> QED
    BY <1>2, <2>1, <2>2, <2>3 DEF Rela
<1> HIDE DEF rela, added, s
<1>5. s.relas \in Seq(Rela) /\ s.relas = p.relas /\ s.syms \in Seq(PatchSymbol)
  BY <1>3, PatchFields DEF SameCode
<1>6. /\ q \in Patch /\ q.relas = Append(s.relas, rela) /\ q.syms = s.syms /\ q.text = s.text /\ q.dies = s.dies
      /\ q.unsafe = s.unsafe /\ SameData(s, q) /\ q.died = s.died
  <2> DEFINE x == Append(s.relas, rela)
  <2>1. x \in Seq(Rela)
    BY <1>4, <1>5
  <2> HIDE DEF x
  <2> QED
    BY <1>3, <2>1, SetRelas DEF x
<1> HIDE DEF q
<1>7. CodeKept(p, q)
  BY <1>3, <1>6, Zenon DEF CodeKept, SameCode, SameData, SymbolsKept
<1> QED
  BY <1>1, <1>4, <1>5, <1>6, <1>7

\* All of them, one after the other: h[k] is the patch with k of them.
OneByOne(p, e, f, base, h) ==
  LET relocs == InOrder(RelocationsOf(e, f))
      N == Len(relocs)
  IN  /\ N = Cardinality(RelocationsOf(e, f)) /\ N \in Nat
      /\ relocs \in [1..N -> RelocationsOf(e, f)]
      /\ h[0] = p
      /\ \A k \in 1..N : h[k] = writeRelocation(h[k - 1], e, f, base, relocs[k])
      /\ writeRelocationsInRange(p, e, f, base) =
            IF ~hasERS(e, "rodata") THEN [p EXCEPT !.died = TRUE] ELSE h[N]

LEMMA WrittenOneByOne ==
  ASSUME NEW p, NEW e, IsObject(e), NEW f, NEW base
  PROVE  \E h : OneByOne(p, e, f, base, h)
<1> DEFINE relocs == InOrder(RelocationsOf(e, f))
           N == Len(relocs)
           wr(q, k) == writeRelocation(q, e, f, base, relocs[k])
           Written(h) == h = [k \in 0..N |-> IF k = 0 THEN p ELSE wr(h[k - 1], k)]
           written == CHOOSE h : Written(h)
           P(n) == \E h : h = [k \in 0..n |-> IF k = 0 THEN p ELSE wr(h[k - 1], k)]
<1>1. writeRelocationsInRange(p, e, f, base) =
        IF ~hasERS(e, "rodata") THEN [p EXCEPT !.died = TRUE] ELSE written[N]
  BY Zenon DEF writeRelocationsInRange
<1>2. /\ N = Cardinality(RelocationsOf(e, f)) /\ N \in Nat
      /\ relocs \in [1..N -> RelocationsOf(e, f)]
  <2>1. Apart(RelocationsOf(e, f)) /\ RelocationsOf(e, f) \in SUBSET RelocOf(e)
    BY RelocationsRead
  <2>2. /\ N = Cardinality(RelocationsOf(e, f)) /\ N \in Nat
        /\ relocs \in [1..Cardinality(RelocationsOf(e, f)) -> RelocationsOf(e, f)]
    BY <2>1, InOrderOf
  <2> HIDE DEF relocs, N
  <2> QED
    BY <2>1, <2>2
<1> HIDE DEF relocs, wr, N
<1>3. P(0)
  <2> DEFINE h == [k \in 0..0 |-> p]
  <2>1. h = [k \in 0..0 |-> IF k = 0 THEN p ELSE wr(h[k - 1], k)]
    OBVIOUS
  <2> QED
    BY <2>1, Zenon
<1>4. ASSUME NEW n \in Nat, P(n)
      PROVE  P(n + 1)
  <2>1. PICK h : h = [k \in 0..n |-> IF k = 0 THEN p ELSE wr(h[k - 1], k)]
    BY <1>4, Zenon
  <2> DEFINE g == [k \in 0..(n + 1) |-> IF k \in 0..n THEN h[k] ELSE wr(h[n], n + 1)]
  <2>2. \A k \in 0..n : h[k] = IF k = 0 THEN p ELSE wr(h[k - 1], k)
    BY <2>1, Zenon
  <2>3. ASSUME NEW k \in 0..(n + 1)
        PROVE  g[k] = IF k = 0 THEN p ELSE wr(g[k - 1], k)
    <3>1. CASE k \in 0..n
      <4>1. k # 0 => k - 1 \in 0..n /\ k - 1 \in 0..(n + 1)
        BY <3>1
      <4>2. g[k] = h[k] /\ (k # 0 => g[k - 1] = h[k - 1])
        BY <3>1, <4>1
      <4> HIDE DEF g
      <4> QED
        BY <2>2, <3>1, <4>2, Zenon
    <3>2. CASE k \notin 0..n
      <4>1. k = n + 1 /\ k - 1 = n /\ n \in 0..n /\ n \in 0..(n + 1) /\ k # 0
        BY <3>2
      <4>2. g[k] = wr(h[n], n + 1) /\ g[n] = h[n]
        BY <3>2, <4>1
      <4> HIDE DEF g
      <4> QED
        BY <4>1, <4>2, Zenon
    <3> QED
      BY <3>1, <3>2
  <2>4. g = [k \in 0..(n + 1) |-> g[k]]
    OBVIOUS
  <2> HIDE DEF g
  <2>5. g = [k \in 0..(n + 1) |-> IF k = 0 THEN p ELSE wr(g[k - 1], k)]
    BY <2>3, <2>4, Zenon
  <2> QED
    BY <2>5, Zenon
<1> HIDE DEF P
<1>5. \A n \in Nat : P(n)
  <2> SUFFICES ASSUME NEW n \in Nat, ~P(n)
               PROVE  FALSE
    OBVIOUS
  <2> DEFINE Bad == {m \in Nat : ~P(m)}
  <2>1. Bad \in SUBSET Nat /\ Bad # {}
    OBVIOUS
  <2>2. PICK m \in Bad : \A k \in Bad : m <= k
    <3> HIDE DEF Bad
    <3> QED
      BY <2>1, LeastNatural
  <2>3. m \in Nat /\ ~P(m) /\ m # 0
    BY <1>3, <2>2
  <2>4. m - 1 \in Nat /\ ~(m <= m - 1) /\ m = (m - 1) + 1
    BY <2>3
  <2>5. P(m - 1)
    BY <2>2, <2>4
  <2>6. P((m - 1) + 1)
    BY <1>4, <2>4, <2>5
  <2> QED
    BY <2>3, <2>4, <2>6
<1>6. Written(written)
  <2>1. \E h : Written(h)
    BY <1>2, <1>5, Zenon DEF P
  <2> HIDE DEF Written
  <2> QED
    BY <2>1, Zenon
<1> HIDE DEF written
<1>7. \A k \in 0..N : written[k] = IF k = 0 THEN p ELSE wr(written[k - 1], k)
  BY <1>6, Zenon
<1>8. written[0] = p
  BY <1>2, <1>7
<1>9. \A k \in 1..N : written[k] = writeRelocation(written[k - 1], e, f, base, relocs[k])
  <2> SUFFICES ASSUME NEW k \in 1..N
               PROVE  written[k] = writeRelocation(written[k - 1], e, f, base, relocs[k])
    OBVIOUS
  <2>1. k \in 0..N /\ k # 0
    BY <1>2
  <2> QED
    BY <1>7, <2>1, Zenon DEF wr
<1> QED
  BY <1>1, <1>2, <1>8, <1>9, Zenon DEF OneByOne, relocs, N

LEMMA RelocationsWritten ==
  ASSUME NEW p \in Patch, NEW e, IsObject(e), AreSymbols(trees.binary.syms),
         NEW f \in Subprogram, NEW base \in Nat
  PROVE  LET q == writeRelocationsInRange(p, e, f, base)
         IN  q \in Patch /\ CodeKept(p, q)
<1> DEFINE relocs == InOrder(RelocationsOf(e, f))
           N == Len(relocs)
<1>1. PICK h : OneByOne(p, e, f, base, h)
  BY WrittenOneByOne
<1>2. /\ N \in Nat /\ relocs \in [1..N -> RelocationsOf(e, f)]
      /\ h[0] = p
      /\ \A k \in 1..N : h[k] = writeRelocation(h[k - 1], e, f, base, relocs[k])
      /\ writeRelocationsInRange(p, e, f, base) =
            IF ~hasERS(e, "rodata") THEN [p EXCEPT !.died = TRUE] ELSE h[N]
  BY <1>1, Zenon DEF OneByOne
<1> HIDE DEF relocs, N
<1>3. \A k \in 1..N : relocs[k] \in RelocOf(e)
  BY <1>2, RelocationsRead
<1> DEFINE Fine(k) == h[k] \in Patch /\ CodeKept(p, h[k])
<1>4. Fine(0)
  <2>1. CodeKept(p, p)
    BY PatchFields DEF CodeKept, SameData, SymbolsKept
  <2> QED
    BY <1>2, <2>1
<1>5. ASSUME NEW k \in 1..N, Fine(k - 1)
      PROVE  Fine(k)
  <2> DEFINE q == h[k - 1]
             s == h[k]
  <2>1. s = writeRelocation(q, e, f, base, relocs[k])
    BY <1>2
  <2>2. q \in Patch /\ CodeKept(p, q)
    BY <1>5
  <2> HIDE DEF q, s
  <2>3. s \in Patch /\ CodeKept(q, s)
    BY <1>3, <2>1, <2>2, RelocationWritten
  <2>4. SymbolsKept(p, s)
    BY <2>2, <2>3, SymbolsKeptTrans DEF CodeKept
  <2>5. CodeKept(p, s)
    BY <2>2, <2>3, <2>4, Zenon DEF CodeKept, SameData
  <2> QED
    BY <2>3, <2>5 DEF s
<1> HIDE DEF Fine
<1>6. Fine(N)
  <2> SUFFICES ASSUME ~Fine(N)
               PROVE  FALSE
    OBVIOUS
  <2> DEFINE Bad == {m \in 0..N : ~Fine(m)}
  <2>1. Bad \in SUBSET Nat /\ Bad # {}
    BY <1>2
  <2>2. PICK m \in Bad : \A k \in Bad : m <= k
    <3> HIDE DEF Bad
    <3> QED
      BY <2>1, LeastNatural
  <2>3. m \in 1..N /\ ~Fine(m)
    BY <1>2, <1>4, <2>2
  <2>4. m - 1 \in 0..N /\ ~(m <= m - 1)
    BY <1>2, <2>3
  <2>5. Fine(m - 1)
    BY <2>2, <2>4
  <2> QED
    BY <1>5, <2>3, <2>5
<1>7. CASE ~hasERS(e, "rodata")
  <2> DEFINE d == [p EXCEPT !.died = TRUE]
  <2>1. writeRelocationsInRange(p, e, f, base) = d
    BY <1>2, <1>7, Zenon
  <2>2. d \in Patch /\ d.syms = p.syms /\ SameCode(p, d) /\ SameData(p, d) /\ d.died
    BY SetDied
  <2> HIDE DEF d
  <2>3. SymbolsKept(p, d)
    BY <2>2, PatchFields DEF SymbolsKept
  <2>4. CodeKept(p, d)
    BY <2>2, <2>3 DEF CodeKept, SameCode
  <2> QED
    BY <2>1, <2>2, <2>4
<1>8. CASE hasERS(e, "rodata")
  <2>1. writeRelocationsInRange(p, e, f, base) = h[N]
    BY <1>2, <1>8, Zenon
  <2> QED
    BY <1>6, <2>1 DEF Fine
<1> QED
  BY <1>7, <1>8

\* The patch r, with the function, comes of p by a symbol of it, which is all
\* that q has besides the text, then the relocations, and the DIE d.
WrittenAs(p, e, f, cu, r, q, d) ==
  LET base == Len(p.text)
      sym == [name |-> f.name, bind |-> "GLOBAL", type |-> "FUNC",
              scn |-> <<"text", "new">>, value |-> base]
      w == writeRelocationsInRange(q, e, f, base)
  IN  /\ q \in Patch /\ sym \in PatchSymbol /\ q.syms = Append(p.syms, sym)
      /\ q.relas = p.relas /\ q.dies = p.dies /\ q.unsafe = p.unsafe /\ SameData(p, q) /\ q.died = p.died
      /\ d \in Die /\ d.cu = cu.name /\ d.name = f.name /\ d.low = base
      /\ w \in Patch /\ CodeKept(q, w)
      /\ r \in Patch /\ r.dies = Append(p.dies, d) /\ r.relas = w.relas /\ r.syms = w.syms
      /\ r.unsafe = p.unsafe /\ SameData(w, r) /\ r.died = w.died

LEMMA FunctionAdded ==
  ASSUME NEW p \in Patch, NEW e, IsObject(e), AreSymbols(trees.binary.syms),
         NEW f \in Subprogram, IsFunction(e, f), NEW cu, cu.name \in STRING, NEW new \in BOOLEAN
  PROVE  \E q, d : WrittenAs(p, e, f, cu, writeFuncToPatchText(p, e, f, cu, new), q, d)
<1> DEFINE base == Len(p.text)
           code == SubSeq(e.sections[TextOf(e, f.name)].data, f.low + 1, f.high)
           t == [p EXCEPT !.text = p.text \o code]
           sym == [name |-> f.name, bind |-> "GLOBAL", type |-> "FUNC",
                   scn |-> <<"text", "new">>, value |-> base]
           q == addSymtabEntry(t, sym)
           d == [cu |-> cu.name, name |-> f.name, low |-> base,
                 high |-> base + f.high - f.low, sym |-> Len(q.syms), new |-> new]
           w == writeRelocationsInRange(q, e, f, base)
           r == [w EXCEPT !.dies = Append(w.dies, d)]
<1>1. writeFuncToPatchText(p, e, f, cu, new) = r
  BY Zenon DEF writeFuncToPatchText
<1>2. p.text \in Seq(0..255) /\ base \in Nat /\ p.syms \in Seq(PatchSymbol)
  BY PatchFields
<1>3. f.name \in STRING /\ f.low \in Nat /\ f.high \in Nat
  BY DEF Subprogram
<1>4. code \in Seq(0..255)
  <2>1. Text(e, f).data \in Seq(0..255)
    <3>1. e.sections \in Seq([name : Seq(STRING), data : Seq(0..255), relocs : SUBSET RelocOf(e)])
      BY Zenon DEF IsObject, RelocOf
    <3>2. TextOf(e, f.name) \in DOMAIN e.sections
      BY TextSection
    <3>3. Text(e, f) \in [name : Seq(STRING), data : Seq(0..255), relocs : SUBSET RelocOf(e)]
      BY <3>1, <3>2, ElementOf DEF Text
    <3> QED
      BY <3>3
  <2>2. f.high <= Len(Text(e, f).data)
    BY DEF IsFunction
  <2>3. code = SubSeq(Text(e, f).data, f.low + 1, f.high)
    BY DEF Text
  <2>4. ASSUME NEW S, NEW s \in Seq(S), NEW m \in Nat, NEW n \in Nat, n <= Len(s)
        PROVE  SubSeq(s, m + 1, n) \in Seq(S)
    <3>1. \A i \in (m + 1)..n : s[i] \in S
      BY <2>4
    <3> QED
      BY <3>1, SubSeqProperties
  <2> HIDE DEF code
  <2> QED
    BY <1>3, <2>1, <2>2, <2>3, <2>4
<1> HIDE DEF code, base
<1> HIDE DEF code, base
<1>5. /\ t \in Patch /\ t.syms = p.syms /\ t.relas = p.relas /\ t.dies = p.dies
      /\ t.unsafe = p.unsafe /\ SameData(p, t) /\ t.died = p.died
  <2> DEFINE x == p.text \o code
  <2>1. x \in Seq(0..255)
    BY <1>2, <1>4
  <2> HIDE DEF x
  <2> QED
    BY <2>1, SetText DEF x
<1>6. sym \in PatchSymbol
  BY <1>2, <1>3, StringsInside DEF PatchSymbol
<1> HIDE DEF t, sym
<1>7. /\ q \in Patch /\ SameCode(t, q) /\ SameData(t, q) /\ q.died = t.died /\ q.syms = Append(p.syms, sym)
  BY <1>5, <1>6, EntryAdded
<1> HIDE DEF q
<1>8. w \in Patch /\ CodeKept(q, w)
  BY <1>2, <1>7, RelocationsWritten
<1> HIDE DEF w
<1>9. d \in Die
  <2>1. Len(q.syms) \in Nat
    BY <1>7, PatchFields
  <2> QED
    BY <1>2, <1>3, <2>1 DEF Die
<1>10. d.cu = cu.name /\ d.name = f.name /\ d.low = base
  OBVIOUS
<1> HIDE DEF d
<1>11. /\ r \in Patch /\ r.dies = Append(w.dies, d) /\ r.relas = w.relas /\ r.syms = w.syms
       /\ r.unsafe = w.unsafe /\ SameData(w, r) /\ r.died = w.died
  <2> DEFINE x == Append(w.dies, d)
  <2>1. x \in Seq(Die)
    BY <1>8, <1>9, PatchFields
  <2> HIDE DEF x
  <2> QED
    BY <1>8, <2>1, SetDies DEF x
<1> HIDE DEF r
<1>12. r.dies = Append(p.dies, d) /\ r.unsafe = p.unsafe
  BY <1>5, <1>7, <1>8, <1>11, Zenon DEF SameCode, CodeKept
<1>13. q.relas = p.relas /\ q.dies = p.dies /\ q.unsafe = p.unsafe /\ SameData(p, q) /\ q.died = p.died
  BY <1>5, <1>7, Zenon DEF SameCode, SameData
<1>14. WrittenAs(p, e, f, cu, r, q, d)
  BY <1>6, <1>7, <1>8, <1>9, <1>10, <1>11, <1>12, <1>13, Zenon DEF WrittenAs, sym, w, base
<1> QED
  BY <1>1, <1>14, Zenon

LEMMA FunctionWritten ==
  ASSUME NEW p \in Patch, NEW e, IsObject(e), AreSymbols(trees.binary.syms),
         NEW f \in Subprogram, IsFunction(e, f), NEW cu, cu.name \in STRING, NEW new \in BOOLEAN
  PROVE  LET q == writeFuncToPatchText(p, e, f, cu, new)
         IN  /\ q \in Patch
             /\ \E d \in Die : /\ d.cu = cu.name /\ d.name = f.name
                               /\ q.dies = Append(p.dies, d)
             /\ q.unsafe = p.unsafe /\ SymbolsKept(p, q) /\ (p.died => q.died)
<1> DEFINE base == Len(p.text)
           sym == [name |-> f.name, bind |-> "GLOBAL", type |-> "FUNC",
                   scn |-> <<"text", "new">>, value |-> base]
           r == writeFuncToPatchText(p, e, f, cu, new)
<1>1. PICK q, d : WrittenAs(p, e, f, cu, r, q, d)
  BY FunctionAdded
<1> DEFINE w == writeRelocationsInRange(q, e, f, base)
<1> HIDE DEF r
<1>2. /\ q \in Patch /\ sym \in PatchSymbol /\ q.syms = Append(p.syms, sym) /\ q.died = p.died
      /\ d \in Die /\ d.cu = cu.name /\ d.name = f.name
      /\ w \in Patch /\ CodeKept(q, w)
      /\ r \in Patch /\ r.dies = Append(p.dies, d) /\ r.syms = w.syms /\ r.unsafe = p.unsafe /\ r.died = w.died
  BY <1>1, Zenon DEF WrittenAs
<1> HIDE DEF w, sym
<1>3. SymbolsKept(p, r)
  <2>1. SymbolsKept(p, q)
    BY <1>2, PatchFields DEF SymbolsKept
  <2>2. SymbolsKept(p, w)
    BY <1>2, <2>1, SymbolsKeptTrans DEF CodeKept
  <2> QED
    BY <1>2, <2>2, Zenon DEF SymbolsKept
<1>4. p.died => r.died
  BY <1>2, Zenon DEF CodeKept
<1> QED
  BY <1>2, <1>3, <1>4 DEF r

LEMMA SymbolIndex ==
  ASSUME NEW e, IsObject(e), NEW name
  PROVE  LET idx == getSymtabIdx(e, name)
         IN  /\ idx = NONE \/ idx \in DOMAIN e.syms
             /\ idx # NONE => e.syms[idx].name = name
<1> DEFINE idx == getSymtabIdx(e, name)
           S == {i \in DOMAIN e.syms : e.syms[i].name = name}
<1>1. idx = FirstIn(S)
  BY Zenon DEF getSymtabIdx
<1>2. S \in SUBSET Nat
  <2>1. e.syms \in Seq(Symbol)
    BY Zenon DEF IsObject, AreSymbols
  <2>2. DOMAIN e.syms = 1..Len(e.syms)
    BY <2>1
  <2> QED
    BY <2>2
<1>3. S = {} => FirstIn(S) = NONE
  BY DEF FirstIn
<1>4. S # {} => FirstIn(S) \in S
  <2> HIDE DEF S
  <2> QED
    BY <1>2, FirstInOf
<1> HIDE DEF idx
<1>5. (idx = NONE \/ idx \in DOMAIN e.syms) /\ (idx # NONE => e.syms[idx].name = name)
  BY <1>1, <1>3, <1>4
<1> QED
  BY <1>5 DEF idx

LEMMA UnsafeAdded ==
  ASSUME NEW p \in Patch, NEW e, IsObject(e), AreSymbols(trees.binary.syms), NEW f \in Subprogram
  PROVE  LET q == addUnsafeSubprogram(p, e, f)
         IN  /\ q \in Patch /\ q.dies = p.dies /\ SymbolsKept(p, q) /\ (p.died => q.died)
             /\ q.relas = p.relas /\ SameData(p, q)
             /\ q.syms = addSymbolFromBinaryToPatch(p, e, getSymtabIdx(e, f.name)).patch.syms
             /\ \E s \in Nat : /\ q.unsafe = Append(p.unsafe, s)
                               /\ ~q.died => s \in DOMAIN q.syms /\ q.syms[s].name = f.name
<1> DEFINE idx == getSymtabIdx(e, f.name)
           a == addSymbolFromBinaryToPatch(p, e, idx)
           s == a.patch
           q == [s EXCEPT !.unsafe = Append(s.unsafe, a.sym)]
<1>1. addUnsafeSubprogram(p, e, f) = q
  BY Zenon DEF addUnsafeSubprogram
<1>2. /\ idx = NONE \/ idx \in DOMAIN e.syms
      /\ idx # NONE => e.syms[idx].name = f.name
  BY SymbolIndex
<1>3. f.name # ""
  BY DEF Subprogram
<1> HIDE DEF idx
<1>4. /\ s \in Patch /\ SameCode(p, s) /\ SameData(p, s) /\ SymbolsKept(p, s)
      /\ a.sym \in Nat
      /\ p.died => s.died
      /\ ~s.died => /\ a.sym \in DOMAIN s.syms /\ idx # NONE
                    /\ e.syms[idx].name # "" => s.syms[a.sym].name = e.syms[idx].name
  BY <1>2, AddedFromBinary
<1> DEFINE x == Append(s.unsafe, a.sym)
<1>5. x \in Seq(Nat)
  <2>1. a.sym \in Nat /\ s \in Patch
    BY <1>4
  <2> HIDE DEF a, s
  <2>2. s.unsafe \in Seq(Nat)
    BY <2>1, PatchFields
  <2> QED
    BY <2>1, <2>2
<1> HIDE DEF s, x
<1>6. /\ q \in Patch /\ q.unsafe = x /\ q.syms = s.syms /\ q.dies = s.dies /\ q.relas = s.relas
      /\ SameData(s, q) /\ q.died = s.died
  <2>1. q = [s EXCEPT !.unsafe = x]
    BY Zenon DEF x
  <2> HIDE DEF q
  <2> QED
    BY <1>4, <1>5, <2>1, SetUnsafe
<1> HIDE DEF q, a
<1>7. x = Append(p.unsafe, a.sym)
  BY <1>4 DEF x, SameCode
<1>8. SymbolsKept(p, q)
  BY <1>4, <1>6, Zenon DEF SymbolsKept
<1>9. ~q.died => a.sym \in DOMAIN q.syms /\ q.syms[a.sym].name = f.name
  BY <1>2, <1>3, <1>4, <1>6
<1>10. q.relas = p.relas /\ q.dies = p.dies /\ SameData(p, q)
  BY <1>4, <1>6, Zenon DEF SameCode, SameData
<1> QED
  BY <1>1, <1>4, <1>6, <1>7, <1>8, <1>9, <1>10 DEF s, a, idx

-----------------------------------------------------------------------------
(* What has been judged, and where what is in the patch comes from.        *)

OldOf(T, O, m) == T.old[O[m].path].file
NewOf(T, O, m) == T.new[O[m].path].file

UnitOf(e1, e2, u) == e2.cus[FirstIn(NewUnits(e1, e2, u))]

KeptUnits(e1, e2) == {u \in DOMAIN e1.cus : e1.dwarf /\ \A v \in 1..u : NewUnits(e1, e2, v) # {}}

Same(e1, e2, u, fn) ==
  areSubprogramsIdentical(e1, Func(e1.cus[u], fn), e2, Func(UnitOf(e1, e2, u), fn))

InPatch(p, cu, fn) == \E d \in Range(p.dies) : d.cu = cu.name /\ d.name = fn

NotOnStack(p, fn) == \E s \in Range(p.unsafe) : p.syms[s].name = fn

(* The patch p has what the comparison of the function in unit u of the    *)
(* versions e1 and e2 of an object requires.                               *)
Judged(p, e1, e2, u, fn) ==
  fn \in Names(UnitOf(e1, e2, u)) =>
    /\ ~Same(e1, e2, u, fn) => InPatch(p, UnitOf(e1, e2, u), fn)
    /\ ~Same(e1, e2, u, fn) \/ Func(e1.cus[u], fn).variadic => NotOnStack(p, fn)

JudgedUnit(p, e1, e2, u) == \A fn \in Names(e1.cus[u]) : Judged(p, e1, e2, u, fn)

ObjectJudged(p, e1, e2) ==
  /\ e1.dwarf => e2.dwarf
  /\ \A v \in KeptUnits(e1, e2) : JudgedUnit(p, e1, e2, v)

(* The function d of the patch is one of e2 that is new or differs.        *)
Origin(d, e1, e2) ==
  \E u \in DOMAIN e1.cus :
    /\ NewUnits(e1, e2, u) # {}
    /\ d.cu = UnitOf(e1, e2, u).name /\ d.name \in Names(UnitOf(e1, e2, u))
    /\ d.name \in Names(e1.cus[u]) => ~Same(e1, e2, u, d.name)

Origins(T, O, p) ==
  \A d \in Range(p.dies) : \E m \in DOMAIN O :
    /\ O[m].state = "modified" /\ OldOf(T, O, m).dwarf /\ NewOf(T, O, m).dwarf
    /\ Origin(d, OldOf(T, O, m), NewOf(T, O, m))

SymbolsThere(p) == \A i \in DOMAIN p.unsafe : p.unsafe[i] \in DOMAIN p.syms

InObject(e1, e2, p, u, l, c) ==
  /\ e1.dwarf /\ e2.dwarf
  /\ \A v \in 1..(u - 1) : NewUnits(e1, e2, v) # {} /\ JudgedUnit(p, e1, e2, v)
  /\ c # "units" => u \in DOMAIN e1.cus /\ NewUnits(e1, e2, u) # {}
  /\ c = "new functions" => l \subseteq Names(UnitOf(e1, e2, u)) \ Names(e1.cus[u])
  /\ c = "functions" =>
       l \subseteq Names(e1.cus[u]) /\ \A fn \in Names(e1.cus[u]) \ l : Judged(p, e1, e2, u, fn)

Comparing == {"units", "new functions", "functions"}

Progress(T, O, p, a, u, l, c) ==
  /\ p \in Patch /\ u \in Nat \ {0}
  /\ p.died => c = "dead"
  /\ Origins(T, O, p)
  /\ c = "trees" => p.dies = <<>>
  /\ c # "dead" =>
       /\ SymbolsThere(p)
       /\ \A m \in DOMAIN O : m < a => ObjectJudged(p, OldOf(T, O, m), NewOf(T, O, m))
  /\ c \in Comparing => InObject(OldOf(T, O, a), NewOf(T, O, a), p, u, l, c)

ModifiedAreCommon == \A i \in DOMAIN objects : objects[i].state = "modified" => objects[i].path \in Common

CodeInv ==
  /\ \E n \in Cases : trees = Version(n)
  /\ ModifiedAreCommon
  /\ Progress(trees, objects, patch, at, unit, left, pc)

CusFit(e) ==
  /\ e.cus \in Seq([name : STRING, funcs : Seq(Subprogram)])
  /\ \A cu \in Range(e.cus) : \A f \in Range(cu.funcs) : IsFunction(e, f)

LEMMA ObjectKnown ==
  ASSUME \E n \in Cases : trees = Version(n), ModifiedAreCommon,
         NEW m \in DOMAIN objects, objects[m].state = "modified"
  PROVE  LET e1 == OldOf(trees, objects, m)
             e2 == NewOf(trees, objects, m)
         IN  /\ e1.dwarf \in BOOLEAN /\ e2.dwarf \in BOOLEAN
             /\ e1.dwarf => IsObject(e1) /\ CusFit(e1)
             /\ e2.dwarf => IsObject(e2) /\ CusFit(e2)
             /\ e1.dwarf /\ e2.dwarf => Alike(e1, e2)
             /\ AreSymbols(trees.binary.syms)
<1> DEFINE q == objects[m].path
           e1 == trees.old[q].file
           e2 == trees.new[q].file
<1>1. q \in ObjectPaths(trees.old) /\ q \in ObjectPaths(trees.new)
  BY DEF ModifiedAreCommon, Common
<1>2. PICK n \in Cases : trees = Version(n)
  OBVIOUS
<1>3. /\ HoldsObjects(trees.old) /\ HoldsObjects(trees.new) /\ AreSymbols(trees.binary.syms)
      /\ \A p \in ObjectPaths(trees.old) \cap ObjectPaths(trees.new) :
           trees.old[p].file.dwarf /\ trees.new[p].file.dwarf => Alike(trees.old[p].file, trees.new[p].file)
  BY <1>2, ObjectsAssumption, Zenon
<1> HIDE DEF q
<1>4. /\ e1.dwarf \in BOOLEAN
      /\ e1.dwarf => IsObject(e1) /\ CusFit(e1)
  BY <1>1, <1>3, Zenon DEF HoldsObjects, CusFit
<1>5. /\ e2.dwarf \in BOOLEAN
      /\ e2.dwarf => IsObject(e2) /\ CusFit(e2)
  BY <1>1, <1>3, Zenon DEF HoldsObjects, CusFit
<1>6. e1.dwarf /\ e2.dwarf => Alike(e1, e2)
  BY <1>1, <1>3
<1>7. OldOf(trees, objects, m) = e1 /\ NewOf(trees, objects, m) = e2
  BY DEF OldOf, NewOf, q
<1> HIDE DEF e1, e2
<1> QED
  BY <1>3, <1>4, <1>5, <1>6, <1>7

LEMMA UnitFits ==
  ASSUME NEW e, CusFit(e), NEW u \in DOMAIN e.cus
  PROVE  /\ e.cus[u].name \in STRING
         /\ \A fn \in Names(e.cus[u]) :
              LET f == Func(e.cus[u], fn)
              IN  f \in Subprogram /\ IsFunction(e, f) /\ f.name = fn
<1> DEFINE Cu == [name : STRING, funcs : Seq(Subprogram)]
           cu == e.cus[u]
<1>1. e.cus \in Seq(Cu)
  BY Zenon DEF CusFit
<1>2. cu \in Cu
  <2> HIDE DEF Cu
  <2> QED
    BY <1>1, ElementOf
<1>3. cu.name \in STRING /\ cu.funcs \in Seq(Subprogram)
  <2> HIDE DEF cu
  <2> QED
    BY <1>2
<1>4. cu \in Range(e.cus)
  BY Zenon DEF Range
<1> HIDE DEF cu, Cu
<1>5. ASSUME NEW fn \in Names(cu)
      PROVE  Func(cu, fn) \in Range(cu.funcs) /\ Func(cu, fn).name = fn
  <2>1. \E f \in Range(cu.funcs) : f.name = fn
    BY DEF Names
  <2> QED
    BY <2>1, Zenon DEF Func
<1>6. \A f \in Range(cu.funcs) : f \in Subprogram
  BY <1>3, ElementOf DEF Range
<1>7. \A f \in Range(cu.funcs) : IsFunction(e, f)
  BY <1>4, Zenon DEF CusFit
<1> QED
  BY <1>3, <1>5, <1>6, <1>7 DEF cu

LEMMA UnitChosen ==
  ASSUME NEW e1, NEW e2, CusFit(e2), NEW u, NewUnits(e1, e2, u) # {}
  PROVE  FirstIn(NewUnits(e1, e2, u)) \in NewUnits(e1, e2, u)
<1>1. e2.cus \in Seq([name : STRING, funcs : Seq(Subprogram)])
  BY Zenon DEF CusFit
<1>2. DOMAIN e2.cus = 1..Len(e2.cus)
  BY <1>1
<1>3. NewUnits(e1, e2, u) \in SUBSET Nat
  BY <1>2 DEF NewUnits
<1> QED
  BY <1>3, FirstInOf

LEMMA UnitFound ==
  ASSUME NEW e1, NEW e2, CusFit(e2), NEW u, NewUnits(e1, e2, u) # {}
  PROVE  LET v == FirstIn(NewUnits(e1, e2, u))
         IN  v \in DOMAIN e2.cus /\ UnitOf(e1, e2, u) = e2.cus[v]
BY UnitChosen, Zenon DEF NewUnits, UnitOf

LEMMA UnitNamed ==
  ASSUME NEW e1, NEW e2, CusFit(e2), NEW u, NewUnits(e1, e2, u) # {}
  PROVE  e1.cus[u].name = UnitOf(e1, e2, u).name
<1> DEFINE v == FirstIn(NewUnits(e1, e2, u))
<1>1. v \in NewUnits(e1, e2, u) /\ UnitOf(e1, e2, u) = e2.cus[v]
  BY UnitChosen, Zenon DEF UnitOf
<1> HIDE DEF v
<1>2. e2.cus[v].name = e1.cus[u].name
  BY <1>1 DEF NewUnits
<1> QED
  BY <1>1, <1>2

-----------------------------------------------------------------------------
(* The patch grows.                                                        *)

Grows(p, q) ==
  /\ \A i \in DOMAIN p.dies : i \in DOMAIN q.dies /\ q.dies[i] = p.dies[i]
  /\ \A i \in DOMAIN p.unsafe : i \in DOMAIN q.unsafe /\ q.unsafe[i] = p.unsafe[i]
  /\ SymbolsKept(p, q)

LEMMA JudgedStays ==
  ASSUME NEW p \in Patch, NEW q, SymbolsThere(p), Grows(p, q)
  PROVE  /\ \A e1, e2, u, fn : Judged(p, e1, e2, u, fn) => Judged(q, e1, e2, u, fn)
         /\ \A e1, e2, u : JudgedUnit(p, e1, e2, u) => JudgedUnit(q, e1, e2, u)
         /\ \A e1, e2 : ObjectJudged(p, e1, e2) => ObjectJudged(q, e1, e2)
<1>1. \A cu, fn : InPatch(p, cu, fn) => InPatch(q, cu, fn)
  <2>1. \A d \in Range(p.dies) : d \in Range(q.dies)
    BY Zenon DEF Grows, Range
  <2> QED
    BY <2>1, Zenon DEF InPatch
<1>2. \A fn : NotOnStack(p, fn) => NotOnStack(q, fn)
  <2> SUFFICES ASSUME NEW fn, NotOnStack(p, fn)
               PROVE  NotOnStack(q, fn)
    OBVIOUS
  <2>1. PICK i \in DOMAIN p.unsafe : p.syms[p.unsafe[i]].name = fn
    BY Zenon DEF NotOnStack, Range
  <2>2. q.syms[p.unsafe[i]] = p.syms[p.unsafe[i]]
    BY <2>1, Zenon DEF SymbolsThere, Grows, SymbolsKept
  <2>3. i \in DOMAIN q.unsafe /\ q.unsafe[i] = p.unsafe[i]
    BY <2>1, Zenon DEF Grows
  <2> QED
    BY <2>1, <2>2, <2>3, Zenon DEF NotOnStack, Range
<1>3. ASSUME NEW e1, NEW e2, NEW u, NEW fn, Judged(p, e1, e2, u, fn)
      PROVE  Judged(q, e1, e2, u, fn)
  <2>1. /\ InPatch(p, UnitOf(e1, e2, u), fn) => InPatch(q, UnitOf(e1, e2, u), fn)
        /\ NotOnStack(p, fn) => NotOnStack(q, fn)
    BY <1>1, <1>2, Zenon
  <2> QED
    BY <1>3, <2>1, Zenon DEF Judged
<1>4. \A e1, e2, u : JudgedUnit(p, e1, e2, u) => JudgedUnit(q, e1, e2, u)
  BY <1>3, Zenon DEF JudgedUnit
<1>5. \A e1, e2 : ObjectJudged(p, e1, e2) => ObjectJudged(q, e1, e2)
  BY <1>4, Zenon DEF ObjectJudged
<1> QED
  BY <1>3, <1>4, <1>5, Zenon

LEMMA GrowsTrans ==
  ASSUME NEW p \in Patch, NEW q \in Patch, NEW s \in Patch, Grows(p, q), Grows(q, s)
  PROVE  Grows(p, s)
<1>1. SymbolsKept(p, s)
  BY SymbolsKeptTrans DEF Grows
<1> QED
  BY <1>1, Zenon DEF Grows

LEMMA GrowsByNothing ==
  ASSUME NEW p \in Patch
  PROVE  Grows(p, p)
BY PatchFields DEF Grows, SymbolsKept

\* Writing a function.
LEMMA WrittenGrows ==
  ASSUME NEW p \in Patch, NEW e, IsObject(e), AreSymbols(trees.binary.syms),
         NEW f \in Subprogram, IsFunction(e, f), NEW cu, cu.name \in STRING, NEW new \in BOOLEAN
  PROVE  LET q == writeFuncToPatchText(p, e, f, cu, new)
         IN  /\ q \in Patch /\ Grows(p, q) /\ (p.died => q.died)
             /\ SymbolsThere(p) => SymbolsThere(q)
             /\ InPatch(q, cu, f.name)
             /\ \A d \in Range(q.dies) : d \in Range(p.dies) \/ (d.cu = cu.name /\ d.name = f.name)
<1> DEFINE q == writeFuncToPatchText(p, e, f, cu, new)
<1>1. /\ q \in Patch
      /\ \E d \in Die : /\ d.cu = cu.name /\ d.name = f.name
                        /\ q.dies = Append(p.dies, d)
      /\ q.unsafe = p.unsafe /\ SymbolsKept(p, q) /\ (p.died => q.died)
  BY FunctionWritten
<1> HIDE DEF q
<1>2. PICK d \in Die : d.cu = cu.name /\ d.name = f.name /\ q.dies = Append(p.dies, d)
  BY <1>1
<1>3. p.dies \in Seq(Die) /\ p.syms \in Seq(PatchSymbol) /\ q.syms \in Seq(PatchSymbol)
  BY <1>1, PatchFields
<1>4. /\ Grows(p, q)
      /\ \E i \in DOMAIN q.dies : q.dies[i] = d
      /\ \A i \in DOMAIN q.dies : q.dies[i] = d \/ (i \in DOMAIN p.dies /\ q.dies[i] = p.dies[i])
  <2>1. \A i \in DOMAIN p.dies : i \in DOMAIN q.dies /\ q.dies[i] = p.dies[i]
    BY <1>2, <1>3
  <2>2. Len(q.dies) \in DOMAIN q.dies /\ q.dies[Len(q.dies)] = d
    BY <1>2, <1>3
  <2>3. \A i \in DOMAIN q.dies : q.dies[i] = d \/ (i \in DOMAIN p.dies /\ q.dies[i] = p.dies[i])
    BY <1>2, <1>3
  <2>4. Grows(p, q)
    BY <1>1, <2>1, Zenon DEF Grows
  <2> QED
    BY <2>2, <2>3, <2>4, Zenon
<1>5. InPatch(q, cu, f.name)
  BY <1>2, <1>4, Zenon DEF InPatch, Range
<1>6. \A x \in Range(q.dies) : x \in Range(p.dies) \/ (x.cu = cu.name /\ x.name = f.name)
  BY <1>2, <1>4, Zenon DEF Range
<1>7. SymbolsThere(p) => SymbolsThere(q)
  BY <1>1, <1>3 DEF SymbolsThere, SymbolsKept
<1> QED
  BY <1>1, <1>4, <1>5, <1>6, <1>7 DEF q

LEMMA UnsafeGrows ==
  ASSUME NEW p \in Patch, NEW e, IsObject(e), AreSymbols(trees.binary.syms), NEW f \in Subprogram
  PROVE  LET q == addUnsafeSubprogram(p, e, f)
         IN  /\ q \in Patch /\ q.dies = p.dies /\ Grows(p, q) /\ (p.died => q.died)
             /\ ~q.died => NotOnStack(q, f.name) /\ (SymbolsThere(p) => SymbolsThere(q))
<1> DEFINE q == addUnsafeSubprogram(p, e, f)
<1>1. /\ q \in Patch /\ q.dies = p.dies /\ SymbolsKept(p, q) /\ (p.died => q.died)
      /\ \E s \in Nat : /\ q.unsafe = Append(p.unsafe, s)
                        /\ ~q.died => s \in DOMAIN q.syms /\ q.syms[s].name = f.name
  BY UnsafeAdded
<1> HIDE DEF q
<1>2. PICK s \in Nat : /\ q.unsafe = Append(p.unsafe, s)
                       /\ ~q.died => s \in DOMAIN q.syms /\ q.syms[s].name = f.name
  BY <1>1
<1>3. p.unsafe \in Seq(Nat) /\ p.syms \in Seq(PatchSymbol) /\ q.syms \in Seq(PatchSymbol)
  BY <1>1, PatchFields
<1>4. /\ Grows(p, q)
      /\ \E i \in DOMAIN q.unsafe : q.unsafe[i] = s
      /\ \A i \in DOMAIN q.unsafe : q.unsafe[i] = s \/ (i \in DOMAIN p.unsafe /\ q.unsafe[i] = p.unsafe[i])
  <2>1. \A i \in DOMAIN p.unsafe : i \in DOMAIN q.unsafe /\ q.unsafe[i] = p.unsafe[i]
    BY <1>2, <1>3
  <2>2. Len(q.unsafe) \in DOMAIN q.unsafe /\ q.unsafe[Len(q.unsafe)] = s
    BY <1>2, <1>3
  <2>3. \A i \in DOMAIN q.unsafe : q.unsafe[i] = s \/ (i \in DOMAIN p.unsafe /\ q.unsafe[i] = p.unsafe[i])
    BY <1>2, <1>3
  <2>4. Grows(p, q)
    BY <1>1, <2>1, Zenon DEF Grows
  <2> QED
    BY <2>2, <2>3, <2>4, Zenon
<1>5. ~q.died => NotOnStack(q, f.name)
  BY <1>2, <1>4, Zenon DEF NotOnStack, Range
<1>6. ASSUME ~q.died, SymbolsThere(p)
      PROVE  SymbolsThere(q)
  <2>1. \A i \in DOMAIN p.syms : i \in DOMAIN q.syms
    BY <1>1, <1>3 DEF SymbolsKept
  <2> QED
    BY <1>2, <1>4, <1>6, <2>1, Zenon DEF SymbolsThere
<1> QED
  BY <1>1, <1>4, <1>5, <1>6 DEF q

-----------------------------------------------------------------------------
(* Steps.                                                                  *)

\* What is known where two versions of an object are being compared.
LEMMA InComparison ==
  ASSUME IInv, CodeInv, pc \in Comparing
  PROVE  LET e1 == OldOf(trees, objects, at)
             e2 == NewOf(trees, objects, at)
         IN  /\ at \in DOMAIN objects /\ objects[at].state = "modified"
             /\ e1 = OldElf /\ e2 = NewElf
             /\ e1.dwarf /\ e2.dwarf
             /\ IsObject(e1) /\ CusFit(e1) /\ IsObject(e2) /\ CusFit(e2)
             /\ AreSymbols(trees.binary.syms)
             /\ InObject(e1, e2, patch, unit, left, pc)
             /\ patch \in Patch /\ SymbolsThere(patch) /\ ~patch.died /\ unit \in Nat \ {0}
<1>1. at \in DOMAIN objects /\ objects[at].state = "modified"
  BY DEF IInv, Phases, Comparing
<1>2. OldOf(trees, objects, at) = OldElf /\ NewOf(trees, objects, at) = NewElf
  BY Zenon DEF OldOf, NewOf, OldElf, NewElf, Object
<1>3. /\ Progress(trees, objects, patch, at, unit, left, pc)
      /\ ModifiedAreCommon /\ \E n \in Cases : trees = Version(n)
  BY Zenon DEF CodeInv
<1>4. /\ InObject(OldOf(trees, objects, at), NewOf(trees, objects, at), patch, unit, left, pc)
      /\ patch \in Patch /\ unit \in Nat \ {0} /\ (patch.died => pc = "dead")
      /\ (pc # "dead" => SymbolsThere(patch))
  BY <1>3, Zenon DEF Progress
<1>5. pc # "dead"
  BY DEF Comparing
<1>6. OldOf(trees, objects, at).dwarf /\ NewOf(trees, objects, at).dwarf
  BY <1>4, Zenon DEF InObject
<1> QED
  BY <1>1, <1>2, <1>3, <1>4, <1>5, <1>6, ObjectKnown, Zenon

\* A function is written, or it is not, and the comparison goes on.
LEMMA ProgressOn ==
  ASSUME NEW T, NEW O, NEW p, NEW a \in DOMAIN O, NEW u, NEW l, NEW c \in Comparing,
         Progress(T, O, p, a, u, l, c), O[a].state = "modified",
         NEW q \in Patch, NEW m, NEW d,
         d = (IF q.died THEN "dead" ELSE c),
         ~q.died => Grows(p, q) /\ SymbolsThere(q),
         \A x \in Range(q.dies) : x \in Range(p.dies) \/ Origin(x, OldOf(T, O, a), NewOf(T, O, a)),
         ~q.died => InObject(OldOf(T, O, a), NewOf(T, O, a), q, u, m, c)
  PROVE  Progress(T, O, q, a, u, m, d)
<1>1. /\ p \in Patch /\ u \in Nat \ {0} /\ Origins(T, O, p)
      /\ c # "dead" /\ c # "trees" /\ SymbolsThere(p)
      /\ \A n \in DOMAIN O : n < a => ObjectJudged(p, OldOf(T, O, n), NewOf(T, O, n))
      /\ InObject(OldOf(T, O, a), NewOf(T, O, a), p, u, l, c)
  <2>1. c # "dead" /\ c # "trees"
    BY DEF Comparing
  <2> QED
    BY <2>1, Zenon DEF Progress
<1>2. OldOf(T, O, a).dwarf /\ NewOf(T, O, a).dwarf
  BY <1>1, Zenon DEF InObject
<1>3. Origins(T, O, q)
  BY <1>1, <1>2, Zenon DEF Origins
<1>4. CASE q.died
  <2>1. d = "dead" /\ d \notin Comparing /\ d # "trees"
    BY <1>4 DEF Comparing
  <2> QED
    BY <1>1, <1>3, <2>1, Zenon DEF Progress
<1>5. CASE ~q.died
  <2>1. d = c /\ d # "dead" /\ d # "trees"
    BY <1>1, <1>5
  <2>2. \A n \in DOMAIN O : n < a => ObjectJudged(q, OldOf(T, O, n), NewOf(T, O, n))
    BY <1>1, <1>5, JudgedStays, Zenon
  <2> QED
    BY <1>1, <1>3, <1>5, <2>1, <2>2, Zenon DEF Progress
<1> QED
  BY <1>4, <1>5

\* writeNewFuncsForCU and writeFuncTransformationInfoForCU, as the patch grows.
LEMMA InObjectStays ==
  ASSUME NEW p \in Patch, NEW q, SymbolsThere(p), Grows(p, q),
         NEW e1, NEW e2, NEW u, NEW l, NEW c, InObject(e1, e2, p, u, l, c)
  PROVE  InObject(e1, e2, q, u, l, c)
<1>1. /\ e1.dwarf /\ e2.dwarf
      /\ \A v \in 1..(u - 1) : NewUnits(e1, e2, v) # {} /\ JudgedUnit(p, e1, e2, v)
      /\ c # "units" => u \in DOMAIN e1.cus /\ NewUnits(e1, e2, u) # {}
      /\ c = "new functions" => l \subseteq Names(UnitOf(e1, e2, u)) \ Names(e1.cus[u])
      /\ c = "functions" =>
           l \subseteq Names(e1.cus[u]) /\ \A fn \in Names(e1.cus[u]) \ l : Judged(p, e1, e2, u, fn)
  BY Zenon DEF InObject
<1>2. \A v \in 1..(u - 1) : NewUnits(e1, e2, v) # {} /\ JudgedUnit(q, e1, e2, v)
  BY <1>1, JudgedStays, Zenon
<1>3. c = "functions" =>
        l \subseteq Names(e1.cus[u]) /\ \A fn \in Names(e1.cus[u]) \ l : Judged(q, e1, e2, u, fn)
  BY <1>1, JudgedStays, Zenon
<1> QED
  BY <1>1, <1>2, <1>3, Zenon DEF InObject

LEMMA KeepNewFunction ==
  ASSUME IInv, CodeInv, NewFunction
  PROVE  Progress(trees, objects, patch', at, unit, left', pc')
<1> DEFINE e1 == OldOf(trees, objects, at)
           e2 == NewOf(trees, objects, at)
           cu == UnitOf(e1, e2, unit)
<1>1. PICK fn \in left :
        /\ patch' = writeFuncToPatchText(patch, NewElf, Func(cuNew, fn), cuNew, TRUE)
        /\ left' = left \ {fn}
  BY Zenon DEF NewFunction
<1>2. pc = "new functions" /\ pc' = (IF patch'.died THEN "dead" ELSE pc) /\ pc \in Comparing
  BY DEF NewFunction, Here, GoOn, Comparing
<1>3. /\ at \in DOMAIN objects /\ objects[at].state = "modified"
      /\ e1 = OldElf /\ e2 = NewElf
      /\ IsObject(e1) /\ CusFit(e1) /\ IsObject(e2) /\ CusFit(e2) /\ AreSymbols(trees.binary.syms)
      /\ InObject(e1, e2, patch, unit, left, pc)
      /\ patch \in Patch /\ SymbolsThere(patch)
  BY <1>2, InComparison, Zenon
<1>4. cu = cuNew
  BY <1>3, Zenon DEF UnitOf, cuNew
<1> HIDE DEF e1, e2
<1>5. /\ unit \in DOMAIN e1.cus /\ NewUnits(e1, e2, unit) # {}
      /\ left \subseteq Names(cu) \ Names(e1.cus[unit])
  <2>1. pc # "units"
    BY <1>2
  <2> QED
    BY <1>2, <1>3, <2>1, Zenon DEF InObject
<1>6. /\ cu.name \in STRING
      /\ Func(cu, fn) \in Subprogram /\ IsFunction(e2, Func(cu, fn)) /\ Func(cu, fn).name = fn
  <2> DEFINE v == FirstIn(NewUnits(e1, e2, unit))
  <2>1. v \in DOMAIN e2.cus /\ cu = e2.cus[v]
    BY <1>3, <1>5, UnitFound, Zenon
  <2>2. fn \in Names(cu)
    BY <1>5
  <2> HIDE DEF v, cu
  <2>3. fn \in Names(e2.cus[v])
    BY <2>1, <2>2
  <2> QED
    BY <1>3, <2>1, <2>3, UnitFits, Zenon
<1> DEFINE q == writeFuncToPatchText(patch, e2, Func(cu, fn), cu, TRUE)
<1>7. patch' = q
  BY <1>1, <1>3, <1>4, Zenon
<1>8. /\ q \in Patch /\ Grows(patch, q) /\ SymbolsThere(q)
      /\ \A d \in Range(q.dies) : d \in Range(patch.dies) \/ (d.cu = cu.name /\ d.name = fn)
  <2> DEFINE g == Func(cu, fn)
  <2>1. g \in Subprogram /\ IsFunction(e2, g) /\ g.name = fn /\ cu.name \in STRING
        /\ q = writeFuncToPatchText(patch, e2, g, cu, TRUE)
    BY <1>6
  <2> HIDE DEF cu, g, q
  <2> DEFINE yes == TRUE
             w == writeFuncToPatchText(patch, e2, g, cu, yes)
  <2>2. yes \in BOOLEAN /\ q = w
    BY <2>1
  <2> HIDE DEF yes
  <2>3. /\ w \in Patch /\ Grows(patch, w) /\ (SymbolsThere(patch) => SymbolsThere(w))
        /\ \A d \in Range(w.dies) : d \in Range(patch.dies) \/ (d.cu = cu.name /\ d.name = g.name)
    BY <1>3, <2>1, <2>2, WrittenGrows
  <2> HIDE DEF w
  <2> QED
    BY <1>3, <2>1, <2>2, <2>3
<1> HIDE DEF q
<1>9. \A d : d.cu = cu.name /\ d.name = fn => Origin(d, e1, e2)
  <2>1. fn \in Names(cu) /\ fn \notin Names(e1.cus[unit])
    BY <1>5
  <2> QED
    BY <1>5, <2>1, Zenon DEF Origin
<1>10. InObject(e1, e2, q, unit, left', pc)
  <2>1. InObject(e1, e2, q, unit, left, pc)
    BY <1>3, <1>8, InObjectStays, Zenon
  <2>2. left' \subseteq Names(cu) \ Names(e1.cus[unit])
    BY <1>1, <1>5
  <2>3. pc # "functions"
    BY <1>2
  <2> QED
    BY <2>1, <2>2, <2>3, Zenon DEF InObject
<1>11. Progress(trees, objects, patch, at, unit, left, pc)
  BY Zenon DEF CodeInv
<1>12. \A d \in Range(q.dies) : d \in Range(patch.dies) \/ Origin(d, e1, e2)
  BY <1>8, <1>9, Zenon
<1> HIDE DEF cu
<1>13. /\ pc' = (IF q.died THEN "dead" ELSE pc)
       /\ ~q.died => Grows(patch, q) /\ SymbolsThere(q)
  BY <1>2, <1>7, <1>8, Zenon
<1>14. Progress(trees, objects, q, at, unit, left', pc')
  BY <1>2, <1>3, <1>8, <1>10, <1>11, <1>12, <1>13, ProgressOn, Zenon DEF e1, e2
<1> QED
  BY <1>7, <1>14, Zenon

\* What comparing a function does to the patch.
Compares(p, q, e1, e2, u, fn) ==
  /\ q \in Patch
  /\ ~q.died => Grows(p, q) /\ SymbolsThere(q) /\ Judged(q, e1, e2, u, fn)
  /\ \A d \in Range(q.dies) : d \in Range(p.dies) \/ Origin(d, e1, e2)

LEMMA OneIsCompared ==
  ASSUME NEW e1, NEW e2, IsObject(e2), CusFit(e2), AreSymbols(trees.binary.syms),
         e1 = OldElf, e2 = NewElf, patch \in Patch, SymbolsThere(patch),
         unit \in DOMAIN e1.cus, NewUnits(e1, e2, unit) # {}, NEW fn \in Names(e1.cus[unit])
  PROVE  Compares(patch, Compared(fn), e1, e2, unit, fn)
<1> DEFINE cu == UnitOf(e1, e2, unit)
           f == Func(e1.cus[unit], fn)
           g == Func(cu, fn)
           q == Compared(fn)
<1>1. cu = cuNew /\ cuOld = e1.cus[unit]
  BY Zenon DEF UnitOf, cuNew, cuOld
<1> HIDE DEF cu
<1>2. CASE fn \notin Names(cu)
  <2>1. q = patch
    BY <1>1, <1>2, Zenon DEF Compared
  <2>2. Judged(patch, e1, e2, unit, fn)
    BY <1>2, Zenon DEF Judged, cu
  <2> HIDE DEF q
  <2> QED
    BY <2>1, <2>2, GrowsByNothing, Zenon DEF Compares, q
<1>3. CASE fn \in Names(cu)
  <2>1. cu.name \in STRING /\ g \in Subprogram /\ IsFunction(e2, g) /\ g.name = fn
    <3> DEFINE v == FirstIn(NewUnits(e1, e2, unit))
    <3>1. v \in DOMAIN e2.cus /\ UnitOf(e1, e2, unit) = e2.cus[v]
      BY UnitFound, Zenon
    <3>2. cu = e2.cus[v]
      BY <3>1 DEF cu
    <3> HIDE DEF v
    <3>3. fn \in Names(e2.cus[v])
      BY <1>3, <3>2
    <3> QED
      BY <3>1, <3>2, <3>3, UnitFits, Zenon
  <2>2. Same(e1, e2, unit, fn) <=> areSubprogramsIdentical(OldElf, Func(cuOld, fn), NewElf, Func(cuNew, fn))
    BY <1>1, Zenon DEF Same, cu
  <2>3. CASE ~Same(e1, e2, unit, fn)
    <3> DEFINE no == FALSE
               w == writeFuncToPatchText(patch, e2, g, cu, no)
               a == addUnsafeSubprogram(w, e2, g)
    <3>1. no \in BOOLEAN /\ q = a
      BY <1>1, <1>3, <2>2, <2>3, Zenon DEF Compared
    <3> HIDE DEF g, no
    <3>2. /\ w \in Patch /\ Grows(patch, w) /\ (SymbolsThere(patch) => SymbolsThere(w))
          /\ InPatch(w, cu, g.name)
          /\ \A d \in Range(w.dies) : d \in Range(patch.dies) \/ (d.cu = cu.name /\ d.name = g.name)
      BY <2>1, <3>1, WrittenGrows
    <3> HIDE DEF w
    <3>3. /\ a \in Patch /\ a.dies = w.dies /\ Grows(w, a)
          /\ ~a.died => NotOnStack(a, g.name) /\ (SymbolsThere(w) => SymbolsThere(a))
      BY <2>1, <3>2, UnsafeGrows
    <3> HIDE DEF a
    <3>4. Grows(patch, a)
      BY <3>2, <3>3, GrowsTrans
    <3>5. InPatch(a, cu, fn)
      BY <2>1, <3>2, <3>3, Zenon DEF InPatch
    <3>6. ~a.died => Judged(a, e1, e2, unit, fn)
      BY <2>1, <3>3, <3>5, Zenon DEF Judged, cu
    <3>7. ASSUME NEW d \in Range(a.dies)
          PROVE  d \in Range(patch.dies) \/ Origin(d, e1, e2)
      <4>1. d \in Range(patch.dies) \/ (d.cu = cu.name /\ d.name = fn)
        BY <2>1, <3>2, <3>3
      <4>2. d.cu = cu.name /\ d.name = fn => Origin(d, e1, e2)
        BY <1>3, <2>3, Zenon DEF Origin, cu
      <4> QED
        BY <4>1, <4>2
    <3> HIDE DEF q
    <3>8. Compares(patch, a, e1, e2, unit, fn)
      BY <3>2, <3>3, <3>4, <3>6, <3>7, Zenon DEF Compares
    <3> QED
      BY <3>1, <3>8, Zenon DEF q
  <2>4. CASE Same(e1, e2, unit, fn) /\ f.variadic
    <3> DEFINE a == addUnsafeSubprogram(patch, e2, g)
    <3>1. q = a
      BY <1>1, <1>3, <2>2, <2>4, Zenon DEF Compared
    <3> HIDE DEF g
    <3>2. /\ a \in Patch /\ a.dies = patch.dies /\ Grows(patch, a)
          /\ ~a.died => NotOnStack(a, g.name) /\ (SymbolsThere(patch) => SymbolsThere(a))
      BY <2>1, UnsafeGrows
    <3> HIDE DEF a, f
    <3>3. ~a.died => Judged(a, e1, e2, unit, fn)
      BY <2>1, <2>4, <3>2, Zenon DEF Judged
    <3>4. Compares(patch, a, e1, e2, unit, fn)
      BY <3>2, <3>3, Zenon DEF Compares
    <3> HIDE DEF q
    <3> QED
      BY <3>1, <3>4, Zenon DEF q
  <2>5. CASE Same(e1, e2, unit, fn) /\ ~f.variadic
    <3>1. q = patch
      BY <1>1, <1>3, <2>2, <2>5, Zenon DEF Compared
    <3>2. Judged(patch, e1, e2, unit, fn)
      BY <2>5, Zenon DEF Judged
    <3> HIDE DEF q
    <3> QED
      BY <3>1, <3>2, GrowsByNothing, Zenon DEF Compares, q
  <2> QED
    BY <2>3, <2>4, <2>5, Zenon
<1> QED
  BY <1>2, <1>3, Zenon

LEMMA KeepCompareFunction ==
  ASSUME IInv, CodeInv, CompareFunction
  PROVE  Progress(trees, objects, patch', at, unit, left', pc')
<1> DEFINE e1 == OldOf(trees, objects, at)
           e2 == NewOf(trees, objects, at)
<1>1. PICK fn \in left : patch' = Compared(fn) /\ left' = left \ {fn}
  BY Zenon DEF CompareFunction
<1>2. pc = "functions" /\ pc' = (IF patch'.died THEN "dead" ELSE pc) /\ pc \in Comparing
  BY DEF CompareFunction, Here, GoOn, Comparing
<1>3. /\ at \in DOMAIN objects /\ objects[at].state = "modified"
      /\ e1 = OldElf /\ e2 = NewElf
      /\ IsObject(e2) /\ CusFit(e2) /\ AreSymbols(trees.binary.syms)
      /\ InObject(e1, e2, patch, unit, left, pc)
      /\ patch \in Patch /\ SymbolsThere(patch)
  BY <1>2, InComparison, Zenon
<1> HIDE DEF e1, e2
<1>4. /\ unit \in DOMAIN e1.cus /\ NewUnits(e1, e2, unit) # {}
      /\ left \subseteq Names(e1.cus[unit])
      /\ \A n \in Names(e1.cus[unit]) \ left : Judged(patch, e1, e2, unit, n)
  <2>1. pc # "units"
    BY <1>2
  <2> QED
    BY <1>2, <1>3, <2>1, Zenon DEF InObject
<1> DEFINE q == patch'
<1>5. Compares(patch, q, e1, e2, unit, fn)
  <2>1. fn \in Names(e1.cus[unit])
    BY <1>4
  <2> QED
    BY <1>1, <1>3, <1>4, <2>1, OneIsCompared
<1> HIDE DEF q
<1>6. /\ q \in Patch
      /\ ~q.died => Grows(patch, q) /\ SymbolsThere(q) /\ Judged(q, e1, e2, unit, fn)
      /\ \A d \in Range(q.dies) : d \in Range(patch.dies) \/ Origin(d, e1, e2)
  BY <1>5, Zenon DEF Compares
<1>7. ASSUME ~q.died
      PROVE  InObject(e1, e2, q, unit, left', pc)
  <2>1. InObject(e1, e2, q, unit, left, pc)
    BY <1>3, <1>6, <1>7, InObjectStays, Zenon
  <2>2. pc # "new functions"
    BY <1>2
  <2>3. left' \subseteq Names(e1.cus[unit])
        /\ \A n \in Names(e1.cus[unit]) \ left' : n = fn \/ n \in Names(e1.cus[unit]) \ left
    BY <1>1, <1>4
  <2>4. \A n \in Names(e1.cus[unit]) \ left' : Judged(q, e1, e2, unit, n)
    BY <1>2, <1>6, <1>7, <2>1, <2>3, Zenon DEF InObject
  <2> QED
    BY <2>1, <2>2, <2>3, <2>4, Zenon DEF InObject
<1>8. Progress(trees, objects, patch, at, unit, left, pc)
  BY Zenon DEF CodeInv
<1>9. pc' = (IF q.died THEN "dead" ELSE pc)
  BY <1>2, Zenon DEF q
<1>10. Progress(trees, objects, q, at, unit, left', pc')
  BY <1>2, <1>3, <1>6, <1>7, <1>8, <1>9, ProgressOn, Zenon DEF e1, e2
<1> QED
  BY <1>10, Zenon DEF q

\* A file of both trees is what is noted as modified.
LEMMA CommonIsNoted ==
  ASSUME TreeInv, SameObject
  PROVE  Inside(orig) \in Common
<1> DEFINE q == Inside(orig)
<1>1. BothLeft /\ orig = mod /\ ~OrigIsDir /\ ~ModIsDir
  BY Zenon DEF SameObject
<1>2. walk # <<>> /\ WalkFits(walk) /\ IsTree(trees.old) /\ IsTree(trees.new)
      /\ call.path \in Path /\ orig \in call.orig /\ mod \in call.mod /\ orig \in Nat
  BY <1>1, Next2
<1>3. trees.old[q].kind # "dir" /\ trees.new[q].kind # "dir" /\ q = Append(call.path, orig)
  BY <1>1 DEF OrigIsDir, ModIsDir, IsDir, Inside
<1>4. orig \in ScanDir(trees.old, call.path) /\ orig \in ScanDir(trees.new, call.path)
  BY <1>1, <1>2, Top DEF CallFits
<1> HIDE DEF q
<1>5. q \in DOMAIN trees.old /\ trees.old[q].kind = "obj"
      /\ q \in DOMAIN trees.new /\ trees.new[q].kind = "obj"
  BY <1>2, <1>3, <1>4, Scanned
<1> QED
  BY <1>5 DEF Common, ObjectPaths, q

LEMMA KeepModifiedAreCommon ==
  ASSUME TreeInv, ModifiedAreCommon, TreeNext
  PROVE  ModifiedAreCommon'
<1>1. objects \in Seq(ObjectType) /\ trees' = trees /\ Common' = Common
  <2>1. trees' = trees
    BY DEF TreeNext, SameDirectory, SameObject, Removed, Added, EndDirectory
  <2> QED
    BY <2>1 DEF TreeInv, Common, ObjectPaths
<1>2. CASE SameDirectory \/ Removed
  <2>1. objects' = objects
    BY <1>2 DEF SameDirectory, Removed
  <2> QED
    BY <1>1, <2>1 DEF ModifiedAreCommon
<1>3. CASE SameObject
  <2> DEFINE o == [state |-> "modified", path |-> Inside(orig)]
  <2>1. o.path \in Common /\ objects' = Append(objects, o)
    BY <1>3, CommonIsNoted, Zenon DEF SameObject, elfcmp
  <2> HIDE DEF o
  <2>2. \A i \in DOMAIN objects' : objects'[i] = o \/ (i \in DOMAIN objects /\ objects'[i] = objects[i])
    BY <1>1, <2>1
  <2> QED
    BY <1>1, <2>1, <2>2, Zenon DEF ModifiedAreCommon
<1>4. CASE Added
  <2> DEFINE o == [state |-> "new", path |-> Inside(mod)]
  <2>1. objects' = objects \/ objects' = Append(objects, o)
    BY <1>4, Zenon DEF Added
  <2>2. o.state # "modified"
    OBVIOUS
  <2> HIDE DEF o
  <2>3. \A i \in DOMAIN objects' : objects'[i] = o \/ (i \in DOMAIN objects /\ objects'[i] = objects[i])
    BY <1>1, <2>1
  <2> QED
    BY <1>1, <2>2, <2>3, Zenon DEF ModifiedAreCommon
<1>5. CASE EndDirectory
  <2> DEFINE n == Cardinality(call.mod)
             o == [state |-> "new", path |-> call.path]
             new == [k \in 1..n |-> o]
  <2>1. objects' = objects \o new /\ o.state # "modified"
    BY <1>5 DEF EndDirectory
  <2>2. n \in Nat
    <3>1. walk # <<>> /\ WalkFits(walk) /\ IsTree(trees.new)
      BY <1>5 DEF EndDirectory, TreeInv
    <3>2. call \in CallType /\ CallFits(call)
      BY <3>1, Top
    <3>3. IsFiniteSet(ScanDir(trees.new, call.path)) /\ call.mod \subseteq ScanDir(trees.new, call.path)
      BY <3>1, <3>2, Scanned DEF CallType, CallFits
    <3> QED
      BY <3>3, FS_Subset, FS_CardinalityType
  <2> HIDE DEF n, o
  <2>3. new \in Seq({o}) /\ Len(new) = n
    <3>1. new \in [1..n -> {o}]
      OBVIOUS
    <3> HIDE DEF new
    <3>2. new \in Seq({o})
      BY <2>2, <3>1, SeqDef, Zenon
    <3> QED
      BY <2>2, <3>1, <3>2
  <2>4. \A k \in DOMAIN new : new[k] = o
    OBVIOUS
  <2> HIDE DEF new
  <2>5. \A i \in DOMAIN objects' : objects'[i] = o \/ (i \in DOMAIN objects /\ objects'[i] = objects[i])
    BY <1>1, <2>1, <2>3, <2>4
  <2> QED
    BY <1>1, <2>1, <2>5, Zenon DEF ModifiedAreCommon
<1> QED
  BY <1>2, <1>3, <1>4, <1>5 DEF TreeNext

-----------------------------------------------------------------------------
LEMMA EmptyPatchIsPatch ==
  /\ EmptyPatch \in Patch /\ EmptyPatch.dies = <<>> /\ ~EmptyPatch.died /\ SymbolsThere(EmptyPatch)
<1>1. SectionSymbol(<<"data", "new">>) \in PatchSymbol /\ SectionSymbol(<<"text", "new">>) \in PatchSymbol
      /\ SectionSymbol(<<"rodata", "new">>) \in PatchSymbol
  BY StringsInside DEF SectionSymbol, PatchSymbol
<1> DEFINE syms == <<SectionSymbol(<<"data", "new">>), SectionSymbol(<<"text", "new">>),
                     SectionSymbol(<<"rodata", "new">>)>>
<1>2. syms \in Seq(PatchSymbol)
  BY <1>1
<1> HIDE DEF syms
<1>3. EmptyPatch = [text |-> <<>>, rodata |-> <<>>, relas |-> <<>>, dies |-> <<>>, unsafe |-> <<>>,
                    syms |-> syms, rodataOffset |-> 0, died |-> FALSE]
  BY Zenon DEF EmptyPatch, syms
<1>4. \A S : <<>> \in Seq(S)
  BY EmptySeq
<1> QED
  BY <1>2, <1>3, <1>4 DEF Patch, SymbolsThere

LEMMA KeepStartObject ==
  ASSUME IInv, CodeInv, StartObject
  PROVE  Progress(trees, objects, patch', at, unit', left, pc')
<1> DEFINE e1 == OldOf(trees, objects, at)
           e2 == NewOf(trees, objects, at)
           q == writeROData(patch, e2)
<1>1. /\ at \in DOMAIN objects /\ objects[at].state = "modified" /\ e1.dwarf /\ e2.dwarf
      /\ patch' = q /\ unit' = 1 /\ pc = "objects" /\ pc' = "units"
  <2>1. e1 = OldElf /\ e2 = NewElf
    BY Zenon DEF OldOf, NewOf, OldElf, NewElf, Object
  <2>2. at \in DOMAIN objects
    <3>1. at \in Nat \ {0} /\ objects \in Seq(ObjectType)
      BY DEF IInv, TreeInv, Phases
    <3>2. at <= Len(objects)
      BY DEF StartObject
    <3> QED
      BY <3>1, <3>2
  <2> QED
    BY <2>1, <2>2, Zenon DEF StartObject, Here, Object
<1>2. /\ patch \in Patch /\ ~patch.died /\ SymbolsThere(patch) /\ Origins(trees, objects, patch)
      /\ \A m \in DOMAIN objects : m < at => ObjectJudged(patch, OldOf(trees, objects, m), NewOf(trees, objects, m))
      /\ ModifiedAreCommon /\ \E n \in Cases : trees = Version(n)
  <2>1. pc # "dead"
    BY <1>1
  <2> QED
    BY <2>1, Zenon DEF CodeInv, Progress
<1>3. IsObject(e2)
  BY <1>1, <1>2, ObjectKnown, Zenon
<1> HIDE DEF e1, e2
<1>4. q \in Patch /\ SameCode(patch, q) /\ q.syms = patch.syms /\ q.died = patch.died
  BY <1>2, <1>3, DataWritten
<1> HIDE DEF q
<1>5. q.dies = patch.dies /\ q.unsafe = patch.unsafe
  BY <1>4 DEF SameCode
<1>6. Grows(patch, q) /\ SymbolsThere(q)
  <2>1. Grows(patch, patch)
    BY <1>2, GrowsByNothing
  <2> QED
    BY <1>2, <1>4, <1>5, <2>1, Zenon DEF Grows, SymbolsKept, SymbolsThere
<1>7. \A m \in DOMAIN objects : m < at => ObjectJudged(q, OldOf(trees, objects, m), NewOf(trees, objects, m))
  BY <1>2, <1>6, JudgedStays, Zenon
<1>8. Origins(trees, objects, q)
  BY <1>2, <1>5, Zenon DEF Origins
<1>9. InObject(e1, e2, q, 1, left, "units")
  BY <1>1 DEF InObject
<1>10. /\ "units" # "dead" /\ "units" # "trees" /\ 1 \in Nat \ {0} /\ ~q.died
  BY <1>2, <1>4
<1>11. Progress(trees, objects, q, at, 1, left, "units")
  BY <1>4, <1>6, <1>7, <1>8, <1>9, <1>10, Zenon DEF Progress, e1, e2
<1> QED
  BY <1>1, <1>11, Zenon

\* An object without DWARF data has no units.
LEMMA KeepSkipObject ==
  ASSUME IInv, CodeInv, SkipObject
  PROVE  Progress(trees, objects, patch, at', unit, left, pc)
<1>1. /\ at' = at + 1 /\ pc = "objects" /\ ~OldElf.dwarf /\ at \in Nat
      /\ OldOf(trees, objects, at) = OldElf
  BY DEF SkipObject, Here, IInv, Phases, OldOf, OldElf, Object
<1>2. pc # "dead" /\ pc # "trees" /\ pc \notin Comparing
  BY <1>1 DEF Comparing
<1>3. /\ patch \in Patch /\ unit \in Nat \ {0} /\ (patch.died => pc = "dead")
      /\ Origins(trees, objects, patch) /\ SymbolsThere(patch)
      /\ \A m \in DOMAIN objects : m < at => ObjectJudged(patch, OldOf(trees, objects, m), NewOf(trees, objects, m))
  BY <1>2, Zenon DEF CodeInv, Progress
<1>4. ObjectJudged(patch, OldOf(trees, objects, at), NewOf(trees, objects, at))
  BY <1>1 DEF KeptUnits, ObjectJudged
<1>5. \A m \in DOMAIN objects : m < at' => m < at \/ m = at
  <2>1. objects \in Seq(ObjectType)
    BY DEF IInv, TreeInv
  <2> QED
    BY <1>1, <2>1
<1>6. \A m \in DOMAIN objects : m < at' => ObjectJudged(patch, OldOf(trees, objects, m), NewOf(trees, objects, m))
  BY <1>3, <1>4, <1>5, Zenon
<1> QED
  BY <1>2, <1>3, <1>6, Zenon DEF Progress

\* All the units that have a counterpart have been judged.
LEMMA KeepEndObject ==
  ASSUME IInv, CodeInv, EndObject
  PROVE  Progress(trees, objects, patch, at', unit, left, pc')
<1> DEFINE e1 == OldOf(trees, objects, at)
           e2 == NewOf(trees, objects, at)
<1>1. /\ at' = at + 1 /\ pc = "units" /\ pc' = "objects" /\ pc \in Comparing
      /\ at \in Nat /\ objects \in Seq(ObjectType)
      /\ unit <= Len(OldElf.cus) => NewUnits(OldElf, NewElf, unit) = {}
  BY DEF EndObject, Here, IInv, Phases, Comparing, TreeInv
<1>2. /\ e1 = OldElf /\ e2 = NewElf /\ CusFit(e1) /\ InObject(e1, e2, patch, unit, left, pc)
      /\ unit \in Nat \ {0}
  BY <1>1, InComparison, Zenon
<1>3. pc # "dead" /\ pc' # "dead" /\ pc' # "trees" /\ pc' \notin Comparing
  BY <1>1 DEF Comparing
<1>4. /\ patch \in Patch /\ (patch.died => pc = "dead")
      /\ Origins(trees, objects, patch) /\ SymbolsThere(patch)
      /\ \A m \in DOMAIN objects : m < at => ObjectJudged(patch, OldOf(trees, objects, m), NewOf(trees, objects, m))
  BY <1>3, Zenon DEF CodeInv, Progress
<1> HIDE DEF e1, e2
<1>5. ObjectJudged(patch, e1, e2)
  <2>1. \A v \in 1..(unit - 1) : JudgedUnit(patch, e1, e2, v)
    BY <1>2, Zenon DEF InObject
  <2>2. \A v \in KeptUnits(e1, e2) :
          v \in DOMAIN e1.cus /\ \A w \in 1..v : NewUnits(e1, e2, w) # {}
    BY DEF KeptUnits
  <2>3. DOMAIN e1.cus = 1..Len(e1.cus) /\ Len(e1.cus) \in Nat
    BY <1>2 DEF CusFit
  <2>4. ASSUME NEW v \in KeptUnits(e1, e2), v \notin 1..(unit - 1)
        PROVE  FALSE
    <3>1. v \in 1..Len(e1.cus) /\ unit \in 1..v
      BY <1>2, <2>2, <2>3, <2>4
    <3>2. unit <= Len(e1.cus)
      BY <1>2, <2>3, <3>1
    <3> QED
      BY <1>1, <1>2, <2>2, <3>1, <3>2
  <2>5. e2.dwarf
    BY <1>2, Zenon DEF InObject
  <2> QED
    BY <2>1, <2>4, <2>5, Zenon DEF ObjectJudged
<1>6. \A m \in DOMAIN objects : m < at' => m < at \/ m = at
  BY <1>1
<1>7. \A m \in DOMAIN objects : m < at' => ObjectJudged(patch, OldOf(trees, objects, m), NewOf(trees, objects, m))
  BY <1>4, <1>5, <1>6, Zenon DEF e1, e2
<1> QED
  BY <1>2, <1>3, <1>4, <1>7, Zenon DEF Progress

LEMMA KeepStartUnit ==
  ASSUME IInv, CodeInv, StartUnit
  PROVE  Progress(trees, objects, patch, at, unit, left', pc')
<1> DEFINE e1 == OldOf(trees, objects, at)
           e2 == NewOf(trees, objects, at)
<1>1. /\ pc = "units" /\ pc' = "new functions" /\ pc \in Comparing /\ pc' \in Comparing
      /\ unit <= Len(OldElf.cus) /\ NewUnits(OldElf, NewElf, unit) # {}
      /\ left' = Names(cuNew) \ Names(cuOld)
  BY DEF StartUnit, Here, Comparing
<1>2. /\ e1 = OldElf /\ e2 = NewElf /\ CusFit(e1) /\ InObject(e1, e2, patch, unit, left, pc)
      /\ unit \in Nat \ {0}
  BY <1>1, InComparison, Zenon
<1>3. cuNew = UnitOf(e1, e2, unit) /\ cuOld = e1.cus[unit]
  BY <1>2, Zenon DEF UnitOf, cuNew, cuOld
<1> HIDE DEF e1, e2
<1>4. unit \in DOMAIN e1.cus
  <2>1. DOMAIN e1.cus = 1..Len(e1.cus) /\ Len(e1.cus) \in Nat
    BY <1>2 DEF CusFit
  <2>2. unit <= Len(e1.cus)
    BY <1>1, <1>2, Zenon
  <2> QED
    BY <1>2, <2>1, <2>2
<1>5. InObject(e1, e2, patch, unit, left', pc')
  <2>1. pc' # "functions"
    BY <1>1
  <2>2. left' \subseteq Names(UnitOf(e1, e2, unit)) \ Names(e1.cus[unit])
    BY <1>1, <1>3
  <2> QED
    BY <1>1, <1>2, <1>4, <2>1, <2>2, Zenon DEF InObject
<1>6. pc # "dead" /\ pc' # "dead" /\ pc' # "trees"
  BY <1>1
<1> QED
  BY <1>5, <1>6, Zenon DEF CodeInv, Progress, e1, e2

LEMMA KeepNewFunctionsWritten ==
  ASSUME IInv, CodeInv, NewFunctionsWritten
  PROVE  Progress(trees, objects, patch, at, unit, left', pc')
<1> DEFINE e1 == OldOf(trees, objects, at)
           e2 == NewOf(trees, objects, at)
<1>1. /\ pc = "new functions" /\ pc' = "functions" /\ pc \in Comparing /\ pc' \in Comparing
      /\ left' = Names(cuOld)
  BY DEF NewFunctionsWritten, Here, Comparing
<1>2. /\ e1 = OldElf /\ InObject(e1, e2, patch, unit, left, pc)
  BY <1>1, InComparison, Zenon
<1>3. cuOld = e1.cus[unit]
  BY <1>2, Zenon DEF cuOld
<1> HIDE DEF e1, e2
<1>4. InObject(e1, e2, patch, unit, left', pc')
  <2>1. pc' # "new functions" /\ pc # "units" /\ left' \subseteq Names(e1.cus[unit])
        /\ Names(e1.cus[unit]) \ left' = {}
    BY <1>1, <1>3
  <2> QED
    BY <1>1, <1>2, <2>1, Zenon DEF InObject
<1>5. pc # "dead" /\ pc' # "dead" /\ pc' # "trees"
  BY <1>1
<1> QED
  BY <1>4, <1>5, Zenon DEF CodeInv, Progress, e1, e2

LEMMA KeepEndUnit ==
  ASSUME IInv, CodeInv, EndUnit
  PROVE  Progress(trees, objects, patch, at, unit', left, pc')
<1> DEFINE e1 == OldOf(trees, objects, at)
           e2 == NewOf(trees, objects, at)
<1>1. /\ pc = "functions" /\ pc' = "units" /\ pc \in Comparing /\ pc' \in Comparing
      /\ left = {} /\ unit' = unit + 1
  BY DEF EndUnit, Here, Comparing
<1>2. InObject(e1, e2, patch, unit, left, pc) /\ unit \in Nat \ {0}
  BY <1>1, InComparison, Zenon
<1> HIDE DEF e1, e2
<1>3. NewUnits(e1, e2, unit) # {} /\ JudgedUnit(patch, e1, e2, unit)
  <2>1. pc # "units" /\ \A S : S \ left = S
    BY <1>1
  <2> QED
    BY <1>1, <1>2, <2>1, Zenon DEF InObject, JudgedUnit
<1>4. \A v \in 1..(unit' - 1) : v \in 1..(unit - 1) \/ v = unit
  BY <1>1, <1>2
<1>5. \A v \in 1..(unit' - 1) : NewUnits(e1, e2, v) # {} /\ JudgedUnit(patch, e1, e2, v)
  BY <1>2, <1>3, <1>4, Zenon DEF InObject
<1>6. InObject(e1, e2, patch, unit', left, pc')
  <2>1. pc' # "new functions" /\ pc' # "functions"
    BY <1>1
  <2> QED
    BY <1>1, <1>2, <1>5, <2>1, Zenon DEF InObject
<1>7. pc # "dead" /\ pc' # "dead" /\ pc' # "trees" /\ unit' \in Nat \ {0}
  BY <1>1, <1>2
<1> QED
  BY <1>6, <1>7, Zenon DEF CodeInv, Progress, e1, e2

LEMMA CodeStarts == Init => CodeInv
<1> SUFFICES ASSUME Init
             PROVE  CodeInv
  OBVIOUS
<1>1. /\ \E n \in Cases : trees = Version(n)
      /\ objects = <<>> /\ patch = EmptyPatch /\ at = 1 /\ unit = 1 /\ left = {} /\ pc = "trees"
  BY Zenon DEF Init, TreeInit
<1>2. /\ patch \in Patch /\ patch.dies = <<>> /\ ~patch.died /\ SymbolsThere(patch)
      /\ DOMAIN objects = {} /\ Range(patch.dies) = {} /\ pc \notin Comparing /\ unit \in Nat \ {0}
  BY <1>1, EmptyPatchIsPatch DEF Range, Comparing
<1>3. ModifiedAreCommon
  BY <1>2 DEF ModifiedAreCommon
<1>4. Origins(trees, objects, patch)
  BY <1>2 DEF Origins
<1>5. Progress(trees, objects, patch, at, unit, left, pc)
  BY <1>2, <1>4 DEF Progress
<1> QED
  BY <1>1, <1>3, <1>5, Zenon DEF CodeInv

\* Where trees and objects stay, the rest of the invariant is about the patch.
LEMMA CodeStays ==
  ASSUME CodeInv, trees' = trees, objects' = objects,
         Progress(trees, objects, patch', at', unit', left', pc')
  PROVE  CodeInv'
<1>1. (\E n \in Cases : trees = Version(n)) /\ ModifiedAreCommon
  BY Zenon DEF CodeInv
<1>2. ModifiedAreCommon'
  BY <1>1 DEF ModifiedAreCommon, Common, ObjectPaths
<1>3. \E n \in Cases : trees' = Version(n)
  BY <1>1
<1>4. Progress(trees', objects', patch', at', unit', left', pc')
  BY Zenon
<1> QED
  BY <1>2, <1>3, <1>4, Zenon DEF CodeInv

\* Katana ends, or goes on where nothing of the patch is asked.
LEMMA ElsewhereNothing ==
  ASSUME CodeInv, pc # "dead", NEW c,
         c = "dead" \/ (c \notin Comparing /\ c # "trees")
  PROVE  Progress(trees, objects, patch, at, unit, left, c)
<1>1. Progress(trees, objects, patch, at, unit, left, pc) /\ "dead" \notin Comparing /\ "dead" # "trees"
  BY Zenon DEF CodeInv, Comparing
<1> QED
  BY <1>1, Zenon DEF Progress

LEMMA StepKeepsCodeInv ==
  ASSUME IInv, CodeInv, [Next]_vars
  PROVE  CodeInv'
<1>1. CASE WalkTrees
  <2>1. /\ pc = "trees" /\ pc' = pc /\ TreeNext
        /\ patch' = patch /\ at' = at /\ unit' = unit /\ left' = left /\ trees' = trees
    BY <1>1 DEF WalkTrees, TreeNext, SameDirectory, SameObject, Removed, Added, EndDirectory
  <2>2. at = 1 /\ objects' \in Seq(ObjectType) /\ TreeInv
    <3>1. TreeInv /\ at = 1
      BY <2>1 DEF IInv, Phases
    <3>2. TreeInv'
      BY <2>1, <3>1, WalkGoesOn
    <3> QED
      BY <3>1, <3>2 DEF TreeInv
  <2>3. ModifiedAreCommon'
    BY <2>1, <2>2, KeepModifiedAreCommon DEF CodeInv
  <2>4. /\ patch \in Patch /\ unit \in Nat \ {0} /\ ~patch.died /\ patch.dies = <<>>
        /\ SymbolsThere(patch) /\ \E n \in Cases : trees = Version(n)
    <3>1. pc # "dead"
      BY <2>1
    <3> QED
      BY <2>1, <3>1, Zenon DEF CodeInv, Progress
  <2>5. Origins(trees, objects', patch)
    BY <2>4 DEF Origins, Range
  <2>6. \A m \in DOMAIN objects' : ~(m < at)
    BY <2>2
  <2>7. pc \notin Comparing
    BY <2>1 DEF Comparing
  <2>8. Progress(trees, objects', patch, at, unit, left, pc)
    BY <2>4, <2>5, <2>6, <2>7, Zenon DEF Progress
  <2>9. Progress(trees', objects', patch', at', unit', left', pc')
    BY <2>1, <2>8, Zenon
  <2> QED
    BY <2>1, <2>3, <2>4, <2>9, Zenon DEF CodeInv
<1>2. CASE WalkDies \/ TreesWalked \/ RefuseObject \/ Finish
  <2>1. /\ UNCHANGED <<trees, objects, patch, at, unit, left>> /\ pc # "dead"
        /\ pc' = "dead" \/ (pc' \notin Comparing /\ pc' # "trees")
    BY <1>2 DEF WalkDies, TreesWalked, RefuseObject, Finish, Here, Comparing
  <2>2. Progress(trees, objects, patch, at, unit, left, pc')
    BY <2>1, ElsewhereNothing
  <2>3. Progress(trees, objects, patch', at', unit', left', pc')
    BY <2>1, <2>2
  <2> QED
    BY <2>1, <2>3, CodeStays
<1>3. CASE StartObject
  <2>1. trees' = trees /\ objects' = objects /\ at' = at /\ left' = left
    BY <1>3 DEF StartObject, Here
  <2> QED
    BY <1>3, <2>1, KeepStartObject, CodeStays
<1>4. CASE SkipObject
  <2>1. trees' = trees /\ objects' = objects /\ patch' = patch /\ unit' = unit /\ left' = left /\ pc' = pc
    BY <1>4 DEF SkipObject, Here
  <2> QED
    BY <1>4, <2>1, KeepSkipObject, CodeStays
<1>5. CASE StartUnit
  <2>1. trees' = trees /\ objects' = objects /\ patch' = patch /\ at' = at /\ unit' = unit
    BY <1>5 DEF StartUnit, Here
  <2> QED
    BY <1>5, <2>1, KeepStartUnit, CodeStays
<1>6. CASE EndObject
  <2>1. trees' = trees /\ objects' = objects /\ patch' = patch /\ unit' = unit /\ left' = left
    BY <1>6 DEF EndObject, Here
  <2> QED
    BY <1>6, <2>1, KeepEndObject, CodeStays
<1>7. CASE NewFunction
  <2>1. trees' = trees /\ objects' = objects /\ at' = at /\ unit' = unit
    BY <1>7 DEF NewFunction, Here
  <2> QED
    BY <1>7, <2>1, KeepNewFunction, CodeStays
<1>8. CASE NewFunctionsWritten
  <2>1. trees' = trees /\ objects' = objects /\ patch' = patch /\ at' = at /\ unit' = unit
    BY <1>8 DEF NewFunctionsWritten, Here
  <2> QED
    BY <1>8, <2>1, KeepNewFunctionsWritten, CodeStays
<1>9. CASE CompareFunction
  <2>1. trees' = trees /\ objects' = objects /\ at' = at /\ unit' = unit
    BY <1>9 DEF CompareFunction, Here
  <2> QED
    BY <1>9, <2>1, KeepCompareFunction, CodeStays
<1>10. CASE EndUnit
  <2>1. trees' = trees /\ objects' = objects /\ patch' = patch /\ at' = at /\ left' = left
    BY <1>10 DEF EndUnit, Here
  <2> QED
    BY <1>10, <2>1, KeepEndUnit, CodeStays
<1>11. CASE UNCHANGED vars
  <2>1. UNCHANGED <<trees, objects, patch, at, unit, left, pc>>
    BY <1>11 DEF vars
  <2>2. Progress(trees, objects, patch, at, unit, left, pc)
    BY Zenon DEF CodeInv
  <2>3. Progress(trees, objects, patch', at', unit', left', pc')
    BY <2>1, <2>2
  <2> QED
    BY <2>1, <2>3, CodeStays
<1> QED
  BY <1>1, <1>2, <1>3, <1>4, <1>5, <1>6, <1>7, <1>8, <1>9, <1>10, <1>11 DEF Next

(* The invariant of createPatch: what has been compared is judged, and     *)
(* what is in the patch is new or differs (writeNewFuncsForCU,             *)
(* writeFuncTransformationInfoForCU, addUnsafeSubprogram).                 *)
THEOREM CodeInvariance == Spec => []CodeInv
<1>1. Init => CodeInv
  BY CodeStarts
<1>2. IInv /\ CodeInv /\ [Next]_vars => CodeInv'
  BY StepKeepsCodeInv
<1> QED
  BY <1>1, <1>2, WalkInvariance, PTL DEF Spec

\* In the end a function of both versions is in the patch iff it differs:
\* units with the same name are one.
LEMMA InPatchIfNotSame ==
  ASSUME IInv, CodeInv, pc = "done", NEW m \in DOMAIN objects,
         NEW u \in KeptUnits(OldOf(trees, objects, m), NewOf(trees, objects, m))
  PROVE  LET e1 == OldOf(trees, objects, m)
             e2 == NewOf(trees, objects, m)
         IN  /\ objects[m].state = "modified" /\ e1.dwarf /\ e2.dwarf
             /\ u \in DOMAIN e1.cus /\ NewUnits(e1, e2, u) # {}
             /\ JudgedUnit(patch, e1, e2, u)
             /\ \A fn \in Names(e1.cus[u]) \cap Names(UnitOf(e1, e2, u)) :
                  InPatch(patch, UnitOf(e1, e2, u), fn) <=> ~Same(e1, e2, u, fn)
<1> DEFINE e1 == OldOf(trees, objects, m)
           e2 == NewOf(trees, objects, m)
           cu == UnitOf(e1, e2, u)
<1>1. /\ objects \in Seq(ObjectType) /\ at \in Nat /\ at > Len(objects)
      /\ \A i \in DOMAIN objects : i < at => objects[i].state = "modified"
  BY DEF IInv, TreeInv, Phases
<1>2. m < at /\ objects[m].state = "modified"
  BY <1>1
<1>3. /\ ObjectJudged(patch, e1, e2) /\ Origins(trees, objects, patch)
      /\ ModifiedAreCommon /\ \E n \in Cases : trees = Version(n)
  <2>1. pc # "dead"
    OBVIOUS
  <2> QED
    BY <1>2, <2>1, Zenon DEF CodeInv, Progress
<1>4. u \in DOMAIN e1.cus /\ e1.dwarf /\ \A v \in 1..u : NewUnits(e1, e2, v) # {}
  BY Zenon DEF KeptUnits
<1>5. e2.dwarf /\ JudgedUnit(patch, e1, e2, u)
  BY <1>3, <1>4, Zenon DEF ObjectJudged
<1>6. CusFit(e1) /\ CusFit(e2)
  BY <1>2, <1>3, <1>4, <1>5, ObjectKnown, Zenon
<1>7. NewUnits(e1, e2, u) # {}
  <2>1. DOMAIN e1.cus = 1..Len(e1.cus)
    BY <1>6 DEF CusFit
  <2>2. u \in 1..u
    BY <1>4, <2>1
  <2> QED
    BY <1>4, <2>2, Zenon
<1>8. ASSUME NEW fn \in Names(e1.cus[u]) \cap Names(cu), InPatch(patch, cu, fn)
      PROVE  ~Same(e1, e2, u, fn)
  <2>1. PICK d \in Range(patch.dies) : d.cu = cu.name /\ d.name = fn
    BY <1>8, Zenon DEF InPatch
  <2>2. PICK n \in DOMAIN objects :
          /\ objects[n].state = "modified" /\ OldOf(trees, objects, n).dwarf /\ NewOf(trees, objects, n).dwarf
          /\ Origin(d, OldOf(trees, objects, n), NewOf(trees, objects, n))
    BY <1>3, <2>1, Zenon DEF Origins
  <2> DEFINE o1 == OldOf(trees, objects, n)
             o2 == NewOf(trees, objects, n)
  <2>3. PICK w \in DOMAIN o1.cus :
          /\ NewUnits(o1, o2, w) # {} /\ d.cu = UnitOf(o1, o2, w).name
          /\ d.name \in Names(o1.cus[w]) => ~Same(o1, o2, w, d.name)
    BY <2>2, Zenon DEF Origin
  <2>4. CusFit(o2)
    BY <1>3, <2>2, ObjectKnown, Zenon
  <2>5. o1.cus[w].name = e1.cus[u].name
    <3>1. o1.cus[w].name = UnitOf(o1, o2, w).name
      BY <2>3, <2>4, UnitNamed
    <3>2. e1.cus[u].name = cu.name
      BY <1>6, <1>7, UnitNamed
    <3> QED
      BY <2>1, <2>3, <3>1, <3>2, Zenon
  <2>6. UnitsDistinct(trees.old)
    BY <1>3, ObjectsAssumption, Zenon
  <2>7. objects[n].path \in ObjectPaths(trees.old) /\ objects[m].path \in ObjectPaths(trees.old)
    BY <1>2, <1>3, <2>2 DEF ModifiedAreCommon, Common
  <2>8. objects[n].path = objects[m].path /\ w = u
    <3> DEFINE x == objects[n].path
               y == objects[m].path
    <3>1. o1 = trees.old[x].file /\ e1 = trees.old[y].file
      BY Zenon DEF OldOf
    <3>2. w \in DOMAIN trees.old[x].file.cus /\ u \in DOMAIN trees.old[y].file.cus
          /\ trees.old[x].file.cus[w].name = trees.old[y].file.cus[u].name
      BY <1>4, <2>3, <2>5, <3>1, Zenon
    <3> HIDE DEF x, y, o1
    <3>3. x \in ObjectPaths(trees.old) /\ y \in ObjectPaths(trees.old)
      BY <2>7 DEF x, y
    <3>4. x = y /\ w = u
      BY <2>6, <3>2, <3>3, Zenon DEF UnitsDistinct
    <3> QED
      BY <3>4, Zenon DEF x, y
  <2>9. o1 = e1 /\ o2 = e2
    BY <2>8, Zenon DEF OldOf, NewOf
  <2>10. fn \in Names(o1.cus[w])
    BY <1>8, <2>8, <2>9
  <2> QED
    BY <2>1, <2>3, <2>8, <2>9, <2>10, Zenon
<1>9. \A fn \in Names(e1.cus[u]) \cap Names(cu) : ~Same(e1, e2, u, fn) => InPatch(patch, cu, fn)
  <2> SUFFICES ASSUME NEW fn \in Names(e1.cus[u]) \cap Names(cu), ~Same(e1, e2, u, fn)
               PROVE  InPatch(patch, cu, fn)
    BY Zenon
  <2>1. fn \in Names(e1.cus[u]) /\ fn \in Names(cu)
    OBVIOUS
  <2> QED
    BY <1>5, <2>1, Zenon DEF JudgedUnit, Judged
<1> QED
  BY <1>2, <1>4, <1>5, <1>7, <1>8, <1>9, Zenon

(* What is compared is what the code is read from.                         *)
LEMMA ComparedAsMeant ==
  ASSUME IInv, CodeInv, pc = "done", NEW m \in DOMAIN objects,
         NEW u \in KeptUnits(OldOf(trees, objects, m), NewOf(trees, objects, m))
  PROVE  LET e1 == OldOf(trees, objects, m)
             e2 == NewOf(trees, objects, m)
             new == UnitOf(e1, e2, u)
         IN  \A fn \in Names(e1.cus[u]) \cap Names(new) :
               LET f == Func(e1.cus[u], fn)
                   g == Func(new, fn)
               IN  /\ AllExact(e1, f) /\ AllExact(e2, g) =>
                        /\ ChangedInSight(e1, f, e2, g) => InPatch(patch, new, fn)
                        /\ InPatch(patch, new, fn) => Meaning(e1, f) # Meaning(e2, g)
                   /\ InPatch(patch, new, fn) \/ f.variadic => NotOnStack(patch, fn)
<1> DEFINE e1 == OldOf(trees, objects, m)
           e2 == NewOf(trees, objects, m)
           new == UnitOf(e1, e2, u)
<1>1. /\ objects[m].state = "modified" /\ e1.dwarf /\ e2.dwarf
      /\ u \in DOMAIN e1.cus /\ NewUnits(e1, e2, u) # {}
      /\ JudgedUnit(patch, e1, e2, u)
      /\ \A fn \in Names(e1.cus[u]) \cap Names(new) :
           InPatch(patch, new, fn) <=> ~Same(e1, e2, u, fn)
  BY InPatchIfNotSame, Zenon
<1>2. IsObject(e1) /\ CusFit(e1) /\ IsObject(e2) /\ CusFit(e2) /\ Alike(e1, e2)
  <2>1. ModifiedAreCommon /\ \E n \in Cases : trees = Version(n)
    BY Zenon DEF CodeInv
  <2> QED
    BY <1>1, <2>1, ObjectKnown, Zenon
<1> HIDE DEF e1, e2
<1>3. ASSUME NEW fn \in Names(e1.cus[u]) \cap Names(new)
      PROVE  LET f == Func(e1.cus[u], fn)
                 g == Func(new, fn)
             IN  /\ AllExact(e1, f) /\ AllExact(e2, g) =>
                      /\ ChangedInSight(e1, f, e2, g) => InPatch(patch, new, fn)
                      /\ InPatch(patch, new, fn) => Meaning(e1, f) # Meaning(e2, g)
                 /\ InPatch(patch, new, fn) \/ f.variadic => NotOnStack(patch, fn)
  <2> DEFINE f == Func(e1.cus[u], fn)
             g == Func(new, fn)
             v == FirstIn(NewUnits(e1, e2, u))
  <2>1. fn \in Names(e1.cus[u]) /\ fn \in Names(new)
    OBVIOUS
  <2>2. v \in DOMAIN e2.cus /\ new = e2.cus[v]
    BY <1>1, <1>2, UnitFound, Zenon
  <2>3. f \in Subprogram /\ IsFunction(e1, f)
    BY <1>1, <1>2, <2>1, UnitFits, Zenon
  <2>4. g \in Subprogram /\ IsFunction(e2, g)
    <3> HIDE DEF v, new
    <3>1. fn \in Names(e2.cus[v])
      BY <2>1, <2>2
    <3> QED
      BY <1>2, <2>2, <3>1, UnitFits, Zenon
  <2>5. Same(e1, e2, u, fn) <=> areSubprogramsIdentical(e1, f, e2, g)
    BY Zenon DEF Same
  <2>6. InPatch(patch, new, fn) <=> ~Same(e1, e2, u, fn)
    BY <1>1, <2>1, Zenon
  <2>7. InPatch(patch, new, fn) \/ f.variadic => NotOnStack(patch, fn)
    BY <1>1, <2>1, <2>6, Zenon DEF JudgedUnit, Judged
  <2> HIDE DEF f, g, v, new
  <2>8. ASSUME AllExact(e1, f), AllExact(e2, g)
        PROVE  /\ ChangedInSight(e1, f, e2, g) => ~areSubprogramsIdentical(e1, f, e2, g)
               /\ ~areSubprogramsIdentical(e1, f, e2, g) => Meaning(e1, f) # Meaning(e2, g)
    <3>1. e1.rel = e2.rel
      BY <1>2 DEF Alike
    <3>2. Comparable(e1, f, e2, g)
      BY <1>2, <2>3, <2>4, <2>8, <3>1, Zenon DEF Comparable
    <3> QED
      BY <1>2, <2>3, <2>4, <3>2, ComparisonIsRight, Zenon
  <2>9. /\ AllExact(e1, f) /\ AllExact(e2, g) =>
             /\ ChangedInSight(e1, f, e2, g) => InPatch(patch, new, fn)
             /\ InPatch(patch, new, fn) => Meaning(e1, f) # Meaning(e2, g)
    BY <2>5, <2>6, <2>8, Zenon
  <2> QED
    BY <2>7, <2>9, Zenon DEF f, g
<1> QED
  BY <1>3, Zenon DEF e1, e2

(* When katana has gone through all of the objects, what differs is in the *)
(* patch, and nothing else that was there before; and what is replaced, or *)
(* has a variable list of parameters, is on the list of functions that may *)
(* not be on the stack (areSubprogramsIdentical,                           *)
(* writeFuncTransformationInfoForCU, addUnsafeSubprogram).                 *)
THEOREM DifferencesGetIn == Spec => []DifferencesArePatched
<1>1. ASSUME IInv, CodeInv, pc = "done", NEW o \in Range(objects)
      PROVE  LET e1 == trees.old[o.path].file
                 e2 == trees.new[o.path].file
             IN  \A u \in KeptUnits(e1, e2) :
                   LET old == e1.cus[u]
                       new == e2.cus[FirstIn(NewUnits(e1, e2, u))]
                   IN  \A fn \in Names(old) \cap Names(new) :
                         LET f == Func(old, fn)
                             g == Func(new, fn)
                         IN  /\ AllExact(e1, f) /\ AllExact(e2, g) =>
                                  /\ ChangedInSight(e1, f, e2, g) => InPatch(patch, new, fn)
                                  /\ InPatch(patch, new, fn) => Meaning(e1, f) # Meaning(e2, g)
                             /\ InPatch(patch, new, fn) \/ f.variadic => NotOnStack(patch, fn)
  <2>1. PICK m \in DOMAIN objects : objects[m] = o
    BY Zenon DEF Range
  <2>2. OldOf(trees, objects, m) = trees.old[o.path].file /\ NewOf(trees, objects, m) = trees.new[o.path].file
    BY <2>1, Zenon DEF OldOf, NewOf
  <2>3. \A u : UnitOf(trees.old[o.path].file, trees.new[o.path].file, u)
                 = trees.new[o.path].file.cus[FirstIn(NewUnits(trees.old[o.path].file, trees.new[o.path].file, u))]
    BY Zenon DEF UnitOf
  <2> QED
    BY <1>1, <2>2, <2>3, ComparedAsMeant, Zenon
<1>2. IInv /\ CodeInv => DifferencesArePatched
  BY <1>1, Zenon DEF DifferencesArePatched, KeptUnits, InPatch, NotOnStack
<1> QED
  BY <1>2, WalkInvariance, CodeInvariance, PTL

-----------------------------------------------------------------------------
(* What the relocations of the patch refer to.                             *)

Plain(scn) == Ordinary(scn) /\ "" \notin Range(scn)

\* Of a section the patch has the one symbol that SectionSymbol makes.
SymbolFits(t) ==
  /\ t.type = "SECTION" <=> t.name = ""
  /\ t.type = "SECTION" => t = SectionSymbol(t.scn) /\ Plain(t.scn)

SymbolsFit(p) == \A i \in DOMAIN p.syms : SymbolFits(p.syms[i])

LEMMA SectionSymbolFields ==
  ASSUME NEW scn
  PROVE  LET t == SectionSymbol(scn)
         IN  t.name = "" /\ t.bind = "LOCAL" /\ t.type = "SECTION" /\ t.scn = scn
BY DEF SectionSymbol

LEMMA SectionSymbolFits ==
  ASSUME NEW scn, Plain(scn)
  PROVE  SymbolFits(SectionSymbol(scn))
<1> DEFINE t == SectionSymbol(scn)
<1>1. t.name = "" /\ t.type = "SECTION" /\ t.scn = scn
  BY SectionSymbolFields
<1> HIDE DEF t
<1>2. t = SectionSymbol(t.scn)
  BY <1>1 DEF t
<1> QED
  BY <1>1, <1>2, Zenon DEF SymbolFits, t

LEMMA PatchSectionPlain ==
  ASSUME NEW scn, Plain(scn)
  PROVE  Plain(PatchSection(scn))
<1>1. Ordinary(<<"rodata", "new">>)
  BY DEF Ordinary, UNDEF, COMMON, ABS
<1>2. "" \notin Range(<<"rodata", "new">>)
  <2> DEFINE x == <<"rodata", "new">>
  <2>1. \A i \in DOMAIN x : x[i] = "rodata" \/ x[i] = "new"
    OBVIOUS
  <2> HIDE DEF x
  <2>2. \A i \in DOMAIN x : x[i] # ""
    BY <2>1
  <2> QED
    BY <2>2, Zenon DEF Range, x
<1> QED
  BY <1>1, <1>2 DEF Plain, PatchSection

LEMMA StrippedPlain ==
  ASSUME NEW scn \in Seq(Strings), Plain(scn)
  PROVE  Stripped(scn, "") = scn
<1>1. CASE Len(scn) > 1
  <2>1. Len(scn) \in DOMAIN scn /\ Last(scn) = scn[Len(scn)]
    BY <1>1 DEF Last
  <2>2. Last(scn) \in Range(scn)
    BY <2>1, Zenon DEF Range
  <2> QED
    BY <2>2, Zenon DEF Stripped, Plain
<1>2. CASE ~(Len(scn) > 1)
  BY <1>2, Zenon DEF Stripped
<1> QED
  BY <1>1, <1>2

\* The symbols of two sections are taken for one only if the sections have
\* one name.
LEMMA SectionsMatch ==
  ASSUME NEW s \in PatchSymbol, NEW t \in PatchSymbol, IsSymbol(s, t),
         s.name = "", Plain(s.scn), Plain(t.scn)
  PROVE  t.scn = s.scn
<1>1. s.scn \in Seq(Strings) /\ t.scn \in Seq(Strings)
  BY DEF PatchSymbol
<1>2. {s.scn, t.scn} \cap {UNDEF, COMMON} = {}
  BY DEF Plain, Ordinary
<1>3. Stripped(s.scn, "") = Stripped(t.scn, "")
  BY <1>2, Zenon DEF IsSymbol
<1> QED
  BY <1>1, <1>3, StrippedPlain, Zenon

LEMMA EntryFits ==
  ASSUME NEW p \in Patch, NEW sym \in PatchSymbol, SymbolFits(sym), SymbolsFit(p)
  PROVE  SymbolsFit(addSymtabEntry(p, sym))
<1> DEFINE q == addSymtabEntry(p, sym)
<1>1. q.syms = Append(p.syms, sym) /\ p.syms \in Seq(PatchSymbol)
  BY EntryAdded, PatchFields
<1> HIDE DEF q
<1>2. ASSUME NEW i \in DOMAIN q.syms
      PROVE  SymbolFits(q.syms[i])
  <2>1. (i \in DOMAIN p.syms /\ q.syms[i] = p.syms[i]) \/ q.syms[i] = sym
    BY <1>1, <1>2
  <2> QED
    BY <2>1, Zenon DEF SymbolsFit
<1> QED
  BY <1>2, Zenon DEF SymbolsFit, q

\* The symbol of the patch for a symbol of an object file.
StandsFor(s, t) ==
  IF s.type = "SECTION" THEN t = SectionSymbol(PatchSection(s.scn))
  ELSE t.name = s.name /\ t.bind = s.bind

LEMMA SymbolKnown ==
  ASSUME NEW syms, AreSymbols(syms), NEW i \in DOMAIN syms
  PROVE  LET s == syms[i]
         IN  /\ s \in PatchSymbol
             /\ s.type = "SECTION" <=> s.name = ""
             /\ s.type = "SECTION" => s.bind = "LOCAL" /\ Plain(s.scn)
<1>1. syms \in Seq(Symbol)
  BY Zenon DEF AreSymbols
<1>2. syms[i] \in Range(syms)
  BY Zenon DEF Range
<1>3. syms[i] \in Symbol
  BY <1>1, ElementOf, Zenon
<1>4. syms[i] \in PatchSymbol
  BY <1>3, StringsInside
<1> QED
  BY <1>2, <1>4, Zenon DEF AreSymbols, Plain

\* A symbol of an object file is found in the binary by what it is.
LEMMA BinarySymbol ==
  ASSUME NEW e, IsObject(e), AreSymbols(trees.binary.syms), NEW idx \in DOMAIN e.syms,
         findSymbol(trees.binary, e.syms[idx]) # NONE
  PROVE  LET s == e.syms[idx]
             x == trees.binary.syms[findSymbol(trees.binary, s)]
         IN  /\ x \in PatchSymbol
             /\ x.name = s.name /\ x.bind = s.bind
             /\ x.type = "SECTION" <=> x.name = ""
             /\ x.type = "SECTION" <=> s.type = "SECTION"
             /\ x.type = "SECTION" => x.bind = "LOCAL" /\ Plain(x.scn) /\ x.scn = s.scn
<1> DEFINE s == e.syms[idx]
           n == findSymbol(trees.binary, s)
           x == trees.binary.syms[n]
<1>1. AreSymbols(e.syms) /\ trees.binary.syms \in Seq(Symbol)
  BY Zenon DEF IsObject, AreSymbols
<1>2. n \in DOMAIN trees.binary.syms /\ IsSymbol(s, x)
  BY <1>1, SymbolFound
<1>3. /\ s \in PatchSymbol
      /\ s.type = "SECTION" <=> s.name = ""
      /\ s.type = "SECTION" => s.bind = "LOCAL" /\ Plain(s.scn)
  BY <1>1, SymbolKnown
<1> HIDE DEF n
<1>4. /\ x \in PatchSymbol
      /\ x.type = "SECTION" <=> x.name = ""
      /\ x.type = "SECTION" => x.bind = "LOCAL" /\ Plain(x.scn)
  BY <1>2, SymbolKnown
<1> HIDE DEF x, s
<1>5. /\ x.name = s.name \/ (s.type = "SECTION" /\ x.type = "SECTION")
      /\ x.bind = s.bind
  BY <1>2, Zenon DEF IsSymbol
<1>6. x.name = s.name
  BY <1>3, <1>4, <1>5, Zenon
<1>7. ASSUME x.type = "SECTION"
      PROVE  x.scn = s.scn
  <2>1. s.name = "" /\ Plain(s.scn) /\ Plain(x.scn)
    BY <1>3, <1>4, <1>6, <1>7, Zenon
  <2> QED
    BY <1>2, <1>3, <1>4, <2>1, SectionsMatch, Zenon
<1> QED
  BY <1>3, <1>4, <1>5, <1>6, <1>7, Zenon DEF x, s, n

LEMMA ReindexedFits ==
  ASSUME NEW p \in Patch, NEW scn \in Seq(Strings), Plain(scn), SymbolsFit(p)
  PROVE  SymbolsFit(reindexSectionForPatch(p, scn))
<1> DEFINE x == PatchSection(scn)
           sym == SectionSymbol(x)
<1>1. Plain(x)
  BY PatchSectionPlain
<1>2. x \in Seq(Strings)
  BY StringsInside, Zenon DEF PatchSection
<1> HIDE DEF x
<1>3. sym \in PatchSymbol
  <2>1. [name |-> "", bind |-> "LOCAL", type |-> "SECTION", scn |-> x, value |-> 0] \in PatchSymbol
    BY <1>2, StringsInside DEF PatchSymbol
  <2> QED
    BY <2>1 DEF SectionSymbol
<1>4. SymbolFits(sym)
  BY <1>1, SectionSymbolFits
<1>5. reindexSectionForPatch(p, scn) = p \/ reindexSectionForPatch(p, scn) = addSymtabEntry(p, sym)
  BY Zenon DEF reindexSectionForPatch, x
<1> HIDE DEF sym
<1>6. SymbolsFit(addSymtabEntry(p, sym))
  BY <1>3, <1>4, EntryFits
<1> QED
  BY <1>5, <1>6, Zenon

\* The symbol of a section is there before it is looked for.
LEMMA SectionThere ==
  ASSUME NEW r \in Patch, NEW sym \in PatchSymbol, NEW x, Plain(x), x \in Seq(Strings),
         SectionSymbol(x) \in Range(r.syms), SymbolsFit(r),
         sym.name = "", sym.bind = "LOCAL", sym.type = "SECTION", sym.scn = x
  PROVE  /\ WithSymbol(r, sym) = r
         /\ findSymbol(r, sym) \in DOMAIN r.syms
         /\ r.syms[findSymbol(r, sym)] = SectionSymbol(x)
<1> DEFINE n == findSymbol(r, sym)
           t == SectionSymbol(x)
<1>1. r.syms \in Seq(PatchSymbol)
  BY PatchFields
<1>2. t.name = "" /\ t.bind = "LOCAL" /\ t.type = "SECTION" /\ t.scn = x
  BY SectionSymbolFields
<1>3. PICK i \in DOMAIN r.syms : r.syms[i] = t
  BY Zenon DEF Range
<1> HIDE DEF t
<1>4. IsSymbol(sym, t)
  BY <1>2, Zenon DEF IsSymbol
<1>5. n # NONE /\ n \in DOMAIN r.syms /\ IsSymbol(sym, r.syms[n])
  BY <1>1, <1>3, <1>4, SymbolFound
<1> HIDE DEF n
<1>6. WithSymbol(r, sym) = r
  BY <1>5, Zenon DEF WithSymbol, n
<1> DEFINE y == r.syms[n]
<1>7. SymbolFits(y) /\ y \in PatchSymbol
  <2>1. y \in PatchSymbol
    BY <1>1, <1>5, ElementOf, Zenon
  <2> QED
    BY <1>5, <2>1, Zenon DEF SymbolsFit
<1>8. IsSymbol(sym, y)
  BY <1>5
<1> HIDE DEF y
<1>9. y.type = "SECTION" /\ Plain(y.scn) /\ y = SectionSymbol(y.scn)
  <2>1. y.name = sym.name \/ y.type = "SECTION"
    BY <1>8, Zenon DEF IsSymbol
  <2> QED
    BY <1>7, <2>1, Zenon DEF SymbolFits
<1>10. y.scn = x
  <2>1. Plain(sym.scn)
    OBVIOUS
  <2>2. y.scn = sym.scn
    BY <1>7, <1>8, <1>9, <2>1, SectionsMatch, Zenon
  <2> QED
    BY <2>2
<1> QED
  BY <1>5, <1>6, <1>9, <1>10 DEF y, n

LEMMA SymbolMatched ==
  ASSUME NEW p \in Patch, SymbolsFit(p), NEW e, IsObject(e), AreSymbols(trees.binary.syms),
         NEW idx, idx = NONE \/ idx \in DOMAIN e.syms
  PROVE  LET a == addSymbolFromBinaryToPatch(p, e, idx)
             q == a.patch
         IN  /\ SymbolsFit(q)
             /\ ~q.died => StandsFor(e.syms[idx], q.syms[a.sym])
<1> DEFINE inNew == IF idx = NONE THEN NONE ELSE findSymbol(trees.binary, e.syms[idx])
           s   == trees.binary.syms[inNew]
           scn == IF s.type = "SECTION" THEN PatchSection(s.scn) ELSE UNDEF
           sym == [s EXCEPT !.scn = scn]
           r   == IF s.type = "SECTION" THEN reindexSectionForPatch(p, s.scn) ELSE p
           q   == WithSymbol(r, sym)
           a   == addSymbolFromBinaryToPatch(p, e, idx)
<1>1. a = IF inNew = NONE THEN [patch |-> [p EXCEPT !.died = TRUE], sym |-> NONE]
          ELSE [patch |-> q, sym |-> findSymbol(q, sym)]
  BY Zenon DEF addSymbolFromBinaryToPatch
<1>2. CASE inNew = NONE
  <2> DEFINE d == [p EXCEPT !.died = TRUE]
  <2>1. a.patch = d
    <3> HIDE DEF d, inNew, a, q
    <3>1. a = [patch |-> d, sym |-> NONE]
      BY <1>1, <1>2, Zenon DEF d
    <3> QED
      BY <3>1
  <2>2. d.syms = p.syms /\ d.died
    BY SetDied
  <2> HIDE DEF d, a, inNew
  <2>3. SymbolsFit(d)
    BY <2>2, Zenon DEF SymbolsFit
  <2> QED
    BY <2>1, <2>2, <2>3 DEF a
<1>3. CASE inNew # NONE
  <2>1. idx \in DOMAIN e.syms /\ inNew = findSymbol(trees.binary, e.syms[idx])
    BY <1>3
  <2>2. /\ s \in PatchSymbol
        /\ s.name = e.syms[idx].name /\ s.bind = e.syms[idx].bind
        /\ s.type = "SECTION" <=> s.name = ""
        /\ s.type = "SECTION" <=> e.syms[idx].type = "SECTION"
        /\ s.type = "SECTION" => s.bind = "LOCAL" /\ Plain(s.scn) /\ s.scn = e.syms[idx].scn
    <3> DEFINE n == findSymbol(trees.binary, e.syms[idx])
    <3>1. n # NONE /\ s = trees.binary.syms[n]
      BY <1>3, <2>1
    <3> HIDE DEF inNew
    <3> QED
      BY <2>1, <3>1, BinarySymbol
  <2>3. a.patch = q /\ a.sym = findSymbol(q, sym)
    <3> HIDE DEF inNew, a, q, sym
    <3> QED
      BY <1>1, <1>3
  <2> HIDE DEF inNew, a
  <2>4. s.scn \in Seq(Strings) /\ scn \in Seq(Strings)
    <3>1. s.scn \in Seq(Strings)
      BY <2>2 DEF PatchSymbol
    <3> HIDE DEF s
    <3> QED
      BY <3>1, StringsInside, Zenon DEF PatchSection
  <2>5. sym \in PatchSymbol /\ sym.name = s.name /\ sym.type = s.type /\ sym.bind = s.bind /\ sym.scn = scn
    <3>1. s \in PatchSymbol
      BY <2>2
    <3> HIDE DEF s, scn
    <3> QED
      BY <2>4, <3>1 DEF PatchSymbol
  <2> HIDE DEF sym
  <2>6. CASE s.type = "SECTION"
    <3> DEFINE x == PatchSection(s.scn)
    <3>1. scn = x /\ Plain(s.scn) /\ Plain(x)
      BY <2>2, <2>6, PatchSectionPlain
    <3>2. r = reindexSectionForPatch(p, s.scn)
      BY <2>6
    <3> HIDE DEF r, scn
    <3>3. r \in Patch /\ SectionSymbol(x) \in Range(r.syms)
      BY <2>4, <3>2, SectionReindexed
    <3>4. SymbolsFit(r)
      BY <2>4, <3>1, <3>2, ReindexedFits
    <3>5. x \in Seq(Strings) /\ sym.name = "" /\ sym.bind = "LOCAL" /\ sym.type = "SECTION" /\ sym.scn = x
      BY <2>2, <2>4, <2>5, <2>6, <3>1
    <3>6. x = PatchSection(e.syms[idx].scn)
      BY <2>2, <2>6
    <3> HIDE DEF x, s
    <3>7. q = r /\ r.syms[findSymbol(r, sym)] = SectionSymbol(x)
      BY <2>5, <3>1, <3>3, <3>4, <3>5, SectionThere
    <3>8. StandsFor(e.syms[idx], SectionSymbol(x))
      BY <2>2, <2>6, <3>6, Zenon DEF StandsFor
    <3> HIDE DEF q
    <3> QED
      BY <2>3, <3>4, <3>7, <3>8 DEF a
  <2>7. CASE s.type # "SECTION"
    <3>1. r = p
      BY <2>7
    <3> HIDE DEF r, scn
    <3>2. SymbolFits(sym)
      <4>1. sym.type # "SECTION" /\ sym.name # ""
        BY <2>2, <2>5, <2>7
      <4> QED
        BY <4>1, Zenon DEF SymbolFits
    <3>3. q = p \/ q = addSymtabEntry(p, sym)
      BY <3>1, Zenon DEF WithSymbol
    <3>4. SymbolsFit(addSymtabEntry(p, sym))
      BY <2>5, <3>2, EntryFits
    <3>5. IsSymbol(sym, q.syms[findSymbol(q, sym)])
      BY <2>5, <3>1, SymbolThere
    <3> DEFINE t == q.syms[findSymbol(q, sym)]
    <3>6. SymbolsFit(q)
      BY <3>3, <3>4, Zenon
    <3> HIDE DEF q
    <3>7. t.name = sym.name /\ t.bind = sym.bind
      <4>1. sym.type # "SECTION"
        BY <2>5, <2>7
      <4> QED
        BY <3>5, <4>1, Zenon DEF IsSymbol
    <3> HIDE DEF t
    <3>8. StandsFor(e.syms[idx], t)
      BY <2>2, <2>5, <2>7, <3>7, Zenon DEF StandsFor
    <3> QED
      BY <2>3, <3>6, <3>8 DEF a, t
  <2> QED
    BY <2>6, <2>7
<1> QED
  BY <1>2, <1>3

-----------------------------------------------------------------------------
(* The relocations of one function.                                        *)

Rodata(e) == e.sections[sectionIndices(e, "rodata")].data

\* The data of the object is in the patch, where writeROData has noted.
DataThere(p, e) ==
  hasERS(e, "rodata") =>
    /\ p.rodataOffset + Len(Rodata(e)) <= Len(p.rodata)
    /\ \A i \in 1..Len(Rodata(e)) : p.rodata[p.rodataOffset + i] = Rodata(e)[i]

\* The relocation r of a function that begins at low is the relocation rela
\* of the patch, where the function begins at base.
Placed(p, e, low, base, r, rela) ==
  /\ hasERS(e, "rodata")
  /\ rela.at - base = r.at - low
  /\ rela.kind = r.kind
  /\ rela.sym \in DOMAIN p.syms
  /\ SameTarget(p, e, r, rela)

\* What the patch had, it has.
Extends(p, q) ==
  /\ SymbolsKept(p, q)
  /\ Len(p.relas) <= Len(q.relas) /\ \A i \in DOMAIN p.relas : q.relas[i] = p.relas[i]
  /\ Len(p.rodata) <= Len(q.rodata) /\ \A i \in DOMAIN p.rodata : q.rodata[i] = p.rodata[i]

LEMMA RodataKnown ==
  ASSUME NEW e, IsObject(e), hasERS(e, "rodata")
  PROVE  /\ Rodata(e) \in Seq(0..255) /\ Len(Rodata(e)) \in Nat
         /\ OneRodata(e) => e.sections[sectionIndices(e, "rodata")].name = <<"rodata">>
<1> DEFINE n == sectionIndices(e, "rodata")
<1>1. n \in DOMAIN e.sections /\ Rodata(e) \in Seq(0..255) /\ e.sections[n].name[1] = "rodata"
  BY KnownSection DEF Rodata
<1>2. e.sections[n] \in Range(e.sections)
  BY <1>1, Zenon DEF Range
<1>3. OneRodata(e) => e.sections[n].name = <<"rodata">>
  BY <1>1, <1>2, Zenon DEF OneRodata
<1>4. Len(Rodata(e)) \in Nat
  BY <1>1
<1> QED
  BY <1>1, <1>3, <1>4

LEMMA ExtendsItself ==
  ASSUME NEW p \in Patch, NEW q, q.syms = p.syms, q.relas = p.relas, q.rodata = p.rodata
  PROVE  Extends(p, q)
BY PatchFields DEF Extends, SymbolsKept

LEMMA ExtendsTrans ==
  ASSUME NEW p \in Patch, NEW q \in Patch, NEW s \in Patch, Extends(p, q), Extends(q, s)
  PROVE  Extends(p, s)
<1>1. SymbolsKept(p, s)
  BY SymbolsKeptTrans, Zenon DEF Extends
<1>2. /\ p.relas \in Seq(Rela) /\ q.relas \in Seq(Rela) /\ s.relas \in Seq(Rela)
      /\ p.rodata \in Seq(0..255) /\ q.rodata \in Seq(0..255) /\ s.rodata \in Seq(0..255)
  BY PatchFields
<1>3. Len(p.relas) <= Len(s.relas) /\ \A i \in DOMAIN p.relas : s.relas[i] = p.relas[i]
  BY <1>2 DEF Extends
<1>4. Len(p.rodata) <= Len(s.rodata) /\ \A i \in DOMAIN p.rodata : s.rodata[i] = p.rodata[i]
  BY <1>2 DEF Extends
<1> QED
  BY <1>1, <1>3, <1>4 DEF Extends

\* SameTarget, for read-only data and for the rest.
InRodata(p, e, from, to) ==
  from \in 0..Len(Rodata(e)) =>
    /\ to \in 0..(Len(p.rodata) - (Len(Rodata(e)) - from))
    /\ \A i \in 1..(Len(Rodata(e)) - from) : p.rodata[to + i] = Rodata(e)[from + i]

Skip(r) == IF r.kind = "PC32" THEN 4 ELSE 0

LEMMA SameTargetIs ==
  ASSUME NEW p, NEW e, NEW r, NEW rela
  PROVE  LET s == e.syms[r.sym]
             t == p.syms[rela.sym]
         IN  SameTarget(p, e, r, rela) <=>
               IF s.type = "SECTION" /\ s.scn = <<"rodata">>
                 THEN /\ t = SectionSymbol(<<"rodata", "new">>)
                      /\ InRodata(p, e, r.addend + Skip(r), rela.addend + Skip(r))
               ELSE /\ t.name = s.name /\ t.bind \in {s.bind, "GLOBAL"}
                    /\ s.type = "SECTION" => t = SectionSymbol(s.scn)
                    /\ s.scn # <<"rodata">> => rela.addend = r.addend
BY Zenon DEF SameTarget, InRodata, Skip, Rodata

LEMMA InRodataStays ==
  ASSUME NEW p \in Patch, NEW q \in Patch, Extends(p, q), NEW e, IsObject(e), hasERS(e, "rodata"),
         NEW from \in Int, NEW to \in Int, InRodata(p, e, from, to)
  PROVE  InRodata(q, e, from, to)
<1> DEFINE n == Len(Rodata(e))
           data == Rodata(e)
<1>1. n \in Nat
  BY RodataKnown
<1>2. p.rodata \in Seq(0..255) /\ q.rodata \in Seq(0..255)
  BY PatchFields
<1>3. Len(p.rodata) <= Len(q.rodata) /\ \A i \in 1..Len(p.rodata) : q.rodata[i] = p.rodata[i]
  BY <1>2 DEF Extends
<1>4. from \in 0..n => to \in 0..(Len(p.rodata) - (n - from))
                       /\ \A i \in 1..(n - from) : p.rodata[to + i] = data[from + i]
  BY Zenon DEF InRodata
<1> HIDE DEF n, data
<1>5. ASSUME from \in 0..n
      PROVE  /\ to \in 0..(Len(q.rodata) - (n - from))
             /\ \A i \in 1..(n - from) : q.rodata[to + i] = data[from + i]
  <2> DEFINE len == Len(p.rodata)
             rest == n - from
  <2>1. len \in Nat /\ Len(q.rodata) \in Nat /\ rest \in Nat
    BY <1>1, <1>2, <1>5
  <2>2. /\ to \in 0..(len - rest) /\ len <= Len(q.rodata)
        /\ \A i \in 1..rest : p.rodata[to + i] = data[from + i]
        /\ \A i \in 1..len : q.rodata[i] = p.rodata[i]
    BY <1>3, <1>4, <1>5
  <2> HIDE DEF len, rest
  <2>3. \A i \in 1..rest : to + i \in 1..len
    BY <2>1, <2>2
  <2>4. \A i \in 1..rest : q.rodata[to + i] = data[from + i]
    BY <2>2, <2>3
  <2>5. to \in 0..(Len(q.rodata) - rest)
    BY <2>1, <2>2
  <2> QED
    BY <2>4, <2>5 DEF rest
<1> QED
  BY <1>5, Zenon DEF InRodata, n, data

LEMMA PlacedStays ==
  ASSUME NEW p \in Patch, NEW q \in Patch, Extends(p, q), NEW e, IsObject(e),
         NEW r \in RelocOf(e), NEW rela \in Rela, NEW low, NEW base, Placed(p, e, low, base, r, rela)
  PROVE  Placed(q, e, low, base, r, rela)
<1>1. rela.sym \in DOMAIN p.syms /\ SameTarget(p, e, r, rela) /\ hasERS(e, "rodata")
  BY Zenon DEF Placed
<1>2. q.syms[rela.sym] = p.syms[rela.sym] /\ rela.sym \in DOMAIN q.syms
  BY <1>1, PatchFields DEF Extends, SymbolsKept
<1>3. r.addend + Skip(r) \in Int /\ rela.addend + Skip(r) \in Int
  BY RelocFields DEF Rela, Skip
<1>4. InRodata(p, e, r.addend + Skip(r), rela.addend + Skip(r)) =>
      InRodata(q, e, r.addend + Skip(r), rela.addend + Skip(r))
  <2> DEFINE from == r.addend + Skip(r)
             to == rela.addend + Skip(r)
  <2>1. from \in Int /\ to \in Int
    BY <1>3
  <2> HIDE DEF from, to
  <2>2. InRodata(p, e, from, to) => InRodata(q, e, from, to)
    BY <1>1, <2>1, InRodataStays
  <2> QED
    BY <2>2 DEF from, to
<1>5. SameTarget(q, e, r, rela)
  BY <1>1, <1>2, <1>4, SameTargetIs, Zenon
<1> QED
  BY <1>2, <1>5, Zenon DEF Placed

\* The symbol stands for the one in the object, and the addend leads to the
\* same place of its data.
LEMMA TargetOfWritten ==
  ASSUME NEW p \in Patch, NEW e, IsObject(e), OneRodata(e), hasERS(e, "rodata"), DataThere(p, e),
         NEW r \in RelocOf(e), NEW rela,
         StandsFor(e.syms[r.sym], p.syms[rela.sym]),
         rela.addend = (IF e.syms[r.sym].scn = e.sections[sectionIndices(e, "rodata")].name
                          THEN r.addend + p.rodataOffset ELSE r.addend)
  PROVE  SameTarget(p, e, r, rela)
<1> DEFINE s == e.syms[r.sym]
           t == p.syms[rela.sym]
<1>1. /\ Rodata(e) \in Seq(0..255) /\ Len(Rodata(e)) \in Nat
      /\ e.sections[sectionIndices(e, "rodata")].name = <<"rodata">>
  BY RodataKnown
<1>2. rela.addend = IF s.scn = <<"rodata">> THEN r.addend + p.rodataOffset ELSE r.addend
  BY <1>1
<1>3. r.addend \in Int /\ p.rodataOffset \in Nat /\ p.rodata \in Seq(0..255) /\ Skip(r) \in {0, 4}
  BY RelocFields, PatchFields DEF Skip
<1>4. s \in PatchSymbol /\ (s.type = "SECTION" <=> s.name = "") /\ (s.type = "SECTION" => s.bind = "LOCAL")
  <2>1. AreSymbols(e.syms) /\ r.sym \in DOMAIN e.syms
    BY RelocFields, Zenon DEF IsObject
  <2> QED
    BY <2>1, SymbolKnown
<1>5. StandsFor(s, t)
  OBVIOUS
<1> HIDE DEF s, t
<1>6. CASE s.type = "SECTION" /\ s.scn = <<"rodata">>
  <2>1. t = SectionSymbol(<<"rodata", "new">>)
    BY <1>5, <1>6, Zenon DEF StandsFor, PatchSection
  <2>2. InRodata(p, e, r.addend + Skip(r), rela.addend + Skip(r))
    <3> DEFINE n == Len(Rodata(e))
               data == Rodata(e)
               from == r.addend + Skip(r)
               to == rela.addend + Skip(r)
    <3>1. n \in Nat /\ from \in Int /\ to = from + p.rodataOffset
      BY <1>1, <1>2, <1>3, <1>6
    <3>2. p.rodataOffset + n <= Len(p.rodata) /\ \A i \in 1..n : p.rodata[p.rodataOffset + i] = data[i]
      BY Zenon DEF DataThere
    <3> HIDE DEF n, data, from, to
    <3>3. ASSUME from \in 0..n
          PROVE  to \in 0..(Len(p.rodata) - (n - from))
      BY <1>3, <3>1, <3>2, <3>3
    <3>4. ASSUME from \in 0..n, NEW i \in 1..(n - from)
          PROVE  p.rodata[to + i] = data[from + i]
      <4>1. from + i \in 1..n /\ to + i = p.rodataOffset + (from + i)
        BY <1>3, <3>1, <3>4
      <4> QED
        BY <3>2, <4>1
    <3> QED
      BY <3>3, <3>4, Zenon DEF InRodata, n, data, from, to
  <2> QED
    BY <1>6, <2>1, <2>2, SameTargetIs, Zenon DEF s, t
<1>7. CASE ~(s.type = "SECTION" /\ s.scn = <<"rodata">>)
  <2>1. s.scn # <<"rodata">> => rela.addend = r.addend
    BY <1>2
  <2>2. s.type = "SECTION" => t = SectionSymbol(s.scn)
    BY <1>5, <1>7, Zenon DEF StandsFor, PatchSection
  <2>3. t.name = s.name /\ t.bind = s.bind
    <3>1. CASE s.type = "SECTION"
      <4>1. t.name = "" /\ t.bind = "LOCAL"
        <5>1. t = SectionSymbol(s.scn)
          BY <2>2, <3>1, Zenon
        <5>2. SectionSymbol(s.scn).name = "" /\ SectionSymbol(s.scn).bind = "LOCAL"
          BY SectionSymbolFields
        <5> QED
          BY <5>1, <5>2, Zenon
      <4> QED
        BY <1>4, <3>1, <4>1
    <3>2. CASE s.type # "SECTION"
      BY <1>5, <3>2, Zenon DEF StandsFor
    <3> QED
      BY <3>1, <3>2
  <2> QED
    BY <1>7, <2>1, <2>2, <2>3, SameTargetIs, Zenon DEF s, t
<1> QED
  BY <1>6, <1>7

LEMMA RelocationPlaced ==
  ASSUME NEW p \in Patch, SymbolsFit(p), NEW e, IsObject(e), AreSymbols(trees.binary.syms),
         NEW f \in Subprogram, NEW base \in Nat, NEW r \in RelocOf(e)
  PROVE  LET q == writeRelocation(p, e, f, base, r)
         IN  /\ SymbolsFit(q) /\ Extends(p, q)
             /\ ~q.died /\ hasERS(e, "rodata") /\ OneRodata(e) /\ DataThere(p, e) =>
                  \E i \in DOMAIN q.relas : Placed(q, e, f.low, base, r, q.relas[i])
<1> DEFINE added == addSymbolFromBinaryToPatch(p, e, r.sym)
           s == added.patch
           add == IF e.syms[r.sym].scn = e.sections[sectionIndices(e, "rodata")].name
                    THEN r.addend + p.rodataOffset ELSE r.addend
           rela == [at |-> r.at - f.low + base, kind |-> r.kind, sym |-> added.sym, addend |-> add]
           q == [s EXCEPT !.relas = Append(s.relas, rela)]
<1>1. writeRelocation(p, e, f, base, r) = q
  BY Zenon DEF writeRelocation
<1>2. r.at \in Nat /\ r.kind \in STRING /\ r.sym \in DOMAIN e.syms /\ r.addend \in Int /\ f.low \in Nat
  BY RelocFields DEF Subprogram
<1>3. /\ s \in Patch /\ SameCode(p, s) /\ SameData(p, s) /\ SymbolsKept(p, s)
      /\ added.sym \in Nat
      /\ ~s.died => added.sym \in DOMAIN s.syms
      /\ SymbolsFit(s)
      /\ ~s.died => StandsFor(e.syms[r.sym], s.syms[added.sym])
  <2>1. r.sym = NONE \/ r.sym \in DOMAIN e.syms
    BY <1>2
  <2> HIDE DEF added
  <2> QED
    BY <2>1, AddedFromBinary, SymbolMatched DEF added
<1>4. rela.at - base = r.at - f.low /\ rela.kind = r.kind /\ rela.sym = added.sym /\ rela.addend = add
  BY <1>2
<1>5. rela \in Rela
  <2>1. add \in Int
    BY <1>2, PatchFields
  <2> HIDE DEF add, added
  <2> QED
    BY <1>2, <1>3, <2>1 DEF Rela
<1> HIDE DEF rela, added, s
<1>6. s.relas \in Seq(Rela) /\ s.relas = p.relas /\ s.syms \in Seq(PatchSymbol) /\ s.rodata = p.rodata
      /\ s.rodataOffset = p.rodataOffset
  BY <1>3, PatchFields DEF SameCode, SameData
<1>7. q \in Patch /\ q.relas = Append(s.relas, rela) /\ q.syms = s.syms /\ SameData(s, q) /\ q.died = s.died
  <2> DEFINE x == Append(s.relas, rela)
  <2>1. x \in Seq(Rela)
    BY <1>5, <1>6
  <2> HIDE DEF x
  <2> QED
    BY <1>3, <2>1, SetRelas DEF x
<1> HIDE DEF q
<1>8. Extends(p, q)
  <2>1. SymbolsKept(p, q)
    BY <1>3, <1>7, Zenon DEF SymbolsKept
  <2>2. q.rodata = p.rodata /\ q.relas = Append(p.relas, rela) /\ p.relas \in Seq(Rela)
    BY <1>6, <1>7, Zenon DEF SameData
  <2>3. Len(p.relas) <= Len(q.relas) /\ \A i \in DOMAIN p.relas : q.relas[i] = p.relas[i]
    BY <1>5, <2>2
  <2>4. Len(p.rodata) <= Len(q.rodata) /\ \A i \in DOMAIN p.rodata : q.rodata[i] = p.rodata[i]
    BY <2>2, PatchFields
  <2> QED
    BY <2>1, <2>3, <2>4, Zenon DEF Extends
<1>9. SymbolsFit(q)
  BY <1>3, <1>7, Zenon DEF SymbolsFit
<1>10. ASSUME ~q.died, hasERS(e, "rodata"), OneRodata(e), DataThere(p, e)
       PROVE  \E i \in DOMAIN q.relas : Placed(q, e, f.low, base, r, q.relas[i])
  <2>1. Len(q.relas) \in DOMAIN q.relas /\ q.relas[Len(q.relas)] = rela
    BY <1>5, <1>6, <1>7
  <2>2. q.rodata = p.rodata /\ q.rodataOffset = p.rodataOffset
    BY <1>6, <1>7, Zenon DEF SameData
  <2>3. DataThere(q, e)
    BY <1>10, <2>2, Zenon DEF DataThere
  <2>4. rela.sym \in DOMAIN q.syms /\ StandsFor(e.syms[r.sym], q.syms[rela.sym])
    BY <1>3, <1>4, <1>7, <1>10, Zenon
  <2>5. rela.addend = (IF e.syms[r.sym].scn = e.sections[sectionIndices(e, "rodata")].name
                         THEN r.addend + q.rodataOffset ELSE r.addend)
    BY <1>4, <2>2, Zenon
  <2>6. SameTarget(q, e, r, rela)
    BY <1>7, <1>10, <2>3, <2>4, <2>5, TargetOfWritten, Zenon
  <2>7. Placed(q, e, f.low, base, r, rela)
    BY <1>4, <1>10, <2>4, <2>6, Zenon DEF Placed
  <2> QED
    BY <2>1, <2>7
<1> QED
  BY <1>1, <1>8, <1>9, <1>10

\* All the relocations that katana reads are in the patch.
AllPlaced(p, e, f, base) ==
  \A r \in RelocationsOf(e, f) : \E i \in DOMAIN p.relas : Placed(p, e, f.low, base, r, p.relas[i])

LEMMA RangePlaced ==
  ASSUME NEW p \in Patch, SymbolsFit(p), NEW e, IsObject(e), AreSymbols(trees.binary.syms),
         NEW f \in Subprogram, NEW base \in Nat
  PROVE  LET q == writeRelocationsInRange(p, e, f, base)
         IN  /\ SymbolsFit(q) /\ Extends(p, q)
             /\ ~q.died /\ OneRodata(e) /\ DataThere(p, e) => AllPlaced(q, e, f, base)
<1> DEFINE relocs == InOrder(RelocationsOf(e, f))
           N == Len(relocs)
<1>1. PICK h : OneByOne(p, e, f, base, h)
  BY WrittenOneByOne
<1>2. /\ N \in Nat /\ N = Cardinality(RelocationsOf(e, f)) /\ relocs \in [1..N -> RelocationsOf(e, f)]
      /\ h[0] = p
      /\ \A k \in 1..N : h[k] = writeRelocation(h[k - 1], e, f, base, relocs[k])
      /\ writeRelocationsInRange(p, e, f, base) =
            IF ~hasERS(e, "rodata") THEN [p EXCEPT !.died = TRUE] ELSE h[N]
  BY <1>1, Zenon DEF OneByOne
<1>3. \A r \in RelocationsOf(e, f) : \E k \in 1..N : relocs[k] = r
  BY <1>2, RelocationsRead, InOrderOf
<1> HIDE DEF relocs, N
<1>4. \A k \in 1..N : relocs[k] \in RelocOf(e)
  BY <1>2, RelocationsRead
<1> DEFINE Done(q, k) ==
             ~q.died /\ hasERS(e, "rodata") /\ OneRodata(e) /\ DataThere(p, e) =>
               \A j \in 1..k : \E i \in DOMAIN q.relas : Placed(q, e, f.low, base, relocs[j], q.relas[i])
           Fine(k) == h[k] \in Patch /\ CodeKept(p, h[k]) /\ SymbolsFit(h[k]) /\ Extends(p, h[k])
                      /\ Done(h[k], k)
<1>5. Fine(0)
  <2>1. CodeKept(p, p)
    BY PatchFields DEF CodeKept, SameData, SymbolsKept
  <2>2. Extends(p, p)
    BY ExtendsItself
  <2>3. Done(p, 0)
    OBVIOUS
  <2> HIDE DEF Done
  <2> QED
    BY <1>2, <2>1, <2>2, <2>3
<1>6. ASSUME NEW k \in 1..N, Fine(k - 1)
      PROVE  Fine(k)
  <2> DEFINE q == h[k - 1]
             s == h[k]
  <2>1. s = writeRelocation(q, e, f, base, relocs[k])
    BY <1>2
  <2>2. q \in Patch /\ CodeKept(p, q) /\ SymbolsFit(q) /\ Extends(p, q) /\ Done(q, k - 1)
    BY <1>6
  <2> HIDE DEF q, s, Done
  <2>3. s \in Patch /\ CodeKept(q, s)
    BY <1>4, <2>1, <2>2, RelocationWritten
  <2>4. /\ SymbolsFit(s) /\ Extends(q, s)
        /\ ~s.died /\ hasERS(e, "rodata") /\ OneRodata(e) /\ DataThere(q, e) =>
             \E i \in DOMAIN s.relas : Placed(s, e, f.low, base, relocs[k], s.relas[i])
    BY <1>4, <2>1, <2>2, RelocationPlaced
  <2>5. SymbolsKept(p, s)
    BY <2>2, <2>3, SymbolsKeptTrans DEF CodeKept
  <2>6. CodeKept(p, s)
    BY <2>2, <2>3, <2>5, Zenon DEF CodeKept, SameData
  <2>7. Extends(p, s)
    BY <2>2, <2>3, <2>4, ExtendsTrans
  <2>8. DataThere(p, e) => DataThere(q, e)
    BY <2>2, Zenon DEF DataThere, CodeKept, SameData
  <2>9. ~s.died => ~q.died
    BY <2>3, Zenon DEF CodeKept
  <2>10. ASSUME ~s.died, hasERS(e, "rodata"), OneRodata(e), DataThere(p, e), NEW j \in 1..k
         PROVE  \E i \in DOMAIN s.relas : Placed(s, e, f.low, base, relocs[j], s.relas[i])
    <3>1. CASE j = k
      BY <2>4, <2>8, <2>10, <3>1
    <3>2. CASE j # k
      <4>1. j \in 1..(k - 1) /\ j \in 1..N
        BY <1>2, <2>10, <3>2
      <4>2. PICK i \in DOMAIN q.relas : Placed(q, e, f.low, base, relocs[j], q.relas[i])
        BY <2>2, <2>9, <2>10, <4>1, Zenon DEF Done
      <4>3. q.relas \in Seq(Rela) /\ s.relas \in Seq(Rela)
        BY <2>2, <2>3, PatchFields
      <4>4. i \in DOMAIN s.relas /\ s.relas[i] = q.relas[i] /\ q.relas[i] \in Rela
        BY <2>4, <4>3 DEF Extends
      <4>5. relocs[j] \in RelocOf(e)
        BY <1>4, <4>1
      <4>6. Placed(s, e, f.low, base, relocs[j], q.relas[i])
        BY <2>2, <2>3, <2>4, <4>2, <4>4, <4>5, PlacedStays
      <4> QED
        BY <4>4, <4>6
    <3> QED
      BY <3>1, <3>2
  <2>11. Done(s, k)
    BY <2>10, Zenon DEF Done
  <2> QED
    BY <2>3, <2>4, <2>6, <2>7, <2>11 DEF s
<1>7. Done(h[N], N) /\ h[N] \in Patch /\ SymbolsFit(h[N]) /\ Extends(p, h[N])
  <2> SUFFICES ASSUME ~Fine(N)
               PROVE  FALSE
    BY Zenon DEF Fine
  <2> HIDE DEF Fine
  <2> DEFINE Bad == {m \in 0..N : ~Fine(m)}
  <2>1. Bad \in SUBSET Nat /\ Bad # {}
    BY <1>2
  <2>2. PICK m \in Bad : \A k \in Bad : m <= k
    <3> HIDE DEF Bad
    <3> QED
      BY <2>1, LeastNatural
  <2>3. m \in 1..N /\ ~Fine(m)
    BY <1>2, <1>5, <2>2
  <2>4. m - 1 \in 0..N /\ ~(m <= m - 1)
    BY <1>2, <2>3
  <2>5. Fine(m - 1)
    BY <2>2, <2>4
  <2> QED
    BY <1>6, <2>3, <2>5
<1> HIDE DEF Fine
<1>8. CASE ~hasERS(e, "rodata")
  <2> DEFINE d == [p EXCEPT !.died = TRUE]
  <2>1. writeRelocationsInRange(p, e, f, base) = d
    BY <1>2, <1>8, Zenon
  <2>2. d.syms = p.syms /\ SameCode(p, d) /\ SameData(p, d) /\ d.died
    BY SetDied
  <2> HIDE DEF d
  <2>3. Extends(p, d) /\ SymbolsFit(d)
    BY <2>2, ExtendsItself, Zenon DEF SameCode, SameData, SymbolsFit
  <2> QED
    BY <2>1, <2>2, <2>3
<1>9. CASE hasERS(e, "rodata")
  <2> DEFINE q == h[N]
  <2>1. writeRelocationsInRange(p, e, f, base) = q
    BY <1>2, <1>9, Zenon
  <2> HIDE DEF Done
  <2>2. Done(q, N) /\ SymbolsFit(q) /\ Extends(p, q)
    BY <1>7
  <2> HIDE DEF q
  <2>3. ASSUME ~q.died, OneRodata(e), DataThere(p, e)
        PROVE  AllPlaced(q, e, f, base)
    <3>1. \A j \in 1..N : \E i \in DOMAIN q.relas : Placed(q, e, f.low, base, relocs[j], q.relas[i])
      BY <1>9, <2>2, <2>3, Zenon DEF Done
    <3> QED
      BY <1>3, <3>1, Zenon DEF AllPlaced
  <2> QED
    BY <2>1, <2>2, <2>3
<1> QED
  BY <1>8, <1>9

-----------------------------------------------------------------------------
(* The relocations of all functions.                                       *)

\* ReferencesKept, of relocations of the patch whose symbols it has.
RefsIn(p, d, e, f) ==
  \A r \in In(e, f) : Exact(e, r) =>
    \E i \in DOMAIN p.relas : Placed(p, e, f.low, d.low, r, p.relas[i])

LEMMA RefsAreKept ==
  ASSUME NEW p, NEW d, NEW e, NEW f, RefsIn(p, d, e, f)
  PROVE  ReferencesKept(p, d, e, f)
<1> SUFFICES ASSUME NEW r \in In(e, f), Exact(e, r)
             PROVE  \E rela \in Range(p.relas) :
                      /\ rela.at - d.low = r.at - f.low
                      /\ rela.kind = r.kind
                      /\ SameTarget(p, e, r, rela)
  BY Zenon DEF ReferencesKept
<1>1. PICK i \in DOMAIN p.relas : Placed(p, e, f.low, d.low, r, p.relas[i])
  BY Zenon DEF RefsIn
<1>2. p.relas[i] \in Range(p.relas)
  BY Zenon DEF Range
<1> QED
  BY <1>1, <1>2, Zenon DEF Placed

LEMMA RefsStay ==
  ASSUME NEW p \in Patch, NEW q \in Patch, Extends(p, q), NEW e, IsObject(e),
         NEW f \in Subprogram, IsFunction(e, f), NEW d, RefsIn(p, d, e, f)
  PROVE  RefsIn(q, d, e, f)
<1> SUFFICES ASSUME NEW r \in In(e, f), Exact(e, r)
             PROVE  \E i \in DOMAIN q.relas : Placed(q, e, f.low, d.low, r, q.relas[i])
  BY Zenon DEF RefsIn
<1>1. PICK i \in DOMAIN p.relas : Placed(p, e, f.low, d.low, r, p.relas[i])
  BY Zenon DEF RefsIn
<1>2. r \in RelocOf(e)
  BY RelocationsReadIn DEF RelocOf
<1>3. p.relas \in Seq(Rela) /\ q.relas \in Seq(Rela)
  BY PatchFields
<1>4. i \in DOMAIN q.relas /\ q.relas[i] = p.relas[i] /\ p.relas[i] \in Rela
  BY <1>3 DEF Extends
<1>5. Placed(q, e, f.low, d.low, r, p.relas[i])
  BY <1>1, <1>2, <1>4, PlacedStays
<1> QED
  BY <1>4, <1>5

\* writeFuncToPatchText
LEMMA FunctionPlaced ==
  ASSUME NEW p \in Patch, SymbolsFit(p), NEW e, IsObject(e), AreSymbols(trees.binary.syms),
         NEW f \in Subprogram, IsFunction(e, f), NEW cu, cu.name \in STRING, NEW new \in BOOLEAN
  PROVE  LET r == writeFuncToPatchText(p, e, f, cu, new)
         IN  /\ r \in Patch /\ SymbolsFit(r) /\ Extends(p, r) /\ SameData(p, r)
             /\ \A d \in Range(r.dies) :
                  \/ d \in Range(p.dies)
                  \/ /\ d.cu = cu.name /\ d.name = f.name
                     /\ ~r.died /\ OneRodata(e) /\ DataThere(p, e) => RefsIn(r, d, e, f)
<1> DEFINE base == Len(p.text)
           sym == [name |-> f.name, bind |-> "GLOBAL", type |-> "FUNC",
                   scn |-> <<"text", "new">>, value |-> base]
           r == writeFuncToPatchText(p, e, f, cu, new)
<1>1. PICK q, d : WrittenAs(p, e, f, cu, r, q, d)
  BY FunctionAdded
<1> DEFINE w == writeRelocationsInRange(q, e, f, base)
<1> HIDE DEF r
<1>2. /\ q \in Patch /\ sym \in PatchSymbol /\ q.syms = Append(p.syms, sym) /\ q.relas = p.relas
      /\ SameData(p, q)
      /\ d.cu = cu.name /\ d.name = f.name /\ d.low = base
      /\ w \in Patch /\ CodeKept(q, w)
      /\ r \in Patch /\ r.dies = Append(p.dies, d) /\ r.relas = w.relas /\ r.syms = w.syms
      /\ SameData(w, r) /\ r.died = w.died /\ d \in Die
  BY <1>1, Zenon DEF WrittenAs
<1>3. SymbolFits(sym)
  <2>1. sym.name = f.name /\ sym.type = "FUNC"
    OBVIOUS
  <2>2. f.name # ""
    BY DEF Subprogram
  <2>3. sym.type # "SECTION"
    BY <2>1
  <2> QED
    BY <2>1, <2>2, <2>3, Zenon DEF SymbolFits
<1>4. base \in Nat
  BY PatchFields
<1> HIDE DEF sym, base
<1>5. p.syms \in Seq(PatchSymbol) /\ p.dies \in Seq(Die)
  BY PatchFields
<1>6. SymbolsFit(q)
  <2> SUFFICES ASSUME NEW i \in DOMAIN q.syms
               PROVE  SymbolFits(q.syms[i])
    BY Zenon DEF SymbolsFit
  <2>1. (i \in DOMAIN p.syms /\ q.syms[i] = p.syms[i]) \/ q.syms[i] = sym
    BY <1>2, <1>5
  <2> QED
    BY <1>3, <2>1, Zenon DEF SymbolsFit
<1>7. Extends(p, q)
  <2>1. SymbolsKept(p, q)
    BY <1>2, <1>5 DEF SymbolsKept
  <2> QED
    BY <1>2, <2>1, PatchFields DEF Extends, SameData
<1>8. /\ SymbolsFit(w) /\ Extends(q, w)
      /\ ~w.died /\ OneRodata(e) /\ DataThere(q, e) => AllPlaced(w, e, f, base)
  BY <1>2, <1>4, <1>6, RangePlaced
<1> HIDE DEF w
<1>9. SameData(p, r) /\ (DataThere(p, e) => DataThere(q, e))
  BY <1>2, Zenon DEF SameData, CodeKept, DataThere
<1>10. SymbolsFit(r)
  BY <1>2, <1>8, Zenon DEF SymbolsFit
<1>11. Extends(w, r)
  BY <1>2, ExtendsItself, Zenon DEF SameData
<1>12. Extends(p, r)
  <2>1. Extends(p, w)
    BY <1>2, <1>7, <1>8, ExtendsTrans
  <2> QED
    BY <1>2, <1>11, <2>1, ExtendsTrans
<1>13. ASSUME ~r.died, OneRodata(e), DataThere(p, e)
       PROVE  RefsIn(r, d, e, f)
  <2>1. AllPlaced(w, e, f, base)
    BY <1>2, <1>8, <1>9, <1>13, Zenon
  <2>2. ASSUME NEW x \in In(e, f), Exact(e, x)
        PROVE  \E i \in DOMAIN w.relas : Placed(w, e, f.low, d.low, x, w.relas[i])
    <3>1. Read(e, x) = x /\ x \in RelocationsOf(e, f)
      <4>1. x \in [at : Nat, kind : STRING, sym : DOMAIN e.syms, addend : Int]
            /\ RelocationsOf(e, f) = {Read(e, y) : y \in In(e, f)}
        BY RelocationsReadIn
      <4>2. Read(e, x) = x
        BY <2>2, <4>1, ReadExact
      <4> QED
        BY <4>1, <4>2
    <3> QED
      BY <1>2, <2>1, <3>1, Zenon DEF AllPlaced
  <2>3. RefsIn(w, d, e, f)
    BY <2>2, Zenon DEF RefsIn
  <2> QED
    BY <1>2, <1>11, <2>3, RefsStay
<1>14. ASSUME NEW x \in Range(r.dies)
       PROVE  \/ x \in Range(p.dies)
              \/ /\ x.cu = cu.name /\ x.name = f.name
                 /\ ~r.died /\ OneRodata(e) /\ DataThere(p, e) => RefsIn(r, x, e, f)
  <2>1. x \in Range(p.dies) \/ x = d
    <3>1. PICK i \in DOMAIN r.dies : r.dies[i] = x
      BY Zenon DEF Range
    <3>2. (i \in DOMAIN p.dies /\ r.dies[i] = p.dies[i]) \/ r.dies[i] = d
      BY <1>2, <1>5
    <3> QED
      BY <3>1, <3>2, Zenon DEF Range
  <2> QED
    BY <1>2, <1>13, <1>14, <2>1
<1> QED
  BY <1>2, <1>9, <1>10, <1>12, <1>14 DEF r

\* addUnsafeSubprogram
LEMMA UnsafeExtends ==
  ASSUME NEW p \in Patch, SymbolsFit(p), NEW e, IsObject(e), AreSymbols(trees.binary.syms),
         NEW f \in Subprogram
  PROVE  LET q == addUnsafeSubprogram(p, e, f)
         IN  q \in Patch /\ SymbolsFit(q) /\ Extends(p, q) /\ SameData(p, q) /\ q.dies = p.dies
<1> DEFINE idx == getSymtabIdx(e, f.name)
           s == addSymbolFromBinaryToPatch(p, e, idx).patch
           q == addUnsafeSubprogram(p, e, f)
<1>1. /\ q \in Patch /\ q.dies = p.dies /\ SymbolsKept(p, q)
      /\ q.relas = p.relas /\ SameData(p, q) /\ q.syms = s.syms
  BY UnsafeAdded
<1>2. idx = NONE \/ idx \in DOMAIN e.syms
  BY SymbolIndex
<1> HIDE DEF idx, q
<1>3. SymbolsFit(s)
  BY <1>2, SymbolMatched
<1> HIDE DEF s
<1>4. SymbolsFit(q)
  BY <1>1, <1>3, Zenon DEF SymbolsFit
<1>5. Extends(p, q)
  BY <1>1, PatchFields DEF Extends, SameData
<1> QED
  BY <1>1, <1>4, <1>5 DEF q

\* writeROData
LEMMA DataIsThere ==
  ASSUME NEW p \in Patch, NEW e, IsObject(e)
  PROVE  LET q == writeROData(p, e)
         IN  q \in Patch /\ q.syms = p.syms /\ q.dies = p.dies /\ Extends(p, q) /\ DataThere(q, e)
<1> DEFINE d == Rodata(e)
           s == [p EXCEPT !.rodataOffset = Len(p.rodata)]
           q == [s EXCEPT !.rodata = s.rodata \o d]
<1>1. p.rodata \in Seq(0..255)
  BY PatchFields
<1>2. CASE ~hasERS(e, "rodata")
  <2>1. writeROData(p, e) = p
    BY <1>2, Zenon DEF writeROData
  <2>2. Extends(p, p)
    BY ExtendsItself
  <2> QED
    BY <1>2, <2>1, <2>2 DEF DataThere
<1>3. CASE hasERS(e, "rodata")
  <2>1. writeROData(p, e) = q
    BY <1>3, Zenon DEF writeROData, Rodata
  <2>2. d \in Seq(0..255)
    BY <1>3, RodataKnown
  <2>3. q \in Patch /\ SameCode(p, q) /\ q.syms = p.syms
    BY <2>1, DataWritten
  <2> HIDE DEF d
  <2>4. q.rodata = p.rodata \o d /\ q.rodataOffset = Len(p.rodata)
    <3>1. s.rodata = p.rodata /\ s.rodataOffset = Len(p.rodata)
          /\ q.rodata = s.rodata \o d /\ q.rodataOffset = s.rodataOffset
      BY DEF Patch
    <3> QED
      BY <3>1
  <2> HIDE DEF q
  <2>5. Extends(p, q)
    <3>1. SymbolsKept(p, q) /\ q.relas = p.relas
      BY <2>3, PatchFields DEF SymbolsKept, SameCode
    <3>2. Len(p.relas) <= Len(q.relas) /\ \A i \in DOMAIN p.relas : q.relas[i] = p.relas[i]
      BY <3>1, PatchFields
    <3>3. Len(p.rodata) <= Len(q.rodata) /\ \A i \in DOMAIN p.rodata : q.rodata[i] = p.rodata[i]
      BY <1>1, <2>2, <2>4
    <3> QED
      BY <3>1, <3>2, <3>3, Zenon DEF Extends
  <2>6. /\ q.rodataOffset + Len(d) <= Len(q.rodata)
        /\ \A i \in 1..Len(d) : q.rodata[q.rodataOffset + i] = d[i]
    BY <1>1, <2>2, <2>4
  <2>7. DataThere(q, e)
    BY <2>6, Zenon DEF DataThere, d
  <2> QED
    BY <2>1, <2>3, <2>5, <2>7, Zenon DEF SameCode
<1> QED
  BY <1>2, <1>3

\* The function fn of the unit cu has been written into the patch, perhaps,
\* and nothing else.
Adds(p, q, e, cu, fn) ==
  /\ q \in Patch /\ SymbolsFit(q) /\ Extends(p, q) /\ SameData(p, q)
  /\ \A d \in Range(q.dies) :
       \/ d \in Range(p.dies)
       \/ /\ d.cu = cu.name /\ d.name = fn
          /\ ~q.died /\ OneRodata(e) /\ DataThere(p, e) => RefsIn(q, d, e, Func(cu, fn))

LEMMA NothingAdded ==
  ASSUME NEW p \in Patch, SymbolsFit(p), NEW e, NEW cu, NEW fn
  PROVE  Adds(p, p, e, cu, fn)
<1>1. Extends(p, p)
  BY ExtendsItself
<1> QED
  BY <1>1, Zenon DEF Adds, SameData

LEMMA WrittenAdded ==
  ASSUME NEW p \in Patch, SymbolsFit(p), NEW e, IsObject(e), AreSymbols(trees.binary.syms),
         NEW cu, cu.name \in STRING, NEW fn, NEW new \in BOOLEAN,
         Func(cu, fn) \in Subprogram, IsFunction(e, Func(cu, fn)), Func(cu, fn).name = fn
  PROVE  Adds(p, writeFuncToPatchText(p, e, Func(cu, fn), cu, new), e, cu, fn)
<1> DEFINE g == Func(cu, fn)
           r == writeFuncToPatchText(p, e, g, cu, new)
<1>1. g \in Subprogram /\ IsFunction(e, g) /\ g.name = fn
  OBVIOUS
<1> HIDE DEF g
<1>2. /\ r \in Patch /\ SymbolsFit(r) /\ Extends(p, r) /\ SameData(p, r)
      /\ \A d \in Range(r.dies) :
           \/ d \in Range(p.dies)
           \/ /\ d.cu = cu.name /\ d.name = g.name
              /\ ~r.died /\ OneRodata(e) /\ DataThere(p, e) => RefsIn(r, d, e, g)
  BY <1>1, FunctionPlaced
<1> QED
  BY <1>1, <1>2, Zenon DEF Adds, g

LEMMA UnsafeAddedToo ==
  ASSUME NEW p \in Patch, NEW w, NEW e, IsObject(e), AreSymbols(trees.binary.syms), NEW cu, NEW fn,
         Adds(p, w, e, cu, fn), Func(cu, fn) \in Subprogram, IsFunction(e, Func(cu, fn))
  PROVE  Adds(p, addUnsafeSubprogram(w, e, Func(cu, fn)), e, cu, fn)
<1> DEFINE g == Func(cu, fn)
           a == addUnsafeSubprogram(w, e, g)
<1>1. /\ w \in Patch /\ SymbolsFit(w) /\ Extends(p, w) /\ SameData(p, w)
      /\ \A d \in Range(w.dies) :
           \/ d \in Range(p.dies)
           \/ /\ d.cu = cu.name /\ d.name = fn
              /\ ~w.died /\ OneRodata(e) /\ DataThere(p, e) => RefsIn(w, d, e, Func(cu, fn))
  BY Zenon DEF Adds
<1>2. g \in Subprogram /\ IsFunction(e, g)
  OBVIOUS
<1> HIDE DEF g
<1>3. /\ a \in Patch /\ SymbolsFit(a) /\ Extends(w, a) /\ SameData(w, a) /\ a.dies = w.dies
      /\ w.died => a.died
  BY <1>1, <1>2, UnsafeExtends, UnsafeAdded
<1> HIDE DEF a
<1>4. Extends(p, a) /\ SameData(p, a)
  <2>1. Extends(p, a)
    BY <1>1, <1>3, ExtendsTrans
  <2> QED
    BY <1>1, <1>3, <2>1, Zenon DEF SameData
<1>5. \A d : RefsIn(w, d, e, g) => RefsIn(a, d, e, g)
  BY <1>1, <1>2, <1>3, RefsStay
<1>6. \A d \in Range(a.dies) :
        \/ d \in Range(p.dies)
        \/ /\ d.cu = cu.name /\ d.name = fn
           /\ ~a.died /\ OneRodata(e) /\ DataThere(p, e) => RefsIn(a, d, e, Func(cu, fn))
  BY <1>1, <1>3, <1>5, Zenon DEF g
<1> QED
  BY <1>3, <1>4, <1>6, Zenon DEF Adds, a, g

-----------------------------------------------------------------------------
(* The invariant.                                                          *)

\* A function of the object e, whose references are in the patch.
FromObject(p, e, d) ==
  \E u \in DOMAIN e.cus :
    /\ d.cu = e.cus[u].name /\ d.name \in Names(e.cus[u])
    /\ OneRodata(e) => RefsIn(p, d, e, Func(e.cus[u], d.name))

From(T, O, p, d) ==
  \E m \in DOMAIN O : /\ O[m].state = "modified" /\ NewOf(T, O, m).dwarf
                      /\ FromObject(p, NewOf(T, O, m), d)

\* While an object is gone through its data is where writeROData has noted;
\* every function in the patch is of some object.
References(T, O, p, a, c) ==
  c # "dead" =>
    /\ SymbolsFit(p)
    /\ \A d \in Range(p.dies) : From(T, O, p, d)
    /\ c \in Comparing => DataThere(p, NewOf(T, O, a))

RelocInv == References(trees, objects, patch, at, pc)

LEMMA FromStays ==
  ASSUME \E n \in Cases : trees = Version(n), ModifiedAreCommon,
         NEW p \in Patch, NEW q \in Patch, Extends(p, q), NEW d, From(trees, objects, p, d)
  PROVE  From(trees, objects, q, d)
<1>1. PICK m \in DOMAIN objects :
        /\ objects[m].state = "modified" /\ NewOf(trees, objects, m).dwarf
        /\ FromObject(p, NewOf(trees, objects, m), d)
  BY Zenon DEF From
<1> DEFINE e == NewOf(trees, objects, m)
<1>2. IsObject(e) /\ CusFit(e)
  BY <1>1, ObjectKnown, Zenon
<1> HIDE DEF e
<1>3. PICK u \in DOMAIN e.cus :
        /\ d.cu = e.cus[u].name /\ d.name \in Names(e.cus[u])
        /\ OneRodata(e) => RefsIn(p, d, e, Func(e.cus[u], d.name))
  BY <1>1, Zenon DEF FromObject, e
<1>4. Func(e.cus[u], d.name) \in Subprogram /\ IsFunction(e, Func(e.cus[u], d.name))
  BY <1>2, <1>3, UnitFits, Zenon
<1>5. OneRodata(e) => RefsIn(q, d, e, Func(e.cus[u], d.name))
  <2> DEFINE g == Func(e.cus[u], d.name)
  <2> HIDE DEF g
  <2>1. RefsIn(p, d, e, g) => RefsIn(q, d, e, g)
    BY <1>2, <1>4, RefsStay DEF g
  <2> QED
    BY <1>3, <2>1, Zenon DEF g
<1>6. FromObject(q, e, d)
  BY <1>3, <1>5, Zenon DEF FromObject
<1> QED
  BY <1>1, <1>6, Zenon DEF From, e

LEMMA DataStays ==
  ASSUME NEW p \in Patch, NEW q \in Patch, SameData(p, q), NEW e, DataThere(p, e)
  PROVE  DataThere(q, e)
BY Zenon DEF DataThere, SameData

\* What the writing of a function leaves of the invariant: all of it.
LEMMA AddedKeeps ==
  ASSUME CodeInv, RelocInv, pc \in Comparing, patch \in Patch, at \in DOMAIN objects,
         objects[at].state = "modified", NewOf(trees, objects, at).dwarf,
         NEW v \in DOMAIN NewOf(trees, objects, at).cus,
         NEW fn, fn \in Names(NewOf(trees, objects, at).cus[v]),
         NEW q, Adds(patch, q, NewOf(trees, objects, at), NewOf(trees, objects, at).cus[v], fn)
  PROVE  References(trees, objects, q, at, IF q.died THEN "dead" ELSE pc)
<1> DEFINE e == NewOf(trees, objects, at)
           cu == e.cus[v]
           c == IF q.died THEN "dead" ELSE pc
<1>1. /\ q \in Patch /\ SymbolsFit(q) /\ Extends(patch, q) /\ SameData(patch, q)
      /\ \A d \in Range(q.dies) :
           \/ d \in Range(patch.dies)
           \/ /\ d.cu = cu.name /\ d.name = fn
              /\ ~q.died /\ OneRodata(e) /\ DataThere(patch, e) => RefsIn(q, d, e, Func(cu, fn))
  BY Zenon DEF Adds
<1>2. (\E n \in Cases : trees = Version(n)) /\ ModifiedAreCommon
  BY Zenon DEF CodeInv
<1>3. /\ \A d \in Range(patch.dies) : From(trees, objects, patch, d)
      /\ DataThere(patch, e)
  <2>1. pc # "dead"
    BY DEF Comparing
  <2> QED
    BY <2>1, Zenon DEF RelocInv, References
<1> HIDE DEF e
<1>4. ASSUME ~q.died, NEW d \in Range(q.dies)
      PROVE  From(trees, objects, q, d)
  <2>1. CASE d \in Range(patch.dies)
    BY <1>1, <1>2, <1>3, <2>1, FromStays
  <2>2. CASE d \notin Range(patch.dies)
    <3>1. /\ d.cu = cu.name /\ d.name = fn
          /\ OneRodata(e) => RefsIn(q, d, e, Func(cu, fn))
      BY <1>1, <1>3, <1>4, <2>2, Zenon
    <3>2. FromObject(q, e, d)
      <4>1. v \in DOMAIN e.cus /\ fn \in Names(e.cus[v])
        BY DEF e
      <4> QED
        BY <3>1, <4>1, Zenon DEF FromObject
    <3> QED
      BY <3>2, Zenon DEF From, e
  <2> QED
    BY <2>1, <2>2
<1>5. DataThere(q, e)
  BY <1>1, <1>3, DataStays
<1>6. c # "dead" => ~q.died
  OBVIOUS
<1> HIDE DEF c
<1>7. References(trees, objects, q, at, c)
  BY <1>1, <1>4, <1>5, <1>6, Zenon DEF References, e
<1> QED
  BY <1>7 DEF c

LEMMA RelocStartObject ==
  ASSUME IInv, CodeInv, RelocInv, StartObject
  PROVE  References(trees, objects, patch', at, pc')
<1> DEFINE e == NewOf(trees, objects, at)
           q == writeROData(patch, e)
<1>1. at \in DOMAIN objects
  <2>1. at \in Nat \ {0} /\ objects \in Seq(ObjectType)
    BY DEF IInv, TreeInv, Phases, StartObject, Here
  <2>2. at <= Len(objects)
    BY DEF StartObject
  <2> QED
    BY <2>1, <2>2
<1>2. objects[at].state = "modified" /\ e.dwarf /\ patch' = q /\ pc = "objects" /\ pc' = "units"
  <2>1. e = NewElf
    BY Zenon DEF NewOf, NewElf, Object
  <2> QED
    BY <2>1, Zenon DEF StartObject, Here, Object
<1>3. (\E n \in Cases : trees = Version(n)) /\ ModifiedAreCommon /\ patch \in Patch
  BY Zenon DEF CodeInv, Progress
<1>4. IsObject(e)
  BY <1>1, <1>2, <1>3, ObjectKnown, Zenon
<1>5. SymbolsFit(patch) /\ \A d \in Range(patch.dies) : From(trees, objects, patch, d)
  <2>1. pc # "dead"
    BY <1>2
  <2> QED
    BY <2>1, Zenon DEF RelocInv, References
<1> HIDE DEF e
<1>6. q \in Patch /\ q.syms = patch.syms /\ q.dies = patch.dies /\ Extends(patch, q) /\ DataThere(q, e)
  BY <1>3, <1>4, DataIsThere
<1> HIDE DEF q
<1>7. SymbolsFit(q)
  BY <1>5, <1>6, Zenon DEF SymbolsFit
<1>8. \A d \in Range(q.dies) : From(trees, objects, q, d)
  BY <1>3, <1>5, <1>6, FromStays
<1>9. References(trees, objects, q, at, "units")
  BY <1>6, <1>7, <1>8, Zenon DEF References, e
<1> QED
  BY <1>2, <1>9, Zenon

LEMMA RelocNewFunction ==
  ASSUME IInv, CodeInv, RelocInv, NewFunction
  PROVE  References(trees, objects, patch', at, pc')
<1> DEFINE e1 == OldOf(trees, objects, at)
           e2 == NewOf(trees, objects, at)
           v == FirstIn(NewUnits(e1, e2, unit))
           cu == e2.cus[v]
<1>1. PICK fn \in left :
        /\ patch' = writeFuncToPatchText(patch, NewElf, Func(cuNew, fn), cuNew, TRUE)
        /\ left' = left \ {fn}
  BY Zenon DEF NewFunction
<1>2. pc = "new functions" /\ pc' = (IF patch'.died THEN "dead" ELSE pc) /\ pc \in Comparing /\ pc # "dead"
  BY DEF NewFunction, Here, GoOn, Comparing
<1>3. /\ at \in DOMAIN objects /\ objects[at].state = "modified"
      /\ e1 = OldElf /\ e2 = NewElf /\ e2.dwarf
      /\ IsObject(e2) /\ CusFit(e2) /\ AreSymbols(trees.binary.syms)
      /\ InObject(e1, e2, patch, unit, left, pc)
      /\ patch \in Patch
  BY <1>2, InComparison, Zenon
<1>4. UnitOf(e1, e2, unit) = cuNew /\ cu = cuNew
  BY <1>3, Zenon DEF UnitOf, cuNew
<1> HIDE DEF e1, e2
<1>5. /\ unit \in DOMAIN e1.cus /\ NewUnits(e1, e2, unit) # {}
      /\ left \subseteq Names(UnitOf(e1, e2, unit)) \ Names(e1.cus[unit])
  <2>1. pc # "units"
    BY <1>2
  <2> QED
    BY <1>2, <1>3, <2>1, Zenon DEF InObject
<1>6. v \in DOMAIN e2.cus
  BY <1>3, <1>5, UnitFound, Zenon
<1>7. fn \in Names(cu)
  BY <1>4, <1>5
<1> HIDE DEF v
<1>8. cu.name \in STRING /\ Func(cu, fn) \in Subprogram /\ IsFunction(e2, Func(cu, fn)) /\ Func(cu, fn).name = fn
  BY <1>3, <1>6, <1>7, UnitFits, Zenon
<1> DEFINE yes == TRUE
           q == writeFuncToPatchText(patch, e2, Func(cu, fn), cu, yes)
<1>9. yes \in BOOLEAN /\ patch' = q
  BY <1>1, <1>3, <1>4, Zenon
<1> HIDE DEF yes
<1>10. SymbolsFit(patch)
  BY <1>2, Zenon DEF RelocInv, References
<1>11. Adds(patch, q, e2, cu, fn)
  <2> HIDE DEF cu
  <2> QED
    BY <1>3, <1>8, <1>9, <1>10, WrittenAdded
<1> HIDE DEF q
<1>12. References(trees, objects, q, at, IF q.died THEN "dead" ELSE pc)
  BY <1>2, <1>3, <1>6, <1>7, <1>11, AddedKeeps, Zenon DEF e2
<1> QED
  BY <1>2, <1>9, <1>12, Zenon

LEMMA RelocCompareFunction ==
  ASSUME IInv, CodeInv, RelocInv, CompareFunction
  PROVE  References(trees, objects, patch', at, pc')
<1> DEFINE e1 == OldOf(trees, objects, at)
           e2 == NewOf(trees, objects, at)
           v == FirstIn(NewUnits(e1, e2, unit))
           cu == e2.cus[v]
<1>1. PICK fn \in left : patch' = Compared(fn) /\ left' = left \ {fn}
  BY Zenon DEF CompareFunction
<1>2. pc = "functions" /\ pc' = (IF patch'.died THEN "dead" ELSE pc) /\ pc \in Comparing /\ pc # "dead"
  BY DEF CompareFunction, Here, GoOn, Comparing
<1>3. /\ at \in DOMAIN objects /\ objects[at].state = "modified"
      /\ e1 = OldElf /\ e2 = NewElf /\ e2.dwarf
      /\ IsObject(e2) /\ CusFit(e2) /\ AreSymbols(trees.binary.syms)
      /\ InObject(e1, e2, patch, unit, left, pc)
      /\ patch \in Patch
  BY <1>2, InComparison, Zenon
<1>4. cu = cuNew
  BY <1>3, Zenon DEF cuNew
<1> HIDE DEF e1, e2
<1>5. unit \in DOMAIN e1.cus /\ NewUnits(e1, e2, unit) # {}
  <2>1. pc # "units"
    BY <1>2
  <2> QED
    BY <1>2, <1>3, <2>1, Zenon DEF InObject
<1>6. v \in DOMAIN e2.cus
  BY <1>3, <1>5, UnitFound, Zenon
<1> HIDE DEF v
<1>7. SymbolsFit(patch)
  BY <1>2, Zenon DEF RelocInv, References
<1>8. CASE patch' = patch
  <2>1. ~patch.died
    BY <1>2, Zenon DEF CodeInv, Progress
  <2>2. pc' = pc
    BY <1>2, <1>8, <2>1
  <2> QED
    BY <1>8, <2>2, Zenon DEF RelocInv
<1>9. CASE patch' # patch
  <2> DEFINE g == Func(cu, fn)
             no == FALSE
             w == writeFuncToPatchText(patch, e2, g, cu, no)
             q == patch'
  <2>1. /\ fn \in Names(cu)
        /\ q = addUnsafeSubprogram(w, e2, g) \/ q = addUnsafeSubprogram(patch, e2, g)
    BY <1>1, <1>3, <1>4, <1>9, Zenon DEF Compared
  <2>2. cu.name \in STRING /\ g \in Subprogram /\ IsFunction(e2, g) /\ g.name = fn
    BY <1>3, <1>6, <2>1, UnitFits, Zenon
  <2>3. no \in BOOLEAN
    OBVIOUS
  <2> HIDE DEF no, q, cu
  <2>4. Adds(patch, w, e2, cu, fn)
    BY <1>3, <1>7, <2>2, <2>3, WrittenAdded
  <2>5. Adds(patch, patch, e2, cu, fn)
    BY <1>3, <1>7, NothingAdded
  <2>6. Adds(patch, q, e2, cu, fn)
    <3> HIDE DEF w
    <3>1. \A x : Adds(patch, x, e2, cu, fn) => Adds(patch, addUnsafeSubprogram(x, e2, g), e2, cu, fn)
      BY <1>3, <2>2, UnsafeAddedToo
    <3> QED
      BY <2>1, <2>4, <2>5, <3>1, Zenon
  <2>7. References(trees, objects, q, at, IF q.died THEN "dead" ELSE pc)
    BY <1>2, <1>3, <1>6, <2>1, <2>6, AddedKeeps, Zenon DEF e2, cu
  <2> QED
    BY <1>2, <2>7, Zenon DEF q
<1> QED
  BY <1>8, <1>9

LEMMA RelocStarts == Init => RelocInv
<1> SUFFICES ASSUME Init
             PROVE  RelocInv
  OBVIOUS
<1>1. patch = EmptyPatch /\ pc = "trees"
  BY Zenon DEF Init
<1>2. /\ patch.dies = <<>> /\ Range(patch.dies) = {}
      /\ patch.syms = <<SectionSymbol(<<"data", "new">>), SectionSymbol(<<"text", "new">>),
                        SectionSymbol(<<"rodata", "new">>)>>
  <2>1. patch.dies = <<>>
    BY <1>1 DEF EmptyPatch
  <2>2. patch.syms = <<SectionSymbol(<<"data", "new">>), SectionSymbol(<<"text", "new">>),
                       SectionSymbol(<<"rodata", "new">>)>>
    BY <1>1 DEF EmptyPatch
  <2> QED
    BY <2>1, <2>2 DEF Range
<1>3. \A part \in {"data", "text", "rodata"} : SymbolFits(SectionSymbol(<<part, "new">>))
  <2> SUFFICES ASSUME NEW part \in {"data", "text", "rodata"}
               PROVE  SymbolFits(SectionSymbol(<<part, "new">>))
    OBVIOUS
  <2> DEFINE x == <<part, "new">>
  <2>1. Ordinary(x)
    BY DEF Ordinary, UNDEF, COMMON, ABS
  <2>2. \A i \in DOMAIN x : x[i] # ""
    <3>1. \A i \in DOMAIN x : x[i] = part \/ x[i] = "new"
      OBVIOUS
    <3>2. part # ""
      OBVIOUS
    <3> HIDE DEF x
    <3> QED
      BY <3>1, <3>2
  <2> HIDE DEF x
  <2>3. Plain(x)
    BY <2>1, <2>2, Zenon DEF Plain, Range
  <2> QED
    BY <2>3, SectionSymbolFits DEF x
<1>4. SymbolsFit(patch)
  <2> DEFINE a == SectionSymbol(<<"data", "new">>)
             b == SectionSymbol(<<"text", "new">>)
             c == SectionSymbol(<<"rodata", "new">>)
  <2>1. patch.syms = <<a, b, c>> /\ SymbolFits(a) /\ SymbolFits(b) /\ SymbolFits(c)
    BY <1>2, <1>3
  <2> HIDE DEF a, b, c
  <2>2. \A i \in DOMAIN patch.syms : patch.syms[i] \in {a, b, c}
    BY <2>1
  <2> QED
    BY <2>1, <2>2, Zenon DEF SymbolsFit
<1>5. pc \notin Comparing
  BY <1>1 DEF Comparing
<1> QED
  BY <1>2, <1>4, <1>5, Zenon DEF RelocInv, References

LEMMA StepKeepsReloc ==
  ASSUME IInv, CodeInv, RelocInv, [Next]_vars
  PROVE  RelocInv'
<1>1. CASE WalkTrees
  <2>1. pc = "trees" /\ pc' = pc /\ patch' = patch
    BY <1>1 DEF WalkTrees
  <2>2. pc # "dead" /\ pc \notin Comparing
    BY <2>1 DEF Comparing
  <2>3. patch.dies = <<>> /\ SymbolsFit(patch)
    BY <2>1, <2>2, Zenon DEF CodeInv, Progress, RelocInv, References
  <2>4. Range(patch.dies) = {}
    BY <2>3 DEF Range
  <2>5. References(trees', objects', patch, at', pc)
    BY <2>2, <2>3, <2>4, Zenon DEF References
  <2> QED
    BY <2>1, <2>5, Zenon DEF RelocInv
<1>2. CASE WalkDies \/ RefuseObject
  <2>1. pc' = "dead"
    BY <1>2 DEF WalkDies, RefuseObject
  <2> QED
    BY <2>1, Zenon DEF RelocInv, References
<1>3. CASE TreesWalked \/ SkipObject \/ EndObject \/ Finish
  <2>1. /\ trees' = trees /\ objects' = objects /\ patch' = patch /\ pc # "dead"
        /\ pc' \notin Comparing
    BY <1>3 DEF TreesWalked, SkipObject, EndObject, Finish, Here, Comparing
  <2>2. References(trees, objects, patch, at', pc')
    BY <2>1, Zenon DEF RelocInv, References
  <2>3. References(trees', objects', patch', at', pc')
    BY <2>1, <2>2, Zenon
  <2> QED
    BY <2>3, Zenon DEF RelocInv
<1>4. CASE StartUnit \/ NewFunctionsWritten \/ EndUnit
  <2>1. /\ trees' = trees /\ objects' = objects /\ patch' = patch /\ at' = at /\ pc # "dead"
        /\ pc \in Comparing
    BY <1>4 DEF StartUnit, NewFunctionsWritten, EndUnit, Here, Comparing
  <2>2. References(trees, objects, patch, at, pc')
    BY <2>1, Zenon DEF RelocInv, References
  <2>3. References(trees', objects', patch', at', pc')
    BY <2>1, <2>2, Zenon
  <2> QED
    BY <2>3, Zenon DEF RelocInv
<1>5. CASE StartObject \/ NewFunction \/ CompareFunction
  <2>1. trees' = trees /\ objects' = objects /\ at' = at
    BY <1>5 DEF StartObject, NewFunction, CompareFunction, Here
  <2>2. References(trees, objects, patch', at, pc')
    BY <1>5, RelocStartObject, RelocNewFunction, RelocCompareFunction
  <2>3. References(trees', objects', patch', at', pc')
    BY <2>1, <2>2, Zenon
  <2> QED
    BY <2>3, Zenon DEF RelocInv
<1>6. CASE UNCHANGED vars
  <2>1. UNCHANGED <<trees, objects, patch, at, pc>>
    BY <1>6 DEF vars
  <2> QED
    BY <2>1, Zenon DEF RelocInv
<1> QED
  BY <1>1, <1>2, <1>3, <1>4, <1>5, <1>6, Zenon DEF Next

\* Units have one name each, so the object of that name is the one that the
\* function is of.
LEMMA OfThatUnit ==
  ASSUME \E n \in Cases : trees = Version(n), ModifiedAreCommon,
         NEW p, NEW d, From(trees, objects, p, d), NEW path \in ObjectPaths(trees.new),
         NEW cu \in Range(trees.new[path].file.cus), cu.name = d.cu, OneRodata(trees.new[path].file)
  PROVE  ReferencesKept(p, d, trees.new[path].file, Func(cu, d.name))
<1>1. PICK m \in DOMAIN objects :
        /\ objects[m].state = "modified" /\ NewOf(trees, objects, m).dwarf
        /\ FromObject(p, NewOf(trees, objects, m), d)
  BY Zenon DEF From
<1> DEFINE q == objects[m].path
           e == trees.new[q].file
           e2 == trees.new[path].file
<1>2. q \in ObjectPaths(trees.new)
  BY <1>1 DEF ModifiedAreCommon, Common
<1>3. NewOf(trees, objects, m) = e
  BY Zenon DEF NewOf
<1> HIDE DEF q
<1>4. PICK u \in DOMAIN e.cus :
        /\ d.cu = e.cus[u].name /\ d.name \in Names(e.cus[u])
        /\ OneRodata(e) => RefsIn(p, d, e, Func(e.cus[u], d.name))
  BY <1>1, <1>3, Zenon DEF FromObject
<1>5. PICK v \in DOMAIN e2.cus : e2.cus[v] = cu
  BY Zenon DEF Range
<1>6. UnitsDistinct(trees.new)
  BY ObjectsAssumption, Zenon
<1>7. q = path /\ u = v
  <2>1. e.cus[u].name = e2.cus[v].name
    BY <1>4, <1>5
  <2>2. \A x, y \in ObjectPaths(trees.new) :
          \A i \in DOMAIN trees.new[x].file.cus, j \in DOMAIN trees.new[y].file.cus :
            trees.new[x].file.cus[i].name = trees.new[y].file.cus[j].name => x = y /\ i = j
    BY <1>6, Zenon DEF UnitsDistinct
  <2> QED
    BY <1>2, <2>1, <2>2
<1>8. RefsIn(p, d, e2, Func(cu, d.name))
  BY <1>4, <1>5, <1>7, Zenon
<1> QED
  BY <1>8, RefsAreKept

(* A function in the patch refers to what it referred to in its object     *)
(* file, whatever has been written to the patch before it and since: the   *)
(* symbols it is relocated by stand for those of the object, and the       *)
(* addends lead to the same read-only data (writeRelocationsInRange,       *)
(* writeROData, addSymbolFromBinaryToPatch, reindexSectionForPatch).       *)
THEOREM TargetsAreKept == Spec => []RelocationsKeepTheirTargets
<1>1. Init => RelocInv
  BY RelocStarts
<1>2. IInv /\ CodeInv /\ RelocInv /\ [Next]_vars => RelocInv'
  BY StepKeepsReloc
<1>3. CodeInv /\ RelocInv => RelocationsKeepTheirTargets
  <2> SUFFICES ASSUME CodeInv, RelocInv, pc # "dead",
                      NEW d \in Range(patch.dies), NEW path \in ObjectPaths(trees.new),
                      NEW cu \in Range(trees.new[path].file.cus),
                      cu.name = d.cu, OneRodata(trees.new[path].file)
               PROVE  ReferencesKept(patch, d, trees.new[path].file, Func(cu, d.name))
    BY Zenon DEF RelocationsKeepTheirTargets
  <2>1. From(trees, objects, patch, d) /\ (\E n \in Cases : trees = Version(n)) /\ ModifiedAreCommon
    BY Zenon DEF RelocInv, References, CodeInv
  <2> QED
    BY <2>1, OfThatUnit
<1> QED
  BY <1>1, <1>2, <1>3, WalkInvariance, CodeInvariance, PTL DEF Spec
=============================================================================
