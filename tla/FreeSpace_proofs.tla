--------------------------- MODULE FreeSpace_proofs ---------------------------
(***************************************************************************)
(* Proofs about FreeSpace, for every page size, address space and section  *)
(* size: the sections never share memory.                                  *)
(***************************************************************************)
EXTENDS FreeSpace, TLAPS

USE SpaceAssumption DEF SpaceAssumption

-----------------------------------------------------------------------------
(* Arithmetic of pages.                                                    *)

(* Rounding up yields a natural number that is no smaller (the ceil of     *)
(* reserveFreeSpaceInTarget never maps too little).                        *)
LEMMA RoundUpBounds ==
  ASSUME NEW n \in Nat
  PROVE  Pages(n) \in Nat /\ n <= Pages(n)
<1> DEFINE a == n + PageSize - 1
           q == a \div PageSize
<1>1. a \in Nat /\ PageSize > 0
  OBVIOUS
<1>2. q \in Nat /\ a = PageSize * q + (a % PageSize) /\ a % PageSize \in 0..(PageSize - 1)
  BY <1>1
<1>3. q * PageSize = PageSize * q /\ PageSize * q \in Nat
  BY <1>2
<1> HIDE DEF q
<1>4. a - PageSize * q <= PageSize - 1
  BY <1>1, <1>2, <1>3
<1>5. Pages(n) = PageSize * q
  BY <1>3 DEF Pages, RoundUp, q
<1> QED
  BY <1>3, <1>4, <1>5
(* Memory inside one interval is apart from what that interval is apart    *)
(* from.                                                                   *)
LEMMA InsideDisjoint ==
  ASSUME NEW a, NEW b, NEW c,
         a.lo \in Nat, a.hi \in Nat, b.lo \in Nat, b.hi \in Nat,
         c.lo \in Nat, c.hi \in Nat,
         Inside(a, b), Disjoint(b, c)
  PROVE  Disjoint(a, c) /\ Disjoint(c, a)
BY DEF Inside, Disjoint

-----------------------------------------------------------------------------
(* The inductive invariant.                                                *)

(* What katana mapped is apart from the target's own mappings.             *)
MappedApart == \A m \in mapped, t \in TargetMap : Disjoint(m, t)

(* The free space lies in one mapping, so that what is taken from it does. *)
FreeSpaceMapped ==
  pc \in Sections => \E m \in mapped : Inside(FreeSpaceNow, m)

IInv ==
  TypeOK /\ MappedApart /\ FreeSpaceMapped /\ EachSectionHasItsOwnMemory

(* A section that claims memory of one mapping m that no section and not   *)
(* the target has claimed keeps the sections apart.                        *)
LEMMA ClaimKeeps ==
  ASSUME TypeOK, EachSectionHasItsOwnMemory,
         NEW s \in Sections, size[s] \in Nat,
         NEW lo \in Nat, NEW left \in Nat, size[s] <= left,
         NEW m \in mapped',
         mapped' \subseteq Intervals, mapped \subseteq mapped',
         MappedApart',
         Inside([lo |-> lo, hi |-> lo + left], m),
         \A r \in regions : Disjoint(r, [lo |-> lo, hi |-> lo + left]),
         Claim(s, lo, left)
  PROVE  EachSectionHasItsOwnMemory' /\ Inside(FreeSpaceNow', m)
<1> DEFINE free == [lo |-> lo, hi |-> lo + left]
           new == [section |-> s, lo |-> lo, hi |-> lo + size[s]]
<1>1. /\ regions' = regions \cup {new}
      /\ FreeSpaceNow' = [lo |-> lo + size[s], hi |-> lo + size[s] + (left - size[s])]
  BY DEF Claim, FreeSpaceNow
<1>2. /\ m.lo \in Nat /\ m.hi \in Nat
      /\ \A t \in TargetMap : t.lo \in Nat /\ t.hi \in Nat
      /\ \A r \in regions : r.lo \in Nat /\ r.hi \in Nat
  BY DEF Intervals, TypeOK
<1>3. Inside(new, free) /\ Inside(new, m)
  BY <1>2 DEF Inside
<1>4. Inside(FreeSpaceNow', free) /\ Inside(FreeSpaceNow', m)
  BY <1>1, <1>2 DEF Inside
<1>5. Disjoint(new, FreeSpaceNow')
  BY <1>1 DEF Disjoint
<1>6. \A r \in regions : Disjoint(r, new) /\ Disjoint(new, r) /\ Disjoint(r, FreeSpaceNow')
  <2> SUFFICES ASSUME NEW r \in regions
               PROVE  Disjoint(r, new) /\ Disjoint(new, r) /\ Disjoint(r, FreeSpaceNow')
    OBVIOUS
  <2>1. Disjoint(free, r)
    BY DEF Disjoint
  <2> QED
    BY <1>1, <1>2, <1>3, <1>4, <2>1 DEF Inside, Disjoint
<1>7. \A t \in TargetMap : Disjoint(new, t)
  <2> SUFFICES ASSUME NEW t \in TargetMap PROVE Disjoint(new, t)
    OBVIOUS
  <2>1. Disjoint(m, t)
    BY DEF MappedApart
  <2> QED
    BY <1>2, <1>3, <2>1 DEF Inside, Disjoint
<1>8. \A r \in regions : (\E mm \in mapped : Inside(r, mm)) /\ (\A t \in TargetMap : Disjoint(r, t))
  BY DEF EachSectionHasItsOwnMemory
<1>9. \A r \in regions' :
        /\ \E mm \in mapped' : Inside(r, mm)
        /\ \A t \in TargetMap : Disjoint(r, t)
        /\ Disjoint(r, FreeSpaceNow')
  BY <1>1, <1>3, <1>5, <1>6, <1>7, <1>8
<1>10. \A r1, r2 \in regions' : r1.section # r2.section => Disjoint(r1, r2)
  <2> SUFFICES ASSUME NEW r1 \in regions', NEW r2 \in regions', r1.section # r2.section
               PROVE  Disjoint(r1, r2)
    OBVIOUS
  <2>1. CASE r1 \in regions /\ r2 \in regions
    BY <2>1 DEF EachSectionHasItsOwnMemory
  <2>2. CASE r1 = new \/ r2 = new
    BY <1>1, <1>6, <2>2
  <2> QED
    BY <1>1, <2>1, <2>2
<1> QED
  BY <1>4, <1>9, <1>10 DEF EachSectionHasItsOwnMemory

(* Pages that the kernel maps are an interval apart from all others.       *)
LEMMA MapsInterval ==
  ASSUME TypeOK, MappedApart, NEW page \in Nat, NEW n \in Nat, NEW where \in Nat,
         Maps([lo |-> page * PageSize, hi |-> page * PageSize + Pages(n)], where),
         mapped' = mapped \cup
           {[lo |-> page * PageSize, hi |-> page * PageSize + Pages(n)]}
  PROVE  /\ page * PageSize \in Nat
         /\ mapped' \subseteq Intervals
         /\ MappedApart'
         /\ \A m \in mapped :
              Disjoint([lo |-> page * PageSize, hi |-> page * PageSize + Pages(n)], m)
<1>1. page * PageSize \in Nat
  OBVIOUS
<1> DEFINE lo == page * PageSize
           iv == [lo |-> lo, hi |-> lo + Pages(n)]
<1> HIDE DEF lo
<1>2. lo \in Nat /\ Pages(n) \in Nat
  BY <1>1, RoundUpBounds DEF lo
<1>3. iv \in Intervals
  BY <1>2 DEF Intervals
<1>4. \A m \in TargetMap \cup mapped : Disjoint(iv, m)
  BY DEF Maps, lo
<1>5. mapped' = mapped \cup {iv}
  BY DEF lo
<1> QED
  BY <1>1, <1>3, <1>4, <1>5 DEF MappedApart, TypeOK, lo

(* copyInEntireSection keeps the invariant, whatever comes after it.       *)
LEMMA CopyKeeps ==
  ASSUME IInv, NEW s \in Sections, NEW next \in Sections \cup {"done"}, Copy(s, next)
  PROVE  IInv'
<1>1. size[s] \in Nat /\ pc = s /\ pc' = next /\ size' = size /\ block' = block
  BY DEF Copy, IInv, TypeOK, NoSize
<1>2. CASE /\ size[s] <= freeSpaceLeft
           /\ Claim(s, addrFreeSpace, freeSpaceLeft)
           /\ UNCHANGED mapped
  <2>1. PICK m \in mapped : Inside(FreeSpaceNow, m)
    BY <1>1 DEF IInv, FreeSpaceMapped
  <2>2. mapped' \subseteq Intervals /\ MappedApart'
    BY <1>2 DEF IInv, TypeOK, MappedApart
  <2>3. \A r \in regions : Disjoint(r, FreeSpaceNow)
    BY DEF IInv, EachSectionHasItsOwnMemory
  <2>4. EachSectionHasItsOwnMemory' /\ Inside(FreeSpaceNow', m)
    BY <1>1, <1>2, <2>1, <2>2, <2>3, ClaimKeeps DEF IInv, TypeOK, FreeSpaceNow
  <2>5. TypeOK'
    BY <1>1, <1>2 DEF IInv, TypeOK, Claim
  <2> QED
    BY <1>2, <2>1, <2>2, <2>4, <2>5 DEF IInv, FreeSpaceMapped
<1>3. ASSUME size[s] > freeSpaceLeft,
             NEW page \in 0..(MaxAddr \div PageSize),
             Maps([lo |-> page * PageSize, hi |-> page * PageSize + Pages(size[s])], 0),
             mapped' = mapped \cup
               {[lo |-> page * PageSize, hi |-> page * PageSize + Pages(size[s])]},
             Claim(s, page * PageSize, Pages(size[s]))
      PROVE  IInv'
  <2>1. Pages(size[s]) \in Nat /\ size[s] <= Pages(size[s])
    BY <1>1, RoundUpBounds
  <2>2. page \in Nat
    OBVIOUS
  <2>3. /\ page * PageSize \in Nat
        /\ mapped' \subseteq Intervals
        /\ MappedApart'
        /\ \A m \in mapped :
             Disjoint([lo |-> page * PageSize, hi |-> page * PageSize + Pages(size[s])], m)
    BY <1>1, <1>3, <2>2, MapsInterval DEF IInv
  <2> DEFINE lo == page * PageSize
             iv == [lo |-> lo, hi |-> lo + Pages(size[s])]
  <2> HIDE DEF lo
  <2>4. iv \in mapped' /\ Inside(iv, iv)
    BY <1>3, <2>1, <2>3 DEF Inside, lo
  <2>5. \A r \in regions : Disjoint(r, iv)
    <3> SUFFICES ASSUME NEW r \in regions PROVE Disjoint(r, iv)
      OBVIOUS
    <3>1. PICK m \in mapped : Inside(r, m)
      BY DEF IInv, EachSectionHasItsOwnMemory
    <3>2. Disjoint(m, iv)
      BY <2>3 DEF Disjoint, lo
    <3>3. r.lo \in Nat /\ r.hi \in Nat /\ m.lo \in Nat /\ m.hi \in Nat
      BY DEF IInv, TypeOK, Intervals
    <3>4. lo \in Nat
      BY <2>3 DEF lo
    <3> QED
      BY <2>1, <3>1, <3>2, <3>3, <3>4, InsideDisjoint
  <2>6. EachSectionHasItsOwnMemory' /\ Inside(FreeSpaceNow', iv)
    <3>1. lo \in Nat /\ mapped' \subseteq Intervals /\ mapped \subseteq mapped' /\ MappedApart'
      BY <1>3, <2>3 DEF lo
    <3>2. Claim(s, lo, Pages(size[s]))
      BY <1>3 DEF lo
    <3> HIDE DEF iv
    <3>3. iv = [lo |-> lo, hi |-> lo + Pages(size[s])]
      BY DEF iv
    <3> QED
      BY <1>1, <2>1, <2>4, <2>5, <3>1, <3>2, <3>3, ClaimKeeps DEF IInv
  <2>7. TypeOK'
    BY <1>1, <1>3, <2>1, <2>3 DEF IInv, TypeOK, Claim
  <2> QED
    BY <2>3, <2>4, <2>6, <2>7 DEF IInv, FreeSpaceMapped
<1> QED
  BY <1>2, <1>3 DEF Copy

(* A step that only moves on to `how` keeps the invariant.                 *)
LEMMA MoveOnKeeps ==
  ASSUME IInv, pc \in Sections \/ pc' \notin Sections,
         pc' \in {"reserve", "done", "dead", "assertion"} \cup Sections,
         UNCHANGED <<size, mapped, addrFreeSpace, freeSpaceLeft, block, regions>>
  PROVE  IInv'
BY DEF IInv, TypeOK, MappedApart, FreeSpaceMapped, EachSectionHasItsOwnMemory, FreeSpaceNow

(* The reservation maps one free interval and claims none of it yet.       *)
LEMMA ReserveKeeps ==
  ASSUME IInv, regions = {}, pc = "reserve", size["gotplt"] # NoSize,
         NEW page \in 0..(MaxAddr \div PageSize),
         Maps([lo |-> page * PageSize, hi |-> page * PageSize + Pages(Amount)],
              DesiredAddress),
         mapped' = mapped \cup
           {[lo |-> page * PageSize, hi |-> page * PageSize + Pages(Amount)]},
         addrFreeSpace' = page * PageSize,
         freeSpaceLeft' = Pages(Amount),
         block' = [lo |-> page * PageSize, hi |-> page * PageSize + Pages(Amount)],
         pc' \in {"dead", "text"},
         UNCHANGED <<size, regions>>
  PROVE  IInv' /\ Amount \in Nat /\ Amount <= freeSpaceLeft'
<1>1. /\ size["gotplt"] \in Nat /\ size["text"] \in Nat /\ size["rodata"] \in Nat
      /\ size["data"] \in Nat /\ size["reltext"] \in Nat /\ size["got"] \in Nat
      /\ size["plt"] \in Nat
  BY DEF IInv, TypeOK, Sections
<1>2. Amount \in Nat
  BY <1>1 DEF Amount
<1>3. Pages(Amount) \in Nat /\ Amount <= Pages(Amount)
  BY <1>2, RoundUpBounds
<1>4. DesiredAddress \in Nat
  <2>1. WordSize \in Nat /\ WordSize > 0 /\ FirstRegionsEnd + 1 + WordSize \in Nat
    OBVIOUS
  <2> DEFINE a == FirstRegionsEnd + 1 + WordSize
  <2>2. a % WordSize \in 0..(WordSize - 1)
    BY <2>1
  <2> QED
    BY <2>1, <2>2 DEF DesiredAddress
<1>5. /\ page * PageSize \in Nat
      /\ mapped' \subseteq Intervals
      /\ MappedApart'
  <2>1. page \in Nat
    OBVIOUS
  <2> QED
    BY <1>2, <1>4, <2>1, MapsInterval DEF IInv
<1> DEFINE lo == page * PageSize
           iv == [lo |-> lo, hi |-> lo + Pages(Amount)]
<1> HIDE DEF lo
<1>6. lo \in Nat /\ block' = iv /\ iv \in mapped' /\ addrFreeSpace' = lo
  BY <1>5 DEF lo
<1>7. TypeOK'
  <2>1. iv \in Intervals
    BY <1>3, <1>6 DEF Intervals
  <2> QED
    BY <1>3, <1>5, <1>6, <2>1 DEF IInv, TypeOK, Sections
<1>8. FreeSpaceMapped'
  <2>1. FreeSpaceNow' = iv
    BY <1>6 DEF FreeSpaceNow
  <2>2. Inside(iv, iv)
    BY <1>3, <1>6 DEF Inside
  <2> QED
    BY <1>6, <2>1, <2>2 DEF FreeSpaceMapped
<1>9. EachSectionHasItsOwnMemory'
  BY DEF EachSectionHasItsOwnMemory
<1> QED
  BY <1>2, <1>3, <1>5, <1>7, <1>8, <1>9 DEF IInv

-----------------------------------------------------------------------------
(* What the reservation is for: until the copy of .got.plt, the planned    *)
(* sections still to come fit in what is left of the block.                *)

Upto(s) ==
  CASE s = "text" -> {"reserve", "text"}
    [] s = "got" -> {"reserve", "text", "rodata", "data", "plt", "got"}
    [] s = "gotplt" -> {"reserve", "text", "rodata", "data", "plt", "got", "gotplt"}

Budget ==
  /\ regions # {} => pc # "reserve"
  /\ pc \in Sections => size["gotplt"] # NoSize
  /\ \A r \in regions :
       /\ r.section = "got" => pc \notin Upto("got")
       /\ r.section = "gotplt" => pc \notin Upto("gotplt")
       /\ r.section = "got" /\ pc = "gotplt" => r.hi = addrFreeSpace
  /\ pc = "text" => freeSpaceLeft >= Amount
  /\ pc = "rodata" =>
       freeSpaceLeft >= size["rodata"] + size["data"] + size["reltext"]
                          + size["got"] + size["plt"] + size["gotplt"]
  /\ pc = "data" =>
       freeSpaceLeft >= size["data"] + size["reltext"] + size["got"]
                          + size["plt"] + size["gotplt"]
  /\ pc = "plt" =>
       freeSpaceLeft >= size["reltext"] + size["got"] + size["plt"] + size["gotplt"]
  /\ pc = "got" => freeSpaceLeft >= size["reltext"] + size["got"] + size["gotplt"]
  /\ pc = "gotplt" => freeSpaceLeft >= size["reltext"] + size["gotplt"]

IInv2 == IInv /\ Budget /\ GotPltFollowsGot

(* A section of the plan fits in the block, and the copy takes its bytes.  *)
LEMMA PlannedFits ==
  ASSUME IInv, Budget,
         NEW s \in {"text", "rodata", "data", "plt", "got", "gotplt"},
         NEW next, Copy(s, next)
  PROVE  /\ regions' = regions \cup
              {[section |-> s, lo |-> addrFreeSpace, hi |-> addrFreeSpace + size[s]]}
         /\ addrFreeSpace' = addrFreeSpace + size[s]
         /\ freeSpaceLeft' = freeSpaceLeft - size[s]
         /\ size' = size /\ pc = s /\ pc' = next
         /\ \A t \in Sections \ {"relplt"} : size[t] \in Nat
<1>1. pc = s /\ pc' = next /\ size' = size
  BY DEF Copy
<1>2. \A t \in Sections \ {"relplt"} : size[t] \in Nat
  BY <1>1 DEF IInv, TypeOK, Budget, Sections, NoSize
<1>3. freeSpaceLeft \in Nat /\ size[s] <= freeSpaceLeft
  <2>1. /\ size["gotplt"] \in Nat /\ size["text"] \in Nat /\ size["rodata"] \in Nat
        /\ size["data"] \in Nat /\ size["reltext"] \in Nat /\ size["got"] \in Nat
        /\ size["plt"] \in Nat
    BY <1>2 DEF Sections
  <2> QED
    BY <1>1, <2>1 DEF IInv, TypeOK, Budget, Amount
<1>4. Claim(s, addrFreeSpace, freeSpaceLeft)
  <2>1. ~(size[s] > freeSpaceLeft)
    BY <1>2, <1>3 DEF Sections
  <2> QED
    BY <2>1 DEF Copy
<1> QED
  BY <1>1, <1>2, <1>4 DEF Claim

-----------------------------------------------------------------------------
(* The theorems.                                                           *)

LEMMA InitIInv2 == Init => IInv2
<1> SUFFICES ASSUME Init PROVE IInv2
  OBVIOUS
<1>1. TypeOK
  <2>1. PICK f \in [Sections -> Sizes], none \in SUBSET {"gotplt", "relplt"} :
           size = [s \in Sections |-> IF s \in none THEN NoSize ELSE f[s]]
    BY DEF Init
  <2>2. \A s \in Sections : size[s] \in Nat \cup {NoSize}
    BY <2>1
  <2>3. \A s \in Sections \ {"gotplt", "relplt"} : size[s] \in Nat
    BY <2>1
  <2>4. size \in [Sections -> Nat \cup {NoSize}]
    BY <2>1, <2>2
  <2>5. block \in Intervals
    BY DEF Init, Intervals
  <2> QED
    BY <2>3, <2>4, <2>5 DEF Init, TypeOK
<1>2. MappedApart /\ FreeSpaceMapped /\ EachSectionHasItsOwnMemory
  BY DEF Init, MappedApart, FreeSpaceMapped, EachSectionHasItsOwnMemory, Sections
<1>3. Budget /\ GotPltFollowsGot
  BY DEF Init, Budget, GotPltFollowsGot, Sections
<1> QED
  BY <1>1, <1>2, <1>3 DEF IInv2, IInv

(* A copy of a planned section, each with the rest of the plan.            *)
LEMMA PlannedKeepsBudget ==
  ASSUME IInv2,
         \/ CopyPatchSections
         \/ Copy("plt", "got") \/ Copy("got", "gotplt") \/ Copy("gotplt", "relplt")
  PROVE  Budget' /\ GotPltFollowsGot'
<1> USE DEF IInv2
<1>0. freeSpaceLeft \in Nat /\ addrFreeSpace \in Nat
      /\ \A r \in regions : r.lo \in Nat /\ r.hi \in Nat
  BY DEF IInv, TypeOK
<1>1. CASE Copy("text", "rodata")
  <2>1. /\ regions' = regions \cup
             {[section |-> "text", lo |-> addrFreeSpace, hi |-> addrFreeSpace + size["text"]]}
        /\ freeSpaceLeft' = freeSpaceLeft - size["text"]
        /\ size' = size /\ pc = "text" /\ pc' = "rodata"
        /\ \A t \in Sections \ {"relplt"} : size[t] \in Nat
    BY <1>1, PlannedFits
  <2> QED
    BY <1>0, <2>1 DEF Budget, GotPltFollowsGot, Upto, Amount, Sections, NoSize
<1>2. CASE Copy("rodata", "data")
  <2>1. /\ regions' = regions \cup
             {[section |-> "rodata", lo |-> addrFreeSpace, hi |-> addrFreeSpace + size["rodata"]]}
        /\ freeSpaceLeft' = freeSpaceLeft - size["rodata"]
        /\ size' = size /\ pc = "rodata" /\ pc' = "data"
        /\ \A t \in Sections \ {"relplt"} : size[t] \in Nat
    BY <1>2, PlannedFits
  <2> QED
    BY <1>0, <2>1 DEF Budget, GotPltFollowsGot, Upto, Sections, NoSize
<1>3. CASE Copy("data", "plt")
  <2>1. /\ regions' = regions \cup
             {[section |-> "data", lo |-> addrFreeSpace, hi |-> addrFreeSpace + size["data"]]}
        /\ freeSpaceLeft' = freeSpaceLeft - size["data"]
        /\ size' = size /\ pc = "data" /\ pc' = "plt"
        /\ \A t \in Sections \ {"relplt"} : size[t] \in Nat
    BY <1>3, PlannedFits
  <2> QED
    BY <1>0, <2>1 DEF Budget, GotPltFollowsGot, Upto, Sections, NoSize
<1>4. CASE Copy("plt", "got")
  <2>1. /\ regions' = regions \cup
             {[section |-> "plt", lo |-> addrFreeSpace, hi |-> addrFreeSpace + size["plt"]]}
        /\ freeSpaceLeft' = freeSpaceLeft - size["plt"]
        /\ size' = size /\ pc = "plt" /\ pc' = "got"
        /\ \A t \in Sections \ {"relplt"} : size[t] \in Nat
    BY <1>4, PlannedFits
  <2> QED
    BY <1>0, <2>1 DEF Budget, GotPltFollowsGot, Upto, Sections, NoSize
<1>5. CASE Copy("got", "gotplt")
  <2>1. /\ regions' = regions \cup
             {[section |-> "got", lo |-> addrFreeSpace, hi |-> addrFreeSpace + size["got"]]}
        /\ addrFreeSpace' = addrFreeSpace + size["got"]
        /\ freeSpaceLeft' = freeSpaceLeft - size["got"]
        /\ size' = size /\ pc = "got" /\ pc' = "gotplt"
        /\ \A t \in Sections \ {"relplt"} : size[t] \in Nat
    BY <1>5, PlannedFits
  <2> QED
    BY <1>0, <2>1 DEF Budget, GotPltFollowsGot, Upto, Sections, NoSize
<1>6. CASE Copy("gotplt", "relplt")
  <2>1. /\ regions' = regions \cup
             {[section |-> "gotplt", lo |-> addrFreeSpace, hi |-> addrFreeSpace + size["gotplt"]]}
        /\ size' = size /\ pc = "gotplt" /\ pc' = "relplt"
        /\ \A t \in Sections \ {"relplt"} : size[t] \in Nat
    BY <1>6, PlannedFits
  <2>2. GotPltFollowsGot'
    BY <1>0, <2>1 DEF Budget, GotPltFollowsGot, Upto
  <2> QED
    BY <1>0, <2>1, <2>2 DEF Budget, Upto, Sections, NoSize
<1> QED
  BY <1>1, <1>2, <1>3, <1>4, <1>5, <1>6 DEF CopyPatchSections

(* The copies that the plan does not count come after the ones it does.    *)
LEMMA UnplannedKeepsBudget ==
  ASSUME IInv2, Copy("relplt", "reltext") \/ Copy("reltext", "done")
  PROVE  Budget' /\ GotPltFollowsGot'
<1>0. ASSUME NEW s \in {"relplt", "reltext"}, NEW next, Copy(s, next)
      PROVE  /\ pc = s /\ pc' = next /\ size' = size
             /\ \A r \in regions' : r \in regions \/ r.section = s
  <2>1. PICK lo : regions' = regions \cup
                    {[section |-> s, lo |-> lo, hi |-> lo + size[s]]}
    BY <1>0 DEF Copy, Claim
  <2> QED
    BY <1>0, <2>1 DEF Copy
<1>1. /\ pc \in {"relplt", "reltext"} /\ pc' \in {"reltext", "done"} /\ size' = size
      /\ \A r \in regions' : r \in regions \/ r.section \in {"relplt", "reltext"}
  BY <1>0
<1> QED
  BY <1>1 DEF IInv2, Budget, GotPltFollowsGot, Upto, Sections

LEMMA ReserveKeeps2 == IInv2 /\ ReserveBlock => IInv2'
<1> SUFFICES ASSUME IInv2, ReserveBlock PROVE IInv2'
  OBVIOUS
<1>0. regions = {} /\ pc = "reserve"
  BY DEF ReserveBlock, IInv2, Budget
<1>1. ASSUME NEW how \in {"assertion", "dead"}, Die(how) PROVE IInv2'
  <2>1. IInv'
    BY <1>1, MoveOnKeeps DEF Die, IInv2, Sections
  <2> QED
    BY <1>0, <1>1, <2>1 DEF Die, IInv2, Budget, GotPltFollowsGot, Sections
<1>2. ASSUME size["gotplt"] # NoSize,
             NEW page \in 0..(MaxAddr \div PageSize),
             Maps([lo |-> page * PageSize, hi |-> page * PageSize + Pages(Amount)],
                  DesiredAddress),
             mapped' = mapped \cup
               {[lo |-> page * PageSize, hi |-> page * PageSize + Pages(Amount)]},
             addrFreeSpace' = page * PageSize,
             freeSpaceLeft' = Pages(Amount),
             block' = [lo |-> page * PageSize, hi |-> page * PageSize + Pages(Amount)],
             pc' \in {"dead", "text"},
             UNCHANGED <<size, regions>>
      PROVE  IInv2'
  <2>1. IInv' /\ Amount \in Nat /\ Amount <= freeSpaceLeft'
    BY <1>0, <1>2, ReserveKeeps DEF IInv2
  <2>2. Amount' = Amount
    BY <1>2 DEF Amount
  <2>3. freeSpaceLeft' \in Nat
    BY <2>1 DEF IInv, TypeOK
  <2>4. Budget' /\ GotPltFollowsGot'
    BY <1>0, <1>2, <2>1, <2>2, <2>3 DEF Budget, GotPltFollowsGot, Sections
  <2> QED
    BY <2>1, <2>4 DEF IInv2
<1> QED
  BY <1>1, <1>2 DEF ReserveBlock

LEMMA IInv2Inductive == IInv2 /\ [Next]_vars => IInv2'
<1> SUFFICES ASSUME IInv2, [Next]_vars PROVE IInv2'
  OBVIOUS
<1>1. CASE ReserveBlock
  BY <1>1, ReserveKeeps2
<1>2. CASE \/ CopyPatchSections
           \/ Copy("plt", "got") \/ Copy("got", "gotplt") \/ Copy("gotplt", "relplt")
  <2>1. IInv'
    BY <1>2, CopyKeeps DEF CopyPatchSections, Sections, IInv2
  <2> QED
    BY <1>2, <2>1, PlannedKeepsBudget DEF IInv2
<1>3. CASE Copy("relplt", "reltext") \/ Copy("reltext", "done")
  <2>1. IInv'
    BY <1>3, CopyKeeps DEF Sections, IInv2
  <2> QED
    BY <1>3, <2>1, UnplannedKeepsBudget DEF IInv2
<1>4. CASE Skip("relplt", "reltext")
  <2>1. IInv'
    BY <1>4, MoveOnKeeps DEF Skip, IInv2, Sections
  <2> QED
    BY <1>4, <2>1 DEF Skip, IInv2, Budget, GotPltFollowsGot, Upto, Sections
<1>5. ASSUME NEW s \in Sections, NewPagesFail(s) PROVE IInv2'
  <2>1. IInv'
    BY <1>5, MoveOnKeeps DEF NewPagesFail, Die, IInv2, Sections
  <2> QED
    BY <1>5, <2>1 DEF NewPagesFail, Die, IInv2, Budget, GotPltFollowsGot, Upto, Sections
<1>6. CASE UNCHANGED vars
  BY <1>6 DEF vars, IInv2, IInv, TypeOK, MappedApart, FreeSpaceMapped,
     EachSectionHasItsOwnMemory, FreeSpaceNow, Budget, GotPltFollowsGot, Amount
<1> QED
  BY <1>1, <1>2, <1>3, <1>4, <1>5, <1>6 DEF Next, KatanaPLT, CopyRelocations

LEMMA Invariance == Spec => []IInv2
BY InitIInv2, IInv2Inductive, PTL DEF Spec

(* Every variable keeps its type; in particular the free space never       *)
(* becomes negative, whatever sizes are asked for (hotpatch.c).            *)
THEOREM TypeCorrect == Spec => []TypeOK
<1>1. IInv2 => TypeOK
  BY DEF IInv2, IInv
<1> QED
  BY <1>1, Invariance, PTL

(* Whatever the sizes of the sections and the answers of the kernel, every *)
(* section that copyInEntireSection copies has memory of its own.          *)
THEOREM SectionsApart == Spec => []EachSectionHasItsOwnMemory
<1>1. IInv2 => EachSectionHasItsOwnMemory
  BY DEF IInv2, IInv
<1> QED
  BY <1>1, Invariance, PTL

(* The reservation is large enough to keep the copies of .got and .got.plt *)
(* together, on which katanaPLT's fixups of the PLT rely.                  *)
THEOREM GotAndGotPltAdjacent == Spec => []GotPltFollowsGot
<1>1. IInv2 => GotPltFollowsGot
  BY DEF IInv2
<1> QED
  BY <1>1, Invariance, PTL
=============================================================================
