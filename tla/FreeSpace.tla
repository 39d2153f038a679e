------------------------------ MODULE FreeSpace ------------------------------
(***************************************************************************)
(* Where the sections of a patch go in the target: the bump allocator of   *)
(* patcher/hotpatch.c (reserveFreeSpaceInTarget, getFreeSpaceInTarget) and *)
(* its use by readAndApplyPatch and katanaPLT of patcher/patchapply.c,     *)
(* which reserve one block for all the sections and then copy them one by  *)
(* one (copyInEntireSection).                                              *)
(*                                                                         *)
(* Addresses are numbers; the kernel's mmap may answer with any free pages *)
(* at or above MmapBase, or with those that it was asked for.              *)
(***************************************************************************)
EXTENDS Integers, FiniteSets

CONSTANTS
  PageSize, WordSize,
  Sizes,            \* sizes that a section may have
  TargetMap,        \* the target's own mappings, a set of intervals
  FirstRegionsEnd,  \* regions[1].high, where the second of them ends
  MmapBase,         \* the kernel chooses addresses from here on ...
  MaxAddr,          \* ... up to here (bound of the address space)
  LowLimit,         \* the first address 32 bits do not reach
  SmallCodeModel    \* textUsesSmallCodeModel

Intervals == { iv \in [lo: Nat, hi: Nat] : iv.lo <= iv.hi }

ASSUME SpaceAssumption ==
  /\ PageSize \in Nat \ {0} /\ WordSize \in Nat \ {0}
  /\ Sizes \subseteq Nat
  /\ TargetMap \subseteq Intervals
  /\ FirstRegionsEnd \in Nat /\ MmapBase \in Nat /\ MaxAddr \in Nat
  /\ LowLimit \in Nat
  /\ SmallCodeModel \in BOOLEAN

Sections ==
  {"text", "rodata", "data", "plt", "got", "gotplt", "relplt", "reltext"}

NoSize == -1    \* of a section the target does not have

VARIABLES
  size,            \* sh_size of every section
  mapped,          \* the intervals katana has mapped into the target
  addrFreeSpace,   \* \ the two globals
  freeSpaceLeft,   \* / of hotpatch.c
  block,           \* what the reservation mapped
  regions,         \* a set of records: section, lo, hi
  pc

vars == <<size, mapped, addrFreeSpace, freeSpaceLeft, block, regions, pc>>

TypeOK ==
  /\ size \in [Sections -> Nat \cup {NoSize}]
  /\ \A s \in Sections \ {"gotplt", "relplt"} : size[s] \in Nat
  /\ mapped \subseteq Intervals
  /\ addrFreeSpace \in Nat
  /\ freeSpaceLeft \in Nat
  /\ block \in Intervals
  /\ regions \subseteq [section: Sections, lo: Nat, hi: Nat]
  /\ pc \in {"reserve", "done", "dead", "assertion"} \cup Sections

Init ==
  /\ \E f \in [Sections -> Sizes], none \in SUBSET {"gotplt", "relplt"} :
        size = [s \in Sections |-> IF s \in none THEN NoSize ELSE f[s]]
  /\ mapped = {} /\ addrFreeSpace = 0 /\ freeSpaceLeft = 0
  /\ block = [lo |-> 0, hi |-> 0]
  /\ regions = {}
  /\ pc = "reserve"

Disjoint(a, b) == a.hi <= b.lo \/ b.hi <= a.lo

RoundUp(n, unit) == ((n + unit - 1) \div unit) * unit

(* The interval iv may be the kernel's answer to mmap(where, its length).  *)
Maps(iv, where) ==
  /\ iv.lo < iv.hi
  /\ \A m \in TargetMap \cup mapped : Disjoint(iv, m)
  /\ LET hint == RoundUp(where, PageSize)
         wanted == [lo |-> hint, hi |-> hint + (iv.hi - iv.lo)]
     IN IF where # 0 /\ \A m \in TargetMap \cup mapped : Disjoint(wanted, m)
        THEN iv = wanted
        ELSE iv.lo >= MmapBase

Pages(n) == RoundUp(n, PageSize)

-----------------------------------------------------------------------------
(* Mutant of Amount: .got.plt is forgotten.                                *)
AmountNoGotPlt ==
  size["text"] + size["rodata"] + size["data"] + size["reltext"]
    + size["got"] + size["plt"]

(* What readAndApplyPatch reserves: the four sections of the patch and the *)
(* target's GOT, PLT and GOTPLT, but not the .rela.plt of the target.      *)
Amount ==
  size["text"] + size["rodata"] + size["data"] + size["reltext"]
    + size["got"] + size["plt"] + size["gotplt"]

(* A word-aligned address past the second region of the memory map.        *)
DesiredAddress ==
  LET a == FirstRegionsEnd + 1 + WordSize IN a - (a % WordSize)

Die(how) ==
  /\ pc' = how
  /\ UNCHANGED <<size, mapped, addrFreeSpace, freeSpaceLeft, block, regions>>

(* reserveFreeSpaceInTarget(amount, desiredAddress), with nothing reserved *)
(* before. getShdrByERS asserts that the target has a .got.plt; mmap of no *)
(* page fails; and the small code model needs low addresses.               *)
ReserveBlock ==
  /\ pc = "reserve"
  /\ \/ size["gotplt"] = NoSize /\ Die("assertion")
     \/ Die("dead")
     \/ /\ size["gotplt"] # NoSize
        /\ \E page \in 0..(MaxAddr \div PageSize) :
             LET lo == page * PageSize
                 iv == [lo |-> lo, hi |-> lo + Pages(Amount)]
             IN /\ Maps(iv, DesiredAddress)
                /\ mapped' = mapped \cup {iv}
                /\ addrFreeSpace' = lo
                /\ freeSpaceLeft' = Pages(Amount)
                /\ block' = iv
                /\ pc' = IF lo >= LowLimit /\ SmallCodeModel THEN "dead" ELSE "text"
        /\ UNCHANGED <<size, regions>>

-----------------------------------------------------------------------------
(* copyInEntireSection of section s, which continues with section `next`.  *)

(* Mutant of Claim: what is handed out stays free.                         *)
ClaimNothing(s, lo, left) ==
  /\ regions' = regions \cup {[section |-> s, lo |-> lo, hi |-> lo + size[s]]}
  /\ addrFreeSpace' = lo
  /\ freeSpaceLeft' = left

(* getFreeSpaceInTarget bumps the free space, of which left bytes from lo. *)
Claim(s, lo, left) ==
  /\ regions' = regions \cup {[section |-> s, lo |-> lo, hi |-> lo + size[s]]}
  /\ addrFreeSpace' = lo + size[s]
  /\ freeSpaceLeft' = left - size[s]

(* Too little is left: it is discarded, and new pages are mapped anywhere. *)
Copy(s, next) ==
  /\ pc = s
  /\ size[s] # NoSize
  /\ pc' = next
  /\ \/ /\ size[s] <= freeSpaceLeft
        /\ Claim(s, addrFreeSpace, freeSpaceLeft)
        /\ UNCHANGED mapped
     \/ /\ size[s] > freeSpaceLeft
        /\ \E page \in 0..(MaxAddr \div PageSize) :
             LET lo == page * PageSize
                 iv == [lo |-> lo, hi |-> lo + Pages(size[s])]
             IN /\ Maps(iv, 0)
                /\ mapped' = mapped \cup {iv}
                /\ Claim(s, lo, Pages(size[s]))
  /\ UNCHANGED <<size, block>>

NewPagesFail(s) ==
  /\ pc = s
  /\ size[s] > freeSpaceLeft
  /\ Die("dead")

(* katanaPLT copies a .rel(a).plt only if there is one; a missing .got.plt *)
(* it would skip as well, but the reservation has asserted that there is.  *)
Skip(s, next) ==
  /\ pc = s
  /\ size[s] = NoSize
  /\ pc' = next
  /\ UNCHANGED <<size, mapped, addrFreeSpace, freeSpaceLeft, block, regions>>

CopyPatchSections ==
  Copy("text", "rodata") \/ Copy("rodata", "data") \/ Copy("data", "plt")

KatanaPLT ==
  \/ Copy("plt", "got") \/ Copy("got", "gotplt")
  \/ Copy("gotplt", "relplt")
  \/ Copy("relplt", "reltext") \/ Skip("relplt", "reltext")

CopyRelocations == Copy("reltext", "done")

Next ==
  \/ ReserveBlock \/ CopyPatchSections \/ KatanaPLT \/ CopyRelocations
  \/ \E s \in Sections : NewPagesFail(s)

Spec == Init /\ [][Next]_vars

-----------------------------------------------------------------------------
(* Properties.                                                             *)

FreeSpaceNow == [lo |-> addrFreeSpace, hi |-> addrFreeSpace + freeSpaceLeft]
Inside(a, b) == b.lo <= a.lo /\ a.hi <= b.hi

(* Every section gets memory of its own: mapped by katana, apart from what *)
(* the target had mapped, from the other sections and from what the next   *)
(* call of getFreeSpaceInTarget may hand out.                              *)
EachSectionHasItsOwnMemory ==
  /\ \A r \in regions :
        /\ \E m \in mapped : Inside(r, m)
        /\ \A m \in TargetMap : Disjoint(r, m)
        /\ Disjoint(r, FreeSpaceNow)
  /\ \A r1, r2 \in regions : r1.section # r2.section => Disjoint(r1, r2)

(* The copies of .got and .got.plt are adjacent: katanaPLT moves the       *)
(* references of the PLT, which name entries of .got.plt, by the distance  *)
(* that .got has moved.                                                    *)
GotPltFollowsGot ==
  \A r1, r2 \in regions :
     r1.section = "got" /\ r2.section = "gotplt" => r2.lo = r1.hi

=============================================================================
