------------------------------- MODULE CodeDiff -------------------------------
(***************************************************************************)
(* Whether the new version of a function is the same code as the old one   *)
(* (areSubprogramsIdentical, patchwrite/codediff.c).  A function is        *)
(* [name, low, high, variadic].                                            *)
(***************************************************************************)
EXTENDS ObjectFile

Relocated(relocs, k, addr) == k <= Len(relocs) /\ relocs[k].at = addr

\* By kind, not by name.
SymbolsAgreeInKind(s1, s2) == s1.type = s2.type /\ s1.bind = s2.bind

SymbolsAgree(s1, s2) == s1.name = s2.name /\ s1.type = s2.type /\ s1.bind = s2.bind

\* Symbols of which one has no section: the comparison is broken off there.
SpecialSectionsDiffer(s1, s2) ==
  s1.scn # s2.scn /\ ~(Ordinary(s1.scn) /\ Ordinary(s2.scn))

\* Are the functions the same from byte i on, where the kth relocation is
\* next (Same[i][k])?  A relocation counts for as many bytes as an address
\* has, though what it relocates may have 4.  One that lies within those bytes
\* is never come to, nor is one after it.
SameFrom(e1, f, e2, g) ==
  LET len == f.high - f.low
      relocs1 == InOrder(RelocationsOf(e1, f))
      relocs2 == InOrder(RelocationsOf(e2, g))
      text1 == e1.sections[TextOf(e1, f.name)].data
      text2 == e2.sections[TextOf(e2, g.name)].data
      Same[i \in Nat] ==
        [k \in Nat |->
           LET old == Relocated(relocs1, k, f.low + i)
               new == Relocated(relocs2, k, g.low + i)
               s1  == e1.syms[relocs1[k].sym]
               s2  == e2.syms[relocs2[k].sym]
           IN  \/ i >= len
               \/ /\ old /\ new /\ SymbolsAgree(s1, s2)
                  /\ \/ SpecialSectionsDiffer(s1, s2)
                     \/ /\ s1.scn = s2.scn
                        /\ relocs1[k].addend = relocs2[k].addend
                        /\ Same[i + AddrSize(e1)][k + 1]
               \/ /\ ~old /\ ~new
                  /\ text1[f.low + i + 1] = text2[g.low + i + 1]
                  /\ Same[i + 1][k]]
  IN  Same

areSubprogramsIdentical(e1, f, e2, g) ==
  /\ f.high - f.low = g.high - g.low
  /\ Cardinality(RelocationsOf(e1, f)) = Cardinality(RelocationsOf(e2, g))
  /\ SameFrom(e1, f, e2, g)[0][1]
===============================================================================
