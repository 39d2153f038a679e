------------------------------ MODULE ObjectFile ------------------------------
(***************************************************************************)
(* What katana looks up in an ELF object: sections (elfparse.c,            *)
(* elfutil.c), symbols (symbol.c) and relocations (relocation.c).          *)
(*                                                                         *)
(* An object is [dwarf, rel, cus, sections, syms].  A section is           *)
(* [name, data, relocs], where relocs are the entries of its relocation    *)
(* section, which has them in the order of their places; its name is the   *)
(* tuple of the parts between the dots.  A symbol is [name, bind, type,    *)
(* scn, value], where scn is the name of its section, or one of the three  *)
(* below.  The name is without the version.  A relocation is [at, kind,    *)
(* sym, addend]; in an object with SHT_REL relocations (rel), addend is    *)
(* the word at that place.                                                 *)
(***************************************************************************)
EXTENDS Integers, Sequences, FiniteSets, SequencesExt

\* sizeof(addr_t): a katana for 32 bits reads objects with SHT_REL.
AddrSize(e) == IF e.rel THEN 4 ELSE 8

UNDEF  == <<"UNDEF">>
COMMON == <<"COMMON">>
ABS    == <<"ABS">>

Ordinary(scn) == scn \notin {UNDEF, COMMON, ABS}

NONE == 0    \* no section, or STN_UNDEF

Symbol == [name : STRING, bind : STRING, type : STRING, scn : Seq(STRING), value : Nat]

\* The symbols of sections, and no others, have no names.
AreSymbols(syms) ==
  /\ syms \in Seq(Symbol)
  /\ \A s \in Range(syms) :
       /\ s.type = "SECTION" <=> s.name = ""
       /\ s.type = "SECTION" => s.bind = "LOCAL" /\ Ordinary(s.scn) /\ "" \notin Range(s.scn)

IsObject(e) ==
  /\ e.rel \in BOOLEAN /\ AreSymbols(e.syms)
  /\ e.sections \in Seq([name : Seq(STRING), data : Seq(0..255),
                         relocs : SUBSET [at : Nat, kind : STRING, sym : DOMAIN e.syms, addend : Int]])
  /\ \A scn \in Range(e.sections) :
       IsFiniteSet(scn.relocs) /\ \A r, q \in scn.relocs : r.at = q.at => r = q

FirstIn(S) == IF S = {} THEN NONE ELSE CHOOSE x \in S : \A y \in S : x <= y
LastIn(S)  == IF S = {} THEN NONE ELSE CHOOSE x \in S : \A y \in S : x >= y

-----------------------------------------------------------------------------
\* A section that katana knows: the last whose name begins so.
sectionIndices(e, part) == LastIn({i \in DOMAIN e.sections : e.sections[i].name[1] = part})

hasERS(e, part) == sectionIndices(e, part) # NONE

getSectionByName(e, name) == FirstIn({i \in DOMAIN e.sections : e.sections[i].name = name})

\* Where a function's text is: in a section of its own, with
\* -ffunction-sections, or in the section taken for .text.
TextOf(e, fn) ==
  LET own == getSectionByName(e, <<"text", fn>>)
  IN  IF own # NONE THEN own ELSE sectionIndices(e, "text")

-----------------------------------------------------------------------------
(* Symbols.                                                                 *)

\* -ffunction-sections and -fdata-sections append the symbol's name.
Stripped(scn, name) == IF Len(scn) > 1 /\ Last(scn) = name THEN Front(scn) ELSE scn

\* Is s2, of one object, the symbol s of another?
IsSymbol(s, s2) ==
  /\ s2.name = s.name \/ (s.type = "SECTION" /\ s2.type = "SECTION")
  /\ s2.bind = s.bind
  /\ "NOTYPE" \in {s.type, s2.type} \/ s2.type = s.type
  /\ \/ {s.scn, s2.scn} \cap {UNDEF, COMMON} # {}
     \/ Stripped(s.scn, s.name) = Stripped(s2.scn, s.name)

\* The last one is taken.
findSymbol(e, sym) == LastIn({i \in DOMAIN e.syms : IsSymbol(sym, e.syms[i])})

getSymtabIdx(e, name) == FirstIn({i \in DOMAIN e.syms : e.syms[i].name = name})

-----------------------------------------------------------------------------
(* Relocations.                                                             *)

\* Those of the function's own section, or else of .text.
getRelocationSection(e, fn) ==
  LET Relocated(name) == {i \in DOMAIN e.sections : e.sections[i].name = name
                                                    /\ e.sections[i].relocs # {}}
      own == FirstIn(Relocated(<<"text", fn>>))
  IN  IF own # NONE THEN own ELSE FirstIn(Relocated(<<"text">>))

\* The addend, from the word in place.
computeAddend(e, r) ==
  LET sym == e.syms[r.sym]
      symVal == IF sym.scn = COMMON THEN 0 ELSE sym.value
      computation == r.addend - symVal + r.at + AddrSize(e)
  IN  IF r.kind = "32" THEN r.addend - symVal
      ELSE IF symVal = 0 /\ computation = r.at THEN -AddrSize(e)
      ELSE computation

\* Both bounds are inclusive.
getRelocationItemsInRange(e, scn, low, high) ==
  LET Read(r) == IF e.rel THEN [r EXCEPT !.addend = computeAddend(e, r)] ELSE r
  IN  IF scn = NONE THEN {} ELSE {Read(r) : r \in {r \in e.sections[scn].relocs : low <= r.at /\ r.at <= high}}

RelocationsOf(e, f) ==
  getRelocationItemsInRange(e, getRelocationSection(e, f.name), f.low, f.high)

\* The list of relocations R, no two of which are for one place.
InOrder(R) ==
  [k \in 1..Cardinality(R) |-> CHOOSE r \in R : Cardinality({q \in R : q.at <= r.at}) = k]
===============================================================================
