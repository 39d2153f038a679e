------------------------------ MODULE PatchUnits ------------------------------
(***************************************************************************)
(* The code of a patch: from two source trees to the text, read-only data, *)
(* relocations and symbols of a patch object (createPatch and what it      *)
(* calls for functions, patchwrite/patchwrite.c, with elfwriter.c).        *)
(*                                                                         *)
(* Variables and types are another matter (PatchGen).                      *)
(***************************************************************************)
EXTENDS SourceTree, CodeDiff

VARIABLES
  patch,   \* the patch object
  at,      \* the object file it has come to
  unit,    \* the unit of the old version of it
  left,    \* functions of the unit still to be looked at
  pc

vars == <<trees, walk, objects, patch, at, unit, left, pc>>

-----------------------------------------------------------------------------
(* The patch object.                                                        *)

SectionSymbol(scn) ==
  [name |-> "", bind |-> "LOCAL", type |-> "SECTION", scn |-> scn, value |-> 0]

\* startPatchElf and createSections: of the sections it has from the start,
\* those that symbols may refer to.
EmptyPatch ==
  [text |-> <<>>, rodata |-> <<>>, relas |-> <<>>, dies |-> <<>>, unsafe |-> <<>>,
   syms |-> <<SectionSymbol(<<"data", "new">>), SectionSymbol(<<"text", "new">>),
              SectionSymbol(<<"rodata", "new">>)>>,
   rodataOffset |-> 0, died |-> FALSE]

addSymtabEntry(p, sym) == [p EXCEPT !.syms = Append(@, sym)]

\* All read-only data goes to one section.  Any other the patch has already,
\* or gets with nothing in it, for the symbol.
PatchSection(scn) == IF scn = <<"rodata">> THEN <<"rodata", "new">> ELSE scn

reindexSectionForPatch(p, scn) ==
  LET sym == SectionSymbol(PatchSection(scn))
  IN  IF sym \in Range(p.syms) THEN p ELSE addSymtabEntry(p, sym)

\* The patch with a symbol that stands for the one of the object file: it is
\* looked for in the new binary first, then in the patch.
WithSymbol(p, sym) ==
  IF findSymbol(p, sym) # NONE THEN p ELSE addSymtabEntry(p, sym)

addSymbolFromBinaryToPatch(p, e, idx) ==
  LET inNew == IF idx = NONE THEN NONE ELSE findSymbol(trees.binary, e.syms[idx])
      s     == trees.binary.syms[inNew]
      sym   == [s EXCEPT !.scn = IF s.type = "SECTION" THEN PatchSection(s.scn) ELSE UNDEF]
      q     == WithSymbol(IF s.type = "SECTION" THEN reindexSectionForPatch(p, s.scn) ELSE p, sym)
  IN  IF inNew = NONE THEN [patch |-> [p EXCEPT !.died = TRUE], sym |-> NONE]
      ELSE [patch |-> q, sym |-> findSymbol(q, sym)]

\* The offset is taken when the data is there.
writeRODataThenOffset(p, e) ==
  IF ~hasERS(e, "rodata") THEN p
  ELSE LET q == [p EXCEPT !.rodata = @ \o e.sections[sectionIndices(e, "rodata")].data]
       IN  [q EXCEPT !.rodataOffset = Len(q.rodata)]

\* All read-only data of an object, wanted or not.
writeROData(p, e) ==
  IF ~hasERS(e, "rodata") THEN p
  ELSE LET q == [p EXCEPT !.rodataOffset = Len(p.rodata)]
       IN  [q EXCEPT !.rodata = @ \o e.sections[sectionIndices(e, "rodata")].data]

\* A relocation of the function f, which is at base in the patch.
writeRelocation(p, e, f, base, r) ==
  LET added == addSymbolFromBinaryToPatch(p, e, r.sym)
      rebased == e.syms[r.sym].scn = e.sections[sectionIndices(e, "rodata")].name
      rela == [at |-> r.at - f.low + base, kind |-> r.kind, sym |-> added.sym,
               addend |-> IF rebased THEN r.addend + p.rodataOffset ELSE r.addend]
  IN  [added.patch EXCEPT !.relas = Append(@, rela)]

\* An object without read-only data fails an assertion here.
writeRelocationsInRange(p, e, f, base) ==
  LET relocs == InOrder(RelocationsOf(e, f))
      written[k \in 0..Len(relocs)] ==
        IF k = 0 THEN p ELSE writeRelocation(written[k - 1], e, f, base, relocs[k])
  IN  IF ~hasERS(e, "rodata") THEN [p EXCEPT !.died = TRUE] ELSE written[Len(relocs)]

\* The text, a symbol of it, the relocations, and (writeFuncToDwarf) a DIE.
writeFuncToPatchText(p, e, f, cu, new) ==
  LET base == Len(p.text)
      q    == addSymtabEntry([p EXCEPT !.text = @ \o SubSeq(e.sections[TextOf(e, f.name)].data,
                                                            f.low + 1, f.high)],
                             [name |-> f.name, bind |-> "GLOBAL", type |-> "FUNC",
                              scn |-> <<"text", "new">>, value |-> base])
      die  == [cu |-> cu.name, name |-> f.name, low |-> base,
               high |-> base + f.high - f.low, sym |-> Len(q.syms), new |-> new]
  IN  [writeRelocationsInRange(q, e, f, base) EXCEPT !.dies = Append(@, die)]

addUnsafeSubprogram(p, e, f) ==
  LET added == addSymbolFromBinaryToPatch(p, e, getSymtabIdx(e, f.name))
  IN  [added.patch EXCEPT !.unsafe = Append(@, added.sym)]

-----------------------------------------------------------------------------
Object == objects[at]
OldElf == trees.old[Object.path].file    \* getOriginalObject
NewElf == trees.new[Object.path].file    \* getModifiedObject

\* The unit of the same name is looked for in the same object only.
NewUnits(e1, e2, u) == {v \in DOMAIN e2.cus : e2.cus[v].name = e1.cus[u].name}

cuOld == OldElf.cus[unit]
cuNew == NewElf.cus[FirstIn(NewUnits(OldElf, NewElf, unit))]

Names(cu) == {f.name : f \in Range(cu.funcs)}
Func(cu, name) == CHOOSE f \in Range(cu.funcs) : f.name = name

Init ==
  /\ TreeInit
  /\ patch = EmptyPatch
  /\ at = 1 /\ unit = 1 /\ left = {}
  /\ pc = "trees"

GoOn(where) == pc' = IF patch'.died THEN "dead" ELSE where

Here(place) == pc = place /\ UNCHANGED <<trees, walk, objects>>

-----------------------------------------------------------------------------
WalkTrees ==
  /\ pc = "trees" /\ TreeNext
  /\ UNCHANGED <<patch, at, unit, left, pc>>

\* A file ending in .o that is a directory in the other tree.
WalkDies ==
  /\ Here("trees") /\ Bewildered
  /\ pc' = "dead"
  /\ UNCHANGED <<patch, at, unit, left>>

TreesWalked ==
  /\ Here("trees") /\ walk = <<>>
  /\ pc' = "objects"
  /\ UNCHANGED <<patch, at, unit, left>>

\* Two versions of an object file.
StartObject ==
  /\ Here("objects") /\ at <= Len(objects)
  /\ Object.state = "modified" /\ OldElf.dwarf /\ NewElf.dwarf
  /\ patch' = writeROData(patch, NewElf)
  /\ unit' = 1
  /\ pc' = "units"
  /\ UNCHANGED <<at, left>>

\* Without DWARF data it is assumed not to need patching.
SkipObject ==
  /\ Here("objects") /\ at <= Len(objects)
  /\ Object.state = "modified" /\ ~OldElf.dwarf /\ ~NewElf.dwarf
  /\ at' = at + 1
  /\ UNCHANGED <<patch, unit, left, pc>>

\* DWARF data in one of them, or a new object file (for which
\* writeAllTypeAndFuncTransformationInfo is not written).
RefuseObject ==
  /\ Here("objects") /\ at <= Len(objects)
  /\ ~(Object.state = "modified" /\ OldElf.dwarf = NewElf.dwarf)
  /\ pc' = "dead"
  /\ UNCHANGED <<patch, at, unit, left>>

StartUnit ==
  /\ Here("units") /\ unit <= Len(OldElf.cus) /\ NewUnits(OldElf, NewElf, unit) # {}
  /\ left' = Names(cuNew) \ Names(cuOld)
  /\ pc' = "new functions"
  /\ UNCHANGED <<patch, at, unit>>

\* All units of the object have been compared, or one was omitted in the new
\* version: the units after it are not looked at.
EndObject ==
  /\ Here("units")
  /\ unit <= Len(OldElf.cus) => NewUnits(OldElf, NewElf, unit) = {}
  /\ at' = at + 1
  /\ pc' = "objects"
  /\ UNCHANGED <<patch, unit, left>>

\* writeNewFuncsForCU
NewFunction ==
  /\ Here("new functions")
  /\ \E fn \in left :
       /\ patch' = writeFuncToPatchText(patch, NewElf, Func(cuNew, fn), cuNew, TRUE)
       /\ left' = left \ {fn}
  /\ GoOn("new functions")
  /\ UNCHANGED <<at, unit>>

NewFunctionsWritten ==
  /\ Here("new functions") /\ left = {}
  /\ left' = Names(cuOld)
  /\ pc' = "functions"
  /\ UNCHANGED <<patch, at, unit>>

\* writeFuncTransformationInfoForCU, one function, in the order of the table
Compared(fn) ==
  LET f == Func(cuOld, fn)
      g == Func(cuNew, fn)
  IN  IF fn \notin Names(cuNew) THEN patch
      ELSE IF ~areSubprogramsIdentical(OldElf, f, NewElf, g)
        THEN addUnsafeSubprogram(writeFuncToPatchText(patch, NewElf, g, cuNew, FALSE), NewElf, g)
      ELSE IF f.variadic THEN addUnsafeSubprogram(patch, NewElf, g)
      ELSE patch

CompareFunction ==
  /\ Here("functions")
  /\ \E fn \in left :
       /\ patch' = Compared(fn)
       /\ left' = left \ {fn}
  /\ GoOn("functions")
  /\ UNCHANGED <<at, unit>>

EndUnit ==
  /\ Here("functions") /\ left = {}
  /\ unit' = unit + 1
  /\ pc' = "units"
  /\ UNCHANGED <<patch, at, left>>

Finish ==
  /\ Here("objects") /\ at > Len(objects)
  /\ pc' = "done"
  /\ UNCHANGED <<patch, at, unit, left>>

Next ==
  \/ WalkTrees \/ WalkDies \/ TreesWalked
  \/ StartObject \/ SkipObject \/ RefuseObject \/ StartUnit \/ EndObject
  \/ NewFunction \/ NewFunctionsWritten \/ CompareFunction \/ EndUnit \/ Finish

Spec == Init /\ [][Next]_vars
-----------------------------------------------------------------------------
(* What the trees say.                                                      *)

ObjectPaths(tree) == {p \in DOMAIN tree : tree[p].kind = "obj"}

\* Not in the old tree, where a directory comes next.
Hidden(path) ==
  LET later == {name \in ScanDir(trees.old, Front(path)) : name > Last(path)}
  IN  later # {} /\ trees.old[Append(Front(path), Min(later))].kind = "dir"

Text(e, f) == e.sections[TextOf(e, f.name)]

\* The relocations in a function, in an object file where they are with its text.
In(e, f) == {r \in Text(e, f).relocs : f.low <= r.at /\ r.at < f.high}

\* What a function does at each of its bytes: the relocation there, in terms
\* of the symbol, or else the byte.  What a relocation covers is 4 bytes long.
Meaning(e, f) ==
  [i \in 0..(f.high - f.low - 1) |->
     [refs |-> {[to |-> [e.syms[r.sym] EXCEPT !.value = 0], addend |-> r.addend] :
                  r \in {r \in In(e, f) : r.at - f.low = i}},
      byte |-> IF \E r \in In(e, f) : i \in (r.at - f.low)..(r.at - f.low + 3) THEN 0
               ELSE Text(e, f).data[f.low + i + 1]]]

\* Bytes that are not compared: those after what has been relocated.
Shadow(e, f) == UNION {(r.at - f.low + 4)..(r.at - f.low + AddrSize(e) - 1) : r \in In(e, f)}

\* The relocations are at least as far from each other as an address is wide.
Spaced(e, f) == \A r, q \in In(e, f) : r.at < q.at => r.at + AddrSize(e) <= q.at

\* No symbol has a section in one version only.
SectionsKept(e1, f, e2, g) ==
  \A r \in In(e1, f), q \in In(e2, g) :
    e1.syms[r.sym].name = e2.syms[q.sym].name =>
      ~SpecialSectionsDiffer(e1.syms[r.sym], e2.syms[q.sym])

\* computeAddend makes out the addend.
Exact(e, r) == e.rel => e.syms[r.sym].value = 0 /\ (r.kind = "32" \/ r.addend = -4)

AllExact(e, f) == \A r \in In(e, f) : Exact(e, r)

ChangedInSight(e1, f, e2, g) ==
  /\ Spaced(e1, f) /\ Spaced(e2, g) /\ SectionsKept(e1, f, e2, g)
  /\ \/ f.high - f.low # g.high - g.low
     \/ \E i \in (DOMAIN Meaning(e1, f)) \ (Shadow(e1, f) \cup Shadow(e2, g)) :
          Meaning(e1, f)[i] # Meaning(e2, g)[i]

\* .rodata is the only section that katana can take for it.
OneRodata(e) == \A scn \in Range(e.sections) : scn.name[1] = "rodata" => scn.name = <<"rodata">>

\* The relocation rela of the patch p leads to what r leads to.  Not asked of
\* a symbol that lies in read-only data itself: its addend.
SameTarget(p, e, r, rela) ==
  LET s      == e.syms[r.sym]
      t      == p.syms[rela.sym]
      skip   == IF r.kind = "PC32" THEN 4 ELSE 0
      rodata == e.sections[sectionIndices(e, "rodata")].data
      from   == r.addend + skip
      to     == rela.addend + skip
      rest   == Len(rodata) - from
  IN  IF s.type = "SECTION" /\ s.scn = <<"rodata">>
        THEN /\ t = SectionSymbol(<<"rodata", "new">>)
             /\ from \in 0..Len(rodata) =>
                  /\ to \in 0..(Len(p.rodata) - rest)
                  /\ \A i \in 1..rest : p.rodata[to + i] = rodata[from + i]
      ELSE /\ t.name = s.name /\ t.bind \in {s.bind, "GLOBAL"}
           /\ s.type = "SECTION" => t = SectionSymbol(s.scn)
           /\ s.scn # <<"rodata">> => rela.addend = r.addend

\* The references of the function f are among those of the patch p, where d is
\* that function.
ReferencesKept(p, d, e, f) ==
  \A r \in In(e, f) : Exact(e, r) =>
    \E rela \in Range(p.relas) :
      /\ rela.at - d.low = r.at - f.low
      /\ rela.kind = r.kind
      /\ SameTarget(p, e, r, rela)

-----------------------------------------------------------------------------
(* What assemblers write.                                                   *)

Subprogram == [name : STRING \ {""}, low : Nat, high : Nat, variadic : BOOLEAN]

\* The relocations of a function's text are found, and none is at the very
\* beginning of the next function, where its first opcode is.
IsFunction(e, f) ==
  /\ TextOf(e, f.name) # NONE
  /\ f.low <= f.high /\ f.high <= Len(Text(e, f).data)
  /\ getRelocationSection(e, f.name) = IF Text(e, f).relocs = {} THEN NONE ELSE TextOf(e, f.name)
  /\ \A r \in Text(e, f).relocs : r.at # f.high

\* What is in place of a reference depends on its addend only.
Alike(e1, e2) ==
  e1.rel = e2.rel /\
  \A s \in Range(e1.sections), t \in Range(e2.sections) :
    \A r \in s.relocs, q \in t.relocs : r.addend = q.addend =>
      \A j \in 1..4 : s.data[r.at + j] = t.data[q.at + j]

UnitsDistinct(tree) ==
  \A p, q \in ObjectPaths(tree) :
    \A u \in DOMAIN tree[p].file.cus, v \in DOMAIN tree[q].file.cus :
      tree[p].file.cus[u].name = tree[q].file.cus[v].name => p = q /\ u = v

HoldsObjects(tree) ==
  \A p \in ObjectPaths(tree) :
    LET e == tree[p].file
    IN  /\ e.dwarf \in BOOLEAN
        /\ e.dwarf => /\ IsObject(e) /\ e.cus \in Seq([name : STRING, funcs : Seq(Subprogram)])
                     /\ \A cu \in Range(e.cus) : \A f \in Range(cu.funcs) : IsFunction(e, f)

ASSUME ObjectsAssumption ==
  \A n \in Cases :
    LET old == Version(n).old
        new == Version(n).new
    IN  /\ HoldsObjects(old) /\ UnitsDistinct(old)
        /\ HoldsObjects(new) /\ UnitsDistinct(new)
        /\ AreSymbols(Version(n).binary.syms)
        /\ \A p \in ObjectPaths(old) \cap ObjectPaths(new) :
             old[p].file.dwarf /\ new[p].file.dwarf => Alike(old[p].file, new[p].file)

-----------------------------------------------------------------------------
(* Properties.                                                              *)

\* Every object file that both trees have is compared, once.  One that only
\* the new tree has is the end of katana, unless the next name of the old
\* tree is that of a directory (getChangedObjectFilesInSourceTree).
NoObjectIsLost ==
  pc = "done" =>
    LET old == ObjectPaths(trees.old)
        new == ObjectPaths(trees.new)
    IN  /\ {o.path : o \in Range(objects)} = old \cap new
        /\ Len(objects) = Cardinality(old \cap new)
        /\ \A p \in new \ old : Hidden(p)

\* In the end the patch has the new version of a function that does something
\* else, as far as the comparison can see, and of no other; and a function in
\* the patch, or one with a variable list of parameters, may not be on the
\* stack when it is applied (areSubprogramsIdentical,
\* writeFuncTransformationInfoForCU).  Addends that are not made out can hide
\* a difference, or seem one.
DifferencesArePatched ==
  pc = "done" =>
    \A o \in Range(objects) :
      LET e1 == trees.old[o.path].file
          e2 == trees.new[o.path].file
          kept == {u \in DOMAIN e1.cus : e1.dwarf /\ \A v \in 1..u : NewUnits(e1, e2, v) # {}}
      IN  \A u \in kept :
            LET old == e1.cus[u]
                new == e2.cus[FirstIn(NewUnits(e1, e2, u))]
            IN  \A fn \in Names(old) \cap Names(new) :
                  LET f == Func(old, fn)
                      g == Func(new, fn)
                      patched == \E d \in Range(patch.dies) : d.cu = new.name /\ d.name = fn
                  IN  /\ AllExact(e1, f) /\ AllExact(e2, g) =>
                           /\ ChangedInSight(e1, f, e2, g) => patched
                           /\ patched => Meaning(e1, f) # Meaning(e2, g)
                      /\ patched \/ f.variadic => \E s \in Range(patch.unsafe) : patch.syms[s].name = fn

\* What a function in the patch refers to is what it referred to in its
\* object file: the same symbol, or the same read-only data, wherever in the
\* patch that has gone (writeRelocationsInRange, writeROData,
\* addSymbolFromBinaryToPatch).
RelocationsKeepTheirTargets ==
  pc # "dead" =>
    \A d \in Range(patch.dies), path \in ObjectPaths(trees.new) :
      LET e == trees.new[path].file
      IN  \A cu \in Range(e.cus) : cu.name = d.cu /\ OneRodata(e) => ReferencesKept(patch, d, e, Func(cu, d.name))
===============================================================================
