---------------------------- MODULE MCPatchUnits ----------------------------
(* Pairs of source trees for PatchUnits: object files as gcc and gas make    *)
(* them, with the binary linked of the new ones.                             *)
EXTENDS PatchUnits

Sym(name, bind, type, scn, value) ==
  [name |-> name, bind |-> bind, type |-> type, scn |-> scn, value |-> value]
Extern(name)   == Sym(name, "GLOBAL", "NOTYPE", UNDEF, 0)
Function(name) == Sym(name, "GLOBAL", "FUNC", UNDEF, 0)
Scn(scn)       == SectionSymbol(scn)

\* Code is a sequence of instruction bytes and of references.
B(bytes)            == [bytes |-> bytes, sym |-> 0, kind |-> "", addend |-> 0]
R(kind, sym, addend) == [bytes |-> <<0, 0, 0, 0>>, sym |-> sym, kind |-> kind, addend |-> addend]

Bytes(code) == FlattenSeq([k \in DOMAIN code |-> code[k].bytes])

RelocsOf(code, base) ==
  LET Reloc(k) == [at |-> base + Len(Bytes(SubSeq(code, 1, k - 1))), kind |-> code[k].kind,
                   sym |-> code[k].sym, addend |-> code[k].addend]
  IN  {Reloc(k) : k \in {k \in DOMAIN code : code[k].sym # 0}}

\* An object of fns = <<[name, code, variadic], ...>>, all in .text or, with
\* -ffunction-sections, each in a section of its own; rodata may be empty.
ElfObject(rel, own, cus, fns, rodata, syms) ==
  LET Base(k) == IF own THEN 0 ELSE Len(FlattenSeq([n \in 1..(k - 1) |-> Bytes(fns[n].code)]))
      Section(ks, name) ==
        [name |-> name, data |-> FlattenSeq([n \in DOMAIN ks |-> Bytes(fns[ks[n]].code)]),
         relocs |-> UNION {RelocsOf(fns[k].code, Base(k)) : k \in Range(ks)}]
      all == [k \in DOMAIN fns |-> k]
      texts == IF own THEN [k \in DOMAIN fns |-> Section(<<k>>, <<"text", fns[k].name>>)]
               ELSE <<Section(all, <<"text">>)>>
      none(name) == [name |-> name, data |-> <<>>, relocs |-> {}]
      Info(k) == [name |-> fns[k].name, low |-> Base(k), high |-> Base(k) + Len(Bytes(fns[k].code)),
                  variadic |-> fns[k].variadic]
      InUnit(c) == LET ks == SelectSeq(all, LAMBDA k : fns[k].cu = c)
                   IN  [n \in DOMAIN ks |-> Info(ks[n])]
      defined == [k \in DOMAIN fns |->
                    Sym(fns[k].name, "GLOBAL", "FUNC", IF own THEN <<"text", fns[k].name>> ELSE <<"text">>,
                        Base(k))]
  IN  [dwarf |-> cus # <<>>, rel |-> rel,
       cus |-> [n \in DOMAIN cus |-> [name |-> cus[n], funcs |-> InUnit(cus[n])]],
       sections |-> <<none(<<"data">>), none(<<"bss">>)>> \o texts
                    \o IF rodata = <<>> THEN <<>>
                       ELSE <<[name |-> <<"rodata">>, data |-> rodata, relocs |-> {}]>>,
       syms |-> syms \o defined]

Fn(name, cu, code) == [name |-> name, cu |-> cu, code |-> code, variadic |-> FALSE]
Variadic(fn) == [fn EXCEPT !.variadic = TRUE]

\* A tree of one file or, of entries E(name, tree), of a directory.
Leaf(node)    == [p \in {<<>>} |-> node]
File(object)  == Leaf([kind |-> "obj", file |-> object])
Other         == Leaf([kind |-> "other"])
E(name, tree) == [name |-> name, tree |-> tree]
Dir(entries)  ==
  LET Named(name) == CHOOSE e \in Range(entries) : e.name = name
      below == UNION {{<<e.name>> \o p : p \in DOMAIN e.tree} : e \in Range(entries)}
  IN  [p \in below \cup {<<>>} |-> IF p = <<>> THEN [kind |-> "dir"] ELSE Named(p[1]).tree[Tail(p)]]

Binary(fns, others) ==
  [syms |-> <<Scn(<<"text">>), Scn(<<"rodata">>), Scn(<<"data">>), Scn(<<"bss">>)>>
            \o [k \in DOMAIN fns |-> Sym(fns[k], "GLOBAL", "FUNC", <<"text">>, 0)] \o others]

Libc == <<Function("puts"), Function("exit"), Sym("count", "GLOBAL", "OBJECT", <<"bss">>, 0)>>

Pair(old, new, binary) == [old |-> old, new |-> new, binary |-> binary]

\* Without DWARF data.
Stub == [dwarf |-> FALSE, cus |-> <<>>]

-----------------------------------------------------------------------------
\* Two trees of up to three names, each of which is an object, a directory
\* with or without one, or nothing.
Kinds == <<<<>>, <<File(Stub)>>, <<Dir(<<>>)>>, <<Dir(<<E(1, File(Stub))>>)>>>>

\* The digit of n at a place, counted from 1.
Digit(n, base, place) == 1 + ((n \div place) % base)

TreeOf(n) ==
  LET kind == [k \in 1..3 |-> Kinds[Digit(n, 4, 4^(k - 1))]]
      names == SelectSeq(<<1, 2, 3>>, LAMBDA k : kind[k] # <<>>)
  IN  Dir([k \in DOMAIN names |-> E(names[k], kind[names[k]][1])])

Shape(n) == Pair(TreeOf(n), TreeOf(n \div 64), Binary(<<>>, <<>>))

-----------------------------------------------------------------------------
\* One function that differs or not, of one object: an opcode and references
\* or opcodes.
Refs(rel) ==
  LET kind == IF rel THEN "32" ELSE "PC32"
      by   == IF rel THEN 0 ELSE -4
  IN  <<B(<<1>>), B(<<2>>), R(kind, 1, by), R(kind, 1, by + 1), R(kind, 2, by), R(kind, 3, by),
        R(kind, 4, by)>>

OneFunction(rel, code, scn) ==
  Dir(<<E(1, File(ElfObject(rel, FALSE, <<"a.c">>, <<Fn("f", "a.c", <<B(<<9>>)>> \o code)>>, <<7, 8>>,
                          <<Scn(<<"rodata">>), Extern("puts"),
                            Sym("count", "GLOBAL", "OBJECT", scn, 4), Extern("exit")>>)))>>)

\* The new version differs in one of two or three places, or in none.
Functions(rel, n) ==
  LET Ref(place) == Refs(rel)[Digit(n, 7, place)]
      a == Ref(1)
      c == Ref(7)
      d == Ref(49)
      b == IF Digit(n, 2, 343) = 1 THEN B(<<1>>) ELSE B(<<1, 1, 1, 1>>)
      Change(old, new) ==
        Pair(OneFunction(rel, old, COMMON),
             OneFunction(rel, new, IF Digit(n, 2, 686) = 1 THEN COMMON ELSE <<"bss">>),
             Binary(<<"f">>, Libc))
  IN  CASE Digit(n, 3, 1372) = 1 -> Change(<<a, b, c>>, <<d, b, c>>)
        [] Digit(n, 3, 1372) = 2 -> Change(<<a, b, c>>, <<a, b, d>>)
        [] OTHER                 -> Change(<<a, b, c, B(<<1, 1, 1, 1>>), c>>, <<a, b, c, B(<<1, 1, 1, 1>>), d>>)

-----------------------------------------------------------------------------
\* Programs of two object files, one in a directory.  In the new version f
\* prints something else, v does not change, k is new, h is gone, and g, of
\* the other file, has become longer, and calls f.
Opcode == B(<<1, 2, 3>>)

Program(rel, own) ==
  LET by == IF rel THEN 0 ELSE -4
      data == IF rel THEN "32" ELSE "PC32"
      Prints(from) == <<Opcode, R(data, 1, from + by), Opcode, Opcode, R("PC32", 2, -4), Opcode, Opcode>>
      Count == <<Opcode, R(data, 3, by), Opcode, Opcode>>
      A(fns, rodata) == File(ElfObject(rel, own, <<"a.c">>, fns, rodata,
                                     <<Scn(<<"rodata">>), Extern("puts"), Extern("count"), Extern("g")>>))
      Lib(fns) == E(3, Dir(<<E(1, File(ElfObject(rel, own, <<"b.c">>, fns, <<6, 5>>,
                                     <<Scn(<<"rodata">>), Extern("puts"), Extern("f")>>)))>>))
      v == Variadic(Fn("v", "a.c", Count))
  IN  Pair(Dir(<<E(1, A(<<Fn("f", "a.c", Prints(0)), v, Fn("h", "a.c", Count)>>, <<7, 8>>)),
                 E(2, File(Stub)), Lib(<<Fn("g", "b.c", Prints(1))>>), E(4, Other), E(5, File(Stub))>>),
           Dir(<<E(1, A(<<Fn("k", "a.c", Prints(2) \o <<R("PC32", 4, -4)>>), Fn("f", "a.c", Prints(1)), v>>,
                        <<7, 8, 9>>)),
                 Lib(<<Fn("g", "b.c", Prints(1) \o <<R("PC32", 3, -4)>>)>>), E(5, File(Stub))>>),
           Binary(<<"k", "f", "v", "g">>, Libc))

\* Two units in one object; the new version omits the first, or the second.
Units(old, new) ==
  LET Both(cus, n) == Dir(<<E(1, File(ElfObject(FALSE, TRUE, cus,
                          <<Fn("f", "a.c", <<B(<<n>>)>>), Fn("g", "b.c", <<B(<<n>>)>>)>>, <<7>>, <<>>)))>>)
  IN  Pair(Both(old, 1), Both(new, 2), Binary(<<"f", "g">>, <<>>))

\* The end of katana: no read-only data; a function that is static, referred
\* to by its section; DWARF data in one version.
Fatal ==
  LET One(cus, code, rodata) ==
        Dir(<<E(1, File(ElfObject(FALSE, TRUE, cus, <<Fn("f", "a.c", code)>>, rodata,
                                <<Scn(<<"text", "s">>)>>)))>>)
      old == One(<<"a.c">>, <<Opcode>>, <<7>>)
      bin == Binary(<<"f">>, <<>>)
  IN  <<Pair(old, One(<<"a.c">>, <<Opcode, Opcode>>, <<>>), bin),
        Pair(old, One(<<"a.c">>, <<Opcode, R("PC32", 1, -4)>>, <<7>>), bin),
        Pair(old, One(<<>>, <<Opcode>>, <<7>>), bin)>>

Programs ==
  Fatal
  \o <<Program(TRUE, TRUE), Program(TRUE, FALSE), Program(FALSE, TRUE), Program(FALSE, FALSE)>>
  \o <<Units(<<"a.c", "b.c">>, <<"b.c">>), Units(<<"a.c", "b.c">>, <<"a.c">>),
       Units(<<"a.c", "b.c">>, <<"b.c", "a.c">>)>>

MCCases == 1..(10 + 2 * 4116 + 4096)

MCVersion(n) ==
  IF n <= 10 THEN Programs[n]
  ELSE IF n <= 10 + 4116 THEN Functions(TRUE, n)
  ELSE IF n <= 10 + 2 * 4116 THEN Functions(FALSE, n)
  ELSE Shape(n)
=============================================================================
