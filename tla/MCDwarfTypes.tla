---------------------------- MODULE MCDwarfTypes ----------------------------
(* Contents of .debug_info for DwarfTypes, as gcc writes them for short C    *)
(* programs.  The offset of a DIE is its place in the sequence.              *)
EXTENDS DwarfTypes

D(tag, name, type, size, children) ==
  [tag |-> tag, name |-> name, type |-> type, size |-> size, children |-> children,
   declaration |-> FALSE, location |-> NULL, lower |-> 0, upper |-> 0, low |-> 0, high |-> 0,
   prototyped |-> TRUE, comp_dir |-> "here", fde |-> 0]

CU(name, children)         == D("compile_unit", name, 0, 0, children)
Base(name)                 == D("base_type", name, 0, 4, <<>>)
Pointer(type)              == D("pointer_type", "", type, 8, <<>>)
Const(type)                == D("const_type", "", type, 0, <<>>)
Volatile(type)             == D("volatile_type", "", type, 0, <<>>)
Typedef(name, type)        == D("typedef", name, type, 0, <<>>)
Struct(name, size, members) == D("structure_type", name, 0, size, members)
Union(name, size, members) == D("union_type", name, 0, size, members)
Member(type, at)           == [D("member", "m", type, 0, <<>>) EXCEPT !.location = at]
Array(type, ranges)        == D("array_type", "", type, 0, ranges)
Subrange(upper)            == [D("subrange_type", "", 0, 0, <<>>) EXCEPT !.upper = upper]
Var(name, type)            == D("variable", name, type, 0, <<>>)
Extern(name, type)         == [Var(name, type) EXCEPT !.declaration = TRUE]
Param(type)                == D("formal_parameter", "p", type, 0, <<>>)
Dots                       == D("unspecified_parameters", "", 0, 0, <<>>)
Routine(params)            == D("subroutine_type", "", 0, 0, params)
Function(name, children)   == D("subprogram", name, 0, 0, children)
Block(children)            == D("lexical_block", "", 0, 0, children)

\* typedef struct S T; struct S {T *next; const int v;}; T *head;
ListFile == <<CU("list.c", <<2, 3, 6, 7, 8, 9>>), Typedef("T", 3), Struct("S", 16, <<4, 5>>),
          Member(6, 0), Member(7, 8), Pointer(2), Const(8), Base("int"), Var("head", 6)>>

\* struct A {struct B *b;}; struct B {struct A *a; void (*f)(struct A *, ...);};
\* two units, which both have it.
TwoUnits ==
  LET Body(n) == <<Var("x", n + 2), Struct("A", 8, <<n + 3>>), Member(n + 4, 0), Pointer(n + 5),
                   Struct("B", 16, <<n + 6, n + 7>>), Member(n + 8, 0), Member(n + 9, 8),
                   Pointer(n + 2), Pointer(n + 10), Routine(<<n + 11, n + 12>>),
                   Param(n + 8), Dots>>
      Top(n) == <<n + 1, n + 2, n + 4, n + 5, n + 8, n + 9, n + 10>>
  IN  <<CU("m.c", Top(1))>> \o Body(1) \o
      <<[CU("m.c", Top(14)) EXCEPT !.comp_dir = "there"]>> \o Body(14)
\* The same file of the same directory, three times.
SameUnits == <<CU("m.c", <<>>), CU("m.c", <<>>), CU("m.c", <<>>)>>

\* int f(T x, ...) {int a[2][3]; {struct L {volatile int i;} l; T *(*g)(L *);}}
Functions ==
  <<CU("f.c", <<2, 15, 16, 18, 21, 23>>),
    Function("f", <<3, 4, 5, 6>>), Param(15), Dots, Var("a", 18),
    Block(<<7, 8, 11, 12>>), Var("l", 8), Struct("L", 4, <<9>>), Member(10, 0),
    Volatile(16), Var("g", 12), Pointer(13), Routine(<<14>>), Param(17),
    Typedef("T", 16), Base("int"), Pointer(8), Array(16, <<19, 20>>), Subrange(1), Subrange(2),
    Function("h", <<22>>), Var("v", 23), Pointer(15)>>

\* The function pointers of a function take arguments as they like.
Callback ==
  <<CU("c.c", <<2, 5, 6, 8, 9>>), Function("f", <<3, 4>>), Param(5), Var("i", 8),
    Pointer(6), Routine(<<7>>), Dots, Base("int"), Function("g", <<10>>), Param(5)>>

\* union U {int i; U *p;}; enum E; extern U u; U u; extern U u;
Unions ==
  <<CU("u.c", <<2, 5, 6, 7, 8, 9, 10>>), Union("U", 8, <<3, 4>>), Member(6, NULL), Member(5, NULL),
    Pointer(2), Base("int"), D("enumeration_type", "E", 0, 4, <<11>>), Extern("u", 2), Var("u", 2),
    Var("e", 7), D("enumerator", "e1", 0, 0, <<>>)>>

\* typedef struct S *row[4]; struct S {const row *p;};
Rows ==
  <<CU("r.c", <<2, 3, 5, 6, 8, 9, 10>>), Typedef("row", 3), Array(5, <<4>>), Subrange(3),
    Pointer(6), Struct("S", 8, <<7>>), Member(8, 0), Pointer(9), Const(2), Var("r", 9)>>

\* const char *a; char *const b;
ConstPointers ==
  <<CU("k.c", <<2, 3, 4, 5, 6, 7, 8>>), Var("a", 4), Var("b", 6), Pointer(5), Const(8), Const(7),
    Pointer(8), Base("char")>>

\* What katana does not read: extern int a[]; int b[1];
TwoArrays ==
  <<CU("z.c", <<2, 3, 4, 6, 8>>), Extern("a", 4), Var("b", 6), Array(8, <<5>>), Subrange(0),
    Array(8, <<7>>), Subrange(0), Base("int")>>
\* A structure of the same name in each of two functions.
TwoLocals ==
  <<CU("l.c", <<2, 6, 10>>), Function("f", <<3, 4>>), Var("x", 4), Struct("L", 4, <<5>>),
    Member(10, 0), Function("g", <<7, 8>>), Var("y", 8), Struct("L", 4, <<9>>), Member(10, 0),
    Base("int")>>
\* void (*f)();
NoPrototype ==
  <<CU("n.c", <<2, 3, 4>>), Var("f", 3), Pointer(4), [Routine(<<>>) EXCEPT !.prototyped = FALSE]>>
\* void f(char *restrict p) {int *q;} struct R {char *restrict p;};
Restricted ==
  <<CU("q.c", <<2, 5, 6, 7, 8, 9>>), Function("f", <<3, 4>>), Param(5), Var("q", 8),
    D("restrict_type", "", 6, 0, <<>>), Pointer(7), Base("char"), Pointer(9), Base("int")>>
RestrictMember == [Restricted EXCEPT ![1].children = @ \o <<10>>] \o <<Struct("R", 8, <<11>>), Member(5, 0)>>
\* struct H; in one block, struct H {int i;} in another; a nameless variable.
Declared ==
  <<CU("d.c", <<2, 3, 4, 6, 7, 8>>), Pointer(3), [Struct("H", 0, <<>>) EXCEPT !.declaration = TRUE],
    Struct("H", 4, <<5>>), Member(6, 0), Base("int"), Var("h", 2), Var("", 4)>>
\* An enumeration that is only declared, a union that is empty.
Sizeless ==
  <<CU("e.c", <<2, 3, 4, 5>>), Var("e", 3), D("enumeration_type", "E", 0, 0, <<>>), Var("u", 5),
    Union("V", 0, <<>>)>>
\* void f(void) {enum E {..} e;} and g with the same; or with unions.
Local(type) ==
  <<CU("o.c", <<2, 5>>), Function("f", <<3, 4>>), type, Var("x", 3), Function("g", <<6, 7>>), type,
    Var("y", 6)>>
\* struct {} s; char *restrict a[2]; and the const of a restrict.
Odd(type) ==
  <<CU("x.c", <<2, 3, 4, 7, 5, 6, 8>>), Struct("", 0, <<>>), Var("s", 2), Var("a", 5), type,
    D("restrict_type", "", 7, 0, <<>>), Pointer(8), Base("char")>>

MCFiles == {ListFile, TwoUnits, SameUnits, Functions, Callback, Unions, Rows, ConstPointers,
            TwoArrays, TwoLocals, NoPrototype, Restricted, RestrictMember, Declared, Sizeless,
            Local(D("enumeration_type", "E", 0, 4, <<>>)), Local(Union("E", 4, <<>>)),
            Odd(Array(6, <<>>)), Odd(Const(6))}
=============================================================================
