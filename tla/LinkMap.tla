------------------------------ MODULE LinkMap ------------------------------
(***************************************************************************)
(* patcher/linkmap.c: the address of malloc in the target is looked up in  *)
(* the dynamic linker's list of loaded objects.  An object is abstracted   *)
(* to what the look-up asks of it: whether it has a name, whether .dynamic *)
(* has DT_HASH, DT_STRTAB and DT_SYMTAB, whether the hash table can be     *)
(* read, and the chain of the bucket in which the name would be, a         *)
(* sequence of symbols.                                                    *)
(***************************************************************************)
EXTENDS Naturals, Sequences

CONSTANTS
  Names,        \* names of dynamic symbols
  Wanted,       \* the name that is looked up: malloc
  Longer        \* the names that Wanted is a proper prefix of

ASSUME NamesAssumption ==
  /\ Wanted \in Names
  /\ Longer \subseteq Names \ {Wanted}

\* What an object is: its name is empty (the program itself and the vdso),
\* .dynamic lacks an entry (objects linked with a GNU hash table only), its
\* hash table is at an address that cannot be read, or it can be examined.
ObjectKind == {"nameless", "incomplete", "unreadable", "plain"}

DynSymbol == [name: Names, imported: BOOLEAN]

\* strnmatchTarget copies strlen(name) + 1 bytes and overwrites the last of
\* them with 0 before it compares: a longer name matches.
strnmatchTarget(name) == name \in {Wanted} \cup Longer

Matches(chain) == {i \in DOMAIN chain : strnmatchTarget(chain[i].name)}

FirstOf(S) == CHOOSE i \in S : \A j \in S : i <= j

\* The chain is followed to the first match; an import symbol ends the
\* search of this object.
Found(object) ==
  /\ object.kind = "plain"
  /\ Matches(object.chain) # {}
  /\ ~object.chain[FirstOf(Matches(object.chain))].imported

\* The symbol found: the object (whose l_addr is added) and its name.
locateSymbolInLinkMap(linkMap, at) ==
  [object |-> at,
   name   |-> linkMap[at].chain[FirstOf(Matches(linkMap[at].chain))].name]

\* What the dynamic linker has bound calls of Wanted to: the first object, of
\* all that are loaded, that defines it.
Defines(object) ==
  \E i \in DOMAIN object.chain :
     object.chain[i].name = Wanted /\ ~object.chain[i].imported

Definers(linkMap) == {i \in DOMAIN linkMap : Defines(linkMap[i])}
=============================================================================
