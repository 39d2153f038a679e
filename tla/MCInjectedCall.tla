-------------------------- MODULE MCInjectedCall --------------------------
(***************************************************************************)
(* Instance for TLC: link maps of the program and up to two libraries.     *)
(***************************************************************************)
EXTENDS InjectedCall

CONSTANTS malloc, malloc_usable_size, other

MCNames  == {malloc, malloc_usable_size, other}
MCLonger == {malloc_usable_size}

Sym(n, imp) == [name |-> n, imported |-> imp]
Object(k, c) == [kind |-> k, chain |-> c]

\* The program itself has no name; it imports malloc, or defines its own.
Programs == {Object("nameless", <<Sym(malloc, imp)>>) : imp \in BOOLEAN}

Chains == { <<>>, <<Sym(other, FALSE), Sym(malloc, FALSE)>>, <<Sym(malloc, TRUE)>>,
            <<Sym(malloc_usable_size, FALSE), Sym(malloc, FALSE)>> }

Libraries == {Object(k, c) : k \in {"incomplete", "plain"}, c \in Chains}
               \cup {Object("unreadable", <<Sym(malloc, FALSE)>>)}

MCLinkMaps == {<<p, l>> : p \in Programs, l \in Libraries}
                \cup {<<p, Object("plain", c), l>> : p \in Programs, c \in Chains, l \in Libraries}
=============================================================================
