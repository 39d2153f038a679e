------------------------------ MODULE MCPatchGen ------------------------------
(* Instances of PatchGen for TLC: two structs, pointers to them, a const,  *)
(* a union, an enum and an array.                                          *)
EXTENDS PatchGen

CONSTANTS int, long, enum, A, B, pA, pB, cA, cB, pcB, pcA, U, arr, p, q, r, f1

AllKinds == (int :> "base") @@ (long :> "base") @@ (enum :> "enum") @@ (A :> "struct") @@ (B :> "struct")
   @@ (pA :> "pointer") @@ (pB :> "pointer") @@ (cA :> "const") @@ (pcA :> "pointer")
   @@ (U :> "union") @@ (cB :> "const") @@ (pcB :> "pointer") @@ (arr :> "array")
MCKind == [t \in Types |-> AllKinds[t]]
AllPointed == (pA :> A) @@ (pB :> B) @@ (cA :> A) @@ (pcA :> cA) @@ (cB :> B) @@ (pcB :> cB) @@ (arr :> int)
MCPointed == [t \in Pointing |-> AllPointed[t]]
MCSize == [t \in Types |-> 1]

Field(name, t) == [name |-> name, type |-> t]
Only(t) == <<Field("x", t)>>
Two(t, u) == <<Field("x", t), Field("y", u)>>
Swapped(t, u) == <<Field("y", u), Field("x", t)>>

Version(a, b, u, n, vs) ==
  [fields |-> (A :> a) @@ (B :> b) @@ (U :> u), upper |-> (arr :> n), vars |-> vs]

(* Structs that lead to each other; any member may come, go or change its  *)
(* type.                                                                   *)
OldA == { Two(pA, int), Two(pB, B), Two(pcA, pB) }
NewA == OldA \cup { Swapped(pA, int), Swapped(pB, B), Two(int, pB) }
OldB == { Only(int), Only(pA) }
NewB == OldB \cup { Two(int, pcA) }
LinkedVars == { (p :> pA) @@ (q :> A) @@ (r :> pcA), (p :> pB) @@ (q :> A) @@ (r :> B) }

LinkedPrograms ==
  { [old |-> Version(g[1], g[2], Only(int), 2, g[5]),
     new |-> Version(g[3], g[4], Only(int), 2, g[5])] :
      g \in OldA \X OldB \X NewA \X NewB \X LinkedVars }

(* The other kinds of types, of a variable or of a member.                 *)
OtherVars == { (p :> U) @@ (q :> enum) @@ (r :> A), (p :> arr) @@ (q :> cA) @@ (r :> pA) }
OtherPrograms ==
  { [old |-> Version(g[1], Only(int), g[2], 1, IF g[7] = 0 THEN [g[3] EXCEPT ![r] = NULL] ELSE g[3]),
     new |-> Version(g[4], g[5], g[6], g[7], IF g[7] = 2 THEN [g[3] EXCEPT ![p] = NULL] ELSE g[3])] :
      g \in { Two(U, enum), Two(arr, int) } \X { Only(int), Two(B, int) } \X OtherVars
              \X { Two(U, enum), Two(arr, int), Two(int, int), Only(B) }
              \X { Only(int), Two(int, int) }
              \X { Only(int), Two(B, int) } \X {0, 1, 2} }

(* A const struct as a member.                                             *)
ConstVersion(a, b) == Version(a, b, Only(int), 1, (p :> A) @@ (q :> B) @@ (r :> cA))
ConstPrograms ==
  { [old |-> ConstVersion(Only(int), b), new |-> ConstVersion(Two(int, int), Two(cA, int))] :
      b \in { Only(cA), Two(pA, cA) } }

(* A variable of another base type.                                        *)
BasePrograms ==
  { [old |-> Version(Only(int), Only(int), Only(int), 1, [v \in Vars |-> int]),
     new |-> Version(Only(int), Only(int), Only(int), 1, [v \in Vars |-> long])] }

(* A list: a pointer to a struct that has that pointer for a member.       *)
ListPrograms ==
  { [old |-> Version(Only(pA), Only(int), Only(int), 1, (p :> pA) @@ (q :> A) @@ (r :> int)),
     new |-> Version(Two(pA, int), Only(int), Only(int), 1, (p :> pA) @@ (q :> A) @@ (r :> int))] }

(* One function has a local that points to A and whose text is the same.   *)
MCUses == [g \in Funcs |-> {pA, int}]
NoRefs == [g \in Funcs |-> {}]

(* A list linked by pointers to const, reached from a const first: its     *)
(* transform is written by way of the const.                               *)
ConstListPrograms ==
  { [old |-> Version(Only(pB), Only(pcB), Only(int), 1, (p :> cA) @@ (q :> pcB) @@ (r :> int)),
     new |-> Version(Only(pB), Two(pcB, int), Only(int), 1, (p :> cA) @@ (q :> pcB) @@ (r :> int))],
    [old |-> Version(Only(pB), Only(pcB), Only(int), 1, (p :> cA) @@ (q :> pcB) @@ (r :> int)),
     new |-> Version(Two(pB, int), Two(pcB, int), Only(int), 1, (p :> cA) @@ (q :> pcB) @@ (r :> int))] }

MCPrograms == ConstListPrograms \cup ListPrograms \cup LinkedPrograms \cup OtherPrograms \cup ConstPrograms \cup BasePrograms
=============================================================================
