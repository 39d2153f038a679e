----------------------------- MODULE MCPatchApply -----------------------------
(* Instances of PatchApply for TLC.                                        *)
EXTENDS PatchApply, TLC

CONSTANTS f, g, h, v, w, puts

S(in, atEntry, of) == [in |-> in, atEntry |-> atEntry, of |-> of]
N(in, of) == [in |-> in, of |-> of]

Reaches == [x \in Funcs |-> NULL]
Place(a, b, c, d) == (f :> a) @@ (g :> b) @@ (h :> NULL) @@ (v :> c) @@ (w :> d)

(* f and v are of the target and h is not patched; g and w may be new.     *)
MCPrograms ==
  { [names    |-> {f, h, v} \cup z[1],
     sites    |-> { s \in {S(f, z[2], v), S(h, FALSE, v), S(f, FALSE, w), S(g, z[2], w), S(h, TRUE, w)} :
                      s.in \in {f, h, v} \cup z[1] /\ s.of \in {f, h, v} \cup z[1] },
     reaches  |-> [Reaches EXCEPT ![f] = z[3]],
     unit     |-> z[4],
     newSites |-> { s \in z[5] : z[4][s.in] # NULL }] :
      z \in (SUBSET {g, w}) \X BOOLEAN \X {NULL, h}
              \X { Place(1, a, c, d) : a \in {1, 2, NULL}, c \in {1, 2, NULL}, d \in {1, 2} }
              \X { {N(f, v), N(f, g), N(g, w)}, {N(f, w), N(g, f), N(f, puts)}, {N(g, h), N(f, puts)} } }
=============================================================================
