------------------------------ MODULE MCDataMove ------------------------------
(* Instances of DataMove for TLC.                                          *)
EXTENDS DataMove, TLC

CONSTANTS v1, v2, h1, next

(* Every graph of pointers to the beginning of objects, and nothing in     *)
(* their middle. The pointers of a variable that is not in the patch are   *)
(* never read.                                                             *)
Pointers == (Objects \X {0}) \cup {NULL}
BaseGraphs ==
  LET Starts == (InPatch \cup Heap) \X {0}
  IN  { [x \in OldAddr \X Fields |-> IF x[1] \in Starts THEN g[x[1]] ELSE NULL] :
          g \in [Starts -> Pointers] }

(* And with the pointer of v1 into the middle of an object, where there is *)
(* another pointer.                                                        *)
MCGraphs ==
  BaseGraphs \cup
    { [g EXCEPT ![<<v1, 0>>, next] = <<o, 1>>, ![<<o, 1>>, next] = a] :
        g \in BaseGraphs, o \in {v1, v2, h1}, a \in Pointers }

(* Two variables may be initialized to each other's address, when nothing  *)
(* is on the heap, one of them by its beginning or by its middle; the      *)
(* program may have changed the pointers since.                            *)
MCInitialized(g) ==
  LET To(x, v) == <<x, next>> :> v
  IN  IF \E h \in Heap : g[<<h, 0>>, next] # NULL THEN {<< >>}
      ELSE {<< >>, To(<<v1, 0>>, v2), To(<<v1, 0>>, v2) @@ To(<<v2, 0>>, v1),
            To(<<v1, 0>>, v2) @@ To(<<v2, 1>>, v1)}

(* The map tells all addresses apart.                                      *)
KeyIsAddress(a) == a
=============================================================================
