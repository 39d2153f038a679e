----------------------------- MODULE MCFreeSpace -----------------------------
(* Instances of FreeSpace for TLC.                                         *)
EXTENDS FreeSpace

(* The executable's text and data, then a gap of three pages where katana  *)
(* asks for memory, a heap, and a library beyond 32-bit addresses.         *)
MCTargetMap ==
  {[lo |-> 4, hi |-> 8], [lo |-> 8, hi |-> 12], [lo |-> 28, hi |-> 32],
   [lo |-> 52, hi |-> 56]}
=============================================================================
