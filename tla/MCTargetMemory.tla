---------------------------- MODULE MCTargetMemory ----------------------------
(* An instance of TargetMemory for TLC: words of four bytes of which two   *)
(* are kept, five words of memory, every byte different.                   *)
EXTENDS TargetMemory

MCRequests == [write : BOOLEAN, addr : (Low - 2)..High, n : 0..11]
MCOld == [x \in Mapped |-> x]
MCData == [k \in 0..11 |-> 100 + k]
=============================================================================
