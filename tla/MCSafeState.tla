----------------------------- MODULE MCSafeState -----------------------------
(* Instances of SafeState for TLC.                                         *)
EXTENDS SafeState

(* main calls work or leaf at m1 and a library function at m2; the library *)
(* calls back into cb (as qsort does), cb calls the unsafe leaf, and leaf  *)
(* calls the safe util, which enters the kernel's interface in libc.       *)
MCFuncs == {"main", "work", "lib", "cb", "leaf", "util", "sys"}
MCTextFuncs == {"main", "work", "cb", "leaf", "util"}
MCUnsafe == {"leaf"}
MCSites == {"m1", "m2", "w1", "l1", "c1", "f1", "u1"}
MCOwner == [s \in MCSites |->
  CASE s \in {"m1", "m2"} -> "main" [] s = "w1" -> "work" [] s = "l1" -> "lib"
    [] s = "c1" -> "cb" [] s = "f1" -> "leaf" [] s = "u1" -> "util"]
(* No function calls, even indirectly, itself.                             *)
AcyclicCallees == [s \in MCSites |->
  CASE s = "m1" -> {"work", "leaf"} [] s = "m2" -> {"lib"}
    [] s = "w1" -> {"lib", "leaf"} [] s = "l1" -> {"cb"}
    [] s = "c1" -> {"leaf"} [] s = "f1" -> {"util"} [] s = "u1" -> {"sys"}]
(* leaf calls work again.                                                  *)
CyclicCallees == [AcyclicCallees EXCEPT !["f1"] = {"work"}]
=============================================================================
