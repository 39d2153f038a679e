SPECIFICATION FairSpec
CONSTANTS
  Funcs <- MCFuncs
  Main = "main"
  TextFuncs <- MCTextFuncs
  Unsafe <- MCUnsafe
  Sites <- MCSites
  Owner <- MCOwner
  Callees <- CyclicCallees
  NoSite = NoSite
  MaxDepth = 6
  MaxSignals = 2
  NumIterations = 3
  RelaxAfter = 1
  StopTarget = TRUE
INVARIANTS TextRestored
PROPERTIES WritesWhileStopped KatanaFinishes
CHECK_DEADLOCK FALSE
