SPECIFICATION FairSpec
CONSTANTS
  Funcs <- MCFuncs
  Main = "main"
  TextFuncs <- MCTextFuncs
  Unsafe <- MCUnsafe
  Sites <- MCSites
  Owner <- MCOwner
  Callees <- AcyclicCallees
  NoSite = NoSite
  MaxDepth = 6
  MaxSignals = 0
  NumIterations = 4
  RelaxAfter = 1
  StopTarget = FALSE
INVARIANTS PatchOnlyWhenSafe BreakpointAhead
PROPERTIES ImplementsQuiescentPatch
CHECK_DEADLOCK FALSE
