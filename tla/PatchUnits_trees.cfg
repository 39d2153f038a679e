\* The code of patches for short programs, and for all small shapes of trees.
CONSTANTS
  Cases <- MCCases
  Version <- MCVersion
SPECIFICATION Spec
INVARIANTS
  NoObjectIsLost
  DifferencesArePatched
  RelocationsKeepTheirTargets
CHECK_DEADLOCK FALSE
