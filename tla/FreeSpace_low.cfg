SPECIFICATION Spec
CONSTANTS
  PageSize = 4
  WordSize = 2
  Sizes = {0, 2, 3}
  TargetMap <- MCTargetMap
  FirstRegionsEnd = 12
  MmapBase = 48
  MaxAddr = 80
  LowLimit = 40
  SmallCodeModel = TRUE
INVARIANTS EachSectionHasItsOwnMemory GotPltFollowsGot
CHECK_DEADLOCK FALSE
