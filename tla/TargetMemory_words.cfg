SPECIFICATION Spec
CONSTANTS
  WordSize = 4
  ValSize = 2
  Low = 8
  High = 28
  Requests <- MCRequests
  Old <- MCOld
  Data <- MCData
  JUNK = 99
INVARIANTS WriteIsExact ReadIsExact DeathOnlyNearTheEnd
CHECK_DEADLOCK FALSE
