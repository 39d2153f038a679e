SPECIFICATION Spec
CONSTANTS
  Programs <- MCPrograms
  MaxPadding = 2
INVARIANTS
  ReadsTheProgram
  Identity
CHECK_DEADLOCK FALSE
