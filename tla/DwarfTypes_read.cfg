\* What katana reads of the types of short C programs.
CONSTANTS
  Files <- MCFiles
SPECIFICATION Spec
INVARIANTS
  TypesAsDeclared
  UsesCoverLocals
  DefinitionsWin
PROPERTIES
  ReadsToTheEnd
CHECK_DEADLOCK FALSE
