SPECIFICATION Spec
CONSTANTS
  Modulus <- MCModulus
  Registers <- MCRegisters
  Binaries <- MCBinaries
  MaxCommands = 5
INVARIANTS SameUnwinding HeaderFindsFdes CompilesWhatItEmits RowsAreTheTable
CHECK_DEADLOCK FALSE
