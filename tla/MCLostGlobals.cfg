CONSTANTS
  ByteBits = 2
  StackTop = 256
  START_ADDRESS = 512
  Inputs <- MCInputs
  MaxBlocks = 8
  Family = "globals"
SPECIFICATION MCSpec
INVARIANT GlobalsKeepTheirMemory
CHECK_DEADLOCK FALSE
