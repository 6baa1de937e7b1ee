CONSTANTS
  ByteBits = 2
  StackTop = 512
  START_ADDRESS = 520
  MantissaBits = 13
  Inputs <- MCInputs
  MaxBlocks = 12
  Family = "masks"
SPECIFICATION MCSpec
INVARIANTS KeepsBehaviour
CHECK_DEADLOCK FALSE
