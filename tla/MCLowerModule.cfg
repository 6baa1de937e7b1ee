CONSTANTS
  ByteBits = 2
  StackTop = 256
  START_ADDRESS = 512
  Inputs <- MCInputs
  MaxBlocks = 8
  Family = "lower"
SPECIFICATION MCSpec
INVARIANTS StaysLegal KeepsBehaviour MovesNeedNoCode OnlyMachineOperations RoundsBounded
PROPERTY PlacesGlobals
CHECK_DEADLOCK FALSE
