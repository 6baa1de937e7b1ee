CONSTANTS
  ByteBits = 2
  StackTop = 256
  START_ADDRESS = 512
  CalleeFrame = 32
  NULL_PTR = 600
  Inputs <- MCInputs
  MaxBlocks = 8
  MaxLines = 40
  Family = "plain"
SPECIFICATION MCSpec
INVARIANTS TextBehavesAsFunction WellFormedText PreparedIsEmitted
CHECK_DEADLOCK FALSE
