SPECIFICATION LostCopySpec
CONSTANTS
  MAX_REGISTER = 32
  MAX_VECTOR_REGISTER = 16
  MaxCopies = 6
INVARIANT ReadsCorrect
CHECK_DEADLOCK FALSE
