SPECIFICATION VariousSpec
CONSTANTS
  MAX_REGISTER = 32
  MAX_VECTOR_REGISTER = 16
  MaxCopies = 6
INVARIANTS
  ReadsCorrectUnlessTolerated
  RegistersKeptApart
  PerfectWithoutPhis
  OneCopyPerOperand
CHECK_DEADLOCK FALSE
