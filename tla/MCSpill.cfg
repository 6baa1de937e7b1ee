SPECIFICATION CrowdedSpec
CONSTANTS
  MAX_REGISTER = 3
  MAX_VECTOR_REGISTER = 2
  MaxCopies = 6
INVARIANTS
  TypeOK
  StaysAllocatable
  ReadsCorrectUnlessTolerated
  SlotsDisjoint
PROPERTY SpillingProgresses
CHECK_DEADLOCK FALSE
