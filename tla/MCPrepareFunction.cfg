SPECIFICATION MCSpec
INVARIANTS
  TypeOK
  StaysSSA
  PhisPrepared
  ValuesKept
  NoDuplicateConstants
CHECK_DEADLOCK FALSE
