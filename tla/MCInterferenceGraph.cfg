SPECIFICATION Spec
INVARIANTS
  LivenessExact
  GraphCoversLiveRanges
  NumberedPerfectly
  ChordalAsBuilt
PROPERTY EventuallyBuilt
CHECK_DEADLOCK FALSE
