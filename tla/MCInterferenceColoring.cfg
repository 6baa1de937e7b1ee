SPECIFICATION MCSpec
CONSTANT Inst = {1, 2, 3, 4, 5}
INVARIANTS
  IsQuotient
  NoVertexTwice
  CountsAreUpperBounds
  IsInducedSubgraph
  MinElementIsTheLoop
  ProperColoring
  NoColorSkipped
  OptimalOnPerfectOrder
  LiveValuesKeptApart
PROPERTY EventuallyColored
CHECK_DEADLOCK FALSE
