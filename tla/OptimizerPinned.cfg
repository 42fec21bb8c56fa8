SPECIFICATION OptimizerSpec
CONSTANTS
  f1 = f1
  f2 = f2
  f3 = f3
  Fund = {f1, f2, f3}
  One = 24
  Percents = 3
  Grid = 6
  Hair = 1
  BoundChoices <- MCPinned
SYMMETRY MCSymmetry
INVARIANTS
  RoundedSumsToWhole
CHECK_DEADLOCK FALSE
