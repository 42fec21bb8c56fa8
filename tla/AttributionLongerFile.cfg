SPECIFICATION AttributionSpec
CONSTANTS
  Portfolio = {"BAL"}
  Date = {1, 2, 3, 4, 5}
  Weights = {"w"}
  ClockSteps <- Advancing
  MaxRows = 4
  Selected = "BAL"
  Files <- MCFiles
INVARIANTS
  ToolsReconcile
CHECK_DEADLOCK FALSE
