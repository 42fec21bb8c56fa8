SPECIFICATION WorkbenchSpec
CONSTANTS
  Portfolio = {"BAL", "ADV"}
  Date = {1, 2, 3}
  Weights = {w1, w2}
  w1 = w1
  w2 = w2
  ClockSteps <- Advancing
  MaxRows = 3
  Selected = "BAL"
  Files <- MCFiles
  Cap = {c1, c2}
  c1 = c1
  c2 = c2
  None = None
SYMMETRY Renamings
INVARIANTS
  WorkbenchTypeOK
  LatestCorrectionIsCurrent
  DaysFollowLatestCorrection
  QueriesAgree
  AttributionIsPointInTime
  FilesOfOneStartReconcile
PROPERTIES
  EarlierDaysKeepTheirWeights
  CommitsDoNotRewriteThePast
  CommitsAreTheLastSolution
  ReportsLagByOvertakingRows
CHECK_DEADLOCK FALSE
