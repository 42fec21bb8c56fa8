SPECIFICATION IngestSpec
CONSTANTS
  Blank = Blank
  Files <- MCDayFirstFiles
  MinObs = 3
  DaysInMonth = 2
  MonthsInYear = 2
  YieldFiles <- MCYields
  Fallback = 5
  NoFigure = NoFigure
  Whole = 4
  Plans <- MCPlans
  AssetClass <- MCAssetClass
  Geography <- MCGeography
  MonthlyRates = {0, 1}
  Windows = {1, 2, 3}
INVARIANTS
  DayFirstFilesAreRead
CHECK_DEADLOCK FALSE
