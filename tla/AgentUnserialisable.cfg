SPECIFICATION ToolSpec
CONSTANTS
  Tool = {"attribution", "run_analysis"}
  Analysis = "run_analysis"
  UnknownTool = "made_up"
  CallLists <- MCOneAnalysis
  Content = {"prose"}
  MaxToolIters = 2
  RecallLimit = 0
  MaxTurns = 1
  MaxWorkers = 1
PROPERTIES
  ToolFailuresReachTheModel
CHECK_DEADLOCK FALSE
