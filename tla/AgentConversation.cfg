SPECIFICATION FairToolSpec
CONSTANTS
  Tool = {"attribution", "run_analysis"}
  Analysis = "run_analysis"
  UnknownTool = "made_up"
  CallLists <- MCCallLists
  Content = {"prose"}
  MaxToolIters = 3
  RecallLimit = 1
  MaxTurns = 2
  MaxWorkers = 2
INVARIANTS
  ToolTypeOK
  ModelSeesEveryResult
  RepliesAreCapped
  EvidenceIsWhatTheModelRead
  AnswersFollowTheirQuestion
  MemoryHoldsGroundedTurns
  AnalysesAreIsolated
PROPERTIES
  ImplementsGraph
  TurnsEnd
CHECK_DEADLOCK FALSE
