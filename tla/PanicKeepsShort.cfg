CONSTANTS
  Clients = {"c1", "c2"}
  Threads = {"t1", "t2"}
  Texts <- MCTexts
  CallSets <- MCCallSets
  parseRetryCount = 2
  connectRetryCount = 2
  MaxLosses = 1
  Huge = 1000
  Sessions <- MCSessions
  Outcomes <- MCOutcomes
  DISPLAY_MAX = 2
  Paths <- MCPaths
  Generations <- MCGenerations
SPECIFICATION MCSpec
INVARIANT PanicUndone
CHECK_DEADLOCK FALSE
