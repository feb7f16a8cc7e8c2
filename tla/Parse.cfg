SPECIFICATION MCSpec
CONSTANTS
  MaxSentence = 5
  MinLenMultiPruning = 3
  Lengths <- MCLengths
  Options <- MCOptions
  MaxFound = 4
  MaxParses = 2
  MAX_SENTENCE = 254
  MaxPass = 7
  Sentences <- MCSentences
  NullCounts <- MCNullCounts
  Rules <- MCRules
INVARIANT NoMemoryFault
INVARIANT PruneAllowsParse
INVARIANT CountersAgree
INVARIANT LinkagesUsable
INVARIANT PruneExact
INVARIANT RefcountsExact
PROPERTY SkipsNoLinkage
PROPERTY CallReturns
PROPERTY PruningEnds
CHECK_DEADLOCK FALSE
