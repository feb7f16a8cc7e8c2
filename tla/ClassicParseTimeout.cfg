SPECIFICATION Spec
CONSTANTS
  MaxSentence = 5
  MinLenMultiPruning = 3
  Lengths <- MCLengths
  Options <- MCOptions
  MaxFound = 3
  MaxParses = 2
INVARIANT TimeoutReportsNone
CHECK_DEADLOCK FALSE
