SPECIFICATION Spec
CONSTANTS
  MaxSentence = 5
  MinLenMultiPruning = 2
  Lengths = {2}
  Options <- EqualRange
  MaxFound = 2
  MaxParses = 1
INVARIANT RefcountsPositive
CHECK_DEADLOCK FALSE
