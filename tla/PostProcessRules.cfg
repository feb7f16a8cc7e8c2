SPECIFICATION VerdictsSpec
CONSTANTS
  MaxStrip = 4
  MaxStripAlt = 3
  MaxSplits = 3
  MaxNulls = 1
  LinkageLimit = 3
  ParseNumOverflow = 5
  MaxTries = 1
  NumWords = 4
  Sentences <- RulesSentences
  TCD = 2
  MaxAlloced = 1
  Candidates <- MCCandidates
  Cutoff = 2
  Limit = 3
INVARIANT VerdictsExact
CHECK_DEADLOCK FALSE
