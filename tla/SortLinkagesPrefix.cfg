SPECIFICATION SortSpec
CONSTANTS
  MaxStrip = 4
  MaxStripAlt = 3
  MaxSplits = 3
  MaxNulls = 1
  LinkageLimit = 3
  ParseNumOverflow = 5
  MaxTries = 1
  NumWords = 5
  Sentences <- MCSentences
  TCD = 2
  MaxAlloced = 2
  Candidates <- PrefixCandidates
  Cutoff = 2
  Limit = 3
INVARIANT DistinctStay
CHECK_DEADLOCK FALSE
