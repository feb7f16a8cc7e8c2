SPECIFICATION MCSpec
CONSTANTS
  MaxStrip = 4
  MaxStripAlt = 3
  MaxSplits = 3
  MaxNulls = 1
  LinkageLimit = 3
  ParseNumOverflow = 5
  MaxTries = 1
  NumWords = 5
  Sentences <- MCSentences
  TCD = 2
  MaxAlloced = 4
  Candidates <- MCCandidates
  Cutoff = 2
  Limit = 3
INVARIANT GraphSpells
INVARIANT SlotsFollow
INVARIANT SanePath
INVARIANT PrunedExactly
INVARIANT DisjunctsExact
INVARIANT CountIsExact
INVARIANT ExtractsLinkages
INVARIANT DomainsExact
INVARIANT VerdictsKept
INVARIANT SweepExact
INVARIANT SatExact
CHECK_DEADLOCK FALSE
