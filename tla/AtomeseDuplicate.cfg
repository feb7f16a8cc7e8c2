CONSTANTS
  Sources = {}
  Queries = {}
  IDIOM_LINK_SZ = 4
  LastLetter = 66
  Threads = {1, 2}
  Vocabulary = {"a", "b", "c", "d"}
  Stores <- MCStores
  Configs <- MCTogether
  AnyId = 1
SPECIFICATION AtomeseSpec
INVARIANT CachedNodeReturned
CHECK_DEADLOCK FALSE
