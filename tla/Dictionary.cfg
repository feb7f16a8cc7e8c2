CONSTANTS
  Sources <- MCSources
  Queries <- MCQueries
  IDIOM_LINK_SZ = 4
  LastLetter = 66
  Threads = {1, 2}
  Vocabulary = {"a", "b", "c", "d"}
  Stores <- MCStores
  Configs <- MCConfigs
  AnyId = 1
SPECIFICATION MCSpec
INVARIANTS
  FilesReadExactly
  SetupExact
  AtomLookupsExact
  LinkIdsExact
CHECK_DEADLOCK FALSE
