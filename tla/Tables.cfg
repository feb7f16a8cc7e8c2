SPECIFICATION MCSpec
CONSTANTS
  NumElements = 4
  ElementSize = 1
  NextSize = 2
  ZeroOut = TRUE
  Vecs = {1, 2, 3, 4}
  MaxBlocks = 2
  Threads = {1}
  Keys = {1, 2, 3, 4}
  Hash <- MCKeyHash
  Counts = {0, 1}
  InitSizes = {2, 4}
  MaxTableSize = 8
  InvLoadFactor = 3
  Connectors <- MCConnectors
  OtherNames = {14, 47, 0, 1, 8}
  Size = 16
  MaxRefcount = 2
  s_prime <- MCPrimes
  Strings <- MCStrings
  hash_string <- MCHash
  SizeOf <- MCSizes
  MEM_POOL_INIT = 16
  MEM_POOL_INCR = 16
  STR_ALIGNMENT = 4
  Header = 2
  TraconsUsed <- MCTracons
  HashOf <- MCListHash
  ShallowHash = 5
  MaxResets = 1
  LongSentences <- MCLongSentences
  MaxNullCount = 2
INVARIANT RegionsDisjoint
PROPERTY IssuedZeroed
INVARIANT SearchFindsUsed
INVARIANT OneForEachString
INVARIANT SharesSame
PROPERTY StringsInterned
PROPERTY TraconsInterned
INVARIANT FindsStored
INVARIANT CachesChangeNothing
CHECK_DEADLOCK FALSE
