SPECIFICATION MCSpec
CONSTANTS
  NULL = NULL
  JUNK = JUNK
  Elements = {1, 2, 3, 4}
  HashFunctions <- MCHashFunctions
  Thresholds = {1, 2}
  InitialBuckets = 1
  MaxBuckets = 16
  Ranks <- MCRanks
  Nodes = {1, 2, 3, 4, 5}
  NodeRanks <- MCNodeRanks
  Values = {v1, v2}
  ZERO = ZERO
  FirstSlots = 1
  MaxLength = 4
  Letters = {"a", "b"}
  END = "end"
  FirstSize = 2
  MaxText = 5
INVARIANTS
  HashTypeOK
  FindIsExact
  ChainsBounded
  IterationIsExact
  ListsKeep
  ArrayKeeps
  TextIsThere
  FindsNearest
PROPERTIES
  KeepsOrder
