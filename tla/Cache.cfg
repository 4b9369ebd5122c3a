SPECIFICATION Spec
CONSTANTS
  NULL = NULL
  LRU = LRU
  Entry = {e1, e2, e3, e4}
  Key = {"a", "b"}
  HashSize = 2
  Hash <- HashOf
  Weights = {1, 3}
  MaxSize = 3
  MaxWeight = 4
  MaxRefs = 2
SYMMETRY Symmetry
INVARIANTS
  HeldIsKept
  BucketsWellLinked
  LruWellFormed
  CapacityKept
  NoDuplicates
