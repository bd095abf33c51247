SPECIFICATION FairSpec
CONSTANTS
  Readers = {r1, r2}
  Versions = 2
  Size <- Sizes
  Tag <- Tags
  Chunk = 2
  Budget = 3
  Attempts = 2
  Offsets = {1, 4, 5}
  Lengths = {1, 4}
INVARIANTS
  CacheIndexed
  WithinBudget
  OneVersion
  ReadContract
PROPERTY ReadsReturn
CHECK_DEADLOCK FALSE
