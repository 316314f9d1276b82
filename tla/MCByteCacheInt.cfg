CONSTANTS
  BlockSize = 2
  IntWidth = 4
  SubBlockSize = 2
  MaxDirtyBlocks = 2
  NodeSize = 2
  Sizes = {12, 24, 32, 36}
  RankCounts = {2, 3}
  Coarse = 0
  Fine = 0
  Allocs <- MCAllocs
SPECIFICATION Spec
INVARIANTS MapsWithinOpened
CHECK_DEADLOCK FALSE
