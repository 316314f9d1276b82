CONSTANTS
  BlockSize = 4
  IntWidth = 8
  SubBlockSize = 2
  MaxDirtyBlocks = 2
  NodeSize = 1
  Sizes = {3, 5, 10, 17}
  RankCounts = {2, 3, 4}
  Coarse = 1
  Fine = 2
  Allocs <- MCAllocs
SPECIFICATION Spec
INVARIANTS BlocksSound LatestKept ReadsSeeLatest
