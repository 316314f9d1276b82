CONSTANTS
  Mems <- MCMems
  CheckoutRequests <- MCCheckouts
  NEntries = 3
  MaxOut = 1
  NRanks = 2
  VmPage = 1
  MapBlock = 2
  Space = 16
  Foreign <- MCForeign
  MaxTrial = 2
  MaxAllocs = 3
  WinSize = 36
  PageSize = 4
  BlockSize = 16
  NoncollSize = 18
  FlagSize = 1
  Others = {r1, r2}
  HeaderSize = 2
  Requests <- MCRequests
  MaxObjects = 3
  MaxUnflushed = 2
  FirstThreshold = 6
  ThresholdMax = 16
SYMMETRY RankSymmetry
SPECIFICATION MCSpec
INVARIANTS UsedIsMapped EntriesSound AllocationsAgree NoAddressTwice HeapSound FlagsSafe CollectComplete
CHECK_DEADLOCK FALSE
