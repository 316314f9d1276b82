CONSTANTS
  Ranks = {r0, r1}
  Rank0 = r0
  MaxWrites <- TwoWritesEach
  MaxHandlers = 2
SPECIFICATION FairSpec
INVARIANTS AcquiredIsReleased PollCheckHolds CachedEpochsLag
PROPERTIES AcquireReturns
