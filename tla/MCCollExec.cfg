CONSTANTS
  MaxRanks = 4
  Threads = {1, 2, 3, 4, 5}
  Root = 1
  Nobody = Nobody
  Programs <- MCPrograms
SPECIFICATION CollFairSpec
INVARIANTS OnePlace FramesAndStatesLive FetchesTheTask
PROPERTIES ReturnsWhenAllExecuted Terminates
