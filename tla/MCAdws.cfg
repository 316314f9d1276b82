CONSTANTS
  MaxRanks = 3
  Threads = {1, 2, 3, 4, 5, 6, 7}
  Root = 1
  Programs <- MCPrograms
  Unit = 12
  Epsilon = 1
  MinDrange = 2
  MaxDepth = 2
  VersionMax = 100
  Nobody = Nobody
SPECIFICATION FairSpec
INVARIANTS OnePlace FramesIntact CrossOnOwner 
PROPERTIES Terminates
