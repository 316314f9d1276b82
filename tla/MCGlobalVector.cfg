CONSTANTS
  Jobs <- AllJobs
  Vectors = {"v1", "v2"}
  Blocks = {"b1", "b2", "b3"}
  Counts = {0, 1, 3}
  MaxSize = 3
  MaxOps = 3
SPECIFICATION VecSpec
INVARIANTS ResultsAsPromised NoDataRace ObjectLifetimes MemoryOwned ContentsAsVector
CHECK_DEADLOCK FALSE
