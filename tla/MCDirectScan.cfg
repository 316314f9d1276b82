CONSTANTS
  Jobs <- DirectScan
  Vectors = {}
  Blocks = {"b1"}
  Counts = {}
  MaxSize = 0
  MaxOps = 0
SPECIFICATION VecSpec
INVARIANT ScanAsDocumented
CHECK_DEADLOCK FALSE
