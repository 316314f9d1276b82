CONSTANTS
  w0 = w0
  w1 = w1
  w2 = w2
  la = la
  lb = lb
  lc = lc
  Workers = {w0, w1, w2}
  Rank0 = w0
  Threads = {1, 2, 3}
  Root = 1
  Locs = {la, lb, lc}
  NoValue = NoValue
  Nobody = Nobody
  Programs <- SmallPrograms
SPECIFICATION FairSpec
INVARIANTS ReadsSerial OneDirtyCopy
PROPERTIES Terminates
CHECK_DEADLOCK FALSE
