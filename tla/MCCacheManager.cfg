CONSTANTS
  r0 = r0
  r1 = r1
  r2 = r2
  Setups <- ShareAndSpan
SYMMETRY RankSymmetry
SPECIFICATION Spec
INVARIANTS ReadsSeeLatest PinnedIsMapped TransfersSafe DiesOnlyWhenPinned
