CONSTANTS
  Owner = own
  Thieves = {t1, t2}
  NEntries = 3
  PassVariants = {TRUE, FALSE}
  MarginDiv = 3
  MaxEntries = 4
SPECIFICATION FairSpec
INVARIANTS LocalEmptyIsTrue MutualExclusion
PROPERTIES ImplementsDeque OwnerReturns
