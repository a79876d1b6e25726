SPECIFICATION FairSpec
CONSTANTS
  a = a  b = b  u = u
  Mine <- MCMine
  Upstream <- MCUpstream
  Lists <- MCLists
  NoProduct = NoProduct
  MaxRuns = 2
  MaxTime = 2
  SleepTime = 1
  CacheAge = 1
  MinAge = 1
INVARIANTS
  AvailableWhole
  CompletedDelivered
PROPERTIES
  ActionFindsFile
  WaitEnds
\* The bounds on the runs and on time come to an end.
CHECK_DEADLOCK FALSE
