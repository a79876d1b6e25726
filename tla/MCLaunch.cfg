SPECIFICATION Spec
CONSTANTS
  SearchDx = 3
  NoOld = NoOld
  NoVital = NoVital
  Runs <- MCRuns
  WeakInvest = 14
  MaxCycle = 6
INVARIANTS ListedLaunched FollowsStorm NumbersRestored
PROPERTIES WarmStart
