SPECIFICATION FairSpec
CONSTANTS
  Cases <- MCCases
  Throttle = 2
  MaxFailures = 1
INVARIANTS
  WarmestStart
  NotScrubbed
PROPERTIES
  InputsWhole
  CycleCompletes
\* The workflow is over when its last cycle is completed.
CHECK_DEADLOCK FALSE
