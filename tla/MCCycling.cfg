SPECIFICATION FairCycleSpec
CONSTANTS
  Window = 3
  Restarts <- MCRestarts
  Cases <- MCCases
  MaxFailures = 1
INVARIANTS
  CycleTypeOK
  DoneDelivered
PROPERTIES
  HandoverComplete
  HandoverEnds
\* The cycle is over when its last job is.
CHECK_DEADLOCK FALSE
