SPECIFICATION FairSpec
CONSTANTS
  t = t  u = u
  Threads <- MCThreads
  Last <- MCLast
  Input <- MCInput
  Captured <- MCCaptured
  Cap = 1
  MaxOut = 2
  Nobody = Nobody
INVARIANTS
  ReturnedWhole
PROPERTIES
  PipelineEnds
  KillEndsPipeline
\* The programs are run once.
CHECK_DEADLOCK FALSE
