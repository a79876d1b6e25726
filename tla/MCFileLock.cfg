SPECIFICATION FairSpec
CONSTANTS
  p1 = p1
  p2 = p2
  m1 = m1
  w1 = w1
  m2 = m2
  Procs <- MCProcs
  Threads <- MCThreads
  ProcOf <- MCProcOf
  Main <- MCMain
  NoProc = NoProc
  MaxTries = 2
  Signalled <- MCSignalled
INVARIANT NoOrphanLock
PROPERTIES
  NoLockAfterDisable
  AcquireEnds
  MutexSpec
\* All processes may exit.
CHECK_DEADLOCK FALSE
