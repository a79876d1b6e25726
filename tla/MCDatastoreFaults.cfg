SPECIFICATION FairSpec
CONSTANTS
  p1 = p1
  p2 = p2
  m1 = m1
  w1 = w1
  m2 = m2
  k1 = k1
  Procs <- MCProcs
  Threads <- MCThreads
  ProcOf <- MCProcOf
  Main <- MCMain
  Keys <- NoKeys
  Values <- OneValue
  NoValue = NoValue
  NoThread = NoThread
  NoProc = NoProc
  MaxDepth = 2
  Faults = {"held", "raise", "crash", "signal"}
INVARIANT OutsideUnlocked
PROPERTIES
  EnterEnds
  FileLockReleased
\* A signal may leave _db_lock taken for ever: the process ends there.
CHECK_DEADLOCK FALSE
