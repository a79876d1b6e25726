SPECIFICATION FairSpec
CONSTANTS
  p1 = p1  p2 = p2
  t1 = t1  u1 = u1  t2 = t2
  Procs <- MCProcs
  Threads <- MCThreads
  ProcOf <- MCProcOf
  Fields <- MCFields
  Values = {0}
  Unset = 0
  Default <- SameDefault
  Writes <- OneWrite
  NoThread = NoThread
  NoValue = NoValue
  CacheAge = 0
  Nests <- MainThread
  Delivers <- Worker
  Faults = {"held", "crash"}
PROPERTY CallEnds
