SPECIFICATION Spec
CONSTANTS
  p1 = p1  p2 = p2
  t1 = t1  u1 = u1  t2 = t2
  Procs <- MCProcs
  Threads <- MCThreads
  ProcOf <- MCProcOf
  Fields <- MCFields
  Values = {0, 1, 2}
  Unset = 0
  Default <- MCDefault
  Writes <- MCWrites
  NoThread = NoThread
  NoValue = NoValue
  CacheAge = 1
  Nests <- NoThreads
  Delivers <- NoThreads
  Faults = {"held", "crash"}
INVARIANT ReadFresh
PROPERTY SetStored
