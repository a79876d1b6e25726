CONSTANTS
  w1 = w1  w2 = w2
  t1 = t1  t2 = t2
  Workers <- TwoWorkers
  Tasks <- TwoTasks
  Barrier = Barrier
  Terminate = Terminate
  Nobody = Nobody
  Faults = {"raise", "signal", "race"}
SPECIFICATION FairSpec
CHECK_DEADLOCK FALSE
INVARIANTS PopFindsItem
PROPERTIES BarrierComplete KillStopsWork BarrierEnds KillEnds
