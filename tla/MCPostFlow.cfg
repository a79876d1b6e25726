SPECIFICATION Spec
CONSTANTS
  Last = 2
  Groups = 2
  Stride = 2
  Earliest = 0
  MaxRuns = 2
  Flows <- Apart
CHECK_DEADLOCK FALSE
INVARIANTS MarkedDelivered FinalProducts OceanFinal NoVainWait
