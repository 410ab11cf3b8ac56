SPECIFICATION Spec
CONSTANTS
  MaxEvents = 2
  Capacity = 3
  MaxConns = 1
  MaxFaults = 0
  Faults <- NoFaults
CHECK_DEADLOCK FALSE
INVARIANT ErrorMeansFailed
