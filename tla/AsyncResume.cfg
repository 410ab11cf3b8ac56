SPECIFICATION Spec
CONSTANTS
  w1 = w1
  w2 = w2
  w3 = w3
  t1 = t1
  t2 = t2
  Workers <- TwoWorkers
  Tools <- TwoTools
  MaxTurn = 2
  MaxAttempts = 2
  MaxFaults = 2
  Faults <- AllFaults
  Interrupts = TRUE
CHECK_DEADLOCK FALSE
SYMMETRY Symmetry
INVARIANT TypeOK
PROPERTY ImplementsJoin
