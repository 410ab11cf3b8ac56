SPECIFICATION FairSpec
CONSTANTS
  w1 = w1
  w2 = w2
  w3 = w3
  t1 = t1
  t2 = t2
  Workers <- ThreeWorkers
  Tools <- TwoTools
  MaxTurn = 1
  MaxAttempts = 2
  MaxFaults = 2
  Faults <- HandlerFaults
  Interrupts = FALSE
CHECK_DEADLOCK FALSE
INVARIANT SingleResume
INVARIANT NoLostWakeup
INVARIANT ParkIsHeld
PROPERTY JoinEnds
