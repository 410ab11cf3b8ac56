SPECIFICATION FairSpec
CONSTANTS
  w1 = w1
  w2 = w2
  m1 = m1
  m2 = m2
  m3 = m3
  Workers <- TwoWorkers
  Members <- TwoMembers
  MaxAttempts = 1
  Asks <- Finishes
  MaxFaults = 1
  Faults <- AllFaults
CHECK_DEADLOCK FALSE
INVARIANT TypeOK
INVARIANT ReleasedComplete
INVARIANT ReleasedAsAsked
INVARIANT SupervisorHeld
PROPERTY GroupEnds
