CONSTANTS
  w1 = w1
  w2 = w2
  r1 = r1
  Workers <- TwoWorkers
  Requesters <- NoRequesters
  Free = Free
  Dead = Dead
  MaxStep = 1
  StepLimit = 2
  Retries = 1
  MaxFaults = 2
  Faults <- Exceptions
  Budgeted = FALSE
  AfterStepHooks = TRUE
SPECIFICATION FairSpec
PROPERTIES Settles
CHECK_DEADLOCK FALSE
