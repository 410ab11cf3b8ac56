CONSTANTS
  w1 = w1
  w2 = w2
  r1 = r1
  Workers <- TwoWorkers
  Requesters <- OneRequester
  Free = Free
  Dead = Dead
  MaxStep = 1
  StepLimit = 2
  Retries = 0
  MaxFaults = 0
  Faults <- NoFaults
  Budgeted = FALSE
  AfterStepHooks = FALSE
SPECIFICATION Spec
PROPERTIES InterruptStops
CHECK_DEADLOCK FALSE
