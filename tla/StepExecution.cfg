CONSTANTS
  w1 = w1
  w2 = w2
  r1 = r1
  Workers <- TwoWorkers
  Requesters <- OneRequester
  Free = Free
  Dead = Dead
  MaxStep = 1
  StepLimit = 2
  Retries = 1
  MaxFaults = 2
  Faults <- LeaseFaults
  Budgeted = FALSE
  AfterStepHooks = TRUE
SPECIFICATION Spec
INVARIANTS TypeOK OneExecutor ScheduledOnce EndedStaysEnded NoStepDropped IInv
PROPERTIES ImplementsLedger
SYMMETRY Symmetry
CHECK_DEADLOCK FALSE
