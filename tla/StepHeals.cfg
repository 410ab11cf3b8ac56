CONSTANTS
  w1 = w1
  w2 = w2
  r1 = r1
  Workers <- TwoWorkers
  Requesters <- NoRequesters
  Free = Free
  Dead = Dead
  MaxStep = 1
  StepLimit = 2
  Retries = 3
  MaxFaults = 1
  Faults <- Crashes
  Budgeted = TRUE
  AfterStepHooks = FALSE
SPECIFICATION FairSpec
PROPERTIES StepsHeal
CHECK_DEADLOCK FALSE
