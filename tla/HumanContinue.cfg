SPECIFICATION FairSpec
CONSTANTS
  c1 = c1
  c2 = c2
  c3 = c3
  Calls <- TwoCalls
  Answers <- Continues
  Natures <- Plain
  MaxAnswers = 2
  MaxAsked = 3
  MaxFaults = 0
  Faults <- NoFaults
CHECK_DEADLOCK FALSE
PROPERTY ModelSeesWholeBatch
