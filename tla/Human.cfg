SPECIFICATION FairSpec
CONSTANTS
  c1 = c1
  c2 = c2
  c3 = c3
  Calls <- TwoCalls
  Answers <- AnyAnswer
  Natures <- AnyNature
  MaxAnswers = 2
  MaxAsked = 3
  MaxFaults = 1
  Faults <- AllFaults
CHECK_DEADLOCK FALSE
INVARIANTS TypeOK RunsOnce NeverStuck
PROPERTIES RejectedNeverRuns ModelWaits BatchEnds
