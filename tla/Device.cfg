SPECIFICATION FairSpec
CONSTANTS
  r1 = r1
  r2 = r2
  Requests <- TwoRequests
  Key <- OneKey
  MaxSockets = 3
  MaxFaults = 1
  Faults <- AllFaults
CHECK_DEADLOCK FALSE
INVARIANTS TypeOK NeverStranded PendingWaits ListedServes ConnectedIsListed
PROPERTIES AnswersKept DispatchEnds ComesBack
