SPECIFICATION FairSpec
CONSTANTS
  MaxEvents = 2
  Capacity = 2
  MaxConns = 3
  MaxFaults = 2
  Faults <- AllFaults
CHECK_DEADLOCK FALSE
INVARIANTS TypeOK EndIsAhead NothingMissed
PROPERTIES ImplementsFeed CatchesUp SubscriptionsEnd
