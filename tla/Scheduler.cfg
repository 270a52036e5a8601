SPECIFICATION FairSpec
CONSTANTS
  NumEvents = 3
  Delays = {1, 2}
  Horizon = 5
  Never = 9
  MaxDepth = 2
INVARIANTS
  NoneOverdue
PROPERTIES
  
  ImplementsAlarmClock
  AdvanceReturns
CHECK_DEADLOCK FALSE
