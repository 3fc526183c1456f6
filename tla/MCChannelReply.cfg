SPECIFICATION Spec
CONSTANTS
  m1 = m1
  m2 = m2
  Arrivals <- MCArrivals
  Capacity = 2
  MAX_EDIT_FAILURES = 2
  MAX_FILLER_FAILURES = 2
  MaxDeltas = 2
  MaxFillers = 1
  MaxFaults = 2
INVARIANTS
  BubbleInv
  ReplyInv
PROPERTIES
  EndsAccounted
  EveryMessageHandled
CHECK_DEADLOCK FALSE
