\* Two futures that want one permit each, under fairness.
SPECIFICATION FairSpec
CONSTANTS
  f1 = f1
  f2 = f2
  c1 = c1
  None = None
  Waiters <- MCWaiters
  Prios <- MCPrios
  Strategy <- MCStrategy
  Requests <- UnitRequests
  Callers <- OneCaller
  InitPermits <- NonePermit
  MaxSupply = 1
  MaxGrant = 1
  NumWakers = 1
PROPERTIES
  CallsEnd
  WakeupDelivered
  CloseReachesParked
CHECK_DEADLOCK FALSE
