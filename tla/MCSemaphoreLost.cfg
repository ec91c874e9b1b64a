\* A waker that is stored after the notification is never used.
SPECIFICATION FairSpec
CONSTANTS
  f1 = f1
  f2 = f2
  c1 = c1
  None = None
  Waiters <- MCWaiters
  Prios <- MCPrios
  Strategy <- MCStrategy
  Requests <- PlainRequests
  Callers <- OneCaller
  InitPermits <- NonePermit
  MaxSupply = 1
  MaxGrant = 1
  NumWakers = 1
PROPERTY GrantDelivered
CHECK_DEADLOCK FALSE
