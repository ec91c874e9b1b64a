\* A notified future that is dropped takes its permits along.
SPECIFICATION Spec
CONSTANTS
  f1 = f1
  f2 = f2
  c1 = c1
  None = None
  Waiters <- MCWaiters
  Prios <- MCPrios
  Strategy <- MCStrategy
  Requests <- PlainRequests
  Callers <- OneCaller
  InitPermits <- UpToOne
  MaxSupply = 1
  MaxGrant = 1
  NumWakers = 1
INVARIANT AllPermitsReturn
CHECK_DEADLOCK FALSE
