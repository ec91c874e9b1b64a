\* A release ends after its first batch.
SPECIFICATION Spec
CONSTANTS
  f1 = f1
  f2 = f2
  c1 = c1
  None = None
  Waiters <- MCWaiters
  Prios <- MCPrios
  Strategy <- MCStrategy
  Requests <- PlainRequests
  Callers <- OneCaller
  InitPermits <- NonePermit
  MaxSupply = 2
  MaxGrant = 2
  NumWakers = 1
PROPERTY StopsOnlyBelowCapacity
CHECK_DEADLOCK FALSE
