\* A release between a poll's look at the word and its push strands the future.
SPECIFICATION Spec
CONSTANTS
  f1 = f1
  f2 = f2
  c1 = c1
  None = None
  Waiters <- MCWaiters
  Prios <- MCPrios
  Strategy <- MCStrategy
  Requests <- PlainRequests
  Callers <- OneCaller
  InitPermits <- NonePermit
  MaxSupply = 1
  MaxGrant = 1
  NumWakers = 1
INVARIANT NoStranded
CHECK_DEADLOCK FALSE
