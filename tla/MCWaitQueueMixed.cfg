\* Mixed sizes: a smaller request of a lower priority overtakes.
SPECIFICATION WQSpec
CONSTANTS
  w1 = w1
  w2 = w2
  w3 = w3
  None = None
  Waiters <- MCWaiters
  Prios <- MCPrios
  Strategy <- MCStrategy
  Requests <- AllRequests
  MaxGrant = 3
  NumWakers = 2
PROPERTY HigherPriorityFirst
CHECK_DEADLOCK FALSE
