\* Every mix of sizes and priorities of three waiters.
SPECIFICATION WQSpec
CONSTANTS
  w1 = w1
  w2 = w2
  w3 = w3
  None = None
  Waiters <- MCWaiters
  Prios <- MCPrios
  Strategy <- MCStrategy
  Requests <- AllRequests
  MaxGrant = 3
  NumWakers = 2
SYMMETRY MCSymmetry
INVARIANTS
  HeapMatchesQueues
  CountMatchesQueues
  NoWaiterLost
  NotifiedNotQueued
  SelectionExhausts
  QueueInductive
PROPERTIES
  ServedInOrder
  StrictPriority
  SelectionShrinks
CHECK_DEADLOCK FALSE
