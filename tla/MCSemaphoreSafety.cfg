\* Two futures and one other thread, mixed sizes and priorities.
SPECIFICATION Spec
CONSTANTS
  f1 = f1
  f2 = f2
  c1 = c1
  None = None
  Waiters <- MCWaiters
  Prios <- MCPrios
  Strategy <- MCStrategy
  Requests <- MixedRequests
  Callers <- OneCaller
  InitPermits <- UpToTwo
  MaxSupply = 2
  MaxGrant = 2
  NumWakers = 1
SYMMETRY MCSymmetry
INVARIANTS
  SemInductive
  Conservation
  ClosedNobodyWaits
  WakerCarried
  WakesHaveNews
  PermitsComeBack
PROPERTIES
  ClosedIssuesNothing
  NoGrantToDropped
  CloseWakesSleepers
  CallsAdvance
  ImplementsCounting
CHECK_DEADLOCK FALSE
