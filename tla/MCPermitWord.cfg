\* Five targets and builds, up to two threads or two semaphores.
SPECIFICATION Spec
CONSTANTS
  t1 = t1
  t2 = t2
  s1 = s1
  s2 = s2
  o1 = o1
  o2 = o2
  None = None
  Threads <- MCThreads
  Sems <- MCSems
  Objects <- MCObjects
  Targets <- MCTargets
  MinSupply = 0
  MaxSupply = 2
SYMMETRY MCSymmetry
INVARIANTS
  WordTypeOK
  PermitsAccounted
  NeverMoreThanCreated
PROPERTIES
  ClosedForever
  NothingIssuedAfterClose
  AddsAreCounted
  ImplementsAtomic
CHECK_DEADLOCK FALSE
