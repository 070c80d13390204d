SPECIFICATION Spec
CONSTANTS
  PoolSize = 2
  BURST_SIZE = 2
  Lens = {1, 2}
  MaxAllocs = 5
  Deployments <- TwoThreadsSmallRing
INVARIANT
  PacketsConserved
CHECK_DEADLOCK FALSE
