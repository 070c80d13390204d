SPECIFICATION Spec
CONSTANTS
  PoolSize = 2
  BURST_SIZE = 2
  Lens = {1, 2}
  MaxAllocs = 5
  Deployments <- SupportedDeployments
INVARIANTS
  TypeOK
  PacketsConserved
  AllocationsAccounted
  BytesAccounted
  LargeRingNeverDrops
PROPERTIES
  SentPacketReturns
CHECK_DEADLOCK FALSE
