SPECIFICATION PooledSpec
CONSTANTS
  w1 = w1
  w2 = w2
  c1 = c1
  c2 = c2
  n1 = n1
  NoTask = NoTask
  Workers <- MCWorkers
  Clients <- MCClients
  Nested <- MCNested
  Child <- MCChild
  Requests <- MCClients
  Routes = {"/metrics"}
  RouteOf <- MCRouteOf
  Latencies = {2, 5}
  UINT64_MAX = 7
INVARIANTS
  TypeOK
  CountedBeforeReady
  NoLostWakeup
  StartedInOrder
  DestroyedIsDrained
  CountedOnce
  MeanBetween
PROPERTIES
  AcceptedCompletes
  DestructorReturns
CHECK_DEADLOCK FALSE
