SPECIFICATION Spec
CONSTANTS
  c1 = c1
  c2 = c2
  c3 = c3
  k1 = k1
  k2 = k2
  k3 = k3
  k4 = k4
  k5 = k5
  None = None
  Clients <- MCClients
  Segments <- MCSegments
  Known = {c1, c3}
  Fds = {6, 7}
  MaxEvents = 2
  Calls <- MCCalls
  NrOf <- MCNrOf
  UidOf <- MCUidOf
  uid_whitelist <- MCWhitelist
  AuditCap = 2
  Scenarios <- AllScenarios
INVARIANTS
  TypeOK
  NeverTouchesDead
  BuffersOwn
  WholeRequestAnswered
  AuditExact
  AllReleased
PROPERTIES
  SignalEndsProcess
  ClientServed
  AlertRaised
CHECK_DEADLOCK FALSE
