SPECIFICATION Spec
CONSTANTS
  s1 = s1
  s2 = s2
  s3 = s3
  s4 = s4
  t1 = t1
  t2 = t2
  t3 = t3
  e1 = e1
  e2 = e2
  None = None
  Sockets <- MCSockets
  Pids <- MCPids
  Conns <- MCConns
  PidOf <- MCPidOf
  ConnOf <- MCConnOf
  PortOf <- MCPortOf
  BytesOf <- MCBytesOf
  Accepted = {s3}
  MaxEntries = 1
  Elems <- MCElems
  Profiles <- FilterProfile
INVARIANT
  OnlyTraced
