---------------------------- MODULE MCTcpPipeline ----------------------------
(***************************************************************************)
(* Process 1 connects to port 443 twice with the same four-tuple (s1, s2)  *)
(* and owns an accepted socket (s3); process 2 connects to port 80 (s4).   *)
(* pending_connects has one entry, so that the two processes compete for   *)
(* it.  Byte counts are powers of two: a sum tells which sockets are in it.*)
(***************************************************************************)
EXTENDS TcpAccounting

CONSTANTS s1, s2, s3, s4, t1, t2, t3, e1, e2

MCSockets == {s1, s2, s3, s4}
MCPids == {1, 2}
MCConns == {t1, t2, t3}
MCPidOf == [s \in MCSockets |-> IF s = s4 THEN 2 ELSE 1]
MCConnOf == [s \in MCSockets |-> CASE s = s4 -> t3 [] s = s3 -> t2 [] OTHER -> t1]
MCPortOf == [s \in MCSockets |-> IF s = s4 THEN 80 ELSE 443]
MCBytesOf == [s \in MCSockets |-> CASE s = s1 -> 1 [] s = s2 -> 2 [] s = s3 -> 4 [] OTHER -> 8]
MCElems == {e1, e2}

Profile(socks, one, cap, pid, port) ==
  [socks |-> socks, oneAtATime |-> one, cap |-> cap, pid |-> pid, port |-> port]

\* Sequential processes with room for every record, and with a filter and a
\* ring buffer that overflows; parallel ones likewise.
AllProfiles ==
  {Profile({s1, s2, s3}, TRUE, 3, 0, 0), Profile({s1, s4}, TRUE, 3, 0, 0),
   Profile({s1, s2, s4}, TRUE, 1, 0, 443),
   Profile({s1, s3, s4}, FALSE, 1, 0, 0), Profile({s1, s3}, FALSE, 2, 0, 0),
   Profile({s1, s2, s4}, FALSE, 1, 1, 0)}

\* One process with a connected and an accepted socket at the same time.
ParallelProfile == {Profile({s1, s3}, FALSE, 3, 0, 0)}

\* --filter-pid 1 while process 2 also connects.
FilterProfile == {Profile({s1, s4}, TRUE, 3, 1, 0)}
=============================================================================
