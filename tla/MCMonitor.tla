----------------------------- MODULE MCMonitor -----------------------------
(***************************************************************************)
(* Three clients over two descriptors: c1 asks for a known route and c2    *)
(* for an unknown one, in one segment each; c3 sends its request in two    *)
(* segments, cut inside the request line.  Five system calls: one of a uid *)
(* that is not in the whitelist, one of uid 7, which is, one of root, in   *)
(* it with value 0, one of uid 5, in it with value 0 too, and one that is  *)
(* not suspicious.                                                         *)
(***************************************************************************)
EXTENDS Monitor

CONSTANTS c1, c2, c3, k1, k2, k3, k4, k5

MCClients == {c1, c2, c3}
MCSegments == [c \in MCClients |-> IF c = c3 THEN <<"cut", "whole">> ELSE <<"whole">>]
MCCalls == {k1, k2, k3, k4, k5}
MCNrOf == [k \in MCCalls |-> CASE k = k4 -> "openat" [] k \in {k2, k5} -> "execve" [] OTHER -> "ptrace"]
MCUidOf == [k \in MCCalls |-> CASE k = k1 -> 5 [] k = k3 -> 7 [] k = k5 -> 0 [] OTHER -> 1000]
MCWhitelist == [u \in {0, 5, 7} |-> IF u = 7 THEN 1 ELSE 0]

Scenario(clients, quitters, limit, calls, fails, signal) ==
  [clients |-> clients, quitters |-> quitters, limit |-> limit, calls |-> calls,
   fails |-> fails, signal |-> signal]

\* Every step of start-up failing or not, and a signal at any moment; clients
\* with enough descriptors and with too few; a failing epoll_ctl or accept4;
\* system calls.
AllScenarios ==
  {Scenario({c1}, {c1}, {6}, {}, Range(Steps), TRUE),
   Scenario({c1, c2}, {}, {6, 7}, {}, {}, TRUE),
   Scenario({c2, c3}, {c2, c3}, {6, 7}, {}, {}, FALSE),
   Scenario({c1, c2}, {c1}, {6}, {}, {"epoll_add", "accept4"}, FALSE),
   Scenario({}, {}, {6}, {k1, k2, k4, k5}, {}, FALSE),
   Scenario({}, {}, {6}, {k1, k3}, {}, TRUE)}

\* The second ring buffer cannot be created.
HangScenario == {Scenario({}, {}, {6}, {}, {"audit_rb"}, TRUE)}

\* One client whose request arrives in two segments.
FragmentScenario == {Scenario({c3}, {}, {6}, {}, {}, FALSE)}
=============================================================================
