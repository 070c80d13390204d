---------------------------- MODULE MCThreadPool ----------------------------
(* Two workers, two clients; the first client's task submits another task. *)
(* The clients' tasks time themselves, on one route.                       *)
EXTENDS PooledRequests

CONSTANTS w1, w2, c1, c2, n1

MCWorkers == {w1, w2}
MCClients == {c1, c2}
MCNested == {n1}
MCTasks == {c1, c2, n1}
MCChild == [t \in MCTasks |-> IF t = c1 THEN n1 ELSE NoTask]
MCRouteOf == [t \in MCClients |-> "/metrics"]
=============================================================================
