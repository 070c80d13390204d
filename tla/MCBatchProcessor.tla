--------------------------- MODULE MCBatchProcessor ---------------------------
(***************************************************************************)
(* The deployments the code supports: two threads with a ring that holds   *)
(* the whole pool (the template defaults are 1024 and 512), where the drop *)
(* path is dead; and one thread with a smaller ring, where it is not.      *)
(* TwoThreadsSmallRing is the one the code allows and does not survive.    *)
(***************************************************************************)
EXTENDS BatchProcessor

SupportedDeployments == {[ring |-> 2, serial |-> FALSE], [ring |-> 4, serial |-> FALSE],
                         [ring |-> 1, serial |-> TRUE]}

TwoThreadsSmallRing == {[ring |-> 1, serial |-> FALSE]}
=============================================================================
