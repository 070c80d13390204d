---------------------------- MODULE BoundedQueue ----------------------------
(***************************************************************************)
(* What SpscRing promises its two owners: a FIFO queue of at most Capacity *)
(* items, which the producer extends by a whole batch and from which the   *)
(* consumer removes a whole batch, each in one indivisible step.  A call   *)
(* that moves nothing (ring full, ring empty) is a stuttering step.        *)
(***************************************************************************)
EXTENDS Naturals, Sequences

CONSTANTS Capacity, Items

VARIABLES queue,      \* the items published and not yet taken, oldest first
          delivered   \* the batch the last successful dequeue handed out

qvars == <<queue, delivered>>

Init == queue = <<>> /\ delivered = <<>>

Put == \E n \in 1..Capacity : \E batch \in [1..n -> Items] :
          /\ Len(queue) + n <= Capacity
          /\ queue' = queue \o batch
          /\ UNCHANGED delivered

Take == \E n \in 1..Len(queue) :
          /\ delivered' = SubSeq(queue, 1, n)
          /\ queue' = SubSeq(queue, n + 1, Len(queue))

Next == Put \/ Take

Spec == Init /\ [][Next]_qvars
=============================================================================
