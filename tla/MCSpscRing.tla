----------------------------- MODULE MCSpscRing -----------------------------
(* SpscRing with a ring of two slots and counters that wrap every eight.   *)
EXTENDS SpscRing
=============================================================================
