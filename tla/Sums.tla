-------------------------------- MODULE Sums --------------------------------
(***************************************************************************)
(* The sum of a function over a finite set.                                *)
(***************************************************************************)
EXTENDS Integers, Folds

Pick(T) == CHOOSE x \in T : TRUE

\* f[x] summed over the x in S.
SumOver(f, S) == MapThenFoldSet(LAMBDA a, b : a + b, 0, LAMBDA x : f[x], Pick, S)
=============================================================================
