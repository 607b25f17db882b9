---------------------------------- MODULE Sums ----------------------------------
(***************************************************************************)
(* The sum of an integer function over a finite set, as the models take it *)
(* of the token balances, contributions and stakes they keep.              *)
(***************************************************************************)
EXTENDS Integers, FiniteSetsExt

(* The sum of f over S, a subset of its domain.                            *)
SumOver(f, S) == MapThenSumSet(LAMBDA x : f[x], S)

===============================================================================
