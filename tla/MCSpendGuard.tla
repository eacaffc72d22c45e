---------------------------- MODULE MCSpendGuard ----------------------------
(* Two worker processes, the first with two calls, for the model checker.  *)
EXTENDS SpendGuard, TLC

CONSTANTS c1, c2, c3, p1, p2

MCHome == c1 :> p1 @@ c2 :> p1 @@ c3 :> p2

(* The two calls of the first process differ only by name.                 *)
Symmetry == Permutations({c1, c2})
=============================================================================
