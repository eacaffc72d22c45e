--------------------------- MODULE MCTaskLifecycle ---------------------------
(* A small instance of TaskLifecycle for TLC: two requests or jobs at a    *)
(* time, any number of them in a row.                                      *)
EXTENDS TaskLifecycle, TLC

CONSTANTS p1, p2

Two == {p1, p2}

(* Processes differ in nothing but their name.                             *)
Symmetry == Permutations(Procs)
=============================================================================
