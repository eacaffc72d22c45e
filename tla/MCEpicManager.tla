--------------------------- MODULE MCEpicManager ----------------------------
(* Two epics and two files, for the model checker.                         *)
EXTENDS EpicManager

CONSTANTS f1, f2

MCPlans == {{f1}, {f1, f2}}
=============================================================================
