-------------------------- MODULE MCCircuitBreaker --------------------------
(* An instance of CircuitBreaker for TLC: four callers, so that calls        *)
(* admitted before an opening are still in flight across it, a threshold   *)
(* of two and a cooldown of two ticks.                                     *)
EXTENDS CircuitBreaker
CONSTANTS c1, c2, c3, c4
MCCallers == {c1, c2, c3, c4}
=============================================================================
