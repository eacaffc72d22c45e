----------------------------- MODULE BoundedGate -----------------------------
(***************************************************************************)
(* What a concurrency cap promises to whoever configures it                *)
(* (max_concurrent_agent_runs, max_concurrent_subtasks_per_epic): never    *)
(* more than Capacity callers between acquire() and release(), which they  *)
(* pass one at a time.                                                     *)
(***************************************************************************)
EXTENDS Naturals, FiniteSets

CONSTANTS Tasks, Capacity

VARIABLE inside

Init == inside = {}

Enter(t) ==
  /\ t \notin inside
  /\ Cardinality(inside) < Capacity
  /\ inside' = inside \union {t}

Leave(t) ==
  /\ t \in inside
  /\ inside' = inside \ {t}

Next == \E t \in Tasks : Enter(t) \/ Leave(t)

Spec == Init /\ [][Next]_inside
=============================================================================
