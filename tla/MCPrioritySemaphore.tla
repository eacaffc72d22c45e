------------------------- MODULE MCPrioritySemaphore -------------------------
(* Five callers, two of them of the highest priority, for the model checker; *)
(* "urgent" is not a name _PRIORITY_RANK knows.                              *)
EXTENDS PrioritySemaphore, TLC

CONSTANTS h1, h2, m1, m2, l

MCTasks == {h1, h2, m1, m2, l}

MCPriority ==
  h1 :> "high" @@ h2 :> "high" @@ m1 :> "medium" @@ m2 :> "urgent" @@ l :> "low"
=============================================================================
