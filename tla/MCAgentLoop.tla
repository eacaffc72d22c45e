---------------------------- MODULE MCAgentLoop -----------------------------
(* An agent with a check, an edit, a submit tool and a question, under the *)
(* three cost modes, or with the adapter of another provider.              *)
EXTENDS AgentLoop, TLC

CONSTANTS scan, edit, submit, ask

Economy == {"memory"}
Balanced == {"planning", "memory", "critique"}

MCProfiles == {Economy, Balanced, Optional, {"adapter"}}
=============================================================================
