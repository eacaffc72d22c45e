---------------------------- MODULE MCAgentRuns ----------------------------
(* Two runs of one agent, or of two agents of which one can be resumed.    *)
EXTENDS AgentRuns

MCMixes == {{1, 2}, {1}, {2}}
=============================================================================
