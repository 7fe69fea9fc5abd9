----------------------------- MODULE MCAgentRpc -----------------------------
(* AgentRpc on small sets of worker processes. *)
EXTENDS AgentRpc, TLC
=============================================================================
