-------------------------- MODULE MCAgentRegistry --------------------------
(* Instances of AgentRegistry for TLC. *)
EXTENDS AgentRegistry

CONSTANTS c1, c2, m1, a1, a2
=============================================================================
