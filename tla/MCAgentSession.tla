--------------------------- MODULE MCAgentSession ---------------------------
(* Instances of AgentSession for TLC. *)
EXTENDS AgentSession

CONSTANTS c1, c2
=============================================================================
