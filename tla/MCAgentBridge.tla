--------------------------- MODULE MCAgentBridge ---------------------------
(***************************************************************************)
(* Instances of AgentBridge for TLC.                                       *)
(***************************************************************************)
EXTENDS AgentBridge, TLC

=============================================================================
