----------------------------- MODULE MCAgentStore -----------------------------
(* Instances of AgentStore for TLC.                                              *)
EXTENDS AgentStore
=============================================================================
