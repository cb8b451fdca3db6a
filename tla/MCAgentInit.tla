----------------------------- MODULE MCAgentInit -----------------------------
(* TLC instance of AgentInit.                                              *)
EXTENDS AgentInit
=============================================================================
