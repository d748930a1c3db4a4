---------------------------- MODULE MCAgentWork ----------------------------
(* Model-checking instances of AgentWork.                                  *)
EXTENDS AgentWork
=============================================================================
