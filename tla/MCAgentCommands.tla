-------------------------- MODULE MCAgentCommands --------------------------
(***************************************************************************)
(* Instances of AgentCommands for TLC: the .cfg file gives the constants.  *)
(***************************************************************************)
EXTENDS AgentCommands

=============================================================================
