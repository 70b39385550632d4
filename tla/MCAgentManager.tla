--------------------------- MODULE MCAgentManager ---------------------------
(***************************************************************************)
(* TLC instances: background agents that compete for slots, one of them in *)
(* a worktree of its own.                                                  *)
(***************************************************************************)
EXTENDS AgentManager

CONSTANTS a1, a2, a3
=============================================================================
