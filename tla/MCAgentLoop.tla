------------------------------ MODULE MCAgentLoop ------------------------------
(***************************************************************************)
(* AgentLoop on a small budget.  The cost of a response is free, so any of *)
(* the four ceilings may be the first to be hit.                           *)
(***************************************************************************)
EXTENDS AgentLoop

CONSTANTS a, b, c

===============================================================================
