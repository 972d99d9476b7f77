---------------------------- MODULE MCAgentGraph ----------------------------
(* A small instance of AgentTools for TLC: the registry of main.py, of which *)
(* only vector_search calls its stores without a guard, and the calculator   *)
(* with its caps scaled down.                                                *)
EXTENDS AgentTools, TLC
=============================================================================
