----------------------------- MODULE AgentTools -----------------------------
(***************************************************************************)
(* A run of the agent together with the calculator, the tool that is part  *)
(* of the tool node (services/api/app/agents/nodes/tool.py).               *)
(***************************************************************************)
EXTENDS AgentGraph, Calculator

agentVars == <<vars, calculatorVars>>

AgentInit == Init /\ CalculatorInit

\* The run is in calculate, which awaits nothing, until the walk has ended.
Calculating == node = "tool" /\ tool = "calculator" /\ walk = "walking"

AgentNext ==
    \/ Calculating /\ CalculatorNext /\ UNCHANGED vars
    \/ ~Calculating /\ Next /\ UNCHANGED calculatorVars

AgentSpec == AgentInit /\ [][AgentNext]_agentVars
=============================================================================
