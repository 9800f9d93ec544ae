------------------------- MODULE MC_AgentLifecycle -------------------------
(* Model-checking instance of AgentLifecycle: agents are model values.     *)
EXTENDS AgentLifecycle, TLC

CONSTANTS a1, a2

MCAgents == {a1, a2}

\* The agents are interchangeable: no action names one of them.
MCSymmetry == Permutations(MCAgents)
=============================================================================
