------------------------ MODULE MC_CognitiveSystem ------------------------
(* Model-checking instance of CognitiveSystem: agent names are model values. *)
EXTENDS CognitiveSystem, TLC

CONSTANTS n1, n2

MCNames == {n1, n2}

\* The names are interchangeable: no action singles one out.
MCNameSymmetry == Permutations(MCNames)
=============================================================================
