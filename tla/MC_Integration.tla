--------------------------- MODULE MC_Integration ---------------------------
(* Two caller threads, two agent names of which Initialize creates one,    *)
(* and the agent statistic bounded at 4.                                    *)
EXTENDS Integration, TLC

CONSTANTS c1, c2, n1, n2

MCCallers == {c1, c2}
MCNames == {n1, n2}
MCDefaults == {n1}
MCMaxStat == 4

MCCallerSymmetry == Permutations(MCCallers)
=============================================================================
