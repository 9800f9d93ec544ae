---------------------------- MODULE MC_AtomSpace ----------------------------
(* The graph store for TLC: two names, two linker threads and ids up to 3, *)
(* so that a name can be removed and created again under a new id.        *)
EXTENDS AtomSpace, TLC

CONSTANTS n1, n2, t1, t2

MCNames == {n1, n2}
MCLinkers == {t1, t2}
MCMaxId == 3

\* Linkers are interchangeable; names are not, once ids are given out in
\* order, but permuting them maps behaviours to behaviours.
MCSymmetry == Permutations(MCLinkers) \cup Permutations(MCNames)
=============================================================================
