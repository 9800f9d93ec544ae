-------------------------- MODULE MC_AttentionLoop --------------------------
(* Three atoms, every link relation between them (self-links included),   *)
(* every iteration order, and attention 0.01, 0.1, 0.5 or 1.0 at the start *)
(* of the pass.  With 1.0 = 21600000 units, 0.01 is a multiple of 60^3,   *)
(* so every quotient of one pass over three atoms (at most two spreads,    *)
(* each a division by 10, 20 or 30, and a decay, by 20) is exact.          *)
EXTENDS AttentionLoop, TLC

MCAtomIds == {1, 2, 3}
MCOne == 21600000
\* MulFrac, checked to be exact on every use in a run.
MCMulFrac(x, p, q) ==
    IF Assert(x % q = 0, "inexact attention arithmetic")
    THEN (x \div q) * p ELSE 0

MCInitialAttention == {MCOne \div 100, MCOne \div 10, MCOne \div 2, MCOne}
=============================================================================
