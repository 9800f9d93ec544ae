------------------------- MODULE MC_ProcessMonitor -------------------------
(* Model-checking instance of ProcessMonitor: threads and process keys are *)
(* model values.                                                           *)
EXTENDS ProcessMonitor, TLC

CONSTANTS c1, c2, u1, u2, k1, k2

\* One controller, as in the repository's test and destructor.
MCOneController == {c1}

\* Two controllers calling StartMonitoring and StopMonitoring concurrently.
MCTwoControllers == {c1, c2}

MCUsers == {u1, u2}

MCKeys == {k1, k2}

\* Users and keys are interchangeable: no action names one of them.
MCSymmetry == Permutations(MCUsers) \cup Permutations(MCKeys)
=============================================================================
