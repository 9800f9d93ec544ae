--------------------------- MODULE AbstractMonitor ---------------------------
(***************************************************************************)
(* What CognitiveProcessMonitor promises (spec, "Process monitoring"): a   *)
(* monitoring flag, at most one monitoring context, which is launched only *)
(* while the flag is on and none is left, returns only once the flag is    *)
(* off, and is reaped only after it has returned; and a set of tracked     *)
(* processes that only TrackProcess and UntrackProcess change.  The        *)
(* process is never ended by the monitor (crashed stays FALSE).            *)
(***************************************************************************)
CONSTANT Keys

VARIABLES on, ctx, watched, crashed

absMonVars == <<on, ctx, watched, crashed>>

MonInit ==
    /\ on = FALSE
    /\ ctx = "none"
    /\ watched = {}
    /\ crashed = FALSE

\* The flag is switched on.
TurnOn ==
    /\ ~on
    /\ on' = TRUE
    /\ UNCHANGED <<ctx, watched, crashed>>

\* A context is launched while the flag is on and no context is left.
Launch ==
    /\ on
    /\ ctx = "none"
    /\ ctx' = "running"
    /\ UNCHANGED <<on, watched, crashed>>

\* The flag is switched off.
TurnOff ==
    /\ on
    /\ on' = FALSE
    /\ UNCHANGED <<ctx, watched, crashed>>

\* The context sees the flag off and returns.
Exit ==
    /\ ctx = "running"
    /\ ~on
    /\ ctx' = "exited"
    /\ UNCHANGED <<on, watched, crashed>>

\* A returned context is reaped.
Reap ==
    /\ ctx = "exited"
    /\ ctx' = "none"
    /\ UNCHANGED <<on, watched, crashed>>

\* A process starts or stops being tracked.
Watch(k) ==
    /\ watched' = watched \cup {k}
    /\ UNCHANGED <<on, ctx, crashed>>

Unwatch(k) ==
    /\ watched' = watched \ {k}
    /\ UNCHANGED <<on, ctx, crashed>>

MonNext ==
    \/ TurnOn \/ Launch \/ TurnOff \/ Exit \/ Reap
    \/ \E k \in Keys : Watch(k) \/ Unwatch(k)

MonSpec == MonInit /\ [][MonNext]_absMonVars

=============================================================================
