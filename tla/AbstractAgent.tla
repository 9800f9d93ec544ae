---------------------------- MODULE AbstractAgent ----------------------------
(***************************************************************************)
(* What CognitiveAgent promises about its execution context (spec,         *)
(* "Scheduling model" and "Lifecycle"): one dedicated context per started  *)
(* agent, which runs until it is asked to stop; Stop is cooperative (a     *)
(* flag, then the caller waits until the context has exited).  Nothing is *)
(* said here about m_state: the code does not keep that promise (see the   *)
(* StoppedIsInactive and PauseHolds counterexamples of AgentLifecycle).    *)
(*                                                                         *)
(* ctx[a] is the context of agent a: "none" (no context, or one already    *)
(* reaped), "running", or "exited" (returned, not yet reaped).  stopReq[a] *)
(* is the stop request.  crashed records the end of the process by         *)
(* launching over a context that was never reaped.                         *)
(***************************************************************************)
CONSTANT Agents

VARIABLES ctx, stopReq, crashed

absVars == <<ctx, stopReq, crashed>>

AbsInit ==
    /\ ctx = [a \in Agents |-> "none"]
    /\ stopReq = [a \in Agents |-> FALSE]
    /\ crashed = FALSE

\* A new context is launched for an agent that has none; its stop request
\* starts clear.
Launch(a) ==
    /\ ctx[a] = "none"
    /\ ctx' = [ctx EXCEPT ![a] = "running"]
    /\ stopReq' = [stopReq EXCEPT ![a] = FALSE]
    /\ UNCHANGED crashed

\* Launching over a context that is still there ends the process.
Crash(a) ==
    /\ ctx[a] # "none"
    /\ crashed' = TRUE
    /\ UNCHANGED <<ctx, stopReq>>

\* A stop is requested.
RequestStop(a) ==
    /\ stopReq' = [stopReq EXCEPT ![a] = TRUE]
    /\ UNCHANGED <<ctx, crashed>>

\* A running context sees the request and returns.
Exit(a) ==
    /\ ctx[a] = "running"
    /\ stopReq[a]
    /\ ctx' = [ctx EXCEPT ![a] = "exited"]
    /\ UNCHANGED <<stopReq, crashed>>

\* The stopping caller's wait ends: the context is gone.
Reap(a) ==
    /\ ctx[a] = "exited"
    /\ ctx' = [ctx EXCEPT ![a] = "none"]
    /\ UNCHANGED <<stopReq, crashed>>

AbsNext ==
    /\ ~crashed
    /\ \E a \in Agents :
          Launch(a) \/ Crash(a) \/ RequestStop(a) \/ Exit(a) \/ Reap(a)

\* A context that has been asked to stop does return.
AbsFairness == \A a \in Agents : WF_absVars(~crashed /\ Exit(a))

AbsSpec == AbsInit /\ [][AbsNext]_absVars /\ AbsFairness

=============================================================================
