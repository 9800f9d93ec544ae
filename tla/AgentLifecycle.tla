--------------------------- MODULE AgentLifecycle ---------------------------
(***************************************************************************)
(* The lifecycle of CognitiveAgent (src/src/shared/cognitive/cognitive.cpp)*)
(* : the public calls Start, Stop, Pause and Resume, made by client        *)
(* threads under m_stateMutex, and the agent's own processing thread that  *)
(* runs ProcessingLoop.  The cycle stages are abstracted to what they do   *)
(* to the lifecycle: Perceive, Learn and SelfModify write m_state without  *)
(* taking m_stateMutex; Reason, Plan and Act do not touch it.  Any stage   *)
(* may throw, and the catch block sets m_state to Error.                   *)
(*                                                                         *)
(* thread[a] is the program counter of the agent's std::thread:            *)
(*   "none"    no joinable thread object (never started, or joined)        *)
(*   "check"   at the while (!m_shouldStop) test                           *)
(*   "perceive" .. "selfmod"  about to run that stage                      *)
(*   "coin"    drawing the 1% self-modification chance                    *)
(*   "wait"    at m_stateCondition.wait_for                                *)
(*   "exited"  ProcessingLoop returned, thread still joinable              *)
(* stopper[a] is the client in Stop: "idle", or "join" once it has         *)
(* released m_stateMutex and is about to test joinable() and join().      *)
(* terminated records std::terminate: assigning a new std::thread to a     *)
(* joinable m_processingThread ends the process.                           *)
(***************************************************************************)
EXTENDS Naturals, FiniteSets

CONSTANT Agents           \* the names of the CognitiveAgent objects

ASSUME AgentsAssumption == Agents # {} /\ IsFiniteSet(Agents)

VARIABLES
    state,       \* m_state
    shouldStop,  \* m_shouldStop
    thread,      \* program counter of m_processingThread
    stopper,     \* progress of a client inside Stop()
    terminated   \* std::terminate was called

vars == <<state, shouldStop, thread, stopper, terminated>>

States == {"Inactive", "Active", "Learning", "Planning", "Executing",
           "SelfModifying", "Error"}

\* States counted as active by CognitiveSystem::GetStatistics.
ActiveStates == {"Active", "Learning", "Planning", "Executing", "SelfModifying"}

\* Program counters of a thread that is running ProcessingLoop.
Running == {"check", "perceive", "reason", "plan", "act", "learn", "coin",
            "selfmod", "wait"}

ThreadPcs == Running \cup {"none", "exited"}

\* Program counters at which a stage call may throw.  Perceive writes
\* m_state before any call that can throw, so a throw "in Perceive" has the
\* same effect as one at "reason".
Throwing == {"reason", "plan", "act", "learn", "coin", "selfmod"}

TypeOK ==
    /\ state \in [Agents -> States]
    /\ shouldStop \in [Agents -> BOOLEAN]
    /\ thread \in [Agents -> ThreadPcs]
    /\ stopper \in [Agents -> {"idle", "join"}]
    /\ terminated \in BOOLEAN

\* The constructor leaves every agent Inactive with no thread.
Init ==
    /\ state = [a \in Agents |-> "Inactive"]
    /\ shouldStop = [a \in Agents |-> FALSE]
    /\ thread = [a \in Agents |-> "none"]
    /\ stopper = [a \in Agents |-> "idle"]
    /\ terminated = FALSE

-----------------------------------------------------------------------------
(* Client calls.  Each runs under m_stateMutex and is one atomic step.     *)

\* Start(): returns unless m_state is Inactive; otherwise clears the stop
\* flag, sets Active and move-assigns a new std::thread to
\* m_processingThread, which calls std::terminate if that is still joinable.
Start(a) ==
    /\ state[a] = "Inactive"
    /\ \/ /\ thread[a] = "none"
          /\ shouldStop' = [shouldStop EXCEPT ![a] = FALSE]
          /\ state' = [state EXCEPT ![a] = "Active"]
          /\ thread' = [thread EXCEPT ![a] = "check"]
          /\ UNCHANGED <<stopper, terminated>>
       \/ /\ thread[a] # "none"
          /\ terminated' = TRUE
          /\ UNCHANGED <<state, shouldStop, thread, stopper>>

\* Stop(), first half: under the lock set m_shouldStop and Inactive, then
\* notify_all (the wait is modelled as always returning, see Wait).
StopRequest(a) ==
    /\ stopper[a] = "idle"
    /\ shouldStop' = [shouldStop EXCEPT ![a] = TRUE]
    /\ state' = [state EXCEPT ![a] = "Inactive"]
    /\ stopper' = [stopper EXCEPT ![a] = "join"]
    /\ UNCHANGED <<thread, terminated>>

\* Mutant of StopJoin: the thread is detached instead of joined, so Stop()
\* returns without waiting for ProcessingLoop.
StopJoinDetached(a) ==
    /\ stopper[a] = "join"
    /\ stopper' = [stopper EXCEPT ![a] = "idle"]
    /\ UNCHANGED <<state, shouldStop, thread, terminated>>

\* Mutant of StopJoin: if (joinable()) detach().  The thread object is
\* empty at once, whether or not ProcessingLoop has returned.
StopJoinDetachObject(a) ==
    /\ stopper[a] = "join"
    /\ thread' = [thread EXCEPT ![a] = "none"]
    /\ stopper' = [stopper EXCEPT ![a] = "idle"]
    /\ UNCHANGED <<state, shouldStop, terminated>>

\* Stop(), second half: if (joinable()) join().  The caller blocks until the
\* processing thread has returned from ProcessingLoop.
StopJoin(a) ==
    /\ stopper[a] = "join"
    /\ thread[a] \in {"none", "exited"}
    /\ thread' = [thread EXCEPT ![a] = "none"]
    /\ stopper' = [stopper EXCEPT ![a] = "idle"]
    /\ UNCHANGED <<state, shouldStop, terminated>>

\* Pause(): Active becomes Inactive; any other state is left alone.
Pause(a) ==
    /\ state[a] = "Active"
    /\ state' = [state EXCEPT ![a] = "Inactive"]
    /\ UNCHANGED <<shouldStop, thread, stopper, terminated>>

\* Resume(): Inactive becomes Active unless a stop was requested.
Resume(a) ==
    /\ state[a] = "Inactive"
    /\ ~shouldStop[a]
    /\ state' = [state EXCEPT ![a] = "Active"]
    /\ UNCHANGED <<shouldStop, thread, stopper, terminated>>

-----------------------------------------------------------------------------
(* Steps of the processing thread of agent a (ProcessingLoop).             *)

Goto(a, from, to) ==
    /\ thread[a] = from
    /\ thread' = [thread EXCEPT ![a] = to]

\* Mutant of Check: the loop tests ShouldContinueProcessing() (declared in
\* cognitive.h, cognitive.cpp:418) instead of !m_shouldStop.
CheckContinueProcessing(a) ==
    /\ thread[a] = "check"
    /\ thread' = [thread EXCEPT ![a] =
                    IF ~shouldStop[a] /\ state[a] = "Active" THEN "perceive"
                                                             ELSE "exited"]
    /\ UNCHANGED <<state, shouldStop, stopper, terminated>>

\* while (!m_shouldStop)
Check(a) ==
    /\ thread[a] = "check"
    /\ thread' = [thread EXCEPT ![a] = IF shouldStop[a] THEN "exited"
                                                          ELSE "perceive"]
    /\ UNCHANGED <<state, shouldStop, stopper, terminated>>

\* Mutant of Perceive: the stage does not reset m_state.
PerceiveKeepState(a) ==
    /\ Goto(a, "perceive", "reason")
    /\ UNCHANGED <<state, shouldStop, stopper, terminated>>

\* Perceive(): m_state = State::Active, without the lock.
Perceive(a) ==
    /\ Goto(a, "perceive", "reason")
    /\ state' = [state EXCEPT ![a] = "Active"]
    /\ UNCHANGED <<shouldStop, stopper, terminated>>

\* Reason(), Plan() and Act() leave m_state alone.
Reason(a) == Goto(a, "reason", "plan") /\ UNCHANGED <<state, shouldStop, stopper, terminated>>
Plan(a) == Goto(a, "plan", "act") /\ UNCHANGED <<state, shouldStop, stopper, terminated>>
Act(a) == Goto(a, "act", "learn") /\ UNCHANGED <<state, shouldStop, stopper, terminated>>

\* Learn(): m_state = State::Learning, without the lock.
Learn(a) ==
    /\ Goto(a, "learn", "coin")
    /\ state' = [state EXCEPT ![a] = "Learning"]
    /\ UNCHANGED <<shouldStop, stopper, terminated>>

\* if (dis(gen) < 0.01) SelfModify();  either outcome of the draw.
Coin(a) ==
    /\ thread[a] = "coin"
    /\ \E next \in {"selfmod", "wait"} : thread' = [thread EXCEPT ![a] = next]
    /\ UNCHANGED <<state, shouldStop, stopper, terminated>>

\* SelfModify(): m_state = State::SelfModifying, without the lock.
SelfModify(a) ==
    /\ Goto(a, "selfmod", "wait")
    /\ state' = [state EXCEPT ![a] = "SelfModifying"]
    /\ UNCHANGED <<shouldStop, stopper, terminated>>

\* wait_for(lock, 100ms, pred) returns when pred holds or on the timeout, so
\* it always returns; the predicate only decides whether it sleeps first.
Wait(a) == Goto(a, "wait", "check") /\ UNCHANGED <<state, shouldStop, stopper, terminated>>

\* The predicate of the wait: when it holds on entry wait_for does not sleep.
WaitPredicate(a) == shouldStop[a] \/ state[a] # "Active"

\* catch (...): a stage threw; under the lock m_state = State::Error and the
\* loop goes on to its next iteration.
Fault(a) ==
    /\ thread[a] \in Throwing
    /\ state' = [state EXCEPT ![a] = "Error"]
    /\ thread' = [thread EXCEPT ![a] = "check"]
    /\ UNCHANGED <<shouldStop, stopper, terminated>>

\* One step of the loop that is not a fault.
ThreadStep(a) ==
    \/ Check(a) \/ Perceive(a) \/ Reason(a) \/ Plan(a) \/ Act(a)
    \/ Learn(a) \/ Coin(a) \/ SelfModify(a) \/ Wait(a)

-----------------------------------------------------------------------------
\* Once std::terminate has run, nothing else happens.
Next ==
    /\ ~terminated
    /\ \E a \in Agents :
        \/ Start(a) \/ StopRequest(a) \/ StopJoin(a) \/ Pause(a) \/ Resume(a)
        \/ ThreadStep(a) \/ Fault(a)

\* The scheduler runs every processing thread (its only wait is timed), and
\* a client blocked in join() returns once the thread has exited.
Fairness ==
    \A a \in Agents : /\ WF_vars(~terminated /\ ThreadStep(a))
                     /\ WF_vars(~terminated /\ StopJoin(a))

Spec == Init /\ [][Next]_vars

FairSpec == Spec /\ Fairness

-----------------------------------------------------------------------------
(* The refinement mapping to AbstractAgent: the processing thread is the   *)
(* agent's context, m_shouldStop its stop request, std::terminate the      *)
(* crash.  A thread at any point of ProcessingLoop is a running context.   *)

ContextOf(a) ==
    IF thread[a] \in {"none", "exited"} THEN thread[a] ELSE "running"

AbsCtx == [a \in Agents |-> ContextOf(a)]

Abstract == INSTANCE AbstractAgent
    WITH ctx <- AbsCtx,
         stopReq <- shouldStop,
         crashed <- terminated

-----------------------------------------------------------------------------
(* Properties.                                                             *)

\* Once Stop() has returned (the stop flag is set and no client is inside
\* Stop), the agent has no processing thread left: join() waited for
\* ProcessingLoop to return and nothing restarted it (spec, Lifecycle).
StopLeavesNoThread ==
    \A a \in Agents : shouldStop[a] /\ stopper[a] = "idle" => thread[a] = "none"

\* The processing thread returns from ProcessingLoop only when a stop was
\* requested: pausing, an error or the wait never end the loop.
ExitOnlyOnStop ==
    \A a \in Agents : thread[a] = "exited" => shouldStop[a]

\* An agent in Error leaves it, unless a stop was requested: the catch block
\* goes on to the next iteration, whose Perceive sets Active (spec 4.3,
\* "self-healing by construction").
ErrorClears ==
    \A a \in Agents :
        state[a] = "Error" ~> (state[a] # "Error" \/ shouldStop[a] \/ terminated)

\* After Stop() has returned the agent is Inactive (test_cognitive.cpp:134
\* asserts this right after agent.Stop()).
StoppedIsInactive ==
    \A a \in Agents :
        shouldStop[a] /\ stopper[a] = "idle" /\ thread[a] = "none"
            => state[a] = "Inactive"

\* No sequence of lifecycle calls makes Start() end the process.
NeverTerminates == ~terminated

\* A call to Stop() returns: its join() does not wait forever.
StopReturns ==
    \A a \in Agents : stopper[a] = "join" ~> (stopper[a] = "idle" \/ terminated)

\* The wait at the end of a cycle sleeps ("Sleep to prevent excessive CPU
\* usage", cognitive.cpp:263) unless the agent was stopped or paused: its
\* predicate is false when the thread reaches it in a running agent.
WaitSleeps ==
    \A a \in Agents :
        thread[a] = "wait" /\ ~shouldStop[a] /\ state[a] # "Inactive"
            => ~WaitPredicate(a)

\* A paused agent stays Inactive until a client calls Resume() or Start()
\* (spec 4.3: Pause "suppresses further cycle progress").
PauseHolds ==
    [][\A a \in Agents :
         (state[a] = "Inactive" /\ ~shouldStop[a] /\ state'[a] # "Inactive")
            => (Resume(a) \/ Start(a))]_vars

\* The lifecycle implements AbstractAgent: Start launches a context only
\* where none is left (or ends the process), the loop returns only after
\* Stop's request, Stop's join reaps only a returned thread, and a thread
\* asked to stop does return under the scheduler's fairness.
AbstractAgentSpec == Abstract!AbsSpec

=============================================================================
