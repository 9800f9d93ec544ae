--------------------------- MODULE CognitiveSystem ---------------------------
(***************************************************************************)
(* CognitiveSystem (cognitive.cpp:422-591) over the agent lifecycle of     *)
(* AgentLifecycle: the name-keyed registry m_agents, m_initialized, the    *)
(* exclusive holder of m_agentsMutex, and UpdateSystem, which reads        *)
(* statistics under one shared lock and resumes an agent under another.   *)
(* The agents are started by the integration layer                        *)
(* (CreateCognitiveAgent, wsl_cognitive_integration.cpp:181-209), which    *)
(* calls Start() on the agent it got from CreateAgent, outside the lock.   *)
(* Stop() is only called by RemoveAgent and Shutdown, which hold           *)
(* m_agentsMutex exclusively for its whole duration, join() included, so  *)
(* a join that never returns blocks every later registry call.            *)
(* The graph store is not part of this module.                             *)
(***************************************************************************)
EXTENDS AgentLifecycle

VARIABLES
    registered,   \* the keys of m_agents
    initialized,  \* m_initialized
    lock,         \* exclusive holder of m_agentsMutex: "free", "remove", "shutdown"
    pending,      \* agents Shutdown has still to stop
    upd           \* UpdateSystem: "idle", or "resume" after stats said too few are active

sysVars == <<registered, initialized, lock, pending, upd>>
allVars == <<vars, sysVars>>

SysTypeOK ==
    /\ TypeOK
    /\ registered \subseteq Agents
    /\ initialized \in BOOLEAN
    /\ lock \in {"free", "remove", "shutdown"}
    /\ pending \subseteq Agents
    /\ upd \in {"idle", "resume"}

SysInit ==
    /\ Init
    /\ registered = {}
    /\ initialized = FALSE
    /\ lock = "free"
    /\ pending = {}
    /\ upd = "idle"

\* The number of registered agents GetStatistics counts as active.
ActiveCount == Cardinality({n \in registered : state[n] \in ActiveStates})

-----------------------------------------------------------------------------
\* Initialize(): the first call sets m_initialized (and seeds atoms and the
\* configuration, which this module leaves out); later calls return.
Initialize ==
    /\ ~initialized
    /\ initialized' = TRUE
    /\ UNCHANGED <<vars, registered, lock, pending, upd>>

\* CreateAgent(name) for a name not in m_agents: under the exclusive lock a
\* new CognitiveAgent (Inactive, no thread) is inserted.  For a name already
\* there it returns the existing agent and changes nothing.
CreateAgent(n) ==
    /\ lock = "free"
    /\ n \notin registered
    /\ registered' = registered \cup {n}
    /\ state' = [state EXCEPT ![n] = "Inactive"]
    /\ shouldStop' = [shouldStop EXCEPT ![n] = FALSE]
    /\ thread' = [thread EXCEPT ![n] = "none"]
    /\ stopper' = [stopper EXCEPT ![n] = "idle"]
    /\ UNCHANGED <<terminated, initialized, lock, pending, upd>>

\* agent->Start() in CreateCognitiveAgent, on the agent CreateAgent returned.
StartAgent(n) ==
    /\ n \in registered
    /\ Start(n)
    /\ UNCHANGED sysVars

\* RemoveAgent(name), up to the join: take the exclusive lock, find the
\* agent and run the locked half of its Stop().
RemoveBegin(n) ==
    /\ lock = "free"
    /\ n \in registered
    /\ stopper[n] = "idle"
    /\ lock' = "remove"
    /\ StopRequest(n)
    /\ UNCHANGED <<registered, initialized, pending, upd>>

\* RemoveAgent(name), the rest: join() returns, the agent is erased and the
\* lock released.
RemoveEnd(n) ==
    /\ lock = "remove"
    /\ StopJoin(n)
    /\ registered' = registered \ {n}
    /\ lock' = "free"
    /\ UNCHANGED <<initialized, pending, upd>>

\* Shutdown(): m_initialized.exchange(false) returns unless it was set; then
\* the exclusive lock is taken and every agent stopped in turn.
ShutdownBegin ==
    /\ initialized
    /\ lock = "free"
    /\ initialized' = FALSE
    /\ lock' = "shutdown"
    /\ pending' = registered
    /\ UNCHANGED <<vars, registered, upd>>

\* agent->Stop() for the next agent of the iteration, locked half.
ShutdownStop(n) ==
    /\ lock = "shutdown"
    /\ n \in pending
    /\ \A m \in Agents : stopper[m] = "idle"
    /\ StopRequest(n)
    /\ UNCHANGED sysVars

\* ... and its join().
ShutdownJoin(n) ==
    /\ lock = "shutdown"
    /\ n \in pending
    /\ StopJoin(n)
    /\ pending' = pending \ {n}
    /\ UNCHANGED <<registered, initialized, lock, upd>>

\* m_agents.clear() and the lock is released.
ShutdownEnd ==
    /\ lock = "shutdown"
    /\ pending = {}
    /\ registered' = {}
    /\ lock' = "free"
    /\ UNCHANGED <<vars, initialized, pending, upd>>

\* UpdateSystem(), first part: returns unless initialized; otherwise
\* GetStatistics() under a shared lock, and the test
\* stats.activeAgents < stats.totalAgents / 2 (integer division).
UpdateStats ==
    /\ upd = "idle"
    /\ initialized
    /\ lock = "free"
    /\ upd' = IF ActiveCount < Cardinality(registered) \div 2 THEN "resume"
                                                             ELSE "idle"
    /\ UNCHANGED <<vars, registered, initialized, lock, pending>>

\* UpdateSystem(), second part, under a fresh shared lock: Resume() on the
\* first Inactive agent of the iteration (in no specified order), if any.
UpdateResume ==
    /\ upd = "resume"
    /\ lock = "free"
    /\ upd' = "idle"
    /\ \/ \E n \in registered :
            /\ state[n] = "Inactive"
            /\ \/ Resume(n)
               \/ shouldStop[n] /\ UNCHANGED vars
       \/ /\ \A n \in registered : state[n] # "Inactive"
          /\ UNCHANGED vars
    /\ UNCHANGED <<registered, initialized, lock, pending>>

\* A step of the processing thread of a registered or removed agent.
AgentThread(n) ==
    /\ ThreadStep(n) \/ Fault(n)
    /\ UNCHANGED sysVars

SysNext ==
    /\ ~terminated
    /\ \/ Initialize \/ ShutdownBegin \/ ShutdownEnd \/ UpdateStats \/ UpdateResume
       \/ \E n \in Agents :
            \/ CreateAgent(n) \/ StartAgent(n) \/ RemoveBegin(n) \/ RemoveEnd(n)
            \/ ShutdownStop(n) \/ ShutdownJoin(n) \/ AgentThread(n)

\* Processing threads are scheduled, and a caller blocked in join() returns
\* once the thread has exited.
SysFairness ==
    \A n \in Agents :
        /\ WF_allVars(~terminated /\ ThreadStep(n) /\ UNCHANGED sysVars)
        /\ WF_allVars(~terminated /\ RemoveEnd(n))
        /\ WF_allVars(~terminated /\ ShutdownJoin(n))

SysSpec == SysInit /\ [][SysNext]_allVars

SysFairSpec == SysSpec /\ SysFairness

-----------------------------------------------------------------------------
(* Properties.                                                             *)

\* An agent that is no longer in the registry has no processing thread:
\* RemoveAgent and Shutdown erase an agent only after its Stop() has joined
\* the thread (spec 4.4, "Removal stops").
RemovedAgentsStopped ==
    \A n \in Agents \ registered : thread[n] = "none"

\* A registered agent that counts as active has a processing thread: the
\* statistics and UpdateSystem's "fewer than half are active" decision count
\* agents that actually run their cycle.
ActiveAgentHasThread ==
    \A n \in registered : state[n] \in ActiveStates => thread[n] # "none"

\* RemoveAgent returns and releases m_agentsMutex (spec 4.3: Stop blocks
\* "until the execution context has fully exited", and spec 5 accepts an
\* unbounded wait only for a context wedged in an external call).  A
\* Start() from CreateCognitiveAgent between Stop's locked half and its
\* joinable()/join() clears m_shouldStop, so the join would wait on a loop
\* that never ends while every registry call waits on m_agentsMutex.
RemoveAgentReturns ==
    lock = "remove" ~> (lock = "free" \/ terminated)

=============================================================================
