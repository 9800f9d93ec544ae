----------------------------- MODULE Integration -----------------------------
(***************************************************************************)
(* CognitiveIntegrationManager (wsl_cognitive_integration.cpp:27-320): the *)
(* lifetime of the CognitiveSystem it owns through m_cognitiveSystem, the  *)
(* flag m_initialized, the lock m_mutex, the registry of the owned system  *)
(* as far as the manager changes it, and m_stats.cognitiveAgents.          *)
(*                                                                         *)
(* Initialize flips m_initialized under m_mutex; Shutdown flips it       *)
(* before taking m_mutex.  The event handlers (OnProcessCreate,           *)
(* OnProcessDestroy, OnDistroEvent, OnSystemEvent) take m_mutex and test  *)
(* the pointer under it.  The API                                         *)
(* calls CreateCognitiveAgent, DestroyCognitiveAgent and                   *)
(* ExecuteCognitiveCommand test the pointer without the lock and then use  *)
(* it.  Each such call is a check step and a use step of a caller thread.  *)
(* What the owned system does inside is modelled by CognitiveSystem and    *)
(* AtomSpace; the atoms an event creates and the message it broadcasts are *)
(* left out here.                                                          *)
(***************************************************************************)
EXTENDS Naturals, FiniteSets

CONSTANTS
    Callers,   \* threads calling into the manager
    Names,     \* agent names
    Defaults,  \* the agents Initialize creates ("SystemMonitor", ...)
    MaxStat    \* bound on m_stats.cognitiveAgents

ASSUME IntegrationAssumption ==
    /\ Names # {}
    /\ Defaults \subseteq Names
    /\ IsFiniteSet(Defaults)
    /\ MaxStat \in Nat
    /\ "free" \notin Callers

VARIABLES
    mgrInit,   \* m_initialized
    sysPtr,    \* m_cognitiveSystem: "live" or "null"
    reg,       \* the agent names of the owned system's registry
    stat,      \* m_stats.cognitiveAgents
    mlock,     \* holder of m_mutex: "free" or a caller
    cpc,       \* a caller's place in its call
    cop,       \* the API call a caller is in: [op, name]
    crashed    \* a null m_cognitiveSystem was dereferenced

vars == <<mgrInit, sysPtr, reg, stat, mlock, cpc, cop, crashed>>

ApiOps == {"create", "destroy", "execute"}

TypeOK ==
    /\ mgrInit \in BOOLEAN
    /\ sysPtr \in {"live", "null"}
    /\ reg \subseteq Names
    /\ stat \in 0..MaxStat
    /\ mlock \in Callers \cup {"free"}
    /\ cpc \in [Callers -> {"idle", "init", "shutdown", "api", "event"}]
    /\ cop \in [Callers -> [op : ApiOps, name : Names]]
    /\ crashed \in BOOLEAN

\* The manager as constructed: no system, not initialized, m_stats = {}.
Init ==
    /\ mgrInit = FALSE
    /\ sysPtr = "null"
    /\ reg = {}
    /\ stat = 0
    /\ mlock = "free"
    /\ cpc = [c \in Callers |-> "idle"]
    /\ cop = [c \in Callers |-> [op |-> "execute", name |-> CHOOSE n \in Names : TRUE]]
    /\ crashed = FALSE

-----------------------------------------------------------------------------
\* Initialize(), up to the default agents: under m_mutex,
\* m_initialized.exchange(true) found it clear, so a new CognitiveSystem is
\* made (destroying the one the pointer held, if any) and initialized.  A
\* call that finds the flag set returns and changes nothing.
InitBegin(c) ==
    /\ cpc[c] = "idle"
    /\ mlock = "free"
    /\ ~mgrInit
    /\ mgrInit' = TRUE
    /\ sysPtr' = "live"
    /\ reg' = {}
    /\ mlock' = c
    /\ cpc' = [cpc EXCEPT ![c] = "init"]
    /\ UNCHANGED <<stat, cop, crashed>>

\* Initialize(), the rest: CreateCognitiveAgent for each default agent
\* (CreateAgent, then m_stats.cognitiveAgents++), and m_mutex is released.
InitAgents(c) ==
    /\ cpc[c] = "init"
    /\ stat + Cardinality(Defaults) <= MaxStat
    /\ reg' = reg \cup Defaults
    /\ stat' = stat + Cardinality(Defaults)
    /\ mlock' = "free"
    /\ cpc' = [cpc EXCEPT ![c] = "idle"]
    /\ UNCHANGED <<mgrInit, sysPtr, cop, crashed>>

\* Shutdown(): m_initialized.exchange(false) found it set (otherwise the
\* call returns); the lock is not yet taken.
ShutdownFlag(c) ==
    /\ cpc[c] = "idle"
    /\ mgrInit
    /\ mgrInit' = FALSE
    /\ cpc' = [cpc EXCEPT ![c] = "shutdown"]
    /\ UNCHANGED <<sysPtr, reg, stat, mlock, cop, crashed>>

\* Mutant of ShutdownLocked: the system is reset without taking m_mutex.
ShutdownUnlocked(c) ==
    /\ cpc[c] = "shutdown"
    /\ sysPtr' = "null"
    /\ reg' = {}
    /\ cpc' = [cpc EXCEPT ![c] = "idle"]
    /\ UNCHANGED <<mgrInit, stat, mlock, cop, crashed>>

\* Shutdown(), under m_mutex: the system is shut down (its agents stopped
\* and its registry cleared) and m_cognitiveSystem reset; the callbacks and
\* the process map are cleared; m_stats is left as it is.
ShutdownLocked(c) ==
    /\ cpc[c] = "shutdown"
    /\ mlock = "free"
    /\ sysPtr' = "null"
    /\ reg' = {}
    /\ cpc' = [cpc EXCEPT ![c] = "idle"]
    /\ UNCHANGED <<mgrInit, stat, mlock, cop, crashed>>

\* An API call's `if (!m_cognitiveSystem) return` found a system, without
\* m_mutex.  A call that finds none returns and changes nothing.
ApiCheck(c, op, n) ==
    /\ cpc[c] = "idle"
    /\ sysPtr = "live"
    /\ cop' = [cop EXCEPT ![c] = [op |-> op, name |-> n]]
    /\ cpc' = [cpc EXCEPT ![c] = "api"]
    /\ UNCHANGED <<mgrInit, sysPtr, reg, stat, mlock, crashed>>

\* The API call uses m_cognitiveSystem:
\*   create:  CreateAgent(name) (get-or-create), its goal, Start(), and
\*            m_stats.cognitiveAgents++;
\*   destroy: RemoveAgent(name), and cognitiveAgents-- if it was removed
\*            and the count is positive;
\*   execute: GetAgent(name) and ReceiveMessage.
\* If the pointer has been reset meanwhile, this is a null dereference.
ApiUse(c) ==
    /\ cpc[c] = "api"
    /\ cpc' = [cpc EXCEPT ![c] = "idle"]
    /\ IF sysPtr = "null"
       THEN /\ crashed' = TRUE
            /\ UNCHANGED <<reg, stat>>
       ELSE /\ crashed' = FALSE
            /\ CASE cop[c].op = "create" ->
                      /\ stat < MaxStat
                      /\ reg' = reg \cup {cop[c].name}
                      /\ stat' = stat + 1
                 [] cop[c].op = "destroy" /\ cop[c].name \in reg ->
                      /\ reg' = reg \ {cop[c].name}
                      /\ stat' = IF stat > 0 THEN stat - 1 ELSE stat
                 [] OTHER -> UNCHANGED <<reg, stat>>
    /\ UNCHANGED <<mgrInit, sysPtr, mlock, cop>>

\* An event handler takes m_mutex and finds a system (otherwise it returns).
EventLock(c) ==
    /\ cpc[c] = "idle"
    /\ mlock = "free"
    /\ sysPtr = "live"
    /\ mlock' = c
    /\ cpc' = [cpc EXCEPT ![c] = "event"]
    /\ UNCHANGED <<mgrInit, sysPtr, reg, stat, cop, crashed>>

\* The handler's body: atoms in the global AtomSpace, the callbacks, a
\* broadcast to the agents and the statistics; then m_mutex is released.
EventApply(c) ==
    /\ cpc[c] = "event"
    /\ crashed' = (sysPtr = "null")
    /\ mlock' = "free"
    /\ cpc' = [cpc EXCEPT ![c] = "idle"]
    /\ UNCHANGED <<mgrInit, sysPtr, reg, stat, cop>>

Next ==
    /\ ~crashed
    /\ \E c \in Callers :
          \/ InitBegin(c) \/ InitAgents(c)
          \/ ShutdownFlag(c) \/ ShutdownLocked(c)
          \/ \E op \in ApiOps, n \in Names : ApiCheck(c, op, n)
          \/ ApiUse(c)
          \/ EventLock(c) \/ EventApply(c)

Spec == Init /\ [][Next]_vars

-----------------------------------------------------------------------------
(* Properties.                                                             *)

\* An event handler between its null test and the end of its body always
\* has a system: Shutdown resets m_cognitiveSystem only under m_mutex,
\* which the handler holds throughout.
EventSeesSystem ==
    \A c \in Callers : cpc[c] = "event" => sysPtr = "live"

\* No call of the manager dereferences a null m_cognitiveSystem.
NoNullSystemUse == ~crashed

\* When no Initialize or Shutdown is in progress, the manager is
\* initialized exactly when it has a system: IsInitialized() tells callers
\* whether m_cognitiveSystem can be used.
InitializedHasSystem ==
    (\A c \in Callers : cpc[c] \notin {"init", "shutdown"})
        => (mgrInit <=> sysPtr = "live")

\* When no call is in progress and the manager has a system,
\* m_stats.cognitiveAgents is the number of agents in its registry.
AgentStatAccurate ==
    (sysPtr = "live" /\ \A c \in Callers : cpc[c] = "idle")
        => stat = Cardinality(reg)

=============================================================================
