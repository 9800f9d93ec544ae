----------------------- MODULE CognitiveSystemProofs -----------------------
(***************************************************************************)
(* Proofs about CognitiveSystem for every finite set of agent names: the   *)
(* registry's state stays in its type.  The lifecycle steps the registry   *)
(* makes are typed by TypeStep of AgentLifecycleProofs.                    *)
(***************************************************************************)
EXTENDS CognitiveSystem, AgentLifecycleProofs

\* A lifecycle call or a step of a processing thread, taken while the
\* process is alive, keeps the lifecycle variables in their type.
LEMMA LifeStepType ==
    ASSUME TypeOK, ~terminated, NEW n \in Agents,
           \/ Start(n) \/ StopRequest(n) \/ StopJoin(n) \/ Resume(n)
           \/ ThreadStep(n) \/ Fault(n)
    PROVE  TypeOK'
<1>1. Next
  BY DEF Next
<1>2. QED
  BY <1>1, TypeStep

\* Every step of the registry keeps SysTypeOK.
LEMMA SysTypeStep == SysTypeOK /\ [SysNext]_allVars => SysTypeOK'
<1> SUFFICES ASSUME SysTypeOK, [SysNext]_allVars PROVE SysTypeOK'
  OBVIOUS
<1> USE DEF SysTypeOK
<1>0a. CASE UNCHANGED allVars
  BY <1>0a DEF allVars, vars, sysVars, TypeOK
<1>0b. SUFFICES ASSUME SysNext PROVE SysTypeOK'
  BY <1>0a
<1>0c. ~terminated
  BY <1>0b DEF SysNext
<1>1. CASE Initialize \/ UpdateStats \/ ShutdownBegin \/ ShutdownEnd
  BY <1>1 DEF Initialize, UpdateStats, ShutdownBegin, ShutdownEnd, vars, TypeOK
<1>2. CASE UpdateResume
  <2>1. CASE UNCHANGED vars
    BY <1>2, <2>1 DEF UpdateResume, vars, TypeOK
  <2>2. CASE ~UNCHANGED vars
    <3>1. PICK n \in registered : Resume(n)
      BY <1>2, <2>2 DEF UpdateResume
    <3>2. TypeOK'
      BY <3>1, <1>0c, LifeStepType
    <3>3. QED
      BY <1>2, <3>2 DEF UpdateResume
  <2>3. QED
    BY <2>1, <2>2
<1>3. ASSUME NEW n \in Agents, CreateAgent(n) PROVE SysTypeOK'
  BY <1>3 DEF CreateAgent, TypeOK, States, ThreadPcs
<1>4. ASSUME NEW n \in Agents,
             \/ StartAgent(n) \/ RemoveBegin(n) \/ RemoveEnd(n)
             \/ ShutdownStop(n) \/ ShutdownJoin(n) \/ AgentThread(n)
      PROVE  SysTypeOK'
  <2>2. TypeOK'
    BY <1>4, <1>0c, LifeStepType
       DEF StartAgent, RemoveBegin, RemoveEnd, ShutdownStop, ShutdownJoin, AgentThread
  <2>3. QED
    BY <1>4, <2>2
       DEF StartAgent, RemoveBegin, RemoveEnd, ShutdownStop, ShutdownJoin,
           AgentThread, sysVars
<1>6. QED
  BY <1>0b, <1>1, <1>2, <1>3, <1>4 DEF SysNext

\* Every reachable state of the registry and its agents is well typed, for
\* any finite set of agent names: the registry, Shutdown's worklist and the
\* lifecycle of every agent stay within their ranges under every
\* interleaving of registry calls, integration-layer Starts and processing
\* threads.
THEOREM SysTypeCorrect == SysSpec => []SysTypeOK
<1>1. SysInit => SysTypeOK
  BY DEF SysInit, Init, SysTypeOK, TypeOK, States, ThreadPcs
<1>2. QED
  BY <1>1, SysTypeStep, PTL DEF SysSpec

=============================================================================
