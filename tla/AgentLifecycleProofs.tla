------------------------ MODULE AgentLifecycleProofs ------------------------
(***************************************************************************)
(* Proofs about AgentLifecycle, for every set of agents: the type          *)
(* invariant, and that a returned Stop() leaves no processing thread and  *)
(* that the thread only exits on a stop request.                           *)
(***************************************************************************)
EXTENDS AgentLifecycle, TLAPS

\* Client calls and loop steps, gathered so that a step of Next can be split
\* into its actions.
ClientCall(a) == Start(a) \/ StopRequest(a) \/ StopJoin(a) \/ Pause(a) \/ Resume(a)

LEMMA NextSplit ==
    ASSUME TypeOK, Next
    PROVE  \E a \in Agents : ClientCall(a) \/ ThreadStep(a) \/ Fault(a)
BY DEF Next, ClientCall

\* Every step keeps every variable in its type.
LEMMA TypeStep == TypeOK /\ [Next]_vars => TypeOK'
<1> SUFFICES ASSUME TypeOK, [Next]_vars PROVE TypeOK'
  OBVIOUS
<1>1. CASE UNCHANGED vars
  BY <1>1 DEF vars, TypeOK
<1>2. CASE Next
  <2>1. PICK a \in Agents : ClientCall(a) \/ ThreadStep(a) \/ Fault(a)
    BY <1>2, NextSplit
  <2>2. CASE ClientCall(a)
    BY <2>2 DEF ClientCall, Start, StopRequest, StopJoin, Pause, Resume,
                TypeOK, States, ThreadPcs, Running
  <2>3. CASE ThreadStep(a)
    BY <2>3 DEF ThreadStep, Check, Perceive, Reason, Plan, Act, Learn, Coin,
                SelfModify, Wait, Goto, TypeOK, States, ThreadPcs, Running
  <2>4. CASE Fault(a)
    BY <2>4 DEF Fault, Throwing, TypeOK, States, ThreadPcs, Running
  <2>5. QED
    BY <2>1, <2>2, <2>3, <2>4
<1>3. QED
  BY <1>1, <1>2

\* The type invariant: every variable keeps its type.
THEOREM TypeCorrect == Spec => []TypeOK
<1>1. Init => TypeOK
  BY DEF Init, TypeOK, ThreadPcs, Running, States
<1>2. QED
  BY <1>1, TypeStep, PTL DEF Spec

-----------------------------------------------------------------------------
(* The two lifecycle invariants are inductive together with TypeOK: a      *)
(* thread is created only by Start, which clears the stop flag, and only   *)
(* leaves "none" that way; the loop exits only through Check with the flag *)
(* set; the flag is set only by StopRequest, which also makes a client wait *)
(* in join.                                                                *)

IInv == TypeOK /\ StopLeavesNoThread /\ ExitOnlyOnStop

LEMMA IInvInit == Init => IInv
BY DEF Init, IInv, TypeOK, StopLeavesNoThread, ExitOnlyOnStop, ThreadPcs,
       Running, States

LEMMA IInvStep == IInv /\ [Next]_vars => IInv'
<1> SUFFICES ASSUME IInv, [Next]_vars PROVE IInv'
  OBVIOUS
<1>1. TypeOK'
  BY TypeStep DEF IInv
<1>2. CASE UNCHANGED vars
  BY <1>2 DEF vars, IInv, StopLeavesNoThread, ExitOnlyOnStop, TypeOK
<1>3. CASE Next
  <2> SUFFICES (StopLeavesNoThread /\ ExitOnlyOnStop)'
    BY <1>1 DEF IInv
  <2>1. PICK a \in Agents : ClientCall(a) \/ ThreadStep(a) \/ Fault(a)
    BY <1>3, NextSplit DEF IInv
  <2>2. CASE Start(a)
    BY <2>2 DEF Start, IInv, TypeOK, StopLeavesNoThread, ExitOnlyOnStop
  <2>3. CASE StopRequest(a)
    BY <2>3 DEF StopRequest, IInv, TypeOK, StopLeavesNoThread, ExitOnlyOnStop
  <2>4. CASE StopJoin(a)
    BY <2>4 DEF StopJoin, IInv, TypeOK, StopLeavesNoThread, ExitOnlyOnStop
  <2>5. CASE Pause(a) \/ Resume(a)
    BY <2>5 DEF Pause, Resume, IInv, TypeOK, StopLeavesNoThread, ExitOnlyOnStop
  <2>6. CASE Check(a)
    BY <2>6 DEF Check, IInv, TypeOK, StopLeavesNoThread, ExitOnlyOnStop
  <2>7. CASE Perceive(a) \/ Reason(a) \/ Plan(a) \/ Act(a) \/ Learn(a)
             \/ SelfModify(a) \/ Wait(a)
    BY <2>7 DEF Perceive, Reason, Plan, Act, Learn, SelfModify, Wait, Goto,
                IInv, TypeOK, StopLeavesNoThread, ExitOnlyOnStop
  <2>8. CASE Coin(a)
    BY <2>8 DEF Coin, IInv, TypeOK, StopLeavesNoThread, ExitOnlyOnStop
  <2>9. CASE Fault(a)
    BY <2>9 DEF Fault, Throwing, IInv, TypeOK, StopLeavesNoThread, ExitOnlyOnStop
  <2>10. QED
    BY <2>1, <2>2, <2>3, <2>4, <2>5, <2>6, <2>7, <2>8, <2>9
       DEF ClientCall, ThreadStep
<1>4. QED
  BY <1>1, <1>2, <1>3 DEF IInv

\* Once Stop() has returned, the agent has no processing thread: for every
\* set of agents and every interleaving of client calls and loop steps.
THEOREM StopLeavesNoThreadThm == Spec => []StopLeavesNoThread
BY IInvInit, IInvStep, PTL DEF Spec, IInv

\* The processing thread exits ProcessingLoop only on a stop request.
THEOREM ExitOnlyOnStopThm == Spec => []ExitOnlyOnStop
BY IInvInit, IInvStep, PTL DEF Spec, IInv
-----------------------------------------------------------------------------
(* Refinement: every step of the lifecycle is a step of AbstractAgent or   *)
(* leaves its variables alone.  Start on a thread-less agent is Launch, on *)
(* a joinable one Crash; StopRequest is RequestStop; Check with the flag   *)
(* set is Exit; StopJoin of a returned thread is Reap; every other step    *)
(* moves a thread between points of ProcessingLoop, or changes m_state,    *)
(* which the abstraction does not see.  Only TypeOK is needed.             *)

\* A step that keeps the thread in ProcessingLoop, or does not move it,
\* keeps its context.
LEMMA SameContext ==
    ASSUME TypeOK, NEW a \in Agents, NEW to,
           thread' = [thread EXCEPT ![a] = to],
           to = thread[a] \/ (thread[a] \in Running /\ to \in Running)
    PROVE  AbsCtx' = AbsCtx
BY DEF AbsCtx, ContextOf, TypeOK, ThreadPcs, Running

LEMMA RefineStep == TypeOK /\ [Next]_vars => [Abstract!AbsNext]_Abstract!absVars
<1> SUFFICES ASSUME TypeOK, [Next]_vars PROVE [Abstract!AbsNext]_Abstract!absVars
  OBVIOUS
<1>1. CASE UNCHANGED vars
  BY <1>1 DEF vars, Abstract!absVars, AbsCtx, ContextOf
<1>2. CASE Next
  <2>0. ~terminated
    BY <1>2 DEF Next
  <2>1. PICK a \in Agents : ClientCall(a) \/ ThreadStep(a) \/ Fault(a)
    BY <1>2, NextSplit
  <2>2. CASE Start(a) /\ thread[a] = "none"
    <3>1. shouldStop' = [shouldStop EXCEPT ![a] = FALSE]
          /\ UNCHANGED terminated
          /\ thread' = [thread EXCEPT ![a] = "check"]
      BY <2>2 DEF Start
    <3>2. AbsCtx' = [AbsCtx EXCEPT ![a] = "running"]
      BY <3>1 DEF AbsCtx, ContextOf, TypeOK
    <3>3. Abstract!Launch(a)
      BY <2>2, <3>1, <3>2 DEF Abstract!Launch, AbsCtx, ContextOf
    <3>4. QED
      BY <2>0, <3>3 DEF Abstract!AbsNext
  <2>3. CASE Start(a) /\ thread[a] # "none"
    <3>1. Abstract!Crash(a)
      BY <2>3 DEF Start, Abstract!Crash, AbsCtx, ContextOf
    <3>2. QED
      BY <2>0, <3>1 DEF Abstract!AbsNext
  <2>4. CASE StopRequest(a)
    <3>1. Abstract!RequestStop(a)
      BY <2>4 DEF StopRequest, Abstract!RequestStop, AbsCtx, ContextOf
    <3>2. QED
      BY <2>0, <3>1 DEF Abstract!AbsNext
  <2>5. CASE StopJoin(a) /\ thread[a] = "exited"
    <3>1. AbsCtx' = [AbsCtx EXCEPT ![a] = "none"]
      BY <2>5 DEF StopJoin, AbsCtx, ContextOf, TypeOK
    <3>2. Abstract!Reap(a)
      BY <2>5, <3>1 DEF StopJoin, Abstract!Reap, AbsCtx, ContextOf
    <3>3. QED
      BY <2>0, <3>2 DEF Abstract!AbsNext
  <2>6. CASE StopJoin(a) /\ thread[a] # "exited"
    <3>1. thread[a] = "none" /\ thread' = [thread EXCEPT ![a] = "none"]
      BY <2>6 DEF StopJoin
    <3>2. AbsCtx' = AbsCtx
      BY <3>1, SameContext
    <3>3. QED
      BY <2>6, <3>2 DEF StopJoin, Abstract!absVars
  <2>7. CASE Pause(a) \/ Resume(a)
    BY <2>7 DEF Pause, Resume, Abstract!absVars, AbsCtx, ContextOf
  <2>8. CASE Check(a) /\ shouldStop[a]
    <3>1. AbsCtx' = [AbsCtx EXCEPT ![a] = "exited"] /\ thread[a] = "check"
      BY <2>8 DEF Check, AbsCtx, ContextOf, TypeOK
    <3>2. Abstract!Exit(a)
      BY <2>8, <3>1 DEF Check, Abstract!Exit, AbsCtx, ContextOf
    <3>3. QED
      BY <2>0, <3>2 DEF Abstract!AbsNext
  <2>9. CASE Check(a) /\ ~shouldStop[a]
    <3>1. thread[a] = "check" /\ thread' = [thread EXCEPT ![a] = "perceive"]
      BY <2>9 DEF Check
    <3>2. AbsCtx' = AbsCtx
      BY <3>1, SameContext DEF Running
    <3>3. QED
      BY <2>9, <3>2 DEF Check, Abstract!absVars
  <2>10. CASE Perceive(a) \/ Reason(a) \/ Plan(a) \/ Act(a) \/ Learn(a)
              \/ SelfModify(a) \/ Wait(a) \/ Coin(a)
    <3>1. PICK from \in Running, to \in Running :
              thread[a] = from /\ thread' = [thread EXCEPT ![a] = to]
      BY <2>10 DEF Perceive, Reason, Plan, Act, Learn, SelfModify, Wait, Coin,
                   Goto, Running
    <3>2. AbsCtx' = AbsCtx
      BY <3>1, SameContext
    <3>3. QED
      BY <2>10, <3>2 DEF Perceive, Reason, Plan, Act, Learn, SelfModify,
                          Wait, Coin, Goto, Abstract!absVars
  <2>11. CASE Fault(a)
    <3>1. thread[a] \in Running /\ thread' = [thread EXCEPT ![a] = "check"]
      BY <2>11 DEF Fault, Throwing, Running
    <3>2. AbsCtx' = AbsCtx
      BY <3>1, SameContext DEF Running
    <3>3. QED
      BY <2>11, <3>2 DEF Fault, Abstract!absVars
  <2>12. QED
    BY <2>1, <2>2, <2>3, <2>4, <2>5, <2>6, <2>7, <2>8, <2>9, <2>10, <2>11
       DEF ClientCall, ThreadStep
<1>3. QED
  BY <1>1, <1>2

\* For every set of agents, the lifecycle implements the safety part of
\* AbstractAgent: a context is launched only where none is left (or the
\* process ends), returns only after a stop request, and is reaped only
\* after it has returned.
THEOREM RefinesAbstractAgent ==
    Spec => Abstract!AbsInit /\ [][Abstract!AbsNext]_Abstract!absVars
<1>1. Init => Abstract!AbsInit
  BY DEF Init, Abstract!AbsInit, AbsCtx, ContextOf
<1>2. QED
  BY <1>1, RefineStep, TypeCorrect, PTL DEF Spec
=============================================================================
