------------------------ MODULE ProcessMonitorProofs ------------------------
(***************************************************************************)
(* Proofs about ProcessMonitor when StartMonitoring and StopMonitoring are *)
(* called from one thread (the integration manager's own use): the         *)
(* monitoring thread is spawned only when none is joinable, and a          *)
(* returned StopMonitoring leaves no thread, for any users and process     *)
(* keys.  With two controllers both fail (MonitorNeverTerminates).         *)
(***************************************************************************)
EXTENDS ProcessMonitor, TLAPS

(* The inductive invariant for the controller c0.  While c0 is idle, the   *)
(* thread runs exactly when the flag is set; between StartMonitoring's     *)
(* exchange and its spawn there is no thread; from StopMonitoring's        *)
(* exchange to the end of its join there is a joinable thread.  The third  *)
(* and fourth conjuncts are what MonitorStopLeavesNoThread needs to be     *)
(* inductive: without them a StopJoin could not be known to leave "none"   *)
(* after the spawn.                                                        *)
MonInv(c0) ==
    /\ TypeOK
    /\ ~terminated
    /\ ctl[c0] = "idle" => IF monitoring THEN thr \in LoopPcs ELSE thr = "none"
    /\ ctl[c0] = "spawn" => monitoring /\ thr = "none"
    /\ ctl[c0] \in {"test", "join"} => ~monitoring /\ thr # "none"

\* The constructor's state satisfies the invariant.
LEMMA MonInit ==
    ASSUME NEW c0 \in Controllers
    PROVE  Init => MonInv(c0)
BY DEF Init, MonInv, TypeOK

\* Every step of the single controller, the loop and the users keeps it.
LEMMA MonStep ==
    ASSUME NEW c0 \in Controllers, Controllers = {c0}
    PROVE  MonInv(c0) /\ [Next]_vars => MonInv(c0)'
<1> SUFFICES ASSUME MonInv(c0), [Next]_vars PROVE MonInv(c0)'
  OBVIOUS
<1> USE DEF MonInv, TypeOK, LoopPcs
<1>1. CASE StartExchange(c0)
  BY <1>1 DEF StartExchange
<1>2. CASE StartSpawn(c0)
  BY <1>2 DEF StartSpawn
<1>3. CASE StopExchange(c0)
  BY <1>3 DEF StopExchange
<1>4. CASE StopTest(c0)
  BY <1>4 DEF StopTest
<1>5. CASE StopJoin(c0)
  BY <1>5 DEF StopJoin
<1>6. CASE LoopStep
  <2>1. CASE LoopCheck
    BY <2>1 DEF LoopCheck
  <2>2. CASE LoopLearn \/ LoopLock \/ LoopSleep
    BY <2>2 DEF LoopLearn, LoopLock, LoopSleep
  <2>3. CASE LoopPush
    BY <2>3 DEF LoopPush
  <2>4. QED
    BY <1>6, <2>1, <2>2, <2>3 DEF LoopStep
<1>7. CASE LoopFault
  BY <1>7 DEF LoopFault
<1>8. ASSUME NEW u \in Users, NEW k \in Keys,
             Track(u, k) \/ Untrack(u, k) \/ AnalyzeBegin(u, k)
      PROVE  MonInv(c0)'
  BY <1>8 DEF Track, Untrack, AnalyzeBegin
<1>9. ASSUME NEW u \in Users, AnalyzeEnd(u) PROVE MonInv(c0)'
  BY <1>9 DEF AnalyzeEnd
<1>10. CASE UNCHANGED vars
  BY <1>10 DEF vars
<1>11. QED
  BY <1>1, <1>2, <1>3, <1>4, <1>5, <1>6, <1>7, <1>8, <1>9, <1>10 DEF Next

\* With one thread calling StartMonitoring and StopMonitoring, once
\* StopMonitoring has returned the monitoring thread has been joined, so
\* neither the destructor's StopMonitoring nor the next StartMonitoring's
\* move-assignment meets a joinable thread.
THEOREM MonitorStopLeavesNoThreadThm ==
    ASSUME NEW c0 \in Controllers, Controllers = {c0}
    PROVE  Spec => []MonitorStopLeavesNoThread
<1>1. MonInv(c0) => MonitorStopLeavesNoThread
  BY DEF MonInv, MonitorStopLeavesNoThread
<1>2. QED
  BY <1>1, MonInit, MonStep, PTL DEF Spec

\* With one controller, no StartMonitoring ever calls std::terminate.
THEOREM MonitorNeverTerminatesThm ==
    ASSUME NEW c0 \in Controllers, Controllers = {c0}
    PROVE  Spec => []MonitorNeverTerminates
<1>1. MonInv(c0) => MonitorNeverTerminates
  BY DEF MonInv, MonitorNeverTerminates
<1>2. QED
  BY <1>1, MonInit, MonStep, PTL DEF Spec

-----------------------------------------------------------------------------
(* The refinement of AbstractMonitor with one controller.  MonInv(c0) is   *)
(* what makes StartSpawn a Launch: the spawn follows c0's own exchange, so *)
(* the flag is on and no thread is joinable.  With two controllers the     *)
(* spawn may meet a joinable thread and end the process, which no step of  *)
(* AbstractMonitor does.                                                   *)

\* A step that leaves the flag, the thread, the tracked set and terminated
\* alone is an abstract stutter.
LEMMA MonStutter ==
    ASSUME UNCHANGED <<monitoring, thr, tracked, terminated>>
    PROVE  UNCHANGED AbsMon!absMonVars
BY DEF AbsMon!absMonVars, MonitorCtx

\* Every step of the single controller, the loop and the users is a step of
\* AbstractMonitor or an abstract stutter.
LEMMA MonRefineStep ==
    ASSUME NEW c0 \in Controllers, Controllers = {c0}
    PROVE  MonInv(c0) /\ [Next]_vars => [AbsMon!MonNext]_AbsMon!absMonVars
<1> SUFFICES ASSUME MonInv(c0), [Next]_vars
             PROVE  [AbsMon!MonNext]_AbsMon!absMonVars
  OBVIOUS
<1> USE DEF MonInv, TypeOK, LoopPcs
<1>1. CASE StartExchange(c0)
  BY <1>1 DEF StartExchange, AbsMon!MonNext, AbsMon!TurnOn, MonitorCtx
<1>2. CASE StartSpawn(c0)
  <2>1. monitoring /\ thr = "none" /\ thr' = "check"
    BY <1>2 DEF StartSpawn
  <2>2. AbsMon!Launch
    BY <1>2, <2>1 DEF StartSpawn, AbsMon!Launch, MonitorCtx
  <2>3. QED
    BY <2>2 DEF AbsMon!MonNext
<1>3. CASE StopExchange(c0)
  BY <1>3 DEF StopExchange, AbsMon!MonNext, AbsMon!TurnOff, MonitorCtx
<1>4. CASE StopTest(c0)
  BY <1>4, MonStutter DEF StopTest
<1>5. CASE StopJoin(c0)
  BY <1>5 DEF StopJoin, AbsMon!MonNext, AbsMon!Reap, MonitorCtx
<1>6. CASE LoopCheck
  <2>1. CASE monitoring
    BY <1>6, <2>1, MonStutter DEF LoopCheck, AbsMon!absMonVars, MonitorCtx
  <2>2. CASE ~monitoring
    BY <1>6, <2>2 DEF LoopCheck, AbsMon!MonNext, AbsMon!Exit, MonitorCtx
  <2>3. QED
    BY <2>1, <2>2
<1>7. CASE LoopLearn \/ LoopLock \/ LoopPush \/ LoopSleep \/ LoopFault
  BY <1>7 DEF LoopLearn, LoopLock, LoopPush, LoopSleep, LoopFault,
             AbsMon!absMonVars, MonitorCtx
<1>8. ASSUME NEW u \in Users, NEW k \in Keys, Track(u, k)
      PROVE  [AbsMon!MonNext]_AbsMon!absMonVars
  BY <1>8 DEF Track, AbsMon!MonNext, AbsMon!Watch, MonitorCtx
<1>9. ASSUME NEW u \in Users, NEW k \in Keys, Untrack(u, k)
      PROVE  [AbsMon!MonNext]_AbsMon!absMonVars
  BY <1>9 DEF Untrack, AbsMon!MonNext, AbsMon!Unwatch, MonitorCtx
<1>10. ASSUME NEW u \in Users,
              (\E k \in Keys : AnalyzeBegin(u, k)) \/ AnalyzeEnd(u)
       PROVE  [AbsMon!MonNext]_AbsMon!absMonVars
  BY <1>10, MonStutter DEF AnalyzeBegin, AnalyzeEnd
<1>11. CASE UNCHANGED vars
  BY <1>11, MonStutter DEF vars
<1>12. QED
  BY <1>1, <1>2, <1>3, <1>4, <1>5, <1>6, <1>7, <1>8, <1>9, <1>10, <1>11
     DEF Next, LoopStep

\* With one thread calling StartMonitoring and StopMonitoring, for any
\* users and process keys, the monitor implements AbstractMonitor: a
\* monitoring thread is launched only while the flag is on and none is
\* joinable, returns only once the flag is off, is joined only after it
\* has returned, and no call ends the process.
THEOREM RefinesAbstractMonitor ==
    ASSUME NEW c0 \in Controllers, Controllers = {c0}
    PROVE  Spec => AbstractMonitorSpec
<1>1. Init => AbsMon!MonInit
  BY DEF Init, AbsMon!MonInit, MonitorCtx
<1>2. QED
  BY <1>1, MonInit, MonStep, MonRefineStep, PTL
     DEF Spec, AbstractMonitorSpec, AbsMon!MonSpec

=============================================================================
