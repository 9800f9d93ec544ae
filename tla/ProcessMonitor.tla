---------------------------- MODULE ProcessMonitor ----------------------------
(***************************************************************************)
(* CognitiveProcessMonitor (wsl_cognitive_integration.cpp:405-568): the    *)
(* flag m_monitoring, the thread m_monitoringThread running MonitoringLoop,*)
(* the controllers that call StartMonitoring and StopMonitoring, and the   *)
(* callers of TrackProcess, UntrackProcess and AnalyzeProcessBehavior,     *)
(* around m_trackedProcesses and its shared_mutex m_processMutex.          *)
(*                                                                         *)
(* The calls under the exclusive lock (TrackProcess, UntrackProcess) are   *)
(* single steps; they can run only when no thread holds the lock shared.   *)
(* Two shared sections span steps: the loop's walk over the tracked        *)
(* processes, which push_backs onto each behaviorLog, and                  *)
(* AnalyzeProcessBehavior, whose UpdateProcessKnowledge iterates one       *)
(* behaviorLog.  LearnFromProcessPatterns only reads under the shared lock *)
(* and is one step.  The atoms these calls create and the attention they   *)
(* set are left out; process keys are model values.                        *)
(*                                                                         *)
(* thr is the program counter of m_monitoringThread: "none" (not           *)
(* joinable), "check" (while (m_monitoring)), "learn", "observe" (taking   *)
(* the shared lock), "push" (walking the processes under it), "sleep",     *)
(* "exited" (returned, still joinable).                                    *)
(***************************************************************************)
CONSTANTS
    Controllers,  \* threads calling StartMonitoring / StopMonitoring
    Users,        \* threads calling Track/Untrack/AnalyzeProcessBehavior
    Keys          \* process keys "distro:pid"

VARIABLES
    monitoring,   \* m_monitoring
    thr,          \* program counter of m_monitoringThread
    ctl,          \* a controller's place in its call
    tracked,      \* the keys of m_trackedProcesses
    upc,          \* "idle", or "analyze" inside UpdateProcessKnowledge
    raced,        \* a behaviorLog was pushed while another thread iterated it
    terminated    \* std::terminate was called

vars == <<monitoring, thr, ctl, tracked, upc, raced, terminated>>

LoopPcs == {"check", "learn", "observe", "push", "sleep"}

TypeOK ==
    /\ monitoring \in BOOLEAN
    /\ thr \in LoopPcs \cup {"none", "exited"}
    /\ ctl \in [Controllers -> {"idle", "spawn", "test", "join"}]
    /\ tracked \subseteq Keys
    /\ upc \in [Users -> {"idle", "analyze"}]
    /\ raced \in BOOLEAN
    /\ terminated \in BOOLEAN

\* The constructor: not monitoring, no thread, nothing tracked.
Init ==
    /\ monitoring = FALSE
    /\ thr = "none"
    /\ ctl = [c \in Controllers |-> "idle"]
    /\ tracked = {}
    /\ upc = [u \in Users |-> "idle"]
    /\ raced = FALSE
    /\ terminated = FALSE

\* Nobody holds m_processMutex shared, so the exclusive lock can be taken.
NoSharedHolder == thr # "push" /\ \A u \in Users : upc[u] = "idle"

-----------------------------------------------------------------------------
(* StartMonitoring and StopMonitoring.                                     *)

\* Mutant of StartExchange: a plain store m_monitoring = true, so a Start
\* while monitoring goes on to spawn again.
StartExchangeUnchecked(c) ==
    /\ ctl[c] = "idle"
    /\ monitoring' = TRUE
    /\ ctl' = [ctl EXCEPT ![c] = "spawn"]
    /\ UNCHANGED <<thr, tracked, upc, raced, terminated>>

\* StartMonitoring: m_monitoring.exchange(true) found it clear (otherwise
\* the call returns and changes nothing).
StartExchange(c) ==
    /\ ctl[c] = "idle"
    /\ ~monitoring
    /\ monitoring' = TRUE
    /\ ctl' = [ctl EXCEPT ![c] = "spawn"]
    /\ UNCHANGED <<thr, tracked, upc, raced, terminated>>

\* m_monitoringThread = std::thread(MonitoringLoop): move-assigning onto a
\* joinable thread calls std::terminate.
StartSpawn(c) ==
    /\ ctl[c] = "spawn"
    /\ ctl' = [ctl EXCEPT ![c] = "idle"]
    /\ IF thr = "none"
       THEN thr' = "check" /\ UNCHANGED terminated
       ELSE terminated' = TRUE /\ UNCHANGED thr
    /\ UNCHANGED <<monitoring, tracked, upc, raced>>

\* StopMonitoring: m_monitoring.exchange(false) found it set (otherwise the
\* call returns).
StopExchange(c) ==
    /\ ctl[c] = "idle"
    /\ monitoring
    /\ monitoring' = FALSE
    /\ ctl' = [ctl EXCEPT ![c] = "test"]
    /\ UNCHANGED <<thr, tracked, upc, raced, terminated>>

\* Mutant of StopTest: the thread is never joined.
StopTestNoJoin(c) ==
    /\ ctl[c] = "test"
    /\ ctl' = [ctl EXCEPT ![c] = "idle"]
    /\ UNCHANGED <<monitoring, thr, tracked, upc, raced, terminated>>

\* if (m_monitoringThread.joinable()): return if not, else go on to join().
StopTest(c) ==
    /\ ctl[c] = "test"
    /\ ctl' = [ctl EXCEPT ![c] = IF thr = "none" THEN "idle" ELSE "join"]
    /\ UNCHANGED <<monitoring, thr, tracked, upc, raced, terminated>>

\* join() returns once MonitoringLoop has returned.
StopJoin(c) ==
    /\ ctl[c] = "join"
    /\ thr = "exited"
    /\ thr' = "none"
    /\ ctl' = [ctl EXCEPT ![c] = "idle"]
    /\ UNCHANGED <<monitoring, tracked, upc, raced, terminated>>

-----------------------------------------------------------------------------
(* MonitoringLoop.                                                         *)

\* Mutant of LoopCheck: the loop never tests the flag (while (true)).
LoopCheckForever ==
    /\ thr = "check"
    /\ thr' = "learn"
    /\ UNCHANGED <<monitoring, ctl, tracked, upc, raced, terminated>>

\* while (m_monitoring)
LoopCheck ==
    /\ thr = "check"
    /\ thr' = IF monitoring THEN "learn" ELSE "exited"
    /\ UNCHANGED <<monitoring, ctl, tracked, upc, raced, terminated>>

\* LearnFromProcessPatterns(): reads the tracked processes under the shared
\* lock; the pattern atoms it creates are not modelled.
LoopLearn ==
    /\ thr = "learn"
    /\ thr' = "observe"
    /\ UNCHANGED <<monitoring, ctl, tracked, upc, raced, terminated>>

\* std::shared_lock lock(m_processMutex): no exclusive holder, since the
\* exclusive sections are single steps.
LoopLock ==
    /\ thr = "observe"
    /\ thr' = "push"
    /\ UNCHANGED <<monitoring, ctl, tracked, upc, raced, terminated>>

\* The walk: behaviorLog.push_back(...) for every tracked process through a
\* const_cast, under the shared lock only; then lock.unlock().  A push_back
\* may reallocate the vector another thread is iterating.
LoopPush ==
    /\ thr = "push"
    /\ thr' = "sleep"
    /\ raced' = (raced \/ (tracked # {} /\ \E u \in Users : upc[u] = "analyze"))
    /\ UNCHANGED <<monitoring, ctl, tracked, upc, terminated>>

\* sleep_for(5s): not woken by StopMonitoring.
LoopSleep ==
    /\ thr = "sleep"
    /\ thr' = "check"
    /\ UNCHANGED <<monitoring, ctl, tracked, upc, raced, terminated>>

\* catch (...): LearnFromProcessPatterns or a push_back threw (an
\* allocation); the shared_lock is released by unwinding and the loop goes
\* back to its test without sleeping.
LoopFault ==
    /\ thr \in {"learn", "push"}
    /\ thr' = "check"
    /\ UNCHANGED <<monitoring, ctl, tracked, upc, raced, terminated>>

LoopStep == LoopCheck \/ LoopLearn \/ LoopLock \/ LoopPush \/ LoopSleep

-----------------------------------------------------------------------------
(* Process tracking.                                                       *)

\* TrackProcess under the exclusive lock: the entry is (re)placed.
Track(u, k) ==
    /\ upc[u] = "idle"
    /\ NoSharedHolder
    /\ tracked' = tracked \cup {k}
    /\ UNCHANGED <<monitoring, thr, ctl, upc, raced, terminated>>

\* UntrackProcess under the exclusive lock: a final UpdateProcessKnowledge,
\* then the entry is erased; an unknown key changes nothing.
Untrack(u, k) ==
    /\ upc[u] = "idle"
    /\ NoSharedHolder
    /\ tracked' = tracked \ {k}
    /\ UNCHANGED <<monitoring, thr, ctl, upc, raced, terminated>>

\* AnalyzeProcessBehavior under the shared lock: the key is found and
\* UpdateProcessKnowledge starts iterating its behaviorLog.
AnalyzeBegin(u, k) ==
    /\ upc[u] = "idle"
    /\ k \in tracked
    /\ upc' = [upc EXCEPT ![u] = "analyze"]
    /\ UNCHANGED <<monitoring, thr, ctl, tracked, raced, terminated>>

\* The iteration ends and the shared lock is released.
AnalyzeEnd(u) ==
    /\ upc[u] = "analyze"
    /\ upc' = [upc EXCEPT ![u] = "idle"]
    /\ UNCHANGED <<monitoring, thr, ctl, tracked, raced, terminated>>

-----------------------------------------------------------------------------
Next ==
    /\ ~terminated
    /\ \/ \E c \in Controllers :
             StartExchange(c) \/ StartSpawn(c) \/ StopExchange(c)
             \/ StopTest(c) \/ StopJoin(c)
       \/ LoopStep \/ LoopFault
       \/ \E u \in Users :
             \/ \E k \in Keys : Track(u, k) \/ Untrack(u, k) \/ AnalyzeBegin(u, k)
             \/ AnalyzeEnd(u)

\* The monitoring thread is scheduled (its only wait is a timed sleep), and
\* a controller's joinable() test and join() complete once they can.
Fairness ==
    /\ WF_vars(~terminated /\ LoopStep)
    /\ \A c \in Controllers : WF_vars(~terminated /\ (StopTest(c) \/ StopJoin(c)))

Spec == Init /\ [][Next]_vars

FairSpec == Spec /\ Fairness

-----------------------------------------------------------------------------
(* The refinement mapping to AbstractMonitor: m_monitoringThread is a      *)
(* running context at every point of MonitoringLoop, "exited" once it has  *)
(* returned and "none" when it is not joinable; the flag, the tracked keys *)
(* and std::terminate map to themselves.                                   *)
MonitorCtx ==
    CASE thr = "none"   -> "none"
      [] thr = "exited" -> "exited"
      [] OTHER          -> "running"

AbsMon == INSTANCE AbstractMonitor
            WITH on <- monitoring, ctx <- MonitorCtx, watched <- tracked,
                 crashed <- terminated

-----------------------------------------------------------------------------
(* Properties.                                                             *)

\* Once StopMonitoring has returned and no controller is inside a call, no
\* monitoring thread is left: the loop saw the cleared flag and was joined,
\* so the destructor's StopMonitoring does not leave a joinable thread.
MonitorStopLeavesNoThread ==
    (~monitoring /\ \A c \in Controllers : ctl[c] = "idle") => thr = "none"

\* A StopMonitoring call returns: the loop leaves its sleep, sees the
\* cleared flag and returns, and join() completes.
StopMonitoringReturns ==
    \A c \in Controllers : ctl[c] \in {"test", "join"} ~> ctl[c] = "idle"

\* No behaviorLog is appended to while another thread iterates it (a
\* push_back may reallocate the vector under the iterator).
NoLogRace == ~raced

\* No sequence of StartMonitoring and StopMonitoring calls ends the process.
MonitorNeverTerminates == ~terminated

\* The monitor implements AbstractMonitor: StartMonitoring launches a
\* thread only while the flag is on and none is joinable, MonitoringLoop
\* returns only once the flag is off, StopMonitoring joins only a returned
\* thread, only TrackProcess and UntrackProcess change the tracked set, and
\* no call ends the process.
AbstractMonitorSpec == AbsMon!MonSpec

=============================================================================
