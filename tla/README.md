# TLA+ models of the CogWSL cognitive core

This directory holds TLA+ models of the cognitive framework in
`src/src/shared/cognitive/` (`cognitive.cpp`, `wsl_cognitive_integration.cpp`,
headers in `src/src/shared/inc/`). It has TLC configurations that check them on
small instances and TLAPS proofs that hold for every instance. Every definition
is translated from the C++ source. `PROJECT.json` maps each definition to the
lines it models.

## 1. Inventory

### Components and their state

| Component | Source | State | Operations |
|---|---|---|---|
| `Atom` | cognitive.cpp:28-59 | id, type, name, truth, confidence, attention (0.5 at birth), incoming/outgoing link vectors | `SetTruthValue` (clamps both to [0,1]), `SetAttention` (no floor), `AddIncomingLink`/`AddOutgoingLink` (deduplicated) |
| `AtomSpace` | cognitive.cpp:61-183 | `m_atoms` by id, `m_atomsByName` by name, one `shared_mutex` | `CreateAtom` (get-if-exists, exclusive lock), `GetAtom`, `FindAtom`, `FindAtomsByType`, `Query`, `RemoveAtom` (does not scrub links), `Clear`, `UpdateAttentionValues` (decay ×0.95 floored at 0.01, and spreading of 10% over the outgoing links, under a shared lock only) |
| `CognitiveAgent` | cognitive.cpp:185-420 | `m_state`, `m_shouldStop`, `m_processingThread`, `m_goals`, `m_memories`, `m_stateMutex` + condition variable | `Start`, `Stop`, `Pause`, `Resume`, `ProcessingLoop` (Perceive, Reason, Plan, Act, Learn, then SelfModify with 1% probability, then a timed wait), `AddGoal`, `RemoveGoal`, `ReceiveMessage` |
| `CognitiveSystem` | cognitive.cpp:422-591 | `m_agents` by name, `m_configuration`, `m_initialized`, two `shared_mutex` | `Initialize`, `Shutdown`, `CreateAgent`, `GetAgent`, `RemoveAgent`, `BroadcastMessage`, `UpdateSystem`, `Set/GetConfiguration`, `GetStatistics` |
| `CognitiveIntegrationManager` | wsl_cognitive_integration.cpp:27-403 | `m_cognitiveSystem`, callbacks, process map, `m_mutex`, statistics | `Initialize` (creates three started agents), `Shutdown`, `OnProcessCreate/Destroy`, `OnDistroEvent`, `OnSystemEvent`, `CreateCognitiveAgent` (CreateAgent then Start, outside the registry lock), `DestroyCognitiveAgent`, `QueryCognitiveState`, `ExecuteCognitiveCommand`, callbacks |
| `CognitiveProcessMonitor` | wsl_cognitive_integration.cpp:405-568 | tracked processes, `m_monitoring`, monitoring thread | `StartMonitoring`, `StopMonitoring`, `TrackProcess`, `UntrackProcess`, `AnalyzeProcessBehavior`, `LearnFromProcessPatterns`, `MonitoringLoop` |
| `AutogeneticAgentFactory` | wsl_cognitive_integration.cpp:570-769 | templates, self-modification flags | `CreateAgent` by role (creates through the manager, then adds goals), `CreateCustomAgent`, template registry |

### How they interact

- The integration manager turns WSL events into atoms of the global AtomSpace. It
  then broadcasts a message to every agent: `ReceiveMessage` appends to
  `m_memories` on the caller's thread.
- Each started agent runs its own thread. Each cycle reads and writes the shared
  AtomSpace (queries under the shared lock, `CreateAtom` under the exclusive
  lock, field writes with no lock). It also writes its own `m_state` without
  `m_stateMutex`.
- Clients call `Start`/`Stop`/`Pause`/`Resume` under `m_stateMutex`.
  `Stop` releases the mutex before `join()`.
- The registry holds its exclusive lock across `Stop()` in `RemoveAgent` and
  `Shutdown`. `UpdateSystem` reads statistics under one shared lock, then
  resumes the first Inactive agent under another.
- `CreateCognitiveAgent` calls `Start()` on the agent pointer after
  `CreateAgent` has released the registry lock.

### What is hard

- Interleavings of client lifecycle calls with the agent thread's unlocked
  state writes.
- The two halves of `Stop` (lock and flag, then `joinable()`/`join()`).
- Starting a thread over a joinable one.
- The registry lock held across a join.
- Stale statistics in `UpdateSystem`.
- The iteration-order dependence of the attention pass.
- Unsynchronized vector mutation of `m_memories`/`m_goals` from two threads.
- Float thresholds.

### What makes each component correct

- **Agent:** after `Stop()` returns, there is no thread and the state is
  Inactive. `Stop()` returns. `Start()` never terminates the process. A paused
  agent makes no progress. The loop sleeps between cycles. Error is transient.
- **Registry:** a removed agent has no running thread. `RemoveAgent` returns. An
  agent counted as active is running. `UpdateSystem` resumes an agent when fewer
  than half are active.
- **AtomSpace:**
  - Names are unique and the two indexes agree.
  - `CreateAtom` never changes an existing atom.
  - Truth and confidence stay in [0,1], and attention stays ≥ 0.01 after a pass.
  - No atom ends a pass below its own floored decay, in any iteration order
    (the order dependence itself is the reference behaviour, spec §4.2).
  - Links are deduplicated.
- **Cycle:** the memory list is bounded, plans make goals progress, and
  SelfModify promotes only plans above 0.8.

The hazards of the code, each at its line, are listed in `PROJECT.json`
("hazards").

## 2. Modules

| Module | Models | Status |
|---|---|---|
| `AgentLifecycle` | `CognitiveAgent` Start/Stop/Pause/Resume and every step of `ProcessingLoop` | done |
| `AgentLifecycleProofs` | TLAPS proofs about `AgentLifecycle` | done |
| `CognitiveSystem` | the registry over `AgentLifecycle`: CreateAgent, RemoveAgent, Initialize, Shutdown, UpdateSystem, and the integration layer's Start | done (Broadcast and configuration to come) |
| `AtomSpace` | the graph store: the id counter, `m_atoms`/`m_atomsByName`, CreateAtom, RemoveAtom, Clear, and AddOutgoingLink called by several threads | done (field writes to come) |
| `AtomSpaceProofs` | TLAPS proofs about `AtomSpace` | done |
| `CognitiveSystemProofs` | TLAPS proof that `CognitiveSystem` stays well typed | done |
| `AttentionLoop` | `UpdateAttentionValues` as its loop, one step per iteration, over every graph, attention vector and iteration order | done |
| `AttentionLoopProofs` | TLAPS proof of the spread lower bound for every instance | done |
| `Integration` | `CognitiveIntegrationManager`: Initialize, Shutdown, the locked event handlers, the unlocked API calls, `m_stats.cognitiveAgents` | done (callbacks, queries to come) |
| `IntegrationProofs` | TLAPS proofs about `Integration` | done |
| `MC_*` | TLC instances (model values, symmetry, small bounds) | done |
| `AgentCycle` | graph effects of the stages, `m_goals`/`m_memories`, ReceiveMessage, AddGoal | planned |
| `AbstractAgent` | what an agent promises about its execution context (spec, "Scheduling model"): launch, stop request, exit, reap | done |
| `ProcessMonitor` | `CognitiveProcessMonitor`: StartMonitoring/StopMonitoring, every step of `MonitoringLoop`, TrackProcess, UntrackProcess, AnalyzeProcessBehavior | done |
| `ProcessMonitorProofs` | TLAPS proofs about `ProcessMonitor` with one controlling thread | done |
| `AbstractStore` | what the atom store promises: a get-or-create dictionary from names to atoms whose ids are never reused | done |
| `AbstractMonitor` | what the process monitor promises: a flag, at most one monitoring context, the tracked set | done |

### `AgentLifecycle`: state and actions

- `state[a]` is `m_state`, `shouldStop[a]` is `m_shouldStop`, and
  `terminated` records a `std::terminate`.
- `thread[a]` is the agent thread's program counter: `none` (not joinable), one
  value per point of `ProcessingLoop` (`check`, `perceive` … `selfmod`, `coin`,
  `wait`), and `exited` (returned but still joinable).
- `stopper[a]` is a client inside `Stop()`: `join` once the locked half is done.

Client calls are atomic steps (they run under `m_stateMutex`): `Start`,
`StopRequest` (the locked half of `Stop`), `StopJoin` (the `joinable()`/`join()`
half), `Pause`, `Resume`. The thread's steps are `Check`, `Perceive`, `Reason`,
`Plan`, `Act`, `Learn`, `Coin` (the 1% draw), `SelfModify`, `Wait` and `Fault`
(the `catch` block). Perceive, Learn and SelfModify write `m_state` without the
lock; Reason, Plan and Act do not touch it. `Start` on a joinable thread sets
`terminated`, after which nothing happens.

### `AbstractAgent` and the refinement

`AbstractAgent` keeps only what the spec promises about an agent's
execution context: `ctx[a]` is `none`, `running` or `exited`, `stopReq[a]` the
stop request, `crashed` the end of the process. Its actions are `Launch`,
`Crash` (launching over a context that is still there), `RequestStop`, `Exit`
(only after a request) and `Reap`. `Exit` is weakly fair: a context asked to
stop does return.

`AgentLifecycle` instantiates it with
`ctx <- AbsCtx, stopReq <- shouldStop, crashed <- terminated`, where `AbsCtx`
maps every loop point of `thread[a]` to `running` and keeps `none` and
`exited`. The property `AbstractAgentSpec == Abstract!AbsSpec` is checked by
the lifecycle run. Each detailed step maps as follows:
- `Start` with no thread is `Launch`; on a joinable thread it is `Crash`.
- `StopRequest` is `RequestStop`.
- `Check` with the flag set is `Exit`.
- `StopJoin` of an exited thread is `Reap`.
- Every other step is a stutter: stages, Pause, Resume, `Fault`, `Check`
  continuing, and `StopJoin` with no thread.

`m_state` is deliberately absent from the abstraction. The code does not keep
the spec's promises about it (`StoppedIsInactive`, `PauseHolds`).

### `ProcessMonitor`: state and actions

The variables:
- `monitoring` is `m_monitoring`.
- `thr` is the monitoring thread's program counter:
  - `none` (not joinable);
  - `check`, `learn`, `observe`, `push`, `sleep` (points of `MonitoringLoop`);
  - `exited` (returned, still joinable).
- `ctl[c]` is a controller thread inside `StartMonitoring` (`spawn`: after the
  exchange) or `StopMonitoring` (`test`, then `join`).
- `tracked` is the key set of `m_trackedProcesses`.
- `upc[u]` is a user thread inside `AnalyzeProcessBehavior`'s iteration of a
  `behaviorLog`.
- `raced` records a `push_back` onto a `behaviorLog` while a user iterated it.

Track and Untrack hold `m_processMutex` exclusively. Each is one step, enabled
only when nobody holds the mutex shared (`NoSharedHolder`).
`LearnFromProcessPatterns` only reads and is one step. `LoopFault` is the
`catch (...)`: it returns to the flag test without sleeping.

`UpdateProcessKnowledge` iterates the log only when the system and the
process's atom exist. The model lets every analysis iterate, which is the
normal case once the manager is initialized.

### `AbstractMonitor` and the refinement

`AbstractMonitor` has the flag `on`, one context `ctx` (`none`, `running`,
`exited`), the tracked set `watched` and `crashed`. Its actions:
- `TurnOn` and `TurnOff` switch the flag.
- `Launch` starts a context only while the flag is on and none is left.
- `Exit` lets a running context return only once the flag is off.
- `Reap` reaps a returned context.
- `Watch` and `Unwatch` add and remove a tracked key.

No action sets `crashed`.

`ProcessMonitor` instantiates it with `on <- monitoring`,
`ctx <- MonitorCtx`, `watched <- tracked` and `crashed <- terminated`.
`MonitorCtx` maps every loop point of `thr` to `running`. The steps map as
follows:
- `StartExchange` is `TurnOn`.
- `StartSpawn` is `Launch`.
- `StopExchange` is `TurnOff`.
- `LoopCheck` with the flag off is `Exit`.
- `StopJoin` is `Reap`.
- `Track` and `Untrack` are `Watch` and `Unwatch`.
- Everything else is a stutter.

The monitor run (one controller) checks `AbstractMonitorSpec`. With two
controllers it is violated: `StartSpawn` can meet a joinable thread and end
the process.

### `CognitiveSystem`: state and actions

`registered` is the key set of `m_agents`, `initialized` is `m_initialized`,
`lock` the exclusive holder of `m_agentsMutex`, `pending` the agents Shutdown
has yet to stop, `upd` the point reached in `UpdateSystem`. `RemoveAgent` is
`RemoveBegin`/`RemoveEnd`; `Shutdown` is `ShutdownBegin`, then
`ShutdownStop`/`ShutdownJoin` per agent, then `ShutdownEnd`, all holding the
lock across `Stop()`. `UpdateSystem` is `UpdateStats` then `UpdateResume`.
`StartAgent` is the `Start()` of `CreateCognitiveAgent`, made without the
registry lock.

### `AtomSpace`: state and actions

An atom is its id. `nextId` is `Atom::s_nextId`, `atoms` the key set of
`m_atoms`, `byName` the function `m_atomsByName` (name to id), `nameOf[id]` the
atom's `m_name` (kept after removal, because other atoms' links still hold the
object), `out[s][d]` the number of copies of `d` in `s`'s `m_outgoingLinks`.
Linker threads follow the pattern of `Plan`/`SelfModify`: `dst =
CreateAtom(name); src->AddOutgoingLink(dst)`; `pc[t]` and `link[t]` are a
linker's place and arguments.

- `Create(n)` is `CreateAtom` under the exclusive lock: an existing name
  returns its atom (`Lookup`), otherwise `CreateNew` takes `nextId`.
- `RemoveAtom(id)` erases the name, then the atom; links to it stay.
- `Clear` empties both tables (it runs in the destructor).
- `LinkCreate`, `LinkFind`, `LinkPush`: the CreateAtom call, then the
  `std::find` and the `push_back` of `AddOutgoingLink`, each a separate step
  because the vector has no lock.

`AbstractStore` is what the store promises. It is a dictionary `table` from
names to ids, with `live` atoms and the `used` ids. Its actions:
- `Insert(n, i)` adds a name it does not hold, with an id never used before.
- `Erase(i)` drops an atom and every name mapping to it.
- `EraseAll` drops everything and keeps `used`.

`AtomSpace` instantiates it with `table <- byName`, `live <- atoms` and
`used <- Created`. CreateAtom of a new name is `Insert(n, nextId)`; of a held
name, a stutter. `RemoveAtom` is `Erase`, `Clear` is `EraseAll`, and the
linkers' `find`/`push_back` are stutters. The atomspace run checks
`AbstractStoreSpec`.

A link vector is kept as counts: no reader depends on its order.
`AddIncomingLink` has no production caller (only the test at
test_cognitive.cpp:61-63), so incoming links are left out and are not a
variable.

### `AttentionLoop`

The inputs are variables fixed by `Init` (`links`, `att0`, `order`, the last a
bijection from `1..NAtoms` to the atoms), so a run checks the pass on every
input of the instance. `VisitAtom` is one loop iteration: read the live
attention, add `cur*0.1/|out|` to each target, set the atom to
`max(0.01, cur*0.95)`. In `AttentionLoop`, `att` is the live attention and `k`
the iterations done: `Visit` is the loop body on `order[k+1]`, `Done` the end
of the loop.

The result depends on the order, as spec §4.2 says of the reference code.
With a link C1→C2, C1 = 1.0 and C2 = 0.1: if C1 is visited first, C2 gets
0.1 and then decays to 0.19. If C2 is visited first, it decays to 0.095 and
then gets 0.1, giving 0.195. The spec accepts this as reference behaviour and
asks only a reimplementation to pick a rule, so no run states an
order-independent result. `PassLowerBound` is the bound that holds in every
order.

Attention is an integer count of units (1.0 = 21,600,000), and a product
`x*p/q` is `(x \div q)*p`. The MC module substitutes `MCMulFrac`, which
asserts that every product of a run is exact, so the runs compute in exact
arithmetic. The counterexample of `SpreadRaises` is far larger than float
rounding. `AttentionLoop` is kept free of recursion and of `Assert` so that
TLAPS can reason about it.

### `Integration`: state and actions

`mgrInit` is `m_initialized`, `sysPtr` whether `m_cognitiveSystem` is set,
`reg` the owned system's agent names, `stat` `m_stats.cognitiveAgents`, `mlock`
the holder of `m_mutex`. Each caller has `cpc` (its place) and `cop` (its API
call); `crashed` records a null dereference.

- `InitBegin`/`InitAgents`: `Initialize` under `m_mutex`: the flag exchange, a
  new system, then the default agents and their count.
- `ShutdownFlag`/`ShutdownLocked`: `Shutdown` exchanges the flag *before*
  taking `m_mutex`, then resets the system under it.
- `ApiCheck`/`ApiUse`: `CreateCognitiveAgent`, `DestroyCognitiveAgent` and
  `ExecuteCognitiveCommand` test the pointer without the lock, then use it.
- `EventLock`/`EventApply`: the event handlers take `m_mutex`, test the
  pointer, and run their body.

## 3. Runs

| Run | cfg | Expect | Checks | Shows |
|---|---|---|---|---|
| lifecycle | AgentLifecycle.cfg | pass | StopLeavesNoThread, ExitOnlyOnStop, ErrorClears, AbstractAgentSpec | 2 agents: once Stop returns there is no thread, the loop exits only when asked to, Error clears under fair scheduling, and the lifecycle implements `AbstractAgent` |
| stop_leaves_state | AgentLifecycle_StoppedIsInactive.cfg | violation | StoppedIsInactive | a stage (or the catch block) overwrites Stop's Inactive; test_cognitive.cpp:134 can fail |
| registry_remove_hang | CognitiveSystem_RemoveAgentReturns.cfg | violation | RemoveAgentReturns | `CreateCognitiveAgent`'s `Start()` between the two halves of RemoveAgent's `Stop()` clears the stop flag; the join never returns and `m_agentsMutex` stays held (fair scheduling, two names) |
| atomspace | AtomSpace.cfg | pass | IndexAgree, AtomIdentityStable, AbstractStoreSpec | any mix of CreateAtom, RemoveAtom, Clear and two linkers keeps the two tables in agreement; an id handed out keeps its name and a removed atom never returns (a `Clear` that reset the counter would break it); the store implements `AbstractStore` |
| atomspace_link_dup | AtomSpace_LinksDeduplicated.cfg | violation | LinksDeduplicated | two linkers of one pair both pass `std::find`; the target is stored twice |
| attention | AttentionLoop.cfg | pass | PassLowerBound | no atom ends the pass below its own floored decay, in any order (a pass that moved attention instead of copying it breaks this) |
| attention_spread_raises | AttentionLoop_SpreadRaises.cfg | violation | SpreadRaises | spec §7's "strictly `> b`" fails: an atom at 0.1 linked from one at 0.01 ends at 0.096; the snapshot rule gives the same value |
| integration | Integration.cfg | pass | EventSeesSystem | an event handler keeps its system until its body ends |
| integration_null_use | Integration_NoNullSystemUse.cfg | violation | NoNullSystemUse | ApiCheck, Shutdown, ApiUse: a null `m_cognitiveSystem` is dereferenced |
| monitor | ProcessMonitor.cfg | pass | MonitorStopLeavesNoThread, MonitorNeverTerminates, StopMonitoringReturns, AbstractMonitorSpec | one controller, two users, two keys: a returned StopMonitoring has joined the thread, Start never spawns over a joinable one, StopMonitoring returns under fair scheduling, and the monitor implements `AbstractMonitor` |
| monitor_log_race | ProcessMonitor_NoLogRace.cfg | violation | NoLogRace | the loop's `push_back` under the shared lock meets `UpdateProcessKnowledge` iterating the same `behaviorLog`, as `TestProcessMonitor` does |
| integration_init_race | Integration_InitializedHasSystem.cfg | violation | InitializedHasSystem | Initialize between Shutdown's flag and its lock: initialized with no system |

More counterexample configurations sit beside the runs, each checking one
property that TLC finds violated:
- `AgentLifecycle_NeverTerminates.cfg`: Start during Stop's join, or after
  Pause, move-assigns onto a joinable `std::thread`.
- `AgentLifecycle_StopReturns.cfg`: Stop then Start on a never-started agent,
  so Stop joins a thread that never stops.
- `ProcessMonitor_MonitorNeverTerminates.cfg`: with two controllers, a Stop
  between Start's exchange and its thread assignment finds nothing to join.
  The next Start assigns over the unjoined thread.
- `AgentLifecycle_WaitSleeps.cfg`: the end-of-cycle wait never sleeps, since
  Learn has just set `Learning`.
- `AgentLifecycle_PauseHolds.cfg`: Perceive undoes Pause.
- `CognitiveSystem_ActiveAgentHasThread.cfg`: UpdateSystem resumes an unstarted
  agent.
- `CognitiveSystem_RemovedAgentsStopped.cfg`: Shutdown drops a running agent.
- `Integration_AgentStatAccurate.cfg`: a second `CreateCognitiveAgent` of one
  name counts the agent twice.

### Bounds

- Lifecycle: finite-state; two agents show the properties do not depend on a
  single agent. The registry needs two names for `totalAgents / 2` to be
  non-zero.
- AtomSpace: three ids, two names, two linkers (symmetric). Three ids let a
  name be removed and created again under a new id; two linkers are what the
  link race needs.
- AttentionLoop: 786,432 states, three atoms, all 512 graphs (self-links included), attention
  in {0.01, 0.1, 0.5, 1.0}, all 6 orders. Three atoms are the fewest where a
  chain A→B→C is visited in both directions.
- ProcessMonitor: one controller, two users and two keys (both symmetric).
  Two users let an analysis and an untrack overlap; two keys let one be
  analyzed while the other is tracked and untracked. The pass run has one
  controller, the manager's own use. Two controllers are in the
  counterexample configuration above.
- Integration: two callers (symmetric), two names, one default agent,
  `m_stats` capped at 4. Two callers are what every race here needs.

### Fairness

The agent thread's steps are weakly fair (`WF` of `ThreadStep`): the OS
schedules every thread and the loop's only wait is timed (100 ms). A client
blocked in `join()` returns once the thread has exited. Faults, client calls
and the 1% draw have no fairness. In ProcessMonitor, the loop's non-fault steps
are weakly fair: the thread only sleeps for 5 s. So are a controller's
`joinable()` test and `join()`. Start, Stop, tracking, analysis and the `catch`
path have no fairness. The registry_remove_hang run uses the same fairness in
`CognitiveSystem` (`SysFairness`): processing threads are scheduled, and a
`RemoveAgent` or `Shutdown` blocked in `join()` returns once the thread has
exited; registry calls and the integration layer's `Start` have none. The
AtomSpace, AttentionLoop and Integration runs check safety only and assume
no fairness.

### Deadlock checking

`CHECK_DEADLOCK FALSE` is set where the system really stops:
- `std::terminate` in the lifecycle and registry runs;
- the Integration runs, where a null dereference ends the process.

AtomSpace and AttentionLoop are checked for deadlock. Once the loop is
over, `Done` stutters; before that, `Visit` is always enabled.

## 4. Proofs (TLAPS)

`AgentLifecycleProofs`, for every finite non-empty set of agents:
- `TypeCorrect`: `Spec => []TypeOK`.
- `StopLeavesNoThreadThm` and `ExitOnlyOnStopThm`.
- The inductive invariant is `TypeOK /\ StopLeavesNoThread /\ ExitOnlyOnStop`.
  The two properties need each other: a looping thread has its stop flag clear
  or a client still in `join`, and `Start`, the only action clearing the flag,
  needs no thread or terminates.

`AtomSpaceProofs`, for every set of names and linkers and every `MaxId`:
- `TypeCorrect`.
- `IndexAgreeThm`: `Spec => []IndexAgree`.
- The inductive invariant is `TypeOK /\ IndexAgree`. TypeOK supplies
  `atoms \subseteq 1..nextId-1`, so the id a new atom takes is in no table.
  `IndexAgree` itself gives `RemoveAtom` that the name it erases maps to the
  atom it erases.
- `CreateAtomType`, `CreateNewAgree` and `RemoveAgree` are the lemmas behind it.

`IntegrationProofs`, for every set of callers, names and default agents:
- `TypeCorrect`.
- `EventSeesSystemThm`: `Spec => []EventSeesSystem`.
- The inductive invariant adds `LockOwned`: a caller inside Initialize or a
  handler holds `m_mutex`. Then `ShutdownLocked`, which needs the lock free,
  cannot happen while a handler is inside.

`AgentLifecycleProofs` also proves `RefinesAbstractAgent`: `Spec` implies
`Abstract!AbsInit /\ [][Abstract!AbsNext]_Abstract!absVars`. This is the
safety part of the refinement.
- `RefineStep` shows that under `TypeOK` each step is an abstract step or a
  stutter, one case per action.
- `SameContext` states that moving between two loop points leaves `AbsCtx`
  unchanged.
- The fairness part (`WF` of `Exit`) is left to TLC.

`ProcessMonitorProofs` covers one controlling thread
(`Controllers = {c0}`), for any users and keys:
- `MonitorStopLeavesNoThreadThm`: `Spec => []MonitorStopLeavesNoThread`.
- `MonitorNeverTerminatesThm`: `Spec => []MonitorNeverTerminates`.
- Both rest on `MonInv(c0)`. While the controller is idle, a thread runs
  exactly when the flag is set. Between Start's exchange and its spawn there
  is no thread. From Stop's exchange to the end of its join there is a
  joinable thread. Without these conjuncts, `StopJoin` could not be known to
  leave `none`, and `StartSpawn` could not be known to find `none`.

`CognitiveSystemProofs`, for every finite set of agent names:
- `SysTypeCorrect`: `SysSpec => []SysTypeOK`.
- `SysTypeStep` types every registry step. It reuses `TypeStep` of
  `AgentLifecycleProofs` for the lifecycle calls the registry makes.
- The registry's safety properties that matter (`RemovedAgentsStopped`,
  `RemoveAgentReturns`) are violated, so there is nothing more to prove
  about it for every instance.

`AtomSpaceProofs` also proves:
- `AtomIdentityStableThm`: `Spec => AtomIdentityStable`, an action property.
  Its invariant `IdInv` adds `NamedIffCreated`: an id has a name exactly when
  it is below `nextId`. So `CreateNew` writes only a fresh id, and no step
  re-adds an id once removed.
- `SingleLinkerDeduplicated`: with `Linkers = {t0}`, `Spec =>
  []LinksDeduplicated`. Its invariant `LinkInv(t0)` says that a linker at its
  `push_back` found the target absent, and that the target is still absent.
  The duplicate of the `atomspace_link_dup` run therefore needs two linker
  threads.

`AtomSpaceProofs` also proves the refinement `RefinesAbstractStore`:
`Spec => AbstractStoreSpec`, for every instance.
- `CreateAtomRefines`: CreateAtom is an `Insert` of `nextId` or a stutter.
  `TypeOK` supplies that `nextId` is within the bound and above every used id.
- `RemoveAtomRefines`: `RemoveAtom(id)` is `Erase(id)`. By `IndexAgree`, the
  one name RemoveAtom erases is exactly the set of names that map to `id`.
  Without `IndexAgree` in the invariant this step does not go through.
- `RefineStep` combines these with one case per action.

`ProcessMonitorProofs` also proves `RefinesAbstractMonitor`: with
`Controllers = {c0}`, `Spec => AbstractMonitorSpec`.
- `MonRefineStep` maps each step, one case per action.
- It rests on `MonInv(c0)`, which gives that `StartSpawn` follows c0's own
  exchange, so the flag is on and no thread is joinable.

`IntegrationProofs` also proves, with one caller (`Callers = {c0}`):
- `SequentialNoNullSystemUse` and `SequentialInitializedHasSystem`.
- Both rest on `SeqInv(c0)`. While the caller is idle or in a call,
  `m_initialized` holds exactly when the system is set. Inside `Initialize`
  or `Shutdown`, the system is set. The two violations the runs find
  therefore need a second thread.

`AttentionLoopProofs`, for every finite set of atoms, every graph, every
natural attention vector and every iteration order:
- `PassLowerBoundThm`: `Spec => []PassLowerBound`. When the loop of
  `UpdateAttentionValues` is over, every atom holds at least
  `max(0.01, 0.95*b)` of its starting attention `b`.
- The inductive invariant is `LoopInv`:
  - the attention stays a natural number;
  - each atom visited so far holds at least its floored decay;
  - each atom not yet visited holds at least its starting attention.
- `LoopInv` is needed because the bound on a visited atom comes from the
  bound it had before its own iteration. That earlier bound is the
  unvisited conjunct.
- The lemmas behind it:
  - `VisitAtomFacts`: one iteration lowers no other atom;
  - `FlooredDecayMono`: the floored decay is monotone;
  - `SpreadNat`: the spread is natural, using the finiteness of the link set.

Assumptions: each module's named `ASSUME` (names non-empty, `MaxId` positive,
`MaxStat` a natural, `"free"` not a caller, defaults finite).

What stays with TLC:
- Liveness (`ErrorClears`, `StopReturns`, `RemoveAgentReturns`,
  `StopMonitoringReturns`, the fairness part of `AbstractAgentSpec`): TLAPS does not
  handle ENABLED or fairness here.
- Any statement about the pass as a recursive function of the order. It
  would need `NatInduction` instantiated with a predicate, which none of
  the installed provers can do. The bound is therefore stated and proved of
  the loop, step by step (`PassLowerBound`).
- `LinksDeduplicated`, `NoNullSystemUse` and `InitializedHasSystem` with
  several threads. These are violations, so they are proved only for the
  single-thread case. The same holds for `MonitorNeverTerminates`,
  `MonitorStopLeavesNoThread` and `AbstractMonitorSpec` with two
  controllers.

## 5. Not modelled, and why

- The graph effects of the agent stages and `m_goals`/`m_memories` (planned,
  `AgentCycle`).
- Field writes `SetTruthValue`/`SetAttention` and their lost updates under the
  shared lock: the data is not a variable of `AtomSpace` yet.
- `CognitiveProcessMonitor`'s data: the atoms it creates, the log strings,
  the durations and the log's growth. Also the `GetCognitiveSystem()`
  check-then-use, which needs composition with `Integration`.
- The factory, the callbacks, `QueryCognitiveState`
  and the configuration map.
- Statistics formatting, the message structs (never used), `SendMessage` (an
  empty TODO).
- The tests, whose assertions are used as statements of intended behaviour.

## 6. Plan for the next sittings

1. `AgentCycle`:
   - memory growth and trim;
   - goals never advancing (incoming links are never set);
   - the `substr(9)` off-by-one and the float32 plan truths;
   - ReceiveMessage and AddGoal racing the loop.
2. `CognitiveSystem`: Broadcast, stale statistics in UpdateSystem, the
   integer-division edge.
3. `Integration`: callbacks under `m_mutex`, composition with
   `CognitiveSystem`.
4. `ProcessMonitor` composed with `Integration` (the `GetCognitiveSystem()`
   check-then-use), and a bounded `behaviorLog` length.
