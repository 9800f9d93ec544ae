------------------------- MODULE IntegrationProofs -------------------------
(***************************************************************************)
(* Proofs about Integration for every set of callers and agent names: the *)
(* type invariant, and that an event handler never finds the system gone  *)
(* while it works on it.                                                  *)
(***************************************************************************)
EXTENDS Integration, FiniteSetTheorems, TLAPS

USE IntegrationAssumption

\* Every step keeps every variable in its type.
LEMMA TypeStep == TypeOK /\ [Next]_vars => TypeOK'
<1> SUFFICES ASSUME TypeOK, [Next]_vars PROVE TypeOK'
  OBVIOUS
<1>1. ASSUME NEW c \in Callers, InitBegin(c) \/ InitAgents(c) PROVE TypeOK'
  <2>1. CASE InitBegin(c)
    BY <2>1 DEF InitBegin, TypeOK
  <2>2. CASE InitAgents(c)
    <3>1. Cardinality(Defaults) \in Nat
      BY FS_CardinalityType
    <3>2. QED
      BY <2>2, <3>1 DEF InitAgents, TypeOK
  <2>3. QED
    BY <1>1, <2>1, <2>2
<1>2. ASSUME NEW c \in Callers, ShutdownFlag(c) \/ ShutdownLocked(c) PROVE TypeOK'
  BY <1>2 DEF ShutdownFlag, ShutdownLocked, TypeOK
<1>3. ASSUME NEW c \in Callers, NEW op \in ApiOps, NEW n \in Names,
             ApiCheck(c, op, n)
      PROVE TypeOK'
  BY <1>3 DEF ApiCheck, TypeOK
<1>4. ASSUME NEW c \in Callers, ApiUse(c) PROVE TypeOK'
  <2>1. cop[c].op \in ApiOps /\ cop[c].name \in Names /\ stat \in 0..MaxStat
    BY DEF TypeOK
  <2>2. reg' \subseteq Names /\ stat' \in 0..MaxStat
    <3>1. CASE sysPtr = "null"
      BY <1>4, <3>1 DEF ApiUse, TypeOK
    <3>2. CASE sysPtr # "null" /\ cop[c].op = "create"
      <4>1. stat < MaxStat /\ reg' = reg \cup {cop[c].name} /\ stat' = stat + 1
        BY <1>4, <3>2 DEF ApiUse
      <4>2. QED
        BY <2>1, <4>1 DEF TypeOK
    <3>3. CASE sysPtr # "null" /\ cop[c].op = "destroy" /\ cop[c].name \in reg
      <4>1. reg' = reg \ {cop[c].name} /\ stat' = IF stat > 0 THEN stat - 1 ELSE stat
        BY <1>4, <3>3 DEF ApiUse
      <4>2. QED
        BY <2>1, <4>1 DEF TypeOK
    <3>4. CASE sysPtr # "null" /\ cop[c].op # "create"
               /\ ~(cop[c].op = "destroy" /\ cop[c].name \in reg)
      <4>1. reg' = reg /\ stat' = stat
        BY <1>4, <3>4 DEF ApiUse
      <4>2. QED
        BY <2>1, <4>1 DEF TypeOK
    <3>5. QED
      BY <3>1, <3>2, <3>3, <3>4
  <2>3. QED
    BY <1>4, <2>2 DEF ApiUse, TypeOK
<1>5. ASSUME NEW c \in Callers, EventLock(c) \/ EventApply(c) PROVE TypeOK'
  BY <1>5 DEF EventLock, EventApply, TypeOK
<1>6. CASE UNCHANGED vars
  BY <1>6 DEF vars, TypeOK
<1>7. QED
  BY <1>1, <1>2, <1>3, <1>4, <1>5, <1>6 DEF Next

\* The manager starts with every variable in its type.
LEMMA InitType == Init => TypeOK
<1> SUFFICES ASSUME Init PROVE TypeOK
  OBVIOUS
<1> DEFINE n0 == CHOOSE n \in Names : TRUE
<1>1. n0 \in Names
  BY Zenon
<1>2. cop \in [Callers -> [op : ApiOps, name : Names]]
  <2>1. cop = [c \in Callers |-> [op |-> "execute", name |-> n0]]
    BY DEF Init
  <2>2. QED
    BY <1>1, <2>1 DEF ApiOps
<1>3. mgrInit \in BOOLEAN /\ crashed \in BOOLEAN /\ sysPtr \in {"live", "null"}
  BY DEF Init
<1>4. reg \subseteq Names /\ stat \in 0..MaxStat /\ mlock \in Callers \cup {"free"}
  BY DEF Init
<1>5. cpc \in [Callers -> {"idle", "init", "shutdown", "api", "event"}]
  BY DEF Init
<1>6. QED
  BY <1>2, <1>3, <1>4, <1>5 DEF TypeOK

\* The type invariant: every variable keeps its type.
THEOREM TypeCorrect == Spec => []TypeOK
<1>1. Init => TypeOK
  BY InitType
<1>2. QED
  BY <1>1, TypeStep, PTL DEF Spec

-----------------------------------------------------------------------------
(* EventSeesSystem is not inductive on its own: a Shutdown could reset the *)
(* pointer while a handler is inside.  It is, together with the fact that *)
(* a caller inside Initialize or an event handler holds m_mutex, which     *)
(* ShutdownLocked needs free.                                              *)

\* A caller inside Initialize or an event handler holds m_mutex.
LockOwned == \A c \in Callers : cpc[c] \in {"init", "event"} => mlock = c

IInv == TypeOK /\ LockOwned /\ EventSeesSystem

LEMMA IInvStep == IInv /\ [Next]_vars => IInv'
<1> SUFFICES ASSUME IInv, [Next]_vars PROVE IInv'
  OBVIOUS
<1>1. TypeOK'
  BY TypeStep DEF IInv
<1> SUFFICES (LockOwned /\ EventSeesSystem)'
  BY <1>1 DEF IInv
<1>2. ASSUME NEW c \in Callers, InitBegin(c) PROVE (LockOwned /\ EventSeesSystem)'
  BY <1>2 DEF InitBegin, IInv, TypeOK, LockOwned, EventSeesSystem
<1>3. ASSUME NEW c \in Callers, InitAgents(c) PROVE (LockOwned /\ EventSeesSystem)'
  BY <1>3 DEF InitAgents, IInv, TypeOK, LockOwned, EventSeesSystem
<1>4. ASSUME NEW c \in Callers, ShutdownFlag(c) PROVE (LockOwned /\ EventSeesSystem)'
  BY <1>4 DEF ShutdownFlag, IInv, TypeOK, LockOwned, EventSeesSystem
<1>5. ASSUME NEW c \in Callers, ShutdownLocked(c) PROVE (LockOwned /\ EventSeesSystem)'
  <2>1. \A d \in Callers : cpc[d] # "event"
    BY <1>5 DEF ShutdownLocked, IInv, LockOwned, TypeOK
  <2>2. QED
    BY <1>5, <2>1 DEF ShutdownLocked, IInv, TypeOK, LockOwned, EventSeesSystem
<1>6. ASSUME NEW c \in Callers, NEW op \in ApiOps, NEW n \in Names,
             ApiCheck(c, op, n)
      PROVE (LockOwned /\ EventSeesSystem)'
  BY <1>6 DEF ApiCheck, IInv, TypeOK, LockOwned, EventSeesSystem
<1>7. ASSUME NEW c \in Callers, ApiUse(c) PROVE (LockOwned /\ EventSeesSystem)'
  BY <1>7 DEF ApiUse, IInv, TypeOK, LockOwned, EventSeesSystem
<1>8. ASSUME NEW c \in Callers, EventLock(c) PROVE (LockOwned /\ EventSeesSystem)'
  BY <1>8 DEF EventLock, IInv, TypeOK, LockOwned, EventSeesSystem
<1>9. ASSUME NEW c \in Callers, EventApply(c) PROVE (LockOwned /\ EventSeesSystem)'
  BY <1>9 DEF EventApply, IInv, TypeOK, LockOwned, EventSeesSystem
<1>10. CASE UNCHANGED vars
  BY <1>10 DEF vars, IInv, LockOwned, EventSeesSystem
<1>11. QED
  BY <1>2, <1>3, <1>4, <1>5, <1>6, <1>7, <1>8, <1>9, <1>10 DEF Next

\* For every number of threads: an event handler that has found a system
\* under m_mutex keeps it until its body is done, however Initialize,
\* Shutdown and the unlocked API calls interleave with it.
THEOREM EventSeesSystemThm == Spec => []EventSeesSystem
<1>1. Init => IInv
  BY InitType DEF Init, IInv, LockOwned, EventSeesSystem
<1>2. QED
  BY <1>1, IInvStep, PTL DEF Spec, IInv

-----------------------------------------------------------------------------
(* One caller thread.  The two counterexamples of this module              *)
(* (NoNullSystemUse, InitializedHasSystem) need a second thread: when the  *)
(* manager is used from a single thread, the unlocked check-then-use and   *)
(* Shutdown's flag-before-lock are harmless.  SeqInv(c0) is the invariant: *)
(* outside Initialize and Shutdown the flag says whether there is a        *)
(* system; inside an API call, a handler, Initialize or Shutdown there is  *)
(* one; Initialize has set the flag and Shutdown has cleared it.           *)

SeqInv(c0) ==
    /\ TypeOK
    /\ ~crashed
    /\ cpc[c0] \in {"idle", "api", "event"} => (mgrInit <=> sysPtr = "live")
    /\ cpc[c0] \in {"init", "shutdown", "api", "event"} => sysPtr = "live"
    /\ cpc[c0] = "init" => mgrInit
    /\ cpc[c0] = "shutdown" => ~mgrInit

\* With one caller, every step keeps SeqInv.
LEMMA SeqInvStep ==
    ASSUME NEW c0 \in Callers, Callers = {c0}
    PROVE  SeqInv(c0) /\ [Next]_vars => SeqInv(c0)'
<1> SUFFICES ASSUME SeqInv(c0), [Next]_vars PROVE SeqInv(c0)'
  OBVIOUS
<1>1. TypeOK'
  BY TypeStep DEF SeqInv
<1> USE <1>1 DEF SeqInv, TypeOK
<1>2. CASE InitBegin(c0) \/ InitAgents(c0)
  BY <1>2 DEF InitBegin, InitAgents
<1>3. CASE ShutdownFlag(c0) \/ ShutdownLocked(c0)
  BY <1>3 DEF ShutdownFlag, ShutdownLocked
<1>4. ASSUME NEW op \in ApiOps, NEW n \in Names, ApiCheck(c0, op, n)
      PROVE  SeqInv(c0)'
  BY <1>4 DEF ApiCheck
<1>5. CASE ApiUse(c0)
  BY <1>5 DEF ApiUse
<1>6. CASE EventLock(c0) \/ EventApply(c0)
  BY <1>6 DEF EventLock, EventApply
<1>7. CASE UNCHANGED vars
  BY <1>7 DEF vars
<1>8. QED
  BY <1>2, <1>3, <1>4, <1>5, <1>6, <1>7 DEF Next

\* The manager as constructed satisfies SeqInv.
LEMMA SeqInvInit ==
    ASSUME NEW c0 \in Callers
    PROVE  Init => SeqInv(c0)
BY InitType DEF Init, SeqInv

\* Used from one thread, no call of the manager dereferences a null
\* m_cognitiveSystem: the unlocked test of CreateCognitiveAgent,
\* DestroyCognitiveAgent and ExecuteCognitiveCommand is stale only when
\* another thread runs Shutdown between test and use.
THEOREM SequentialNoNullSystemUse ==
    ASSUME NEW c0 \in Callers, Callers = {c0}
    PROVE  Spec => []NoNullSystemUse
<1>1. SeqInv(c0) => NoNullSystemUse
  BY DEF SeqInv, NoNullSystemUse
<1>2. QED
  BY <1>1, SeqInvInit, SeqInvStep, PTL DEF Spec

\* Used from one thread, IsInitialized() is true exactly when the manager
\* has a system, outside Initialize and Shutdown: Shutdown's clearing of
\* m_initialized before taking m_mutex matters only to a concurrent
\* Initialize.
THEOREM SequentialInitializedHasSystem ==
    ASSUME NEW c0 \in Callers, Callers = {c0}
    PROVE  Spec => []InitializedHasSystem
<1>1. SeqInv(c0) => InitializedHasSystem
  BY DEF SeqInv, TypeOK, InitializedHasSystem
<1>2. QED
  BY <1>1, SeqInvInit, SeqInvStep, PTL DEF Spec
=============================================================================
