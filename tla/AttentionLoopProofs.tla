------------------------- MODULE AttentionLoopProofs -------------------------
(***************************************************************************)
(* The spread lower bound of UpdateAttentionValues for every finite set of *)
(* atoms, every graph, every non-negative attention vector and every      *)
(* iteration order: when the loop is over, no atom holds less than its    *)
(* own floored decay.  The argument follows the loop: an atom not yet     *)
(* visited has at least the attention it started with (spread only adds), *)
(* its own iteration sets it to the floored decay of at least that much,  *)
(* and later iterations only add; the order visits every atom once.       *)
(***************************************************************************)
EXTENDS AttentionLoop, FiniteSetTheorems, TLAPS

\* The atoms the first k iterations have visited.
Visited == {order[i] : i \in 1..k}

\* The inductive invariant: the inputs keep their types, the live
\* attention stays a natural number, every visited atom holds at least its
\* floored decay and every other atom at least its starting attention.
LoopInv ==
    /\ links \in [AtomIds -> SUBSET AtomIds]
    /\ att0 \in [AtomIds -> Nat]
    /\ order \in Orders
    /\ k \in 0..NAtoms
    /\ att \in [AtomIds -> Nat]
    /\ \A x \in Visited : att[x] >= Floored(MulFrac(att0[x], 19, 20))
    /\ \A x \in AtomIds \ Visited : att[x] >= att0[x]

\* The number of atoms is a natural number.
LEMMA NAtomsNat == NAtoms \in Nat
BY AttentionAssumption, FS_CardinalityType DEF NAtoms

\* The floor 0.01 is a natural number of units.
LEMMA FloorNat == AttentionFloor \in Nat
BY AttentionAssumption DEF AttentionFloor

\* The floored decay max(0.01, 0.95 * b) is a natural number and grows
\* with b.
LEMMA FlooredDecayMono ==
    ASSUME NEW x \in Nat, NEW y \in Nat, x >= y
    PROVE  /\ Floored(MulFrac(x, 19, 20)) \in Nat
           /\ Floored(MulFrac(x, 19, 20)) >= Floored(MulFrac(y, 19, 20))
<1> DEFINE mx == MulFrac(x, 19, 20)
           my == MulFrac(y, 19, 20)
<1>1. mx \in Nat /\ my \in Nat /\ mx >= my
  BY DEF MulFrac
<1>2. Floored(mx) \in Nat /\ Floored(mx) >= mx /\ Floored(mx) >= AttentionFloor
  BY <1>1, FloorNat DEF Floored
<1>3. Floored(my) = my \/ Floored(my) = AttentionFloor
  BY DEF Floored
<1>4. QED
  BY <1>1, <1>2, <1>3, FloorNat

\* The share each target of atom a receives, currentAttention * 0.1 /
\* outgoing.size(), is a natural number (0 when a has no links).
LEMMA SpreadNat ==
    ASSUME NEW a \in AtomIds, NEW c \in Nat, links[a] \subseteq AtomIds
    PROVE  (IF links[a] = {} THEN 0
            ELSE MulFrac(c, 1, 10 * Cardinality(links[a]))) \in Nat
<1>1. CASE links[a] # {}
  <2>1. IsFiniteSet(links[a])
    BY AttentionAssumption, FS_Subset
  <2>2. Cardinality(links[a]) \in Nat \ {0}
    BY <1>1, <2>1, FS_CardinalityType, FS_EmptySet
  <2>3. QED
    BY <1>1, <2>2 DEF MulFrac
<1>2. QED
  BY <1>1

\* One iteration of the loop on a natural attention vector w, for atom a:
\* the result is natural, a holds its floored decay, and no other atom
\* loses attention.
LEMMA VisitAtomFacts ==
    ASSUME links \in [AtomIds -> SUBSET AtomIds],
           NEW w \in [AtomIds -> Nat], NEW a \in AtomIds
    PROVE  /\ VisitAtom(w, a) \in [AtomIds -> Nat]
           /\ VisitAtom(w, a)[a] = Floored(MulFrac(w[a], 19, 20))
           /\ \A x \in AtomIds \ {a} : VisitAtom(w, a)[x] >= w[x]
<1> DEFINE spread == IF links[a] = {} THEN 0
                     ELSE MulFrac(w[a], 1, 10 * Cardinality(links[a]))
<1>1. spread \in Nat
  BY SpreadNat
<1>2. Floored(MulFrac(w[a], 19, 20)) \in Nat
  BY FlooredDecayMono
<1>3. QED
  BY <1>1, <1>2 DEF VisitAtom

\* The pass starts with nothing visited and every atom at its starting
\* attention.
LEMMA LoopInvInit == Init => LoopInv
<1> SUFFICES ASSUME Init PROVE LoopInv
  OBVIOUS
<1>1. Visited = {}
  BY DEF Init, Visited
<1>2. att0 \in [AtomIds -> Nat]
  BY AttentionAssumption DEF Init
<1>3. QED
  BY <1>1, <1>2, NAtomsNat DEF Init, LoopInv

\* The iteration of step k + 1 visits an atom no earlier one visited.
LEMMA NextAtomFresh ==
    ASSUME order \in Orders, k \in 0..NAtoms, k < NAtoms
    PROVE  /\ order[k + 1] \in AtomIds
           /\ order[k + 1] \notin Visited
           /\ {order[i] : i \in 1..k + 1} = Visited \cup {order[k + 1]}
<1>1. order[k + 1] \in AtomIds
  BY NAtomsNat DEF Orders
<1>2. order[k + 1] \notin Visited
  BY NAtomsNat DEF Orders, Visited
<1>3. QED
  BY <1>1, <1>2 DEF Visited

\* Every iteration keeps LoopInv, and so does the end of the loop.
LEMMA LoopInvStep == LoopInv /\ [Next]_vars => LoopInv'
<1> SUFFICES ASSUME LoopInv, [Next]_vars PROVE LoopInv'
  OBVIOUS
<1>1. CASE Visit
  <2> DEFINE a == order[k + 1]
  <2>1. /\ a \in AtomIds
        /\ a \notin Visited
        /\ Visited' = Visited \cup {a}
    BY <1>1, NAtomsNat, NextAtomFresh DEF LoopInv, Visit, Visited
  <2>2. /\ att' \in [AtomIds -> Nat]
        /\ att'[a] = Floored(MulFrac(att[a], 19, 20))
        /\ \A x \in AtomIds \ {a} : att'[x] >= att[x]
    BY <1>1, <2>1, VisitAtomFacts DEF LoopInv, Visit
  <2>3. att'[a] >= Floored(MulFrac(att0[a], 19, 20))
    <3>1. att[a] >= att0[a]
      BY <2>1 DEF LoopInv
    <3>2. QED
      BY <2>1, <2>2, <3>1, FlooredDecayMono DEF LoopInv
  <2>4. \A x \in Visited' : att'[x] >= Floored(MulFrac(att0[x], 19, 20))
    <3>1. SUFFICES ASSUME NEW x \in Visited', x # a
                   PROVE  att'[x] >= Floored(MulFrac(att0[x], 19, 20))
      BY <2>3, <1>1 DEF Visit
    <3>2. x \in Visited /\ x \in AtomIds
      <4>1. x \in Visited
        BY <2>1, <3>1
      <4>2. Visited \subseteq AtomIds
        BY NAtomsNat DEF LoopInv, Orders, Visited
      <4>3. QED
        BY <4>1, <4>2
    <3>3. Floored(MulFrac(att0[x], 19, 20)) \in Nat
      BY <3>2, FlooredDecayMono DEF LoopInv
    <3>4. QED
      BY <1>1, <2>2, <3>1, <3>2, <3>3 DEF LoopInv, Visit
  <2>5. \A x \in AtomIds \ Visited' : att'[x] >= att0'[x]
    BY <1>1, <2>1, <2>2 DEF LoopInv, Visit
  <2>6. QED
    BY <1>1, <2>2, <2>4, <2>5, NAtomsNat DEF LoopInv, Visit
<1>2. CASE Done \/ UNCHANGED vars
  BY <1>2 DEF Done, vars, LoopInv, Visited
<1>3. QED
  BY <1>1, <1>2 DEF Next

\* When the loop of UpdateAttentionValues is over, every atom holds at
\* least max(0.01, 0.95 * b) of its starting attention b, for any finite
\* set of atoms, any graph, any natural attention vector and any iteration
\* order of m_atoms.
THEOREM PassLowerBoundThm == Spec => []PassLowerBound
<1>1. LoopInv => PassLowerBound
  <2> SUFFICES ASSUME LoopInv, k = NAtoms, NEW x \in AtomIds
               PROVE  att[x] >= Floored(MulFrac(att0[x], 19, 20))
    BY DEF PassLowerBound
  <2>1. x \in Visited
    BY DEF LoopInv, Orders, Visited
  <2>2. QED
    BY <2>1 DEF LoopInv
<1>2. QED
  BY <1>1, LoopInvInit, LoopInvStep, PTL DEF Spec

=============================================================================
