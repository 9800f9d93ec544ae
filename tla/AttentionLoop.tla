---------------------------- MODULE AttentionLoop ----------------------------
(***************************************************************************)
(* AtomSpace::UpdateAttentionValues (cognitive.cpp:149-170) as the loop    *)
(* it is: one step per iteration of the for over m_atoms.  The graph       *)
(* (links), the attention each atom holds when the pass starts (att0) and  *)
(* the iteration order of the unordered_map (order) are fixed inputs; att  *)
(* is the live attention of every atom and k the number of iterations     *)
(* done.  Each input is an initial state, so a run covers every graph,     *)
(* attention vector and order of the instance.                            *)
(*                                                                         *)
(* Attention is an integer number of units, 1.0 being One units; a product *)
(* x * p / q rounds down.  The runs give values for which every product of *)
(* a pass is exact (and check it), so there the model computes the pass in *)
(* exact arithmetic, which is what the float code approximates.           *)
(***************************************************************************)
EXTENDS Integers, FiniteSets

CONSTANTS
    AtomIds,          \* the ids of m_atoms
    InitialAttention, \* attention values the atoms may hold, in units
    One               \* the unit count of attention 1.0

ASSUME AttentionAssumption ==
    /\ IsFiniteSet(AtomIds)
    /\ One \in Nat /\ One % 100 = 0
    /\ InitialAttention \subseteq Nat

VARIABLES
    links,   \* m_outgoingLinks of each atom (deduplicated)
    att0,    \* each atom's attention when the pass starts
    order,   \* the iteration order of m_atoms in this pass
    att,     \* each atom's live m_attention
    k        \* the number of loop iterations done

vars == <<links, att0, order, att, k>>

\* The number of atoms in m_atoms.
NAtoms == Cardinality(AtomIds)

\* The iteration orders of m_atoms: every atom visited exactly once.
Orders ==
    {s \in [1..NAtoms -> AtomIds] :
        /\ \A i, j \in 1..NAtoms : s[i] = s[j] => i = j
        /\ \A x \in AtomIds : \E i \in 1..NAtoms : s[i] = x}

\* 0.01f, the floor of std::max(0.01f, newAttention).
AttentionFloor == One \div 100

\* x * p / q in units.
MulFrac(x, p, q) == (x \div q) * p

\* std::max(0.01f, x)
Floored(x) == IF x < AttentionFloor THEN AttentionFloor ELSE x

\* Mutant of VisitAtom: the spread is taken from the sender, as if the pass
\* moved attention instead of copying it.
VisitAtomConserving(w, a) ==
    LET cur    == w[a]
        out    == links[a]
        spread == IF out = {} THEN 0 ELSE MulFrac(cur, 1, 10 * Cardinality(out))
        after  == [x \in AtomIds |-> IF x \in out THEN w[x] + spread ELSE w[x]]
    IN  [after EXCEPT ![a] = Floored(MulFrac(cur, 19, 20) - spread * Cardinality(out))]

\* One iteration of the loop, for atom a, on the attention vector w:
\* currentAttention is read, every outgoing target gets
\* currentAttention * 0.1 / outgoing.size() added to its live attention,
\* and a's attention is set to max(0.01, currentAttention * 0.95),
\* overwriting what a received earlier in this iteration (a self-link).
VisitAtom(w, a) ==
    LET cur    == w[a]
        out    == links[a]
        spread == IF out = {} THEN 0 ELSE MulFrac(cur, 1, 10 * Cardinality(out))
        after  == [x \in AtomIds |-> IF x \in out THEN w[x] + spread ELSE w[x]]
    IN  [after EXCEPT ![a] = Floored(MulFrac(cur, 19, 20))]

\* The pass starts on any graph, attention vector and iteration order.
Init ==
    /\ links \in [AtomIds -> SUBSET AtomIds]
    /\ att0 \in [AtomIds -> InitialAttention]
    /\ order \in Orders
    /\ att = att0
    /\ k = 0

\* The body of the for, on the next atom of the order.
Visit ==
    /\ k < NAtoms
    /\ att' = VisitAtom(att, order[k + 1])
    /\ k' = k + 1
    /\ UNCHANGED <<links, att0, order>>

\* The loop is over: the shared lock is released and nothing changes.
Done ==
    /\ k = NAtoms
    /\ UNCHANGED vars

Next == Visit \/ Done

Spec == Init /\ [][Next]_vars

-----------------------------------------------------------------------------
(* Properties.                                                             *)

\* Spread lower bound (spec 4.2): when the loop is over, no atom has less
\* than its own decayed attention max(0.01, 0.95 * b), whatever the links
\* and the iteration order of m_atoms; spread received before or after an
\* atom's own iteration only adds.
PassLowerBound ==
    k = NAtoms => \A x \in AtomIds : att[x] >= Floored(MulFrac(att0[x], 19, 20))

\* Spread lower bound, second half (spec 4.2 and section 7): an atom linked
\* from another atom with positive attention ends the pass with strictly
\* more attention than it started with.
SpreadRaises ==
    k = NAtoms =>
        \A a, x \in AtomIds :
            (a # x /\ x \in links[a] /\ att0[a] > 0) => att[x] > att0[x]

=============================================================================
