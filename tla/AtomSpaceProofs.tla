-------------------------- MODULE AtomSpaceProofs --------------------------
(***************************************************************************)
(* Proofs about AtomSpace for every set of names and linker threads and   *)
(* every bound on the id counter: the type invariant, and that the two    *)
(* tables m_atoms and m_atomsByName agree in every reachable state.       *)
(***************************************************************************)
EXTENDS AtomSpace, TLAPS

\* CreateAtom keeps the store's variables in their types, and returns an id.
LEMMA CreateAtomType ==
    ASSUME TypeOK, AtomSpaceAssumption, NEW n \in Names, CreateAtom(n)
    PROVE  /\ nextId' \in 1..(MaxId + 1)
           /\ atoms' \subseteq 1..(nextId' - 1)
           /\ DOMAIN byName' \subseteq Names
           /\ \A m \in DOMAIN byName' : byName'[m] \in Ids
           /\ nameOf' \in [Ids -> Names \cup {NoName}]
           /\ Lookup(n) \in Ids
<1>1. CASE n \in DOMAIN byName /\ UNCHANGED storeVars
  BY <1>1 DEF TypeOK, Created, storeVars, Lookup
<1>2. CASE CreateNew(n)
  <2>1. nextId \in Ids /\ nextId' = nextId + 1
    BY <1>2 DEF CreateNew, TypeOK, Ids
  <2>2. atoms' \subseteq 1..(nextId' - 1)
    BY <1>2, <2>1 DEF CreateNew, TypeOK, Created, Ids
  <2>3. DOMAIN byName' \subseteq Names /\ \A m \in DOMAIN byName' : byName'[m] \in Ids
    BY <1>2, <2>1 DEF CreateNew, TypeOK
  <2>4. nameOf' \in [Ids -> Names \cup {NoName}]
    BY <1>2, <2>1 DEF CreateNew, TypeOK
  <2>5. Lookup(n) = nextId
    BY <1>2 DEF CreateNew, Lookup
  <2>6. nextId' \in 1..(MaxId + 1)
    BY <2>1 DEF Ids
  <2>7. QED
    BY <2>1, <2>2, <2>3, <2>4, <2>5, <2>6
<1>3. QED
  BY <1>1, <1>2 DEF CreateAtom

\* Every step keeps every variable in its type.
LEMMA TypeStep == TypeOK /\ [Next]_vars => TypeOK'
<1> SUFFICES ASSUME TypeOK, [Next]_vars PROVE TypeOK'
  OBVIOUS
<1> USE AtomSpaceAssumption
<1>1. ASSUME NEW n \in Names, Create(n) PROVE TypeOK'
  BY <1>1, CreateAtomType DEF Create, TypeOK, Created
<1>2. ASSUME NEW id \in Ids, RemoveAtom(id) PROVE TypeOK'
  BY <1>2 DEF RemoveAtom, TypeOK, Created
<1>3. CASE Clear
  BY <1>3 DEF Clear, TypeOK, Created
<1>4. ASSUME NEW t \in Linkers, NEW s \in Ids, NEW n \in Names,
             LinkCreate(t, s, n)
      PROVE TypeOK'
  <2>1. s \in Ids /\ Lookup(n) \in Ids
    BY <1>4, CreateAtomType DEF LinkCreate
  <2>2. QED
    BY <1>4, <2>1, CreateAtomType DEF LinkCreate, TypeOK, Created
<1>5. ASSUME NEW t \in Linkers, LinkFind(t) PROVE TypeOK'
  BY <1>5 DEF LinkFind, TypeOK, Created
<1>6. ASSUME NEW t \in Linkers, LinkPush(t) PROVE TypeOK'
  BY <1>6 DEF LinkPush, TypeOK, Created
<1>7. CASE UNCHANGED vars
  BY <1>7 DEF vars, TypeOK, Created
<1>8. QED
  BY <1>1, <1>2, <1>3, <1>4, <1>5, <1>6, <1>7 DEF Next

\* The type invariant: every variable keeps its type.
THEOREM TypeCorrect == Spec => []TypeOK
<1>1. Init => TypeOK
  BY AtomSpaceAssumption DEF Init, TypeOK, Created, Ids
<1>2. QED
  BY <1>1, TypeStep, PTL DEF Spec

-----------------------------------------------------------------------------
(* IndexAgree is inductive together with TypeOK: a new atom takes nextId,  *)
(* which no atom of m_atoms has (they are all below it), and its name is   *)
(* not yet in m_atomsByName; RemoveAtom erases an atom and exactly its     *)
(* own name, which by IndexAgree maps to it.                               *)

IInv == TypeOK /\ IndexAgree

\* CreateAtom of a name the store does not hold keeps the tables in
\* agreement.
LEMMA CreateNewAgree ==
    ASSUME IInv, NEW n \in Names, CreateNew(n)
    PROVE  IndexAgree'
<1> DEFINE id == nextId
<1>1. id \notin atoms
  BY DEF IInv, TypeOK, Created
<1>2. \A m \in DOMAIN byName' : byName'[m] \in atoms' /\ nameOf'[byName'[m]] = m
  BY <1>1 DEF CreateNew, IInv, TypeOK, IndexAgree, Created, Ids
<1>3. \A i \in atoms' : nameOf'[i] \in DOMAIN byName' /\ byName'[nameOf'[i]] = i
  BY <1>1 DEF CreateNew, IInv, TypeOK, IndexAgree, Created, Ids
<1>4. QED
  BY <1>2, <1>3 DEF IndexAgree

\* RemoveAtom keeps the tables in agreement.
LEMMA RemoveAgree ==
    ASSUME IInv, NEW id \in Ids, RemoveAtom(id)
    PROVE  IndexAgree'
<1>1. \A m \in DOMAIN byName' : byName'[m] \in atoms' /\ nameOf'[byName'[m]] = m
  BY DEF RemoveAtom, IInv, TypeOK, IndexAgree
<1>2. \A i \in atoms' : nameOf'[i] \in DOMAIN byName' /\ byName'[nameOf'[i]] = i
  BY DEF RemoveAtom, IInv, TypeOK, IndexAgree
<1>3. QED
  BY <1>1, <1>2 DEF IndexAgree

LEMMA IInvStep == IInv /\ [Next]_vars => IInv'
<1> SUFFICES ASSUME IInv, [Next]_vars PROVE IInv'
  OBVIOUS
<1>1. TypeOK'
  BY TypeStep DEF IInv
<1> SUFFICES IndexAgree'
  BY <1>1 DEF IInv
<1>2. ASSUME NEW n \in Names, Create(n) PROVE IndexAgree'
  <2>1. CASE n \in DOMAIN byName /\ UNCHANGED storeVars
    BY <2>1 DEF IInv, IndexAgree, storeVars
  <2>2. CASE CreateNew(n)
    BY <2>2, CreateNewAgree
  <2>3. QED
    BY <1>2, <2>1, <2>2 DEF Create, CreateAtom
<1>3. ASSUME NEW id \in Ids, RemoveAtom(id) PROVE IndexAgree'
  BY <1>3, RemoveAgree
<1>4. CASE Clear
  BY <1>4 DEF Clear, IndexAgree
<1>5. ASSUME NEW t \in Linkers, NEW s \in Ids, NEW n \in Names,
             LinkCreate(t, s, n)
      PROVE IndexAgree'
  <2>1. CASE n \in DOMAIN byName /\ UNCHANGED storeVars
    BY <2>1 DEF IInv, IndexAgree, storeVars
  <2>2. CASE CreateNew(n)
    BY <2>2, CreateNewAgree
  <2>3. QED
    BY <1>5, <2>1, <2>2 DEF LinkCreate, CreateAtom
<1>6. ASSUME NEW t \in Linkers, LinkFind(t) \/ LinkPush(t) PROVE IndexAgree'
  BY <1>6 DEF LinkFind, LinkPush, IInv, IndexAgree
<1>7. CASE UNCHANGED vars
  BY <1>7 DEF vars, IInv, IndexAgree
<1>8. QED
  BY <1>2, <1>3, <1>4, <1>5, <1>6, <1>7 DEF Next

\* For every instance, m_atoms and m_atomsByName agree after any sequence
\* of CreateAtom, RemoveAtom and Clear calls and linker steps: a name maps
\* to a live atom of that name and every live atom is found by its name.
THEOREM IndexAgreeThm == Spec => []IndexAgree
<1>1. Init => IInv
  BY AtomSpaceAssumption DEF Init, IInv, TypeOK, IndexAgree, Created, Ids
<1>2. QED
  BY <1>1, IInvStep, PTL DEF Spec, IInv
-----------------------------------------------------------------------------
(* AtomIdentityStable.  An id has a name exactly when the counter has     *)
(* passed it; that is what lets CreateNew, the only writer of nameOf and   *)
(* the only action adding to m_atoms, be seen to touch a fresh id only.    *)

NamedIffCreated == \A i \in Ids : nameOf[i] # NoName <=> i \in Created

IdInv == TypeOK /\ NamedIffCreated

\* The id CreateNew takes is the one fresh id: it has no name yet, and
\* every id that has one is different from it.
LEMMA CreateNewFresh ==
    ASSUME IdInv, NEW n \in Names, CreateNew(n)
    PROVE  /\ NamedIffCreated'
           /\ \A i \in Ids : nameOf[i] # NoName =>
                  /\ nameOf'[i] = nameOf[i]
                  /\ (i \notin atoms => i \notin atoms')
<1> USE AtomSpaceAssumption
<1>1. nextId \in Ids /\ nextId' = nextId + 1 /\ nameOf[nextId] = NoName
  BY DEF CreateNew, IdInv, TypeOK, NamedIffCreated, Created, Ids
<1>2. nameOf' = [nameOf EXCEPT ![nextId] = n] /\ atoms' = atoms \cup {nextId}
  BY DEF CreateNew
<1>3. NamedIffCreated'
  BY <1>1, <1>2 DEF IdInv, TypeOK, NamedIffCreated, Created, Ids
<1>4. \A i \in Ids : nameOf[i] # NoName => i # nextId
  BY <1>1
<1>5. QED
  BY <1>2, <1>3, <1>4 DEF IdInv, TypeOK

\* Every step keeps IdInv and relates each named id's name and membership
\* as AtomIdentityStable says.
LEMMA IdStep ==
    IdInv /\ [Next]_vars =>
        /\ IdInv'
        /\ \A i \in Ids : nameOf[i] # NoName =>
               /\ nameOf'[i] = nameOf[i]
               /\ (i \notin atoms => i \notin atoms')
<1> SUFFICES ASSUME IdInv, [Next]_vars
             PROVE  /\ NamedIffCreated'
                    /\ \A i \in Ids : nameOf[i] # NoName =>
                           /\ nameOf'[i] = nameOf[i]
                           /\ (i \notin atoms => i \notin atoms')
  BY TypeStep DEF IdInv
<1>2. ASSUME NEW n \in Names, CreateAtom(n) PROVE
             /\ NamedIffCreated'
             /\ \A i \in Ids : nameOf[i] # NoName =>
                    /\ nameOf'[i] = nameOf[i]
                    /\ (i \notin atoms => i \notin atoms')
  <2>1. CASE n \in DOMAIN byName /\ UNCHANGED storeVars
    BY <2>1 DEF storeVars, IdInv, NamedIffCreated, Created
  <2>2. CASE CreateNew(n)
    BY <2>2, CreateNewFresh
  <2>3. QED
    BY <1>2, <2>1, <2>2 DEF CreateAtom
<1>3. CASE \E n \in Names : Create(n)
  BY <1>3, <1>2 DEF Create
<1>4. CASE \E t \in Linkers, s \in Ids, n \in Names : LinkCreate(t, s, n)
  BY <1>4, <1>2 DEF LinkCreate
<1>5. CASE (\E id \in Ids : RemoveAtom(id)) \/ Clear
  BY <1>5 DEF RemoveAtom, Clear, IdInv, NamedIffCreated, Created
<1>6. CASE \E t \in Linkers : LinkFind(t) \/ LinkPush(t)
  BY <1>6 DEF LinkFind, LinkPush, IdInv, NamedIffCreated, Created
<1>7. CASE UNCHANGED vars
  BY <1>7 DEF vars, IdInv, NamedIffCreated, Created
<1>8. QED
  BY <1>3, <1>4, <1>5, <1>6, <1>7 DEF Next

\* For every instance, an atom id keeps its name for good, and an atom
\* taken out of m_atoms by RemoveAtom or Clear never returns to it: the
\* global counter never hands out an id twice.
THEOREM AtomIdentityStableThm == Spec => AtomIdentityStable
<1>1. Init => IdInv
  BY AtomSpaceAssumption DEF Init, IdInv, TypeOK, NamedIffCreated, Created, Ids
<1>2. IdInv /\ [Next]_vars => [\A i \in Ids : nameOf[i] # NoName =>
                                   /\ nameOf'[i] = nameOf[i]
                                   /\ (i \notin atoms => i \notin atoms')]_vars
  BY IdStep
<1>3. IdInv /\ [Next]_vars => IdInv'
  BY IdStep
<1>4. QED
  BY <1>1, <1>2, <1>3, PTL DEF Spec, AtomIdentityStable

-----------------------------------------------------------------------------
(* One linker thread.  AddOutgoingLink's find and push_back are not        *)
(* atomic, but only a second caller can slip between them: with a single  *)
(* linker, the target a push_back appends is still absent, so no link      *)
(* vector ever holds a target twice.                                       *)

LinkInv(t0) ==
    /\ TypeOK
    /\ LinksDeduplicated
    /\ pc[t0] = "push" => out[link[t0].src][link[t0].dst] = 0

\* With one linker, every step keeps LinkInv.
LEMMA LinkInvStep ==
    ASSUME NEW t0 \in Linkers, Linkers = {t0}
    PROVE  LinkInv(t0) /\ [Next]_vars => LinkInv(t0)'
<1> SUFFICES ASSUME LinkInv(t0), [Next]_vars PROVE LinkInv(t0)'
  OBVIOUS
<1>1. TypeOK'
  BY TypeStep DEF LinkInv
<1> USE <1>1 DEF LinkInv, LinksDeduplicated
<1>2. ASSUME NEW n \in Names, Create(n) PROVE LinkInv(t0)'
  BY <1>2 DEF Create
<1>3. ASSUME NEW id \in Ids, RemoveAtom(id) PROVE LinkInv(t0)'
  BY <1>3 DEF RemoveAtom
<1>4. CASE Clear
  BY <1>4 DEF Clear
<1>5. ASSUME NEW s \in Ids, NEW n \in Names, LinkCreate(t0, s, n)
      PROVE  LinkInv(t0)'
  BY <1>5 DEF LinkCreate, TypeOK
<1>6. CASE LinkFind(t0)
  BY <1>6 DEF LinkFind, TypeOK
<1>7. CASE LinkPush(t0)
  <2> DEFINE src == link[t0].src
             dst == link[t0].dst
  <2>1. src \in Ids /\ dst \in Ids /\ out \in [Ids -> [Ids -> Nat]]
    BY DEF TypeOK
  <2>2. out[src][dst] = 0
    BY <1>7 DEF LinkPush
  <2>3. \A s2, d2 \in Ids :
          out'[s2][d2] = IF s2 = src /\ d2 = dst THEN out[s2][d2] + 1
                                               ELSE out[s2][d2]
    BY <1>7, <2>1 DEF LinkPush
  <2>4. LinksDeduplicated'
    BY <2>2, <2>3
  <2>5. QED
    BY <1>7, <2>4 DEF LinkPush, TypeOK
<1>8. CASE UNCHANGED vars
  BY <1>8 DEF vars
<1>9. QED
  BY <1>2, <1>3, <1>4, <1>5, <1>6, <1>7, <1>8 DEF Next

\* With one thread calling AddOutgoingLink, no outgoing link vector holds a
\* target twice (spec 4.1), for any names and id bound: the duplicates of
\* LinksDeduplicated's counterexample need two concurrent linkers.
THEOREM SingleLinkerDeduplicated ==
    ASSUME NEW t0 \in Linkers, Linkers = {t0}
    PROVE  Spec => []LinksDeduplicated
<1>1. Init => LinkInv(t0)
  BY AtomSpaceAssumption DEF Init, LinkInv, LinksDeduplicated, TypeOK, Created, Ids
<1>2. LinkInv(t0) => LinksDeduplicated
  BY DEF LinkInv
<1>3. QED
  BY <1>1, <1>2, LinkInvStep, PTL DEF Spec
-----------------------------------------------------------------------------
(* The refinement of AbstractStore.  The mapping needs IInv: TypeOK gives  *)
(* that nextId is below the bound and above every used id, so CreateNew is *)
(* an Insert of a fresh id, and IndexAgree gives that the one name         *)
(* RemoveAtom erases is exactly the set of names mapping to the atom, so   *)
(* RemoveAtom is an Erase.                                                 *)

\* CreateAtom, from a client or a linker, is an Insert of nextId or, for a
\* name the store holds, a stutter of the abstract store.
LEMMA CreateAtomRefines ==
    ASSUME IInv, NEW n \in Names, CreateAtom(n)
    PROVE  [Abstract!StoreNext]_Abstract!absStoreVars
<1>1. CASE n \in DOMAIN byName /\ UNCHANGED storeVars
  BY <1>1 DEF storeVars, Abstract!absStoreVars, Created
<1>2. CASE CreateNew(n)
  <2>1. nextId \in Ids \ Created
    BY <1>2 DEF CreateNew, IInv, TypeOK, Ids, Created
  <2>2. Created' = Created \cup {nextId}
    <3>1. nextId \in Nat \ {0} /\ nextId' = nextId + 1
      BY <1>2, AtomSpaceAssumption DEF CreateNew, IInv, TypeOK
    <3>2. \A j : j \in 1..nextId <=> j \in 1..(nextId - 1) \/ j = nextId
      BY <3>1
    <3>3. QED
      BY <3>1, <3>2 DEF Created
  <2>3. Abstract!Insert(n, nextId)
    BY <1>2, <2>1, <2>2 DEF CreateNew, Abstract!Insert
  <2>4. QED
    BY <2>1, <2>3 DEF Abstract!StoreNext
<1>3. QED
  BY <1>1, <1>2 DEF CreateAtom

\* RemoveAtom(id) erases exactly the names that map to id.
LEMMA RemoveAtomRefines ==
    ASSUME IInv, NEW id \in Ids, RemoveAtom(id)
    PROVE  Abstract!Erase(id)
<1>1. \A m \in DOMAIN byName : byName[m] = id <=> m = nameOf[id]
  BY DEF RemoveAtom, IInv, IndexAgree
<1>2. DOMAIN byName \ {nameOf[id]} = {m \in DOMAIN byName : byName[m] # id}
  BY <1>1
<1>3. Created' = Created
  BY DEF RemoveAtom, Created
<1>4. QED
  BY <1>2, <1>3 DEF RemoveAtom, Abstract!Erase

\* Every step of the store and its linkers is a step of AbstractStore or
\* leaves the abstract state unchanged.
LEMMA RefineStep == IInv /\ [Next]_vars => [Abstract!StoreNext]_Abstract!absStoreVars
<1> SUFFICES ASSUME IInv, [Next]_vars
             PROVE  [Abstract!StoreNext]_Abstract!absStoreVars
  OBVIOUS
<1>1. ASSUME NEW n \in Names, Create(n) PROVE [Abstract!StoreNext]_Abstract!absStoreVars
  BY <1>1, CreateAtomRefines DEF Create
<1>2. ASSUME NEW id \in Ids, RemoveAtom(id) PROVE [Abstract!StoreNext]_Abstract!absStoreVars
  BY <1>2, RemoveAtomRefines DEF Abstract!StoreNext
<1>3. CASE Clear
  <2>1. Abstract!EraseAll
    BY <1>3 DEF Clear, Abstract!EraseAll, Created
  <2>2. QED
    BY <2>1 DEF Abstract!StoreNext
<1>4. ASSUME NEW t \in Linkers, NEW s \in Ids, NEW n \in Names,
             LinkCreate(t, s, n)
      PROVE [Abstract!StoreNext]_Abstract!absStoreVars
  BY <1>4, CreateAtomRefines DEF LinkCreate
<1>5. ASSUME NEW t \in Linkers, LinkFind(t) \/ LinkPush(t)
      PROVE [Abstract!StoreNext]_Abstract!absStoreVars
  BY <1>5 DEF LinkFind, LinkPush, Abstract!absStoreVars, Created
<1>6. CASE UNCHANGED vars
  BY <1>6 DEF vars, Abstract!absStoreVars, Created
<1>7. QED
  BY <1>1, <1>2, <1>3, <1>4, <1>5, <1>6 DEF Next

\* For every instance, the atom store implements AbstractStore under the
\* mapping table = m_atomsByName, live = m_atoms, used = ids below
\* Atom::s_nextId: CreateAtom is get-or-create with a never-used id,
\* RemoveAtom drops an atom with exactly its names, Clear drops all and
\* keeps the counter, and the linker threads leave the store alone.
THEOREM RefinesAbstractStore == Spec => AbstractStoreSpec
<1>1. Init => IInv /\ Abstract!StoreInit
  BY AtomSpaceAssumption
     DEF Init, IInv, TypeOK, IndexAgree, Created, Ids, Abstract!StoreInit
<1>2. QED
  BY <1>1, RefineStep, IInvStep, PTL DEF Spec, AbstractStoreSpec, Abstract!StoreSpec

=============================================================================
