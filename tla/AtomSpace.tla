------------------------------ MODULE AtomSpace ------------------------------
(***************************************************************************)
(* The graph store of cognitive.cpp:28-134: Atom ids from the global       *)
(* counter Atom::s_nextId, the two tables m_atoms (id -> atom) and         *)
(* m_atomsByName (name -> atom) under one exclusive lock for CreateAtom,   *)
(* RemoveAtom and Clear, and the per-atom link vectors, which have no lock *)
(* at all.                                                                 *)
(*                                                                         *)
(* An atom is its id.  Atom objects outlive their removal from the tables  *)
(* (other atoms' links and callers hold shared_ptrs), so the fields of     *)
(* every id ever created are kept.  Truth, confidence and attention are    *)
(* left out; the attention pass is modelled on its own.  A link vector is  *)
(* kept as the number of times it holds each target: no reader depends on *)
(* its order (the spread of UpdateAttentionValues is the same for every   *)
(* target, and the other readers only test membership).  Nothing in the   *)
(* repository calls AddIncomingLink, so m_incomingLinks stays empty and is *)
(* not a variable.                                                         *)
(*                                                                         *)
(* Linkers are caller threads running the pattern of Plan and SelfModify   *)
(* (cognitive.cpp:322-325, 382-386) and of the integration layer:          *)
(*     dst = CreateAtom(name); src->AddOutgoingLink(dst);                  *)
(* AddOutgoingLink (cognitive.cpp:54-59) is a std::find followed by a      *)
(* push_back on the unlocked vector, two steps another thread may          *)
(* interleave with.                                                        *)
(***************************************************************************)
EXTENDS Naturals

CONSTANTS
    Names,     \* atom names
    Linkers,   \* caller threads that create and link atoms
    MaxId,     \* bound on Atom::s_nextId (the uint64 counter never wraps)
    NoName     \* the name slot of an id not yet created

ASSUME AtomSpaceAssumption ==
    /\ MaxId \in Nat \ {0}
    /\ Names # {}
    /\ NoName \notin Names

Ids == 1..MaxId

VARIABLES
    nextId,    \* Atom::s_nextId
    atoms,     \* the ids of m_atoms
    byName,    \* m_atomsByName, as a function from the names it holds
    nameOf,    \* m_name of every created atom
    out,       \* m_outgoingLinks of every atom: out[s][d] copies of target d
    pc,        \* a linker's place: "idle", "find" or "push"
    link       \* the (src, dst) of a linker's AddOutgoingLink call

storeVars == <<nextId, atoms, byName, nameOf>>
vars == <<nextId, atoms, byName, nameOf, out, pc, link>>

\* The ids created so far.
Created == 1..(nextId - 1)

TypeOK ==
    /\ nextId \in 1..(MaxId + 1)
    /\ atoms \subseteq Created
    /\ DOMAIN byName \subseteq Names
    /\ \A n \in DOMAIN byName : byName[n] \in Ids
    /\ nameOf \in [Ids -> Names \cup {NoName}]
    /\ out \in [Ids -> [Ids -> Nat]]
    /\ pc \in [Linkers -> {"idle", "find", "push"}]
    /\ link \in [Linkers -> [src : Ids, dst : Ids]]

\* The store right after an AtomSpace is constructed with no atoms yet
\* (its constructor's "Self", "System" and "WSL" are CreateAtom calls).
Init ==
    /\ nextId = 1
    /\ atoms = {}
    /\ byName = [n \in {} |-> 1]
    /\ nameOf = [i \in Ids |-> NoName]
    /\ out = [s \in Ids |-> [d \in Ids |-> 0]]
    /\ pc = [t \in Linkers |-> "idle"]
    /\ link = [t \in Linkers |-> [src |-> 1, dst |-> 1]]

-----------------------------------------------------------------------------
\* Mutant of CreateAtom: the lookup in m_atomsByName is skipped, so an
\* existing name is overwritten with a new atom.
CreateAtomNoLookup(n) ==
    /\ nextId <= MaxId
    /\ nextId' = nextId + 1
    /\ atoms' = atoms \cup {nextId}
    /\ byName' = [m \in DOMAIN byName \cup {n} |->
                    IF m = n THEN nextId ELSE byName[m]]
    /\ nameOf' = [nameOf EXCEPT ![nextId] = n]

\* CreateAtom for a name m_atomsByName does not hold: a new Atom takes the
\* next id (s_nextId++) and is entered in both tables.
CreateNew(n) ==
    /\ n \notin DOMAIN byName
    /\ nextId <= MaxId
    /\ nextId' = nextId + 1
    /\ atoms' = atoms \cup {nextId}
    /\ byName' = [m \in DOMAIN byName \cup {n} |->
                    IF m = n THEN nextId ELSE byName[m]]
    /\ nameOf' = [nameOf EXCEPT ![nextId] = n]

\* CreateAtom(type, name, ...) under the exclusive lock: return the atom
\* the name already has, or create one.
CreateAtom(n) ==
    \/ n \in DOMAIN byName /\ UNCHANGED storeVars
    \/ CreateNew(n)

\* The id CreateAtom(n) returns, evaluated in the state before it.
Lookup(n) == IF n \in DOMAIN byName THEN byName[n] ELSE nextId

\* A client's CreateAtom call.
Create(n) ==
    /\ CreateAtom(n)
    /\ UNCHANGED <<out, pc, link>>

\* Mutant of RemoveAtom: the atom is erased from m_atoms only.
RemoveAtomKeepName(id) ==
    /\ id \in atoms
    /\ atoms' = atoms \ {id}
    /\ UNCHANGED <<nextId, byName, nameOf, out, pc, link>>

\* RemoveAtom(id): false for an id not in m_atoms; otherwise the atom's name
\* and then the atom are erased.  Other atoms' links to it stay.
RemoveAtom(id) ==
    /\ id \in atoms
    /\ byName' = [m \in DOMAIN byName \ {nameOf[id]} |-> byName[m]]
    /\ atoms' = atoms \ {id}
    /\ UNCHANGED <<nextId, nameOf, out, pc, link>>

\* Mutant of Clear: the id counter is reset with the tables.
ClearResetCounter ==
    /\ atoms' = {}
    /\ byName' = [n \in {} |-> 1]
    /\ nextId' = 1
    /\ UNCHANGED <<nameOf, out, pc, link>>

\* Clear(): both tables emptied.
Clear ==
    /\ atoms' = {}
    /\ byName' = [n \in {} |-> 1]
    /\ UNCHANGED <<nextId, nameOf, out, pc, link>>

-----------------------------------------------------------------------------
\* A linker holding a live atom src calls CreateAtom(n) and goes on to
\* src->AddOutgoingLink on the atom it got back.
LinkCreate(t, src, n) ==
    /\ pc[t] = "idle"
    /\ src \in atoms
    /\ CreateAtom(n)
    /\ link' = [link EXCEPT ![t] = [src |-> src, dst |-> Lookup(n)]]
    /\ pc' = [pc EXCEPT ![t] = "find"]
    /\ UNCHANGED out

\* AddOutgoingLink, the std::find over m_outgoingLinks: return if present.
LinkFind(t) ==
    /\ pc[t] = "find"
    /\ pc' = [pc EXCEPT ![t] = IF out[link[t].src][link[t].dst] > 0
                                 THEN "idle" ELSE "push"]
    /\ UNCHANGED <<nextId, atoms, byName, nameOf, out, link>>

\* AddOutgoingLink, the push_back.
LinkPush(t) ==
    /\ pc[t] = "push"
    /\ out' = [out EXCEPT ![link[t].src][link[t].dst] = @ + 1]
    /\ pc' = [pc EXCEPT ![t] = "idle"]
    /\ UNCHANGED <<nextId, atoms, byName, nameOf, link>>

Next ==
    \/ \E n \in Names : Create(n)
    \/ \E id \in Ids : RemoveAtom(id)
    \/ Clear
    \/ \E t \in Linkers :
          \/ \E s \in Ids, n \in Names : LinkCreate(t, s, n)
          \/ LinkFind(t)
          \/ LinkPush(t)

Spec == Init /\ [][Next]_vars

-----------------------------------------------------------------------------
(* The refinement mapping to AbstractStore: the name index is             *)
(* m_atomsByName, the live atoms are m_atoms, and the used ids are those  *)
(* below Atom::s_nextId.                                                   *)
Abstract == INSTANCE AbstractStore WITH table <- byName, live <- atoms, used <- Created

-----------------------------------------------------------------------------
(* Properties.                                                             *)

\* The two tables of the store agree: every name of m_atomsByName maps to an
\* atom of m_atoms with that name, and every atom of m_atoms is found by its
\* name.  CreateAtom's lookup and RemoveAtom's double erase keep it; it is
\* what makes FindAtom and GetAtom return the same atom.
IndexAgree ==
    /\ \A n \in DOMAIN byName : byName[n] \in atoms /\ nameOf[byName[n]] = n
    /\ \A id \in atoms : nameOf[id] \in DOMAIN byName /\ byName[nameOf[id]] = id

\* No link vector holds a target twice (spec 4.1: "outgoing/incoming sets
\* never contain duplicate targets"), although AddOutgoingLink's find and
\* push_back run unlocked in callers on several threads.
LinksDeduplicated == \A s, d \in Ids : out[s][d] <= 1

\* An atom id, once handed out by Atom::s_nextId++, keeps its atom for
\* good: the atom's name never changes, and once RemoveAtom or Clear has
\* taken it out of m_atoms it never comes back.  A caller holding a stale
\* id (an agent's goal, a link target) can never reach another atom by it,
\* because the counter is global and never reset, not even by Clear.
AtomIdentityStable ==
    [][\A i \in Ids :
         nameOf[i] # NoName =>
             /\ nameOf'[i] = nameOf[i]
             /\ (i \notin atoms => i \notin atoms')]_vars


\* The store implements AbstractStore: CreateAtom is a get-or-create that
\* gives a new atom an id never used before, RemoveAtom drops an atom
\* together with exactly the names that map to it, and Clear drops
\* everything while keeping the counter; the linker threads do not touch
\* the store.
AbstractStoreSpec == Abstract!StoreSpec

=============================================================================
