---------------------------- MODULE AbstractStore ----------------------------
(***************************************************************************)
(* What the AtomSpace promises its callers (spec 4.1): a dictionary from   *)
(* names to atoms with get-or-create, in which an atom id is never given   *)
(* to a second atom.  table is the name index, live the atoms the store    *)
(* holds, used every id ever given out.  Which fresh id a new atom gets is *)
(* left open; the links, which the store does not guard, are not part of  *)
(* the promise.                                                            *)
(***************************************************************************)
CONSTANTS
    Names,   \* atom names
    Ids      \* the ids an atom may get

VARIABLES table, live, used

absStoreVars == <<table, live, used>>

StoreInit ==
    /\ table = [n \in {} |-> CHOOSE i \in Ids : TRUE]
    /\ live = {}
    /\ used = {}

\* Get-or-create for a name the table does not hold: a new atom with an id
\* never used before, entered under the name.  (For a name it holds, the
\* call returns the atom it has and changes nothing: a stutter.)
Insert(n, i) ==
    /\ n \notin DOMAIN table
    /\ i \in Ids \ used
    /\ table' = [m \in DOMAIN table \cup {n} |-> IF m = n THEN i ELSE table[m]]
    /\ live' = live \cup {i}
    /\ used' = used \cup {i}

\* An atom the store holds is removed, and with it every name that maps to
\* it; its id stays used.
Erase(i) ==
    /\ i \in live
    /\ live' = live \ {i}
    /\ table' = [m \in {m \in DOMAIN table : table[m] # i} |-> table[m]]
    /\ UNCHANGED used

\* Every atom and every name are dropped; the ids stay used.
EraseAll ==
    /\ table' = [n \in {} |-> CHOOSE i \in Ids : TRUE]
    /\ live' = {}
    /\ UNCHANGED used

StoreNext ==
    \/ \E n \in Names, i \in Ids : Insert(n, i)
    \/ \E i \in Ids : Erase(i)
    \/ EraseAll

StoreSpec == StoreInit /\ [][StoreNext]_absStoreVars

=============================================================================
