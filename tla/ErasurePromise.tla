--------------------------- MODULE ErasurePromise ---------------------------
(***************************************************************************)
(* What crypto-shredding promises about one catalog, with no processes and *)
(* no failures in sight: an item's identity lives under one key lineage at *)
(* a time; the key of a live lineage is not destroyed behind its back; an  *)
(* erasure is declared complete only when its key is gone; a gone key does *)
(* not come back; and a new lineage always starts under a key that never   *)
(* served another one.                                                     *)
(***************************************************************************)
CONSTANTS Items, Keys, NoKey

VARIABLES
    lineage,    \* [Items -> [state, key]]
    gone,       \* keys that nobody can use any more
    fresh       \* keys that may still start a lineage

vars == <<lineage, gone, fresh>>

Init ==
    /\ lineage = [i \in Items |-> [state |-> "none", key |-> NoKey]]
    /\ gone = {}
    /\ fresh = Keys

Start(i, k) ==
    /\ lineage[i].state \in {"none", "shred_complete"}
    /\ k \in fresh \ gone
    /\ lineage' = [lineage EXCEPT ![i] = [state |-> "active", key |-> k]]
    /\ fresh' = fresh \ {k}
    /\ UNCHANGED gone

\* A key that will not start a lineage: its attempt lost, failed or was fenced.
Withdraw(k) ==
    /\ fresh' = fresh \ {k}
    /\ UNCHANGED <<lineage, gone>>

Forget(i) ==
    /\ lineage[i].state = "active"
    /\ lineage' = [lineage EXCEPT ![i].state = "shred_pending"]
    /\ UNCHANGED <<gone, fresh>>

Erase(k) ==
    /\ k \notin fresh
    /\ \A i \in Items : lineage[i].key = k => lineage[i].state # "active"
    /\ gone' = gone \cup {k}
    /\ UNCHANGED <<lineage, fresh>>

DeclareErased(i) ==
    /\ lineage[i].state = "shred_pending"
    /\ lineage[i].key \in gone
    /\ lineage' = [lineage EXCEPT ![i].state = "shred_complete"]
    /\ UNCHANGED <<gone, fresh>>

Next ==
    \/ \E i \in Items : Forget(i) \/ DeclareErased(i)
    \/ \E i \in Items, k \in Keys : Start(i, k)
    \/ \E k \in Keys : Withdraw(k) \/ Erase(k)

Spec == Init /\ [][Next]_vars
=============================================================================
