---------------------------- MODULE KeyLifecycle ----------------------------
(***************************************************************************)
(* What a caller of the file custodian is answered about a key, from its   *)
(* minting to its tombstone: status(), and whether get() could still       *)
(* unwrap the key.                                                         *)
(*                                                                         *)
(* In KeyCustodian a destroy is one step.  Here it is what status() shows  *)
(* of it, which takes no lock: the wrapped key is wiped while status()     *)
(* still names the state of the key file, then the file is gone and the    *)
(* answer is not_found, and only the tombstone makes it destroyed.  A      *)
(* destroy may stop for good at each of these.  What the life cycle        *)
(* promises all the same is that it is never walked backwards: a wiped key *)
(* is never unwrapped again, a key id that was in use never serves another *)
(* key, and an operation is only recorded for a destroyed key.             *)
(***************************************************************************)
EXTENDS KeyCustodian

VARIABLE intact     \* the keys whose wrapped key has not been wiped

lifecycleVars == <<custodianVars, intact>>

LifecycleInit == CustodianInit /\ intact = {}

\* A key id is used once, also after its key has vanished.
Mint(i, k) ==
    /\ keyItem[k] = NoItem
    /\ Provision(i, k)
    /\ intact' = intact \cup {k}

\* commitProvision of a key that may have been wiped meanwhile does not mend it.
Commit(k) == CommitProvision(k) /\ UNCHANGED intact

\* The wrapped key is overwritten: nothing status() tells of.
Scrub(k) ==
    /\ keyState[k] \in {"provisional", "active"}
    /\ intact' = intact \ {k}
    /\ UNCHANGED custodianVars

\* The key file is removed, never before it is wiped: the custodian answers as if
\* there had been no such key.
Vanish(k) ==
    /\ keyState[k] \in {"provisional", "active"}
    /\ k \notin intact
    /\ keyState' = [keyState EXCEPT ![k] = "not_found"]
    /\ UNCHANGED <<keyItem, destroyOps, intact>>

\* The tombstone is written, of a key that has been there.
Bury(k) ==
    /\ keyState[k] = "not_found" /\ keyItem[k] # NoItem
    /\ keyState' = [keyState EXCEPT ![k] = "destroyed"]
    /\ UNCHANGED <<keyItem, destroyOps, intact>>

\* The operation is recorded, and its receipt given, for a destroyed key only.
Attest(op, k) ==
    /\ keyState[k] = "destroyed"
    /\ DestroyKey(op, k)
    /\ UNCHANGED intact

LifecycleNext ==
    \/ \E i \in Items, k \in Keys : Mint(i, k)
    \/ \E k \in Keys : Commit(k) \/ Scrub(k) \/ Vanish(k) \/ Bury(k)
    \/ \E op \in ShredOps, k \in Keys : Attest(op, k)

LifecycleSpec == LifecycleInit /\ [][LifecycleNext]_lifecycleVars

=============================================================================
