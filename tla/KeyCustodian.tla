---------------------------- MODULE KeyCustodian ----------------------------
(***************************************************************************)
(* The key custodian's contract (src/core/crypto/custodian.ts), as the     *)
(* catalog authority sees it: one data-encryption key per lineage attempt, *)
(* minted provisional, promoted once, destroyed for ever.                  *)
(*                                                                         *)
(* A provisioning operation id is a fresh uuid used for one provision and  *)
(* the one key it mints, so the key stands for both.  A destroy carries    *)
(* either a shred operation id chosen by the database (a member of         *)
(* ShredOps, bound to the first key it is used with) or a fresh uuid that  *)
(* is never used again and therefore leaves nothing worth remembering.     *)
(* A receipt attests the key it was issued for and is identified with it.  *)
(***************************************************************************)
EXTENDS CatalogConstants

VARIABLES
    keyState,   \* [Keys -> KeyStatus]: status(key)
    keyItem,    \* [Keys -> Items \cup {NoItem}]: the item a key was minted for
    destroyOps  \* pairs <<op, key>>: shred operations the custodian remembers

custodianVars == <<keyState, keyItem, destroyOps>>

KeyStatus == {"not_found", "provisional", "active", "destroyed"}

CustodianTypeOK ==
    /\ keyState \in [Keys -> KeyStatus]
    /\ keyItem \in [Keys -> Items \cup {NoItem}]
    /\ destroyOps \subseteq ShredOps \X Keys

CustodianInit ==
    /\ keyState = [k \in Keys |-> "not_found"]
    /\ keyItem = [k \in Keys |-> NoItem]
    /\ destroyOps = {}

-----------------------------------------------------------------------------

\* provision(op, item, epoch): a new key, usable by its caller, not yet active.
Provision(i, k) ==
    /\ keyState[k] = "not_found"
    /\ keyState' = [keyState EXCEPT ![k] = "provisional"]
    /\ keyItem' = [keyItem EXCEPT ![k] = i]
    /\ UNCHANGED destroyOps

\* commitProvision(op): idempotent on an active key, refused on a destroyed one.
CommitProvision(k) ==
    /\ keyState[k] \in {"provisional", "active"}
    /\ keyState' = [keyState EXCEPT ![k] = "active"]
    /\ UNCHANGED <<keyItem, destroyOps>>

\* Slip: a destroy that is not idempotent on the key.
CanDestroyOnce(op, k) ==
    /\ keyState[k] \in {"provisional", "active"}
    /\ \A b \in destroyOps : b[1] = op => b[2] = k

\* An operation id is bound to its inputs: a destroy that reuses one with
\* another key is refused, and so is a key the custodian never minted.
CanDestroy(op, k) ==
    /\ keyState[k] # "not_found"
    /\ \A b \in destroyOps : b[1] = op => b[2] = k

\* destroy(op, key): idempotent on the operation and on the key.
DestroyKey(op, k) ==
    /\ CanDestroy(op, k)
    /\ keyState' = [keyState EXCEPT ![k] = "destroyed"]
    /\ destroyOps' = destroyOps \cup {<<op, k>>}
    /\ UNCHANGED keyItem

\* destroy(randomUUID(), key): the same, under an operation id used only once.
DiscardKey(k) ==
    /\ keyState[k] # "not_found"
    /\ keyState' = [keyState EXCEPT ![k] = "destroyed"]
    /\ UNCHANGED <<keyItem, destroyOps>>

\* Slip: the sweep lists the keys that are already promoted.
PromotedKeys == {k \in Keys : keyState[k] = "active"}

\* listStaleProvisioning(): every provisional key; the lease is the caller's.
StaleProvisioning == {k \in Keys : keyState[k] = "provisional"}

-----------------------------------------------------------------------------
(* The contract by itself, whoever calls it.                                *)

CustodianNext ==
    \/ \E i \in Items, k \in Keys : Provision(i, k)
    \/ \E k \in Keys : CommitProvision(k) \/ DiscardKey(k)
    \/ \E op \in ShredOps, k \in Keys : DestroyKey(op, k)

CustodianSpec == CustodianInit /\ [][CustodianNext]_custodianVars

=============================================================================
