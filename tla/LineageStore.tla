---------------------------- MODULE LineageStore ----------------------------
(***************************************************************************)
(* The database half of crypto-shredding (src/db/migrations.sql): the      *)
(* key-control row of every item, the item's projection row, the fence of  *)
(* aborted operations, and the SECURITY DEFINER functions that are the     *)
(* only way to change them.  Each function is one transaction under the    *)
(* item's advisory lock, so each is one step here.                         *)
(*                                                                         *)
(* The ciphertext of an item and of its provider refs is written in one    *)
(* transaction, so one field stands for it: the key it was encrypted with  *)
(* and a revision that is fresh for every encryption (fresh nonces make    *)
(* every ciphertext distinct).                                             *)
(***************************************************************************)
EXTENDS CatalogConstants

VARIABLES
    control,    \* item_key_control: [Items -> [state, key, op]]
    items,      \* items:            [Items -> [phase, ct, rev]]
    aborted,    \* aborted_operations, as the keys their operations minted
    shredOps    \* how many shred operation ids have been generated

storeVars == <<control, items, aborted, shredOps>>

NewLineage == {"add", "restore", "hydrate"}
ShredState == {"none", "active", "shred_pending", "shred_complete"}

ControlType == [Items -> [state : ShredState, key : Keys \cup {NoKey},
                          op : ShredOps \cup {0}]]
ItemRow == [phase : {"absent", "present", "forgotten"}, ct : Keys \cup {NoKey}, rev : Nat]
ItemsType == [Items -> ItemRow]

StoreTypeOK ==
    /\ control \in ControlType
    /\ items \in ItemsType
    /\ aborted \subseteq Keys
    /\ shredOps \in Nat

\* A fresh database, or one upgraded from the plaintext schema: its items are
\* present but have neither ciphertext nor a key lineage.
StoreInit ==
    /\ control = [i \in Items |-> [state |-> "none", key |-> NoKey, op |-> 0]]
    /\ \E legacy \in SUBSET Items :
          items = [i \in Items |->
                     [phase |-> IF i \in legacy THEN "present" ELSE "absent",
                      ct |-> NoKey, rev |-> 0]]
    /\ aborted = {}
    /\ shredOps = 0

-----------------------------------------------------------------------------

\* Slip: a writer that does not look at the fence.
CommitsUnfenced(kind, i, k) ==
    \/ kind = "add"     /\ control[i].state = "none" /\ items[i].phase = "absent"
    \/ kind = "restore" /\ control[i].state = "shred_complete"
                        /\ items[i].phase = "forgotten"
    \/ kind = "hydrate" /\ control[i].state = "none" /\ items[i].phase = "present"

\* The call commits a lineage: cat_add_item_ct for an item nobody has a row
\* for, cat_restore_ct after a completed shred, cat_hydrate_legacy_ct for a
\* present item without one; none of them for an aborted operation.
Commits(kind, i, k) ==
    /\ k \notin aborted
    /\ \/ kind = "add"     /\ control[i].state = "none" /\ items[i].phase = "absent"
       \/ kind = "restore" /\ control[i].state = "shred_complete"
                           /\ items[i].phase = "forgotten"
       \/ kind = "hydrate" /\ control[i].state = "none" /\ items[i].phase = "present"

\* cat_add_item_ct returns false: somebody else's lineage is already active.
LosesRace(kind, i, k) ==
    kind = "add" /\ k \notin aborted /\ control[i].state = "active"

\* The winner's writes: the key-control row, the lifecycle event's effect on
\* the projection, and the ciphertext, in one transaction.
InstallLineage(i, k) ==
    /\ control' = [control EXCEPT ![i] = [state |-> "active", key |-> k, op |-> 0]]
    /\ items' = [items EXCEPT ![i] = [phase |-> "present", ct |-> k, rev |-> @.rev + 1]]
    /\ UNCHANGED <<aborted, shredOps>>

\* Slip: an update that asks for a lineage, not for an active one.
AcceptsUpdateOfAnyLineage(i) == control[i].state # "none"

\* cat_update_identity_ct: accepted while the item's lineage is active.
AcceptsUpdate(i) == control[i].state = "active" /\ items[i].phase = "present"

UpdateIdentityCt(i, k) ==
    /\ AcceptsUpdate(i)
    /\ items' = [items EXCEPT ![i].ct = k, ![i].rev = @ + 1]
    /\ UNCHANGED <<control, aborted, shredOps>>

\* What cat_forget_begin returns: whether there is a key to destroy, and the
\* shred operation (a new one, or the one already pending).
NeedsDestroy(i) == control[i].state \in {"active", "shred_pending"}
BeginOp(i) == IF control[i].state = "active" THEN shredOps + 1 ELSE control[i].op

\* cat_forget_begin: append ItemForgotten, clear the ciphertext, mark pending.
ForgetBegin(i) ==
    /\ control[i].state = "active" => shredOps + 1 \in ShredOps
    /\ items' = [items EXCEPT ![i].phase = "forgotten", ![i].ct = NoKey]
    /\ IF control[i].state = "active"
       THEN /\ control' = [control EXCEPT ![i].state = "shred_pending",
                                          ![i].op = shredOps + 1]
            /\ shredOps' = shredOps + 1
       ELSE UNCHANGED <<control, shredOps>>
    /\ UNCHANGED aborted

\* Slip: the attestation is verified, but not that it is for the row's key.
AcceptsAnyReceipt(i, op, receipt) ==
    /\ control[i].state = "shred_pending"
    /\ control[i].op = op

\* cat_forget_complete: only the pending operation, and only with a receipt
\* whose attestation is for the key of the row.
AcceptsCompletion(i, op, receipt) ==
    /\ control[i].state = "shred_pending"
    /\ control[i].op = op
    /\ control[i].key = receipt

ForgetComplete(i, op, receipt) ==
    /\ AcceptsCompletion(i, op, receipt)
    /\ control' = [control EXCEPT ![i].state = "shred_complete"]
    /\ UNCHANGED <<items, aborted, shredOps>>

\* The operation that minted k established the item's current lineage.
CommittedByOp(i, k) == control[i].key = k

\* Slip: look, do not fence.
AbortWithoutFence(i, k) == ~CommittedByOp(i, k) /\ UNCHANGED storeVars

\* cat_abort_provision, for an operation that has not committed.
AbortProvision(i, k) ==
    /\ ~CommittedByOp(i, k)
    /\ aborted' = aborted \cup {k}
    /\ UNCHANGED <<control, items, shredOps>>

\* cat_rebuild: replay the event log into an empty projection.  The lifecycle
\* phase comes back, the ciphertext does not, and key control is not touched.
Rebuild ==
    /\ items' = [i \in Items |-> [items[i] EXCEPT !.ct = NoKey]]
    /\ UNCHANGED <<control, aborted, shredOps>>

=============================================================================
