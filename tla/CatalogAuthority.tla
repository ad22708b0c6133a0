-------------------------- MODULE CatalogAuthority --------------------------
(***************************************************************************)
(* src/core/catalog/authority.ts: the coordinator of crypto-shredding.     *)
(*                                                                         *)
(* No lock and no transaction spans the database and the key custodian, so *)
(* every call of a client (addItem, restore, hydrateLegacy, updateIdentity,*)
(* forget) and every pass of the reconciler is a sequence of steps, each   *)
(* one database transaction or one custodian call, and the steps of all    *)
(* of them interleave.  A call can end between any two of its steps        *)
(* (Fail), lose the reply of a transaction that the server may still run   *)
(* later (LoseReply, LateWrite), and the database, but never the           *)
(* custodian, can be rolled back to an old backup (Rollback).              *)
(***************************************************************************)
EXTENDS KeyCustodian, LineageStore

CONSTANTS
    Clients,    \* concurrent callers of the authority
    Reconciler, \* the process that runs reconcile()
    Kinds,      \* the operations the clients call
    Budget      \* how often the environment may intervene (bounds of a model)

ASSUME ReconcilerAssumption == Reconciler \notin Clients
ASSUME KindsAssumption ==
    Kinds \subseteq NewLineage \cup {"forget", "update"}
ASSUME BudgetAssumption ==
    Budget \in [{"failures", "lost", "rollbacks", "updates"} -> Nat]

VARIABLES
    proc,       \* [Procs -> call]: the call a process is in, and how far
    sweep,      \* the reconciler's pass: its stage and the rows it listed
    late,       \* transactions sent on a connection whose client gave up
    backup,     \* the backup of the database that is kept
    budget      \* interventions left

authorityVars == <<proc, sweep, late, backup, budget>>
vars == <<custodianVars, storeVars, authorityVars>>

Procs == Clients \cup {Reconciler}
PC == {"idle", "write", "confirm", "promote", "discard", "fetch", "update",
       "destroy", "complete", "fence", "check", "reforget"}
Call == [pc : PC, kind : NewLineage \cup {"forget", "update", "reconcile", "none"},
         item : Items \cup {NoItem}, key : Keys \cup {NoKey},
         op : ShredOps \cup {0}]
Row == [item : Items \cup {NoItem}, key : Keys \cup {NoKey}, op : ShredOps \cup {0}]
Stage == {"idle", "pending", "stale", "active"}
LateCall == [kind : NewLineage \cup {"update"}, item : Items, key : Keys]

Idle == [pc |-> "idle", kind |-> "none", item |-> NoItem, key |-> NoKey, op |-> 0]
IdleSweep == [stage |-> "idle", todo |-> {}]
SnapshotType == [control : ControlType, items : ItemsType, aborted : SUBSET Keys]
Snapshot == [control |-> control, items |-> items, aborted |-> aborted]

AtRest ==
    /\ CustodianInit
    /\ StoreInit
    /\ proc = [p \in Procs |-> Idle]
    /\ sweep = IdleSweep
    /\ late = {}
    /\ backup = Snapshot

Init == AtRest /\ budget = Budget

At(p, pc) == proc[p].pc = pc
Goto(p, pc) == proc' = [proc EXCEPT ![p].pc = pc]
End(p) == proc' = [proc EXCEPT ![p] = Idle]
Spend(what) ==
    /\ budget[what] > 0
    /\ budget' = [budget EXCEPT ![what] = @ - 1]

-----------------------------------------------------------------------------
(* addItem, restore, hydrateLegacy: provision, write, then promote the key  *)
(* or destroy it (provisionAndWrite).                                       *)

BeginWrite(c, kind, i, k) ==
    /\ At(c, "idle")
    /\ Provision(i, k)
    /\ proc' = [proc EXCEPT ![c] =
                  [pc |-> "write", kind |-> kind, item |-> i, key |-> k, op |-> 0]]
    /\ UNCHANGED <<storeVars, sweep, late, backup, budget>>

WriteCommits(c) == LET p == proc[c] IN
    /\ At(c, "write")
    /\ Commits(p.kind, p.item, p.key)
    /\ InstallLineage(p.item, p.key)
    /\ Goto(c, "promote")
    /\ UNCHANGED <<custodianVars, sweep, late, backup, budget>>

\* committed = false: the loser of the create race destroys its own key.
WriteLoses(c) == LET p == proc[c] IN
    /\ At(c, "write")
    /\ LosesRace(p.kind, p.item, p.key)
    /\ Goto(c, "discard")
    /\ UNCHANGED <<custodianVars, storeVars, sweep, late, backup, budget>>

\* The function raises: nothing was written, and the caller cannot tell this
\* error from a lost reply.
WriteRaises(c) == LET p == proc[c] IN
    /\ At(c, "write")
    /\ ~Commits(p.kind, p.item, p.key)
    /\ ~LosesRace(p.kind, p.item, p.key)
    /\ Goto(c, "confirm")
    /\ UNCHANGED <<custodianVars, storeVars, sweep, late, backup, budget>>

\* committedByOp: look for the operation in the key-control row, with no lock.
Confirm(c) == LET p == proc[c] IN
    /\ At(c, "confirm")
    /\ Goto(c, IF CommittedByOp(p.item, p.key) THEN "promote" ELSE "discard")
    /\ UNCHANGED <<custodianVars, storeVars, sweep, late, backup, budget>>

\* commitProvision, its failure swallowed (a destroyed key stays destroyed).
Promote(p) ==
    /\ At(p, "promote")
    /\ \/ CommitProvision(proc[p].key)
       \/ keyState[proc[p].key] = "destroyed" /\ UNCHANGED custodianVars
    /\ End(p)
    /\ UNCHANGED <<storeVars, sweep, late, backup, budget>>

\* safeDestroy, and the reconciler's destroy of a fenced orphan.
Discard(p) ==
    /\ At(p, "discard")
    /\ DiscardKey(proc[p].key)
    /\ End(p)
    /\ UNCHANGED <<storeVars, sweep, late, backup, budget>>

-----------------------------------------------------------------------------
(* updateIdentity: read the lineage, fetch its key, write the ciphertext.   *)

BeginUpdate(c, i) ==
    /\ At(c, "idle")
    /\ Spend("updates")
    /\ control[i].state = "active"
    /\ proc' = [proc EXCEPT ![c] = [pc |-> "fetch", kind |-> "update", item |-> i,
                                    key |-> control[i].key, op |-> 0]]
    /\ UNCHANGED <<custodianVars, storeVars, sweep, late, backup>>

FetchKey(c) ==
    /\ At(c, "fetch")
    /\ IF keyState[proc[c].key] = "active" THEN Goto(c, "update") ELSE End(c)
    /\ UNCHANGED <<custodianVars, storeVars, sweep, late, backup, budget>>

RunUpdate(c) == LET p == proc[c] IN
    /\ At(c, "update")
    /\ \/ UpdateIdentityCt(p.item, p.key)
       \/ ~AcceptsUpdate(p.item) /\ UNCHANGED storeVars
    /\ End(c)
    /\ UNCHANGED <<custodianVars, sweep, late, backup, budget>>

-----------------------------------------------------------------------------
(* forget: mark pending, destroy the lineage's key, attest completion.      *)

BeginForget(c, i) ==
    /\ At(c, "idle")
    /\ ForgetBegin(i)
    /\ IF NeedsDestroy(i)
       THEN proc' = [proc EXCEPT ![c] = [pc |-> "destroy", kind |-> "forget", item |-> i,
                                         key |-> control[i].key, op |-> BeginOp(i)]]
       ELSE UNCHANGED proc
    /\ UNCHANGED <<custodianVars, sweep, late, backup, budget>>

Destroy(p) ==
    /\ At(p, "destroy")
    /\ \/ DestroyKey(proc[p].op, proc[p].key) /\ Goto(p, "complete")
       \/ /\ ~CanDestroy(proc[p].op, proc[p].key)
          /\ UNCHANGED custodianVars
          /\ End(p)
    /\ UNCHANGED <<storeVars, sweep, late, backup, budget>>

Complete(p) == LET q == proc[p] IN
    /\ At(p, "complete")
    /\ \/ ForgetComplete(q.item, q.op, q.key)
       \/ ~AcceptsCompletion(q.item, q.op, q.key) /\ UNCHANGED storeVars
    /\ End(p)
    /\ UNCHANGED <<custodianVars, sweep, late, backup, budget>>

-----------------------------------------------------------------------------
(* reconcile(): finish the pending shreds, then resolve the provisional     *)
(* keys, then re-drive forget for active rows whose key is destroyed.  Each *)
(* list is read once and worked through afterwards.                         *)

PendingRows == {[item |-> i, key |-> control[i].key, op |-> control[i].op] :
                  i \in {j \in Items : control[j].state = "shred_pending"}}
StaleRows   == {[item |-> keyItem[k], key |-> k, op |-> 0] : k \in StaleProvisioning}
ActiveRows  == {[item |-> i, key |-> control[i].key, op |-> 0] :
                  i \in {j \in Items : control[j].state = "active"}}

ListRows ==
    /\ At(Reconciler, "idle")
    /\ sweep.todo = {}
    /\ sweep' = CASE sweep.stage = "idle"    -> [stage |-> "pending", todo |-> PendingRows]
                  [] sweep.stage = "pending" -> [stage |-> "stale",   todo |-> StaleRows]
                  [] sweep.stage = "stale"   -> [stage |-> "active",  todo |-> ActiveRows]
                  [] sweep.stage = "active"  -> IdleSweep
    /\ UNCHANGED <<custodianVars, storeVars, proc, late, backup, budget>>

FirstStep == [pending |-> "destroy", stale |-> "fence", active |-> "check"]

TakeRow(row) ==
    /\ At(Reconciler, "idle")
    /\ sweep' = [sweep EXCEPT !.todo = @ \ {row}]
    /\ proc' = [proc EXCEPT ![Reconciler] =
                  [pc |-> FirstStep[sweep.stage], kind |-> "reconcile",
                   item |-> row.item, key |-> row.key, op |-> row.op]]
    /\ UNCHANGED <<custodianVars, storeVars, late, backup, budget>>

\* The lease: a key minted by a call that is still running, or still in the
\* network, may be younger than staleMs.
HeldByWriter(k) ==
    \/ \E c \in Clients : proc[c].key = k /\ proc[c].kind \in NewLineage
    \/ \E call \in late : call.key = k /\ call.kind \in NewLineage

SkipYoung(row) ==
    /\ At(Reconciler, "idle")
    /\ sweep.stage = "stale"
    /\ HeldByWriter(row.key)
    /\ sweep' = [sweep EXCEPT !.todo = @ \ {row}]
    /\ UNCHANGED <<custodianVars, storeVars, proc, late, backup, budget>>

Fence == LET r == proc[Reconciler] IN
    /\ At(Reconciler, "fence")
    /\ \/ AbortProvision(r.item, r.key) /\ Goto(Reconciler, "discard")
       \/ /\ CommittedByOp(r.item, r.key)
          /\ UNCHANGED storeVars
          /\ Goto(Reconciler, "promote")
    /\ UNCHANGED <<custodianVars, sweep, late, backup, budget>>

\* Slip: the self-heal looks for keys the custodian has never heard of.
CheckKeyNotFound ==
    /\ At(Reconciler, "check")
    /\ IF keyState[proc[Reconciler].key] = "not_found"
       THEN Goto(Reconciler, "reforget") ELSE End(Reconciler)
    /\ UNCHANGED <<custodianVars, storeVars, sweep, late, backup, budget>>

CheckKey ==
    /\ At(Reconciler, "check")
    /\ IF keyState[proc[Reconciler].key] = "destroyed"
       THEN Goto(Reconciler, "reforget") ELSE End(Reconciler)
    /\ UNCHANGED <<custodianVars, storeVars, sweep, late, backup, budget>>

\* cat_forget_begin on the item as it is now; the key to destroy is still the
\* one that was listed.
Reforget == LET i == proc[Reconciler].item IN
    /\ At(Reconciler, "reforget")
    /\ ForgetBegin(i)
    /\ IF NeedsDestroy(i)
       THEN proc' = [proc EXCEPT ![Reconciler].pc = "destroy",
                                 ![Reconciler].op = BeginOp(i)]
       ELSE End(Reconciler)
    /\ UNCHANGED <<custodianVars, sweep, late, backup, budget>>

-----------------------------------------------------------------------------
(* The environment.                                                         *)

\* The call is over before its next step: the process died, or that step
\* failed with an error whose handler does nothing more.  A transaction
\* already on its way stays in the network.  For the reconciler, either one
\* row fails or the whole pass does.
Fail(p) ==
    /\ ~At(p, "idle")
    /\ Spend("failures")
    /\ End(p)
    /\ late' \in {late} \cup
         (IF proc[p].pc \in {"write", "update"}
          THEN {late \cup {[kind |-> proc[p].kind, item |-> proc[p].item,
                            key |-> proc[p].key]}} ELSE {})
    /\ sweep' \in {sweep} \cup (IF p = Reconciler THEN {IdleSweep} ELSE {})
    /\ UNCHANGED <<custodianVars, storeVars, backup>>

\* The connection breaks under a transaction: the client gets an error while
\* the server may run it later, for instance once it gets the item's lock.
LoseReply(c) ==
    /\ proc[c].pc \in {"write", "update"}
    /\ Spend("lost")
    /\ late' = late \cup {[kind |-> proc[c].kind, item |-> proc[c].item,
                           key |-> proc[c].key]}
    /\ IF At(c, "write") THEN Goto(c, "confirm") ELSE End(c)
    /\ UNCHANGED <<custodianVars, storeVars, sweep, backup>>

LateWrite(call) ==
    /\ late' = late \ {call}
    /\ \/ call.kind \in NewLineage /\ Commits(call.kind, call.item, call.key)
                                   /\ InstallLineage(call.item, call.key)
       \/ call.kind = "update" /\ UpdateIdentityCt(call.item, call.key)
    /\ UNCHANGED <<custodianVars, proc, sweep, backup, budget>>

\* It never ran, or it raised.
LateDrop(call) ==
    /\ late' = late \ {call}
    /\ UNCHANGED <<custodianVars, storeVars, proc, sweep, backup, budget>>

RebuildProjection ==
    /\ Rebuild
    /\ UNCHANGED <<custodianVars, authorityVars>>

TakeBackup ==
    /\ budget.rollbacks > 0
    /\ backup' = Snapshot
    /\ UNCHANGED <<custodianVars, storeVars, proc, sweep, late, budget>>

\* Restore of the main database alone, with the application stopped: the key
\* custodian is never part of a backup.
Rollback ==
    /\ Spend("rollbacks")
    /\ control' = backup.control
    /\ items' = backup.items
    /\ aborted' = backup.aborted
    /\ proc' = [p \in Procs |-> Idle]
    /\ sweep' = IdleSweep
    /\ late' = {}
    /\ UNCHANGED <<custodianVars, shredOps, backup>>

-----------------------------------------------------------------------------

ClientBegins(c) ==
    \/ \E kind \in Kinds \cap NewLineage, i \in Items, k \in Keys : BeginWrite(c, kind, i, k)
    \/ "forget" \in Kinds /\ \E i \in Items : BeginForget(c, i)
    \/ "update" \in Kinds /\ \E i \in Items : BeginUpdate(c, i)

ClientStep(c) ==
    \/ WriteCommits(c) \/ WriteLoses(c) \/ WriteRaises(c) \/ Confirm(c)
    \/ Promote(c) \/ Discard(c)
    \/ FetchKey(c) \/ RunUpdate(c)
    \/ Destroy(c) \/ Complete(c)

ReconcilerStep ==
    \/ ListRows
    \/ \E row \in sweep.todo : TakeRow(row) \/ SkipYoung(row)
    \/ Destroy(Reconciler) \/ Complete(Reconciler)
    \/ Fence \/ Promote(Reconciler) \/ Discard(Reconciler)
    \/ CheckKey \/ Reforget

Network == \E call \in late : LateWrite(call) \/ LateDrop(call)

Environment ==
    \/ \E p \in Procs : Fail(p)
    \/ \E c \in Clients : LoseReply(c)
    \/ Network
    \/ RebuildProjection \/ TakeBackup \/ Rollback

Next ==
    \/ \E c \in Clients : ClientBegins(c) \/ ClientStep(c)
    \/ ReconcilerStep
    \/ Environment

Spec == Init /\ [][Next]_vars

\* A started call takes its next step, a pass of the reconciler always comes
\* and always goes on, and a lost transaction runs or is dropped.
Fairness ==
    /\ \A c \in Clients : WF_vars(ClientStep(c))
    /\ WF_vars(ReconcilerStep)
    /\ WF_vars(Network)

-----------------------------------------------------------------------------
(* Properties.                                                              *)

\* Every variable has its type.
TypeOK ==
    /\ CustodianTypeOK
    /\ StoreTypeOK
    /\ proc \in [Procs -> Call]
    /\ sweep \in [stage : Stage, todo : SUBSET Row]
    /\ late \subseteq LateCall
    /\ backup \in SnapshotType
    /\ budget \in [DOMAIN Budget -> Nat]

\* A shred is recorded complete only when the key of that very lineage has
\* been destroyed, whoever completed it and whatever was rolled back since
\* (cat_forget_complete verifies the receipt against the row's key).
ErasedMeansDestroyed ==
    \A i \in Items :
        control[i].state = "shred_complete" => keyState[control[i].key] = "destroyed"

\* The projection row and the key-control row tell one story: a live lineage
\* has a present item, a lineage being erased or erased has a forgotten item
\* without a byte of ciphertext, and ciphertext exists only under a lineage.
ProjectionAgreesWithLineage ==
    \A i \in Items :
        /\ control[i].state = "active" => items[i].phase = "present"
        /\ control[i].state \in {"shred_pending", "shred_complete"} =>
              items[i].phase = "forgotten"
        /\ items[i].ct # NoKey => control[i].state = "active"

\* An operation the reconciler has fenced never establishes a lineage, however
\* late its transaction arrives (cat_abort_provision and the writers' check).
FencedNeverCommits ==
    \A i \in Items : control[i].key \notin aborted

\* No reply has been lost and no old backup restored so far.
Undisturbed == budget.lost = Budget.lost /\ budget.rollbacks = Budget.rollbacks

\* A pending shred is completed, by its caller or by the reconciler.
PendingShredsComplete ==
    \A i \in Items :
        control[i].state = "shred_pending" ~> control[i].state # "shred_pending"

\* A row that says active although its key is destroyed, brought back by a backup
\* or established by a late transaction, does not stay: the reconciler re-drives
\* forget on it.
StaleActiveHealed ==
    \A i \in Items :
        (control[i].state = "active" /\ keyState[control[i].key] = "destroyed")
            ~> control[i].state # "active"

\* A provisional key is eventually promoted or destroyed, whatever happened to
\* the call that minted it.
ProvisionalResolved ==
    \A k \in Keys : keyState[k] = "provisional" ~> keyState[k] # "provisional"

(* The inductive invariant behind the safety properties: what a call, a     *)
(* listed row and a row of the database may hold, and what they imply about *)
(* the key they name.                                                       *)

GoodCall == {q \in Call :
    /\ q.pc # "idle" => q.item \in Items /\ q.key \in Keys
    /\ q.pc \in {"destroy", "complete"} => q.op \in ShredOps
    /\ q.pc = "write" => q.kind \in NewLineage
    /\ q.pc \in {"fetch", "update"} => q.kind = "update"}

GoodRow == {row \in Row :
    /\ row.item \in Items /\ row.key \in Keys
    /\ sweep.stage = "pending" => row.op \in ShredOps
    /\ sweep.stage # "idle"}

GoodControl == {r \in [state : ShredState, key : Keys \cup {NoKey},
                       op : ShredOps \cup {0}] :
    /\ r.state # "none" => r.key \in Keys
    /\ r.state = "shred_pending" => r.op \in ShredOps}

ShapeInv ==
    /\ proc \in [Procs -> GoodCall]
    /\ sweep.todo \subseteq GoodRow
    /\ control \in [Items -> GoodControl]
    /\ backup.control \in [Items -> GoodControl]
    /\ \A k \in Keys : keyState[k] # "not_found" => keyItem[k] \in Items

\* k was minted for i.
MintedFor(k, i) == keyState[k] # "not_found" /\ keyItem[k] = i

\* A key names one item wherever it is held, so the lock on that item covers
\* every decision about the key.
OwnerInv ==
    /\ \A i \in Items : control[i].key # NoKey => MintedFor(control[i].key, i)
    /\ \A i \in Items : backup.control[i].key # NoKey => MintedFor(backup.control[i].key, i)
    /\ \A p \in Procs : proc[p].pc \in {"write", "fence"} => MintedFor(proc[p].key, proc[p].item)
    /\ sweep.stage = "stale" => \A row \in sweep.todo : MintedFor(row.key, row.item)
    /\ \A call \in late : call.kind \in NewLineage => MintedFor(call.key, call.item)

ErasureInv ==
    /\ ErasedMeansDestroyed
    /\ \A i \in Items : backup.control[i].state = "shred_complete" =>
                            keyState[backup.control[i].key] = "destroyed"
    /\ \A p \in Procs : At(p, "complete") => keyState[proc[p].key] = "destroyed"

FenceInv ==
    /\ FencedNeverCommits
    /\ \A i \in Items : backup.control[i].key \notin backup.aborted

ProjectionInv ==
    /\ ProjectionAgreesWithLineage
    /\ \A i \in Items :
        /\ backup.control[i].state = "active" => backup.items[i].phase = "present"
        /\ backup.control[i].state \in {"shred_pending", "shred_complete"} =>
              backup.items[i].phase = "forgotten"
        /\ backup.items[i].ct # NoKey => backup.control[i].state = "active"

\* The invariant the proofs induct over: every part above, together.
IInv == TypeOK /\ ShapeInv /\ OwnerInv /\ ErasureInv /\ FenceInv /\ ProjectionInv

(* The promise, and what stands for its variables.                          *)

Lineage == [i \in Items |-> [state |-> control[i].state, key |-> control[i].key]]
Gone == {k \in Keys : keyState[k] = "destroyed"}
MayStillCommit(k) ==
    \/ keyState[k] = "not_found"
    \/ \E c \in Clients : At(c, "write") /\ proc[c].key = k
    \/ \E call \in late : call.key = k /\ call.kind \in NewLineage
Fresh == {k \in Keys \ aborted : MayStillCommit(k)}

Promise == INSTANCE ErasurePromise
              WITH lineage <- Lineage, gone <- Gone, fresh <- Fresh

\* The authority, its reconciler and its failures keep the promise for as long as
\* nothing outside them disturbs it: every step of theirs is one of its steps or
\* changes nothing it speaks of.
KeepsPromise == Promise!Init /\ [][Undisturbed' => Promise!Next]_(Promise!vars)
=============================================================================
