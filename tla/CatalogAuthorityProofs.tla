----------------------- MODULE CatalogAuthorityProofs -----------------------
(***************************************************************************)
(* Proofs about the catalog authority, for every number of items, keys,    *)
(* clients, shred operations and interventions of the environment; and,    *)
(* after them, about the three reads of an identity beside everything it   *)
(* does: whatever a read has learnt and been overtaken by, what it hands   *)
(* over through a boundary is current, and nothing that was erased when it *)
(* began is handed over.                                                   *)
(***************************************************************************)
EXTENDS IdentityReads, TLAPS

USE NoItemAssumption, NoKeyAssumption, ShredOpsAssumption, ReconcilerAssumption,
    KindsAssumption, BudgetAssumption

\* What the type and the shape of the variables say together.
TInv == TypeOK /\ ShapeInv

LEMMA InitTInv == Init => TInv
<1> SUFFICES ASSUME Init PROVE TInv OBVIOUS
<1> USE DEF Init, AtRest, CustodianInit, StoreInit
<1>1. CustodianTypeOK BY DEF CustodianTypeOK, KeyStatus
<1>2. StoreTypeOK BY DEF StoreTypeOK, ControlType, ItemsType, ItemRow, ShredState
<1>3. proc \in [Procs -> Call] /\ proc \in [Procs -> GoodCall]
  BY DEF Idle, Call, GoodCall, PC, NewLineage
<1>4. sweep \in [stage : Stage, todo : SUBSET Row] /\ sweep.todo \subseteq GoodRow
  BY DEF IdleSweep, Stage
<1>5. late \subseteq LateCall OBVIOUS
<1>6. backup \in SnapshotType
  BY <1>2 DEF StoreTypeOK, Snapshot, SnapshotType
<1>7. budget \in [DOMAIN Budget -> Nat] OBVIOUS
<1>8. control \in [Items -> GoodControl] /\ backup.control \in [Items -> GoodControl]
  BY DEF GoodControl, ShredState, Snapshot
<1> QED BY <1>1, <1>2, <1>3, <1>4, <1>5, <1>6, <1>7, <1>8
     DEF TInv, TypeOK, ShapeInv, CustodianTypeOK

\* Replacing one process's call by a well-formed one keeps every call well-formed.
LEMMA ProcUpdate ==
    ASSUME TInv, NEW p \in Procs, NEW q \in GoodCall, proc' = [proc EXCEPT ![p] = q]
    PROVE  proc' \in [Procs -> Call] /\ proc' \in [Procs -> GoodCall]
BY DEF TInv, TypeOK, ShapeInv, GoodCall

LEMMA IdleIsGood == Idle \in GoodCall
BY DEF Idle, GoodCall, Call, PC, NewLineage

\* The calls, listed rows and rows of the database are well-typed after a step
\* that leaves the database alone.
LEMMA StoreUnchanged ==
    ASSUME TInv, UNCHANGED storeVars
    PROVE  StoreTypeOK' /\ (control \in [Items -> GoodControl])'
BY DEF TInv, TypeOK, ShapeInv, StoreTypeOK, storeVars, ControlType, ItemsType, GoodControl

LEMMA BeginWriteTInv ==
    ASSUME TInv, NEW c \in Clients, NEW kind \in NewLineage, NEW i \in Items, NEW k \in Keys,
           BeginWrite(c, kind, i, k)
    PROVE  TInv'
<1> DEFINE q == [pc |-> "write", kind |-> kind, item |-> i, key |-> k, op |-> 0]
<1>1. q \in GoodCall
  BY DEF GoodCall, Call, PC, NewLineage
<1>2. proc' \in [Procs -> Call] /\ proc' \in [Procs -> GoodCall]
  BY <1>1, ProcUpdate DEF BeginWrite, Procs
<1>3. CustodianTypeOK' /\ (\A j \in Keys : keyState[j] # "not_found" => keyItem[j] \in Items)'
  BY DEF BeginWrite, Provision, TInv, TypeOK, ShapeInv, CustodianTypeOK, KeyStatus
<1>4. StoreTypeOK' /\ (control \in [Items -> GoodControl])'
  BY StoreUnchanged DEF BeginWrite
<1>5. UNCHANGED <<sweep, late, backup, budget>>
  BY DEF BeginWrite
<1> QED BY <1>2, <1>3, <1>4, <1>5 DEF TInv, TypeOK, ShapeInv, GoodRow

\* The same for the custodian.
LEMMA CustodianUnchanged ==
    ASSUME TInv, UNCHANGED custodianVars
    PROVE  CustodianTypeOK' /\ (\A k \in Keys : keyState[k] # "not_found" => keyItem[k] \in Items)'
BY DEF TInv, TypeOK, ShapeInv, CustodianTypeOK, custodianVars

\* What the database functions leave behind is well-typed.
LEMMA InstallTyped ==
    ASSUME TInv, NEW i \in Items, NEW k \in Keys, InstallLineage(i, k)
    PROVE  StoreTypeOK' /\ (control \in [Items -> GoodControl])'
<1> DEFINE r == [state |-> "active", key |-> k, op |-> 0]
<1>1. r \in GoodControl BY DEF GoodControl, ShredState
<1>2. control' \in [Items -> GoodControl]
  BY <1>1 DEF TInv, ShapeInv, InstallLineage
<1>3. items' \in ItemsType
  <2>1. items \in ItemsType BY DEF TInv, TypeOK, StoreTypeOK
  <2> DEFINE n == [phase |-> "present", ct |-> k, rev |-> items[i].rev + 1]
  <2>2. n \in ItemRow
    BY <2>1 DEF ItemsType, ItemRow
  <2>3. items' = [items EXCEPT ![i] = n] BY DEF InstallLineage
  <2> QED BY <2>1, <2>2, <2>3 DEF ItemsType
<1>4. aborted' \subseteq Keys /\ shredOps' \in Nat
  BY DEF TInv, TypeOK, StoreTypeOK, InstallLineage
<1> QED BY <1>2, <1>3, <1>4 DEF StoreTypeOK, ControlType, GoodControl

\* A row with new ciphertext is a row.
LEMMA Reencrypted ==
    ASSUME NEW row \in ItemRow, NEW k \in Keys
    PROVE  [row EXCEPT !.ct = k, !.rev = row.rev + 1] \in ItemRow
<1> DEFINE a == [row EXCEPT !.ct = k]
<1>1. a \in ItemRow /\ a.rev = row.rev BY DEF ItemRow
<1>2. row.rev + 1 \in Nat BY DEF ItemRow
<1>3. [a EXCEPT !.rev = row.rev + 1] \in ItemRow
  <2> HIDE DEF a
  <2> QED BY <1>1, <1>2 DEF ItemRow
<1>4. [a EXCEPT !.rev = row.rev + 1] = [row EXCEPT !.ct = k, !.rev = row.rev + 1] OBVIOUS
<1> QED BY <1>3, <1>4

LEMMA UpdateTyped ==
    ASSUME TInv, NEW i \in Items, NEW k \in Keys, UpdateIdentityCt(i, k)
    PROVE  StoreTypeOK' /\ (control \in [Items -> GoodControl])'
<1>1. UNCHANGED <<control, aborted, shredOps>>
  BY DEF UpdateIdentityCt
<1>2. items' \in ItemsType
  <2>1. items \in ItemsType BY DEF TInv, TypeOK, StoreTypeOK
  <2> DEFINE n == [items[i] EXCEPT !.ct = k, !.rev = items[i].rev + 1]
  <2>2. items[i] \in ItemRow BY <2>1 DEF ItemsType
  <2>3. n \in ItemRow BY <2>2, Reencrypted
  <2>4. items' = [items EXCEPT ![i] = n] BY <2>1 DEF UpdateIdentityCt, ItemsType
  <2> QED BY <2>1, <2>3, <2>4 DEF ItemsType
<1> QED BY <1>1, <1>2 DEF TInv, TypeOK, ShapeInv, StoreTypeOK

LEMMA ForgetBeginTyped ==
    ASSUME TInv, NEW i \in Items, ForgetBegin(i)
    PROVE  /\ StoreTypeOK' /\ (control \in [Items -> GoodControl])'
           /\ NeedsDestroy(i) => BeginOp(i) \in ShredOps /\ control[i].key \in Keys
<1>a. control \in [Items -> GoodControl] BY DEF TInv, ShapeInv
<1>1. control' \in [Items -> GoodControl]
  <2>1. CASE control[i].state = "active"
    <3> DEFINE r == [control[i] EXCEPT !.state = "shred_pending", !.op = shredOps + 1]
    <3>0. /\ control[i] \in GoodControl /\ control[i].key \in Keys
          /\ shredOps + 1 \in ShredOps
      BY <1>a, <2>1 DEF GoodControl, ForgetBegin
    <3>1. r \in GoodControl
      <4>1. /\ r \in [state : ShredState, key : Keys \cup {NoKey}, op : ShredOps \cup {0}]
            /\ r.key = control[i].key /\ r.op = shredOps + 1
        BY <3>0 DEF GoodControl, ShredState
      <4> HIDE DEF r
      <4> QED BY <3>0, <4>1 DEF GoodControl
    <3>2. control' = [control EXCEPT ![i] = r]
      BY <1>a, <2>1 DEF ForgetBegin
    <3> QED BY <1>a, <3>1, <3>2
  <2>2. CASE control[i].state # "active"
    BY <1>a, <2>2 DEF ForgetBegin
  <2> QED BY <2>1, <2>2
<1>b. items' \in ItemsType
  <2> DEFINE r == [items[i] EXCEPT !.phase = "forgotten", !.ct = NoKey]
  <2>1. items \in ItemsType BY DEF TInv, TypeOK, StoreTypeOK
  <2>2. items' = [items EXCEPT ![i] = r] BY <2>1 DEF ForgetBegin, ItemsType
  <2>3. r \in ItemRow
    BY <2>1 DEF ItemsType, ItemRow
  <2> QED BY <2>1, <2>2, <2>3 DEF ItemsType
<1>c. aborted' \subseteq Keys /\ shredOps' \in Nat
  BY DEF TInv, TypeOK, StoreTypeOK, ForgetBegin
<1>2. items' \in ItemsType /\ aborted' \subseteq Keys /\ shredOps' \in Nat
  BY <1>b, <1>c
<1>3. control' \in ControlType
  BY <1>1 DEF ControlType, GoodControl
<1>4. NeedsDestroy(i) => BeginOp(i) \in ShredOps /\ control[i].key \in Keys
  BY DEF TInv, ShapeInv, GoodControl, ForgetBegin, NeedsDestroy, BeginOp
<1> QED BY <1>1, <1>2, <1>3, <1>4 DEF StoreTypeOK

LEMMA ForgetCompleteTyped ==
    ASSUME TInv, NEW i \in Items, NEW op, NEW k, ForgetComplete(i, op, k)
    PROVE  StoreTypeOK' /\ (control \in [Items -> GoodControl])'
<1>1. control \in [Items -> GoodControl] BY DEF TInv, ShapeInv
<1> DEFINE r == [control[i] EXCEPT !.state = "shred_complete"]
<1>2. r \in GoodControl
  BY <1>1 DEF GoodControl, ShredState, ForgetComplete, AcceptsCompletion
<1>3. control' = [control EXCEPT ![i] = r]
  BY <1>1 DEF ForgetComplete
<1>4. control' \in [Items -> GoodControl] BY <1>1, <1>2, <1>3
<1> QED BY <1>4 DEF TInv, TypeOK, StoreTypeOK, ControlType, GoodControl, ForgetComplete

LEMMA AbortTyped ==
    ASSUME TInv, NEW i \in Items, NEW k \in Keys, AbortProvision(i, k)
    PROVE  StoreTypeOK' /\ (control \in [Items -> GoodControl])'
BY DEF TInv, TypeOK, ShapeInv, StoreTypeOK, ControlType, ItemsType, GoodControl, AbortProvision

LEMMA CommitProvisionTyped ==
    ASSUME TInv, NEW k \in Keys, CommitProvision(k)
    PROVE  CustodianTypeOK' /\ (\A j \in Keys : keyState[j] # "not_found" => keyItem[j] \in Items)'
BY DEF TInv, TypeOK, ShapeInv, CustodianTypeOK, KeyStatus, CommitProvision

LEMMA DestroyKeyTyped ==
    ASSUME TInv, NEW k \in Keys, NEW op \in ShredOps, DestroyKey(op, k)
    PROVE  CustodianTypeOK' /\ (\A j \in Keys : keyState[j] # "not_found" => keyItem[j] \in Items)'
BY DEF TInv, TypeOK, ShapeInv, CustodianTypeOK, KeyStatus, DestroyKey, CanDestroy

LEMMA DiscardKeyTyped ==
    ASSUME TInv, NEW k \in Keys, DiscardKey(k)
    PROVE  CustodianTypeOK' /\ (\A j \in Keys : keyState[j] # "not_found" => keyItem[j] \in Items)'
BY DEF TInv, TypeOK, ShapeInv, CustodianTypeOK, KeyStatus, DiscardKey

\* A step that keeps the listed rows, the network, the backup and the budget
\* keeps the invariant when its other parts are well-typed.
LEMMA Assemble ==
    ASSUME TInv, CustodianTypeOK', StoreTypeOK',
           (control \in [Items -> GoodControl])',
           (\A k \in Keys : keyState[k] # "not_found" => keyItem[k] \in Items)',
           proc' \in [Procs -> Call], proc' \in [Procs -> GoodCall],
           sweep' = sweep, backup' = backup, late' \subseteq LateCall,
           budget' \in [DOMAIN Budget -> Nat]
    PROVE  TInv'
BY DEF TInv, TypeOK, ShapeInv, GoodRow

\* Moving a busy process to a step that needs no more than it already holds.
LEMMA GotoGood ==
    ASSUME TInv, NEW p \in Procs, ~At(p, "idle"),
           NEW pc \in {"confirm", "promote", "discard", "reforget"}, Goto(p, pc)
    PROVE  proc' \in [Procs -> Call] /\ proc' \in [Procs -> GoodCall]
<1>1. [proc[p] EXCEPT !.pc = pc] \in GoodCall
  BY DEF TInv, ShapeInv, GoodCall, Call, PC, At
<1>2. proc' = [proc EXCEPT ![p] = [proc[p] EXCEPT !.pc = pc]]
  BY DEF TInv, ShapeInv, Goto
<1> QED BY <1>1, <1>2, ProcUpdate

LEMMA EndGood ==
    ASSUME TInv, NEW p \in Procs, End(p)
    PROVE  proc' \in [Procs -> Call] /\ proc' \in [Procs -> GoodCall]
BY IdleIsGood, ProcUpdate DEF End

\* A busy call holds an item and a key.
LEMMA BusyHolds ==
    ASSUME TInv, NEW p \in Procs, ~At(p, "idle")
    PROVE  proc[p].item \in Items /\ proc[p].key \in Keys
BY DEF TInv, ShapeInv, GoodCall, At

\* Spending what is left of the budget.
LEMMA SpendTyped ==
    ASSUME TInv, NEW what \in {"failures", "lost", "rollbacks", "updates"}, Spend(what)
    PROVE  budget' \in [DOMAIN Budget -> Nat]
BY DEF TInv, TypeOK, Spend

-----------------------------------------------------------------------------
(* One lemma per action.                                                    *)

LEMMA WriteStepsTInv ==
    ASSUME TInv, NEW c \in Clients,
           WriteCommits(c) \/ WriteLoses(c) \/ WriteRaises(c) \/ Confirm(c)
    PROVE  TInv'
<1>1. c \in Procs /\ ~At(c, "idle") /\ proc[c].item \in Items /\ proc[c].key \in Keys
  BY BusyHolds DEF WriteCommits, WriteLoses, WriteRaises, Confirm, At, Procs
<1>2. UNCHANGED <<custodianVars, sweep, late, backup, budget>>
  BY DEF WriteCommits, WriteLoses, WriteRaises, Confirm
<1>3. proc' \in [Procs -> Call] /\ proc' \in [Procs -> GoodCall]
  BY <1>1, GotoGood DEF WriteCommits, WriteLoses, WriteRaises, Confirm
<1>4. StoreTypeOK' /\ (control \in [Items -> GoodControl])'
  BY <1>1, InstallTyped, StoreUnchanged DEF WriteCommits, WriteLoses, WriteRaises, Confirm
<1> QED BY <1>2, <1>3, <1>4, CustodianUnchanged, Assemble DEF TInv, TypeOK

LEMMA PromoteDiscardTInv ==
    ASSUME TInv, NEW p \in Procs, Promote(p) \/ Discard(p)
    PROVE  TInv'
<1>1. proc[p].key \in Keys
  BY BusyHolds DEF Promote, Discard, At
<1>2. UNCHANGED <<storeVars, sweep, late, backup, budget>>
  BY DEF Promote, Discard
<1>3. proc' \in [Procs -> Call] /\ proc' \in [Procs -> GoodCall]
  BY EndGood DEF Promote, Discard
<1>4. CustodianTypeOK' /\ (\A k \in Keys : keyState[k] # "not_found" => keyItem[k] \in Items)'
  BY <1>1, CommitProvisionTyped, DiscardKeyTyped, CustodianUnchanged DEF Promote, Discard
<1> QED BY <1>2, <1>3, <1>4, StoreUnchanged, Assemble DEF TInv, TypeOK

LEMMA UpdateStepsTInv ==
    ASSUME TInv, NEW c \in Clients, FetchKey(c) \/ RunUpdate(c)
    PROVE  TInv'
<1>1. c \in Procs /\ ~At(c, "idle") /\ proc[c].item \in Items /\ proc[c].key \in Keys
  BY BusyHolds DEF FetchKey, RunUpdate, At, Procs
<1>2. UNCHANGED <<custodianVars, sweep, late, backup, budget>>
  BY DEF FetchKey, RunUpdate
<1>3. proc' \in [Procs -> Call] /\ proc' \in [Procs -> GoodCall]
  <2>1. CASE FetchKey(c) /\ keyState[proc[c].key] = "active"
    <3>1. Goto(c, "update") /\ At(c, "fetch") BY <2>1 DEF FetchKey
    <3>2. proc[c].kind = "update"
      BY <3>1, <1>1 DEF TInv, ShapeInv, GoodCall, At
    <3>3. [proc[c] EXCEPT !.pc = "update"] \in GoodCall
      BY <1>1, <3>2 DEF TInv, ShapeInv, GoodCall, Call, PC
    <3>4. proc' = [proc EXCEPT ![c] = [proc[c] EXCEPT !.pc = "update"]]
      BY <3>1 DEF TInv, ShapeInv, Goto
    <3> QED BY <1>1, <3>3, <3>4, ProcUpdate
  <2>2. CASE End(c)
    BY <1>1, <2>2, EndGood
  <2> QED BY <2>1, <2>2 DEF FetchKey, RunUpdate
<1>4. StoreTypeOK' /\ (control \in [Items -> GoodControl])'
  BY <1>1, UpdateTyped, StoreUnchanged DEF FetchKey, RunUpdate
<1> QED BY <1>2, <1>3, <1>4, CustodianUnchanged, Assemble DEF TInv, TypeOK

LEMMA BeginUpdateTInv ==
    ASSUME TInv, NEW c \in Clients, NEW i \in Items, BeginUpdate(c, i)
    PROVE  TInv'
<1> DEFINE q == [pc |-> "fetch", kind |-> "update", item |-> i, key |-> control[i].key, op |-> 0]
<1>1. q \in GoodCall
  BY DEF GoodCall, Call, PC, BeginUpdate, TInv, ShapeInv, GoodControl
<1>2. proc' \in [Procs -> Call] /\ proc' \in [Procs -> GoodCall]
  BY <1>1, ProcUpdate DEF BeginUpdate, Procs
<1>3. UNCHANGED <<custodianVars, storeVars, sweep, late, backup>>
  BY DEF BeginUpdate
<1>4. budget' \in [DOMAIN Budget -> Nat]
  BY SpendTyped DEF BeginUpdate
<1> QED BY <1>2, <1>3, <1>4, StoreUnchanged, CustodianUnchanged, Assemble DEF TInv, TypeOK

LEMMA BeginForgetTInv ==
    ASSUME TInv, NEW c \in Clients, NEW i \in Items, BeginForget(c, i)
    PROVE  TInv'
<1>1. StoreTypeOK' /\ (control \in [Items -> GoodControl])'
  BY ForgetBeginTyped DEF BeginForget
<1>2. proc' \in [Procs -> Call] /\ proc' \in [Procs -> GoodCall]
  <2>1. CASE NeedsDestroy(i)
    <3> DEFINE q == [pc |-> "destroy", kind |-> "forget", item |-> i,
                     key |-> control[i].key, op |-> BeginOp(i)]
    <3>1. BeginOp(i) \in ShredOps /\ control[i].key \in Keys
      BY <2>1, ForgetBeginTyped DEF BeginForget
    <3>2. q \in GoodCall BY <3>1 DEF GoodCall, Call, PC
    <3>3. proc' = [proc EXCEPT ![c] = q] BY <2>1 DEF BeginForget
    <3> QED BY <3>2, <3>3, ProcUpdate DEF Procs
  <2>2. CASE ~NeedsDestroy(i)
    BY <2>2 DEF BeginForget, TInv, TypeOK, ShapeInv
  <2> QED BY <2>1, <2>2
<1>3. UNCHANGED <<custodianVars, sweep, late, backup, budget>>
  BY DEF BeginForget
<1> QED BY <1>1, <1>2, <1>3, CustodianUnchanged, Assemble DEF TInv, TypeOK

LEMMA ShredStepsTInv ==
    ASSUME TInv, NEW p \in Procs, Destroy(p) \/ Complete(p)
    PROVE  TInv'
<1>1. /\ proc[p] \in GoodCall /\ proc[p].pc \in {"destroy", "complete"}
      /\ proc[p].item \in Items /\ proc[p].key \in Keys /\ proc[p].op \in ShredOps
  BY DEF TInv, ShapeInv, GoodCall, Destroy, Complete, At
<1>2. UNCHANGED <<sweep, late, backup, budget>>
  BY DEF Destroy, Complete
<1>3. proc' \in [Procs -> Call] /\ proc' \in [Procs -> GoodCall]
  <2>1. CASE Goto(p, "complete")
    <3>1. [proc[p] EXCEPT !.pc = "complete"] \in GoodCall
      BY <1>1 DEF GoodCall, Call, PC
    <3>2. proc' = [proc EXCEPT ![p] = [proc[p] EXCEPT !.pc = "complete"]]
      BY <2>1 DEF TInv, ShapeInv, Goto
    <3> QED BY <3>1, <3>2, ProcUpdate
  <2>2. CASE End(p)
    BY <2>2, EndGood
  <2> QED BY <2>1, <2>2 DEF Destroy, Complete
<1>4. CustodianTypeOK' /\ (\A k \in Keys : keyState[k] # "not_found" => keyItem[k] \in Items)'
  BY <1>1, DestroyKeyTyped, CustodianUnchanged DEF Destroy, Complete
<1>5. StoreTypeOK' /\ (control \in [Items -> GoodControl])'
  BY <1>1, ForgetCompleteTyped, StoreUnchanged DEF Destroy, Complete
<1> QED BY <1>2, <1>3, <1>4, <1>5, Assemble DEF TInv, TypeOK

LEMMA ListRowsTInv == ASSUME TInv, ListRows PROVE TInv'
<1>1. UNCHANGED <<custodianVars, storeVars, proc, late, backup, budget>>
  BY DEF ListRows
<1>2. PendingRows \in SUBSET {row \in Row : row.item \in Items /\ row.key \in Keys
                                           /\ row.op \in ShredOps}
  BY DEF PendingRows, Row, TInv, ShapeInv, GoodControl
<1>3. StaleRows \in SUBSET {row \in Row : row.item \in Items /\ row.key \in Keys}
  BY DEF StaleRows, StaleProvisioning, Row, TInv, ShapeInv
<1>4. ActiveRows \in SUBSET {row \in Row : row.item \in Items /\ row.key \in Keys}
  BY DEF ActiveRows, Row, TInv, ShapeInv, GoodControl
<1>5. sweep.stage \in Stage BY DEF TInv, TypeOK
<1>6. sweep' \in [stage : Stage, todo : SUBSET Row] /\ (sweep.todo \subseteq GoodRow)'
  <2>1. CASE sweep.stage = "idle"
    <3>1. sweep' = [stage |-> "pending", todo |-> PendingRows] BY <2>1 DEF ListRows
    <3> QED BY <3>1, <1>2 DEF Stage, GoodRow
  <2>2. CASE sweep.stage = "pending"
    <3>1. sweep' = [stage |-> "stale", todo |-> StaleRows] BY <2>2 DEF ListRows
    <3> QED BY <3>1, <1>3 DEF Stage, GoodRow
  <2>3. CASE sweep.stage = "stale"
    <3>1. sweep' = [stage |-> "active", todo |-> ActiveRows] BY <2>3 DEF ListRows
    <3> QED BY <3>1, <1>4 DEF Stage, GoodRow
  <2>4. CASE sweep.stage = "active"
    <3>1. sweep' = IdleSweep BY <2>4 DEF ListRows
    <3> QED BY <3>1 DEF Stage, IdleSweep
  <2> QED BY <1>5, <2>1, <2>2, <2>3, <2>4 DEF Stage
<1>7. proc' \in [Procs -> Call] /\ proc' \in [Procs -> GoodCall]
  BY <1>1 DEF TInv, TypeOK, ShapeInv, GoodCall
<1>8. backup' \in SnapshotType /\ (backup.control \in [Items -> GoodControl])'
  BY <1>1 DEF TInv, TypeOK, ShapeInv, GoodControl
<1> QED BY <1>1, <1>6, <1>7, <1>8, StoreUnchanged, CustodianUnchanged
     DEF TInv, TypeOK, ShapeInv

LEMMA TakeRowTInv ==
    ASSUME TInv, NEW row \in sweep.todo, TakeRow(row) \/ SkipYoung(row)
    PROVE  TInv'
<1>1. UNCHANGED <<custodianVars, storeVars, late, backup, budget>>
  BY DEF TakeRow, SkipYoung
<1>2. row \in GoodRow /\ sweep \in [stage : Stage, todo : SUBSET Row]
  BY DEF TInv, TypeOK, ShapeInv
<1>3. sweep' = [sweep EXCEPT !.todo = sweep.todo \ {row}]
  BY DEF TakeRow, SkipYoung
<1>4. sweep'.stage = sweep.stage /\ sweep'.todo \subseteq sweep.todo
  BY <1>2, <1>3
<1>5. sweep' \in [stage : Stage, todo : SUBSET Row] /\ (sweep.todo \subseteq GoodRow)'
  BY <1>2, <1>3, <1>4 DEF TInv, ShapeInv, GoodRow
<1>6. proc' \in [Procs -> Call] /\ proc' \in [Procs -> GoodCall]
  <2>1. CASE TakeRow(row)
    <3> DEFINE q == [pc |-> FirstStep[sweep.stage], kind |-> "reconcile",
                     item |-> row.item, key |-> row.key, op |-> row.op]
    <3>1. sweep.stage \in {"pending", "stale", "active"}
      BY <1>2 DEF GoodRow, Stage
    <3>2. FirstStep[sweep.stage] \in {"destroy", "fence", "check"}
          /\ (FirstStep[sweep.stage] = "destroy" => sweep.stage = "pending")
      BY <3>1 DEF FirstStep
    <3>3. q \in GoodCall
      BY <1>2, <3>2 DEF GoodRow, Row, GoodCall, Call, PC
    <3>4. proc' = [proc EXCEPT ![Reconciler] = q] BY <2>1 DEF TakeRow
    <3> QED BY <3>3, <3>4, ProcUpdate DEF Procs
  <2>2. CASE SkipYoung(row)
    BY <2>2 DEF SkipYoung, TInv, TypeOK, ShapeInv
  <2> QED BY <2>1, <2>2
<1>8. backup' \in SnapshotType /\ (backup.control \in [Items -> GoodControl])'
  BY <1>1 DEF TInv, TypeOK, ShapeInv, GoodControl
<1> QED BY <1>1, <1>5, <1>6, <1>8, StoreUnchanged, CustodianUnchanged
     DEF TInv, TypeOK, ShapeInv

LEMMA ReconcilerStepsTInv ==
    ASSUME TInv, Fence \/ CheckKey \/ Reforget
    PROVE  TInv'
<1>1. /\ Reconciler \in Procs /\ ~At(Reconciler, "idle")
      /\ proc[Reconciler].item \in Items /\ proc[Reconciler].key \in Keys
  BY BusyHolds DEF Fence, CheckKey, Reforget, At, Procs
<1>2. UNCHANGED <<custodianVars, sweep, late, backup, budget>>
  BY DEF Fence, CheckKey, Reforget
<1>3. StoreTypeOK' /\ (control \in [Items -> GoodControl])'
  BY <1>1, AbortTyped, ForgetBeginTyped, StoreUnchanged DEF Fence, CheckKey, Reforget
<1>4. proc' \in [Procs -> Call] /\ proc' \in [Procs -> GoodCall]
  <2>1. CASE Fence \/ CheckKey
    BY <1>1, <2>1, GotoGood, EndGood DEF Fence, CheckKey
  <2>2. CASE Reforget /\ NeedsDestroy(proc[Reconciler].item)
    <3> DEFINE r == proc[Reconciler]
               q == [r EXCEPT !.pc = "destroy", !.op = BeginOp(r.item)]
    <3>1. BeginOp(r.item) \in ShredOps
      BY <1>1, <2>2, ForgetBeginTyped DEF Reforget
    <3>a. r \in GoodCall
      BY <1>1 DEF TInv, ShapeInv
    <3>2. q \in GoodCall
      BY <1>1, <3>1, <3>a DEF GoodCall, Call, PC
    <3>3. proc' = [proc EXCEPT ![Reconciler] = q]
      BY <2>2 DEF Reforget, TInv, ShapeInv
    <3> QED BY <1>1, <3>2, <3>3, ProcUpdate
  <2>3. CASE End(Reconciler)
    BY <1>1, <2>3, EndGood
  <2> QED BY <2>1, <2>2, <2>3 DEF Reforget
<1> QED BY <1>2, <1>3, <1>4, CustodianUnchanged, Assemble DEF TInv, TypeOK

LEMMA FailTInv == ASSUME TInv, NEW p \in Procs, Fail(p) PROVE TInv'
<1>1. proc[p].item \in Items /\ proc[p].key \in Keys
  BY BusyHolds DEF Fail
<1>2. proc[p].pc \in {"write", "update"} => proc[p].kind \in NewLineage \cup {"update"}
  BY DEF TInv, ShapeInv, GoodCall
<1>3. late' \subseteq LateCall
  BY <1>1, <1>2 DEF Fail, LateCall, TInv, TypeOK
<1>4. proc' \in [Procs -> Call] /\ proc' \in [Procs -> GoodCall]
  BY EndGood DEF Fail
<1>5. sweep' \in [stage : Stage, todo : SUBSET Row] /\ (sweep.todo \subseteq GoodRow)'
  <2>1. CASE sweep' = sweep
    BY <2>1 DEF TInv, TypeOK, ShapeInv, GoodRow
  <2>2. CASE sweep' = IdleSweep
    BY <2>2 DEF IdleSweep, Stage
  <2> QED BY <2>1, <2>2 DEF Fail
<1>6. budget' \in [DOMAIN Budget -> Nat]
  BY SpendTyped DEF Fail
<1>7. UNCHANGED <<custodianVars, storeVars, backup>>
  BY DEF Fail
<1>8. backup' \in SnapshotType /\ (backup.control \in [Items -> GoodControl])'
  BY <1>7 DEF TInv, TypeOK, ShapeInv, GoodControl
<1> QED BY <1>3, <1>4, <1>5, <1>6, <1>7, <1>8, StoreUnchanged, CustodianUnchanged
     DEF TInv, TypeOK, ShapeInv

LEMMA LoseReplyTInv == ASSUME TInv, NEW c \in Clients, LoseReply(c) PROVE TInv'
<1>1. c \in Procs /\ ~At(c, "idle") /\ proc[c].item \in Items /\ proc[c].key \in Keys
  BY BusyHolds DEF LoseReply, At, Procs
<1>2. proc[c].kind \in NewLineage \cup {"update"}
  BY <1>1 DEF LoseReply, TInv, ShapeInv, GoodCall
<1>3. late' \subseteq LateCall
  BY <1>1, <1>2 DEF LoseReply, LateCall, TInv, TypeOK
<1>4. proc' \in [Procs -> Call] /\ proc' \in [Procs -> GoodCall]
  BY <1>1, GotoGood, EndGood DEF LoseReply
<1>5. UNCHANGED <<custodianVars, storeVars, sweep, backup>>
  BY DEF LoseReply
<1>6. budget' \in [DOMAIN Budget -> Nat]
  BY SpendTyped DEF LoseReply
<1> QED BY <1>3, <1>4, <1>5, <1>6, StoreUnchanged, CustodianUnchanged, Assemble

LEMMA NetworkTInv ==
    ASSUME TInv, NEW call \in late, LateWrite(call) \/ LateDrop(call)
    PROVE  TInv'
<1>1. call \in LateCall /\ late' \subseteq LateCall
  BY DEF LateWrite, LateDrop, TInv, TypeOK
<1>2. StoreTypeOK' /\ (control \in [Items -> GoodControl])'
  BY <1>1, InstallTyped, UpdateTyped, StoreUnchanged DEF LateWrite, LateDrop, LateCall
<1>3. UNCHANGED <<custodianVars, proc, sweep, backup, budget>>
  BY DEF LateWrite, LateDrop
<1>4. proc' \in [Procs -> Call] /\ proc' \in [Procs -> GoodCall]
  BY <1>3 DEF TInv, TypeOK, ShapeInv
<1> QED BY <1>1, <1>2, <1>3, <1>4, CustodianUnchanged, Assemble DEF TInv, TypeOK

LEMMA RebuildTInv == ASSUME TInv, RebuildProjection PROVE TInv'
<1>1. UNCHANGED <<custodianVars, control, aborted, shredOps, proc, sweep, late, backup, budget>>
  BY DEF RebuildProjection, Rebuild, authorityVars
<1>2. items' \in ItemsType
  <2>1. items \in ItemsType BY DEF TInv, TypeOK, StoreTypeOK
  <2>2. \A i \in Items : [items[i] EXCEPT !.ct = NoKey] \in ItemRow
    BY <2>1 DEF ItemsType, ItemRow
  <2> QED BY <2>2 DEF RebuildProjection, Rebuild, ItemsType
<1>3. StoreTypeOK' /\ (control \in [Items -> GoodControl])'
  BY <1>1, <1>2 DEF TInv, TypeOK, ShapeInv, StoreTypeOK, GoodControl
<1>4. proc' \in [Procs -> Call] /\ proc' \in [Procs -> GoodCall]
  BY <1>1 DEF TInv, TypeOK, ShapeInv
<1> QED BY <1>1, <1>3, <1>4, CustodianUnchanged, Assemble DEF TInv, TypeOK

LEMMA TakeBackupTInv == ASSUME TInv, TakeBackup PROVE TInv'
<1>1. UNCHANGED <<custodianVars, storeVars, proc, sweep, late, budget>>
  BY DEF TakeBackup
<1>2. backup' \in SnapshotType
  BY DEF TakeBackup, Snapshot, SnapshotType, TInv, TypeOK, StoreTypeOK
<1>3. (backup.control \in [Items -> GoodControl])'
  BY DEF TakeBackup, Snapshot, TInv, ShapeInv, GoodControl
<1>4. proc' \in [Procs -> Call] /\ proc' \in [Procs -> GoodCall]
  BY <1>1 DEF TInv, TypeOK, ShapeInv
<1>5. sweep' \in [stage : Stage, todo : SUBSET Row] /\ (sweep.todo \subseteq GoodRow)'
  BY <1>1 DEF TInv, TypeOK, ShapeInv, GoodRow
<1> QED BY <1>1, <1>2, <1>3, <1>4, <1>5, StoreUnchanged, CustodianUnchanged
     DEF TInv, TypeOK, ShapeInv

LEMMA RollbackTInv == ASSUME TInv, Rollback PROVE TInv'
<1>1. UNCHANGED <<custodianVars, shredOps, backup>>
  BY DEF Rollback
<1>2. StoreTypeOK' /\ (control \in [Items -> GoodControl])'
  BY DEF Rollback, TInv, TypeOK, ShapeInv, StoreTypeOK, SnapshotType, GoodControl
<1>3. proc' \in [Procs -> Call] /\ proc' \in [Procs -> GoodCall]
  BY IdleIsGood DEF Rollback, GoodCall
<1>4. sweep' \in [stage : Stage, todo : SUBSET Row] /\ (sweep.todo \subseteq GoodRow)'
  BY DEF Rollback, IdleSweep, Stage
<1>5. budget' \in [DOMAIN Budget -> Nat]
  BY SpendTyped DEF Rollback
<1>6. late' \subseteq LateCall BY DEF Rollback
<1>7. backup' \in SnapshotType /\ (backup.control \in [Items -> GoodControl])'
  BY <1>1 DEF TInv, TypeOK, ShapeInv, GoodControl
<1> QED BY <1>1, <1>2, <1>3, <1>4, <1>5, <1>6, <1>7, CustodianUnchanged
     DEF TInv, TypeOK, ShapeInv

LEMMA StutterTInv == ASSUME TInv, UNCHANGED vars PROVE TInv'
<1>1. proc' \in [Procs -> Call] /\ proc' \in [Procs -> GoodCall]
  BY DEF vars, authorityVars, TInv, TypeOK, ShapeInv
<1> QED BY <1>1, StoreUnchanged, CustodianUnchanged, Assemble
     DEF vars, authorityVars, TInv, TypeOK

LEMMA NextTInv == TInv /\ [Next]_vars => TInv'
<1> SUFFICES ASSUME TInv, [Next]_vars PROVE TInv' OBVIOUS
<1>1. ASSUME NEW c \in Clients, ClientBegins(c) PROVE TInv'
  BY <1>1, BeginWriteTInv, BeginForgetTInv, BeginUpdateTInv DEF ClientBegins
<1>2. ASSUME NEW c \in Clients, ClientStep(c) PROVE TInv'
  BY <1>2, WriteStepsTInv, PromoteDiscardTInv, UpdateStepsTInv, ShredStepsTInv
     DEF ClientStep, Procs
<1>3. CASE ReconcilerStep
  BY <1>3, ListRowsTInv, TakeRowTInv, ShredStepsTInv, PromoteDiscardTInv,
     ReconcilerStepsTInv DEF ReconcilerStep, Procs
<1>4. CASE Environment
  BY <1>4, FailTInv, LoseReplyTInv, NetworkTInv, RebuildTInv, TakeBackupTInv, RollbackTInv
     DEF Environment, Network
<1>5. CASE UNCHANGED vars
  BY <1>5, StutterTInv
<1> QED BY <1>1, <1>2, <1>3, <1>4, <1>5 DEF Next

\* Every variable has its type in every reachable state, for any constants.
THEOREM TypeCorrect == Spec => []TypeOK
<1>1. TInv => TypeOK BY DEF TInv
<1> QED BY <1>1, InitTInv, NextTInv, PTL DEF Spec

-----------------------------------------------------------------------------
(* Erasure.                                                                 *)

\* Destroyed is terminal: no step of anybody brings a destroyed key back.
LEMMA DestroyedStays ==
    ASSUME TInv, Next, NEW k \in Keys, keyState[k] = "destroyed"
    PROVE  keyState'[k] = "destroyed"
<1>1. keyState \in [Keys -> KeyStatus] BY DEF TInv, TypeOK, CustodianTypeOK
<1>2. ASSUME NEW c \in Clients, ClientBegins(c) PROVE keyState'[k] = "destroyed"
  BY <1>1, <1>2 DEF ClientBegins, BeginWrite, Provision, BeginForget, BeginUpdate, custodianVars
<1>3. ASSUME NEW p \in Procs, Promote(p) \/ Discard(p) \/ Destroy(p) \/ Complete(p)
      PROVE  keyState'[k] = "destroyed"
  BY <1>1, <1>3 DEF Promote, Discard, Destroy, Complete, CommitProvision, DiscardKey,
                    DestroyKey, custodianVars
<1>4. ASSUME NEW c \in Clients, ClientStep(c) PROVE keyState'[k] = "destroyed"
  <2>1. CASE Promote(c) \/ Discard(c) \/ Destroy(c) \/ Complete(c)
    BY <2>1, <1>3 DEF Procs
  <2>2. CASE WriteCommits(c) \/ WriteLoses(c) \/ WriteRaises(c) \/ Confirm(c)
             \/ FetchKey(c) \/ RunUpdate(c)
    BY <2>2 DEF WriteCommits, WriteLoses, WriteRaises, Confirm, FetchKey, RunUpdate,
                custodianVars
  <2> QED BY <1>4, <2>1, <2>2 DEF ClientStep
<1>5. CASE ReconcilerStep
  <2>1. CASE Promote(Reconciler) \/ Discard(Reconciler) \/ Destroy(Reconciler)
             \/ Complete(Reconciler)
    BY <2>1, <1>3 DEF Procs
  <2>2. CASE ListRows \/ Fence \/ CheckKey \/ Reforget
             \/ \E row \in sweep.todo : TakeRow(row) \/ SkipYoung(row)
    BY <2>2 DEF ListRows, Fence, CheckKey, Reforget, TakeRow, SkipYoung, custodianVars
  <2> QED BY <1>5, <2>1, <2>2 DEF ReconcilerStep
<1>6. CASE Environment
  BY <1>6 DEF Environment, Network, Fail, LoseReply, LateWrite, LateDrop, RebuildProjection,
              TakeBackup, Rollback, custodianVars
<1> QED BY <1>2, <1>4, <1>5, <1>6 DEF Next

-----------------------------------------------------------------------------
(* A completed shred names a destroyed key.                                 *)

LEMMA InitErasure == Init => ErasureInv
BY DEF Init, AtRest, StoreInit, Snapshot, Idle, At, ErasureInv, ErasedMeansDestroyed

\* No step of a call or of the reconciler but ForgetComplete declares an
\* erasure, and only a destroy leads to it.
LEMMA ErasureControl ==
    ASSUME TInv, ErasureInv, Next, ~Rollback, NEW i \in Items,
           control'[i].state = "shred_complete"
    PROVE  keyState[control'[i].key] = "destroyed" /\ control'[i].key \in Keys
<1>0. control \in [Items -> GoodControl] BY DEF TInv, ShapeInv
<1>a. CASE control' = control
  BY <1>0, <1>a DEF ErasureInv, ErasedMeansDestroyed, GoodControl
<1>b. ASSUME NEW j \in Items, NEW k \in Keys, InstallLineage(j, k) PROVE control' = control
             \/ (keyState[control'[i].key] = "destroyed" /\ control'[i].key \in Keys)
  BY <1>0, <1>b DEF InstallLineage, ErasureInv, ErasedMeansDestroyed, GoodControl
<1>c. ASSUME NEW j \in Items, ForgetBegin(j)
      PROVE  keyState[control'[i].key] = "destroyed" /\ control'[i].key \in Keys
  BY <1>0, <1>c DEF ForgetBegin, ErasureInv, ErasedMeansDestroyed, GoodControl
<1>d. ASSUME NEW p \in Procs, Complete(p)
      PROVE  keyState[control'[i].key] = "destroyed" /\ control'[i].key \in Keys
  <2>1. keyState[proc[p].key] = "destroyed" /\ proc[p].key \in Keys
    BY <1>d, BusyHolds DEF Complete, ErasureInv, At
  <2> QED BY <1>0, <1>d, <1>a, <2>1 DEF Complete, ForgetComplete, AcceptsCompletion, storeVars,
             ErasureInv, ErasedMeansDestroyed, GoodControl
<1>e. ASSUME NEW c \in Clients, ClientBegins(c)
      PROVE  keyState[control'[i].key] = "destroyed" /\ control'[i].key \in Keys
  BY <1>e, <1>a, <1>c DEF ClientBegins, BeginWrite, BeginForget, BeginUpdate, storeVars
<1>f. ASSUME NEW c \in Clients, ClientStep(c)
      PROVE  keyState[control'[i].key] = "destroyed" /\ control'[i].key \in Keys
  <2>1. CASE WriteCommits(c)
    BY <2>1, <1>a, <1>b, BusyHolds DEF WriteCommits, At, Procs
  <2>2. CASE Complete(c)
    BY <2>2, <1>d DEF Procs
  <2>3. CASE WriteLoses(c) \/ WriteRaises(c) \/ Confirm(c) \/ Promote(c) \/ Discard(c)
             \/ FetchKey(c) \/ RunUpdate(c) \/ Destroy(c)
    BY <2>3, <1>a DEF WriteLoses, WriteRaises, Confirm, Promote, Discard, FetchKey, RunUpdate,
                      UpdateIdentityCt, Destroy, storeVars
  <2> QED BY <1>f, <2>1, <2>2, <2>3 DEF ClientStep
<1>g. CASE ReconcilerStep
  <2>1. CASE Complete(Reconciler)
    BY <2>1, <1>d DEF Procs
  <2>2. CASE Reforget
    BY <2>2, <1>c, BusyHolds DEF Reforget, At, Procs
  <2>3. CASE ListRows \/ Fence \/ CheckKey \/ Promote(Reconciler) \/ Discard(Reconciler)
             \/ Destroy(Reconciler) \/ \E row \in sweep.todo : TakeRow(row) \/ SkipYoung(row)
    BY <2>3, <1>a DEF ListRows, Fence, AbortProvision, CheckKey, Promote, Discard, Destroy,
                      TakeRow, SkipYoung, storeVars
  <2> QED BY <1>g, <2>1, <2>2, <2>3 DEF ReconcilerStep
<1>h. CASE Environment
  <2>1. CASE \E call \in late : LateWrite(call)
    <3>1. PICK call \in late : LateWrite(call) BY <2>1
    <3>2. call \in LateCall BY DEF TInv, TypeOK
    <3> QED BY <3>1, <3>2, <1>a, <1>b DEF LateWrite, LateCall, UpdateIdentityCt
  <2>2. CASE ~\E call \in late : LateWrite(call)
    BY <1>h, <2>2, <1>a DEF Environment, Network, Fail, LoseReply, LateDrop, RebuildProjection,
                            Rebuild, TakeBackup, storeVars
  <2> QED BY <2>1, <2>2
<1> QED BY <1>e, <1>f, <1>g, <1>h DEF Next

\* A process gets to "complete" only by destroying the key it holds.
LEMMA ErasureProc ==
    ASSUME TInv, ErasureInv, Next, NEW p \in Procs, proc'[p].pc = "complete"
    PROVE  keyState'[proc'[p].key] = "destroyed"
<1>0. proc \in [Procs -> GoodCall] /\ keyState \in [Keys -> KeyStatus]
  BY DEF TInv, TypeOK, ShapeInv, CustodianTypeOK
<1>1. ASSUME proc'[p] = proc[p] PROVE keyState'[proc'[p].key] = "destroyed"
  <2>1. At(p, "complete") /\ keyState[proc[p].key] = "destroyed" /\ proc[p].key \in Keys
    BY <1>1, <1>0, BusyHolds DEF ErasureInv, At
  <2> QED BY <1>1, <2>1, DestroyedStays
<1>2. ASSUME NEW q \in Procs, NEW pc \in PC \ {"complete"}, Goto(q, pc) PROVE proc'[p] = proc[p]
  BY <1>0, <1>2 DEF Goto
<1>3. ASSUME NEW q \in Procs, End(q) PROVE proc'[p] = proc[p]
  BY <1>0, <1>3 DEF End, Idle
<1>4. ASSUME NEW q \in Procs, Destroy(q)
      PROVE  keyState'[proc'[p].key] = "destroyed"
  <2>1. CASE DestroyKey(proc[q].op, proc[q].key) /\ Goto(q, "complete")
    <3>1. CASE p = q
      BY <1>0, <1>4, <2>1, <3>1, BusyHolds DEF DestroyKey, Destroy, Goto, At
    <3>2. CASE p # q
      BY <1>0, <1>1, <2>1, <3>2 DEF Goto
    <3> QED BY <3>1, <3>2
  <2>2. CASE End(q)
    BY <2>2, <1>1, <1>3
  <2> QED BY <1>4, <2>1, <2>2 DEF Destroy
<1>5. ASSUME NEW q \in Procs, Promote(q) \/ Discard(q) \/ Complete(q) \/ Fail(q)
      PROVE  keyState'[proc'[p].key] = "destroyed"
  BY <1>5, <1>1, <1>3 DEF Promote, Discard, Complete, Fail
<1>6. ASSUME NEW c \in Clients, ClientBegins(c)
      PROVE  keyState'[proc'[p].key] = "destroyed"
  <2>1. proc'[p] = proc[p]
    BY <1>0, <1>6 DEF ClientBegins, BeginWrite, BeginForget, BeginUpdate, Procs
  <2> QED BY <2>1, <1>1
<1>7. ASSUME NEW c \in Clients, ClientStep(c)
      PROVE  keyState'[proc'[p].key] = "destroyed"
  <2>1. CASE WriteCommits(c) \/ WriteLoses(c) \/ WriteRaises(c) \/ Confirm(c) \/ FetchKey(c)
             \/ RunUpdate(c)
    BY <2>1, <1>1, <1>2, <1>3 DEF WriteCommits, WriteLoses, WriteRaises, Confirm, FetchKey,
                                  RunUpdate, PC, Procs
  <2> QED BY <1>7, <2>1, <1>4, <1>5 DEF ClientStep, Procs
<1>8. CASE ReconcilerStep
  <2>1. CASE \E row \in sweep.todo : TakeRow(row)
    <3>1. PICK row \in sweep.todo : TakeRow(row) BY <2>1
    <3>2. sweep.stage \in {"pending", "stale", "active"}
      BY DEF TInv, TypeOK, ShapeInv, GoodRow, Stage
    <3>3. proc'[p] = proc[p]
      BY <1>0, <3>1, <3>2 DEF TakeRow, FirstStep
    <3> QED BY <3>3, <1>1
  <2>2. CASE Fence \/ CheckKey
    BY <2>2, <1>1, <1>2, <1>3 DEF Fence, CheckKey, PC, Procs
  <2>3. CASE Reforget
    <3>1. CASE End(Reconciler)
      BY <3>1, <1>1, <1>3 DEF Procs
    <3>2. CASE proc' = [proc EXCEPT ![Reconciler].pc = "destroy",
                                    ![Reconciler].op = BeginOp(proc[Reconciler].item)]
      <4>1. p # Reconciler BY <1>0, <3>2
      <4>2. proc'[p] = proc[p] BY <1>0, <3>2, <4>1
      <4> QED BY <4>2, <1>1
    <3> QED BY <2>3, <3>1, <3>2 DEF Reforget
  <2>4. CASE ListRows \/ \E row \in sweep.todo : SkipYoung(row)
    BY <2>4, <1>1 DEF ListRows, SkipYoung
  <2> QED BY <1>8, <2>1, <2>2, <2>3, <2>4, <1>4, <1>5 DEF ReconcilerStep, Procs
<1>9. CASE Environment
  <2>1. CASE Rollback
    BY <2>1 DEF Rollback, Idle
  <2>2. CASE \E c \in Clients : LoseReply(c)
    BY <2>2, <1>1, <1>2, <1>3 DEF LoseReply, PC, Procs
  <2>3. CASE Network \/ RebuildProjection \/ TakeBackup
    BY <2>3, <1>1 DEF Network, LateWrite, LateDrop, RebuildProjection, TakeBackup, authorityVars
  <2> QED BY <1>9, <2>1, <2>2, <2>3, <1>5 DEF Environment
<1> QED BY <1>6, <1>7, <1>8, <1>9 DEF Next

LEMMA ErasureBackup ==
    ASSUME TInv, ErasureInv, Next
    PROVE  (\A i \in Items : backup.control[i].state = "shred_complete" =>
                              keyState[backup.control[i].key] = "destroyed")'
<1>1. \A i \in Items : backup'.control[i].state = "shred_complete" =>
         keyState[backup'.control[i].key] = "destroyed" /\ backup'.control[i].key \in Keys
  <2>1. CASE TakeBackup
    BY <2>1 DEF TakeBackup, Snapshot, ErasureInv, ErasedMeansDestroyed, TInv, ShapeInv, GoodControl
  <2>2. CASE backup' = backup
    BY <2>2 DEF ErasureInv, TInv, ShapeInv, GoodControl
  <2>3. backup' = backup \/ TakeBackup
    BY DEF Next, ClientBegins, BeginWrite, BeginForget, BeginUpdate, ClientStep, WriteCommits,
           WriteLoses, WriteRaises, Confirm, Promote, Discard, FetchKey, RunUpdate, Destroy,
           Complete, ReconcilerStep, ListRows, TakeRow, SkipYoung, Fence, CheckKey, Reforget,
           Environment, Fail, LoseReply, Network, LateWrite, LateDrop, RebuildProjection,
           Rollback, authorityVars
  <2> QED BY <2>1, <2>2, <2>3
<1> QED BY <1>1, DestroyedStays

LEMMA NextErasure == TInv /\ ErasureInv /\ [Next]_vars => ErasureInv'
<1> SUFFICES ASSUME TInv, ErasureInv, [Next]_vars PROVE ErasureInv' OBVIOUS
<1>1. CASE Next
  <2>1. ErasedMeansDestroyed'
    <3>1. CASE ~Rollback
      <4> SUFFICES ASSUME NEW i \in Items, control'[i].state = "shred_complete"
                   PROVE  keyState'[control'[i].key] = "destroyed"
        BY DEF ErasedMeansDestroyed
      <4> QED BY <1>1, <3>1, ErasureControl, DestroyedStays
    <3>2. CASE Rollback
      BY <3>2 DEF Rollback, ErasureInv, ErasedMeansDestroyed, custodianVars
    <3> QED BY <3>1, <3>2
  <2>2. (\A p \in Procs : At(p, "complete") => keyState[proc[p].key] = "destroyed")'
    BY <1>1, ErasureProc DEF At
  <2> QED BY <1>1, <2>1, <2>2, ErasureBackup DEF ErasureInv
<1>2. CASE UNCHANGED vars
  BY <1>2 DEF vars, custodianVars, storeVars, authorityVars, ErasureInv, ErasedMeansDestroyed, At
<1> QED BY <1>1, <1>2

\* A shred is recorded complete only when its key is destroyed: with any number
\* of clients, failures, late transactions, and rollbacks of the database.
THEOREM ErasureSound == Spec => []ErasedMeansDestroyed
<1>1. TInv /\ ErasureInv /\ [Next]_vars => (TInv /\ ErasureInv)'
  BY NextTInv, NextErasure
<1>2. Init => TInv /\ ErasureInv BY InitTInv, InitErasure
<1>3. ErasureInv => ErasedMeansDestroyed BY DEF ErasureInv
<1> QED BY <1>1, <1>2, <1>3, PTL DEF Spec

-----------------------------------------------------------------------------
(* What the database rows say of each other: the fence of aborted           *)
(* operations, and the projection against the lineage.  Both follow from a   *)
(* classification of the steps by what they do to the database (StoreSteps); *)
(* the fence also needs that a key is held for one item only (OwnerInv).     *)

\* The ways a step of the system may change the database.
StoreStep ==
    \/ UNCHANGED storeVars
    \/ \E kind \in NewLineage, i \in Items, k \in Keys :
          Commits(kind, i, k) /\ InstallLineage(i, k)
    \/ \E i \in Items, k \in Keys : UpdateIdentityCt(i, k)
    \/ \E i \in Items : ForgetBegin(i)
    \/ \E i \in Items, op \in ShredOps, k \in Keys : ForgetComplete(i, op, k)
    \/ At(Reconciler, "fence") /\ AbortProvision(proc[Reconciler].item, proc[Reconciler].key)
    \/ Rebuild
    \/ Rollback

\* Every step is one of these: no operation touches the rows on the side.
LEMMA StoreSteps == ASSUME TInv, Next PROVE StoreStep
<1>1. ASSUME NEW c \in Clients, ClientBegins(c) PROVE StoreStep
  BY <1>1 DEF ClientBegins, BeginWrite, BeginForget, BeginUpdate, StoreStep
<1>2. ASSUME NEW p \in Procs, Promote(p) \/ Discard(p) \/ Destroy(p) \/ Complete(p)
      PROVE  StoreStep
  <2>1. CASE Promote(p) \/ Discard(p) \/ Destroy(p)
    BY <2>1 DEF Promote, Discard, Destroy, StoreStep
  <2>2. CASE Complete(p)
    <3>1. proc[p].item \in Items /\ proc[p].key \in Keys /\ proc[p].op \in ShredOps
      BY <2>2 DEF Complete, At, TInv, ShapeInv, GoodCall
    <3> QED BY <2>2, <3>1 DEF Complete, StoreStep
  <2> QED BY <1>2, <2>1, <2>2
<1>3. ASSUME NEW c \in Clients, ClientStep(c) PROVE StoreStep
  <2>0. c \in Procs BY DEF Procs
  <2>1. CASE WriteCommits(c)
    <3>1. proc[c].item \in Items /\ proc[c].key \in Keys /\ proc[c].kind \in NewLineage
      BY <2>0, <2>1 DEF WriteCommits, At, TInv, ShapeInv, GoodCall
    <3> QED BY <2>1, <3>1 DEF WriteCommits, StoreStep
  <2>2. CASE RunUpdate(c)
    <3>1. proc[c].item \in Items /\ proc[c].key \in Keys
      BY <2>0, <2>2, BusyHolds DEF RunUpdate, At
    <3> QED BY <2>2, <3>1 DEF RunUpdate, StoreStep
  <2>3. CASE WriteLoses(c) \/ WriteRaises(c) \/ Confirm(c) \/ FetchKey(c)
    BY <2>3 DEF WriteLoses, WriteRaises, Confirm, FetchKey, StoreStep
  <2> QED BY <1>2, <1>3, <2>0, <2>1, <2>2, <2>3 DEF ClientStep
<1>4. CASE ReconcilerStep
  <2>0. Reconciler \in Procs BY DEF Procs
  <2>1. CASE Fence
    BY <2>1 DEF Fence, StoreStep
  <2>2. CASE Reforget
    <3>1. proc[Reconciler].item \in Items
      BY <2>0, <2>2, BusyHolds DEF Reforget, At
    <3> QED BY <2>2, <3>1 DEF Reforget, StoreStep
  <2>3. CASE ListRows \/ CheckKey \/ \E row \in sweep.todo : TakeRow(row) \/ SkipYoung(row)
    BY <2>3 DEF ListRows, CheckKey, TakeRow, SkipYoung, StoreStep
  <2> QED BY <1>2, <1>4, <2>0, <2>1, <2>2, <2>3 DEF ReconcilerStep
<1>5. CASE Environment
  <2>1. ASSUME NEW call \in late, LateWrite(call) PROVE StoreStep
    <3>1. call \in LateCall BY DEF TInv, TypeOK
    <3> QED BY <2>1, <3>1 DEF LateWrite, LateCall, StoreStep
  <2>2. CASE ~\E call \in late : LateWrite(call)
    BY <1>5, <2>2 DEF Environment, Network, Fail, LoseReply, LateDrop, RebuildProjection,
                      TakeBackup, StoreStep
  <2> QED BY <2>1, <2>2
<1> QED BY <1>1, <1>3, <1>4, <1>5 DEF Next

\* The backup only ever changes into what the database holds.
LEMMA BackupSteps == Next => TakeBackup \/ backup' = backup
BY DEF Next, ClientBegins, BeginWrite, BeginForget, BeginUpdate, ClientStep, WriteCommits,
       WriteLoses, WriteRaises, Confirm, Promote, Discard, FetchKey, RunUpdate, Destroy,
       Complete, ReconcilerStep, ListRows, TakeRow, SkipYoung, Fence, CheckKey, Reforget,
       Environment, Fail, LoseReply, Network, LateWrite, LateDrop, RebuildProjection,
       Rollback, authorityVars

-----------------------------------------------------------------------------
(* The projection agrees with the lineage.                                  *)

LEMMA InitProjection == Init => ProjectionInv
BY DEF Init, AtRest, StoreInit, Snapshot, ProjectionInv, ProjectionAgreesWithLineage

LEMMA NextProjection == TInv /\ ProjectionInv /\ [Next]_vars => ProjectionInv'
<1> SUFFICES ASSUME TInv, ProjectionInv, [Next]_vars PROVE ProjectionInv' OBVIOUS
<1>0. control \in ControlType /\ items \in ItemsType
  BY DEF TInv, TypeOK, StoreTypeOK
<1>1. CASE Next
  <2>1. ProjectionAgreesWithLineage'
    <3> SUFFICES ASSUME NEW i \in Items
                 PROVE  /\ control'[i].state = "active" => items'[i].phase = "present"
                        /\ control'[i].state \in {"shred_pending", "shred_complete"} =>
                              items'[i].phase = "forgotten"
                        /\ items'[i].ct # NoKey => control'[i].state = "active"
      BY DEF ProjectionAgreesWithLineage
    <3> USE <1>0 DEF ControlType, ItemsType
    <3>1. /\ control[i].state = "active" => items[i].phase = "present"
          /\ control[i].state \in {"shred_pending", "shred_complete"} =>
                items[i].phase = "forgotten"
          /\ items[i].ct # NoKey => control[i].state = "active"
      BY DEF ProjectionInv, ProjectionAgreesWithLineage
    <3>2. CASE UNCHANGED storeVars
      BY <3>1, <3>2 DEF storeVars
    <3>3. ASSUME NEW j \in Items, NEW k \in Keys, InstallLineage(j, k)
          PROVE  ProjectionAgreesWithLineage'
      <4> SUFFICES ASSUME NEW h \in Items
                   PROVE  /\ control'[h].state = "active" => items'[h].phase = "present"
                          /\ control'[h].state \in {"shred_pending", "shred_complete"} =>
                                items'[h].phase = "forgotten"
                          /\ items'[h].ct # NoKey => control'[h].state = "active"
        BY DEF ProjectionAgreesWithLineage
      <4> QED BY <3>3 DEF InstallLineage, ProjectionInv, ProjectionAgreesWithLineage
    <3>4. ASSUME NEW j \in Items, NEW k \in Keys, UpdateIdentityCt(j, k)
          PROVE  control' = control /\ items'[i].phase = items[i].phase
                 /\ (i # j => items'[i] = items[i]) /\ control[j].state = "active"
      <4>1. items[i] \in ItemRow OBVIOUS
      <4>2. CASE i = j
        BY <3>4, <4>1, <4>2 DEF UpdateIdentityCt, AcceptsUpdate, ItemRow
      <4>3. CASE i # j
        BY <3>4, <4>3 DEF UpdateIdentityCt, AcceptsUpdate
      <4> QED BY <4>2, <4>3
    <3>5. ASSUME NEW j \in Items, ForgetBegin(j)
          PROVE  /\ i = j => /\ items'[i].phase = "forgotten" /\ items'[i].ct = NoKey
                             /\ control'[i].state # "active"
                 /\ i # j => control'[i] = control[i] /\ items'[i] = items[i]
      <4>1. items[i] \in ItemRow /\ control[i].state \in ShredState OBVIOUS
      <4>2. CASE i = j
        BY <3>5, <4>1, <4>2 DEF ForgetBegin, ItemRow
      <4>3. CASE i # j
        BY <3>5, <4>3 DEF ForgetBegin
      <4> QED BY <4>2, <4>3
    <3>6. ASSUME NEW j \in Items, NEW op \in ShredOps, NEW k \in Keys, ForgetComplete(j, op, k)
          PROVE  /\ items' = items
                 /\ i = j => control[i].state = "shred_pending"
                             /\ control'[i].state = "shred_complete"
                 /\ i # j => control'[i] = control[i]
      BY <3>6 DEF ForgetComplete, AcceptsCompletion
    <3>7. CASE AbortProvision(proc[Reconciler].item, proc[Reconciler].key)
      BY <3>1, <3>7 DEF AbortProvision
    <3>8. CASE Rebuild
      <4>1. items[i] \in ItemRow OBVIOUS
      <4>2. items'[i].phase = items[i].phase /\ items'[i].ct = NoKey
        BY <3>8, <4>1 DEF Rebuild, ItemRow
      <4> QED BY <3>1, <3>8, <4>2 DEF Rebuild
    <3>9. CASE Rollback
      BY <3>9 DEF Rollback, ProjectionInv
    <3>10. CASE \E kind \in NewLineage, j \in Items, k \in Keys :
                  Commits(kind, j, k) /\ InstallLineage(j, k)
      BY <3>3, <3>10 DEF ProjectionAgreesWithLineage
    <3>11. CASE \E j \in Items, k \in Keys : UpdateIdentityCt(j, k)
      BY <3>1, <3>4, <3>11
    <3>12. CASE \E j \in Items : ForgetBegin(j)
      BY <3>1, <3>5, <3>12
    <3>13. CASE \E j \in Items, op \in ShredOps, k \in Keys : ForgetComplete(j, op, k)
      BY <3>1, <3>6, <3>13
    <3> QED BY <1>1, <3>2, <3>7, <3>8, <3>9, <3>10, <3>11, <3>12, <3>13, StoreSteps
            DEF StoreStep
  <2>2. CASE TakeBackup
    BY <2>1, <2>2 DEF TakeBackup, Snapshot, storeVars, ProjectionInv, ProjectionAgreesWithLineage
  <2>3. CASE backup' = backup
    BY <2>1, <2>3 DEF ProjectionInv
  <2> QED BY <1>1, <2>2, <2>3, BackupSteps
<1>2. CASE UNCHANGED vars
  BY <1>2 DEF vars, storeVars, authorityVars, ProjectionInv, ProjectionAgreesWithLineage
<1> QED BY <1>1, <1>2

\* A live lineage has a present item, one being erased or erased a forgotten
\* item without ciphertext, and ciphertext exists only under a live lineage:
\* through every write, forget, late transaction, rebuild and rollback.
THEOREM ProjectionSound == Spec => []ProjectionAgreesWithLineage
<1>1. TInv /\ ProjectionInv /\ [Next]_vars => (TInv /\ ProjectionInv)'
  BY NextTInv, NextProjection
<1>2. Init => TInv /\ ProjectionInv BY InitTInv, InitProjection
<1>3. ProjectionInv => ProjectionAgreesWithLineage BY DEF ProjectionInv
<1> QED BY <1>1, <1>2, <1>3, PTL DEF Spec

-----------------------------------------------------------------------------
(* A key is held for one item only.                                         *)

\* Who a key was minted for never changes.
LEMMA MintedStays ==
    ASSUME TInv, Next, NEW k \in Keys, NEW i \in Items, MintedFor(k, i)
    PROVE  MintedFor(k, i)'
<1>0. keyState \in [Keys -> KeyStatus] /\ keyItem \in [Keys -> Items \cup {NoItem}]
  BY DEF TInv, TypeOK, CustodianTypeOK
<1> USE <1>0 DEF MintedFor
<1>1. CASE UNCHANGED custodianVars
  BY <1>1 DEF custodianVars
<1>2. ASSUME NEW p \in Procs, Promote(p) \/ Discard(p) \/ Destroy(p) PROVE MintedFor(k, i)'
  <2>1. proc[p].key \in Keys
    BY <1>2, BusyHolds DEF Promote, Discard, Destroy, At
  <2> QED BY <1>1, <1>2, <2>1 DEF Promote, Discard, Destroy, CommitProvision, DiscardKey, DestroyKey
<1>3. ASSUME NEW c \in Clients, ClientBegins(c) PROVE MintedFor(k, i)'
  BY <1>1, <1>3 DEF ClientBegins, BeginWrite, Provision, BeginForget, BeginUpdate
<1>4. ASSUME NEW c \in Clients, ClientStep(c) PROVE MintedFor(k, i)'
  BY <1>1, <1>2, <1>4 DEF ClientStep, WriteCommits, WriteLoses, WriteRaises, Confirm, FetchKey,
                          RunUpdate, Complete, Procs
<1>5. CASE ReconcilerStep
  BY <1>1, <1>2, <1>5 DEF ReconcilerStep, ListRows, TakeRow, SkipYoung, Fence, CheckKey, Reforget,
                          Complete, Procs
<1>6. CASE Environment
  BY <1>1, <1>6 DEF Environment, Network, Fail, LoseReply, LateWrite, LateDrop,
                    RebuildProjection, TakeBackup, Rollback
<1> QED BY <1>3, <1>4, <1>5, <1>6 DEF Next

\* The parts of OwnerInv, each named for what holds the key.
RowsOwned == \A i \in Items : control[i].key # NoKey => MintedFor(control[i].key, i)
BackupOwned ==
    \A i \in Items : backup.control[i].key # NoKey => MintedFor(backup.control[i].key, i)
CallOwned(p) == MintedFor(proc[p].key, proc[p].item)
CallsOwned ==
    \A p \in Procs : proc[p].pc \in {"write", "fence"} => MintedFor(proc[p].key, proc[p].item)
SweepOwned == sweep.stage = "stale" => \A row \in sweep.todo : MintedFor(row.key, row.item)
LateOwned == \A call \in late : call.kind \in NewLineage => MintedFor(call.key, call.item)

LEMMA OwnerParts ==
    OwnerInv <=> RowsOwned /\ BackupOwned /\ CallsOwned /\ SweepOwned /\ LateOwned
BY DEF OwnerInv, RowsOwned, BackupOwned, CallsOwned, SweepOwned, LateOwned

LEMMA InitOwner == Init => OwnerInv
BY DEF Init, AtRest, StoreInit, Snapshot, Idle, IdleSweep, OwnerInv

\* Where a row's key comes from: the row itself, the call that commits it, a
\* lost transaction, or the backup.
LEMMA RowsStayOwned == ASSUME TInv, OwnerInv, Next PROVE RowsOwned'
<1>0. control \in ControlType /\ backup.control \in ControlType
  BY DEF TInv, TypeOK, StoreTypeOK, SnapshotType
<1> SUFFICES ASSUME NEW i \in Items, control'[i].key # NoKey
             PROVE  MintedFor(control'[i].key, i) /\ control'[i].key \in Keys
  BY MintedStays DEF RowsOwned, MintedFor
<1> USE <1>0 DEF ControlType
<1>1. CASE control'[i].key = control[i].key
  BY <1>1 DEF OwnerInv
<1>2. ASSUME NEW j \in Items, NEW k \in Keys, MintedFor(k, j), InstallLineage(j, k)
      PROVE  MintedFor(control'[i].key, i) /\ control'[i].key \in Keys
  BY <1>1, <1>2 DEF InstallLineage
<1>3. CASE Rollback
  BY <1>3 DEF Rollback, OwnerInv
<1>4. CASE \E c \in Clients : WriteCommits(c)
  <2>1. PICK c \in Clients : WriteCommits(c) BY <1>4
  <2>2. MintedFor(proc[c].key, proc[c].item) /\ proc[c].item \in Items /\ proc[c].key \in Keys
    BY <2>1, BusyHolds DEF WriteCommits, At, OwnerInv, Procs
  <2> QED BY <2>1, <2>2, <1>2 DEF WriteCommits
<1>5. CASE \E call \in late : LateWrite(call)
  <2>1. PICK call \in late : LateWrite(call) BY <1>5
  <2>2. call \in LateCall BY DEF TInv, TypeOK
  <2>3. CASE call.kind \in NewLineage /\ InstallLineage(call.item, call.key)
    BY <2>2, <2>3, <1>2 DEF OwnerInv, LateCall
  <2>4. CASE UpdateIdentityCt(call.item, call.key)
    BY <2>4, <1>1 DEF UpdateIdentityCt
  <2> QED BY <2>1, <2>3, <2>4 DEF LateWrite
<1>6. ASSUME NEW j \in Items, ForgetBegin(j) PROVE control'[i].key = control[i].key
  <2>1. CASE control[j].state = "active"
    BY <1>6, <2>1 DEF ForgetBegin
  <2>2. CASE control[j].state # "active"
    BY <1>6, <2>2 DEF ForgetBegin
  <2> QED BY <2>1, <2>2
<1>7. ASSUME NEW p \in Procs, Promote(p) \/ Discard(p) \/ Destroy(p) \/ Complete(p)
      PROVE  control'[i].key = control[i].key
  BY <1>7 DEF Promote, Discard, Destroy, Complete, ForgetComplete, storeVars
<1>8. CASE \E c \in Clients : ClientBegins(c)
  BY <1>1, <1>6, <1>8 DEF ClientBegins, BeginWrite, BeginForget, BeginUpdate, storeVars
<1>9. CASE \E c \in Clients : ClientStep(c)
  <2>1. PICK c \in Clients : ClientStep(c) BY <1>9
  <2>2. CASE ~WriteCommits(c)
    BY <1>1, <1>7, <2>1, <2>2 DEF ClientStep, WriteLoses, WriteRaises, Confirm, FetchKey,
                                  RunUpdate, UpdateIdentityCt, storeVars, Procs
  <2> QED BY <1>4, <2>2
<1>10. CASE ReconcilerStep
  <2>1. Reconciler \in Procs BY DEF Procs
  <2>2. CASE Reforget
    <3>1. proc[Reconciler].item \in Items BY <2>1, <2>2, BusyHolds DEF Reforget, At
    <3> QED BY <1>1, <1>6, <2>2, <3>1 DEF Reforget
  <2> QED BY <1>1, <1>7, <1>10, <2>1, <2>2
          DEF ReconcilerStep, ListRows, TakeRow, SkipYoung, Fence, AbortProvision, CheckKey, storeVars
<1>11. CASE Environment
  BY <1>1, <1>3, <1>5, <1>11 DEF Environment, Network, Fail, LoseReply, LateDrop,
                                 RebuildProjection, Rebuild, TakeBackup, storeVars
<1> QED BY <1>8, <1>9, <1>10, <1>11 DEF Next

LEMMA BackupStaysOwned == ASSUME TInv, OwnerInv, Next PROVE BackupOwned'
<1>0. control \in ControlType /\ backup.control \in ControlType
  BY DEF TInv, TypeOK, StoreTypeOK, SnapshotType
<1>1. \A i \in Items : backup'.control[i].key # NoKey =>
         MintedFor(backup'.control[i].key, i) /\ backup'.control[i].key \in Keys
  BY <1>0, BackupSteps DEF TakeBackup, Snapshot, OwnerInv, ControlType
<1> QED BY <1>1, MintedStays DEF BackupOwned, MintedFor

\* A call reaches "write" with the key it has just minted, and the reconciler
\* reaches "fence" with a row it listed.
LEMMA CallsStayOwned == ASSUME TInv, OwnerInv, Next PROVE CallsOwned'
<1>0. proc \in [Procs -> GoodCall] BY DEF TInv, ShapeInv
<1> SUFFICES ASSUME NEW p \in Procs, proc'[p].pc \in {"write", "fence"}
             PROVE  CallOwned(p)'
  BY DEF CallsOwned, CallOwned, MintedFor
<1>1. CASE proc'[p] = proc[p]
  <2>1. MintedFor(proc[p].key, proc[p].item) /\ proc[p].key \in Keys /\ proc[p].item \in Items
    BY <1>1, BusyHolds DEF OwnerInv, At
  <2> QED BY <1>1, <2>1, MintedStays DEF MintedFor, CallOwned
<1>2. ASSUME NEW q \in Procs, NEW pc \in PC \ {"write", "fence"}, Goto(q, pc)
      PROVE  proc'[p] = proc[p]
  BY <1>0, <1>2 DEF Goto
<1>3. ASSUME NEW q \in Procs, End(q) PROVE proc'[p] = proc[p]
  BY <1>0, <1>3 DEF End, Idle
<1>4. ASSUME NEW q \in Procs,
             Promote(q) \/ Discard(q) \/ Destroy(q) \/ Complete(q) \/ Fail(q)
      PROVE  proc'[p] = proc[p]
  BY <1>2, <1>3, <1>4 DEF Promote, Discard, Destroy, Complete, Fail, PC
<1>5. ASSUME NEW c \in Clients, ClientBegins(c) PROVE CallOwned(p)'
  <2>1. CASE \E kind \in NewLineage, i \in Items, k \in Keys : BeginWrite(c, kind, i, k)
    <3>1. PICK kind \in NewLineage, i \in Items, k \in Keys : BeginWrite(c, kind, i, k) BY <2>1
    <3>2. CASE p = c
      <4>1. proc'[p].key = k /\ proc'[p].item = i
        BY <1>0, <3>1, <3>2 DEF BeginWrite, Procs
      <4>2. keyState'[k] = "provisional" /\ keyItem'[k] = i
        BY <3>1 DEF BeginWrite, Provision, TInv, TypeOK, CustodianTypeOK
      <4> QED BY <4>1, <4>2 DEF MintedFor, CallOwned
    <3>3. CASE p # c
      BY <1>0, <1>1, <3>1, <3>3 DEF BeginWrite
    <3> QED BY <3>2, <3>3
  <2>2. CASE \E i \in Items : BeginForget(c, i) \/ BeginUpdate(c, i)
    <3>1. proc'[p] = proc[p]
      BY <1>0, <2>2 DEF BeginForget, BeginUpdate, Procs
    <3> QED BY <1>1, <3>1
  <2> QED BY <1>5, <2>1, <2>2 DEF ClientBegins
<1>6. ASSUME NEW c \in Clients, ClientStep(c) PROVE proc'[p] = proc[p]
  <2>1. CASE WriteCommits(c) \/ WriteLoses(c) \/ WriteRaises(c) \/ Confirm(c) \/ FetchKey(c)
             \/ RunUpdate(c)
    BY <2>1, <1>2, <1>3 DEF WriteCommits, WriteLoses, WriteRaises, Confirm, FetchKey,
                            RunUpdate, PC, Procs
  <2> QED BY <1>6, <2>1, <1>4 DEF ClientStep, Procs
<1>7. CASE ReconcilerStep
  <2>1. CASE \E row \in sweep.todo : TakeRow(row)
    <3>1. PICK row \in sweep.todo : TakeRow(row) BY <2>1
    <3>2. row.item \in Items /\ row.key \in Keys /\ sweep.stage \in {"pending", "stale", "active"}
      BY DEF TInv, TypeOK, ShapeInv, GoodRow, Stage
    <3>3. CASE p = Reconciler
      <4>1. /\ proc'[p].key = row.key /\ proc'[p].item = row.item
            /\ proc'[p].pc = FirstStep[sweep.stage]
        BY <1>0, <3>1, <3>3 DEF TakeRow
      <4>2. sweep.stage = "stale"
        BY <3>2, <4>1 DEF FirstStep
      <4>3. MintedFor(row.key, row.item)
        BY <4>2 DEF OwnerInv
      <4> QED BY <3>2, <4>1, <4>3, MintedStays DEF MintedFor, CallOwned
    <3>4. CASE p # Reconciler
      BY <1>0, <1>1, <3>1, <3>4 DEF TakeRow
    <3> QED BY <3>3, <3>4
  <2>2. CASE Fence \/ CheckKey
    BY <2>2, <1>1, <1>2, <1>3 DEF Fence, CheckKey, PC, Procs
  <2>3. CASE Reforget
    <3>1. proc'[p] = proc[p]
      <4>1. CASE End(Reconciler)
        BY <4>1, <1>3 DEF Procs
      <4>2. CASE proc' = [proc EXCEPT ![Reconciler].pc = "destroy",
                                      ![Reconciler].op = BeginOp(proc[Reconciler].item)]
        <5>1. p # Reconciler BY <1>0, <4>2
        <5> QED BY <1>0, <4>2, <5>1
      <4> QED BY <2>3, <4>1, <4>2 DEF Reforget
    <3> QED BY <1>1, <3>1
  <2>4. CASE ListRows \/ \E row \in sweep.todo : SkipYoung(row)
    BY <2>4, <1>1 DEF ListRows, SkipYoung
  <2> QED BY <1>7, <2>1, <2>2, <2>3, <2>4, <1>1, <1>4 DEF ReconcilerStep, Procs
<1>8. CASE Environment
  <2>1. CASE Rollback
    BY <2>1 DEF Rollback, Idle
  <2>2. CASE \E c \in Clients : LoseReply(c)
    BY <2>2, <1>1, <1>2, <1>3 DEF LoseReply, PC, Procs
  <2>3. CASE Network \/ RebuildProjection \/ TakeBackup
    BY <2>3, <1>1 DEF Network, LateWrite, LateDrop, RebuildProjection, TakeBackup, authorityVars
  <2> QED BY <1>8, <2>1, <2>2, <2>3, <1>1, <1>4 DEF Environment
<1> QED BY <1>1, <1>5, <1>6, <1>7, <1>8 DEF Next

LEMMA SweepStaysOwned == ASSUME TInv, OwnerInv, Next PROVE SweepOwned'
<1>1. SUFFICES ASSUME NEW row \in sweep'.todo, sweep'.stage = "stale"
               PROVE  MintedFor(row.key, row.item) /\ row.key \in Keys /\ row.item \in Items
  BY MintedStays DEF SweepOwned, MintedFor
<1>2. sweep \in [stage : Stage, todo : SUBSET Row] /\ sweep.todo \subseteq GoodRow
  BY DEF TInv, TypeOK, ShapeInv
<1>3. CASE sweep'.stage = sweep.stage /\ sweep'.todo \subseteq sweep.todo
  BY <1>1, <1>2, <1>3 DEF OwnerInv, GoodRow
<1>4. CASE ListRows
  <2>1. CASE sweep.stage = "pending"
    <3>1. row \in StaleRows BY <1>1, <1>4, <2>1 DEF ListRows
    <3>2. PICK k \in StaleProvisioning : row = [item |-> keyItem[k], key |-> k, op |-> 0]
      BY <3>1 DEF StaleRows
    <3>3. k \in Keys /\ keyState[k] = "provisional" BY <3>2 DEF StaleProvisioning
    <3> QED BY <3>2, <3>3 DEF MintedFor, TInv, ShapeInv
  <2>2. CASE sweep.stage # "pending"
    BY <1>1, <1>2, <1>4, <2>2 DEF ListRows, Stage, IdleSweep
  <2> QED BY <2>1, <2>2
<1>5. CASE sweep' = IdleSweep
  BY <1>1, <1>5 DEF IdleSweep
<1>6. CASE \E r \in sweep.todo : TakeRow(r) \/ SkipYoung(r)
  BY <1>2, <1>3, <1>6 DEF TakeRow, SkipYoung
<1>7. sweep' = sweep \/ ListRows \/ sweep' = IdleSweep
      \/ \E r \in sweep.todo : TakeRow(r) \/ SkipYoung(r)
  BY DEF Next, ClientBegins, BeginWrite, BeginForget, BeginUpdate, ClientStep, WriteCommits,
         WriteLoses, WriteRaises, Confirm, Promote, Discard, FetchKey, RunUpdate, Destroy,
         Complete, ReconcilerStep, Fence, CheckKey, Reforget, Environment, Fail, LoseReply,
         Network, LateWrite, LateDrop, RebuildProjection, TakeBackup, Rollback, authorityVars
<1> QED BY <1>3, <1>4, <1>5, <1>6, <1>7

\* A lost transaction keeps the key its call had minted.
LEMMA LateStaysOwned == ASSUME TInv, OwnerInv, Next PROVE LateOwned'
<1>1. SUFFICES ASSUME NEW call \in late', call.kind \in NewLineage
               PROVE  MintedFor(call.key, call.item) /\ call.key \in Keys /\ call.item \in Items
  BY MintedStays DEF LateOwned, MintedFor
<1>2. CASE late' \subseteq late
  BY <1>1, <1>2 DEF OwnerInv, TInv, TypeOK, LateCall
<1>3. ASSUME NEW p \in Procs, proc[p].pc \in {"write", "update"},
             late' = late \cup {[kind |-> proc[p].kind, item |-> proc[p].item,
                                 key |-> proc[p].key]}
      PROVE  MintedFor(call.key, call.item) /\ call.key \in Keys /\ call.item \in Items
  <2>1. CASE call \in late
    BY <1>1, <2>1 DEF OwnerInv, TInv, TypeOK, LateCall
  <2>2. CASE call = [kind |-> proc[p].kind, item |-> proc[p].item, key |-> proc[p].key]
    <3>1. proc[p].pc = "write"
      BY <1>1, <1>3, <2>2 DEF TInv, ShapeInv, GoodCall, NewLineage
    <3> QED BY <2>2, <3>1, BusyHolds DEF OwnerInv, At
  <2> QED BY <1>1, <1>3, <2>1, <2>2
<1>4. CASE \E p \in Procs : Fail(p)
  <2>1. PICK p \in Procs : Fail(p) BY <1>4
  <2>2. late' = late \/ (proc[p].pc \in {"write", "update"} /\
           late' = late \cup {[kind |-> proc[p].kind, item |-> proc[p].item,
                               key |-> proc[p].key]})
    BY <2>1 DEF Fail
  <2> QED BY <2>2, <1>2, <1>3
<1>5. CASE \E c \in Clients : LoseReply(c)
  BY <1>3, <1>5 DEF LoseReply, Procs
<1>6. late' \subseteq late \/ (\E p \in Procs : Fail(p)) \/ \E c \in Clients : LoseReply(c)
  BY DEF Next, ClientBegins, BeginWrite, BeginForget, BeginUpdate, ClientStep, WriteCommits,
         WriteLoses, WriteRaises, Confirm, Promote, Discard, FetchKey, RunUpdate, Destroy,
         Complete, ReconcilerStep, ListRows, TakeRow, SkipYoung, Fence, CheckKey, Reforget,
         Environment, Network, LateWrite, LateDrop, RebuildProjection, TakeBackup, Rollback,
         authorityVars
<1> QED BY <1>2, <1>4, <1>5, <1>6

LEMMA NextOwner == TInv /\ OwnerInv /\ [Next]_vars => OwnerInv'
<1> SUFFICES ASSUME TInv, OwnerInv, [Next]_vars PROVE OwnerInv' OBVIOUS
<1>1. CASE Next
  BY <1>1, RowsStayOwned, BackupStaysOwned, CallsStayOwned, SweepStaysOwned, LateStaysOwned
     DEF OwnerInv, RowsOwned, BackupOwned, CallsOwned, SweepOwned, LateOwned
<1>2. CASE UNCHANGED vars
  BY <1>2 DEF vars, custodianVars, storeVars, authorityVars, OwnerInv, MintedFor
<1> QED BY <1>1, <1>2

-----------------------------------------------------------------------------
(* An aborted operation has not established a lineage and never will.       *)

LEMMA InitFence == Init => FenceInv
BY DEF Init, AtRest, StoreInit, Snapshot, FenceInv, FencedNeverCommits

LEMMA NextFence == TInv /\ OwnerInv /\ FenceInv /\ [Next]_vars => FenceInv'
<1> SUFFICES ASSUME TInv, OwnerInv, FenceInv, [Next]_vars PROVE FenceInv' OBVIOUS
<1>0. control \in ControlType /\ aborted \subseteq Keys
  BY DEF TInv, TypeOK, StoreTypeOK
<1>1. CASE Next
  <2>1. ASSUME NEW i \in Items PROVE control'[i].key \notin aborted'
    <3> USE <1>0 DEF ControlType
    <3>0. control[i].key \notin aborted BY DEF FenceInv, FencedNeverCommits
    <3>1. CASE control'[i].key = control[i].key /\ aborted' = aborted
      BY <3>0, <3>1
    <3>2. CASE \E kind \in NewLineage, j \in Items, k \in Keys :
                 Commits(kind, j, k) /\ InstallLineage(j, k)
      BY <3>0, <3>2 DEF Commits, InstallLineage
    <3>3. CASE \E j \in Items : ForgetBegin(j)
      <4>1. PICK j \in Items : ForgetBegin(j) BY <3>3
      <4>2. CASE control[j].state = "active"
        BY <3>1, <4>1, <4>2 DEF ForgetBegin
      <4>3. CASE control[j].state # "active"
        BY <3>1, <4>1, <4>3 DEF ForgetBegin
      <4> QED BY <4>2, <4>3
    <3>4. CASE \E j \in Items, op \in ShredOps, k \in Keys : ForgetComplete(j, op, k)
      BY <3>1, <3>4 DEF ForgetComplete
    <3>5. CASE At(Reconciler, "fence")
               /\ AbortProvision(proc[Reconciler].item, proc[Reconciler].key)
      <4> DEFINE r == proc[Reconciler]
      <4>1. r.item \in Items /\ r.key \in Keys /\ MintedFor(r.key, r.item)
        BY <3>5, BusyHolds DEF At, OwnerInv, Procs
      <4>2. control[i].key # r.key
        <5>1. CASE i = r.item
          BY <3>5, <5>1 DEF AbortProvision, CommittedByOp
        <5>2. CASE i # r.item
          <6>1. control[i].key # NoKey => MintedFor(control[i].key, i) BY DEF OwnerInv
          <6> QED BY <4>1, <5>2, <6>1, NoKeyAssumption DEF MintedFor
        <5> QED BY <5>1, <5>2
      <4> QED BY <3>0, <3>5, <4>2 DEF AbortProvision
    <3>6. CASE Rollback
      BY <3>6 DEF Rollback, FenceInv
    <3>7. CASE UNCHANGED storeVars \/ Rebuild \/ \E j \in Items, k \in Keys : UpdateIdentityCt(j, k)
      BY <3>1, <3>7 DEF storeVars, Rebuild, UpdateIdentityCt
    <3> QED BY <1>1, <3>2, <3>3, <3>4, <3>5, <3>6, <3>7, StoreSteps DEF StoreStep
  <2>2. CASE TakeBackup
    BY <2>1, <2>2 DEF TakeBackup, Snapshot, FenceInv, FencedNeverCommits
  <2>3. CASE backup' = backup
    BY <2>1, <2>3 DEF FenceInv, FencedNeverCommits
  <2> QED BY <1>1, <2>2, <2>3, BackupSteps
<1>2. CASE UNCHANGED vars
  BY <1>2 DEF vars, storeVars, authorityVars, FenceInv, FencedNeverCommits
<1> QED BY <1>1, <1>2

\* No row of the database ever names the key of an operation the reconciler has
\* fenced, however late the operation's transaction arrives and whatever
\* backup was restored.
THEOREM FenceSound == Spec => []FencedNeverCommits
<1>1. TInv /\ OwnerInv /\ FenceInv /\ [Next]_vars => (TInv /\ OwnerInv /\ FenceInv)'
  BY NextTInv, NextOwner, NextFence
<1>2. Init => TInv /\ OwnerInv /\ FenceInv BY InitTInv, InitOwner, InitFence
<1>3. FenceInv => FencedNeverCommits BY DEF FenceInv
<1> QED BY <1>1, <1>2, <1>3, PTL DEF Spec

-----------------------------------------------------------------------------

LEMMA InitIInv == Init => IInv
BY InitTInv, InitOwner, InitErasure, InitFence, InitProjection DEF IInv, TInv

LEMMA NextIInv == IInv /\ [Next]_vars => IInv'
<1> SUFFICES ASSUME IInv, [Next]_vars PROVE IInv' OBVIOUS
<1>1. TInv /\ OwnerInv /\ ErasureInv /\ FenceInv /\ ProjectionInv BY DEF IInv, TInv
<1>2. TInv' BY <1>1, NextTInv
<1>3. OwnerInv' /\ ErasureInv' /\ FenceInv' /\ ProjectionInv'
  BY <1>1, NextOwner, NextErasure, NextFence, NextProjection
<1> QED BY <1>2, <1>3 DEF IInv, TInv

\* The invariant the model checker runs beside the properties is inductive, part
\* by part, and so holds in every reachable state for any constants.
THEOREM InductiveSound == Spec => []IInv
BY InitIInv, NextIInv, PTL DEF Spec

-----------------------------------------------------------------------------
(* The promise.  The authority keeps ErasurePromise until a reply is lost   *)
(* or an old backup is restored.  Two kinds of facts carry the proof: what  *)
(* the promise itself preserves (PromiseFacts, and that a dead key stays    *)
(* dead), and what the calls, the network and the reconciler's list know of *)
(* the keys they hold (OneHolder, DeadEnds).                                *)

\* One call or one lost transaction can still commit a key, and the reconciler is not one.
OneHolder ==
    /\ ~At(Reconciler, "write")
    /\ \A c, d \in Clients :
          At(c, "write") /\ At(d, "write") /\ proc[c].key = proc[d].key => c = d
    /\ \A c \in Clients, call \in late :
          At(c, "write") /\ call.kind \in NewLineage => call.key # proc[c].key
    /\ \A a, b \in late :
          a.kind \in NewLineage /\ b.kind \in NewLineage /\ a.key = b.key => a = b

\* What the promise says of its own variables.
PromiseFacts ==
    /\ \A k \in Keys : k \in Fresh => k \notin Gone
    /\ \A i \in Items : control[i].key \notin Fresh
    /\ \A i \in Items : control[i].state = "active" => control[i].key \notin Gone

\* No live lineage is under k, and none will be.
Dead(k) == k \notin Fresh /\ \A i \in Items : control[i].key = k => control[i].state # "active"

\* Whoever is about to destroy a key holds a dead one.
Doomed == {"confirm", "discard", "reforget", "destroy"}
CallsDead == \A p \in Procs : proc[p].pc \in Doomed => Dead(proc[p].key)
ListDead == sweep.stage = "pending" => \A row \in sweep.todo : Dead(row.key)
DeadEnds == CallsDead /\ ListDead

Known == TInv /\ OwnerInv /\ ErasureInv /\ FenceInv
Quiet == OneHolder /\ PromiseFacts /\ DeadEnds
PromiseStep == [Promise!Next]_(Promise!vars)
Keeps == PromiseStep /\ OneHolder' /\ DeadEnds'

\* The interventions left are at most those granted.
Spent == budget.lost \leq Budget.lost /\ budget.rollbacks \leq Budget.rollbacks

PromiseInv == Spent /\ (Undisturbed => Quiet)

-----------------------------------------------------------------------------
(* What the promise preserves.                                              *)

LEMMA FactsStay ==
    ASSUME PromiseFacts, PromiseStep, TInv
    PROVE  PromiseFacts' /\ \A k \in Keys : Dead(k) => Dead(k)'
<1>0. /\ Fresh \subseteq Keys /\ Gone \subseteq Keys
      /\ \A i \in Items : Lineage[i].state = control[i].state /\ Lineage[i].key = control[i].key
  BY DEF Fresh, Gone, Lineage
<1>0a. /\ \A i \in Items : /\ Lineage'[i].state = control'[i].state
                          /\ Lineage'[i].key = control'[i].key
       /\ \A i \in Items : Lineage[i] = [state |-> Lineage[i].state, key |-> Lineage[i].key]
       /\ Lineage = [i \in Items |-> Lineage[i]]
  BY DEF Lineage
<1> USE DEF PromiseFacts, Dead
<1>1. ASSUME NEW i \in Items, NEW k \in Keys, Promise!Start(i, k)
      PROVE  PromiseFacts' /\ \A j \in Keys : Dead(j) => Dead(j)'
  <2>1. /\ Lineage'[i].state = "active" /\ Lineage'[i].key = k /\ k \in Fresh \ Gone
        /\ \A j \in Items \ {i} : Lineage'[j] = Lineage[j]
        /\ Fresh' = Fresh \ {k} /\ Gone' = Gone
    BY <1>1, <1>0a DEF Promise!Start
  <2> QED BY <1>0, <1>0a, <2>1
<1>2. ASSUME NEW i \in Items, Promise!Forget(i) \/ Promise!DeclareErased(i)
      PROVE  PromiseFacts' /\ \A j \in Keys : Dead(j) => Dead(j)'
  <2>1. /\ Lineage'[i].state # "active" /\ Lineage'[i].key = Lineage[i].key
        /\ \A j \in Items \ {i} : Lineage'[j] = Lineage[j]
        /\ Fresh' = Fresh /\ Gone' = Gone
    BY <1>2, <1>0a DEF Promise!Forget, Promise!DeclareErased
  <2> QED BY <1>0, <1>0a, <2>1
<1>3. ASSUME NEW k \in Keys, Promise!Withdraw(k) \/ Promise!Erase(k)
      PROVE  PromiseFacts' /\ \A j \in Keys : Dead(j) => Dead(j)'
  BY <1>0, <1>0a, <1>3 DEF Promise!Withdraw, Promise!Erase
<1>4. CASE UNCHANGED Promise!vars
  BY <1>0, <1>0a, <1>4 DEF Promise!vars
<1> QED BY <1>1, <1>2, <1>3, <1>4 DEF PromiseStep, Promise!Next

-----------------------------------------------------------------------------
(* The steps of the promise, as the code takes them.                        *)

LEMMA Unseen ==
    ASSUME control' = control, Fresh' = Fresh,
           \A k \in Keys : keyState'[k] = "destroyed" <=> keyState[k] = "destroyed"
    PROVE  PromiseStep
BY DEF PromiseStep, Promise!vars, Lineage, Gone

LEMMA Starts ==
    ASSUME TInv, PromiseFacts, NEW kind \in NewLineage, NEW i \in Items, NEW k \in Keys,
           Commits(kind, i, k), InstallLineage(i, k), k \in Fresh,
           Fresh' = Fresh \ {k}, keyState' = keyState
    PROVE  PromiseStep
<1>1. Lineage' = [Lineage EXCEPT ![i] = [state |-> "active", key |-> k]]
  BY DEF TInv, TypeOK, StoreTypeOK, ControlType, InstallLineage, Lineage
<1>2. Lineage[i].state \in {"none", "shred_complete"}
  BY DEF Commits, Lineage
<1>3. k \in Fresh \ Gone /\ Gone' = Gone
  BY DEF PromiseFacts, Gone
<1>4. Promise!Start(i, k) BY <1>1, <1>2, <1>3 DEF Promise!Start
<1> QED BY <1>4 DEF PromiseStep, Promise!Next

LEMMA Withdraws ==
    ASSUME NEW k \in Keys, control' = control, keyState' = keyState, Fresh' = Fresh \ {k}
    PROVE  PromiseStep
<1>1. Promise!Withdraw(k) BY DEF Promise!Withdraw, Lineage, Gone
<1> QED BY <1>1 DEF PromiseStep, Promise!Next

LEMMA Erases ==
    ASSUME TInv, NEW k \in Keys, Dead(k), control' = control, Fresh' = Fresh,
           keyState' = [keyState EXCEPT ![k] = "destroyed"]
    PROVE  PromiseStep
<1>1. Gone' = Gone \cup {k}
  BY DEF TInv, TypeOK, CustodianTypeOK, Gone
<1>2. Promise!Erase(k) BY <1>1 DEF Promise!Erase, Dead, Lineage
<1> QED BY <1>2 DEF PromiseStep, Promise!Next

LEMMA Forgets ==
    ASSUME TInv, NEW i \in Items, ForgetBegin(i), Fresh' = Fresh, keyState' = keyState
    PROVE  /\ PromiseStep
           /\ \A j \in Items : control'[j].key = control[j].key
           /\ NeedsDestroy(i) => control'[i].state # "active"
           /\ \A j \in Items \ {i} : control'[j].state = control[j].state
<1>0. control \in ControlType BY DEF TInv, TypeOK, StoreTypeOK
<1>1. CASE control[i].state = "active"
  <2>1. control' = [control EXCEPT ![i].state = "shred_pending", ![i].op = shredOps + 1]
    BY <1>1 DEF ForgetBegin
  <2>2. Lineage' = [Lineage EXCEPT ![i].state = "shred_pending"]
    BY <1>0, <2>1 DEF ControlType, Lineage
  <2>3. Promise!Forget(i)
    BY <1>1, <2>2 DEF Promise!Forget, Lineage, Gone
  <2> QED BY <1>0, <2>1, <2>3 DEF ControlType, PromiseStep, Promise!Next
<1>2. CASE control[i].state # "active"
  BY <1>2, Unseen DEF ForgetBegin
<1> QED BY <1>1, <1>2

LEMMA Declares ==
    ASSUME TInv, NEW i \in Items, NEW op, NEW k \in Keys, ForgetComplete(i, op, k),
           keyState[k] = "destroyed", Fresh' = Fresh, keyState' = keyState
    PROVE  PromiseStep
<1>0. control \in ControlType /\ control' = [control EXCEPT ![i].state = "shred_complete"]
  BY DEF TInv, TypeOK, StoreTypeOK, ForgetComplete
<1>1. Lineage' = [Lineage EXCEPT ![i].state = "shred_complete"]
  BY <1>0 DEF ControlType, Lineage
<1>2. Promise!DeclareErased(i)
  BY <1>1 DEF Promise!DeclareErased, ForgetComplete, AcceptsCompletion, Lineage, Gone
<1> QED BY <1>2 DEF PromiseStep, Promise!Next

-----------------------------------------------------------------------------
(* Who may still commit a key.                                              *)

LEMMA GotoCall ==
    ASSUME TInv, NEW p \in Procs, NEW pc, Goto(p, pc)
    PROVE  /\ proc'[p].pc = pc /\ proc'[p].key = proc[p].key
           /\ \A q \in Procs \ {p} : proc'[q] = proc[q]
BY DEF TInv, TypeOK, Call, Goto

LEMMA EndCall ==
    ASSUME TInv, NEW p \in Procs, End(p)
    PROVE  proc'[p].pc = "idle" /\ \A q \in Procs \ {p} : proc'[q] = proc[q]
BY DEF TInv, TypeOK, Idle, End

\* Nobody starts or stops to write, in a call or in the network.
SameHolders ==
    /\ \A p \in Procs : (At(p, "write") \/ At(p, "write")') =>
          At(p, "write") /\ At(p, "write")' /\ proc'[p].key = proc[p].key
    /\ \A call \in late \cup late' : call.kind \in NewLineage => call \in late /\ call \in late'

LEMMA HoldersKept == ASSUME OneHolder, SameHolders PROVE OneHolder'
<1>1. Clients \subseteq Procs /\ Reconciler \in Procs BY DEF Procs
<1> QED BY <1>1 DEF OneHolder, SameHolders

LEMMA FreshKept ==
    ASSUME SameHolders, aborted' = aborted,
           \A k \in Keys : keyState'[k] = "not_found" <=> keyState[k] = "not_found"
    PROVE  Fresh' = Fresh
<1>1. Clients \subseteq Procs BY DEF Procs
<1>2. ASSUME NEW k \in Keys PROVE MayStillCommit(k)' <=> MayStillCommit(k)
  BY <1>1 DEF SameHolders, MayStillCommit
<1> QED BY <1>2 DEF Fresh

\* A process that is not writing goes on without beginning to.
LEMMA NotWriting ==
    ASSUME NEW p \in Procs, ~At(p, "write"), ~At(p, "write")',
           \A q \in Procs \ {p} : proc'[q] = proc[q],
           \A call \in late \cup late' : call.kind \in NewLineage => call \in late /\ call \in late'
    PROVE  SameHolders
BY DEF SameHolders, At

\* A writer that stops takes its key with it: nobody else can commit it.
LEMMA LeavesWrite ==
    ASSUME TInv, OwnerInv, OneHolder, NEW c \in Clients, At(c, "write"), ~At(c, "write")',
           \A q \in Procs \ {c} : proc'[q] = proc[q],
           late' = late, keyState' = keyState, aborted' = aborted
    PROVE  Fresh' = Fresh \ {proc[c].key} /\ OneHolder'
<1>0. Clients \subseteq Procs /\ Reconciler \in Procs /\ c # Reconciler
  BY ReconcilerAssumption DEF Procs
<1>1. keyState[proc[c].key] # "not_found"
  BY <1>0 DEF OwnerInv, MintedFor, At
<1>2. ASSUME NEW k \in Keys PROVE MayStillCommit(k)' <=> MayStillCommit(k) /\ k # proc[c].key
  BY <1>0, <1>1 DEF OneHolder, MayStillCommit, At
<1>3. OneHolder'
  BY <1>0 DEF OneHolder, At
<1> QED BY <1>2, <1>3 DEF Fresh

\* So does a lost transaction.
LEMMA LeavesNetwork ==
    ASSUME TInv, OwnerInv, OneHolder, NEW call \in late, late' = late \ {call},
           proc' = proc, keyState' = keyState, aborted' = aborted
    PROVE  /\ OneHolder'
           /\ call.kind \in NewLineage => Fresh' = Fresh \ {call.key}
           /\ call.kind \notin NewLineage => Fresh' = Fresh
<1>1. OneHolder' BY DEF OneHolder, At
<1>2. CASE call.kind \in NewLineage
  <2>1. keyState[call.key] # "not_found"
    BY <1>2 DEF OwnerInv, MintedFor
  <2>2. ASSUME NEW k \in Keys PROVE MayStillCommit(k)' <=> MayStillCommit(k) /\ k # call.key
    BY <1>2, <2>1 DEF OneHolder, MayStillCommit, At
  <2> QED BY <1>1, <1>2, <2>2 DEF Fresh
<1>3. CASE call.kind \notin NewLineage
  <2>1. SameHolders BY <1>3 DEF SameHolders, At
  <2> QED BY <1>1, <1>3, <2>1, FreshKept
<1> QED BY <1>2, <1>3

-----------------------------------------------------------------------------
(* Who is about to destroy a key.                                           *)

\* One process moved: what it may be about to destroy is dead, before or after the step.
LEMMA CallsStayDead ==
    ASSUME TInv, Quiet, PromiseStep, NEW p \in Procs, \A q \in Procs \ {p} : proc'[q] = proc[q],
           NEW k \in Keys,
           proc'[p].pc \in Doomed => proc'[p].key = k /\ (Dead(k) \/ Dead(k)')
    PROVE  CallsDead'
<1>1. \A j \in Keys : Dead(j) => Dead(j)' BY FactsStay DEF Quiet
<1>2. CASE proc'[p].pc \in Doomed
  <2>1. ASSUME NEW q \in Procs, proc'[q].pc \in Doomed
        PROVE  \E j \in Keys : proc'[q].key = j /\ Dead(j)'
    <3>1. CASE q = p BY <1>1, <1>2, <3>1
    <3>2. CASE q # p
      <4>1. proc'[q] = proc[q] /\ ~At(q, "idle") BY <2>1, <3>2 DEF Doomed, At
      <4>2. proc[q].key \in Keys BY <4>1, BusyHolds
      <4>3. Dead(proc[q].key) BY <2>1, <4>1 DEF Quiet, DeadEnds, CallsDead
      <4> QED BY <1>1, <4>1, <4>2, <4>3
    <3> QED BY <3>1, <3>2
  <2> QED BY <2>1 DEF CallsDead, Dead
<1>3. CASE proc'[p].pc \notin Doomed
  <2>1. ASSUME NEW q \in Procs, proc'[q].pc \in Doomed
        PROVE  \E j \in Keys : proc'[q].key = j /\ Dead(j)'
    <3>1. proc'[q] = proc[q] /\ ~At(q, "idle") BY <1>3, <2>1 DEF Doomed, At
    <3>2. proc[q].key \in Keys BY <3>1, BusyHolds
    <3>3. Dead(proc[q].key) BY <2>1, <3>1 DEF Quiet, DeadEnds, CallsDead
    <3> QED BY <1>1, <3>1, <3>2, <3>3
  <2> QED BY <2>1 DEF CallsDead, Dead
<1> QED BY <1>2, <1>3

LEMMA SameCallsDead ==
    ASSUME TInv, Quiet, PromiseStep, proc' = proc
    PROVE  CallsDead'
<1>1. \A j \in Keys : Dead(j) => Dead(j)' BY FactsStay DEF Quiet
<1>2. ASSUME NEW q \in Procs, proc'[q].pc \in Doomed
      PROVE  \E j \in Keys : proc'[q].key = j /\ Dead(j)'
  <2>1. ~At(q, "idle") BY <1>2 DEF Doomed, At
  <2>2. proc[q].key \in Keys BY <2>1, BusyHolds
  <2>3. Dead(proc[q].key) BY <1>2 DEF Quiet, DeadEnds, CallsDead
  <2> QED BY <1>1, <2>2, <2>3
<1> QED BY <1>2 DEF CallsDead, Dead

LEMMA ListStaysDead ==
    ASSUME TInv, Quiet, PromiseStep, sweep'.stage = sweep.stage, sweep'.todo \subseteq sweep.todo
    PROVE  ListDead'
<1>1. \A j \in Keys : Dead(j) => Dead(j)' BY FactsStay DEF Quiet
<1>2. ASSUME sweep'.stage = "pending", NEW row \in sweep'.todo
      PROVE  \E j \in Keys : row.key = j /\ Dead(j)'
  BY <1>1, <1>2 DEF TInv, ShapeInv, GoodRow, Quiet, DeadEnds, ListDead
<1> QED BY <1>2 DEF ListDead, Dead

-----------------------------------------------------------------------------
(* One lemma per kind of step.                                              *)

\* The end of a write: it commits, loses the race, raises, or its process dies.
LEMMA BeginWriteKeeps ==
    ASSUME Known, Quiet, NEW c \in Clients, NEW kind \in NewLineage, NEW i \in Items,
           NEW k \in Keys, BeginWrite(c, kind, i, k)
    PROVE  Keeps
<1>0. Clients \subseteq Procs /\ Reconciler \in Procs /\ c # Reconciler
  BY ReconcilerAssumption DEF Procs
<1>1. /\ proc'[c].pc = "write" /\ proc'[c].key = k /\ \A q \in Procs \ {c} : proc'[q] = proc[q]
      /\ keyState[k] = "not_found" /\ keyState' = [keyState EXCEPT ![k] = "provisional"]
      /\ ~At(c, "write") /\ UNCHANGED <<control, aborted, late, sweep>>
  BY <1>0 DEF BeginWrite, Provision, storeVars, Known, TInv, TypeOK, At
<1>2. /\ \A d \in Clients : At(d, "write") => proc[d].key # k
      /\ \A call \in late : call.kind \in NewLineage => call.key # k
  BY <1>0, <1>1 DEF Known, OwnerInv, MintedFor, At
<1>3. OneHolder'
  BY <1>0, <1>1, <1>2 DEF Quiet, OneHolder, At
<1>4. Fresh' = Fresh
  <2>1. keyState \in [Keys -> KeyStatus] BY DEF Known, TInv, TypeOK, CustodianTypeOK
  <2>2. ASSUME NEW j \in Keys PROVE MayStillCommit(j)' <=> MayStillCommit(j)
    <3>1. CASE j = k BY <1>1, <3>1 DEF MayStillCommit, At
    <3>2. CASE j # k BY <1>1, <1>0, <2>1, <3>2 DEF MayStillCommit, At
    <3> QED BY <3>1, <3>2
  <2> QED BY <1>1, <2>2 DEF Fresh
<1>5. PromiseStep
  BY <1>1, <1>4, Unseen DEF Known, TInv, TypeOK, CustodianTypeOK
<1>6. CallsDead'
  BY <1>0, <1>1, <1>5, CallsStayDead DEF Known, Doomed
<1> QED BY <1>1, <1>3, <1>5, <1>6, ListStaysDead DEF Keeps, DeadEnds, Known

\* What a call that is writing holds.
LEMMA Writing ==
    ASSUME Known, Quiet, NEW c \in Clients, At(c, "write")
    PROVE  /\ c \in Procs /\ proc[c].item \in Items /\ proc[c].key \in Keys
           /\ proc[c].kind \in NewLineage
           /\ \A i \in Items : control[i].key # proc[c].key
           /\ proc[c].key \notin aborted => proc[c].key \in Fresh
<1>1. c \in Procs BY DEF Procs
<1>2. proc[c].item \in Items /\ proc[c].key \in Keys
  BY <1>1, BusyHolds DEF Known, At
<1>3. proc[c].kind \in NewLineage
  BY <1>1 DEF Known, TInv, ShapeInv, GoodCall, At
<1>4. proc[c].key \notin aborted => proc[c].key \in Fresh
  BY <1>2 DEF Fresh, MayStillCommit
<1> QED BY <1>1, <1>2, <1>3, <1>4 DEF Known, FenceInv, FencedNeverCommits, Quiet, PromiseFacts

\* A write ends: it commits, loses the race or raises.
LEMMA WriteEndsKeeps ==
    ASSUME Known, Quiet, NEW c \in Clients, WriteCommits(c) \/ WriteLoses(c) \/ WriteRaises(c)
    PROVE  Keeps
<1>k. PICK k : k = proc[c].key OBVIOUS
<1>0. At(c, "write") /\ UNCHANGED <<custodianVars, sweep, late, aborted>>
  BY DEF WriteCommits, WriteLoses, WriteRaises, InstallLineage, storeVars
<1>1. /\ c \in Procs /\ proc[c].item \in Items /\ k \in Keys /\ proc[c].kind \in NewLineage
      /\ \A i \in Items : control[i].key # k
      /\ k \notin aborted => k \in Fresh
  BY <1>k, <1>0, Writing
<1>2. PICK pc \in {"promote", "discard", "confirm"} :
          /\ Goto(c, pc) /\ (pc = "promote" => WriteCommits(c))
          /\ pc # "promote" => UNCHANGED storeVars
  BY DEF WriteCommits, WriteLoses, WriteRaises
<1>3. proc'[c].pc = pc /\ proc'[c].key = k /\ \A q \in Procs \ {c} : proc'[q] = proc[q]
  BY <1>k, <1>1, <1>2, GotoCall DEF Known
<1>4. Fresh' = Fresh \ {k} /\ OneHolder'
  BY <1>k, <1>0, <1>3, LeavesWrite DEF Known, Quiet, At, custodianVars
<1>5. PromiseStep
  <2>1. CASE pc = "promote"
    <3>1. Commits(proc[c].kind, proc[c].item, k) /\ InstallLineage(proc[c].item, k)
      BY <1>k, <1>2, <2>1 DEF WriteCommits
    <3>2. k \in Fresh BY <1>1, <3>1 DEF Commits
    <3> QED BY <1>0, <1>1, <1>4, <3>1, <3>2, Starts DEF Known, Quiet, custodianVars
  <2>2. CASE pc # "promote"
    BY <1>0, <1>1, <1>2, <1>4, <2>2, Withdraws DEF custodianVars, storeVars
  <2> QED BY <2>1, <2>2
<1>6. pc # "promote" => Dead(k)'
  BY <1>1, <1>2, <1>4 DEF Dead, storeVars
<1>7. CallsDead'
  BY <1>1, <1>3, <1>5, <1>6, CallsStayDead DEF Known, Doomed
<1> QED BY <1>0, <1>4, <1>5, <1>7, ListStaysDead DEF Keeps, DeadEnds, Known

\* A step of one process that the promise does not see: it was not writing, it does
\* not begin to, and a key it may be about to destroy now was dead before.
LEMMA UnseenKeeps ==
    ASSUME Known, Quiet, NEW p \in Procs, \A q \in Procs \ {p} : proc'[q] = proc[q],
           ~At(p, "write"), ~At(p, "write")', NEW k \in Keys,
           proc'[p].pc \in Doomed => proc'[p].key = k /\ Dead(k),
           UNCHANGED <<control, aborted>>,
           \A j \in Keys : /\ keyState'[j] = "destroyed" <=> keyState[j] = "destroyed"
                           /\ keyState'[j] = "not_found" <=> keyState[j] = "not_found",
           \A call \in late \cup late' : call.kind \in NewLineage => call \in late /\ call \in late'
    PROVE  PromiseStep /\ OneHolder' /\ CallsDead'
<1>1. SameHolders BY NotWriting
<1>2. OneHolder' BY <1>1, HoldersKept DEF Quiet
<1>3. PromiseStep BY <1>1, FreshKept, Unseen
<1> QED BY <1>2, <1>3, CallsStayDead DEF Known

LEMMA ClientUnseenKeeps ==
    ASSUME Known, Quiet, NEW c \in Clients,
           Confirm(c) \/ FetchKey(c) \/ RunUpdate(c) \/ \E i \in Items : BeginUpdate(c, i)
    PROVE  Keeps
<1>0. c \in Procs BY DEF Procs
<1>1. UNCHANGED <<custodianVars, control, aborted, sweep, late>> /\ ~At(c, "write")
  BY DEF Confirm, FetchKey, RunUpdate, BeginUpdate, UpdateIdentityCt, storeVars, At
<1>2. \A q \in Procs \ {c} : proc'[q] = proc[q]
  <2>1. CASE Confirm(c) \/ FetchKey(c) \/ RunUpdate(c)
    BY <1>0, <2>1, GotoCall, EndCall DEF Confirm, FetchKey, RunUpdate, Known
  <2>2. CASE \E i \in Items : BeginUpdate(c, i)
    BY <1>0, <2>2 DEF BeginUpdate, Known, TInv, TypeOK
  <2> QED BY <2>1, <2>2
<1>3. ~At(c, "write")' /\ (proc'[c].pc \in Doomed => Confirm(c))
  BY <1>0, GotoCall, EndCall DEF Confirm, FetchKey, RunUpdate, BeginUpdate, Known, At, Doomed,
     TInv, TypeOK
<1>4. \E k \in Keys : proc'[c].pc \in Doomed => proc'[c].key = k /\ Dead(k)
  <2>1. CASE Confirm(c)
    <3>1. proc[c].key \in Keys /\ proc[c].pc \in Doomed
      BY <1>0, <2>1, BusyHolds DEF Confirm, Known, At, Doomed
    <3>2. proc'[c].key = proc[c].key
      BY <1>0, <2>1, GotoCall DEF Confirm, Known
    <3> QED BY <1>0, <3>1, <3>2 DEF Quiet, DeadEnds, CallsDead
  <2>2. CASE ~Confirm(c)
    <3>1. \E k \in Keys : TRUE
      BY <1>0, <2>2, BusyHolds DEF FetchKey, RunUpdate, BeginUpdate, Known, At, TInv, ShapeInv,
         GoodControl
    <3> QED BY <1>3, <2>2, <3>1
  <2> QED BY <2>1, <2>2
<1>5. PromiseStep /\ OneHolder' /\ CallsDead'
  BY <1>0, <1>1, <1>2, <1>3, <1>4, UnseenKeeps DEF custodianVars
<1> QED BY <1>1, <1>5, ListStaysDead DEF Keeps, DeadEnds, Known

\* A key is promoted: one that was not destroyed, and one that was still is.
LEMMA PromoteKeeps == ASSUME Known, Quiet, NEW p \in Procs, Promote(p) PROVE Keeps
<1>1. At(p, "promote") /\ End(p) /\ UNCHANGED <<control, aborted, sweep, late>>
  BY DEF Promote, storeVars
<1>2. proc[p].key \in Keys BY <1>1, BusyHolds DEF At, Known
<1>3. \A j \in Keys : /\ keyState'[j] = "destroyed" <=> keyState[j] = "destroyed"
                      /\ keyState'[j] = "not_found" <=> keyState[j] = "not_found"
  BY DEF Promote, CommitProvision, custodianVars, Known, TInv, TypeOK, CustodianTypeOK
<1>4. proc'[p].pc = "idle" /\ \A q \in Procs \ {p} : proc'[q] = proc[q]
  BY <1>1, EndCall DEF Known
<1>5. PromiseStep /\ OneHolder' /\ CallsDead'
  BY <1>1, <1>2, <1>3, <1>4, UnseenKeeps DEF At, Doomed
<1> QED BY <1>1, <1>5, ListStaysDead DEF Keeps, DeadEnds, Known

\* A key is destroyed, by whoever held it: it was dead.
LEMMA DestroysKeeps ==
    ASSUME Known, Quiet, NEW p \in Procs, Discard(p) \/ Destroy(p)
    PROVE  Keeps
<1>k. PICK k : k = proc[p].key OBVIOUS
<1>1. proc[p].pc \in Doomed /\ ~At(p, "idle") /\ ~At(p, "write")
      /\ UNCHANGED <<control, aborted, sweep, late>>
  BY DEF Discard, Destroy, Doomed, At, storeVars
<1>2. k \in Keys /\ Dead(k)
  BY <1>k, <1>1, BusyHolds DEF Known, Quiet, DeadEnds, CallsDead
<1>3. proc'[p].pc \notin Doomed \cup {"write"} /\ \A q \in Procs \ {p} : proc'[q] = proc[q]
  BY GotoCall, EndCall DEF Discard, Destroy, Known, Doomed
<1>4. SameHolders
  BY <1>1, <1>3, NotWriting DEF At
<1>5. \/ keyState[k] # "not_found" /\ keyState' = [keyState EXCEPT ![k] = "destroyed"]
      \/ keyState' = keyState
  BY <1>k DEF Discard, Destroy, DiscardKey, DestroyKey, CanDestroy, custodianVars
<1>6. Fresh' = Fresh
  BY <1>1, <1>4, <1>5, FreshKept DEF Known, TInv, TypeOK, CustodianTypeOK
<1>7. PromiseStep
  BY <1>1, <1>2, <1>5, <1>6, Erases, Unseen DEF Known
<1>8. CallsDead' BY <1>2, <1>3, <1>7, CallsStayDead DEF Known
<1> QED BY <1>1, <1>4, <1>7, <1>8, HoldersKept, ListStaysDead DEF Keeps, DeadEnds, Known, Quiet

\* A shred is attested complete: the key its receipt names is destroyed.
LEMMA CompleteKeeps == ASSUME Known, Quiet, NEW p \in Procs, Complete(p) PROVE Keeps
<1>1. /\ At(p, "complete") /\ End(p) /\ UNCHANGED <<custodianVars, aborted, sweep, late>>
      /\ ForgetComplete(proc[p].item, proc[p].op, proc[p].key) \/ UNCHANGED storeVars
  BY DEF Complete, storeVars, ForgetComplete
<1>2. proc[p].key \in Keys /\ proc[p].item \in Items BY <1>1, BusyHolds DEF At, Known
<1>3. keyState[proc[p].key] = "destroyed" BY <1>1 DEF Known, ErasureInv
<1>4. proc'[p].pc = "idle" /\ \A q \in Procs \ {p} : proc'[q] = proc[q]
  BY <1>1, EndCall DEF Known
<1>5. SameHolders BY <1>1, <1>4, NotWriting DEF At
<1>6. Fresh' = Fresh BY <1>1, <1>5, FreshKept DEF custodianVars
<1>7. PromiseStep
  BY <1>1, <1>2, <1>3, <1>6, Declares, Unseen DEF Known, custodianVars, storeVars
<1>8. CallsDead' BY <1>2, <1>4, <1>7, CallsStayDead DEF Known, Doomed
<1> QED BY <1>1, <1>5, <1>7, <1>8, HoldersKept, ListStaysDead DEF Keeps, DeadEnds, Known, Quiet

\* The key of a row is never one that may still start a lineage, and once the row is
\* no longer active nobody else's row is active under it.
LEMMA RowKey ==
    ASSUME Known, Quiet, NEW i \in Items, control[i].state # "none"
    PROVE  /\ control[i].key \in Keys /\ control[i].key \notin Fresh
           /\ \A j \in Items : control[j].key = control[i].key => j = i
<1>1. control[i].key \in Keys BY DEF Known, TInv, ShapeInv, GoodControl
<1> QED BY <1>1, NoKeyAssumption DEF Known, OwnerInv, MintedFor, Quiet, PromiseFacts

LEMMA BeginForgetKeeps ==
    ASSUME Known, Quiet, NEW c \in Clients, NEW i \in Items, BeginForget(c, i)
    PROVE  Keeps
<1>0. c \in Procs BY DEF Procs
<1>k. PICK k : k = control[i].key OBVIOUS
<1>1. At(c, "idle") /\ ForgetBegin(i) /\ UNCHANGED <<custodianVars, aborted, sweep, late>>
  BY DEF BeginForget, ForgetBegin
<1>2. \A q \in Procs \ {c} : proc'[q] = proc[q]
  BY <1>0 DEF BeginForget, Known, TInv, TypeOK
<1>3. CASE NeedsDestroy(i)
  <2>1. proc'[c].pc = "destroy" /\ proc'[c].key = k
    BY <1>0, <1>k, <1>3 DEF BeginForget, Known, TInv, TypeOK
  <2>2. SameHolders BY <1>0, <1>1, <1>2, <2>1, NotWriting DEF At
  <2>3. Fresh' = Fresh BY <1>1, <2>2, FreshKept DEF custodianVars
  <2>4. /\ PromiseStep /\ control'[i].state # "active"
        /\ \A j \in Items : control'[j].key = control[j].key
    BY <1>1, <1>3, <2>3, Forgets DEF Known, custodianVars
  <2>5. k \in Keys /\ k \notin Fresh /\ \A j \in Items : control[j].key = k => j = i
    BY <1>k, <1>3, RowKey DEF NeedsDestroy
  <2>6. Dead(k)' BY <2>3, <2>4, <2>5 DEF Dead
  <2>7. CallsDead' BY <1>0, <1>2, <2>1, <2>4, <2>5, <2>6, CallsStayDead DEF Known
  <2> QED BY <1>1, <2>2, <2>4, <2>7, HoldersKept, ListStaysDead DEF Keeps, DeadEnds, Known, Quiet
<1>4. CASE ~NeedsDestroy(i)
  <2>1. proc' = proc BY <1>4 DEF BeginForget
  <2>2. SameHolders BY <1>1, <2>1 DEF SameHolders, At
  <2>3. Fresh' = Fresh BY <1>1, <2>2, FreshKept DEF custodianVars
  <2>4. PromiseStep BY <1>1, <2>3, Forgets DEF Known, custodianVars
  <2>5. CallsDead' BY <2>1, <2>4, SameCallsDead DEF Known
  <2> QED BY <1>1, <2>2, <2>4, <2>5, HoldersKept, ListStaysDead DEF Keeps, DeadEnds, Known, Quiet
<1> QED BY <1>3, <1>4

-----------------------------------------------------------------------------
(* The reconciler.                                                          *)

LEMMA NotAWriter == ASSUME Quiet PROVE Reconciler \in Procs /\ ~At(Reconciler, "write")
BY DEF Quiet, OneHolder, Procs

\* A step in which no process moves and the promise sees nothing.
LEMMA NobodyMoves ==
    ASSUME Known, Quiet, UNCHANGED <<custodianVars, control, aborted, proc, late>>
    PROVE  PromiseStep /\ OneHolder' /\ CallsDead'
<1>1. SameHolders BY DEF SameHolders, At
<1>2. Fresh' = Fresh BY <1>1, FreshKept DEF custodianVars
<1>3. PromiseStep BY <1>2, Unseen DEF custodianVars
<1> QED BY <1>1, <1>3, HoldersKept, SameCallsDead DEF Known, Quiet

LEMMA ListRowsKeeps == ASSUME Known, Quiet, ListRows PROVE Keeps
<1>1. PromiseStep /\ OneHolder' /\ CallsDead' /\ control' = control
  BY NobodyMoves DEF ListRows, storeVars
<1>2. ASSUME sweep'.stage = "pending", NEW row \in sweep'.todo
      PROVE  \E k \in Keys : row.key = k /\ Dead(k)
  <2>1. sweep.stage = "idle" /\ sweep'.todo = PendingRows
    BY <1>2 DEF ListRows, Known, TInv, TypeOK, Stage, IdleSweep
  <2>2. PICK i \in Items : control[i].state = "shred_pending" /\ row.key = control[i].key
    BY <1>2, <2>1 DEF PendingRows
  <2> QED BY <2>2, RowKey DEF Dead
<1>3. \A k \in Keys : Dead(k) => Dead(k)' BY <1>1, FactsStay DEF Known, Quiet
<1>4. ListDead' BY <1>2, <1>3 DEF ListDead, Dead
<1> QED BY <1>1, <1>4 DEF Keeps, DeadEnds

LEMMA RowsKeeps ==
    ASSUME Known, Quiet, NEW row \in sweep.todo, TakeRow(row) \/ SkipYoung(row)
    PROVE  Keeps
<1>0. sweep'.stage = sweep.stage /\ sweep'.todo \subseteq sweep.todo
  BY DEF TakeRow, SkipYoung, Known, TInv, TypeOK
<1>1. CASE SkipYoung(row)
  BY <1>0, <1>1, NobodyMoves, ListStaysDead DEF SkipYoung, storeVars, Keeps, DeadEnds, Known
<1>2. CASE TakeRow(row)
  <2>1. row.key \in Keys /\ sweep.stage \in {"pending", "stale", "active"}
    BY DEF Known, TInv, TypeOK, ShapeInv, GoodRow, Stage
  <2>2. /\ proc'[Reconciler].pc = FirstStep[sweep.stage] /\ proc'[Reconciler].key = row.key
        /\ \A q \in Procs \ {Reconciler} : proc'[q] = proc[q]
    BY <1>2, NotAWriter DEF TakeRow, Known, TInv, TypeOK
  <2>3. /\ FirstStep[sweep.stage] # "write"
        /\ FirstStep[sweep.stage] \in Doomed => sweep.stage = "pending"
    BY <2>1 DEF FirstStep, Doomed
  <2>4. sweep.stage = "pending" => Dead(row.key)
    BY DEF Quiet, DeadEnds, ListDead
  <2>5. PromiseStep /\ OneHolder' /\ CallsDead'
    BY <1>2, <2>1, <2>2, <2>3, <2>4, NotAWriter, UnseenKeeps
       DEF TakeRow, storeVars, custodianVars, At
  <2> QED BY <1>0, <2>5, ListStaysDead DEF Keeps, DeadEnds, Known
<1> QED BY <1>1, <1>2

\* The fence: what is destroyed next has no lineage and can get none.
LEMMA FenceKeeps == ASSUME Known, Quiet, Fence PROVE Keeps
<1> DEFINE r == proc[Reconciler]
<1>k. PICK k : k = r.key OBVIOUS
<1>0. Reconciler \in Procs /\ At(Reconciler, "fence") BY NotAWriter DEF Fence
<1>1. k \in Keys /\ r.item \in Items /\ MintedFor(k, r.item)
  BY <1>k, <1>0, BusyHolds DEF Known, At, OwnerInv
<1>2. UNCHANGED <<custodianVars, control, sweep, late>>
  BY DEF Fence, AbortProvision, storeVars
<1>3. CASE AbortProvision(r.item, r.key) /\ Goto(Reconciler, "discard")
  <2>1. /\ proc'[Reconciler].pc = "discard" /\ proc'[Reconciler].key = k
        /\ \A q \in Procs \ {Reconciler} : proc'[q] = proc[q]
    BY <1>k, <1>0, <1>3, GotoCall DEF Known
  <2>2. SameHolders BY <1>0, <1>2, <2>1, NotWriting DEF At
  <2>3. \A j \in Keys : MayStillCommit(j)' <=> MayStillCommit(j)
    BY <1>2, <2>2 DEF SameHolders, MayStillCommit, custodianVars, Procs
  <2>4. Fresh' = Fresh \ {k}
    BY <1>k, <1>3, <2>3 DEF Fresh, AbortProvision
  <2>5. PromiseStep BY <1>1, <1>2, <2>4, Withdraws DEF custodianVars
  <2>6. \A i \in Items : control[i].key # k
    <3>1. ASSUME NEW i \in Items PROVE control[i].key # k
      <4>1. CASE i = r.item BY <1>k, <1>3, <4>1 DEF AbortProvision, CommittedByOp
      <4>2. CASE i # r.item
        <5>1. control[i].key # NoKey => MintedFor(control[i].key, i) BY DEF Known, OwnerInv
        <5> QED BY <1>1, <4>2, <5>1, NoKeyAssumption DEF MintedFor
      <4> QED BY <4>1, <4>2
    <3> QED BY <3>1
  <2>7. Dead(k)' BY <1>2, <2>4, <2>6 DEF Dead
  <2>8. CallsDead' BY <1>0, <1>1, <2>1, <2>5, <2>7, CallsStayDead DEF Known
  <2> QED BY <1>2, <2>2, <2>5, <2>8, HoldersKept, ListStaysDead DEF Keeps, DeadEnds, Known, Quiet
<1>4. CASE UNCHANGED storeVars /\ Goto(Reconciler, "promote")
  <2>1. /\ proc'[Reconciler].pc = "promote"
        /\ \A q \in Procs \ {Reconciler} : proc'[q] = proc[q]
    BY <1>0, <1>4, GotoCall DEF Known
  <2>2. PromiseStep /\ OneHolder' /\ CallsDead'
    BY <1>0, <1>1, <1>2, <1>4, <2>1, UnseenKeeps DEF At, Doomed, storeVars, custodianVars
  <2> QED BY <1>2, <2>2, ListStaysDead DEF Keeps, DeadEnds, Known
<1> QED BY <1>3, <1>4 DEF Fence

\* A row whose key is destroyed is not active any more: nothing live is behind it.
LEMMA CheckKeyKeeps == ASSUME Known, Quiet, CheckKey PROVE Keeps
<1>k. PICK k : k = proc[Reconciler].key OBVIOUS
<1>0. Reconciler \in Procs /\ At(Reconciler, "check") BY NotAWriter DEF CheckKey
<1>1. k \in Keys BY <1>k, <1>0, BusyHolds DEF Known, At
<1>2. \A q \in Procs \ {Reconciler} : proc'[q] = proc[q]
  BY <1>0, GotoCall, EndCall DEF CheckKey, Known
<1>3. /\ proc'[Reconciler].pc \in {"idle", "reforget"}
      /\ proc'[Reconciler].pc = "reforget" => proc'[Reconciler].key = k /\ keyState[k] = "destroyed"
  BY <1>k, <1>0, GotoCall, EndCall DEF CheckKey, Known
<1>4. keyState[k] = "destroyed" => Dead(k)
  BY <1>1 DEF Quiet, PromiseFacts, Gone, Dead
<1>5. PromiseStep /\ OneHolder' /\ CallsDead'
  BY <1>0, <1>1, <1>2, <1>3, <1>4, UnseenKeeps
     DEF CheckKey, At, Doomed, storeVars, custodianVars
<1> QED BY <1>5, ListStaysDead DEF CheckKey, Keeps, DeadEnds, Known

LEMMA ReforgetKeeps == ASSUME Known, Quiet, Reforget PROVE Keeps
<1> DEFINE r == proc[Reconciler]
<1>k. PICK k : k = r.key OBVIOUS
<1>0. /\ Reconciler \in Procs /\ At(Reconciler, "reforget") /\ ForgetBegin(r.item)
      /\ UNCHANGED <<custodianVars, aborted, sweep, late>>
  BY NotAWriter DEF Reforget, ForgetBegin
<1>1. k \in Keys /\ r.item \in Items /\ Dead(k)
  BY <1>k, <1>0, BusyHolds DEF Known, At, Quiet, DeadEnds, CallsDead, Doomed
<1>2. /\ \A q \in Procs \ {Reconciler} : proc'[q] = proc[q]
      /\ proc'[Reconciler].pc # "write"
      /\ proc'[Reconciler].pc \in Doomed => proc'[Reconciler].key = k
  <2>1. CASE End(Reconciler) BY <1>0, <2>1, EndCall DEF Known, Doomed
  <2>2. CASE proc' = [proc EXCEPT ![Reconciler].pc = "destroy",
                                  ![Reconciler].op = BeginOp(r.item)]
    BY <1>k, <1>0, <2>2 DEF Known, TInv, TypeOK, Call
  <2> QED BY <2>1, <2>2 DEF Reforget
<1>3. SameHolders BY <1>0, <1>2, NotWriting DEF At
<1>4. Fresh' = Fresh BY <1>0, <1>3, FreshKept DEF custodianVars
<1>5. PromiseStep BY <1>0, <1>1, <1>4, Forgets DEF Known, custodianVars
<1>6. CallsDead' BY <1>0, <1>1, <1>2, <1>5, CallsStayDead DEF Known
<1> QED BY <1>0, <1>3, <1>5, <1>6, HoldersKept, ListStaysDead DEF Keeps, DeadEnds, Known, Quiet

-----------------------------------------------------------------------------
(* Failures and the network.                                                *)

\* A call that dies while its transaction is under way hands its key over to the
\* network; every other one just stops.
LEMMA FailKeeps == ASSUME Known, Quiet, NEW p \in Procs, Fail(p) PROVE Keeps
<1>k. PICK k : k = proc[p].key OBVIOUS
<1>0. /\ ~At(p, "idle") /\ UNCHANGED <<custodianVars, storeVars>>
      /\ sweep' = sweep \/ sweep' = IdleSweep
  BY DEF Fail
<1>1. k \in Keys BY <1>k, <1>0, BusyHolds DEF Known
<1>2. proc'[p].pc = "idle" /\ \A q \in Procs \ {p} : proc'[q] = proc[q]
  BY EndCall DEF Fail, Known
<1>3. PromiseStep /\ OneHolder' /\ CallsDead'
  <2>1. CASE At(p, "write")
    <3>0. p \in Clients BY <2>1 DEF Quiet, OneHolder, Procs
    <3>1. CASE late' = late
      <4>1. Fresh' = Fresh \ {k} /\ OneHolder'
        BY <1>k, <1>0, <1>2, <2>1, <3>0, <3>1, LeavesWrite
           DEF Known, Quiet, At, storeVars, custodianVars
      <4>2. PromiseStep BY <1>0, <1>1, <4>1, Withdraws DEF storeVars, custodianVars
      <4> QED BY <1>1, <1>2, <4>1, <4>2, CallsStayDead DEF Known, Doomed
    <3>2. CASE late' = late \cup {[kind |-> proc[p].kind, item |-> proc[p].item,
                                   key |-> proc[p].key]}
      <4> DEFINE sent == [kind |-> proc[p].kind, item |-> proc[p].item, key |-> proc[p].key]
      <4>0. Clients \subseteq Procs /\ Reconciler \in Procs /\ p # Reconciler
        BY <3>0, ReconcilerAssumption DEF Procs
      <4>1. proc[p].kind \in NewLineage BY <2>1, <3>0, Writing
      <4>2. sent.kind \in NewLineage /\ sent.key = k BY <1>k, <4>1
      <4>3. late' = late \cup {sent} BY <3>2
      <4>4. /\ \A c \in Clients : At(c, "write") /\ c # p => proc[c].key # k
            /\ \A call \in late : call.kind \in NewLineage => call.key # k
        BY <1>k, <2>1, <3>0 DEF Quiet, OneHolder
      <4> HIDE DEF sent
      <4>5. OneHolder'
        BY <1>2, <4>0, <4>2, <4>3, <4>4 DEF Quiet, OneHolder, At
      <4>6. ASSUME NEW j \in Keys PROVE MayStillCommit(j)' <=> MayStillCommit(j)
        BY <1>k, <1>0, <1>2, <2>1, <3>0, <4>0, <4>2, <4>3 DEF MayStillCommit, At, custodianVars
      <4>7. Fresh' = Fresh BY <1>0, <4>6 DEF Fresh, storeVars
      <4>8. PromiseStep BY <1>0, <4>7, Unseen DEF storeVars, custodianVars
      <4> QED BY <1>1, <1>2, <4>5, <4>8, CallsStayDead DEF Known, Doomed
    <3> QED BY <2>1, <3>1, <3>2 DEF Fail
  <2>2. CASE ~At(p, "write")
    <3>1. \A call \in late \cup late' : call.kind \in NewLineage => call \in late /\ call \in late'
      <4>1. proc[p].pc = "update" => proc[p].kind \notin NewLineage
        BY DEF Known, TInv, ShapeInv, GoodCall, NewLineage
      <4> QED BY <2>2, <4>1 DEF Fail, At
    <3> QED BY <1>0, <1>1, <1>2, <2>2, <3>1, UnseenKeeps
            DEF At, Doomed, storeVars, custodianVars
  <2> QED BY <2>1, <2>2
<1>4. ListDead'
  <2>1. CASE sweep' = sweep BY <1>3, <2>1, ListStaysDead DEF Known
  <2>2. CASE sweep' = IdleSweep BY <2>2 DEF ListDead, IdleSweep
  <2> QED BY <1>0, <2>1, <2>2
<1> QED BY <1>3, <1>4 DEF Keeps, DeadEnds

LEMMA NetworkKeeps ==
    ASSUME Known, Quiet, NEW call \in late, LateWrite(call) \/ LateDrop(call)
    PROVE  Keeps
<1>0. /\ late' = late \ {call} /\ UNCHANGED <<custodianVars, proc, sweep, aborted>>
      /\ call.item \in Items /\ call.key \in Keys /\ call.kind \in NewLineage \cup {"update"}
  BY DEF LateWrite, LateDrop, InstallLineage, UpdateIdentityCt, storeVars, Known, TInv, TypeOK,
     LateCall
<1>1. /\ OneHolder'
      /\ call.kind \in NewLineage => Fresh' = Fresh \ {call.key}
      /\ call.kind \notin NewLineage => Fresh' = Fresh
  BY <1>0, LeavesNetwork DEF Known, Quiet, custodianVars
<1>2. PromiseStep
  <2>1. CASE /\ call.kind \in NewLineage /\ Commits(call.kind, call.item, call.key)
             /\ InstallLineage(call.item, call.key)
    <3>1. call.key \in Fresh BY <1>0, <2>1 DEF Commits, Fresh, MayStillCommit
    <3> QED BY <1>0, <1>1, <2>1, <3>1, Starts DEF Known, Quiet, custodianVars
  <2>2. CASE control' = control
    BY <1>0, <1>1, <2>2, Withdraws, Unseen DEF custodianVars
  <2> QED BY <2>1, <2>2 DEF LateWrite, LateDrop, UpdateIdentityCt, storeVars
<1>3. CallsDead' BY <1>0, <1>2, SameCallsDead DEF Known
<1> QED BY <1>0, <1>1, <1>2, <1>3, ListStaysDead DEF Keeps, DeadEnds, Known

\* The projection is rebuilt, a backup is taken, or nothing happens.
LEMMA AsideKeeps ==
    ASSUME Known, Quiet, RebuildProjection \/ TakeBackup \/ UNCHANGED vars
    PROVE  Keeps
<1>1. UNCHANGED <<custodianVars, control, aborted, proc, late, sweep>>
  BY DEF RebuildProjection, Rebuild, TakeBackup, vars, authorityVars, storeVars
<1> QED BY <1>1, NobodyMoves, ListStaysDead DEF Keeps, DeadEnds, Known

-----------------------------------------------------------------------------
(* Every reachable state.                                                   *)

\* Nothing gives interventions back.
LEMMA SpentStays ==
    ASSUME TInv, Spent, [Next]_vars
    PROVE  Spent' /\ (Undisturbed' => Undisturbed /\ ~Rollback /\ \A c \in Clients : ~LoseReply(c))
<1>0. /\ budget \in [{"failures", "lost", "rollbacks", "updates"} -> Nat]
      /\ Budget \in [{"failures", "lost", "rollbacks", "updates"} -> Nat]
  BY BudgetAssumption DEF TInv, TypeOK
<1>1. \/ budget' = budget
      \/ \E what \in {"failures", "lost", "rollbacks", "updates"} : Spend(what)
  BY DEF Next, ClientBegins, BeginWrite, BeginForget, BeginUpdate, ClientStep, WriteCommits,
         WriteLoses, WriteRaises, Confirm, Promote, Discard, FetchKey, RunUpdate, Destroy,
         Complete, ReconcilerStep, ListRows, TakeRow, SkipYoung, Fence, CheckKey, Reforget,
         Environment, Fail, LoseReply, Network, LateWrite, LateDrop, RebuildProjection,
         TakeBackup, Rollback, vars, authorityVars
<1>2. Spent' /\ (Undisturbed' => Undisturbed)
  BY <1>0, <1>1 DEF Spent, Undisturbed, Spend
<1>3. Rollback => ~Undisturbed'
  BY <1>0 DEF Spent, Undisturbed, Rollback, Spend
<1>4. \A c \in Clients : LoseReply(c) => ~Undisturbed'
  BY <1>0 DEF Spent, Undisturbed, LoseReply, Spend
<1> QED BY <1>2, <1>3, <1>4

LEMMA InitPromise == Init => PromiseInv /\ Promise!Init
<1> SUFFICES ASSUME Init PROVE PromiseInv /\ Promise!Init OBVIOUS
<1>1. /\ keyState = [k \in Keys |-> "not_found"] /\ aborted = {} /\ late = {}
      /\ control = [i \in Items |-> [state |-> "none", key |-> NoKey, op |-> 0]]
      /\ \A p \in Procs : proc[p].pc = "idle"
      /\ sweep.stage = "idle" /\ budget = Budget
  BY DEF Init, AtRest, CustodianInit, StoreInit, Idle, IdleSweep
<1>2. Fresh = Keys /\ Gone = {} /\ Lineage = [i \in Items |-> [state |-> "none", key |-> NoKey]]
  BY <1>1 DEF Fresh, MayStillCommit, Gone, Lineage
<1>3. Promise!Init BY <1>2 DEF Promise!Init
<1>4. OneHolder BY <1>1 DEF OneHolder, At, Procs
<1>5. PromiseFacts BY <1>1, <1>2, NoKeyAssumption DEF PromiseFacts
<1>6. DeadEnds BY <1>1 DEF DeadEnds, CallsDead, ListDead, Doomed
<1>7. Spent BY <1>1, BudgetAssumption DEF Spent
<1> QED BY <1>3, <1>4, <1>5, <1>6, <1>7 DEF PromiseInv, Quiet

LEMMA NextKeeps ==
    ASSUME Known, Quiet, [Next]_vars, ~Rollback, \A c \in Clients : ~LoseReply(c)
    PROVE  Keeps
<1>1. ASSUME NEW c \in Clients, ClientBegins(c) PROVE Keeps
  BY <1>1, BeginWriteKeeps, BeginForgetKeeps, ClientUnseenKeeps DEF ClientBegins
<1>2. ASSUME NEW c \in Clients, ClientStep(c) PROVE Keeps
  BY <1>2, WriteEndsKeeps, ClientUnseenKeeps, PromoteKeeps, DestroysKeeps, CompleteKeeps
     DEF ClientStep, Procs
<1>3. CASE ReconcilerStep
  BY <1>3, ListRowsKeeps, RowsKeeps, DestroysKeeps, CompleteKeeps, FenceKeeps, PromoteKeeps,
     CheckKeyKeeps, ReforgetKeeps DEF ReconcilerStep, Procs
<1>4. CASE Environment
  BY <1>4, FailKeeps, NetworkKeeps, AsideKeeps DEF Environment, Network
<1> QED BY <1>1, <1>2, <1>3, <1>4, AsideKeeps DEF Next

LEMMA NextPromise ==
    ASSUME Known, PromiseInv, [Next]_vars
    PROVE  PromiseInv' /\ [Undisturbed' => Promise!Next]_(Promise!vars)
<1>1. Spent' /\ (Undisturbed' => Undisturbed /\ ~Rollback /\ \A c \in Clients : ~LoseReply(c))
  BY SpentStays DEF Known, PromiseInv
<1>2. CASE Undisturbed'
  <2>1. Keeps BY <1>1, <1>2, NextKeeps DEF PromiseInv
  <2>2. PromiseFacts' BY <1>1, <1>2, <2>1, FactsStay DEF Keeps, Known, PromiseInv, Quiet
  <2> QED BY <1>1, <2>1, <2>2 DEF Keeps, PromiseStep, PromiseInv, Quiet
<1>3. CASE ~Undisturbed'
  BY <1>1, <1>3 DEF PromiseInv
<1> QED BY <1>2, <1>3

\* Until a reply is lost or an old backup is restored, every step of the authority,
\* its reconciler, its failing calls and the network is a step of the promise of
\* crypto-shredding or changes nothing the promise speaks of.
THEOREM PromiseKept == Spec => KeepsPromise
<1>1. Init => Known /\ PromiseInv /\ Promise!Init
  BY InitTInv, InitOwner, InitErasure, InitFence, InitPromise DEF Known
<1>2. Known /\ PromiseInv /\ [Next]_vars => (Known /\ PromiseInv)'
  BY NextTInv, NextOwner, NextErasure, NextFence, NextPromise DEF Known
<1>3. Known /\ PromiseInv /\ [Next]_vars => [Undisturbed' => Promise!Next]_(Promise!vars)
  BY NextPromise
<1> QED BY <1>1, <1>2, <1>3, PTL DEF Spec, KeepsPromise

-----------------------------------------------------------------------------
(* The three reads.                                                         *)

Steps == {"status", "row", "get", "refs", "recheckKey", "recheckState", "recheckRow"}

Read == [api : Apis \cup {"none"}, todo : Seq(Steps), item : Items \cup {NoItem},
         key : Keys \cup {NoKey}, ct : Keys \cup {NoKey}, rev : Nat, refRev : Nat,
         erased : BOOLEAN]

\* What is left to do is the end of the read's path.
OnPath(r) ==
    /\ Len(r.todo) <= Len(Path[r.api])
    /\ \A n \in 1..Len(r.todo) :
          r.todo[n] = Path[r.api][Len(Path[r.api]) - Len(r.todo) + n]

\* The read is past the check of its key and of the ciphertext.
Decrypted(r) == \A n \in 1..Len(r.todo) : r.todo[n] # "get"

\* The lineage the read began with is the item's, or its key is gone.
LineageKept(r) ==
    \/ control[r.item].key = r.key /\ control[r.item].state # "none"
    \/ keyState[r.key] = "destroyed"

\* Revisions only grow while a read is on, and a new lineage is a new revision.
RevisionsOrdered(r) ==
    /\ r.rev <= items[r.item].rev
    /\ r.refRev # 0 => r.rev <= r.refRev /\ r.refRev <= items[r.item].rev
    /\ Decrypted(r) => items[r.item].rev > r.rev \/ control[r.item].key = r.key
    /\ ~Decrypted(r) => r.refRev = 0

\* A read of a lineage that was erased when it began has not passed its first check.
StopsIfErased(r) ==
    r.erased => Len(r.todo) = Len(Path[r.api]) /\ keyState[r.key] = "destroyed"

Reading(r) ==
    /\ r.item \in Items /\ r.key \in Keys
    /\ OnPath(r) /\ LineageKept(r) /\ RevisionsOrdered(r) /\ StopsIfErased(r)

ReadsInv == rd \in Read /\ (rd.api # "none" => Reading(rd))

-----------------------------------------------------------------------------
(* The paths.                                                               *)

LEMMA Paths ==
    ASSUME NEW api \in Apis
    PROVE  /\ Path[api] \in Seq(Steps) /\ Len(Path[api]) \in 5..7 /\ Path[api][1] = "status"
           /\ api # "identity" => Path[api][Len(Path[api])] = "recheckRow"
           /\ \E n \in 2..3 : Path[api][n] = "get"
           /\ \A n \in 1..Len(Path[api]) :
                 /\ Path[api][n] = "row" => n < Len(Path[api]) /\ Path[api][n + 1] = "get"
                 /\ Path[api][n] = "refs" => \A m \in n..Len(Path[api]) : Path[api][m] # "get"
<1>1. CASE api = "identity"
  <2>1. Path[api] = <<"status", "get", "refs", "recheckKey", "recheckState">> BY <1>1 DEF Path
  <2> QED BY <1>1, <2>1 DEF Steps
<1>2. CASE api = "publishable"
  <2>1. Path[api] = <<"status", "row", "get", "refs", "recheckKey", "recheckState",
                      "recheckRow">>
    BY <1>2 DEF Path
  <2> QED BY <1>2, <2>1 DEF Steps
<1>3. CASE api = "ref"
  <2>1. Path[api] = <<"status", "row", "get", "recheckKey", "recheckState", "recheckRow">>
    BY <1>3 DEF Path
  <2> QED BY <1>3, <2>1 DEF Steps
<1> QED BY <1>1, <1>2, <1>3 DEF Apis

LEMMA NoReadIsRead == NoRead \in Read /\ NoRead.api = "none"
BY DEF NoRead, Read

LEMMA InitReads == ReadsInit => ReadsInv
BY NoReadIsRead DEF ReadsInit, ReadsInv

\* A step of a read that passes: the rest of the path, with what r says has been learnt.
LEMMA Passes ==
    ASSUME ReadsInv, NEW step, Now(step), NEW r \in Read, Advance(r),
           r.api = rd.api, r.todo = rd.todo,
           step = "status" => Usable(rd.key)
    PROVE  /\ rd' \in Read /\ rd.api \in Apis /\ OnPath(rd')
           /\ rd'.api = r.api /\ rd'.item = r.item /\ rd'.key = r.key /\ rd'.ct = r.ct
           /\ rd'.rev = r.rev /\ rd'.refRev = r.refRev /\ rd'.erased = r.erased
           /\ ~rd.erased
           /\ Decrypted(rd') => step = "get" \/ Decrypted(rd)
           /\ Decrypted(rd) => Decrypted(rd')
           /\ rd'.todo = << >> /\ rd.api # "identity" => step = "recheckRow" /\ Decrypted(rd)
           /\ step = "row" => ~Decrypted(rd)
           /\ step = "refs" => Decrypted(rd)
<1>1. /\ rd.api \in Apis /\ rd.todo \in Seq(Steps) /\ rd.todo # << >> /\ step = rd.todo[1]
      /\ Reading(rd)
  BY DEF ReadsInv, Now, Read
<1>2. rd' = [r EXCEPT !.todo = Tail(r.todo)] BY DEF Advance
<1>3. /\ Tail(rd.todo) \in Seq(Steps) /\ Len(rd.todo) \in Nat \ {0}
      /\ Len(Tail(rd.todo)) = Len(rd.todo) - 1
      /\ \A n \in 1..Len(rd.todo) - 1 : Tail(rd.todo)[n] = rd.todo[n + 1]
  BY <1>1
<1>4. /\ rd'.todo = Tail(rd.todo) /\ rd'.api = r.api /\ rd'.item = r.item /\ rd'.key = r.key
      /\ rd'.ct = r.ct /\ rd'.rev = r.rev /\ rd'.refRev = r.refRev /\ rd'.erased = r.erased
      /\ rd' \in Read
  BY <1>2, <1>3 DEF Read
<1>5. /\ Path[rd.api] \in Seq(Steps) /\ Len(Path[rd.api]) \in 5..7
      /\ Path[rd.api][1] = "status"
      /\ rd.api # "identity" => Path[rd.api][Len(Path[rd.api])] = "recheckRow"
  BY <1>1, Paths
<1>a. PICK p \in Seq(Steps) : p = Path[rd.api] BY <1>5
<1>b. PICK t \in Seq(Steps) : t = rd.todo BY <1>1
<1>c. PICK u \in Seq(Steps) : u = rd'.todo BY <1>3, <1>4
<1>d. /\ Len(t) <= Len(p) /\ \A n \in 1..Len(t) : t[n] = p[Len(p) - Len(t) + n]
      /\ Len(t) \in Nat \ {0} /\ Len(p) \in 5..7
      /\ p[1] = "status" /\ (rd.api # "identity" => p[Len(p)] = "recheckRow")
      /\ step = t[1] /\ Len(u) = Len(t) - 1
      /\ \A n \in 1..Len(t) - 1 : u[n] = t[n + 1]
  BY <1>1, <1>3, <1>4, <1>5, <1>a, <1>b, <1>c DEF Reading, OnPath
<1>6. OnPath(rd')
  <2>1. Len(u) <= Len(p) BY <1>d
  <2>2. ASSUME NEW n \in 1..Len(u) PROVE u[n] = p[Len(p) - Len(u) + n]
    <3>1. n + 1 \in 1..Len(t) /\ n \in 1..Len(t) - 1 BY <1>d
    <3>2. Len(p) - Len(u) + n = Len(p) - Len(t) + (n + 1) BY <1>d
    <3> QED BY <1>d, <3>1, <3>2
  <2>3. rd'.api = rd.api BY <1>4
  <2> QED BY <1>a, <1>c, <2>1, <2>2, <2>3 DEF OnPath
<1>7. ~rd.erased
  <2>1. rd.erased => Len(t) = Len(p) /\ keyState[rd.key] = "destroyed"
    BY <1>1, <1>a, <1>b DEF Reading, StopsIfErased
  <2>2. Len(t) = Len(p) => step = "status" BY <1>d
  <2> QED BY <2>1, <2>2 DEF Usable
<1>8. Decrypted(rd') => step = "get" \/ Decrypted(rd)
  <2> SUFFICES ASSUME Decrypted(rd'), step # "get", NEW n \in 1..Len(rd.todo)
               PROVE  rd.todo[n] # "get"
    BY DEF Decrypted
  <2>1. CASE n = 1 BY <1>1, <2>1
  <2>2. CASE n # 1
    <3>1. n - 1 \in 1..Len(rd.todo) - 1 BY <1>3, <2>2
    <3>2. rd'.todo[n - 1] = rd.todo[n] BY <1>3, <1>4, <3>1
    <3>3. n - 1 \in 1..Len(rd'.todo) BY <1>3, <1>4, <3>1
    <3> QED BY <3>2, <3>3 DEF Decrypted
  <2> QED BY <2>1, <2>2
<1>9. rd'.todo = << >> /\ rd.api # "identity" => step = "recheckRow" /\ Decrypted(rd)
  <2> SUFFICES ASSUME rd'.todo = << >>, rd.api # "identity"
               PROVE  step = "recheckRow" /\ Decrypted(rd)
    OBVIOUS
  <2>1. Len(rd.todo) = 1 BY <1>b, <1>c, <1>d
  <2>2. step = "recheckRow" BY <1>b, <1>d, <2>1
  <2>3. \A n \in 1..Len(rd.todo) : n = 1 BY <2>1
  <2> QED BY <1>1, <2>2, <2>3 DEF Decrypted
<1>e. \A n \in 1..Len(p) : /\ p[n] = "row" => n < Len(p) /\ p[n + 1] = "get"
                           /\ p[n] = "refs" => \A m \in n..Len(p) : p[m] # "get"
  BY <1>1, <1>a, Paths
<1>f. Len(p) - Len(t) + 1 \in 1..Len(p) /\ step = p[Len(p) - Len(t) + 1]
  <2>1. 1 \in 1..Len(t) /\ Len(p) - Len(t) + 1 \in 1..Len(p) BY ONLY <1>d
  <2>2. t[1] = p[Len(p) - Len(t) + 1] BY <1>d, <2>1
  <2> QED BY <1>d, <2>1, <2>2
<1>10. step = "row" => ~Decrypted(rd)
  <2> SUFFICES ASSUME step = "row" PROVE t[2] = "get" /\ 2 \in 1..Len(t)
    BY <1>b DEF Decrypted
  <2>a. Len(p) - Len(t) + 1 < Len(p) BY <1>e, <1>f
  <2>1. 2 \in 1..Len(t) BY ONLY <1>d, <2>a
  <2>2. t[2] = p[(Len(p) - Len(t) + 1) + 1] BY <1>d, <2>1
  <2> QED BY <1>e, <1>f, <2>1, <2>2
<1>11. step = "refs" => Decrypted(rd)
  <2> SUFFICES ASSUME step = "refs", NEW n \in 1..Len(t) PROVE t[n] # "get"
    BY <1>b DEF Decrypted
  <2>1. Len(p) - Len(t) + n \in (Len(p) - Len(t) + 1)..Len(p) BY <1>d
  <2> QED BY <1>d, <1>e, <1>f, <2>1
<1>12. Decrypted(rd) => Decrypted(rd')
  <2> SUFFICES ASSUME Decrypted(rd), NEW n \in 1..Len(u) PROVE u[n] # "get"
    BY <1>c DEF Decrypted
  <2>1. n \in 1..Len(t) - 1 /\ n + 1 \in 1..Len(t) BY <1>d
  <2>2. t[n + 1] # "get" BY <1>b, <2>1 DEF Decrypted
  <2> QED BY <1>d, <2>1, <2>2
<1> QED BY <1>1, <1>4, <1>6, <1>7, <1>8, <1>9, <1>10, <1>11, <1>12

-----------------------------------------------------------------------------
(* The steps of a read.                                                     *)

LEMMA Ends == ASSUME Deny PROVE ReadsInv'
BY NoReadIsRead DEF Deny, ReadsInv

LEMMA Begins ==
    ASSUME IInv, NEW api \in Apis, NEW i \in Items, BeginRead(api, i), UNCHANGED vars
    PROVE  ReadsInv'
<1>1. /\ control[i].state = "active" /\ control[i].key \in Keys
      /\ items[i].ct \in Keys \cup {NoKey} /\ items[i].rev \in Nat
  BY DEF IInv, TypeOK, ShapeInv, GoodControl, StoreTypeOK, ItemsType, ItemRow, BeginRead
<1>2. /\ Path[api] \in Seq(Steps) /\ Len(Path[api]) \in 5..7
      /\ \E n \in 2..3 : Path[api][n] = "get"
  BY Paths
<1>3. /\ rd'.api = api /\ rd'.todo = Path[api] /\ rd'.item = i /\ rd'.key = control[i].key
      /\ rd'.refRev = 0 /\ rd'.erased = (keyState[control[i].key] = "destroyed")
      /\ rd'.rev = 0 \/ rd'.rev = items[i].rev
      /\ rd' \in Read
  BY <1>1, <1>2 DEF BeginRead, NoRead, Read
<1>4. UNCHANGED <<control, items, keyState>>
  BY DEF vars, storeVars, custodianVars
<1>5. ~Decrypted(rd')
  BY <1>2, <1>3 DEF Decrypted
<1>6. OnPath(rd')
  <2>1. Len(Path[api]) - Len(Path[api]) = 0 /\ Len(Path[api]) <= Len(Path[api]) BY <1>2
  <2>2. \A n \in 1..Len(Path[api]) : Len(Path[api]) - Len(Path[api]) + n = n BY <1>2
  <2> QED BY <1>3, <2>1, <2>2 DEF OnPath
<1>8. LineageKept(rd)' /\ StopsIfErased(rd)'
  BY <1>1, <1>3, <1>4 DEF LineageKept, StopsIfErased
<1>7. RevisionsOrdered(rd)'
  BY <1>1, <1>3, <1>4, <1>5 DEF RevisionsOrdered
<1> QED BY <1>1, <1>3, <1>6, <1>7, <1>8 DEF ReadsInv, Reading, Apis

\* A step that has learnt nothing, or only what the database says now.
LEMMA GoesOn ==
    ASSUME IInv, ReadsInv, UNCHANGED vars, NEW step, Now(step), NEW r \in Read, Advance(r),
           r.api = rd.api, r.todo = rd.todo, r.item = rd.item, r.key = rd.key,
           r.erased = rd.erased,
           \/ r.rev = rd.rev /\ r.refRev = rd.refRev
           \/ r.rev = rd.rev /\ r.refRev = items[rd.item].rev /\ step = "refs"
           \/ r.rev = items[rd.item].rev /\ r.refRev = rd.refRev /\ step = "row",
           step \in {"status", "get"} => Usable(rd.key)
    PROVE  ReadsInv'
<1>1. /\ rd' \in Read /\ rd.api \in Apis /\ OnPath(rd')
      /\ rd'.api = rd.api /\ rd'.item = rd.item /\ rd'.key = rd.key
      /\ rd'.rev = r.rev /\ rd'.refRev = r.refRev /\ rd'.erased = FALSE
      /\ Decrypted(rd') => step = "get" \/ Decrypted(rd)
      /\ Decrypted(rd) => Decrypted(rd')
      /\ step = "row" => ~Decrypted(rd)
      /\ step = "refs" => Decrypted(rd)
  BY Passes DEF Read
<1>2. Reading(rd) /\ rd.item \in Items
  BY <1>1 DEF ReadsInv, Apis, Reading
<1>3. UNCHANGED <<control, items, keyState>>
  BY DEF vars, storeVars, custodianVars
<1>4. items[rd.item].rev \in Nat /\ rd.rev \in Nat
  BY <1>2 DEF IInv, TypeOK, StoreTypeOK, ItemsType, ItemRow, ReadsInv, Read
<1>5. LineageKept(rd)' /\ StopsIfErased(rd)'
  BY <1>1, <1>2, <1>3 DEF Reading, LineageKept, StopsIfErased
<1>6. Decrypted(rd') => items[rd.item].rev > rd.rev \/ control[rd.item].key = rd.key
  BY <1>1, <1>2 DEF Reading, LineageKept, RevisionsOrdered, Usable
<1>7. RevisionsOrdered(rd)'
  <2>1. /\ rd.rev <= items[rd.item].rev /\ rd.refRev \in Nat
        /\ rd.refRev # 0 => rd.rev <= rd.refRev /\ rd.refRev <= items[rd.item].rev
        /\ ~Decrypted(rd) => rd.refRev = 0
    BY <1>2 DEF Reading, RevisionsOrdered, ReadsInv, Read
  <2>2. items'[rd'.item].rev = items[rd.item].rev /\ control'[rd'.item].key = control[rd.item].key
    BY <1>1, <1>3
  <2>3. CASE step = "row"
    <3>1. rd'.refRev = 0 /\ ~Decrypted(rd') BY <1>1, <2>1, <2>3
    <3> QED BY <1>1, <1>4, <2>1, <2>2, <2>3, <3>1 DEF RevisionsOrdered
  <2>4. CASE step # "row"
    <3>1. rd'.rev = rd.rev BY <1>1, <2>4
    <3>2. rd'.refRev # 0 => rd.rev <= rd'.refRev /\ rd'.refRev <= items[rd.item].rev
      BY <1>1, <1>4, <2>1, <2>4
    <3>3. ~Decrypted(rd') => rd'.refRev = 0 BY <1>1, <2>1, <2>4
    <3> QED BY <1>1, <1>4, <1>6, <2>1, <2>2, <3>1, <3>2, <3>3 DEF RevisionsOrdered
  <2> QED BY <2>3, <2>4
<1> QED BY <1>1, <1>2, <1>5, <1>7 DEF ReadsInv, Reading

LEMMA ReadsOn == ASSUME IInv, ReadsInv, ReaderStep, UNCHANGED vars PROVE ReadsInv'
<1>0. ASSUME NEW step, Now(step), Advance(rd), step \in {"status", "get"} => Usable(rd.key)
      PROVE  ReadsInv'
  <2>1. rd \in Read BY DEF ReadsInv
  <2> QED BY <1>0, <2>1, GoesOn
<1>1. CASE CheckStatus BY <1>1, <1>0, Ends DEF CheckStatus
<1>2. CASE ReadRow
  <2>1. CASE Readable(rd.item)
    <3> DEFINE r == [rd EXCEPT !.ct = items[rd.item].ct, !.rev = items[rd.item].rev]
    <3>1. Now("row") /\ Advance(r) BY <1>2, <2>1 DEF ReadRow
    <3>2. rd \in Read /\ rd.item \in Items
      BY <3>1 DEF ReadsInv, Reading, Now
    <3>3. items[rd.item].ct \in Keys \cup {NoKey} /\ items[rd.item].rev \in Nat
      BY <3>2 DEF IInv, TypeOK, StoreTypeOK, ItemsType, ItemRow
    <3>4. /\ r \in Read /\ r.api = rd.api /\ r.todo = rd.todo /\ r.item = rd.item
          /\ r.key = rd.key /\ r.erased = rd.erased /\ r.rev = items[rd.item].rev
          /\ r.refRev = rd.refRev
      BY <3>2, <3>3 DEF Read
    <3> HIDE DEF r
    <3> QED BY <3>1, <3>4, GoesOn
  <2>2. CASE ~Readable(rd.item) BY <1>2, <2>2, Ends DEF ReadRow
  <2> QED BY <2>1, <2>2
<1>3. CASE GetKey BY <1>3, <1>0, Ends DEF GetKey
<1>4. CASE ReadRefs
  <2>1. CASE Advance([rd EXCEPT !.refRev = items[rd.item].rev])
    <3> DEFINE r == [rd EXCEPT !.refRev = items[rd.item].rev]
    <3>1. Now("refs") /\ Advance(r) BY <1>4, <2>1 DEF ReadRefs
    <3>2. rd \in Read /\ rd.item \in Items
      BY <3>1 DEF ReadsInv, Reading, Now
    <3>3. items[rd.item].rev \in Nat
      BY <3>2 DEF IInv, TypeOK, StoreTypeOK, ItemsType, ItemRow
    <3>4. /\ r \in Read /\ r.api = rd.api /\ r.todo = rd.todo /\ r.item = rd.item
          /\ r.key = rd.key /\ r.erased = rd.erased /\ r.rev = rd.rev
          /\ r.refRev = items[rd.item].rev
      BY <3>2, <3>3 DEF Read
    <3> HIDE DEF r
    <3> QED BY <3>1, <3>4, GoesOn
  <2>2. CASE Advance(rd) BY <1>4, <2>2, <1>0 DEF ReadRefs
  <2> QED BY <1>4, <2>1, <2>2, Ends DEF ReadRefs
<1>5. CASE RecheckKey BY <1>5, <1>0, Ends DEF RecheckKey
<1>6. CASE RecheckState BY <1>6, <1>0, Ends DEF RecheckState
<1>7. CASE RecheckRow BY <1>7, <1>0, Ends DEF RecheckRow
<1>8. CASE Finish BY <1>8, Ends DEF Finish
<1> QED BY <1>1, <1>2, <1>3, <1>4, <1>5, <1>6, <1>7, <1>8, Begins DEF ReaderStep

-----------------------------------------------------------------------------
(* What the rest of the system may do under a read.                         *)

\* While the database is not rolled back, revisions only grow; a lineage is replaced
\* by a new revision of its item, once its key is destroyed.
LEMMA Overtaken ==
    ASSUME IInv, Next, ~Rollback, NEW i \in Items
    PROVE  /\ items[i].rev \in Nat /\ items'[i].rev \in Nat /\ items[i].rev <= items'[i].rev
           /\ control[i].state # "none" => control'[i].state # "none"
           /\ \/ control'[i].key = control[i].key
              \/ /\ items'[i].rev > items[i].rev
                 /\ control[i].state = "none" \/ keyState[control[i].key] = "destroyed"
<1>0. /\ TInv /\ ErasedMeansDestroyed
      /\ control \in ControlType /\ items \in ItemsType
  BY DEF IInv, TInv, TypeOK, StoreTypeOK, ErasureInv
<1>1. TInv' BY <1>0, NextTInv
<1>2. items[i].rev \in Nat /\ items'[i].rev \in Nat
  BY <1>0, <1>1 DEF TInv, TypeOK, StoreTypeOK, ItemsType, ItemRow
<1>3. StoreStep BY <1>0, StoreSteps
<1>4. ASSUME NEW kind \in NewLineage, NEW j \in Items, NEW k \in Keys,
             Commits(kind, j, k), InstallLineage(j, k)
      PROVE  /\ items'[i] = items[i] /\ control'[i] = control[i]
             \/ /\ items'[i].rev = items[i].rev + 1 /\ control'[i].state = "active"
                /\ control[i].state \in {"none", "shred_complete"}
  BY <1>0, <1>4 DEF Commits, InstallLineage, ControlType, ItemsType, ItemRow
<1>5. ASSUME NEW j \in Items, NEW k \in Keys, UpdateIdentityCt(j, k)
      PROVE  items[i].rev <= items'[i].rev /\ control'[i] = control[i]
  BY <1>0, <1>2, <1>5 DEF UpdateIdentityCt, ItemsType, ItemRow
<1>6. ASSUME NEW j \in Items, ForgetBegin(j)
      PROVE  /\ items'[i].rev = items[i].rev /\ control'[i].key = control[i].key
             /\ control'[i].state \in {control[i].state, "shred_pending"}
  BY <1>0, <1>6 DEF ForgetBegin, ControlType, ItemsType, ItemRow
<1>7. ASSUME NEW j \in Items, NEW op \in ShredOps, NEW k \in Keys, ForgetComplete(j, op, k)
      PROVE  /\ items'[i].rev = items[i].rev /\ control'[i].key = control[i].key
             /\ control'[i].state \in {control[i].state, "shred_complete"}
  BY <1>0, <1>7 DEF ForgetComplete, ControlType
<1>8. CASE Rebuild \/ UNCHANGED storeVars \/ AbortProvision(proc[Reconciler].item, proc[Reconciler].key)
  BY <1>0, <1>2, <1>8 DEF Rebuild, AbortProvision, storeVars, ItemsType, ItemRow
<1>9. control[i].state = "shred_complete" => keyState[control[i].key] = "destroyed"
  BY <1>0 DEF ErasedMeansDestroyed
<1> QED BY <1>2, <1>3, <1>4, <1>5, <1>6, <1>7, <1>8, <1>9 DEF StoreStep

LEMMA GoesOnBeside ==
    ASSUME IInv, ReadsInv, Next, ~Rollback, rd' = rd
    PROVE  ReadsInv'
<1> SUFFICES ASSUME rd.api # "none" PROVE Reading(rd)'
  BY DEF ReadsInv
<1>1. /\ rd \in Read /\ rd.item \in Items /\ rd.key \in Keys
      /\ OnPath(rd) /\ LineageKept(rd) /\ RevisionsOrdered(rd) /\ StopsIfErased(rd)
  BY DEF ReadsInv, Reading
<1> DEFINE i == rd.item
<1>2. /\ items[i].rev \in Nat /\ items'[i].rev \in Nat /\ items[i].rev <= items'[i].rev
      /\ control[i].state # "none" => control'[i].state # "none"
      /\ \/ control'[i].key = control[i].key
         \/ /\ items'[i].rev > items[i].rev
            /\ control[i].state = "none" \/ keyState[control[i].key] = "destroyed"
  BY <1>1, Overtaken
<1>3. keyState[rd.key] = "destroyed" => keyState'[rd.key] = "destroyed"
  BY <1>1, DestroyedStays DEF IInv, TInv
<1>4. rd.rev \in Nat /\ rd.refRev \in Nat BY <1>1 DEF Read
<1>5. StopsIfErased(rd)' BY <1>1, <1>3 DEF StopsIfErased
<1>6. LineageKept(rd)' BY <1>1, <1>2, <1>3 DEF LineageKept
<1>7. RevisionsOrdered(rd)'
  BY <1>1, <1>2, <1>4 DEF RevisionsOrdered, Decrypted
<1> QED BY <1>1, <1>5, <1>6, <1>7 DEF Reading, OnPath

LEMMA NextReads == IInv /\ ReadsInv /\ [ReadsNext]_readVars => IInv' /\ ReadsInv'
<1> SUFFICES ASSUME IInv, ReadsInv, [ReadsNext]_readVars PROVE IInv' /\ ReadsInv' OBVIOUS
<1>1. IInv' BY NextIInv DEF ReadsNext, readVars
<1>2. CASE ReaderStep /\ UNCHANGED vars BY <1>1, <1>2, ReadsOn
<1>3. CASE Next /\ rd' = IF budget'.rollbacks < budget.rollbacks THEN NoRead ELSE rd
  <2>1. CASE budget'.rollbacks < budget.rollbacks BY <1>1, <1>3, <2>1, Ends DEF Deny
  <2>2. CASE ~(budget'.rollbacks < budget.rollbacks)
    <3>1. budget \in [{"failures", "lost", "rollbacks", "updates"} -> Nat]
      BY BudgetAssumption DEF IInv, TypeOK
    <3>2. ~Rollback BY <2>2, <3>1 DEF Rollback, Spend
    <3> QED BY <1>1, <1>3, <2>2, <3>2, GoesOnBeside
  <2> QED BY <2>1, <2>2
<1>4. CASE UNCHANGED readVars
  BY <1>1, <1>4 DEF readVars, vars, storeVars, custodianVars, ReadsInv, Reading, OnPath, LineageKept,
              RevisionsOrdered, StopsIfErased, Decrypted
<1> QED BY <1>1, <1>2, <1>3, <1>4 DEF ReadsNext

\* What a read has learnt, and whatever has overtaken it, stays in this order.
THEOREM ReadsInductive == ReadsSpec => [](IInv /\ ReadsInv)
<1>1. ReadsInit => IInv BY InitIInv DEF ReadsInit
<1> QED BY <1>1, InitReads, NextReads, PTL DEF ReadsSpec

-----------------------------------------------------------------------------
(* What is handed over.                                                     *)

\* The step that hands over plaintext is the last of the read's path, and has passed.
LEMMA Discloser ==
    ASSUME IInv, ReadsInv, [ReadsNext]_readVars, Discloses
    PROVE  /\ UNCHANGED vars /\ ~rd.erased
           /\ rd.api # "identity" => /\ Readable(rd.item) /\ items[rd.item].rev = rd.rev
                                     /\ Decrypted(rd)
<1>1. rd.api # "none" /\ rd.todo # << >> /\ rd'.todo = << >> /\ rd'.api # "none"
  BY DEF Discloses
<1>2. rd' # rd /\ rd' # NoRead BY <1>1, NoReadIsRead
<1>3. ReaderStep /\ UNCHANGED vars
  BY <1>2 DEF ReadsNext, readVars
<1>4. ~Deny /\ rd \in Read BY <1>2 DEF Deny, ReadsInv
<1>5. \E step \in Steps, r \in Read :
          /\ Now(step) /\ Advance(r) /\ r.api = rd.api /\ r.todo = rd.todo /\ r.erased = rd.erased
          /\ step = "status" => Usable(rd.key)
          /\ step = "recheckRow" => Readable(rd.item) /\ items[rd.item].rev = rd.rev
  <2>1. CASE CheckStatus BY <1>4, <2>1 DEF CheckStatus, Steps
  <2>2. CASE ReadRow
    <3>1. rd.item \in Items BY <1>1 DEF ReadsInv, Reading
    <3>2. items[rd.item].ct \in Keys \cup {NoKey} /\ items[rd.item].rev \in Nat
      BY <3>1 DEF IInv, TypeOK, StoreTypeOK, ItemsType, ItemRow
    <3> QED BY <1>4, <2>2, <3>2 DEF ReadRow, Steps, Read
  <2>3. CASE GetKey BY <1>4, <2>3 DEF GetKey, Steps
  <2>4. CASE ReadRefs
    <3>1. rd.item \in Items BY <1>1 DEF ReadsInv, Reading
    <3>2. items[rd.item].rev \in Nat
      BY <3>1 DEF IInv, TypeOK, StoreTypeOK, ItemsType, ItemRow
    <3>3. [rd EXCEPT !.refRev = items[rd.item].rev] \in Read BY <1>4, <3>2 DEF Read
    <3>4. PICK r \in Read : /\ Advance(r) /\ Now("refs")
                            /\ r = rd \/ r = [rd EXCEPT !.refRev = items[rd.item].rev]
      BY <1>4, <2>4, <3>3 DEF ReadRefs
    <3> QED BY <1>4, <3>4 DEF Steps, Read
  <2>5. CASE RecheckKey BY <1>4, <2>5 DEF RecheckKey, Steps
  <2>6. CASE RecheckState BY <1>4, <2>6 DEF RecheckState, Steps
  <2>7. CASE RecheckRow BY <1>4, <2>7 DEF RecheckRow, Steps
  <2> QED BY <1>1, <1>3, <1>4, <2>1, <2>2, <2>3, <2>4, <2>5, <2>6, <2>7
      DEF ReaderStep, BeginRead, Finish
<1>6. PICK step \in Steps, r \in Read :
          /\ Now(step) /\ Advance(r) /\ r.api = rd.api /\ r.todo = rd.todo /\ r.erased = rd.erased
          /\ step = "status" => Usable(rd.key)
          /\ step = "recheckRow" => Readable(rd.item) /\ items[rd.item].rev = rd.rev
  BY <1>5
<1>7. /\ ~rd.erased
      /\ rd'.todo = << >> /\ rd.api # "identity" => step = "recheckRow" /\ Decrypted(rd)
  BY <1>6, Passes
<1> QED BY <1>1, <1>3, <1>6, <1>7

\* What leaves through the publisher and adapter boundaries is of the lineage that is
\* live when it leaves and of the revision its row then holds, refs included
\* (withPublishableIdentity and withProviderRef, "fails closed on any change").
THEOREM BoundarySound == ReadsSpec => BoundaryDisclosesCurrent
<1>1. IInv /\ ReadsInv /\ [ReadsNext]_readVars =>
        [Discloses /\ rd.api # "identity" =>
           /\ control[rd.item].state = "active" /\ control[rd.item].key = rd.key
           /\ items[rd.item].rev = rd.rev /\ rd.refRev \in {0, rd.rev}]_readVars
  <2> SUFFICES ASSUME IInv, ReadsInv, [ReadsNext]_readVars, Discloses, rd.api # "identity"
               PROVE  /\ control[rd.item].state = "active" /\ control[rd.item].key = rd.key
                      /\ items[rd.item].rev = rd.rev /\ rd.refRev \in {0, rd.rev}
    OBVIOUS
  <2>1. Readable(rd.item) /\ items[rd.item].rev = rd.rev /\ Decrypted(rd)
    BY Discloser
  <2>2. /\ rd.item \in Items /\ RevisionsOrdered(rd)
        /\ rd.rev \in Nat /\ rd.refRev \in Nat
    BY DEF Discloses, ReadsInv, Reading, Read
  <2>3. control[rd.item].state = "active"
    BY <2>1, <2>2 DEF Readable, IInv, ProjectionInv, ProjectionAgreesWithLineage
  <2>4. control[rd.item].key = rd.key /\ rd.refRev \in {0, rd.rev}
    BY <2>1, <2>2 DEF RevisionsOrdered
  <2> QED BY <2>1, <2>3, <2>4
<1> QED BY <1>1, ReadsInductive, PTL DEF ReadsSpec, BoundaryDisclosesCurrent

\* No read hands over what was erased when it began, even when a restored backup
\* of the database says that the lineage is live.
THEOREM ErasedSound == ReadsSpec => ErasedNeverDisclosed
<1>1. IInv /\ ReadsInv /\ [ReadsNext]_readVars => [Discloses => ~rd.erased]_readVars
  BY Discloser
<1> QED BY <1>1, ReadsInductive, PTL DEF ReadsSpec, ErasedNeverDisclosed

=============================================================================
