------------------------------- MODULE MCLedgers -------------------------------
(***************************************************************************)
(* Small instances, side by side, of two parts whose ledgers outlive their   *)
(* processes: the file custodian with its destroy journal, and the outbox of *)
(* posters.  A behaviour is one of one part, chosen in its initial state,    *)
(* and the other stands still: they share no state.                         *)
(***************************************************************************)
EXTENDS FileCustodian, PublishOutbox

VARIABLE component

ledgerVars == <<fileVars, outboxVars, component>>

LedgersInit ==
    /\ FileInit /\ OutboxInit
    /\ component \in {"custodian", "outbox"}

InCustodian(A) == component = "custodian" /\ A /\ UNCHANGED <<outboxVars, component>>
InOutbox(A) == component = "outbox" /\ A /\ UNCHANGED <<fileVars, component>>

LedgersNext == InCustodian(FileNext) \/ InOutbox(OutboxNext)

\* A custodian process goes on, and is started again when it is down; an operator
\* looks after the lock and the debris a crash left behind.
CustodianFairness ==
    /\ \A w \in Writers : WF_ledgerVars(InCustodian(Works(w)))
    /\ WF_ledgerVars(InCustodian(OperatorClears))

\* Reconcile passes and revocations are run again and again, and neither the server nor
\* a process fails every time: nothing in the code schedules them, an operator or a
\* timer does.
OutboxFairness ==
    /\ \A q \in Reconcilers :
          WF_ledgerVars(InOutbox(BeginReconcile(q) \/ EndReconcile(q)
                                 \/ \E i \in Intents : Reconcile(q, i)))
    /\ \A i \in Intents :
          /\ SF_ledgerVars(InOutbox(\E q \in Reconcilers : LockIntent(q, i)))
          /\ SF_ledgerVars(InOutbox(\E q \in Reconcilers : Adopt(q, i)))
          /\ SF_ledgerVars(InOutbox(RevokeArtifact(i) /\ revoker' = i))
    /\ WF_ledgerVars(InOutbox(QueueForgotten))
    /\ SF_ledgerVars(InOutbox(RecordRevoked))

LedgersSpec ==
    LedgersInit /\ [][LedgersNext]_ledgerVars /\ CustodianFairness /\ OutboxFairness
=============================================================================
