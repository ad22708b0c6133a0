---------------------------- MODULE PublishOutbox ----------------------------
(***************************************************************************)
(* The publish-intent outbox and the revocation run on one target           *)
(* (core/publish/outbox.ts, ledger.ts, reconcile.ts and the cat_publish_*    *)
(* functions): a publish call per intent, in separate autocommitted          *)
(* statements and without the intent lock; reconcile passes, one transaction *)
(* per intent under its advisory lock; the revocation of what was forgotten. *)
(*                                                                         *)
(* A call to the server may fail, or fail after taking effect; any process   *)
(* may die between two steps.  What a reconcile transaction has written is   *)
(* its draft: it blocks other writers of the row and is lost when it dies.   *)
(***************************************************************************)
EXTENDS Integers, FiniteSets, Sequences

CONSTANTS
    Intents,        \* planned intents, each with its own token and record
    Reconcilers,    \* reconcile passes running at once
    MAX_ATTEMPTS,   \* creations an intent is allowed
    MaxArtifacts    \* bound: artifacts ever created under a token

ASSUME OutboxAssumption == MAX_ATTEMPTS \in Nat \ {0} /\ MaxArtifacts \in Nat \ {0}

VARIABLES
    findsTokens,    \* can the server find an artifact by its token?
    disclosable,    \* intents whose record can still be disclosed (not forgotten)
    ledger,         \* the publish_ledger rows
    proofs,         \* recovery_proof of each row
    artifacts,      \* artifacts[i]: the live artifacts tagged with i's token
    created,        \* who made the artifacts of i, in order
    publisher,      \* the publish call of each intent
    reconciler,     \* each reconcile pass
    revoker         \* the revocation run: the row it is deleting, or none

outboxVars == <<findsTokens, disclosable, ledger, proofs, artifacts, created,
                publisher, reconciler, revoker>>

Null == 0
Actionables == {"planned", "in_flight", "ambiguous"}

NoPass == [at |-> "idle", broken |-> FALSE, todo |-> {}, on |-> {}, tries |-> 0,
           draft |-> {}, handle |-> Null]

-----------------------------------------------------------------------------
(* The ledger's functions, as relations between a row and its successor.    *)

FlightFrom == {"planned", "ambiguous", "failed"}
InFlight(r) ==
    IF r.status \in FlightFrom THEN [r EXCEPT !.status = "in_flight", !.attempts = @ + 1] ELSE r
Ambiguous(r) == IF r.status = "in_flight" THEN [r EXCEPT !.status = "ambiguous"] ELSE r
Settle(r, h) ==
    IF r.status \in Actionables THEN [r EXCEPT !.status = "published", !.handle = h] ELSE r

Unlocked(i) == \A q \in Reconcilers : ~(reconciler[q].on = {i} /\ reconciler[q].draft # {})

\* What findByToken may answer, when it does not fail.
FoundByToken(i) == IF findsTokens /\ artifacts[i] # {} THEN artifacts[i] ELSE {Null}

ProofOf(found, handle) ==
    IF found = handle THEN "verified" ELSE IF found = Null THEN "unrecoverable" ELSE "contradictory"

Made(i, by) ==
    /\ Len(created[i]) < MaxArtifacts
    /\ created' = [created EXCEPT ![i] = Append(@, by)]
    /\ artifacts' = [artifacts EXCEPT ![i] = @ \cup {Len(created[i]) + 1}]

-----------------------------------------------------------------------------
(* publish: plan, mark in flight, create, prove, settle or mark ambiguous.  *)

Publishing(i, from, to) ==
    publisher[i].at = from /\ publisher' = [publisher EXCEPT ![i].at = to]

PlanIntent(i) ==
    /\ Publishing(i, "start", "planned")
    /\ ledger' = [ledger EXCEPT ![i].status = "planned"]
    /\ UNCHANGED <<findsTokens, disclosable, proofs, artifacts, created, reconciler, revoker>>

\* The answer of markInFlight is not looked at.
PublishInFlight(i) ==
    /\ Publishing(i, "planned", "create") /\ Unlocked(i)
    /\ ledger' = [ledger EXCEPT ![i] = InFlight(@)]
    /\ UNCHANGED <<findsTokens, disclosable, proofs, artifacts, created, reconciler, revoker>>

\* A record that cannot be disclosed yields no handle, without an error.
PublishCreates(i) ==
    /\ publisher[i].at = "create"
    /\ IF i \in disclosable
       THEN /\ Made(i, "publish")
            /\ publisher' = [publisher EXCEPT ![i] = [at |-> "prove", handle |-> Len(created'[i])]]
       ELSE /\ publisher' = [publisher EXCEPT ![i] = [at |-> "prove", handle |-> Null]]
            /\ UNCHANGED <<artifacts, created>>
    /\ UNCHANGED <<findsTokens, disclosable, ledger, proofs, reconciler, revoker>>

PublishCreateFails(i) ==
    /\ Publishing(i, "create", "unsure") /\ i \in disclosable
    /\ Made(i, "publish") \/ UNCHANGED <<artifacts, created>>
    /\ UNCHANGED <<findsTokens, disclosable, ledger, proofs, reconciler, revoker>>

\* A lookup or a write that fails leaves the proof as it was.
PublishProves(i) ==
    /\ Publishing(i, "prove", IF publisher[i].handle = Null THEN "unsure" ELSE "settle")
    /\ \/ /\ Unlocked(i)
          /\ \E f \in FoundByToken(i) :
               proofs' = [proofs EXCEPT ![i] = ProofOf(f, publisher[i].handle)]
       \/ UNCHANGED proofs
    /\ UNCHANGED <<findsTokens, disclosable, ledger, artifacts, created, reconciler, revoker>>

PublishSettles(i) ==
    /\ Publishing(i, "settle", IF ledger[i].status \in Actionables THEN "done" ELSE "unsure")
    /\ Unlocked(i)
    /\ ledger' = [ledger EXCEPT ![i] = Settle(@, publisher[i].handle)]
    /\ UNCHANGED <<findsTokens, disclosable, proofs, artifacts, created, reconciler, revoker>>

PublishAmbiguous(i) ==
    /\ Publishing(i, "unsure", "done") /\ Unlocked(i)
    /\ ledger' = [ledger EXCEPT ![i] = Ambiguous(@)]
    /\ UNCHANGED <<findsTokens, disclosable, proofs, artifacts, created, reconciler, revoker>>

PublisherDies(i) ==
    /\ publisher[i].at \notin {"start", "done"}
    /\ publisher' = [publisher EXCEPT ![i] = [at |-> "done", handle |-> Null]]
    /\ UNCHANGED <<findsTokens, disclosable, ledger, proofs, artifacts, created, reconciler, revoker>>

-----------------------------------------------------------------------------
(* reconcile: evidence and listing, then each intent under its lock.        *)

Recorded == {proofs[i] : i \in Intents} \ {"none"}

\* Slip: a pass lists the intents nobody has started on, and no others.
BeginReconcilePlanned(q) ==
    /\ reconciler[q].at = "idle"
    /\ reconciler' = [reconciler EXCEPT ![q] =
        [NoPass EXCEPT !.at = "next", !.todo = {i \in Intents : ledger[i].status = "planned"}]]
    /\ UNCHANGED <<findsTokens, disclosable, ledger, proofs, artifacts, created, publisher, revoker>>

\* The latest proof decides.  Proofs are dated by their transactions' start, so
\* any recorded one may count as the latest here.
BeginReconcile(q) ==
    /\ reconciler[q].at = "idle"
    /\ \E latest \in IF Recorded = {} THEN {"verified"} ELSE Recorded :
        reconciler' = [reconciler EXCEPT ![q] =
            [NoPass EXCEPT !.at = "next", !.broken = latest # "verified",
                           !.todo = {i \in Intents : ledger[i].status \in Actionables}]]
    /\ UNCHANGED <<findsTokens, disclosable, ledger, proofs, artifacts, created, publisher, revoker>>

EndReconcile(q) ==
    /\ reconciler[q].at = "next" /\ reconciler[q].todo = {}
    /\ reconciler' = [reconciler EXCEPT ![q] = NoPass]
    /\ UNCHANGED <<findsTokens, disclosable, ledger, proofs, artifacts, created, publisher, revoker>>

\* COMMIT, and on to the next intent.
Onward(q) == [NoPass EXCEPT !.at = "next", !.broken = reconciler[q].broken,
                           !.todo = reconciler[q].todo]
Done(q, i, r) ==
    /\ reconciler' = [reconciler EXCEPT ![q] = Onward(q)]
    /\ ledger' = [ledger EXCEPT ![i] = r]

Held(i) == \E q \in Reconcilers : reconciler[q].on = {i}

\* Slip: the intent is not locked.
LockNothing(q, i) ==
    /\ reconciler[q].at = "next" /\ i \in reconciler[q].todo
    /\ reconciler' = [reconciler EXCEPT ![q] =
        LET rest == [Onward(q) EXCEPT !.todo = @ \ {i}]
        IN IF ledger[i].status \notin Actionables THEN rest
           ELSE [rest EXCEPT !.at = "find", !.on = {i}, !.tries = ledger[i].attempts]]
    /\ UNCHANGED <<findsTokens, disclosable, ledger, proofs, artifacts, created, publisher, revoker>>

\* The row is read again under the lock; its attempts are those of this read.
LockIntent(q, i) ==
    /\ reconciler[q].at = "next" /\ i \in reconciler[q].todo
    /\ ~Held(i)
    /\ reconciler' = [reconciler EXCEPT ![q] =
        LET rest == [Onward(q) EXCEPT !.todo = @ \ {i}]
        IN IF ledger[i].status \notin Actionables THEN rest
           ELSE [rest EXCEPT !.at = "find", !.on = {i}, !.tries = ledger[i].attempts]]
    /\ UNCHANGED <<findsTokens, disclosable, ledger, proofs, artifacts, created, publisher, revoker>>

On(q, i, at) == reconciler[q].at = at /\ reconciler[q].on = {i}

\* A lookup that failed is not "not found": nothing is created.
LookupFailed(q, i) ==
    /\ On(q, i, "find") /\ Done(q, i, ledger[i])
    /\ UNCHANGED <<findsTokens, disclosable, proofs, artifacts, created, publisher, revoker>>

Adopt(q, i) ==
    /\ On(q, i, "find")
    /\ \E h \in FoundByToken(i) \ {Null} : Done(q, i, Settle(ledger[i], h))
    /\ UNCHANGED <<findsTokens, disclosable, proofs, artifacts, created, publisher, revoker>>

NotFound(q, i) == On(q, i, "find") /\ Null \in FoundByToken(i)

LeaveStuck(q, i) ==
    /\ NotFound(q, i) /\ reconciler[q].broken
    /\ Done(q, i, ledger[i])
    /\ UNCHANGED <<findsTokens, disclosable, proofs, artifacts, created, publisher, revoker>>

GiveUpIntent(q, i) ==
    /\ NotFound(q, i) /\ ~reconciler[q].broken /\ reconciler[q].tries >= MAX_ATTEMPTS
    /\ Done(q, i, IF ledger[i].status \in Actionables
                  THEN [ledger[i] EXCEPT !.status = "failed"] ELSE ledger[i])
    /\ UNCHANGED <<findsTokens, disclosable, proofs, artifacts, created, publisher, revoker>>

TryAgain(q, i) ==
    /\ NotFound(q, i) /\ ~reconciler[q].broken /\ reconciler[q].tries < MAX_ATTEMPTS
    /\ IF ledger[i].status \in FlightFrom
       THEN /\ reconciler' = [reconciler EXCEPT ![q] =
                 [@ EXCEPT !.at = "create", !.draft = {InFlight(ledger[i])}]]
            /\ UNCHANGED ledger
       ELSE Done(q, i, ledger[i])
    /\ UNCHANGED <<findsTokens, disclosable, proofs, artifacts, created, publisher, revoker>>

Draft(q) == CHOOSE r \in reconciler[q].draft : TRUE

ReconcileCreates(q, i) ==
    /\ On(q, i, "create")
    /\ IF i \in disclosable
       THEN /\ Made(i, "reconcile")
            /\ reconciler' = [reconciler EXCEPT ![q].at = "prove", ![q].handle = Len(created'[i])]
       ELSE /\ reconciler' = [reconciler EXCEPT ![q].at = "prove"]
            /\ UNCHANGED <<artifacts, created>>
    /\ UNCHANGED <<findsTokens, disclosable, ledger, proofs, publisher, revoker>>

ReconcileCreateFails(q, i) ==
    /\ On(q, i, "create") /\ i \in disclosable
    /\ Made(i, "reconcile") \/ UNCHANGED <<artifacts, created>>
    /\ Done(q, i, Ambiguous(Draft(q)))
    /\ UNCHANGED <<findsTokens, disclosable, proofs, publisher, revoker>>

\* Prove, settle or mark ambiguous, COMMIT.  A proof that is not "verified" stops
\* the rest of this pass from creating.
ReconcileProves(q, i) ==
    /\ On(q, i, "prove")
    /\ LET h == reconciler[q].handle
           r == IF h = Null THEN Ambiguous(Draft(q)) ELSE Settle(Draft(q), h)
       IN \/ \E f \in FoundByToken(i) :
               /\ proofs' = [proofs EXCEPT ![i] = ProofOf(f, h)]
               /\ reconciler' = [reconciler EXCEPT ![q] =
                    [Onward(q) EXCEPT !.broken = @ \/ f # h]]
               /\ ledger' = [ledger EXCEPT ![i] = r]
          \/ Done(q, i, r) /\ UNCHANGED proofs
    /\ UNCHANGED <<findsTokens, disclosable, artifacts, created, publisher, revoker>>

\* The process dies; an open transaction rolls back.
ReconcilerDies(q) ==
    /\ reconciler[q].at # "idle"
    /\ reconciler' = [reconciler EXCEPT ![q] = NoPass]
    /\ UNCHANGED <<findsTokens, disclosable, ledger, proofs, artifacts, created, publisher, revoker>>

-----------------------------------------------------------------------------
(* forget, and runRevocation.                                               *)

ForgetRecord(i) ==
    /\ i \in disclosable /\ disclosable' = disclosable \ {i}
    /\ UNCHANGED <<findsTokens, ledger, proofs, artifacts, created, publisher, reconciler, revoker>>

\* cat_publish_reconcile_forgotten, then the listing.
QueueForgotten ==
    /\ revoker = Null
    /\ \E i \in Intents \ disclosable : ledger[i].status = "published"
    /\ ledger' = [i \in Intents |->
         IF ledger[i].status = "published" /\ i \notin disclosable
         THEN [ledger[i] EXCEPT !.status = "revoke_pending"] ELSE ledger[i]]
    /\ UNCHANGED <<findsTokens, disclosable, proofs, artifacts, created, publisher, reconciler, revoker>>

\* Slip: "not found" is a failure.
RevokeArtifactOnce(i) ==
    /\ revoker = Null /\ ledger[i].status = "revoke_pending"
    /\ ledger[i].handle \in artifacts[i]
    /\ artifacts' = [artifacts EXCEPT ![i] = @ \ {ledger[i].handle}]
    /\ revoker' \in {i, Null}
    /\ UNCHANGED <<findsTokens, disclosable, ledger, proofs, created, publisher, reconciler>>

\* The adapter's answer: revoked or not found, both success; or an error, perhaps
\* after the deletion.
RevokeArtifact(i) ==
    /\ revoker = Null /\ ledger[i].status = "revoke_pending"
    /\ \/ /\ artifacts' = [artifacts EXCEPT ![i] = @ \ {ledger[i].handle}]
          /\ revoker' \in {i, Null}
       \/ UNCHANGED <<artifacts, revoker>>
    /\ UNCHANGED <<findsTokens, disclosable, ledger, proofs, created, publisher, reconciler>>

RecordRevoked ==
    /\ revoker # Null /\ revoker' = Null
    /\ ledger' = [ledger EXCEPT ![revoker].status = IF @ = "revoke_pending" THEN "revoked" ELSE @]
    /\ UNCHANGED <<findsTokens, disclosable, proofs, artifacts, created, publisher, reconciler>>

RevokerDies ==
    /\ revoker # Null /\ revoker' = Null
    /\ UNCHANGED <<findsTokens, disclosable, ledger, proofs, artifacts, created, publisher, reconciler>>

-----------------------------------------------------------------------------
OutboxInit ==
    /\ findsTokens \in BOOLEAN
    /\ disclosable = Intents
    /\ ledger = [i \in Intents |-> [status |-> "absent", attempts |-> 0, handle |-> Null]]
    /\ proofs = [i \in Intents |-> "none"]
    /\ artifacts = [i \in Intents |-> {}]
    /\ created = [i \in Intents |-> <<>>]
    /\ publisher = [i \in Intents |-> [at |-> "start", handle |-> Null]]
    /\ reconciler = [q \in Reconcilers |-> NoPass]
    /\ revoker = Null

Publish(i) == PlanIntent(i) \/ PublishInFlight(i) \/ PublishCreates(i) \/ PublishCreateFails(i)
              \/ PublishProves(i) \/ PublishSettles(i) \/ PublishAmbiguous(i) \/ PublisherDies(i)
Reconcile(q, i) == LockIntent(q, i) \/ LookupFailed(q, i) \/ Adopt(q, i) \/ LeaveStuck(q, i)
                   \/ GiveUpIntent(q, i) \/ TryAgain(q, i) \/ ReconcileCreates(q, i)
                   \/ ReconcileCreateFails(q, i) \/ ReconcileProves(q, i)

OutboxNext ==
    \/ \E i \in Intents :
        \/ Publish(i) \/ ForgetRecord(i) \/ RevokeArtifact(i)
        \/ \E q \in Reconcilers : Reconcile(q, i)
    \/ \E q \in Reconcilers : BeginReconcile(q) \/ EndReconcile(q) \/ ReconcilerDies(q)
    \/ QueueForgotten \/ RecordRevoked \/ RevokerDies

OutboxSpec == OutboxInit /\ [][OutboxNext]_outboxVars

-----------------------------------------------------------------------------
ByReconcile(i) == {k \in DOMAIN created[i] : created[i][k] = "reconcile"}

\* On a server that finds tokens, reconcile passes make at most one artifact for a
\* token between them, whatever replies they lose and wherever they die.
ReconcilersCreateOnce ==
    findsTokens => \A i \in Intents : Cardinality(ByReconcile(i)) <= 1

\* An artifact whose reply was lost, or whose pass died, does not stay untracked: on a
\* server that finds tokens its intent leaves the actionable states.
LostReplyIsAdopted ==
    \A i \in Intents :
        (findsTokens /\ artifacts[i] # {} /\ ledger[i].status \in Actionables)
            ~> ledger[i].status \notin Actionables

\* The external copy of a forgotten record is revoked in the end.
ForgottenIsRevoked ==
    \A i \in Intents :
        (ledger[i].status = "published" /\ i \notin disclosable) ~> ledger[i].status = "revoked"
=============================================================================
