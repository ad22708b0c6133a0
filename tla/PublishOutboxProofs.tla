------------------------- MODULE PublishOutboxProofs -------------------------
(***************************************************************************)
(* The publish-intent outbox, for any intents, passes and attempts: the     *)
(* reconcile passes create once.  A pass that may create holds the lock of   *)
(* its intent and has written its row; a row that may still be created for   *)
(* has lost none of the artifacts made under its token.                     *)
(***************************************************************************)
EXTENDS PublishOutbox, FiniteSetTheorems, SequenceTheorems, TLAPS

Statuses == {"absent", "published", "failed", "revoke_pending", "revoked"} \cup Actionables
LedgerRows == [status : Statuses, attempts : Nat, handle : Nat]
Makers == {"publish", "reconcile"}
PassRecords ==
    [at : {"idle", "next", "find", "create", "prove"}, broken : BOOLEAN,
     todo : SUBSET Intents, on : SUBSET Intents, tries : Nat, draft : SUBSET LedgerRows,
     handle : Nat]

OutboxTypeOK ==
    /\ findsTokens \in BOOLEAN
    /\ disclosable \in SUBSET Intents
    /\ ledger \in [Intents -> LedgerRows]
    /\ proofs \in [Intents -> {"none", "verified", "unrecoverable", "contradictory"}]
    /\ artifacts \in [Intents -> SUBSET (Nat \ {Null})]
    /\ created \in [Intents -> Seq(Makers)]
    /\ publisher \in [Intents ->
         [at : {"start", "planned", "create", "prove", "settle", "unsure", "done"}, handle : Nat]]
    /\ reconciler \in [Reconcilers -> PassRecords]
    /\ revoker \in Intents \cup {Null}

-----------------------------------------------------------------------------
(* The inductive invariant.                                                 *)

\* Where an intent is while artifacts may still be created for it.
CanCreate == Actionables \cup {"absent", "failed"}

\* A pass works on one intent, under its lock; the row it has written was one it could
\* put in flight, and nobody moves it.
PassInv(q) ==
    /\ reconciler[q].at \in {"idle", "next"} =>
          reconciler[q].on = {} /\ reconciler[q].draft = {}
    /\ reconciler[q].at = "find" => reconciler[q].draft = {}
    /\ reconciler[q].at \in {"create", "prove"} => \E r \in LedgerRows :
          reconciler[q].draft = {r} /\ r.status = "in_flight"
    /\ \A i \in Intents : reconciler[q].on = {i} /\ reconciler[q].draft # {} =>
          ledger[i].status \in FlightFrom

LockInv ==
    \A i \in Intents : \A p, q \in Reconcilers :
       reconciler[p].on = {i} /\ reconciler[q].on = {i} => p = q

StartInv == \A i \in Intents : publisher[i].at = "start" => ledger[i].status = "absent"

\* Only what is queued for revocation is deleted.
NoneLost ==
    \A i \in Intents : ledger[i].status \in CanCreate /\ created[i] # <<>> => artifacts[i] # {}

\* Where tokens are found, a pass that is about to create is the first.
OnceInv ==
    findsTokens => \A i \in Intents :
       /\ \A k, l \in ByReconcile(i) : k = l
       /\ \A q \in Reconcilers : On(q, i, "create") => ByReconcile(i) = {}

OutboxInv ==
    /\ OutboxTypeOK /\ (\A q \in Reconcilers : PassInv(q)) /\ LockInv /\ StartInv
    /\ NoneLost /\ OnceInv

-----------------------------------------------------------------------------
(* What the steps have in common.                                           *)

\* What a write of the row returns; none makes an intent creatable again.
LEMMA Rows ==
    ASSUME NEW r \in LedgerRows, NEW h \in Nat
    PROVE  /\ InFlight(r) \in LedgerRows /\ Ambiguous(r) \in LedgerRows
           /\ Settle(r, h) \in LedgerRows
           /\ r.status \in FlightFrom => InFlight(r).status = "in_flight"
           /\ \A t \in {InFlight(r), Ambiguous(r), Settle(r, h)} :
                 /\ t.status \in CanCreate => r.status \in CanCreate
                 /\ r.status = "absent" => t.status = "absent"
<1>1. /\ "in_flight" \in Statuses /\ "ambiguous" \in Statuses /\ "published" \in Statuses
  BY DEF Statuses, Actionables
<1>2. /\ InFlight(r) \in LedgerRows
      /\ r.status \in FlightFrom => InFlight(r).status = "in_flight"
      /\ r.status \notin FlightFrom => InFlight(r) = r
  <2>1. CASE r.status \in FlightFrom
    <3> DEFINE s == [r EXCEPT !.status = "in_flight"]
    <3>1. s \in LedgerRows /\ s.status = "in_flight" /\ s.attempts = r.attempts
      BY <1>1 DEF LedgerRows
    <3>2. InFlight(r) = [s EXCEPT !.attempts = s.attempts + 1]
      BY <2>1, <3>1 DEF InFlight, LedgerRows
    <3> HIDE DEF s
    <3> QED BY <2>1, <3>1, <3>2 DEF LedgerRows
  <2>2. CASE r.status \notin FlightFrom BY <2>2 DEF InFlight
  <2> QED BY <2>1, <2>2
<1>3. /\ Ambiguous(r) \in LedgerRows
      /\ Ambiguous(r).status = IF r.status = "in_flight" THEN "ambiguous" ELSE r.status
  BY <1>1 DEF Ambiguous, LedgerRows
<1>4. /\ Settle(r, h) \in LedgerRows
      /\ Settle(r, h).status = IF r.status \in Actionables THEN "published" ELSE r.status
  BY <1>1 DEF Settle, LedgerRows
<1> QED BY <1>2, <1>3, <1>4 DEF CanCreate, Actionables, FlightFrom

\* What a creation leaves.
LEMMA MadeLeaves ==
    ASSUME OutboxTypeOK, NEW i \in Intents, NEW by \in Makers, Made(i, by)
    PROVE  /\ created' \in [Intents -> Seq(Makers)] /\ artifacts' \in [Intents -> SUBSET (Nat \ {Null})]
           /\ \A j \in Intents : artifacts[j] \subseteq artifacts'[j]
           /\ artifacts'[i] # {}
           /\ \A j \in Intents \ {i} : created'[j] = created[j]
           /\ \A j \in Intents \ {i} : ByReconcile(j)' = ByReconcile(j)
           /\ by = "publish" => ByReconcile(i)' = ByReconcile(i)
           /\ \A k, l \in ByReconcile(i)' : k # l => ByReconcile(i) # {}
<1>1. /\ created \in [Intents -> Seq(Makers)] /\ artifacts \in [Intents -> SUBSET (Nat \ {Null})]
      /\ created' = [created EXCEPT ![i] = Append(created[i], by)]
      /\ artifacts' = [artifacts EXCEPT ![i] = artifacts[i] \cup {Len(created[i]) + 1}]
  BY DEF Made, OutboxTypeOK
<1>2. created[i] \in Seq(Makers) BY <1>1
<1> DEFINE n == Len(created[i])
<1>3. n \in Nat /\ DOMAIN created[i] = 1..n BY <1>2
<1>4. /\ Append(created[i], by) \in Seq(Makers)
      /\ DOMAIN Append(created[i], by) = 1..(n + 1)
      /\ \A k \in 1..n : Append(created[i], by)[k] = created[i][k]
      /\ Append(created[i], by)[n + 1] = by
  BY <1>2, AppendProperties
<1>5. created'[i] = Append(created[i], by) /\ \A j \in Intents \ {i} : created'[j] = created[j]
  BY <1>1
<1>6. \A k \in ByReconcile(i)' : k \in ByReconcile(i) \/ (k = n + 1 /\ by = "reconcile")
  BY <1>3, <1>4, <1>5 DEF ByReconcile
<1>7. ByReconcile(i) \subseteq ByReconcile(i)'
  BY <1>3, <1>4, <1>5 DEF ByReconcile
<1>8. by = "publish" => ByReconcile(i)' = ByReconcile(i) BY <1>6, <1>7
<1>9. \A k, l \in ByReconcile(i)' : k # l => ByReconcile(i) # {} BY <1>6
<1>10. \A j \in Intents \ {i} : ByReconcile(j)' = ByReconcile(j) BY <1>5 DEF ByReconcile
<1>11. created' \in [Intents -> Seq(Makers)] BY <1>1, <1>4
<1>12. /\ artifacts' \in [Intents -> SUBSET (Nat \ {Null})] /\ artifacts'[i] # {}
       /\ \A j \in Intents : artifacts[j] \subseteq artifacts'[j]
  <2> HIDE DEF n
  <2>1. artifacts' = [artifacts EXCEPT ![i] = artifacts[i] \cup {n + 1}] BY <1>1 DEF n
  <2> QED BY <1>1, <1>3, <2>1 DEF Null
<1> QED BY <1>5, <1>8, <1>9, <1>10, <1>11, <1>12

LEMMA InitOutbox == OutboxInit => OutboxInv
<1> SUFFICES ASSUME OutboxInit PROVE OutboxInv OBVIOUS
<1>1. NoPass \in PassRecords /\ NoPass.at = "idle" /\ NoPass.on = {} /\ NoPass.draft = {}
  BY DEF NoPass, PassRecords, Null
<1>2. /\ ledger \in [Intents -> LedgerRows] /\ \A i \in Intents : ledger[i].status = "absent"
  BY DEF OutboxInit, LedgerRows, Statuses, Null
<1>3. /\ \A q \in Reconcilers : reconciler[q] = NoPass
      /\ \A i \in Intents : created[i] = <<>>
  BY DEF OutboxInit
<1>4. OutboxTypeOK
  BY <1>1, <1>2 DEF OutboxInit, OutboxTypeOK, Null
<1>5. \A q \in Reconcilers : PassInv(q) BY <1>1, <1>3 DEF PassInv
<1>6. LockInv BY <1>1, <1>3 DEF LockInv
<1>7. StartInv BY <1>2 DEF StartInv
<1>8. NoneLost BY <1>3 DEF NoneLost
<1>9. \A i \in Intents : ByReconcile(i) = {} BY <1>3 DEF ByReconcile
<1>10. OnceInv BY <1>9 DEF OnceInv
<1> QED BY <1>4, <1>5, <1>6, <1>7, <1>8, <1>10 DEF OutboxInv

-----------------------------------------------------------------------------
(* Every action keeps it.  First those that move no pass.                   *)

LEMMA PassesStay ==
    ASSUME OutboxInv, reconciler' = reconciler, findsTokens' = findsTokens, OutboxTypeOK',
           \A i \in Intents : \/ ledger'[i] = ledger[i]
                              \/ Unlocked(i) \/ ledger[i].status \notin FlightFrom,
           \A i \in Intents : publisher'[i].at = "start" =>
              publisher[i].at = "start" /\ ledger'[i] = ledger[i],
           \A i \in Intents : ByReconcile(i)' = ByReconcile(i), NoneLost'
    PROVE  OutboxInv'
<1>1. ASSUME NEW q \in Reconcilers PROVE PassInv(q)'
  <2>1. PassInv(q) BY DEF OutboxInv
  <2>2. \A i \in Intents : reconciler[q].on = {i} /\ reconciler[q].draft # {} => ~Unlocked(i)
    BY DEF Unlocked
  <2> QED BY <2>1, <2>2 DEF PassInv
<1>2. LockInv' BY DEF OutboxInv, LockInv
<1>3. StartInv' BY DEF OutboxInv, StartInv
<1>4. OnceInv' BY DEF OutboxInv, OnceInv, On
<1> QED BY <1>1, <1>2, <1>3, <1>4 DEF OutboxInv

\* The publish call writes its row: only once its intent is planned, and never while
\* a pass has the row.
LEMMA PublishWrites ==
    ASSUME OutboxInv, NEW i \in Intents, NEW r \in LedgerRows, NEW to, NEW from,
           Publishing(i, from, to),
           to \in {"planned", "create", "prove", "settle", "unsure", "done"},
           ledger' = [ledger EXCEPT ![i] = r], r = ledger[i] \/ from = "start" \/ Unlocked(i),
           r.status \in CanCreate => ledger[i].status \in CanCreate,
           proofs' \in [Intents -> {"none", "verified", "unrecoverable", "contradictory"}],
           UNCHANGED <<findsTokens, disclosable, artifacts, created, reconciler, revoker>>
    PROVE  OutboxInv'
<1>1. OutboxTypeOK /\ StartInv /\ NoneLost BY DEF OutboxInv
<1>2. /\ ledger' \in [Intents -> LedgerRows] /\ ledger'[i] = r
      /\ \A j \in Intents \ {i} : ledger'[j] = ledger[j]
  BY <1>1 DEF OutboxTypeOK
<1>3. /\ publisher[i].at = from /\ publisher'[i].at = to
      /\ \A j \in Intents \ {i} : publisher'[j] = publisher[j]
      /\ publisher' \in [Intents ->
           [at : {"start", "planned", "create", "prove", "settle", "unsure", "done"}, handle : Nat]]
  BY <1>1 DEF Publishing, OutboxTypeOK
<1>4. from = "start" => ledger[i].status \notin FlightFrom
  BY <1>1, <1>3 DEF StartInv, FlightFrom
<1>5. OutboxTypeOK' BY <1>1, <1>2, <1>3 DEF OutboxTypeOK
<1>6. NoneLost' BY <1>1, <1>2 DEF NoneLost
<1>7. \A j \in Intents : ByReconcile(j)' = ByReconcile(j) BY DEF ByReconcile
<1>8. \A j \in Intents : \/ ledger'[j] = ledger[j]
                         \/ Unlocked(j) \/ ledger[j].status \notin FlightFrom
  BY <1>2, <1>4
<1>9. \A j \in Intents : publisher'[j].at = "start" =>
         publisher[j].at = "start" /\ ledger'[j] = ledger[j]
  BY <1>2, <1>3
<1> QED BY <1>5, <1>6, <1>7, <1>8, <1>9, PassesStay

LEMMA PublishStepsKeep ==
    ASSUME OutboxInv, NEW i \in Intents,
           \/ PlanIntent(i) \/ PublishInFlight(i) \/ PublishProves(i)
           \/ PublishSettles(i) \/ PublishAmbiguous(i)
    PROVE  OutboxInv'
<1>1. /\ ledger \in [Intents -> LedgerRows] /\ ledger[i] \in LedgerRows
      /\ publisher[i].handle \in Nat
      /\ proofs \in [Intents -> {"none", "verified", "unrecoverable", "contradictory"}]
  BY DEF OutboxInv, OutboxTypeOK
<1>2. CASE PlanIntent(i)
  <2> DEFINE r == [ledger[i] EXCEPT !.status = "planned"]
  <2>1. r \in LedgerRows BY <1>1 DEF LedgerRows, Statuses, Actionables
  <2>2. ledger' = [ledger EXCEPT ![i] = r] BY <1>1, <1>2 DEF PlanIntent
  <2>3. ledger[i].status \in CanCreate
    BY <1>2 DEF PlanIntent, Publishing, OutboxInv, StartInv, CanCreate
  <2> HIDE DEF r
  <2>4. /\ Publishing(i, "start", "planned")
        /\ UNCHANGED <<findsTokens, disclosable, proofs, artifacts, created, reconciler, revoker>>
    BY <1>2 DEF PlanIntent
  <2> QED BY <1>1, <2>1, <2>2, <2>3, <2>4, PublishWrites
<1>3. CASE PublishInFlight(i)
  <2>1. /\ Publishing(i, "planned", "create") /\ Unlocked(i)
        /\ ledger' = [ledger EXCEPT ![i] = InFlight(ledger[i])]
        /\ UNCHANGED <<findsTokens, disclosable, proofs, artifacts, created, reconciler, revoker>>
    BY <1>3 DEF PublishInFlight
  <2> QED BY <1>1, <2>1, Rows, PublishWrites
<1>4. CASE PublishProves(i)
  <2> DEFINE to == IF publisher[i].handle = Null THEN "unsure" ELSE "settle"
  <2>1. /\ Publishing(i, "prove", to) /\ to \in {"unsure", "settle"}
        /\ UNCHANGED <<findsTokens, disclosable, ledger, artifacts, created, reconciler, revoker>>
    BY <1>4 DEF PublishProves
  <2>2. proofs' \in [Intents -> {"none", "verified", "unrecoverable", "contradictory"}]
    BY <1>1, <1>4 DEF PublishProves, ProofOf
  <2>3. ledger' = [ledger EXCEPT ![i] = ledger[i]] BY <1>1, <2>1
  <2> HIDE DEF to
  <2> QED BY <1>1, <2>1, <2>2, <2>3, PublishWrites
<1>5. CASE PublishSettles(i)
  <2> DEFINE to == IF ledger[i].status \in Actionables THEN "done" ELSE "unsure"
  <2>1. /\ Publishing(i, "settle", to) /\ to \in {"done", "unsure"} /\ Unlocked(i)
        /\ ledger' = [ledger EXCEPT ![i] = Settle(ledger[i], publisher[i].handle)]
        /\ UNCHANGED <<findsTokens, disclosable, proofs, artifacts, created, reconciler, revoker>>
    BY <1>5 DEF PublishSettles
  <2> HIDE DEF to
  <2> QED BY <1>1, <2>1, Rows, PublishWrites
<1>6. CASE PublishAmbiguous(i)
  <2>1. /\ Publishing(i, "unsure", "done") /\ Unlocked(i)
        /\ ledger' = [ledger EXCEPT ![i] = Ambiguous(ledger[i])]
        /\ UNCHANGED <<findsTokens, disclosable, proofs, artifacts, created, reconciler, revoker>>
    BY <1>6 DEF PublishAmbiguous
  <2> QED BY <1>1, <2>1, Rows, PublishWrites
<1> QED BY <1>2, <1>3, <1>4, <1>5, <1>6

LEMMA PublishCreationsKeep ==
    ASSUME OutboxInv, NEW i \in Intents,
           PublishCreates(i) \/ PublishCreateFails(i) \/ PublisherDies(i)
    PROVE  OutboxInv'
<1>1. OutboxTypeOK /\ NoneLost /\ publisher[i].at # "start"
  BY DEF OutboxInv, PublishCreates, PublishCreateFails, PublisherDies, Publishing
<1>2. UNCHANGED <<findsTokens, disclosable, ledger, proofs, reconciler, revoker>>
  BY DEF PublishCreates, PublishCreateFails, PublisherDies
<1>3. Made(i, "publish") \/ UNCHANGED <<artifacts, created>>
  BY DEF PublishCreates, PublishCreateFails, PublisherDies
<1>4. /\ created' \in [Intents -> Seq(Makers)]
      /\ artifacts' \in [Intents -> SUBSET (Nat \ {Null})]
      /\ \A j \in Intents : ByReconcile(j)' = ByReconcile(j)
      /\ NoneLost'
  <2>1. CASE Made(i, "publish")
    BY <1>1, <1>2, <2>1, MadeLeaves DEF Makers, NoneLost
  <2>2. CASE UNCHANGED <<artifacts, created>>
    BY <1>1, <1>2, <2>2 DEF OutboxTypeOK, ByReconcile, NoneLost
  <2> QED BY <1>3, <2>1, <2>2
<1>5. /\ publisher' \in [Intents ->
           [at : {"start", "planned", "create", "prove", "settle", "unsure", "done"}, handle : Nat]]
      /\ publisher'[i].at # "start" /\ \A j \in Intents \ {i} : publisher'[j] = publisher[j]
  <2>1. Len(created'[i]) \in Nat BY <1>4
  <2>2. PICK v \in [at : {"prove", "unsure", "done"}, handle : Nat] :
          publisher' = [publisher EXCEPT ![i] = v]
    <3>1. CASE PublishCreates(i)
      <4>1. \/ publisher' = [publisher EXCEPT ![i] =
                               [at |-> "prove", handle |-> Len(created'[i])]]
            \/ publisher' = [publisher EXCEPT ![i] = [at |-> "prove", handle |-> Null]]
        BY <3>1 DEF PublishCreates
      <4> QED BY <2>1, <4>1 DEF Null
    <3>2. CASE PublishCreateFails(i)
      <4> DEFINE v == [publisher[i] EXCEPT !.at = "unsure"]
      <4>1. v \in [at : {"prove", "unsure", "done"}, handle : Nat] BY <1>1 DEF OutboxTypeOK
      <4>2. publisher' = [publisher EXCEPT ![i] = v]
        BY <1>1, <3>2 DEF PublishCreateFails, Publishing, OutboxTypeOK
      <4> HIDE DEF v
      <4> QED BY <4>1, <4>2
    <3>3. CASE PublisherDies(i) BY <3>3 DEF PublisherDies, Null
    <3> QED BY <3>1, <3>2, <3>3
  <2> QED BY <1>1, <2>2 DEF OutboxTypeOK
<1>6. OutboxTypeOK' BY <1>1, <1>2, <1>4, <1>5 DEF OutboxTypeOK
<1> QED BY <1>1, <1>2, <1>4, <1>5, <1>6, PassesStay

LEMMA RevocationKeeps ==
    ASSUME OutboxInv,
           \/ \E i \in Intents : ForgetRecord(i) \/ RevokeArtifact(i)
           \/ QueueForgotten \/ RecordRevoked \/ RevokerDies
    PROVE  OutboxInv'
<1>1. OutboxTypeOK /\ NoneLost BY DEF OutboxInv
<1>2. UNCHANGED <<findsTokens, proofs, created, publisher, reconciler>>
  BY DEF ForgetRecord, RevokeArtifact, QueueForgotten, RecordRevoked, RevokerDies
<1>3. disclosable' \in SUBSET Intents /\ revoker' \in Intents \cup {Null}
  BY <1>1 DEF ForgetRecord, RevokeArtifact, QueueForgotten, RecordRevoked, RevokerDies,
     OutboxTypeOK
<1>4. /\ ledger' \in [Intents -> LedgerRows]
      /\ \A i \in Intents : \/ ledger'[i] = ledger[i]
                            \/ /\ ledger[i].status \in {"published", "revoke_pending"}
                               /\ ledger'[i].status \in {"revoke_pending", "revoked"}
  <2>1. CASE UNCHANGED ledger BY <1>1, <2>1 DEF OutboxTypeOK
  <2>2. CASE QueueForgotten
    <3>1. \A i \in Intents : LET r == [ledger[i] EXCEPT !.status = "revoke_pending"]
                            IN r \in LedgerRows /\ r.status = "revoke_pending"
      <4>1. \A r \in LedgerRows : LET n == [r EXCEPT !.status = "revoke_pending"]
                                 IN n \in LedgerRows /\ n.status = "revoke_pending"
        BY DEF LedgerRows, Statuses
      <4>2. \A i \in Intents : ledger[i] \in LedgerRows BY <1>1 DEF OutboxTypeOK
      <4> QED BY <4>1, <4>2
    <3> QED BY <1>1, <2>2, <3>1 DEF QueueForgotten, OutboxTypeOK
  <2>3. CASE RecordRevoked
    <3>1. revoker \in Intents BY <1>1, <2>3 DEF RecordRevoked, OutboxTypeOK
    <3>2. ledger[revoker] \in LedgerRows BY <1>1, <3>1 DEF OutboxTypeOK
    <3> DEFINE r == [ledger[revoker] EXCEPT !.status = IF @ = "revoke_pending" THEN "revoked" ELSE @]
    <3>3. /\ r \in LedgerRows
          /\ r = ledger[revoker] \/ (ledger[revoker].status = "revoke_pending" /\ r.status = "revoked")
      BY <3>2 DEF LedgerRows, Statuses
    <3>4. ledger' = [ledger EXCEPT ![revoker] = r] BY <2>3, <3>1, <1>1 DEF RecordRevoked, OutboxTypeOK
    <3> HIDE DEF r
    <3> QED BY <1>1, <3>1, <3>3, <3>4 DEF OutboxTypeOK
  <2> QED BY <2>1, <2>2, <2>3 DEF ForgetRecord, RevokeArtifact, RevokerDies
<1>5. /\ artifacts' \in [Intents -> SUBSET (Nat \ {Null})]
      /\ \A i \in Intents : artifacts'[i] = artifacts[i] \/ ledger'[i].status = "revoke_pending"
  <2>1. CASE UNCHANGED artifacts BY <1>1, <2>1 DEF OutboxTypeOK
  <2>2. ASSUME NEW i \in Intents, RevokeArtifact(i) PROVE <1>5!:
    BY <1>1, <2>2 DEF RevokeArtifact, OutboxTypeOK
  <2> QED BY <2>1, <2>2 DEF ForgetRecord, QueueForgotten, RecordRevoked, RevokerDies
<1>6. OutboxTypeOK' BY <1>1, <1>2, <1>3, <1>4, <1>5 DEF OutboxTypeOK
<1>7. NoneLost' BY <1>1, <1>2, <1>4, <1>5 DEF NoneLost, CanCreate, Actionables
<1>8. \A i \in Intents : ByReconcile(i)' = ByReconcile(i) BY <1>2 DEF ByReconcile
<1>9. \A i \in Intents : publisher'[i].at = "start" =>
         publisher[i].at = "start" /\ ledger'[i] = ledger[i]
  BY <1>2, <1>4 DEF OutboxInv, StartInv
<1>10. \A i \in Intents : ledger'[i] = ledger[i] \/ ledger[i].status \notin FlightFrom
  BY <1>4 DEF FlightFrom
<1> QED BY <1>2, <1>6, <1>7, <1>8, <1>9, <1>10, PassesStay

-----------------------------------------------------------------------------
(* The steps of the passes.                                                 *)

\* A pass at rest, or between two intents.
LEMMA PassRests ==
    ASSUME OutboxInv, NEW q \in Reconcilers, NEW e \in PassRecords,
           e.at \in {"idle", "next"}, e.on = {}, e.draft = {},
           reconciler' = [reconciler EXCEPT ![q] = e],
           UNCHANGED <<findsTokens, disclosable, ledger, proofs, artifacts, created, publisher,
                       revoker>>
    PROVE  OutboxInv'
<1>1. /\ reconciler' \in [Reconcilers -> PassRecords] /\ reconciler'[q] = e
      /\ \A p \in Reconcilers \ {q} : reconciler'[p] = reconciler[p]
  BY DEF OutboxInv, OutboxTypeOK
<1>2. \A p \in Reconcilers : PassInv(p)' BY <1>1 DEF OutboxInv, PassInv
<1>3. LockInv' BY <1>1 DEF OutboxInv, LockInv
<1>4. StartInv' /\ NoneLost' BY DEF OutboxInv, StartInv, NoneLost
<1>5. OnceInv'
  <2>1. \A i \in Intents : ByReconcile(i)' = ByReconcile(i) BY DEF ByReconcile
  <2> QED BY <1>1, <2>1 DEF OutboxInv, OnceInv, On
<1>6. OutboxTypeOK' BY <1>1 DEF OutboxInv, OutboxTypeOK
<1> QED BY <1>2, <1>3, <1>4, <1>5, <1>6 DEF OutboxInv

LEMMA OnwardRests ==
    ASSUME OutboxTypeOK, NEW q \in Reconcilers
    PROVE  /\ Onward(q) \in PassRecords /\ NoPass \in PassRecords
           /\ Onward(q).at = "next" /\ Onward(q).on = {} /\ Onward(q).draft = {}
           /\ NoPass.at = "idle" /\ NoPass.on = {} /\ NoPass.draft = {}
BY DEF OutboxTypeOK, Onward, NoPass, PassRecords, Null

LEMMA PassBeginsOrEnds ==
    ASSUME OutboxInv, NEW q \in Reconcilers,
           BeginReconcile(q) \/ EndReconcile(q) \/ ReconcilerDies(q)
    PROVE  OutboxInv'
<1>1. OutboxTypeOK BY DEF OutboxInv
<1>2. UNCHANGED <<findsTokens, disclosable, ledger, proofs, artifacts, created, publisher,
                  revoker>>
  BY DEF BeginReconcile, EndReconcile, ReconcilerDies
<1>3. CASE BeginReconcile(q)
  <2> DEFINE todo == {i \in Intents : ledger[i].status \in Actionables}
  <2>1. PICK latest : reconciler' = [reconciler EXCEPT ![q] =
            [NoPass EXCEPT !.at = "next", !.broken = latest # "verified", !.todo = todo]]
    BY <1>3 DEF BeginReconcile
  <2> DEFINE broken == latest # "verified"
             e == [NoPass EXCEPT !.at = "next", !.broken = broken, !.todo = todo]
  <2>2. reconciler' = [reconciler EXCEPT ![q] = e] BY <2>1
  <2>3. broken \in BOOLEAN /\ todo \in SUBSET Intents OBVIOUS
  <2> HIDE DEF broken, todo
  <2>4. e \in PassRecords /\ e.at = "next" /\ e.on = {} /\ e.draft = {}
    BY <2>3 DEF NoPass, PassRecords, Null
  <2> HIDE DEF e
  <2> QED BY <1>2, <2>2, <2>4, PassRests
<1>4. CASE EndReconcile(q) \/ ReconcilerDies(q)
  <2>1. reconciler' = [reconciler EXCEPT ![q] = NoPass]
    BY <1>4 DEF EndReconcile, ReconcilerDies
  <2> QED BY <1>1, <1>2, <2>1, OnwardRests, PassRests
<1> QED BY <1>3, <1>4

\* A pass is through with an intent: COMMIT of the row r.  Its last call may have
\* created an artifact.
LEMMA PassCommits ==
    ASSUME OutboxInv, NEW q \in Reconcilers, NEW i \in Intents, reconciler[q].on = {i},
           NEW e \in PassRecords, e.at = "next", e.on = {}, e.draft = {},
           reconciler' = [reconciler EXCEPT ![q] = e],
           NEW r \in LedgerRows, ledger' = [ledger EXCEPT ![i] = r],
           r.status \in CanCreate => ledger[i].status \in CanCreate,
           ledger[i].status = "absent" => r.status = "absent",
           proofs' \in [Intents -> {"none", "verified", "unrecoverable", "contradictory"}],
           \/ UNCHANGED <<artifacts, created>>
           \/ reconciler[q].at = "create" /\ Made(i, "reconcile"),
           UNCHANGED <<findsTokens, disclosable, publisher, revoker>>
    PROVE  OutboxInv'
<1>1. OutboxTypeOK /\ LockInv /\ StartInv /\ NoneLost /\ OnceInv BY DEF OutboxInv
<1>2. /\ reconciler' \in [Reconcilers -> PassRecords] /\ reconciler'[q] = e
      /\ \A p \in Reconcilers \ {q} : reconciler'[p] = reconciler[p]
  BY <1>1 DEF OutboxTypeOK
<1>3. /\ ledger' \in [Intents -> LedgerRows] /\ ledger'[i] = r
      /\ \A j \in Intents \ {i} : ledger'[j] = ledger[j]
  BY <1>1 DEF OutboxTypeOK
<1>4. \A p \in Reconcilers \ {q} : reconciler[p].on # {i} BY <1>1 DEF LockInv
<1>5. ASSUME NEW p \in Reconcilers PROVE PassInv(p)'
  <2>1. CASE p = q BY <1>2, <2>1 DEF PassInv
  <2>2. CASE p # q
    <3>1. PassInv(p) /\ reconciler'[p] = reconciler[p] /\ reconciler[p].on # {i}
      BY <1>2, <1>4, <2>2 DEF OutboxInv
    <3> QED BY <1>3, <3>1 DEF PassInv
  <2> QED BY <2>1, <2>2
<1>6. LockInv' BY <1>1, <1>2 DEF LockInv
<1>7. StartInv' BY <1>1, <1>3 DEF StartInv
<1>8. /\ created' \in [Intents -> Seq(Makers)]
      /\ artifacts' \in [Intents -> SUBSET (Nat \ {Null})]
      /\ NoneLost'
      /\ \A j \in Intents \ {i} : ByReconcile(j)' = ByReconcile(j)
      /\ findsTokens => \A k, l \in ByReconcile(i)' : k = l
  <2>1. CASE UNCHANGED <<artifacts, created>>
    BY <1>1, <1>3, <2>1 DEF OutboxTypeOK, NoneLost, ByReconcile, OnceInv
  <2>2. CASE reconciler[q].at = "create" /\ Made(i, "reconcile")
    <3>1. findsTokens => ByReconcile(i) = {} BY <1>1, <2>2 DEF OnceInv, On
    <3>2. "reconcile" \in Makers BY DEF Makers
    <3>3. NoneLost' BY <1>1, <1>3, <2>2, <3>2, MadeLeaves DEF NoneLost
    <3> QED BY <1>1, <2>2, <3>1, <3>2, <3>3, MadeLeaves
  <2> QED BY <2>1, <2>2
<1>9. OnceInv'
  <2> SUFFICES ASSUME findsTokens, NEW j \in Intents
               PROVE  /\ \A k, l \in ByReconcile(j)' : k = l
                      /\ \A p \in Reconcilers : On(p, j, "create")' => ByReconcile(j)' = {}
    BY DEF OnceInv
  <2>1. ASSUME NEW p \in Reconcilers, On(p, j, "create")' PROVE ByReconcile(j)' = {}
    <3>1. p # q BY <1>2, <2>1 DEF On
    <3>2. On(p, j, "create") BY <1>2, <2>1, <3>1 DEF On
    <3>3. j # i BY <1>4, <3>1, <3>2 DEF On
    <3> QED BY <1>1, <1>8, <3>2, <3>3 DEF OnceInv
  <2>2. \A k, l \in ByReconcile(j)' : k = l
    <3>1. CASE j = i BY <1>8, <3>1
    <3>2. CASE j # i BY <1>1, <1>8, <3>2 DEF OnceInv
    <3> QED BY <3>1, <3>2
  <2> QED BY <2>1, <2>2
<1>10. OutboxTypeOK' BY <1>1, <1>2, <1>3, <1>8 DEF OutboxTypeOK
<1> QED BY <1>5, <1>6, <1>7, <1>8, <1>9, <1>10 DEF OutboxInv

LEMMA CommitsWithoutCreating ==
    ASSUME OutboxInv, NEW q \in Reconcilers, NEW i \in Intents,
           \/ LookupFailed(q, i) \/ Adopt(q, i) \/ LeaveStuck(q, i) \/ GiveUpIntent(q, i)
           \/ TryAgain(q, i) /\ ledger[i].status \notin FlightFrom
    PROVE  OutboxInv'
<1>1. /\ OutboxTypeOK /\ ledger[i] \in LedgerRows /\ reconciler[q].on = {i}
      /\ proofs \in [Intents -> {"none", "verified", "unrecoverable", "contradictory"}]
  BY DEF OutboxInv, OutboxTypeOK, LookupFailed, Adopt, LeaveStuck, GiveUpIntent, TryAgain,
     NotFound, On
<1>2. UNCHANGED <<findsTokens, disclosable, proofs, artifacts, created, publisher, revoker>>
  BY DEF LookupFailed, Adopt, LeaveStuck, GiveUpIntent, TryAgain
<1>3. ASSUME NEW r \in LedgerRows, Done(q, i, r),
             r.status \in CanCreate => ledger[i].status \in CanCreate,
             ledger[i].status = "absent" => r.status = "absent"
      PROVE  OutboxInv'
  <2>1. /\ reconciler' = [reconciler EXCEPT ![q] = Onward(q)]
        /\ ledger' = [ledger EXCEPT ![i] = r]
    BY <1>3 DEF Done
  <2> QED BY <1>1, <1>2, <1>3, <2>1, OnwardRests, PassCommits
<1>4. CASE Done(q, i, ledger[i]) BY <1>1, <1>3, <1>4
<1>5. CASE Adopt(q, i)
  <2>1. PICK h \in FoundByToken(i) \ {Null} : Done(q, i, Settle(ledger[i], h))
    BY <1>5 DEF Adopt
  <2>2. h \in Nat BY <1>1, <2>1 DEF FoundByToken, OutboxTypeOK
  <2> QED BY <1>1, <1>3, <2>1, <2>2, Rows
<1>6. CASE GiveUpIntent(q, i)
  <2> DEFINE r == IF ledger[i].status \in Actionables
                  THEN [ledger[i] EXCEPT !.status = "failed"] ELSE ledger[i]
  <2>1. Done(q, i, r) BY <1>6 DEF GiveUpIntent
  <2>2. /\ r \in LedgerRows /\ (r.status \in CanCreate => ledger[i].status \in CanCreate)
        /\ ledger[i].status = "absent" => r.status = "absent"
    BY <1>1 DEF LedgerRows, Statuses, CanCreate, Actionables
  <2> HIDE DEF r
  <2> QED BY <1>3, <2>1, <2>2
<1> QED BY <1>4, <1>5, <1>6 DEF LookupFailed, LeaveStuck, TryAgain

LEMMA CommitsAfterCreating ==
    ASSUME OutboxInv, NEW q \in Reconcilers, NEW i \in Intents,
           ReconcileCreateFails(q, i) \/ ReconcileProves(q, i)
    PROVE  OutboxInv'
<1>1. /\ OutboxTypeOK /\ PassInv(q) /\ reconciler[q] \in PassRecords /\ reconciler[q].on = {i}
      /\ reconciler[q].at \in {"create", "prove"}
      /\ proofs \in [Intents -> {"none", "verified", "unrecoverable", "contradictory"}]
  BY DEF OutboxInv, OutboxTypeOK, ReconcileCreateFails, ReconcileProves, On
<1>2. PICK d \in LedgerRows : reconciler[q].draft = {d} /\ d.status = "in_flight"
  BY <1>1 DEF PassInv
<1>3. Draft(q) = d
  <2>1. (CHOOSE r \in {d} : TRUE) = d OBVIOUS
  <2> QED BY <1>2, <2>1 DEF Draft
<1>4. ledger[i].status \in FlightFrom BY <1>1, <1>2 DEF PassInv
<1>5. ledger[i].status \in CanCreate /\ ledger[i].status # "absent"
  BY <1>4 DEF FlightFrom, CanCreate, Actionables
<1>6. UNCHANGED <<findsTokens, disclosable, publisher, revoker>>
  BY DEF ReconcileCreateFails, ReconcileProves
<1>7. CASE ReconcileCreateFails(q, i)
  <2>1. /\ reconciler[q].at = "create"
        /\ Made(i, "reconcile") \/ UNCHANGED <<artifacts, created>>
        /\ reconciler' = [reconciler EXCEPT ![q] = Onward(q)]
        /\ ledger' = [ledger EXCEPT ![i] = Ambiguous(d)] /\ proofs' = proofs
    BY <1>3, <1>7 DEF ReconcileCreateFails, On, Done
  <2>2. Ambiguous(d) \in LedgerRows BY Rows DEF LedgerRows
  <2> QED BY <1>1, <1>5, <1>6, <2>1, <2>2, OnwardRests, PassCommits
<1>8. CASE ReconcileProves(q, i)
  <2> DEFINE h == reconciler[q].handle
             r == IF h = Null THEN Ambiguous(d) ELSE Settle(d, h)
  <2>1. h \in Nat BY <1>1 DEF PassRecords
  <2>2. r \in LedgerRows BY <2>1, Rows
  <2>3. UNCHANGED <<artifacts, created>> BY <1>8 DEF ReconcileProves
  <2>4. \/ \E f \in FoundByToken(i) :
              /\ proofs' = [proofs EXCEPT ![i] = ProofOf(f, h)]
              /\ reconciler' = [reconciler EXCEPT ![q] =
                   [Onward(q) EXCEPT !.broken = @ \/ f # h]]
              /\ ledger' = [ledger EXCEPT ![i] = r]
        \/ Done(q, i, r) /\ UNCHANGED proofs
    BY <1>3, <1>8 DEF ReconcileProves
  <2> HIDE DEF r, h
  <2>5. CASE Done(q, i, r) /\ UNCHANGED proofs
    <3>1. /\ reconciler' = [reconciler EXCEPT ![q] = Onward(q)]
          /\ ledger' = [ledger EXCEPT ![i] = r] /\ proofs' = proofs
      BY <2>5 DEF Done
    <3> QED BY <1>1, <1>5, <1>6, <2>2, <2>3, <3>1, OnwardRests, PassCommits
  <2>6. ASSUME NEW f \in FoundByToken(i),
               proofs' = [proofs EXCEPT ![i] = ProofOf(f, h)],
               reconciler' = [reconciler EXCEPT ![q] =
                  [Onward(q) EXCEPT !.broken = @ \/ f # h]],
               ledger' = [ledger EXCEPT ![i] = r]
        PROVE  OutboxInv'
    <3> DEFINE broken == Onward(q).broken \/ f # h
               e == [Onward(q) EXCEPT !.broken = broken]
    <3>1. Onward(q) \in PassRecords /\ Onward(q).at = "next" /\ Onward(q).on = {}
          /\ Onward(q).draft = {}
      BY <1>1, OnwardRests
    <3>2. broken \in BOOLEAN BY <3>1 DEF PassRecords
    <3>3. reconciler' = [reconciler EXCEPT ![q] = e] BY <2>6, <3>1 DEF PassRecords
    <3> HIDE DEF broken
    <3>4. e \in PassRecords /\ e.at = "next" /\ e.on = {} /\ e.draft = {}
      BY <3>1, <3>2 DEF PassRecords
    <3> HIDE DEF e
    <3>5. proofs' \in [Intents -> {"none", "verified", "unrecoverable", "contradictory"}]
      BY <1>1, <2>6 DEF ProofOf
    <3> QED BY <1>1, <1>5, <1>6, <2>2, <2>3, <2>6, <3>3, <3>4, <3>5, PassCommits
  <2> QED BY <2>4, <2>5, <2>6
<1> QED BY <1>7, <1>8

\* What is left to show of a step after which the pass still holds the intent's lock.
LEMMA PassGoesOn ==
    ASSUME OutboxInv, NEW q \in Reconcilers, NEW i \in Intents,
           reconciler[q].on = {i} \/ ~Held(i),
           NEW e \in PassRecords, e.on = {i}, reconciler' = [reconciler EXCEPT ![q] = e],
           e.at = "find" => e.draft = {}, e.at \in {"find", "create", "prove"},
           e.at # "find" => /\ ledger[i].status \in FlightFrom
                            /\ \E r \in LedgerRows : e.draft = {r} /\ r.status = "in_flight",
           findsTokens /\ e.at = "create" => ByReconcile(i) = {},
           \/ UNCHANGED <<artifacts, created>>
           \/ On(q, i, "create") /\ e.at # "create" /\ Made(i, "reconcile"),
           UNCHANGED <<findsTokens, disclosable, ledger, proofs, publisher, revoker>>
    PROVE  OutboxInv'
<1>1. OutboxTypeOK /\ LockInv /\ StartInv /\ NoneLost /\ OnceInv BY DEF OutboxInv
<1>2. /\ reconciler' \in [Reconcilers -> PassRecords] /\ reconciler'[q] = e
      /\ \A p \in Reconcilers \ {q} : reconciler'[p] = reconciler[p]
  BY <1>1 DEF OutboxTypeOK
<1>3. \A p \in Reconcilers \ {q} : reconciler[p].on # {i} BY <1>1 DEF LockInv, Held
<1>4. ASSUME NEW p \in Reconcilers PROVE PassInv(p)'
  <2>1. CASE p = q
    <3>1. \A j \in Intents : e.on = {j} => j = i OBVIOUS
    <3> QED BY <1>2, <2>1, <3>1 DEF PassInv
  <2>2. CASE p # q BY <1>2, <2>2 DEF OutboxInv, PassInv
  <2> QED BY <2>1, <2>2
<1>5. LockInv'
  <2>1. \A j \in Intents : e.on = {j} => j = i OBVIOUS
  <2> QED BY <1>1, <1>2, <1>3, <2>1 DEF LockInv
<1>6. StartInv' BY <1>1 DEF StartInv
<1>7. /\ created' \in [Intents -> Seq(Makers)]
      /\ artifacts' \in [Intents -> SUBSET (Nat \ {Null})]
      /\ NoneLost'
      /\ \A j \in Intents \ {i} : ByReconcile(j)' = ByReconcile(j)
      /\ findsTokens => \A k, l \in ByReconcile(i)' : k = l
      /\ e.at = "create" => ByReconcile(i)' = ByReconcile(i)
  <2>1. CASE UNCHANGED <<artifacts, created>>
    BY <1>1, <2>1 DEF OutboxTypeOK, NoneLost, ByReconcile, OnceInv
  <2>2. CASE On(q, i, "create") /\ e.at # "create" /\ Made(i, "reconcile")
    <3>1. findsTokens => ByReconcile(i) = {} BY <1>1, <2>2 DEF OnceInv
    <3>2. "reconcile" \in Makers BY DEF Makers
    <3>3. NoneLost' BY <1>1, <2>2, <3>2, MadeLeaves DEF NoneLost
    <3> QED BY <1>1, <2>2, <3>1, <3>2, <3>3, MadeLeaves
  <2> QED BY <2>1, <2>2
<1>8. OnceInv'
  <2> SUFFICES ASSUME findsTokens, NEW j \in Intents
               PROVE  /\ \A k, l \in ByReconcile(j)' : k = l
                      /\ \A p \in Reconcilers : On(p, j, "create")' => ByReconcile(j)' = {}
    BY DEF OnceInv
  <2>1. ASSUME NEW p \in Reconcilers, On(p, j, "create")' PROVE ByReconcile(j)' = {}
    <3>1. CASE p = q
      <4>1. e.at = "create" /\ j = i BY <1>2, <2>1, <3>1 DEF On
      <4> QED BY <1>7, <4>1
    <3>2. CASE p # q
      <4>1. On(p, j, "create") BY <1>2, <2>1, <3>2 DEF On
      <4>2. j # i BY <1>3, <3>2, <4>1 DEF On
      <4> QED BY <1>1, <1>7, <4>1, <4>2 DEF OnceInv
    <3> QED BY <3>1, <3>2
  <2>2. \A k, l \in ByReconcile(j)' : k = l
    <3>1. CASE j = i BY <1>7, <3>1
    <3>2. CASE j # i BY <1>1, <1>7, <3>2 DEF OnceInv
    <3> QED BY <3>1, <3>2
  <2> QED BY <2>1, <2>2
<1>9. OutboxTypeOK' BY <1>1, <1>2, <1>7 DEF OutboxTypeOK
<1> QED BY <1>4, <1>5, <1>6, <1>7, <1>8, <1>9 DEF OutboxInv

LEMMA LockIntentKeeps ==
    ASSUME OutboxInv, NEW q \in Reconcilers, NEW i \in Intents, LockIntent(q, i)
    PROVE  OutboxInv'
<1>1. /\ OutboxTypeOK /\ ledger[i] \in LedgerRows /\ ~Held(i)
      /\ UNCHANGED <<findsTokens, disclosable, ledger, proofs, artifacts, created, publisher,
                     revoker>>
  BY DEF OutboxInv, OutboxTypeOK, LockIntent
<1> DEFINE todo == Onward(q).todo \ {i}
           rest == [Onward(q) EXCEPT !.todo = todo]
           e == [rest EXCEPT !.at = "find", !.on = {i}, !.tries = ledger[i].attempts]
<1>2. reconciler' = [reconciler EXCEPT ![q] =
                       IF ledger[i].status \notin Actionables THEN rest ELSE e]
  BY <1>1, OnwardRests DEF LockIntent, PassRecords
<1>3. Onward(q) \in PassRecords /\ Onward(q).at = "next" /\ Onward(q).on = {}
      /\ Onward(q).draft = {}
  BY <1>1, OnwardRests
<1>4. todo \in SUBSET Intents BY <1>3 DEF PassRecords
<1> HIDE DEF todo
<1>5. rest \in PassRecords /\ rest.at = "next" /\ rest.on = {} /\ rest.draft = {}
  BY <1>3, <1>4 DEF PassRecords
<1> HIDE DEF rest
<1>6. e \in PassRecords /\ e.at = "find" /\ e.on = {i} /\ e.draft = {}
  BY <1>1, <1>5 DEF PassRecords, LedgerRows
<1> HIDE DEF e
<1>7. CASE ledger[i].status \notin Actionables
  BY <1>1, <1>2, <1>5, <1>7, PassRests
<1>8. CASE ledger[i].status \in Actionables
  BY <1>1, <1>2, <1>6, <1>8, PassGoesOn
<1> QED BY <1>7, <1>8

\* What is not found has never been created: nothing that could still be created for
\* has been deleted.
LEMMA TryAgainKeeps ==
    ASSUME OutboxInv, NEW q \in Reconcilers, NEW i \in Intents, TryAgain(q, i)
    PROVE  OutboxInv'
<1>1. /\ OutboxTypeOK /\ NoneLost /\ reconciler[q] \in PassRecords /\ ledger[i] \in LedgerRows
      /\ NotFound(q, i) /\ reconciler[q].on = {i}
      /\ UNCHANGED <<findsTokens, disclosable, proofs, artifacts, created, publisher, revoker>>
  BY DEF OutboxInv, OutboxTypeOK, TryAgain, NotFound, On
<1>2. CASE ledger[i].status \notin FlightFrom BY <1>2, CommitsWithoutCreating
<1>3. CASE ledger[i].status \in FlightFrom
  <2> DEFINE r == InFlight(ledger[i])
             e == [reconciler[q] EXCEPT !.at = "create", !.draft = {r}]
  <2>1. r \in LedgerRows /\ r.status = "in_flight" BY <1>1, <1>3, Rows DEF LedgerRows
  <2>2. reconciler' = [reconciler EXCEPT ![q] = e] /\ UNCHANGED ledger
    BY <1>1, <1>3 DEF TryAgain, OutboxTypeOK
  <2> HIDE DEF r
  <2>3. e \in PassRecords /\ e.at = "create" /\ e.on = {i} /\ e.draft = {r}
    BY <1>1, <2>1 DEF PassRecords
  <2> HIDE DEF e
  <2>4. findsTokens => ByReconcile(i) = {}
    <3>1. findsTokens => artifacts[i] = {}
      BY <1>1 DEF NotFound, FoundByToken, OutboxTypeOK
    <3>2. ledger[i].status \in CanCreate BY <1>3 DEF FlightFrom, CanCreate, Actionables
    <3>3. findsTokens => created[i] = <<>> BY <1>1, <3>1, <3>2 DEF NoneLost
    <3> QED BY <3>3 DEF ByReconcile
  <2> QED BY <1>1, <1>3, <2>1, <2>2, <2>3, <2>4, PassGoesOn
<1> QED BY <1>2, <1>3

LEMMA ReconcileCreatesKeeps ==
    ASSUME OutboxInv, NEW q \in Reconcilers, NEW i \in Intents, ReconcileCreates(q, i)
    PROVE  OutboxInv'
<1>1. /\ OutboxTypeOK /\ PassInv(q) /\ reconciler[q] \in PassRecords /\ reconciler[q].on = {i}
      /\ reconciler[q].at = "create"
      /\ UNCHANGED <<findsTokens, disclosable, ledger, proofs, publisher, revoker>>
  BY DEF OutboxInv, OutboxTypeOK, ReconcileCreates, On
<1>2. PICK r \in LedgerRows : reconciler[q].draft = {r} /\ r.status = "in_flight"
  BY <1>1 DEF PassInv
<1>3. ledger[i].status \in FlightFrom BY <1>1, <1>2 DEF PassInv
<1>4. ASSUME NEW e \in PassRecords, e.at = "prove", e.on = {i}, e.draft = {r},
             reconciler' = [reconciler EXCEPT ![q] = e],
             Made(i, "reconcile") \/ UNCHANGED <<artifacts, created>>
      PROVE  OutboxInv'
  BY <1>1, <1>2, <1>3, <1>4, PassGoesOn DEF On
<1>5. CASE /\ Made(i, "reconcile")
           /\ reconciler' = [reconciler EXCEPT ![q].at = "prove", ![q].handle = Len(created'[i])]
  <2> DEFINE n == Len(created'[i])
             e == [reconciler[q] EXCEPT !.at = "prove", !.handle = n]
  <2>1. n \in Nat
    <3>1. "reconcile" \in Makers BY DEF Makers
    <3>2. created'[i] \in Seq(Makers) BY <1>1, <1>5, <3>1, MadeLeaves
    <3> QED BY <3>2
  <2>2. reconciler' = [reconciler EXCEPT ![q] = e] BY <1>1, <1>5 DEF OutboxTypeOK
  <2> HIDE DEF n
  <2>3. e \in PassRecords /\ e.at = "prove" /\ e.on = {i} /\ e.draft = {r}
    BY <1>1, <1>2, <2>1 DEF PassRecords
  <2> HIDE DEF e
  <2> QED BY <1>4, <1>5, <2>2, <2>3
<1>6. CASE /\ UNCHANGED <<artifacts, created>>
           /\ reconciler' = [reconciler EXCEPT ![q].at = "prove"]
  <2> DEFINE e == [reconciler[q] EXCEPT !.at = "prove"]
  <2>1. reconciler' = [reconciler EXCEPT ![q] = e] BY <1>1, <1>6 DEF OutboxTypeOK
  <2>2. e \in PassRecords /\ e.at = "prove" /\ e.on = {i} /\ e.draft = {r}
    BY <1>1, <1>2 DEF PassRecords
  <2> HIDE DEF e
  <2> QED BY <1>4, <1>6, <2>1, <2>2
<1> QED BY <1>5, <1>6 DEF ReconcileCreates

LEMMA NextOutbox == OutboxInv /\ [OutboxNext]_outboxVars => OutboxInv'
<1> SUFFICES ASSUME OutboxInv, [OutboxNext]_outboxVars PROVE OutboxInv' OBVIOUS
<1>1. ASSUME NEW i \in Intents, Publish(i) PROVE OutboxInv'
  BY <1>1, PublishStepsKeep, PublishCreationsKeep DEF Publish
<1>2. ASSUME NEW q \in Reconcilers, NEW i \in Intents, Reconcile(q, i) PROVE OutboxInv'
  BY <1>2, LockIntentKeeps, CommitsWithoutCreating, TryAgainKeeps, ReconcileCreatesKeeps,
     CommitsAfterCreating DEF Reconcile
<1>3. ASSUME NEW q \in Reconcilers, BeginReconcile(q) \/ EndReconcile(q) \/ ReconcilerDies(q)
      PROVE  OutboxInv'
  BY <1>3, PassBeginsOrEnds
<1>4. CASE UNCHANGED outboxVars
  <2>1. UNCHANGED <<findsTokens, disclosable, ledger, proofs, artifacts, created, publisher,
                    reconciler, revoker>>
    BY <1>4 DEF outboxVars
  <2>2. OutboxTypeOK' /\ NoneLost'
    BY <2>1 DEF OutboxInv, OutboxTypeOK, NoneLost
  <2>3. \A i \in Intents : ByReconcile(i)' = ByReconcile(i) BY <2>1 DEF ByReconcile
  <2> QED BY <2>1, <2>2, <2>3, PassesStay
<1> QED BY <1>1, <1>2, <1>3, <1>4, RevocationKeeps DEF OutboxNext

-----------------------------------------------------------------------------
\* Whatever publish calls, passes and revocations run at once, fail and die.
THEOREM OutboxInductive == OutboxSpec => []OutboxInv
<1> QED BY InitOutbox, NextOutbox, PTL DEF OutboxSpec

\* On a server that finds tokens the reconcile passes create at most one artifact for an
\* intent between them, for any number of passes and attempts.
THEOREM CreateOnceSound == OutboxSpec => []ReconcilersCreateOnce
<1>1. OutboxInv => ReconcilersCreateOnce
  <2> SUFFICES ASSUME OutboxInv, findsTokens, NEW i \in Intents
               PROVE  Cardinality(ByReconcile(i)) <= 1
    BY DEF ReconcilersCreateOnce
  <2>1. CASE ByReconcile(i) = {} BY <2>1, FS_EmptySet
  <2>2. ASSUME NEW k \in ByReconcile(i) PROVE Cardinality(ByReconcile(i)) <= 1
    <3>1. ByReconcile(i) = {k} BY <2>2 DEF OutboxInv, OnceInv
    <3>2. Cardinality({k}) = 1 BY FS_Singleton
    <3> QED BY <3>1, <3>2
  <2> QED BY <2>1, <2>2
<1> QED BY <1>1, OutboxInductive, PTL
=============================================================================
