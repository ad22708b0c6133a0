--------------------------- MODULE CollectionOutbox ---------------------------
(***************************************************************************)
(* One managed collection of the control plane and its copy on a media      *)
(* server: the queue path that writes the intended membership, reconcile    *)
(* and revoke passes that are the only callers of the server, the drift     *)
(* audit and its repair (core/publish/collection-outbox.ts, its SQL          *)
(* functions, ops/collection-execution.ts, ops/collection-drift.ts).         *)
(*                                                                         *)
(* A pass acts inside one transaction under the collection's advisory lock: *)
(* "draft" is the row as that transaction has written it so far, which holds *)
(* the row lock and vanishes when the pass dies; what it did on the server   *)
(* stays.  A server call may fail, fail after taking effect, or answer with  *)
(* a part only.  Collections differ in their lock and their token, so one is *)
(* enough; a row that is revoked or failed stays so (queueing the same       *)
(* collection again inserts another row under another token).                *)
(***************************************************************************)
EXTENDS Integers, FiniteSets

CONSTANTS
    Items,          \* catalog records
    LibraryOf,      \* LibraryOf[i]: the library items record i's references match
    Passes,         \* reconcile and revoke passes running at once
    MaxAttempts,    \* COLLECTION_MAX_ATTEMPTS
    MaxCopies       \* bound: copies ever created on a server that keeps markers, on one that does not

ASSUME CollectionAssumption ==
    MaxAttempts \in Nat \ {0} /\ MaxCopies \in [BOOLEAN -> Nat \ {0}] /\ DOMAIN LibraryOf = Items

VARIABLES
    keepsMarkers,   \* does the server let a collection be found by its token?
    readable,       \* records withPublishableIdentity still discloses
    row,            \* the managed_collections row, as committed
    member,         \* its member rows' states
    proof,          \* what the last create proved about recovery by token
    copies,         \* live copies of this token on the server, and what they hold
    made,           \* copies ever made (the next handle)
    pass,           \* each pass, with what its transaction knows
    queue,          \* the queue path: the plan it has upserted and not yet written
    repair          \* has an audit found the copy missing, its repair to come?

collVars == <<keepsMarkers, readable, row, member, proof, copies, made, pass, queue, repair>>

NoHandle == 0
MatchedBy(S) == UNION {LibraryOf[i] : i \in S}
Intended == {i \in Items : member[i] = "intended"}
Removing == {i \in Items : member[i] = "removing"}

Unsettled == {"planned", "in_flight", "ambiguous"}
Actionable == Unsettled \cup {"published"}
NonTerminal == Actionable \cup {"failed"}

Rest == [at |-> "idle", creates |-> FALSE, trusted |-> TRUE, draft |-> {}, emptied |-> FALSE,
         removing |-> {}, ids |-> {}, complete |-> TRUE, handle |-> NoHandle,
         adds |-> {}, takes |-> {}]

-----------------------------------------------------------------------------
(* Locks.                                                                   *)

Holding == {"find", "create", "prove", "members", "add", "remove", "finish",
            "revoke", "delete"}

\* The advisory lock of the collection, as p finds it.
LockFree(p) == \A q \in Passes \ {p} : pass[q].at \notin Holding

\* Whoever has written the row in an open transaction blocks the next writer.  The
\* queue path's upsert writes the row BEFORE it takes the advisory lock.
RowFree(p) == queue = {} /\ \A q \in Passes \ {p} : pass[q].draft = {}

\* A short transaction that takes the advisory lock first.
UnderLock == queue = {} /\ \A p \in Passes : pass[p].at \notin Holding

View(p) == IF pass[p].draft = {} THEN row ELSE CHOOSE r \in pass[p].draft : TRUE

\* Where p goes when it is through with the collection in its reconcile half.
Ended(p) == [Rest EXCEPT !.at = IF pass[p].creates THEN "idle" ELSE "pending",
                         !.creates = pass[p].creates, !.trusted = pass[p].trusted]

\* COMMIT of p's transaction with the row at r.
CommitRow(p, r) == row' = r /\ pass' = [pass EXCEPT ![p] = Ended(p)]

Settled(r, h) == [r EXCEPT !.status = "published", !.handle = h]

-----------------------------------------------------------------------------
(* A pass begins: recovery evidence, the sweep of forgotten members, the     *)
(* listing.                                                                 *)

\* cat_collection_reconcile_forgotten: outside the advisory lock.
Sweep ==
    IF row.status \notin Actionable THEN UNCHANGED <<member, row>>
    ELSE LET gone == Intended \ readable
         IN /\ member' = [i \in Items |-> IF i \in gone THEN "removing" ELSE member[i]]
            /\ row' = [row EXCEPT
                 !.dirty = @ \/ Removing \cup gone # {} \/ Intended \ gone = {},
                 !.status = IF Intended \ gone = {} THEN "revoke_pending" ELSE @]

Syncable(r) == r.status \in Unsettled \/ (r.status = "published" /\ r.dirty)

\* Whatever could move between these reads can still move before the row is locked.
BeginPass(p) ==
    /\ pass[p].at = "idle"
    /\ \E creates \in BOOLEAN :
        /\ IF creates THEN UNCHANGED <<member, row>> ELSE RowFree(p) /\ Sweep
        /\ pass' = [pass EXCEPT ![p] =
            [Rest EXCEPT !.creates = creates, !.trusted = proof \in {"none", "verified"},
                !.at = IF Syncable(row') /\ (creates \/ \E i \in Items : member'[i] = "removing")
                       THEN "lock" ELSE IF creates THEN "idle" ELSE "pending"]]
    /\ UNCHANGED <<keepsMarkers, readable, proof, copies, made, queue, repair>>

\* The row is read again under the lock: it may have moved since it was listed.  Its
\* intended members are resolved: records that are gone contribute nothing and are
\* complete knowledge; those that threw or were cut at a page bound ("lost") are not.
LockAndResolve(p) ==
    /\ pass[p].at = "lock" /\ LockFree(p)
    /\ IF row.status \notin Actionable THEN pass' = [pass EXCEPT ![p] = Ended(p)]
       ELSE \E lost \in SUBSET Intended :
            pass' = [pass EXCEPT ![p] =
                [@ EXCEPT !.emptied = Intended = {}, !.removing = Removing,
                          !.ids = MatchedBy((Intended \cap readable) \ lost),
                          !.complete = lost = {}, !.handle = row.handle,
                          !.at = IF row.handle = NoHandle THEN "find" ELSE "members"]]
    /\ UNCHANGED <<keepsMarkers, readable, row, member, proof, copies, made, queue, repair>>

-----------------------------------------------------------------------------
(* A collection without a handle: adopt by token, or create.                *)

\* Slip: a lookup that failed is read as absence.
AnswersSwallowed == (IF keepsMarkers THEN DOMAIN copies ELSE {}) \cup {NoHandle}

\* What findByToken may answer, when it does not fail.
Answers == IF keepsMarkers /\ DOMAIN copies # {} THEN DOMAIN copies ELSE {NoHandle}

Unfound(p) == pass[p].at = "find" /\ NoHandle \in Answers

LookupFails(p) ==
    /\ pass[p].at = "find" /\ CommitRow(p, row)
    /\ UNCHANGED <<keepsMarkers, readable, member, proof, copies, made, queue, repair>>

AdoptCopy(p) ==
    /\ pass[p].at = "find" /\ RowFree(p)
    /\ \E h \in Answers \ {NoHandle} :
        pass' = [pass EXCEPT ![p] =
            IF row.status \in Unsettled
            THEN [@ EXCEPT !.at = "members", !.handle = h, !.draft = {Settled(row, h)}]
            ELSE Ended(p)]
    /\ UNCHANGED <<keepsMarkers, readable, row, member, proof, copies, made, queue, repair>>

\* An emptied collection of which nothing is found is done: queued and revoked.
NothingToDelete(p) ==
    /\ Unfound(p) /\ pass[p].emptied /\ RowFree(p)
    /\ CommitRow(p, [row EXCEPT !.status = "revoked", !.dirty = FALSE])
    /\ member' = [i \in Items |-> "none"]
    /\ UNCHANGED <<keepsMarkers, readable, proof, copies, made, queue, repair>>

MayCreate(p) ==
    /\ pass[p].creates /\ pass[p].trusted
    /\ pass[p].complete /\ pass[p].ids # {}

LeaveUnmade(p) ==
    /\ Unfound(p) /\ ~pass[p].emptied /\ ~MayCreate(p)
    /\ CommitRow(p, row)
    /\ UNCHANGED <<keepsMarkers, readable, member, proof, copies, made, queue, repair>>

MarkInFlight(p) ==
    /\ Unfound(p) /\ ~pass[p].emptied /\ MayCreate(p) /\ RowFree(p)
    /\ \/ /\ row.attempts >= MaxAttempts
          /\ CommitRow(p, [row EXCEPT !.status = IF @ \in Unsettled THEN "failed" ELSE @])
       \/ /\ row.attempts < MaxAttempts /\ row.status \notin {"planned", "ambiguous"}
          /\ CommitRow(p, row)
       \/ /\ row.attempts < MaxAttempts /\ row.status \in {"planned", "ambiguous"}
          /\ pass' = [pass EXCEPT ![p].at = "create",
                ![p].draft = {[row EXCEPT !.status = "in_flight", !.attempts = @ + 1]}]
          /\ UNCHANGED row
    /\ UNCHANGED <<keepsMarkers, readable, member, proof, copies, made, queue, repair>>

\* A copy appears on the server, holding exactly the intended library items.
NewCopy(p) ==
    /\ made < MaxCopies[keepsMarkers]
    /\ made' = made + 1
    /\ copies' = [h \in DOMAIN copies \cup {made + 1} |->
                    IF h \in DOMAIN copies THEN copies[h] ELSE pass[p].ids]

CreateCopy(p) ==
    /\ pass[p].at = "create" /\ NewCopy(p)
    /\ pass' = [pass EXCEPT ![p].at = "prove", ![p].handle = made + 1, ![p].ids = {}]
    /\ UNCHANGED <<keepsMarkers, readable, row, member, proof, queue, repair>>

\* create throws: nothing happened, or the reply alone was lost.
CreateFails(p) ==
    /\ pass[p].at = "create"
    /\ CommitRow(p, [View(p) EXCEPT !.status = "ambiguous"])
    /\ NewCopy(p) \/ UNCHANGED <<copies, made>>
    /\ UNCHANGED <<keepsMarkers, readable, member, proof, queue, repair>>

\* The new copy is looked up by its token; its handle is settled whatever is found.
\* The lookup may fail too: then nothing is recorded.
ProveAndSettle(p) ==
    /\ pass[p].at = "prove"
    /\ \/ \E h \in Answers : proof' = IF h = pass[p].handle THEN "verified" ELSE "broken"
       \/ UNCHANGED proof
    /\ CommitRow(p, [Settled(View(p), pass[p].handle) EXCEPT !.dirty = FALSE])
    /\ UNCHANGED <<keepsMarkers, readable, member, copies, made, queue, repair>>

-----------------------------------------------------------------------------
(* A settled collection: make its membership what is intended.              *)

QueueEmptied(p) ==
    /\ pass[p].at = "members" /\ pass[p].emptied /\ RowFree(p)
    /\ CommitRow(p, IF View(p).status \in NonTerminal
                 THEN [View(p) EXCEPT !.status = "revoke_pending", !.dirty = TRUE] ELSE View(p))
    /\ UNCHANGED <<keepsMarkers, readable, member, proof, copies, made, queue, repair>>

\* Slip: a resolution that threw does not hold removals back.
ListMembersUnresolved(p) ==
    /\ pass[p].at = "members" /\ ~pass[p].emptied
    /\ pass[p].handle \in DOMAIN copies
    /\ \E cut \in SUBSET copies[pass[p].handle] :
        LET seen == copies[pass[p].handle] \ cut
        IN pass' = [pass EXCEPT ![p] =
            [@ EXCEPT !.at = "add", !.complete = cut = {}, !.ids = {},
                      !.adds = pass[p].ids \ seen,
                      !.takes = IF cut = {} THEN seen \ pass[p].ids ELSE {}]]
    /\ UNCHANGED <<keepsMarkers, readable, row, member, proof, copies, made, queue, repair>>

\* The listing may be cut at its page bound.  What is missing will be added; what
\* does not belong is taken out only on complete knowledge.
ListMembers(p) ==
    /\ pass[p].at = "members" /\ ~pass[p].emptied
    /\ pass[p].handle \in DOMAIN copies
    /\ \E cut \in SUBSET copies[pass[p].handle] :
        LET seen == copies[pass[p].handle] \ cut
            complete == pass[p].complete /\ cut = {}
        IN pass' = [pass EXCEPT ![p] =
            [@ EXCEPT !.at = "add", !.complete = complete, !.ids = {},
                      !.adds = pass[p].ids \ seen,
                      !.takes = IF complete THEN seen \ pass[p].ids ELSE {}]]
    /\ UNCHANGED <<keepsMarkers, readable, row, member, proof, copies, made, queue, repair>>

\* The server's copy p works on comes to hold S; nothing is asked of it for no items.
Holds(p, items, S) ==
    IF items = {} THEN UNCHANGED copies
    ELSE pass[p].handle \in DOMAIN copies /\ copies' = [copies EXCEPT ![pass[p].handle] = S]

Adding(p) == Holds(p, pass[p].adds, copies[pass[p].handle] \cup pass[p].adds)
Taking(p) == Holds(p, pass[p].takes, copies[pass[p].handle] \ pass[p].takes)

AddMembers(p) ==
    /\ pass[p].at = "add" /\ Adding(p)
    /\ pass' = [pass EXCEPT ![p].at = "remove", ![p].adds = {}]
    /\ UNCHANGED <<keepsMarkers, readable, row, member, proof, made, queue, repair>>

RemoveMembers(p) ==
    /\ pass[p].at = "remove" /\ Taking(p)
    /\ pass' = [pass EXCEPT ![p].at = "finish", ![p].takes = {}]
    /\ UNCHANGED <<keepsMarkers, readable, row, member, proof, made, queue, repair>>

\* A listing, an addition or a removal throws, perhaps after taking effect: the
\* pass ends with what its transaction has written.
SyncFails(p) ==
    /\ \/ pass[p].at = "members" /\ ~pass[p].emptied /\ UNCHANGED copies
       \/ pass[p].at = "add" /\ pass[p].adds # {} /\ (Adding(p) \/ UNCHANGED copies)
       \/ pass[p].at = "remove" /\ pass[p].takes # {} /\ (Taking(p) \/ UNCHANGED copies)
    /\ CommitRow(p, View(p))
    /\ UNCHANGED <<keepsMarkers, readable, member, proof, made, queue, repair>>

\* Only a pass that could see everything drops the rows that drove its removals.
FinishSync(p) ==
    /\ pass[p].at = "finish" /\ RowFree(p)
    /\ IF pass[p].complete
       THEN /\ member' = [i \in Items |->
                 IF i \in pass[p].removing /\ member[i] = "removing" THEN "none" ELSE member[i]]
            /\ CommitRow(p, IF View(p).status = "published"
                         THEN [View(p) EXCEPT !.dirty = FALSE] ELSE View(p))
       ELSE CommitRow(p, View(p)) /\ UNCHANGED member
    /\ UNCHANGED <<keepsMarkers, readable, proof, copies, made, queue, repair>>

-----------------------------------------------------------------------------
(* The second half of a revoke pass: delete the queued copy.                *)

Revoking(p) ==
    /\ pass[p].at = "pending"
    /\ IF row.status = "revoke_pending"
       THEN /\ LockFree(p)
            /\ pass' = [pass EXCEPT ![p].at = "revoke", ![p].handle = row.handle]
       ELSE pass' = [pass EXCEPT ![p] = Rest]
    /\ UNCHANGED <<keepsMarkers, readable, row, member, proof, copies, made, queue, repair>>

\* cat_collection_mark_revoked: the member rows go with it.
MarkRevoked(p) ==
    /\ row' = [row EXCEPT !.status = "revoked", !.dirty = FALSE]
    /\ member' = [i \in Items |-> "none"]
    /\ pass' = [pass EXCEPT ![p] = Rest]

RevokeFinds(p) ==
    /\ pass[p].at = "revoke"
    /\ \E h \in IF pass[p].handle = NoHandle THEN Answers ELSE {pass[p].handle} :
        /\ h # NoHandle
        /\ pass' = [pass EXCEPT ![p].at = "delete", ![p].handle = h]
    /\ UNCHANGED <<keepsMarkers, readable, row, member, proof, copies, made, queue, repair>>

\* "Not found" is proof of absence only while recovery by token is trusted.
RevokeFindsNothing(p) ==
    /\ pass[p].at = "revoke" /\ pass[p].handle = NoHandle
    /\ NoHandle \in Answers /\ pass[p].trusted /\ RowFree(p)
    /\ MarkRevoked(p)
    /\ UNCHANGED <<keepsMarkers, readable, proof, copies, made, queue, repair>>

DeleteCopy(p) ==
    /\ pass[p].at = "delete" /\ RowFree(p)
    /\ copies' = [h \in DOMAIN copies \ {pass[p].handle} |-> copies[h]]
    /\ MarkRevoked(p)
    /\ UNCHANGED <<keepsMarkers, readable, proof, made, queue, repair>>

\* The lookup or the deletion throws, perhaps after taking effect: the row stays
\* queued, its attempt counted.
RevokeFails(p) ==
    /\ \/ /\ pass[p].at = "revoke" /\ pass[p].handle = NoHandle
          /\ UNCHANGED copies
       \/ /\ pass[p].at = "delete"
          /\ \/ UNCHANGED copies
             \/ copies' = [h \in DOMAIN copies \ {pass[p].handle} |-> copies[h]]
    /\ pass' = [pass EXCEPT ![p] = Rest]
    /\ UNCHANGED <<keepsMarkers, readable, row, member, proof, made, queue, repair>>

\* The process dies, or the database ends a deadlock with the queue path by
\* rolling this transaction back.
Abort(p) ==
    /\ pass[p].at \in Holding
    /\ pass' = [pass EXCEPT ![p] = Rest]
    /\ UNCHANGED <<keepsMarkers, readable, row, member, proof, copies, made, queue, repair>>

-----------------------------------------------------------------------------
(* The queue path, the audit and its repair, the media server's operator.   *)

QueueUpsert ==
    /\ queue = {} /\ \A p \in Passes : pass[p].draft = {}
    /\ row.status \in {"absent", "revoke_pending"} \cup Actionable
    /\ \E S \in SUBSET readable : queue' = {S}
    /\ UNCHANGED <<keepsMarkers, readable, row, member, proof, copies, made, pass, repair>>

\* Slip: what is no longer wanted is deleted from the plan, not queued for removal.
QueueMembersOutright ==
    /\ \E S \in queue : member' = [i \in Items |-> IF i \in S THEN "intended" ELSE "none"]
    /\ \A p \in Passes : pass[p].at \notin Holding
    /\ row' = [row EXCEPT !.status = IF @ = "absent" THEN "planned" ELSE @, !.dirty = TRUE]
    /\ queue' = {}
    /\ UNCHANGED <<keepsMarkers, readable, proof, copies, made, pass, repair>>

\* cat_collection_set_members, once the advisory lock is free.
QueueMembers ==
    /\ \E S \in queue :
        member' = [i \in Items |-> IF i \in S THEN "intended"
                                   ELSE IF member[i] = "none" THEN "none" ELSE "removing"]
    /\ \A p \in Passes : pass[p].at \notin Holding
    /\ row' = [row EXCEPT !.status = IF @ = "absent" THEN "planned" ELSE @, !.dirty = TRUE]
    /\ queue' = {}
    /\ UNCHANGED <<keepsMarkers, readable, proof, copies, made, pass, repair>>

QueueAborts ==
    /\ queue # {} /\ queue' = {}
    /\ UNCHANGED <<keepsMarkers, readable, row, member, proof, copies, made, pass, repair>>

QueueRevoke ==
    /\ UnderLock
    /\ row.status \in {"revoke_pending"} \cup Actionable
    /\ member' = [i \in Items |-> IF member[i] = "none" THEN "none" ELSE "removing"]
    /\ row' = [row EXCEPT !.status = "revoke_pending", !.dirty = TRUE]
    /\ UNCHANGED <<keepsMarkers, readable, proof, copies, made, pass, queue, repair>>

\* The audit reads; it proposes a re-creation only of what is provably absent.
Audit ==
    /\ row.status = "published" /\ ~repair
    /\ NoHandle \in Answers /\ proof \in {"none", "verified"}
    /\ repair' = TRUE
    /\ UNCHANGED <<keepsMarkers, readable, row, member, proof, copies, made, pass, queue>>

\* cat_collection_rearm; and cat_collection_touch, for an audit that found drift.
Repair ==
    /\ repair /\ UnderLock
    /\ row' = IF row.status # "published" THEN row
              ELSE [status |-> "planned", handle |-> NoHandle, attempts |-> 0, dirty |-> TRUE]
    /\ repair' = FALSE
    /\ UNCHANGED <<keepsMarkers, readable, member, proof, copies, made, pass, queue>>

Touch ==
    /\ row.status \in Actionable /\ UnderLock
    /\ row' = [row EXCEPT !.dirty = TRUE]
    /\ UNCHANGED <<keepsMarkers, readable, member, proof, copies, made, pass, queue, repair>>

Forget(i) ==
    /\ i \in readable /\ readable' = readable \ {i}
    /\ UNCHANGED <<keepsMarkers, row, member, proof, copies, made, pass, queue, repair>>

\* Somebody deletes the collection in the media server itself.
DeletedOutside ==
    /\ \E gone \in DOMAIN copies : copies' = [h \in DOMAIN copies \ {gone} |-> copies[h]]
    /\ UNCHANGED <<keepsMarkers, readable, row, member, proof, made, pass, queue, repair>>

-----------------------------------------------------------------------------
CollectionInit ==
    /\ keepsMarkers \in BOOLEAN
    /\ readable = Items
    /\ row = [status |-> "absent", attempts |-> 0, handle |-> NoHandle, dirty |-> FALSE]
    /\ member = [i \in Items |-> "none"]
    /\ proof = "none"
    /\ copies = [h \in {} |-> {}]
    /\ made = 0
    /\ pass = [p \in Passes |-> Rest]
    /\ queue = {}
    /\ repair = FALSE

Adopts(p) == LookupFails(p) \/ AdoptCopy(p) \/ NothingToDelete(p) \/ LeaveUnmade(p)
Creates(p) == MarkInFlight(p) \/ CreateCopy(p) \/ CreateFails(p) \/ ProveAndSettle(p)
Syncs(p) == QueueEmptied(p) \/ ListMembers(p) \/ AddMembers(p) \/ RemoveMembers(p)
            \/ SyncFails(p) \/ FinishSync(p)
Revokes(p) == Revoking(p) \/ RevokeFinds(p) \/ RevokeFindsNothing(p) \/ DeleteCopy(p)
              \/ RevokeFails(p)

CollectionNext ==
    \/ \E p \in Passes :
        \/ BeginPass(p) \/ LockAndResolve(p) \/ Abort(p)
        \/ Adopts(p) \/ Creates(p) \/ Syncs(p) \/ Revokes(p)
    \/ QueueUpsert \/ QueueMembers \/ QueueAborts \/ QueueRevoke \/ Audit \/ Repair \/ Touch
    \/ \E i \in Items : Forget(i)
    \/ DeletedOutside

CollectionSpec == CollectionInit /\ [][CollectionNext]_collVars

-----------------------------------------------------------------------------
\* On a server that keeps markers, a token never has two copies, whatever replies
\* were lost and whichever passes died (collection-outbox.ts: "creating on that is
\* how one lost response becomes two collections").
OneCopy == keepsMarkers => Cardinality(DOMAIN copies) <= 1

\* No step takes out of a live copy a library item that a readable, intended
\* member matches ("no removal is ever computed from partial knowledge").
RemovesOnlyUnwanted ==
    [][\A h \in DOMAIN copies \cap DOMAIN copies' :
         (copies[h] \ copies'[h]) \cap MatchedBy(Intended \cap readable) = {}]_collVars

\* What a forgotten record put into a copy stays tracked until it has left the media
\* server: the row is one that a pass acts on, and it is queued for deletion or a
\* member row that matches the library item is still there to drive its removal.
ForgottenIsTracked ==
    keepsMarkers => \A h \in DOMAIN copies : \A x \in copies[h] \ MatchedBy(readable) :
        \/ row.status = "revoke_pending"
        \/ /\ row.status \in Actionable
           /\ \E i \in Items : member[i] # "none" /\ x \in LibraryOf[i]
=============================================================================
