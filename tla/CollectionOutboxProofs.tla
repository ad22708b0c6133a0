------------------------ MODULE CollectionOutboxProofs ------------------------
(***************************************************************************)
(* One managed collection, for any records, library items and passes.  A    *)
(* pass that holds the advisory lock is alone, and what it has read and      *)
(* decided stays true until it lets go, although a sweep may still move      *)
(* members and the row, and a record may be forgotten, under it.            *)
(***************************************************************************)
EXTENDS CollectionOutbox, FiniteSetTheorems, TLAPS

Statuses == {"absent", "failed", "revoke_pending", "revoked"} \cup Actionable
Library == MatchedBy(Items)
Rows == [status : Statuses, attempts : Nat, handle : Nat, dirty : BOOLEAN]
PassRecords ==
    [at : {"idle", "lock", "pending"} \cup Holding, creates : BOOLEAN, trusted : BOOLEAN,
     draft : SUBSET Rows, emptied : BOOLEAN, removing : SUBSET Items, ids : SUBSET Library,
     complete : BOOLEAN, handle : Nat, adds : SUBSET Library, takes : SUBSET Library]

CollTypeOK ==
    /\ keepsMarkers \in BOOLEAN
    /\ readable \in SUBSET Items
    /\ row \in Rows
    /\ member \in [Items -> {"none", "intended", "removing"}]
    /\ proof \in {"none", "verified", "broken"}
    /\ made \in Nat
    /\ DOMAIN copies \subseteq Nat \ {NoHandle} /\ copies \in [DOMAIN copies -> SUBSET Library]
    /\ pass \in [Passes -> PassRecords]
    /\ queue \in SUBSET SUBSET Items
    /\ repair \in BOOLEAN

-----------------------------------------------------------------------------
(* The inductive invariant.                                                 *)

Working(p) == pass[p].at \in Holding
Alone == \A p, q \in Passes : Working(p) /\ Working(q) => p = q

Settling == {"members", "add", "remove", "finish"}
Member(i) == member[i] # "none"
Wanted == MatchedBy(Intended \cap readable)

\* What the members would match that p's FinishSync does not drop.
Backed(p) == MatchedBy({i \in Items \ pass[p].removing : Member(i)})

\* A row written in an open transaction was unsettled, and nobody moves it.
DraftInv(p) ==
    /\ pass[p].draft # {} =>
          /\ pass[p].draft = {View(p)}
          /\ row.status \in Unsettled /\ queue = {}
          /\ pass[p].at \in {"create", "prove"} \cup Settling
    /\ pass[p].at \in {"create", "prove"} =>
          pass[p].draft # {} /\ View(p).status = "in_flight"
    /\ pass[p].at \in Settling /\ pass[p].draft # {} => View(p).status = "published"

\* The handle p works with is the row's, and no other copy carries the token.
HandleInv(p) ==
    /\ pass[p].at \in {"find", "create", "prove"} =>
          View(p).handle = NoHandle /\ row.handle = NoHandle
    /\ pass[p].at \in Settling => View(p).handle = pass[p].handle
    /\ keepsMarkers =>
          /\ pass[p].at = "create" => DOMAIN copies = {}
          /\ \/ pass[p].at \in {"prove", "delete"} \cup Settling
             \/ pass[p].at = "revoke" /\ pass[p].handle # NoHandle
             => DOMAIN copies \subseteq {pass[p].handle}

\* What p puts into the copy, and what it leaves there when it knows everything, has a
\* member row behind it that p will not drop; what it takes out nobody wants.
SyncInv(p) ==
    /\ pass[p].at \in {"find", "create", "members"} => pass[p].ids \subseteq Backed(p)
    /\ pass[p].at \in {"find", "members"} /\ pass[p].complete => Wanted \subseteq pass[p].ids
    /\ pass[p].at = "add" => pass[p].adds \subseteq Backed(p)
    /\ pass[p].at \in {"add", "remove"} => pass[p].takes \cap Wanted = {}
    /\ pass[p].at = "finish" => pass[p].takes = {}
    /\ pass[p].at \in {"add", "remove", "finish"} /\ pass[p].complete =>
          \A h \in DOMAIN copies \cap {pass[p].handle} :
             copies[h] \ pass[p].takes \subseteq Backed(p)

PassInv(p) ==
    IF Working(p) THEN DraftInv(p) /\ HandleInv(p) /\ SyncInv(p) ELSE pass[p].draft = {}

\* The row r accounts for the copies: it names the only one that it can, is one that a
\* pass acts on and, unless it is queued for deletion, a member row is behind every
\* library item of a copy.
Fits(r) ==
    keepsMarkers =>
        /\ r.handle # NoHandle => DOMAIN copies \subseteq {r.handle}
        /\ DOMAIN copies # {} => r.status \in Actionable \cup {"revoke_pending"}
        /\ r.status # "revoke_pending" =>
              \A h \in DOMAIN copies : copies[h] \subseteq MatchedBy({i \in Items : Member(i)})

RowFits == Fits(row)

Single == keepsMarkers => \A g, h \in DOMAIN copies : g = h

CollInv == CollTypeOK /\ Alone /\ (\A p \in Passes : PassInv(p)) /\ Single /\ RowFits

-----------------------------------------------------------------------------
(* What the steps have in common.                                           *)

LEMMA Only == \A r : (CHOOSE s \in {r} : TRUE) = r
OBVIOUS

LEMMA Monotone ==
    /\ \A S, T : S \subseteq T => MatchedBy(S) \subseteq MatchedBy(T)
    /\ \A S \in SUBSET Items : MatchedBy(S) \in SUBSET Library
BY DEF MatchedBy, Library

\* A pass that ends holds nothing.
LEMMA EndedRests ==
    ASSUME CollInv, NEW p \in Passes, NEW e \in {Ended(p), Rest}
    PROVE  e \in PassRecords /\ e.at \notin Holding /\ e.draft = {}
<1>1. Rest \in PassRecords /\ Rest.at = "idle" /\ Rest.draft = {}
  BY DEF Rest, PassRecords, NoHandle
<1>2. pass[p].creates \in BOOLEAN /\ pass[p].trusted \in BOOLEAN
  BY DEF CollInv, CollTypeOK, PassRecords
<1>3. /\ Ended(p) \in PassRecords /\ Ended(p).at \in {"idle", "pending"}
      /\ Ended(p).draft = {}
  BY <1>2 DEF Ended, Rest, PassRecords, NoHandle
<1> QED BY <1>1, <1>3 DEF Holding

\* A step of the pass that holds the lock, or takes it, disturbs no other pass.
LEMMA Others ==
    ASSUME CollInv, NEW p \in Passes, NEW e \in PassRecords,
           pass' = [pass EXCEPT ![p] = e], Working(p) \/ LockFree(p)
    PROVE  /\ pass' \in [Passes -> PassRecords] /\ pass'[p] = e
           /\ Alone' /\ \A q \in Passes \ {p} : PassInv(q)'
<1>1. pass' \in [Passes -> PassRecords] /\ pass'[p] = e
      /\ \A q \in Passes \ {p} : pass'[q] = pass[q]
  BY DEF CollInv, CollTypeOK
<1>2. \A q \in Passes \ {p} : ~Working(q)
  BY DEF CollInv, Alone, Working, LockFree
<1>3. \A q \in Passes \ {p} : pass[q].draft = {} BY <1>2 DEF CollInv, PassInv
<1> QED BY <1>1, <1>2, <1>3 DEF Alone, Working, PassInv

LEMMA EndsAlone ==
    ASSUME CollInv, NEW p \in Passes, NEW e \in {Ended(p), Rest},
           pass' = [pass EXCEPT ![p] = e], Working(p) \/ LockFree(p)
    PROVE  pass' \in [Passes -> PassRecords] /\ Alone' /\ \A q \in Passes : PassInv(q)'
<1>1. e \in PassRecords /\ e.at \notin Holding /\ e.draft = {} BY EndedRests
<1>2. /\ pass' \in [Passes -> PassRecords] /\ pass'[p] = e
      /\ Alone' /\ \A q \in Passes \ {p} : PassInv(q)'
  BY <1>1, Others
<1> QED BY <1>1, <1>2 DEF PassInv, Working

\* What a pass tolerates from others while it works.
LEMMA Undisturbed ==
    ASSUME CollInv, NEW q \in Passes, pass'[q] = pass[q], keepsMarkers' = keepsMarkers,
           row'.handle = row.handle, pass[q].draft # {} => row' = row /\ queue' = {},
           \A i \in Items : Member(i) => Member(i)', Wanted' \subseteq Wanted,
           DOMAIN copies' \subseteq DOMAIN copies,
           \A h \in DOMAIN copies' : copies'[h] = copies[h]
    PROVE  PassInv(q)'
<1>1. CASE ~Working(q) BY <1>1 DEF CollInv, PassInv, Working
<1>2. CASE Working(q)
  <2>1. DraftInv(q) /\ HandleInv(q) /\ SyncInv(q) BY <1>2 DEF CollInv, PassInv
  <2>2. View(q)'.handle = View(q).handle /\ (pass[q].draft # {} => View(q)' = View(q))
    BY DEF View
  <2>3. Backed(q) \subseteq Backed(q)'
    <3> DEFINE kept == {i \in Items \ pass[q].removing : Member(i)}
    <3>1. kept \subseteq kept' OBVIOUS
    <3> QED BY <3>1 DEF Backed, MatchedBy
  <2>4. DraftInv(q)' BY <2>1, <2>2 DEF DraftInv, Settling
  <2>5. HandleInv(q)' BY <2>1, <2>2 DEF HandleInv
  <2>6. SyncInv(q)' BY <2>1, <2>3 DEF SyncInv
  <2> QED BY <1>2, <2>4, <2>5, <2>6 DEF PassInv, Working
<1> QED BY <1>1, <1>2

\* The row as a pass sees it may be committed.
LEMMA ViewFits ==
    ASSUME CollInv, NEW p \in Passes, Working(p)
    PROVE  View(p) \in Rows /\ Fits(View(p))
<1>1. DraftInv(p) /\ HandleInv(p) /\ pass[p] \in PassRecords /\ row \in Rows /\ Fits(row)
  BY DEF CollInv, PassInv, CollTypeOK, RowFits
<1>2. CASE pass[p].draft = {} BY <1>1, <1>2 DEF View
<1>3. CASE pass[p].draft # {}
  <2>1. View(p) \in Rows BY <1>1, <1>3 DEF DraftInv, PassRecords
  <2>2. row.status \in Unsettled BY <1>1, <1>3 DEF DraftInv
  <2>3. View(p).status \in {"in_flight", "published"} BY <1>1, <1>3 DEF DraftInv
  <2>4. keepsMarkers /\ View(p).handle # NoHandle => DOMAIN copies \subseteq {View(p).handle}
    BY <1>1, <1>3 DEF DraftInv, HandleInv
  <2> QED BY <1>1, <2>1, <2>2, <2>3, <2>4 DEF Fits, Unsettled, Actionable
<1> QED BY <1>2, <1>3

\* Nothing was created or put into a copy, and no member dropped.
LEMMA StillFits ==
    ASSUME CollInv, keepsMarkers' = keepsMarkers,
           row'.handle \in {row.handle, NoHandle},
           \/ row'.status \in {row.status, "revoke_pending"}
           \/ row.status # "revoke_pending" /\ row'.status \in Actionable,
           \A i \in Items : Member(i) => Member(i)',
           DOMAIN copies' \subseteq DOMAIN copies,
           \A h \in DOMAIN copies' : copies'[h] \subseteq copies[h]
    PROVE  RowFits' /\ Single'
<1>1. Single' BY DEF CollInv, Single
<1>2. MatchedBy({i \in Items : Member(i)}) \subseteq MatchedBy({i \in Items : Member(i)})'
  BY DEF MatchedBy
<1> QED BY <1>1, <1>2 DEF CollInv, RowFits, Fits

LEMMA CommitFits ==
    ASSUME CollInv, NEW p \in Passes, Working(p), keepsMarkers' = keepsMarkers,
           row'.handle = View(p).handle,
           row'.status \in {View(p).status, "revoke_pending"},
           \A i \in Items : Member(i) => Member(i)',
           DOMAIN copies' \subseteq DOMAIN copies,
           \A h \in DOMAIN copies' :
              copies'[h] \subseteq copies[h] \cup MatchedBy({i \in Items : Member(i)})
    PROVE  RowFits' /\ Single'
<1>1. Single' BY DEF CollInv, Single
<1>2. MatchedBy({i \in Items : Member(i)}) \subseteq MatchedBy({i \in Items : Member(i)})'
  BY DEF MatchedBy
<1>3. Fits(View(p)) BY ViewFits
<1> QED BY <1>1, <1>2, <1>3 DEF CollInv, RowFits, Fits

LEMMA InitColl == CollectionInit => CollInv
<1> SUFFICES ASSUME CollectionInit PROVE CollInv OBVIOUS
<1>1. Rest \in PassRecords /\ Rest.at = "idle" /\ Rest.draft = {}
  BY DEF Rest, PassRecords, NoHandle
<1>2. DOMAIN copies = {} BY DEF CollectionInit
<1>3. CollTypeOK
  BY <1>1, <1>2 DEF CollectionInit, CollTypeOK, Rows, Statuses, NoHandle
<1> QED BY <1>1, <1>2, <1>3 DEF CollectionInit, CollInv, Alone, Working, Holding, PassInv,
     Single, RowFits, Fits, NoHandle

-----------------------------------------------------------------------------
(* Every action keeps it.  First those that end a pass.                     *)

\* COMMIT without a call to the server.
LEMMA Commits ==
    ASSUME CollInv, NEW p \in Passes, Working(p), NEW r \in Rows, CommitRow(p, r),
           member' \in [Items -> {"none", "intended", "removing"}], RowFits' /\ Single',
           UNCHANGED <<keepsMarkers, readable, proof, copies, made, queue, repair>>
    PROVE  CollInv'
<1>1. row' = r /\ pass' = [pass EXCEPT ![p] = Ended(p)] BY DEF CommitRow
<1>2. pass' \in [Passes -> PassRecords] /\ Alone' /\ \A q \in Passes : PassInv(q)'
  BY <1>1, EndsAlone
<1>3. CollTypeOK' BY <1>1, <1>2 DEF CollInv, CollTypeOK
<1> QED BY <1>2, <1>3 DEF CollInv

LEMMA LeavesRow ==
    ASSUME CollInv, NEW p \in Passes, LookupFails(p) \/ LeaveUnmade(p)
    PROVE  CollInv'
<1>1. Working(p) BY DEF LookupFails, LeaveUnmade, Unfound, Working, Holding
<1>2. /\ CommitRow(p, row) /\ row' = row
      /\ UNCHANGED <<keepsMarkers, readable, member, proof, copies, made, queue, repair>>
  BY DEF LookupFails, LeaveUnmade, CommitRow
<1>3. row \in Rows BY DEF CollInv, CollTypeOK
<1>4. RowFits' /\ Single' BY <1>2, StillFits DEF Member
<1>5. member' \in [Items -> {"none", "intended", "removing"}]
  BY <1>2 DEF CollInv, CollTypeOK
<1> QED BY <1>1, <1>2, <1>3, <1>4, <1>5, Commits

LEMMA AbortKeeps == ASSUME CollInv, NEW p \in Passes, Abort(p) PROVE CollInv'
<1>1. Working(p) BY DEF Abort, Working
<1>2. /\ pass' = [pass EXCEPT ![p] = Rest]
      /\ UNCHANGED <<keepsMarkers, readable, row, member, proof, copies, made, queue, repair>>
  BY DEF Abort
<1>3. pass' \in [Passes -> PassRecords] /\ Alone' /\ \A q \in Passes : PassInv(q)'
  BY <1>1, <1>2, EndsAlone
<1>4. RowFits' /\ Single' BY <1>2, StillFits DEF Member
<1>5. CollTypeOK' BY <1>2, <1>3 DEF CollInv, CollTypeOK
<1> QED BY <1>3, <1>4, <1>5 DEF CollInv

\* On a server that keeps markers nothing is lost sight of.
LEMMA NothingThere ==
    ASSUME CollInv, NoHandle \in Answers PROVE keepsMarkers => DOMAIN copies = {}
<1>1. NoHandle \notin DOMAIN copies BY DEF CollInv, CollTypeOK
<1> QED BY <1>1 DEF Answers

LEMMA NothingToDeleteKeeps ==
    ASSUME CollInv, NEW p \in Passes, NothingToDelete(p) PROVE CollInv'
<1>1. Working(p) /\ Unfound(p) BY DEF NothingToDelete, Unfound, Working, Holding
<1> DEFINE r == [row EXCEPT !.status = "revoked", !.dirty = FALSE]
<1>2. /\ CommitRow(p, r) /\ row' = r
      /\ member' = [i \in Items |-> "none"]
      /\ UNCHANGED <<keepsMarkers, readable, proof, copies, made, queue, repair>>
  BY DEF NothingToDelete, CommitRow
<1>3. r \in Rows BY DEF CollInv, CollTypeOK, Rows, Statuses
<1>4. keepsMarkers => DOMAIN copies = {} BY <1>1, NothingThere DEF Unfound
<1>5. RowFits' /\ Single' BY <1>2, <1>4 DEF RowFits, Fits, Single
<1>6. member' \in [Items -> {"none", "intended", "removing"}] BY <1>2
<1> HIDE DEF r
<1> QED BY <1>1, <1>2, <1>3, <1>5, <1>6, Commits

LEMMA MarkInFlightKeeps ==
    ASSUME CollInv, NEW p \in Passes, MarkInFlight(p) PROVE CollInv'
<1>1. /\ Working(p) /\ Unfound(p) /\ RowFree(p)
      /\ UNCHANGED <<keepsMarkers, readable, member, proof, copies, made, queue, repair>>
  BY DEF MarkInFlight, Unfound, Working, Holding
<1>2. keepsMarkers => DOMAIN copies = {} BY <1>1, NothingThere DEF Unfound
<1>3. RowFits' /\ Single' BY <1>1, <1>2 DEF RowFits, Fits, Single
<1>4. member' \in [Items -> {"none", "intended", "removing"}]
  BY <1>1 DEF CollInv, CollTypeOK
<1>5. row \in Rows BY DEF CollInv, CollTypeOK
<1>6. ASSUME NEW r \in Rows, CommitRow(p, r) PROVE CollInv'
  BY <1>1, <1>3, <1>4, <1>6, Commits
<1>7. CASE CommitRow(p, row) BY <1>5, <1>6, <1>7
<1>8. CASE CommitRow(p, [row EXCEPT !.status = IF @ \in Unsettled THEN "failed" ELSE @])
  <2>1. [row EXCEPT !.status = IF @ \in Unsettled THEN "failed" ELSE @] \in Rows
    BY <1>5 DEF Rows, Statuses
  <2> QED BY <1>6, <1>8, <2>1
<1>9. CASE /\ row.status \in {"planned", "ambiguous"} /\ UNCHANGED row
           /\ pass' = [pass EXCEPT ![p].at = "create",
                ![p].draft = {[row EXCEPT !.status = "in_flight", !.attempts = @ + 1]}]
  <2> DEFINE r == [row EXCEPT !.status = "in_flight", !.attempts = @ + 1]
             e == [pass[p] EXCEPT !.at = "create", !.draft = {r}]
  <2>1. pass[p] \in PassRecords BY DEF CollInv, CollTypeOK
  <2>2. r \in Rows /\ r.status = "in_flight" /\ r.handle = row.handle
    <3>1. "in_flight" \in Statuses BY DEF Statuses, Actionable, Unsettled
    <3> DEFINE s == [row EXCEPT !.status = "in_flight"]
    <3>2. s \in Rows /\ s.status = "in_flight" /\ s.handle = row.handle
          /\ s.attempts = row.attempts
      BY <1>5, <3>1 DEF Rows
    <3>3. r = [s EXCEPT !.attempts = s.attempts + 1] BY <1>5, <3>2 DEF Rows
    <3> HIDE DEF s, r
    <3> QED BY <3>2, <3>3 DEF Rows
  <2> HIDE DEF r
  <2>3. /\ e \in PassRecords /\ e.at = "create" /\ e.draft = {r} /\ e.removing = pass[p].removing
        /\ e.ids = pass[p].ids
    BY <2>1, <2>2 DEF PassRecords, Holding
  <2>4. pass' = [pass EXCEPT ![p] = e] BY <1>9, <2>1 DEF r, CollInv, CollTypeOK
  <2> HIDE DEF e
  <2>5. /\ pass' \in [Passes -> PassRecords] /\ pass'[p] = e
        /\ Alone' /\ \A q \in Passes \ {p} : PassInv(q)'
    BY <1>1, <2>3, <2>4, Others
  <2>6. View(p)' = r BY <2>3, <2>5, Only DEF View
  <2>7. pass[p].at = "find" /\ pass[p].draft = {} /\ queue = {}
        /\ DraftInv(p) /\ HandleInv(p) /\ SyncInv(p)
    BY <1>1 DEF Unfound, RowFree, CollInv, PassInv, DraftInv, Settling
  <2>8. row.handle = NoHandle BY <2>7 DEF HandleInv, View
  <2>9. DraftInv(p)'
    BY <1>1, <1>9, <2>2, <2>3, <2>5, <2>6, <2>7 DEF DraftInv, Settling, Unsettled
  <2>10. HandleInv(p)'
    BY <1>1, <1>2, <1>9, <2>2, <2>3, <2>5, <2>6, <2>8 DEF HandleInv, Settling
  <2>11. SyncInv(p)'
    BY <1>1, <2>3, <2>5, <2>7 DEF SyncInv, Backed, Member
  <2>12. CollTypeOK' BY <1>1, <1>9, <2>5 DEF CollInv, CollTypeOK
  <2> QED BY <1>3, <2>3, <2>5, <2>9, <2>10, <2>11, <2>12 DEF CollInv, PassInv, Working, Holding
<1> QED BY <1>7, <1>8, <1>9 DEF MarkInFlight

LEMMA QueueEmptiedKeeps ==
    ASSUME CollInv, NEW p \in Passes, QueueEmptied(p) PROVE CollInv'
<1>1. Working(p) BY DEF QueueEmptied, Working, Holding
<1> DEFINE r == IF View(p).status \in NonTerminal
                THEN [View(p) EXCEPT !.status = "revoke_pending", !.dirty = TRUE] ELSE View(p)
<1>2. /\ CommitRow(p, r) /\ row' = r
      /\ UNCHANGED <<keepsMarkers, readable, member, proof, copies, made, queue, repair>>
  BY DEF QueueEmptied, CommitRow
<1>3. View(p) \in Rows BY <1>1, ViewFits
<1>4. /\ r \in Rows /\ r.handle = View(p).handle
      /\ r.status \in {View(p).status, "revoke_pending"}
  BY <1>3 DEF Rows, Statuses
<1> HIDE DEF r
<1>5. RowFits' /\ Single' BY <1>1, <1>2, <1>4, CommitFits DEF Member
<1>6. member' \in [Items -> {"none", "intended", "removing"}]
  BY <1>2 DEF CollInv, CollTypeOK
<1> QED BY <1>1, <1>2, <1>4, <1>5, <1>6, Commits

\* The member rows it drops are those it has found removed, and has removed.
LEMMA FinishSyncKeeps ==
    ASSUME CollInv, NEW p \in Passes, FinishSync(p) PROVE CollInv'
<1>1. /\ Working(p) /\ pass[p].at = "finish" /\ row \in Rows
      /\ UNCHANGED <<keepsMarkers, readable, proof, copies, made, queue, repair>>
  BY DEF FinishSync, Working, Holding, CollInv, CollTypeOK
<1>2. View(p) \in Rows /\ Fits(View(p)) BY <1>1, ViewFits
<1>3. CASE ~pass[p].complete
  <2>1. CommitRow(p, View(p)) /\ row' = View(p) /\ member' = member
    BY <1>3 DEF FinishSync, CommitRow
  <2>2. RowFits' /\ Single' BY <1>1, <1>2, <2>1, CommitFits DEF Member
  <2>3. member' \in [Items -> {"none", "intended", "removing"}]
    BY <2>1 DEF CollInv, CollTypeOK
  <2> QED BY <1>1, <1>2, <2>1, <2>2, <2>3, Commits
<1>4. CASE pass[p].complete
  <2> DEFINE r == IF View(p).status = "published" THEN [View(p) EXCEPT !.dirty = FALSE] ELSE View(p)
  <2>1. /\ CommitRow(p, r) /\ row' = r
        /\ member' = [i \in Items |->
                IF i \in pass[p].removing /\ member[i] = "removing" THEN "none" ELSE member[i]]
    BY <1>4 DEF FinishSync, CommitRow
  <2>2. r \in Rows /\ r.handle = View(p).handle /\ r.status = View(p).status
    BY <1>2 DEF Rows
  <2> HIDE DEF r
  <2>3. member' \in [Items -> {"none", "intended", "removing"}]
    BY <2>1 DEF CollInv, CollTypeOK
  <2>4. Backed(p) \subseteq MatchedBy({i \in Items : Member(i)})'
    <3>1. \A i \in Items \ pass[p].removing : Member(i) => Member(i)' BY <2>1 DEF Member
    <3> QED BY <3>1 DEF Backed, MatchedBy
  <2>5. DraftInv(p) /\ HandleInv(p) /\ SyncInv(p) BY <1>1 DEF CollInv, PassInv
  <2>6. keepsMarkers => \A h \in DOMAIN copies : copies[h] \subseteq Backed(p)
    <3>1. keepsMarkers => DOMAIN copies \subseteq {pass[p].handle}
      BY <1>1, <2>5 DEF HandleInv, Settling
    <3>2. pass[p].takes = {} BY <1>1, <2>5 DEF SyncInv
    <3> QED BY <1>1, <1>4, <2>5, <3>1, <3>2 DEF SyncInv
  <2>7. RowFits' BY <1>1, <1>2, <2>1, <2>2, <2>4, <2>6 DEF RowFits, Fits
  <2>8. Single' BY <1>1 DEF CollInv, Single
  <2> QED BY <1>1, <2>1, <2>2, <2>3, <2>7, <2>8, Commits
<1> QED BY <1>3, <1>4

LEMMA ProveAndSettleKeeps ==
    ASSUME CollInv, NEW p \in Passes, ProveAndSettle(p) PROVE CollInv'
<1> DEFINE r == [Settled(View(p), pass[p].handle) EXCEPT !.dirty = FALSE]
<1>1. /\ Working(p) /\ pass[p].at = "prove" /\ row' = r
      /\ pass' = [pass EXCEPT ![p] = Ended(p)] /\ proof' \in {"verified", "broken", proof}
      /\ UNCHANGED <<keepsMarkers, readable, member, copies, made, queue, repair>>
  BY DEF ProveAndSettle, CommitRow, Working, Holding
<1>2. View(p) \in Rows /\ Fits(row) /\ pass[p].handle \in Nat
  BY <1>1, ViewFits DEF CollInv, CollTypeOK, PassRecords, RowFits
<1>3. r \in Rows /\ r.handle = pass[p].handle /\ r.status = "published"
  BY <1>2 DEF Settled, Rows, Statuses, Actionable
<1> HIDE DEF r
<1>4. DraftInv(p) /\ HandleInv(p) BY <1>1 DEF CollInv, PassInv
<1>5. row.status # "revoke_pending" BY <1>1, <1>4 DEF DraftInv, Unsettled
<1>6. keepsMarkers => DOMAIN copies \subseteq {pass[p].handle}
  BY <1>1, <1>4 DEF HandleInv
<1>7. RowFits' /\ Single'
  BY <1>1, <1>2, <1>3, <1>5, <1>6 DEF RowFits, Fits, Member, Actionable, CollInv, Single
<1>8. pass' \in [Passes -> PassRecords] /\ Alone' /\ \A q \in Passes : PassInv(q)'
  BY <1>1, EndsAlone
<1>9. CollTypeOK' BY <1>1, <1>3, <1>8 DEF CollInv, CollTypeOK
<1> QED BY <1>7, <1>8, <1>9 DEF CollInv

\* What a creation leaves on the server.
LEMMA NewCopyLeaves ==
    ASSUME CollInv, NEW p \in Passes, pass[p].at = "create", NewCopy(p)
    PROVE  /\ made' \in Nat /\ DOMAIN copies' = DOMAIN copies \cup {made + 1}
           /\ DOMAIN copies' \subseteq Nat \ {NoHandle}
           /\ copies' \in [DOMAIN copies' -> SUBSET Library]
           /\ keepsMarkers => /\ DOMAIN copies' = {made + 1}
                              /\ copies'[made + 1] \subseteq MatchedBy({i \in Items : Member(i)})
<1>1. /\ pass[p] \in PassRecords /\ made \in Nat /\ DOMAIN copies \subseteq Nat \ {NoHandle}
      /\ copies \in [DOMAIN copies -> SUBSET Library]
  BY DEF CollInv, CollTypeOK
<1>2. HandleInv(p) /\ SyncInv(p) BY DEF CollInv, PassInv, Working, Holding
<1>3. pass[p].ids \subseteq MatchedBy({i \in Items : Member(i)})
  BY <1>2 DEF SyncInv, Backed, MatchedBy
<1>4. keepsMarkers => DOMAIN copies = {} BY <1>2 DEF HandleInv
<1>5. /\ made' = made + 1
      /\ copies' = [h \in DOMAIN copies \cup {made + 1} |->
                      IF h \in DOMAIN copies THEN copies[h] ELSE pass[p].ids]
  BY DEF NewCopy
<1>6. pass[p].ids \in SUBSET Library BY <1>1 DEF PassRecords
<1> QED BY <1>1, <1>3, <1>4, <1>5, <1>6 DEF NoHandle

LEMMA CreateFailsKeeps ==
    ASSUME CollInv, NEW p \in Passes, CreateFails(p) PROVE CollInv'
<1> DEFINE r == [View(p) EXCEPT !.status = "ambiguous"]
<1>1. /\ Working(p) /\ pass[p].at = "create" /\ row' = r
      /\ pass' = [pass EXCEPT ![p] = Ended(p)] /\ (NewCopy(p) \/ UNCHANGED <<copies, made>>)
      /\ UNCHANGED <<keepsMarkers, readable, member, proof, queue, repair>>
  BY DEF CreateFails, CommitRow, Working, Holding
<1>2. DraftInv(p) /\ HandleInv(p) /\ View(p) \in Rows
  BY <1>1, ViewFits DEF CollInv, PassInv
<1>3. r \in Rows /\ r.handle = NoHandle /\ r.status = "ambiguous"
  BY <1>1, <1>2 DEF HandleInv, Rows, Statuses, Actionable, Unsettled
<1> HIDE DEF r
<1>4. pass' \in [Passes -> PassRecords] /\ Alone' /\ \A q \in Passes : PassInv(q)'
  BY <1>1, EndsAlone
<1>5. keepsMarkers => DOMAIN copies = {} BY <1>1, <1>2 DEF HandleInv
<1>6. CASE NewCopy(p)
  <2>1. RowFits' /\ Single'
    BY <1>1, <1>3, <1>6, NewCopyLeaves DEF RowFits, Fits, Single, Actionable, Unsettled, Member
  <2>2. CollTypeOK' BY <1>1, <1>3, <1>4, <1>6, NewCopyLeaves DEF CollInv, CollTypeOK
  <2> QED BY <1>4, <2>1, <2>2 DEF CollInv
<1>7. CASE UNCHANGED <<copies, made>>
  <2>1. RowFits' /\ Single' BY <1>1, <1>3, <1>5, <1>7 DEF RowFits, Fits, Single
  <2>2. CollTypeOK' BY <1>1, <1>3, <1>4, <1>7 DEF CollInv, CollTypeOK
  <2> QED BY <1>4, <2>1, <2>2 DEF CollInv
<1> QED BY <1>1, <1>6, <1>7

\* A copy comes to hold more, or less.
LEMMA AddingLeaves ==
    ASSUME CollInv, NEW p \in Passes, Adding(p)
    PROVE  /\ DOMAIN copies' = DOMAIN copies /\ copies' \in [DOMAIN copies' -> SUBSET Library]
           /\ \A h \in DOMAIN copies : copies'[h] =
                 IF h = pass[p].handle THEN copies[h] \cup pass[p].adds ELSE copies[h]
<1>1. pass[p].adds \in SUBSET Library /\ copies \in [DOMAIN copies -> SUBSET Library]
  BY DEF CollInv, CollTypeOK, PassRecords
<1>2. CASE pass[p].adds = {} /\ UNCHANGED copies BY <1>1, <1>2
<1>3. CASE /\ pass[p].handle \in DOMAIN copies
           /\ copies' = [copies EXCEPT ![pass[p].handle] =
                           copies[pass[p].handle] \cup pass[p].adds]
  BY <1>1, <1>3
<1> QED BY <1>2, <1>3 DEF Adding, Holds

LEMMA TakingLeaves ==
    ASSUME CollInv, NEW p \in Passes, Taking(p)
    PROVE  /\ DOMAIN copies' = DOMAIN copies /\ copies' \in [DOMAIN copies' -> SUBSET Library]
           /\ \A h \in DOMAIN copies : copies'[h] =
                 IF h = pass[p].handle THEN copies[h] \ pass[p].takes ELSE copies[h]
<1>1. pass[p].takes \in SUBSET Library /\ copies \in [DOMAIN copies -> SUBSET Library]
  BY DEF CollInv, CollTypeOK, PassRecords
<1>2. CASE pass[p].takes = {} /\ UNCHANGED copies BY <1>1, <1>2
<1>3. CASE /\ pass[p].handle \in DOMAIN copies
           /\ copies' = [copies EXCEPT ![pass[p].handle] =
                           copies[pass[p].handle] \ pass[p].takes]
  BY <1>1, <1>3
<1> QED BY <1>2, <1>3 DEF Taking, Holds

LEMMA SyncFailsKeeps ==
    ASSUME CollInv, NEW p \in Passes, SyncFails(p) PROVE CollInv'
<1>1. /\ pass[p].at \in {"members", "add", "remove"}
      /\ UNCHANGED copies \/ (pass[p].at = "add" /\ Adding(p)) \/ Taking(p)
      /\ row' = View(p) /\ pass' = [pass EXCEPT ![p] = Ended(p)]
      /\ UNCHANGED <<keepsMarkers, readable, member, proof, made, queue, repair>>
  BY DEF SyncFails, CommitRow
<1>2. Working(p) BY <1>1 DEF Working, Holding
<1>3. SyncInv(p) /\ View(p) \in Rows BY <1>2, ViewFits DEF CollInv, PassInv
<1>4. pass[p].at = "add" => pass[p].adds \subseteq MatchedBy({i \in Items : Member(i)})
  BY <1>3 DEF SyncInv, Backed, MatchedBy
<1>5. /\ DOMAIN copies' = DOMAIN copies /\ copies' \in [DOMAIN copies' -> SUBSET Library]
      /\ \A h \in DOMAIN copies' :
            copies'[h] \subseteq copies[h] \cup MatchedBy({i \in Items : Member(i)})
  <2>1. CASE UNCHANGED copies BY <2>1 DEF CollInv, CollTypeOK
  <2>2. CASE pass[p].at = "add" /\ Adding(p)
    BY <1>4, <2>2, AddingLeaves
  <2>3. CASE Taking(p) BY <2>3, TakingLeaves
  <2> QED BY <1>1, <2>1, <2>2, <2>3
<1>6. RowFits' /\ Single' BY <1>1, <1>2, <1>5, CommitFits DEF Member
<1>7. pass' \in [Passes -> PassRecords] /\ Alone' /\ \A q \in Passes : PassInv(q)'
  BY <1>1, <1>2, EndsAlone
<1>8. CollTypeOK' BY <1>1, <1>3, <1>5, <1>7 DEF CollInv, CollTypeOK
<1> QED BY <1>6, <1>7, <1>8 DEF CollInv

-----------------------------------------------------------------------------
(* The ends of a revocation.                                                *)

LEMMA Revoked ==
    ASSUME CollInv, NEW p \in Passes, Working(p), MarkRevoked(p),
           keepsMarkers => DOMAIN copies' = {},
           DOMAIN copies' \subseteq DOMAIN copies,
           copies' \in [DOMAIN copies' -> SUBSET Library],
           UNCHANGED <<keepsMarkers, readable, proof, made, queue, repair>>
    PROVE  CollInv'
<1>1. /\ row' = [row EXCEPT !.status = "revoked", !.dirty = FALSE]
      /\ member' = [i \in Items |-> "none"] /\ pass' = [pass EXCEPT ![p] = Rest]
  BY DEF MarkRevoked
<1>2. row' \in Rows BY <1>1 DEF CollInv, CollTypeOK, Rows, Statuses
<1>3. pass' \in [Passes -> PassRecords] /\ Alone' /\ \A q \in Passes : PassInv(q)'
  BY <1>1, EndsAlone
<1>4. RowFits' /\ Single' BY DEF RowFits, Fits, Single
<1>5. CollTypeOK' BY <1>1, <1>2, <1>3 DEF CollInv, CollTypeOK
<1> QED BY <1>3, <1>4, <1>5 DEF CollInv

LEMMA RevocationEnds ==
    ASSUME CollInv, NEW p \in Passes, RevokeFindsNothing(p) \/ DeleteCopy(p) PROVE CollInv'
<1>1. Working(p) BY DEF RevokeFindsNothing, DeleteCopy, Working, Holding
<1>2. copies \in [DOMAIN copies -> SUBSET Library] BY DEF CollInv, CollTypeOK
<1>3. CASE RevokeFindsNothing(p)
  <2>1. /\ NoHandle \in Answers /\ MarkRevoked(p)
        /\ UNCHANGED <<keepsMarkers, readable, proof, copies, made, queue, repair>>
    BY <1>3 DEF RevokeFindsNothing
  <2>2. keepsMarkers => DOMAIN copies = {} BY <2>1, NothingThere
  <2> QED BY <1>1, <1>2, <2>1, <2>2, Revoked
<1>4. CASE DeleteCopy(p)
  <2>1. /\ pass[p].at = "delete" /\ MarkRevoked(p)
        /\ copies' = [h \in DOMAIN copies \ {pass[p].handle} |-> copies[h]]
        /\ UNCHANGED <<keepsMarkers, readable, proof, made, queue, repair>>
    BY <1>4 DEF DeleteCopy
  <2>2. keepsMarkers => DOMAIN copies \subseteq {pass[p].handle}
    BY <1>1, <2>1 DEF CollInv, PassInv, HandleInv
  <2>3. /\ DOMAIN copies' = DOMAIN copies \ {pass[p].handle}
        /\ copies' \in [DOMAIN copies' -> SUBSET Library]
    BY <1>2, <2>1
  <2> QED BY <1>1, <2>1, <2>2, <2>3, Revoked
<1> QED BY <1>3, <1>4

LEMMA RevokeFailsKeeps ==
    ASSUME CollInv, NEW p \in Passes, RevokeFails(p) PROVE CollInv'
<1>1. /\ Working(p) /\ pass' = [pass EXCEPT ![p] = Rest]
      /\ UNCHANGED <<keepsMarkers, readable, row, member, proof, made, queue, repair>>
  BY DEF RevokeFails, Working, Holding
<1>2. /\ DOMAIN copies' \subseteq DOMAIN copies
      /\ \A h \in DOMAIN copies' : copies'[h] = copies[h]
      /\ copies' \in [DOMAIN copies' -> SUBSET Library]
  <2>1. copies \in [DOMAIN copies -> SUBSET Library] BY DEF CollInv, CollTypeOK
  <2>2. CASE UNCHANGED copies BY <2>1, <2>2
  <2>3. CASE copies' = [h \in DOMAIN copies \ {pass[p].handle} |-> copies[h]] BY <2>1, <2>3
  <2> QED BY <2>2, <2>3 DEF RevokeFails
<1>3. pass' \in [Passes -> PassRecords] /\ Alone' /\ \A q \in Passes : PassInv(q)'
  BY <1>1, EndsAlone
<1>4. RowFits' /\ Single' BY <1>1, <1>2, StillFits DEF Member
<1>5. CollTypeOK' BY <1>1, <1>2, <1>3 DEF CollInv, CollTypeOK
<1> QED BY <1>3, <1>4, <1>5 DEF CollInv

-----------------------------------------------------------------------------
(* The steps after which the pass still holds the lock.                     *)

\* What is left to show of such a step.
LEMMA GoesOn ==
    ASSUME CollInv, NEW p \in Passes, NEW e \in PassRecords,
           pass' = [pass EXCEPT ![p] = e], Working(p) \/ LockFree(p),
           row' \in Rows, member' \in [Items -> {"none", "intended", "removing"}], made' \in Nat,
           DOMAIN copies' \subseteq Nat \ {NoHandle}, copies' \in [DOMAIN copies' -> SUBSET Library],
           UNCHANGED <<keepsMarkers, readable, proof, queue, repair>>,
           PassInv(p)', RowFits' /\ Single'
    PROVE  CollInv'
<1>1. pass' \in [Passes -> PassRecords] /\ Alone' /\ \A q \in Passes \ {p} : PassInv(q)'
  BY Others
<1>2. CollTypeOK' BY <1>1 DEF CollInv, CollTypeOK
<1> QED BY <1>1, <1>2 DEF CollInv

\* Nothing but the pass itself changes.
LEMMA OnlyGoesOn ==
    ASSUME CollInv, NEW p \in Passes, NEW e \in PassRecords,
           pass' = [pass EXCEPT ![p] = e], Working(p) \/ LockFree(p), PassInv(p)',
           UNCHANGED <<keepsMarkers, readable, row, member, proof, copies, made, queue, repair>>
    PROVE  CollInv'
<1>1. RowFits' /\ Single' BY StillFits DEF Member
<1>2. /\ row' \in Rows /\ member' \in [Items -> {"none", "intended", "removing"}]
      /\ made' \in Nat /\ DOMAIN copies' \subseteq Nat \ {NoHandle}
      /\ copies' \in [DOMAIN copies' -> SUBSET Library]
  BY DEF CollInv, CollTypeOK
<1> QED BY <1>1, <1>2, GoesOn

\* A pass that keeps its draft sees the row as before.
LEMMA SameView ==
    ASSUME CollInv, NEW p \in Passes, Working(p), pass'[p].draft = pass[p].draft, row' = row
    PROVE  View(p)' = View(p)
<1>1. CASE pass[p].draft = {} BY <1>1 DEF View
<1>2. CASE pass[p].draft # {}
  <2>1. pass'[p].draft = {View(p)} BY <1>2 DEF CollInv, PassInv, DraftInv
  <2> QED BY <1>2, <2>1, Only DEF View
<1> QED BY <1>1, <1>2

LEMMA LockAndResolveKeeps ==
    ASSUME CollInv, NEW p \in Passes, LockAndResolve(p) PROVE CollInv'
<1>1. /\ pass[p].at = "lock" /\ LockFree(p) /\ pass[p] \in PassRecords /\ row \in Rows
      /\ UNCHANGED <<keepsMarkers, readable, row, member, proof, copies, made, queue, repair>>
  BY DEF LockAndResolve, CollInv, CollTypeOK
<1>2. pass[p].draft = {} BY <1>1 DEF CollInv, PassInv, Working, Holding
<1>3. CASE pass' = [pass EXCEPT ![p] = Ended(p)]
  <2>1. Ended(p) \in PassRecords BY EndedRests
  <2>2. PassInv(p)' BY <1>1, <1>3, EndsAlone
  <2> QED BY <1>1, <1>3, <2>1, <2>2, OnlyGoesOn
<1>4. ASSUME NEW lost \in SUBSET Intended,
             pass' = [pass EXCEPT ![p] =
                [@ EXCEPT !.emptied = Intended = {}, !.removing = Removing,
                          !.ids = MatchedBy((Intended \cap readable) \ lost),
                          !.complete = lost = {}, !.handle = row.handle,
                          !.at = IF row.handle = NoHandle THEN "find" ELSE "members"]]
      PROVE  CollInv'
  <2> DEFINE ids == MatchedBy((Intended \cap readable) \ lost)
             e == [pass[p] EXCEPT !.emptied = Intended = {}, !.removing = Removing,
                      !.ids = ids, !.complete = lost = {}, !.handle = row.handle,
                      !.at = IF row.handle = NoHandle THEN "find" ELSE "members"]
  <2>1. ids \in SUBSET Library /\ Removing \in SUBSET Items
    BY Monotone DEF Intended, Removing
  <2>2. /\ e \in PassRecords /\ e.draft = {} /\ e.removing = Removing /\ e.ids = ids
        /\ e.complete = (lost = {}) /\ e.handle = row.handle
        /\ e.at = IF row.handle = NoHandle THEN "find" ELSE "members"
    <3> HIDE DEF ids
    <3>1. row.handle \in Nat /\ (Intended = {}) \in BOOLEAN /\ (lost = {}) \in BOOLEAN
      BY <1>1 DEF Rows
    <3> QED BY <1>1, <1>2, <2>1, <3>1, ZenonT(60) DEF PassRecords, Holding
  <2>3. pass' = [pass EXCEPT ![p] = e] BY <1>4 DEF CollInv, CollTypeOK
  <2> HIDE DEF e
  <2>4. pass'[p] = e BY <1>1, <2>2, <2>3, Others
  <2>5. View(p)' = row BY <1>1, <2>2, <2>4 DEF View
  <2>6. ids \subseteq Backed(p)'
    <3>1. ((Intended \cap readable) \ lost) \subseteq {i \in Items \ Removing : Member(i)}
      BY DEF Intended, Removing, Member
    <3>2. Backed(p)' = MatchedBy({i \in Items \ Removing : Member(i)})
      BY <1>1, <2>2, <2>4 DEF Backed, Member
    <3> QED BY <3>1, <3>2, Monotone
  <2>7. lost = {} => Wanted' = ids BY <1>1 DEF Wanted, Intended
  <2> HIDE DEF ids
  <2>8. DraftInv(p)' BY <2>2, <2>4 DEF DraftInv
  <2>9. HandleInv(p)'
    BY <1>1, <2>2, <2>4, <2>5 DEF HandleInv, CollInv, RowFits, Fits, Settling
  <2>10. SyncInv(p)' BY <2>2, <2>4, <2>6, <2>7 DEF SyncInv
  <2>11. PassInv(p)' BY <2>2, <2>4, <2>8, <2>9, <2>10 DEF PassInv
  <2> QED BY <1>1, <2>2, <2>3, <2>11, OnlyGoesOn
<1> QED BY <1>3, <1>4 DEF LockAndResolve

LEMMA AdoptCopyKeeps == ASSUME CollInv, NEW p \in Passes, AdoptCopy(p) PROVE CollInv'
<1>1. /\ pass[p].at = "find" /\ Working(p) /\ queue = {} /\ pass[p] \in PassRecords
      /\ row \in Rows
      /\ UNCHANGED <<keepsMarkers, readable, row, member, proof, copies, made, queue, repair>>
  BY DEF AdoptCopy, RowFree, Working, Holding, CollInv, CollTypeOK
<1>2. CASE pass' = [pass EXCEPT ![p] = Ended(p)]
  <2>1. Ended(p) \in PassRecords BY EndedRests
  <2>2. PassInv(p)' BY <1>1, <1>2, EndsAlone
  <2> QED BY <1>1, <1>2, <2>1, <2>2, OnlyGoesOn
<1>3. ASSUME NEW h \in Answers \ {NoHandle}, row.status \in Unsettled,
             pass' = [pass EXCEPT ![p] =
                [@ EXCEPT !.at = "members", !.handle = h, !.draft = {Settled(row, h)}]]
      PROVE  CollInv'
  <2> DEFINE r == Settled(row, h)
             e == [pass[p] EXCEPT !.at = "members", !.handle = h, !.draft = {r}]
  <2>1. h \in DOMAIN copies /\ h \in Nat
    BY <1>3 DEF Answers, CollInv, CollTypeOK
  <2>2. r \in Rows /\ r.status = "published" /\ r.handle = h
    BY <1>1, <2>1 DEF Settled, Rows, Statuses, Actionable
  <2>3. pass' = [pass EXCEPT ![p] = e] BY <1>3 DEF CollInv, CollTypeOK
  <2> HIDE DEF r
  <2>4. /\ e \in PassRecords /\ e.at = "members" /\ e.draft = {r} /\ e.handle = h
        /\ e.removing = pass[p].removing /\ e.ids = pass[p].ids
        /\ e.complete = pass[p].complete
    BY <1>1, <2>1, <2>2 DEF PassRecords, Holding
  <2> HIDE DEF e
  <2>5. pass'[p] = e BY <1>1, <2>3, <2>4, Others
  <2>6. View(p)' = r BY <2>4, <2>5, Only DEF View
  <2>7. SyncInv(p) BY <1>1 DEF CollInv, PassInv
  <2>8. DraftInv(p)'
    BY <1>1, <1>3, <2>2, <2>4, <2>5, <2>6 DEF DraftInv, Settling
  <2>9. keepsMarkers => DOMAIN copies \subseteq {h} BY <2>1 DEF CollInv, Single
  <2>10. HandleInv(p)'
    BY <1>1, <2>2, <2>4, <2>5, <2>6, <2>9 DEF HandleInv, Settling
  <2>11. SyncInv(p)'
    BY <1>1, <2>4, <2>5, <2>7 DEF SyncInv, Backed, Member, Wanted, Intended
  <2>12. PassInv(p)' BY <2>4, <2>5, <2>8, <2>10, <2>11 DEF PassInv, Working, Holding
  <2> QED BY <1>1, <2>3, <2>4, <2>12, OnlyGoesOn
<1> QED BY <1>2, <1>3 DEF AdoptCopy

LEMMA CreateCopyKeeps == ASSUME CollInv, NEW p \in Passes, CreateCopy(p) PROVE CollInv'
<1>1. /\ pass[p].at = "create" /\ NewCopy(p) /\ Working(p) /\ pass[p] \in PassRecords
      /\ made \in Nat /\ row \in Rows
      /\ UNCHANGED <<keepsMarkers, readable, row, member, proof, queue, repair>>
  BY DEF CreateCopy, Working, Holding, CollInv, CollTypeOK
<1>2. DraftInv(p) /\ HandleInv(p) BY <1>1 DEF CollInv, PassInv
<1> DEFINE e == [pass[p] EXCEPT !.at = "prove", !.handle = made + 1, !.ids = {}]
<1>3. /\ e \in PassRecords /\ e.at = "prove" /\ e.handle = made + 1 /\ e.draft = pass[p].draft
  <2> DEFINE b == [pass[p] EXCEPT !.at = "prove", !.ids = {}]
  <2>1. b \in PassRecords /\ b.at = "prove" /\ b.draft = pass[p].draft
    BY <1>1 DEF PassRecords, Holding
  <2>2. e = [b EXCEPT !.handle = made + 1] BY <1>1 DEF PassRecords
  <2> HIDE DEF b, e
  <2> QED BY <1>1, <2>1, <2>2 DEF PassRecords
<1>4. pass' = [pass EXCEPT ![p] = e] BY DEF CreateCopy, CollInv, CollTypeOK
<1> HIDE DEF e
<1>5. pass'[p] = e BY <1>1, <1>3, <1>4, Others
<1>6. View(p)' = View(p) BY <1>1, <1>3, <1>5, SameView
<1>7. DraftInv(p)' BY <1>1, <1>2, <1>3, <1>5, <1>6 DEF DraftInv, Settling
<1>8. HandleInv(p)'
  BY <1>1, <1>2, <1>3, <1>5, <1>6, NewCopyLeaves DEF HandleInv, Settling
<1>9. SyncInv(p)' BY <1>3, <1>5 DEF SyncInv
<1>10. PassInv(p)' BY <1>3, <1>5, <1>7, <1>8, <1>9 DEF PassInv, Working, Holding
<1>11. row.handle = NoHandle /\ row.status \in Unsettled
  BY <1>1, <1>2 DEF HandleInv, DraftInv
<1>12. RowFits' /\ Single'
  BY <1>1, <1>11, NewCopyLeaves DEF RowFits, Fits, Single, Actionable, Member
<1>13. member' \in [Items -> {"none", "intended", "removing"}]
  BY <1>1 DEF CollInv, CollTypeOK
<1> QED BY <1>1, <1>3, <1>4, <1>10, <1>12, <1>13, NewCopyLeaves, GoesOn

LEMMA ListMembersKeeps == ASSUME CollInv, NEW p \in Passes, ListMembers(p) PROVE CollInv'
<1>1. /\ pass[p].at = "members" /\ Working(p) /\ pass[p] \in PassRecords
      /\ copies \in [DOMAIN copies -> SUBSET Library]
      /\ pass[p].handle \in DOMAIN copies
      /\ UNCHANGED <<keepsMarkers, readable, row, member, proof, copies, made, queue, repair>>
  BY DEF ListMembers, Working, Holding, CollInv, CollTypeOK
<1>2. DraftInv(p) /\ HandleInv(p) /\ SyncInv(p) BY <1>1 DEF CollInv, PassInv
<1>3. PICK cut \in SUBSET copies[pass[p].handle] :
        LET seen == copies[pass[p].handle] \ cut
            complete == pass[p].complete /\ cut = {}
        IN pass' = [pass EXCEPT ![p] =
            [@ EXCEPT !.at = "add", !.complete = complete, !.ids = {},
                      !.adds = pass[p].ids \ seen,
                      !.takes = IF complete THEN seen \ pass[p].ids ELSE {}]]
  BY DEF ListMembers
<1> DEFINE complete == pass[p].complete /\ cut = {}
           adds == pass[p].ids \ (copies[pass[p].handle] \ cut)
           takes == IF complete THEN (copies[pass[p].handle] \ cut) \ pass[p].ids ELSE {}
           e == [pass[p] EXCEPT !.at = "add", !.complete = complete, !.ids = {},
                                !.adds = adds, !.takes = takes]
<1>4. pass' = [pass EXCEPT ![p] = e] BY <1>3 DEF CollInv, CollTypeOK
<1>5. complete \in BOOLEAN /\ adds \in SUBSET Library /\ takes \in SUBSET Library
  <2>1. pass[p].ids \in SUBSET Library /\ copies[pass[p].handle] \in SUBSET Library
    BY <1>1 DEF PassRecords
  <2>2. pass[p].complete \in BOOLEAN BY <1>1 DEF PassRecords
  <2> QED BY <2>1, <2>2
<1>6. /\ adds \subseteq pass[p].ids
      /\ complete => /\ pass[p].complete
                     /\ takes = copies[pass[p].handle] \ pass[p].ids
                     /\ copies[pass[p].handle] \ takes \subseteq pass[p].ids
      /\ ~complete => takes = {}
  OBVIOUS
<1> HIDE DEF complete, adds, takes
<1>7. /\ e \in PassRecords /\ e.at = "add" /\ e.complete = complete /\ e.adds = adds
      /\ e.takes = takes /\ e.draft = pass[p].draft /\ e.handle = pass[p].handle
      /\ e.removing = pass[p].removing
  BY <1>1, <1>5 DEF PassRecords, Holding
<1> HIDE DEF e
<1>8. pass'[p] = e BY <1>1, <1>4, <1>7, Others
<1>9. View(p)' = View(p) BY <1>1, <1>7, <1>8, SameView
<1>10. DraftInv(p)' BY <1>1, <1>2, <1>7, <1>8, <1>9 DEF DraftInv, Settling
<1>11. HandleInv(p)' BY <1>1, <1>2, <1>7, <1>8, <1>9 DEF HandleInv, Settling
<1>12. SyncInv(p)'
  <2>1. Backed(p)' = Backed(p) /\ Wanted' = Wanted
    BY <1>1, <1>7, <1>8 DEF Backed, Member, Wanted, Intended
  <2>2. pass[p].ids \subseteq Backed(p) /\ (pass[p].complete => Wanted \subseteq pass[p].ids)
    BY <1>1, <1>2 DEF SyncInv
  <2>3. takes \cap Wanted = {} BY <1>6, <2>2
  <2> QED BY <1>1, <1>6, <1>7, <1>8, <2>1, <2>2, <2>3 DEF SyncInv
<1>13. PassInv(p)' BY <1>7, <1>8, <1>10, <1>11, <1>12 DEF PassInv, Working, Holding
<1> QED BY <1>1, <1>4, <1>7, <1>13, OnlyGoesOn

LEMMA AddMembersKeeps == ASSUME CollInv, NEW p \in Passes, AddMembers(p) PROVE CollInv'
<1>1. /\ pass[p].at = "add" /\ Adding(p) /\ Working(p) /\ pass[p] \in PassRecords
      /\ row \in Rows /\ member \in [Items -> {"none", "intended", "removing"}]
      /\ made \in Nat /\ DOMAIN copies \subseteq Nat \ {NoHandle}
      /\ UNCHANGED <<keepsMarkers, readable, row, member, proof, made, queue, repair>>
  BY DEF AddMembers, Working, Holding, CollInv, CollTypeOK
<1>2. DraftInv(p) /\ HandleInv(p) /\ SyncInv(p) BY <1>1 DEF CollInv, PassInv
<1> DEFINE e == [pass[p] EXCEPT !.at = "remove", !.adds = {}]
<1>3. /\ e \in PassRecords /\ e.at = "remove" /\ e.takes = pass[p].takes
      /\ e.draft = pass[p].draft /\ e.handle = pass[p].handle
      /\ e.removing = pass[p].removing /\ e.complete = pass[p].complete
  BY <1>1 DEF PassRecords, Holding
<1>4. pass' = [pass EXCEPT ![p] = e] BY DEF AddMembers, CollInv, CollTypeOK
<1> HIDE DEF e
<1>5. pass'[p] = e BY <1>1, <1>3, <1>4, Others
<1>6. View(p)' = View(p) BY <1>1, <1>3, <1>5, SameView
<1>7. /\ DOMAIN copies' = DOMAIN copies /\ copies' \in [DOMAIN copies' -> SUBSET Library]
      /\ \A h \in DOMAIN copies : copies'[h] =
            IF h = pass[p].handle THEN copies[h] \cup pass[p].adds ELSE copies[h]
  BY <1>1, AddingLeaves
<1>8. DraftInv(p)' BY <1>1, <1>2, <1>3, <1>5, <1>6 DEF DraftInv, Settling
<1>9. HandleInv(p)' BY <1>1, <1>2, <1>3, <1>5, <1>6, <1>7 DEF HandleInv, Settling
<1>10. Backed(p)' = Backed(p) /\ Wanted' = Wanted
  BY <1>1, <1>3, <1>5 DEF Backed, Member, Wanted, Intended
<1>11. pass[p].adds \subseteq Backed(p) BY <1>1, <1>2 DEF SyncInv
<1>12. SyncInv(p)' BY <1>1, <1>2, <1>3, <1>5, <1>7, <1>10, <1>11 DEF SyncInv
<1>13. PassInv(p)' BY <1>3, <1>5, <1>8, <1>9, <1>12 DEF PassInv, Working, Holding
<1>14. RowFits' /\ Single'
  <2>1. Single' BY <1>1, <1>7 DEF CollInv, Single
  <2>2. Backed(p) \subseteq MatchedBy({i \in Items : Member(i)}) BY DEF Backed, MatchedBy
  <2>3. MatchedBy({i \in Items : Member(i)})' = MatchedBy({i \in Items : Member(i)})
    BY <1>1 DEF Member
  <2> QED BY <1>1, <1>7, <1>11, <2>1, <2>2, <2>3 DEF CollInv, RowFits, Fits
<1> QED BY <1>1, <1>3, <1>4, <1>7, <1>13, <1>14, GoesOn

LEMMA RemoveMembersKeeps == ASSUME CollInv, NEW p \in Passes, RemoveMembers(p) PROVE CollInv'
<1>1. /\ pass[p].at = "remove" /\ Taking(p) /\ Working(p) /\ pass[p] \in PassRecords
      /\ row \in Rows /\ member \in [Items -> {"none", "intended", "removing"}]
      /\ made \in Nat /\ DOMAIN copies \subseteq Nat \ {NoHandle}
      /\ UNCHANGED <<keepsMarkers, readable, row, member, proof, made, queue, repair>>
  BY DEF RemoveMembers, Working, Holding, CollInv, CollTypeOK
<1>2. DraftInv(p) /\ HandleInv(p) /\ SyncInv(p) BY <1>1 DEF CollInv, PassInv
<1> DEFINE e == [pass[p] EXCEPT !.at = "finish", !.takes = {}]
<1>3. /\ e \in PassRecords /\ e.at = "finish" /\ e.takes = {}
      /\ e.draft = pass[p].draft /\ e.handle = pass[p].handle
      /\ e.removing = pass[p].removing /\ e.complete = pass[p].complete
  BY <1>1 DEF PassRecords, Holding
<1>4. pass' = [pass EXCEPT ![p] = e] BY DEF RemoveMembers, CollInv, CollTypeOK
<1> HIDE DEF e
<1>5. pass'[p] = e BY <1>1, <1>3, <1>4, Others
<1>6. View(p)' = View(p) BY <1>1, <1>3, <1>5, SameView
<1>7. /\ DOMAIN copies' = DOMAIN copies /\ copies' \in [DOMAIN copies' -> SUBSET Library]
      /\ \A h \in DOMAIN copies : copies'[h] =
            IF h = pass[p].handle THEN copies[h] \ pass[p].takes ELSE copies[h]
  BY <1>1, TakingLeaves
<1>8. DraftInv(p)' BY <1>1, <1>2, <1>3, <1>5, <1>6 DEF DraftInv, Settling
<1>9. HandleInv(p)' BY <1>1, <1>2, <1>3, <1>5, <1>6, <1>7 DEF HandleInv, Settling
<1>10. Backed(p)' = Backed(p)
  BY <1>1, <1>3, <1>5 DEF Backed, Member
<1>11. SyncInv(p)' BY <1>1, <1>2, <1>3, <1>5, <1>7, <1>10 DEF SyncInv
<1>12. PassInv(p)' BY <1>3, <1>5, <1>8, <1>9, <1>11 DEF PassInv, Working, Holding
<1>13. RowFits' /\ Single' BY <1>1, <1>7, StillFits DEF Member
<1> QED BY <1>1, <1>3, <1>4, <1>7, <1>12, <1>13, GoesOn

LEMMA RevokeFindsKeeps == ASSUME CollInv, NEW p \in Passes, RevokeFinds(p) PROVE CollInv'
<1>1. /\ pass[p].at = "revoke" /\ Working(p) /\ pass[p] \in PassRecords
      /\ DOMAIN copies \subseteq Nat
      /\ UNCHANGED <<keepsMarkers, readable, row, member, proof, copies, made, queue, repair>>
  BY DEF RevokeFinds, Working, Holding, CollInv, CollTypeOK
<1>2. DraftInv(p) /\ HandleInv(p) BY <1>1 DEF CollInv, PassInv
<1>3. PICK h \in IF pass[p].handle = NoHandle THEN Answers ELSE {pass[p].handle} :
         /\ h # NoHandle
         /\ pass' = [pass EXCEPT ![p].at = "delete", ![p].handle = h]
  BY DEF RevokeFinds
<1>4. h \in Nat BY <1>1, <1>3 DEF Answers, NoHandle, PassRecords
<1>5. keepsMarkers => DOMAIN copies \subseteq {h}
  <2>1. CASE pass[p].handle = NoHandle
    BY <1>3, <2>1 DEF Answers, CollInv, Single
  <2>2. CASE pass[p].handle # NoHandle BY <1>1, <1>2, <1>3, <2>2 DEF HandleInv
  <2> QED BY <2>1, <2>2
<1> DEFINE e == [pass[p] EXCEPT !.at = "delete", !.handle = h]
<1>6. /\ e \in PassRecords /\ e.at = "delete" /\ e.handle = h /\ e.draft = pass[p].draft
  BY <1>1, <1>4 DEF PassRecords, Holding
<1>7. pass' = [pass EXCEPT ![p] = e] BY <1>3 DEF CollInv, CollTypeOK
<1> HIDE DEF e
<1>8. pass'[p] = e BY <1>1, <1>6, <1>7, Others
<1>9. pass[p].draft = {} BY <1>1, <1>2 DEF DraftInv, Settling
<1>10. DraftInv(p)' BY <1>6, <1>8, <1>9 DEF DraftInv, Settling
<1>11. HandleInv(p)' BY <1>1, <1>5, <1>6, <1>8 DEF HandleInv, Settling
<1>12. SyncInv(p)' BY <1>6, <1>8 DEF SyncInv
<1>13. PassInv(p)' BY <1>6, <1>8, <1>10, <1>11, <1>12 DEF PassInv, Working, Holding
<1> QED BY <1>1, <1>6, <1>7, <1>13, OnlyGoesOn

-----------------------------------------------------------------------------
(* The steps of those who do not hold the lock.                             *)

\* A pass moves without the lock, and perhaps sweeps.
LEMMA Outside ==
    ASSUME CollInv, NEW p \in Passes, ~Working(p), NEW e \in PassRecords,
           e.at \notin Holding, e.draft = {}, pass' = [pass EXCEPT ![p] = e],
           row' \in Rows, row'.handle = row.handle,
           row' = row \/ RowFree(p), row'.status \in {row.status, "revoke_pending"},
           member' \in [Items -> {"none", "intended", "removing"}],
           \A i \in Items : Member(i) => Member(i)', Intended' \subseteq Intended,
           UNCHANGED <<keepsMarkers, readable, proof, copies, made, queue, repair>>
    PROVE  CollInv'
<1>1. /\ pass' \in [Passes -> PassRecords] /\ pass'[p] = e
      /\ \A q \in Passes \ {p} : pass'[q] = pass[q]
  BY DEF CollInv, CollTypeOK
<1>2. Alone' BY <1>1 DEF CollInv, Alone, Working
<1>3. PassInv(p)' BY <1>1 DEF PassInv, Working
<1>4. Wanted' \subseteq Wanted BY DEF Wanted, MatchedBy
<1>5. ASSUME NEW q \in Passes \ {p} PROVE PassInv(q)'
  <2>1. pass[q].draft # {} => row' = row /\ queue' = {}
    <3>1. pass[q].draft # {} => row' = row BY <1>5 DEF RowFree
    <3>2. pass[q].draft # {} => queue = {} BY <1>5 DEF CollInv, PassInv, DraftInv
    <3> QED BY <3>1, <3>2
  <2> QED BY <1>1, <1>4, <1>5, <2>1, Undisturbed
<1>6. RowFits' /\ Single' BY StillFits
<1>7. CollTypeOK' BY <1>1 DEF CollInv, CollTypeOK
<1> QED BY <1>2, <1>3, <1>5, <1>6, <1>7 DEF CollInv

LEMMA SweepLeaves ==
    ASSUME CollInv, Sweep
    PROVE  /\ row' \in Rows /\ row'.handle = row.handle
           /\ row'.status \in {row.status, "revoke_pending"}
           /\ member' \in [Items -> {"none", "intended", "removing"}]
           /\ (\A i \in Items : Member(i) => Member(i)') /\ Intended' \subseteq Intended
<1>1. row \in Rows /\ member \in [Items -> {"none", "intended", "removing"}]
  BY DEF CollInv, CollTypeOK
<1>2. CASE row.status \notin Actionable
  BY <1>1, <1>2 DEF Sweep, Member, Intended
<1>3. CASE row.status \in Actionable
  <2> DEFINE gone == Intended \ readable
             dirty == row.dirty \/ Removing \cup gone # {} \/ Intended \ gone = {}
             status == IF Intended \ gone = {} THEN "revoke_pending" ELSE row.status
  <2>1. /\ member' = [i \in Items |-> IF i \in gone THEN "removing" ELSE member[i]]
        /\ row' = [row EXCEPT !.dirty = dirty, !.status = status]
    BY <1>1, <1>3 DEF Sweep, Rows
  <2>2. dirty \in BOOLEAN BY <1>1 DEF Rows
  <2>3. status \in Statuses /\ status \in {row.status, "revoke_pending"}
    BY <1>1 DEF Rows, Statuses
  <2>4. gone \subseteq {i \in Items : Member(i)} BY DEF Intended, Member
  <2> HIDE DEF dirty, status
  <2>5. row' \in Rows /\ row'.handle = row.handle /\ row'.status = status
    BY <1>1, <2>1, <2>2, <2>3 DEF Rows
  <2> HIDE DEF gone
  <2>6. /\ member' \in [Items -> {"none", "intended", "removing"}]
        /\ (\A i \in Items : Member(i) => Member(i)') /\ Intended' \subseteq Intended
    BY <1>1, <2>1, <2>4 DEF Member, Intended
  <2> QED BY <2>3, <2>5, <2>6
<1> QED BY <1>2, <1>3

LEMMA BeginPassKeeps == ASSUME CollInv, NEW p \in Passes, BeginPass(p) PROVE CollInv'
<1>1. ~Working(p) BY DEF BeginPass, Working, Holding
<1>2. PICK creates \in BOOLEAN :
        /\ IF creates THEN UNCHANGED <<member, row>> ELSE RowFree(p) /\ Sweep
        /\ pass' = [pass EXCEPT ![p] =
            [Rest EXCEPT !.creates = creates, !.trusted = proof \in {"none", "verified"},
                !.at = IF Syncable(row') /\ (creates \/ \E i \in Items : member'[i] = "removing")
                       THEN "lock" ELSE IF creates THEN "idle" ELSE "pending"]]
  BY DEF BeginPass
<1> DEFINE at == IF Syncable(row') /\ (creates \/ \E i \in Items : member'[i] = "removing")
                 THEN "lock" ELSE IF creates THEN "idle" ELSE "pending"
           trusted == proof \in {"none", "verified"}
           e == [Rest EXCEPT !.creates = creates, !.trusted = trusted, !.at = at]
<1>3. at \in {"lock", "idle", "pending"} /\ trusted \in BOOLEAN OBVIOUS
<1>4. pass' = [pass EXCEPT ![p] = e] BY <1>2
<1> HIDE DEF at, trusted
<1>5. e \in PassRecords /\ e.at \notin Holding /\ e.draft = {}
  BY <1>3 DEF Rest, PassRecords, Holding, NoHandle
<1> HIDE DEF e
<1>6. /\ row' \in Rows /\ row'.handle = row.handle /\ (row' = row \/ RowFree(p))
      /\ row'.status \in {row.status, "revoke_pending"}
      /\ member' \in [Items -> {"none", "intended", "removing"}]
      /\ (\A i \in Items : Member(i) => Member(i)') /\ Intended' \subseteq Intended
  <2>1. CASE creates BY <1>2, <2>1 DEF CollInv, CollTypeOK, Member, Intended
  <2>2. CASE ~creates BY <1>2, <2>2, SweepLeaves
  <2> QED BY <2>1, <2>2
<1>7. UNCHANGED <<keepsMarkers, readable, proof, copies, made, queue, repair>>
  BY DEF BeginPass
<1> QED BY <1>1, <1>4, <1>5, <1>6, <1>7, Outside

LEMMA RevokingKeeps == ASSUME CollInv, NEW p \in Passes, Revoking(p) PROVE CollInv'
<1>1. /\ pass[p].at = "pending" /\ pass[p] \in PassRecords /\ row \in Rows
      /\ member \in [Items -> {"none", "intended", "removing"}]
      /\ UNCHANGED <<keepsMarkers, readable, row, member, proof, copies, made, queue, repair>>
  BY DEF Revoking, CollInv, CollTypeOK
<1>2. ~Working(p) /\ pass[p].draft = {}
  BY <1>1 DEF Working, Holding, CollInv, PassInv
<1>3. CASE pass' = [pass EXCEPT ![p] = Rest]
  <2>1. Rest \in PassRecords /\ Rest.at \notin Holding /\ Rest.draft = {} BY EndedRests
  <2>2. (\A i \in Items : Member(i) => Member(i)') /\ Intended' \subseteq Intended
    BY <1>1 DEF Member, Intended
  <2> QED BY <1>1, <1>2, <1>3, <2>1, <2>2, Outside
<1>4. CASE LockFree(p) /\ pass' = [pass EXCEPT ![p].at = "revoke", ![p].handle = row.handle]
  <2> DEFINE e == [pass[p] EXCEPT !.at = "revoke", !.handle = row.handle]
  <2>1. row.handle \in Nat BY <1>1 DEF Rows
  <2>2. e \in PassRecords /\ e.at = "revoke" /\ e.handle = row.handle /\ e.draft = {}
    BY <1>1, <1>2, <2>1 DEF PassRecords, Holding
  <2>3. pass' = [pass EXCEPT ![p] = e] BY <1>4 DEF CollInv, CollTypeOK
  <2> HIDE DEF e
  <2>4. pass'[p] = e BY <1>4, <2>2, <2>3, Others
  <2>5. DraftInv(p)' BY <2>2, <2>4 DEF DraftInv, Settling
  <2>6. HandleInv(p)'
    BY <1>1, <2>2, <2>4 DEF HandleInv, Settling, CollInv, RowFits, Fits
  <2>7. SyncInv(p)' BY <2>2, <2>4 DEF SyncInv
  <2>8. PassInv(p)' BY <2>2, <2>4, <2>5, <2>6, <2>7 DEF PassInv, Working, Holding
  <2> QED BY <1>1, <1>4, <2>2, <2>3, <2>8, OnlyGoesOn
<1> QED BY <1>3, <1>4 DEF Revoking

\* A transaction under the advisory lock finds no pass at work.
LEMMA NobodyWorks ==
    ASSUME CollInv, \A p \in Passes : pass[p].at \notin Holding, pass' = pass,
           row' \in Rows, row'.handle \in {row.handle, NoHandle},
           \/ row'.status \in {row.status, "revoke_pending"}
           \/ row.status # "revoke_pending" /\ row'.status \in Actionable,
           member' \in [Items -> {"none", "intended", "removing"}],
           \A i \in Items : Member(i) => Member(i)',
           queue' \in SUBSET SUBSET Items, repair' \in BOOLEAN,
           UNCHANGED <<keepsMarkers, readable, proof, copies, made>>
    PROVE  CollInv'
<1>1. \A p \in Passes : PassInv(p)' BY DEF CollInv, PassInv, Working
<1>2. RowFits' /\ Single' BY StillFits
<1>3. Alone' BY DEF CollInv, Alone, Working
<1>4. CollTypeOK' BY DEF CollInv, CollTypeOK
<1> QED BY <1>1, <1>2, <1>3, <1>4 DEF CollInv

LEMMA UnderLockKeeps ==
    ASSUME CollInv, QueueMembers \/ QueueRevoke \/ Repair \/ Touch PROVE CollInv'
<1>1. /\ row \in Rows /\ member \in [Items -> {"none", "intended", "removing"}]
      /\ queue \in SUBSET SUBSET Items /\ repair \in BOOLEAN
  BY DEF CollInv, CollTypeOK
<1>2. /\ \A p \in Passes : pass[p].at \notin Holding
      /\ pass' = pass /\ UNCHANGED <<keepsMarkers, readable, proof, copies, made>>
  BY DEF QueueMembers, QueueRevoke, Repair, Touch, UnderLock
<1>3. queue' \in SUBSET SUBSET Items /\ repair' \in BOOLEAN
  BY <1>1 DEF QueueMembers, QueueRevoke, Repair, Touch
<1>4. /\ row' \in Rows /\ row'.handle \in {row.handle, NoHandle}
      /\ \/ row'.status \in {row.status, "revoke_pending"}
         \/ row.status # "revoke_pending" /\ row'.status \in Actionable
  <2>1. CASE QueueMembers
    BY <1>1, <2>1 DEF QueueMembers, Rows, Statuses, Actionable, Unsettled
  <2>2. CASE QueueRevoke BY <1>1, <2>2 DEF QueueRevoke, Rows, Statuses
  <2>3. CASE Repair
    BY <1>1, <2>3 DEF Repair, Rows, Statuses, Actionable, Unsettled, NoHandle
  <2>4. CASE Touch BY <1>1, <2>4 DEF Touch, Rows
  <2> QED BY <2>1, <2>2, <2>3, <2>4
<1>5. /\ member' \in [Items -> {"none", "intended", "removing"}]
      /\ \A i \in Items : Member(i) => Member(i)'
  <2>1. CASE QueueMembers BY <1>1, <2>1 DEF QueueMembers, Member
  <2>2. CASE QueueRevoke BY <1>1, <2>2 DEF QueueRevoke, Member
  <2>3. CASE Repair \/ Touch BY <1>1, <2>3 DEF Repair, Touch, Member
  <2> QED BY <2>1, <2>2, <2>3
<1> QED BY <1>2, <1>3, <1>4, <1>5, NobodyWorks

\* The steps that touch neither a pass, nor the row, nor a member.
LEMMA BesideKeeps ==
    ASSUME CollInv,
           QueueUpsert \/ QueueAborts \/ Audit \/ DeletedOutside \/ \E i \in Items : Forget(i)
    PROVE  CollInv'
<1>1. UNCHANGED <<keepsMarkers, row, member, proof, made, pass>>
  BY DEF QueueUpsert, QueueAborts, Audit, DeletedOutside, Forget
<1>2. readable' \subseteq readable /\ repair' \in BOOLEAN
  BY DEF QueueUpsert, QueueAborts, Audit, DeletedOutside, Forget, CollInv, CollTypeOK
<1>3. /\ DOMAIN copies' \subseteq DOMAIN copies
      /\ \A h \in DOMAIN copies' : copies'[h] = copies[h]
      /\ copies' \in [DOMAIN copies' -> SUBSET Library]
  <2>1. copies \in [DOMAIN copies -> SUBSET Library] BY DEF CollInv, CollTypeOK
  <2>2. CASE UNCHANGED copies BY <2>1, <2>2
  <2>3. ASSUME NEW gone, copies' = [h \in DOMAIN copies \ {gone} |-> copies[h]] PROVE <1>3!:
    BY <2>1, <2>3
  <2> QED BY <2>2, <2>3 DEF QueueUpsert, QueueAborts, Audit, DeletedOutside, Forget
<1>4. queue' \in SUBSET SUBSET Items
  BY DEF QueueUpsert, QueueAborts, Audit, DeletedOutside, Forget, CollInv, CollTypeOK
<1>5. \A q \in Passes : pass[q].draft # {} => queue' = {}
  BY DEF QueueUpsert, QueueAborts, Audit, DeletedOutside, Forget, CollInv, PassInv, DraftInv
<1>6. Wanted' \subseteq Wanted BY <1>1, <1>2 DEF Wanted, Intended, MatchedBy
<1>7. \A i \in Items : Member(i) => Member(i)' BY <1>1 DEF Member
<1>8. ASSUME NEW q \in Passes PROVE PassInv(q)'
  BY <1>1, <1>3, <1>5, <1>6, <1>7, <1>8, Undisturbed
<1>9. RowFits' /\ Single' BY <1>1, <1>3, <1>7, StillFits
<1>10. Alone' BY <1>1 DEF CollInv, Alone, Working
<1>11. CollTypeOK' BY <1>1, <1>2, <1>3, <1>4 DEF CollInv, CollTypeOK
<1> QED BY <1>8, <1>9, <1>10, <1>11 DEF CollInv

LEMMA NextColl == CollInv /\ [CollectionNext]_collVars => CollInv'
<1> SUFFICES ASSUME CollInv, [CollectionNext]_collVars PROVE CollInv' OBVIOUS
<1>1. ASSUME NEW p \in Passes, BeginPass(p) \/ LockAndResolve(p) \/ Abort(p) PROVE CollInv'
  BY <1>1, BeginPassKeeps, LockAndResolveKeeps, AbortKeeps
<1>2. ASSUME NEW p \in Passes, Adopts(p) PROVE CollInv'
  BY <1>2, LeavesRow, AdoptCopyKeeps, NothingToDeleteKeeps DEF Adopts
<1>3. ASSUME NEW p \in Passes, Creates(p) PROVE CollInv'
  BY <1>3, MarkInFlightKeeps, CreateCopyKeeps, CreateFailsKeeps, ProveAndSettleKeeps DEF Creates
<1>4. ASSUME NEW p \in Passes, Syncs(p) PROVE CollInv'
  BY <1>4, QueueEmptiedKeeps, ListMembersKeeps, AddMembersKeeps, RemoveMembersKeeps,
     SyncFailsKeeps, FinishSyncKeeps DEF Syncs
<1>5. ASSUME NEW p \in Passes, Revokes(p) PROVE CollInv'
  BY <1>5, RevokingKeeps, RevokeFindsKeeps, RevocationEnds, RevokeFailsKeeps DEF Revokes
<1>6. CASE QueueUpsert \/ QueueMembers \/ QueueAborts \/ QueueRevoke \/ Audit \/ Repair \/ Touch
           \/ DeletedOutside \/ \E i \in Items : Forget(i)
  BY <1>6, UnderLockKeeps, BesideKeeps
<1>7. CASE UNCHANGED collVars
  <2>1. UNCHANGED <<keepsMarkers, readable, row, member, proof, copies, made, pass, queue,
                    repair>>
    BY <1>7 DEF collVars
  <2>2. ASSUME NEW q \in Passes PROVE PassInv(q)'
    <3>1. Wanted' \subseteq Wanted BY <2>1 DEF Wanted, Intended
    <3>2. pass[q].draft # {} => queue' = {} BY <2>1 DEF CollInv, PassInv, DraftInv
    <3> QED BY <2>1, <2>2, <3>1, <3>2, Undisturbed DEF Member
  <2>3. RowFits' /\ Single' BY <2>1, StillFits DEF Member
  <2>4. Alone' /\ CollTypeOK' BY <2>1 DEF CollInv, Alone, Working, CollTypeOK
  <2> QED BY <2>2, <2>3, <2>4 DEF CollInv
<1> QED BY <1>1, <1>2, <1>3, <1>4, <1>5, <1>6, <1>7 DEF CollectionNext

-----------------------------------------------------------------------------
\* Whatever passes, queued plans, audits, deletions and failing calls there are.
THEOREM CollectionInductive == CollectionSpec => []CollInv
<1> QED BY InitColl, NextColl, PTL DEF CollectionSpec

\* A token never has two copies on a server that keeps markers, for any passes, any
\* number of attempts and any number of replies lost.
THEOREM OneCopySound == CollectionSpec => []OneCopy
<1>1. CollInv => OneCopy
  <2> SUFFICES ASSUME CollInv, keepsMarkers PROVE Cardinality(DOMAIN copies) <= 1
    BY DEF OneCopy
  <2>1. CASE DOMAIN copies = {} BY <2>1, FS_EmptySet
  <2>2. ASSUME NEW h \in DOMAIN copies PROVE Cardinality(DOMAIN copies) <= 1
    <3>1. DOMAIN copies = {h} BY <2>2 DEF CollInv, Single
    <3> QED BY <3>1, FS_Singleton
  <2> QED BY <2>1, <2>2
<1> QED BY <1>1, CollectionInductive, PTL

\* What was put into a copy for a record stays tracked when the record is forgotten, for
\* any records and library items.
THEOREM ForgottenSound == CollectionSpec => []ForgottenIsTracked
<1>1. CollInv => ForgottenIsTracked
  <2> SUFFICES ASSUME CollInv, keepsMarkers, NEW h \in DOMAIN copies, NEW x \in copies[h],
                      row.status # "revoke_pending"
               PROVE  /\ row.status \in Actionable
                      /\ \E i \in Items : member[i] # "none" /\ x \in LibraryOf[i]
    BY DEF ForgottenIsTracked
  <2>1. x \in MatchedBy({i \in Items : Member(i)}) BY DEF CollInv, RowFits, Fits
  <2>2. \E i \in Items : Member(i) /\ x \in LibraryOf[i] BY <2>1 DEF MatchedBy
  <2> QED BY <2>2 DEF CollInv, RowFits, Fits, Member
<1> QED BY <1>1, CollectionInductive, PTL

\* No step takes out of a live copy what a readable, intended member matches.
LEMMA StepRemovesUnwanted ==
    ASSUME CollInv, [CollectionNext]_collVars, NEW h \in DOMAIN copies \cap DOMAIN copies'
    PROVE  (copies[h] \ copies'[h]) \cap Wanted = {}
<1>1. CASE UNCHANGED copies BY <1>1
<1>2. ASSUME NEW p \in Passes, NewCopy(p) PROVE copies'[h] = copies[h]
  BY <1>2 DEF NewCopy
<1>3. ASSUME NEW p \in Passes, Adding(p) PROVE copies[h] \subseteq copies'[h]
  BY <1>3, AddingLeaves
<1>4. ASSUME NEW p \in Passes, pass[p].at = "remove", Taking(p)
      PROVE  (copies[h] \ copies'[h]) \cap Wanted = {}
  <2>1. pass[p].takes \cap Wanted = {}
    BY <1>4 DEF CollInv, PassInv, SyncInv, Working, Holding
  <2> QED BY <1>4, <2>1, TakingLeaves
<1>5. ASSUME NEW gone, copies' = [g \in DOMAIN copies \ {gone} |-> copies[g]]
      PROVE  copies'[h] = copies[h]
  BY <1>5
<1>6. ASSUME NEW p \in Passes, BeginPass(p) \/ LockAndResolve(p) \/ Abort(p) \/ Adopts(p)
      PROVE  UNCHANGED copies
  BY <1>6 DEF BeginPass, LockAndResolve, Abort, Adopts, LookupFails, AdoptCopy,
     NothingToDelete, LeaveUnmade
<1>7. ASSUME NEW p \in Passes, Creates(p) PROVE UNCHANGED copies \/ NewCopy(p)
  BY <1>7 DEF Creates, MarkInFlight, CreateCopy, CreateFails, ProveAndSettle
<1>8. ASSUME NEW p \in Passes, Syncs(p)
      PROVE  UNCHANGED copies \/ Adding(p) \/ (pass[p].at = "remove" /\ Taking(p))
  BY <1>8 DEF Syncs, QueueEmptied, ListMembers, AddMembers, RemoveMembers, SyncFails,
     FinishSync
<1>9. ASSUME NEW p \in Passes, Revokes(p)
      PROVE  \/ UNCHANGED copies
             \/ copies' = [g \in DOMAIN copies \ {pass[p].handle} |-> copies[g]]
  BY <1>9 DEF Revokes, Revoking, RevokeFinds, RevokeFindsNothing, DeleteCopy, RevokeFails
<1>10. ASSUME QueueUpsert \/ QueueMembers \/ QueueAborts \/ QueueRevoke \/ Audit \/ Repair
              \/ Touch \/ \E i \in Items : Forget(i)
       PROVE  UNCHANGED copies
  BY <1>10 DEF QueueUpsert, QueueMembers, QueueAborts, QueueRevoke, Audit, Repair, Touch, Forget
<1>11. CASE DeletedOutside BY <1>5, <1>11 DEF DeletedOutside
<1>12. CASE UNCHANGED collVars BY <1>1, <1>12 DEF collVars
<1>13. ASSUME NEW p \in Passes, Creates(p) \/ Syncs(p) \/ Revokes(p)
       PROVE  (copies[h] \ copies'[h]) \cap Wanted = {}
  BY <1>1, <1>2, <1>3, <1>4, <1>5, <1>7, <1>8, <1>9, <1>13
<1>14. ASSUME NEW p \in Passes, BeginPass(p) \/ LockAndResolve(p) \/ Abort(p) \/ Adopts(p)
       PROVE  (copies[h] \ copies'[h]) \cap Wanted = {}
  BY <1>1, <1>6, <1>14
<1> QED BY <1>1, <1>10, <1>11, <1>12, <1>13, <1>14 DEF CollectionNext

\* A removal is never computed from partial knowledge, for any plans, listings and passes.
THEOREM RemovalsSound == CollectionSpec => RemovesOnlyUnwanted
<1>1. CollInv /\ [CollectionNext]_collVars =>
         [\A h \in DOMAIN copies \cap DOMAIN copies' :
            (copies[h] \ copies'[h]) \cap MatchedBy(Intended \cap readable) = {}]_collVars
  BY StepRemovesUnwanted DEF Wanted
<1> QED BY <1>1, CollectionInductive, PTL DEF CollectionSpec, RemovesOnlyUnwanted
=============================================================================
