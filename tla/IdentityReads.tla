--------------------------- MODULE IdentityReads ---------------------------
(***************************************************************************)
(* The three reads of src/core/catalog/authority.ts, beside everything     *)
(* CatalogAuthority does: readIdentity, withPublishableIdentity and        *)
(* withProviderRef.  A read is a sequence of database queries and          *)
(* custodian calls with no lock and no transaction around them; what it    *)
(* learnt at one step may be stale at the next, and it ends with nothing   *)
(* at the first check that fails.                                          *)
(***************************************************************************)
EXTENDS CatalogAuthority, Sequences

VARIABLE rd     \* the read in progress

readVars == <<vars, rd>>

Apis == {"identity", "publishable", "ref"}

\* Slip: the scoped reads trust the key and the state and skip the row.
PathWithoutRowRecheck == [
  identity    |-> <<"status", "get", "refs", "recheckKey", "recheckState">>,
  publishable |-> <<"status", "row", "get", "refs", "recheckKey", "recheckState">>,
  ref         |-> <<"status", "row", "get", "recheckKey", "recheckState">>]

\* The steps of each read after its first query, in order.
Path == [
  identity    |-> <<"status", "get", "refs", "recheckKey", "recheckState">>,
  publishable |-> <<"status", "row", "get", "refs", "recheckKey", "recheckState",
                    "recheckRow">>,
  ref         |-> <<"status", "row", "get", "recheckKey", "recheckState", "recheckRow">>]

\* todo: steps left.  key, ct, rev: the lineage key, the key of the ciphertext
\* and its revision, as read.  refRev: the revision of the refs (0: none).
\* erased is for a property: whether the key was destroyed when the read began.
NoRead == [api |-> "none", todo |-> << >>, item |-> NoItem, key |-> NoKey, ct |-> NoKey,
           rev |-> 0, refRev |-> 0, erased |-> FALSE]

ReadsInit == Init /\ rd = NoRead

-----------------------------------------------------------------------------

\* Slip: a custodian that gives out any key it has a record of.
UsableIfKnown(k) == keyState[k] # "not_found"

\* A key the custodian reports active, and gives out.
Usable(k) == keyState[k] = "active"

\* Present, not forgotten, with ciphertext.
Readable(i) == items[i].phase = "present" /\ items[i].ct # NoKey

\* The first query: the lineage, and for readIdentity the item row with it.
BeginRead(api, i) ==
    /\ rd.api = "none"
    /\ control[i].state = "active"
    /\ api = "identity" => Readable(i)
    /\ rd' = [NoRead EXCEPT
                !.api = api, !.todo = Path[api], !.item = i, !.key = control[i].key,
                !.ct = IF api = "identity" THEN items[i].ct ELSE NoKey,
                !.rev = IF api = "identity" THEN items[i].rev ELSE 0,
                !.erased = keyState[control[i].key] = "destroyed"]

Now(step) == rd.api # "none" /\ rd.todo # << >> /\ Head(rd.todo) = step
Advance(r) == rd' = [r EXCEPT !.todo = Tail(@)]

\* The read ends, and the key and plaintext it holds are wiped.
Deny == rd' = NoRead

CheckStatus ==
    /\ Now("status")
    /\ IF Usable(rd.key) THEN Advance(rd) ELSE Deny

\* The item row, or the one ref row, of the scoped reads.
ReadRow ==
    /\ Now("row")
    /\ IF Readable(rd.item)
       THEN Advance([rd EXCEPT !.ct = items[rd.item].ct, !.rev = items[rd.item].rev])
       ELSE Deny

\* Fetch the key and decrypt what was read; decryption authenticates the key.
GetKey ==
    /\ Now("get")
    /\ IF Usable(rd.key) /\ rd.ct = rd.key THEN Advance(rd) ELSE Deny

\* The provider refs, read and decrypted separately.  A caller of
\* withPublishableIdentity that did not ask for them gets none.
ReadRefs == LET i == rd.item IN
    /\ Now("refs")
    /\ \/ items[i].ct = rd.key /\ Advance([rd EXCEPT !.refRev = items[i].rev])
       \/ items[i].ct = NoKey /\ Advance(rd)
       \/ items[i].ct \notin {NoKey, rd.key} /\ Deny
       \/ rd.api = "publishable" /\ Advance(rd)

RecheckKey ==
    /\ Now("recheckKey")
    /\ IF Usable(rd.key) THEN Advance(rd) ELSE Deny

RecheckState ==
    /\ Now("recheckState")
    /\ IF control[rd.item].state = "active" THEN Advance(rd) ELSE Deny

\* Still present, not forgotten, and the very ciphertext that was decrypted.
RecheckRow ==
    /\ Now("recheckRow")
    /\ IF Readable(rd.item) /\ items[rd.item].rev = rd.rev THEN Advance(rd) ELSE Deny

\* The plaintext has been handed over; the read is over.
Finish == rd.api # "none" /\ rd.todo = << >> /\ Deny

ReaderStep ==
    \/ \E api \in Apis, i \in Items : BeginRead(api, i)
    \/ CheckStatus \/ ReadRow \/ GetKey \/ ReadRefs
    \/ RecheckKey \/ RecheckState \/ RecheckRow
    \/ Finish

\* A restore of the database stops the application, its reads included.
ReadsNext ==
    \/ ReaderStep /\ UNCHANGED vars
    \/ Next /\ rd' = IF budget'.rollbacks < budget.rollbacks THEN NoRead ELSE rd

ReadsSpec == ReadsInit /\ [][ReadsNext]_readVars

-----------------------------------------------------------------------------
(* Properties.                                                              *)

\* The step that hands over plaintext.
Discloses == rd.api # "none" /\ rd.todo # << >> /\ rd'.todo = << >> /\ rd'.api = rd.api

\* What leaves through the publisher and adapter boundaries is current when it
\* leaves: of a lineage that is live in the database, of the revision the row
\* holds at that moment, and of one revision only, whatever updates, forgets
\* and restores ran since the read began ("fails closed on any change").
BoundaryDisclosesCurrent ==
    [][Discloses /\ rd.api # "identity" =>
         /\ control[rd.item].state = "active" /\ control[rd.item].key = rd.key
         /\ items[rd.item].rev = rd.rev
         /\ rd.refRev \in {0, rd.rev}]_readVars

\* A lineage whose key was destroyed is never disclosed again by any read, in
\* particular not when an old backup of the database says it is active.
ErasedNeverDisclosed == [][Discloses => ~rd.erased]_readVars

=============================================================================
