--------------------------- MODULE FileCustodian ---------------------------
(***************************************************************************)
(* src/core/crypto/file-custodian.ts: the custodian kept in files.         *)
(*                                                                         *)
(* A key is one file, a destroyed key a tombstone, an operation a record,  *)
(* and a destroy that has begun an entry of the journal.  Every write is   *)
(* atomic and durable by itself (temp, fsync, rename, fsync of the         *)
(* directory), but an operation is several writes, and the process can die *)
(* or a write can fail between any two of them.  Writers of one state      *)
(* directory exclude each other with a lock directory, which a process     *)
(* that dies leaves behind; status() and get() take no lock.               *)
(***************************************************************************)
EXTENDS CatalogConstants

CONSTANTS
    Writers,    \* processes that may open the state directory
    MaxCrashes, \* bound: how often a process or the host dies
    MaxErrors   \* bound: how often a write fails

ASSUME FileBounds == MaxCrashes \in Nat /\ MaxErrors \in Nat

VARIABLES
    keyFile,    \* [Keys -> {"none", "provisional", "active"}]: keys/
    zeroed,     \* key files whose wrapped key has been overwritten with zeros
    tombs,      \* tombstones/
    provOps,    \* ops/ of kind provision, as the key each names
    shredRecs,  \* ops/ of kind destroy, as pairs <<operation, key>>
    journal,    \* journal/: destroys that have begun
    debris,     \* a half-written file left in journal/
    lock,       \* the lock directory exists
    running,    \* [Writers -> BOOLEAN]: the constructor has returned
    task,       \* the operation each writer is in
    owner,      \* history: the item each key was minted for
    mishaps     \* crashes and errors left

disk == <<keyFile, zeroed, tombs, provOps, shredRecs, journal>>
fileVars == <<disk, debris, lock, running, task, owner, mishaps>>

\* The write an operation has reached (pc), the operation, what is left of a recovery
\* (todo), and whether the key it read was already wiped (dead).
NoTask == [pc |-> "idle", kind |-> "none", key |-> NoKey, op |-> 0, todo |-> {},
           dead |-> FALSE]

FileInit ==
    /\ keyFile = [k \in Keys |-> "none"]
    /\ zeroed = {} /\ tombs = {} /\ provOps = {} /\ shredRecs = {} /\ journal = {}
    /\ debris = FALSE /\ lock = FALSE
    /\ running = [w \in Writers |-> FALSE]
    /\ task = [w \in Writers |-> NoTask]
    /\ owner = [k \in Keys |-> NoItem]
    /\ mishaps = [crashes |-> MaxCrashes, errors |-> MaxErrors]

-----------------------------------------------------------------------------

In(w, pc) == task[w].pc = pc
Step(w, pc) == task' = [task EXCEPT ![w].pc = pc]

\* Slip: a lock nobody looks at.
LockIgnored == TRUE

LockFree == lock = FALSE

\* withWriteLock: refused while anybody, dead or alive, holds the lock.
Take(w, t) ==
    /\ running[w] /\ In(w, "idle")
    /\ LockFree
    /\ lock' = TRUE
    /\ task' = [task EXCEPT ![w] = t]
    /\ UNCHANGED <<disk, debris, running, mishaps>>

\* The operation returns, and the lock is released.
Return(w) == lock' = FALSE /\ task' = [task EXCEPT ![w] = NoTask]

KeyExists(k) == keyFile[k] # "none"

\* The key id is random, and free in keys/ and tombstones/.
StartProvision(w, i, k) ==
    /\ owner[k] = NoItem
    /\ ~KeyExists(k) /\ k \notin tombs
    /\ Take(w, [NoTask EXCEPT !.pc = "mint", !.kind = "provision", !.key = k])
    /\ owner' = [owner EXCEPT ![k] = i]

\* Slip: a commit that trusts the operation record alone.
StartCommitOfAny(w, k) ==
    /\ k \in provOps
    /\ Take(w, [NoTask EXCEPT !.pc = "promote", !.kind = "commit", !.key = k,
                              !.dead = k \in zeroed])
    /\ UNCHANGED owner

\* The key file is read here and written at the next step.
StartCommit(w, k) ==
    /\ k \in provOps
    /\ k \notin tombs
    /\ keyFile[k] = "provisional"
    /\ Take(w, [NoTask EXCEPT !.pc = "promote", !.kind = "commit", !.key = k,
                              !.dead = k \in zeroed])
    /\ UNCHANGED owner

\* The operation has no record yet (a replay of a recorded one only returns
\* the receipt of the tombstone, and another key under it is refused).
FreshOp(op, k) == \A b \in shredRecs : b[1] # op

\* A destroyed key only needs the record; a key nobody knows is refused.
StartDestroy(w, op, k) ==
    /\ FreshOp(op, k)
    /\ k \in tombs \/ KeyExists(k)
    /\ Take(w, [NoTask EXCEPT !.pc = IF k \in tombs THEN "op" ELSE "journal",
                              !.kind = "destroy", !.key = k, !.op = op])
    /\ UNCHANGED owner

WriteKeyFile(w) == LET k == task[w].key IN
    /\ In(w, "mint")
    /\ keyFile' = [keyFile EXCEPT ![k] = "provisional"]
    /\ Step(w, "record")
    /\ UNCHANGED <<zeroed, tombs, provOps, shredRecs, journal, debris, lock, running,
                   owner, mishaps>>

WriteProvisionRecord(w) ==
    /\ In(w, "record")
    /\ provOps' = provOps \cup {task[w].key}
    /\ Return(w)
    /\ UNCHANGED <<keyFile, zeroed, tombs, shredRecs, journal, debris, running, owner, mishaps>>

WriteActive(w) == LET k == task[w].key IN
    /\ In(w, "promote")
    /\ keyFile' = [keyFile EXCEPT ![k] = "active"]
    /\ zeroed' = IF task[w].dead THEN zeroed \cup {k} ELSE zeroed \ {k}
    /\ Return(w)
    /\ UNCHANGED <<tombs, provOps, shredRecs, journal, debris, running, owner, mishaps>>

WriteJournal(w) ==
    /\ In(w, "journal")
    /\ journal' = journal \cup {task[w].key}
    /\ Step(w, "wipe")
    /\ UNCHANGED <<keyFile, zeroed, tombs, provOps, shredRecs, debris, lock, running,
                   owner, mishaps>>

-----------------------------------------------------------------------------
(* finishDestroy, for a destroy in progress and for one being recovered.    *)

Wipe(w) == LET k == task[w].key IN
    /\ In(w, "wipe")
    /\ IF KeyExists(k) THEN zeroed' = zeroed \cup {k} /\ Step(w, "unlink")
                       ELSE UNCHANGED zeroed /\ Step(w, "tomb")
    /\ UNCHANGED <<keyFile, tombs, provOps, shredRecs, journal, debris, lock, running,
                   owner, mishaps>>

Unlink(w) == LET k == task[w].key IN
    /\ In(w, "unlink")
    /\ keyFile' = [keyFile EXCEPT ![k] = "none"]
    /\ zeroed' = zeroed \ {k}
    /\ Step(w, "tomb")
    /\ UNCHANGED <<tombs, provOps, shredRecs, journal, debris, lock, running, owner, mishaps>>

WriteTombstone(w) ==
    /\ In(w, "tomb")
    /\ tombs' = tombs \cup {task[w].key}
    /\ Step(w, "clear")
    /\ UNCHANGED <<keyFile, zeroed, provOps, shredRecs, journal, debris, lock, running,
                   owner, mishaps>>

ClearJournal(w) ==
    /\ In(w, "clear")
    /\ journal' = journal \ {task[w].key}
    /\ Step(w, IF task[w].kind = "recover" THEN "next" ELSE "op")
    /\ UNCHANGED <<keyFile, zeroed, tombs, provOps, shredRecs, debris, lock, running,
                   owner, mishaps>>

WriteDestroyRecord(w) ==
    /\ In(w, "op")
    /\ shredRecs' = shredRecs \cup {<<task[w].op, task[w].key>>}
    /\ Return(w)
    /\ UNCHANGED <<keyFile, zeroed, tombs, provOps, journal, debris, running, owner, mishaps>>

-----------------------------------------------------------------------------
(* Construction, and what can go wrong.                                     *)

\* Slip: a constructor that does not read the journal.
BootWithoutRecovery(w) ==
    /\ ~running[w] /\ In(w, "idle")
    /\ ~debris
    /\ running' = [running EXCEPT ![w] = TRUE]
    /\ UNCHANGED <<disk, debris, lock, task, owner, mishaps>>

\* The constructor: a listing that cannot be stated is refused, an empty
\* journal needs no lock, anything else is carried out under the lock.
Boot(w) ==
    /\ ~running[w] /\ In(w, "idle")
    /\ ~debris
    /\ IF journal = {}
       THEN running' = [running EXCEPT ![w] = TRUE] /\ UNCHANGED <<lock, task>>
       ELSE /\ LockFree
            /\ lock' = TRUE
            /\ task' = [task EXCEPT ![w] = [NoTask EXCEPT !.pc = "next", !.kind = "recover",
                                                          !.todo = journal]]
            /\ UNCHANGED running
    /\ UNCHANGED <<disk, debris, owner, mishaps>>

\* recover: the next entry of the snapshot, or done and the constructor returns.
RecoverNext(w) == LET t == task[w] IN
    /\ In(w, "next")
    /\ \/ \E k \in t.todo :
             /\ task' = [task EXCEPT ![w] = [t EXCEPT !.pc = "wipe", !.key = k,
                                                      !.todo = @ \ {k}]]
             /\ UNCHANGED <<lock, running>>
       \/ t.todo = {} /\ Return(w) /\ running' = [running EXCEPT ![w] = TRUE]
    /\ UNCHANGED <<disk, debris, owner, mishaps>>

Mishap(what) ==
    /\ mishaps[what] > 0
    /\ mishaps' = [mishaps EXCEPT ![what] = @ - 1]

\* A write fails: the operation throws, its lock is released, and what it had
\* already written stays.  A constructor that throws leaves no custodian.
WriteFails(w) ==
    /\ ~In(w, "idle") /\ ~In(w, "next")
    /\ Mishap("errors")
    /\ Return(w)
    /\ UNCHANGED <<disk, debris, running, owner>>

\* The process is killed: the lock directory stays, and so does a half-written
\* file if it was writing one into the journal.
Kill(w) ==
    /\ running[w] \/ ~In(w, "idle")
    /\ Mishap("crashes")
    /\ running' = [running EXCEPT ![w] = FALSE]
    /\ task' = [task EXCEPT ![w] = NoTask]
    /\ debris' \in {debris, debris \/ In(w, "journal")}
    /\ UNCHANGED <<disk, lock, owner>>

\* The host loses power.  The lock directory and the removal of a journal
\* entry were never flushed, so either may be as it was before.
PowerLoss ==
    /\ Mishap("crashes")
    /\ running' = [w \in Writers |-> FALSE]
    /\ task' = [w \in Writers |-> NoTask]
    /\ debris' \in {debris, debris \/ \E w \in Writers : In(w, "journal")}
    /\ lock' \in {lock, FALSE}
    /\ \E back \in SUBSET tombs : journal' = journal \cup back
    /\ UNCHANGED <<keyFile, zeroed, tombs, provOps, shredRecs, owner>>

\* An operator who is sure that nothing is running removes what was left.
OperatorClears ==
    /\ lock \/ debris
    /\ \A w \in Writers : In(w, "idle")
    /\ lock' = FALSE /\ debris' = FALSE
    /\ UNCHANGED <<disk, running, task, owner, mishaps>>

-----------------------------------------------------------------------------

Starts(w) ==
    \/ \E i \in Items, k \in Keys : StartProvision(w, i, k)
    \/ \E k \in Keys : StartCommit(w, k)
    \/ \E op \in ShredOps, k \in Keys : StartDestroy(w, op, k)

Works(w) ==
    \/ WriteKeyFile(w) \/ WriteProvisionRecord(w) \/ WriteActive(w)
    \/ WriteJournal(w) \/ Wipe(w) \/ Unlink(w) \/ WriteTombstone(w)
    \/ ClearJournal(w) \/ WriteDestroyRecord(w)
    \/ Boot(w) \/ RecoverNext(w)

FileNext ==
    \/ \E w \in Writers : Starts(w) \/ Works(w) \/ WriteFails(w) \/ Kill(w)
    \/ PowerLoss
    \/ OperatorClears

FileSpec == FileInit /\ [][FileNext]_fileVars

-----------------------------------------------------------------------------
(* What a caller is told.                                                   *)

\* status(): the tombstone, the state the key file names (a wiped file names the one it
\* had), or no such key.
Status(k) == IF k \in tombs THEN "destroyed"
             ELSE IF KeyExists(k) THEN keyFile[k] ELSE "not_found"

(* Properties.                                                              *)

\* A destroyed key stays destroyed: there is no key file beside its tombstone,
\* whatever was being written to that file when the destroy began, a recorded
\* destroy always finds the tombstone (a replay throws otherwise), and one
\* operation id never stands for two keys.
DestroyedForGood ==
    /\ \A k \in tombs : ~KeyExists(k)
    /\ \A b \in shredRecs :
        /\ b[2] \in tombs
        /\ \A c \in shredRecs : c[1] = b[1] => c = b

\* A destroy that was journalled when every process went down is carried out by
\* the next one, through crashes and failing writes of the recovery itself.
JournalCarriedOut ==
    \A k \in Keys : (k \in journal /\ \A w \in Writers : ~running[w]) ~> k \in tombs

\* "'not_found' = never existed", says the design document: once the operations on
\* it are over, a custodian that is up does not say so of a key whose destroy has begun.
NotFoundMeansNeverExisted ==
    ~lock /\ (\E w \in Writers : running[w]) =>
        \A k \in journal : Status(k) # "not_found"

(* The life cycle, and what stands for its variables: the answers of        *)
(* status(), the item of every key that has left a trace in the files, the  *)
(* recorded destroys, and the key files that are not zeroed.                *)

Left == {k \in Keys : KeyExists(k) \/ k \in tombs \cup journal}

Lifecycle == INSTANCE KeyLifecycle
    WITH keyState <- [k \in Keys |-> Status(k)],
         keyItem <- [k \in Keys |-> IF k \in Left THEN owner[k] ELSE NoItem],
         destroyOps <- shredRecs,
         intact <- {k \in Keys : KeyExists(k) /\ k \notin zeroed}

\* Whatever crashes, fails or is interrupted, and wherever a destroy stops for good, a
\* caller sees a key go through its life cycle in one direction.
KeepsLifecycle == Lifecycle!LifecycleSpec
=============================================================================
