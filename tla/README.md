# Streaming catalog authority: TLA+ models and proofs

The streaming catalog authority keeps an encrypted catalog of media items in
PostgreSQL, the keys of that catalog in a separate key custodian, copies of some
items in external media servers, and a read-only file system (`projectiond`, in
Go) that serves the files of the catalog from local and remote storage.  Its
central promise is *erasure*: when an item is forgotten, the key that encrypted
it is destroyed, and nothing brings the plaintext back.

## 1. The system

| Part | State it keeps | Operations |
|---|---|---|
| Catalog authority (`src/src/core/catalog/authority.ts`) | none of its own; runs as many concurrent callers | `addItem`, `restore`, `hydrateLegacy`, `updateIdentity`, `forget`, `reconcile`, three kinds of read, rebuild and prune |
| Catalog store (`src/src/db/migrations.sql`, `cat_*`) | event log, `items`, `provider_refs`, `item_key_control`, `aborted_operations` | `SECURITY DEFINER` functions, each one transaction under the item's advisory lock |
| Key custodian (`src/src/core/crypto/custodian.ts`, `file-custodian.ts`) | wrapped keys, destroy journal, tombstones, operation records | `provision`, `commitProvision`, `destroy`, `get`, `status`, `listStaleProvisioning`; recovery of the journal at construction |
| KEK ring and rotation (`src/src/core/crypto/kek-ring.ts`, `src/src/ops/kek-rotation.ts`) | ring of key-encryption-key generations, rotation journal | bootstrap, stage, rewrap, promote, retire |
| Publish outbox (`src/src/core/publish/outbox.ts`, `ledger.ts`, `reconcile.ts`) | `publish_ledger` | `publish`, `reconcile`, `runRevocation` |
| Collection control plane (`src/src/core/publish/collection-outbox.ts`, `src/src/ops/collection-*.ts`) | collection intents and members | plan, confirm, execute, reconcile, drift |
| Projection publisher (`src/src/core/projection/*.ts`) | source registry, generations, artifact directory with a pointer | prepare, publish, verify, retain |
| `projectiond` (`src/projectiond/`) | current namespace snapshot, leases of resolved sources, block cache, open handles | admit a generation, resolve, read, evict, watch |
| Backup, restore, maintenance (`src/src/ops/complete-*.ts`, `safety-set-lifecycle.ts`, `backup-retention.ts`, `maintenance-safety.ts`) | backup sets, restore journal, maintenance lock | journalled multi-step procedures that survive a crash |
| Catalog import (`src/src/ops/catalog-import*.ts`) | inbox, import history | add and update items in bulk |
| Operator UI, evidence and launch packets, release tooling | reports | presentation; reads the other parts |

How they interact:

- The authority calls the database and the custodian alternately.  *Nothing spans
  the two*: no distributed transaction, no common lock.  The order of its calls
  and the database functions' checks are the whole protocol.
- The reconciler is the same class run on a schedule.  It works from lists it
  read earlier, so it races with every caller.
- The outbox discloses an item through the authority to an external server, and
  the ledger row is the only thing that survives a forget and can drive the
  removal of the external copy.
- The publisher writes an artifact directory that `projectiond` watches; a file
  name and a digest are all they share.
- A restore of the database alone (the custodian's keystore is never part of a
  backup) brings back rows whose keys are gone; reads fail closed and the
  reconciler heals the rows.

What is hard: interleaving of callers with the reconciler, replies lost while the
transaction lives on, a process that dies between two steps, rows listed and used
later, an external server that may or may not have done what was asked, and the
database and the custodian being rolled back separately.

What makes each part correct:

| Part | Correct when |
|---|---|
| Authority, store, custodian | a shred is recorded complete only for a destroyed key; the key of a live lineage is never destroyed; every provisional key is resolved; every pending shred completes; a fenced operation never commits; the projection tells the same story as the key rows |
| Reads | nothing is disclosed of an erased lineage; what crosses the publisher and adapter boundaries is current when it leaves |
| File custodian | killed or failing between any two writes, what a caller is told of a key never goes back in its life cycle; a tombstone is final; a destroy that was journalled is carried out |
| KEK rotation | at every crash point each key can be unwrapped under some generation of the ring that is still there, and a retired generation wraps nothing |
| Outbox, collections | an external copy exists only with a ledger row that can find and remove it; after a forget it is removed or reported; nothing is created twice; membership is removed only on complete knowledge |
| Publisher, daemon | the directory never shows what is not committed; every generation is admissible after the one below it; an entry disappears only if it was retired; a daemon is not outrun |
| `projectiond` | an open handle keeps its generation; caches stay within their budgets and never serve another version's bytes; one refresh serves all who wait for a lease |
| Backup, restore, maintenance | an interrupted restore resumes or is undone; retention never deletes the last usable set; two maintenance operations never overlap |

## 2. The modules, and the order of the plan

The order is that of the promises: erasure first, then what is shown to the
outside, then the operations around it.

| Step | Modules | State |
|---|---|---|
| 1 | `CatalogConstants`, `KeyCustodian`, `LineageStore`; `CatalogAuthority` composes the two; `ErasurePromise` is what it refines | done |
| 2 | `CatalogAuthorityProofs`: `IInv` and the properties it was made for, the refinement of `ErasurePromise`, and the reads of step 3 | done |
| 3 | `IdentityReads`, extending `CatalogAuthority` | done |
| 4 | `KeyLifecycle`, extending `KeyCustodian`; `FileCustodian`, refining it | done; the rewrap of the keystore is in step 10. Left: the authority over `KeyLifecycle` |
| 5 | `ProjectionPublication`: registry, publisher, manifest directory, polling daemon | done |
| 6 | `PublishOutbox`: ledger, media server, publish, reconcile, revocation, forgets | done |
| 7 | `CollectionOutbox`: one collection, its passes, queue, audit and repair | done |
| 8 | `ProjectedNamespace`, `BlockReads`, `ProbeCache`, `SourceAccess` of `projectiond` | done |
| 9 | `CompleteRestore`: run, resume and abandon of a journalled restore | done |
| 10 | `KekRotation`: ring, rotation journal, keystore, sidecar, backups | done |
| 11 | `SafetySets`, `Retention`, the other holders of the maintenance lock | next |
| 12 | `EventFold`: the fold of the event log as a function over sequences, against the incremental projection | |

The proofs of a module `M` of steps 4 to 10 are in `MProofs` (`FileCustodianProofs`,
`ProjectionPublicationProofs`, `PublishOutboxProofs`, `CollectionOutboxProofs`,
`CompleteRestoreProofs`, `KekRotationProofs`); those of the four modules of step 8 are
together in `DataPlaneProofs`.  Every safety property that a passing run checks is
stated by a theorem.  What is left to prove belongs to the modules to come.

## 3. How the modules follow the code

`PROJECT.json` names the source lines of every definition.  In outline:

**`KeyCustodian`**: the contract of `core/crypto/custodian.ts`, as its in-memory
implementation keeps it and as the authority is modelled over it.  `keyState` is
the answer of `status()`; `provision`, `commitProvision` and `destroy` are atomic.
One operation id is bound to one key, as the implementations check.

**`LineageStore`**: the `SECURITY DEFINER` functions of `migrations.sql` on
`item_key_control`, `items` and `aborted_operations`, one action each: the
functions take the item's advisory lock, so a transaction is one step.  An item's
ciphertext is abstracted to the key it is encrypted under and a revision number.

**`CatalogAuthority`**: every call is a sequence of those steps, with `proc[p]`
the call a process is in and what it has learnt so far.  `Fail` ends a call
between two steps (a crash, a timeout of the custodian, an exception);
`LoseReply` lets the client give up on a transaction that the server may still
run (`LateWrite`) or drop (`LateDrop`); `Rollback` restores the database, and not
the custodian, from a backup taken earlier.  `sweep` holds the rows the
reconciler has listed and not looked at yet: it acts on old lists.

**`ErasurePromise`**: the abstract specification, without processes: a lineage
starts under a key that never served another, is forgotten, and is declared
erased only once its key is gone; a live lineage's key is never taken away.
`KeepsPromise` is the refinement (`INSTANCE ... WITH`).  It is claimed of every
step for as long as no reply has been lost and no old backup restored
(`Undisturbed`): those two break it (section 6, items 6 and 7).

**`IdentityReads`**: the three reads as the sequence of queries and custodian
calls they make (`Path`), each a step of its own, beside everything above.

**`FileCustodian`**: `file-custodian.ts` write by write; each write is atomic
and durable (temporary file, fsync, rename, fsync of the directory) except the
removal of a journal entry and the lock directory, which a power loss may undo.
The removal of a key file and the flush of its directory are one step.

**`KeyLifecycle`**: what the files do implement.  The destroy of the file custodian is
not the one step of `KeyCustodian`, and it can be seen: `status()` takes no lock.
While a destroy is under way, or where it stopped, `status()` names the old state of a
key that is wiped already, then `not_found`, and `destroyed` only from the tombstone.
The module has a step for each.  `KeepsLifecycle` is the
refinement, with `keyState` mapped to the answer of `status()` (`Status`,
`file-custodian.ts:790`) and `intact` to the key files that can still be unwrapped: the
life cycle is walked in one direction only, whatever dies or fails.  So
`not_found` does not mean that the key never existed, as the design says
(`docs/PHASE_2_CRYPTO_SHREDDING_DESIGN.md:59`) and `destroy` takes it to at line 777:
section 6, item 5.  What the authority needs of a custodian for
its erasures to be sound, the life cycle still gives: a receipt, which alone completes a
shred, is given over a tombstone only, and a key that is wiped or gone opens nothing, so
reads fail closed.  What it does not give is that a destroy which failed can be tried
again by the same process.

**`ProjectionPublication`**: one publisher run is `Begin`, `ReadCurrent`, a
repair or (`Resume` or `Prepare`), `WriteArtifact`, `Commit`, `WritePointer`.
`holder` is the session advisory lock; `LoseSession` takes it away while the
process is in the file system, where it notices nothing.  A generation is what a
manifest says of each entry and what it deletes; `Succeeds` is
`ValidateSuccession` / `validateSuccession`, the rule the TypeScript publisher and
the Go daemon share.  `GraceElapses` is the one clock of both.  `declared` and
`paced` are history variables of two properties.

**`PublishOutbox`**: `ledger` holds the rows, `artifacts` what the server really
has under an intent's token.  A publish call writes in separate autocommitted
statements and takes no lock, and it does not look at the answer of
`markInFlight`; a reconcile pass keeps what it wrote in `draft` until it commits,
blocks the other writers of that row meanwhile (`Unlocked`) and loses the draft
when it dies.  What the pass did on the server stays.  A server that cannot find
an artifact by its token is another initial state (`findsTokens`).

**`CollectionOutbox`**: `pass[p]` is one reconcile or revoke pass inside its
transaction, `queue` the path that writes the intended membership, `repair` an
audit that found the copy missing and is to act on it later.  A server call may
fail, fail after taking effect, or answer with a part of the members only.

**`ProjectedNamespace`**: the store of admitted generations under the FUSE
handlers.  A lookup or an open is several critical sections (resolve, pin,
resolve again when the generation was reclaimed in between); a kernel that has
cached a dentry opens an inode of a generation that is gone.  The reference counts are the code's; `PinsExact` compares them
with who really holds a generation.

**`BlockReads`**: a demand read or the prefetcher of a handle takes a block from a
cache or takes part in the one flight for it; a seek or a release leaves the
flight, the last one to leave abandons it.  Windows go to the probe cache and are
pinned, other blocks to the playback cache and are charged to a handle: `playback` is
the set of cached chunks, `owner` and `byHnd` are the two halves of the ledger.  Both
caches evict their least recently used block first.  The models keep no ages, so an
eviction takes any block it might, and a hit leaves no trace.

**`ProbeCache`**: the table under its lock and the files outside it: a `Put`
renames before it takes the lock and a `Remove` unlinks after it has left it.
Its evictions, like those above, may take any record.

**`SourceAccess`**: a block fetch over the lease slots (`minted` numbers the
leases), the permits, the breaker and the list of sources that may serve it.
The HTTP exchange is one step with one of six outcomes, as far as the callers
tell failures apart.

**`CompleteRestore`**: the journal, the maintenance lock, four names per host
target (`dirs`), the volumes, the claims of safety sets and the staging
directory.  Every rename and every journal write is a step; `Crash` may come
between any two and leaves the lock.  `waiting` is a command that has read the
journal and not yet got the lock.  `exec.step` is the step of the plan the command is
in, `exec.work` the journal it works on and writes from.  `before` is history: each
target and the database as the operation found them, and `before.held`, what each
target held when the journal was begun, which is less than that where an earlier
unwind of the same plan had left a target missing (section 6, item 4).

**`KekRotation`**: the ring, the journal of a rotation, which generation each
wrapped key is under, the locks and the sidecar, which opens the ring once when it
starts.  Every write is a step and a run may die between any two, leaving its
locks.  A run that resumes asks first whether the journal agrees with the ring and
then goes back to the earliest stage the ring and the keystore support.  A backup
copies the keystore key by key beside all this: it holds the maintenance lock of
the project, and a rotation takes another.  `overlapped` remembers that the two
have met: a sidecar that the backup started again inside a rotation has an old ring.

Definitions whose comment begins with "Slip" are plausible mistakes; no
specification uses them.  Each shows that a property can fail: replacing the
definition after it by the slip makes TLC find a violation.

## 4. What is checked

| Run | Question | Instance, and why it is enough |
|---|---|---|
| `catalog_safety` | two callers and the reconciler, a failure and a lost reply; reads of every kind beside a caller that updates, and beside one and a rollback: erasures are sound, a fenced operation never commits, the promise is kept, nothing stale or erased is disclosed; the proved invariant `IInv` | see below |
| `auth_recovery` | pending shreds, stale active rows and provisional keys are all resolved | two keys: a lineage and the one that replaces it, one on each side of the backup; a failure, a lost reply or an update, one of them per behaviour (`Mishaps`); without `restore()`, with which it fails (section 6, item 6) |
| `ledgers` | two processes over one key directory, two crashes, one failing write: the life cycle of keys, and recovery; a publish of a poster beside two passes and the revocation: passes create once, a lost artifact is adopted, a forgotten one revoked | two keys, two operation ids: a replay of an id with the same and with the other key; one intent (intents share nothing), three artifacts: one of the publish call, one of a pass, one too many |
| `projection` | two publishers, death, lost session, restarted daemon, registry edited at any moment: nothing is shown before it is committed, a retirement deletes once, the directory is repaired, and a daemon that polls between runs is never outrun | four generations: publish, delete, re-add, delete again, or one served, one in the pointer, one too far; one retirement: an intent that is spent, withdrawn or resumed; at most two faults of all kinds in one behaviour; one entry, since succession judges each entry by itself (the shrink guard, which counts, is not modelled) |
| `commands` | two passes over a collection, the queue, the audit: one copy per token, no removal on partial knowledge, nothing untracked; rotations, retirements and backups beside a sidecar: every key opens, the ring moves only over keys that have all moved | two records: one stays while the other leaves; two copies on a server that keeps markers, one too many, one on a server that drops them; three generations: one retired, one active, one pending; two sets: one from before a rotation or from inside it, and the one after which a generation may be retired; one death (the proofs are for any number of each) |
| `dataplane` | pins, charges, flights, files, resolutions and permits are accounted for | see below |
| `restore` | nothing is destroyed without a way back, a finished restore is whole, an abandon ends and puts back what it recorded | three events (runs started, deaths, failures): a first run, a death in it and a failure or death of what repairs it; both custody modes, a target that is there at first and one that is not; promotion records are placed like secrets and left out |
| `restore_v_proof`, `sources_v_wedge`, `rotation_v_resume`, `restore_v_abandon`, `custodian_v_status` | findings 1 to 5 of section 6 | the smallest instance that shows it |

**`catalog_safety`** is one run over three scenes, chosen in the initial state
(`MCIdentityReads`).  In `callers` two clients and the reconciler, which are all the
parties that can race for one item, share one item (items share nothing but the
custodian's id space) and three keys: two racing writers and a restored lineage.  In
`updates` and `rollback` there is a reader beside one caller and the reconciler, with
two keys (`ReadKeys`): a lineage and the next.  One read at a time: reads change
nothing, so two never influence each other.  An update and a rollback, or a read and a
lost reply, do not occur in one behaviour of the run; the theorems of section 5 are about any
mixture of them.

**`dataplane`** is one run over four modules that share no state.  `MCDataPlane`
conjoins them and a variable `component`, chosen in the initial state, says
which one moves; the others stand still.  So the reachable states are
the sum of those of the parts, not their product.  Two modules are split
further: a read of a window and one of a chunk (they meet only in their handle),
and a fetch that is retried on its only source and one that goes over to
another.  The instances: two versions of one path over three generations
(one served, one retained, one admitted in between) and two requests; one
window and two chunks in a cache of one; two records with room for one and three
goroutines; two readers of two objects, one permit and one lease slot.  Flights,
readers and objects are interchangeable; the run has no temporal property,
since symmetry would make one unsound.

**`ledgers`** and **`commands`** are put together in the same way, by `MCLedgers`
(`FileCustodian`, `PublishOutbox`) and `MCCommands` (`CollectionOutbox`,
`KekRotation`).

Keys and clients are interchangeable in `catalog_safety`, passes
and key files in `commands`; the runs with liveness use no symmetry.
Bounds (`ReadKeys`) and budgets (`Budget`, `MaxCrashes`, `MaxErrors`, `Bounds`, `MaxArtifacts`,
`MaxCopies`, `MaxGenerations`, `MaxRestarts`, `MaxDamage`, `MaxLeases`,
`MaxGeneration`, `MaxSets`, `MaxDeaths`, `MaxFaults`, `MAX_EVENTS`) count interventions of the environment or the things it makes; the
program's own loops (retries, passes of a reconciler, runs of the publisher) are
not bounded.  `CHECK_DEADLOCK FALSE` appears where the system may stop: all keys
destroyed and no operation id left in the file custodian, everything revoked in
the outbox of posters, a restore that is over and no event left; `MCCommands` has it for the
collections, and `KekRotation` alone never stops.

**Fairness.**
- `CatalogAuthority!Fairness`: a started call goes on, the
  reconciler is a scheduled job, and a transaction in flight runs or dies with its
  connection.  No fairness is assumed of clients beginning calls, of failures or of
  the rollback.
- `MCLedgers!CustodianFairness`: a process goes on and is restarted by
  its supervisor (`Boot` is part of `Works`), and an operator removes a lock or a
  half-written file that a crash left behind: the code tells the operator to, and
  nothing else ever does.
- `ProjectionPublication!ScheduledSpec`: the publisher is
  run again and again and a run goes on; the daemon, the registry and the clock are
  under no fairness.
- `MCLedgers!OutboxFairness`: passes and revocations are run again and
  again, by an operator or a timer, and neither the server nor the
  process fails every time (strong fairness of a lock taken, of a lookup that
  succeeds, of a deletion that is answered).  The publish call is under no fairness.
- `CompleteRestore!Fairness`: a command that holds the lock goes on, an operator
  who began to abandon asks again, and removes a lock nobody holds.  `Crash`
  and `FailHere` use up events, so they end by themselves.

## 5. What is proved

With TLAPS, for every value of the constants, so for any number of callers, keys,
records, generations, crashes and failures.

**The catalog authority** (`CatalogAuthorityProofs`):

- **`TypeCorrect`** (`Spec => []TypeOK`).  `TypeOK` is not inductive: a step that
  uses `proc[p].key` as a key needs to know that a call at that step has one.  The
  invariant is `TInv == TypeOK /\ ShapeInv`: what each call, listed row, late
  transaction and database row holds at each stage.
- **`ErasureSound`** (`Spec => []ErasedMeansDestroyed`), from `TInv /\ ErasureInv`:
  besides the completed rows, a call that has reached `complete` holds a destroyed
  key, and the backup's completed rows name destroyed keys.  The argument is
  `DestroyedStays`: no step of anybody brings a key back, so what was true of a key
  when a backup was taken is still true when it is restored.
- **`ProjectionSound`** (`Spec => []ProjectionAgreesWithLineage`), from
  `TInv /\ ProjectionInv`.  `StoreSteps` shows that every step of the system is one
  of eight effects on the database; each is then compared with the two rows it
  touches.  The backup has to agree with itself as well.
- **`FenceSound`** (`Spec => []FencedNeverCommits`), from
  `TInv /\ OwnerInv /\ FenceInv`.  The fence looks only at the row of the key's own
  item; that this is enough is `OwnerInv`: every key is held with the item it was
  minted for, and `MintedStays`.
- **`InductiveSound`** (`Spec => []IInv`), the conjunction of these parts, which
  the run `catalog_safety` checks as an invariant.
- **`PromiseKept`** (`Spec => KeepsPromise`): the authority refines `ErasurePromise`.
  `PromiseInv` adds `OneHolder` (one call or one lost transaction can still
  commit a key) and `DeadEnds` (a key anybody is about to destroy serves no live
  lineage, and none can start on it).  Both hold only while nothing is disturbed, as the
  refinement says.

**The reads** (`CatalogAuthorityProofs`, as they extend that module): `ReadsInv`, beside `IInv`, says how far a read is on
its path and what has overtaken it.  `LineageKept`: the lineage it began with is still
the item's, or its key is destroyed, since a new lineage is installed only after the
erasure of the old one.  `RevisionsOrdered`: revisions only grow while a read is on, and
a new lineage is a new revision.  So a read whose last check finds the revision it
decrypted has found its lineage too, although a late update may have put a ciphertext
under another key in between: **`BoundarySound`** (`BoundaryDisclosesCurrent`).
`StopsIfErased`: a read of an erased lineage never passes its first custodian call,
**`ErasedSound`** (`ErasedNeverDisclosed`), also after a rollback.

**The file custodian** (`FileCustodianProofs`): the invariant `FileInv`
(`FilesConsistent`) is mutual exclusion of whoever holds the lock, the agreement
of the directories and `Knows`: what each operation has already written, for each
place where a crash may cut it off.  From it **`DestroyedStaysDestroyed`**
(`[]DestroyedForGood`) and **`FilesKeepLifecycle`**: every write is a step of
`KeyLifecycle` or a stutter (the safety half of the refinement; its liveness is not
claimed).  The proofs above are about `KeyCustodian`, whose destroy is one step, so the
two do not compose into a theorem about the authority over the files; that is left.

**The publisher** (`ProjectionPublicationProofs`): `Grounded` says what each run has
read and still knows, though it may have lost its session; the states of the
ledger's generations follow their order.  **`DirectoryNeverAheadSound`** and
**`ChainAdmissibleSound`** follow with it.  **`DeletionSound`** counts:
`Spare(e)` says that the retirements declared exceed the deletions committed or still
prepared whenever one more deletion may be prepared.  **`NeverOutrunSound`** adds `InPace`: the
database is at most one generation past the pointer, and past the daemon while it is
paced.  Found in the proof: the property does not need the restriction to one fault
it had before; only a lost session breaks it, and the property now says so.

**The rotation** (`KekRotationProofs`): `KekInv` joins what the journal says of the ring
at each stage, `SidecarInv` (a sidecar that is up wraps under a generation of
the ring), `CopyInv` (a backup in progress has copied only keys its ring will open)
and `VouchInv`: while some published set or finished copy proves the active
generation, no key is, nor will be put, under a generation that may be retired.
The last one is why retirement is safe beside backups that copy key by key.
**`EveryKeyOpensSound`** and **`ActivationSound`** follow.  The last is stated until
a rotation and a backup overlap, as the property is.

**The posters' outbox** (`PublishOutboxProofs`): `OutboxInv` says that a pass writes only
to a row it has locked, from a status the reconciler may leave; that a row
which may still be created for has lost none of its artifacts (a deletion happens only
under `revoke_pending`, and no status returns from there); and that a pass about to
create is the first where tokens are found.  **`CreateOnceSound`** follows.  The publish
call stands outside it, since it takes no lock (section 6, item 11).

**Collections** (`CollectionOutboxProofs`): `CollInv` says that one pass works at a time,
what its draft, its resolved copy and its decided additions and removals still mean
after sweeps and forgets have moved the members and the row under it, that there is one copy,
and `Fits`: the row accounts for the copies, and each item in a copy has a member row behind it
or a deletion queued.  **`OneCopySound`**, **`ForgottenSound`** and
**`RemovalsSound`** follow.

**`projectiond`** (`DataPlaneProofs`): nearly all that these modules keep are counts of
who is where, so one lemma, `CountAfter`, says what a count is after one has come, gone
or stayed.

- The namespace: `NamespaceInv` adds `Remembers` (an inode the kernel has a name or a
  request for is remembered under a generation that shows it) and `Found` (what each
  request has found and not yet checked again).  **`PinsSound`**, **`HandleSound`**.
- The read path: `FlightsInv` says that what the map shows is running, that what runs and
  is wanted is in the map, and that a flight counts its readers: **`FlightsSound`**.  **`LedgerSound`** needs it, for a block is charged to whoever started
  its flight, and that handle may have been released in the meantime; `LedgerInv` adds
  that a chunk that is not cached is nobody's.  It holds whichever block an eviction takes.
- The probe cache: `DiskWithinBudget` is inductive with the types: **`DiskSound`**.
- The sources: `SourceInv` joins `SlotsCounted` (the users of a slot are the readers at
  the places that hold it), `CallsShown` (what a resolver and those who wait for it know of
  each other) and `LeasesOrdered` (a slot of a higher generation than a lease that a reader
  holds or has found stale has a later lease, also when it was evicted and made anew).
  **`ResolutionSound`**, **`RefreshSound`**, **`PermitsSound`**.

**The restore** (`CompleteRestoreProofs`), for both custody modes, whichever targets are there, and
any number of runs, deaths and failures:

- `Core` (**`CoreHolds`**) is what the others stand on.  One command holds the lock,
  and its `work` is the journal, but for the one thing it has just done and
  not yet recorded: a claim it has made, or, in an unwind, swaps it has
  undone.  `AtStep` says which step it can be in at each place, and `AllWalked` that the
  steps before the proofs are complete up to the one in hand, as
  `assertJournalAgreesWithPlan` demands of a journal: without it the walk of a
  retried or rewound plan would be unknown.
- **`RecoveryComesFirst`** (`RecoveryBeforeDestruction`), from `AllClaims`: what lies under the
  claim is nothing, or this operation's own backup of the database it found; the step is
  recorded complete only over that backup; and until it is, the database is
  the one it found.  The last part is why a retry of the
  backup after a crash still saves the right thing.
- **`NothingIsPlacedOverAnUnwind`**: the command that holds the lock and restores has a
  journal that says `restoring`, so a resume that read it before an abandon finds out under
  the lock.
- **`OnlyTheOperatorDestroysThem`** (`OnlyTheOperatorDestroys`), from `AllDirs`: what is in flight is the
  set's, what is kept aside never is, and at each stage of a swap the name it is about
  to rename onto is free.
- **`DoneMeansWhole`** (`RestoredMeansWhole`), from `AllWhole`: what each step that
  is recorded complete has done is still so.  A rewind clears the records of all
  the steps from the one it goes back to, which is why a replay over a new
  database does not leave an older claim about it.
- **`AbandonUndoesItsSwaps`** (`RecordedSwapsPutBack`), from `AllSwaps`: a target whose swap
  is recorded is swapped, moved aside, or back; `Tried`: an unwind that has gone on
  to the staging directory has nothing left to move.  An unrecorded swap under way is
  allowed by the invariant; the property that forbids it, `AbandonPutsBack`, is the one that fails
  (section 6, item 4).

The assumptions are the named ones of the modules: a model value that stands for
nothing (`NoItem`, `NoKey`, `None` and the like) and the reconciler are not members
of the sets they stand outside of, operation ids are positive, bounds are numbers and
`Kinds` are kinds.  In `projectiond` the sets that are counted are finite, and the
ceilings of the playback cache are at least one block: under a smaller one the code
stores nothing and there is no ledger to keep.  The invariants were checked by TLC before they were proved.

Model-checked only: liveness under fairness (`PendingShredsComplete`,
`ProvisionalResolved`, `StaleActiveHealed`, `JournalCarriedOut`, `ForgottenIsRevoked`,
`LostReplyIsAdopted`, `DirectoryCatchesUp`, `AbandonEnds`), which is out of the prover's
reach.

## 6. Where the code and its documents disagree

With a run that shows it:

1. `restore_v_proof`: a resume that repeats a failed proof and dies there leaves a
   journal that `assertJournalAgreesWithPlan` (`complete-restore.ts:1299`) refuses
   ever after.
2. `sources_v_wedge`: the one probe of a half-open breaker is spent for ever when it
   ends with an outcome that says nothing of the endpoint (`http.go:190`).
3. `rotation_v_resume`: a rotation that dies between the pending generation
   (`kek-rotation.ts:551`) and the journal entry of it (line 554) leaves a journal that
   no later run accepts (line 391).
4. `restore_v_abandon`: after a process died between the two renames of a swap, the
   target is under its `.replaced-` name and the journal has no record of it.  `abandon` goes by the
   records (`complete-restore.ts:3307`), clears the journal and says that it has put
   everything back (line 3446), and the target is missing.
5. `custodian_v_status`: a destroy whose tombstone cannot be written ends with the key file
   gone and its journal entry left.  From then on `status()` answers `not_found` and
   `destroy` refuses the retry (`file-custodian.ts:777`), until the process is restarted
   and its recovery writes the tombstone.  The design has "'not_found' = never existed"
   (`docs/PHASE_2_CRYPTO_SHREDDING_DESIGN.md:59`) and a reconciler that retries
   (line 149).

Met while modelling, each seen as a counterexample of a property that was then
restricted, or as a path of the model; no run is kept for them:

6. The self-heal of a stale active row calls `cat_forget_begin` on the item as it is
   now and then destroys the key it listed earlier (`authority.ts:434`).  After a
   forget and a restore in between, a lineage nobody asked to forget is forgotten,
   and its shred stays pending for ever because its operation id is bound to the
   old key.
7. After a database error the writer destroys its key when the row is not there
   (`authority.ts:119`); a transaction that commits later leaves a live lineage
   without a key.
8. An update may write ciphertext of the previous lineage's key
   (`migrations.sql:1025`).
9. An entry un-retired between the preparation of its deletion and the commit, or the
   resume of an interrupted run, is deleted all the same (`publish-service.ts:444`).
10. An open of an inode with two names, whose generation was reclaimed, is resolved
    again by the name looked up last; when that one has left the namespace the open
    answers that there is no such file, though the other name is still there
    (`fusefs.go:313`).
11. `publish` does not look at what `markInFlight` answers (`outbox.ts:94`): a pass that
   got there first creates as well, and the server has two artifacts.  A process
   that dies after `markInFlight` leaves an intent in flight that only a pass can
   take up.  `proveRecovery` may say "verified" of nothing (`outbox.ts:129`).
12. A collection emptied of its members is recorded revoked when the server does not
    find it, without the check that the server can find anything
    (`collection-outbox.ts:302`); the queue path takes its two locks in the other
    order than a pass (`collection-execution.ts:249`).
13. Where a target held the set's content from the start and the process died in its
    step, `repairSwap` records a swap that replaced nothing (`complete-restore.ts:2217`),
    and an abandon then moves that target away; a second abandon meets the `.abandoned-` directory of
    the first; a staging directory whose removal died after its marker is no longer
    recognised (`maintenance-safety.ts:1558`).
14. A window pinned after its handle was released keeps its pin (`readpath.go:675`).
15. A backup may run inside a rotation: each holds a lock the other does not look at
    (`complete-backup.ts:631`, `kek-rotation.ts:441`).  The sidecar it starts again has
    the ring of before, wraps under the outgoing generation and cannot open what the
    rotation wraps next.  What it leaves under a generation before that makes every
    later rotation refuse at its rewrap.
16. The outgoing generation of a rotation whose journal was left behind at its last
    stage can be retired before the resume, which then refuses the journal
    (`kek-rotation.ts:382`).

Two behaviours the documents admit and an operator should know: a writer
lock left by a killed process blocks every later start of the file custodian until
somebody removes it, and a daemon that misses a generation (two runs between two
polls) refuses every later one until it is restarted.

## 7. What is not modelled

`PROJECT.json` lists every component with its status.  Besides the modules still to
come: parsing, hashing, formatting, path normalisation and id derivation (pure
functions over strings and digests), the content of identities and manifests,
the HTTP clients of media servers and providers, the operator
pages, evidence packets and release tooling, which are most of the repository's
lines.  In the modelled parts:

- `recordSignal` and the behavioural events, the redaction registry of
  `withIdentity`;
- the inside of a rebuild of the projection: `ProjectionAgreesWithLineage` takes a
  rebuild to give back the phase of an item, so it would not notice a fold that reads the
  events wrongly (step 12 of the plan);
- source sets, versions and roots of the projection registry, the shrink guard, the
  retention of old artifacts;
- the consent switch, the dry run and the row cap of the outbox; the plan, its
  digests and its confirmation, the legacy rows and the reports of collections;
- directory inodes, attributes, local files, the arithmetic of blocks and windows,
  the read-ahead policy and the inside of an HTTP exchange of `projectiond`;
- removals of a cached file that fail: `cache.go` swallows the error (lines 334 and 385),
  and `DiskWithinBudget` speaks of removals that succeed;
- what a lease says: `RefreshIsNew` is about the lease object, and an endpoint without a
  resolver yields the same URL again;
- a create that timed out and takes effect on the server after the pass of the
  posters' outbox has gone on;
- in a rotation: the root wrapping key and its re-seal, the migration of a static key,
  the writer lock of one ring write, keys that do not open under any generation, and
  every component of a backup but the keystore;
- in a restore: a proof step passes or fails whatever the state is; a volume is destroyed
  and loaded whole or not at all; some rejections of a malformed journal; a journal is
  read as one value; a command acts on a stale journal only where a resume and an
  abandon race; claims and links made by somebody else, a set that changes while it
  is read and the lock of the backup destination; the operator touches nothing while
  a journal is there, except that an empty claim may vanish.
