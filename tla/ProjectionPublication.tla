----------------------- MODULE ProjectionPublication -----------------------
(***************************************************************************)
(* src/core/projection/publish-service.ts, publisher.ts, artifact-store.ts *)
(* and the cat_projection_* functions of src/db/migrations.sql, beside the *)
(* admission of projectiond/internal/{daemon,namespace,manifest}.          *)
(*                                                                         *)
(* A publisher turns the registry into the next generation in six steps:   *)
(* lock, recover, prepare, artifact, commit, pointer.  It can die between  *)
(* any two of them, and its session, which holds the lock, can be lost     *)
(* while it writes a file.  A daemon polls the pointer and admits only the *)
(* successor of what it serves.  Generations are named by their sequence,  *)
(* which is the key of their table; digests, sizes and paths are left out, *)
(* and so is the shrink guard (more than fifty deletions at once).         *)
(***************************************************************************)
EXTENDS Naturals, Sequences, FiniteSets

CONSTANTS
    Entries,        \* projected entries, each at its own path
    Publishers,     \* publisher processes
    Retirements,    \* deletion intents, each with its grace deadline
    MaxSequence,    \* bound: how many generations are built
    Bounds,         \* bounds: how many registry commands and faults of each kind,
    MaxFaults       \* and how many faults in all

Budget == [edits : Nat, deaths : Nat, sessions : Nat, stops : Nat, files : Nat]

ASSUME ProjectionBounds == MaxSequence \in Nat /\ MaxFaults \in Nat /\ Bounds \in Budget

VARIABLES
    visibility, \* [Entries -> state of the row]; "none": no row
    intent,     \* [Entries -> the retirement a retiring row carries]
    tombs,      \* rows with deleted_in_sequence set
    elapsed,    \* retirements whose grace deadline has passed
    gens,       \* projection_generations, in order of sequence
    pointer,    \* the generation pointer.json names (0: no file)
    artifacts,  \* generations whose artifact file is in the directory
    holder,     \* the publisher whose session holds the advisory lock
    pub,        \* [Publishers -> Run]
    serving,    \* the generation the daemon serves (0: it is not running)
    left,       \* what the bounds leave
    declared,   \* history: how often each entry was retired
    paced       \* history: since it started, the daemon was up to date at each Begin

registry == <<visibility, intent, tombs>>
directory == <<pointer, artifacts>>
history == <<declared, paced>>
projectionVars == <<registry, elapsed, gens, directory, holder, pub, serving, left, history>>

None == "none"
ASSUME NoneAssumption == None \notin Publishers

Visibilities == {"available", "degraded", "retiring"}

\* A generation is a record of its state, its entries (the visibility and the
\* retirement of each) and its deletions (a routine one has none).  A run knows the current generation as read at
\* its start (cur) and the one in hand (target).
Idle == [pc |-> "idle", cur |-> 0, target |-> 0]

\* Nothing has been published; any entries may have been registered.
ProjectionInit ==
    /\ visibility \in [Entries -> {None, "available"}]
    /\ intent = [e \in Entries |-> None]
    /\ tombs = {} /\ elapsed = {} /\ gens = << >>
    /\ pointer = 0 /\ artifacts = {} /\ holder = None
    /\ pub = [p \in Publishers |-> Idle]
    /\ serving = 0
    /\ left = Bounds
    /\ declared = [e \in Entries |-> 0] /\ paced = TRUE

-----------------------------------------------------------------------------
(* The registry commands, each one transaction.                             *)

Spend(what) == left[what] > 0 /\ left' = [left EXCEPT ![what] = @ - 1]

Edit ==
    /\ Spend("edits")
    /\ UNCHANGED <<elapsed, gens, directory, holder, pub, serving, paced>>

\* Slip: a tombstoned row comes back with the state it died in.
RegisterAsItDied(e) ==
    /\ visibility[e] = None \/ e \in tombs
    /\ visibility' = [visibility EXCEPT ![e] = IF @ = None THEN "available" ELSE @]
    /\ tombs' = tombs \ {e}
    /\ UNCHANGED <<intent, declared>>
    /\ Edit

\* A new row, or a tombstoned one that comes back clean; a live one is left alone.
Register(e) ==
    /\ visibility[e] = None \/ e \in tombs
    /\ visibility' = [visibility EXCEPT ![e] = "available"]
    /\ intent' = [intent EXCEPT ![e] = None]
    /\ tombs' = tombs \ {e}
    /\ UNCHANGED declared
    /\ Edit

\* Any row there is, a tombstoned one included.
SetVisibility(e, v, r) ==
    /\ visibility[e] # None
    /\ visibility' = [visibility EXCEPT ![e] = v]
    /\ intent' = [intent EXCEPT ![e] = r]
    /\ UNCHANGED tombs
    /\ Edit

SetAvailable(e) == SetVisibility(e, "available", None) /\ UNCHANGED declared
Degrade(e) == SetVisibility(e, "degraded", None) /\ UNCHANGED declared
Retire(e, r) ==
    SetVisibility(e, "retiring", r) /\ declared' = [declared EXCEPT ![e] = @ + 1]

\* A deadline passes for everybody at once: one clock.
GraceElapses(r) ==
    /\ r \notin elapsed
    /\ elapsed' = elapsed \cup {r}
    /\ UNCHANGED <<registry, gens, directory, holder, pub, serving, left, history>>

-----------------------------------------------------------------------------
(* The rules of succession, which publisher and daemon both apply.          *)

Listed(g) == DOMAIN g.entries

MayBeDeleted(line) == line.vis = "retiring" /\ line.intent \in elapsed

\* ValidateSuccession: nothing disappears that was not retiring for long
\* enough and named, nothing unknown is named, and a retirement keeps its intent.
Succeeds(prev, next) ==
    /\ \A e \in Listed(prev) \ Listed(next) :
          e \in next.deletions /\ MayBeDeleted(prev.entries[e])
    /\ next.deletions \subseteq Listed(prev)
    /\ \A e \in Listed(prev) \cap Listed(next) :
          prev.entries[e].vis = "retiring" /\ next.entries[e].vis = "retiring" =>
              prev.entries[e].intent = next.entries[e].intent

-----------------------------------------------------------------------------
(* The ledger of generations.                                               *)

\* The sequence of the current generation, 0 before the first one.
Current == CHOOSE n \in 0 .. Len(gens) :
    \A i \in DOMAIN gens : (gens[i].state = "current") <=> (i = n)

MakeCurrent(n) ==
    gens' = [i \in DOMAIN gens |-> CASE i = n -> [gens[i] EXCEPT !.state = "current"]
                                   [] i < n -> [gens[i] EXCEPT !.state = "superseded"]
                                   [] i > n -> gens[i]]

\* The row becomes current, the one before it superseded, and its deletions are
\* tombstoned, in one transaction.
Publish(n) == MakeCurrent(n) /\ tombs' = tombs \cup gens[n].deletions

\* The candidate the registry gives, less what is to be deleted.
Candidate(deletions) ==
    LET live == {e \in Entries : visibility[e] # None} \ (tombs \cup deletions)
    IN [state |-> "prepared",
        entries |-> [e \in live |-> [vis |-> visibility[e], intent |-> intent[e]]],
        deletions |-> deletions]

\* Slip: the publisher does not compare with the predecessor.
AdmissibleAlone(g, cur) == g.deletions \cap tombs = {}

\* What buildGeneration accepts: deletions of live, retiring, ripe rows, and a
\* candidate the daemon would accept after the current generation.
Admissible(g, cur) ==
    /\ \A e \in g.deletions :
          /\ visibility[e] # None /\ e \notin tombs
          /\ MayBeDeleted([vis |-> visibility[e], intent |-> intent[e]])
    /\ cur > 0 => Succeeds(gens[cur], g)

\* The predecessor already says exactly this.
Unchanged(g, cur) ==
    cur > 0 /\ gens[cur].entries = g.entries /\ gens[cur].deletions = g.deletions

-----------------------------------------------------------------------------
(* A run of the publisher.                                                  *)

\* The pointer file and the artifact it names are there.
Readable == pointer > 0 /\ pointer \in artifacts

In(p, pc) == pub[p].pc = pc
Go(p, run) == pub' = [pub EXCEPT ![p] = run]

\* The run is over, one way or another; its session, if alive, unlocks.
Finish(p) ==
    /\ Go(p, Idle)
    /\ holder' = IF holder = p THEN None ELSE holder

\* pg_try_advisory_lock: a second publisher is refused, and ends.
Begin(p) ==
    /\ In(p, "idle") /\ holder = None
    /\ holder' = p
    /\ Go(p, [Idle EXCEPT !.pc = "read"])
    /\ paced' = (paced /\ (Readable => serving \in {0, pointer}))
    /\ UNCHANGED <<registry, elapsed, gens, directory, serving, left, declared>>

\* A query of a run whose session is gone fails, and the run with it.
SessionLost(p) ==
    /\ pub[p].pc \in {"read", "build", "commit"}
    /\ holder # p
    /\ Finish(p)
    /\ UNCHANGED <<registry, elapsed, gens, directory, serving, left, history>>

\* Slip: a directory that has its artifact needs no repair.
ReadCurrentPresent(p) ==
    /\ In(p, "read") /\ holder = p
    /\ Go(p, [pub[p] EXCEPT !.cur = Current,
                            !.pc = IF Current = 0 \/ Current \in artifacts
                                   THEN "build" ELSE "repairArtifact"])
    /\ UNCHANGED <<registry, elapsed, gens, directory, holder, serving, left, history>>

\* The current generation is read, and what the directory needs is decided.
ReadCurrent(p) ==
    /\ In(p, "read") /\ holder = p
    /\ Go(p, [pub[p] EXCEPT !.cur = Current,
                            !.pc = IF Current = 0 THEN "build"
                                   ELSE IF Current \notin artifacts THEN "repairArtifact"
                                   ELSE IF pointer # Current THEN "repairPointer" ELSE "build"])
    /\ UNCHANGED <<registry, elapsed, gens, directory, holder, serving, left, history>>

RepairArtifact(p) ==
    /\ In(p, "repairArtifact")
    /\ artifacts' = artifacts \cup {pub[p].cur}
    /\ IF pointer # pub[p].cur
       THEN Go(p, [pub[p] EXCEPT !.pc = "repairPointer"]) /\ UNCHANGED holder
       ELSE Finish(p)
    /\ UNCHANGED <<registry, elapsed, gens, pointer, serving, left, history>>

\* Slip: a run that has repaired the pointer goes on to build.
RepairAndGoOn(p) ==
    /\ In(p, "repairPointer")
    /\ pointer' = pub[p].cur
    /\ Go(p, [pub[p] EXCEPT !.pc = "build"])
    /\ UNCHANGED <<registry, elapsed, gens, artifacts, holder, serving, left, history>>

\* After a repair the run stops: outcome "recovered".
RepairPointer(p) ==
    /\ In(p, "repairPointer")
    /\ pointer' = pub[p].cur
    /\ Finish(p)
    /\ UNCHANGED <<registry, elapsed, gens, artifacts, serving, left, history>>

\* A generation prepared by a run that died is finished from its bytes.
Resume(p) ==
    /\ In(p, "build") /\ holder = p
    /\ Len(gens) > pub[p].cur
    /\ Go(p, [pub[p] EXCEPT !.pc = "artifact", !.target = pub[p].cur + 1])
    /\ UNCHANGED <<registry, elapsed, gens, directory, holder, serving, left, history>>

\* One snapshot, one candidate, one prepared row, in one transaction.
Prepare(p, deletions) ==
    /\ In(p, "build") /\ holder = p
    /\ Len(gens) = pub[p].cur
    /\ LET g == Candidate(deletions) IN
       /\ Len(gens) < MaxSequence
       /\ Admissible(g, pub[p].cur) /\ ~Unchanged(g, pub[p].cur)
       /\ gens' = Append(gens, g)
    /\ Go(p, [pub[p] EXCEPT !.pc = "artifact", !.target = Len(gens) + 1])
    /\ UNCHANGED <<registry, elapsed, directory, holder, serving, left, history>>

\* Nothing to publish, or a request that is refused: whoever asks may name any
\* deletions, or none in a deletion generation.
Decline(p) ==
    /\ In(p, "build") /\ holder = p
    /\ Len(gens) = pub[p].cur
    /\ Finish(p)
    /\ UNCHANGED <<registry, elapsed, gens, directory, serving, left, history>>

\* Slip: the pointer is written before the commit.
WriteArtifactEarly(p) ==
    /\ In(p, "artifact")
    /\ artifacts' = artifacts \cup {pub[p].target}
    /\ pointer' = pub[p].target
    /\ Go(p, [pub[p] EXCEPT !.pc = "commit"])
    /\ UNCHANGED <<registry, elapsed, gens, holder, serving, left, history>>

WriteArtifact(p) ==
    /\ In(p, "artifact")
    /\ artifacts' = artifacts \cup {pub[p].target}
    /\ Go(p, [pub[p] EXCEPT !.pc = "commit"])
    /\ UNCHANGED <<registry, elapsed, gens, pointer, holder, serving, left, history>>

Commit(p) ==
    /\ In(p, "commit") /\ holder = p
    /\ Publish(pub[p].target)
    /\ Go(p, [pub[p] EXCEPT !.pc = "pointer"])
    /\ UNCHANGED <<visibility, intent, elapsed, directory, holder, serving, left, history>>

WritePointer(p) ==
    /\ In(p, "pointer")
    /\ pointer' = pub[p].target
    /\ Finish(p)
    /\ UNCHANGED <<registry, elapsed, gens, artifacts, serving, left, history>>

-----------------------------------------------------------------------------
(* The daemon.                                                              *)

\* Nothing is served before a first generation is admitted, and any will do.
DaemonStart ==
    /\ serving = 0 /\ Readable
    /\ serving' = pointer /\ paced' = TRUE
    /\ UNCHANGED <<registry, elapsed, gens, directory, holder, pub, left, declared>>

\* A poll that finds the successor of what is served; everything else is
\* either unchanged or refused, and changes nothing.
Poll ==
    /\ serving > 0 /\ Readable
    /\ pointer = serving + 1
    /\ Succeeds(gens[serving], gens[pointer])
    /\ serving' = pointer
    /\ UNCHANGED <<registry, elapsed, gens, directory, holder, pub, left, history>>

-----------------------------------------------------------------------------
(* Faults.                                                                  *)

\* The process dies, and its session with it.
Die(p) ==
    /\ ~In(p, "idle") /\ Spend("deaths")
    /\ Finish(p)
    /\ UNCHANGED <<registry, elapsed, gens, directory, serving, history>>

\* The session ends while the process is in the file system.
LoseSession(p) ==
    /\ holder = p
    /\ pub[p].pc \in {"repairArtifact", "repairPointer", "artifact", "pointer"}
    /\ Spend("sessions")
    /\ holder' = None
    /\ UNCHANGED <<registry, elapsed, gens, directory, pub, serving, history>>

DaemonStop ==
    /\ serving > 0 /\ Spend("stops")
    /\ serving' = 0
    /\ UNCHANGED <<registry, elapsed, gens, directory, holder, pub, history>>

\* Somebody removes or damages a file of the manifest directory.
LoseFile ==
    /\ Spend("files")
    /\ \/ pointer > 0 /\ pointer' = 0 /\ UNCHANGED artifacts
       \/ \E n \in artifacts : artifacts' = artifacts \ {n} /\ UNCHANGED pointer
    /\ UNCHANGED <<registry, elapsed, gens, holder, pub, serving, history>>

-----------------------------------------------------------------------------

RegistryNext ==
    \/ \E e \in Entries : Register(e) \/ SetAvailable(e) \/ Degrade(e)
    \/ \E e \in Entries, r \in Retirements : Retire(e, r)
    \/ \E r \in Retirements : GraceElapses(r)

RunNext(p) ==
    \/ Begin(p) \/ SessionLost(p) \/ ReadCurrent(p) \/ RepairArtifact(p)
    \/ RepairPointer(p) \/ Resume(p) \/ Decline(p)
    \/ \E deletions \in SUBSET Entries : Prepare(p, deletions)
    \/ WriteArtifact(p) \/ Commit(p) \/ WritePointer(p)

FaultsSoFar == (Bounds.deaths - left.deaths) + (Bounds.sessions - left.sessions)
                 + (Bounds.stops - left.stops) + (Bounds.files - left.files)

FaultNext ==
    /\ FaultsSoFar < MaxFaults
    /\ \/ DaemonStop \/ LoseFile
       \/ \E p \in Publishers : Die(p) \/ LoseSession(p)

ProjectionNext ==
    \/ RegistryNext
    \/ \E p \in Publishers : RunNext(p)
    \/ DaemonStart \/ Poll
    \/ FaultNext

ProjectionSpec == ProjectionInit /\ [][ProjectionNext]_projectionVars

\* The publisher is run again and again, and a run that has begun goes on.
ScheduledSpec ==
    ProjectionSpec /\ \A p \in Publishers : WF_projectionVars(RunNext(p))

-----------------------------------------------------------------------------
(* Properties.                                                              *)

\* What a daemon can see or serves has been committed in the database, whatever
\* runs died or lost their session ("PostgreSQL is the durable authority; the
\* filesystem is a rendering of it").
DirectoryNeverAhead == pointer <= Current /\ serving <= Current

\* Whatever became of the registry between its preparation and now, every
\* generation is one that a daemon serving its predecessor admits.
ChainAdmissible == \A n \in 2 .. Len(gens) : Succeeds(gens[n - 1], gens[n])

\* An entry leaves the namespace at most once for each time it was retired: no
\* resumed run, and no return of the path, deletes it on an old retirement.
OneDeletionPerRetirement ==
    \A e \in Entries :
        Cardinality({n \in DOMAIN gens : e \in gens[n].deletions}) <= declared[e]

\* A daemon that polls between any two runs is never outrun: as long as no session is
\* lost under a write, no crash, no restart of the daemon and no damage to the
\* directory makes a run move the pointer two generations past what the daemon
\* serves (it would refuse that for ever; hence a run that repairs stops).
NeverOutrun ==
    left.sessions = Bounds.sessions /\ paced /\ serving > 0 => pointer <= serving + 1

\* As long as the publisher is run, the directory comes to agree with the
\* database again, after any crash, lost session, stale write and lost file.
DirectoryCatchesUp ==
    []<>(Current > 0 => pointer = Current /\ Current \in artifacts)

=============================================================================
