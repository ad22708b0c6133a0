------------------------------ MODULE KekRotation ------------------------------
(***************************************************************************)
(* The rotation of the key-encryption key (ops/kek-rotation.ts) over its    *)
(* ring (core/crypto/kek-ring.ts), the keystore (file-custodian.ts), the    *)
(* sidecar that serves it (ops/sidecar-daemon.ts) and complete backups      *)
(* (ops/complete-backup.ts).                                                *)
(*                                                                         *)
(* Every write of the rotation is a step, and it may die between any two;   *)
(* it then leaves its locks, which an operator removes.  The sidecar opens  *)
(* the ring once, when it starts.  A backup holds the project's maintenance *)
(* lock, which no rotation takes: the two may run at once.                  *)
(*                                                                         *)
(* A plan's digest is the set it falls back to and the generation it leaves; *)
(* a backup set is the ring and the generations its keys were copied under. *)
(***************************************************************************)
EXTENDS Integers, Sequences, FiniteSetsExt

CONSTANTS
    KeyFiles,        \* names of wrapped keys
    MaxGeneration,   \* bound: generations ever made
    MaxSets,         \* bound: backup sets ever published
    MaxDeaths        \* bound: rotations and backups that die

ASSUME RotationAssumption == {MaxGeneration, MaxSets, MaxDeaths} \subseteq Nat

VARIABLES
    ring,        \* the generations it holds, the active one, the pending one or 0
    kekJournal,  \* the rotation's journal, or NoJournal
    wrappedBy,   \* the generation each key file is wrapped under, 0 when there is none
    locks,       \* the lock directories that are there: "rotation", "writer"
    sidecar,     \* is it up, what it wraps under and what it can open
    sets,        \* published backup sets
    rotation,    \* the running rotation
    backup,      \* the running backup
    overlapped,  \* history: has a backup been at work beside a rotation?
    deaths       \* bound: deaths so far

rotVars == <<ring, kekJournal, wrappedBy, locks, sidecar, sets, rotation, backup,
             overlapped, deaths>>

NoJournal == [set |-> 0, from |-> 0, to |-> 0, stage |-> "none"]
NoRotation == [at |-> "idle", set |-> 0, from |-> 0, to |-> 0, quiet |-> FALSE]
NoBackup == [at |-> "idle", left |-> <<>>, todo |-> {}, under |-> {}, ring |-> {}, active |-> 0]
Down == [up |-> FALSE, wraps |-> 0, opens |-> {}]

Live == {k \in KeyFiles : wrappedBy[k] # 0}
Under(g) == {k \in KeyFiles : wrappedBy[k] = g}
AllUnder(g) == Live \subseteq Under(g)

\* startSidecarDaemon: new keys go under the active generation, every other is for opening.
Loaded == [up |-> TRUE, wraps |-> ring.active, opens |-> ring.generations]

\* docker compose start: one that runs keeps the ring it opened.
Started == IF sidecar.up THEN sidecar ELSE Loaded

-----------------------------------------------------------------------------
(* The sidecar's own operations, and those who start it.                    *)

\* A DEK is wrapped under the writer lock and gone once destroyed.  Names are random;
\* one that is free again stands for a new one.
Provision(k) ==
    /\ sidecar.up /\ "writer" \notin locks /\ wrappedBy[k] = 0
    /\ wrappedBy' = [wrappedBy EXCEPT ![k] = sidecar.wraps]
    /\ UNCHANGED <<ring, kekJournal, locks, sidecar, sets, rotation, backup, overlapped, deaths>>

Destroy(k) ==
    /\ sidecar.up /\ "writer" \notin locks /\ wrappedBy[k] # 0
    /\ wrappedBy' = [wrappedBy EXCEPT ![k] = 0]
    /\ UNCHANGED <<ring, kekJournal, locks, sidecar, sets, rotation, backup, overlapped, deaths>>

\* A sidecar that dies is started again by its restart policy.
SidecarRestarts ==
    /\ sidecar.up /\ sidecar' = Loaded
    /\ UNCHANGED <<ring, kekJournal, wrappedBy, locks, sets, rotation, backup, overlapped, deaths>>

\* An operator, once no command runs, removes the locks left behind and starts what is down.
OperatorRecovers ==
    /\ rotation = NoRotation /\ backup = NoBackup
    /\ locks' = {} /\ sidecar' = Started
    /\ UNCHANGED <<ring, kekJournal, wrappedBy, sets, rotation, backup, overlapped, deaths>>

-----------------------------------------------------------------------------
(* Where a rotation may begin.                                              *)

\* assertRotationJournalAgreesWithRing, of a journal that is there.
JournalAgrees ==
    /\ kekJournal.from \in ring.generations /\ kekJournal.to # kekJournal.from
    /\ IF ring.pending # 0
       THEN kekJournal.to = ring.pending /\ ring.active = kekJournal.from
       ELSE ring.active = IF kekJournal.to \in ring.generations THEN kekJournal.to ELSE kekJournal.from

\* Slip: the stage of the journal is believed.
JournalStage == kekJournal.stage

\* reconcileJournalStage: the earliest stage the ring and the key files support.
ReconciledStage ==
    IF kekJournal.to \notin ring.generations THEN "claimed"
    ELSE IF ring.active = kekJournal.to
         THEN IF AllUnder(kekJournal.to) THEN "activated" ELSE "rewrapped"
         ELSE IF AllUnder(kekJournal.to) THEN "rewrapped" ELSE "pending-created"

\* The lock; under it the plan again, which must be the one confirmed (over set s) and
\* that of the journal, if there is one; and where to go on from.
BeginRotation(s) ==
    /\ rotation = NoRotation /\ "rotation" \notin locks
    /\ rotation' =
         IF kekJournal = NoJournal
         THEN [at |-> "not-started", set |-> s, from |-> ring.active, to |-> 0, quiet |-> FALSE]
         ELSE [at |-> ReconciledStage, set |-> s, from |-> kekJournal.from, to |-> kekJournal.to,
               quiet |-> FALSE]
    /\ \/ kekJournal = NoJournal /\ ring.pending = 0 /\ Max(ring.generations) < MaxGeneration
       \/ kekJournal # NoJournal /\ kekJournal.set = s /\ JournalAgrees
    /\ locks' = locks \union {"rotation"}
    /\ overlapped' = (overlapped \/ backup # NoBackup)
    /\ UNCHANGED <<ring, kekJournal, wrappedBy, sidecar, sets, backup, deaths>>

-----------------------------------------------------------------------------
(* Its stages.  "at" is the last one known to be complete, or names a place  *)
(* inside one.                                                              *)

Stages == {"not-started", "claimed", "pending-created", "rewrapped", "verified", "activated"}

AtWork(at) == rotation.at = at /\ (at \in Stages => rotation.quiet)
Goes(at) == rotation' = [rotation EXCEPT !.at = at]

\* The sidecar is stopped before the first stage of this run, whichever it is (only it
\* touches the key files); a stop that fails ends the run.
Quiesce ==
    /\ rotation.at \in Stages /\ ~rotation.quiet
    /\ \/ rotation' = [rotation EXCEPT !.quiet = TRUE] /\ sidecar' = Down
       \/ Goes("ends") /\ UNCHANGED sidecar
    /\ UNCHANGED <<ring, kekJournal, wrappedBy, locks, sets, backup, overlapped, deaths>>

\* The journal is written at the end of a stage: where the run is, and the stage.
StageAfter == [place \in {"not-started", "begun", "moved", "proved", "active"} |->
    CASE place = "not-started" -> "claimed" [] place = "begun" -> "pending-created"
      [] place = "moved" -> "rewrapped" [] place = "proved" -> "verified"
      [] place = "active" -> "activated"]

WriteKekJournal ==
    /\ \E place \in DOMAIN StageAfter :
         /\ AtWork(place) /\ Goes(StageAfter[place])
         /\ kekJournal' = [set |-> rotation.set, from |-> rotation.from, to |-> rotation.to,
                        stage |-> StageAfter[place]]
    /\ UNCHANGED <<ring, wrappedBy, locks, sidecar, sets, backup, overlapped, deaths>>

\* beginPendingGeneration, unless there is one.
BeginPending ==
    LET new == Max(ring.generations) + 1
        to == IF ring.pending = 0 THEN new ELSE ring.pending
    IN
    /\ AtWork("claimed")
    /\ ring' = [ring EXCEPT !.generations = @ \union {to}, !.pending = to]
    /\ rotation' = [rotation EXCEPT !.at = "begun", !.to = to]
    /\ UNCHANGED <<kekJournal, wrappedBy, locks, sidecar, sets, backup, overlapped, deaths>>

\* rewrapKeystore: under the writer lock, which must be free, key by key.
StartRewrap ==
    /\ AtWork("pending-created")
    /\ IF "writer" \in locks
       THEN Goes("ends") /\ UNCHANGED locks
       ELSE Goes("rewrapping") /\ locks' = locks \union {"writer"}
    /\ UNCHANGED <<ring, kekJournal, wrappedBy, sidecar, sets, backup, overlapped, deaths>>

RewrapKey(k) ==
    /\ AtWork("rewrapping") /\ wrappedBy[k] = rotation.from
    /\ wrappedBy' = [wrappedBy EXCEPT ![k] = rotation.to]
    /\ UNCHANGED <<ring, kekJournal, locks, sidecar, sets, rotation, backup, overlapped, deaths>>

\* It ends when every key is under the new generation, or at one that is under neither.
EndRewrap ==
    /\ AtWork("rewrapping")
    /\ \/ AllUnder(rotation.to) /\ Goes("moved")
       \/ ~(Live \subseteq Under(rotation.to) \union Under(rotation.from)) /\ Goes("ends")
    /\ locks' = locks \ {"writer"}
    /\ UNCHANGED <<ring, kekJournal, wrappedBy, sidecar, sets, backup, overlapped, deaths>>

Verify ==
    /\ AtWork("rewrapped") /\ Goes(IF AllUnder(rotation.to) THEN "proved" ELSE "ends")
    /\ UNCHANGED <<ring, kekJournal, wrappedBy, locks, sidecar, sets, backup, overlapped, deaths>>

\* activatePendingGeneration; the outgoing one stays in the ring.
Activate ==
    /\ AtWork("verified")
    /\ IF ring.pending = 0
       THEN Goes("ends") /\ UNCHANGED ring
       ELSE Goes("active") /\ ring' = [ring EXCEPT !.active = ring.pending, !.pending = 0]
    /\ UNCHANGED <<kekJournal, wrappedBy, locks, sidecar, sets, backup, overlapped, deaths>>

ClearKekJournal ==
    /\ AtWork("activated") /\ Goes("ends") /\ kekJournal' = NoJournal
    /\ UNCHANGED <<ring, wrappedBy, locks, sidecar, sets, backup, overlapped, deaths>>

\* What was stopped is started again, if it will; then the lock goes.
EndRotation ==
    /\ rotation.at = "ends" /\ rotation' = NoRotation
    /\ sidecar' \in IF rotation.quiet THEN {sidecar, Started} ELSE {sidecar}
    /\ locks' = locks \ {"rotation"}
    /\ UNCHANGED <<ring, kekJournal, wrappedBy, sets, backup, overlapped, deaths>>

-----------------------------------------------------------------------------
(* Retirement: planKekRetirement and retireKekGeneration, under the          *)
(* rotation's lock, which keeps out every other writer of the ring.         *)

\* Slip: the set verifies, and is taken at its word.
SetVerifies(s) == TRUE

\* proveBackupRestoresCustody: every key in the set opens under its active generation.
SetProves(s) == sets[s].under \subseteq {sets[s].active}

Retire(s, g) ==
    /\ rotation = NoRotation /\ "rotation" \notin locks
    /\ g \in ring.generations \ {ring.active, ring.pending}
    /\ SetProves(s) /\ sets[s].active = ring.active
    /\ ring' = [ring EXCEPT !.generations = @ \ {g}]
    /\ UNCHANGED <<kekJournal, wrappedBy, locks, sidecar, sets, rotation, backup, overlapped, deaths>>

-----------------------------------------------------------------------------
(* A complete backup.                                                       *)

\* copyTree goes through the sidecar's state directory in the order of its names.
StateEntries == <<"keys", "ring">>

StartBackup ==
    /\ backup = NoBackup /\ Len(sets) < MaxSets
    /\ backup' = [NoBackup EXCEPT !.at = "stopped", !.left = StateEntries]
    /\ sidecar' = Down
    /\ overlapped' = (overlapped \/ rotation # NoRotation)
    /\ UNCHANGED <<ring, kekJournal, wrappedBy, locks, sets, rotation, deaths>>

Copies(entry) == backup.at # "idle" /\ backup.left # <<>> /\ Head(backup.left) = entry

ListKeys ==
    /\ Copies("keys") /\ backup.at = "stopped"
    /\ backup' = [backup EXCEPT !.at = "listed", !.todo = Live]
    /\ UNCHANGED <<ring, kekJournal, wrappedBy, locks, sidecar, sets, rotation, overlapped, deaths>>

CopyKey(k) ==
    /\ Copies("keys") /\ k \in backup.todo /\ wrappedBy[k] # 0
    /\ backup' = [backup EXCEPT !.todo = @ \ {k}, !.under = @ \union {wrappedBy[k]}]
    /\ UNCHANGED <<ring, kekJournal, wrappedBy, locks, sidecar, sets, rotation, overlapped, deaths>>

LeaveKeys ==
    /\ Copies("keys") /\ backup.at = "listed" /\ backup.todo = {}
    /\ backup' = [backup EXCEPT !.left = Tail(@)]
    /\ UNCHANGED <<ring, kekJournal, wrappedBy, locks, sidecar, sets, rotation, overlapped, deaths>>

CopyRing ==
    /\ Copies("ring")
    /\ backup' = [backup EXCEPT !.left = Tail(@), !.ring = ring.generations, !.active = ring.active]
    /\ UNCHANGED <<ring, kekJournal, wrappedBy, locks, sidecar, sets, rotation, overlapped, deaths>>

\* The sidecar is started again, if it will, whether the copy is whole (then the set is
\* published) or was given up.
EndBackup ==
    /\ backup # NoBackup /\ backup' = NoBackup
    /\ sets' \in {sets} \union
         IF backup.left = <<>>
         THEN {Append(sets, [active |-> backup.active, ring |-> backup.ring, under |-> backup.under])}
         ELSE {}
    /\ sidecar' \in {sidecar, Started}
    /\ UNCHANGED <<ring, kekJournal, wrappedBy, locks, rotation, overlapped, deaths>>

-----------------------------------------------------------------------------
(* A command that dies: nothing is started again, nothing is released.      *)
RotationDies ==
    /\ rotation # NoRotation /\ rotation' = NoRotation
    /\ deaths < MaxDeaths /\ deaths' = deaths + 1
    /\ UNCHANGED <<ring, kekJournal, wrappedBy, locks, sidecar, sets, backup, overlapped>>

BackupDies ==
    /\ backup # NoBackup /\ backup' = NoBackup
    /\ deaths < MaxDeaths /\ deaths' = deaths + 1
    /\ UNCHANGED <<ring, kekJournal, wrappedBy, locks, sidecar, sets, rotation, overlapped>>

\* A new installation that has taken its first backup.
RotationInit ==
    /\ ring = [generations |-> {1}, active |-> 1, pending |-> 0]
    /\ kekJournal = NoJournal
    /\ wrappedBy = [k \in KeyFiles |-> 0]
    /\ locks = {}
    /\ sidecar = Loaded
    /\ sets = <<[active |-> 1, ring |-> {1}, under |-> {}]>>
    /\ rotation = NoRotation
    /\ backup = NoBackup
    /\ overlapped = FALSE
    /\ deaths = 0

RotationStep ==
    \/ \E s \in DOMAIN sets : BeginRotation(s)
    \/ Quiesce \/ WriteKekJournal \/ BeginPending \/ StartRewrap \/ EndRewrap
    \/ \E k \in KeyFiles : RewrapKey(k)
    \/ Verify \/ Activate \/ ClearKekJournal \/ EndRotation

BackupStep ==
    \/ StartBackup \/ ListKeys \/ LeaveKeys \/ CopyRing \/ EndBackup
    \/ \E k \in KeyFiles : CopyKey(k)

RotationNext ==
    \/ \E k \in KeyFiles : Provision(k) \/ Destroy(k)
    \/ SidecarRestarts \/ OperatorRecovers
    \/ RotationStep \/ BackupStep
    \/ \E s \in DOMAIN sets : \E g \in ring.generations : Retire(s, g)
    \/ RotationDies \/ BackupDies

RotationSpec == RotationInit /\ [][RotationNext]_rotVars

-----------------------------------------------------------------------------
(* Properties.                                                              *)

\* Wherever a wrapped key is, the ring beside it opens it: in the installation, though a
\* retirement looks at a backup set and never at the keystore (kek-rotation.ts
\* assertBackupProvesPostRotationState); in every published set, though a rotation may
\* run while it is copied (complete-backup.ts copyTree); and in a sidecar that serves,
\* in the middle of a rotation that failed or died too, unless a backup has run beside
\* one (sidecar-daemon.ts startSidecarDaemon).
EveryKeyOpens ==
    /\ \A k \in Live : wrappedBy[k] \in ring.generations
    /\ \A s \in DOMAIN sets : sets[s].under \subseteq sets[s].ring
    /\ sidecar.up /\ ~overlapped => \A k \in Live : wrappedBy[k] \in sidecar.opens

\* The ring moves to a generation only when every key is under it, whatever a sidecar
\* wrote between two runs of the rotation (kek-rotation.ts, stages 4 and 5).
ActivationCovers ==
    [][ring'.active # ring.active /\ ~overlapped => AllUnder(ring'.active)]_rotVars

\* The journal a run left behind is one that the next run accepts ("A crash at any point
\* resumes", kek-rotation.ts).
CrashResumes == kekJournal # NoJournal /\ rotation = NoRotation => JournalAgrees
=============================================================================
