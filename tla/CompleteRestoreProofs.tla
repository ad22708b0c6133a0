------------------------ MODULE CompleteRestoreProofs ------------------------
(***************************************************************************)
(* Proofs about the complete restore, for every shape of installation and  *)
(* any number of runs, deaths and failures.                                *)
(***************************************************************************)
EXTENDS CompleteRestore, TLAPS

LEMMA NoneIs ==
    /\ None \notin {"old", "set", "newer", "fresh", "ready", "partial", "empty",
                    "bad", "gone", "held", "stale"}
    /\ None \notin Steps
BY NoneAssumption

USE ShapesAssumption, NoneIs

-----------------------------------------------------------------------------
(* The steps and their order *)

LEMMA StepsAre ==
    Steps = {"safety-set", "stage-components", "stop-and-destroy", "place-secrets",
             "place-promotion-records", "place-sidecar-keystore", "database-up",
             "prepare-runtime-role", "replay-database", "place-inline-keystore",
             "stack-up", "prove-version", "prove-doctor", "prove-decrypt", "prove-history"}
<1>1. DOMAIN RESTORE_STEP_IDS = 1 .. 15 BY DEF RESTORE_STEP_IDS
<1>2. \A i \in 1 .. 15 : i \in {1, 2, 3, 4, 5, 6, 7, 8, 9, 10, 11, 12, 13, 14, 15} OBVIOUS
<1> QED BY <1>1, <1>2 DEF Steps, RESTORE_STEP_IDS

\* Where each step stands.
LEMMA Positions ==
    /\ Position["safety-set"] = 1
    /\ Position["stage-components"] = 2
    /\ Position["stop-and-destroy"] = 3
    /\ Position["place-secrets"] = 4
    /\ Position["place-promotion-records"] = 5
    /\ Position["place-sidecar-keystore"] = 6
    /\ Position["database-up"] = 7
    /\ Position["prepare-runtime-role"] = 8
    /\ Position["replay-database"] = 9
    /\ Position["place-inline-keystore"] = 10
    /\ Position["stack-up"] = 11
    /\ Position["prove-version"] = 12
    /\ Position["prove-doctor"] = 13
    /\ Position["prove-decrypt"] = 14
    /\ Position["prove-history"] = 15
<1>1. DOMAIN RESTORE_STEP_IDS = 1 .. 15 BY DEF RESTORE_STEP_IDS
<1>2. \A i \in 1 .. 15 : i \in {1, 2, 3, 4, 5, 6, 7, 8, 9, 10, 11, 12, 13, 14, 15} OBVIOUS
<1>3. \A i, j \in 1 .. 15 : RESTORE_STEP_IDS[i] = RESTORE_STEP_IDS[j] => i = j
  BY <1>2 DEF RESTORE_STEP_IDS
<1>4. ASSUME NEW i \in 1 .. 15 PROVE Position[RESTORE_STEP_IDS[i]] = i
  BY <1>1, <1>3 DEF Position, Steps
<1>5. /\ 1 \in 1 .. 15 /\ 2 \in 1 .. 15 /\ 3 \in 1 .. 15 /\ 4 \in 1 .. 15 /\ 5 \in 1 .. 15
      /\ 6 \in 1 .. 15 /\ 7 \in 1 .. 15 /\ 8 \in 1 .. 15 /\ 9 \in 1 .. 15 /\ 10 \in 1 .. 15
      /\ 11 \in 1 .. 15 /\ 12 \in 1 .. 15 /\ 13 \in 1 .. 15 /\ 14 \in 1 .. 15 /\ 15 \in 1 .. 15
  OBVIOUS
<1>6. /\ RESTORE_STEP_IDS[1] = "safety-set"
      /\ RESTORE_STEP_IDS[2] = "stage-components"
      /\ RESTORE_STEP_IDS[3] = "stop-and-destroy"
      /\ RESTORE_STEP_IDS[4] = "place-secrets"
      /\ RESTORE_STEP_IDS[5] = "place-promotion-records"
      /\ RESTORE_STEP_IDS[6] = "place-sidecar-keystore"
      /\ RESTORE_STEP_IDS[7] = "database-up"
      /\ RESTORE_STEP_IDS[8] = "prepare-runtime-role"
      /\ RESTORE_STEP_IDS[9] = "replay-database"
      /\ RESTORE_STEP_IDS[10] = "place-inline-keystore"
      /\ RESTORE_STEP_IDS[11] = "stack-up"
      /\ RESTORE_STEP_IDS[12] = "prove-version"
      /\ RESTORE_STEP_IDS[13] = "prove-doctor"
      /\ RESTORE_STEP_IDS[14] = "prove-decrypt"
      /\ RESTORE_STEP_IDS[15] = "prove-history"
  BY DEF RESTORE_STEP_IDS
<1> QED BY <1>4, <1>5, <1>6

\* The steps that place a component on the host.
Placements == {"place-secrets", "place-promotion-records", "place-sidecar-keystore"}

\* The steps a proof may follow but not precede.
Others == Steps \ PROOF_STEP_IDS

LEMMA PositionsTyped == \A id \in Steps : Position[id] \in 1 .. 15
BY StepsAre, Positions

\* No two steps share a position, and the proofs come last.
LEMMA PositionsOrder ==
    /\ \A a, b \in Steps : Position[a] = Position[b] => a = b
    /\ \A a \in Others, b \in PROOF_STEP_IDS : Position[a] < Position[b]
BY StepsAre, Positions DEF Others, PROOF_STEP_IDS

\* Each component has the one step that places it.
LEMMA PlacementsAre ==
    /\ Placements \subseteq Steps
    /\ \A id \in Steps : STEP_RECOVERY[id] = "repair-swap" <=> id \in Placements
    /\ \A id \in Placements : componentForStep(id) \in Host
    /\ \A a, b \in Placements : componentForStep(a) = componentForStep(b) => a = b
BY StepsAre DEF Placements, STEP_RECOVERY, componentForStep, Host

LEMMA RecoveriesAre ==
    \A id \in Steps :
        /\ STEP_RECOVERY[id] = "confirm-or-retry" <=> id = "safety-set"
        /\ STEP_RECOVERY[id] = "rewind" <=> id \in {"replay-database", "place-inline-keystore"}
BY StepsAre DEF STEP_RECOVERY

-----------------------------------------------------------------------------
(* Types, the lock, and how the journal and the command agree *)

Contents == {"old", "set", "newer"}
Databases == {None, "old", "fresh", "ready", "partial", "set"}
\* Where a command is inside a step, in the loop and around it, or in an unwind.
InStep == {"in", "claimed", "backup", "copying", "taken", "aside", "placed", "midway", "did"}
InRestore == InStep \cup {"recover", "loop", "finish", "removing"}
InUnwind == {"direction", "unwind", "staging", "removing"}

Working_ == [mode : {"run", "resume", "abandon"}, work : Journal, pc : InRestore \cup InUnwind,
             step : Steps \cup {None}, stopped : BOOLEAN, unresolved : SUBSET Host]

\* What is on the disk and in the volumes.
DiskTyped ==
    /\ dirs \in [Host -> [Names -> Contents \cup {None}]]
    /\ claims \in [Nonces -> Databases \cup {"empty", "bad", "gone"}]
    /\ vols \in [database : Databases, keystore : Contents \cup {None, "partial"},
                 password : Contents \cup {None}]

RestoreTypeOK ==
    /\ shape \in Shapes
    /\ DiskTyped
    /\ journal \in Journal \cup {None}
    /\ lock \in {None, "held", "stale"}
    /\ exec \in Working_ \cup {None}
    /\ before \in [targets : [Host -> Contents \cup {None}],
                   held : [Host -> Contents \cup {None}], database : Databases]

\* What a command read before it had the lock.
WaitingOK ==
    waiting # None =>
        /\ waiting.mode \in {"run", "resume", "abandon"} /\ waiting.planned \in BOOLEAN
        /\ waiting.mode = "run" <=> waiting.seen = None
        /\ waiting.mode = "resume" => waiting.seen.phase = "restoring"

\* A restore's journal is what it works on, except for a claim it has just made.
RestoreAgrees ==
    /\ exec.pc \in InRestore
    /\ exec.work.phase = "restoring"
    /\ journal # None =>
        /\ journal.phase = "restoring"
        /\ journal.planned = exec.work.planned
        /\ journal.steps = exec.work.steps
        /\ journal.swaps = exec.work.swaps
        /\ exec.pc # "claimed" => journal.claim = exec.work.claim

\* An unwind's journal is what it works on, except for the swaps it has undone.
UnwindAgrees ==
    /\ exec.pc \in InUnwind
    /\ journal \in Journal
    /\ exec.pc = "direction" => journal = exec.work
    /\ exec.pc # "direction" =>
        /\ journal.phase = "abandoning" /\ exec.work.phase = "abandoning"
        /\ journal.planned = exec.work.planned
        /\ journal.steps = exec.work.steps
        /\ journal.claim = exec.work.claim
        /\ \A c \in Host :
             /\ exec.work.swaps[c] = None <=> journal.swaps[c] = None
             /\ journal.swaps[c] # None =>
                  /\ journal.swaps[c].kept = exec.work.swaps[c].kept
                  /\ journal.swaps[c].undone => exec.work.swaps[c].undone

Agreement ==
    exec # None =>
        /\ lock = "held"
        /\ IF exec.mode = "abandon" THEN UnwindAgrees ELSE RestoreAgrees

Base == RestoreTypeOK /\ WaitingOK /\ Agreement

\* A command that holds the lock, by direction.
Restores == exec # None /\ exec.mode # "abandon"
Unwinds == exec # None /\ exec.mode = "abandon"

\* A restore inside a step, the removal of an earlier staging included.
Inside == exec.pc \in InStep \/ (exec.pc = "removing" /\ ~AllComplete)

\* Where a restore is in its plan, against what its journal says of the step.
AtStep ==
    Restores =>
        /\ exec.step \in Plan \cup {None}
        /\ Inside => exec.step \in Plan /\ exec.work.steps[exec.step] = "running"
        /\ exec.pc \in {"claimed", "backup"} => exec.step = "safety-set"
        /\ exec.pc = "copying" => exec.step = "stage-components"
        /\ exec.pc \in {"taken", "aside", "placed"} => exec.step \in Placements
        /\ exec.pc = "recover" => exec.step = None
        /\ exec.pc = "loop" /\ exec.step \in Others /\ ~exec.stopped
             => exec.work.steps[exec.step] = "complete"

\* The steps that come before the proofs settle in order.
Walked(j) == Walks(j.steps, stepsFor(j.planned) \ PROOF_STEP_IDS, {"complete"})

\* What holds of the journal on the disk and of the one a command works on.
AllWalked == (exec # None => Walked(exec.work)) /\ (journal # None => Walked(journal))

Core == Base /\ AtStep /\ AllWalked

LEMMA InitBase == Init => Base
<1> SUFFICES ASSUME Init PROVE Base OBVIOUS
<1>1. PICK targets \in [Host -> {None, "old", "set"}] :
        dirs = [c \in Host |-> [name \in Names |-> IF name = "target" THEN targets[c] ELSE None]]
  BY DEF Init
<1>2. dirs \in [Host -> [Names -> Contents \cup {None}]] BY <1>1 DEF Contents
<1>3. "target" \in Names /\ "replaced" \in Names BY DEF Names
<1>4. vols = [database |-> "old", keystore |-> "old", password |-> "old"] BY DEF Init
<1>5. vols \in [database : Databases, keystore : Contents \cup {None, "partial"},
                password : Contents \cup {None}]
  BY <1>4 DEF Databases, Contents
<1>6. \A c \in Host : dirs[c].target \in Contents \cup {None} /\ dirs[c].replaced \in Contents \cup {None}
  BY <1>2, <1>3
<1>7. before \in [targets : [Host -> Contents \cup {None}],
                  held : [Host -> Contents \cup {None}], database : Databases]
  <2>1. before = Here BY DEF Init
  <2>2. vols.database \in Databases BY <1>5
  <2> QED BY <2>1, <2>2, <1>6 DEF Here
<1>8. claims \in [Nonces -> Databases \cup {"empty", "bad", "gone"}] BY DEF Init, Databases
<1>9. DiskTyped BY <1>2, <1>5, <1>8 DEF DiskTyped
<1> QED BY <1>7, <1>9 DEF Init, Base, RestoreTypeOK, WaitingOK, Agreement

-----------------------------------------------------------------------------
(* Walks *)

Statuses == {"pending", "running", "complete", "failed"}

LEMMA PlansTyped == \A planned \in BOOLEAN : stepsFor(planned) \subseteq Steps
BY DEF stepsFor

\* A step that has begun and not finished may take any status.
LEMMA WalkSettles ==
    ASSUME NEW s \in [Steps -> Statuses], NEW ids \in SUBSET Steps, NEW a \in Steps,
           Walks(s, ids, {"complete"}), s[a] \notin {"pending", "complete"}, NEW v \in Statuses
    PROVE  Walks([s EXCEPT ![a] = v], ids, {"complete"})
<1> DEFINE t == [s EXCEPT ![a] = v]
<1>1. \A b \in Steps : t[b] = IF b = a THEN v ELSE s[b] OBVIOUS
<1> HIDE DEF t
<1> SUFFICES ASSUME NEW x \in ids, NEW y \in ids, Position[x] < Position[y], t[x] # "complete"
             PROVE  t[y] = "pending"
  BY DEF Walks, t
<1>2. Position[x] \in 1 .. 15 /\ Position[y] \in 1 .. 15 BY PositionsTyped
<1>3. x # y BY <1>2
<1>4. s[x] # "complete" BY <1>1
<1>5. s[y] = "pending" BY <1>4 DEF Walks
<1> QED BY <1>1, <1>5

\* The step that begins is the first that is not complete.
LEMMA WalkBegins ==
    ASSUME NEW s \in [Steps -> Statuses], NEW ids \in SUBSET Steps, NEW a \in Steps,
           Walks(s, ids, {"complete"}), s[a] # "complete",
           a \in ids => \A b \in ids : Position[b] < Position[a] => s[b] = "complete"
    PROVE  Walks([s EXCEPT ![a] = "running"], ids, {"complete"})
<1> DEFINE t == [s EXCEPT ![a] = "running"]
<1>1. \A b \in Steps : t[b] = IF b = a THEN "running" ELSE s[b] OBVIOUS
<1> HIDE DEF t
<1> SUFFICES ASSUME NEW x \in ids, NEW y \in ids, Position[x] < Position[y], t[x] # "complete"
             PROVE  t[y] = "pending"
  BY DEF Walks, t
<1>2. Position[x] \in 1 .. 15 /\ Position[y] \in 1 .. 15 BY PositionsTyped
<1>3. x # y BY <1>2
<1>4. s[x] # "complete" BY <1>1
<1>5. s[y] = "pending" BY <1>4 DEF Walks
<1>6. y # a BY <1>4
<1> QED BY <1>1, <1>5, <1>6

\* A rewind sets every step of a stretch back that ends at the unfinished one.
LEMMA WalkRewinds ==
    ASSUME NEW s \in [Steps -> Statuses], NEW ids \in SUBSET Steps, NEW a \in Steps,
           Walks(s, ids, {"complete"}), s[a] # "complete", a \in ids,
           NEW back \in SUBSET Steps,
           \A b \in ids : b \in back <=> Position[b] \in 2 .. Position[a]
    PROVE  Walks([b \in Steps |-> IF b \in back THEN "pending" ELSE s[b]], ids, {"complete"})
<1> DEFINE t == [b \in Steps |-> IF b \in back THEN "pending" ELSE s[b]]
<1>1. \A b \in Steps : t[b] = IF b \in back THEN "pending" ELSE s[b] OBVIOUS
<1> HIDE DEF t
<1> SUFFICES ASSUME NEW x \in ids, NEW y \in ids, Position[x] < Position[y], t[x] # "complete"
             PROVE  t[y] = "pending"
  BY DEF Walks, t
<1>2. Position[x] \in 1 .. 15 /\ Position[y] \in 1 .. 15 /\ Position[a] \in 1 .. 15 BY PositionsTyped
<1>3. CASE y \in back BY <1>1, <1>3
<1>4. CASE y \notin back /\ x \in back
  <2>1. Position[a] < Position[y] BY <1>2, <1>4
  <2> QED BY <1>1, <1>4, <2>1 DEF Walks
<1>5. CASE y \notin back /\ x \notin back BY <1>1, <1>5 DEF Walks
<1> QED BY <1>3, <1>4, <1>5

-----------------------------------------------------------------------------
(* What a command does with its record and the journal                       *)

\* A command that only moves on.
LEMMA GotoDoes ==
    ASSUME Base, exec # None, NEW pc \in InRestore \cup InUnwind, Goto(pc)
    PROVE  /\ exec' \in Working_ /\ exec'.pc = pc
           /\ exec'.mode = exec.mode /\ exec'.work = exec.work /\ exec'.step = exec.step
           /\ exec'.stopped = exec.stopped /\ exec'.unresolved = exec.unresolved
BY DEF Base, RestoreTypeOK, Goto, Working_

\* A restore that writes what it worked out, in memory and in the journal.
LEMMA WriteDoes ==
    ASSUME Base, exec # None, NEW work \in Journal, NEW pc \in InRestore,
           exec' = [exec EXCEPT !.work = work, !.pc = pc]
    PROVE  /\ exec' \in Working_ /\ exec'.pc = pc /\ exec'.work = work
           /\ exec'.mode = exec.mode /\ exec'.step = exec.step
           /\ exec'.stopped = exec.stopped /\ exec'.unresolved = exec.unresolved
BY DEF Base, RestoreTypeOK, Working_

\* A step that fails.
LEMMA FailDoes ==
    ASSUME Base, exec # None, FailStep
    PROVE  /\ exec' \in Working_ /\ exec'.pc = "loop" /\ journal' = exec'.work
           /\ exec'.mode = exec.mode /\ exec'.step = exec.step
           /\ exec'.stopped = (exec.step \notin PROOF_STEP_IDS)
           /\ exec'.work.phase = exec.work.phase /\ exec'.work.planned = exec.work.planned
           /\ exec'.work.claim = exec.work.claim /\ exec'.work.swaps = exec.work.swaps
           /\ exec'.work.steps = [exec.work.steps EXCEPT ![exec.step] = "failed"]
<1> DEFINE work == [exec.work EXCEPT !.steps[exec.step] = "failed"]
<1>1. exec \in Working_ /\ exec.work \in Journal BY DEF Base, RestoreTypeOK, Working_
<1>2. exec.work.steps \in [Steps -> Statuses] BY <1>1 DEF Journal, Statuses
<1>3. [exec.work.steps EXCEPT ![exec.step] = "failed"] \in [Steps -> Statuses]
  BY <1>2 DEF Statuses
<1>4. /\ work.phase = exec.work.phase /\ work.planned = exec.work.planned
      /\ work.claim = exec.work.claim /\ work.swaps = exec.work.swaps
      /\ work.taken = exec.work.taken
      /\ work.steps = [exec.work.steps EXCEPT ![exec.step] = "failed"]
  BY <1>1 DEF Journal
<1>5. work \in Journal BY <1>1, <1>3 DEF Journal, Statuses
<1>6. /\ exec' = [exec EXCEPT !.work = work, !.pc = "loop",
                              !.stopped = exec.step \notin PROOF_STEP_IDS]
      /\ journal' = work
  BY DEF FailStep
<1> HIDE DEF work
<1>7. exec' \in Working_ BY <1>1, <1>5, <1>6 DEF Working_, InRestore
<1> QED BY <1>1, <1>4, <1>6, <1>7 DEF Working_

\* A restore's journal stays what it works on.
LEMMA RestoreBase ==
    ASSUME Base, Restores, exec' \in Working_, exec'.mode = exec.mode, exec'.pc \in InRestore,
           exec'.work.phase = "restoring",
           \/ journal' = exec'.work
           \/ /\ journal' = journal /\ exec'.work.planned = exec.work.planned
              /\ exec'.work.steps = exec.work.steps /\ exec'.work.swaps = exec.work.swaps
              /\ exec'.pc # "claimed" => exec.pc # "claimed" /\ exec'.work.claim = exec.work.claim,
           DiskTyped', UNCHANGED <<shape, lock, waiting, before>>
    PROVE  Base'
<1>1. journal' \in Journal \cup {None} BY DEF Base, RestoreTypeOK, Working_
<1>2. RestoreTypeOK' BY <1>1 DEF Base, RestoreTypeOK
<1>3. WaitingOK' BY DEF Base, WaitingOK
<1>4. RestoreAgrees' BY DEF Base, Agreement, Restores, RestoreAgrees
<1> QED BY <1>2, <1>3, <1>4 DEF Base, Agreement, Restores

\* A restore that only moves on, leaving its work and the journal alone.
LEMMA MoveCore ==
    ASSUME Core, Restores, NEW pc \in InRestore \ {"claimed", "backup", "recover"}, Goto(pc),
           exec.pc # "claimed", pc \in InStep => Inside,
           pc = "removing" => Inside \/ AllComplete,
           pc = "copying" => exec.step = "stage-components",
           pc \in {"taken", "aside", "placed"} => exec.step \in Placements,
           pc = "loop" => exec.pc = "recover",
           DiskTyped', UNCHANGED <<shape, lock, waiting, before, journal>>
    PROVE  Core'
<1>1. /\ exec' \in Working_ /\ exec'.pc = pc /\ exec'.mode = exec.mode /\ exec'.work = exec.work
      /\ exec'.step = exec.step /\ exec'.stopped = exec.stopped
  BY GotoDoes DEF Core, Restores
<1>2. exec.work.phase = "restoring" BY DEF Core, Base, Agreement, Restores, RestoreAgrees
<1>3. Base' BY <1>1, <1>2, RestoreBase DEF Core
<1>4. Plan' = Plan /\ (AllComplete' <=> AllComplete) BY <1>1 DEF Plan, stepsFor, AllComplete
<1>5. None \notin Others BY DEF Others
<1>6. AtStep'
  <2>1. Inside' => Inside BY <1>1, <1>4 DEF Inside
  <2> QED BY <1>1, <1>4, <1>5, <2>1 DEF Core, AtStep, Restores
<1>7. AllWalked' BY <1>1 DEF Core, AllWalked, Walked, stepsFor, Restores
<1> QED BY <1>3, <1>6, <1>7 DEF Core

\* A restore that fails inside a step.
LEMMA FailCore ==
    ASSUME Core, Restores, Inside, FailStep, DiskTyped', UNCHANGED ThisStep
    PROVE  Core'
<1>1. /\ exec' \in Working_ /\ exec'.pc = "loop" /\ journal' = exec'.work
      /\ exec'.mode = exec.mode /\ exec'.step = exec.step
      /\ exec'.stopped = (exec.step \notin PROOF_STEP_IDS)
      /\ exec'.work.phase = exec.work.phase /\ exec'.work.planned = exec.work.planned
      /\ exec'.work.steps = [exec.work.steps EXCEPT ![exec.step] = "failed"]
  BY FailDoes DEF Core, Restores
<1>2. exec.work.phase = "restoring" BY DEF Core, Base, Agreement, Restores, RestoreAgrees
<1>3. UNCHANGED <<shape, lock, waiting, before>> BY DEF ThisStep
<1>4. Base' BY <1>1, <1>2, <1>3, RestoreBase DEF Core, InRestore
<1>5. AtStep'
  <2>1. Plan' = Plan BY <1>1, <1>3 DEF Plan, stepsFor
  <2>2. exec.step \in Plan \cup {None} BY DEF Core, AtStep
  <2> QED BY <1>1, <2>1, <2>2 DEF AtStep, Inside, InStep, Others, Restores
<1>6. /\ exec.work.planned \in BOOLEAN /\ exec.work.steps \in [Steps -> Statuses]
  BY DEF Core, Base, RestoreTypeOK, Working_, Journal, Restores, Statuses
<1>7. /\ Plan \subseteq Steps /\ exec.step \in Plan /\ exec.work.steps[exec.step] = "running"
  BY <1>6, PlansTyped DEF Core, AtStep, Plan
<1>8. Walked(exec.work)' 
  <2>1. Walks(exec.work.steps, Plan \ PROOF_STEP_IDS, {"complete"})
    BY DEF Core, AllWalked, Walked, Plan, Restores
  <2>2. Walks([exec.work.steps EXCEPT ![exec.step] = "failed"], Plan \ PROOF_STEP_IDS, {"complete"})
    BY <1>6, <1>7, <2>1, WalkSettles DEF Statuses
  <2>3. stepsFor(exec.work.planned)' = Plan BY <1>1, <1>3 DEF Plan, stepsFor
  <2> QED BY <1>1, <2>2, <2>3 DEF Walked
<1>9. AllWalked' BY <1>1, <1>8 DEF AllWalked
<1> QED BY <1>4, <1>5, <1>9 DEF Core

\* What a recovery decides.
LEMMA RecoverCore ==
    ASSUME Core, Restoring("recover"), NEW work \in Journal, Recovered(work),
           work.phase = exec.work.phase, work.planned = exec.work.planned, Walked(work),
           DiskTyped', UNCHANGED <<shape, lock, waiting, before>>
    PROVE  Core' /\ exec'.work = work /\ exec'.mode = exec.mode /\ exec'.pc = "loop" /\ exec'.step = None
<1>1. /\ exec' \in Working_ /\ exec'.pc = "loop" /\ exec'.work = work
      /\ exec'.mode = exec.mode /\ exec'.step = exec.step /\ journal' = work
  BY WriteDoes DEF Core, Recovered, Restoring, InRestore
<1>2. exec.work.phase = "restoring" BY DEF Core, Base, Agreement, Restoring, RestoreAgrees
<1>3. Base' BY <1>1, <1>2, RestoreBase DEF Core, InRestore, Restoring, Restores
<1>4. exec.step = None BY DEF Core, AtStep, Restoring, Restores
<1>5. AtStep' BY <1>1, <1>4 DEF AtStep, Inside, InStep, Others, Restores
<1>6. Walked(work)' BY DEF Walked, stepsFor
<1>7. AllWalked' BY <1>1, <1>6 DEF AllWalked, Walked, stepsFor
<1> QED BY <1>1, <1>3, <1>4, <1>5, <1>7 DEF Core

\* A command that ends, leaving the journal, what it worked on, or none.
LEMMA EndCore ==
    ASSUME Core, exec # None, exec' = None, lock' \in {None, "stale"},
           journal' \in {journal, exec.work, None}, DiskTyped', UNCHANGED <<shape, waiting, before>>
    PROVE  Core'
<1>1. exec.work \in Journal BY DEF Core, Base, RestoreTypeOK, Working_
<1>2. Base' BY <1>1 DEF Core, Base, RestoreTypeOK, Agreement, WaitingOK
<1>3. AtStep' BY DEF AtStep, Restores
<1>4. AllWalked' BY DEF Core, AllWalked, Walked, stepsFor
<1> QED BY <1>2, <1>3, <1>4 DEF Core

\* A step that leaves the journal and the command alone.
LEMMA IdleCore ==
    ASSUME Core, UNCHANGED <<shape, journal, exec, before>>, WaitingOK', DiskTyped',
           lock' = lock \/ (exec = None /\ lock' = None)
    PROVE  Core'
<1>1. Base' BY DEF Core, Base, RestoreTypeOK, Agreement, UnwindAgrees, RestoreAgrees
<1>2. Plan' = Plan /\ (AllComplete' <=> AllComplete) BY DEF Plan, stepsFor, AllComplete
<1>3. AtStep' BY <1>2 DEF Core, AtStep, Restores, Inside
<1>4. AllWalked' BY DEF Core, AllWalked, Walked, stepsFor
<1> QED BY <1>1, <1>3, <1>4 DEF Core

-----------------------------------------------------------------------------
(* Every step keeps the core                                                 *)

\* One rename inside one host target's directories.
LEMMA RenameDoes ==
    ASSUME DiskTyped, NEW c \in Host, NEW from \in Names, NEW to \in Names, from # to,
           Rename(c, from, to)
    PROVE  /\ dirs' \in [Host -> [Names -> Contents \cup {None}]]
           /\ \A d \in Host, name \in Names :
                dirs'[d][name] = IF d # c THEN dirs[d][name]
                                 ELSE IF name = from THEN None
                                 ELSE IF name = to THEN dirs[c][from] ELSE dirs[c][name]
<1>1. dirs \in [Host -> [Names -> Contents \cup {None}]] BY DEF DiskTyped
<1>2. dirs' = [dirs EXCEPT ![c] = [[dirs[c] EXCEPT ![to] = dirs[c][from]] EXCEPT ![from] = None]]
  BY <1>1 DEF Rename
<1>3. [[dirs[c] EXCEPT ![to] = dirs[c][from]] EXCEPT ![from] = None] \in [Names -> Contents \cup {None}]
  BY <1>1
<1>4. dirs' \in [Host -> [Names -> Contents \cup {None}]] BY <1>1, <1>2, <1>3
<1>5. dirs'[c] = [[dirs[c] EXCEPT ![to] = dirs[c][from]] EXCEPT ![from] = None] BY <1>1, <1>2
<1>6. \A d \in Host : d # c => dirs'[d] = dirs[d] BY <1>1, <1>2
<1>7. \A name \in Names : dirs'[c][name] = IF name = from THEN None
                                           ELSE IF name = to THEN dirs[c][from] ELSE dirs[c][name]
  BY <1>1, <1>5
<1> QED BY <1>4, <1>6, <1>7

LEMMA NamesAre == Names = {"target", "restoring", "replaced", "abandoned"}
BY DEF Names

LEMMA CoreReads ==
    ASSUME Core, NEW mode \in {"run", "resume", "abandon"}, NEW planned \in BOOLEAN,
           ReadJournal(mode, planned)
    PROVE  Core'
<1>1. waiting' = [mode |-> mode, seen |-> journal, planned |-> planned] BY DEF ReadJournal
<1>2. mode = "run" <=> journal = None BY DEF ReadJournal
<1>3. mode = "resume" => journal.phase = "restoring" BY DEF ReadJournal
<1>4. WaitingOK' BY <1>1, <1>2, <1>3 DEF WaitingOK
<1>5. DiskTyped' BY DEF Core, Base, RestoreTypeOK, DiskTyped, ReadJournal
<1> QED BY <1>4, <1>5, IdleCore DEF ReadJournal

LEMMA FreshJournalIs ==
    ASSUME NEW planned \in BOOLEAN
    PROVE  /\ FreshJournal(planned) \in Journal
           /\ FreshJournal(planned).phase = "restoring" /\ FreshJournal(planned).planned = planned
           /\ FreshJournal(planned).claim = 0
           /\ \A id \in Steps : FreshJournal(planned).steps[id] = "pending"
           /\ \A c \in Host : FreshJournal(planned).swaps[c] = None
BY DEF FreshJournal, Journal

\* What a command that gets the lock starts with.
LEMMA OpenDoes ==
    ASSUME Core, OpenLock, exec' # exec
    PROVE  /\ exec = None /\ waiting # None /\ journal = waiting.seen
           /\ UNCHANGED <<shape, dirs, staging, claims, vols, journal>>
           /\ exec' \in Working_ /\ exec'.mode = waiting.mode /\ exec'.step = None
           /\ exec'.stopped = FALSE /\ exec'.unresolved = {}
           /\ exec'.pc = IF waiting.mode = "abandon" THEN "direction" ELSE "recover"
           /\ IF journal = None
              THEN waiting.mode = "run" /\ before' = Here /\ exec'.work = FreshJournal(waiting.planned)
              ELSE waiting.mode # "run" /\ before' = before /\ exec'.work = journal
<1>1. exec = None BY DEF Core, Base, Agreement, OpenLock
<1>2. /\ waiting # None /\ journal = waiting.seen
      /\ exec' = IF waiting.mode = "abandon"
                 THEN [Working("abandon", journal) EXCEPT !.pc = "direction"]
                 ELSE Working(waiting.mode,
                        IF journal = None THEN FreshJournal(waiting.planned) ELSE journal)
      /\ IF waiting.mode = "run" THEN before' = Here ELSE UNCHANGED before
      /\ UNCHANGED <<shape, dirs, staging, claims, vols, journal>>
  BY DEF OpenLock, ReadTheSame
<1>3. /\ waiting.mode \in {"run", "resume", "abandon"} /\ waiting.planned \in BOOLEAN
      /\ waiting.mode = "run" <=> journal = None
  BY <1>2 DEF Core, Base, WaitingOK
<1>4. journal \in Journal \cup {None} BY DEF Core, Base, RestoreTypeOK
<1>5. CASE waiting.mode = "abandon"
  <2>1. exec' = [Working("abandon", journal) EXCEPT !.pc = "direction"] BY <1>2, <1>5
  <2>2. exec' = [mode |-> "abandon", work |-> journal, pc |-> "direction", step |-> None,
                 stopped |-> FALSE, unresolved |-> {}]
    BY <2>1 DEF Working
  <2>3. journal \in Journal BY <1>3, <1>4, <1>5
  <2>4. exec' \in Working_ BY <2>2, <2>3 DEF Working_, InUnwind
  <2> QED BY <1>1, <1>2, <1>3, <1>5, <2>2, <2>4
<1>6. CASE waiting.mode # "abandon"
  <2> DEFINE work == IF journal = None THEN FreshJournal(waiting.planned) ELSE journal
  <2>1. exec' = [mode |-> waiting.mode, work |-> work, pc |-> "recover", step |-> None,
                 stopped |-> FALSE, unresolved |-> {}]
    BY <1>2, <1>6 DEF Working
  <2>2. work \in Journal BY <1>3, <1>4, FreshJournalIs
  <2>3. exec' \in Working_ BY <1>3, <2>1, <2>2 DEF Working_, InRestore
  <2> QED BY <1>1, <1>2, <1>3, <1>6, <2>1, <2>3
<1> QED BY <1>5, <1>6

LEMMA HereTyped ==
    ASSUME DiskTyped
    PROVE  /\ Here \in [targets : [Host -> Contents \cup {None}],
                        held : [Host -> Contents \cup {None}], database : Databases]
           /\ Here.database = vols.database
           /\ \A c \in Host : /\ Here.targets[c] = dirs[c].target
                              /\ Here.held[c] = IF dirs[c].target # None THEN dirs[c].target
                                                                         ELSE dirs[c].replaced
<1>1. \A c \in Host : dirs[c].target \in Contents \cup {None} /\ dirs[c].replaced \in Contents \cup {None}
  BY NamesAre DEF DiskTyped
<1>2. vols.database \in Databases BY DEF DiskTyped
<1> QED BY <1>1, <1>2 DEF Here

LEMMA CoreOpens == ASSUME Core, OpenLock PROVE Core'
<1>0. DiskTyped /\ DiskTyped' BY DEF Core, Base, RestoreTypeOK, DiskTyped, OpenLock
<1>1. CASE exec' = exec
  <2>1. exec = None BY DEF Core, Base, Agreement, OpenLock
  <2>2. UNCHANGED <<shape, journal>> /\ waiting' = None BY DEF OpenLock
  <2>3. lock' \in {None, "held", "stale"} /\ before' \in {before, Here} BY DEF OpenLock, Core, Base, RestoreTypeOK
  <2>4. Base' BY <1>0, <1>1, <2>1, <2>2, <2>3, HereTyped DEF Core, Base, RestoreTypeOK, WaitingOK, Agreement
  <2>5. AtStep' BY <1>1, <2>1 DEF AtStep, Restores
  <2>6. AllWalked' BY <1>1, <2>1, <2>2 DEF Core, AllWalked, Walked, stepsFor
  <2> QED BY <2>4, <2>5, <2>6 DEF Core
<1>2. CASE exec' # exec
  <2>1. /\ exec = None /\ waiting # None /\ journal = waiting.seen
        /\ UNCHANGED <<shape, dirs, staging, claims, vols, journal>>
        /\ exec' \in Working_ /\ exec'.mode = waiting.mode /\ exec'.step = None
        /\ exec'.pc = IF waiting.mode = "abandon" THEN "direction" ELSE "recover"
        /\ IF journal = None
           THEN waiting.mode = "run" /\ before' = Here /\ exec'.work = FreshJournal(waiting.planned)
           ELSE waiting.mode # "run" /\ before' = before /\ exec'.work = journal
    BY <1>2, OpenDoes
  <2>2. lock' = "held" /\ waiting' = None BY <1>2, <2>1 DEF OpenLock
  <2>3. /\ waiting.planned \in BOOLEAN /\ (waiting.mode = "resume" => journal.phase = "restoring")
    BY <2>1 DEF Core, Base, WaitingOK
  <2>4. RestoreTypeOK' BY <1>0, <2>1, <2>2, HereTyped DEF Core, Base, RestoreTypeOK
  <2>5. exec'.mode # "abandon" => RestoreAgrees'
    <3> SUFFICES ASSUME exec'.mode # "abandon" PROVE RestoreAgrees' OBVIOUS
    <3>1. CASE journal = None BY <2>1, <2>3, <3>1, FreshJournalIs DEF RestoreAgrees, InRestore
    <3>2. CASE journal # None
      <4>1. waiting.mode = "resume" BY <2>1, <3>2 DEF Core, Base, WaitingOK
      <4> QED BY <2>1, <2>3, <3>2, <4>1 DEF RestoreAgrees, InRestore
    <3> QED BY <3>1, <3>2
  <2>6. exec'.mode = "abandon" => UnwindAgrees'
    BY <2>1 DEF Core, Base, RestoreTypeOK, UnwindAgrees, InUnwind
  <2>7. Agreement' BY <2>2, <2>5, <2>6 DEF Agreement
  <2>8. AtStep' BY <2>1 DEF AtStep, Inside, InStep, Others, Restores
  <2>9. AllWalked'
    <3>1. CASE journal = None
      <4>1. \A id \in Steps : exec'.work.steps[id] = "pending" /\ exec'.work.planned \in BOOLEAN
        BY <2>1, <2>3, <3>1, FreshJournalIs
      <4>2. stepsFor(exec.work.planned)' \subseteq Steps BY DEF stepsFor
      <4> QED BY <2>1, <3>1, <4>1, <4>2 DEF AllWalked, Walked, Walks
    <3>2. CASE journal # None BY <2>1, <3>2 DEF Core, AllWalked, Walked, stepsFor
    <3> QED BY <3>1, <3>2
  <2> QED BY <2>2, <2>4, <2>7, <2>8, <2>9 DEF Core, Base, WaitingOK
<1> QED BY <1>1, <1>2

\* The parts of a record a command works with.
LEMMA WorkTyped ==
    ASSUME Core, exec # None
    PROVE  /\ exec \in Working_ /\ exec.work \in Journal /\ exec.work.planned \in BOOLEAN
           /\ exec.work.steps \in [Steps -> Statuses] /\ Plan \subseteq Steps
           /\ exec.work.claim \in Nonces \cup {0}
           /\ exec.work.swaps \in [Host -> Swap \cup {None}]
           /\ Walks(exec.work.steps, Plan \ PROOF_STEP_IDS, {"complete"})
<1>1. /\ exec \in Working_ /\ exec.work \in Journal /\ exec.work.planned \in BOOLEAN
      /\ exec.work.steps \in [Steps -> Statuses]
      /\ exec.work.claim \in Nonces \cup {0}
      /\ exec.work.swaps \in [Host -> Swap \cup {None}]
  BY DEF Core, Base, RestoreTypeOK, Working_, Journal, Statuses
<1>2. Plan \subseteq Steps BY <1>1, PlansTyped DEF Plan
<1> QED BY <1>1, <1>2 DEF Core, AllWalked, Walked, Plan

\* The step a recovery is about has begun and not finished.
LEMMA RecoveringIs ==
    ASSUME Core, NEW policy, NEW id \in Steps, Recovering(policy, id)
    PROVE  /\ Restoring("recover") /\ Restores /\ exec.step = None
           /\ id \in Plan /\ STEP_RECOVERY[id] = policy
           /\ exec.work.steps[id] \in {"running", "failed"}
BY DEF Core, AtStep, Recovering, Restoring, Restores, Interrupted, NeedsRecovery

LEMMA SettlesWalked ==
    ASSUME Core, exec # None, NEW id \in Steps, exec.work.steps[id] \notin {"pending", "complete"},
           NEW v \in Statuses, NEW work \in Journal, work.planned = exec.work.planned,
           work.steps = [exec.work.steps EXCEPT ![id] = v]
    PROVE  Walked(work)
BY WorkTyped, WalkSettles DEF Walked, Plan

LEMMA RetryIs ==
    ASSUME Core, exec # None, NEW ids \in SUBSET Steps
    PROVE  /\ Retry(ids) \in Journal
           /\ Retry(ids).phase = exec.work.phase /\ Retry(ids).planned = exec.work.planned
           /\ Retry(ids).claim = exec.work.claim /\ Retry(ids).swaps = exec.work.swaps
           /\ Retry(ids).taken = exec.work.taken
           /\ Retry(ids).steps = [id \in Steps |-> IF id \in ids THEN "pending"
                                                                  ELSE exec.work.steps[id]]
<1> DEFINE steps == [id \in Steps |-> IF id \in ids THEN "pending" ELSE exec.work.steps[id]]
<1>1. steps \in [Steps -> Statuses] BY WorkTyped DEF Statuses
<1>2. exec.work \in Journal BY WorkTyped
<1>3. Retry(ids) = [exec.work EXCEPT !.steps = steps] BY DEF Retry
<1> HIDE DEF steps
<1>4. Retry(ids) \in Journal BY <1>1, <1>2, <1>3 DEF Journal, Statuses
<1>5. /\ Retry(ids).phase = exec.work.phase /\ Retry(ids).planned = exec.work.planned
      /\ Retry(ids).claim = exec.work.claim /\ Retry(ids).swaps = exec.work.swaps
      /\ Retry(ids).taken = exec.work.taken
      /\ Retry(ids).steps = steps
  BY <1>2, <1>3 DEF Journal
<1> QED BY <1>4, <1>5 DEF steps

LEMMA RetryOne ==
    ASSUME Core, exec # None, NEW id \in Steps
    PROVE  Retry({id}).steps = [exec.work.steps EXCEPT ![id] = "pending"]
<1>1. exec.work.steps \in [Steps -> Statuses] BY WorkTyped
<1>2. Retry({id}).steps = [i \in Steps |-> IF i \in {id} THEN "pending" ELSE exec.work.steps[i]]
  BY RetryIs
<1> QED BY <1>1, <1>2

LEMMA DiskKept ==
    ASSUME Core, UNCHANGED <<dirs, claims, vols>>
    PROVE  DiskTyped'
BY DEF Core, Base, RestoreTypeOK, DiskTyped

LEMMA CoreNothing == ASSUME Core, NothingToRecover PROVE Core'
<1>1. DiskTyped' BY DiskKept DEF NothingToRecover
<1>2. Restores /\ exec.pc = "recover" /\ Goto("loop") BY DEF NothingToRecover, Restoring, Restores
<1>3. UNCHANGED <<shape, lock, waiting, before, journal>> BY DEF NothingToRecover, ThisStep
<1> QED BY <1>1, <1>2, <1>3, MoveCore DEF InRestore, InStep

LEMMA CoreRetry == ASSUME Core, RecoverRetry PROVE Core'
<1>1. DiskTyped' BY DiskKept DEF RecoverRetry
<1>2. PICK id \in Steps : Recovering("retry", id) /\ Recovered(Retry({id})) BY DEF RecoverRetry
<1>3. UNCHANGED <<shape, lock, waiting, before>> BY DEF RecoverRetry, ThisStep
<1>4. /\ Restoring("recover") /\ exec # None /\ exec.work.steps[id] \in {"running", "failed"}
  BY <1>2, RecoveringIs DEF Restores
<1>5. /\ Retry({id}) \in Journal /\ Retry({id}).planned = exec.work.planned
      /\ Retry({id}).phase = exec.work.phase
      /\ Retry({id}).steps = [exec.work.steps EXCEPT ![id] = "pending"]
  BY <1>4, RetryIs, RetryOne
<1>6. Walked(Retry({id})) BY <1>4, <1>5, SettlesWalked DEF Statuses
<1> QED BY <1>1, <1>2, <1>3, <1>4, <1>5, <1>6, RecoverCore

\* The journal that says the safety set is there.
LEMMA TakenIs ==
    ASSUME Core, exec # None
    PROVE  LET work == [exec.work EXCEPT !.steps["safety-set"] = "complete", !.taken = TRUE]
           IN  /\ work \in Journal
               /\ work.phase = exec.work.phase /\ work.planned = exec.work.planned
               /\ work.claim = exec.work.claim /\ work.swaps = exec.work.swaps
               /\ work.steps = [exec.work.steps EXCEPT !["safety-set"] = "complete"]
<1>1. exec.work \in Journal BY WorkTyped
<1>2. [exec.work.steps EXCEPT !["safety-set"] = "complete"]
        \in [Steps -> {"pending", "running", "complete", "failed"}]
  BY <1>1 DEF Journal
<1> QED BY <1>1, <1>2 DEF Journal

\* A safety set to take afresh.
LEMMA UnclaimedIs ==
    ASSUME Core, exec # None
    PROVE  LET work == [Retry({"safety-set"}) EXCEPT !.claim = 0]
           IN  /\ work \in Journal
               /\ work.phase = exec.work.phase /\ work.planned = exec.work.planned
               /\ work.claim = 0 /\ work.swaps = exec.work.swaps
               /\ work.steps = [exec.work.steps EXCEPT !["safety-set"] = "pending"]
<1>1. "safety-set" \in Steps BY StepsAre
<1>2. /\ Retry({"safety-set"}) \in Journal
      /\ Retry({"safety-set"}).planned = exec.work.planned
      /\ Retry({"safety-set"}).phase = exec.work.phase
      /\ Retry({"safety-set"}).swaps = exec.work.swaps
      /\ Retry({"safety-set"}).steps = [exec.work.steps EXCEPT !["safety-set"] = "pending"]
  BY <1>1, RetryIs, RetryOne
<1> QED BY <1>2 DEF Journal

\* What the claim makes a recovery of the safety set do.
LEMMA SafetySetCases ==
    ASSUME Core, RecoverSafetySet
    PROVE  /\ Restoring("recover") /\ Restores /\ "safety-set" \in Plan
           /\ exec.work.steps["safety-set"] \in {"running", "failed"}
           /\ UNCHANGED <<shape, waiting, before, dirs, staging, claims, vols>>
           /\ LET claim == exec.work.claim
              IN \/ /\ claim = 0 \/ claims[claim] = "gone"
                    /\ Recovered([Retry({"safety-set"}) EXCEPT !.claim = 0])
                    /\ UNCHANGED lock
                 \/ Recovered(Retry({"safety-set"})) /\ UNCHANGED lock
                 \/ Release /\ UNCHANGED journal
                 \/ /\ claim # 0 /\ claims[claim] \notin {"gone", "empty", "bad"}
                    /\ Recovered([exec.work EXCEPT !.steps["safety-set"] = "complete",
                                                   !.taken = TRUE])
                    /\ UNCHANGED lock
<1>1. "safety-set" \in Steps BY StepsAre
<1>2. Recovering("confirm-or-retry", "safety-set") BY DEF RecoverSafetySet
<1>3. /\ Restoring("recover") /\ Restores /\ "safety-set" \in Plan
      /\ exec.work.steps["safety-set"] \in {"running", "failed"}
  BY <1>1, <1>2, RecoveringIs
<1> QED BY <1>3 DEF RecoverSafetySet

LEMMA CoreSafetySet == ASSUME Core, RecoverSafetySet PROVE Core'
<1>1. "safety-set" \in Steps BY StepsAre
<1>2. /\ Restoring("recover") /\ exec # None
      /\ exec.work.steps["safety-set"] \in {"running", "failed"}
      /\ UNCHANGED <<shape, waiting, before>>
  BY SafetySetCases DEF Restores
<1>3. DiskTyped' BY DiskKept, SafetySetCases
<1>4. CASE Recovered([Retry({"safety-set"}) EXCEPT !.claim = 0]) /\ UNCHANGED lock
  <2> DEFINE work == [Retry({"safety-set"}) EXCEPT !.claim = 0]
  <2>1. /\ work \in Journal /\ work.planned = exec.work.planned /\ work.phase = exec.work.phase
        /\ work.steps = [exec.work.steps EXCEPT !["safety-set"] = "pending"]
    BY <1>2, UnclaimedIs
  <2>2. Walked(work) BY <1>1, <1>2, <2>1, SettlesWalked DEF Statuses
  <2> HIDE DEF work
  <2>3. Recovered(work) BY <1>4 DEF work
  <2> QED BY <1>2, <1>3, <1>4, <2>1, <2>2, <2>3, RecoverCore
<1>5. CASE Recovered(Retry({"safety-set"})) /\ UNCHANGED lock
  <2>1. /\ Retry({"safety-set"}) \in Journal /\ Retry({"safety-set"}).planned = exec.work.planned
        /\ Retry({"safety-set"}).phase = exec.work.phase
        /\ Retry({"safety-set"}).steps = [exec.work.steps EXCEPT !["safety-set"] = "pending"]
    BY <1>1, <1>2, RetryIs, RetryOne
  <2>2. Walked(Retry({"safety-set"})) BY <1>1, <1>2, <2>1, SettlesWalked DEF Statuses
  <2> QED BY <1>2, <1>3, <1>5, <2>1, <2>2, RecoverCore
<1>6. CASE Release /\ UNCHANGED journal BY <1>2, <1>3, <1>6, EndCore DEF Release
<1>7. CASE /\ Recovered([exec.work EXCEPT !.steps["safety-set"] = "complete", !.taken = TRUE])
           /\ UNCHANGED lock
  <2> DEFINE work == [exec.work EXCEPT !.steps["safety-set"] = "complete", !.taken = TRUE]
  <2>1. /\ work \in Journal /\ work.planned = exec.work.planned /\ work.phase = exec.work.phase
        /\ work.steps = [exec.work.steps EXCEPT !["safety-set"] = "complete"]
    BY <1>2, TakenIs
  <2>2. Walked(work) BY <1>1, <1>2, <2>1, SettlesWalked DEF Statuses
  <2> HIDE DEF work
  <2>3. Recovered(work) BY <1>7 DEF work
  <2> QED BY <1>2, <1>3, <1>7, <2>1, <2>2, <2>3, RecoverCore
<1> QED BY <1>4, <1>5, <1>6, <1>7, SafetySetCases

\* The journal a repaired swap is written into.
LEMMA RepairedIs ==
    ASSUME Core, exec # None, NEW id \in Steps, NEW c \in Host
    PROVE  LET work == [exec.work EXCEPT !.steps[id] = "complete",
                          !.swaps[c] = IF @ # None THEN @
                                       ELSE [kept |-> Exists(c, "replaced"), undone |-> FALSE]]
           IN  /\ work \in Journal
               /\ work.phase = exec.work.phase /\ work.planned = exec.work.planned
               /\ work.claim = exec.work.claim
               /\ work.steps = [exec.work.steps EXCEPT ![id] = "complete"]
               /\ work.swaps = [exec.work.swaps EXCEPT ![c] =
                    IF exec.work.swaps[c] # None THEN exec.work.swaps[c]
                    ELSE [kept |-> Exists(c, "replaced"), undone |-> FALSE]]
<1> DEFINE swap == IF exec.work.swaps[c] # None THEN exec.work.swaps[c]
                   ELSE [kept |-> Exists(c, "replaced"), undone |-> FALSE]
           steps == [exec.work.steps EXCEPT ![id] = "complete"]
           swaps == [exec.work.swaps EXCEPT ![c] = swap]
           work == [exec.work EXCEPT !.steps[id] = "complete",
                          !.swaps[c] = IF @ # None THEN @
                                       ELSE [kept |-> Exists(c, "replaced"), undone |-> FALSE]]
<1>1. /\ exec.work \in Journal /\ exec.work.steps \in [Steps -> Statuses]
      /\ exec.work.swaps \in [Host -> Swap \cup {None}]
  BY WorkTyped
<1>2. Exists(c, "replaced") \in BOOLEAN BY DEF Exists
<1>3. swap \in Swap \cup {None} BY <1>1, <1>2 DEF Swap
<1>4. work = [exec.work EXCEPT !.steps = steps, !.swaps = swaps] BY <1>1 DEF Journal
<1> HIDE DEF swap
<1>5. swaps \in [Host -> Swap \cup {None}] /\ steps \in [Steps -> Statuses] BY <1>1, <1>3 DEF Statuses
<1> HIDE DEF steps, swaps, work
<1>6. /\ work \in Journal /\ work.phase = exec.work.phase /\ work.planned = exec.work.planned
      /\ work.claim = exec.work.claim /\ work.steps = steps /\ work.swaps = swaps
  BY <1>1, <1>4, <1>5 DEF Journal, Statuses
<1> QED BY <1>6 DEF work, swap, steps, swaps

\* What a look at the directories makes a repair do.
LEMMA RepairCases ==
    ASSUME Core, repairSwap
    PROVE  \E id \in Placements :
             LET c == componentForStep(id)
                 work == [exec.work EXCEPT !.steps[id] = "complete",
                            !.swaps[c] = IF @ # None THEN @
                                         ELSE [kept |-> Exists(c, "replaced"), undone |-> FALSE]]
             IN  /\ c \in Host /\ id \in Plan /\ exec.work.steps[id] \in {"running", "failed"}
                 /\ Restoring("recover") /\ Restores
                 /\ UNCHANGED <<shape, waiting, before, staging, claims, vols>>
                 /\ \/ Release /\ UNCHANGED <<journal, dirs>>
                    \/ /\ Exists(c, "restoring") /\ Exists(c, "target") /\ ~Exists(c, "replaced")
                       /\ Rename(c, "target", "replaced") /\ UNCHANGED <<exec, journal, lock>>
                    \/ /\ Exists(c, "restoring") /\ ~Exists(c, "target")
                       /\ Rename(c, "restoring", "target") /\ UNCHANGED <<exec, journal, lock>>
                    \/ /\ ~Exists(c, "restoring") /\ dirs[c].target = "set"
                       /\ Recovered(work) /\ UNCHANGED <<dirs, lock>>
                    \/ /\ ~Exists(c, "restoring") /\ dirs[c].target # "set"
                       /\ ~Exists(c, "replaced")
                       /\ Recovered(exec.work) /\ UNCHANGED <<dirs, lock>>
<1>1. PICK id \in Steps :
        LET c == componentForStep(id)
            work == [exec.work EXCEPT !.steps[id] = "complete",
                       !.swaps[c] = IF @ # None THEN @
                                    ELSE [kept |-> Exists(c, "replaced"), undone |-> FALSE]]
        IN  /\ Recovering("repair-swap", id)
            /\ \/ Release /\ UNCHANGED <<journal, dirs>>
               \/ /\ Exists(c, "restoring") /\ Exists(c, "target") /\ ~Exists(c, "replaced")
                  /\ Rename(c, "target", "replaced") /\ UNCHANGED <<exec, journal, lock>>
               \/ /\ Exists(c, "restoring") /\ ~Exists(c, "target")
                  /\ Rename(c, "restoring", "target") /\ UNCHANGED <<exec, journal, lock>>
               \/ /\ ~Exists(c, "restoring") /\ dirs[c].target = "set"
                  /\ Recovered(work) /\ UNCHANGED <<dirs, lock>>
               \/ /\ ~Exists(c, "restoring") /\ dirs[c].target # "set"
                  /\ ~Exists(c, "replaced")
                  /\ Recovered(exec.work) /\ UNCHANGED <<dirs, lock>>
            /\ UNCHANGED <<shape, waiting, before, staging, claims, vols>>
  BY ZenonT(30) DEF repairSwap
<1>2. /\ Restoring("recover") /\ Restores /\ id \in Plan /\ STEP_RECOVERY[id] = "repair-swap"
      /\ exec.work.steps[id] \in {"running", "failed"}
  BY <1>1, RecoveringIs
<1>3. id \in Placements /\ componentForStep(id) \in Host BY <1>2, PlacementsAre
<1> QED BY <1>1, <1>2, <1>3

LEMMA CoreRepair == ASSUME Core, repairSwap PROVE Core'
<1>1. PICK id \in Placements :
        LET c == componentForStep(id)
            work == [exec.work EXCEPT !.steps[id] = "complete",
                       !.swaps[c] = IF @ # None THEN @
                                    ELSE [kept |-> Exists(c, "replaced"), undone |-> FALSE]]
        IN  /\ c \in Host /\ id \in Plan /\ exec.work.steps[id] \in {"running", "failed"}
            /\ Restoring("recover") /\ Restores
            /\ UNCHANGED <<shape, waiting, before, staging, claims, vols>>
            /\ \/ Release /\ UNCHANGED <<journal, dirs>>
               \/ /\ Exists(c, "restoring") /\ Exists(c, "target") /\ ~Exists(c, "replaced")
                  /\ Rename(c, "target", "replaced") /\ UNCHANGED <<exec, journal, lock>>
               \/ /\ Exists(c, "restoring") /\ ~Exists(c, "target")
                  /\ Rename(c, "restoring", "target") /\ UNCHANGED <<exec, journal, lock>>
               \/ /\ ~Exists(c, "restoring") /\ dirs[c].target = "set"
                  /\ Recovered(work) /\ UNCHANGED <<dirs, lock>>
               \/ /\ ~Exists(c, "restoring") /\ dirs[c].target # "set"
                  /\ ~Exists(c, "replaced")
                  /\ Recovered(exec.work) /\ UNCHANGED <<dirs, lock>>
  BY RepairCases
<1> DEFINE c == componentForStep(id)
           work == [exec.work EXCEPT !.steps[id] = "complete",
                      !.swaps[c] = IF @ # None THEN @
                                   ELSE [kept |-> Exists(c, "replaced"), undone |-> FALSE]]
<1>2. c \in Host /\ id \in Steps /\ exec # None /\ Restoring("recover") /\ Restores
      /\ exec.work.steps[id] \in {"running", "failed"}
      /\ UNCHANGED <<shape, waiting, before, claims, vols>>
  BY <1>1, PlacementsAre DEF Restores
<1>3. DiskTyped /\ WaitingOK' BY <1>2 DEF Core, Base, RestoreTypeOK, WaitingOK
<1>4. CASE Release /\ UNCHANGED <<journal, dirs>>
  BY <1>2, <1>4, DiskKept, EndCore DEF Release
<1>5. ASSUME NEW from \in Names, NEW to \in Names, from # to,
             Rename(c, from, to), UNCHANGED <<exec, journal, lock>>
      PROVE  Core'
  <2>1. dirs' \in [Host -> [Names -> Contents \cup {None}]] BY <1>2, <1>3, <1>5, RenameDoes
  <2>2. DiskTyped' BY <1>2, <1>3, <2>1 DEF DiskTyped
  <2> QED BY <1>2, <1>3, <1>5, <2>2, IdleCore
<1>6. CASE Recovered(work) /\ UNCHANGED <<dirs, lock>>
  <2>1. /\ work \in Journal /\ work.phase = exec.work.phase /\ work.planned = exec.work.planned
        /\ work.steps = [exec.work.steps EXCEPT ![id] = "complete"]
    BY <1>2, RepairedIs
  <2> HIDE DEF work
  <2>2. Walked(work) BY <1>2, <2>1, SettlesWalked DEF Statuses
  <2>3. DiskTyped' BY <1>2, <1>6, DiskKept
  <2> QED BY <1>2, <1>6, <2>1, <2>2, <2>3, RecoverCore
<1>7. CASE Recovered(exec.work) /\ UNCHANGED <<dirs, lock>>
  <2>1. exec.work \in Journal /\ Walked(exec.work) BY <1>2, WorkTyped DEF Core, AllWalked
  <2>2. DiskTyped' BY <1>2, <1>7, DiskKept
  <2> QED BY <1>2, <1>7, <2>1, <2>2, RecoverCore
<1>8. \/ Release /\ UNCHANGED <<journal, dirs>>
      \/ Rename(c, "target", "replaced") /\ UNCHANGED <<exec, journal, lock>>
      \/ Rename(c, "restoring", "target") /\ UNCHANGED <<exec, journal, lock>>
      \/ Recovered(work) /\ UNCHANGED <<dirs, lock>>
      \/ Recovered(exec.work) /\ UNCHANGED <<dirs, lock>>
  BY <1>1
<1> HIDE DEF work, c
<1> QED BY <1>4, <1>5, <1>6, <1>7, <1>8, NamesAre

\* What a rewind writes.
LEMMA RewindIs ==
    ASSUME Core, RecoverRewind
    PROVE  \E id \in Plan :
             LET back == {other \in Plan : Position[other] \in 2 .. Position[id]}
             IN  /\ Restoring("recover") /\ Restores
                 /\ id \in {"replay-database", "place-inline-keystore"}
                 /\ exec.work.steps[id] \in {"running", "failed"}
                 /\ back \subseteq Steps /\ Recovered(Retry(back))
                 /\ UNCHANGED <<ThisStep, dirs, staging, claims, vols>>
<1>1. Position[STEP_REWIND_TO] = 2 BY Positions DEF STEP_REWIND_TO
<1>2. PICK id \in Steps :
        /\ Recovering("rewind", id)
        /\ Recovered(Retry({other \in Plan : Position[other] \in 2 .. Position[id]}))
        /\ UNCHANGED <<ThisStep, dirs, staging, claims, vols>>
  BY <1>1 DEF RecoverRewind
<1>3. /\ Restoring("recover") /\ Restores /\ id \in Plan /\ STEP_RECOVERY[id] = "rewind"
      /\ exec.work.steps[id] \in {"running", "failed"}
  BY <1>2, RecoveringIs
<1>4. id \in {"replay-database", "place-inline-keystore"} BY <1>3, RecoveriesAre
<1>5. Plan \subseteq Steps BY <1>3, WorkTyped DEF Restores
<1> QED BY <1>2, <1>3, <1>4, <1>5

LEMMA CoreRewind == ASSUME Core, RecoverRewind PROVE Core'
<1>1. PICK id \in Plan :
             LET back == {other \in Plan : Position[other] \in 2 .. Position[id]}
             IN  /\ Restoring("recover") /\ Restores
                 /\ id \in {"replay-database", "place-inline-keystore"}
                 /\ exec.work.steps[id] \in {"running", "failed"}
                 /\ back \subseteq Steps /\ Recovered(Retry(back))
                 /\ UNCHANGED <<ThisStep, dirs, staging, claims, vols>>
  BY RewindIs
<1> DEFINE back == {other \in Plan : Position[other] \in 2 .. Position[id]}
<1>2. /\ exec # None /\ back \in SUBSET Steps /\ DiskTyped'
      /\ UNCHANGED <<shape, lock, waiting, before>>
  BY <1>1, DiskKept DEF Restores, ThisStep
<1>3. /\ exec.work.steps \in [Steps -> Statuses] /\ Plan \subseteq Steps
      /\ Walks(exec.work.steps, Plan \ PROOF_STEP_IDS, {"complete"})
  BY <1>2, WorkTyped
<1>4. id \in Plan \ PROOF_STEP_IDS BY <1>1 DEF PROOF_STEP_IDS
<1>5. \A b \in Plan \ PROOF_STEP_IDS : b \in back <=> Position[b] \in 2 .. Position[id] OBVIOUS
<1> HIDE DEF back
<1>6. /\ Retry(back) \in Journal /\ Retry(back).planned = exec.work.planned
      /\ Retry(back).phase = exec.work.phase
      /\ Retry(back).steps = [b \in Steps |-> IF b \in back THEN "pending" ELSE exec.work.steps[b]]
  BY <1>2, RetryIs
<1>7. Walks(Retry(back).steps, Plan \ PROOF_STEP_IDS, {"complete"})
  <2>1. id \in Steps /\ exec.work.steps[id] # "complete"
        /\ Plan \ PROOF_STEP_IDS \in SUBSET Steps
    BY <1>1, <1>3
  <2>2. PICK s \in [Steps -> Statuses] : s = exec.work.steps BY <1>3
  <2>3. PICK ids \in SUBSET Steps : ids = Plan \ PROOF_STEP_IDS BY <1>3
  <2>4. Walks(s, ids, {"complete"}) /\ id \in ids /\ s[id] # "complete"
    BY <1>3, <1>4, <2>1, <2>2, <2>3
  <2>5. \A b \in ids : b \in back <=> Position[b] \in 2 .. Position[id] BY <1>5, <2>3
  <2>6. Walks([b \in Steps |-> IF b \in back THEN "pending" ELSE s[b]], ids, {"complete"})
    BY <1>2, <2>1, <2>4, <2>5, WalkRewinds
  <2> QED BY <1>6, <2>2, <2>3, <2>6
<1>8. Walked(Retry(back)) BY <1>6, <1>7 DEF Walked, Plan
<1>9. Restoring("recover") /\ Recovered(Retry(back)) BY <1>1 DEF back
<1> QED BY <1>2, <1>6, <1>8, <1>9, RecoverCore

\* One step's status written.
LEMMA StatusIs ==
    ASSUME Core, exec # None, NEW id \in Steps, NEW v \in Statuses
    PROVE  LET work == [exec.work EXCEPT !.steps[id] = v]
           IN  /\ work \in Journal
               /\ work.phase = exec.work.phase /\ work.planned = exec.work.planned
               /\ work.claim = exec.work.claim /\ work.swaps = exec.work.swaps
               /\ work.steps = [exec.work.steps EXCEPT ![id] = v]
<1>1. exec.work \in Journal /\ exec.work.steps \in [Steps -> Statuses] BY WorkTyped
<1>2. [exec.work.steps EXCEPT ![id] = v] \in [Steps -> Statuses] BY <1>1
<1> QED BY <1>1, <1>2 DEF Journal, Statuses

\* The loop begins the next step, or has none to begin.
LEMMA BeginDoes ==
    ASSUME Core, BeginStep
    PROVE  /\ Restores /\ exec.pc = "loop" /\ UNCHANGED <<ThisStep, dirs, staging, claims, vols>>
           /\ \/ Goto("finish") /\ UNCHANGED journal
              \/ \E next \in ToDo :
                   /\ ~exec.stopped /\ next \in Plan /\ exec.work.steps[next] # "complete"
                   /\ \A id \in ToDo : Position[next] <= Position[id]
                   /\ exec' \in Working_ /\ exec'.pc = "in" /\ exec'.step = next
                   /\ exec'.mode = exec.mode /\ journal' = exec'.work
                   /\ exec'.work.phase = exec.work.phase /\ exec'.work.planned = exec.work.planned
                   /\ exec'.work.claim = exec.work.claim /\ exec'.work.swaps = exec.work.swaps
                   /\ exec'.work.steps = [exec.work.steps EXCEPT ![next] = "running"]
<1>1. Restores /\ exec.pc = "loop" /\ UNCHANGED <<ThisStep, dirs, staging, claims, vols>>
  BY DEF BeginStep, Restoring, Restores
<1>2. CASE Goto("finish") /\ UNCHANGED journal BY <1>1, <1>2
<1>3. CASE /\ ~exec.stopped
           /\ \E next \in ToDo :
                /\ \A id \in ToDo : Position[next] <= Position[id]
                /\ journal' = [exec.work EXCEPT !.steps[next] = "running"]
                /\ exec' = [exec EXCEPT !.work = journal', !.pc = "in", !.step = next]
  <2>1. PICK next \in ToDo :
           /\ \A id \in ToDo : Position[next] <= Position[id]
           /\ journal' = [exec.work EXCEPT !.steps[next] = "running"]
           /\ exec' = [exec EXCEPT !.work = journal', !.pc = "in", !.step = next]
    BY <1>3
  <2>2. exec \in Working_ /\ next \in Plan /\ next \in Steps /\ exec.work.steps[next] # "complete"
    BY <1>1, WorkTyped DEF ToDo, Restores
  <2>3. /\ journal' \in Journal
        /\ journal'.phase = exec.work.phase /\ journal'.planned = exec.work.planned
        /\ journal'.claim = exec.work.claim /\ journal'.swaps = exec.work.swaps
        /\ journal'.steps = [exec.work.steps EXCEPT ![next] = "running"]
    BY <1>1, <2>1, <2>2, StatusIs DEF Statuses, Restores
  <2>4. /\ exec' \in Working_ /\ exec'.pc = "in" /\ exec'.step = next /\ exec'.mode = exec.mode
        /\ exec'.work = journal'
    BY <2>1, <2>2, <2>3 DEF Working_, InRestore, InStep
  <2>5. /\ ~exec.stopped /\ \A id \in ToDo : Position[next] <= Position[id]
        /\ exec'.work.phase = exec.work.phase /\ exec'.work.planned = exec.work.planned
        /\ exec'.work.claim = exec.work.claim /\ exec'.work.swaps = exec.work.swaps
        /\ exec'.work.steps = [exec.work.steps EXCEPT ![next] = "running"]
    BY <1>3, <2>1, <2>3, <2>4
  <2> QED BY <1>1, <2>2, <2>4, <2>5
<1> QED BY <1>2, <1>3 DEF BeginStep

LEMMA CoreBegins == ASSUME Core, BeginStep PROVE Core'
<1>1. /\ Restores /\ exec # None /\ exec.pc = "loop" /\ DiskTyped'
      /\ UNCHANGED <<shape, lock, waiting, before>>
  BY BeginDoes, DiskKept DEF ThisStep, Restores
<1>2. CASE Goto("finish") /\ UNCHANGED journal
  BY <1>1, <1>2, MoveCore DEF InRestore, InStep
<1>3. ASSUME NEW next \in ToDo, ~exec.stopped, next \in Plan, exec.work.steps[next] # "complete",
             \A id \in ToDo : Position[next] <= Position[id],
             exec' \in Working_, exec'.pc = "in", exec'.step = next,
             exec'.mode = exec.mode, journal' = exec'.work,
             exec'.work.phase = exec.work.phase, exec'.work.planned = exec.work.planned,
             exec'.work.steps = [exec.work.steps EXCEPT ![next] = "running"]
      PROVE  Core'
  <2>1. exec.work.phase = "restoring" BY <1>1 DEF Core, Base, Agreement, Restores, RestoreAgrees
  <2>2. Base' BY <1>1, <1>3, <2>1, RestoreBase DEF Core, InRestore, InStep
  <2>3. /\ exec.work.steps \in [Steps -> Statuses] /\ Plan \subseteq Steps
        /\ Walks(exec.work.steps, Plan \ PROOF_STEP_IDS, {"complete"})
    BY <1>1, WorkTyped
  <2>4. Plan' = Plan BY <1>1, <1>3 DEF Plan, stepsFor
  <2>5. AtStep'
    <3>1. exec'.work.steps[next] = "running" BY <1>3, <2>3
    <3> QED BY <1>3, <2>4, <3>1 DEF AtStep, Restores
  <2>6. ASSUME next \in Plan \ PROOF_STEP_IDS, NEW b \in Plan \ PROOF_STEP_IDS,
               Position[b] < Position[next]
        PROVE  exec.work.steps[b] = "complete"
    <3>0. Position[b] \in 1 .. 15 /\ Position[next] \in 1 .. 15 BY <2>3, <2>6, PositionsTyped
    <3>1. b \notin ToDo BY <1>3, <2>6, <3>0
    <3>2. CASE exec.step = None BY <2>6, <3>1, <3>2 DEF ToDo
    <3>3. CASE exec.step # None
      <4>1. exec.step \in Steps /\ Position[exec.step] \in 1 .. 15
        BY <1>1, <3>3, WorkTyped, PositionsTyped DEF Working_
      <4>2. Position[exec.step] < Position[next] BY <3>3, <4>1 DEF ToDo
      <4>3. exec.step \in Others
        BY <2>3, <2>6, <3>0, <4>1, <4>2, PositionsOrder DEF Others
      <4>4. exec.work.steps[exec.step] = "complete"
        BY <1>1, <1>3, <4>3 DEF Core, AtStep
      <4>5. CASE Position[b] > Position[exec.step] BY <2>6, <3>1, <4>5 DEF ToDo
      <4>6. CASE Position[b] = Position[exec.step]
        BY <2>3, <2>6, <4>1, <4>4, <4>6, PositionsOrder
      <4>7. CASE Position[b] < Position[exec.step]
        <5>1. exec.step \in Plan \ PROOF_STEP_IDS
          BY <1>1, <3>3, <4>3 DEF Core, AtStep, Others
        <5> QED BY <2>3, <2>6, <4>4, <4>7, <5>1 DEF Walks
      <4> QED BY <3>0, <4>1, <4>5, <4>6, <4>7
    <3> QED BY <3>2, <3>3
  <2>7. Walks(exec'.work.steps, Plan \ PROOF_STEP_IDS, {"complete"})
    <3>1. next \in Steps BY <1>3, <2>3
    <3>2. Walks([exec.work.steps EXCEPT ![next] = "running"], Plan \ PROOF_STEP_IDS, {"complete"})
      BY <1>3, <2>3, <2>6, <3>1, WalkBegins
    <3> QED BY <1>3, <3>2
  <2>8. Walked(exec.work)' BY <2>4, <2>7 DEF Walked, Plan
  <2>9. AllWalked' BY <1>3, <2>8 DEF AllWalked, Walked
  <2> QED BY <2>2, <2>5, <2>9 DEF Core
<1> QED BY <1>1, <1>2, <1>3, BeginDoes

\* The work of a step is recorded.
LEMMA CompleteDoes ==
    ASSUME Core, CompleteStep
    PROVE  /\ Restores /\ exec.pc = "did" /\ UNCHANGED <<ThisStep, dirs, staging, claims, vols>>
           /\ exec.step \in Plan /\ exec.step \in Steps /\ exec.work.steps[exec.step] = "running"
           /\ exec' \in Working_ /\ exec'.pc = "loop" /\ exec'.step = exec.step
           /\ exec'.mode = exec.mode /\ exec'.stopped = exec.stopped /\ journal' = exec'.work
           /\ exec'.work.phase = exec.work.phase /\ exec'.work.planned = exec.work.planned
           /\ exec'.work.claim = exec.work.claim /\ exec'.work.swaps = exec.work.swaps
           /\ exec'.work.steps = [exec.work.steps EXCEPT ![exec.step] = "complete"]
<1>1. Restores /\ exec # None /\ exec.pc = "did" /\ UNCHANGED <<ThisStep, dirs, staging, claims, vols>>
  BY DEF CompleteStep, Restoring, Restores
<1>2. exec.step \in Plan /\ exec.work.steps[exec.step] = "running"
  BY <1>1 DEF Core, AtStep, Inside, InStep
<1>3. exec.step \in Steps BY <1>1, <1>2, WorkTyped
<1>4. journal' = [exec.work EXCEPT !.steps[exec.step] = "complete"] BY DEF CompleteStep
<1>5. /\ journal' \in Journal
      /\ journal'.phase = exec.work.phase /\ journal'.planned = exec.work.planned
      /\ journal'.claim = exec.work.claim /\ journal'.swaps = exec.work.swaps
      /\ journal'.steps = [exec.work.steps EXCEPT ![exec.step] = "complete"]
  BY <1>1, <1>3, <1>4, StatusIs DEF Statuses
<1>6. exec' = [exec EXCEPT !.work = journal', !.pc = "loop"] BY DEF CompleteStep
<1>7. "loop" \in InRestore BY DEF InRestore
<1>8. /\ exec' \in Working_ /\ exec'.pc = "loop" /\ exec'.work = journal'
      /\ exec'.mode = exec.mode /\ exec'.step = exec.step /\ exec'.stopped = exec.stopped
  <2>1. PICK work \in Journal : work = journal' BY <1>5
  <2>2. exec' = [exec EXCEPT !.work = work, !.pc = "loop"] BY <1>6, <2>1
  <2>3. Base BY DEF Core
  <2> QED BY <1>1, <1>7, <2>1, <2>2, <2>3, WriteDoes
<1> QED BY <1>1, <1>2, <1>3, <1>5, <1>8

LEMMA CoreCompletes == ASSUME Core, CompleteStep PROVE Core'
<1>1. /\ Restores /\ exec # None /\ DiskTyped' /\ UNCHANGED <<shape, lock, waiting, before>>
      /\ exec.step \in Plan /\ exec.step \in Steps /\ exec.work.steps[exec.step] = "running"
      /\ exec' \in Working_ /\ exec'.pc = "loop" /\ exec'.step = exec.step
      /\ exec'.mode = exec.mode /\ journal' = exec'.work
      /\ exec'.work.phase = exec.work.phase /\ exec'.work.planned = exec.work.planned
      /\ exec'.work.steps = [exec.work.steps EXCEPT ![exec.step] = "complete"]
  BY CompleteDoes, DiskKept DEF ThisStep, Restores
<1>2. exec.work.phase = "restoring" BY <1>1 DEF Core, Base, Agreement, Restores, RestoreAgrees
<1>3. Base' BY <1>1, <1>2, RestoreBase DEF Core, InRestore
<1>4. exec.work.steps \in [Steps -> Statuses] BY <1>1, WorkTyped
<1>5. Plan' = Plan BY <1>1 DEF Plan, stepsFor
<1>6. AtStep'
  <2>1. exec'.work.steps[exec.step] = "complete" BY <1>1, <1>4
  <2> QED BY <1>1, <1>5, <2>1 DEF AtStep, Inside, InStep, Restores
<1>7. Walked(exec'.work)
  <2>1. exec'.work \in Journal BY <1>1 DEF Working_
  <2> QED BY <1>1, <2>1, SettlesWalked DEF Statuses
<1>8. AllWalked' BY <1>1, <1>7 DEF AllWalked, Walked, stepsFor
<1> QED BY <1>3, <1>6, <1>8 DEF Core

LEMMA CoreFails == ASSUME Core, FailHere PROVE Core'
<1>1. DiskTyped' BY DiskKept DEF FailHere
<1> QED BY <1>1, FailCore DEF FailHere, Restores, Inside, InStep

\* A step that goes on, with the plan and the statuses as they were.
LEMMA StaysInside ==
    ASSUME Core, Restores, Inside, exec'.mode = exec.mode, exec'.step = exec.step,
           exec'.work.planned = exec.work.planned, exec'.work.steps = exec.work.steps,
           UNCHANGED shape, exec'.pc \in InStep, journal' \in {journal, exec'.work},
           exec'.pc \in {"claimed", "backup"} => exec.step = "safety-set",
           exec'.pc = "copying" => exec.step = "stage-components",
           exec'.pc \in {"taken", "aside", "placed"} => exec.step \in Placements
    PROVE  AtStep' /\ AllWalked'
<1>1. Plan' = Plan BY DEF Plan, stepsFor
<1>2. AtStep' BY <1>1 DEF Core, AtStep, Inside, InStep, Restores
<1>3. AllWalked' BY DEF Core, AllWalked, Walked, stepsFor, Restores
<1> QED BY <1>2, <1>3

\* What a step that is at its beginning stands for.
LEMMA InIs ==
    ASSUME Core, NEW id \in Steps, In(id)
    PROVE  /\ Restores /\ exec # None /\ Inside /\ exec.pc = "in" /\ exec.step = id
           /\ id \in Plan /\ exec.work.steps[id] = "running"
BY DEF Core, AtStep, In, Restoring, Restores, Inside, InStep

\* A claim directory is made.
LEMMA ClaimDoes ==
    ASSUME Core, ClaimDirectory
    PROVE  \E n \in Nonces :
             /\ In("safety-set") /\ Restores /\ Inside
             /\ claims[n] = None /\ claims' = [claims EXCEPT ![n] = "empty"]
             /\ exec' \in Working_ /\ exec'.pc = "claimed" /\ exec'.step = exec.step
             /\ exec'.mode = exec.mode
             /\ exec'.work.phase = exec.work.phase /\ exec'.work.planned = exec.work.planned
             /\ exec'.work.claim = n /\ exec'.work.swaps = exec.work.swaps
             /\ exec'.work.steps = exec.work.steps
             /\ UNCHANGED <<ThisStep, dirs, staging, vols, journal>>
<1>1. /\ In("safety-set") /\ Restores /\ Inside /\ exec # None
  BY StepsAre, InIs DEF ClaimDirectory
<1>2. PICK n \in Nonces : /\ claims[n] = None /\ claims' = [claims EXCEPT ![n] = "empty"]
                          /\ exec' = [exec EXCEPT !.work.claim = n, !.pc = "claimed"]
  BY DEF ClaimDirectory
<1> DEFINE work == [exec.work EXCEPT !.claim = n]
<1>3. exec \in Working_ /\ exec.work \in Journal BY <1>1, WorkTyped
<1>4. /\ work \in Journal /\ work.phase = exec.work.phase /\ work.planned = exec.work.planned
      /\ work.claim = n /\ work.swaps = exec.work.swaps /\ work.steps = exec.work.steps
  BY <1>3 DEF Journal
<1>5. exec' = [exec EXCEPT !.work = work, !.pc = "claimed"] BY <1>2
<1> HIDE DEF work
<1>6. /\ exec' \in Working_ /\ exec'.pc = "claimed" /\ exec'.step = exec.step
      /\ exec'.mode = exec.mode /\ exec'.work = work
  BY <1>3, <1>4, <1>5 DEF Working_, InRestore, InStep
<1>7. UNCHANGED <<ThisStep, dirs, staging, vols, journal>> BY DEF ClaimDirectory
<1> QED BY <1>1, <1>2, <1>4, <1>6, <1>7

LEMMA CoreClaims == ASSUME Core, ClaimDirectory PROVE Core'
<1>1. PICK n \in Nonces :
             /\ In("safety-set") /\ Restores /\ Inside
             /\ claims[n] = None /\ claims' = [claims EXCEPT ![n] = "empty"]
             /\ exec' \in Working_ /\ exec'.pc = "claimed" /\ exec'.step = exec.step
             /\ exec'.mode = exec.mode
             /\ exec'.work.phase = exec.work.phase /\ exec'.work.planned = exec.work.planned
             /\ exec'.work.claim = n /\ exec'.work.swaps = exec.work.swaps
             /\ exec'.work.steps = exec.work.steps
             /\ UNCHANGED <<ThisStep, dirs, staging, vols, journal>>
  BY ClaimDoes
<1>2. UNCHANGED <<shape, lock, waiting, before>> BY <1>1 DEF ThisStep
<1>3. DiskTyped' BY <1>1 DEF Core, Base, RestoreTypeOK, DiskTyped
<1>4. exec.work.phase = "restoring" BY <1>1 DEF Core, Base, Agreement, Restores, RestoreAgrees
<1>5. Base' BY <1>1, <1>2, <1>3, <1>4, RestoreBase DEF Core, InRestore, InStep
<1>6. exec.step = "safety-set" BY <1>1 DEF In
<1>7. AtStep' /\ AllWalked' BY <1>1, <1>2, <1>6, StaysInside DEF InStep
<1> QED BY <1>5, <1>7 DEF Core

LEMMA CoreRecordsClaim == ASSUME Core, RecordClaim PROVE Core'
<1>1. /\ Restores /\ exec # None /\ exec.pc = "claimed" /\ Inside /\ exec.step = "safety-set"
  BY DEF Core, AtStep, RecordClaim, Restoring, Restores, Inside, InStep
<1>2. /\ journal' = exec.work /\ Goto("backup") /\ DiskTyped'
      /\ UNCHANGED <<shape, lock, waiting, before>>
  BY DiskKept DEF RecordClaim, ThisStep
<1>3. /\ exec' \in Working_ /\ exec'.pc = "backup" /\ exec'.mode = exec.mode
      /\ exec'.work = exec.work /\ exec'.step = exec.step
  BY <1>1, <1>2, GotoDoes DEF Core, InRestore, InStep
<1>4. exec.work.phase = "restoring" BY <1>1 DEF Core, Base, Agreement, Restores, RestoreAgrees
<1>5. Base' BY <1>1, <1>2, <1>3, <1>4, RestoreBase DEF Core, InRestore, InStep
<1>6. AtStep' /\ AllWalked' BY <1>1, <1>2, <1>3, StaysInside DEF InStep
<1> QED BY <1>5, <1>6 DEF Core

\* The backup is taken, or the step fails.
LEMMA TakeCases ==
    ASSUME Core, TakeSafetySet
    PROVE  /\ Restores /\ Inside /\ exec.step = "safety-set" /\ exec.pc \in {"backup", "in"}
           /\ exec.pc = "in" => exec.work.claim # 0
           /\ UNCHANGED <<ThisStep, dirs, staging, vols>>
           /\ \/ FailStep /\ UNCHANGED claims
              \/ /\ claims[exec.work.claim] = "empty" /\ vols.database # None
                 /\ claims' = [claims EXCEPT ![exec.work.claim] = vols.database]
                 /\ exec' \in Working_ /\ exec'.pc = "did" /\ exec'.step = exec.step
                 /\ exec'.mode = exec.mode
                 /\ exec'.work.phase = exec.work.phase /\ exec'.work.planned = exec.work.planned
                 /\ exec'.work.claim = exec.work.claim /\ exec'.work.swaps = exec.work.swaps
                 /\ exec'.work.steps = exec.work.steps
                 /\ UNCHANGED journal
              \/ /\ claims[exec.work.claim] = "empty"
                 /\ claims' = [claims EXCEPT ![exec.work.claim] = "bad"] /\ FailStep
<1>1. /\ Restores /\ exec # None /\ Inside /\ exec.step = "safety-set" /\ exec.pc \in {"backup", "in"}
      /\ exec.pc = "in" => exec.work.claim # 0
  BY DEF Core, AtStep, TakeSafetySet, Restoring, In, LiveClaim, Restores, Inside, InStep
<1>2. UNCHANGED <<ThisStep, dirs, staging, vols>> BY DEF TakeSafetySet
<1>3. CASE exec' = [exec EXCEPT !.work.taken = TRUE, !.pc = "did"]
  <2> DEFINE work == [exec.work EXCEPT !.taken = TRUE]
  <2>1. exec \in Working_ /\ exec.work \in Journal BY <1>1, WorkTyped
  <2>2. /\ work \in Journal /\ work.phase = exec.work.phase /\ work.planned = exec.work.planned
        /\ work.claim = exec.work.claim /\ work.swaps = exec.work.swaps
        /\ work.steps = exec.work.steps
    BY <2>1 DEF Journal
  <2>3. exec' = [exec EXCEPT !.work = work, !.pc = "did"] BY <1>3
  <2> HIDE DEF work
  <2>4. /\ exec' \in Working_ /\ exec'.pc = "did" /\ exec'.step = exec.step
        /\ exec'.mode = exec.mode /\ exec'.work = work
    BY <2>1, <2>2, <2>3 DEF Working_, InRestore, InStep
  <2>5. \/ FailStep /\ UNCHANGED claims
        \/ /\ claims[exec.work.claim] = "empty" /\ vols.database # None
           /\ claims' = [claims EXCEPT ![exec.work.claim] = vols.database]
           /\ UNCHANGED journal
        \/ /\ claims[exec.work.claim] = "empty"
           /\ claims' = [claims EXCEPT ![exec.work.claim] = "bad"] /\ FailStep
    BY DEF TakeSafetySet
  <2> QED BY <1>1, <1>2, <2>2, <2>4, <2>5
<1>4. CASE exec' # [exec EXCEPT !.work.taken = TRUE, !.pc = "did"]
  <2>1. \/ FailStep /\ UNCHANGED claims
        \/ /\ claims[exec.work.claim] = "empty"
           /\ claims' = [claims EXCEPT ![exec.work.claim] = "bad"] /\ FailStep
    BY <1>4 DEF TakeSafetySet
  <2> QED BY <1>1, <1>2, <2>1
<1> QED BY <1>3, <1>4

LEMMA CoreTakes == ASSUME Core, TakeSafetySet PROVE Core'
<1>1. /\ Restores /\ Inside /\ exec.step = "safety-set" /\ exec.pc \in {"backup", "in"}
      /\ UNCHANGED <<ThisStep, dirs, vols>> /\ UNCHANGED <<shape, lock, waiting, before>>
  BY TakeCases DEF ThisStep
<1>2. DiskTyped'
  <2>1. /\ claims \in [Nonces -> Databases \cup {"empty", "bad", "gone"}]
        /\ vols.database \in Databases
    BY DEF Core, Base, RestoreTypeOK, DiskTyped
  <2>2. claims' \in [Nonces -> Databases \cup {"empty", "bad", "gone"}]
    BY <2>1, TakeCases
  <2> QED BY <1>1, <2>2 DEF Core, Base, RestoreTypeOK, DiskTyped
<1>3. CASE FailStep BY <1>1, <1>2, <1>3, FailCore
<1>4. CASE ~FailStep
  <2>1. /\ exec' \in Working_ /\ exec'.pc = "did" /\ exec'.step = exec.step
        /\ exec'.mode = exec.mode
        /\ exec'.work.phase = exec.work.phase /\ exec'.work.planned = exec.work.planned
        /\ exec'.work.claim = exec.work.claim /\ exec'.work.swaps = exec.work.swaps
        /\ exec'.work.steps = exec.work.steps
        /\ UNCHANGED journal
    BY <1>4, TakeCases
  <2>2. exec.work.phase = "restoring" BY <1>1 DEF Core, Base, Agreement, Restores, RestoreAgrees
  <2>3. Base' BY <1>1, <1>2, <2>1, <2>2, RestoreBase DEF Core, InRestore, InStep
  <2>4. AtStep' /\ AllWalked' BY <1>1, <2>1, StaysInside DEF InStep
  <2> QED BY <2>3, <2>4 DEF Core
<1> QED BY <1>3, <1>4

Volumes == [database : Databases, keystore : Contents \cup {None, "partial"},
            password : Contents \cup {None}]

LEMMA DiskIs ==
    /\ DiskTyped <=> /\ dirs \in [Host -> [Names -> Contents \cup {None}]]
                     /\ claims \in [Nonces -> Databases \cup {"empty", "bad", "gone"}]
                     /\ vols \in Volumes
    /\ DiskTyped' <=> /\ dirs' \in [Host -> [Names -> Contents \cup {None}]]
                      /\ claims' \in [Nonces -> Databases \cup {"empty", "bad", "gone"}]
                      /\ vols' \in Volumes
BY DEF DiskTyped, Volumes

\* A step that moves on inside itself, or fails.
LEMMA CoreInside ==
    ASSUME Core, Restores, Inside, exec.pc # "claimed", NEW pc \in InStep \ {"claimed", "backup"},
           (Goto(pc) /\ UNCHANGED journal) \/ FailStep,
           pc = "copying" => exec.step = "stage-components",
           pc \in {"taken", "aside", "placed"} => exec.step \in Placements,
           DiskTyped', UNCHANGED ThisStep
    PROVE  Core'
<1>1. UNCHANGED <<shape, lock, waiting, before>> BY DEF ThisStep
<1>2. pc \in InRestore \ {"claimed", "backup", "recover"} /\ pc # "removing" /\ pc # "loop"
  BY DEF InRestore, InStep
<1>3. CASE FailStep BY <1>3, FailCore
<1>4. CASE Goto(pc) /\ UNCHANGED journal BY <1>1, <1>2, <1>4, MoveCore
<1> QED BY <1>3, <1>4

\* Where each step's own actions are.
LEMMA InsideIs ==
    ASSUME Core, exec # None, exec.mode # "abandon", exec.pc \in InStep
    PROVE  /\ Restores /\ Inside /\ exec.step \in Plan /\ exec.step \in Steps
           /\ exec.work.steps[exec.step] = "running"
<1>1. Restores /\ Inside BY DEF Restores, Inside
<1> QED BY <1>1, WorkTyped DEF Core, AtStep

LEMMA CoreStages == ASSUME Core, stageComponents PROVE Core'
<1>1. /\ exec # None /\ exec.mode # "abandon" /\ exec.pc \in {"in", "copying"}
      /\ exec.step = "stage-components"
  <2>1. exec # None /\ exec.mode # "abandon" /\ exec.pc \in {"in", "copying"}
    BY DEF stageComponents, In, Restoring
  <2>2. exec.pc = "copying" => exec.step = "stage-components" BY <2>1 DEF Core, AtStep, Restores
  <2>3. exec.pc = "in" => exec.step = "stage-components" BY DEF stageComponents, In, Restoring
  <2> QED BY <2>1, <2>2, <2>3
<1>2. Restores /\ Inside BY <1>1, InsideIs DEF InStep
<1>3. DiskTyped' /\ UNCHANGED ThisStep BY DiskKept DEF stageComponents
<1>4. \/ Goto("copying") /\ UNCHANGED journal
      \/ FailStep
      \/ Goto("did") /\ UNCHANGED journal
  BY DEF stageComponents
<1> QED BY <1>1, <1>2, <1>3, <1>4, CoreInside DEF InStep

LEMMA CoreStops == ASSUME Core, StopAndDestroy PROVE Core'
<1>1. /\ "stop-and-destroy" \in Steps /\ In("stop-and-destroy")
      /\ UNCHANGED ThisStep /\ UNCHANGED <<dirs, claims>>
      /\ (Goto("did") /\ UNCHANGED journal) \/ FailStep
  BY StepsAre DEF StopAndDestroy
<1>2. Restores /\ Inside /\ exec.pc = "in" BY <1>1, InIs
<1>3. DiskTyped'
  <2>1. vols \in Volumes /\ DiskTyped BY DiskIs DEF Core, Base, RestoreTypeOK
  <2>2. vols' \in Volumes BY <2>1 DEF StopAndDestroy, Volumes, Databases
  <2> QED BY <1>1, <2>1, <2>2, DiskIs
<1> QED BY <1>1, <1>2, <1>3, CoreInside DEF InStep

\* The steps of a swap.
LEMMA SwapCases ==
    ASSUME Core, swapComponent
    PROVE  LET c == componentForStep(exec.step)
           IN  /\ c \in Host /\ exec.step \in Placements /\ Restores /\ Inside
               /\ UNCHANGED <<ThisStep, claims, vols>>
               /\ \/ /\ exec.pc = "in" /\ dirs[c].target = "set"
                     /\ Goto("did") /\ UNCHANGED <<dirs, staging, journal>>
                  \/ exec.pc = "in" /\ FailStep /\ UNCHANGED <<dirs, staging>>
                  \/ /\ exec.pc = "in" /\ dirs[c].target # "set" /\ ~InTheWay(c)
                     /\ dirs' = [dirs EXCEPT ![c].restoring = "set"]
                     /\ Goto("taken") /\ UNCHANGED journal
                  \/ /\ exec.pc = "taken"
                     /\ \/ Exists(c, "target") /\ Rename(c, "target", "replaced")
                        \/ ~Exists(c, "target") /\ UNCHANGED dirs
                     /\ Goto("aside") /\ UNCHANGED <<staging, journal>>
                  \/ /\ exec.pc = "aside" /\ Rename(c, "restoring", "target")
                     /\ Goto("placed") /\ UNCHANGED <<staging, journal>>
                  \/ /\ exec.pc = "placed"
                     /\ LET work == [exec.work EXCEPT !.swaps[c] =
                                       [kept |-> Exists(c, "replaced"), undone |-> FALSE]]
                        IN  journal' = work /\ exec' = [exec EXCEPT !.work = work, !.pc = "did"]
                     /\ UNCHANGED <<dirs, staging>>
<1>1. /\ exec # None /\ exec.mode # "abandon" /\ STEP_RECOVERY[exec.step] = "repair-swap"
      /\ exec.pc \in {"in", "taken", "aside", "placed"}
  BY DEF swapComponent
<1>2. Restores /\ Inside /\ exec.step \in Steps BY <1>1, InsideIs DEF InStep
<1>3. exec.step \in Placements /\ componentForStep(exec.step) \in Host BY <1>1, <1>2, PlacementsAre
<1> QED BY <1>2, <1>3 DEF swapComponent

\* The record of a swap that has been made.
LEMMA SwappedIs ==
    ASSUME Core, exec # None, NEW c \in Host
    PROVE  LET work == [exec.work EXCEPT !.swaps[c] =
                          [kept |-> Exists(c, "replaced"), undone |-> FALSE]]
           IN  /\ work \in Journal
               /\ work.phase = exec.work.phase /\ work.planned = exec.work.planned
               /\ work.claim = exec.work.claim /\ work.steps = exec.work.steps
               /\ work.swaps = [exec.work.swaps EXCEPT ![c] =
                                  [kept |-> Exists(c, "replaced"), undone |-> FALSE]]
<1>1. exec.work \in Journal /\ exec.work.swaps \in [Host -> Swap \cup {None}] BY WorkTyped
<1>2. [kept |-> Exists(c, "replaced"), undone |-> FALSE] \in Swap BY DEF Exists, Swap
<1>3. PICK swap \in Swap : swap = [kept |-> Exists(c, "replaced"), undone |-> FALSE] BY <1>2
<1>4. [exec.work.swaps EXCEPT ![c] = swap] \in [Host -> Swap \cup {None}] BY <1>1
<1> DEFINE work == [exec.work EXCEPT !.swaps[c] = swap]
<1>5. /\ work \in Journal
      /\ work.phase = exec.work.phase /\ work.planned = exec.work.planned
      /\ work.claim = exec.work.claim /\ work.steps = exec.work.steps
      /\ work.swaps = [exec.work.swaps EXCEPT ![c] = swap]
  BY <1>1, <1>4 DEF Journal
<1> QED BY <1>3, <1>5

LEMMA CoreSwaps == ASSUME Core, swapComponent PROVE Core'
<1> DEFINE c == componentForStep(exec.step)
<1>1. /\ c \in Host /\ exec.step \in Placements /\ Restores /\ Inside /\ exec # None
      /\ UNCHANGED <<ThisStep, claims, vols>> /\ UNCHANGED <<shape, lock, waiting, before>>
      /\ DiskTyped /\ dirs \in [Host -> [Names -> Contents \cup {None}]]
  BY SwapCases, DiskIs DEF ThisStep, Core, Base, RestoreTypeOK, Restores
<1>2. ASSUME dirs' \in [Host -> [Names -> Contents \cup {None}]] PROVE DiskTyped'
  BY <1>1, <1>2, DiskIs
<1>3. CASE exec.pc = "in" /\ Goto("did") /\ UNCHANGED <<dirs, staging, journal>>
  BY <1>1, <1>2, <1>3, CoreInside DEF InStep
<1>4. CASE exec.pc = "in" /\ FailStep /\ UNCHANGED <<dirs, staging>>
  BY <1>1, <1>2, <1>4, FailCore
<1>5. CASE /\ exec.pc = "in" /\ dirs' = [dirs EXCEPT ![c].restoring = "set"]
           /\ Goto("taken") /\ UNCHANGED journal
  <2>1. [dirs[c] EXCEPT !.restoring = "set"] \in [Names -> Contents \cup {None}]
    BY <1>1 DEF Contents
  <2>2. dirs' \in [Host -> [Names -> Contents \cup {None}]] BY <1>1, <1>5, <2>1
  <2> QED BY <1>1, <1>2, <1>5, <2>2, CoreInside DEF InStep
<1>6. CASE /\ exec.pc = "taken" /\ Goto("aside") /\ UNCHANGED journal
           /\ Rename(c, "target", "replaced") \/ UNCHANGED dirs
  <2>1. dirs' \in [Host -> [Names -> Contents \cup {None}]]
    BY <1>1, <1>6, RenameDoes, NamesAre
  <2> QED BY <1>1, <1>2, <1>6, <2>1, CoreInside DEF InStep
<1>7. CASE /\ exec.pc = "aside" /\ Goto("placed") /\ UNCHANGED journal
           /\ Rename(c, "restoring", "target")
  <2>1. dirs' \in [Host -> [Names -> Contents \cup {None}]]
    BY <1>1, <1>7, RenameDoes, NamesAre
  <2> QED BY <1>1, <1>2, <1>7, <2>1, CoreInside DEF InStep
<1>8. CASE /\ exec.pc = "placed" /\ UNCHANGED dirs
           /\ LET work == [exec.work EXCEPT !.swaps[c] =
                             [kept |-> Exists(c, "replaced"), undone |-> FALSE]]
              IN  journal' = work /\ exec' = [exec EXCEPT !.work = work, !.pc = "did"]
  <2> DEFINE work == [exec.work EXCEPT !.swaps[c] =
                        [kept |-> Exists(c, "replaced"), undone |-> FALSE]]
  <2>1. /\ work \in Journal /\ work.phase = exec.work.phase
        /\ work.planned = exec.work.planned /\ work.steps = exec.work.steps
    BY <1>1, SwappedIs
  <2>2. journal' = work /\ exec' = [exec EXCEPT !.work = work, !.pc = "did"] BY <1>8
  <2> HIDE DEF work, c
  <2>3. /\ exec' \in Working_ /\ exec'.pc = "did" /\ exec'.step = exec.step
        /\ exec'.mode = exec.mode /\ exec'.work = work
    BY <1>1, <2>1, <2>2, WriteDoes DEF Core, InRestore, InStep
  <2>4. exec.work.phase = "restoring" BY <1>1 DEF Core, Base, Agreement, Restores, RestoreAgrees
  <2>5. DiskTyped' BY <1>1, <1>2, <1>8
  <2>6. Base' BY <1>1, <2>1, <2>2, <2>3, <2>4, <2>5, RestoreBase DEF Core, InRestore, InStep
  <2>7. AtStep' /\ AllWalked' BY <1>1, <2>1, <2>2, <2>3, StaysInside DEF InStep
  <2> QED BY <2>6, <2>7 DEF Core
<1> QED BY <1>3, <1>4, <1>5, <1>6, <1>7, <1>8, SwapCases

\* The steps that start services and fill volumes.
LEMMA CoreVolumes ==
    ASSUME Core, DatabaseUp \/ PrepareRuntimeRole \/ ReplayDatabase \/ PlaceInlineKeystore \/ RunCommands
    PROVE  Core'
<1>1. /\ exec # None /\ exec.mode # "abandon" /\ exec.pc \in {"in", "midway"}
      /\ UNCHANGED ThisStep /\ UNCHANGED <<dirs, claims>>
  BY DEF DatabaseUp, PrepareRuntimeRole, ReplayDatabase, PlaceInlineKeystore, RunCommands,
         In, Restoring
<1>2. Restores /\ Inside BY <1>1, InsideIs DEF InStep
<1>3. /\ DiskTyped /\ dirs \in [Host -> [Names -> Contents \cup {None}]] /\ vols \in Volumes
  BY DiskIs DEF Core, Base, RestoreTypeOK
<1>4. dirs["secrets"].target \in Contents \cup {None} BY <1>3, NamesAre DEF Host
<1>5. vols' \in Volumes
  <2>1. CASE DatabaseUp BY <1>3, <1>4, <2>1 DEF DatabaseUp, Volumes, Databases
  <2>2. CASE PrepareRuntimeRole BY <1>3, <2>2 DEF PrepareRuntimeRole, Volumes, Databases
  <2>3. CASE ReplayDatabase BY <1>3, <2>3 DEF ReplayDatabase, Volumes, Databases
  <2>4. CASE PlaceInlineKeystore BY <1>3, <2>4 DEF PlaceInlineKeystore, Volumes, Contents
  <2>5. CASE RunCommands BY <1>3, <2>5 DEF RunCommands
  <2> QED BY <2>1, <2>2, <2>3, <2>4, <2>5
<1>6. DiskTyped' BY <1>1, <1>3, <1>5, DiskIs
<1>7. \/ Goto("did") /\ UNCHANGED journal
      \/ Goto("midway") /\ UNCHANGED journal
      \/ FailStep
  BY DEF DatabaseUp, PrepareRuntimeRole, ReplayDatabase, PlaceInlineKeystore, RunCommands
<1> QED BY <1>1, <1>2, <1>6, <1>7, CoreInside DEF InStep

LEMMA CoreFinishes == ASSUME Core, FinishRestore PROVE Core'
<1>1. DiskTyped' BY DiskKept DEF FinishRestore
<1> QED BY <1>1, EndCore DEF FinishRestore, Restoring, Release

\* An unwind that only moves on.
LEMMA UnwindMoves ==
    ASSUME Core, Unwinds, exec.pc # "direction", NEW pc \in InUnwind \ {"direction"}, Goto(pc),
           UNCHANGED <<shape, lock, waiting, before, journal>>, DiskTyped'
    PROVE  Core'
<1>1. /\ exec' \in Working_ /\ exec'.pc = pc /\ exec'.mode = exec.mode /\ exec'.work = exec.work
  BY GotoDoes DEF Core, Unwinds
<1>2. RestoreTypeOK' BY <1>1 DEF Core, Base, RestoreTypeOK
<1>3. WaitingOK' BY DEF Core, Base, WaitingOK
<1>4. UnwindAgrees' BY <1>1 DEF Core, Base, Agreement, UnwindAgrees, Unwinds
<1>5. Agreement' BY <1>1, <1>4 DEF Core, Base, Agreement, Unwinds
<1>6. AtStep' BY <1>1 DEF AtStep, Restores, Unwinds
<1>7. AllWalked' BY <1>1 DEF Core, AllWalked, Walked, stepsFor, Unwinds
<1> QED BY <1>2, <1>3, <1>5, <1>6, <1>7 DEF Core, Base

LEMMA CoreRemoves == ASSUME Core, RemoveStaging PROVE Core'
<1>1. DiskTyped' /\ UNCHANGED <<shape, lock, waiting, before, journal>> /\ Goto("removing")
  BY DiskKept DEF RemoveStaging, ThisStep
<1>2. exec # None BY DEF RemoveStaging, In, Restoring
<1>3. CASE exec.mode = "abandon"
  <2>1. exec.pc = "staging" BY <1>3 DEF RemoveStaging, In, Restoring
  <2> QED BY <1>1, <1>2, <1>3, <2>1, UnwindMoves DEF Unwinds, InUnwind
<1>4. CASE exec.mode # "abandon"
  <2>1. Restores /\ exec.pc # "staging"
    BY <1>2, <1>4 DEF Core, Base, Agreement, RestoreAgrees, InRestore, InStep, Restores
  <2>2. \/ In("stage-components")
        \/ exec.pc = "finish" /\ AllComplete
    BY <1>4, <2>1 DEF RemoveStaging, Restoring
  <2>3. exec.pc # "claimed" /\ (Inside \/ AllComplete)
    BY <2>2, StepsAre, InIs
  <2> QED BY <1>1, <2>1, <2>3, MoveCore DEF InRestore, InStep
<1> QED BY <1>3, <1>4

LEMMA CoreRemoved == ASSUME Core, StagingRemoved PROVE Core'
<1>1. /\ exec # None /\ exec.pc = "removing" /\ DiskTyped' /\ UNCHANGED <<shape, waiting, before>>
  BY DiskKept DEF StagingRemoved
<1>2. CASE journal' = exec.work /\ Release BY <1>1, <1>2, EndCore DEF Release
<1>3. CASE /\ Goto(IF exec.mode = "abandon" THEN "staging"
                   ELSE IF AllComplete THEN "finish" ELSE "in")
           /\ UNCHANGED <<journal, lock>>
  <2>1. CASE exec.mode = "abandon"
    BY <1>1, <1>3, <2>1, UnwindMoves DEF Unwinds, InUnwind
  <2>2. CASE exec.mode # "abandon" /\ AllComplete
    <3>1. Goto("finish") /\ Restores BY <1>1, <1>3, <2>2 DEF Restores
    <3> QED BY <1>1, <1>3, <3>1, MoveCore DEF InRestore, InStep
  <2>3. CASE exec.mode # "abandon" /\ ~AllComplete
    <3>1. Goto("in") /\ Restores /\ Inside BY <1>1, <1>3, <2>3 DEF Restores, Inside
    <3> QED BY <1>1, <1>3, <3>1, MoveCore DEF InRestore, InStep
  <2> QED BY <2>1, <2>2, <2>3
<1> QED BY <1>2, <1>3 DEF StagingRemoved

\* The unwind's direction, in the journal before anything moves.
LEMMA DirectionDoes ==
    ASSUME Core, RecordDirection
    PROVE  /\ Unwinds /\ exec.pc = "direction" /\ journal = exec.work /\ journal \in Journal
           /\ UNCHANGED <<ThisStep, dirs, staging, claims, vols>>
           /\ journal' \in Journal /\ journal'.phase = "abandoning"
           /\ journal'.planned = journal.planned /\ journal'.steps = journal.steps
           /\ journal'.claim = journal.claim /\ journal'.swaps = journal.swaps
           /\ exec' \in Working_ /\ exec'.pc = "unwind" /\ exec'.work = journal'
           /\ exec'.mode = exec.mode /\ exec'.unresolved = exec.unresolved
<1>1. exec # None /\ exec.pc = "direction" BY DEF RecordDirection
<1>2. Unwinds
  BY <1>1 DEF Core, Base, Agreement, RestoreAgrees, InRestore, InStep, Unwinds
<1>3. journal = exec.work /\ journal \in Journal
  BY <1>1, <1>2 DEF Core, Base, Agreement, UnwindAgrees, Unwinds
<1>4. journal' = [journal EXCEPT !.phase = "abandoning"] BY DEF RecordDirection
<1>5. /\ journal' \in Journal /\ journal'.phase = "abandoning"
      /\ journal'.planned = journal.planned /\ journal'.steps = journal.steps
      /\ journal'.claim = journal.claim /\ journal'.swaps = journal.swaps
  BY <1>3, <1>4 DEF Journal
<1>6. exec' = [exec EXCEPT !.pc = "unwind", !.work = journal'] BY DEF RecordDirection
<1>7. exec \in Working_ BY <1>1, WorkTyped
<1>8. /\ exec' \in Working_ /\ exec'.pc = "unwind" /\ exec'.work = journal'
      /\ exec'.mode = exec.mode /\ exec'.unresolved = exec.unresolved
  BY <1>5, <1>6, <1>7 DEF Working_, InUnwind
<1> QED BY <1>1, <1>2, <1>3, <1>5, <1>8 DEF RecordDirection

LEMMA CoreDirects == ASSUME Core, RecordDirection PROVE Core'
<1>1. DiskTyped' /\ UNCHANGED <<shape, lock, waiting, before>> /\ exec # None
  BY DirectionDoes, DiskKept DEF ThisStep, Unwinds
<1>2. RestoreTypeOK' BY <1>1, DirectionDoes DEF Core, Base, RestoreTypeOK
<1>3. WaitingOK' BY <1>1 DEF Core, Base, WaitingOK
<1>4. UnwindAgrees' BY DirectionDoes DEF UnwindAgrees, InUnwind
<1>5. Agreement' BY <1>1, <1>4, DirectionDoes DEF Core, Base, Agreement, Unwinds
<1>6. AtStep' BY DirectionDoes DEF AtStep, Restores, Unwinds
<1>7. Walked(journal) BY <1>1, DirectionDoes DEF Core, AllWalked
<1>8. AllWalked' BY <1>1, <1>7, DirectionDoes DEF AllWalked, Walked, stepsFor
<1> QED BY <1>2, <1>3, <1>5, <1>6, <1>8 DEF Core, Base

\* One swap, at a look and a rename at a time.
LEMMA UndoCases ==
    ASSUME Core, NEW c \in Host, UndoSwap(c)
    PROVE  /\ Unwinds /\ exec.pc = "unwind" /\ exec.work.swaps[c] \in Swap /\ c \in Moved
           /\ ~exec.work.swaps[c].undone
           /\ UNCHANGED <<ThisStep, staging, claims, vols, journal>>
           /\ \/ /\ exec' = [exec EXCEPT !.unresolved = @ \union {c}] /\ UNCHANGED dirs
              \/ /\ finishedAlready(c) /\ UNCHANGED dirs
                 /\ exec' = [exec EXCEPT !.work.swaps[c].undone = TRUE]
              \/ /\ ~finishedAlready(c) /\ Exists(c, "target") /\ ~Exists(c, "abandoned")
                 /\ Rename(c, "target", "abandoned") /\ UNCHANGED exec
              \/ /\ ~finishedAlready(c) /\ ~Exists(c, "target") /\ Exists(c, "replaced")
                 /\ Rename(c, "replaced", "target")
                 /\ exec' = [exec EXCEPT !.work.swaps[c].undone = TRUE]
<1>1. Unwinds /\ exec.pc = "unwind" /\ exec # None /\ c \in Moved
  BY DEF UndoSwap, Unwinding, Unwinds
<1>2. exec.work.swaps[c] \in Swap /\ ~exec.work.swaps[c].undone
  BY <1>1, WorkTyped DEF Moved
<1> QED BY <1>1, <1>2 DEF UndoSwap

\* The record of a swap that is undone.
LEMMA UndoneIs ==
    ASSUME Core, exec # None, NEW c \in Host, exec.work.swaps[c] \in Swap,
           exec' = [exec EXCEPT !.work.swaps[c].undone = TRUE]
    PROVE  /\ exec' \in Working_ /\ exec'.pc = exec.pc /\ exec'.mode = exec.mode
           /\ exec'.unresolved = exec.unresolved
           /\ exec'.work.phase = exec.work.phase /\ exec'.work.planned = exec.work.planned
           /\ exec'.work.claim = exec.work.claim /\ exec'.work.steps = exec.work.steps
           /\ exec'.work.swaps[c] = [kept |-> exec.work.swaps[c].kept, undone |-> TRUE]
           /\ \A d \in Host : d # c => exec'.work.swaps[d] = exec.work.swaps[d]
<1>1. /\ exec \in Working_ /\ exec.work \in Journal
      /\ exec.work.swaps \in [Host -> Swap \cup {None}]
  BY WorkTyped
<1>2. PICK swap \in Swap : swap = [exec.work.swaps[c] EXCEPT !.undone = TRUE] BY DEF Swap
<1>3. swap = [kept |-> exec.work.swaps[c].kept, undone |-> TRUE] BY <1>2 DEF Swap
<1>4. PICK swaps \in [Host -> Swap \cup {None}] : swaps = [exec.work.swaps EXCEPT ![c] = swap]
  BY <1>1
<1> DEFINE work == [exec.work EXCEPT !.swaps = swaps]
<1>5. exec' = [exec EXCEPT !.work = work] BY <1>2, <1>4
<1>6. /\ work \in Journal /\ work.phase = exec.work.phase
      /\ work.planned = exec.work.planned /\ work.claim = exec.work.claim
      /\ work.steps = exec.work.steps /\ work.swaps = swaps
  BY <1>1, <1>4 DEF Journal
<1> HIDE DEF work
<1>7. /\ exec' \in Working_ /\ exec'.pc = exec.pc /\ exec'.mode = exec.mode
      /\ exec'.unresolved = exec.unresolved /\ exec'.work = work
  BY <1>1, <1>5, <1>6 DEF Working_
<1> QED BY <1>1, <1>3, <1>4, <1>6, <1>7

LEMMA CoreUndoes == ASSUME Core, NEW c \in Host, UndoSwap(c) PROVE Core'
<1>1. /\ Unwinds /\ exec # None /\ exec.pc = "unwind" /\ exec.work.swaps[c] \in Swap
      /\ UNCHANGED <<shape, lock, waiting, before, claims, vols, journal>>
  BY UndoCases DEF ThisStep, Unwinds
<1>2. /\ DiskTyped /\ WaitingOK' BY <1>1 DEF Core, Base, RestoreTypeOK, WaitingOK
<1>3. DiskTyped'
  <2>1. dirs \in [Host -> [Names -> Contents \cup {None}]] BY <1>2, DiskIs
  <2>2. dirs' \in [Host -> [Names -> Contents \cup {None}]]
    BY <1>2, <2>1, UndoCases, RenameDoes, NamesAre
  <2> QED BY <1>1, <1>2, <2>2, DiskIs
<1>4. UnwindAgrees
  BY <1>1 DEF Core, Base, Agreement, Unwinds
<1>5. CASE exec' = [exec EXCEPT !.unresolved = @ \union {c}]
  <2>1. exec \in Working_ BY <1>1, WorkTyped
  <2>2. exec.unresolved \union {c} \in SUBSET Host BY <2>1 DEF Working_
  <2>3. /\ exec' \in Working_ /\ exec'.work = exec.work /\ exec'.pc = exec.pc
        /\ exec'.mode = exec.mode
    BY <1>5, <2>1, <2>2 DEF Working_
  <2>4. RestoreTypeOK' BY <1>1, <1>3, <2>3 DEF Core, Base, RestoreTypeOK
  <2>5. UnwindAgrees' BY <1>1, <1>4, <2>3 DEF UnwindAgrees
  <2>6. Agreement' BY <1>1, <2>3, <2>5 DEF Core, Base, Agreement, Unwinds
  <2>7. AtStep' BY <1>1, <2>3 DEF AtStep, Restores, Unwinds
  <2>8. AllWalked' BY <1>1, <2>3 DEF Core, AllWalked, Walked, stepsFor
  <2> QED BY <1>2, <2>4, <2>6, <2>7, <2>8 DEF Core, Base
<1>6. CASE exec' = [exec EXCEPT !.work.swaps[c].undone = TRUE]
  <2>1. /\ exec' \in Working_ /\ exec'.pc = exec.pc /\ exec'.mode = exec.mode
        /\ exec'.work.phase = exec.work.phase /\ exec'.work.planned = exec.work.planned
        /\ exec'.work.claim = exec.work.claim /\ exec'.work.steps = exec.work.steps
        /\ exec'.work.swaps[c] = [kept |-> exec.work.swaps[c].kept, undone |-> TRUE]
        /\ \A d \in Host : d # c => exec'.work.swaps[d] = exec.work.swaps[d]
    BY <1>1, <1>6, UndoneIs
  <2>2. RestoreTypeOK' BY <1>1, <1>3, <2>1 DEF Core, Base, RestoreTypeOK
  <2>3. None \notin Swap BY NoneAssumption
  <2>4. exec'.work.swaps[c] \in Swap BY <1>1, <2>1 DEF Swap
  <2>5. UnwindAgrees'
    <3>1. ASSUME NEW d \in Host
          PROVE  /\ exec'.work.swaps[d] = None <=> journal'.swaps[d] = None
                 /\ journal'.swaps[d] # None =>
                      /\ journal'.swaps[d].kept = exec'.work.swaps[d].kept
                      /\ journal'.swaps[d].undone => exec'.work.swaps[d].undone
      <4>1. CASE d = c BY <1>1, <1>4, <2>1, <2>3, <2>4, <4>1 DEF UnwindAgrees
      <4>2. CASE d # c BY <1>1, <1>4, <2>1, <4>2 DEF UnwindAgrees
      <4> QED BY <4>1, <4>2
    <3> QED BY <1>1, <1>4, <2>1, <3>1 DEF UnwindAgrees
  <2>6. Agreement' BY <1>1, <2>1, <2>5 DEF Core, Base, Agreement, Unwinds
  <2>7. AtStep' BY <1>1, <2>1 DEF AtStep, Restores, Unwinds
  <2>8. AllWalked' BY <1>1, <2>1 DEF Core, AllWalked, Walked, stepsFor
  <2> QED BY <1>2, <2>2, <2>6, <2>7, <2>8 DEF Core, Base
<1>7. CASE UNCHANGED exec BY <1>1, <1>2, <1>3, <1>7, IdleCore
<1> QED BY <1>5, <1>6, <1>7, UndoCases

LEMMA CoreTried == ASSUME Core, AllTried PROVE Core'
<1>1. /\ Unwinds /\ exec.pc = "unwind" /\ Goto("staging") /\ DiskTyped'
      /\ UNCHANGED <<shape, lock, waiting, before, journal>>
  BY DiskKept DEF AllTried, ThisStep, Unwinding, Unwinds
<1> QED BY <1>1, UnwindMoves DEF InUnwind

LEMMA CoreAbandons == ASSUME Core, FinishAbandon PROVE Core'
<1>1. DiskTyped' BY DiskKept DEF FinishAbandon
<1> QED BY <1>1, EndCore DEF FinishAbandon, Release

LEMMA CoreDies == ASSUME Core, Crash PROVE Core'
<1>1. DiskTyped' BY DiskKept DEF Crash
<1> QED BY <1>1, EndCore DEF Crash

\* What happens to an installation while no command runs.
LEMMA CoreOperates ==
    ASSUME Core, RemoveStaleLock \/ DestroyAsides \/ RewriteSecrets \/ ClaimVanishes
    PROVE  Core'
<1>1. /\ UNCHANGED <<shape, journal, exec, before, waiting, vols>>
      /\ lock' = lock \/ (exec = None /\ lock' = None)
  BY DEF RemoveStaleLock, DestroyAsides, RewriteSecrets, ClaimVanishes, Core, Base, Agreement
<1>2. WaitingOK' BY <1>1 DEF Core, Base, WaitingOK
<1>3. DiskTyped /\ dirs \in [Host -> [Names -> Contents \cup {None}]]
      /\ claims \in [Nonces -> Databases \cup {"empty", "bad", "gone"}]
  BY DiskIs DEF Core, Base, RestoreTypeOK
<1>4. dirs' \in [Host -> [Names -> Contents \cup {None}]]
  <2>1. \A c \in Host : /\ [dirs[c] EXCEPT !.replaced = None, !.abandoned = None]
                             \in [Names -> Contents \cup {None}]
                        /\ [dirs[c] EXCEPT !.target = "newer"] \in [Names -> Contents \cup {None}]
    BY <1>3 DEF Contents
  <2>2. CASE DestroyAsides BY <2>1, <2>2 DEF DestroyAsides
  <2>3. CASE RewriteSecrets BY <1>3, <2>1, <2>3 DEF RewriteSecrets
  <2>4. CASE RemoveStaleLock \/ ClaimVanishes BY <1>3, <2>4 DEF RemoveStaleLock, ClaimVanishes
  <2> QED BY <2>2, <2>3, <2>4
<1>5. claims' \in [Nonces -> Databases \cup {"empty", "bad", "gone"}]
  <2>1. CASE ClaimVanishes BY <1>3, <2>1 DEF ClaimVanishes
  <2>2. CASE ~ClaimVanishes BY <1>3, <2>2 DEF RemoveStaleLock, DestroyAsides, RewriteSecrets
  <2> QED BY <2>1, <2>2
<1>6. DiskTyped' BY <1>1, <1>3, <1>4, <1>5, DiskIs
<1> QED BY <1>1, <1>2, <1>6, IdleCore

LEMMA InitCore == Init => Core
BY InitBase DEF Core, AtStep, AllWalked, Init, Restores

LEMMA NextCore == Core /\ [Next]_vars => Core'
<1> SUFFICES ASSUME Core, [Next]_vars PROVE Core' OBVIOUS
<1>1. CASE UNCHANGED vars
  <2>1. DiskTyped' /\ WaitingOK' BY <1>1, DiskKept DEF vars, Core, Base, WaitingOK
  <2> QED BY <1>1, <2>1, IdleCore DEF vars
<1>2. CASE Next
  BY <1>2, CoreReads, CoreOpens, CoreNothing, CoreRetry, CoreSafetySet, CoreRepair, CoreRewind,
     CoreBegins, CoreCompletes, CoreFails, CoreClaims, CoreRecordsClaim, CoreTakes, CoreStages,
     CoreStops, CoreSwaps, CoreVolumes, CoreFinishes, CoreRemoves, CoreRemoved, CoreDirects,
     CoreUndoes, CoreTried, CoreAbandons, CoreDies, CoreOperates
  DEF Next, Command, runCompleteRestore, Recover, PerformStep, abandonUnderLock
<1> QED BY <1>1, <1>2

\* The journal, the lock and the command that holds it agree, a restore is
\* inside a step its journal says is running, and the steps before the proofs
\* settle in the order of the plan (complete-restore.ts, runCompleteRestore).
THEOREM CoreHolds == Spec => []Core
<1>1. Init => Core BY InitCore
<1>2. Core /\ [Next]_vars => Core' BY NextCore
<1> QED BY <1>1, <1>2, PTL DEF Spec

-----------------------------------------------------------------------------
(* The safety set                                                            *)

\* A journal against the claim directories (held), the database there is (now)
\* and the one the operation began with (start): what lies under its claim, that
\* a finished safety set is there, and that nothing is destroyed before it is.
ClaimAgrees(j, held, now, start) ==
    /\ j.claim # 0 => /\ held[j.claim] # None
                      /\ held[j.claim] \in {"empty", "bad", "gone", start}
    /\ j.steps["safety-set"] = "complete" => j.claim # 0 /\ held[j.claim] = start
    /\ j.planned /\ j.steps["safety-set"] # "complete" => now = start

\* Where a restore is inside the step that takes the safety set.
ClaimInStep ==
    Restores => /\ exec.pc \in {"claimed", "backup"} => exec.work.claim # 0
                /\ exec.pc = "did" /\ exec.step = "safety-set" =>
                     exec.work.claim # 0 /\ claims[exec.work.claim] = before.database

AllClaims ==
    /\ exec # None => ClaimAgrees(exec.work, claims, vols.database, before.database)
    /\ journal # None => ClaimAgrees(journal, claims, vols.database, before.database)
    /\ ClaimInStep

\* Two journals that say the same of the safety set.
SameClaim(j, k) ==
    /\ j.claim = k.claim /\ j.planned = k.planned
    /\ j.steps["safety-set"] = "complete" <=> k.steps["safety-set"] = "complete"

\* Past the safety set, it has been taken.
LEMMA PastSafetySet ==
    ASSUME Core, Restores, Inside, exec.step # "safety-set", exec.step \notin PROOF_STEP_IDS,
           exec.work.planned
    PROVE  exec.work.steps["safety-set"] = "complete"
<1>1. /\ exec.step \in Plan /\ exec.work.steps[exec.step] = "running" /\ Plan \subseteq Steps
      /\ Walks(exec.work.steps, Plan \ PROOF_STEP_IDS, {"complete"})
  BY WorkTyped DEF Core, AtStep, Restores
<1>2. "safety-set" \in Plan \ PROOF_STEP_IDS BY StepsAre DEF Plan, stepsFor, PROOF_STEP_IDS
<1>3. Position["safety-set"] < Position[exec.step]
  <2>1. exec.step \in Steps /\ "safety-set" \in Steps BY <1>1, <1>2
  <2>2. Position[exec.step] \in 1 .. 15 /\ Position["safety-set"] = 1
    BY <2>1, PositionsTyped, Positions
  <2>3. Position[exec.step] # Position["safety-set"] BY <2>1, PositionsOrder
  <2> QED BY <2>2, <2>3
<1> QED BY <1>1, <1>2, <1>3 DEF Walks

\* Nothing a command does here says anything new of the safety set.
LEMMA ClaimsKept ==
    ASSUME Core, AllClaims, exec # None, UNCHANGED <<claims, before>>,
           vols'.database = vols.database \/ (Restores /\ (exec.work.planned =>
                                                exec.work.steps["safety-set"] = "complete")),
           exec' # None => SameClaim(exec'.work, exec.work),
           journal' \in {journal, None} \/ SameClaim(journal', exec.work),
           Restores' => \/ Restores /\ exec'.pc = exec.pc /\ exec'.step = exec.step
                        \/ exec.pc = "claimed" /\ exec'.pc = "backup" /\ Restores
                        \/ exec'.pc \notin {"claimed", "backup", "did"}
                        \/ exec'.pc = "did" /\ exec'.step # "safety-set"
    PROVE  AllClaims'
<1>1. ClaimAgrees(exec.work, claims, vols.database, before.database) /\ ClaimInStep
  BY DEF AllClaims
<1>2. ClaimAgrees(exec.work, claims', vols'.database, before'.database)
  BY <1>1 DEF ClaimAgrees
<1>3. exec' # None => ClaimAgrees(exec'.work, claims', vols'.database, before'.database)
  BY <1>2 DEF ClaimAgrees, SameClaim
<1>4. journal' # None => ClaimAgrees(journal', claims', vols'.database, before'.database)
  <2>1. CASE SameClaim(journal', exec.work) BY <1>2, <2>1 DEF ClaimAgrees, SameClaim
  <2>2. CASE journal' = journal /\ journal # None
    <3>1. ClaimAgrees(journal, claims, vols.database, before.database) BY <2>2 DEF AllClaims
    <3>2. Restores => /\ journal.planned = exec.work.planned
                      /\ journal.steps = exec.work.steps
      BY <2>2 DEF Core, Base, Agreement, RestoreAgrees, Restores
    <3> QED BY <2>2, <3>1, <3>2 DEF ClaimAgrees
  <2> QED BY <2>1, <2>2
<1>5. ClaimInStep' BY <1>1 DEF ClaimInStep, SameClaim, Restores
<1> QED BY <1>3, <1>4, <1>5 DEF AllClaims

\* A command that moves on, and has done nothing to the safety set.
LEMMA ClaimsMove ==
    ASSUME Core, AllClaims, exec # None, UNCHANGED <<claims, before>>,
           vols'.database = vols.database
             \/ (Inside /\ exec.step \notin PROOF_STEP_IDS \cup {"safety-set"} /\ Restores),
           NEW pc \in InRestore \cup InUnwind, Goto(pc),
           \/ pc \notin {"claimed", "backup"} /\ (pc = "did" => exec.step # "safety-set")
           \/ Restores /\ exec.pc = "claimed" /\ pc = "backup",
           journal' \in {journal, exec.work, None}
    PROVE  AllClaims'
<1>1. vols'.database = vols.database \/ (Restores /\ (exec.work.planned =>
                                           exec.work.steps["safety-set"] = "complete"))
  BY PastSafetySet
<1>2. /\ exec'.pc = pc /\ exec'.mode = exec.mode /\ exec'.work = exec.work /\ exec'.step = exec.step
  BY GotoDoes DEF Core
<1>3. SameClaim(exec'.work, exec.work) /\ SameClaim(exec.work, exec.work)
  BY <1>2 DEF SameClaim
<1> QED BY <1>1, <1>2, <1>3, ClaimsKept

\* A step that fails, and has done nothing to the safety set.
LEMMA ClaimsFail ==
    ASSUME Core, AllClaims, Restores, Inside, FailStep, UNCHANGED <<claims, before>>,
           vols'.database = vols.database \/ exec.step \notin PROOF_STEP_IDS \cup {"safety-set"}
    PROVE  AllClaims'
<1>1. vols'.database = vols.database \/ (Restores /\ (exec.work.planned =>
                                           exec.work.steps["safety-set"] = "complete"))
  BY PastSafetySet
<1>2. exec # None BY DEF Restores
<1>3. /\ exec'.pc = "loop" /\ journal' = exec'.work
      /\ exec'.work.planned = exec.work.planned /\ exec'.work.claim = exec.work.claim
      /\ exec'.work.steps = [exec.work.steps EXCEPT ![exec.step] = "failed"]
  BY <1>2, FailDoes DEF Core
<1>4. exec.work.steps \in [Steps -> Statuses] /\ exec.work.steps[exec.step] = "running"
  BY <1>2, WorkTyped DEF Core, AtStep
<1>5. SameClaim(exec'.work, exec.work) BY <1>3, <1>4, StepsAre DEF SameClaim
<1> QED BY <1>1, <1>2, <1>3, <1>5, ClaimsKept

\* A recovery that leaves the safety set as it found it.
LEMMA ClaimsRecover ==
    ASSUME Core, AllClaims, Restoring("recover"), NEW work \in Journal, Recovered(work),
           SameClaim(work, exec.work), UNCHANGED <<claims, before, vols>>
    PROVE  AllClaims'
<1>1. exec # None BY DEF Restoring
<1>2. exec'.pc = "loop" /\ exec'.work = work /\ journal' = work
  BY <1>1, WriteDoes DEF Core, Recovered, InRestore
<1> QED BY <1>1, <1>2, ClaimsKept

\* Nothing changes but the directories of the host, the lock and who waits for it.
LEMMA ClaimsIdle ==
    ASSUME AllClaims, UNCHANGED <<exec, journal, claims, vols, before>>
    PROVE  AllClaims'
BY DEF AllClaims, ClaimInStep, Restores

\* A command that gets the lock finds its journal's safety set as it is.
LEMMA ClaimsOpen == ASSUME Core, AllClaims, OpenLock PROVE AllClaims'
<1>1. UNCHANGED <<dirs, claims, vols, journal>> /\ before' \in {before, Here} BY DEF OpenLock
<1>2. CASE exec' = exec
  <2>1. exec = None BY DEF Core, Base, Agreement, OpenLock
  <2>2. journal # None => before' = before
    BY <1>2, <2>1 DEF OpenLock, ReadTheSame, Core, Base, WaitingOK
  <2> QED BY <1>1, <1>2, <2>1, <2>2 DEF AllClaims, ClaimInStep, Restores
<1>3. CASE exec' # exec
  <2>1. /\ exec'.pc \in {"direction", "recover"}
        /\ IF journal = None
           THEN waiting.mode = "run" /\ before' = Here /\ exec'.work = FreshJournal(waiting.planned)
           ELSE before' = before /\ exec'.work = journal
    BY <1>3, OpenDoes
  <2>2. ClaimInStep' BY <2>1 DEF ClaimInStep
  <2>3. CASE journal = None
    <3>1. waiting.planned \in BOOLEAN BY <1>3, OpenDoes DEF Core, Base, WaitingOK
    <3>2. Here.database = vols.database BY HereTyped DEF Core, Base, RestoreTypeOK
    <3>3. exec'.work.claim = 0 /\ exec'.work.steps["safety-set"] = "pending"
      BY <2>1, <2>3, <3>1, FreshJournalIs, StepsAre
    <3>4. ClaimAgrees(exec'.work, claims', vols'.database, before'.database)
      BY <1>1, <2>1, <2>3, <3>2, <3>3 DEF ClaimAgrees
    <3> QED BY <1>1, <2>2, <2>3, <3>4 DEF AllClaims
  <2>4. CASE journal # None BY <1>1, <2>1, <2>2, <2>4 DEF AllClaims
  <2> QED BY <2>3, <2>4
<1> QED BY <1>2, <1>3

\* What a recovery of the safety set writes is what lies under the claim.
LEMMA ClaimsSafetySet == ASSUME Core, AllClaims, RecoverSafetySet PROVE AllClaims'
<1> DEFINE claim == exec.work.claim
<1>1. /\ Restoring("recover") /\ Restores /\ exec # None
      /\ exec.work.steps["safety-set"] \in {"running", "failed"}
      /\ UNCHANGED <<before, claims, vols>>
  BY SafetySetCases DEF Restores
<1>2. ClaimAgrees(exec.work, claims, vols.database, before.database)
  BY <1>1 DEF AllClaims
<1>3. ASSUME NEW work \in Journal, Recovered(work),
             ClaimAgrees(work, claims, vols.database, before.database)
      PROVE  AllClaims'
  <2>1. exec'.pc = "loop" /\ exec'.work = work /\ journal' = work
    BY <1>1, <1>3, WriteDoes DEF Core, Recovered, InRestore
  <2> QED BY <1>1, <1>3, <2>1 DEF AllClaims, ClaimInStep
<1>4. "safety-set" \in Steps /\ exec.work.steps \in [Steps -> Statuses]
  BY <1>1, StepsAre, WorkTyped
<1>5. CASE Recovered([Retry({"safety-set"}) EXCEPT !.claim = 0])
  <2> DEFINE work == [Retry({"safety-set"}) EXCEPT !.claim = 0]
  <2>1. /\ work \in Journal /\ work.planned = exec.work.planned /\ work.claim = 0
        /\ work.steps = [exec.work.steps EXCEPT !["safety-set"] = "pending"]
    BY <1>1, UnclaimedIs
  <2>2. Recovered(work) BY <1>5
  <2> HIDE DEF work
  <2>3. ClaimAgrees(work, claims, vols.database, before.database)
    BY <1>1, <1>2, <1>4, <2>1 DEF ClaimAgrees
  <2> QED BY <1>3, <2>1, <2>2, <2>3
<1>6. CASE Recovered(Retry({"safety-set"}))
  <2>1. /\ Retry({"safety-set"}) \in Journal /\ Retry({"safety-set"}).planned = exec.work.planned
        /\ Retry({"safety-set"}).claim = claim
        /\ Retry({"safety-set"}).steps = [exec.work.steps EXCEPT !["safety-set"] = "pending"]
    BY <1>1, <1>4, RetryIs, RetryOne
  <2>2. ClaimAgrees(Retry({"safety-set"}), claims, vols.database, before.database)
    BY <1>1, <1>2, <1>4, <2>1 DEF ClaimAgrees
  <2> QED BY <1>3, <1>6, <2>1, <2>2
<1>7. CASE Release /\ UNCHANGED journal
  <2>1. exec' = None BY <1>7 DEF Release
  <2> QED BY <1>1, <1>7, <2>1, ClaimsKept DEF Restores
<1>8. CASE /\ claim # 0 /\ claims[claim] \notin {"gone", "empty", "bad"}
           /\ Recovered([exec.work EXCEPT !.steps["safety-set"] = "complete", !.taken = TRUE])
  <2> DEFINE work == [exec.work EXCEPT !.steps["safety-set"] = "complete", !.taken = TRUE]
  <2>1. /\ work \in Journal /\ work.planned = exec.work.planned /\ work.claim = claim
        /\ work.steps = [exec.work.steps EXCEPT !["safety-set"] = "complete"]
    BY <1>1, TakenIs
  <2>2. Recovered(work) BY <1>8
  <2> HIDE DEF work
  <2>3. ClaimAgrees(work, claims, vols.database, before.database)
    BY <1>1, <1>2, <1>4, <1>8, <2>1 DEF ClaimAgrees
  <2> QED BY <1>3, <2>1, <2>2, <2>3
<1> QED BY <1>5, <1>6, <1>7, <1>8, SafetySetCases

LEMMA ClaimsRetry == ASSUME Core, AllClaims, RecoverRetry PROVE AllClaims'
<1>1. PICK id \in Steps : Recovering("retry", id) /\ Recovered(Retry({id})) BY DEF RecoverRetry
<1>2. UNCHANGED <<claims, vols, before>> BY DEF RecoverRetry, ThisStep
<1>3. /\ Restoring("recover") /\ exec # None /\ STEP_RECOVERY[id] = "retry"
  BY <1>1, RecoveringIs DEF Restores
<1>4. id # "safety-set" BY <1>3, RecoveriesAre
<1>5. /\ Retry({id}) \in Journal /\ Retry({id}).planned = exec.work.planned
      /\ Retry({id}).claim = exec.work.claim
      /\ Retry({id}).steps = [exec.work.steps EXCEPT ![id] = "pending"]
  BY <1>3, RetryIs, RetryOne
<1>6. SameClaim(Retry({id}), exec.work)
  <2>1. exec.work.steps \in [Steps -> Statuses] BY <1>3, WorkTyped
  <2> QED BY <1>4, <1>5, <2>1, StepsAre DEF SameClaim
<1> QED BY <1>1, <1>2, <1>3, <1>5, <1>6, ClaimsRecover

LEMMA ClaimsRepair == ASSUME Core, AllClaims, repairSwap PROVE AllClaims'
<1>1. PICK id \in Placements :
        LET c == componentForStep(id)
            work == [exec.work EXCEPT !.steps[id] = "complete",
                       !.swaps[c] = IF @ # None THEN @
                                    ELSE [kept |-> Exists(c, "replaced"), undone |-> FALSE]]
        IN  /\ c \in Host /\ Restoring("recover") /\ Restores
            /\ UNCHANGED <<before, claims, vols>>
            /\ \/ Release /\ UNCHANGED journal
               \/ UNCHANGED <<exec, journal>>
               \/ Recovered(work)
               \/ Recovered(exec.work)
  BY RepairCases
<1> DEFINE c == componentForStep(id)
           work == [exec.work EXCEPT !.steps[id] = "complete",
                      !.swaps[c] = IF @ # None THEN @
                                   ELSE [kept |-> Exists(c, "replaced"), undone |-> FALSE]]
<1>2. /\ c \in Host /\ id \in Steps /\ exec # None /\ Restoring("recover")
      /\ UNCHANGED <<before, claims, vols>> /\ exec.work.steps \in [Steps -> Statuses]
      /\ id # "safety-set" /\ exec.work \in Journal
  BY <1>1, PlacementsAre, WorkTyped DEF Restores, Placements
<1>3. CASE Release /\ UNCHANGED journal
  <2>1. exec' = None BY <1>3 DEF Release
  <2> QED BY <1>2, <1>3, <2>1, ClaimsKept DEF Restores
<1>4. CASE UNCHANGED <<exec, journal>> BY <1>2, <1>4, ClaimsIdle
<1>5. CASE Recovered(work)
  <2>1. /\ work \in Journal /\ work.planned = exec.work.planned /\ work.claim = exec.work.claim
        /\ work.steps = [exec.work.steps EXCEPT ![id] = "complete"]
    BY <1>2, RepairedIs
  <2>2. Recovered(work) BY <1>5
  <2> HIDE DEF work, c
  <2>3. SameClaim(work, exec.work) BY <1>2, <2>1 DEF SameClaim
  <2> QED BY <1>2, <2>1, <2>2, <2>3, ClaimsRecover
<1>6. CASE Recovered(exec.work)
  <2>1. SameClaim(exec.work, exec.work) BY DEF SameClaim
  <2> QED BY <1>2, <1>6, <2>1, ClaimsRecover
<1> QED BY <1>1, <1>3, <1>4, <1>5, <1>6

LEMMA ClaimsRewind == ASSUME Core, AllClaims, RecoverRewind PROVE AllClaims'
<1>1. PICK id \in Plan :
        LET back == {other \in Plan : Position[other] \in 2 .. Position[id]}
        IN  /\ Restoring("recover") /\ Restores /\ back \subseteq Steps /\ Recovered(Retry(back))
            /\ UNCHANGED <<ThisStep, dirs, staging, claims, vols>>
  BY RewindIs
<1> DEFINE back == {other \in Plan : Position[other] \in 2 .. Position[id]}
<1>2. "safety-set" \notin back BY Positions
<1>3. Recovered(Retry(back)) /\ back \in SUBSET Steps BY <1>1
<1> HIDE DEF back
<1>4. exec # None /\ Restoring("recover") /\ UNCHANGED <<claims, vols, before>>
  BY <1>1 DEF Restores, ThisStep
<1>5. /\ Retry(back) \in Journal /\ Retry(back).planned = exec.work.planned
      /\ Retry(back).claim = exec.work.claim
      /\ Retry(back).steps = [b \in Steps |-> IF b \in back THEN "pending" ELSE exec.work.steps[b]]
  BY <1>3, <1>4, RetryIs
<1>6. SameClaim(Retry(back), exec.work) BY <1>2, <1>5, StepsAre DEF SameClaim
<1> QED BY <1>3, <1>4, <1>5, <1>6, ClaimsRecover

LEMMA ClaimsBegin == ASSUME Core, AllClaims, BeginStep PROVE AllClaims'
<1>1. Restores /\ exec # None /\ UNCHANGED <<claims, vols, before>> BY BeginDoes DEF Restores, ThisStep
<1>2. CASE Goto("finish") /\ UNCHANGED journal
  BY <1>1, <1>2, ClaimsMove DEF InRestore, InStep
<1>3. ASSUME NEW next \in ToDo, next \in Plan, exec.work.steps[next] # "complete",
             exec'.pc = "in", journal' = exec'.work,
             exec'.work.planned = exec.work.planned, exec'.work.claim = exec.work.claim,
             exec'.work.steps = [exec.work.steps EXCEPT ![next] = "running"]
      PROVE  AllClaims'
  <2>1. exec.work.steps \in [Steps -> Statuses] BY <1>1, WorkTyped
  <2>2. SameClaim(exec'.work, exec.work) BY <1>3, <2>1, StepsAre DEF SameClaim
  <2> QED BY <1>1, <1>3, <2>2, ClaimsKept
<1> QED BY <1>2, <1>3, BeginDoes

\* The step that took the safety set says so once the set is there.
LEMMA ClaimsComplete == ASSUME Core, AllClaims, CompleteStep PROVE AllClaims'
<1>1. /\ Restores /\ exec # None /\ exec.pc = "did" /\ UNCHANGED <<claims, vols, before>>
      /\ exec.step \in Steps /\ exec.work.steps[exec.step] = "running"
      /\ exec'.pc = "loop" /\ journal' = exec'.work
      /\ exec'.work.planned = exec.work.planned /\ exec'.work.claim = exec.work.claim
      /\ exec'.work.steps = [exec.work.steps EXCEPT ![exec.step] = "complete"]
  BY CompleteDoes DEF Restores, ThisStep
<1>2. exec.work.steps \in [Steps -> Statuses] BY <1>1, WorkTyped
<1>3. CASE exec.step # "safety-set"
  <2>1. SameClaim(exec'.work, exec.work) BY <1>1, <1>2, <1>3 DEF SameClaim
  <2> QED BY <1>1, <2>1, ClaimsKept
<1>4. CASE exec.step = "safety-set"
  <2>1. exec.work.claim # 0 /\ claims[exec.work.claim] = before.database
    BY <1>1, <1>4 DEF AllClaims, ClaimInStep
  <2>2. ClaimAgrees(exec.work, claims, vols.database, before.database) BY <1>1 DEF AllClaims
  <2>3. exec'.work.steps["safety-set"] = "complete" BY <1>1, <1>2, <1>4
  <2>4. ClaimAgrees(exec'.work, claims', vols'.database, before'.database)
    BY <1>1, <2>1, <2>2, <2>3 DEF ClaimAgrees
  <2>5. ClaimInStep' BY <1>1 DEF ClaimInStep
  <2> QED BY <1>1, <2>4, <2>5 DEF AllClaims
<1> QED BY <1>3, <1>4

\* A journal that a restore has on the disk says of the steps what it works on.
LEMMA JournalSteps ==
    ASSUME Core, Restores, journal # None
    PROVE  /\ journal \in Journal /\ journal.planned = exec.work.planned
           /\ journal.steps = exec.work.steps /\ journal.swaps = exec.work.swaps
           /\ exec.pc # "claimed" => journal.claim = exec.work.claim
BY DEF Core, Base, RestoreTypeOK, Agreement, RestoreAgrees, Restores

\* A new claim directory is nobody's, and is not the one the journal names.
LEMMA ClaimsClaim == ASSUME Core, AllClaims, ClaimDirectory PROVE AllClaims'
<1>1. PICK n \in Nonces :
             /\ In("safety-set") /\ Restores
             /\ claims[n] = None /\ claims' = [claims EXCEPT ![n] = "empty"]
             /\ exec'.pc = "claimed"
             /\ exec'.work.planned = exec.work.planned
             /\ exec'.work.claim = n
             /\ exec'.work.steps = exec.work.steps
             /\ UNCHANGED <<before, vols, journal>>
  BY ClaimDoes DEF ThisStep
<1>2. exec # None /\ exec.work.steps["safety-set"] = "running"
  BY <1>1, InIs, StepsAre
<1>3. claims \in [Nonces -> Databases \cup {"empty", "bad", "gone"}] /\ n \in Nat \ {0}
  BY DiskIs DEF Core, Base, RestoreTypeOK, Nonces
<1>4. claims'[n] = "empty" /\ \A m \in Nonces : m # n => claims'[m] = claims[m]
  BY <1>1, <1>3
<1>5. ClaimAgrees(exec'.work, claims', vols'.database, before'.database)
  <2>1. ClaimAgrees(exec.work, claims, vols.database, before.database) BY <1>2 DEF AllClaims
  <2> QED BY <1>1, <1>2, <1>4, <2>1 DEF ClaimAgrees
<1>6. ASSUME journal # None
      PROVE  ClaimAgrees(journal, claims', vols'.database, before'.database)
  <2>1. ClaimAgrees(journal, claims, vols.database, before.database) BY <1>6 DEF AllClaims
  <2>2. journal.steps = exec.work.steps /\ journal \in Journal
    BY <1>1, <1>6, JournalSteps
  <2>3. journal.claim \in Nonces \cup {0} BY <2>2 DEF Journal
  <2>4. journal.claim # 0 => journal.claim # n BY <1>1, <2>1 DEF ClaimAgrees
  <2> QED BY <1>1, <1>2, <1>4, <2>1, <2>2, <2>3, <2>4 DEF ClaimAgrees
<1>7. ClaimInStep'
  <2>1. n # 0 BY DEF Nonces
  <2> QED BY <1>1, <2>1 DEF ClaimInStep
<1> QED BY <1>1, <1>5, <1>6, <1>7 DEF AllClaims

\* The set is taken of the database the operation began with.
LEMMA ClaimsTake == ASSUME Core, AllClaims, TakeSafetySet PROVE AllClaims'
<1> DEFINE claim == exec.work.claim
<1>1. /\ Restores /\ Inside /\ exec.step = "safety-set" /\ exec.pc \in {"backup", "in"}
      /\ exec # None /\ UNCHANGED <<before, vols>>
  BY TakeCases DEF Restores, ThisStep
<1>2. claim # 0
  BY <1>1, TakeCases DEF AllClaims, ClaimInStep
<1>3. exec.work.steps["safety-set"] = "running" /\ exec.step \in Plan
  BY <1>1 DEF Core, AtStep
<1>4. exec.work.planned BY <1>1, <1>3 DEF Plan, stepsFor
<1>5. claim \in Nonces BY <1>1, <1>2, WorkTyped
<1>6. ClaimAgrees(exec.work, claims, vols.database, before.database) BY <1>1 DEF AllClaims
<1>7. vols.database = before.database BY <1>3, <1>4, <1>6 DEF ClaimAgrees
<1>8. claims \in [Nonces -> Databases \cup {"empty", "bad", "gone"}]
  BY DiskIs DEF Core, Base, RestoreTypeOK
<1>9. journal # None => journal.steps = exec.work.steps /\ journal.claim = claim
  BY <1>1, JournalSteps
<1>10. CASE FailStep /\ UNCHANGED claims BY <1>1, <1>10, ClaimsFail
<1>11. CASE /\ claims[claim] = "empty" /\ vols.database # None
            /\ claims' = [claims EXCEPT ![claim] = vols.database]
            /\ exec'.pc = "did" /\ exec'.work.planned = exec.work.planned
            /\ exec'.work.claim = exec.work.claim
            /\ exec'.work.steps = exec.work.steps
            /\ UNCHANGED journal
  <2>1. claims'[claim] = before.database /\ before.database # None BY <1>5, <1>7, <1>8, <1>11
  <2>2. ClaimAgrees(exec'.work, claims', vols'.database, before'.database)
    BY <1>1, <1>2, <1>6, <1>11, <2>1 DEF ClaimAgrees
  <2>3. journal' # None => ClaimAgrees(journal', claims', vols'.database, before'.database)
    <3>1. journal # None => ClaimAgrees(journal, claims, vols.database, before.database)
      BY DEF AllClaims
    <3> QED BY <1>1, <1>3, <1>9, <1>11, <2>1, <3>1 DEF ClaimAgrees
  <2>4. ClaimInStep' BY <1>1, <1>2, <1>11, <2>1 DEF ClaimInStep
  <2> QED BY <2>2, <2>3, <2>4 DEF AllClaims
<1>12. CASE /\ claims[claim] = "empty"
            /\ claims' = [claims EXCEPT ![claim] = "bad"] /\ FailStep
  <2>1. /\ exec'.pc = "loop" /\ journal' = exec'.work
        /\ exec'.work.planned = exec.work.planned /\ exec'.work.claim = exec.work.claim
        /\ exec'.work.steps = [exec.work.steps EXCEPT ![exec.step] = "failed"]
    BY <1>1, <1>12, FailDoes DEF Core
  <2>2. exec'.work.steps["safety-set"] = "failed"
    BY <1>1, <2>1, WorkTyped, StepsAre
  <2>3. claims'[claim] = "bad" BY <1>5, <1>8, <1>12
  <2>4. ClaimAgrees(exec'.work, claims', vols'.database, before'.database)
    BY <1>1, <1>2, <1>7, <2>1, <2>2, <2>3 DEF ClaimAgrees
  <2>5. ClaimInStep' BY <2>1 DEF ClaimInStep
  <2> QED BY <2>1, <2>4, <2>5 DEF AllClaims
<1> QED BY <1>10, <1>11, <1>12, TakeCases

\* Every other step of a restore.
LEMMA ClaimsStep ==
    ASSUME Core, AllClaims,
           \/ stageComponents \/ StopAndDestroy \/ swapComponent \/ DatabaseUp
           \/ PrepareRuntimeRole \/ ReplayDatabase \/ PlaceInlineKeystore \/ RunCommands
    PROVE  AllClaims'
<1>1. /\ exec # None /\ exec.mode # "abandon" /\ exec.pc \in InStep /\ UNCHANGED <<before, claims>>
  BY DEF stageComponents, StopAndDestroy, swapComponent, DatabaseUp, PrepareRuntimeRole,
         ReplayDatabase, PlaceInlineKeystore, RunCommands, In, Restoring, ThisStep, InStep
<1>2. /\ Restores /\ Inside /\ exec.step \in Plan /\ exec.step \in Steps BY <1>1, InsideIs
<1>3. exec.step # "safety-set"
  <2>1. CASE swapComponent BY <2>1, SwapCases DEF Placements
  <2>2. CASE stageComponents
    BY <1>1, <2>2 DEF stageComponents, In, Restoring, Core, AtStep, Restores
  <2>3. CASE StopAndDestroy \/ DatabaseUp \/ PrepareRuntimeRole \/ ReplayDatabase
               \/ PlaceInlineKeystore \/ RunCommands
    BY <2>3 DEF StopAndDestroy, DatabaseUp, PrepareRuntimeRole, ReplayDatabase,
                PlaceInlineKeystore, RunCommands, In, Restoring, PROOF_STEP_IDS
  <2> QED BY <2>1, <2>2, <2>3
<1>4. vols'.database = vols.database \/ exec.step \notin PROOF_STEP_IDS \cup {"safety-set"}
  <2>1. CASE UNCHANGED vols BY <2>1
  <2>2. CASE ~UNCHANGED vols
    BY <1>3, <2>2 DEF stageComponents, StopAndDestroy, swapComponent, DatabaseUp,
         PrepareRuntimeRole, ReplayDatabase, PlaceInlineKeystore, RunCommands, In, Restoring,
         PROOF_STEP_IDS
  <2> QED BY <2>1, <2>2
<1>5. CASE FailStep BY <1>1, <1>2, <1>4, <1>5, ClaimsFail
<1>6. ASSUME NEW pc \in {"did", "copying", "midway", "taken", "aside", "placed"},
             Goto(pc), UNCHANGED journal
      PROVE  AllClaims'
  BY <1>1, <1>2, <1>3, <1>4, <1>6, ClaimsMove DEF InRestore, InStep
<1>7. CASE /\ swapComponent /\ exec.pc = "placed"
           /\ LET work == [exec.work EXCEPT !.swaps[componentForStep(exec.step)] =
                [kept |-> Exists(componentForStep(exec.step), "replaced"), undone |-> FALSE]]
              IN  journal' = work /\ exec' = [exec EXCEPT !.work = work, !.pc = "did"]
  <2> DEFINE c == componentForStep(exec.step)
             work == [exec.work EXCEPT !.swaps[c] =
                        [kept |-> Exists(c, "replaced"), undone |-> FALSE]]
  <2>1. c \in Host /\ UNCHANGED vols BY <1>7, SwapCases
  <2>2. /\ work \in Journal /\ work.planned = exec.work.planned /\ work.steps = exec.work.steps
        /\ work.claim = exec.work.claim
    BY <1>1, <2>1, SwappedIs
  <2>3. journal' = work /\ exec' = [exec EXCEPT !.work = work, !.pc = "did"] BY <1>7
  <2> HIDE DEF work, c
  <2>4. exec'.pc = "did" /\ exec'.step = exec.step /\ exec'.work = work
    BY <1>1, <2>2, <2>3, WriteDoes DEF Core, InRestore, InStep
  <2>5. SameClaim(work, exec.work) BY <2>2 DEF SameClaim
  <2> QED BY <1>1, <1>3, <2>1, <2>3, <2>4, <2>5, ClaimsKept
<1>8. CASE swapComponent
  <2>1. \/ FailStep
        \/ \E pc \in {"did", "taken", "aside", "placed"} : Goto(pc) /\ UNCHANGED journal
        \/ /\ exec.pc = "placed"
           /\ LET work == [exec.work EXCEPT !.swaps[componentForStep(exec.step)] =
                [kept |-> Exists(componentForStep(exec.step), "replaced"), undone |-> FALSE]]
              IN  journal' = work /\ exec' = [exec EXCEPT !.work = work, !.pc = "did"]
    BY <1>8, SwapCases
  <2> QED BY <1>5, <1>6, <1>7, <1>8, <2>1
<1>9. CASE \/ stageComponents \/ StopAndDestroy \/ DatabaseUp
           \/ PrepareRuntimeRole \/ ReplayDatabase \/ PlaceInlineKeystore \/ RunCommands
  <2>1. FailStep \/ \E pc \in {"did", "copying", "midway"} : Goto(pc) /\ UNCHANGED journal
    BY <1>9 DEF stageComponents, StopAndDestroy, DatabaseUp, PrepareRuntimeRole,
         ReplayDatabase, PlaceInlineKeystore, RunCommands
  <2> QED BY <1>5, <1>6, <2>1
<1> QED BY <1>8, <1>9

\* What ends a command, or removes what was staged, or unwinds.
LEMMA ClaimsRest ==
    ASSUME Core, AllClaims,
           \/ NothingToRecover \/ FailHere \/ RecordClaim \/ FinishRestore \/ RemoveStaging
           \/ StagingRemoved \/ AllTried \/ FinishAbandon \/ Crash
    PROVE  AllClaims'
<1>1. /\ exec # None /\ UNCHANGED <<before, claims, vols>>
  BY DEF NothingToRecover, FailHere, RecordClaim, FinishRestore, RemoveStaging,
         StagingRemoved, AllTried, FinishAbandon, Crash, In, Restoring, Unwinding, ThisStep
<1>2. CASE FailHere
  BY <1>1, <1>2, ClaimsFail DEF FailHere, Restores, Inside, InStep
<1>3. CASE FinishRestore \/ FinishAbandon \/ Crash \/ (StagingRemoved /\ Release)
  <2>1. exec' = None /\ journal' \in {journal, exec.work, None}
    BY <1>3 DEF FinishRestore, FinishAbandon, Crash, StagingRemoved, Release
  <2>2. SameClaim(exec.work, exec.work) BY DEF SameClaim
  <2> QED BY <1>1, <2>1, <2>2, ClaimsKept DEF Restores
<1>4. CASE RecordClaim
  BY <1>1, <1>4, ClaimsMove DEF RecordClaim, Restoring, Restores, InRestore, InStep
<1>5. CASE NothingToRecover \/ RemoveStaging \/ AllTried \/ (StagingRemoved /\ ~Release)
  <2>1. \E pc \in {"loop", "removing", "staging", "finish", "in"} :
          Goto(pc) /\ UNCHANGED journal
    BY <1>5 DEF NothingToRecover, RemoveStaging, AllTried, StagingRemoved
  <2> QED BY <1>1, <2>1, ClaimsMove DEF InRestore, InStep, InUnwind
<1> QED BY <1>2, <1>3, <1>4, <1>5

LEMMA ClaimsDirect == ASSUME Core, AllClaims, RecordDirection PROVE AllClaims'
<1>1. /\ exec # None /\ UNCHANGED <<claims, vols, before>>
      /\ SameClaim(journal', exec.work) /\ SameClaim(exec'.work, exec.work) /\ ~Restores'
  BY DirectionDoes DEF SameClaim, Restores, Unwinds, ThisStep
<1> QED BY <1>1, ClaimsKept

LEMMA ClaimsUndo == ASSUME Core, AllClaims, NEW c \in Host, UndoSwap(c) PROVE AllClaims'
<1>1. /\ Unwinds /\ exec # None /\ exec.work.swaps[c] \in Swap /\ UNCHANGED <<claims, vols, journal, before>>
      /\ exec \in Working_
  BY UndoCases, WorkTyped DEF ThisStep, Unwinds
<1>2. exec'.mode = "abandon" /\ SameClaim(exec'.work, exec.work)
  <2>1. CASE exec' = [exec EXCEPT !.work.swaps[c].undone = TRUE]
    BY <1>1, <2>1, UndoneIs DEF SameClaim, Unwinds
  <2>2. CASE exec' = [exec EXCEPT !.unresolved = @ \union {c}]
    BY <1>1, <2>2 DEF SameClaim, Unwinds, Working_
  <2>3. CASE exec' = exec BY <1>1, <2>3 DEF SameClaim, Unwinds
  <2> QED BY <2>1, <2>2, <2>3, UndoCases
<1> QED BY <1>1, <1>2, ClaimsKept DEF Restores

\* An empty claim may go while no command runs.
LEMMA ClaimsVanish == ASSUME Core, AllClaims, ClaimVanishes PROVE AllClaims'
<1>1. exec = None /\ exec' = None /\ UNCHANGED <<vols, journal, before>> BY DEF ClaimVanishes
<1>2. PICK n \in Nonces : claims[n] = "empty" /\ claims' = [claims EXCEPT ![n] = "gone"]
  BY DEF ClaimVanishes
<1>3. claims \in [Nonces -> Databases \cup {"empty", "bad", "gone"}] /\ before.database \in Databases
  BY DiskIs DEF Core, Base, RestoreTypeOK
<1>4. "empty" \notin Databases BY DEF Databases
<1>5. \A m \in Nonces : claims'[m] = IF m = n THEN "gone" ELSE claims[m] BY <1>2, <1>3
<1>6. ASSUME journal # None
      PROVE  ClaimAgrees(journal, claims', vols'.database, before'.database)
  <2>1. ClaimAgrees(journal, claims, vols.database, before.database) BY <1>6 DEF AllClaims
  <2>2. journal.claim \in Nonces \cup {0} BY <1>6 DEF Core, Base, RestoreTypeOK, Journal
  <2> QED BY <1>1, <1>2, <1>3, <1>4, <1>5, <2>1, <2>2 DEF ClaimAgrees
<1> QED BY <1>1, <1>6 DEF AllClaims, ClaimInStep, Restores

LEMMA NextClaims == Core /\ AllClaims /\ [Next]_vars => AllClaims'
<1> SUFFICES ASSUME Core, AllClaims, [Next]_vars PROVE AllClaims' OBVIOUS
<1>1. CASE \/ UNCHANGED vars
           \/ \E mode \in {"run", "resume", "abandon"}, planned \in BOOLEAN :
                ReadJournal(mode, planned)
           \/ RemoveStaleLock \/ DestroyAsides \/ RewriteSecrets
  <2>1. UNCHANGED <<exec, journal, claims, vols, before>>
    BY <1>1 DEF vars, ReadJournal, RemoveStaleLock, DestroyAsides, RewriteSecrets
  <2> QED BY <2>1, ClaimsIdle
<1>2. CASE \/ OpenLock \/ Command \/ FailHere \/ Crash \/ ClaimVanishes
  BY <1>2, ClaimsOpen, ClaimsSafetySet, ClaimsRetry, ClaimsRepair, ClaimsRewind, ClaimsBegin,
     ClaimsComplete, ClaimsClaim, ClaimsTake, ClaimsStep, ClaimsRest, ClaimsDirect, ClaimsUndo,
     ClaimsVanish
  DEF Command, runCompleteRestore, Recover, PerformStep, abandonUnderLock
<1> QED BY <1>1, <1>2 DEF Next

LEMMA InitClaims == Init => AllClaims
BY DEF Init, AllClaims, ClaimInStep, Restores

LEMMA ClaimsProtect == Core /\ AllClaims => RecoveryBeforeDestruction
<1> SUFFICES ASSUME Core, AllClaims, journal # None, journal.planned,
                    journal.steps["stop-and-destroy"] # "pending"
             PROVE  journal.claim # 0 /\ claims[journal.claim] = before.database
  BY DEF RecoveryBeforeDestruction
<1>1. Walks(journal.steps, stepsFor(journal.planned) \ PROOF_STEP_IDS, {"complete"})
  BY DEF Core, AllWalked, Walked
<1>2. /\ "safety-set" \in stepsFor(journal.planned) \ PROOF_STEP_IDS
      /\ "stop-and-destroy" \in stepsFor(journal.planned) \ PROOF_STEP_IDS
  BY StepsAre DEF stepsFor, PROOF_STEP_IDS
<1>3. Position["safety-set"] < Position["stop-and-destroy"] BY Positions
<1>4. journal.steps["safety-set"] = "complete" BY <1>1, <1>2, <1>3 DEF Walks
<1> QED BY <1>4 DEF AllClaims, ClaimAgrees

\* A restore that planned a safety set destroys nothing before the claim its
\* journal names holds a verified set of the installation it began with
\* (complete-restore.ts, performStep and recoverInterruptedStep).
THEOREM RecoveryComesFirst == Spec => []RecoveryBeforeDestruction
<1>1. Init => Core /\ AllClaims BY InitCore, InitClaims
<1>2. Core /\ AllClaims /\ [Next]_vars => (Core /\ AllClaims)' BY NextCore, NextClaims
<1>3. Core /\ AllClaims => RecoveryBeforeDestruction BY ClaimsProtect
<1> QED BY <1>1, <1>2, <1>3, PTL DEF Spec

-----------------------------------------------------------------------------
(* An unwind that somebody has asked for                                     *)

\* Only an unwind moves while the journal says that one has begun.
LEMMA UnwindHolds ==
    ASSUME Core, journal # None, journal.phase = "abandoning", exec # None
    PROVE  Unwinds
BY DEF Core, Base, Agreement, RestoreAgrees, Unwinds

LEMMA NothingPlacedStep ==
    ASSUME Core, Next, journal # None, journal.phase = "abandoning"
    PROVE  /\ vols' = vols
           /\ \A c \in Host : dirs'[c].restoring = dirs[c].restoring
           /\ \A n \in Nonces : claims'[n] \in {claims[n], "gone"}
<1>1. /\ DiskTyped /\ claims \in [Nonces -> Databases \cup {"empty", "bad", "gone"}]
      /\ dirs \in [Host -> [Names -> Contents \cup {None}]]
  BY DiskIs DEF Core, Base, RestoreTypeOK
<1>2. ~Restores BY UnwindHolds DEF Restores, Unwinds
<1>3. CASE UNCHANGED <<vols, dirs, claims>> BY <1>3
<1>4. ASSUME NEW c \in Host, UndoSwap(c)
      PROVE  /\ UNCHANGED <<vols, claims>>
             /\ \A d \in Host : dirs'[d].restoring = dirs[d].restoring
  <2>1. UNCHANGED <<vols, claims>> BY <1>4 DEF UndoSwap
  <2>2. \/ UNCHANGED dirs
        \/ Rename(c, "target", "abandoned")
        \/ Rename(c, "replaced", "target")
    BY <1>4 DEF UndoSwap
  <2> QED BY <1>1, <2>1, <2>2, RenameDoes, NamesAre
<1>5. CASE ClaimVanishes BY <1>1, <1>5 DEF ClaimVanishes
<1>6. ~DestroyAsides /\ ~RewriteSecrets BY DEF DestroyAsides, RewriteSecrets, Quiet
<1>7. ~BeginStep /\ ~CompleteStep /\ ~FailHere /\ ~FinishRestore /\ ~Recover /\ ~PerformStep
  <2>1. ~BeginStep /\ ~CompleteStep /\ ~FailHere /\ ~FinishRestore
    BY <1>2 DEF BeginStep, CompleteStep, FailHere, FinishRestore, Restoring, Restores
  <2>2. ~Recover
    BY <1>2 DEF Recover, NothingToRecover, RecoverRetry, RecoverSafetySet, repairSwap,
                RecoverRewind, Recovering, Restoring, Restores
  <2>3. ~PerformStep
    BY <1>2 DEF PerformStep, ClaimDirectory, RecordClaim, TakeSafetySet, stageComponents,
                StopAndDestroy, swapComponent, DatabaseUp, PrepareRuntimeRole, ReplayDatabase,
                PlaceInlineKeystore, RunCommands, In, Restoring, Restores
  <2> QED BY <2>1, <2>2, <2>3
<1>8. CASE \/ \E mode \in {"run", "resume", "abandon"}, planned \in BOOLEAN :
                ReadJournal(mode, planned)
           \/ OpenLock \/ RecordDirection \/ AllTried \/ FinishAbandon \/ RemoveStaging
           \/ StagingRemoved \/ Crash \/ RemoveStaleLock
  BY <1>3, <1>8 DEF ReadJournal, OpenLock, RecordDirection, AllTried, FinishAbandon,
       RemoveStaging, StagingRemoved, Crash, RemoveStaleLock
<1> QED BY <1>4, <1>5, <1>6, <1>7, <1>8 DEF Next, Command, runCompleteRestore, abandonUnderLock

\* Once the journal says that the restore is to be put back, no command places
\* a component, touches a volume or takes a safety set: a resume that read the
\* journal earlier reads it again under the lock (complete-restore.ts:1644).
THEOREM NothingIsPlacedOverAnUnwind == Spec => NothingPlacedOverAnUnwind
<1>1. Core /\ [Next]_vars =>
        [journal # None /\ journal.phase = "abandoning"
           => /\ vols' = vols
              /\ \A c \in Host : dirs'[c].restoring = dirs[c].restoring
              /\ \A n \in Nonces : claims'[n] \in {claims[n], "gone"}]_vars
  BY NothingPlacedStep
<1> QED BY <1>1, CoreHolds, PTL DEF Spec, NothingPlacedOverAnUnwind

-----------------------------------------------------------------------------
(* The host targets' directories                                             *)

\* A target's directories: what is in flight is the set's, a target that holds
\* the set has nothing in flight, and what is kept aside is never the set's.
DirsAgree(d) ==
    /\ d.restoring \in {None, "set"}
    /\ d.target = "set" => d.restoring = None
    /\ d.replaced # "set"

\* Where a restore is inside a swap.
SwapInStep ==
    Restores /\ exec.step \in Placements =>
      LET d == dirs[componentForStep(exec.step)]
      IN  /\ exec.pc = "taken" => /\ d.replaced = None /\ d.restoring = "set"
                                  /\ d.target # "set"
          /\ exec.pc = "aside" => d.target = None /\ d.restoring = "set"
          /\ exec.pc \in {"placed", "did"} => d.target = "set"

AllDirs == (\A c \in Host : DirsAgree(dirs[c])) /\ SwapInStep

\* A rename, one target's directories at a time.
LEMMA RenameOne ==
    ASSUME Core, NEW c \in Host, NEW from \in Names, NEW to \in Names, from # to,
           Rename(c, from, to)
    PROVE  /\ dirs'[c][from] = None /\ dirs'[c][to] = dirs[c][from]
           /\ \A name \in Names : name # from /\ name # to => dirs'[c][name] = dirs[c][name]
           /\ \A d \in Host : d # c => /\ \A name \in Names : dirs'[d][name] = dirs[d][name]
                                       /\ dirs'[d] = dirs[d]
<1>1. DiskTyped /\ dirs \in [Host -> [Names -> Contents \cup {None}]]
  BY DiskIs DEF Core, Base, RestoreTypeOK
<1>2. \A d \in Host : d # c => dirs'[d] = dirs[d] BY <1>1 DEF Rename
<1> QED BY <1>1, <1>2, RenameDoes

\* Nothing happens to the directories, and no swap is begun.
LEMMA DirsKept ==
    ASSUME AllDirs, UNCHANGED dirs,
           Restores' => \/ UNCHANGED exec
                        \/ exec'.pc \notin {"taken", "aside", "placed", "did"}
                        \/ exec'.step \notin Placements
    PROVE  AllDirs'
BY DEF AllDirs, SwapInStep, Restores

\* A swap, rename by rename.
LEMMA DirsSwap == ASSUME Core, AllDirs, swapComponent PROVE AllDirs'
<1> DEFINE c == componentForStep(exec.step)
<1>1. /\ c \in Host /\ exec.step \in Placements /\ Restores /\ exec # None
      /\ dirs \in [Host -> [Names -> Contents \cup {None}]]
  BY SwapCases, DiskIs DEF Core, Base, RestoreTypeOK, Restores
<1>2. \A d \in Host : DirsAgree(dirs[d]) BY DEF AllDirs
<1>a. SwapInStep BY DEF AllDirs
<1>3. ASSUME NEW pc \in {"did", "taken", "aside", "placed"}, Goto(pc)
      PROVE  exec'.pc = pc /\ exec'.step = exec.step
  BY <1>1, <1>3, GotoDoes DEF Core, InRestore, InStep
<1>4. CASE /\ exec.pc = "in" /\ dirs[c].target = "set"
           /\ Goto("did") /\ UNCHANGED <<dirs, staging, journal>>
  <2>1. SwapInStep' BY <1>3, <1>4 DEF SwapInStep
  <2> QED BY <1>2, <1>4, <2>1 DEF AllDirs
<1>5. CASE exec.pc = "in" /\ FailStep /\ UNCHANGED <<dirs, staging>>
  <2>1. exec'.pc = "loop" BY <1>1, <1>5, FailDoes DEF Core
  <2> QED BY <1>5, <2>1, DirsKept
<1>6. CASE /\ exec.pc = "in" /\ dirs[c].target # "set" /\ ~InTheWay(c)
           /\ dirs' = [dirs EXCEPT ![c].restoring = "set"]
           /\ Goto("taken") /\ UNCHANGED journal
  <2>1. /\ dirs'[c].restoring = "set" /\ dirs'[c].target = dirs[c].target
        /\ dirs'[c].replaced = dirs[c].replaced /\ \A d \in Host : d # c => dirs'[d] = dirs[d]
    BY <1>1, <1>6, NamesAre
  <2>2. dirs[c].replaced = None BY <1>6 DEF InTheWay, Exists
  <2>3. \A d \in Host : DirsAgree(dirs'[d])
    <3>1. DirsAgree(dirs'[c]) BY <1>6, <2>1, <2>2 DEF DirsAgree
    <3> HIDE DEF c
    <3> QED BY <1>2, <2>1, <3>1
  <2>4. SwapInStep' BY <1>3, <1>6, <2>1, <2>2 DEF SwapInStep
  <2> QED BY <2>3, <2>4 DEF AllDirs
<1>7. CASE /\ exec.pc = "taken" /\ Exists(c, "target") /\ Rename(c, "target", "replaced")
           /\ Goto("aside")
  <2>1. /\ dirs'[c].target = None /\ dirs'[c].replaced = dirs[c].target
        /\ dirs'[c].restoring = dirs[c].restoring /\ \A d \in Host : d # c => dirs'[d] = dirs[d]
    BY <1>1, <1>7, RenameOne, NamesAre
  <2>2. dirs[c].target # "set" /\ dirs[c].restoring = "set"
    BY <1>1, <1>7, <1>a DEF SwapInStep
  <2>3. \A d \in Host : DirsAgree(dirs'[d])
    <3>1. DirsAgree(dirs'[c]) BY <2>1, <2>2 DEF DirsAgree
    <3> HIDE DEF c
    <3> QED BY <1>2, <2>1, <3>1
  <2>4. SwapInStep' BY <1>3, <1>7, <2>1, <2>2 DEF SwapInStep
  <2> QED BY <2>3, <2>4 DEF AllDirs
<1>8. CASE exec.pc = "taken" /\ ~Exists(c, "target") /\ UNCHANGED dirs /\ Goto("aside")
  <2>1. dirs[c].restoring = "set" /\ dirs[c].target = None
    BY <1>1, <1>8, <1>a DEF SwapInStep, Exists
  <2>2. SwapInStep' BY <1>3, <1>8, <2>1 DEF SwapInStep
  <2> QED BY <1>2, <1>8, <2>2 DEF AllDirs
<1>9. CASE exec.pc = "aside" /\ Rename(c, "restoring", "target") /\ Goto("placed")
  <2>1. /\ dirs'[c].restoring = None /\ dirs'[c].target = dirs[c].restoring
        /\ dirs'[c].replaced = dirs[c].replaced /\ \A d \in Host : d # c => dirs'[d] = dirs[d]
    BY <1>1, <1>9, RenameOne, NamesAre
  <2>2. dirs[c].restoring = "set" BY <1>1, <1>9, <1>a DEF SwapInStep
  <2>3. \A d \in Host : DirsAgree(dirs'[d])
    <3>1. DirsAgree(dirs'[c]) BY <1>1, <1>2, <2>1, <2>2 DEF DirsAgree
    <3> HIDE DEF c
    <3> QED BY <1>2, <2>1, <3>1
  <2>4. SwapInStep' BY <1>3, <1>9, <2>1, <2>2 DEF SwapInStep
  <2> QED BY <2>3, <2>4 DEF AllDirs
<1>10. CASE /\ exec.pc = "placed" /\ UNCHANGED dirs
            /\ LET work == [exec.work EXCEPT !.swaps[c] =
                              [kept |-> Exists(c, "replaced"), undone |-> FALSE]]
               IN  journal' = work /\ exec' = [exec EXCEPT !.work = work, !.pc = "did"]
  <2>1. exec \in Working_ BY <1>1, WorkTyped
  <2>2. exec'.pc = "did" /\ exec'.step = exec.step BY <1>10, <2>1 DEF Working_
  <2>3. dirs[c].target = "set" BY <1>1, <1>10, <1>a DEF SwapInStep
  <2>4. SwapInStep' BY <1>10, <2>2, <2>3 DEF SwapInStep
  <2> QED BY <1>2, <1>10, <2>4 DEF AllDirs
<1> QED BY <1>4, <1>5, <1>6, <1>7, <1>8, <1>9, <1>10, SwapCases

\* A repair, rename by rename.
LEMMA DirsRepair == ASSUME Core, AllDirs, repairSwap PROVE AllDirs'
<1>1. PICK id \in Placements :
        LET c == componentForStep(id)
        IN  /\ c \in Host /\ Restores /\ exec.pc = "recover"
            /\ \/ UNCHANGED dirs /\ (exec' = None \/ exec'.pc = "loop")
               \/ /\ Exists(c, "restoring") /\ Exists(c, "target") /\ ~Exists(c, "replaced")
                  /\ Rename(c, "target", "replaced") /\ UNCHANGED exec
               \/ /\ Exists(c, "restoring") /\ ~Exists(c, "target")
                  /\ Rename(c, "restoring", "target") /\ UNCHANGED exec
  <2>1. \A work : Restores /\ Recovered(work) => exec'.pc = "loop"
    BY WorkTyped DEF Recovered, Restores, Working_
  <2> QED BY <2>1, RepairCases DEF Release, Restoring
<1> DEFINE c == componentForStep(id)
<1>2. c \in Host /\ Restores /\ exec.pc = "recover" /\ \A d \in Host : DirsAgree(dirs[d])
  BY <1>1 DEF AllDirs
<1>3. CASE UNCHANGED dirs /\ (exec' = None \/ exec'.pc = "loop")
  BY <1>3, DirsKept DEF Restores
<1>4. CASE /\ Exists(c, "restoring") /\ Exists(c, "target") /\ ~Exists(c, "replaced")
           /\ Rename(c, "target", "replaced") /\ UNCHANGED exec
  <2>1. /\ dirs'[c].target = None /\ dirs'[c].replaced = dirs[c].target
        /\ dirs'[c].restoring = dirs[c].restoring /\ \A d \in Host : d # c => dirs'[d] = dirs[d]
    BY <1>2, <1>4, RenameOne, NamesAre
  <2>2. DirsAgree(dirs'[c]) BY <1>2, <1>4, <2>1 DEF DirsAgree, Exists
  <2>3. SwapInStep' BY <1>2, <1>4 DEF SwapInStep
  <2> HIDE DEF c
  <2> QED BY <1>2, <2>1, <2>2, <2>3 DEF AllDirs
<1>5. CASE /\ Exists(c, "restoring") /\ ~Exists(c, "target")
           /\ Rename(c, "restoring", "target") /\ UNCHANGED exec
  <2>1. /\ dirs'[c].restoring = None /\ dirs'[c].target = dirs[c].restoring
        /\ dirs'[c].replaced = dirs[c].replaced /\ \A d \in Host : d # c => dirs'[d] = dirs[d]
    BY <1>2, <1>5, RenameOne, NamesAre
  <2>2. DirsAgree(dirs'[c]) BY <1>2, <2>1 DEF DirsAgree
  <2>3. SwapInStep' BY <1>2, <1>5 DEF SwapInStep
  <2> HIDE DEF c
  <2> QED BY <1>2, <2>1, <2>2, <2>3 DEF AllDirs
<1> QED BY <1>1, <1>3, <1>4, <1>5

\* An unwind, rename by rename.
LEMMA DirsUndo == ASSUME Core, AllDirs, NEW c \in Host, UndoSwap(c) PROVE AllDirs'
<1>1. /\ Unwinds /\ exec # None /\ exec.work.swaps[c] \in Swap /\ exec \in Working_
      /\ \A d \in Host : DirsAgree(dirs[d])
  BY UndoCases, WorkTyped DEF Unwinds, AllDirs
<1>2. exec'.mode = "abandon"
  BY <1>1, UndoCases, UndoneIs DEF Unwinds, Working_
<1>3. SwapInStep' BY <1>2 DEF SwapInStep, Restores
<1>4. CASE UNCHANGED dirs BY <1>1, <1>3, <1>4 DEF AllDirs
<1>5. CASE Rename(c, "target", "abandoned")
  <2>1. /\ dirs'[c].target = None /\ dirs'[c].restoring = dirs[c].restoring
        /\ dirs'[c].replaced = dirs[c].replaced /\ \A d \in Host : d # c => dirs'[d] = dirs[d]
    BY <1>5, RenameOne, NamesAre
  <2>2. DirsAgree(dirs'[c]) BY <1>1, <2>1 DEF DirsAgree
  <2> QED BY <1>1, <1>3, <2>1, <2>2 DEF AllDirs
<1>6. CASE Rename(c, "replaced", "target")
  <2>1. /\ dirs'[c].replaced = None /\ dirs'[c].target = dirs[c].replaced
        /\ dirs'[c].restoring = dirs[c].restoring /\ \A d \in Host : d # c => dirs'[d] = dirs[d]
    BY <1>6, RenameOne, NamesAre
  <2>2. DirsAgree(dirs'[c]) BY <1>1, <2>1 DEF DirsAgree
  <2> QED BY <1>1, <1>3, <2>1, <2>2 DEF AllDirs
<1> QED BY <1>4, <1>5, <1>6, UndoCases

LEMMA DirsOperate ==
    ASSUME Core, AllDirs, DestroyAsides \/ RewriteSecrets
    PROVE  AllDirs'
<1>1. /\ ~Restores' /\ \A d \in Host : DirsAgree(dirs[d])
      /\ dirs \in [Host -> [Names -> Contents \cup {None}]]
  BY DiskIs DEF DestroyAsides, RewriteSecrets, Quiet, AllDirs, Core, Base, RestoreTypeOK, Restores
<1>2. SwapInStep' BY <1>1 DEF SwapInStep
<1>3. ASSUME NEW c \in Host PROVE DirsAgree(dirs'[c])
  <2>1. CASE DestroyAsides
    <3>1. dirs'[c] = [dirs[c] EXCEPT !.replaced = None, !.abandoned = None]
      BY <2>1 DEF DestroyAsides
    <3>2. /\ dirs'[c].replaced = None /\ dirs'[c].target = dirs[c].target
          /\ dirs'[c].restoring = dirs[c].restoring
      BY <1>1, <3>1, NamesAre
    <3> QED BY <1>1, <3>2 DEF DirsAgree
  <2>2. CASE RewriteSecrets
    <3>1. c = "secrets" => /\ dirs'[c].replaced = dirs[c].replaced /\ dirs'[c].target = "newer"
                           /\ dirs'[c].restoring = dirs[c].restoring
      BY <1>1, <2>2, NamesAre DEF RewriteSecrets
    <3>2. c # "secrets" => dirs'[c] = dirs[c] BY <1>1, <2>2 DEF RewriteSecrets
    <3> QED BY <1>1, <3>1, <3>2 DEF DirsAgree
  <2> QED BY <2>1, <2>2
<1> QED BY <1>2, <1>3 DEF AllDirs

-----------------------------------------------------------------------------
(* The steps that leave the host and the volumes alone                       *)

Calm == \/ NothingToRecover \/ RecoverRetry \/ RecoverSafetySet \/ RecoverRewind \/ BeginStep
        \/ FailHere \/ ClaimDirectory \/ RecordClaim \/ TakeSafetySet \/ stageComponents
        \/ RunCommands \/ FinishRestore \/ RemoveStaging \/ StagingRemoved \/ RecordDirection
        \/ AllTried \/ FinishAbandon \/ Crash

\* A journal that records the same swaps, no step more but the safety set, and
\* perhaps another direction.
Tamer(j, k) ==
    /\ j.swaps = k.swaps
    /\ j.phase \in {k.phase, "abandoning"}
    /\ \A id \in Steps \ {"safety-set"} : j.steps[id] = "complete" => k.steps[id] = "complete"

\* What a calm step may do to the command's record.
CalmCommand ==
    /\ exec'.mode = exec.mode /\ Tamer(exec'.work, exec.work)
    /\ Restores => /\ exec'.pc \notin {"taken", "aside", "placed", "midway"}
                   /\ exec'.pc = "did" => exec'.step \in {"safety-set", "stage-components", "stack-up"}
                                            \cup PROOF_STEP_IDS
    /\ Unwinds => /\ exec'.unresolved = exec.unresolved
                  /\ exec'.pc \in {"staging", "removing"} =>
                       (Moved = {} /\ exec.pc = "unwind") \/ exec.pc \in {"staging", "removing"}

CalmEffect ==
    /\ exec # None /\ UNCHANGED <<dirs, vols, before, shape>>
    /\ exec' # None => CalmCommand
    /\ journal' \in {journal, None} \/ Tamer(journal', exec.work)

LEMMA TamerSelf == \A j : Tamer(j, j)
BY DEF Tamer

\* A calm step that only moves on.
LEMMA CalmMoves ==
    ASSUME Core, exec # None, NEW pc \in InRestore \cup InUnwind, Goto(pc),
           UNCHANGED <<dirs, vols, before, shape>>, journal' \in {journal, exec.work},
           Restores => /\ pc \notin {"taken", "aside", "placed", "midway"}
                       /\ pc = "did" => exec.step \in {"safety-set", "stage-components", "stack-up"}
                                          \cup PROOF_STEP_IDS,
           Unwinds => (pc \in {"staging", "removing"} =>
                         (Moved = {} /\ exec.pc = "unwind") \/ exec.pc \in {"staging", "removing"})
    PROVE  CalmEffect
<1>1. /\ exec'.pc = pc /\ exec'.mode = exec.mode /\ exec'.work = exec.work
      /\ exec'.step = exec.step /\ exec'.unresolved = exec.unresolved
  BY GotoDoes DEF Core
<1> QED BY <1>1, TamerSelf DEF CalmEffect, CalmCommand

LEMMA CalmFails ==
    ASSUME Core, Restores, Inside, FailStep, UNCHANGED <<dirs, vols, before, shape>>
    PROVE  CalmEffect
<1>1. exec # None BY DEF Restores
<1>2. /\ exec'.pc = "loop" /\ journal' = exec'.work /\ exec'.mode = exec.mode
      /\ exec'.work.swaps = exec.work.swaps /\ exec'.work.phase = exec.work.phase
      /\ exec'.work.steps = [exec.work.steps EXCEPT ![exec.step] = "failed"]
  BY <1>1, FailDoes DEF Core
<1>3. exec.work.steps \in [Steps -> Statuses] BY <1>1, WorkTyped
<1>4. Tamer(exec'.work, exec.work) BY <1>2, <1>3 DEF Tamer
<1> QED BY <1>1, <1>2, <1>4 DEF CalmEffect, CalmCommand, Restores, Unwinds

LEMMA CalmRecovers ==
    ASSUME Core, Restoring("recover"), NEW work \in Journal, Recovered(work),
           Tamer(work, exec.work), UNCHANGED <<dirs, vols, before, shape>>
    PROVE  CalmEffect
<1>1. exec # None /\ Restores BY DEF Restoring, Restores
<1>2. exec'.pc = "loop" /\ exec'.work = work /\ journal' = work /\ exec'.mode = exec.mode
  BY <1>1, WriteDoes DEF Core, Recovered, InRestore
<1> QED BY <1>1, <1>2 DEF CalmEffect, CalmCommand, Restores, Unwinds

LEMMA CalmEnds ==
    ASSUME Core, exec # None, exec' = None, journal' \in {journal, exec.work, None},
           UNCHANGED <<dirs, vols, before, shape>>
    PROVE  CalmEffect
BY TamerSelf DEF CalmEffect

LEMMA CalmSafetySet == ASSUME Core, RecoverSafetySet PROVE CalmEffect
<1>1. /\ Restoring("recover") /\ exec # None /\ "safety-set" \in Steps
      /\ UNCHANGED <<dirs, vols, before, shape>> /\ exec.work.steps \in [Steps -> Statuses]
  BY SafetySetCases, StepsAre, WorkTyped DEF Restores
<1>2. CASE Recovered([Retry({"safety-set"}) EXCEPT !.claim = 0])
  <2> DEFINE work == [Retry({"safety-set"}) EXCEPT !.claim = 0]
  <2>1. /\ work \in Journal /\ work.phase = exec.work.phase /\ work.swaps = exec.work.swaps
        /\ work.steps = [exec.work.steps EXCEPT !["safety-set"] = "pending"]
    BY <1>1, UnclaimedIs
  <2>2. Recovered(work) BY <1>2
  <2> HIDE DEF work
  <2>3. Tamer(work, exec.work) BY <1>1, <2>1 DEF Tamer
  <2> QED BY <1>1, <2>1, <2>2, <2>3, CalmRecovers
<1>3. CASE Recovered(Retry({"safety-set"}))
  <2>1. /\ Retry({"safety-set"}) \in Journal /\ Retry({"safety-set"}).phase = exec.work.phase
        /\ Retry({"safety-set"}).swaps = exec.work.swaps
        /\ Retry({"safety-set"}).steps = [exec.work.steps EXCEPT !["safety-set"] = "pending"]
    BY <1>1, RetryIs, RetryOne
  <2>2. Tamer(Retry({"safety-set"}), exec.work) BY <1>1, <2>1 DEF Tamer
  <2> QED BY <1>1, <1>3, <2>1, <2>2, CalmRecovers
<1>4. CASE Release /\ UNCHANGED journal BY <1>1, <1>4, CalmEnds DEF Release
<1>5. CASE Recovered([exec.work EXCEPT !.steps["safety-set"] = "complete", !.taken = TRUE])
  <2> DEFINE work == [exec.work EXCEPT !.steps["safety-set"] = "complete", !.taken = TRUE]
  <2>1. /\ work \in Journal /\ work.phase = exec.work.phase /\ work.swaps = exec.work.swaps
        /\ work.steps = [exec.work.steps EXCEPT !["safety-set"] = "complete"]
    BY <1>1, TakenIs
  <2>2. Recovered(work) BY <1>5
  <2> HIDE DEF work
  <2>3. Tamer(work, exec.work) BY <1>1, <2>1 DEF Tamer
  <2> QED BY <1>1, <2>1, <2>2, <2>3, CalmRecovers
<1> QED BY <1>2, <1>3, <1>4, <1>5, SafetySetCases

LEMMA CalmRetries == ASSUME Core, RecoverRetry \/ RecoverRewind PROVE CalmEffect
<1>1. UNCHANGED <<dirs, vols, before, shape>> BY DEF RecoverRetry, RecoverRewind, ThisStep
<1>2. PICK ids \in SUBSET Steps : Restoring("recover") /\ exec # None /\ Recovered(Retry(ids))
  <2>1. CASE RecoverRetry
    <3>1. PICK id \in Steps : Recovering("retry", id) /\ Recovered(Retry({id}))
      BY <2>1 DEF RecoverRetry
    <3> QED BY <3>1, RecoveringIs DEF Restores
  <2>2. CASE RecoverRewind
    <3>1. PICK id \in Plan :
            LET back == {other \in Plan : Position[other] \in 2 .. Position[id]}
            IN  Restoring("recover") /\ Restores /\ back \subseteq Steps /\ Recovered(Retry(back))
      BY <2>2, RewindIs
    <3> QED BY <3>1 DEF Restores
  <2> QED BY <2>1, <2>2
<1>3. /\ Retry(ids) \in Journal /\ Retry(ids).phase = exec.work.phase
      /\ Retry(ids).swaps = exec.work.swaps
      /\ Retry(ids).steps = [b \in Steps |-> IF b \in ids THEN "pending" ELSE exec.work.steps[b]]
  BY <1>2, RetryIs
<1>4. Tamer(Retry(ids), exec.work) BY <1>3 DEF Tamer
<1> QED BY <1>1, <1>2, <1>3, <1>4, CalmRecovers

LEMMA CalmBegins == ASSUME Core, BeginStep PROVE CalmEffect
<1>1. Restores /\ exec # None /\ UNCHANGED <<dirs, vols, before, shape>>
  BY BeginDoes DEF Restores, ThisStep
<1>2. CASE Goto("finish") /\ UNCHANGED journal
  BY <1>1, <1>2, CalmMoves DEF InRestore, Restores, Unwinds
<1>3. ASSUME NEW next \in ToDo, exec'.pc = "in", exec'.mode = exec.mode, journal' = exec'.work,
             exec'.work.phase = exec.work.phase, exec'.work.swaps = exec.work.swaps,
             exec'.work.steps = [exec.work.steps EXCEPT ![next] = "running"]
      PROVE  CalmEffect
  <2>1. exec.work.steps \in [Steps -> Statuses] BY <1>1, WorkTyped
  <2>2. Tamer(exec'.work, exec.work) BY <1>3, <2>1 DEF Tamer
  <2> QED BY <1>1, <1>3, <2>2 DEF CalmEffect, CalmCommand, Restores, Unwinds
<1> QED BY <1>2, <1>3, BeginDoes

LEMMA CalmClaims == ASSUME Core, ClaimDirectory PROVE CalmEffect
<1>1. PICK n \in Nonces :
             /\ Restores /\ exec'.pc = "claimed" /\ exec'.mode = exec.mode
             /\ exec'.work.phase = exec.work.phase /\ exec'.work.swaps = exec.work.swaps
             /\ exec'.work.steps = exec.work.steps
             /\ UNCHANGED <<ThisStep, dirs, staging, vols, journal>>
  BY ClaimDoes
<1>2. Tamer(exec'.work, exec.work) BY <1>1 DEF Tamer
<1> QED BY <1>1, <1>2 DEF CalmEffect, CalmCommand, ThisStep, Restores, Unwinds

LEMMA CalmTakes == ASSUME Core, TakeSafetySet PROVE CalmEffect
<1>1. /\ Restores /\ Inside /\ exec.step = "safety-set" /\ UNCHANGED <<dirs, vols, before, shape>>
  BY TakeCases DEF ThisStep
<1>2. CASE FailStep BY <1>1, <1>2, CalmFails
<1>3. CASE ~FailStep
  <2>1. /\ exec'.pc = "did" /\ exec'.step = exec.step /\ exec'.mode = exec.mode
        /\ exec'.work.phase = exec.work.phase /\ exec'.work.swaps = exec.work.swaps
        /\ exec'.work.steps = exec.work.steps /\ UNCHANGED journal
    BY <1>3, TakeCases
  <2>2. Tamer(exec'.work, exec.work) BY <2>1 DEF Tamer
  <2> QED BY <1>1, <2>1, <2>2 DEF CalmEffect, CalmCommand, Restores, Unwinds
<1> QED BY <1>2, <1>3

LEMMA CalmDirects == ASSUME Core, RecordDirection PROVE CalmEffect
<1>1. /\ Unwinds /\ exec # None /\ UNCHANGED <<dirs, vols, before, shape>>
      /\ exec'.pc = "unwind" /\ exec'.mode = exec.mode /\ exec'.unresolved = exec.unresolved
  BY DirectionDoes DEF ThisStep, Unwinds
<1>2. Tamer(exec'.work, exec.work) /\ Tamer(journal', exec.work) BY DirectionDoes DEF Tamer
<1> QED BY <1>1, <1>2 DEF CalmEffect, CalmCommand, Restores, Unwinds

LEMMA CalmRest ==
    ASSUME Core,
           \/ NothingToRecover \/ FailHere \/ RecordClaim \/ stageComponents \/ RunCommands
           \/ FinishRestore \/ RemoveStaging \/ StagingRemoved \/ AllTried \/ FinishAbandon \/ Crash
    PROVE  CalmEffect
<1>1. exec # None /\ UNCHANGED <<dirs, vols, before, shape>>
  BY DEF NothingToRecover, FailHere, RecordClaim, stageComponents, RunCommands, FinishRestore,
         RemoveStaging, StagingRemoved, AllTried, FinishAbandon, Crash, In, Restoring, Unwinding,
         ThisStep
<1>2. CASE FailHere
  BY <1>1, <1>2, CalmFails DEF FailHere, Restores, Inside, InStep
<1>3. CASE FinishRestore \/ FinishAbandon \/ Crash \/ (StagingRemoved /\ Release)
  <2>1. exec' = None /\ journal' \in {journal, exec.work, None}
    BY <1>3 DEF FinishRestore, FinishAbandon, Crash, StagingRemoved, Release
  <2> QED BY <1>1, <2>1, CalmEnds
<1>4. CASE NothingToRecover
  BY <1>1, <1>4, CalmMoves
  DEF NothingToRecover, Restoring, InRestore, Restores, Unwinds
<1>5. CASE RecordClaim
  BY <1>1, <1>5, CalmMoves DEF RecordClaim, Restoring, InRestore, InStep, Restores, Unwinds
<1>6. CASE RunCommands
  <2>1. exec.step \in {"stack-up"} \cup PROOF_STEP_IDS /\ Goto("did") /\ UNCHANGED journal
        /\ Restores
    BY <1>6 DEF RunCommands, Restoring, Restores
  <2> QED BY <1>1, <2>1, CalmMoves DEF InRestore, InStep, Restores, Unwinds
<1>7. CASE stageComponents
  <2>1. exec.mode # "abandon" /\ exec.pc \in {"in", "copying"}
    BY <1>7 DEF stageComponents, In, Restoring
  <2>2. Restores /\ Inside BY <1>1, <2>1, InsideIs DEF InStep
  <2>3. exec.step = "stage-components"
    BY <1>7, <2>2 DEF stageComponents, In, Restoring, Core, AtStep
  <2>4. CASE FailStep BY <1>1, <2>2, <2>4, CalmFails
  <2>5. CASE ~FailStep
    <3>1. \E pc \in {"copying", "did"} : Goto(pc) /\ UNCHANGED journal
      BY <1>7, <2>5 DEF stageComponents
    <3> QED BY <1>1, <2>2, <2>3, <3>1, CalmMoves DEF InRestore, InStep, Restores, Unwinds
  <2> QED BY <2>4, <2>5
<1>8. CASE AllTried
  BY <1>1, <1>8, CalmMoves DEF AllTried, Unwinding, InUnwind, Restores, Unwinds
<1>9. CASE RemoveStaging
  <2>1. Goto("removing") /\ UNCHANGED journal BY <1>9 DEF RemoveStaging
  <2>2. Unwinds => exec.pc = "staging" BY <1>9 DEF RemoveStaging, In, Restoring, Unwinds
  <2> QED BY <1>1, <2>1, <2>2, CalmMoves DEF InUnwind
<1>10. CASE StagingRemoved /\ ~Release
  <2>1. exec.pc = "removing" BY <1>10 DEF StagingRemoved
  <2>2. \E pc \in {"staging", "finish", "in"} : Goto(pc) /\ UNCHANGED journal
    BY <1>10 DEF StagingRemoved
  <2> QED BY <1>1, <2>1, <2>2, CalmMoves DEF InUnwind, InRestore, InStep
<1> QED BY <1>2, <1>3, <1>4, <1>5, <1>6, <1>7, <1>8, <1>9, <1>10

\* A calm step touches no target and no volume, and records no swap and no step.
LEMMA CalmDoes == ASSUME Core, Calm PROVE CalmEffect
BY CalmSafetySet, CalmRetries, CalmBegins, CalmClaims, CalmTakes, CalmDirects, CalmRest DEF Calm

-----------------------------------------------------------------------------
(* What the operator keeps                                                   *)

\* The steps that change the volumes, each in the step it is named for.
VolumeSteps == \/ StopAndDestroy \/ DatabaseUp \/ PrepareRuntimeRole \/ ReplayDatabase
               \/ PlaceInlineKeystore

LEMMA VolumeCases ==
    ASSUME Core, VolumeSteps
    PROVE  /\ Restores /\ Inside /\ exec # None /\ exec.step \in Plan /\ exec.step \in Steps
           /\ exec.work.steps[exec.step] = "running"
           /\ UNCHANGED <<shape, lock, waiting, before, dirs, staging, claims>>
           /\ \/ StopAndDestroy /\ exec.step = "stop-and-destroy"
              \/ DatabaseUp /\ exec.step = "database-up"
              \/ PrepareRuntimeRole /\ exec.step = "prepare-runtime-role"
              \/ ReplayDatabase /\ exec.step = "replay-database"
              \/ PlaceInlineKeystore /\ exec.step = "place-inline-keystore"
           /\ \/ FailStep /\ exec'.pc = "loop"
              \/ \E pc \in {"did", "midway"} : Goto(pc) /\ UNCHANGED journal /\ exec'.pc = pc
           /\ exec'.mode = exec.mode /\ exec'.step = exec.step
<1>1. /\ exec # None /\ exec.mode # "abandon" /\ exec.pc \in {"in", "midway"}
      /\ UNCHANGED <<shape, lock, waiting, before, dirs, staging, claims>>
      /\ \/ StopAndDestroy /\ exec.step = "stop-and-destroy"
         \/ DatabaseUp /\ exec.step = "database-up"
         \/ PrepareRuntimeRole /\ exec.step = "prepare-runtime-role"
         \/ ReplayDatabase /\ exec.step = "replay-database"
         \/ PlaceInlineKeystore /\ exec.step = "place-inline-keystore"
  BY DEF VolumeSteps, StopAndDestroy, DatabaseUp, PrepareRuntimeRole, ReplayDatabase,
         PlaceInlineKeystore, In, Restoring, ThisStep
<1>2. /\ Restores /\ Inside /\ exec.step \in Plan /\ exec.step \in Steps BY <1>1, InsideIs DEF InStep
<1>3. exec.work.steps[exec.step] = "running" BY <1>2 DEF Core, AtStep
<1>4. \/ FailStep
      \/ \E pc \in {"did", "midway"} : Goto(pc) /\ UNCHANGED journal
  BY DEF VolumeSteps, StopAndDestroy, DatabaseUp, PrepareRuntimeRole, ReplayDatabase,
         PlaceInlineKeystore
<1>5. CASE FailStep
  <2>1. exec'.pc = "loop" /\ exec'.mode = exec.mode /\ exec'.step = exec.step
    BY <1>1, <1>5, FailDoes DEF Core
  <2> QED BY <1>1, <1>2, <1>3, <1>5, <2>1
<1>6. CASE \E pc \in {"did", "midway"} : Goto(pc) /\ UNCHANGED journal
  <2>1. PICK pc \in {"did", "midway"} : Goto(pc) /\ UNCHANGED journal BY <1>6
  <2>2. exec'.pc = pc /\ exec'.mode = exec.mode /\ exec'.step = exec.step
    BY <1>1, <2>1, GotoDoes DEF Core, InRestore, InStep
  <2> QED BY <1>1, <1>2, <1>3, <2>1, <2>2
<1> QED BY <1>4, <1>5, <1>6

\* A command that has just got the lock is not inside a step.
LEMMA OpenedIs ==
    ASSUME Core, OpenLock
    PROVE  /\ UNCHANGED <<dirs, vols, journal, shape>>
           /\ exec' # None => exec'.pc \in {"recover", "direction"}
<1>1. /\ UNCHANGED <<dirs, vols, journal, shape>> BY DEF OpenLock
<1>2. exec = None BY DEF OpenLock, Core, Base, Agreement
<1> QED BY <1>1, <1>2, OpenDoes

\* What neither moves a directory nor is inside a step.
Outside == \/ \E mode \in {"run", "resume", "abandon"}, planned \in BOOLEAN :
                ReadJournal(mode, planned)
           \/ RemoveStaleLock \/ ClaimVanishes

\* The next-state relation, by what it may do to the targets and the volumes.
LEMMA NextCases ==
    ASSUME Next
    PROVE  \/ Outside \/ OpenLock \/ Calm \/ CompleteStep \/ VolumeSteps \/ repairSwap
           \/ swapComponent \/ (\E c \in Host : UndoSwap(c)) \/ DestroyAsides \/ RewriteSecrets
BY DEF Next, Outside, Calm, VolumeSteps, Command, runCompleteRestore, abandonUnderLock, Recover,
       PerformStep

LEMMA NextDirs == Core /\ AllDirs /\ [Next]_vars => AllDirs'
<1> SUFFICES ASSUME Core, AllDirs, [Next]_vars PROVE AllDirs' OBVIOUS
<1>1. CASE UNCHANGED vars \/ Outside
  <2>1. UNCHANGED <<exec, dirs>>
    BY <1>1 DEF vars, Outside, ReadJournal, RemoveStaleLock, ClaimVanishes
  <2> QED BY <2>1, DirsKept
<1>2. CASE OpenLock BY <1>2, OpenedIs, DirsKept DEF Restores
<1>3. CASE Calm
  <2>1. CalmEffect BY <1>3, CalmDoes
  <2>2. {"safety-set", "stage-components", "stack-up"} \cup PROOF_STEP_IDS \subseteq Steps \ Placements
    BY StepsAre DEF PROOF_STEP_IDS, Placements
  <2> QED BY <2>1, <2>2, DirsKept DEF CalmEffect, CalmCommand, Restores
<1>4. CASE CompleteStep
  <2>1. UNCHANGED dirs /\ exec'.pc = "loop" BY <1>4, CompleteDoes
  <2> QED BY <2>1, DirsKept
<1>5. CASE VolumeSteps
  <2>1. UNCHANGED dirs /\ exec'.step = exec.step /\ exec.step \notin Placements
    BY <1>5, VolumeCases DEF Placements
  <2> QED BY <2>1, DirsKept
<1> QED BY <1>1, <1>2, <1>3, <1>4, <1>5, NextCases, DirsRepair, DirsSwap, DirsUndo, DirsOperate

LEMMA InitDirs == Init => AllDirs
<1> SUFFICES ASSUME Init PROVE AllDirs OBVIOUS
<1>1. PICK targets \in [Host -> {None, "old", "set"}] :
        dirs = [c \in Host |-> [name \in Names |-> IF name = "target" THEN targets[c] ELSE None]]
  BY DEF Init
<1>2. \A c \in Host : /\ dirs[c].restoring = None /\ dirs[c].replaced = None
  BY <1>1, NamesAre
<1>3. exec = None BY DEF Init
<1> QED BY <1>2, <1>3 DEF AllDirs, DirsAgree, SwapInStep, Restores

\* Wherever a copy of what the operator had lies, a copy lies after the step.
Kept(d, e) ==
    \A kept \in {"old", "newer"} :
        (\E name \in Names : d[name] = kept) => \E name \in Names : e[name] = kept

\* A rename onto a name that holds nothing loses nothing.
LEMMA RenameKeeps ==
    ASSUME Core, NEW c \in Host, NEW from \in Names, NEW to \in Names, from # to,
           Rename(c, from, to), dirs[c][to] \in {None, "set"}
    PROVE  \A d \in Host : Kept(dirs[d], dirs'[d])
<1>1. /\ dirs'[c][from] = None /\ dirs'[c][to] = dirs[c][from]
      /\ \A name \in Names : name # from /\ name # to => dirs'[c][name] = dirs[c][name]
      /\ \A d \in Host : d # c => dirs'[d] = dirs[d]
  BY RenameOne
<1>2. Kept(dirs[c], dirs'[c])
  <2> SUFFICES ASSUME NEW kept \in {"old", "newer"}, NEW name \in Names, dirs[c][name] = kept
               PROVE  \E other \in Names : dirs'[c][other] = kept
    BY DEF Kept
  <2>1. CASE name = from BY <1>1, <2>1
  <2>2. CASE name # from BY <1>1, <2>2
  <2> QED BY <2>1, <2>2
<1> QED BY <1>1, <1>2 DEF Kept

LEMMA KeepsStep ==
    ASSUME Core, AllDirs, Next, ~DestroyAsides
    PROVE  \A c \in Host : Kept(dirs[c], dirs'[c])
<1>1. \A d \in Host : DirsAgree(dirs[d]) BY DEF AllDirs
<1>2. dirs \in [Host -> [Names -> Contents \cup {None}]]
  BY DiskIs DEF Core, Base, RestoreTypeOK
<1>3. CASE UNCHANGED dirs BY <1>3 DEF Kept
<1>4. CASE Outside \/ OpenLock
  BY <1>3, <1>4 DEF Outside, OpenLock, ReadJournal, RemoveStaleLock, ClaimVanishes
<1>5. CASE Calm BY <1>3, <1>5, CalmDoes DEF CalmEffect
<1>6. CASE CompleteStep \/ VolumeSteps BY <1>3, <1>6, CompleteDoes, VolumeCases
<1>7. CASE RewriteSecrets
  <2>1. "secrets" \in Host BY DEF Host
  <2>2. /\ dirs["secrets"].target = "set" /\ dirs'["secrets"].target = "newer"
        /\ \A name \in Names : name # "target" => dirs'["secrets"][name] = dirs["secrets"][name]
        /\ \A d \in Host : d # "secrets" => dirs'[d] = dirs[d]
    BY <1>2, <1>7, <2>1, NamesAre DEF RewriteSecrets
  <2>3. Kept(dirs["secrets"], dirs'["secrets"]) BY <2>2 DEF Kept
  <2> QED BY <2>2, <2>3 DEF Kept
<1>8. CASE repairSwap
  <2>1. PICK id \in Placements :
          LET c == componentForStep(id)
          IN  /\ c \in Host
              /\ \/ UNCHANGED dirs
                 \/ ~Exists(c, "replaced") /\ Rename(c, "target", "replaced")
                 \/ ~Exists(c, "target") /\ Rename(c, "restoring", "target")
    BY <1>8, RepairCases
  <2> QED BY <1>3, <2>1, RenameKeeps, NamesAre DEF Exists
<1>9. CASE swapComponent
  <2> DEFINE c == componentForStep(exec.step)
  <2>1. c \in Host /\ Restores /\ exec.step \in Placements BY <1>9, SwapCases
  <2>2. /\ exec.pc = "taken" => dirs[c].replaced = None
        /\ exec.pc = "aside" => dirs[c].target = None
    BY <2>1 DEF AllDirs, SwapInStep
  <2>3. \/ UNCHANGED dirs
        \/ ~InTheWay(c) /\ dirs' = [dirs EXCEPT ![c].restoring = "set"]
        \/ exec.pc = "taken" /\ Rename(c, "target", "replaced")
        \/ exec.pc = "aside" /\ Rename(c, "restoring", "target")
    BY <1>9, SwapCases
  <2>4. CASE ~InTheWay(c) /\ dirs' = [dirs EXCEPT ![c].restoring = "set"]
    <3>1. /\ dirs[c].restoring = None
          /\ \A name \in Names : name # "restoring" => dirs'[c][name] = dirs[c][name]
          /\ \A d \in Host : d # c => dirs'[d] = dirs[d]
      BY <1>2, <2>1, <2>4, NamesAre DEF InTheWay, Exists
    <3>2. Kept(dirs[c], dirs'[c]) BY <3>1 DEF Kept
    <3> HIDE DEF c
    <3> QED BY <3>1, <3>2 DEF Kept
  <2> HIDE DEF c
  <2> QED BY <1>3, <2>1, <2>2, <2>3, <2>4, RenameKeeps, NamesAre
<1>10. ASSUME NEW c \in Host, UndoSwap(c) PROVE \A d \in Host : Kept(dirs[d], dirs'[d])
  <2>1. \/ UNCHANGED dirs
        \/ ~Exists(c, "abandoned") /\ Rename(c, "target", "abandoned")
        \/ ~Exists(c, "target") /\ Rename(c, "replaced", "target")
    BY <1>10 DEF UndoSwap
  <2> QED BY <1>3, <2>1, RenameKeeps, NamesAre DEF Exists
<1> QED BY <1>4, <1>5, <1>6, <1>7, <1>8, <1>9, <1>10, NextCases

\* No command overwrites the only copy of what an operator had in a target:
\* every rename has a free name to go to, whatever run, repair or unwind came
\* before (complete-restore.ts, swapComponent, repairSwap and undoSwap).
THEOREM OnlyTheOperatorDestroysThem == Spec => OnlyTheOperatorDestroys
<1>1. Core /\ AllDirs /\ [Next]_vars =>
        [\A c \in Host, kept \in {"old", "newer"} :
           (\E name \in Names : dirs[c][name] = kept) /\ ~DestroyAsides
             => \E name \in Names : dirs'[c][name] = kept]_vars
  BY KeepsStep DEF Kept
<1>2. Init => AllDirs BY InitDirs
<1>3. Core /\ AllDirs /\ [Next]_vars => AllDirs' BY NextDirs
<1> QED BY <1>1, <1>2, <1>3, CoreHolds, PTL DEF Spec, OnlyTheOperatorDestroys

-----------------------------------------------------------------------------
(* What a restore that is done has put in place                              *)

\* Of a restore, what the steps its journal records as complete have done.
Whole(j, d, v, s) ==
    j.phase = "restoring" =>
        /\ \A id \in Placements : j.steps[id] = "complete" => d[componentForStep(id)].target = "set"
        /\ j.steps["stop-and-destroy"] = "complete" => v.database = None \/ v.password = "set"
        /\ j.steps["replay-database"] = "complete" => v.database = "set"
        /\ s.custodian = "inline" /\ j.steps["place-inline-keystore"] = "complete"
             => v.keystore = "set"

\* What a step has done before its journal says so.
WholeInStep ==
    Restores =>
        /\ exec.pc = "did" =>
             /\ exec.step = "stop-and-destroy" => vols.database = None
             /\ exec.step = "replay-database" => vols.database = "set"
             /\ exec.step = "place-inline-keystore" => vols.keystore = "set"
        /\ exec.pc = "midway" /\ exec.step = "replay-database" => vols.database # None

AllWhole ==
    /\ exec # None => Whole(exec.work, dirs, vols, shape)
    /\ journal # None => Whole(journal, dirs, vols, shape)
    /\ WholeInStep

\* The steps of this section, all of them steps that no plan goes without.
LEMMA WholeStepsAre ==
    /\ Placements \subseteq Steps \ {"safety-set"}
    /\ {"stop-and-destroy", "replay-database", "place-inline-keystore"} \subseteq Steps \ {"safety-set"}
    /\ \A planned \in BOOLEAN :
         {"stop-and-destroy", "place-secrets", "database-up", "prepare-runtime-role",
          "replay-database"} \subseteq stepsFor(planned) \ PROOF_STEP_IDS
    /\ componentForStep("place-secrets") = "secrets"
BY StepsAre DEF Placements, stepsFor, PROOF_STEP_IDS, componentForStep

LEMMA WholeTamer ==
    ASSUME NEW j, NEW k, Tamer(j, k), Whole(k, dirs, vols, shape), UNCHANGED <<dirs, vols, shape>>
    PROVE  Whole(j, dirs', vols', shape')
<1>1. j.phase = "restoring" => k.phase = "restoring" BY DEF Tamer
<1> QED BY <1>1, WholeStepsAre DEF Tamer, Whole

LEMMA WholeCalm == ASSUME Core, AllWhole, Calm PROVE AllWhole'
<1>1. CalmEffect BY CalmDoes
<1>2. exec # None /\ UNCHANGED <<dirs, vols, shape>> /\ Whole(exec.work, dirs, vols, shape)
  BY <1>1 DEF CalmEffect, AllWhole
<1>3. exec' # None => Whole(exec'.work, dirs', vols', shape')
  BY <1>1, <1>2, WholeTamer DEF CalmEffect, CalmCommand
<1>4. journal' # None => Whole(journal', dirs', vols', shape')
  BY <1>1, <1>2, WholeTamer DEF CalmEffect, AllWhole
<1>5. WholeInStep'
  <2>1. {"stop-and-destroy", "replay-database", "place-inline-keystore"} \cap
          ({"safety-set", "stage-components", "stack-up"} \cup PROOF_STEP_IDS) = {}
    BY DEF PROOF_STEP_IDS
  <2> QED BY <1>1, <2>1 DEF CalmEffect, CalmCommand, WholeInStep, Restores
<1> QED BY <1>3, <1>4, <1>5 DEF AllWhole

\* What does not touch what a restore put in place, by the steps of its journal.
LEMMA WholeSame ==
    ASSUME NEW j, NEW k, NEW d, NEW v, NEW s, Whole(k, d, v, s), k.phase = "restoring", j.steps = k.steps
    PROVE  Whole(j, d, v, s)
BY DEF Whole

\* Steps earlier than the one that runs are complete, and later ones pending.
LEMMA AroundStep ==
    ASSUME Core, Restores, exec.step \in Plan \ PROOF_STEP_IDS, exec.work.steps[exec.step] = "running"
    PROVE  \A id \in Plan \ PROOF_STEP_IDS :
             /\ Position[id] < Position[exec.step] => exec.work.steps[id] = "complete"
             /\ Position[exec.step] < Position[id] => exec.work.steps[id] = "pending"
<1>1. Walks(exec.work.steps, Plan \ PROOF_STEP_IDS, {"complete"}) BY WorkTyped DEF Restores
<1> QED BY <1>1 DEF Walks

LEMMA WholeVolumes == ASSUME Core, AllWhole, VolumeSteps PROVE AllWhole'
<1> DEFINE steps == exec.work.steps
<1>1. /\ Restores /\ exec # None /\ exec.step \in Plan /\ steps[exec.step] = "running"
      /\ UNCHANGED <<dirs, shape>> /\ exec.work.planned \in BOOLEAN
      /\ \/ StopAndDestroy /\ exec.step = "stop-and-destroy"
         \/ DatabaseUp /\ exec.step = "database-up"
         \/ PrepareRuntimeRole /\ exec.step = "prepare-runtime-role"
         \/ ReplayDatabase /\ exec.step = "replay-database"
         \/ PlaceInlineKeystore /\ exec.step = "place-inline-keystore"
  BY VolumeCases, WorkTyped
<1>2. Whole(exec.work, dirs, vols, shape) /\ exec.work.phase = "restoring"
  BY <1>1 DEF AllWhole, Core, Base, Agreement, RestoreAgrees, Restores
<1>3. vols \in Volumes BY DiskIs DEF Core, Base, RestoreTypeOK
<1>4. /\ \A id \in Plan \ PROOF_STEP_IDS :
           /\ Position[id] < Position[exec.step] => steps[id] = "complete"
           /\ Position[exec.step] < Position[id] => steps[id] = "pending"
      /\ "replay-database" \in Plan \ PROOF_STEP_IDS
      /\ "place-secrets" \in Plan \ PROOF_STEP_IDS
      /\ "stop-and-destroy" \in Plan \ PROOF_STEP_IDS
  BY <1>1, AroundStep, WholeStepsAre DEF Plan, PROOF_STEP_IDS
<1>5. shape.custodian = "inline" => "place-inline-keystore" \in Plan \ PROOF_STEP_IDS
  BY StepsAre DEF Plan, stepsFor, PROOF_STEP_IDS
<1>6. /\ steps["stop-and-destroy"] = "complete" => vols'.database = None \/ vols'.password = "set"
      /\ steps["replay-database"] = "complete" => vols'.database = "set"
      /\ shape.custodian = "inline" /\ steps["place-inline-keystore"] = "complete"
           => vols'.keystore = "set"
  <2>1. CASE StopAndDestroy /\ exec.step = "stop-and-destroy"
    BY <1>1, <1>4, <1>5, <2>1, Positions
  <2>2. CASE DatabaseUp /\ exec.step = "database-up"
    <3>1. steps["place-secrets"] = "complete" /\ steps["replay-database"] = "pending"
      BY <1>4, <2>2, Positions
    <3>2. dirs["secrets"].target = "set"
      BY <1>2, <3>1, WholeStepsAre DEF Whole, Placements
    <3>3. \/ vols' = vols
          \/ vols' = [vols EXCEPT !.database = "fresh", !.password = "set"]
      BY <2>2, <3>2 DEF DatabaseUp
    <3>4. \/ vols' = vols
          \/ vols'.password = "set" /\ vols'.keystore = vols.keystore
      BY <1>3, <3>3 DEF Volumes
    <3> QED BY <1>2, <3>1, <3>4 DEF Whole
  <2>3. CASE PrepareRuntimeRole /\ exec.step = "prepare-runtime-role"
    <3>1. steps["replay-database"] = "pending" BY <1>4, <2>3, Positions
    <3>2. /\ vols'.password = vols.password /\ vols'.keystore = vols.keystore
          /\ vols.database = None => vols'.database = None
      BY <1>3, <2>3 DEF PrepareRuntimeRole, Volumes
    <3> QED BY <1>2, <3>1, <3>2 DEF Whole
  <2>4. CASE ReplayDatabase /\ exec.step = "replay-database"
    <3>1. \/ vols' = vols
          \/ vols' = [vols EXCEPT !.database = "partial"] /\ vols.database = "ready"
          \/ vols' = [vols EXCEPT !.database = "set"] /\ vols.database # None
      <4>1. exec.pc = "midway" /\ exec.step = "replay-database" => vols.database # None
        BY <1>1 DEF AllWhole, WholeInStep
      <4> QED BY <2>4, <4>1 DEF ReplayDatabase, Restoring
    <3>2. /\ vols'.password = vols.password /\ vols'.keystore = vols.keystore
          /\ vols.database = None => vols'.database = None
      BY <1>3, <3>1 DEF Volumes
    <3> QED BY <1>1, <1>2, <2>4, <3>2 DEF Whole
  <2>5. CASE PlaceInlineKeystore /\ exec.step = "place-inline-keystore"
    <3>1. \/ vols' = vols \/ vols' = [vols EXCEPT !.keystore = "partial"]
          \/ vols' = [vols EXCEPT !.keystore = "set"]
      BY <2>5 DEF PlaceInlineKeystore
    <3>2. vols'.password = vols.password /\ vols'.database = vols.database
      BY <1>3, <3>1 DEF Volumes
    <3> QED BY <1>1, <1>2, <2>5, <3>2 DEF Whole
  <2> QED BY <1>1, <2>1, <2>2, <2>3, <2>4, <2>5
<1>7. ASSUME NEW j, \A id \in Steps : j.steps[id] = "complete" => steps[id] = "complete"
      PROVE  Whole(j, dirs', vols', shape')
  BY <1>1, <1>2, <1>6, <1>7, WholeStepsAre DEF Whole
<1>8. steps \in [Steps -> Statuses] /\ (journal # None => journal.steps = steps)
  BY <1>1, WorkTyped, JournalSteps
<1>9. CASE FailStep
  <2>1. /\ exec'.pc = "loop" /\ journal' = exec'.work
        /\ exec'.work.steps = [steps EXCEPT ![exec.step] = "failed"]
    BY <1>1, <1>9, FailDoes DEF Core
  <2>2. Whole(exec'.work, dirs', vols', shape') BY <1>7, <1>8, <2>1
  <2>3. WholeInStep' BY <2>1 DEF WholeInStep
  <2> QED BY <2>1, <2>2, <2>3 DEF AllWhole
<1>10. ASSUME NEW pc \in {"did", "midway"}, Goto(pc), UNCHANGED journal
       PROVE  AllWhole'
  <2>1. exec'.pc = pc /\ exec'.work = exec.work /\ exec'.step = exec.step
    BY <1>1, <1>10, GotoDoes DEF Core, InRestore, InStep
  <2>2. Whole(exec'.work, dirs', vols', shape') BY <1>7, <2>1
  <2>3. journal' # None => Whole(journal', dirs', vols', shape') BY <1>7, <1>8, <1>10
  <2>4. ASSUME StopAndDestroy PROVE vols'.database = None
    BY <1>3, <2>4 DEF StopAndDestroy, Volumes
  <2>5. ASSUME ReplayDatabase, exec.step = "replay-database" PROVE WholeInStep'
    <3>1. \/ FailStep
          \/ Goto("midway") /\ vols' = [vols EXCEPT !.database = "partial"]
          \/ Goto("did") /\ vols' = [vols EXCEPT !.database = "set"]
      BY <2>5 DEF ReplayDatabase
    <3>2. FailStep => exec'.pc = "loop" BY <1>1, FailDoes DEF Core
    <3>3. Goto("midway") => exec'.pc = "midway"
      BY <1>1, GotoDoes DEF Core, InRestore, InStep
    <3> QED BY <1>3, <2>1, <2>5, <3>1, <3>2, <3>3 DEF WholeInStep, Volumes
  <2>6. ASSUME PlaceInlineKeystore, exec.step = "place-inline-keystore" PROVE WholeInStep'
    <3>1. \/ FailStep
          \/ Goto("midway")
          \/ Goto("did") /\ vols' = [vols EXCEPT !.keystore = "set"]
      BY <2>6 DEF PlaceInlineKeystore
    <3>2. FailStep => exec'.pc = "loop" BY <1>1, FailDoes DEF Core
    <3>3. Goto("midway") => exec'.pc = "midway"
      BY <1>1, GotoDoes DEF Core, InRestore, InStep
    <3> QED BY <1>3, <2>1, <2>6, <3>1, <3>2, <3>3 DEF WholeInStep, Volumes
  <2>7. ASSUME exec.step \in {"stop-and-destroy", "database-up", "prepare-runtime-role"}
        PROVE  WholeInStep'
    BY <1>1, <2>1, <2>4, <2>7 DEF WholeInStep
  <2>8. WholeInStep' BY <1>1, <2>5, <2>6, <2>7
  <2> QED BY <2>2, <2>3, <2>8 DEF AllWhole
<1> QED BY <1>9, <1>10, VolumeCases

\* A step whose work is done is recorded as complete.
LEMMA WholeCompletes == ASSUME Core, AllDirs, AllWhole, CompleteStep PROVE AllWhole'
<1>1. /\ Restores /\ exec # None /\ exec.pc = "did" /\ UNCHANGED <<dirs, vols, shape>>
      /\ exec.step \in Steps /\ exec'.pc = "loop" /\ journal' = exec'.work
      /\ exec'.work.steps = [exec.work.steps EXCEPT ![exec.step] = "complete"]
  BY CompleteDoes DEF ThisStep, Restores
<1>2. Whole(exec.work, dirs, vols, shape) /\ exec.work.phase = "restoring"
  BY <1>1 DEF AllWhole, Core, Base, Agreement, RestoreAgrees, Restores
<1>3. exec.work.steps \in [Steps -> Statuses] BY <1>1, WorkTyped
<1>4. \A id \in Steps : exec'.work.steps[id] = "complete"
                          => id = exec.step \/ exec.work.steps[id] = "complete"
  BY <1>1, <1>3
<1>5. exec.step \in Placements => dirs[componentForStep(exec.step)].target = "set"
  BY <1>1 DEF AllDirs, SwapInStep
<1>6. /\ exec.step = "stop-and-destroy" => vols.database = None
      /\ exec.step = "replay-database" => vols.database = "set"
      /\ exec.step = "place-inline-keystore" => vols.keystore = "set"
  BY <1>1 DEF AllWhole, WholeInStep
<1>7. Whole(exec'.work, dirs', vols', shape')
  BY <1>1, <1>2, <1>4, <1>5, <1>6, WholeStepsAre DEF Whole
<1>8. WholeInStep' BY <1>1 DEF WholeInStep
<1> QED BY <1>1, <1>7, <1>8 DEF AllWhole

\* A target that holds the set goes on holding it while a restore runs.
LEMMA SetStays ==
    ASSUME Core, AllDirs, swapComponent \/ repairSwap
    PROVE  \A c \in Host : dirs[c].target = "set" => dirs'[c].target = "set"
<1>1. \A c \in Host : DirsAgree(dirs[c]) BY DEF AllDirs
<1>2. dirs \in [Host -> [Names -> Contents \cup {None}]]
  BY DiskIs DEF Core, Base, RestoreTypeOK
<1>3. PICK c \in Host :
        \/ UNCHANGED dirs
        \/ dirs' = [dirs EXCEPT ![c].restoring = "set"]
        \/ dirs[c].target # "set" /\ Rename(c, "target", "replaced")
        \/ dirs[c].target # "set" /\ Rename(c, "restoring", "target")
  <2>1. CASE repairSwap
    <3>1. PICK id \in Placements :
            LET c == componentForStep(id)
            IN  /\ c \in Host
                /\ \/ UNCHANGED dirs
                   \/ Exists(c, "restoring") /\ Rename(c, "target", "replaced")
                   \/ ~Exists(c, "target") /\ Rename(c, "restoring", "target")
      BY <2>1, RepairCases
    <3> QED BY <1>1, <3>1 DEF DirsAgree, Exists
  <2>2. CASE swapComponent
    <3> DEFINE c == componentForStep(exec.step)
    <3>1. c \in Host /\ Restores /\ exec.step \in Placements BY <2>2, SwapCases
    <3>2. exec.pc \in {"taken", "aside"} => dirs[c].target # "set"
      BY <3>1 DEF AllDirs, SwapInStep
    <3>3. \/ UNCHANGED dirs
          \/ dirs' = [dirs EXCEPT ![c].restoring = "set"]
          \/ exec.pc = "taken" /\ Rename(c, "target", "replaced")
          \/ exec.pc = "aside" /\ Rename(c, "restoring", "target")
      BY <2>2, SwapCases
    <3> HIDE DEF c
    <3> QED BY <3>1, <3>2, <3>3
  <2> QED BY <2>1, <2>2
<1>4. CASE dirs' = [dirs EXCEPT ![c].restoring = "set"] BY <1>2, <1>4, NamesAre
<1>5. ASSUME NEW from \in Names, NEW to \in Names, from # to, dirs[c].target # "set",
             Rename(c, from, to)
      PROVE  \A d \in Host : dirs[d].target = "set" => dirs'[d].target = "set"
  BY <1>5, RenameOne
<1> QED BY <1>3, <1>4, <1>5, NamesAre

LEMMA WholeStays ==
    ASSUME NEW j, NEW k, Whole(k, dirs, vols, shape), k.phase = "restoring",
           UNCHANGED <<vols, shape>>,
           \A id \in Steps \ Placements : j.steps[id] = "complete" => k.steps[id] = "complete",
           \A id \in Placements : j.steps[id] = "complete" =>
             \/ k.steps[id] = "complete"
             \/ dirs[componentForStep(id)].target = "set",
           \A c \in Host : dirs[c].target = "set" => dirs'[c].target = "set"
    PROVE  Whole(j, dirs', vols', shape')
<1>1. /\ {"stop-and-destroy", "replay-database", "place-inline-keystore"} \subseteq Steps \ Placements
      /\ \A id \in Placements : componentForStep(id) \in Host
  BY WholeStepsAre, PlacementsAre DEF Placements
<1> QED BY <1>1 DEF Whole

LEMMA WholeRepair == ASSUME Core, AllDirs, AllWhole, repairSwap PROVE AllWhole'
<1>1. PICK id \in Placements :
        LET c == componentForStep(id)
            work == [exec.work EXCEPT !.steps[id] = "complete",
                       !.swaps[c] = IF @ # None THEN @
                                    ELSE [kept |-> Exists(c, "replaced"), undone |-> FALSE]]
        IN  /\ c \in Host /\ Restoring("recover") /\ Restores /\ UNCHANGED <<shape, vols>>
            /\ \/ Release /\ UNCHANGED journal
               \/ UNCHANGED <<exec, journal>>
               \/ dirs[c].target = "set" /\ Recovered(work)
               \/ Recovered(exec.work)
  BY RepairCases
<1> DEFINE c == componentForStep(id)
           work == [exec.work EXCEPT !.steps[id] = "complete",
                      !.swaps[c] = IF @ # None THEN @
                                   ELSE [kept |-> Exists(c, "replaced"), undone |-> FALSE]]
<1>2. /\ c \in Host /\ Restores /\ exec # None /\ exec.pc = "recover" /\ UNCHANGED <<shape, vols>>
      /\ id \in Steps /\ exec.work \in Journal /\ exec.work.steps \in [Steps -> Statuses]
      /\ exec.work.phase = "restoring" /\ Whole(exec.work, dirs, vols, shape)
      /\ journal # None => journal.steps = exec.work.steps
  BY <1>1, PlacementsAre, WorkTyped, JournalSteps
  DEF Restores, Restoring, AllWhole, Core, Base, Agreement, RestoreAgrees
<1>3. \A d \in Host : dirs[d].target = "set" => dirs'[d].target = "set" BY SetStays
<1>4. ASSUME NEW j, j.steps = exec.work.steps PROVE Whole(j, dirs', vols', shape')
  BY <1>2, <1>3, <1>4, WholeStays
<1>5. CASE Release /\ UNCHANGED journal
  BY <1>2, <1>4, <1>5 DEF Release, AllWhole, WholeInStep, Restores
<1>6. CASE UNCHANGED <<exec, journal>>
  <2>1. WholeInStep' BY <1>2, <1>6 DEF WholeInStep
  <2> QED BY <1>2, <1>4, <1>6, <2>1 DEF AllWhole
<1>7. ASSUME NEW k \in Journal, Recovered(k), Whole(k, dirs', vols', shape') PROVE AllWhole'
  <2>1. exec'.pc = "loop" /\ exec'.work = k /\ journal' = k
    BY <1>2, <1>7, WriteDoes DEF Core, Recovered, InRestore
  <2> QED BY <1>7, <2>1 DEF AllWhole, WholeInStep
<1>8. CASE Recovered(exec.work) BY <1>2, <1>4, <1>7, <1>8
<1>9. CASE dirs[c].target = "set" /\ Recovered(work)
  <2>1. work \in Journal /\ work.steps = [exec.work.steps EXCEPT ![id] = "complete"]
    BY <1>2, RepairedIs
  <2>2. Recovered(work) BY <1>9
  <2> HIDE DEF work
  <2>3. \A other \in Steps : work.steps[other] = "complete"
                               => other = id \/ exec.work.steps[other] = "complete"
    BY <1>2, <2>1
  <2>4. Whole(work, dirs', vols', shape')
    BY <1>2, <1>3, <1>9, <2>3, WholeStays, WholeStepsAre
  <2> QED BY <1>7, <2>1, <2>2, <2>4
<1> QED BY <1>1, <1>5, <1>6, <1>8, <1>9

LEMMA WholeSwap == ASSUME Core, AllDirs, AllWhole, swapComponent PROVE AllWhole'
<1>1. /\ Restores /\ exec # None /\ exec.step \in Placements /\ Inside /\ UNCHANGED <<vols, shape>>
      /\ exec.work.steps \in [Steps -> Statuses] /\ exec.work.phase = "restoring"
      /\ Whole(exec.work, dirs, vols, shape)
      /\ journal # None => journal.steps = exec.work.steps
  BY SwapCases, WorkTyped, JournalSteps
  DEF ThisStep, Restores, AllWhole, Core, Base, Agreement, RestoreAgrees
<1>2. \A d \in Host : dirs[d].target = "set" => dirs'[d].target = "set" BY SetStays
<1>3. ASSUME NEW j, \A id \in Steps : j.steps[id] = "complete" => exec.work.steps[id] = "complete"
      PROVE  Whole(j, dirs', vols', shape')
  BY <1>1, <1>2, <1>3, WholeStays, WholeStepsAre
<1>4. CASE FailStep
  <2>1. /\ exec'.pc = "loop" /\ journal' = exec'.work
        /\ exec'.work.steps = [exec.work.steps EXCEPT ![exec.step] = "failed"]
    BY <1>1, <1>4, FailDoes DEF Core
  <2>2. Whole(exec'.work, dirs', vols', shape') BY <1>1, <1>3, <2>1
  <2> QED BY <2>1, <2>2 DEF AllWhole, WholeInStep
<1>5. Placements \cap {"stop-and-destroy", "replay-database", "place-inline-keystore"} = {}
  BY DEF Placements
<1>6. ASSUME NEW pc \in {"did", "taken", "aside", "placed"}, Goto(pc), UNCHANGED journal
      PROVE  AllWhole'
  <2>1. exec'.step = exec.step /\ exec'.work = exec.work
    BY <1>1, <1>6, GotoDoes DEF Core, InRestore, InStep
  <2>2. WholeInStep' BY <1>1, <1>5, <2>1 DEF WholeInStep
  <2> QED BY <1>1, <1>3, <1>6, <2>1, <2>2 DEF AllWhole
<1>7. CASE LET work == [exec.work EXCEPT !.swaps[componentForStep(exec.step)] =
                 [kept |-> Exists(componentForStep(exec.step), "replaced"), undone |-> FALSE]]
           IN  journal' = work /\ exec' = [exec EXCEPT !.work = work, !.pc = "did"]
  <2> DEFINE c == componentForStep(exec.step)
             work == [exec.work EXCEPT !.swaps[c] =
                        [kept |-> Exists(c, "replaced"), undone |-> FALSE]]
  <2>1. c \in Host BY SwapCases
  <2>2. work \in Journal /\ work.steps = exec.work.steps BY <1>1, <2>1, SwappedIs
  <2>3. journal' = work /\ exec' = [exec EXCEPT !.work = work, !.pc = "did"] BY <1>7
  <2> HIDE DEF work, c
  <2>4. exec'.step = exec.step /\ exec'.work = work
    BY <1>1, <2>2, <2>3, WriteDoes DEF Core, InRestore, InStep
  <2>5. WholeInStep' BY <1>1, <1>5, <2>4 DEF WholeInStep
  <2>6. Whole(work, dirs', vols', shape') BY <1>3, <2>2
  <2> QED BY <2>3, <2>4, <2>5, <2>6 DEF AllWhole
<1>8. \/ FailStep
      \/ \E pc \in {"did", "taken", "aside", "placed"} : Goto(pc) /\ UNCHANGED journal
      \/ LET work == [exec.work EXCEPT !.swaps[componentForStep(exec.step)] =
                 [kept |-> Exists(componentForStep(exec.step), "replaced"), undone |-> FALSE]]
         IN  journal' = work /\ exec' = [exec EXCEPT !.work = work, !.pc = "did"]
  BY SwapCases
<1> QED BY <1>4, <1>6, <1>7, <1>8

\* An unwind, and what happens while no restore is under way.
LEMMA WholeRest ==
    ASSUME Core, AllWhole,
           \/ UNCHANGED vars \/ Outside \/ OpenLock \/ (\E c \in Host : UndoSwap(c))
           \/ DestroyAsides \/ RewriteSecrets
    PROVE  AllWhole'
<1>1. CASE UNCHANGED vars \/ Outside
  <2>1. UNCHANGED <<exec, journal, dirs, vols, shape>>
    BY <1>1 DEF vars, Outside, ReadJournal, RemoveStaleLock, ClaimVanishes
  <2> QED BY <2>1 DEF AllWhole, WholeInStep, Restores
<1>2. CASE DestroyAsides \/ RewriteSecrets
  <2>1. journal' = None /\ exec' = None BY <1>2 DEF DestroyAsides, RewriteSecrets, Quiet
  <2> QED BY <2>1 DEF AllWhole, WholeInStep, Restores
<1>3. CASE OpenLock
  <2>1. UNCHANGED <<dirs, vols, journal, shape>> /\ exec = None
    BY <1>3 DEF OpenLock, Core, Base, Agreement
  <2>2. exec' # None => /\ exec'.pc \in {"recover", "direction"}
                        /\ \/ journal # None /\ exec'.work = journal
                           \/ \A id \in Steps : exec'.work.steps[id] = "pending"
    <3> SUFFICES ASSUME exec' # None
                 PROVE  /\ exec'.pc \in {"recover", "direction"}
                        /\ \/ journal # None /\ exec'.work = journal
                           \/ \A id \in Steps : exec'.work.steps[id] = "pending"
      OBVIOUS
    <3>1. waiting # None /\ exec'.pc \in {"recover", "direction"} BY <1>3, <2>1, OpenDoes
    <3>2. waiting.planned \in BOOLEAN BY <3>1 DEF Core, Base, WaitingOK
    <3>3. exec'.work = IF journal = None THEN FreshJournal(waiting.planned) ELSE journal
      BY <1>3, <2>1, OpenDoes
    <3> QED BY <3>1, <3>2, <3>3, FreshJournalIs
  <2>3. exec' # None => Whole(exec'.work, dirs', vols', shape')
    BY <2>1, <2>2, WholeStepsAre DEF AllWhole, Whole
  <2> QED BY <2>1, <2>2, <2>3 DEF AllWhole, WholeInStep, Restores
<1>4. ASSUME NEW c \in Host, UndoSwap(c) PROVE AllWhole'
  <2>1. /\ Unwinds /\ exec.pc = "unwind" /\ exec # None /\ exec.work.swaps[c] \in Swap
        /\ UNCHANGED journal /\ exec \in Working_
    BY <1>4, UndoCases, WorkTyped DEF Unwinds
  <2>2. journal.phase = "abandoning" /\ exec.work.phase = "abandoning"
    BY <2>1 DEF Core, Base, Agreement, UnwindAgrees, Unwinds
  <2>3. exec'.work.phase = "abandoning" /\ exec'.mode = "abandon"
    BY <1>4, <2>1, <2>2, UndoCases, UndoneIs DEF Unwinds, Working_
  <2> QED BY <2>1, <2>2, <2>3 DEF AllWhole, Whole, WholeInStep, Restores
<1> QED BY <1>1, <1>2, <1>3, <1>4

LEMMA NextWhole == Core /\ AllDirs /\ AllWhole /\ [Next]_vars => AllWhole'
BY NextCases, WholeCalm, WholeVolumes, WholeCompletes, WholeRepair, WholeSwap, WholeRest

LEMMA InitWhole == Init => AllWhole
BY DEF Init, AllWhole, WholeInStep, Restores

\* Nothing but the end of a restore or of an unwind clears the journal.
LEMMA ClearsJournal ==
    ASSUME Core, [Next]_vars, journal # None, journal' = None
    PROVE  \/ /\ FinishRestore /\ Restores /\ AllComplete /\ staging = None
              /\ journal.steps = exec.work.steps /\ journal.phase = "restoring"
           \/ FinishAbandon /\ exec.unresolved = {} /\ Unwinds /\ journal.phase = "abandoning"
<1>1. None \notin Journal BY NoneAssumption
<1>2. journal' \notin Journal /\ journal' # journal BY <1>1
<1>3. exec # None => exec.work \in Journal BY WorkTyped
<1>4. ~(exec # None /\ FailStep)
  <2> SUFFICES ASSUME exec # None, FailStep PROVE FALSE OBVIOUS
  <2>1. exec' \in Working_ /\ journal' = exec'.work BY FailDoes DEF Core
  <2> QED BY <1>2, <2>1 DEF Working_
<1>5. \A work \in Journal : ~Recovered(work) BY <1>2 DEF Recovered
<1>6. ~RecoverRetry /\ ~RecoverRewind
  <2>1. ASSUME RecoverRetry PROVE FALSE
    <3>1. PICK id \in Steps : Recovering("retry", id) /\ Recovered(Retry({id}))
      BY <2>1 DEF RecoverRetry
    <3>2. exec # None BY <3>1, RecoveringIs DEF Restores
    <3> QED BY <1>5, <3>1, <3>2, RetryIs
  <2>2. ASSUME RecoverRewind PROVE FALSE
    <3>1. PICK id \in Plan :
            LET back == {other \in Plan : Position[other] \in 2 .. Position[id]}
            IN  Restores /\ back \subseteq Steps /\ Recovered(Retry(back))
      BY <2>2, RewindIs
    <3> DEFINE back == {other \in Plan : Position[other] \in 2 .. Position[id]}
    <3>2. exec # None /\ back \in SUBSET Steps /\ Recovered(Retry(back)) BY <3>1 DEF Restores
    <3> HIDE DEF back
    <3> QED BY <1>5, <3>2, RetryIs
  <2> QED BY <2>1, <2>2
<1>7. ~RecoverSafetySet
  <2> SUFFICES ASSUME RecoverSafetySet PROVE FALSE OBVIOUS
  <2>1. exec # None /\ "safety-set" \in Steps BY SafetySetCases, StepsAre DEF Restores
  <2> QED BY <1>2, <1>5, <2>1, SafetySetCases, UnclaimedIs, RetryIs, TakenIs
<1>8. ~repairSwap
  <2> SUFFICES ASSUME repairSwap PROVE FALSE OBVIOUS
  <2>1. PICK id \in Placements :
          LET c == componentForStep(id)
              work == [exec.work EXCEPT !.steps[id] = "complete",
                         !.swaps[c] = IF @ # None THEN @
                                      ELSE [kept |-> Exists(c, "replaced"), undone |-> FALSE]]
          IN  /\ c \in Host /\ Restores
              /\ UNCHANGED journal \/ Recovered(work) \/ Recovered(exec.work)
    BY RepairCases
  <2>2. id \in Steps /\ exec # None BY <2>1, PlacementsAre DEF Restores
  <2> QED BY <1>2, <1>3, <1>5, <2>1, <2>2, RepairedIs
<1>9. ~swapComponent
  <2> SUFFICES ASSUME swapComponent PROVE FALSE OBVIOUS
  <2>1. /\ componentForStep(exec.step) \in Host /\ exec # None
        /\ \/ FailStep
           \/ UNCHANGED journal
           \/ journal' = [exec.work EXCEPT !.swaps[componentForStep(exec.step)] =
                [kept |-> Exists(componentForStep(exec.step), "replaced"), undone |-> FALSE]]
    BY SwapCases DEF Restores
  <2> QED BY <1>2, <1>4, <2>1, SwappedIs
<1>10. ~BeginStep /\ ~CompleteStep
  BY <1>2, BeginDoes, CompleteDoes DEF Working_
<1>11. ~VolumeSteps BY <1>2, <1>4, VolumeCases
<1>12. ~TakeSafetySet
  BY <1>2, <1>4, TakeCases DEF Restores
<1>13. ~ClaimDirectory /\ ~stageComponents /\ ~RunCommands /\ ~NothingToRecover /\ ~RemoveStaging
       /\ ~StagingRemoved /\ ~AllTried /\ ~Crash /\ ~FailHere /\ ~RecordClaim /\ ~RecordDirection
  <2>1. ~RecordDirection BY <1>2, DirectionDoes
  <2>2. ~FailHere BY <1>4 DEF FailHere
  <2>3. ~RecordClaim BY <1>2, <1>3 DEF RecordClaim, Restoring
  <2>4. ~StagingRemoved BY <1>2, <1>3 DEF StagingRemoved
  <2>5. ~stageComponents BY <1>2, <1>4 DEF stageComponents, In, Restoring
  <2>6. ~ClaimDirectory /\ ~RunCommands /\ ~NothingToRecover /\ ~RemoveStaging /\ ~AllTried /\ ~Crash
    BY <1>2 DEF ClaimDirectory, RunCommands, NothingToRecover, RemoveStaging, AllTried, Crash
  <2> QED BY <2>1, <2>2, <2>3, <2>4, <2>5, <2>6
<1>14. ~Outside /\ ~OpenLock /\ ~DestroyAsides /\ ~RewriteSecrets /\ ~(\E c \in Host : UndoSwap(c))
       /\ ~UNCHANGED vars
  BY <1>2 DEF vars, Outside, ReadJournal, RemoveStaleLock, ClaimVanishes, OpenLock, DestroyAsides,
       RewriteSecrets, UndoSwap
<1>15. FinishRestore \/ FinishAbandon
  BY <1>6, <1>7, <1>8, <1>9, <1>10, <1>11, <1>12, <1>13, <1>14, NextCases DEF Calm
<1>16. CASE FinishRestore
  <2>1. Restores /\ AllComplete /\ staging = None
    BY <1>2, <1>16 DEF FinishRestore, Restoring, Restores
  <2>2. journal.steps = exec.work.steps /\ journal.phase = "restoring"
    BY <2>1 DEF Core, Base, Agreement, RestoreAgrees, Restores
  <2> QED BY <1>16, <2>1, <2>2
<1>17. CASE FinishAbandon
  <2>1. exec # None /\ exec.pc = "staging" /\ exec.unresolved = {}
    BY <1>2, <1>3, <1>17 DEF FinishAbandon
  <2>2. Unwinds
    BY <2>1 DEF Core, Base, Agreement, RestoreAgrees, InRestore, InStep, Unwinds
  <2>3. journal.phase = "abandoning"
    BY <2>1, <2>2 DEF Core, Base, Agreement, UnwindAgrees, Unwinds
  <2> QED BY <1>17, <2>1, <2>2, <2>3
<1> QED BY <1>15, <1>16, <1>17

LEMMA WholeEnds ==
    ASSUME Core, AllDirs, AllWhole, [Next]_vars, journal # None, journal.phase = "restoring",
           journal' = None
    PROVE  /\ \A c \in Placed : dirs[c].target = "set" /\ ~Exists(c, "restoring")
           /\ vols.database = "set" /\ vols.password = "set"
           /\ shape.custodian = "inline" => vols.keystore = "set"
           /\ staging = None
<1>1. /\ Restores /\ AllComplete /\ staging = None /\ exec # None
      /\ journal.steps = exec.work.steps /\ journal.phase = "restoring"
  BY ClearsJournal DEF Restores
<1>2. Whole(journal, dirs, vols, shape) /\ \A c \in Host : DirsAgree(dirs[c])
  BY DEF AllWhole, AllDirs
<1>3. exec.work.planned \in BOOLEAN BY <1>1, WorkTyped
<1>4. \A id \in Plan : journal.steps[id] = "complete" BY <1>1 DEF AllComplete
<1>5. /\ {"stop-and-destroy", "replay-database"} \subseteq Plan
      /\ shape.custodian = "inline" => "place-inline-keystore" \in Plan
      /\ "place-secrets" \in Plan
      /\ shape.promotion => "place-promotion-records" \in Plan
      /\ shape.custodian = "sidecar" => "place-sidecar-keystore" \in Plan
  BY StepsAre DEF Plan, stepsFor
<1>6. vols.database = "set" /\ vols.password = "set" /\ (shape.custodian = "inline" => vols.keystore = "set")
  BY <1>1, <1>2, <1>4, <1>5 DEF Whole
<1>7. ASSUME NEW c \in Placed PROVE dirs[c].target = "set" /\ ~Exists(c, "restoring")
  <2>1. PICK id \in Placements : id \in Plan /\ componentForStep(id) = c
    BY <1>5, <1>7 DEF Placed, Placements, componentForStep
  <2>2. c \in Host BY <2>1, PlacementsAre
  <2>3. dirs[c].target = "set" BY <1>1, <1>2, <1>4, <2>1 DEF Whole
  <2> QED BY <1>2, <2>2, <2>3 DEF DirsAgree, Exists
<1> QED BY <1>1, <1>6, <1>7

\* A restore that clears its journal has every component of the set in place,
\* over one complete replay into a volume initialised with the set's own
\* password, and nothing staged (complete-restore.ts, runCompleteRestore).
THEOREM DoneMeansWhole == Spec => RestoredMeansWhole
<1>1. Core /\ AllDirs /\ AllWhole /\ [Next]_vars =>
        [journal # None /\ journal.phase = "restoring" /\ journal' = None
           => /\ \A c \in Placed : dirs[c].target = "set" /\ ~Exists(c, "restoring")
              /\ vols.database = "set" /\ vols.password = "set"
              /\ shape.custodian = "inline" => vols.keystore = "set"
              /\ staging = None]_vars
  BY WholeEnds
<1>2. Init => AllDirs /\ AllWhole BY InitDirs, InitWhole
<1>3. Core /\ AllDirs /\ AllWhole /\ [Next]_vars => (AllDirs /\ AllWhole)' BY NextDirs, NextWhole
<1> QED BY <1>1, <1>2, <1>3, CoreHolds, PTL DEF Spec, RestoredMeansWhole

-----------------------------------------------------------------------------
(* What an unwind has put back                                               *)

\* The set is in the place of what a target held before.
Swapped(d, held) == d.target = "set" /\ d.replaced = held

\* A target whose swap is not recorded: as it was, or its swap under way.
Unrecorded(d, held) ==
    \/ d.target = held /\ held # None
    \/ d.target = None /\ d.replaced = held
    \/ Swapped(d, held)

\* A target whose swap is recorded: swapped, or moved away, or back.
Recorded(d, held, kept) ==
    /\ kept <=> held # None
    /\ \/ Swapped(d, held)
       \/ d.target = None /\ d.abandoned # None /\ d.replaced = held
       \/ d.target = held /\ held # None /\ d.abandoned # None /\ d.replaced = None

SwapAgrees(j, c, d, held) ==
    /\ held # "set"
    /\ j.swaps[c] = None /\ j.phase = "restoring" => Unrecorded(d, held)
    /\ j.swaps[c] # None =>
         /\ Recorded(d, held, j.swaps[c].kept)
         /\ j.swaps[c].undone => d.target = held
         /\ j.phase = "restoring" => Swapped(d, held) /\ ~j.swaps[c].undone

SwapsAgree(j, ds, b) ==
    \A c \in Host : b.targets[c] # "set" => SwapAgrees(j, c, ds[c], b.held[c])

\* An unwind that has come to the staging directory has nothing left to move.
Tried == Unwinds /\ exec.pc \in {"staging", "removing"} => Moved = {}

AllSwaps ==
    /\ exec # None => SwapsAgree(exec.work, dirs, before)
    /\ journal # None => SwapsAgree(journal, dirs, before)
    /\ Tried

LEMMA SwapsTamer ==
    ASSUME NEW j, NEW k, j.swaps = k.swaps, j.phase \in {k.phase, "abandoning"},
           SwapsAgree(k, dirs, before), UNCHANGED <<dirs, before>>
    PROVE  SwapsAgree(j, dirs', before')
BY DEF SwapsAgree, SwapAgrees

\* A step that leaves the swaps and the directories alone.
LEMMA SwapsKept ==
    ASSUME AllSwaps, exec # None, UNCHANGED <<dirs, before>>,
           exec' # None => /\ exec'.work.swaps = exec.work.swaps
                           /\ exec'.work.phase \in {exec.work.phase, "abandoning"},
           journal' # None =>
             \/ journal' = journal
             \/ /\ journal'.swaps = exec.work.swaps
                /\ journal'.phase \in {exec.work.phase, "abandoning"},
           Tried'
    PROVE  AllSwaps'
<1>1. SwapsAgree(exec.work, dirs, before) BY DEF AllSwaps
<1>2. exec' # None => SwapsAgree(exec'.work, dirs', before') BY <1>1, SwapsTamer
<1>3. journal' # None => SwapsAgree(journal', dirs', before')
  <2>1. CASE journal' = journal /\ journal # None
    <3>1. SwapsAgree(journal, dirs, before) BY <2>1 DEF AllSwaps
    <3> QED BY <2>1, <3>1, SwapsTamer
  <2>2. CASE journal'.swaps = exec.work.swaps /\ journal'.phase \in {exec.work.phase, "abandoning"}
    BY <1>1, <2>2, SwapsTamer
  <2> QED BY <2>1, <2>2
<1> QED BY <1>2, <1>3 DEF AllSwaps

LEMMA SwapsCalm == ASSUME Core, AllSwaps, Calm PROVE AllSwaps'
<1>1. CalmEffect BY CalmDoes
<1>2. Tried'
  <2> SUFFICES ASSUME Unwinds', exec'.pc \in {"staging", "removing"} PROVE Moved' = {}
    BY DEF Tried
  <2>1. /\ Unwinds /\ exec'.unresolved = exec.unresolved /\ exec'.work.swaps = exec.work.swaps
        /\ (Moved = {} /\ exec.pc = "unwind") \/ exec.pc \in {"staging", "removing"}
    BY <1>1 DEF CalmEffect, CalmCommand, Unwinds, Tamer
  <2>2. Moved = {} BY <2>1 DEF AllSwaps, Tried
  <2> QED BY <2>1, <2>2 DEF Moved
<1> QED BY <1>1, <1>2, SwapsKept DEF CalmEffect, CalmCommand, Tamer

LEMMA SwapsVolumes == ASSUME Core, AllSwaps, VolumeSteps \/ CompleteStep PROVE AllSwaps'
<1>1. CASE CompleteStep
  <2>1. /\ Restores /\ exec # None /\ UNCHANGED <<dirs, before>> /\ exec'.mode = exec.mode
        /\ exec'.work.phase = exec.work.phase /\ exec'.work.swaps = exec.work.swaps
        /\ journal' = exec'.work
    BY <1>1, CompleteDoes DEF Restores, ThisStep
  <2>2. Tried' BY <2>1 DEF Tried, Restores, Unwinds
  <2> QED BY <2>1, <2>2, SwapsKept
<1>2. CASE VolumeSteps
  <2>1. Restores /\ exec # None /\ UNCHANGED <<dirs, before>> /\ exec'.mode = exec.mode
    BY <1>2, VolumeCases
  <2>2. /\ exec'.work.swaps = exec.work.swaps /\ exec'.work.phase = exec.work.phase
        /\ journal' \in {journal, exec'.work}
    <3>1. CASE FailStep BY <2>1, <3>1, FailDoes DEF Core
    <3>2. CASE ~FailStep
      <4>1. PICK pc \in {"did", "midway"} : Goto(pc) /\ UNCHANGED journal
        BY <1>2, <3>2, VolumeCases
      <4> QED BY <2>1, <4>1, GotoDoes DEF Core, InRestore, InStep
    <3> QED BY <3>1, <3>2
  <2>3. Tried' BY <2>1 DEF Tried, Restores, Unwinds
  <2> QED BY <2>1, <2>2, <2>3, SwapsKept
<1> QED BY <1>1, <1>2

\* A restore's journal says of the swaps what it works on.
LEMMA SwapsTwin ==
    ASSUME Core, Restores, journal # None, SwapsAgree(exec.work, dirs', before')
    PROVE  SwapsAgree(journal, dirs', before')
<1>1. journal.swaps = exec.work.swaps /\ journal.phase = exec.work.phase
  BY DEF Core, Base, Agreement, RestoreAgrees, Restores
<1> QED BY <1>1 DEF SwapsAgree, SwapAgrees

\* A step of a restore that keeps its swaps as its directories say.
LEMMA SwapsRestore ==
    ASSUME Core, Restores, exec'.mode = exec.mode,
           SwapsAgree(exec'.work, dirs', before'),
           \/ journal' = exec'.work
           \/ UNCHANGED journal /\ exec'.work = exec.work
    PROVE  AllSwaps'
<1>1. journal' # None => SwapsAgree(journal', dirs', before')
  <2>1. CASE journal' = exec'.work BY <2>1
  <2>2. CASE UNCHANGED journal /\ exec'.work = exec.work BY <2>2, SwapsTwin
  <2> QED BY <2>1, <2>2
<1>2. Tried' BY DEF Tried, Restores, Unwinds
<1> QED BY <1>1, <1>2 DEF AllSwaps

\* A step that changes what there is of one target.
LEMMA SwapsOne ==
    ASSUME NEW j, NEW k, NEW c \in Host, SwapsAgree(k, dirs, before), UNCHANGED before,
           j.phase = k.phase,
           \A d \in Host : d # c => dirs'[d] = dirs[d] /\ j.swaps[d] = k.swaps[d],
           before.targets[c] # "set" /\ SwapAgrees(k, c, dirs[c], before.held[c])
             => SwapAgrees(j, c, dirs'[c], before.held[c])
    PROVE  SwapsAgree(j, dirs', before')
<1> SUFFICES ASSUME NEW d \in Host, before.targets[d] # "set"
             PROVE  SwapAgrees(j, d, dirs'[d], before.held[d])
  BY DEF SwapsAgree
<1>1. SwapAgrees(k, d, dirs[d], before.held[d]) BY DEF SwapsAgree
<1>2. CASE d = c BY <1>1, <1>2
<1>3. CASE d # c BY <1>1, <1>3 DEF SwapAgrees
<1> QED BY <1>2, <1>3

\* One target's part of a swap: set aside, put in place, and recorded.
LEMMA SetAside ==
    ASSUME NEW j, NEW c, NEW d, NEW e, NEW held, SwapAgrees(j, c, d, held), j.phase = "restoring",
           d.target \notin {None, "set"}, e.target = None, e.replaced = d.target
    PROVE  SwapAgrees(j, c, e, held)
BY DEF SwapAgrees, Unrecorded, Swapped

LEMMA PutInPlace ==
    ASSUME NEW j, NEW c, NEW d, NEW e, NEW held, SwapAgrees(j, c, d, held), j.phase = "restoring",
           d.target = None, e.target = "set", e.replaced = d.replaced
    PROVE  SwapAgrees(j, c, e, held)
BY DEF SwapAgrees, Unrecorded, Swapped

LEMMA RecordSwap ==
    ASSUME NEW j, NEW k, NEW c, NEW d, NEW held, SwapAgrees(k, c, d, held), k.phase = "restoring",
           j.phase = "restoring", d.target = "set",
           \/ j.swaps[c] = k.swaps[c]
           \/ j.swaps[c] = [kept |-> d.replaced # None, undone |-> FALSE]
    PROVE  SwapAgrees(j, c, d, held)
<1>1. Swapped(d, held) BY DEF SwapAgrees, Unrecorded, Swapped
<1>2. CASE j.swaps[c] = k.swaps[c] BY <1>2 DEF SwapAgrees
<1>3. CASE j.swaps[c] = [kept |-> d.replaced # None, undone |-> FALSE]
  <2>1. j.swaps[c].kept = (d.replaced # None) /\ ~j.swaps[c].undone BY <1>3
  <2>2. j.swaps[c] # None
    <3>1. j.swaps[c] \in Swap BY <1>3 DEF Swap
    <3> QED BY <3>1, NoneAssumption
  <2>3. Recorded(d, held, j.swaps[c].kept) BY <1>1, <2>1 DEF Recorded, Swapped
  <2> QED BY <1>1, <2>1, <2>2, <2>3 DEF SwapAgrees
<1> QED BY <1>2, <1>3

LEMMA SwapsSwap == ASSUME Core, AllDirs, AllSwaps, swapComponent PROVE AllSwaps'
<1> DEFINE c == componentForStep(exec.step)
<1>1. /\ c \in Host /\ exec.step \in Placements /\ Restores /\ exec # None /\ UNCHANGED before
      /\ exec.work.phase = "restoring" /\ SwapsAgree(exec.work, dirs, before)
      /\ dirs \in [Host -> [Names -> Contents \cup {None}]]
      /\ exec.work.swaps \in [Host -> Swap \cup {None}]
  BY SwapCases, WorkTyped, DiskIs
  DEF ThisStep, Restores, AllSwaps, Core, Base, RestoreTypeOK, Agreement, RestoreAgrees
<1>2. /\ exec.pc = "taken" => dirs[c].target # "set"
      /\ exec.pc = "aside" => dirs[c].target = None /\ dirs[c].restoring = "set"
      /\ exec.pc = "placed" => dirs[c].target = "set"
  BY <1>1 DEF AllDirs, SwapInStep
<1>4. CASE FailStep /\ UNCHANGED dirs
  <2>1. /\ journal' = exec'.work /\ exec'.mode = exec.mode /\ exec'.work.phase = exec.work.phase
        /\ exec'.work.swaps = exec.work.swaps
    BY <1>1, <1>4, FailDoes DEF Core
  <2>2. SwapsAgree(exec'.work, dirs', before') BY <1>1, <1>4, <2>1, SwapsTamer
  <2> QED BY <1>1, <2>1, <2>2, SwapsRestore
<1>5. ASSUME NEW pc \in {"did", "taken", "aside", "placed"}, Goto(pc), UNCHANGED journal,
             \A d \in Host : d # c => dirs'[d] = dirs[d],
             SwapAgrees(exec.work, c, dirs[c], before.held[c])
               => SwapAgrees(exec.work, c, dirs'[c], before.held[c])
      PROVE  AllSwaps'
  <2>1. exec'.mode = exec.mode /\ exec'.work = exec.work
    BY <1>1, <1>5, GotoDoes DEF Core, InRestore, InStep
  <2>2. SwapsAgree(exec'.work, dirs', before')
    <3> HIDE DEF c
    <3> QED BY <1>1, <1>5, <2>1, SwapsOne
  <2> QED BY <1>1, <1>5, <2>1, <2>2, SwapsRestore
<1>6. CASE Goto("did") /\ UNCHANGED <<dirs, journal>> BY <1>5, <1>6
<1>7. CASE dirs' = [dirs EXCEPT ![c].restoring = "set"] /\ Goto("taken") /\ UNCHANGED journal
  <2>1. /\ dirs'[c].target = dirs[c].target /\ dirs'[c].replaced = dirs[c].replaced
        /\ dirs'[c].abandoned = dirs[c].abandoned
        /\ \A d \in Host : d # c => dirs'[d] = dirs[d]
    BY <1>1, <1>7, NamesAre
  <2>2. SwapAgrees(exec.work, c, dirs[c], before.held[c])
          => SwapAgrees(exec.work, c, dirs'[c], before.held[c])
    BY <2>1 DEF SwapAgrees, Unrecorded, Recorded, Swapped
  <2> QED BY <1>5, <1>7, <2>1, <2>2
<1>8. CASE /\ exec.pc = "taken" /\ Exists(c, "target") /\ Rename(c, "target", "replaced")
           /\ Goto("aside") /\ UNCHANGED journal
  <2>1. /\ dirs'[c].target = None /\ dirs'[c].replaced = dirs[c].target
        /\ \A d \in Host : d # c => dirs'[d] = dirs[d]
    BY <1>1, <1>8, RenameOne, NamesAre
  <2>2. dirs[c].target \notin {None, "set"} BY <1>2, <1>8 DEF Exists
  <2> QED BY <1>1, <1>5, <1>8, <2>1, <2>2, SetAside
<1>9. CASE exec.pc = "taken" /\ UNCHANGED <<dirs, journal>> /\ Goto("aside") BY <1>5, <1>9
<1>10. CASE /\ exec.pc = "aside" /\ Rename(c, "restoring", "target") /\ Goto("placed")
            /\ UNCHANGED journal
  <2>1. /\ dirs'[c].target = "set" /\ dirs'[c].replaced = dirs[c].replaced
        /\ \A d \in Host : d # c => dirs'[d] = dirs[d]
    BY <1>1, <1>2, <1>10, RenameOne, NamesAre
  <2> QED BY <1>1, <1>2, <1>5, <1>10, <2>1, PutInPlace
<1>11. CASE /\ exec.pc = "placed" /\ UNCHANGED dirs
            /\ LET work == [exec.work EXCEPT !.swaps[c] =
                              [kept |-> Exists(c, "replaced"), undone |-> FALSE]]
               IN  journal' = work /\ exec' = [exec EXCEPT !.work = work, !.pc = "did"]
  <2> DEFINE work == [exec.work EXCEPT !.swaps[c] =
                        [kept |-> Exists(c, "replaced"), undone |-> FALSE]]
  <2>1. /\ work \in Journal /\ work.phase = exec.work.phase
        /\ work.swaps = [exec.work.swaps EXCEPT ![c] =
                           [kept |-> Exists(c, "replaced"), undone |-> FALSE]]
    BY <1>1, SwappedIs
  <2>2. exec' = [exec EXCEPT !.work = work, !.pc = "did"] BY <1>11
  <2>a. journal' = work BY <1>11
  <2> HIDE DEF work
  <2>3. exec'.work = work /\ exec'.mode = exec.mode /\ journal' = work
    BY <1>1, <2>1, <2>2, <2>a, WriteDoes DEF Core, InRestore, InStep
  <2> HIDE DEF c
  <2>4. /\ work.swaps[c] = [kept |-> Exists(c, "replaced"), undone |-> FALSE]
        /\ \A d \in Host : d # c => work.swaps[d] = exec.work.swaps[d]
    BY <1>1, <2>1
  <2>5. SwapAgrees(exec.work, c, dirs[c], before.held[c])
          => SwapAgrees(work, c, dirs[c], before.held[c])
    BY <1>1, <1>2, <1>11, <2>1, <2>4, RecordSwap DEF Exists
  <2>6. SwapsAgree(work, dirs', before')
    BY <1>1, <1>11, <2>1, <2>4, <2>5, SwapsOne
  <2> QED BY <1>1, <2>3, <2>6, SwapsRestore
<1> QED BY <1>4, <1>6, <1>7, <1>8, <1>9, <1>10, <1>11, SwapCases

LEMMA SwapsRepair == ASSUME Core, AllDirs, AllSwaps, repairSwap PROVE AllSwaps'
<1>1. PICK id \in Placements :
        LET c == componentForStep(id)
            work == [exec.work EXCEPT !.steps[id] = "complete",
                       !.swaps[c] = IF @ # None THEN @
                                    ELSE [kept |-> Exists(c, "replaced"), undone |-> FALSE]]
        IN  /\ c \in Host /\ Restoring("recover") /\ Restores /\ UNCHANGED before
            /\ \/ Release /\ UNCHANGED <<journal, dirs>>
               \/ /\ Exists(c, "restoring") /\ Exists(c, "target")
                  /\ Rename(c, "target", "replaced") /\ UNCHANGED <<exec, journal>>
               \/ /\ Exists(c, "restoring") /\ ~Exists(c, "target")
                  /\ Rename(c, "restoring", "target") /\ UNCHANGED <<exec, journal>>
               \/ dirs[c].target = "set" /\ Recovered(work) /\ UNCHANGED dirs
               \/ Recovered(exec.work) /\ UNCHANGED dirs
  BY RepairCases
<1> DEFINE c == componentForStep(id)
           work == [exec.work EXCEPT !.steps[id] = "complete",
                      !.swaps[c] = IF @ # None THEN @
                                   ELSE [kept |-> Exists(c, "replaced"), undone |-> FALSE]]
<1>2. /\ c \in Host /\ Restores /\ exec # None /\ UNCHANGED before /\ id \in Steps
      /\ exec.work.phase = "restoring" /\ SwapsAgree(exec.work, dirs, before)
      /\ dirs \in [Host -> [Names -> Contents \cup {None}]] /\ DirsAgree(dirs[c])
      /\ exec.work.swaps \in [Host -> Swap \cup {None}] /\ exec.work \in Journal
  BY <1>1, PlacementsAre, WorkTyped, DiskIs
  DEF Restores, AllSwaps, AllDirs, Core, Base, RestoreTypeOK, Agreement, RestoreAgrees
<1>3. CASE Release /\ UNCHANGED <<journal, dirs>>
  BY <1>2, <1>3, SwapsKept DEF Release, Tried, Unwinds
<1>4. ASSUME UNCHANGED <<exec, journal>>, \A d \in Host : d # c => dirs'[d] = dirs[d],
             SwapAgrees(exec.work, c, dirs[c], before.held[c])
               => SwapAgrees(exec.work, c, dirs'[c], before.held[c])
      PROVE  AllSwaps'
  <2>1. SwapsAgree(exec.work, dirs', before')
    <3> HIDE DEF c
    <3> QED BY <1>2, <1>4, SwapsOne
  <2> QED BY <1>2, <1>4, <2>1, SwapsRestore
<1>5. CASE /\ Exists(c, "restoring") /\ Exists(c, "target")
           /\ Rename(c, "target", "replaced") /\ UNCHANGED <<exec, journal>>
  <2>1. /\ dirs'[c].target = None /\ dirs'[c].replaced = dirs[c].target
        /\ \A d \in Host : d # c => dirs'[d] = dirs[d]
    BY <1>2, <1>5, RenameOne, NamesAre
  <2>2. dirs[c].target \notin {None, "set"} BY <1>2, <1>5 DEF Exists, DirsAgree
  <2> QED BY <1>2, <1>4, <1>5, <2>1, <2>2, SetAside
<1>6. CASE /\ Exists(c, "restoring") /\ ~Exists(c, "target")
           /\ Rename(c, "restoring", "target") /\ UNCHANGED <<exec, journal>>
  <2>1. /\ dirs'[c].target = "set" /\ dirs'[c].replaced = dirs[c].replaced
        /\ \A d \in Host : d # c => dirs'[d] = dirs[d]
    BY <1>2, <1>6, RenameOne, NamesAre DEF Exists, DirsAgree
  <2>2. dirs[c].target = None BY <1>6 DEF Exists
  <2> QED BY <1>2, <1>4, <1>6, <2>1, <2>2, PutInPlace
<1>7. ASSUME NEW k \in Journal, Recovered(k), SwapsAgree(k, dirs', before') PROVE AllSwaps'
  <2>1. exec'.mode = exec.mode /\ exec'.work = k /\ journal' = k
    BY <1>2, <1>7, WriteDoes DEF Core, Recovered, InRestore
  <2> QED BY <1>2, <1>7, <2>1, SwapsRestore
<1>8. CASE Recovered(exec.work) /\ UNCHANGED dirs BY <1>2, <1>7, <1>8, SwapsTamer
<1>9. CASE dirs[c].target = "set" /\ Recovered(work) /\ UNCHANGED dirs
  <2>1. /\ work \in Journal /\ work.phase = exec.work.phase
        /\ work.swaps = [exec.work.swaps EXCEPT ![c] =
                    IF exec.work.swaps[c] # None THEN exec.work.swaps[c]
                    ELSE [kept |-> Exists(c, "replaced"), undone |-> FALSE]]
    BY <1>2, RepairedIs
  <2>2. Recovered(work) BY <1>9
  <2>a. dirs[c].target = "set" /\ UNCHANGED dirs BY <1>9
  <2> HIDE DEF work, c
  <2>3. /\ \/ work.swaps[c] = exec.work.swaps[c]
           \/ work.swaps[c] = [kept |-> Exists(c, "replaced"), undone |-> FALSE]
        /\ \A d \in Host : d # c => work.swaps[d] = exec.work.swaps[d]
    BY <1>2, <2>1
  <2>4. SwapAgrees(exec.work, c, dirs[c], before.held[c])
          => SwapAgrees(work, c, dirs[c], before.held[c])
    <3> SUFFICES ASSUME SwapAgrees(exec.work, c, dirs[c], before.held[c])
                 PROVE  SwapAgrees(work, c, dirs[c], before.held[c])
      OBVIOUS
    <3>1. work.phase = "restoring" /\ exec.work.phase = "restoring" BY <1>2, <2>1
    <3>2. \/ work.swaps[c] = exec.work.swaps[c]
          \/ work.swaps[c] = [kept |-> dirs[c].replaced # None, undone |-> FALSE]
      BY <2>3 DEF Exists
    <3> QED BY <2>a, <3>1, <3>2, RecordSwap
  <2>5. SwapsAgree(work, dirs', before') BY <1>2, <2>1, <2>3, <2>4, <2>a, SwapsOne
  <2> QED BY <1>7, <2>1, <2>2, <2>5
<1> QED BY <1>1, <1>3, <1>5, <1>6, <1>8, <1>9

LEMMA SwapsUndo == ASSUME Core, AllSwaps, NEW c \in Host, UndoSwap(c) PROVE AllSwaps'
<1>1. /\ Unwinds /\ exec # None /\ exec.pc = "unwind" /\ exec.work.swaps[c] \in Swap
      /\ ~exec.work.swaps[c].undone /\ UNCHANGED <<before, journal>> /\ exec \in Working_
  BY UndoCases, WorkTyped DEF ThisStep, Unwinds
<1>2. /\ UnwindAgrees /\ exec.work.phase = "abandoning" /\ journal.phase = "abandoning"
      /\ exec.work.swaps[c] # None /\ SwapsAgree(exec.work, dirs, before)
  BY <1>1, NoneAssumption DEF Core, Base, Agreement, UnwindAgrees, Unwinds, AllSwaps
<1>3. /\ exec'.pc = "unwind"
      /\ exec'.work.phase = "abandoning"
      /\ \A d \in Host : d # c => exec'.work.swaps[d] = exec.work.swaps[d]
      /\ \/ exec'.work.swaps[c] = exec.work.swaps[c]
         \/ exec'.work.swaps[c] = [kept |-> exec.work.swaps[c].kept, undone |-> TRUE]
  <2>1. CASE exec' = [exec EXCEPT !.work.swaps[c].undone = TRUE]
    BY <1>1, <1>2, <2>1, UndoneIs
  <2>2. CASE exec' = [exec EXCEPT !.unresolved = @ \union {c}] \/ UNCHANGED exec
    BY <1>1, <1>2, <2>2 DEF Working_
  <2> QED BY <2>1, <2>2, UndoCases
<1>4. ASSUME before.targets[c] # "set", SwapAgrees(exec.work, c, dirs[c], before.held[c])
      PROVE  SwapAgrees(exec'.work, c, dirs'[c], before.held[c])
  <2> DEFINE d == dirs[c]
             e == dirs'[c]
             held == before.held[c]
             kept == exec.work.swaps[c].kept
  <2>1. Recorded(d, held, kept) /\ held # "set" BY <1>2, <1>4 DEF SwapAgrees
  <2>2. finishedAlready(c) <=>
          IF kept THEN d.target # None /\ d.abandoned # None /\ d.replaced = None
                  ELSE d.target = None
    BY DEF finishedAlready, Exists
  <2>3. CASE exec' = [exec EXCEPT !.unresolved = @ \union {c}] /\ UNCHANGED dirs
    <3>1. exec'.work = exec.work BY <1>1, <2>3 DEF Working_
    <3> QED BY <1>4, <2>3, <3>1
  <2>4. ASSUME exec' = [exec EXCEPT !.work.swaps[c].undone = TRUE],
               Recorded(e, held, kept), e.target = held
        PROVE  SwapAgrees(exec'.work, c, e, held)
    <3>1. /\ exec'.work.phase = "abandoning"
          /\ exec'.work.swaps[c] = [kept |-> kept, undone |-> TRUE]
      BY <1>1, <1>2, <2>4, UndoneIs
    <3>2. exec'.work.swaps[c].kept = kept BY <3>1
    <3> QED BY <2>1, <2>4, <3>1, <3>2 DEF SwapAgrees
  <2>5. CASE /\ finishedAlready(c) /\ UNCHANGED dirs
             /\ exec' = [exec EXCEPT !.work.swaps[c].undone = TRUE]
    <3>1. d.target = held BY <2>1, <2>2, <2>5 DEF Recorded, Swapped
    <3> QED BY <2>1, <2>4, <2>5, <3>1
  <2>6. CASE /\ ~finishedAlready(c) /\ Exists(c, "target") /\ ~Exists(c, "abandoned")
             /\ Rename(c, "target", "abandoned") /\ UNCHANGED exec
    <3>1. /\ e.target = None /\ e.abandoned = d.target /\ e.replaced = d.replaced
          /\ d.target # None /\ d.abandoned = None
      BY <2>6, RenameOne, NamesAre DEF Exists
    <3>2. Recorded(e, held, kept) BY <2>1, <3>1 DEF Recorded, Swapped
    <3> QED BY <1>1, <1>2, <2>1, <2>6, <3>2 DEF SwapAgrees
  <2>7. CASE /\ ~finishedAlready(c) /\ ~Exists(c, "target") /\ Exists(c, "replaced")
             /\ Rename(c, "replaced", "target")
             /\ exec' = [exec EXCEPT !.work.swaps[c].undone = TRUE]
    <3>1. /\ e.replaced = None /\ e.target = d.replaced /\ e.abandoned = d.abandoned
          /\ d.target = None /\ d.replaced # None
      BY <2>7, RenameOne, NamesAre DEF Exists
    <3>2. Recorded(e, held, kept) /\ e.target = held BY <2>1, <3>1 DEF Recorded, Swapped
    <3> QED BY <2>4, <2>7, <3>2
  <2> QED BY <2>3, <2>5, <2>6, <2>7, UndoCases
<1>5. SwapsAgree(exec'.work, dirs', before')
  <2>1. \A d \in Host : d # c => dirs'[d] = dirs[d] BY UndoCases, RenameOne, NamesAre
  <2> QED BY <1>1, <1>2, <1>3, <1>4, <2>1, SwapsOne
<1>6. SwapsAgree(journal, dirs', before')
  <2> SUFFICES ASSUME NEW d \in Host, before'.targets[d] # "set"
               PROVE  SwapAgrees(journal, d, dirs'[d], before'.held[d])
    BY DEF SwapsAgree
  <2>1. SwapAgrees(exec'.work, d, dirs'[d], before'.held[d]) BY <1>5 DEF SwapsAgree
  <2>2. /\ exec.work.swaps[d] = None <=> journal.swaps[d] = None
        /\ journal.swaps[d] # None =>
             /\ journal.swaps[d].kept = exec.work.swaps[d].kept
             /\ journal.swaps[d].undone => exec.work.swaps[d].undone
    BY <1>1, <1>2 DEF UnwindAgrees
  <2>3. CASE d # c BY <1>2, <1>3, <2>1, <2>2, <2>3 DEF SwapAgrees
  <2>4. CASE d = c
    <3>1. exec'.work.swaps[c] \in Swap /\ exec'.work.swaps[c].kept = exec.work.swaps[c].kept
      <4>1. CASE exec'.work.swaps[c] = exec.work.swaps[c] BY <1>1, <4>1
      <4>2. CASE exec'.work.swaps[c] = [kept |-> exec.work.swaps[c].kept, undone |-> TRUE]
        <5>1. exec.work.swaps[c].kept \in BOOLEAN BY <1>1 DEF Swap
        <5> QED BY <4>2, <5>1 DEF Swap
      <4> QED BY <1>3, <4>1, <4>2
    <3>2. exec'.work.swaps[c] # None BY <3>1, NoneAssumption
    <3> QED BY <1>1, <1>2, <1>3, <2>1, <2>2, <2>4, <3>1, <3>2 DEF SwapAgrees
  <2> QED BY <2>3, <2>4
<1>7. Tried' BY <1>3 DEF Tried
<1> QED BY <1>1, <1>5, <1>6, <1>7 DEF AllSwaps

\* What an operation begins with.
LEMMA SwapsOpen == ASSUME Core, AllDirs, AllSwaps, OpenLock PROVE AllSwaps'
<1>1. /\ UNCHANGED <<dirs, journal>> /\ exec = None
      /\ dirs \in [Host -> [Names -> Contents \cup {None}]]
  BY DiskIs DEF OpenLock, Core, Base, RestoreTypeOK, Agreement
<1>2. CASE exec' = exec
  <2>1. journal' # None => UNCHANGED before \/ journal = None
    BY <1>1, <1>2 DEF OpenLock, ReadTheSame, Core, Base, WaitingOK
  <2> QED BY <1>1, <1>2, <2>1 DEF AllSwaps, Tried, Unwinds
<1>3. CASE exec' # exec
  <2>1. /\ waiting # None /\ exec'.pc \in {"direction", "recover"}
        /\ IF journal = None
           THEN before' = Here /\ exec'.work = FreshJournal(waiting.planned)
           ELSE before' = before /\ exec'.work = journal
    BY <1>3, OpenDoes
  <2>2. Tried' BY <2>1 DEF Tried
  <2>3. CASE journal # None BY <1>1, <2>1, <2>2, <2>3 DEF AllSwaps, SwapsAgree
  <2>4. CASE journal = None
    <3>1. waiting.planned \in BOOLEAN BY <2>1 DEF Core, Base, WaitingOK
    <3>2. /\ exec'.work.phase = "restoring" /\ \A c \in Host : exec'.work.swaps[c] = None
      BY <2>1, <2>4, <3>1, FreshJournalIs
    <3>3. ASSUME NEW c \in Host, before'.targets[c] # "set"
          PROVE  SwapAgrees(exec'.work, c, dirs'[c], before'.held[c])
      <4>1. /\ before'.targets[c] = dirs[c].target
            /\ before'.held[c] = IF dirs[c].target # None THEN dirs[c].target ELSE dirs[c].replaced
        BY <2>1, <2>4 DEF Here
      <4>2. dirs[c].replaced # "set" BY DEF AllDirs, DirsAgree
      <4> QED BY <1>1, <3>2, <3>3, <4>1, <4>2 DEF SwapAgrees, Unrecorded
    <3>4. SwapsAgree(exec'.work, dirs', before') BY <3>3 DEF SwapsAgree
    <3> QED BY <1>1, <2>2, <2>4, <3>4 DEF AllSwaps
  <2> QED BY <2>3, <2>4
<1> QED BY <1>2, <1>3

LEMMA SwapsRest ==
    ASSUME Core, AllSwaps, UNCHANGED vars \/ Outside \/ DestroyAsides \/ RewriteSecrets
    PROVE  AllSwaps'
<1>1. CASE UNCHANGED vars \/ Outside
  <2>1. UNCHANGED <<exec, journal, dirs, before>>
    BY <1>1 DEF vars, Outside, ReadJournal, RemoveStaleLock, ClaimVanishes
  <2> QED BY <2>1 DEF AllSwaps, SwapsAgree, Tried, Unwinds, Moved
<1>2. CASE DestroyAsides \/ RewriteSecrets
  <2>1. journal' = None /\ exec' = None BY <1>2 DEF DestroyAsides, RewriteSecrets, Quiet
  <2> QED BY <2>1 DEF AllSwaps, Tried, Unwinds
<1> QED BY <1>1, <1>2

LEMMA NextSwaps == Core /\ AllDirs /\ AllSwaps /\ [Next]_vars => AllSwaps'
BY NextCases, SwapsCalm, SwapsVolumes, SwapsSwap, SwapsRepair, SwapsUndo, SwapsOpen, SwapsRest

LEMMA InitSwaps == Init => AllSwaps
BY DEF Init, AllSwaps, Tried, Unwinds

LEMMA SwapsEnd ==
    ASSUME Core, AllSwaps, [Next]_vars, journal # None, journal.phase = "abandoning",
           journal' = None, NEW c \in Host, journal.swaps[c] # None, before.targets[c] # "set"
    PROVE  dirs[c].target = before.held[c]
<1>1. /\ Unwinds /\ exec # None /\ exec.pc = "staging" /\ exec.unresolved = {}
  BY ClearsJournal DEF FinishAbandon, Unwinds
<1>2. exec.work.swaps[c] # None
  BY <1>1 DEF Core, Base, Agreement, UnwindAgrees, Unwinds
<1>3. Moved = {} BY <1>1 DEF AllSwaps, Tried
<1>4. exec.work.swaps[c].undone BY <1>1, <1>2, <1>3 DEF Moved
<1>5. SwapAgrees(exec.work, c, dirs[c], before.held[c]) BY <1>1 DEF AllSwaps, SwapsAgree
<1> QED BY <1>2, <1>4, <1>5 DEF SwapAgrees

\* An unwind that clears its journal has put back every swap the journal
\* recorded, however often a process died between two of its renames
\* (complete-restore.ts, undoSwap and abandonUnderLock).
THEOREM AbandonUndoesItsSwaps == Spec => RecordedSwapsPutBack
<1>1. Core /\ AllSwaps /\ [Next]_vars =>
        [journal # None /\ journal.phase = "abandoning" /\ journal' = None
           => \A c \in Host : journal.swaps[c] # None /\ before.targets[c] # "set"
                => dirs[c].target = before.held[c]]_vars
  BY SwapsEnd
<1>2. Init => AllDirs /\ AllSwaps BY InitDirs, InitSwaps
<1>3. Core /\ AllDirs /\ AllSwaps /\ [Next]_vars => (AllDirs /\ AllSwaps)' BY NextDirs, NextSwaps
<1> QED BY <1>1, <1>2, <1>3, CoreHolds, PTL DEF Spec, RecordedSwapsPutBack

=============================================================================
