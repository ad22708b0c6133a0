--------------------------- MODULE CompleteRestore ---------------------------
(***************************************************************************)
(* ops/complete-restore.ts: one journalled operation that destroys an      *)
(* installation's volumes and puts a verified backup set in their place.   *)
(* Its three commands (run, resume, abandon) read the journal, take the    *)
(* project's maintenance lock, read the journal again, and then act; each  *)
(* rename and each journal write below is a step of its own, so the        *)
(* process may die between any two of them.  It then leaves the lock       *)
(* behind, and an operator removes it by hand.                             *)
(*                                                                         *)
(* Contents are "old" (what the host held), "set" (what the backup set     *)
(* holds) and "newer" (what an operator wrote after a restore).  A proof   *)
(* step may pass or fail whatever the state is: nothing below rests on it. *)
(***************************************************************************)
EXTENDS Naturals, Sequences

CONSTANTS None,          \* no file, directory, journal, command or content
          Shapes,        \* the custody mode, whether promotion records are
                         \* placed, and which host targets exist at first
          MAX_EVENTS     \* how many runs are started, processes die, and
                         \* commands, renames and backups fail, in all

ASSUME ShapesAssumption ==
    /\ Shapes \subseteq [custodian : {"inline", "sidecar"}, promotion : BOOLEAN,
                         held : SUBSET {"secrets", "promotion-records", "keystore"}]
    /\ MAX_EVENTS \in Nat

VARIABLES shape,    \* what this installation is made of
          dirs,     \* per host target: target, .restoring-, .replaced-, .abandoned-
          staging,  \* the private staging directory
          claims,   \* per nonce: the safety-set claim directory
          vols,     \* the volumes: database, inline keystore, database password
          journal,  \* the journal file
          lock,     \* the maintenance lock directory
          waiting,  \* a command that has read the journal and not yet the lock
          exec,     \* the command that holds the lock
          before,   \* ghost: the installation when the operation began
          left      \* how many events remain
vars == <<shape, dirs, staging, claims, vols, journal, lock, waiting, exec,
          before, left>>

Host == {"secrets", "promotion-records", "keystore"}
Names == {"target", "restoring", "replaced", "abandoned"}
Nonces == 1 .. MAX_EVENTS

RESTORE_STEP_IDS ==
    <<"safety-set", "stage-components", "stop-and-destroy", "place-secrets",
      "place-promotion-records", "place-sidecar-keystore", "database-up",
      "prepare-runtime-role", "replay-database", "place-inline-keystore",
      "stack-up", "prove-version", "prove-doctor", "prove-decrypt",
      "prove-history">>

Steps == {RESTORE_STEP_IDS[i] : i \in DOMAIN RESTORE_STEP_IDS}

Position == [id \in Steps |-> CHOOSE i \in DOMAIN RESTORE_STEP_IDS : RESTORE_STEP_IDS[i] = id]

\* What the journal file holds, and the replaced targets it records in it.
Swap == [kept : BOOLEAN, undone : BOOLEAN]
Journal == [phase : {"restoring", "abandoning"}, planned : BOOLEAN,
            claim : Nonces \cup {0}, taken : BOOLEAN,
            steps : [Steps -> {"pending", "running", "complete", "failed"}],
            swaps : [Host -> Swap \cup {None}]]

\* None is none of the values it stands beside.
ASSUME NoneAssumption ==
    /\ None \notin {"old", "set", "newer", "fresh", "ready", "partial", "empty",
                    "bad", "gone", "held", "stale"}
    /\ None \notin Steps \cup Swap
    /\ None \notin Journal

PROOF_STEP_IDS ==
    {"prove-version", "prove-doctor", "prove-decrypt", "prove-history"}

STEP_RECOVERY == [id \in Steps |->
    CASE id = "safety-set" -> "confirm-or-retry"
      [] id \in {"place-secrets", "place-promotion-records",
                 "place-sidecar-keystore"} -> "repair-swap"
      [] id \in {"replay-database", "place-inline-keystore"} -> "rewind"
      [] OTHER -> "retry"]

STEP_REWIND_TO == "stage-components"

\* The plan: of all the steps, in their order, those this installation needs.
stepsFor(planned) ==
    {id \in Steps : /\ id = "safety-set" => planned
                    /\ id = "place-promotion-records" => shape.promotion
                    /\ id = "place-sidecar-keystore" => shape.custodian = "sidecar"
                    /\ id = "place-inline-keystore" => shape.custodian = "inline"}

componentForStep(id) ==
    CASE id = "place-secrets" -> "secrets"
      [] id = "place-promotion-records" -> "promotion-records"
      [] OTHER -> "keystore"

Placed == {"secrets"} \union (IF shape.promotion THEN {"promotion-records"} ELSE {})
              \union (IF shape.custodian = "sidecar" THEN {"keystore"} ELSE {})
Components == {"secrets", "keystore", "database"} \union Placed

-----------------------------------------------------------------------------
(* The journal, and the shapes a run can have left it in.  A step outside    *)
(* the plan stays pending and is never looked at.                            *)

FreshJournal(planned) ==
    [phase |-> "restoring", planned |-> planned, claim |-> 0, taken |-> FALSE,
     steps |-> [id \in Steps |-> "pending"], swaps |-> [c \in Host |-> None]]

\* Steps settle in order; whatever follows the first that has not is pending.
Walks(steps, ids, settled) ==
    \A a, b \in ids :
        Position[a] < Position[b] /\ steps[a] \notin settled => steps[b] = "pending"

assertJournalAgreesWithPlan(j) ==
    LET others == stepsFor(j.planned) \ PROOF_STEP_IDS
    IN  /\ Walks(j.steps, others, {"complete"})
        /\ Walks(j.steps, PROOF_STEP_IDS, {"complete", "failed"})
        /\ (\E id \in others : j.steps[id] # "complete")
             => \A id \in PROOF_STEP_IDS : j.steps[id] = "pending"

-----------------------------------------------------------------------------
(* Commands: read, lock, read again *)

\* The installation: its targets, what they hold or, where an earlier unwind
\* left one missing, what lies aside of it, and its database.
Here == [targets |-> [c \in Host |-> dirs[c].target],
         held |-> [c \in Host |-> IF dirs[c].target # None THEN dirs[c].target
                                                          ELSE dirs[c].replaced],
         database |-> vols.database]

\* What an installation holds before anything has been restored.
Init ==
    /\ shape \in Shapes
    /\ \E targets \in [Host -> {None, "old", "set"}] :
         /\ \A c \in Host : targets[c] = None <=> c \notin shape.held
         /\ dirs = [c \in Host |-> [name \in Names |->
                                       IF name = "target" THEN targets[c] ELSE None]]
    /\ staging = None
    /\ claims = [n \in Nonces |-> None]
    /\ vols = [database |-> "old", keystore |-> "old", password |-> "old"]
    /\ journal = None /\ lock = None /\ waiting = None /\ exec = None
    /\ before = Here
    /\ left = MAX_EVENTS

\* The unlocked read: a run refuses where a journal is, a resume where none
\* is, and both refuse an unwind that has begun.  Of the reads that race the
\* holder of the lock, those that see a resume about to start and those that
\* see an unwind about to start are kept: any other sees the same journals.
ReadJournal(mode, planned) ==
    /\ waiting = None
    /\ IF exec = None THEN TRUE
       ELSE IF mode = "resume" THEN exec.pc = "direction"
       ELSE mode = "abandon" /\ exec.mode = "resume" /\ exec.pc = "recover"
    /\ CASE mode = "run" -> journal = None /\ left > 0
         [] mode = "resume" -> /\ journal # None
                               /\ journal.phase = "restoring"
                               /\ assertJournalAgreesWithPlan(journal)
                               /\ planned = journal.planned
         [] OTHER -> journal # None /\ planned = journal.planned
    /\ waiting' = [mode |-> mode, seen |-> journal, planned |-> planned]
    /\ UNCHANGED <<shape, dirs, staging, claims, vols, journal, lock, exec, before, left>>

Working(mode, j) == [mode |-> mode, work |-> j, pc |-> "recover", step |-> None,
                     stopped |-> FALSE, unresolved |-> {}]

\* Slip: what was read before the lock is acted on.
ReadEnough == journal # None \/ waiting.mode = "run"

Event == left > 0 /\ left' = left - 1

ReadTheSame == journal = waiting.seen

\* The lock, and the second read under it: anything but the journal that was
\* read before is somebody else's doing, and refuses.
OpenLock ==
    /\ waiting # None /\ lock = None
    /\ waiting' = None
    /\ IF ~ReadTheSame
       THEN UNCHANGED <<lock, exec, before, left>>
       ELSE /\ lock' = "held"
            /\ exec' = IF waiting.mode = "abandon"
                       THEN [Working("abandon", journal) EXCEPT !.pc = "direction"]
                       ELSE Working(waiting.mode,
                              IF journal = None THEN FreshJournal(waiting.planned)
                                                ELSE journal)
            /\ IF waiting.mode = "run"
               THEN before' = Here /\ Event
               ELSE UNCHANGED <<before, left>>
    /\ UNCHANGED <<shape, dirs, staging, claims, vols, journal>>

Release == exec' = None /\ lock' = None

Crash ==
    /\ exec # None /\ Event
    /\ exec' = None /\ lock' = "stale"
    /\ UNCHANGED <<shape, dirs, staging, claims, vols, journal, waiting, before>>

RemoveStaleLock ==
    /\ lock = "stale" /\ lock' = None
    /\ UNCHANGED <<shape, dirs, staging, claims, vols, journal, waiting, exec, before, left>>

-----------------------------------------------------------------------------
(* Helpers of the command that holds the lock *)

Restoring(pc) == exec # None /\ exec.mode # "abandon" /\ exec.pc = pc
Plan == stepsFor(exec.work.planned)
In(id) == Restoring("in") /\ exec.step = id
Goto(pc) == exec' = [exec EXCEPT !.pc = pc]

\* A failed step ends the run, unless it is a proof.
FailStep ==
    LET work == [exec.work EXCEPT !.steps[exec.step] = "failed"]
    IN  /\ journal' = work
        /\ exec' = [exec EXCEPT !.work = work, !.pc = "loop",
                                !.stopped = exec.step \notin PROOF_STEP_IDS]

ThisStep == <<shape, lock, waiting, before>>

\* readStagingMarker: the directory is provably this operation's, or not.
Owned == IF staging = None THEN FALSE ELSE staging.owned
Unowned == IF staging = None THEN FALSE ELSE ~staging.owned

Exists(c, name) == dirs[c][name] # None

Staged(c) == staging # None /\ c \in staging.parts

Rename(c, from, to) ==
    dirs' = [dirs EXCEPT ![c][to] = dirs[c][from], ![c][from] = None]

NeedsRecovery(id) ==
    \/ exec.work.steps[id] = "running"
    \/ exec.work.steps[id] = "failed" /\ STEP_RECOVERY[id] # "retry"

Interrupted == {id \in Plan : NeedsRecovery(id)}

\* The step a previous process died or failed inside, when recovery is due.
Recovering(policy, id) ==
    /\ Restoring("recover")
    /\ id \in Interrupted /\ STEP_RECOVERY[id] = policy
    /\ \A other \in Interrupted : Position[id] <= Position[other]

\* What a recovery decided, in memory and in the journal.
Recovered(work) ==
    journal' = work /\ exec' = [exec EXCEPT !.work = work, !.pc = "loop"]

Retry(ids) ==
    [exec.work EXCEPT !.steps =
        [id \in Steps |-> IF id \in ids THEN "pending" ELSE exec.work.steps[id]]]

-----------------------------------------------------------------------------
(* Recovery of the step the journal names *)

NothingToRecover ==
    /\ Restoring("recover") /\ Interrupted = {}
    /\ Goto("loop")
    /\ UNCHANGED <<ThisStep, dirs, staging, claims, vols, journal, left>>

RecoverRetry ==
    /\ \E id \in Steps : Recovering("retry", id) /\ Recovered(Retry({id}))
    /\ UNCHANGED <<ThisStep, dirs, staging, claims, vols, left>>

\* Slip: any set found under the claim is taken for a verified one.
RecoverAnySafetySet ==
    LET claim == exec.work.claim
    IN  /\ Recovering("confirm-or-retry", "safety-set")
        /\ Recovered(IF claim = 0 \/ claims[claim] \in {"gone", "empty"}
                     THEN Retry({"safety-set"})
                     ELSE [exec.work EXCEPT !.steps["safety-set"] = "complete", !.taken = TRUE])
        /\ UNCHANGED <<ThisStep, dirs, staging, claims, vols, left>>

\* The claim decides: none or a vanished one is taken afresh, a proved one is
\* taken into, and a set inside it is this run's if it verifies.
RecoverSafetySet ==
    LET claim == exec.work.claim
        found == IF claim = 0 THEN "gone" ELSE claims[claim]
    IN  /\ Recovering("confirm-or-retry", "safety-set")
        /\ CASE found = "gone" ->
                    Recovered([Retry({"safety-set"}) EXCEPT !.claim = 0]) /\ UNCHANGED lock
             [] found = "empty" -> Recovered(Retry({"safety-set"})) /\ UNCHANGED lock
             [] found = "bad" -> Release /\ UNCHANGED journal
             [] OTHER -> /\ Recovered([exec.work EXCEPT !.steps["safety-set"] = "complete",
                                                        !.taken = TRUE])
                         /\ UNCHANGED lock
        /\ UNCHANGED <<shape, waiting, before, dirs, staging, claims, vols, left>>

\* Slip: the interrupted leg is taken to have landed.
RecoverForward ==
    /\ \E id \in Steps : /\ Recovering("rewind", id)
                          /\ Recovered([exec.work EXCEPT !.steps[id] = "complete"])
    /\ UNCHANGED <<ThisStep, dirs, staging, claims, vols, left>>

\* Finish the renames that are left, one at a time, looking again after each.
repairSwap ==
    \E id \in Steps :
      LET c == componentForStep(id)
          inFlight == Exists(c, "restoring")
          Refuse == Release /\ UNCHANGED <<journal, dirs>>
          work == [exec.work EXCEPT !.steps[id] = "complete",
                     !.swaps[c] = IF @ # None THEN @
                                  ELSE [kept |-> Exists(c, "replaced"), undone |-> FALSE]]
          Move(from, to) == \/ Rename(c, from, to) /\ UNCHANGED <<exec, journal, lock, left>>
                            \/ Event /\ Refuse
      IN  /\ Recovering("repair-swap", id)
          /\ \/ /\ inFlight /\ Exists(c, "target") /\ Exists(c, "replaced")
                /\ Refuse /\ UNCHANGED left
             \/ /\ inFlight /\ Exists(c, "target") /\ ~Exists(c, "replaced")
                /\ Move("target", "replaced")
             \/ /\ inFlight /\ ~Exists(c, "target")
                /\ Move("restoring", "target")
             \/ /\ ~inFlight /\ dirs[c].target = "set"
                /\ Recovered(work) /\ UNCHANGED <<dirs, lock, left>>
             \/ /\ ~inFlight /\ dirs[c].target # "set" /\ (Exists(c, "replaced") \/ ~Staged(c))
                /\ Refuse /\ UNCHANGED left
             \/ /\ ~inFlight /\ dirs[c].target # "set" /\ ~Exists(c, "replaced") /\ Staged(c)
                /\ Recovered(exec.work) /\ UNCHANGED <<dirs, lock, left>>
          /\ UNCHANGED <<shape, waiting, before, staging, claims, vols>>

RecoverRewind ==
    /\ \E id \in Steps :
         /\ Recovering("rewind", id)
         /\ Recovered(Retry({other \in Plan :
                               Position[other] \in Position[STEP_REWIND_TO] .. Position[id]}))
    /\ UNCHANGED <<ThisStep, dirs, staging, claims, vols, left>>

-----------------------------------------------------------------------------
(* The loop over the plan's steps *)

\* The steps still to come: after the one the loop is at, and not complete.
ToDo == {id \in Plan : /\ exec.work.steps[id] # "complete"
                       /\ exec.step # None => Position[id] > Position[exec.step]}

\* INTENT BEFORE EFFECT: the journal says running before anything happens.
BeginStep ==
    /\ Restoring("loop")
    /\ \/ /\ ToDo = {} \/ exec.stopped
          /\ Goto("finish") /\ UNCHANGED journal
       \/ /\ ~exec.stopped
          /\ \E next \in ToDo :
               /\ \A id \in ToDo : Position[next] <= Position[id]
               /\ journal' = [exec.work EXCEPT !.steps[next] = "running"]
               /\ exec' = [exec EXCEPT !.work = journal', !.pc = "in", !.step = next]
    /\ UNCHANGED <<ThisStep, dirs, staging, claims, vols, left>>

\* EFFECT BEFORE RECORD: complete is written once the step has done its work.
CompleteStep ==
    /\ Restoring("did")
    /\ journal' = [exec.work EXCEPT !.steps[exec.step] = "complete"]
    /\ exec' = [exec EXCEPT !.work = journal', !.pc = "loop"]
    /\ UNCHANGED <<ThisStep, dirs, staging, claims, vols, left>>

AllComplete == \A id \in Plan : exec.work.steps[id] = "complete"

\* Any effect of the step may fail before it has changed anything.
FailHere ==
    /\ exec # None /\ exec.mode # "abandon"
    /\ exec.pc \in {"in", "backup", "taken", "aside", "copying", "removing", "midway"}
    /\ ~AllComplete
    /\ Event /\ FailStep
    /\ UNCHANGED <<ThisStep, dirs, staging, claims, vols>>

LiveClaim == exec.work.claim # 0 /\ claims[exec.work.claim] # "gone"

ClaimDirectory ==
    /\ In("safety-set") /\ ~LiveClaim
    /\ \E n \in Nonces :
         /\ claims[n] = None /\ \A m \in 1 .. n - 1 : claims[m] # None
         /\ claims' = [claims EXCEPT ![n] = "empty"]
         /\ exec' = [exec EXCEPT !.work.claim = n, !.pc = "claimed"]
    /\ UNCHANGED <<ThisStep, dirs, staging, vols, journal, left>>

RecordClaim ==
    /\ Restoring("claimed")
    /\ journal' = exec.work /\ Goto("backup")
    /\ UNCHANGED <<ThisStep, dirs, staging, claims, vols, left>>

\* The backup refuses a name that is taken and a database that is not there;
\* what it publishes may not verify.
TakeSafetySet ==
    LET claim == exec.work.claim
    IN  /\ Restoring("backup") \/ (In("safety-set") /\ LiveClaim)
        /\ IF claims[claim] # "empty" \/ vols.database = None
           THEN FailStep /\ UNCHANGED <<claims, left>>
           ELSE \/ /\ claims' = [claims EXCEPT ![claim] = vols.database]
                   /\ exec' = [exec EXCEPT !.work.taken = TRUE, !.pc = "did"]
                   /\ UNCHANGED <<journal, left>>
                \/ /\ claims' = [claims EXCEPT ![claim] = "bad"]
                   /\ Event /\ FailStep
        /\ UNCHANGED <<ThisStep, dirs, staging, vols>>

stageComponents ==
    /\ \/ /\ In("stage-components") /\ staging = None
          /\ staging' = [owned |-> TRUE, parts |-> {}]
          /\ Goto("copying") /\ UNCHANGED journal
       \/ /\ In("stage-components") /\ Unowned
          /\ FailStep /\ UNCHANGED staging
       \/ /\ Restoring("copying")
          /\ staging' = [staging EXCEPT !.parts = Components]
          /\ Goto("did") /\ UNCHANGED journal
    /\ UNCHANGED <<ThisStep, dirs, claims, vols, left>>

StopAndDestroy ==
    /\ In("stop-and-destroy")
    /\ vols' = [vols EXCEPT !.database = None, !.keystore = None, !.password = None]
    /\ \/ Goto("did") /\ UNCHANGED <<journal, left>>
       \/ Event /\ FailStep
    /\ UNCHANGED <<ThisStep, dirs, staging, claims>>

\* Slip: only a directory in flight is in the way.
InFlight(c) == Exists(c, "restoring")

\* An in-flight or kept-aside directory of an earlier attempt.
InTheWay(c) == Exists(c, "restoring") \/ Exists(c, "replaced")

\* A component that is already there is not swapped and not recorded.
swapComponent ==
    LET c == componentForStep(exec.step)
    IN  /\ exec # None /\ exec.mode # "abandon" /\ exec.step # None
        /\ STEP_RECOVERY[exec.step] = "repair-swap"
        /\ \/ /\ exec.pc = "in" /\ Staged(c) /\ dirs[c].target = "set"
              /\ Goto("did") /\ UNCHANGED <<dirs, staging, journal>>
           \/ /\ exec.pc = "in"
              /\ ~Staged(c) \/ (dirs[c].target # "set" /\ InTheWay(c))
              /\ FailStep /\ UNCHANGED <<dirs, staging>>
           \/ /\ exec.pc = "in" /\ Staged(c) /\ dirs[c].target # "set"
              /\ ~InTheWay(c)
              /\ staging' = [staging EXCEPT !.parts = @ \ {c}]
              /\ dirs' = [dirs EXCEPT ![c].restoring = "set"]
              /\ Goto("taken") /\ UNCHANGED journal
           \/ /\ exec.pc = "taken"
              /\ IF Exists(c, "target") THEN Rename(c, "target", "replaced")
                                        ELSE UNCHANGED dirs
              /\ Goto("aside") /\ UNCHANGED <<staging, journal>>
           \/ /\ exec.pc = "aside" /\ Rename(c, "restoring", "target")
              /\ Goto("placed") /\ UNCHANGED <<staging, journal>>
           \/ /\ exec.pc = "placed"
              /\ LET work == [exec.work EXCEPT !.swaps[c] =
                                [kept |-> Exists(c, "replaced"), undone |-> FALSE]]
                 IN  journal' = work /\ exec' = [exec EXCEPT !.work = work, !.pc = "did"]
              /\ UNCHANGED <<dirs, staging>>
        /\ UNCHANGED <<ThisStep, claims, vols, left>>

\* PostgreSQL initialises an empty volume with the password in the file it is
\* given; an up on a running database changes nothing.
DatabaseUp ==
    /\ In("database-up")
    /\ vols' = IF vols.database # None THEN vols
               ELSE [vols EXCEPT !.database = "fresh", !.password = dirs["secrets"].target]
    /\ Goto("did")
    /\ UNCHANGED <<ThisStep, dirs, staging, claims, journal, left>>

PrepareRuntimeRole ==
    /\ In("prepare-runtime-role")
    /\ vols' = [vols EXCEPT !.database = IF @ = "fresh" THEN "ready" ELSE @]
    /\ Goto("did")
    /\ UNCHANGED <<ThisStep, dirs, staging, claims, journal, left>>

\* A dump replays into a fresh database with its role, and stops on an error
\* over anything else.
ReplayDatabase ==
    /\ \/ /\ In("replay-database")
          /\ IF Staged("database") /\ vols.database = "ready"
             THEN /\ vols' = [vols EXCEPT !.database = "partial"]
                  /\ Goto("midway") /\ UNCHANGED journal
             ELSE FailStep /\ UNCHANGED vols
       \/ /\ Restoring("midway") /\ exec.step = "replay-database"
          /\ vols' = [vols EXCEPT !.database = "set"]
          /\ Goto("did") /\ UNCHANGED journal
    /\ UNCHANGED <<ThisStep, dirs, staging, claims, left>>

PlaceInlineKeystore ==
    /\ \/ /\ In("place-inline-keystore")
          /\ IF Staged("keystore")
             THEN /\ vols' = [vols EXCEPT !.keystore = "partial"]
                  /\ Goto("midway") /\ UNCHANGED journal
             ELSE FailStep /\ UNCHANGED vols
       \/ /\ Restoring("midway") /\ exec.step = "place-inline-keystore"
          /\ vols' = [vols EXCEPT !.keystore = "set"]
          /\ Goto("did") /\ UNCHANGED journal
    /\ UNCHANGED <<ThisStep, dirs, staging, claims, left>>

RunCommands ==
    /\ Restoring("in") /\ exec.step \in {"stack-up"} \union PROOF_STEP_IDS
    /\ Goto("did")
    /\ UNCHANGED <<ThisStep, dirs, staging, claims, vols, journal, left>>

-----------------------------------------------------------------------------
(* The end of a restore, and the removal of the staging directory *)

FinishRestore ==
    /\ Restoring("finish")
    /\ ~AllComplete \/ ~Owned
    /\ journal' = IF AllComplete /\ staging = None THEN None ELSE journal
    /\ Release
    /\ UNCHANGED <<shape, waiting, before, dirs, staging, claims, vols, left>>

\* Entry by entry, in the order the directory lists them: the ownership
\* marker may go before the rest.
RemoveStaging ==
    /\ Owned
    /\ \/ In("stage-components")
       \/ Restoring("finish") /\ AllComplete
       \/ exec # None /\ exec.pc = "staging" /\ exec.unresolved = {}
    /\ \E owned \in BOOLEAN : staging' = [owned |-> owned, parts |-> {}]
    /\ Goto("removing")
    /\ UNCHANGED <<ThisStep, dirs, claims, vols, journal, left>>

StagingRemoved ==
    /\ exec # None /\ exec.pc = "removing"
    /\ \/ /\ staging' = None
          /\ Goto(IF exec.mode = "abandon" THEN "staging"
                  ELSE IF AllComplete THEN "finish" ELSE "in")
          /\ UNCHANGED <<journal, lock, left>>
       \/ /\ exec.mode = "abandon" \/ AllComplete
          /\ Event /\ journal' = exec.work /\ Release
          /\ UNCHANGED staging
    /\ UNCHANGED <<shape, waiting, before, dirs, claims, vols>>

-----------------------------------------------------------------------------
(* Abandon *)

Unwinding == exec # None /\ exec.mode = "abandon" /\ exec.pc = "unwind"

\* The direction is written before the first rename.
RecordDirection ==
    /\ exec # None /\ exec.pc = "direction"
    /\ journal' = [journal EXCEPT !.phase = "abandoning"]
    /\ exec' = [exec EXCEPT !.pc = "unwind", !.work = journal']
    /\ UNCHANGED <<ThisStep, dirs, staging, claims, vols, left>>

\* Slip: every unwind starts over.
startsOver(c) == FALSE

Moved == {c \in Host : /\ exec.work.swaps[c] # None
                       /\ ~exec.work.swaps[c].undone
                       /\ c \notin exec.unresolved}

finishedAlready(c) ==
    IF exec.work.swaps[c].kept
    THEN Exists(c, "target") /\ Exists(c, "abandoned") /\ ~Exists(c, "replaced")
    ELSE ~Exists(c, "target")

UndoSwap(c) ==
    LET Unresolved == exec' = [exec EXCEPT !.unresolved = @ \union {c}]
        Undone == exec' = [exec EXCEPT !.work.swaps[c].undone = TRUE]
    IN  /\ Unwinding /\ c \in Moved
        /\ \/ finishedAlready(c) /\ Undone /\ UNCHANGED <<dirs, left>>
           \/ /\ ~finishedAlready(c) /\ Exists(c, "target") /\ Exists(c, "abandoned")
              /\ Unresolved /\ UNCHANGED <<dirs, left>>
           \/ /\ ~finishedAlready(c) /\ Exists(c, "target") /\ ~Exists(c, "abandoned")
              /\ Rename(c, "target", "abandoned") /\ UNCHANGED <<exec, left>>
           \/ /\ ~finishedAlready(c) /\ ~Exists(c, "target") /\ ~Exists(c, "replaced")
              /\ Unresolved /\ UNCHANGED <<dirs, left>>
           \/ /\ ~finishedAlready(c) /\ ~Exists(c, "target") /\ Exists(c, "replaced")
              /\ Rename(c, "replaced", "target") /\ Undone /\ UNCHANGED left
           \/ Event /\ Unresolved /\ UNCHANGED dirs
        /\ UNCHANGED <<ThisStep, staging, claims, vols, journal>>

AllTried ==
    /\ Unwinding /\ Moved = {}
    /\ Goto("staging")
    /\ UNCHANGED <<ThisStep, dirs, staging, claims, vols, journal, left>>

\* Slip: the journal goes once every swap has been tried.
FinishAbandonTried ==
    /\ exec # None /\ exec.pc = "staging"
    /\ exec.unresolved # {} \/ ~Owned
    /\ journal' = None
    /\ Release
    /\ UNCHANGED <<shape, waiting, before, dirs, staging, claims, vols, left>>

\* The journal goes only when everything is back and nothing is left staged.
FinishAbandon ==
    /\ exec # None /\ exec.pc = "staging"
    /\ exec.unresolved # {} \/ ~Owned
    /\ journal' = IF exec.unresolved = {} /\ staging = None THEN None ELSE exec.work
    /\ Release
    /\ UNCHANGED <<shape, waiting, before, dirs, staging, claims, vols, left>>

-----------------------------------------------------------------------------
(* The operator, between commands *)

Quiet == exec = None /\ journal = None /\ lock = None

\* "Destroy them the way you would destroy a password, once you are done."
DestroyAsides ==
    /\ Quiet
    /\ dirs' = [c \in Host |-> [dirs[c] EXCEPT !.replaced = None, !.abandoned = None]]
    /\ dirs' # dirs
    /\ UNCHANGED <<shape, staging, claims, vols, journal, lock, waiting, exec, before, left>>

RewriteSecrets ==
    /\ Quiet /\ dirs["secrets"].target = "set"
    /\ dirs' = [dirs EXCEPT !["secrets"].target = "newer"]
    /\ UNCHANGED <<shape, staging, claims, vols, journal, lock, waiting, exec, before, left>>

\* Somebody clears an empty claim out of the backup destination.
ClaimVanishes ==
    /\ exec = None /\ Event
    /\ \E n \in Nonces : claims[n] = "empty" /\ claims' = [claims EXCEPT ![n] = "gone"]
    /\ UNCHANGED <<shape, dirs, staging, vols, journal, lock, waiting, exec, before>>

-----------------------------------------------------------------------------
Recover == \/ NothingToRecover \/ RecoverRetry \/ RecoverSafetySet
           \/ repairSwap \/ RecoverRewind

PerformStep == \/ ClaimDirectory \/ RecordClaim \/ TakeSafetySet
               \/ stageComponents \/ StopAndDestroy \/ swapComponent
               \/ DatabaseUp \/ PrepareRuntimeRole \/ ReplayDatabase
               \/ PlaceInlineKeystore \/ RunCommands

runCompleteRestore == \/ Recover \/ BeginStep \/ PerformStep \/ CompleteStep
                      \/ FinishRestore

abandonUnderLock == \/ RecordDirection \/ \E c \in Host : UndoSwap(c)
                    \/ AllTried \/ FinishAbandon

Command == \/ runCompleteRestore \/ abandonUnderLock
           \/ RemoveStaging \/ StagingRemoved

Next == \/ \E mode \in {"run", "resume", "abandon"}, planned \in BOOLEAN :
              ReadJournal(mode, planned)
        \/ OpenLock \/ Command \/ FailHere \/ Crash \/ RemoveStaleLock
        \/ DestroyAsides \/ RewriteSecrets \/ ClaimVanishes

Spec == Init /\ [][Next]_vars

\* A command that runs comes to an end, an operator who asked for a restore
\* to be put back keeps asking, and removes a lock nobody holds.
Fairness == /\ WF_vars(Command)
            /\ WF_vars(OpenLock)
            /\ WF_vars(RemoveStaleLock)
            /\ WF_vars(\E planned \in BOOLEAN :
                          /\ journal # None /\ journal.phase = "abandoning"
                          /\ ReadJournal("abandon", planned))

FairSpec == Spec /\ Fairness

-----------------------------------------------------------------------------
(* Properties *)

\* A restore that planned a safety set destroys nothing before its own claim
\* holds a verified backup of the installation the operation started from.
RecoveryBeforeDestruction ==
    journal # None /\ journal.planned /\ journal.steps["stop-and-destroy"] # "pending"
      => journal.claim # 0 /\ claims[journal.claim] = before.database

\* A restore that reports itself done has put every component of the set in
\* place, over one complete replay, on a volume initialised with the set's own
\* password, and left no staged copy of a secret behind.
RestoredMeansWhole ==
    [][journal # None /\ journal.phase = "restoring" /\ journal' = None
         => /\ \A c \in Placed : dirs[c].target = "set" /\ ~Exists(c, "restoring")
            /\ vols.database = "set" /\ vols.password = "set"
            /\ shape.custodian = "inline" => vols.keystore = "set"
            /\ staging = None]_vars

\* When an abandon clears the journal, every target whose swap it recorded
\* holds again what it held before, the absence of a target included, or, where
\* an earlier unwind had left it missing, what that one left aside.
RecordedSwapsPutBack ==
    [][journal # None /\ journal.phase = "abandoning" /\ journal' = None
         => \A c \in Host : journal.swaps[c] # None /\ before.targets[c] # "set"
              => dirs[c].target = before.held[c]]_vars

\* The journal is not cleared until every original target state is back
\* (docs/PHASES_297_304_COMPLETE_RESTORE.md:535), recorded swap or not.  A target
\* that held the set's content already is never swapped, and is left out.
AbandonPutsBack ==
    [][journal # None /\ journal.phase = "abandoning" /\ journal' = None
         => \A c \in Host : before.targets[c] # "set" => dirs[c].target = before.targets[c]]_vars

\* The only copy of what an operator had in a target is never overwritten.
OnlyTheOperatorDestroys ==
    [][\A c \in Host, kept \in {"old", "newer"} :
         (\E name \in Names : dirs[c][name] = kept) /\ ~DestroyAsides
           => \E name \in Names : dirs'[c][name] = kept]_vars

\* Once somebody has asked for the restore to be put back, no command places a
\* component, touches a volume or takes a safety set, whatever it had read.
NothingPlacedOverAnUnwind ==
    [][journal # None /\ journal.phase = "abandoning"
         => /\ vols' = vols
            /\ \A c \in Host : dirs'[c].restoring = dirs[c].restoring
            /\ \A n \in Nonces : claims'[n] \in {claims[n], "gone"}]_vars

\* A journal that a process of this program left behind is one that a resume
\* recognises: it is never refused as a state no run could have produced.
JournalIsRecognised ==
    journal # None /\ exec = None => assertJournalAgreesWithPlan(journal)

\* An unwind that has begun ends with the journal gone, unless an earlier
\* unwind of the same plan left its copies, or a removal lost the marker.
AbandonEnds ==
    (journal # None /\ journal.phase = "abandoning")
      ~> (\/ journal = None \/ Unowned
          \/ \E c \in Host : Exists(c, "abandoned") /\ Exists(c, "replaced"))

=============================================================================
