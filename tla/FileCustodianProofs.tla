------------------------ MODULE FileCustodianProofs ------------------------
(***************************************************************************)
(* Proofs about the file custodian, for any keys, items, operations,        *)
(* processes, crashes and failing writes: a destroyed key stays destroyed,  *)
(* and a caller sees no key walk its life cycle backwards (KeyLifecycle).   *)
(***************************************************************************)
EXTENDS FileCustodian, TLAPS

-----------------------------------------------------------------------------
(* The inductive invariant.                                                 *)

FilePlaces == {"idle", "next", "mint", "record", "promote", "journal", "wipe", "unlink",
               "tomb", "clear", "op"}
Tasks == [pc : FilePlaces, kind : {"none", "provision", "commit", "destroy", "recover"},
          key : Keys \cup {NoKey}, op : ShredOps \cup {0}, todo : SUBSET Keys, dead : BOOLEAN]

FileTypeOK ==
    /\ keyFile \in [Keys -> {"none", "provisional", "active"}]
    /\ zeroed \subseteq Keys /\ tombs \subseteq Keys /\ provOps \subseteq Keys
    /\ journal \subseteq Keys /\ shredRecs \subseteq ShredOps \X Keys
    /\ debris \in BOOLEAN /\ lock \in BOOLEAN
    /\ running \in [Writers -> BOOLEAN]
    /\ task \in [Writers -> Tasks]
    /\ owner \in [Keys -> Items \cup {NoItem}]

\* Whoever is in an operation holds the lock, alone.
Exclusive ==
    /\ \A w \in Writers : ~In(w, "idle") => lock
    /\ \A v, w \in Writers : ~In(v, "idle") /\ ~In(w, "idle") => v = w

\* The directories agree with each other.
DiskInv ==
    /\ \A k \in tombs : ~KeyExists(k)
    /\ \A k \in zeroed : KeyExists(k) /\ k \in journal
    /\ \A k \in Keys : KeyExists(k) \/ k \in tombs \cup journal => owner[k] \in Items
    /\ \A b \in shredRecs : b[2] \in tombs
    /\ \A b, c \in shredRecs : b[1] = c[1] => b = c

\* What an operation knows of the disk at each of its writes.
Knows(w) == LET t == task[w] k == t.key IN
    /\ t.pc = "idle" => t = NoTask
    /\ t.pc = "next" => t.kind = "recover"
    /\ t.pc \notin {"idle", "next"} => k \in Keys /\ owner[k] \in Items
    /\ t.pc = "mint" => ~KeyExists(k) /\ k \notin tombs \cup journal
    /\ t.pc = "record" => KeyExists(k)
    /\ t.pc = "promote" => keyFile[k] = "provisional" /\ t.dead = (k \in zeroed)
    /\ t.pc = "journal" => KeyExists(k) /\ t.kind = "destroy"
    /\ t.pc \in {"wipe", "unlink", "tomb"} => k \in journal
    /\ t.pc = "unlink" => k \in zeroed
    /\ t.pc = "tomb" => ~KeyExists(k)
    /\ t.pc = "clear" => k \in tombs
    /\ t.pc \in {"wipe", "unlink", "tomb", "clear"} => t.kind \in {"destroy", "recover"}
    /\ t.pc = "op" => k \in tombs /\ t.kind = "destroy"
    /\ t.kind = "destroy" => t.op \in ShredOps /\ FreshOp(t.op, k)
    /\ t.todo \subseteq journal /\ k \notin t.todo

FileInv ==
    /\ FileTypeOK /\ Exclusive /\ DiskInv
    /\ \A w \in Writers : Knows(w)

LEMMA IdleTask ==
    /\ NoTask \in Tasks /\ NoTask.pc = "idle" /\ NoTask.kind = "none" /\ NoTask.key = NoKey
    /\ NoTask.todo = {}
BY DEF NoTask, Tasks, FilePlaces

\* A writer at rest knows nothing, and nothing it knows can be wrong.
LEMMA IdleKnows ==
    ASSUME NEW w \in Writers, task[w] = NoTask
    PROVE  Knows(w)
BY IdleTask DEF Knows

LEMMA InitFileInv == FileInit => FileInv
<1> SUFFICES ASSUME FileInit PROVE FileInv OBVIOUS
<1>1. FileTypeOK
  BY IdleTask DEF FileInit, FileTypeOK
<1>2. Exclusive /\ \A w \in Writers : Knows(w)
  BY IdleTask, IdleKnows DEF FileInit, Exclusive, In
<1>3. DiskInv
  BY DEF FileInit, DiskInv, KeyExists
<1> QED BY <1>1, <1>2, <1>3 DEF FileInv

\* Nobody else is in an operation beside one that holds the lock.
LEMMA Alone ==
    ASSUME FileInv, NEW w \in Writers, ~In(w, "idle") \/ LockFree
    PROVE  \A v \in Writers \ {w} : task[v] = NoTask
BY DEF FileInv, Exclusive, Knows, LockFree, In

\* What a step of one writer has to show: the directories, and what it knows itself.
LEMMA OneWriter ==
    ASSUME FileInv, NEW w \in Writers, ~In(w, "idle") \/ LockFree,
           NEW t \in Tasks, task' = [task EXCEPT ![w] = t], lock' \in BOOLEAN,
           t.pc = "idle" \/ lock',
           FileTypeOK', DiskInv', Knows(w)'
    PROVE  FileInv'
<1>1. \A v \in Writers \ {w} : task'[v] = NoTask
  BY Alone DEF FileInv, FileTypeOK
<1>2. task'[w] = t
  BY DEF FileInv, FileTypeOK
<1>3. Exclusive'
  BY <1>1, <1>2 DEF Exclusive, In, NoTask
<1>4. \A v \in Writers \ {w} : Knows(v)'
  BY <1>1, IdleTask DEF Knows
<1> QED BY <1>3, <1>4 DEF FileInv

-----------------------------------------------------------------------------
(* One lemma per action.                                                    *)

LEMMA StartProvisionInv ==
    ASSUME FileInv, NEW w \in Writers, NEW i \in Items, NEW k \in Keys, StartProvision(w, i, k)
    PROVE  FileInv'
<1> DEFINE t == [NoTask EXCEPT !.pc = "mint", !.kind = "provision", !.key = k]
<1>1. t \in Tasks BY DEF NoTask, Tasks, FilePlaces
<1>2. task' = [task EXCEPT ![w] = t] /\ LockFree /\ lock'
  BY DEF StartProvision, Take
<1>3. FileTypeOK'
  BY <1>1, <1>2 DEF StartProvision, Take, FileInv, FileTypeOK, disk
<1>4. DiskInv'
  BY DEF StartProvision, Take, FileInv, FileTypeOK, DiskInv, disk, KeyExists
<1>5. k \notin journal
  BY NoItemAssumption DEF StartProvision, FileInv, DiskInv
<1>6. Knows(w)'
  BY <1>2, <1>5 DEF StartProvision, Take, FileInv, FileTypeOK, Knows, NoTask, disk, KeyExists
<1> QED BY <1>1, <1>2, <1>3, <1>4, <1>6, OneWriter

LEMMA StartCommitInv ==
    ASSUME FileInv, NEW w \in Writers, NEW k \in Keys, StartCommit(w, k)
    PROVE  FileInv'
<1> DEFINE dead == k \in zeroed
           t == [NoTask EXCEPT !.pc = "promote", !.kind = "commit", !.key = k, !.dead = dead]
<1>0. dead \in BOOLEAN OBVIOUS
<1>1. t \in Tasks
  <2> HIDE DEF dead
  <2> QED BY <1>0 DEF NoTask, Tasks, FilePlaces
<1>2. task' = [task EXCEPT ![w] = t] /\ LockFree /\ lock'
  BY DEF StartCommit, Take
<1>3. FileTypeOK'
  BY <1>1, <1>2 DEF StartCommit, Take, FileInv, FileTypeOK, disk
<1>4. DiskInv'
  BY DEF StartCommit, Take, FileInv, DiskInv, disk, KeyExists
<1>5. owner[k] \in Items
  BY DEF StartCommit, FileInv, DiskInv, KeyExists
<1>6. Knows(w)'
  BY <1>2, <1>5 DEF StartCommit, Take, FileInv, FileTypeOK, Knows, NoTask, disk, KeyExists
<1> QED BY <1>1, <1>2, <1>3, <1>4, <1>6, OneWriter

LEMMA StartDestroyInv ==
    ASSUME FileInv, NEW w \in Writers, NEW op \in ShredOps, NEW k \in Keys,
           StartDestroy(w, op, k)
    PROVE  FileInv'
<1> DEFINE t == [NoTask EXCEPT !.pc = IF k \in tombs THEN "op" ELSE "journal",
                               !.kind = "destroy", !.key = k, !.op = op]
<1>1. t \in Tasks BY DEF NoTask, Tasks, FilePlaces
<1>2. task' = [task EXCEPT ![w] = t] /\ LockFree /\ lock'
  BY DEF StartDestroy, Take
<1>3. FileTypeOK'
  BY <1>1, <1>2 DEF StartDestroy, Take, FileInv, FileTypeOK, disk
<1>4. DiskInv'
  BY DEF StartDestroy, Take, FileInv, DiskInv, disk, KeyExists
<1>5. owner[k] \in Items
  BY DEF StartDestroy, FileInv, DiskInv
<1>6. Knows(w)'
  BY <1>2, <1>5 DEF StartDestroy, Take, FileInv, FileTypeOK, Knows, NoTask, disk, KeyExists,
                    FreshOp
<1> QED BY <1>1, <1>2, <1>3, <1>4, <1>6, OneWriter

\* What the writer of a step holds.
LEMMA Working ==
    ASSUME FileInv, NEW w \in Writers, ~In(w, "idle")
    PROVE  /\ task \in [Writers -> Tasks] /\ task[w] \in Tasks /\ Knows(w) /\ lock
           /\ ~In(w, "next") => task[w].key \in Keys /\ owner[task[w].key] \in Items
BY DEF FileInv, FileTypeOK, Exclusive, Knows, In

\* A step that goes on to the next write, and one that returns.
LEMMA GoesOn ==
    ASSUME FileInv, NEW w \in Writers, ~In(w, "idle"), NEW pc \in FilePlaces, Step(w, pc)
    PROVE  /\ [task[w] EXCEPT !.pc = pc] \in Tasks
           /\ task' = [task EXCEPT ![w] = [task[w] EXCEPT !.pc = pc]]
           /\ task'[w] \in Tasks /\ task' \in [Writers -> Tasks] /\ task'[w].pc = pc
           /\ task'[w].key = task[w].key /\ task'[w].kind = task[w].kind
           /\ task'[w].op = task[w].op /\ task'[w].todo = task[w].todo
<1>1. [task[w] EXCEPT !.pc = pc] \in Tasks
  BY Working DEF Tasks
<1>2. task' = [task EXCEPT ![w] = [task[w] EXCEPT !.pc = pc]]
  BY Working DEF Step
<1>3. task'[w] = [task[w] EXCEPT !.pc = pc]
  BY <1>2, Working
<1> QED BY <1>1, <1>2, <1>3, Working DEF Tasks

\* The places a step goes on to.
LEMMA Places ==
    /\ "record" \in FilePlaces /\ "wipe" \in FilePlaces /\ "unlink" \in FilePlaces
    /\ "tomb" \in FilePlaces /\ "clear" \in FilePlaces /\ "next" \in FilePlaces
    /\ "op" \in FilePlaces /\ "idle" \in FilePlaces
BY DEF FilePlaces

\* A step that goes on: what it does to the files, and what it knows of them afterwards.
LEMMA Advances ==
    ASSUME FileInv, NEW w \in Writers, ~In(w, "idle"), NEW pc \in FilePlaces, Step(w, pc),
           UNCHANGED <<debris, lock, running, owner>>,
           keyFile' \in [Keys -> {"none", "provisional", "active"}],
           zeroed' \subseteq Keys, tombs' \subseteq Keys, provOps' \subseteq Keys,
           journal' \subseteq Keys, shredRecs' \subseteq ShredOps \X Keys,
           DiskInv', Knows(w)'
    PROVE  FileInv'
<1>1. FileTypeOK'
  BY GoesOn DEF FileInv, FileTypeOK
<1>2. lock' \in BOOLEAN /\ lock'
  BY Working DEF FileInv, FileTypeOK
<1> QED BY <1>1, <1>2, GoesOn, OneWriter

LEMMA Returns ==
    ASSUME FileInv, NEW w \in Writers, ~In(w, "idle"), Return(w), FileTypeOK', DiskInv'
    PROVE  FileInv'
<1>1. task'[w] = NoTask
  BY Working DEF Return
<1>2. Knows(w)'
  BY <1>1, IdleTask DEF Knows
<1> QED BY <1>2, IdleTask, OneWriter DEF Return

LEMMA WriteKeyFileInv ==
    ASSUME FileInv, NEW w \in Writers, WriteKeyFile(w)
    PROVE  FileInv'
<1>1. ~In(w, "idle") /\ In(w, "mint") /\ Step(w, "record") BY DEF WriteKeyFile, In
<1>2. task[w].key \in Keys /\ owner[task[w].key] \in Items /\ Knows(w)
  BY <1>1, Working DEF In
<1>3. /\ task'[w].pc = "record" /\ task'[w].key = task[w].key /\ task'[w].kind = task[w].kind
      /\ task'[w].op = task[w].op /\ task'[w].todo = task[w].todo
  BY <1>1, GoesOn, Places
<1>4. DiskInv'
  BY <1>1, <1>2 DEF WriteKeyFile, FileInv, FileTypeOK, DiskInv, KeyExists, Knows, In
<1>5. Knows(w)'
  BY <1>1, <1>2, <1>3 DEF WriteKeyFile, FileInv, FileTypeOK, KeyExists, Knows, In, FreshOp
<1> QED BY <1>1, <1>2, <1>4, <1>5, Places, Advances DEF WriteKeyFile, FileInv, FileTypeOK

LEMMA WriteProvisionRecordInv ==
    ASSUME FileInv, NEW w \in Writers, WriteProvisionRecord(w)
    PROVE  FileInv'
<1>1. ~In(w, "idle") /\ ~In(w, "next") /\ Return(w) BY DEF WriteProvisionRecord, In
<1>2. FileTypeOK'
  BY <1>1, Working, IdleTask DEF WriteProvisionRecord, Return, FileInv, FileTypeOK
<1>3. DiskInv'
  BY DEF WriteProvisionRecord, FileInv, DiskInv, KeyExists
<1> QED BY <1>1, <1>2, <1>3, Returns

LEMMA WriteActiveInv ==
    ASSUME FileInv, NEW w \in Writers, WriteActive(w)
    PROVE  FileInv'
<1>1. ~In(w, "idle") /\ ~In(w, "next") /\ In(w, "promote") /\ Return(w) BY DEF WriteActive, In
<1>2. task[w].key \in Keys /\ owner[task[w].key] \in Items /\ Knows(w) BY <1>1, Working
<1>3. FileTypeOK'
  BY <1>1, <1>2, IdleTask DEF WriteActive, Return, FileInv, FileTypeOK
<1>4. DiskInv'
  <2> DEFINE k == task[w].key
  <2>1. keyFile[k] = "provisional" /\ task[w].dead = (k \in zeroed)
    BY <1>1, <1>2 DEF Knows, In
  <2>2. \A x : x \in zeroed' <=> x \in zeroed
    BY <2>1 DEF WriteActive
  <2>3. \A x \in Keys : KeyExists(x)' <=> KeyExists(x)
    BY <1>2, <2>1 DEF WriteActive, FileInv, FileTypeOK, KeyExists
  <2>4. zeroed \subseteq Keys /\ tombs \subseteq Keys BY DEF FileInv, FileTypeOK
  <2>5. UNCHANGED <<tombs, journal, shredRecs, owner>> BY DEF WriteActive
  <2> HIDE DEF k
  <2> QED BY <2>2, <2>3, <2>4, <2>5 DEF FileInv, DiskInv
<1> QED BY <1>1, <1>3, <1>4, Returns

LEMMA WriteJournalInv ==
    ASSUME FileInv, NEW w \in Writers, WriteJournal(w)
    PROVE  FileInv'
<1>1. ~In(w, "idle") /\ In(w, "journal") /\ Step(w, "wipe") BY DEF WriteJournal, In
<1>2. task[w].key \in Keys /\ owner[task[w].key] \in Items /\ Knows(w)
  BY <1>1, Working DEF In
<1>3. /\ task'[w].pc = "wipe" /\ task'[w].key = task[w].key /\ task'[w].kind = task[w].kind
      /\ task'[w].op = task[w].op /\ task'[w].todo = task[w].todo
  BY <1>1, GoesOn, Places
<1>4. DiskInv'
  BY <1>1, <1>2 DEF WriteJournal, FileInv, FileTypeOK, DiskInv, KeyExists, Knows, In
<1>5. Knows(w)'
  BY <1>1, <1>2, <1>3 DEF WriteJournal, FileInv, FileTypeOK, KeyExists, Knows, In, FreshOp
<1> QED BY <1>1, <1>2, <1>4, <1>5, Places, Advances DEF WriteJournal, FileInv, FileTypeOK

LEMMA WipeInv ==
    ASSUME FileInv, NEW w \in Writers, Wipe(w)
    PROVE  FileInv'
<1>1. ~In(w, "idle") /\ In(w, "wipe") BY DEF Wipe, In
<1>2. PICK pc \in {"unlink", "tomb"} : Step(w, pc) /\ (pc = "unlink" <=> KeyExists(task[w].key))
  BY DEF Wipe
<1>a. pc \in FilePlaces BY Places
<1>b. task[w].key \in Keys /\ owner[task[w].key] \in Items /\ Knows(w) /\ task[w] \in Tasks
  BY <1>1, Working DEF In
<1>3. /\ task'[w].pc = pc /\ task'[w].key = task[w].key /\ task'[w].kind = task[w].kind
      /\ task'[w].op = task[w].op /\ task'[w].todo = task[w].todo
  BY <1>1, <1>2, <1>a, GoesOn
<1>4. DiskInv'
  BY <1>1, <1>b DEF Wipe, FileInv, FileTypeOK, DiskInv, KeyExists, Knows, In
<1>5. Knows(w)'
  BY <1>1, <1>2, <1>b, <1>3 DEF Wipe, FileInv, FileTypeOK, KeyExists, Knows, In, FreshOp
<1> QED BY <1>1, <1>2, <1>a, <1>b, <1>4, <1>5, Advances DEF Wipe, FileInv, FileTypeOK

LEMMA UnlinkInv ==
    ASSUME FileInv, NEW w \in Writers, Unlink(w)
    PROVE  FileInv'
<1>1. ~In(w, "idle") /\ In(w, "unlink") /\ Step(w, "tomb") BY DEF Unlink, In
<1>2. task[w].key \in Keys /\ owner[task[w].key] \in Items /\ Knows(w)
  BY <1>1, Working DEF In
<1>3. /\ task'[w].pc = "tomb" /\ task'[w].key = task[w].key /\ task'[w].kind = task[w].kind
      /\ task'[w].op = task[w].op /\ task'[w].todo = task[w].todo
  BY <1>1, GoesOn, Places
<1>4. DiskInv'
  BY <1>1, <1>2 DEF Unlink, FileInv, FileTypeOK, DiskInv, KeyExists, Knows, In
<1>5. Knows(w)'
  BY <1>1, <1>2, <1>3 DEF Unlink, FileInv, FileTypeOK, KeyExists, Knows, In, FreshOp
<1> QED BY <1>1, <1>2, <1>4, <1>5, Places, Advances DEF Unlink, FileInv, FileTypeOK

LEMMA WriteTombstoneInv ==
    ASSUME FileInv, NEW w \in Writers, WriteTombstone(w)
    PROVE  FileInv'
<1>1. ~In(w, "idle") /\ In(w, "tomb") /\ Step(w, "clear") BY DEF WriteTombstone, In
<1>2. task[w].key \in Keys /\ owner[task[w].key] \in Items /\ Knows(w)
  BY <1>1, Working DEF In
<1>3. /\ task'[w].pc = "clear" /\ task'[w].key = task[w].key /\ task'[w].kind = task[w].kind
      /\ task'[w].op = task[w].op /\ task'[w].todo = task[w].todo
  BY <1>1, GoesOn, Places
<1>4. DiskInv'
  BY <1>1, <1>2 DEF WriteTombstone, FileInv, FileTypeOK, DiskInv, KeyExists, Knows, In
<1>5. Knows(w)'
  BY <1>1, <1>2, <1>3 DEF WriteTombstone, FileInv, FileTypeOK, KeyExists, Knows, In, FreshOp
<1> QED BY <1>1, <1>2, <1>4, <1>5, Places, Advances DEF WriteTombstone, FileInv, FileTypeOK

LEMMA ClearJournalInv ==
    ASSUME FileInv, NEW w \in Writers, ClearJournal(w)
    PROVE  FileInv'
<1>1. ~In(w, "idle") /\ In(w, "clear") BY DEF ClearJournal, In
<1>2. PICK pc \in {"next", "op"} : Step(w, pc) /\ (pc = "next" <=> task[w].kind = "recover")
  BY DEF ClearJournal
<1>a. pc \in FilePlaces BY Places
<1>b. task[w].key \in Keys /\ owner[task[w].key] \in Items /\ Knows(w) /\ task[w] \in Tasks
  BY <1>1, Working DEF In
<1>3. /\ task'[w].pc = pc /\ task'[w].key = task[w].key /\ task'[w].kind = task[w].kind
      /\ task'[w].op = task[w].op /\ task'[w].todo = task[w].todo
  BY <1>1, <1>2, <1>a, GoesOn
<1>4. DiskInv'
  BY <1>1, <1>b DEF ClearJournal, FileInv, FileTypeOK, DiskInv, KeyExists, Knows, In
<1>5. Knows(w)'
  BY <1>1, <1>2, <1>b, <1>3 DEF ClearJournal, FileInv, FileTypeOK, KeyExists, Knows, In, FreshOp
<1> QED BY <1>1, <1>2, <1>a, <1>b, <1>4, <1>5, Advances DEF ClearJournal, FileInv, FileTypeOK

LEMMA WriteDestroyRecordInv ==
    ASSUME FileInv, NEW w \in Writers, WriteDestroyRecord(w)
    PROVE  FileInv'
<1>1. ~In(w, "idle") /\ ~In(w, "next") /\ In(w, "op") /\ Return(w) BY DEF WriteDestroyRecord, In
<1>2. /\ task[w].key \in tombs /\ task[w].op \in ShredOps
      /\ task[w].key \in Keys /\ FreshOp(task[w].op, task[w].key)
  BY <1>1, Working DEF Knows, In
<1>a. shredRecs' \subseteq ShredOps \X Keys
  BY <1>2 DEF WriteDestroyRecord, FileInv, FileTypeOK
<1>3. FileTypeOK'
  BY <1>1, <1>a, IdleTask DEF WriteDestroyRecord, Return, FileInv, FileTypeOK
<1>4. DiskInv'
  BY <1>2 DEF WriteDestroyRecord, FileInv, FileTypeOK, DiskInv, KeyExists, FreshOp
<1> QED BY <1>1, <1>3, <1>4, Returns

LEMMA BootInv ==
    ASSUME FileInv, NEW w \in Writers, Boot(w)
    PROVE  FileInv'
<1>0. DiskInv'
  BY DEF Boot, FileInv, DiskInv, disk, KeyExists
<1>1. CASE journal = {}
  <2>1. FileTypeOK' BY <1>1 DEF Boot, FileInv, FileTypeOK, disk
  <2> QED BY <1>0, <1>1, <2>1 DEF Boot, FileInv, Exclusive, Knows, disk, In, KeyExists, FreshOp
<1>2. CASE journal # {}
  <2> DEFINE t == [NoTask EXCEPT !.pc = "next", !.kind = "recover", !.todo = journal]
  <2>1. t \in Tasks /\ LockFree /\ lock' /\ task' = [task EXCEPT ![w] = t]
    BY <1>2 DEF Boot, NoTask, Tasks, FilePlaces, FileInv, FileTypeOK
  <2>2. FileTypeOK'
    BY <1>2, <2>1 DEF Boot, FileInv, FileTypeOK, disk
  <2>3. Knows(w)'
    BY <1>2, <2>1, NoKeyAssumption DEF Boot, FileInv, FileTypeOK, Knows, NoTask, disk
  <2> QED BY <1>0, <2>1, <2>2, <2>3, OneWriter
<1> QED BY <1>1, <1>2

LEMMA RecoverNextInv ==
    ASSUME FileInv, NEW w \in Writers, RecoverNext(w)
    PROVE  FileInv'
<1>0. DiskInv' /\ ~In(w, "idle") /\ In(w, "next")
  BY DEF RecoverNext, FileInv, DiskInv, disk, KeyExists, In
<1>1. ASSUME NEW k \in task[w].todo,
             task' = [task EXCEPT ![w] = [task[w] EXCEPT !.pc = "wipe", !.key = k,
                                                         !.todo = @ \ {k}]],
             UNCHANGED <<lock, running>>
      PROVE  FileInv'
  <2>1. task[w] \in Tasks /\ Knows(w) /\ lock BY <1>0, Working
  <2>2. k \in Keys /\ k \in journal /\ task[w].kind = "recover"
    BY <2>1, <1>0 DEF Tasks, Knows, In
  <2> DEFINE t == [task[w] EXCEPT !.pc = "wipe", !.key = k, !.todo = task[w].todo \ {k}]
  <2>3. t \in Tasks /\ task' = [task EXCEPT ![w] = t]
    BY <1>1, <2>1, <2>2 DEF Tasks, FilePlaces
  <2>4. FileTypeOK'
    BY <1>1, <2>3 DEF RecoverNext, FileInv, FileTypeOK, disk
  <2>5. owner[k] \in Items BY <2>2 DEF FileInv, DiskInv
  <2>6. /\ task'[w].pc = "wipe" /\ task'[w].key = k /\ task'[w].kind = "recover"
        /\ task'[w].todo = task[w].todo \ {k}
    BY <2>1, <2>2, <2>3 DEF FileInv, FileTypeOK, Tasks
  <2>7. Knows(w)'
    BY <1>1, <2>1, <2>2, <2>6, <2>5 DEF RecoverNext, FileInv, FileTypeOK, Knows, Tasks, disk
  <2> QED BY <1>0, <1>1, <2>1, <2>3, <2>4, <2>6, <2>7, OneWriter
<1>2. CASE Return(w) /\ running' = [running EXCEPT ![w] = TRUE]
  <2>1. FileTypeOK'
    BY <1>0, <1>2, IdleTask DEF RecoverNext, Return, FileInv, FileTypeOK, disk
  <2> QED BY <1>0, <1>2, <2>1, Returns
<1> QED BY <1>1, <1>2 DEF RecoverNext

LEMMA WriteFailsInv ==
    ASSUME FileInv, NEW w \in Writers, WriteFails(w)
    PROVE  FileInv'
<1>1. ~In(w, "idle") /\ Return(w) BY DEF WriteFails
<1>2. FileTypeOK' BY <1>1, IdleTask DEF WriteFails, Return, FileInv, FileTypeOK, disk
<1>3. DiskInv' BY DEF WriteFails, FileInv, DiskInv, disk, KeyExists
<1> QED BY <1>1, <1>2, <1>3, Returns

LEMMA KillInv ==
    ASSUME FileInv, NEW w \in Writers, Kill(w)
    PROVE  FileInv'
<1>1. FileTypeOK' BY IdleTask DEF Kill, FileInv, FileTypeOK, disk
<1>2. DiskInv' BY DEF Kill, FileInv, DiskInv, disk, KeyExists
<1>3. \A v \in Writers : task'[v] = task[v] \/ task'[v] = NoTask
  BY DEF Kill, FileInv, FileTypeOK
<1>4. Exclusive' BY <1>3, IdleTask DEF Kill, FileInv, Exclusive, In
<1>5. \A v \in Writers : Knows(v)'
  BY <1>3, IdleTask DEF Kill, FileInv, Knows, disk, KeyExists, FreshOp
<1> QED BY <1>1, <1>2, <1>4, <1>5 DEF FileInv

LEMMA PowerLossInv == ASSUME FileInv, PowerLoss PROVE FileInv'
<1>1. FileTypeOK' BY IdleTask DEF PowerLoss, FileInv, FileTypeOK
<1>2. DiskInv' BY DEF PowerLoss, FileInv, FileTypeOK, DiskInv, KeyExists
<1>3. \A v \in Writers : task'[v] = NoTask BY DEF PowerLoss
<1>4. Exclusive' BY <1>3, IdleTask DEF Exclusive, In
<1>5. \A v \in Writers : Knows(v)' BY <1>3, IdleTask DEF Knows
<1> QED BY <1>1, <1>2, <1>4, <1>5 DEF FileInv

LEMMA OperatorClearsInv == ASSUME FileInv, OperatorClears PROVE FileInv'
<1>1. FileTypeOK' BY DEF OperatorClears, FileInv, FileTypeOK, disk
<1>2. DiskInv' BY DEF OperatorClears, FileInv, DiskInv, disk, KeyExists
<1>3. Exclusive' BY DEF OperatorClears, Exclusive, In
<1>4. \A v \in Writers : Knows(v)'
  BY DEF OperatorClears, FileInv, Knows, disk, KeyExists, FreshOp
<1> QED BY <1>1, <1>2, <1>3, <1>4 DEF FileInv

-----------------------------------------------------------------------------
(* Every reachable state.                                                   *)

LEMMA NextFileInv == FileInv /\ [FileNext]_fileVars => FileInv'
<1> SUFFICES ASSUME FileInv, [FileNext]_fileVars PROVE FileInv' OBVIOUS
<1>1. ASSUME NEW w \in Writers, Starts(w) PROVE FileInv'
  BY <1>1, StartProvisionInv, StartCommitInv, StartDestroyInv DEF Starts
<1>2. ASSUME NEW w \in Writers, Works(w) PROVE FileInv'
  BY <1>2, WriteKeyFileInv, WriteProvisionRecordInv, WriteActiveInv, WriteJournalInv, WipeInv,
     UnlinkInv, WriteTombstoneInv, ClearJournalInv, WriteDestroyRecordInv, BootInv,
     RecoverNextInv DEF Works
<1>3. CASE UNCHANGED fileVars
  <2>1. FileTypeOK' /\ Exclusive' /\ DiskInv'
    BY <1>3 DEF FileInv, FileTypeOK, Exclusive, DiskInv, fileVars, disk, KeyExists, In
  <2>2. \A w \in Writers : Knows(w)'
    BY <1>3 DEF FileInv, Knows, fileVars, disk, KeyExists, FreshOp
  <2> QED BY <2>1, <2>2 DEF FileInv
<1> QED BY <1>1, <1>2, <1>3, WriteFailsInv, KillInv, PowerLossInv, OperatorClearsInv DEF FileNext

\* Types, mutual exclusion, the agreement of the directories and what each
\* operation relies on hold through any crashes and failing writes.
THEOREM FilesConsistent == FileSpec => []FileInv
BY InitFileInv, NextFileInv, PTL DEF FileSpec

\* A tombstone has no key file beside it, a recorded destroy has its tombstone,
\* and an operation id stands for one key: whatever was being written when the
\* destroy began, and wherever a crash or a failing write cut an operation short.
THEOREM DestroyedStaysDestroyed == FileSpec => []DestroyedForGood
<1>1. FileInv => DestroyedForGood BY DEF FileInv, DiskInv, DestroyedForGood
<1> QED BY <1>1, FilesConsistent, PTL

-----------------------------------------------------------------------------
(* The life cycle, step by step.                                            *)

\* What a caller is told of a key, beside its status.
Holder(k) == IF k \in Left THEN owner[k] ELSE NoItem
Opens(k) == KeyExists(k) /\ k \notin zeroed

\* Everything a caller is told of k.
Kept(k) == Status(k)' = Status(k) /\ Holder(k)' = Holder(k) /\ Opens(k)' = Opens(k)
OthersKept(k) == \A j \in Keys \ {k} : Kept(j)

\* A step no caller sees.
LEMMA Unseen ==
    ASSUME \A k \in Keys : Kept(k), shredRecs' = shredRecs
    PROVE  UNCHANGED Lifecycle!lifecycleVars
BY DEF Lifecycle!lifecycleVars, Lifecycle!custodianVars, Kept, Holder, Opens

LEMMA SameFiles ==
    ASSUME UNCHANGED <<keyFile, zeroed, tombs, journal, shredRecs, owner>>
    PROVE  UNCHANGED Lifecycle!lifecycleVars
BY DEF Lifecycle!lifecycleVars, Lifecycle!custodianVars, Status, Left, KeyExists

\* The six steps a caller does see, key by key.
LEMMA Mints ==
    ASSUME NEW k \in Keys, NEW i \in Items, OthersKept(k), shredRecs' = shredRecs,
           Status(k) = "not_found", Holder(k) = NoItem,
           Status(k)' = "provisional", Holder(k)' = i, Opens(k)'
    PROVE  Lifecycle!Mint(i, k)
BY DEF Lifecycle!Mint, Lifecycle!Provision, OthersKept, Kept, Holder, Opens

LEMMA Commits ==
    ASSUME NEW k \in Keys, OthersKept(k), shredRecs' = shredRecs,
           Holder(k)' = Holder(k), Opens(k)' = Opens(k),
           Status(k) = "provisional", Status(k)' = "active"
    PROVE  Lifecycle!Commit(k)
BY DEF Lifecycle!Commit, Lifecycle!CommitProvision, OthersKept, Kept, Holder, Opens

LEMMA Scrubs ==
    ASSUME NEW k \in Keys, OthersKept(k), shredRecs' = shredRecs,
           Holder(k)' = Holder(k), ~Opens(k)',
           Status(k) \in {"provisional", "active"}, Status(k)' = Status(k)
    PROVE  Lifecycle!Scrub(k)
BY DEF Lifecycle!Scrub, Lifecycle!custodianVars, OthersKept, Kept, Holder, Opens

LEMMA Vanishes ==
    ASSUME NEW k \in Keys, OthersKept(k), shredRecs' = shredRecs,
           Holder(k)' = Holder(k), ~Opens(k), ~Opens(k)',
           Status(k) \in {"provisional", "active"}, Status(k)' = "not_found"
    PROVE  Lifecycle!Vanish(k)
BY DEF Lifecycle!Vanish, OthersKept, Kept, Holder, Opens

LEMMA Buries ==
    ASSUME NEW k \in Keys, OthersKept(k), shredRecs' = shredRecs,
           Holder(k)' = Holder(k), Holder(k) # NoItem, Opens(k)' = Opens(k),
           Status(k) = "not_found", Status(k)' = "destroyed"
    PROVE  Lifecycle!Bury(k)
BY DEF Lifecycle!Bury, OthersKept, Kept, Holder, Opens

LEMMA Attests ==
    ASSUME NEW k \in Keys, NEW op \in ShredOps, OthersKept(k), Kept(k), FreshOp(op, k),
           Status(k) = "destroyed", shredRecs' = shredRecs \cup {<<op, k>>}
    PROVE  Lifecycle!Attest(op, k)
BY DEF Lifecycle!Attest, Lifecycle!DestroyKey, Lifecycle!CanDestroy, OthersKept, Kept, Holder,
       Opens, FreshOp

\* A step that leaves every other key's file, tombstone and journal entry alone.
LEMMA OneKey ==
    ASSUME FileTypeOK, NEW k \in Keys, owner' = owner,
           \A j \in Keys \ {k} : /\ keyFile'[j] = keyFile[j] /\ (j \in tombs' <=> j \in tombs)
                                /\ (j \in zeroed' <=> j \in zeroed)
                                /\ (j \in journal' <=> j \in journal)
    PROVE  OthersKept(k)
BY DEF OthersKept, Kept, Status, Holder, Opens, Left, KeyExists

LEMMA InitLifecycle == FileInit => Lifecycle!LifecycleInit
BY DEF FileInit, Lifecycle!LifecycleInit, Lifecycle!CustodianInit, Status, Left, KeyExists

\* Every write of an operation is a step of the life cycle or a stutter: a key is minted
\* when its file appears, wiped, vanished and buried by the three writes of a destroy.
LEMMA WorksKeep ==
    ASSUME FileInv, NEW w \in Writers, Works(w)
    PROVE  Lifecycle!LifecycleNext \/ UNCHANGED Lifecycle!lifecycleVars
<1>k. PICK k : k = task[w].key OBVIOUS
<1>0. FileTypeOK /\ DiskInv BY DEF FileInv
<1>a. ASSUME ~In(w, "idle"), ~In(w, "next") PROVE k \in Keys /\ owner[k] \in Items /\ Knows(w)
  BY <1>k, <1>a, Working
<1>1. CASE WriteKeyFile(w)
  <2>1. In(w, "mint") /\ k \in Keys /\ owner[k] \in Items
        /\ ~KeyExists(k) /\ k \notin tombs \cup journal
    BY <1>k, <1>1, <1>a DEF WriteKeyFile, In, Knows
  <2>i. PICK i \in Items : i = owner[k] BY <2>1
  <2>2. keyFile'[k] = "provisional" /\ k \notin zeroed
    BY <1>k, <1>0, <1>1, <2>1 DEF WriteKeyFile, FileTypeOK, DiskInv
  <2>3. /\ Status(k) = "not_found" /\ Holder(k) = NoItem
        /\ Status(k)' = "provisional" /\ Holder(k)' = i /\ Opens(k)'
    BY <1>1, <2>1, <2>i, <2>2 DEF WriteKeyFile, Status, Holder, Opens, Left, KeyExists
  <2>4. OthersKept(k)
    BY <1>k, <1>0, <1>1, <2>1, OneKey DEF WriteKeyFile, FileTypeOK
  <2>5. Lifecycle!Mint(i, k)
    BY <1>1, <2>1, <2>3, <2>4, Mints DEF WriteKeyFile
  <2> QED BY <2>1, <2>5 DEF Lifecycle!LifecycleNext
<1>2. CASE WriteActive(w)
  <2>1. In(w, "promote") /\ k \in Keys /\ keyFile[k] = "provisional"
        /\ task[w].dead = (k \in zeroed)
    BY <1>k, <1>2, <1>a DEF WriteActive, In, Knows
  <2>2. keyFile'[k] = "active" /\ k \notin tombs
    BY <1>k, <1>0, <1>2, <2>1 DEF WriteActive, FileTypeOK, DiskInv, KeyExists
  <2>3. k \in zeroed' <=> k \in zeroed
    BY <1>k, <1>2, <2>1 DEF WriteActive
  <2>4. /\ Status(k) = "provisional" /\ Status(k)' = "active"
        /\ Holder(k)' = Holder(k) /\ Opens(k)' = Opens(k)
    BY <1>2, <2>1, <2>2, <2>3 DEF WriteActive, Status, Holder, Opens, Left, KeyExists
  <2>5. OthersKept(k)
    BY <1>k, <1>0, <1>2, <2>1, OneKey DEF WriteActive, FileTypeOK
  <2>6. Lifecycle!Commit(k)
    BY <1>2, <2>1, <2>4, <2>5, Commits DEF WriteActive
  <2> QED BY <2>1, <2>6 DEF Lifecycle!LifecycleNext
<1>3. CASE WriteJournal(w)
  <2>1. In(w, "journal") /\ k \in Keys /\ KeyExists(k)
    BY <1>k, <1>3, <1>a DEF WriteJournal, In, Knows
  <2>2. \A j \in Keys : Kept(j)
    BY <1>k, <1>3, <2>1 DEF WriteJournal, Kept, Status, Holder, Opens, Left, KeyExists
  <2> QED BY <1>3, <2>2, Unseen DEF WriteJournal
<1>4. CASE Wipe(w)
  <2>1. In(w, "wipe") /\ k \in Keys
    BY <1>k, <1>4, <1>a DEF Wipe, In
  <2>2. CASE ~KeyExists(k)
    BY <1>k, <1>4, <2>2, SameFiles DEF Wipe
  <2>3. CASE KeyExists(k)
    <3>1. OthersKept(k)
      BY <1>k, <1>0, <1>4, <2>1, <2>3, OneKey DEF Wipe
    <3>2. k \notin tombs /\ keyFile[k] \in {"provisional", "active"} /\ k \in zeroed'
      BY <1>k, <1>0, <1>4, <2>1, <2>3 DEF Wipe, FileTypeOK, DiskInv, KeyExists
    <3>3. /\ Status(k) \in {"provisional", "active"} /\ Status(k)' = Status(k)
          /\ Holder(k)' = Holder(k) /\ ~Opens(k)'
      BY <1>4, <2>3, <3>2 DEF Wipe, Status, Holder, Opens, Left, KeyExists
    <3>4. Lifecycle!Scrub(k) BY <1>4, <2>1, <3>1, <3>3, Scrubs DEF Wipe
    <3> QED BY <2>1, <3>4 DEF Lifecycle!LifecycleNext
  <2> QED BY <2>2, <2>3
<1>5. CASE Unlink(w)
  <2>1. In(w, "unlink") /\ k \in Keys /\ k \in zeroed /\ k \in journal
    BY <1>k, <1>5, <1>a DEF Unlink, In, Knows
  <2>2. /\ KeyExists(k) /\ keyFile[k] \in {"provisional", "active"} /\ k \notin tombs
        /\ keyFile'[k] = "none"
    BY <1>k, <1>0, <1>5, <2>1 DEF Unlink, FileTypeOK, DiskInv, KeyExists
  <2>3. /\ Status(k) \in {"provisional", "active"} /\ Status(k)' = "not_found"
        /\ Holder(k)' = Holder(k) /\ ~Opens(k) /\ ~Opens(k)'
    BY <1>5, <2>1, <2>2 DEF Unlink, Status, Holder, Opens, Left, KeyExists
  <2>4. OthersKept(k)
    BY <1>k, <1>0, <1>5, <2>1, OneKey DEF Unlink, FileTypeOK
  <2>5. Lifecycle!Vanish(k) BY <1>5, <2>1, <2>3, <2>4, Vanishes DEF Unlink
  <2> QED BY <2>1, <2>5 DEF Lifecycle!LifecycleNext
<1>6. CASE WriteTombstone(w)
  <2>1. In(w, "tomb") /\ k \in Keys /\ k \in journal /\ ~KeyExists(k) /\ owner[k] \in Items
    BY <1>k, <1>6, <1>a DEF WriteTombstone, In, Knows
  <2>2. OthersKept(k)
    BY <1>k, <1>0, <1>6, <2>1, OneKey DEF WriteTombstone
  <2>3. /\ Status(k)' = "destroyed" /\ Holder(k)' = Holder(k) /\ Opens(k)' = Opens(k)
        /\ Holder(k) = owner[k] /\ owner[k] # NoItem
    BY <1>k, <1>6, <2>1, NoItemAssumption
       DEF WriteTombstone, Status, Holder, Opens, Left, KeyExists
  <2>4. CASE k \in tombs
    <3>1. Status(k) = "destroyed" BY <2>4 DEF Status
    <3>2. \A j \in Keys : Kept(j) BY <2>2, <2>3, <3>1 DEF OthersKept, Kept
    <3> QED BY <1>6, <3>2, Unseen DEF WriteTombstone
  <2>5. CASE k \notin tombs
    <3>1. Status(k) = "not_found" BY <2>1, <2>5 DEF Status
    <3>2. Lifecycle!Bury(k) BY <1>6, <2>1, <2>2, <2>3, <3>1, Buries DEF WriteTombstone
    <3> QED BY <2>1, <3>2 DEF Lifecycle!LifecycleNext
  <2> QED BY <2>4, <2>5
<1>7. CASE ClearJournal(w)
  <2>1. In(w, "clear") /\ k \in Keys /\ k \in tombs
    BY <1>k, <1>7, <1>a DEF ClearJournal, In, Knows
  <2>2. \A j \in Keys : Kept(j)
    BY <1>k, <1>7, <2>1 DEF ClearJournal, Kept, Status, Holder, Opens, Left, KeyExists
  <2> QED BY <1>7, <2>2, Unseen DEF ClearJournal
<1>8. CASE WriteDestroyRecord(w)
  <2>1. /\ In(w, "op") /\ k \in Keys /\ k \in tombs
        /\ task[w].op \in ShredOps /\ FreshOp(task[w].op, k)
    BY <1>k, <1>8, <1>a DEF WriteDestroyRecord, In, Knows
  <2>2. \A j \in Keys : Kept(j)
    BY <1>8 DEF WriteDestroyRecord, Kept, Status, Holder, Opens, Left, KeyExists
  <2>3. Status(k) = "destroyed" /\ OthersKept(k) /\ Kept(k)
    BY <2>1, <2>2 DEF Status, OthersKept
  <2>4. Lifecycle!Attest(task[w].op, k)
    BY <1>k, <1>8, <2>1, <2>3, Attests DEF WriteDestroyRecord
  <2> QED BY <2>1, <2>4 DEF Lifecycle!LifecycleNext
<1>9. CASE WriteProvisionRecord(w) \/ Boot(w) \/ RecoverNext(w)
  BY <1>9, SameFiles DEF WriteProvisionRecord, Boot, RecoverNext, disk
<1> QED BY <1>1, <1>2, <1>3, <1>4, <1>5, <1>6, <1>7, <1>8, <1>9 DEF Works

LEMMA NextKeepsLifecycle ==
    ASSUME FileInv, [FileNext]_fileVars
    PROVE  [Lifecycle!LifecycleNext]_(Lifecycle!lifecycleVars)
<1>1. ASSUME NEW w \in Writers, NEW i \in Items, NEW k \in Keys, StartProvision(w, i, k)
      PROVE  UNCHANGED Lifecycle!lifecycleVars
  <2>1. k \notin Left
    BY <1>1, NoItemAssumption DEF StartProvision, FileInv, DiskInv, Left
  <2>2. \A j \in Keys : Kept(j)
    BY <1>1, <2>1 DEF StartProvision, Take, disk, FileInv, FileTypeOK, Kept, Status, Holder,
       Opens, Left, KeyExists
  <2> QED BY <1>1, <2>2, Unseen DEF StartProvision, Take, disk
<1>2. ASSUME NEW w \in Writers, NEW op \in ShredOps, NEW k \in Keys, StartDestroy(w, op, k)
      PROVE  UNCHANGED Lifecycle!lifecycleVars
  BY <1>2, SameFiles DEF StartDestroy, Take, disk
<1>3. ASSUME NEW w \in Writers, WriteFails(w) \/ Kill(w)
      PROVE  UNCHANGED Lifecycle!lifecycleVars
  BY <1>3, SameFiles DEF WriteFails, Kill, disk
<1>4. CASE OperatorClears \/ UNCHANGED fileVars
  BY <1>4, SameFiles DEF OperatorClears, fileVars, disk
<1>5. CASE PowerLoss
  <2>1. \A j \in Keys : Kept(j)
    BY <1>5 DEF PowerLoss, Kept, Status, Holder, Opens, Left, KeyExists
  <2> QED BY <1>5, <2>1, Unseen DEF PowerLoss
<1>6. ASSUME NEW w \in Writers, NEW k \in Keys, StartCommit(w, k)
      PROVE  UNCHANGED Lifecycle!lifecycleVars
  BY <1>6, SameFiles DEF StartCommit, Take, disk
<1> QED BY <1>1, <1>2, <1>3, <1>4, <1>5, <1>6, WorksKeep DEF FileNext, Starts

\* Whatever crashes, fails or is interrupted, and wherever a destroy stops for good, a
\* caller sees a key go through its life cycle in one direction: every write is one of its
\* steps or changes nothing a caller is told.
THEOREM FilesKeepLifecycle == FileSpec => KeepsLifecycle
BY InitLifecycle, NextKeepsLifecycle, FilesConsistent, PTL
   DEF FileSpec, KeepsLifecycle, Lifecycle!LifecycleSpec
=============================================================================
