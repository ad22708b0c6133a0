--------------------------- MODULE KekRotationProofs ---------------------------
(***************************************************************************)
(* Proofs about the rotation of the key-encryption key, for any key files, *)
(* generations, backup sets and deaths: wherever a wrapped key is, the     *)
(* ring beside it opens it, and the ring moves to a generation only when   *)
(* every key is under it.                                                  *)
(***************************************************************************)
EXTENDS KekRotation, TLAPS

-----------------------------------------------------------------------------
(* Types.                                                                   *)

Rings == [generations : SUBSET (Nat \ {0}), active : Nat \ {0}, pending : Nat]
Sets == [active : Nat, ring : SUBSET Nat, under : SUBSET Nat]
Places == Stages \cup {"idle", "begun", "rewrapping", "moved", "proved", "active", "ends"}

Sidecars == [up : BOOLEAN, wraps : Nat, opens : SUBSET Nat]
Rotations == [at : Places, set : Nat, from : Nat, to : Nat, quiet : BOOLEAN]
Backups == [at : {"idle", "stopped", "listed"}, left : {StateEntries, <<"ring">>, <<>>},
            todo : SUBSET KeyFiles, under : SUBSET Nat, ring : SUBSET Nat, active : Nat]

RotationTypeOK ==
    /\ ring \in Rings
    /\ kekJournal \in [set : Nat, from : Nat, to : Nat, stage : Stages \cup {"none"}]
    /\ wrappedBy \in [KeyFiles -> Nat]
    /\ locks \subseteq {"rotation", "writer"}
    /\ sidecar \in Sidecars
    /\ sets \in Seq(Sets)
    /\ rotation \in Rotations
    /\ backup \in Backups
    /\ overlapped \in BOOLEAN
    /\ deaths \in Nat

-----------------------------------------------------------------------------
(* The inductive invariant.                                                 *)

\* The pending generation is the newest, or else the active one.
Newest == IF ring.pending # 0 THEN ring.pending ELSE ring.active

RingInv ==
    /\ ring.active \in ring.generations
    /\ ring.pending # 0 => ring.pending \in ring.generations /\ ring.active < ring.pending
    /\ \A g \in ring.generations : g <= Newest

\* What a rotation knows of the ring, which nobody else writes while it runs; past its
\* first stage it has stopped the sidecar.
RotationInv ==
    /\ rotation.at = "idle" => rotation = NoRotation
    /\ rotation.at \in {"not-started", "claimed"} => ring.pending = 0
    /\ rotation.at \in {"begun", "pending-created", "rewrapping", "moved"} =>
          ring.pending = rotation.to /\ rotation.to # 0
    /\ rotation.at \in {"rewrapped", "proved", "verified"} =>
          ring.pending \in {rotation.to, 0}
    /\ rotation.at \in {"begun", "rewrapping", "moved", "proved", "verified", "active"} =>
          rotation.quiet

BackupInv ==
    /\ backup.at = "idle" => backup = NoBackup
    /\ backup.at = "stopped" =>
          backup.left = StateEntries /\ backup.under = {} /\ backup.todo = {}
    /\ backup.at = "listed" /\ backup.left # StateEntries => backup.todo = {}
    /\ backup.active <= ring.active
    /\ \A s \in DOMAIN sets : sets[s].active <= ring.active

\* A sidecar that a rotation has stopped is started in the middle of it only by the
\* backup that ran beside it; one that was started inside a backup is up to date.
SidecarInv ==
    /\ rotation # NoRotation /\ backup # NoBackup => overlapped
    /\ rotation.quiet /\ (backup # NoBackup \/ ~overlapped) => ~sidecar.up
    /\ sidecar.up => sidecar.wraps \in ring.generations
    /\ sidecar.up /\ backup # NoBackup => sidecar.wraps = ring.active
    /\ sidecar.up /\ ~overlapped => ring.generations \subseteq sidecar.opens

\* Between the listing of the keys and the copy of the ring.
Copying == backup.at = "listed" /\ backup.left # <<>>

Accounted(k) == k \in backup.todo \/ wrappedBy[k] \in backup.under

Recent == {ring.active, ring.pending}

\* A key under an older generation is one that the copy has met or will meet; so is
\* every key that the verification of the running rotation did not see under the new one.
CopyInv ==
    /\ Copying =>
          /\ backup.under \subseteq ring.generations
          /\ \A k \in Live : wrappedBy[k] \in Recent \/ Accounted(k)
          /\ rotation.at \in {"proved", "verified"} =>
                \A k \in Live : wrappedBy[k] = rotation.to \/ Accounted(k)
    /\ backup.left = <<>> => backup.under \subseteq backup.ring
    /\ \A s \in DOMAIN sets : sets[s].under \subseteq sets[s].ring

\* A set, or a copy that may become one, that proves the active generation.
Proves(c) == c.under \subseteq {c.active} /\ c.active = ring.active

Vouched ==
    \/ \E s \in DOMAIN sets : Proves(sets[s])
    \/ backup.at = "listed" /\ backup.left = <<>> /\ Proves(backup)

\* Where there is one, no key is under a generation that may be retired, nor will be.
VouchInv ==
    Vouched => /\ \A k \in Live : wrappedBy[k] \in Recent
               /\ sidecar.up => sidecar.wraps = ring.active
               /\ Copying => backup.under \subseteq Recent

KeysInv ==
    /\ \A k \in Live : wrappedBy[k] \in ring.generations
    /\ rotation.at \in {"proved", "verified"} /\ ~overlapped => AllUnder(rotation.to)

KekInv ==
    /\ RotationTypeOK /\ RingInv /\ RotationInv /\ BackupInv /\ SidecarInv
    /\ CopyInv /\ VouchInv /\ KeysInv

-----------------------------------------------------------------------------
(* Every action keeps it.  A step names first what the action changes.      *)

LEMMA Idle ==
    ASSUME KekInv
    PROVE  /\ (rotation = NoRotation) <=> (rotation.at = "idle")
           /\ (backup = NoBackup) <=> (backup.at = "idle")
BY DEF KekInv, RotationInv, BackupInv, NoRotation, NoBackup

LEMMA KeyWritten ==
    ASSUME KekInv, NEW k \in KeyFiles, Provision(k) \/ Destroy(k)
    PROVE  KekInv'
<1>1. PICK g \in {0, sidecar.wraps} : sidecar.up /\ wrappedBy' = [wrappedBy EXCEPT ![k] = g]
  BY DEF Provision, Destroy
<1>2. UNCHANGED <<ring, kekJournal, locks, sidecar, sets, rotation, backup, overlapped, deaths>>
  BY DEF Provision, Destroy
<1>3. RotationTypeOK' BY <1>1, <1>2 DEF KekInv, RotationTypeOK, Sidecars
<1>4. RingInv' /\ RotationInv' /\ BackupInv' /\ SidecarInv'
  BY <1>2 DEF KekInv, RingInv, Newest, RotationInv, BackupInv, SidecarInv
<1>5. ASSUME NEW x \in Live', ~(x \in Live /\ wrappedBy'[x] = wrappedBy[x])
      PROVE  x = k /\ wrappedBy'[x] = sidecar.wraps
  BY <1>1, <1>5 DEF KekInv, RotationTypeOK, Live
<1>6. CopyInv'
  BY <1>1, <1>2, <1>5 DEF KekInv, CopyInv, Copying, Accounted, Recent, SidecarInv, RotationInv,
     NoRotation, NoBackup
<1>7. VouchInv'
  BY <1>1, <1>2, <1>5 DEF KekInv, VouchInv, Vouched, Proves, Recent, Copying
<1>8. KeysInv'
  BY <1>1, <1>2, <1>5 DEF KekInv, KeysInv, AllUnder, Under, Live, SidecarInv, RotationInv
<1> QED BY <1>3, <1>4, <1>6, <1>7, <1>8 DEF KekInv

\* A sidecar is started, or restarted, while no rotation that has stopped it runs.
LEMMA SidecarStarted ==
    ASSUME KekInv, sidecar' \in {sidecar, Started, Loaded},
           sidecar' = sidecar \/ sidecar.up \/ ~rotation.quiet, locks' \subseteq locks,
           UNCHANGED <<ring, kekJournal, wrappedBy, sets, rotation, backup, overlapped, deaths>>
    PROVE  KekInv'
<1>1. sidecar' = sidecar \/ (sidecar' = Loaded /\ (sidecar.up \/ ~rotation.quiet))
  BY DEF Started
<1>2. RotationTypeOK'
  <2>1. Loaded \in Sidecars BY DEF KekInv, RotationTypeOK, Rings, Loaded, Sidecars
  <2> QED BY <1>1, <2>1 DEF KekInv, RotationTypeOK
<1>3. RingInv' /\ RotationInv' /\ BackupInv' /\ CopyInv'
  BY DEF KekInv, RingInv, Newest, RotationInv, BackupInv, CopyInv, Copying, Live, Accounted, Recent
<1>4. SidecarInv'
  BY <1>1 DEF KekInv, RotationTypeOK, Rings, RingInv, SidecarInv, Loaded
<1>5. VouchInv'
  BY <1>1 DEF KekInv, VouchInv, Vouched, Proves, Recent, Copying, Loaded, Live
<1>6. KeysInv'
  BY DEF KekInv, KeysInv, AllUnder, Under, Live
<1> QED BY <1>2, <1>3, <1>4, <1>5, <1>6 DEF KekInv

LEMMA RotationBegun ==
    ASSUME KekInv, NEW s \in DOMAIN sets, BeginRotation(s)
    PROVE  KekInv'
<1>1. /\ rotation = NoRotation /\ ~rotation'.quiet
      /\ rotation'.at = IF kekJournal = NoJournal THEN "not-started" ELSE ReconciledStage
      /\ kekJournal = NoJournal => ring.pending = 0
      /\ kekJournal # NoJournal =>
            rotation'.to = kekJournal.to /\ rotation'.from = kekJournal.from /\ JournalAgrees
  BY DEF BeginRotation
<1>2. UNCHANGED <<ring, kekJournal, wrappedBy, sidecar, sets, backup, deaths>>
      /\ locks' \subseteq locks \cup {"rotation"}
      /\ overlapped' = (overlapped \/ backup # NoBackup)
  BY DEF BeginRotation
<1>3. RotationTypeOK'
  BY <1>2 DEF KekInv, RotationTypeOK, BeginRotation, Rings, Rotations, Places, Stages,
     ReconciledStage
<1>4. RingInv' /\ BackupInv'
  BY <1>2 DEF KekInv, RingInv, Newest, BackupInv
<1>5. RotationInv'
  <2>1. CASE kekJournal = NoJournal BY <1>1, <1>2, <2>1 DEF RotationInv
  <2>2. CASE kekJournal # NoJournal
    BY <1>1, <1>2, <2>2 DEF RotationInv, ReconciledStage, JournalAgrees, KekInv, RotationTypeOK,
       Rings, RingInv
  <2> QED BY <2>1, <2>2
<1>6. SidecarInv'
  BY <1>1, <1>2 DEF KekInv, SidecarInv
<1>7. rotation'.at \notin {"proved", "verified"}
  BY <1>1 DEF ReconciledStage
<1>8. CopyInv' /\ VouchInv' /\ KeysInv'
  BY <1>2, <1>7 DEF KekInv, CopyInv, Copying, Accounted, Recent, Live, VouchInv, Vouched, Proves,
     KeysInv
<1> QED BY <1>3, <1>4, <1>5, <1>6, <1>8 DEF KekInv

\* The stages that write neither the ring nor a key.
StageEnds(at, to) ==
    \/ <<at, to>> \in {<<"not-started", "claimed">>, <<"begun", "pending-created">>,
                       <<"moved", "rewrapped">>, <<"proved", "verified">>,
                       <<"active", "activated">>, <<"pending-created", "rewrapping">>}
    \/ <<at, to>> \in {<<"rewrapping", "moved">>, <<"rewrapped", "proved">>}
          /\ AllUnder(rotation.to)
    \/ to = "ends"

LEMMA StageEnded ==
    ASSUME KekInv,
           WriteKekJournal \/ StartRewrap \/ EndRewrap \/ Verify \/ ClearKekJournal
              \/ (Activate /\ ring.pending = 0)
    PROVE  KekInv'
<1>1. PICK to \in Places :
         /\ rotation' = [rotation EXCEPT !.at = to]
         /\ StageEnds(rotation.at, to) /\ rotation.at # "idle"
         /\ rotation.at \in Stages => rotation.quiet
  BY DEF WriteKekJournal, StartRewrap, EndRewrap, Verify, ClearKekJournal, Activate, AtWork, Goes,
     StageAfter, StageEnds, Places, Stages
<1>2. /\ rotation'.at = to /\ rotation'.from = rotation.from /\ rotation'.to = rotation.to
      /\ rotation'.quiet = rotation.quiet /\ rotation' \in Rotations
  BY <1>1 DEF KekInv, RotationTypeOK, Rotations
<1>3. UNCHANGED <<ring, wrappedBy, sidecar, sets, backup, overlapped, deaths>>
  BY DEF WriteKekJournal, StartRewrap, EndRewrap, Verify, ClearKekJournal, Activate
<1>4. locks' \subseteq {"rotation", "writer"}
  BY DEF WriteKekJournal, StartRewrap, EndRewrap, Verify, ClearKekJournal, Activate, KekInv,
     RotationTypeOK
<1>5. kekJournal' \in [set : Nat, from : Nat, to : Nat, stage : Stages \cup {"none"}]
  <2>1. ASSUME WriteKekJournal PROVE kekJournal' \in [set : Nat, from : Nat, to : Nat, stage : Stages]
    <3>1. PICK stage \in Stages :
             kekJournal' = [set |-> rotation.set, from |-> rotation.from, to |-> rotation.to,
                            stage |-> stage]
      BY <2>1 DEF WriteKekJournal, StageAfter, Stages
    <3>2. rotation.set \in Nat /\ rotation.from \in Nat /\ rotation.to \in Nat
      BY DEF KekInv, RotationTypeOK, Rotations
    <3> QED BY <3>1, <3>2
  <2>2. CASE ~WriteKekJournal
    BY <2>2 DEF StartRewrap, EndRewrap, Verify, ClearKekJournal, Activate, KekInv,
       RotationTypeOK, NoJournal
  <2> QED BY <2>1, <2>2
<1>6. RotationTypeOK'
  BY <1>2, <1>3, <1>4, <1>5 DEF KekInv, RotationTypeOK
<1>7. RingInv' /\ BackupInv'
  BY <1>3 DEF KekInv, RingInv, Newest, BackupInv
<1>8. RotationInv'
  BY <1>1, <1>2, <1>3 DEF KekInv, RotationInv, StageEnds, Stages
<1>9. SidecarInv'
  BY <1>1, <1>2, <1>3, Idle DEF KekInv, SidecarInv, NoRotation
<1>10. rotation'.at \in {"proved", "verified"} =>
          rotation.at \in {"proved", "verified"} \/ AllUnder(rotation.to)
  BY <1>1, <1>2 DEF StageEnds
<1>11. CopyInv' /\ VouchInv' /\ KeysInv'
  BY <1>2, <1>3, <1>10 DEF KekInv, CopyInv, Copying, Accounted, Recent, Live, VouchInv, Vouched,
     Proves, KeysInv, AllUnder, Under
<1> QED BY <1>6, <1>7, <1>8, <1>9, <1>11 DEF KekInv

LEMMA Quiesced == ASSUME KekInv, Quiesce PROVE KekInv'
<1>1. PICK r \in {[rotation EXCEPT !.quiet = TRUE], [rotation EXCEPT !.at = "ends"]} :
         rotation' = r /\ sidecar' \in {sidecar, Down} /\ (r.quiet => sidecar' = Down)
  BY DEF Quiesce, Goes, KekInv, RotationTypeOK, Rotations
<1>2. /\ rotation'.at \in {rotation.at, "ends"} /\ rotation.at \in Stages /\ ~rotation.quiet
      /\ rotation'.from = rotation.from /\ rotation'.to = rotation.to /\ rotation' \in Rotations
      /\ rotation'.quiet => sidecar' = Down
  BY <1>1 DEF Quiesce, KekInv, RotationTypeOK, Rotations, Places
<1>3. UNCHANGED <<ring, kekJournal, wrappedBy, locks, sets, backup, overlapped, deaths>>
  BY DEF Quiesce
<1>4. RotationTypeOK'
  <2>1. Down \in Sidecars BY DEF Down, Sidecars
  <2> QED BY <1>1, <1>2, <1>3, <2>1 DEF KekInv, RotationTypeOK
<1>5. RingInv' /\ BackupInv'
  BY <1>3 DEF KekInv, RingInv, Newest, BackupInv
<1>6. RotationInv'
  BY <1>2, <1>3 DEF KekInv, RotationInv, Stages
<1>7. SidecarInv'
  BY <1>1, <1>2, <1>3, Idle DEF KekInv, SidecarInv, Down, NoRotation, Stages
<1>8. CopyInv' /\ VouchInv' /\ KeysInv'
  BY <1>1, <1>2, <1>3 DEF KekInv, CopyInv, Copying, Accounted, Recent, Live, VouchInv, Vouched,
     Proves, KeysInv, AllUnder, Under, Down
<1> QED BY <1>4, <1>5, <1>6, <1>7, <1>8 DEF KekInv

\* The new generation is the newest.
LEMMA PendingBegun == ASSUME KekInv, BeginPending PROVE KekInv'
<1>1. ring.pending = 0 /\ rotation.at = "claimed" /\ rotation.quiet
  BY DEF KekInv, RotationInv, BeginPending, AtWork, Stages
<1>2. Max(ring.generations) = ring.active
  BY <1>1 DEF KekInv, RotationTypeOK, Rings, RingInv, Newest, Max
<1> DEFINE new == ring.active + 1
<1>3. /\ ring' = [ring EXCEPT !.generations = ring.generations \union {new}, !.pending = new]
      /\ rotation' = [rotation EXCEPT !.at = "begun", !.to = new]
      /\ UNCHANGED <<kekJournal, wrappedBy, locks, sidecar, sets, backup, overlapped, deaths>>
  BY <1>1, <1>2 DEF BeginPending
<1>4. new \in Nat \ {0} /\ new > ring.active /\ \A g \in ring.generations : g <= new
  BY <1>1 DEF KekInv, RotationTypeOK, Rings, RingInv, Newest
<1> HIDE DEF new
<1>5. /\ ring'.generations = ring.generations \cup {new} /\ ring'.pending = new
      /\ ring'.active = ring.active /\ ring' \in Rings
  BY <1>3, <1>4 DEF KekInv, RotationTypeOK, Rings
<1>6. /\ rotation'.at = "begun" /\ rotation'.to = new /\ rotation'.from = rotation.from
      /\ rotation'.quiet /\ rotation' \in Rotations
  BY <1>1, <1>3, <1>4 DEF KekInv, RotationTypeOK, Rotations, Places
<1>7. RotationTypeOK' BY <1>3, <1>5, <1>6 DEF KekInv, RotationTypeOK
<1>8. RingInv' BY <1>4, <1>5 DEF KekInv, RingInv, Newest
<1>9. RotationInv' BY <1>4, <1>5, <1>6 DEF KekInv, RotationInv
<1>10. BackupInv' /\ SidecarInv' /\ CopyInv'
  BY <1>1, <1>3, <1>5, <1>6, Idle DEF KekInv, BackupInv, SidecarInv, CopyInv, Copying, Accounted,
     Recent, Live, NoRotation
<1>11. VouchInv'
  <2>1. ASSUME NEW g \in Recent, g # 0 PROVE g \in Recent'
    BY <1>1, <1>5, <2>1 DEF Recent
  <2>2. Copying => 0 \notin backup.under
    BY DEF KekInv, RotationTypeOK, Rings, CopyInv
  <2> QED BY <1>3, <1>5, <2>1, <2>2 DEF KekInv, VouchInv, Vouched, Proves, Copying, Live
<1>12. KeysInv'
  BY <1>3, <1>5, <1>6 DEF KekInv, KeysInv, Live
<1> QED BY <1>7, <1>8, <1>9, <1>10, <1>11, <1>12 DEF KekInv

LEMMA KeyRewrapped == ASSUME KekInv, NEW k \in KeyFiles, RewrapKey(k) PROVE KekInv'
<1>1. /\ rotation.at = "rewrapping" /\ ring.pending = rotation.to /\ rotation.to # 0
      /\ wrappedBy' = [wrappedBy EXCEPT ![k] = rotation.to]
  BY DEF RewrapKey, AtWork, KekInv, RotationInv
<1>2. UNCHANGED <<ring, kekJournal, locks, sidecar, sets, rotation, backup, overlapped, deaths>>
  BY DEF RewrapKey
<1>3. RotationTypeOK' BY <1>1, <1>2 DEF KekInv, RotationTypeOK, Rotations
<1>4. RingInv' /\ RotationInv' /\ BackupInv' /\ SidecarInv'
  BY <1>2 DEF KekInv, RingInv, Newest, RotationInv, BackupInv, SidecarInv
<1>5. ASSUME NEW x \in Live', ~(x \in Live /\ wrappedBy'[x] = wrappedBy[x])
      PROVE  x = k /\ wrappedBy'[x] = ring.pending
  BY <1>1, <1>5 DEF KekInv, RotationTypeOK, Live
<1>6. CopyInv' /\ VouchInv' /\ KeysInv'
  BY <1>1, <1>2, <1>5 DEF KekInv, CopyInv, Copying, Accounted, Recent, VouchInv, Vouched, Proves,
     KeysInv, RingInv
<1> QED BY <1>3, <1>4, <1>6 DEF KekInv

\* No set proves the new active generation yet; the keys that are not under it are
\* those that a copy still has to account for.
LEMMA Activated == ASSUME KekInv, Activate, ring.pending # 0 PROVE KekInv'
<1>1. /\ rotation.at = "verified" /\ rotation.quiet /\ ring.pending = rotation.to
      /\ ring.active < ring.pending /\ ring.pending \in ring.generations
      /\ ring.active \in Nat /\ ring.pending \in Nat
  BY DEF KekInv, RotationInv, RingInv, RotationTypeOK, Rings, Activate, AtWork
<1>2. /\ ring' = [ring EXCEPT !.active = ring.pending, !.pending = 0]
      /\ rotation' = [rotation EXCEPT !.at = "active"]
      /\ UNCHANGED <<kekJournal, wrappedBy, locks, sidecar, sets, backup, overlapped, deaths>>
  BY DEF Activate, Goes
<1>3. /\ ring'.generations = ring.generations /\ ring'.active = ring.pending /\ ring'.pending = 0
      /\ ring' \in Rings
  <2>1. /\ ring'.generations = ring.generations /\ ring'.active = ring.pending
        /\ ring'.pending = 0
        /\ ring' = [generations |-> ring'.generations, active |-> ring'.active,
                    pending |-> ring'.pending]
    BY <1>2 DEF KekInv, RotationTypeOK, Rings
  <2>2. ring.generations \in SUBSET (Nat \ {0}) /\ ring.pending \in Nat \ {0}
    BY DEF KekInv, RotationTypeOK, Rings
  <2> QED BY <2>1, <2>2 DEF Rings
<1>4. /\ rotation'.at = "active" /\ rotation'.to = rotation.to /\ rotation'.quiet
      /\ rotation' \in Rotations
  BY <1>1, <1>2 DEF KekInv, RotationTypeOK, Rotations, Places
<1>5. RotationTypeOK' BY <1>2, <1>3, <1>4 DEF KekInv, RotationTypeOK
<1>6. RingInv' BY <1>1, <1>3 DEF KekInv, RingInv, Newest
<1>7. RotationInv' BY <1>4 DEF RotationInv
<1>8. BackupInv' /\ ~Vouched'
  <2>1. backup.active \in Nat /\ \A s \in DOMAIN sets : sets[s].active \in Nat
    <3>1. \A s \in DOMAIN sets : sets[s] \in Sets BY DEF KekInv, RotationTypeOK
    <3> QED BY <3>1 DEF KekInv, RotationTypeOK, Backups, Sets
  <2>2. backup.active <= ring.active /\ \A s \in DOMAIN sets : sets[s].active <= ring.active
    BY DEF KekInv, BackupInv
  <2>3. backup.active < ring'.active /\ \A s \in DOMAIN sets : sets[s].active < ring'.active
    BY <1>1, <1>3, <2>1, <2>2
  <2>4. ring'.active \in Nat BY <1>1, <1>3
  <2> QED BY <1>2, <2>1, <2>3, <2>4 DEF KekInv, BackupInv, Vouched, Proves
<1>9. SidecarInv'
  BY <1>1, <1>2, <1>3, <1>4, Idle DEF KekInv, SidecarInv, NoRotation
<1>10. CopyInv'
  BY <1>1, <1>2, <1>3, <1>4 DEF KekInv, CopyInv, Copying, Accounted, Recent, Live
<1>11. VouchInv' /\ KeysInv'
  BY <1>2, <1>3, <1>4, <1>8 DEF KekInv, VouchInv, KeysInv, Live
<1> QED BY <1>5, <1>6, <1>7, <1>8, <1>9, <1>10, <1>11 DEF KekInv

LEMMA RotationOver == ASSUME KekInv, EndRotation \/ RotationDies PROVE KekInv'
<1>1. /\ rotation' = NoRotation /\ sidecar' \in {sidecar, Started} /\ rotation # NoRotation
      /\ UNCHANGED <<ring, kekJournal, wrappedBy, sets, backup, overlapped>>
      /\ locks' \subseteq locks /\ deaths' \in {deaths, deaths + 1}
  BY DEF EndRotation, RotationDies, NoRotation
<1>2. /\ rotation'.at = "idle" /\ ~rotation'.quiet /\ rotation' \in Rotations
  BY <1>1 DEF NoRotation, Rotations, Places
<1>3. sidecar' = sidecar \/ sidecar' = Loaded
  BY <1>1 DEF Started
<1>4. RotationTypeOK'
  <2>1. Loaded \in Sidecars BY DEF KekInv, RotationTypeOK, Rings, Loaded, Sidecars
  <2> QED BY <1>1, <1>2, <1>3, <2>1 DEF KekInv, RotationTypeOK
<1>5. RingInv' /\ BackupInv' /\ RotationInv'
  BY <1>1, <1>2 DEF KekInv, RingInv, Newest, BackupInv, RotationInv
<1>6. SidecarInv'
  BY <1>1, <1>2, <1>3 DEF KekInv, RotationTypeOK, Rings, RingInv, SidecarInv, Loaded
<1>7. CopyInv' /\ KeysInv'
  BY <1>1, <1>2 DEF KekInv, CopyInv, Copying, Accounted, Recent, Live, KeysInv
<1>8. VouchInv'
  BY <1>1, <1>3 DEF KekInv, VouchInv, Vouched, Proves, Recent, Copying, Live, Loaded
<1> QED BY <1>4, <1>5, <1>6, <1>7, <1>8 DEF KekInv

\* What is retired is neither active nor pending, and a set vouches for the active one.
LEMMA Retired ==
    ASSUME KekInv, NEW s \in DOMAIN sets, NEW g \in ring.generations, Retire(s, g)
    PROVE  KekInv'
<1>1. /\ rotation = NoRotation /\ g \notin Recent /\ Vouched
      /\ ring' = [ring EXCEPT !.generations = ring.generations \ {g}]
      /\ UNCHANGED <<kekJournal, wrappedBy, locks, sidecar, sets, rotation, backup, overlapped,
                     deaths>>
  BY DEF Retire, SetProves, Vouched, Proves, Recent
<1>2. /\ ring'.generations = ring.generations \ {g} /\ ring'.active = ring.active
      /\ ring'.pending = ring.pending /\ ring' \in Rings
  BY <1>1 DEF KekInv, RotationTypeOK, Rings
<1>3. RotationTypeOK' BY <1>1, <1>2 DEF KekInv, RotationTypeOK
<1>4. RingInv' /\ RotationInv' /\ BackupInv'
  BY <1>1, <1>2 DEF KekInv, RingInv, Newest, RotationInv, BackupInv, NoRotation, Recent
<1>5. SidecarInv'
  BY <1>1, <1>2 DEF KekInv, SidecarInv, VouchInv, RingInv, Recent
<1>6. CopyInv' /\ VouchInv' /\ KeysInv'
  BY <1>1, <1>2 DEF KekInv, CopyInv, Copying, Accounted, Recent, VouchInv, Vouched, Proves, Live,
     KeysInv, NoRotation
<1> QED BY <1>3, <1>4, <1>5, <1>6 DEF KekInv

-----------------------------------------------------------------------------
(* The backup.                                                              *)

\* A backup touches nothing of the installation but its sidecar.
BesideBackup == <<ring, kekJournal, wrappedBy, locks, rotation>>

LEMMA CopyOrder ==
    /\ Head(StateEntries) = "keys" /\ Tail(StateEntries) = <<"ring">>
    /\ Head(<<"ring">>) = "ring" /\ Tail(<<"ring">>) = <<>>
    /\ StateEntries # <<>> /\ <<"ring">> # <<>> /\ <<"ring">> # StateEntries
BY DEF StateEntries

LEMMA CopyPlace ==
    ASSUME KekInv
    PROVE  /\ Copies("keys") => backup.left = StateEntries
           /\ Copies("ring") => backup.left = <<"ring">> /\ backup.at = "listed"
BY CopyOrder DEF Copies, KekInv, RotationTypeOK, Backups, BackupInv

LEMMA BackupStarted == ASSUME KekInv, StartBackup PROVE KekInv'
<1>1. /\ backup' = [NoBackup EXCEPT !.at = "stopped", !.left = StateEntries]
      /\ sidecar' = Down /\ overlapped' = (overlapped \/ rotation # NoRotation)
      /\ UNCHANGED <<BesideBackup, sets, deaths>>
  BY DEF StartBackup, BesideBackup
<1>2. /\ backup'.at = "stopped" /\ backup'.left = StateEntries /\ backup'.under = {}
      /\ backup'.todo = {} /\ backup'.active = 0 /\ backup' \in Backups
  BY <1>1 DEF NoBackup, Backups
<1>3. ~sidecar'.up /\ sidecar' \in Sidecars BY <1>1 DEF Down, Sidecars
<1>4. RotationTypeOK' BY <1>1, <1>2, <1>3 DEF KekInv, RotationTypeOK, BesideBackup
<1>5. RingInv' /\ RotationInv'
  BY <1>1 DEF KekInv, RingInv, Newest, RotationInv, BesideBackup
<1>6. BackupInv'
  BY <1>1, <1>2 DEF KekInv, RotationTypeOK, Rings, BackupInv, BesideBackup
<1>8. SidecarInv'
  BY <1>1, <1>2, <1>3 DEF SidecarInv, BesideBackup
<1>7. CopyInv' /\ VouchInv' /\ KeysInv'
  BY <1>1, <1>2, <1>3 DEF KekInv, CopyInv, Copying, VouchInv, Vouched, Proves, Recent, Live,
     KeysInv, AllUnder, Under, BesideBackup, StateEntries
<1> QED BY <1>4, <1>5, <1>6, <1>7, <1>8 DEF KekInv

\* The steps of the copy, up to the ring.
LEMMA KeysCopied ==
    ASSUME KekInv, ListKeys \/ LeaveKeys \/ \E k \in KeyFiles : CopyKey(k)
    PROVE  KekInv'
<1>1. /\ UNCHANGED <<BesideBackup, sidecar, sets, overlapped, deaths>>
      /\ backup.at # "idle" /\ backup.left = StateEntries
  BY CopyPlace DEF ListKeys, LeaveKeys, CopyKey, BesideBackup, Copies
<1>2. /\ backup' \in Backups /\ backup'.at = "listed" /\ backup'.active = backup.active
      /\ backup'.left \in {StateEntries, <<"ring">>}
      /\ backup'.left = <<"ring">> => backup'.todo = {}
      /\ \A x \in Live : backup.at = "listed" /\ Accounted(x) => Accounted(x)'
      /\ backup.at # "listed" => \A x \in Live : Accounted(x)'
      /\ backup'.under \subseteq backup.under \cup {wrappedBy[x] : x \in Live}
  <2>1. CASE ListKeys
    <3>1. backup' = [backup EXCEPT !.at = "listed", !.todo = Live] /\ backup.at = "stopped"
      BY <2>1 DEF ListKeys
    <3>2. Live \in SUBSET KeyFiles BY DEF Live
    <3>3. /\ backup'.at = "listed" /\ backup'.active = backup.active /\ backup'.todo = Live
          /\ backup'.left = backup.left /\ backup'.under = backup.under /\ backup' \in Backups
      BY <3>1, <3>2 DEF KekInv, RotationTypeOK, Backups
    <3> QED BY <1>1, <3>1, <3>3 DEF Accounted, StateEntries
  <2>2. CASE LeaveKeys
    <3>1. /\ backup' = [backup EXCEPT !.left = <<"ring">>] /\ backup.at = "listed"
          /\ backup.todo = {}
      BY <1>1, <2>2, CopyOrder DEF LeaveKeys
    <3> QED BY <1>1, <3>1 DEF Accounted, StateEntries, KekInv, RotationTypeOK, Backups,
         BesideBackup
  <2>3. ASSUME NEW k \in KeyFiles, CopyKey(k) PROVE <1>2!:
    <3>1. /\ backup' = [backup EXCEPT !.todo = backup.todo \ {k},
                                      !.under = backup.under \union {wrappedBy[k]}]
          /\ k \in backup.todo /\ k \in Live
      BY <2>3 DEF CopyKey, Live
    <3>2. backup.at = "listed" BY <1>1, <3>1 DEF KekInv, RotationTypeOK, Backups, BackupInv
    <3>3. /\ backup'.at = "listed" /\ backup'.active = backup.active
          /\ backup'.todo = backup.todo \ {k} /\ backup'.left = backup.left
          /\ backup'.under = backup.under \union {wrappedBy[k]} /\ backup' \in Backups
      BY <3>1, <3>2 DEF KekInv, RotationTypeOK, Backups
    <3> QED BY <1>1, <3>1, <3>2, <3>3 DEF Accounted, StateEntries, BesideBackup
  <2> QED BY <2>1, <2>2, <2>3
<1>3. RotationTypeOK' BY <1>1, <1>2 DEF KekInv, RotationTypeOK, BesideBackup
<1>4. RingInv' /\ RotationInv'
  BY <1>1 DEF KekInv, RingInv, Newest, RotationInv, BesideBackup
<1>5. BackupInv'
  BY <1>1, <1>2 DEF KekInv, BackupInv, BesideBackup
<1>6. SidecarInv'
  BY <1>1, <1>2, Idle DEF KekInv, SidecarInv, BesideBackup, NoBackup
<1>7. Live' = Live /\ Recent' = Recent /\ Copying'
  BY <1>1, <1>2, CopyOrder DEF Live, Recent, Copying, BesideBackup
<1>9. Vouched' => Vouched
  BY <1>1, <1>2, CopyOrder DEF Vouched, Proves, BesideBackup
<1>10. backup.under \subseteq ring.generations
  BY <1>1, CopyOrder DEF KekInv, RotationTypeOK, Backups, CopyInv, Copying, BackupInv
<1>11. CopyInv'
  BY <1>1, <1>2, <1>7, <1>10, CopyOrder DEF KekInv, CopyInv, Copying, KeysInv, BesideBackup
<1>12. VouchInv'
  <2>1. Vouched => (\A x \in Live : wrappedBy[x] \in Recent) /\ backup.under \subseteq Recent
    BY <1>1, <1>2, CopyOrder DEF KekInv, RotationTypeOK, Backups, BackupInv, VouchInv, Copying
  <2>2. Vouched => backup'.under \subseteq Recent BY <1>2, <2>1
  <2>3. UNCHANGED <<wrappedBy, sidecar, ring>> BY <1>1 DEF BesideBackup
  <2> QED BY <1>7, <1>9, <2>1, <2>2, <2>3 DEF KekInv, VouchInv
<1>13. KeysInv'
  BY <1>1, <1>7 DEF KekInv, KeysInv, AllUnder, Under, BesideBackup
<1> QED BY <1>3, <1>4, <1>5, <1>6, <1>11, <1>12, <1>13 DEF KekInv

LEMMA RingCopied == ASSUME KekInv, CopyRing PROVE KekInv'
<1>1. /\ backup.left = <<"ring">> /\ backup.at = "listed" /\ backup.todo = {}
      /\ UNCHANGED <<BesideBackup, sidecar, sets, overlapped, deaths>>
  BY CopyPlace, CopyOrder DEF CopyRing, BesideBackup, KekInv, BackupInv
<1>2. backup' = [backup EXCEPT !.left = <<>>, !.ring = ring.generations, !.active = ring.active]
  BY <1>1, CopyOrder DEF CopyRing
<1>3. /\ backup'.at = "listed" /\ backup'.left = <<>> /\ backup'.todo = {}
      /\ backup'.under = backup.under /\ backup'.ring = ring.generations
      /\ backup'.active = ring.active /\ backup' \in Backups
  <2> DEFINE b == [backup EXCEPT !.left = <<>>, !.ring = ring.generations]
  <2>1. /\ b \in Backups /\ b.at = "listed" /\ b.left = <<>> /\ b.todo = {}
        /\ b.under = backup.under /\ b.ring = ring.generations
    BY <1>1 DEF KekInv, RotationTypeOK, Backups, Rings
  <2>2. backup' = [b EXCEPT !.active = ring.active]
    BY <1>2 DEF KekInv, RotationTypeOK, Backups
  <2>3. ring.active \in Nat BY DEF KekInv, RotationTypeOK, Rings
  <2> HIDE DEF b
  <2> QED BY <2>1, <2>2, <2>3 DEF Backups
<1>4. RotationTypeOK' BY <1>1, <1>3 DEF KekInv, RotationTypeOK, BesideBackup
<1>5. RingInv' /\ RotationInv'
  BY <1>1 DEF KekInv, RingInv, Newest, RotationInv, BesideBackup
<1>6. BackupInv'
  BY <1>1, <1>3 DEF KekInv, BackupInv, BesideBackup, RotationTypeOK, Rings
<1>7. SidecarInv'
  BY <1>1, <1>3, Idle DEF KekInv, SidecarInv, BesideBackup, NoBackup
<1>8. Copying /\ ~Copying' BY <1>1, <1>3, CopyOrder DEF Copying
<1>9. CopyInv'
  BY <1>1, <1>3, <1>8 DEF KekInv, CopyInv, BesideBackup
<1>10. ASSUME Vouched', ~Vouched PROVE backup.under \subseteq {ring.active}
  BY <1>1, <1>3, <1>10 DEF Vouched, Proves, BesideBackup
<1>11. VouchInv'
  <2>1. CASE Vouched BY <1>1, <1>8, <2>1 DEF KekInv, VouchInv, BesideBackup, Recent, Live
  <2>2. CASE Vouched' /\ ~Vouched
    <3>1. \A k \in Live : wrappedBy[k] \in Recent
      BY <1>1, <1>8, <1>10, <2>2 DEF KekInv, CopyInv, Accounted, Recent
    <3>2. sidecar.up => sidecar.wraps = ring.active
      BY <1>1, Idle DEF KekInv, SidecarInv
    <3> QED BY <1>1, <1>8, <3>1, <3>2 DEF VouchInv, BesideBackup, Recent, Live
  <2> QED BY <2>1, <2>2 DEF VouchInv
<1>12. KeysInv'
  BY <1>1 DEF KekInv, KeysInv, AllUnder, Under, Live, BesideBackup
<1> QED BY <1>4, <1>5, <1>6, <1>7, <1>9, <1>11, <1>12 DEF KekInv

\* A set is published, or the copy is given up.
LEMMA BackupOver == ASSUME KekInv, EndBackup \/ BackupDies PROVE KekInv'
<1>1. /\ backup' = NoBackup /\ sidecar' \in {sidecar, Loaded} /\ backup.at # "idle"
      /\ UNCHANGED <<BesideBackup, overlapped>> /\ deaths' \in {deaths, deaths + 1}
      /\ sidecar' = sidecar \/ ~sidecar.up
  BY Idle DEF EndBackup, BackupDies, Started, BesideBackup
<1> DEFINE new == [active |-> backup.active, ring |-> backup.ring, under |-> backup.under]
<1>2. \/ sets' = sets
      \/ backup.left = <<>> /\ backup.at = "listed" /\ sets' = Append(sets, new)
  BY <1>1, CopyOrder DEF EndBackup, BackupDies, KekInv, BackupInv, RotationTypeOK, Backups
<1>3. new \in Sets /\ sets \in Seq(Sets) BY DEF KekInv, RotationTypeOK, Backups, Sets
<1>4. /\ backup'.at = "idle" /\ backup'.left = <<>> /\ backup'.under = {} /\ backup'.todo = {}
      /\ backup'.active = 0 /\ backup' \in Backups
  BY <1>1 DEF NoBackup, Backups
<1>5. \A s \in DOMAIN sets' : (s \in DOMAIN sets /\ sets'[s] = sets[s]) \/ (sets'[s] = new /\ sets' # sets)
  BY <1>2, <1>3
<1>6. new.active = backup.active /\ new.ring = backup.ring /\ new.under = backup.under
  OBVIOUS
<1>7. sets' \in Seq(Sets) BY <1>2, <1>3
<1> HIDE DEF new
<1>8. RotationTypeOK'
  <2>1. Loaded \in Sidecars BY DEF KekInv, RotationTypeOK, Rings, Loaded, Sidecars
  <2> QED BY <1>1, <1>4, <1>7, <2>1 DEF KekInv, RotationTypeOK, BesideBackup
<1>9. RingInv' /\ RotationInv'
  BY <1>1 DEF KekInv, RingInv, Newest, RotationInv, BesideBackup
<1>10. BackupInv'
  BY <1>1, <1>4, <1>5, <1>6 DEF KekInv, BackupInv, BesideBackup, RotationTypeOK, Rings
<1>11. SidecarInv'
  BY <1>1, <1>4, Idle DEF KekInv, SidecarInv, BesideBackup, Loaded, RotationTypeOK, Rings, RingInv,
     NoRotation
<1>12. CopyInv'
  BY <1>1, <1>2, <1>4, <1>5, <1>6 DEF KekInv, CopyInv, Copying, BesideBackup
<1>13. Vouched' => Vouched
  BY <1>1, <1>2, <1>4, <1>5, <1>6 DEF Vouched, Proves, BesideBackup
<1>14. VouchInv'
  BY <1>1, <1>4, <1>13 DEF KekInv, VouchInv, Copying, Recent, Live, Loaded, BesideBackup
<1>15. KeysInv'
  BY <1>1 DEF KekInv, KeysInv, AllUnder, Under, Live, BesideBackup
<1> QED BY <1>8, <1>9, <1>10, <1>11, <1>12, <1>14, <1>15 DEF KekInv

-----------------------------------------------------------------------------
(* The theorems.                                                            *)

LEMMA InitKek == RotationInit => KekInv
<1> SUFFICES ASSUME RotationInit PROVE KekInv OBVIOUS
<1>1. RotationTypeOK
  <2>1. ring \in Rings /\ Loaded \in Sidecars
    BY DEF RotationInit, Rings, Loaded, Sidecars
  <2>2. NoRotation \in Rotations /\ NoBackup \in Backups
    BY DEF NoRotation, NoBackup, Rotations, Backups, Places
  <2>3. [active |-> 1, ring |-> {1}, under |-> {}] \in Sets BY DEF Sets
  <2>4. sets \in Seq(Sets) BY <2>3 DEF RotationInit
  <2> QED BY <2>1, <2>2, <2>4 DEF RotationInit, RotationTypeOK, NoJournal
<1>2. RingInv BY DEF RotationInit, RingInv, Newest
<1>3. RotationInv /\ BackupInv
  BY DEF RotationInit, RotationInv, BackupInv, NoRotation, NoBackup
<1>4. SidecarInv
  BY DEF RotationInit, SidecarInv, Loaded, NoRotation
<1>5. Live = {} BY DEF RotationInit, Live
<1>6. CopyInv /\ VouchInv /\ KeysInv
  BY <1>5 DEF RotationInit, CopyInv, Copying, VouchInv, KeysInv, Loaded, NoBackup, NoRotation
<1> QED BY <1>1, <1>2, <1>3, <1>4, <1>6 DEF KekInv

LEMMA NextKek == ASSUME KekInv, [RotationNext]_rotVars PROVE KekInv'
<1>1. CASE UNCHANGED rotVars
  BY <1>1, SidecarStarted DEF rotVars
<1>2. CASE SidecarRestarts \/ OperatorRecovers
  BY <1>2, SidecarStarted DEF SidecarRestarts, OperatorRecovers, NoRotation
<1>3. CASE RotationStep
  BY <1>3, RotationBegun, Quiesced, StageEnded, PendingBegun, KeyRewrapped, Activated, RotationOver
  DEF RotationStep
<1>4. CASE BackupStep
  BY <1>4, BackupStarted, KeysCopied, RingCopied, BackupOver DEF BackupStep
<1> QED BY <1>1, <1>2, <1>3, <1>4, KeyWritten, Retired, RotationOver, BackupOver DEF RotationNext

\* What the ring, the journal, the sidecar, a copying backup and the published sets say
\* of each other stays true wherever a rotation, a backup or a writer dies.
THEOREM RotationInductive == RotationSpec => []KekInv
BY InitKek, NextKek, PTL DEF RotationSpec

\* Wherever a wrapped key is, the ring beside it opens it.
THEOREM EveryKeyOpensSound == RotationSpec => []EveryKeyOpens
<1>1. KekInv => EveryKeyOpens
  BY DEF KekInv, KeysInv, CopyInv, SidecarInv, EveryKeyOpens
<1> QED BY <1>1, RotationInductive, PTL

\* The ring moves to a generation only when every key is under it.
THEOREM ActivationSound == RotationSpec => ActivationCovers
<1>1. ASSUME KekInv, [RotationNext]_rotVars, ring'.active # ring.active, ~overlapped
      PROVE  AllUnder(ring'.active)
  <2>1. Activate
    BY <1>1 DEF RotationNext, rotVars, Provision, Destroy, SidecarRestarts, OperatorRecovers,
       RotationStep, BeginRotation, Quiesce, WriteKekJournal, BeginPending, StartRewrap, EndRewrap,
       RewrapKey, Verify, ClearKekJournal, EndRotation, BackupStep, StartBackup, ListKeys,
       LeaveKeys, CopyRing, EndBackup, CopyKey, Retire, RotationDies, BackupDies, KekInv,
       RotationTypeOK, Rings
  <2>2. ring.pending = rotation.to /\ ring'.active = ring.pending /\ rotation.at = "verified"
    BY <1>1, <2>1 DEF Activate, AtWork, KekInv, RotationInv, RotationTypeOK, Rings
  <2> QED BY <1>1, <2>2 DEF KekInv, KeysInv
<1>2. KekInv /\ [RotationNext]_rotVars =>
         [ring'.active # ring.active /\ ~overlapped => AllUnder(ring'.active)]_rotVars
  BY <1>1
<1> QED BY <1>2, RotationInductive, PTL DEF RotationSpec, ActivationCovers

======================================================================================================================================================
