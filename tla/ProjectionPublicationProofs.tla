--------------------- MODULE ProjectionPublicationProofs ---------------------
(***************************************************************************)
(* Proofs about the publication of generations, for any entries,           *)
(* publishers, retirements, faults and lengths of the ledger: the manifest *)
(* directory and the daemon are never ahead of the database, every         *)
(* generation is admissible after its predecessor, an entry is deleted at  *)
(* most once for each retirement, and a daemon that polls is never outrun. *)
(***************************************************************************)
EXTENDS ProjectionPublication, FiniteSetTheorems, TLAPS

-----------------------------------------------------------------------------
(* The inductive invariant.                                                 *)

Lines == [vis : Visibilities, intent : Retirements \cup {None}]
Listings == UNION {[S -> Lines] : S \in SUBSET Entries}
Generations == [state : {"prepared", "current", "superseded"}, entries : Listings,
                deletions : SUBSET Entries]

AtWork == {"build", "repairArtifact", "repairPointer", "artifact", "commit"}
Runs == [pc : {"idle", "read", "pointer"} \cup AtWork, cur : Nat, target : Nat]

PublicationTypeOK ==
    /\ visibility \in [Entries -> Visibilities \cup {None}]
    /\ intent \in [Entries -> Retirements \cup {None}]
    /\ tombs \subseteq Entries
    /\ gens \in Seq(Generations)
    /\ pointer \in Nat /\ serving \in Nat /\ artifacts \subseteq Nat
    /\ holder \in Publishers \cup {None}
    /\ pub \in [Publishers -> Runs]
    /\ left \in Budget
    /\ declared \in [Entries -> Nat] /\ paced \in BOOLEAN

\* Generation c is the current one, and at most one is prepared after it.
LedgerAt(c) ==
    /\ c \in 0 .. Len(gens) /\ Len(gens) <= c + 1
    /\ \A i \in 1 .. Len(gens) : gens[i].state = "current" <=> i = c

Ledger == LedgerAt(Current)

\* What a run knows: while its session holds the lock the generation it read is the
\* current one, and afterwards it is at most that.
RunKnows(p) == LET r == pub[p] IN
    /\ r.pc = "idle" => holder # p
    /\ r.cur <= Current
    /\ holder = p /\ r.pc \in AtWork => r.cur = Current
    /\ r.pc \in {"artifact", "commit"} => r.target = r.cur + 1 /\ r.target <= Len(gens)
    /\ r.pc = "pointer" => r.target <= Current /\ (holder = p => r.target = Current)

Grounded == PublicationTypeOK /\ Ledger /\ \A p \in Publishers : RunKnows(p)

-----------------------------------------------------------------------------
(* The current generation.                                                  *)

CurrentOf(g) == CHOOSE n \in 0 .. Len(g) :
    \A i \in DOMAIN g : (g[i].state = "current") <=> (i = n)

LEMMA TheCurrentOne ==
    ASSUME NEW g \in Seq(Generations), NEW c \in 0 .. Len(g),
           \A i \in 1 .. Len(g) : g[i].state = "current" <=> i = c
    PROVE  CurrentOf(g) = c
<1> DEFINE Is(n) == \A i \in DOMAIN g : (g[i].state = "current") <=> (i = n)
<1>1. DOMAIN g = 1 .. Len(g) /\ Len(g) \in Nat OBVIOUS
<1>2. Is(c) BY <1>1
<1>3. CurrentOf(g) \in 0 .. Len(g) /\ Is(CurrentOf(g))
  BY <1>2 DEF CurrentOf
<1>4. ASSUME NEW n \in 0 .. Len(g), Is(n) PROVE n = c
  <2>1. CASE n > 0
    <3>1. g[n].state = "current" BY <1>1, <1>4, <2>1
    <3> QED BY <1>1, <2>1, <3>1
  <2>2. CASE c > 0
    <3>1. g[c].state = "current" BY <1>1, <2>2
    <3> QED BY <1>1, <1>4, <2>2, <3>1
  <2> QED BY <2>1, <2>2
<1> QED BY <1>3, <1>4

LEMMA CurrentIs == Current = CurrentOf(gens) /\ Current' = CurrentOf(gens')
BY DEF Current, CurrentOf

LEMMA SameGens == ASSUME gens' = gens PROVE Current' = Current
BY CurrentIs

\* A candidate is a generation.
LEMMA CandidateTyped ==
    ASSUME PublicationTypeOK, NEW deletions \in SUBSET Entries
    PROVE  /\ Candidate(deletions) \in Generations
           /\ Candidate(deletions).state = "prepared"
           /\ Candidate(deletions).deletions = deletions
<1> DEFINE live == {e \in Entries : visibility[e] # None} \ (tombs \cup deletions)
           listing == [e \in live |-> [vis |-> visibility[e], intent |-> intent[e]]]
<1>1. listing \in [live -> Lines]
  BY DEF PublicationTypeOK, Lines
<1>2. listing \in Listings
  <2>1. live \in SUBSET Entries OBVIOUS
  <2> HIDE DEF live, listing
  <2> QED BY <1>1, <2>1 DEF Listings
<1>3. Candidate(deletions) = [state |-> "prepared", entries |-> listing, deletions |-> deletions]
  BY DEF Candidate
<1> HIDE DEF listing
<1> QED BY <1>2, <1>3 DEF Generations

\* One transaction adds the prepared row.
LEMMA Prepared ==
    ASSUME Grounded, NEW g \in Generations, g.state = "prepared", gens' = Append(gens, g),
           Len(gens) = Current
    PROVE  /\ gens' \in Seq(Generations) /\ Len(gens') = Len(gens) + 1
           /\ \A i \in 1 .. Len(gens) : gens'[i] = gens[i]
           /\ gens'[Len(gens')] = g
           /\ Current' = Current /\ Ledger'
<1>1. /\ gens' \in Seq(Generations) /\ Len(gens') = Len(gens) + 1
      /\ \A i \in 1 .. Len(gens) : gens'[i] = gens[i]
      /\ gens'[Len(gens')] = g
  BY DEF Grounded, PublicationTypeOK
<1>2. Current \in 0 .. Len(gens')
  BY <1>1 DEF Grounded, Ledger, LedgerAt, PublicationTypeOK
<1>3. \A i \in 1 .. Len(gens') : gens'[i].state = "current" <=> i = Current
  BY <1>1 DEF Grounded, Ledger, LedgerAt, PublicationTypeOK
<1>4. Current' = Current
  BY <1>1, <1>2, <1>3, TheCurrentOne, CurrentIs
<1> QED BY <1>1, <1>2, <1>3, <1>4 DEF Ledger, LedgerAt, Grounded, PublicationTypeOK

\* Another one makes it the current one.
LEMMA MadeCurrent ==
    ASSUME Grounded, NEW n \in 1 .. Len(gens), n = Current + 1, MakeCurrent(n)
    PROVE  /\ gens' \in Seq(Generations) /\ Len(gens') = Len(gens)
           /\ \A i \in 1 .. Len(gens) : /\ gens'[i].entries = gens[i].entries
                                        /\ gens'[i].deletions = gens[i].deletions
           /\ Current' = n /\ n = Len(gens) /\ Ledger'
<1>0. gens \in Seq(Generations) /\ Len(gens) \in Nat /\ DOMAIN gens = 1 .. Len(gens)
      /\ n = Len(gens)
  BY DEF Grounded, PublicationTypeOK, Ledger, LedgerAt
<1>1. \A i \in 1 .. Len(gens) : gens[i] \in Generations
  BY <1>0
<1>2. /\ DOMAIN gens' = 1 .. Len(gens)
      /\ \A i \in 1 .. Len(gens) :
            gens'[i] = IF i = n THEN [gens[i] EXCEPT !.state = "current"]
                                ELSE [gens[i] EXCEPT !.state = "superseded"]
  BY <1>0 DEF MakeCurrent
<1>3. \A i \in 1 .. Len(gens) : /\ gens'[i] \in Generations
                                /\ gens'[i].entries = gens[i].entries
                                /\ gens'[i].deletions = gens[i].deletions
                                /\ gens'[i].state = "current" <=> i = n
  BY <1>1, <1>2 DEF Generations
<1>4. gens' \in Seq(Generations) /\ Len(gens') = Len(gens)
  <2>1. gens' = [i \in 1 .. Len(gens) |-> gens'[i]]
    BY <1>0 DEF MakeCurrent
  <2> QED BY <1>0, <1>3, <2>1
<1>5. Current' = n
  BY <1>0, <1>3, <1>4, TheCurrentOne, CurrentIs
<1> QED BY <1>0, <1>3, <1>4, <1>5 DEF Ledger, LedgerAt

-----------------------------------------------------------------------------
(* Types.                                                                   *)

\* Everything but the runs, the lock and what an action names, left alone.
RegistryTyped ==
    /\ visibility \in [Entries -> Visibilities \cup {None}]
    /\ intent \in [Entries -> Retirements \cup {None}]
    /\ tombs \subseteq Entries /\ left \in Budget
    /\ declared \in [Entries -> Nat] /\ paced \in BOOLEAN

LEMMA RegistryStays ==
    ASSUME PublicationTypeOK, UNCHANGED <<registry, left, history>>
    PROVE  RegistryTyped'
BY DEF PublicationTypeOK, RegistryTyped, registry, history

LEMMA SpendTyped ==
    ASSUME left \in Budget, NEW what \in {"edits", "deaths", "sessions", "stops", "files"},
           Spend(what)
    PROVE  left' \in Budget
<1>1. left[what] \in Nat \ {0} BY DEF Budget, Spend
<1>2. left[what] - 1 \in Nat BY <1>1
<1>3. left' = [left EXCEPT ![what] = left[what] - 1] BY DEF Spend
<1> QED BY <1>2, <1>3 DEF Budget

LEMMA RegistryNextTyped == ASSUME Grounded, RegistryNext PROVE PublicationTypeOK'
<1>0. PublicationTypeOK BY DEF Grounded
<1>1. ASSUME Edit PROVE left' \in Budget /\ UNCHANGED <<gens, directory, holder, pub, serving, paced>>
  BY <1>0, <1>1, SpendTyped DEF Edit, PublicationTypeOK
<1>2. ASSUME NEW e \in Entries, Register(e) PROVE PublicationTypeOK'
  BY <1>0, <1>1, <1>2 DEF Register, PublicationTypeOK, directory, Visibilities
<1>3. ASSUME NEW e \in Entries, NEW v \in Visibilities, NEW r \in Retirements \cup {None},
             SetVisibility(e, v, r), declared' \in [Entries -> Nat]
      PROVE  PublicationTypeOK'
  BY <1>0, <1>1, <1>3 DEF SetVisibility, PublicationTypeOK, directory
<1>4. ASSUME NEW e \in Entries, SetAvailable(e) \/ Degrade(e) PROVE PublicationTypeOK'
  BY <1>0, <1>3, <1>4 DEF SetAvailable, Degrade, PublicationTypeOK, Visibilities
<1>5. ASSUME NEW e \in Entries, NEW r \in Retirements, Retire(e, r) PROVE PublicationTypeOK'
  <2>1. declared' \in [Entries -> Nat]
    BY <1>0, <1>5 DEF Retire, PublicationTypeOK
  <2> QED BY <1>3, <1>5, <2>1 DEF Retire, Visibilities
<1>6. ASSUME NEW r \in Retirements, GraceElapses(r) PROVE PublicationTypeOK'
  BY <1>0, <1>6 DEF GraceElapses, PublicationTypeOK, registry, directory, history
<1> QED BY <1>2, <1>4, <1>5, <1>6 DEF RegistryNext

\* A run goes on, or ends.
LEMMA GoTyped ==
    ASSUME PublicationTypeOK, NEW p \in Publishers, NEW r \in Runs, Go(p, r)
    PROVE  /\ pub' \in [Publishers -> Runs] /\ pub'[p] = r
           /\ \A q \in Publishers \ {p} : pub'[q] = pub[q]
BY DEF PublicationTypeOK, Go

LEMMA FinishTyped ==
    ASSUME PublicationTypeOK, NEW p \in Publishers, Finish(p)
    PROVE  /\ pub' \in [Publishers -> Runs] /\ pub'[p] = Idle
           /\ \A q \in Publishers \ {p} : pub'[q] = pub[q]
           /\ holder' \in Publishers \cup {None} /\ holder' # p /\ holder' \in {holder, None}
<1>1. Idle \in Runs BY DEF Idle, Runs
<1> QED BY <1>1, GoTyped, NoneAssumption DEF Finish, PublicationTypeOK

LEMMA CurrentTyped == ASSUME Grounded PROVE Current \in Nat /\ Len(gens) \in Nat
BY DEF Grounded, Ledger, LedgerAt, PublicationTypeOK

LEMMA Targets ==
    ASSUME NEW r \in Runs
    PROVE  /\ \A n \in Nat : [r EXCEPT !.pc = "artifact", !.target = n] \in Runs
           /\ \A n \in Nat : n + 1 \in Nat
           /\ r.cur \in Nat
<1>1. r.cur \in Nat /\ \A n \in Nat : n + 1 \in Nat BY DEF Runs
<1>2. ASSUME NEW n \in Nat PROVE [r EXCEPT !.pc = "artifact", !.target = n] \in Runs
  <2> DEFINE a == [r EXCEPT !.pc = "artifact"]
  <2>1. a \in Runs BY DEF Runs, AtWork
  <2>2. [a EXCEPT !.target = n] \in Runs
    <3> HIDE DEF a
    <3> QED BY <2>1 DEF Runs
  <2> QED BY <2>2
<1> QED BY <1>1, <1>2

LEMMA RunNextTyped ==
    ASSUME Grounded, NEW p \in Publishers, RunNext(p)
    PROVE  PublicationTypeOK'
<1>0. PublicationTypeOK /\ pub[p] \in Runs BY DEF Grounded, PublicationTypeOK
<1> USE CurrentTyped
<1>1. CASE Begin(p)
  <2>1. [Idle EXCEPT !.pc = "read"] \in Runs BY DEF Idle, Runs
  <2>2. paced' \in BOOLEAN BY <1>1 DEF Begin
  <2> QED BY <1>0, <1>1, <2>1, <2>2, GoTyped DEF Begin, PublicationTypeOK, registry, directory
<1>2. CASE SessionLost(p)
  BY <1>0, <1>2, FinishTyped DEF SessionLost, PublicationTypeOK, registry, directory, history
<1>3. CASE ReadCurrent(p)
  <2>1. PICK pc \in {"build", "repairArtifact", "repairPointer"} :
           Go(p, [pub[p] EXCEPT !.cur = Current, !.pc = pc])
    BY <1>3 DEF ReadCurrent
  <2>2. [pub[p] EXCEPT !.cur = Current, !.pc = pc] \in Runs BY <1>0 DEF Runs, AtWork
  <2> QED BY <1>0, <1>3, <2>1, <2>2, GoTyped DEF ReadCurrent, PublicationTypeOK, registry,
         directory, history
<1>4. CASE RepairArtifact(p)
  <2>1. artifacts' \subseteq Nat BY <1>0, <1>4 DEF RepairArtifact, PublicationTypeOK, Runs
  <2>2. pub' \in [Publishers -> Runs] /\ holder' \in Publishers \cup {None}
    <3>1. [pub[p] EXCEPT !.pc = "repairPointer"] \in Runs BY <1>0 DEF Runs, AtWork
    <3> QED BY <1>0, <1>4, <3>1, GoTyped, FinishTyped DEF RepairArtifact, PublicationTypeOK
  <2> QED BY <1>0, <1>4, <2>1, <2>2 DEF RepairArtifact, PublicationTypeOK, registry, history
<1>5. CASE RepairPointer(p) \/ WritePointer(p)
  <2>1. pointer' \in Nat BY <1>0, <1>5 DEF RepairPointer, WritePointer, PublicationTypeOK, Runs
  <2> QED BY <1>0, <1>5, <2>1, FinishTyped DEF RepairPointer, WritePointer, PublicationTypeOK,
         registry, history
<1>6. CASE Resume(p)
  <2>1. [pub[p] EXCEPT !.pc = "artifact", !.target = pub[p].cur + 1] \in Runs
    BY <1>0, Targets
  <2> QED BY <1>0, <1>6, <2>1, GoTyped DEF Resume, PublicationTypeOK, registry, directory, history
<1>7. CASE Decline(p)
  BY <1>0, <1>7, FinishTyped DEF Decline, PublicationTypeOK, registry, directory, history
<1>8. ASSUME NEW deletions \in SUBSET Entries, Prepare(p, deletions) PROVE PublicationTypeOK'
  <2>1. [pub[p] EXCEPT !.pc = "artifact", !.target = Len(gens) + 1] \in Runs
    BY <1>0, Targets
  <2>2. gens' \in Seq(Generations)
    BY <1>0, <1>8, CandidateTyped DEF Prepare, PublicationTypeOK
  <2> QED BY <1>0, <1>8, <2>1, <2>2, GoTyped DEF Prepare, PublicationTypeOK, registry, directory,
         history
<1>9. CASE WriteArtifact(p)
  <2>1. [pub[p] EXCEPT !.pc = "commit"] \in Runs BY <1>0 DEF Runs, AtWork
  <2>2. artifacts' \subseteq Nat BY <1>0, <1>9 DEF WriteArtifact, PublicationTypeOK, Runs
  <2> QED BY <1>0, <1>9, <2>1, <2>2, GoTyped DEF WriteArtifact, PublicationTypeOK, registry, history
<1>10. CASE Commit(p)
  <2>1. [pub[p] EXCEPT !.pc = "pointer"] \in Runs BY <1>0 DEF Runs
  <2>2. /\ pub[p].target \in 1 .. Len(gens) /\ pub[p].target = Current + 1
        /\ MakeCurrent(pub[p].target)
    BY <1>0, <1>10 DEF Commit, Publish, In, Grounded, RunKnows, Runs, AtWork
  <2>3. gens' \in Seq(Generations) BY <2>2, MadeCurrent
  <2>4. gens[pub[p].target].deletions \subseteq Entries
    <3>1. gens[pub[p].target] \in Generations BY <1>0, <2>2 DEF PublicationTypeOK
    <3> QED BY <3>1 DEF Generations
  <2>5. tombs' \subseteq Entries
    BY <1>0, <1>10, <2>4 DEF Commit, Publish, PublicationTypeOK
  <2> QED BY <1>0, <1>10, <2>1, <2>3, <2>5, GoTyped DEF Commit, PublicationTypeOK, directory, history
<1> QED BY <1>1, <1>2, <1>3, <1>4, <1>5, <1>6, <1>7, <1>8, <1>9, <1>10 DEF RunNext

LEMMA OthersTyped ==
    ASSUME Grounded, DaemonStart \/ Poll \/ FaultNext
    PROVE  PublicationTypeOK'
<1>0. PublicationTypeOK BY DEF Grounded
<1>1. CASE DaemonStart \/ Poll
  BY <1>0, <1>1 DEF DaemonStart, Poll, PublicationTypeOK, registry, directory, history
<1>2. CASE DaemonStop \/ LoseFile
  <2>1. left' \in Budget
    BY <1>0, <1>2, SpendTyped DEF DaemonStop, LoseFile, PublicationTypeOK
  <2>2. pointer' \in Nat /\ artifacts' \subseteq Nat /\ serving' \in Nat
    <3>1. CASE DaemonStop BY <1>0, <3>1 DEF DaemonStop, PublicationTypeOK, directory
    <3>2. CASE LoseFile
      <4>1. serving' = serving /\ pointer' \in {pointer, 0} /\ artifacts' \subseteq artifacts
        BY <3>2 DEF LoseFile
      <4> QED BY <1>0, <4>1 DEF PublicationTypeOK
    <3> QED BY <1>2, <3>1, <3>2
  <2>3. UNCHANGED <<registry, gens, holder, pub, history>>
    BY <1>2 DEF DaemonStop, LoseFile
  <2> QED BY <1>0, <2>1, <2>2, <2>3 DEF PublicationTypeOK, registry, history
<1>3. ASSUME NEW p \in Publishers, Die(p) PROVE PublicationTypeOK'
  <2>1. left' \in Budget BY <1>0, <1>3, SpendTyped DEF Die, PublicationTypeOK
  <2> QED BY <1>0, <1>3, <2>1, FinishTyped DEF Die, PublicationTypeOK, registry, directory, history
<1>4. ASSUME NEW p \in Publishers, LoseSession(p) PROVE PublicationTypeOK'
  <2>1. left' \in Budget BY <1>0, <1>4, SpendTyped DEF LoseSession, PublicationTypeOK
  <2> QED BY <1>0, <1>4, <2>1 DEF LoseSession, PublicationTypeOK, registry, directory, history
<1> QED BY <1>1, <1>2, <1>3, <1>4 DEF FaultNext

LEMMA NextTyped == ASSUME Grounded, [ProjectionNext]_projectionVars PROVE PublicationTypeOK'
<1>1. CASE UNCHANGED projectionVars
  BY <1>1 DEF projectionVars, registry, directory, history, Grounded, PublicationTypeOK
<1> QED BY <1>1, RegistryNextTyped, RunNextTyped, OthersTyped DEF ProjectionNext

-----------------------------------------------------------------------------
(* What the runs know of the ledger.                                        *)

LEMMA LedgerStays == ASSUME Ledger, gens' = gens PROVE Ledger'
BY SameGens DEF Ledger, LedgerAt

\* The current generation only advances, and only under the lock.
Advanced ==
    /\ Current' \in Nat /\ Current <= Current' /\ Len(gens') \in Nat /\ Len(gens) <= Len(gens')

\* A run that does not move still knows what it knew, unless it loses the lock.
LEMMA BystanderKnows ==
    ASSUME Grounded, NEW q \in Publishers, pub'[q] = pub[q], holder' = q => holder = q,
           Advanced, holder' = q => Current' = Current
    PROVE  RunKnows(q)'
<1>1. RunKnows(q) /\ pub[q] \in Runs BY DEF Grounded, PublicationTypeOK
<1>2. Current \in Nat /\ Len(gens) \in Nat BY CurrentTyped
<1> QED BY <1>1, <1>2 DEF RunKnows, Runs, Advanced

LEMMA SameLedger == ASSUME Grounded, gens' = gens PROVE Advanced /\ Current' = Current
BY CurrentTyped, SameGens DEF Advanced

\* The run of p moves, and nobody else takes the lock.
LEMMA OneMoves ==
    ASSUME Grounded, NEW p \in Publishers, \A q \in Publishers \ {p} : pub'[q] = pub[q],
           holder' \in {holder, None, p}, Advanced, Current' = Current \/ holder' = p,
           RunKnows(p)'
    PROVE  \A q \in Publishers : RunKnows(q)'
BY BystanderKnows, NoneAssumption

LEMMA FinishKnows ==
    ASSUME Grounded, NEW p \in Publishers, Finish(p), gens' = gens
    PROVE  \A q \in Publishers : RunKnows(q)'
<1>1. /\ pub'[p] = Idle /\ \A q \in Publishers \ {p} : pub'[q] = pub[q]
      /\ holder' # p /\ holder' \in {holder, None}
  BY FinishTyped DEF Grounded
<1>2. RunKnows(p)'
  BY <1>1, SameLedger DEF RunKnows, Idle, AtWork, Advanced
<1> QED BY <1>1, <1>2, SameLedger, OneMoves

LEMMA RunNextKnows ==
    ASSUME Grounded, NEW p \in Publishers, RunNext(p)
    PROVE  Ledger' /\ \A q \in Publishers : RunKnows(q)'
<1>0. /\ PublicationTypeOK /\ Ledger /\ pub[p] \in Runs /\ RunKnows(p)
      /\ Current \in Nat /\ Len(gens) \in Nat /\ Len(gens) <= Current + 1
  BY CurrentTyped DEF Grounded, PublicationTypeOK, Ledger, LedgerAt
<1>1. CASE SessionLost(p) \/ RepairPointer(p) \/ Decline(p) \/ WritePointer(p)
           \/ (RepairArtifact(p) /\ Finish(p))
  <2>1. Finish(p) /\ gens' = gens
    BY <1>1 DEF SessionLost, RepairPointer, Decline, WritePointer, RepairArtifact
  <2> QED BY <1>0, <2>1, FinishKnows, LedgerStays
<1>2. ASSUME NEW r \in Runs, Go(p, r), gens' = gens, holder' \in {holder, p}, holder' = p \/ holder # p,
             r.cur \in Nat, r.cur <= Current, r.pc # "idle",
             holder' = p /\ r.pc \in AtWork => r.cur = Current,
             r.pc \in {"artifact", "commit"} => r.target = r.cur + 1 /\ r.target <= Len(gens),
             r.pc # "pointer"
      PROVE  Ledger' /\ \A q \in Publishers : RunKnows(q)'
  <2>1. pub'[p] = r /\ \A q \in Publishers \ {p} : pub'[q] = pub[q]
    BY <1>0, <1>2, GoTyped
  <2>2. RunKnows(p)' BY <1>0, <1>2, <2>1, SameLedger DEF RunKnows
  <2> QED BY <1>0, <1>2, <2>1, <2>2, SameLedger, OneMoves, LedgerStays
<1>3. CASE Begin(p)
  <2> DEFINE r == [Idle EXCEPT !.pc = "read"]
  <2>1. r \in Runs /\ r.pc = "read" /\ r.cur = 0 BY DEF Idle, Runs
  <2>2. Go(p, r) /\ gens' = gens /\ holder' = p BY <1>3 DEF Begin
  <2> HIDE DEF r
  <2> QED BY <1>0, <1>2, <2>1, <2>2 DEF AtWork
<1>4. CASE ReadCurrent(p)
  <2>1. PICK pc \in {"build", "repairArtifact", "repairPointer"} :
           Go(p, [pub[p] EXCEPT !.cur = Current, !.pc = pc])
    BY <1>4 DEF ReadCurrent
  <2> DEFINE r == [pub[p] EXCEPT !.cur = Current, !.pc = pc]
  <2>2. r \in Runs /\ r.pc = pc /\ r.cur = Current BY <1>0 DEF Runs, AtWork
  <2>3. Go(p, r) /\ gens' = gens /\ holder' = holder /\ holder = p BY <1>4, <2>1 DEF ReadCurrent
  <2> HIDE DEF r
  <2> QED BY <1>0, <1>2, <2>2, <2>3
<1>5. CASE (RepairArtifact(p) /\ ~Finish(p)) \/ WriteArtifact(p)
  <2>1. PICK pc \in {"repairPointer", "commit"} :
           /\ Go(p, [pub[p] EXCEPT !.pc = pc])
           /\ pub[p].pc = IF pc = "commit" THEN "artifact" ELSE "repairArtifact"
    BY <1>5 DEF RepairArtifact, WriteArtifact, In
  <2> DEFINE r == [pub[p] EXCEPT !.pc = pc]
  <2>2. r \in Runs /\ r.pc = pc /\ r.cur = pub[p].cur /\ r.target = pub[p].target
    BY <1>0 DEF Runs, AtWork
  <2>3. Go(p, r) /\ gens' = gens /\ holder' = holder
    BY <1>5, <2>1 DEF RepairArtifact, WriteArtifact
  <2> HIDE DEF r
  <2> QED BY <1>0, <1>2, <2>1, <2>2, <2>3 DEF RunKnows, AtWork, Runs
<1>6. CASE Resume(p)
  <2> DEFINE r == [pub[p] EXCEPT !.pc = "artifact", !.target = pub[p].cur + 1]
  <2>1. r \in Runs BY <1>0, Targets
  <2>2. r.pc = "artifact" /\ r.cur = pub[p].cur /\ r.target = pub[p].cur + 1 BY <1>0 DEF Runs
  <2>3. Go(p, r) /\ gens' = gens /\ holder' = holder /\ holder = p /\ In(p, "build")
        /\ Len(gens) > pub[p].cur
    BY <1>6 DEF Resume
  <2> HIDE DEF r
  <2> QED BY <1>0, <1>2, <2>1, <2>2, <2>3 DEF RunKnows, AtWork, Runs, In
<1>7. ASSUME NEW deletions \in SUBSET Entries, Prepare(p, deletions)
      PROVE  Ledger' /\ \A q \in Publishers : RunKnows(q)'
  <2> DEFINE r == [pub[p] EXCEPT !.pc = "artifact", !.target = Len(gens) + 1]
  <2>1. r \in Runs BY <1>0, Targets
  <2>2. r.pc = "artifact" /\ r.cur = pub[p].cur /\ r.target = Len(gens) + 1 BY <1>0 DEF Runs
  <2>3. Go(p, r) /\ holder' = holder /\ holder = p /\ In(p, "build") /\ Len(gens) = pub[p].cur
        /\ gens' = Append(gens, Candidate(deletions))
    BY <1>7 DEF Prepare
  <2> HIDE DEF r
  <2>4. pub[p].cur = Current BY <1>0, <2>3 DEF RunKnows, AtWork, In
  <2>5. Current' = Current /\ Len(gens') = Len(gens) + 1 /\ Ledger'
    BY <1>0, <2>3, <2>4, CandidateTyped, Prepared
  <2>6. pub'[p] = r /\ \A q \in Publishers \ {p} : pub'[q] = pub[q]
    BY <1>0, <2>1, <2>3, GoTyped
  <2>7. RunKnows(p)' BY <1>0, <2>2, <2>3, <2>4, <2>5, <2>6 DEF RunKnows, AtWork
  <2>8. Advanced BY <1>0, <2>5 DEF Advanced
  <2> QED BY <1>0, <2>3, <2>5, <2>6, <2>7, <2>8, OneMoves
<1>8. CASE Commit(p)
  <2> DEFINE r == [pub[p] EXCEPT !.pc = "pointer"]
  <2>1. r \in Runs /\ r.pc = "pointer" /\ r.cur = pub[p].cur /\ r.target = pub[p].target
    BY <1>0 DEF Runs
  <2>2. Go(p, r) /\ holder' = holder /\ holder = p /\ In(p, "commit")
        /\ MakeCurrent(pub[p].target)
    BY <1>8 DEF Commit, Publish
  <2> HIDE DEF r
  <2>3. pub[p].target \in 1 .. Len(gens) /\ pub[p].target = Current + 1
    BY <1>0, <2>2 DEF In, RunKnows, Runs, AtWork
  <2>4. Current' = pub[p].target /\ Len(gens') = Len(gens) /\ Ledger'
    BY <2>2, <2>3, MadeCurrent
  <2>5. pub'[p] = r /\ \A q \in Publishers \ {p} : pub'[q] = pub[q]
    BY <1>0, <2>1, <2>2, GoTyped
  <2>6. RunKnows(p)' BY <1>0, <2>1, <2>2, <2>3, <2>4, <2>5 DEF RunKnows, AtWork, In
  <2>7. Advanced BY <1>0, <2>3, <2>4 DEF Advanced
  <2> QED BY <1>0, <2>2, <2>4, <2>5, <2>6, <2>7, OneMoves
<1> QED BY <1>1, <1>3, <1>4, <1>5, <1>6, <1>7, <1>8 DEF RunNext

LEMMA NextGrounded == ASSUME Grounded, [ProjectionNext]_projectionVars PROVE Grounded'
<1>1. ASSUME gens' = gens, pub' = pub, holder' \in {holder, None}
      PROVE  Ledger' /\ \A q \in Publishers : RunKnows(q)'
  BY <1>1, SameLedger, BystanderKnows, LedgerStays, NoneAssumption DEF Grounded
<1>2. CASE RegistryNext \/ DaemonStart \/ Poll \/ DaemonStop \/ LoseFile \/ UNCHANGED projectionVars
  BY <1>1, <1>2, NextTyped DEF RegistryNext, Register, SetAvailable, Degrade, Retire, SetVisibility,
     Edit, GraceElapses, DaemonStart, Poll, DaemonStop, LoseFile, projectionVars, Grounded
<1>3. ASSUME NEW p \in Publishers, LoseSession(p) PROVE Ledger' /\ \A q \in Publishers : RunKnows(q)'
  BY <1>1, <1>3 DEF LoseSession
<1>4. ASSUME NEW p \in Publishers, Die(p) PROVE Ledger' /\ \A q \in Publishers : RunKnows(q)'
  BY <1>4, FinishKnows, LedgerStays DEF Die, Grounded
<1> QED BY <1>2, <1>3, <1>4, RunNextKnows, NextTyped DEF ProjectionNext, FaultNext, Grounded

LEMMA InitGrounded == ProjectionInit => Grounded /\ Current = 0
<1> SUFFICES ASSUME ProjectionInit PROVE Grounded /\ Current = 0 OBVIOUS
<1>1. gens = << >> /\ gens \in Seq(Generations) /\ Len(gens) = 0 BY DEF ProjectionInit
<1>2. Current = 0
  <2>1. 0 \in 0 .. Len(gens) /\ \A i \in 1 .. Len(gens) : gens[i].state = "current" <=> i = 0
    BY <1>1
  <2>2. CurrentOf(gens) = 0 BY <1>1, <2>1, TheCurrentOne
  <2> QED BY <2>2, CurrentIs
<1>3. Ledger BY <1>1, <1>2 DEF Ledger, LedgerAt
<1>4. PublicationTypeOK
  BY <1>1, ProjectionBounds DEF ProjectionInit, PublicationTypeOK, Visibilities, Idle, Runs
<1>5. \A p \in Publishers : RunKnows(p)
  BY <1>2, NoneAssumption DEF ProjectionInit, RunKnows, Idle, AtWork
<1> QED BY <1>2, <1>3, <1>4, <1>5 DEF Grounded

\* What every publisher run knows holds when it acts on it, and the generations of the
\* ledger are in the states of their order, whoever dies or loses its session.
THEOREM RunsGrounded == ProjectionSpec => []Grounded
BY InitGrounded, NextGrounded, PTL DEF ProjectionSpec

-----------------------------------------------------------------------------
(* The steps of the ledger.                                                 *)

\* One transaction prepares a generation; another makes it the current one.
LEMMA PrepareStep ==
    ASSUME Grounded, NEW p \in Publishers, NEW deletions \in SUBSET Entries, Prepare(p, deletions)
    PROVE  /\ Len(gens) = Current /\ pub[p].cur = Current /\ Current' = Current
           /\ Len(gens') = Len(gens) + 1 /\ DOMAIN gens' = 1 .. Len(gens')
           /\ \A i \in 1 .. Len(gens) : gens'[i] = gens[i]
           /\ gens'[Len(gens')] = Candidate(deletions)
<1>1. Len(gens) = Current /\ pub[p].cur = Current /\ gens' = Append(gens, Candidate(deletions))
  BY DEF Prepare, Grounded, RunKnows, AtWork, In
<1>2. Candidate(deletions) \in Generations /\ Candidate(deletions).state = "prepared"
  BY CandidateTyped DEF Grounded
<1> QED BY <1>1, <1>2, Prepared

LEMMA CommitStep ==
    ASSUME Grounded, NEW p \in Publishers, Commit(p)
    PROVE  /\ Len(gens) = Current + 1 /\ pub[p].target = Len(gens)
           /\ Current' = Len(gens) /\ Len(gens') = Len(gens) /\ DOMAIN gens' = 1 .. Len(gens')
           /\ \A i \in 1 .. Len(gens) : /\ gens'[i].entries = gens[i].entries
                                        /\ gens'[i].deletions = gens[i].deletions
<1>1. pub[p].target \in 1 .. Len(gens) /\ pub[p].target = Current + 1
  BY CurrentTyped
  DEF Commit, In, Grounded, RunKnows, PublicationTypeOK, Runs, AtWork
<1> QED BY <1>1, MadeCurrent DEF Commit, Publish

\* Nothing else touches the ledger.
LEMMA OtherStep ==
    ASSUME [ProjectionNext]_projectionVars, ~\E p \in Publishers : Commit(p),
           ~\E p \in Publishers, deletions \in SUBSET Entries : Prepare(p, deletions)
    PROVE  gens' = gens
BY DEF ProjectionNext, RegistryNext, Register, SetAvailable, Degrade, Retire,
   SetVisibility, Edit, GraceElapses, DaemonStart, Poll, FaultNext, DaemonStop, LoseFile, Die,
   LoseSession, projectionVars, RunNext, Begin, SessionLost, ReadCurrent, RepairArtifact,
   RepairPointer, Resume, Decline, WriteArtifact, WritePointer

-----------------------------------------------------------------------------
(* The directory and the daemon.                                            *)

\* The current generation never goes back.
LEMMA CurrentAdvances ==
    ASSUME Grounded, [ProjectionNext]_projectionVars
    PROVE  Advanced
BY PrepareStep, CommitStep, OtherStep, SameLedger, CurrentTyped DEF Advanced

\* A step leaves the pointer, removes it, or names a committed generation.
LEMMA PointerWritten ==
    ASSUME Grounded, [ProjectionNext]_projectionVars
    PROVE  \/ pointer' \in {pointer, 0}
           \/ \E p \in Publishers : /\ RepairPointer(p) \/ WritePointer(p)
                                    /\ pointer' <= Current
<1>1. ASSUME NEW p \in Publishers, RepairPointer(p) \/ WritePointer(p) PROVE pointer' <= Current
  BY <1>1 DEF RepairPointer, WritePointer, In, Grounded, RunKnows
<1> QED BY <1>1 DEF ProjectionNext, RegistryNext, Register, SetAvailable, Degrade, Retire,
       SetVisibility, Edit, GraceElapses, DaemonStart, Poll, FaultNext, DaemonStop, LoseFile, Die,
       LoseSession, projectionVars, RunNext, Begin, SessionLost, ReadCurrent, RepairArtifact,
       Resume, Decline, Prepare, WriteArtifact, Commit, directory

LEMMA ServingTaken ==
    ASSUME [ProjectionNext]_projectionVars
    PROVE  serving' \in {serving, pointer, 0}
BY DEF ProjectionNext, RegistryNext, Register, SetAvailable, Degrade, Retire,
       SetVisibility, Edit, GraceElapses, DaemonStart, Poll, FaultNext, DaemonStop, LoseFile, Die,
       LoseSession, projectionVars, RunNext, Begin, SessionLost, ReadCurrent, RepairArtifact,
       RepairPointer, Resume, Decline, Prepare, WriteArtifact, Commit, WritePointer

\* What a daemon can see or serves has been committed in the database.
THEOREM DirectoryNeverAheadSound == ProjectionSpec => []DirectoryNeverAhead
<1>1. ProjectionInit => DirectoryNeverAhead
  BY InitGrounded DEF ProjectionInit, DirectoryNeverAhead
<1>2. ASSUME Grounded, DirectoryNeverAhead, [ProjectionNext]_projectionVars
      PROVE  DirectoryNeverAhead'
  <2>1. pointer \in Nat /\ serving \in Nat /\ pointer' \in Nat /\ serving' \in Nat
    BY <1>2, NextTyped DEF Grounded, PublicationTypeOK
  <2>2. Current \in Nat /\ Current' \in Nat /\ Current <= Current'
    BY <1>2, CurrentTyped, CurrentAdvances DEF Advanced
  <2>3. pointer' <= Current
    BY <1>2, <2>1, <2>2, PointerWritten DEF DirectoryNeverAhead
  <2>4. serving' <= Current
    BY <1>2, <2>1, <2>2, ServingTaken DEF DirectoryNeverAhead
  <2> QED BY <2>1, <2>2, <2>3, <2>4 DEF DirectoryNeverAhead
<1> QED BY <1>1, <1>2, RunsGrounded, PTL DEF ProjectionSpec

-----------------------------------------------------------------------------
(* The chain of generations.                                                *)

LEMMA ElapsedGrows == [ProjectionNext]_projectionVars => elapsed \subseteq elapsed'
BY DEF ProjectionNext, RegistryNext, Register, SetAvailable, Degrade, Retire,
       SetVisibility, Edit, GraceElapses, DaemonStart, Poll, FaultNext, DaemonStop, LoseFile, Die,
       LoseSession, projectionVars, RunNext, Begin, SessionLost, ReadCurrent, RepairArtifact,
       RepairPointer, Resume, Decline, Prepare, WriteArtifact, Commit, WritePointer

\* Once admissible, for ever admissible: deadlines only pass.
LEMMA StaysAdmissible ==
    ASSUME NEW n, Succeeds(gens[n - 1], gens[n]), elapsed \subseteq elapsed',
           gens'[n - 1].entries = gens[n - 1].entries,
           gens'[n].entries = gens[n].entries, gens'[n].deletions = gens[n].deletions
    PROVE  Succeeds(gens[n - 1], gens[n])'
BY DEF Succeeds, Listed, MayBeDeleted

\* Every generation is one that a daemon serving its predecessor admits.
THEOREM ChainAdmissibleSound == ProjectionSpec => []ChainAdmissible
<1>1. ProjectionInit => ChainAdmissible
  BY DEF ProjectionInit, ChainAdmissible
<1>2. ASSUME Grounded, ChainAdmissible, [ProjectionNext]_projectionVars
      PROVE  ChainAdmissible'
  <2> USE CurrentTyped
  <2>0. elapsed \subseteq elapsed' BY <1>2, ElapsedGrows
  <2>1. CASE gens' = gens
    <3>1. ASSUME NEW n \in 2 .. Len(gens) PROVE Succeeds(gens[n - 1], gens[n])'
      BY <1>2, <2>0, <2>1, StaysAdmissible DEF ChainAdmissible
    <3> QED BY <2>1, <3>1 DEF ChainAdmissible
  <2>2. ASSUME NEW p \in Publishers, NEW deletions \in SUBSET Entries, Prepare(p, deletions)
        PROVE  ChainAdmissible'
    <3>0. /\ Len(gens) = Current /\ pub[p].cur = Current /\ Current' = Current
          /\ Len(gens') = Len(gens) + 1 /\ DOMAIN gens' = 1 .. Len(gens')
          /\ \A i \in 1 .. Len(gens) : gens'[i] = gens[i]
          /\ gens'[Len(gens')] = Candidate(deletions)
      BY <1>2, <2>2, PrepareStep
    <3>1. ASSUME NEW n \in 2 .. Len(gens) PROVE Succeeds(gens[n - 1], gens[n])'
      <4>1. gens'[n] = gens[n] /\ gens'[n - 1] = gens[n - 1] BY <1>2, <3>0
      <4> QED BY <1>2, <2>0, <4>1, StaysAdmissible DEF ChainAdmissible
    <3>2. ASSUME NEW n \in Nat, n = Len(gens) + 1, n >= 2 PROVE Succeeds(gens[n - 1], gens[n])'
      <4>1. gens'[n] = Candidate(deletions) /\ gens'[n - 1] = gens[Current] /\ Current > 0
        BY <1>2, <3>0, <3>2
      <4>2. Succeeds(gens[Current], Candidate(deletions)) /\ UNCHANGED elapsed
        BY <2>2, <3>0, <4>1 DEF Prepare, Admissible
      <4> QED BY <4>1, <4>2 DEF Succeeds, Listed, MayBeDeleted
    <3>3. \A n \in 2 .. Len(gens') : n \in 2 .. Len(gens) \/ (n = Len(gens) + 1 /\ n >= 2)
      BY <1>2, <3>0
    <3> QED BY <1>2, <3>1, <3>2, <3>3 DEF ChainAdmissible
  <2>3. ASSUME NEW p \in Publishers, Commit(p) PROVE ChainAdmissible'
    <3>0. /\ Len(gens) = Current + 1 /\ pub[p].target = Len(gens)
          /\ Current' = Len(gens) /\ Len(gens') = Len(gens) /\ DOMAIN gens' = 1 .. Len(gens')
          /\ \A i \in 1 .. Len(gens) : /\ gens'[i].entries = gens[i].entries
                                       /\ gens'[i].deletions = gens[i].deletions
      BY <1>2, <2>3, CommitStep
    <3>1. ASSUME NEW n \in 2 .. Len(gens) PROVE Succeeds(gens[n - 1], gens[n])'
      <4>1. n \in 1 .. Len(gens) /\ n - 1 \in 1 .. Len(gens) BY <1>2
      <4> QED BY <1>2, <2>0, <3>0, <4>1, StaysAdmissible DEF ChainAdmissible
    <3> QED BY <3>0, <3>1 DEF ChainAdmissible
  <2> QED BY <1>2, <2>1, <2>2, <2>3, OtherStep
<1> QED BY <1>1, <1>2, RunsGrounded, PTL DEF ProjectionSpec

-----------------------------------------------------------------------------
(* Deletions and retirements.                                               *)

Deleted(e) == {n \in DOMAIN gens : e \in gens[n].deletions}

\* What a prepared generation is about to delete.
Pending == IF Len(gens) > Current THEN gens[Len(gens)].deletions ELSE {}

\* A live retiring entry that no prepared generation names has a retirement to spare.
Spare(e) ==
    /\ Cardinality(Deleted(e)) <= declared[e]
    /\ visibility[e] = "retiring" /\ e \notin tombs \cup Pending =>
          Cardinality(Deleted(e)) < declared[e]

RetireInv == \A e \in Entries : Spare(e)

LEMMA Counted ==
    ASSUME Grounded, NEW e
    PROVE  /\ IsFiniteSet(Deleted(e)) /\ Cardinality(Deleted(e)) \in Nat
           /\ Deleted(e) \subseteq 1 .. Len(gens)
<1>1. Deleted(e) \in SUBSET (1 .. Len(gens)) /\ Len(gens) \in Nat
  BY DEF Deleted, Grounded, PublicationTypeOK
<1>2. IsFiniteSet(1 .. Len(gens)) BY <1>1, FS_Interval
<1>3. IsFiniteSet(Deleted(e)) BY <1>1, <1>2, FS_Subset
<1> QED BY <1>1, <1>3, FS_CardinalityType

LEMMA SpareStays ==
    ASSUME Grounded, NEW e \in Entries, Spare(e), gens' = gens,
           declared'[e] = declared[e],
           visibility'[e] = "retiring" /\ e \notin tombs' =>
               visibility[e] = "retiring" /\ e \notin tombs
    PROVE  Spare(e)'
BY SameGens DEF Spare, Deleted, Pending

LEMMA RegistrySpares ==
    ASSUME Grounded, RetireInv, RegistryNext
    PROVE  RetireInv'
<1>0. /\ visibility \in [Entries -> Visibilities \cup {None}]
      /\ declared \in [Entries -> Nat] /\ tombs \subseteq Entries
  BY DEF Grounded, PublicationTypeOK
<1>1. ASSUME NEW e \in Entries, Register(e) \/ SetAvailable(e) \/ Degrade(e),
             NEW f \in Entries
      PROVE  Spare(f)'
  <2>1. /\ visibility'[e] # "retiring" /\ gens' = gens /\ declared' = declared
        /\ f # e => visibility'[f] = visibility[f] /\ (f \in tombs' <=> f \in tombs)
    BY <1>0, <1>1 DEF Register, SetAvailable, Degrade, SetVisibility, Edit
  <2> QED BY <2>1, SpareStays DEF RetireInv
<1>2. ASSUME NEW e \in Entries, NEW r \in Retirements, Retire(e, r), NEW f \in Entries
      PROVE  Spare(f)'
  <2>1. /\ gens' = gens /\ tombs' = tombs
        /\ f # e => visibility'[f] = visibility[f] /\ declared'[f] = declared[f]
        /\ declared'[e] = declared[e] + 1
    BY <1>0, <1>2 DEF Retire, SetVisibility, Edit
  <2>2. CASE f # e BY <2>1, <2>2, SpareStays DEF RetireInv
  <2>3. CASE f = e
    <3>1. Deleted(e)' = Deleted(e) BY <2>1 DEF Deleted
    <3>2. Cardinality(Deleted(e)) \in Nat /\ declared[e] \in Nat BY <1>0, Counted
    <3>3. Cardinality(Deleted(e)) <= declared[e] BY DEF RetireInv, Spare
    <3> QED BY <2>1, <2>3, <3>1, <3>2, <3>3 DEF Spare
  <2> QED BY <2>2, <2>3
<1>3. ASSUME NEW r \in Retirements, GraceElapses(r), NEW f \in Entries PROVE Spare(f)'
  BY <1>3, SpareStays DEF GraceElapses, registry, history, RetireInv
<1> QED BY <1>1, <1>2, <1>3 DEF RegistryNext, RetireInv

LEMMA PrepareSpares ==
    ASSUME Grounded, RetireInv, NEW p \in Publishers, NEW deletions \in SUBSET Entries,
           Prepare(p, deletions), NEW e \in Entries
    PROVE  Spare(e)'
<1>9. /\ Len(gens) = Current /\ pub[p].cur = Current /\ Current' = Current
      /\ Len(gens') = Len(gens) + 1 /\ DOMAIN gens' = 1 .. Len(gens')
      /\ \A i \in 1 .. Len(gens) : gens'[i] = gens[i]
      /\ gens'[Len(gens')] = Candidate(deletions)
  BY PrepareStep
<1>0. /\ Len(gens) \in Nat /\ DOMAIN gens = 1 .. Len(gens) /\ declared[e] \in Nat
      /\ gens'[Len(gens')].deletions = deletions
  BY <1>9, CandidateTyped DEF Grounded, PublicationTypeOK
<1>1. /\ visibility' = visibility /\ tombs' = tombs /\ declared' = declared
      /\ e \in deletions => visibility[e] = "retiring" /\ e \notin tombs
  BY CandidateTyped
  DEF Prepare, Admissible, MayBeDeleted, registry, history, Grounded
<1>2. Pending = {} /\ Pending' = deletions
  BY <1>9, <1>0 DEF Pending
<1>3. CASE e \in deletions
  <2>1. Deleted(e)' = Deleted(e) \cup {Len(gens) + 1} /\ Len(gens) + 1 \notin Deleted(e)
    BY <1>9, <1>0, <1>3 DEF Deleted
  <2>2. Cardinality(Deleted(e)') = Cardinality(Deleted(e)) + 1
    BY <2>1, Counted, FS_AddElement
  <2>3. Cardinality(Deleted(e)) < declared[e]
    BY <1>1, <1>2, <1>3 DEF RetireInv, Spare
  <2> QED BY <1>0, <1>1, <1>2, <1>3, <2>2, <2>3, Counted DEF Spare
<1>4. CASE e \notin deletions
  <2>1. Deleted(e)' = Deleted(e)
    BY <1>9, <1>0, <1>4 DEF Deleted
  <2> QED BY <1>1, <1>2, <2>1 DEF RetireInv, Spare
<1> QED BY <1>3, <1>4

LEMMA CommitSpares ==
    ASSUME Grounded, RetireInv, NEW p \in Publishers, Commit(p), NEW e \in Entries
    PROVE  Spare(e)'
<1>9. /\ Len(gens) = Current + 1 /\ pub[p].target = Len(gens)
      /\ Current' = Len(gens) /\ Len(gens') = Len(gens) /\ DOMAIN gens' = 1 .. Len(gens')
      /\ \A i \in 1 .. Len(gens) : /\ gens'[i].entries = gens[i].entries
                                   /\ gens'[i].deletions = gens[i].deletions
  BY CommitStep
<1>0. Len(gens) \in Nat /\ DOMAIN gens = 1 .. Len(gens) /\ Current \in Nat
  BY CurrentTyped DEF Grounded, PublicationTypeOK
<1>1. Pending = gens[Len(gens)].deletions /\ Pending' = {}
  BY <1>9, <1>0 DEF Pending
<1>2. Deleted(e)' = Deleted(e)
  BY <1>9, <1>0 DEF Deleted
<1>3. visibility' = visibility /\ declared' = declared /\ tombs' = tombs \cup Pending
  BY <1>9, <1>1 DEF Commit, Publish, history
<1> QED BY <1>1, <1>2, <1>3 DEF RetireInv, Spare

\* An entry leaves the namespace at most once for each time it was retired.
THEOREM DeletionSound == ProjectionSpec => []OneDeletionPerRetirement
<1>1. ProjectionInit => RetireInv
  <2> SUFFICES ASSUME ProjectionInit, NEW e \in Entries PROVE Spare(e)
    BY DEF RetireInv
  <2>1. Deleted(e) = {} BY DEF ProjectionInit, Deleted
  <2>2. Cardinality(Deleted(e)) = 0 BY <2>1, FS_EmptySet
  <2>3. visibility[e] # "retiring" /\ declared[e] = 0 BY DEF ProjectionInit, None
  <2> QED BY <2>2, <2>3 DEF Spare
<1>2. ASSUME Grounded, RetireInv, [ProjectionNext]_projectionVars PROVE RetireInv'
  <2>1. CASE RegistryNext BY <1>2, <2>1, RegistrySpares
  <2>2. CASE \E p \in Publishers : Commit(p) BY <1>2, <2>2, CommitSpares DEF RetireInv
  <2>3. CASE \E p \in Publishers, deletions \in SUBSET Entries : Prepare(p, deletions)
    BY <1>2, <2>3, PrepareSpares DEF RetireInv
  <2>4. CASE /\ ~RegistryNext /\ ~\E p \in Publishers : Commit(p)
             /\ ~\E p \in Publishers, deletions \in SUBSET Entries : Prepare(p, deletions)
    <3>1. UNCHANGED <<gens, visibility, tombs, declared>>
      BY <1>2, <2>4 DEF ProjectionNext, DaemonStart, Poll, FaultNext, DaemonStop, LoseFile, Die,
         LoseSession, projectionVars, RunNext, Begin, SessionLost, ReadCurrent, RepairArtifact,
         RepairPointer, Resume, Decline, WriteArtifact, WritePointer, registry, history
    <3> QED BY <1>2, <3>1, SpareStays DEF RetireInv
  <2> QED BY <2>1, <2>2, <2>3, <2>4
<1>3. RetireInv => OneDeletionPerRetirement
  BY DEF RetireInv, Spare, Deleted, OneDeletionPerRetirement
<1> QED BY <1>1, <1>2, <1>3, RunsGrounded, PTL DEF ProjectionSpec

-----------------------------------------------------------------------------
(* The pace of the daemon.                                                  *)

Paced == paced /\ serving > 0

\* A run that may build has found the pointer at the current generation (or lost it
\* since), and a daemon that was up to date when it began there as well.
RunPaced(p) ==
    /\ pub[p].pc \in {"build", "artifact", "commit"} =>
          pointer \in {0, Current} /\ (Paced => serving = Current)
    /\ In(p, "read") /\ Readable /\ Paced => serving = pointer

\* No session was lost under a write: whoever runs holds the lock.
InPace ==
    /\ \A p \in Publishers : ~In(p, "idle") => holder = p /\ RunPaced(p)
    /\ pointer = 0 \/ Current <= pointer + 1
    /\ Paced => Current <= serving + 1

OutrunInv ==
    /\ left.sessions <= Bounds.sessions
    /\ left.sessions = Bounds.sessions => InPace

Known == Grounded /\ DirectoryNeverAhead

LEMMA Numbers ==
    ASSUME Known
    PROVE  /\ Current \in Nat /\ pointer \in Nat /\ serving \in Nat
           /\ pointer <= Current /\ serving <= Current
           /\ left.sessions \in Nat /\ Bounds.sessions \in Nat
<1>1. left \in Budget /\ Bounds \in Budget
  BY ProjectionBounds DEF Known, Grounded, PublicationTypeOK
<1>2. left.sessions \in Nat /\ Bounds.sessions \in Nat BY <1>1 DEF Budget
<1> QED BY <1>2, CurrentTyped DEF Known, DirectoryNeverAhead, Grounded, PublicationTypeOK

\* Only a lost session is counted as one.
LEMMA SessionsSpent ==
    ASSUME Known, [ProjectionNext]_projectionVars
    PROVE  IF \E p \in Publishers : LoseSession(p)
           THEN left'.sessions < left.sessions
           ELSE left'.sessions = left.sessions
<1>0. left \in Budget BY DEF Known, Grounded, PublicationTypeOK
<1>1. ASSUME NEW what \in {"edits", "deaths", "stops", "files"}, Spend(what)
      PROVE  left'.sessions = left.sessions
  <2>1. left' = [left EXCEPT ![what] = left[what] - 1] BY <1>1 DEF Spend
  <2> QED BY <1>0, <1>1, <2>1 DEF Budget
<1>2. ASSUME Spend("sessions") PROVE left'.sessions < left.sessions
  <2>1. left' = [left EXCEPT !["sessions"] = left["sessions"] - 1] BY <1>2 DEF Spend
  <2>2. left["sessions"] = left.sessions /\ left.sessions \in Nat BY <1>0 DEF Budget
  <2>3. left'.sessions = left.sessions - 1 BY <1>0, <2>1, <2>2 DEF Budget
  <2> QED BY <2>2, <2>3
<1>3. ASSUME RegistryNext PROVE left'.sessions = left.sessions
  BY <1>1, <1>3 DEF RegistryNext, Register, SetAvailable, Degrade, Retire, SetVisibility, Edit,
     GraceElapses
<1>4. ASSUME \E p \in Publishers : LoseSession(p) PROVE left'.sessions < left.sessions
  BY <1>2, <1>4 DEF LoseSession
<1>5. ASSUME DaemonStop \/ LoseFile \/ \E p \in Publishers : Die(p)
      PROVE  left'.sessions = left.sessions
  BY <1>1, <1>5 DEF DaemonStop, LoseFile, Die
<1>6. ASSUME ~RegistryNext, ~FaultNext PROVE left'.sessions = left.sessions
  <2>1. left' = left
    BY <1>6 DEF ProjectionNext, DaemonStart, Poll, projectionVars, RunNext, Begin,
       SessionLost, ReadCurrent, RepairArtifact, RepairPointer, Resume, Decline, Prepare,
       WriteArtifact, Commit, WritePointer
  <2> QED BY <2>1
<1>7. left.sessions \in Nat BY <1>0 DEF Budget
<1> QED BY <1>3, <1>4, <1>5, <1>6, <1>7 DEF FaultNext

LEMMA PaceStays ==
    ASSUME InPace, UNCHANGED <<pub, holder, pointer, artifacts, gens, serving, paced>>
    PROVE  InPace'
<1>1. Current' = Current BY SameGens
<1> QED BY <1>1 DEF InPace, RunPaced, In, Readable, Paced

\* One run moves: while it is not idle everybody else is.
LEMMA PaceMoves ==
    ASSUME InPace, NEW p \in Publishers, ~In(p, "idle") \/ holder = None,
           \A q \in Publishers \ {p} : pub'[q] = pub[q],
           pub'[p].pc = "idle" \/ (holder' = p /\ RunPaced(p)'),
           pointer' = 0 \/ Current' <= pointer' + 1,
           Paced' => Current' <= serving' + 1
    PROVE  InPace'
<1>1. ASSUME NEW q \in Publishers \ {p} PROVE pub'[q].pc = "idle"
  <2>1. pub[q].pc = "idle" BY NoneAssumption DEF InPace, In
  <2> QED BY <2>1
<1> QED BY <1>1 DEF InPace, In

LEMMA RunKeepsPace ==
    ASSUME Known, InPace, NEW p \in Publishers, RunNext(p)
    PROVE  InPace'
<1>0. /\ Grounded /\ PublicationTypeOK /\ RunKnows(p)
      /\ pub[p] \in Runs /\ pub \in [Publishers -> Runs]
      /\ Current \in Nat /\ pointer \in Nat /\ serving \in Nat
      /\ pointer <= Current /\ serving <= Current
  BY Numbers DEF Known, Grounded, PublicationTypeOK
<1>1. CASE Begin(p)
  <2>1. /\ pub'[p].pc = "read" /\ \A q \in Publishers \ {p} : pub'[q] = pub[q]
        /\ UNCHANGED <<gens, pointer, artifacts, serving>> /\ holder' = p /\ holder = None
        /\ paced' => paced /\ (Readable => serving \in {0, pointer})
    BY <1>0, <1>1 DEF Begin, Go, Idle, directory
  <2>2. Current' = Current /\ (Readable' <=> Readable) /\ (Paced' => Paced)
    BY <2>1, SameGens DEF Readable, Paced
  <2>3. RunPaced(p)'
    BY <1>0, <2>1, <2>2 DEF RunPaced, Paced, In
  <2>4. /\ pointer' = 0 \/ Current' <= pointer' + 1
        /\ Paced' => Current' <= serving' + 1
    BY <2>1, <2>2 DEF InPace
  <2> QED BY <2>1, <2>3, <2>4, PaceMoves
<1>2. ASSUME Finish(p), ~In(p, "idle"), UNCHANGED <<gens, serving, paced>>,
             pointer' \in {pointer, Current}
      PROVE  InPace'
  <2>1. pub'[p].pc = "idle" /\ \A q \in Publishers \ {p} : pub'[q] = pub[q]
    BY <1>0, <1>2, FinishTyped DEF Idle
  <2>2. Current' = Current /\ (Paced' <=> Paced) BY <1>2, SameGens DEF Paced
  <2>3. pointer' = 0 \/ Current' <= pointer' + 1
    <3>1. pointer = 0 \/ Current <= pointer + 1 BY DEF InPace
    <3>2. Current <= Current + 1 BY <1>0
    <3> QED BY <1>2, <2>2, <3>1, <3>2
  <2>4. Paced' => Current' <= serving' + 1
    BY <1>2, <2>2 DEF InPace
  <2> QED BY <1>2, <2>1, <2>3, <2>4, PaceMoves
<1>3. CASE SessionLost(p) \/ Decline(p) \/ (RepairArtifact(p) /\ Finish(p))
  BY <1>2, <1>3 DEF SessionLost, Decline, RepairArtifact, In, directory, history
<1>4. CASE RepairPointer(p) \/ WritePointer(p)
  <2>1. holder = p /\ pointer' = Current
    BY <1>0, <1>4 DEF RepairPointer, WritePointer, In, InPace, RunKnows, AtWork
  <2> QED BY <1>2, <1>4, <2>1 DEF RepairPointer, WritePointer, In, history
<1>5. ASSUME NEW pc \in {"build", "repairArtifact", "repairPointer", "artifact", "commit"},
             pub'[p].pc = pc, \A q \in Publishers \ {p} : pub'[q] = pub[q],
             UNCHANGED <<holder, pointer, serving, paced>>, Current' = Current, ~In(p, "idle"),
             pc \in {"build", "artifact", "commit"} =>
                pointer \in {0, Current} /\ (Paced => serving = Current)
      PROVE  InPace'
  <2>1. (Paced' <=> Paced) /\ holder' = p BY <1>5 DEF Paced, InPace
  <2>2. RunPaced(p)' BY <1>5, <2>1 DEF RunPaced, In
  <2>3. /\ pointer' = 0 \/ Current' <= pointer' + 1
        /\ Paced' => Current' <= serving' + 1
    BY <1>5, <2>1 DEF InPace
  <2> QED BY <1>5, <2>1, <2>2, <2>3, PaceMoves
<1>6. CASE ReadCurrent(p)
  <2>1. PICK pc \in {"build", "repairArtifact", "repairPointer"} :
           /\ Go(p, [pub[p] EXCEPT !.cur = Current, !.pc = pc])
           /\ pc = "build" => Current = 0 \/ (Current \in artifacts /\ pointer = Current)
    BY <1>6 DEF ReadCurrent
  <2>2. pub'[p].pc = pc /\ \A q \in Publishers \ {p} : pub'[q] = pub[q]
    BY <1>0, <2>1 DEF Go, Runs
  <2>3. pc = "build" => pointer \in {0, Current} /\ (Paced => serving = Current)
    BY <1>0, <1>6, <2>1 DEF ReadCurrent, In, InPace, RunPaced, Readable, Paced
  <2>4. UNCHANGED <<holder, pointer, serving, paced, gens>> /\ In(p, "read")
    BY <1>6 DEF ReadCurrent, directory, history
  <2> QED BY <1>5, <2>2, <2>3, <2>4, SameGens DEF In
<1>7. CASE (RepairArtifact(p) /\ ~Finish(p)) \/ WriteArtifact(p) \/ Resume(p)
  <2>1. PICK pc \in {"repairPointer", "commit", "artifact"} :
           /\ pub'[p].pc = pc /\ \A q \in Publishers \ {p} : pub'[q] = pub[q]
           /\ pc \in {"artifact", "commit"} => pub[p].pc \in {"build", "artifact"}
    <3>1. CASE RepairArtifact(p) /\ ~Finish(p)
      <4>1. pub' = [pub EXCEPT ![p] = [pub[p] EXCEPT !.pc = "repairPointer"]]
        BY <3>1 DEF RepairArtifact, Go
      <4>2. /\ pub'[p].pc = "repairPointer"
            /\ \A q \in Publishers \ {p} : pub'[q] = pub[q]
        BY <1>0, <4>1 DEF Runs
      <4> QED BY <4>2
    <3>2. CASE WriteArtifact(p)
      <4>1. pub' = [pub EXCEPT ![p] = [pub[p] EXCEPT !.pc = "commit"]] /\ pub[p].pc = "artifact"
        BY <3>2 DEF WriteArtifact, Go, In
      <4>2. /\ pub'[p].pc = "commit"
            /\ \A q \in Publishers \ {p} : pub'[q] = pub[q]
        BY <1>0, <4>1 DEF Runs
      <4> QED BY <4>1, <4>2
    <3>3. CASE Resume(p)
      <4>1. /\ pub' = [pub EXCEPT ![p] = [pub[p] EXCEPT !.pc = "artifact",
                                                      !.target = pub[p].cur + 1]]
            /\ pub[p].pc = "build"
        BY <3>3 DEF Resume, Go, In
      <4>2. /\ pub'[p].pc = "artifact"
            /\ \A q \in Publishers \ {p} : pub'[q] = pub[q]
        BY <1>0, <4>1 DEF Runs
      <4> QED BY <4>1, <4>2
    <3> QED BY <1>7, <3>1, <3>2, <3>3
  <2>2. UNCHANGED <<holder, pointer, serving, paced, gens>> /\ ~In(p, "idle")
    BY <1>7 DEF RepairArtifact, WriteArtifact, Resume, directory, history, In
  <2>3. pc \in {"artifact", "commit"} =>
           pointer \in {0, Current} /\ (Paced => serving = Current)
    BY <2>1, <2>2 DEF InPace, RunPaced
  <2> QED BY <1>5, <2>1, <2>2, <2>3, SameGens
<1>8. ASSUME NEW deletions \in SUBSET Entries, Prepare(p, deletions) PROVE InPace'
  <2>1. pub'[p].pc = "artifact" /\ \A q \in Publishers \ {p} : pub'[q] = pub[q]
    BY <1>0, <1>8 DEF Prepare, Go, Runs
  <2>2. UNCHANGED <<holder, pointer, serving, paced>> /\ In(p, "build") /\ Current' = Current
    BY <1>0, <1>8, PrepareStep DEF Prepare, directory, history
  <2>3. pointer \in {0, Current} /\ (Paced => serving = Current)
    BY <2>2 DEF InPace, RunPaced, In
  <2> QED BY <1>5, <2>1, <2>2, <2>3 DEF In
<1>9. CASE Commit(p)
  <2>1. pub'[p].pc = "pointer" /\ \A q \in Publishers \ {p} : pub'[q] = pub[q]
    BY <1>0, <1>9 DEF Commit, Go, Runs
  <2>2. UNCHANGED <<holder, pointer, serving, paced>> /\ In(p, "commit") /\ Current' = Current + 1
    BY <1>0, <1>9, CommitStep DEF Commit, directory, history
  <2>3. pointer \in {0, Current} /\ (Paced => serving = Current) /\ holder = p
    BY <2>2 DEF InPace, RunPaced, In
  <2>4. RunPaced(p)' BY <2>1 DEF RunPaced, In
  <2>5. /\ pointer' = 0 \/ Current' <= pointer' + 1
        /\ Paced' => Current' <= serving' + 1
    BY <1>0, <2>2, <2>3 DEF Paced
  <2> QED BY <2>1, <2>2, <2>3, <2>4, <2>5, PaceMoves DEF In
<1> QED BY <1>1, <1>3, <1>4, <1>6, <1>7, <1>8, <1>9 DEF RunNext

LEMMA OthersKeepPace ==
    ASSUME Known, InPace, ~\E p \in Publishers : RunNext(p) \/ LoseSession(p),
           [ProjectionNext]_projectionVars
    PROVE  InPace'
<1>0. /\ Grounded /\ Current \in Nat /\ pointer \in Nat /\ serving \in Nat
  BY Numbers DEF Known
<1>1. CASE RegistryNext \/ UNCHANGED projectionVars
  BY <1>1, PaceStays DEF RegistryNext, Register, SetAvailable, Degrade, Retire, SetVisibility, Edit,
     GraceElapses, directory, history, projectionVars
<1>2. CASE DaemonStart \/ Poll
  <2>1. /\ serving' = pointer /\ UNCHANGED <<pub, holder, pointer, artifacts, gens>> /\ Readable
    BY <1>2 DEF DaemonStart, Poll, directory
  <2>2. Current' = Current /\ pointer > 0 BY <2>1, SameGens DEF Readable
  <2>3. Current <= pointer + 1 BY <2>2 DEF InPace
  <2>4. ASSUME NEW p \in Publishers, ~In(p, "idle")' PROVE holder' = p /\ RunPaced(p)'
    BY <1>0, <2>1, <2>2, <2>4 DEF InPace, RunPaced, In
  <2> QED BY <2>1, <2>2, <2>3, <2>4 DEF InPace
<1>3. CASE DaemonStop \/ LoseFile
  <2>1. /\ UNCHANGED <<pub, holder, gens, paced>> /\ pointer' \in {pointer, 0}
        /\ serving' \in {serving, 0} /\ (Readable' => Readable /\ pointer' = pointer)
    BY <1>0, <1>3 DEF DaemonStop, LoseFile, directory, history, Readable
  <2>2. Current' = Current /\ (Paced' => Paced /\ serving' = serving)
    BY <1>0, <2>1, SameGens DEF Paced
  <2>3. ASSUME NEW p \in Publishers, ~In(p, "idle")' PROVE holder' = p /\ RunPaced(p)'
    BY <2>1, <2>2, <2>3 DEF InPace, RunPaced, In
  <2> QED BY <2>1, <2>2, <2>3 DEF InPace
<1>4. ASSUME NEW p \in Publishers, Die(p) PROVE InPace'
  <2>1. pub'[p].pc = "idle" /\ \A q \in Publishers \ {p} : pub'[q] = pub[q]
    BY <1>0, <1>4, FinishTyped DEF Die, Idle, Grounded
  <2>2. UNCHANGED <<gens, pointer, serving, paced>> /\ ~In(p, "idle")
    BY <1>4 DEF Die, directory, history
  <2>3. Current' = Current /\ (Paced' <=> Paced) BY <2>2, SameGens DEF Paced
  <2>4. /\ pointer' = 0 \/ Current' <= pointer' + 1
        /\ Paced' => Current' <= serving' + 1
    BY <2>2, <2>3 DEF InPace
  <2> QED BY <2>1, <2>2, <2>4, PaceMoves
<1> QED BY <1>1, <1>2, <1>3, <1>4 DEF ProjectionNext, FaultNext

\* A daemon that polls between any two runs is never outrun.
THEOREM NeverOutrunSound == ProjectionSpec => []NeverOutrun
<1>1. ProjectionInit => OutrunInv
  <2> SUFFICES ASSUME ProjectionInit PROVE OutrunInv OBVIOUS
  <2>1. Current = 0 BY InitGrounded
  <2>2. Bounds.sessions \in Nat BY ProjectionBounds DEF Budget
  <2> QED BY <2>1, <2>2 DEF ProjectionInit, OutrunInv, InPace, In, Idle, Paced
<1>2. ASSUME Known, OutrunInv, [ProjectionNext]_projectionVars PROVE OutrunInv'
  <2>1. left.sessions \in Nat /\ Bounds.sessions \in Nat /\ left'.sessions \in Nat
    BY <1>2, Numbers, NextTyped DEF Known, PublicationTypeOK, Budget
  <2>2. CASE \E p \in Publishers : LoseSession(p)
    BY <1>2, <2>1, <2>2, SessionsSpent DEF OutrunInv
  <2>3. CASE ~\E p \in Publishers : LoseSession(p)
    <3>1. left'.sessions = left.sessions BY <1>2, <2>3, SessionsSpent
    <3>2. InPace => InPace' BY <1>2, <2>3, RunKeepsPace, OthersKeepPace
    <3> QED BY <1>2, <3>1, <3>2 DEF OutrunInv
  <2> QED BY <2>2, <2>3
<1>3. Known /\ OutrunInv => NeverOutrun
  BY Numbers DEF OutrunInv, InPace, Paced, NeverOutrun
<1>4. Known <=> Grounded /\ DirectoryNeverAhead BY DEF Known
<1> QED BY <1>1, <1>2, <1>3, <1>4, RunsGrounded, DirectoryNeverAheadSound, PTL DEF ProjectionSpec

=============================================================================
