------------------------------- MODULE ProbeCache -------------------------------
(***************************************************************************)
(* The probe cache of projectiond on its disk (internal/cache/cache.go,     *)
(* ProbeCache).  The table of entries is under a lock; the files are not:   *)
(* a Put renames its file into place before it takes the lock, a Remove     *)
(* unlinks after it has left it, and a Get reads the file with no lock.     *)
(* Only an eviction unlinks under the lock.  A restart adopts the files it  *)
(* finds.                                                                  *)
(*                                                                         *)
(* Every record is one unit of the budget.  An eviction takes records that  *)
(* no stream has pinned first, and of those the least recently used; the    *)
(* model keeps neither pins nor age here, and so takes any.                 *)
(***************************************************************************)
EXTENDS Integers, FiniteSets

CONSTANTS
    Records,     \* record names: a block of a byte identity each
    Workers,     \* goroutines that use the cache at once
    NoRecord,
    MaxTotal,    \* records the budget allows
    MaxRestarts, MaxDamage   \* bounds: restarts, records damaged on the disk

ASSUME ProbeAssumption ==
    NoRecord \notin Records /\ IsFiniteSet(Records) /\ MaxTotal \in Nat \ {0}

VARIABLES
    entries,   \* ProbeCache.entries: the records the table knows
    total,     \* ProbeCache.total
    files,     \* record files in the directory
    damaged,   \* those whose bytes no longer match their digest
    scraps,    \* temporary files in the directory, by the Put that wrote them
    work,      \* what each goroutine is in
    spent      \* restarts and damage so far

probeVars == <<entries, total, files, damaged, scraps, work, spent>>

Unoccupied == [pc |-> "idle", record |-> NoRecord]
Doing(w, pc) == work[w].pc = pc
Does(w, pc, k) == work' = [work EXCEPT ![w] = [pc |-> pc, record |-> k]]
Rests(w) == work' = [work EXCEPT ![w] = Unoccupied]

-----------------------------------------------------------------------------
\* Get: the entry is looked up under the lock, the file is read outside it.
GetEntry(w, k) ==
    /\ Doing(w, "idle") /\ k \in entries
    /\ Does(w, "reading", k)
    /\ UNCHANGED <<entries, total, files, damaged, scraps, spent>>

GetHit(w) ==
    LET k == work[w].record IN
    /\ Doing(w, "reading") /\ k \in files /\ k \notin damaged
    /\ Rests(w)
    /\ UNCHANGED <<entries, total, files, damaged, scraps, spent>>

\* No file, or not the bytes it was written with: the record is removed.
GetBad(w) ==
    LET k == work[w].record IN
    /\ Doing(w, "reading") /\ (k \notin files \/ k \in damaged)
    /\ Does(w, "remove", k)
    /\ UNCHANGED <<entries, total, files, damaged, scraps, spent>>

\* Remove: the entry under the lock ...
RemoveEntry(w) ==
    LET k == work[w].record IN
    /\ Doing(w, "remove")
    /\ entries' = entries \ {k}
    /\ total' = IF k \in entries THEN total - 1 ELSE total
    /\ Does(w, "unlink", k)
    /\ UNCHANGED <<files, damaged, scraps, spent>>

\* Slip: a removal that leaves the file to the next restart.
RemoveFileLater(w) ==
    /\ Doing(w, "unlink")
    /\ Rests(w)
    /\ UNCHANGED <<entries, total, files, damaged, scraps, spent>>

\* ... and the file outside it.
RemoveFile(w) ==
    LET k == work[w].record IN
    /\ Doing(w, "unlink")
    /\ files' = files \ {k} /\ damaged' = damaged \ {k}
    /\ Rests(w)
    /\ UNCHANGED <<entries, total, scraps, spent>>

\* Put: a temporary file with the record, complete and synced ...
PutScrap(w, k) ==
    /\ Doing(w, "idle")
    /\ scraps' = scraps \union {w}
    /\ Does(w, "written", k)
    /\ UNCHANGED <<entries, total, files, damaged, spent>>

\* ... or an error on the way, and the temporary file goes.
PutFails(w) ==
    /\ Doing(w, "written")
    /\ scraps' = scraps \ {w}
    /\ Rests(w)
    /\ UNCHANGED <<entries, total, files, damaged, spent>>

PutRename(w) ==
    LET k == work[w].record IN
    /\ Doing(w, "written")
    /\ scraps' = scraps \ {w}
    /\ files' = files \union {k} /\ damaged' = damaged \ {k}
    /\ Does(w, "renamed", k)
    /\ UNCHANGED <<entries, total, spent>>

\* evictLocked: records go, with their files, until the budget is met.
Excess(table, sum) ==
    {gone \in SUBSET table : Cardinality(gone) = IF sum > MaxTotal THEN sum - MaxTotal ELSE 0}

\* The entry is made under the lock, and what is now too much is evicted.
PutEntry(w) ==
    LET k == work[w].record
        table == entries \union {k}
        sum == total + 1 - (IF k \in entries THEN 1 ELSE 0)
    IN
    /\ Doing(w, "renamed")
    /\ \E gone \in Excess(table, sum) :
          /\ entries' = table \ gone
          /\ total' = sum - Cardinality(gone)
          /\ files' = files \ gone /\ damaged' = damaged \ gone
    /\ Rests(w)
    /\ UNCHANGED <<scraps, spent>>

\* The process dies and starts again: NewProbeCache throws out what is not a
\* record, adopts the rest, and evicts.
Adopt ==
    /\ spent.restarts < MaxRestarts
    /\ spent' = [spent EXCEPT !.restarts = @ + 1]
    /\ \E gone \in Excess(files, Cardinality(files)) :
          /\ entries' = files \ gone
          /\ total' = Cardinality(files) - Cardinality(gone)
          /\ files' = files \ gone /\ damaged' = damaged \ gone
    /\ scraps' = {}
    /\ work' = [w \in Workers |-> Unoccupied]

\* A record's bytes rot.
Damage(k) ==
    /\ spent.damage < MaxDamage /\ k \in files \ damaged
    /\ spent' = [spent EXCEPT !.damage = @ + 1]
    /\ damaged' = damaged \union {k}
    /\ UNCHANGED <<entries, total, files, scraps, work>>

-----------------------------------------------------------------------------
ProbeInit ==
    /\ entries = {} /\ total = 0
    /\ files = {} /\ damaged = {} /\ scraps = {}
    /\ work = [w \in Workers |-> Unoccupied]
    /\ spent = [restarts |-> 0, damage |-> 0]

ReadRecord(w) == (\E k \in Records : GetEntry(w, k)) \/ GetHit(w) \/ GetBad(w)
DropRecord(w) == RemoveEntry(w) \/ RemoveFile(w)
StoreRecord(w) == (\E k \in Records : PutScrap(w, k)) \/ PutFails(w) \/ PutRename(w) \/ PutEntry(w)

ProbeNext ==
    \/ \E w \in Workers : ReadRecord(w) \/ DropRecord(w) \/ StoreRecord(w)
    \/ Adopt
    \/ \E k \in Records : Damage(k)

ProbeSpec == ProbeInit /\ [][ProbeNext]_probeVars

-----------------------------------------------------------------------------
\* The budget is kept on the disk, not only in the table: the table's total is
\* what its entries take, and a file that no entry counts belongs to a Put or a
\* Remove that is between its two steps.  So when nothing is under way the
\* directory holds at most the budget, after a restart too.  (cache.go, Put,
\* Remove, evictLocked, NewProbeCache.)
DiskWithinBudget ==
    /\ total = Cardinality(entries) /\ total <= MaxTotal
    /\ \A k \in files \ entries :
          \E w \in Workers : work[w].record = k /\ work[w].pc \in {"renamed", "unlink"}

=============================================================================
