------------------------------- MODULE BlockReads -------------------------------
(***************************************************************************)
(* The read path of projectiond (internal/readpath/readpath.go) over its    *)
(* two caches (internal/cache/cache.go).                                   *)
(*                                                                         *)
(* A handle is one open file.  Its demand reads and its one prefetcher are  *)
(* readers: each wants a block, takes it from the cache, or takes part in   *)
(* the one fetch of that block, which runs on a goroutine of its own.  Scan *)
(* windows live in the probe cache and are pinned by the handles that read  *)
(* them; every other block lives in the playback cache, charged to the      *)
(* handle that fetched it until that handle is released.                    *)
(*                                                                         *)
(* Both caches drop their least recently used blocks first; the model does  *)
(* not keep their age, and so may drop any, and a read that finds its block *)
(* in a cache leaves no trace.                                             *)
(*                                                                         *)
(* A block is one unit of a budget.  Reads of a handle may be under way     *)
(* while it is released: Release waits for the prefetcher only.             *)
(***************************************************************************)
EXTENDS Integers, FiniteSets

CONSTANTS
    Handles,
    Demands,        \* demand reads in progress at once
    HandleOf,       \* the handle each demand read is made on
    Prefetchers,    \* handles whose prefetcher runs (read sequentially)
    Windows,        \* blocks of scan windows: the probe cache
    Chunks,         \* all other blocks: the playback cache
    Flights,        \* flightCall objects alive at once
    NoBlock, NoFlight, NoHandle,
    MaxPlayback,    \* blocks in the playback cache
    MaxPerHandle,   \* blocks charged to one handle
    MaxPins         \* bound: pins of one window

ASSUME ReadsAssumption ==
    /\ HandleOf \in [Demands -> Handles] /\ Prefetchers \subseteq Handles
    /\ NoFlight \notin Flights /\ NoHandle \notin Handles
    /\ NoBlock \notin Windows \union Chunks /\ Windows \intersect Chunks = {}
    /\ IsFiniteSet(Demands) /\ IsFiniteSet(Prefetchers) /\ IsFiniteSet(Chunks)
    /\ {MaxPlayback, MaxPerHandle} \subseteq Nat \ {0}

VARIABLES
    flight,     \* Reader.flight: the flight a block is under, or NoFlight
    call,       \* the flightCall objects and where their goroutines are
    part,       \* where each reader is
    handle,     \* how far each handle's Release has come
    pinnedKeys, \* Handle.pinnedKeys, as counts
    probe,      \* ProbeCache: which windows are cached, and their pins
    playback,   \* PlaybackCache.entries: the chunks that are cached
    owner,      \* the handle each of them is charged to, NoHandle when it is nobody's
    byHnd       \* PlaybackCache.byHnd

readVars == <<flight, call, part, handle, pinnedKeys, probe, playback, owner, byHnd>>
playbackVars == <<playback, owner, byHnd>>
caches == <<probe, playbackVars>>

\* A handle's prefetcher is the reader named by the handle.
Participants == Demands \union Prefetchers
Blocks == Windows \union Chunks
Owner(p) == IF p \in Handles THEN p ELSE HandleOf[p]

Free == [pc |-> "free", block |-> NoBlock, starter |-> NoHandle, waiters |-> 0,
         abandoned |-> FALSE, ok |-> FALSE]
Resting == [pc |-> "idle", block |-> NoBlock, on |-> NoFlight, moved |-> FALSE]

Where(p, pc) == part[p].pc = pc
Moves(p, q) == part' = [part EXCEPT ![p] = q]
IsClosed(h) == handle[h] # "open"

-----------------------------------------------------------------------------
(* The playback cache. *)

Owned(h) == {b \in Chunks : owner[b] = h}
Cached(b) == IF b \in Windows THEN probe[b].there ELSE b \in playback

\* What may go when one must: one of these, if there is any.
OneOf(blocks, must) == IF must /\ blocks # {} THEN {{b} : b \in blocks} ELSE {{}}

\* Put: an entry of the same block leaves first, then one of the handle's own makes
\* room under its ceiling, and then one of all in the cache; whatever leaves is
\* discharged from whoever owns it.
PlaybackPut(h, b) ==
    LET replaced == IF owner[b] = h THEN 1 ELSE 0
    IN
    /\ \E own \in OneOf(Owned(h) \ {b}, byHnd[h] - replaced + 1 > MaxPerHandle) :
       \E any \in OneOf(playback \ (own \union {b}),
                          Cardinality((playback \ own) \union {b}) > MaxPlayback) :
          LET gone == own \union any \union {b} IN
          /\ playback' = (playback \ gone) \union {b}
          /\ owner' = [x \in Chunks |-> IF x = b THEN h
                                        ELSE IF x \in gone THEN NoHandle ELSE owner[x]]
          /\ byHnd' = [g \in Handles |-> byHnd[g] - Cardinality(Owned(g) \intersect gone)
                                                 + (IF g = h THEN 1 ELSE 0)]
    /\ UNCHANGED probe

\* DropHandle: the entries stay, nobody's.
PlaybackDrop(h) ==
    /\ owner' = [b \in Chunks |-> IF owner[b] = h THEN NoHandle ELSE owner[b]]
    /\ byHnd' = [byHnd EXCEPT ![h] = 0]
    /\ UNCHANGED playback

-----------------------------------------------------------------------------
(* A reader: blockBytesEpoch. *)

\* A demand read of an open handle starts; a prefetcher, only while its handle
\* is not being released.  What is cached is returned at once.
Miss(p, b) ==
    /\ Where(p, "idle") /\ ~IsClosed(Owner(p)) /\ ~Cached(b)
    /\ Moves(p, [Resting EXCEPT !.pc = "missed", !.block = b])
    /\ UNCHANGED <<flight, call, handle, pinnedKeys, caches>>

Joinable(b) == flight[b] # NoFlight /\ ~call[flight[b]].abandoned

\* tryJoin, in the lock of the flight map.
Join(p) ==
    LET c == flight[part[p].block] IN
    /\ Where(p, "missed") /\ Joinable(part[p].block)
    /\ call' = [call EXCEPT ![c].waiters = @ + 1]
    /\ Moves(p, [part[p] EXCEPT !.pc = "waiting", !.on = c])
    /\ UNCHANGED <<flight, handle, pinnedKeys, caches>>

\* No flight, or one that its last participant has left: a new one.
Start(p) ==
    LET b == part[p].block IN
    /\ Where(p, "missed") /\ ~Joinable(b)
    /\ \E c \in Flights :
          /\ call[c].pc = "free"
          /\ call' = [call EXCEPT ![c] = [Free EXCEPT !.pc = "fetching", !.block = b,
                                            !.starter = Owner(p), !.waiters = 1]]
          /\ flight' = [flight EXCEPT ![b] = c]
          /\ Moves(p, [part[p] EXCEPT !.pc = "waiting", !.on = c])
    /\ UNCHANGED <<handle, pinnedKeys, caches>>

\* leave: the last participant's leaving cancels the fetch.  A flight whose
\* goroutine has ended and that nobody is on is garbage.
Left(c) ==
    LET last == call[c].waiters = 1
    IN  call' = [call EXCEPT ![c] =
                   IF last /\ call[c].pc = "done" THEN Free
                   ELSE [call[c] EXCEPT !.waiters = @ - 1, !.abandoned = @ \/ last]]

\* The reader's own context ends: its deadline, an interrupted read, a seek or
\* a release that cancels the prefetcher.
GiveUp(p) ==
    /\ Where(p, "waiting") /\ call[part[p].on].pc # "done"
    /\ Left(part[p].on)
    /\ Moves(p, Resting)
    /\ UNCHANGED <<flight, handle, pinnedKeys, caches>>

\* The fetch is done.  A window that was fetched is going to be pinned, unless
\* the handle is closed or has moved on since.
Wake(p) ==
    LET c == part[p].on
        pins == call[c].ok /\ part[p].block \in Windows
                  /\ ~IsClosed(Owner(p)) /\ ~part[p].moved
    IN
    /\ Where(p, "waiting") /\ call[c].pc = "done"
    /\ Left(c)
    /\ Moves(p, IF pins THEN [part[p] EXCEPT !.pc = "pinning", !.on = NoFlight] ELSE Resting)
    /\ UNCHANGED <<flight, handle, pinnedKeys, caches>>

\* Pin is a no-op for a window that is not in the cache any more; the handle
\* remembers it all the same.
PinWindow(p) ==
    LET b == part[p].block IN
    /\ Where(p, "pinning")
    /\ probe[b].there => probe[b].pins < MaxPins
    /\ probe' = [probe EXCEPT ![b].pins = IF probe[b].there THEN @ + 1 ELSE @]
    /\ Moves(p, [part[p] EXCEPT !.pc = "pinned"])
    /\ UNCHANGED <<flight, call, handle, pinnedKeys, playbackVars>>

RememberPin(p) ==
    LET h == Owner(p) IN
    /\ Where(p, "pinned") /\ pinnedKeys[h][part[p].block] < MaxPins
    /\ pinnedKeys' = [pinnedKeys EXCEPT ![h][part[p].block] = @ + 1]
    /\ Moves(p, Resting)
    /\ UNCHANGED <<flight, call, handle, caches>>

-----------------------------------------------------------------------------
(* The goroutine of a flight. *)

\* The fetch ends: with the bytes, or with a failure, its cancellation included.
FetchEnds(c) ==
    /\ call[c].pc = "fetching"
    /\ \E ok \in BOOLEAN :
          call' = [call EXCEPT ![c].pc = IF ok THEN "fetched" ELSE "leaving", ![c].ok = ok]
    /\ UNCHANGED <<flight, part, handle, pinnedKeys, caches>>

\* Slip: a chunk is charged to its handle whether that is open or not.
PublishLate(c) ==
    LET b == call[c].block IN
    /\ call[c].pc = "fetched"
    /\ IF b \in Windows
       THEN /\ probe' = [probe EXCEPT ![b] = [there |-> TRUE, pins |-> 0]]
            /\ UNCHANGED playbackVars
       ELSE PlaybackPut(call[c].starter, b)
    /\ call' = [call EXCEPT ![c].pc = "leaving"]
    /\ UNCHANGED <<flight, part, handle, pinnedKeys>>

\* publish, before the flight leaves the map.  A window goes to the probe cache,
\* as a new entry; a chunk is charged to the handle that started the flight, if
\* that is still open, and the test and the charge are one step.
Publish(c) ==
    LET b == call[c].block
        h == call[c].starter
    IN
    /\ call[c].pc = "fetched"
    /\ IF b \in Windows
       THEN /\ probe' = [probe EXCEPT ![b] = [there |-> TRUE, pins |-> 0]]
            /\ UNCHANGED playbackVars
       ELSE IF IsClosed(h) THEN UNCHANGED caches ELSE PlaybackPut(h, b)
    /\ call' = [call EXCEPT ![c].pc = "leaving"]
    /\ UNCHANGED <<flight, part, handle, pinnedKeys>>

\* Slip: the flight takes whatever is in the map with it.
FlightEndsBlindly(c) ==
    LET b == call[c].block IN
    /\ call[c].pc = "leaving"
    /\ flight' = [flight EXCEPT ![b] = NoFlight]
    /\ call' = [call EXCEPT ![c] = IF @.waiters = 0 THEN Free ELSE [@ EXCEPT !.pc = "done"]]
    /\ UNCHANGED <<part, handle, pinnedKeys, caches>>

\* The flight leaves the map, if it is still the one there, and wakes its readers.
FlightEnds(c) ==
    LET b == call[c].block IN
    /\ call[c].pc = "leaving"
    /\ flight' = [flight EXCEPT ![b] = IF @ = c THEN NoFlight ELSE @]
    /\ call' = [call EXCEPT ![c] = IF @.waiters = 0 THEN Free ELSE [@ EXCEPT !.pc = "done"]]
    /\ UNCHANGED <<part, handle, pinnedKeys, caches>>

-----------------------------------------------------------------------------
(* The handle. *)

EpochMoves(h) ==
    [p \in Participants |-> IF Owner(p) = h /\ part[p].block \in Windows
                        THEN [part[p] EXCEPT !.moved = TRUE] ELSE part[p]]

\* Open: a new handle, under a name that nothing of an earlier one uses any more.
\* (The code numbers its handles and never uses a number again.)
BindHandle(h) ==
    /\ handle[h] = "released"
    /\ \A p \in Participants : Owner(p) = h => Where(p, "idle")
    /\ \A c \in Flights : call[c].starter # h
    /\ handle' = [handle EXCEPT ![h] = "open"]
    /\ UNCHANGED <<flight, call, part, pinnedKeys, caches>>

\* noteReadStart: a read elsewhere invalidates what was on its way.
Seek(h) ==
    /\ ~IsClosed(h)
    /\ part' = EpochMoves(h) /\ part' # part
    /\ UNCHANGED <<flight, call, handle, pinnedKeys, caches>>

\* Release: closed, with the prefetcher cancelled.
CloseHandle(h) ==
    /\ handle[h] = "open"
    /\ handle' = [handle EXCEPT ![h] = "closed"]
    /\ part' = EpochMoves(h)
    /\ UNCHANGED <<flight, call, pinnedKeys, caches>>

\* Once the prefetcher is gone: the ledger is discharged, the pins are taken.
Discharge(h) ==
    /\ handle[h] = "closed" /\ (h \in Prefetchers => Where(h, "idle"))
    /\ PlaybackDrop(h)
    /\ handle' = [handle EXCEPT ![h] = "discharged"]
    /\ UNCHANGED <<flight, call, part, pinnedKeys, probe>>

\* The windows it took are unpinned one by one; one that is not cached any more
\* has nothing to unpin, and no count goes below zero.
UnpinWindows(h) ==
    /\ handle[h] = "discharged"
    /\ probe' = [b \in Windows |->
                   [probe[b] EXCEPT !.pins = IF @ > pinnedKeys[h][b] THEN @ - pinnedKeys[h][b]
                                             ELSE 0]]
    /\ pinnedKeys' = [pinnedKeys EXCEPT ![h] = [b \in Windows |-> 0]]
    /\ handle' = [handle EXCEPT ![h] = "released"]
    /\ UNCHANGED <<flight, call, part, playbackVars>>

\* Pressure of other windows on the probe cache.
EvictWindow(b) ==
    /\ probe[b].there
    /\ probe' = [probe EXCEPT ![b] = [there |-> FALSE, pins |-> 0]]
    /\ UNCHANGED <<flight, call, part, handle, pinnedKeys, playbackVars>>

-----------------------------------------------------------------------------
BlockReadsInit ==
    /\ flight = [b \in Blocks |-> NoFlight]
    /\ call = [c \in Flights |-> Free]
    /\ part = [p \in Participants |-> Resting]
    /\ handle = [h \in Handles |-> "open"]
    /\ pinnedKeys = [h \in Handles |-> [b \in Windows |-> 0]]
    /\ probe = [b \in Windows |-> [there |-> FALSE, pins |-> 0]]
    /\ playback = {} /\ owner = [b \in Chunks |-> NoHandle]
    /\ byHnd = [h \in Handles |-> 0]

Takes(p) == Join(p) \/ Start(p) \/ GiveUp(p) \/ Wake(p) \/ PinWindow(p) \/ RememberPin(p)
Fetches(c) == FetchEnds(c) \/ Publish(c) \/ FlightEnds(c)
Releases(h) == BindHandle(h) \/ CloseHandle(h) \/ Discharge(h) \/ UnpinWindows(h)

\* Reads of some of the blocks.
NextOn(blocks) ==
    \/ \E p \in Participants : Takes(p) \/ \E b \in blocks : Miss(p, b)
    \/ \E c \in Flights : Fetches(c)
    \/ \E h \in Handles : Seek(h) \/ Releases(h)
    \/ \E b \in Windows : EvictWindow(b)

BlockReadsNext == NextOn(Blocks)

BlockReadsSpec == BlockReadsInit /\ [][BlockReadsNext]_readVars

-----------------------------------------------------------------------------
\* What a handle is charged is what it owns, within its ceiling, the cache is
\* within its budget, and a handle that has been released is charged nothing,
\* however late its bytes arrive.  (cache.go, PlaybackCache; readpath.go, Release.)
LedgerExact ==
    /\ \A h \in Handles :
          /\ byHnd[h] = Cardinality(Owned(h)) /\ byHnd[h] <= MaxPerHandle
          /\ handle[h] \in {"discharged", "released"} => byHnd[h] = 0
    /\ Cardinality(playback) <= MaxPlayback

\* One block has one fetch that anybody still wants, everybody who comes finds it,
\* and it is cancelled exactly when its last participant has left: nobody waits on a
\* cancelled fetch, however reads, prefetches, seeks and releases cross.
\* (readpath.go, flightCall, tryJoin and leave.)
FlightsServeWaiters ==
    \A c \in Flights :
        /\ call[c].pc \in {"fetching", "fetched", "leaving"} /\ ~call[c].abandoned
             => flight[call[c].block] = c
        /\ call[c].waiters = Cardinality({p \in Participants : Where(p, "waiting") /\ part[p].on = c})
        /\ call[c].abandoned => call[c].waiters = 0
=============================================================================
