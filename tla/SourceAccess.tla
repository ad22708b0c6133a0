------------------------------ MODULE SourceAccess ------------------------------
(***************************************************************************)
(* How projectiond reaches a remote source: the retries and the failover of *)
(* a block fetch (internal/readpath/readpath.go) over the fetch of one      *)
(* adapter (internal/source/http.go), with its leases                      *)
(* (internal/source/resolver.go), its permits and its circuit breaker       *)
(* (internal/source/limits.go).                                            *)
(*                                                                         *)
(* One endpoint.  A reader is one block fetch on its goroutine; an object   *)
(* is one transport identity of the endpoint, a source of the block.  Times *)
(* are events of the environment: a lease lapses, a cooldown elapses, a     *)
(* wait reaches its bound.                                                 *)
(***************************************************************************)
EXTENDS Integers, FiniteSets

CONSTANTS
    Readers, Objects,
    NoReader, NoObject,
    MaxSlots,       \* MaxLeaseSlots
    MaxAttempts,    \* attempts on one source
    Threshold,      \* failures that open the breaker
    PerEndpoint,    \* permits of the endpoint
    Global,         \* permits of the daemon
    MaxLeases       \* bound: leases resolved in a behaviour

ASSUME SourceAssumption ==
    /\ NoReader \notin Readers /\ NoObject \notin Objects
    /\ IsFiniteSet(Readers) /\ IsFiniteSet(Objects)
    /\ {MaxSlots, MaxAttempts, Threshold, PerEndpoint, Global, MaxLeases}
         \subseteq Nat \ {0}

VARIABLES
    slots,      \* Resolver.slots by object, NoSlot when there is none
    minted,     \* leases resolved so far: the identity of the next one
    reader,     \* the block fetch each reader is in
    breaker,    \* the circuit breaker of the endpoint
    permits     \* permits taken, of the endpoint and of the daemon

srcVars == <<slots, minted, reader, breaker, permits>>

-----------------------------------------------------------------------------
NoLease == [id |-> 0, generation |-> 0]
NoSlot == [active |-> -1]
NewSlot == [lease |-> NoLease, fresh |-> FALSE, inflight |-> NoReader,
            resolved |-> FALSE, cooling |-> FALSE, active |-> 0]
NoFetch == [pc |-> "idle", todo |-> {}, object |-> NoObject, attempt |-> 0,
          refresh |-> FALSE, lease |-> NoLease, stale |-> NoLease,
          leader |-> NoReader, outcome |-> "none"]

\* What a call ends with, as far as the callers tell failures apart: may it be
\* retried, does a new lease help, is it the read's own deadline, and does it say
\* something of the endpoint (CountsTowardEndpointBreaker).
Outcomes == {"ok", "retryable", "terminal", "refused", "object", "deadline"}
Counted == {"retryable", "terminal"}   \* 5xx and resets; credentials, redirects, TLS
\* "refused": the access material was not accepted; "object": the object is
\* missing, cut off or not what was declared; both say nothing of the endpoint.

Present == {o \in Objects : slots[o] # NoSlot}
Inactive(table) == {o \in Objects : table[o] # NoSlot /\ table[o].active = 0}

\* evictLocked: over the bound, slots nobody holds are dropped until the table
\* is within it or none is left.  (Least recently used first; the model does not
\* keep their age.)
Evicted(table) ==
    LET size == Cardinality({o \in Objects : table[o] # NoSlot})
        idle == Inactive(table)
        drop == IF size <= MaxSlots THEN 0
                ELSE IF size - MaxSlots < Cardinality(idle) THEN size - MaxSlots
                ELSE Cardinality(idle)
    IN  {[o \in Objects |-> IF o \in gone THEN NoSlot ELSE table[o]] :
            gone \in {s \in SUBSET idle : Cardinality(s) = drop}}

ReaderAt(r, pc) == reader[r].pc = pc
Go(r, q) == reader' = [reader EXCEPT ![r] = q]
Ended(r, outcome) ==
    [reader[r] EXCEPT !.pc = "record", !.outcome = outcome, !.refresh = FALSE,
                      !.lease = NoLease, !.stale = NoLease]
Held(r) == slots[reader[r].object]
Object(r) == reader[r].object

-----------------------------------------------------------------------------
(* The block fetch: fetchWithRetries and fetchFromSource. *)

\* The block fetch starts on the source its handle is bound to, with the other
\* sources proven to hold the same bytes to fail over to.
StartFetch(r) ==
    /\ ReaderAt(r, "idle")
    /\ \E o \in Objects : \E proven \in SUBSET (Objects \ {o}) :
          Go(r, [NoFetch EXCEPT !.pc = "begin", !.object = o, !.todo = proven, !.attempt = 1])
    /\ UNCHANGED <<slots, minted, breaker, permits>>

\* What follows the adapter's answer: the end, another attempt, or another proven
\* source; nothing follows a deadline.
After(q, outcome) ==
    LET begin == [NoFetch EXCEPT !.pc = "begin", !.object = q.object, !.todo = q.todo]
        onward == {[begin EXCEPT !.object = o, !.todo = @ \ {o}, !.attempt = 1] : o \in q.todo}
    IN  IF outcome = "retryable" /\ q.attempt < MaxAttempts
        THEN {[begin EXCEPT !.attempt = q.attempt + 1]}
        ELSE IF outcome \in {"ok", "deadline"} \/ onward = {} THEN {NoFetch} ELSE onward

Continue(r, outcome) == \E q \in After(reader[r], outcome) : Go(r, q)

-----------------------------------------------------------------------------
(* The circuit breaker. *)

Closed == [state |-> "closed", failures |-> 0, cooled |-> FALSE, probes |-> 0]
Opened == [state |-> "open", failures |-> 0, cooled |-> FALSE, probes |-> 0]
HalfOpen == [state |-> "half-open", failures |-> 0, cooled |-> FALSE, probes |-> 1]

\* Allow, with one probe to a cooldown; a refused fetch fails without a packet.
BreakerAllow(r) ==
    /\ ReaderAt(r, "begin")
    /\ \/ /\ breaker.state = "closed"
          /\ Go(r, [reader[r] EXCEPT !.pc = "acquire"])
          /\ UNCHANGED breaker
       \/ /\ breaker.state = "open" /\ breaker.cooled
          /\ breaker' = HalfOpen
          /\ Go(r, [reader[r] EXCEPT !.pc = "acquire"])
       \/ /\ breaker.state = "half-open" \/ (breaker.state = "open" /\ ~breaker.cooled)
          /\ Continue(r, "object")
          /\ UNCHANGED breaker
    /\ UNCHANGED <<slots, minted, permits>>

AfterFailure ==
    IF breaker.state = "half-open" \/ breaker.failures + 1 >= Threshold
    THEN Opened
    ELSE [breaker EXCEPT !.failures = @ + 1]

\* RecordSuccess, recordFailure: what the endpoint answered is put on its
\* account, if it says anything of the endpoint.
Record(r) ==
    LET outcome == reader[r].outcome IN
    /\ ReaderAt(r, "record")
    /\ breaker' = IF outcome = "ok" THEN Closed
                  ELSE IF outcome \in Counted THEN AfterFailure ELSE breaker
    /\ Continue(r, outcome)
    /\ UNCHANGED <<slots, minted, permits>>

\* Time: the cooldown passes, and old failures leave the window.
BreakerTime ==
    /\ \/ breaker.state = "open" /\ ~breaker.cooled
          /\ breaker' = [breaker EXCEPT !.cooled = TRUE]
       \/ breaker.failures > 0 /\ breaker' = [breaker EXCEPT !.failures = 0]
    /\ UNCHANGED <<slots, minted, reader, permits>>

-----------------------------------------------------------------------------
(* The leases. *)

\* acquireSlot up to the slot's own lock: found or made, marked as held, and
\* the table brought within its bound.
AcquireSlot(r) ==
    LET o == Object(r)
        slot == IF slots[o] = NoSlot THEN NewSlot ELSE slots[o]
    IN
    /\ ReaderAt(r, "acquire")
    /\ slots' \in Evicted([slots EXCEPT ![o] = [slot EXCEPT !.active = @ + 1]])
    /\ Go(r, [reader[r] EXCEPT !.pc = "decide"])
    /\ UNCHANGED <<minted, breaker, permits>>

\* Slip: any lease that has not lapsed will do.
UsableToAll(r) == Held(r).lease # NoLease /\ Held(r).fresh

\* Get takes a lease that has not lapsed; Refresh takes one newer than the lease
\* it was refused with.
Usable(r) ==
    /\ Held(r).lease # NoLease /\ Held(r).fresh
    /\ reader[r].refresh => Held(r).lease.generation > reader[r].stale.generation

UseLease(r) ==
    /\ ReaderAt(r, "decide") /\ Usable(r)
    /\ Go(r, [reader[r] EXCEPT !.pc = "unslot", !.lease = Held(r).lease, !.outcome = "ok"])
    /\ UNCHANGED <<slots, minted, breaker, permits>>

\* resolveLocked: wait for the call in flight, or be refused within the
\* cooldown, or make the call.
JoinCall(r) ==
    /\ ReaderAt(r, "decide") /\ ~Usable(r) /\ Held(r).inflight # NoReader
    /\ Go(r, [reader[r] EXCEPT !.pc = "waiting", !.leader = Held(r).inflight])
    /\ UNCHANGED <<slots, minted, breaker, permits>>

\* A lease that lapsed is renewed under the budget; only the first resolution
\* of a slot is not.
Budgeted(r) == reader[r].refresh \/ Held(r).resolved

RefuseRefresh(r) ==
    /\ ReaderAt(r, "decide") /\ ~Usable(r) /\ Held(r).inflight = NoReader
    /\ Budgeted(r) /\ Held(r).cooling
    /\ Go(r, [reader[r] EXCEPT !.pc = "unslot", !.outcome = "object"])
    /\ UNCHANGED <<slots, minted, breaker, permits>>

\* Slip: a resolution that is not announced to the others.
BeginResolveAlone(r) ==
    /\ ReaderAt(r, "decide") /\ ~Usable(r) /\ Held(r).inflight = NoReader
    /\ Budgeted(r) => ~Held(r).cooling
    /\ slots' = [slots EXCEPT ![Object(r)] =
                   [Held(r) EXCEPT !.cooling = @ \/ Budgeted(r), !.resolved = TRUE]]
    /\ Go(r, [reader[r] EXCEPT !.pc = "resolving"])
    /\ UNCHANGED <<minted, breaker, permits>>

BeginResolve(r) ==
    /\ ReaderAt(r, "decide") /\ ~Usable(r) /\ Held(r).inflight = NoReader
    /\ Budgeted(r) => ~Held(r).cooling
    /\ slots' = [slots EXCEPT ![Object(r)] =
                   [Held(r) EXCEPT !.cooling = @ \/ Budgeted(r), !.resolved = TRUE, !.inflight = r]]
    /\ Go(r, [reader[r] EXCEPT !.pc = "resolving"])
    /\ UNCHANGED <<minted, breaker, permits>>

\* The others waiting on r's call get what it got.
Told(r, lease, outcome) ==
    [s \in Readers |->
        IF s = r \/ (ReaderAt(s, "waiting") /\ reader[s].leader = r)
        THEN [reader[s] EXCEPT !.pc = "unslot", !.lease = lease, !.outcome = outcome,
                               !.leader = NoReader]
        ELSE reader[s]]

ResolveSucceeds(r) ==
    LET lease == [id |-> minted + 1, generation |-> Held(r).lease.generation + 1] IN
    /\ ReaderAt(r, "resolving") /\ minted < MaxLeases
    /\ minted' = minted + 1
    /\ slots' = [slots EXCEPT ![Object(r)] =
                   [@ EXCEPT !.lease = lease, !.fresh = TRUE, !.inflight = NoReader]]
    /\ reader' = Told(r, lease, "ok")
    /\ UNCHANGED <<breaker, permits>>

ResolveFails(r) ==
    /\ ReaderAt(r, "resolving")
    /\ slots' = [slots EXCEPT ![Object(r)].inflight = NoReader]
    /\ \E outcome \in Outcomes \ {"ok", "refused"} : reader' = Told(r, NoLease, outcome)
    /\ UNCHANGED <<minted, breaker, permits>>

\* A waiter's own deadline does not wait for the call.
WaitTimesOut(r) ==
    /\ ReaderAt(r, "waiting")
    /\ Go(r, [reader[r] EXCEPT !.pc = "unslot", !.outcome = "deadline", !.leader = NoReader])
    /\ UNCHANGED <<slots, minted, breaker, permits>>

\* releaseSlot; then the attempt, or the failure is recorded.
ReleaseSlot(r) ==
    LET o == Object(r) IN
    /\ ReaderAt(r, "unslot")
    /\ slots' \in Evicted([slots EXCEPT ![o].active = @ - 1])
    /\ IF reader[r].outcome = "ok"
       THEN Go(r, [reader[r] EXCEPT !.pc = "queue", !.outcome = "none"])
       ELSE Go(r, Ended(r, reader[r].outcome))
    /\ UNCHANGED <<minted, breaker, permits>>

\* Time: a lease lapses, a refresh cooldown passes.
LeaseTime ==
    /\ \E o \in Present :
          \/ slots[o].fresh /\ slots' = [slots EXCEPT ![o].fresh = FALSE]
          \/ slots[o].cooling /\ slots' = [slots EXCEPT ![o].cooling = FALSE]
    /\ UNCHANGED <<minted, reader, breaker, permits>>

-----------------------------------------------------------------------------
(* One attempt: a permit of the endpoint, a permit of the daemon, the request. *)

TakeEndpointPermit(r) ==
    /\ ReaderAt(r, "queue") /\ permits.endpoint < PerEndpoint
    /\ permits' = [permits EXCEPT !.endpoint = @ + 1]
    /\ Go(r, [reader[r] EXCEPT !.pc = "permitted"])
    /\ UNCHANGED <<slots, minted, breaker>>

TakeGlobalPermit(r) ==
    /\ ReaderAt(r, "permitted") /\ permits.global < Global
    /\ permits' = [permits EXCEPT !.global = @ + 1]
    /\ Go(r, [reader[r] EXCEPT !.pc = "sending"])
    /\ UNCHANGED <<slots, minted, breaker>>

\* Slip: the endpoint's permit is not rolled back.
QueueTimesOutLeaking(r) ==
    /\ ReaderAt(r, "queue") \/ ReaderAt(r, "permitted")
    /\ Go(r, Ended(r, "object"))
    /\ UNCHANGED <<slots, minted, breaker, permits>>

\* The one queue-wait budget runs out at either permit; the endpoint's goes back.
QueueTimesOut(r) ==
    /\ \/ ReaderAt(r, "queue") /\ UNCHANGED permits
       \/ ReaderAt(r, "permitted") /\ permits' = [permits EXCEPT !.endpoint = @ - 1]
    /\ Go(r, Ended(r, "object"))
    /\ UNCHANGED <<slots, minted, breaker>>

\* The endpoint answers, or the deadline passes.  Access material that was
\* refused is renewed once; after that the refusal is terminal.
AttemptEnds(r) ==
    LET q == reader[r] IN
    /\ ReaderAt(r, "sending")
    /\ permits' = [endpoint |-> permits.endpoint - 1, global |-> permits.global - 1]
    /\ \E outcome \in Outcomes :
          Go(r, IF outcome = "refused" /\ ~q.refresh
                THEN [q EXCEPT !.pc = "acquire", !.refresh = TRUE,
                               !.stale = q.lease, !.lease = NoLease]
                ELSE Ended(r, IF outcome = "refused" THEN "object" ELSE outcome))
    /\ UNCHANGED <<slots, minted, breaker>>

-----------------------------------------------------------------------------
SourceInit ==
    /\ slots = [o \in Objects |-> NoSlot]
    /\ minted = 0
    /\ reader = [r \in Readers |-> NoFetch]
    /\ breaker = Closed
    /\ permits = [endpoint |-> 0, global |-> 0]

Lease(r) ==
    \/ AcquireSlot(r) \/ UseLease(r) \/ JoinCall(r) \/ RefuseRefresh(r)
    \/ BeginResolve(r) \/ ResolveSucceeds(r) \/ ResolveFails(r) \/ ReleaseSlot(r)
Attempt(r) == TakeEndpointPermit(r) \/ TakeGlobalPermit(r) \/ AttemptEnds(r)
GoesOn(r) == BreakerAllow(r) \/ Record(r) \/ Lease(r) \/ Attempt(r)

SourceNext ==
    \/ BreakerTime \/ LeaseTime
    \/ \E r \in Readers : StartFetch(r) \/ GoesOn(r) \/ WaitTimesOut(r) \/ QueueTimesOut(r)

SourceSpec == SourceInit /\ [][SourceNext]_srcVars

-----------------------------------------------------------------------------
Holding == {"decide", "waiting", "resolving", "unslot"}

\* However many readers want one object, one resolution of it is in flight, those
\* who wait are waiting for it and are answered when it ends, and no slot somebody
\* holds is evicted: only while everything in it is held is the table over its bound.
\* (resolver.go, acquireSlot: "Two slots for one identity is two in-flight
\* resolutions for one object"; releaseSlot: "at most MaxLeaseSlots once things are
\* idle".)
SingleResolution ==
    /\ \A r, s \in Readers :
          ReaderAt(r, "resolving") /\ ReaderAt(s, "resolving") /\ Object(r) = Object(s) => r = s
    /\ \A r \in Readers : ReaderAt(r, "waiting") =>
          ReaderAt(reader[r].leader, "resolving") /\ Object(reader[r].leader) = Object(r)
    /\ \A o \in Objects :
          LET holders == Cardinality({r \in Readers : Object(r) = o /\ reader[r].pc \in Holding})
          IN  IF slots[o] = NoSlot THEN holders = 0 ELSE slots[o].active = holders
    /\ Cardinality(Present) > MaxSlots => Inactive(slots) = {}

\* A fetch never repeats its request with the access material that was just
\* refused, not even when the refresh was another reader's or the slot was evicted
\* in between.  (http.go, Fetch.)
RefreshIsNew ==
    \A r \in Readers :
        reader[r].refresh /\ reader[r].pc \in {"queue", "permitted", "sending"}
            => reader[r].lease.id > reader[r].stale.id

\* A permit is held by somebody who is about to send or sending: none leaks on any
\* path out.  (limits.go, Acquire.)
PermitsExact ==
    /\ permits.endpoint = Cardinality({r \in Readers : reader[r].pc \in {"permitted", "sending"}})
    /\ permits.global = Cardinality({r \in Readers : ReaderAt(r, "sending")})
    /\ permits.endpoint <= PerEndpoint /\ permits.global <= Global

\* The probe of a half-open breaker is outstanding until it closes or re-opens it:
\* half-open with its probe spent and nobody on the way is a state no later
\* request gets out of.  (limits.go: "THE HALF-OPEN PROBE CANNOT WEDGE".)
ProbeOutstanding ==
    breaker.state = "half-open" =>
        \E r \in Readers : reader[r].pc \notin {"idle", "begin"}

=============================================================================
