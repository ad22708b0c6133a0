---------------------------- MODULE DataPlaneProofs ----------------------------
(***************************************************************************)
(* Proofs about projectiond, for any number of files, versions, requests,  *)
(* readers, handles, blocks and sources: the pins of generations, the       *)
(* flights of blocks, the ledger of the playback cache, the files of the   *)
(* probe cache, the leases and the permits.                                *)
(*                                                                         *)
(* Each of these counts is the number of people who are at certain places   *)
(* in the code; nearly every step moves one of them (CountAfter).           *)
(***************************************************************************)
EXTENDS ProjectedNamespace, BlockReads, ProbeCache, SourceAccess, FiniteSetTheorems, TLAPS

\* How many there are after one of them has come, gone or stayed.
LEMMA CountAfter ==
    ASSUME NEW S, IsFiniteSet(S), NEW r, NEW A, NEW B, A \subseteq S, B \subseteq S,
           A \ {r} = B \ {r}
    PROVE  /\ Cardinality(A) \in Nat /\ Cardinality(B) \in Nat
           /\ r \in A /\ r \notin B => Cardinality(A) > 0
           /\ Cardinality(B) = Cardinality(A) + (IF r \in B THEN 1 ELSE 0)
                                              - (IF r \in A THEN 1 ELSE 0)
<1>1. IsFiniteSet(A) /\ IsFiniteSet(B) BY FS_Subset
<1>2. Cardinality(A) \in Nat /\ Cardinality(B) \in Nat BY <1>1, FS_CardinalityType
<1>3. Cardinality(A \ {r}) = IF r \in A THEN Cardinality(A) - 1 ELSE Cardinality(A)
  BY <1>1, FS_RemoveElement
<1>4. Cardinality(B \ {r}) = IF r \in B THEN Cardinality(B) - 1 ELSE Cardinality(B)
  BY <1>1, FS_RemoveElement
<1>5. r \in A => Cardinality(A) # 0 BY <1>1, FS_EmptySet
<1> QED BY <1>2, <1>3, <1>4, <1>5

-----------------------------------------------------------------------------
(* The namespace.                                                           *)

Unopened == {"idle", "found", "resolved", "reclaimed", "refreshed", "enoent"}
Requested == [pc : Unopened \cup Pinning, path : Paths \cup {NoVersion},
              asked : Versions \cup {NoVersion}, version : Versions \cup {NoVersion}, gen : Nat]

NamespaceTypeOK ==
    /\ trees \in Seq(Trees) /\ Len(trees) <= MaxGenerations
    /\ refs \in [Generations -> Int]
    /\ nodes \in [Versions -> [path : Paths \cup {NoVersion}, gen : Nat]]
    /\ dentry \in [Paths -> Versions \cup {NoVersion}]
    /\ request \in [Requests -> Requested]

\* The version is one that a generation admitted so far shows.
ShownIn(g, v) == g \in 1..current /\ v \in Versions /\ \E p \in Paths : Shown(g, p) = v

\* What the file system remembers of an inode is where it was seen, and it remembers
\* every inode the kernel has a name or a request for.
Remembers ==
    /\ \A v \in Versions : nodes[v] # NotRemembered =>
          nodes[v].gen \in 1..current /\ nodes[v].path \in Paths
            /\ Shown(nodes[v].gen, nodes[v].path) = v
    /\ \A p \in Paths : dentry[p] # NoVersion => nodes[dentry[p]] # NotRemembered
    /\ \A r \in Requests : request[r].asked # NoVersion => nodes[request[r].asked] # NotRemembered

\* What a request has found so far.
Found(q) ==
    /\ q.pc = "found" => q.gen \in 1..current /\ q.path \in Paths
                           /\ q.version \in Versions /\ Shown(q.gen, q.path) = q.version
    /\ q.pc \in {"resolved", "reclaimed", "refreshed"} \cup Pinning => ShownIn(q.gen, q.version)
    /\ q.pc \in {"resolved", "reclaimed", "refreshed"} => q.asked \in Versions

NamespaceInv ==
    NamespaceTypeOK /\ Remembers /\ (\A r \in Requests : Found(request[r])) /\ PinsExact

Pinners(g) == {r \in Requests : request[r].pc \in Pinning /\ request[r].gen = g}

USE DEF current

LEMMA InitNamespace == NamespaceInit => NamespaceInv
<1> SUFFICES ASSUME NamespaceInit PROVE NamespaceInv OBVIOUS
<1> USE DEF NamespaceInit
<1>1. current = 0 OBVIOUS
<1>2. NamespaceTypeOK
  BY <1>1, NamespaceAssumption
     DEF NamespaceTypeOK, Generations, NotRemembered, Idle, Requested, Unopened
<1>3. Remembers /\ \A r \in Requests : Found(request[r])
  BY DEF Remembers, Found, NotRemembered, Idle, Pinning
<1>4. PinsExact
  <2>1. ASSUME NEW g PROVE Pins(g) = 0
    <3>1. Pinners(g) = {} BY DEF Pinners, Idle, Pinning
    <3> QED BY <3>1, FS_EmptySet DEF Pins, Pinners
  <2> QED BY <1>1, <2>1 DEF PinsExact, Generations
<1> QED BY <1>2, <1>3, <1>4 DEF NamespaceInv

\* The pins of every generation after one request has moved.
LEMMA PinsAfter ==
    ASSUME NEW r \in Requests, NEW q, request \in [Requests -> Requested],
           request' = [request EXCEPT ![r] = q], NEW g
    PROVE  /\ Pins(g) \in Nat /\ Pins(g)' \in Nat
           /\ r \in Pinners(g) => Pins(g) > 0
           /\ Pins(g)' = Pins(g) + (IF q.pc \in Pinning /\ q.gen = g THEN 1 ELSE 0)
                                - (IF r \in Pinners(g) THEN 1 ELSE 0)
<1>1. Pinners(g) \subseteq Requests /\ Pinners(g)' \subseteq Requests BY DEF Pinners
<1>2. Pinners(g) \ {r} = Pinners(g)' \ {r} BY DEF Pinners
<1>3. r \in Pinners(g)' <=> q.pc \in Pinning /\ q.gen = g BY DEF Pinners
<1>5. /\ Cardinality(Pinners(g)) \in Nat /\ Cardinality(Pinners(g)') \in Nat
      /\ r \in Pinners(g) /\ r \notin Pinners(g)' => Cardinality(Pinners(g)) > 0
      /\ Cardinality(Pinners(g)') = Cardinality(Pinners(g))
             + (IF r \in Pinners(g)' THEN 1 ELSE 0) - (IF r \in Pinners(g) THEN 1 ELSE 0)
  BY <1>1, <1>2, CountAfter, NamespaceAssumption
<1>6. r \in Pinners(g) => Cardinality(Pinners(g)) > 0
  BY <1>1, <1>5, FS_EmptySet, FS_Subset, NamespaceAssumption
<1> QED BY <1>3, <1>5, <1>6 DEF Pins, Pinners

\* A request that neither takes nor gives back a pin.
LEMMA PinsStay ==
    ASSUME NamespaceInv, NEW r \in Requests, NEW q \in Requested,
           request' = [request EXCEPT ![r] = q],
           q.pc \in Pinning <=> request[r].pc \in Pinning,
           q.pc \in Pinning => q.gen = request[r].gen,
           UNCHANGED <<trees, refs, retained>>
    PROVE  PinsExact'
<1>1. ASSUME NEW g PROVE Pins(g)' = Pins(g)
  <2>1. Pinners(g)' = Pinners(g) BY DEF Pinners, NamespaceInv, NamespaceTypeOK
  <2> QED BY <2>1 DEF Pins, Pinners
<1> QED BY <1>1 DEF NamespaceInv, PinsExact

LEMMA PinsSame ==
    ASSUME PinsExact, UNCHANGED <<trees, refs, retained, request>>
    PROVE  PinsExact'
BY DEF PinsExact, Pins

LEMMA Counts ==
    ASSUME NamespaceTypeOK
    PROVE  Len(trees) \in Nat /\ MaxGenerations \in Nat /\ Len(trees) <= MaxGenerations
BY NamespaceAssumption DEF NamespaceTypeOK

\* A request that takes a pin on a generation that is kept.
LEMMA PinTaken ==
    ASSUME NamespaceInv, NEW r \in Requests, NEW g, request[r].gen = g,
           request[r].pc \notin Pinning, Alive(g), Pin(g),
           request' = [request EXCEPT ![r].pc = "pinned"], UNCHANGED <<trees, retained>>
    PROVE  PinsExact' /\ refs' \in [Generations -> Int]
<1> DEFINE q == [request[r] EXCEPT !.pc = "pinned"]
<1>1. request' = [request EXCEPT ![r] = q] /\ q.pc = "pinned" /\ q.gen = g
  BY DEF NamespaceInv, NamespaceTypeOK, Requested
<1> HIDE DEF q
<1>2. g \in Generations /\ (g = current \/ g \in retained)
  BY Counts DEF Alive, NamespaceInv, PinsExact, Generations
<1>3. ASSUME NEW f
      PROVE  Pins(f) \in Nat /\ Pins(f)' = Pins(f) + (IF f = g THEN 1 ELSE 0)
  <2>1. /\ Pins(f) \in Nat
        /\ Pins(f)' = Pins(f) + (IF q.pc \in Pinning /\ q.gen = f THEN 1 ELSE 0)
                              - (IF r \in Pinners(f) THEN 1 ELSE 0)
    BY <1>1, PinsAfter DEF NamespaceInv, NamespaceTypeOK
  <2> QED BY <1>1, <2>1 DEF Pinners, Pinning
<1>4. \A f \in Generations : refs'[f] = Pins(f)' + (IF f = current' THEN 1 ELSE 0)
  BY <1>2, <1>3 DEF NamespaceInv, NamespaceTypeOK, PinsExact, Pin
<1>5. retained' = {f \in 1..(current' - 1) : Pins(f)' > 0}
  BY <1>2, <1>3 DEF NamespaceInv, PinsExact
<1> QED BY <1>2, <1>4, <1>5 DEF PinsExact, Pin, NamespaceInv, NamespaceTypeOK

\* A request that gives its pin back.
LEMMA PinGivenBack ==
    ASSUME NamespaceInv, NEW r \in Requests, NEW g, request[r].gen = g,
           request[r].pc \in Pinning, Unpin(g),
           request' = [request EXCEPT ![r] = Idle], UNCHANGED trees
    PROVE  PinsExact' /\ refs' \in [Generations -> Int]
<1>2. g \in Generations /\ g \in 1..current
  BY Counts DEF NamespaceInv, Found, ShownIn, Generations
<1>3. ASSUME NEW f
      PROVE  /\ Pins(f) \in Nat /\ Pins(f)' \in Nat
             /\ Pins(f)' = Pins(f) - (IF f = g THEN 1 ELSE 0)
  <2>1. /\ Pins(f) \in Nat /\ Pins(f)' \in Nat
        /\ Pins(f)' = Pins(f) + (IF Idle.pc \in Pinning /\ Idle.gen = f THEN 1 ELSE 0)
                              - (IF r \in Pinners(f) THEN 1 ELSE 0)
    BY PinsAfter DEF NamespaceInv, NamespaceTypeOK
  <2> QED BY <2>1 DEF Pinners, Pinning, Idle
<1>4. \A f \in Generations : refs'[f] = Pins(f)' + (IF f = current' THEN 1 ELSE 0)
  <2> SUFFICES ASSUME NEW f \in Generations
               PROVE  refs'[f] = Pins(f)' + (IF f = current' THEN 1 ELSE 0)
    OBVIOUS
  <2>1. refs'[f] = refs[f] - (IF f = g THEN 1 ELSE 0)
    BY <1>2 DEF NamespaceInv, NamespaceTypeOK, Unpin
  <2>2. refs[f] = Pins(f) + (IF f = current THEN 1 ELSE 0) /\ current' = current
    BY DEF NamespaceInv, PinsExact
  <2> QED BY <1>3, <2>1, <2>2
<1>5. retained' = {f \in 1..(current' - 1) : Pins(f)' > 0}
  <2>1. retained = {f \in 1..(current - 1) : Pins(f) > 0} /\ current' = current
    BY DEF NamespaceInv, PinsExact
  <2>2. refs[g] = Pins(g) + (IF g = current THEN 1 ELSE 0)
    BY <1>2 DEF NamespaceInv, PinsExact
  <2>3. CASE g = current
    <3>1. retained' = retained BY <2>3 DEF Unpin
    <3>2. \A f \in 1..(current - 1) : f # g BY <2>3, Counts DEF NamespaceInv
    <3> QED BY <1>3, <2>1, <3>1, <3>2
  <2>4. CASE g # current /\ refs[g] > 1
    <3>1. retained' = retained BY <2>4 DEF Unpin
    <3>2. Pins(g) > 0 /\ Pins(g)' > 0 BY <1>3, <2>2, <2>4
    <3> QED BY <1>3, <2>1, <3>1, <3>2
  <2>5. CASE g # current /\ ~(refs[g] > 1)
    <3>1. Pins(g)' = 0 BY <1>3, <2>2, <2>5
    <3>2. retained' = retained \ {g} BY <2>5 DEF Unpin
    <3> QED BY <1>3, <2>1, <3>1, <3>2
  <2> QED BY <2>3, <2>4, <2>5
<1> QED BY <1>2, <1>4, <1>5 DEF PinsExact, Unpin, NamespaceInv, NamespaceTypeOK

\* A request that moves on with what it has found.
LEMMA RequestMoves ==
    ASSUME NamespaceInv, NEW r \in Requests, NEW q \in Requested, Found(q),
           request' = [request EXCEPT ![r] = q],
           q.asked # NoVersion => nodes[q.asked] # NotRemembered,
           UNCHANGED <<trees, nodes, dentry>>, PinsExact', refs' \in [Generations -> Int]
    PROVE  NamespaceInv'
<1>1. \A s \in Requests : request'[s] = IF s = r THEN q ELSE request[s]
  BY DEF NamespaceInv, NamespaceTypeOK
<1>2. NamespaceTypeOK' BY <1>1 DEF NamespaceInv, NamespaceTypeOK
<1>3. Remembers' BY <1>1 DEF NamespaceInv, Remembers, Shown
<1>4. \A s \in Requests : Found(request[s])'
  BY <1>1 DEF NamespaceInv, Found, ShownIn, Shown
<1> QED BY <1>2, <1>3, <1>4 DEF NamespaceInv

LEMMA IdleFinds == Idle \in Requested /\ Idle.asked = NoVersion /\ Found(Idle)
BY DEF Idle, Requested, Unopened, Found, Pinning

LEMMA LookupResolves ==
    ASSUME NamespaceInv, NEW r \in Requests, NEW p \in Paths, LookupResolve(r, p)
    PROVE  NamespaceInv'
<1> DEFINE q == [Idle EXCEPT !.pc = "found", !.path = p, !.gen = current,
                             !.version = Shown(current, p)]
<1>1. current \in 1..Len(trees) /\ trees[current] \in Trees
  BY Counts DEF LookupResolve, Shows, NamespaceInv, NamespaceTypeOK
<1>2. Shown(current, p) \in Versions
  BY <1>1 DEF LookupResolve, Shows, Trees, Shown
<1>0. /\ q \in Requested /\ q.pc = "found" /\ q.path = p /\ q.asked = NoVersion
      /\ q.version = Shown(current, p) /\ q.gen = current
  BY <1>1, <1>2, IdleFinds, Counts DEF Requested, Unopened, NamespaceInv
<1>3. Found(q) BY <1>0, <1>1, <1>2 DEF Found, Pinning
<1>4. /\ request' = [request EXCEPT ![r] = q]
      /\ UNCHANGED <<trees, refs, retained, nodes, dentry>>
  BY DEF LookupResolve, Step
<1> HIDE DEF q
<1>5. PinsExact'
  BY <1>0, <1>4, PinsStay DEF LookupResolve, At, Pinning
<1> QED BY <1>0, <1>3, <1>4, <1>5, RequestMoves DEF NamespaceInv, NamespaceTypeOK

LEMMA LookupRemembers ==
    ASSUME NamespaceInv, NEW r \in Requests, LookupRemember(r)
    PROVE  NamespaceInv'
<1> DEFINE q == request[r]
<1>1. q.pc = "found" /\ q \in Requested /\ Found(q)
  BY DEF LookupRemember, At, NamespaceInv, NamespaceTypeOK
<1>2. /\ q.gen \in 1..current /\ q.path \in Paths /\ q.version \in Versions
      /\ Shown(q.gen, q.path) = q.version
  BY <1>1 DEF Found
<1>3. /\ nodes' = [nodes EXCEPT ![q.version] = [path |-> q.path, gen |-> q.gen]]
      /\ dentry' = [dentry EXCEPT ![q.path] = q.version]
      /\ request' = [request EXCEPT ![r] = Idle]
      /\ UNCHANGED <<trees, refs, retained>>
  BY DEF LookupRemember, Step
<1>4. PinsExact'
  BY <1>1, <1>3, PinsStay, IdleFinds DEF Pinning, Idle
<1>5. NamespaceTypeOK'
  BY <1>2, <1>3, IdleFinds, Counts DEF NamespaceInv, NamespaceTypeOK
<1>6. \A s \in Requests : Found(request[s])'
  BY <1>3, IdleFinds DEF NamespaceInv, NamespaceTypeOK, Found, ShownIn, Shown
<1>7. /\ nodes'[q.version] = [path |-> q.path, gen |-> q.gen]
      /\ \A v \in Versions \ {q.version} : nodes'[v] = nodes[v]
      /\ [path |-> q.path, gen |-> q.gen] # NotRemembered
  BY <1>2, <1>3 DEF NamespaceInv, NamespaceTypeOK, NotRemembered
<1>8. Remembers'
  <2>1. \A v \in Versions : nodes'[v] # NotRemembered =>
          nodes'[v].gen \in 1..current' /\ nodes'[v].path \in Paths
            /\ Shown(nodes[v].gen, nodes[v].path)' = v
    <3> SUFFICES ASSUME NEW v \in Versions, nodes'[v] # NotRemembered
                 PROVE  /\ nodes'[v].gen \in 1..current' /\ nodes'[v].path \in Paths
                        /\ Shown(nodes[v].gen, nodes[v].path)' = v
      OBVIOUS
    <3>1. CASE v = q.version
      <4>1. nodes'[v].gen = q.gen /\ nodes'[v].path = q.path BY <1>7, <3>1
      <4> QED BY <1>2, <1>3, <3>1, <4>1 DEF Shown
    <3>2. CASE v # q.version
      <4>1. nodes'[v] = nodes[v] BY <1>7, <3>2
      <4>2. /\ nodes[v].gen \in 1..current /\ nodes[v].path \in Paths
            /\ Shown(nodes[v].gen, nodes[v].path) = v
        BY <4>1 DEF NamespaceInv, Remembers
      <4> QED BY <1>3, <4>1, <4>2 DEF Shown
    <3> QED BY <3>1, <3>2
  <2>2. \A p \in Paths : dentry'[p] # NoVersion => nodes'[dentry'[p]] # NotRemembered
    BY <1>2, <1>3, <1>7 DEF NamespaceInv, NamespaceTypeOK, Remembers
  <2>3. \A s \in Requests : request'[s].asked # NoVersion =>
          nodes'[request'[s].asked] # NotRemembered
    BY <1>3, <1>7, IdleFinds DEF NamespaceInv, NamespaceTypeOK, Requested, Remembers
  <2> QED BY <2>1, <2>2, <2>3 DEF Remembers
<1> QED BY <1>4, <1>5, <1>6, <1>8 DEF NamespaceInv

LEMMA Expires ==
    ASSUME NamespaceInv, NEW p \in Paths, Expire(p)
    PROVE  NamespaceInv'
<1>1. PinsExact' BY PinsSame DEF NamespaceInv, Expire
<1>2. NamespaceTypeOK' BY DEF NamespaceInv, NamespaceTypeOK, Expire
<1>3. Remembers'
  BY DEF NamespaceInv, NamespaceTypeOK, Remembers, Shown, Expire
<1>4. \A s \in Requests : Found(request[s])'
  BY DEF NamespaceInv, Found, ShownIn, Shown, Expire
<1> QED BY <1>1, <1>2, <1>3, <1>4 DEF NamespaceInv

LEMMA Forgets ==
    ASSUME NamespaceInv, NEW v \in Versions, Forget(v)
    PROVE  NamespaceInv'
<1>0. /\ nodes' = [nodes EXCEPT ![v] = NotRemembered]
      /\ \A p \in Paths : dentry[p] # v
      /\ \A r \in Requests : v # request[r].asked
      /\ UNCHANGED <<trees, refs, retained, dentry, request>>
  BY DEF Forget
<1>1. PinsExact' BY <1>0, PinsSame DEF NamespaceInv
<1>2. NamespaceTypeOK' BY <1>0 DEF NamespaceInv, NamespaceTypeOK, NotRemembered
<1>3. \A w \in Versions : nodes'[w] = IF w = v THEN NotRemembered ELSE nodes[w]
  BY <1>0 DEF NamespaceInv, NamespaceTypeOK
<1>4. Remembers'
  BY <1>0, <1>3 DEF NamespaceInv, NamespaceTypeOK, Requested, Remembers, Shown
<1>5. \A s \in Requests : Found(request[s])'
  BY <1>0 DEF NamespaceInv, Found, ShownIn, Shown
<1> QED BY <1>1, <1>2, <1>4, <1>5 DEF NamespaceInv

LEMMA OpenResolves ==
    ASSUME NamespaceInv, NEW r \in Requests, NEW p \in Paths, OpenResolve(r, p)
    PROVE  NamespaceInv'
<1> DEFINE v == dentry[p]
           still == Shown(current, nodes[v].path) = v
           q == [pc |-> "resolved", path |-> p, asked |-> v, version |-> v,
                 gen |-> IF still THEN current ELSE nodes[v].gen]
<1>1. /\ v \in Versions /\ nodes[v] # NotRemembered
      /\ nodes[v].gen \in 1..current /\ nodes[v].path \in Paths
      /\ Shown(nodes[v].gen, nodes[v].path) = v
  BY DEF OpenResolve, NamespaceInv, NamespaceTypeOK, Remembers
<1>2. current \in 1..current BY <1>1, Counts DEF NamespaceInv
<1>3. q.gen \in 1..current /\ ShownIn(q.gen, v)
  BY <1>1, <1>2 DEF ShownIn
<1>4. /\ q.pc = "resolved" /\ q.asked = v /\ q.version = v
      /\ q \in Requested
  BY <1>1, <1>3, Counts DEF Requested, Unopened, NamespaceInv
<1>5. /\ request' = [request EXCEPT ![r] = q] /\ request[r].pc = "idle"
      /\ UNCHANGED <<trees, refs, retained, nodes, dentry>>
  BY DEF OpenResolve, Step, At
<1> HIDE DEF q
<1>6. Found(q) BY <1>1, <1>3, <1>4 DEF Found, Pinning
<1>7. PinsExact' BY <1>4, <1>5, PinsStay DEF Pinning
<1> QED BY <1>1, <1>4, <1>5, <1>6, <1>7, RequestMoves DEF NamespaceInv, NamespaceTypeOK

\* A request that goes on to another place with the version and the generation it has.
LEMMA GoesTo ==
    ASSUME NamespaceInv, NEW r \in Requests, NEW pc \in {"reclaimed", "enoent", "open", "closed"},
           request' = [request EXCEPT ![r].pc = pc],
           \/ pc = "reclaimed" /\ request[r].pc = "resolved"
           \/ pc = "enoent" /\ request[r].pc \in {"reclaimed", "refreshed"}
           \/ pc = "open" /\ request[r].pc = "pinned"
           \/ pc = "closed" /\ request[r].pc = "open",
           UNCHANGED <<trees, refs, retained, nodes, dentry>>
    PROVE  NamespaceInv'
<1> DEFINE q == [request[r] EXCEPT !.pc = pc]
<1>1. request[r] \in Requested /\ Found(request[r])
  BY DEF NamespaceInv, NamespaceTypeOK
<1>2. /\ q \in Requested /\ q.pc = pc /\ q.gen = request[r].gen
      /\ q.asked = request[r].asked /\ q.version = request[r].version
      /\ request' = [request EXCEPT ![r] = q]
  BY <1>1 DEF Requested, Unopened, Pinning
<1> HIDE DEF q
<1>3. Found(q) BY <1>1, <1>2 DEF Found, Pinning
<1>4. PinsExact' BY <1>2, PinsStay DEF Pinning
<1>5. q.asked # NoVersion => nodes[q.asked] # NotRemembered
  BY <1>2 DEF NamespaceInv, Remembers
<1> QED BY <1>2, <1>3, <1>4, <1>5, RequestMoves DEF NamespaceInv, NamespaceTypeOK

LEMMA TakesPin ==
    ASSUME NamespaceInv, NEW r \in Requests, request[r].pc \in {"resolved", "refreshed"},
           Alive(request[r].gen), Pin(request[r].gen),
           request' = [request EXCEPT ![r].pc = "pinned"],
           UNCHANGED <<trees, retained, nodes, dentry>>
    PROVE  NamespaceInv'
<1> DEFINE q == [request[r] EXCEPT !.pc = "pinned"]
<1>1. request[r] \in Requested /\ Found(request[r])
  BY DEF NamespaceInv, NamespaceTypeOK
<1>2. /\ q \in Requested /\ q.pc = "pinned" /\ q.gen = request[r].gen
      /\ q.asked = request[r].asked /\ q.version = request[r].version
      /\ request' = [request EXCEPT ![r] = q]
  BY <1>1 DEF Requested, Unopened, Pinning
<1> HIDE DEF q
<1>3. Found(q) BY <1>1, <1>2 DEF Found, Pinning
<1>4. PinsExact' /\ refs' \in [Generations -> Int] BY PinTaken DEF Pinning
<1>5. q.asked # NoVersion => nodes[q.asked] # NotRemembered
  BY <1>2 DEF NamespaceInv, Remembers
<1> QED BY <1>2, <1>3, <1>4, <1>5, RequestMoves

LEMMA GivesPinBack ==
    ASSUME NamespaceInv, NEW r \in Requests, request[r].pc \in Pinning,
           Unpin(request[r].gen), Step(r, Idle), UNCHANGED <<trees, nodes, dentry>>
    PROVE  NamespaceInv'
<1>1. PinsExact' /\ refs' \in [Generations -> Int] BY PinGivenBack DEF Step
<1> QED BY <1>1, IdleFinds, RequestMoves DEF Step

LEMMA Refreshes ==
    ASSUME NamespaceInv, NEW r \in Requests, OpenRefresh(r)
    PROVE  NamespaceInv'
<1> DEFINE path == nodes[request[r].asked].path
           q == [request[r] EXCEPT !.pc = "refreshed", !.gen = current,
                                   !.version = Shown(current, path)]
<1>1. request[r] \in Requested /\ Found(request[r]) /\ request[r].pc = "reclaimed"
  BY DEF NamespaceInv, NamespaceTypeOK, OpenRefresh, At
<1>2. UNCHANGED <<trees, refs, retained, nodes, dentry>> BY DEF OpenRefresh
<1>3. CASE ~Shows(current, path)
  BY <1>1, <1>2, <1>3, GoesTo DEF OpenRefresh, Step
<1>4. CASE Shows(current, path)
  <2>1. request[r].asked \in Versions /\ nodes[request[r].asked] # NotRemembered
    BY <1>1, NamespaceAssumption DEF Found, NamespaceInv, Remembers
  <2>2. path \in Paths BY <2>1 DEF NamespaceInv, Remembers
  <2>3. current \in 1..Len(trees) /\ trees[current] \in Trees
    BY <1>4, Counts DEF Shows, NamespaceInv, NamespaceTypeOK
  <2>4. Shown(current, path) \in Versions
    BY <1>4, <2>2, <2>3 DEF Shows, Trees, Shown
  <2>5. /\ q \in Requested /\ q.pc = "refreshed" /\ q.gen = current
        /\ q.asked = request[r].asked /\ q.version = Shown(current, path)
    BY <1>1, <2>3, <2>4, Counts DEF Requested, Unopened, NamespaceInv
  <2>6. request' = [request EXCEPT ![r] = q] BY <1>4 DEF OpenRefresh, Step
  <2> HIDE DEF q
  <2>7. Found(q) BY <2>1, <2>2, <2>3, <2>4, <2>5 DEF Found, ShownIn, Pinning
  <2>8. PinsExact' BY <1>1, <1>2, <2>5, <2>6, PinsStay DEF Pinning
  <2> QED BY <1>2, <2>1, <2>5, <2>6, <2>7, <2>8, RequestMoves DEF NamespaceInv, NamespaceTypeOK
<1> QED BY <1>3, <1>4

LEMMA Answers ==
    ASSUME NamespaceInv, NEW r \in Requests, Answered(r)
    PROVE  NamespaceInv'
<1>1. request' = [request EXCEPT ![r] = Idle] /\ request[r].pc = "enoent"
  BY DEF Answered, Step, At
<1>2. UNCHANGED <<trees, refs, retained, nodes, dentry>> BY DEF Answered
<1>3. PinsExact' BY <1>1, <1>2, IdleFinds, PinsStay DEF Pinning, Idle
<1> QED BY <1>1, <1>2, <1>3, IdleFinds, RequestMoves DEF NamespaceInv, NamespaceTypeOK

LEMMA Admits ==
    ASSUME NamespaceInv, Admit
    PROVE  NamespaceInv'
<1> PICK t \in Trees : Swap(t) BY DEF Admit
<1>0. current < MaxGenerations /\ UNCHANGED <<nodes, dentry, request>> BY DEF Admit
<1>1. /\ Len(trees) \in Nat /\ MaxGenerations \in Nat /\ trees \in Seq(Trees)
      /\ trees' = Append(trees, t)
  BY Counts DEF NamespaceInv, NamespaceTypeOK, Swap
<1>2. /\ trees' \in Seq(Trees) /\ Len(trees') = Len(trees) + 1
      /\ \A g \in 1..Len(trees) : trees'[g] = trees[g]
  BY <1>1
<1>3. NamespaceTypeOK'
  <2>1. refs' \in [Generations -> Int]
    BY DEF NamespaceInv, NamespaceTypeOK, Swap
  <2> QED BY <1>0, <1>1, <1>2, <2>1 DEF NamespaceInv, NamespaceTypeOK
<1>4. \A g \in 1..Len(trees) : g \in 1..Len(trees') BY <1>1, <1>2
<1>5. Remembers' BY <1>0, <1>2, <1>4 DEF NamespaceInv, Remembers, Shown
<1>6. \A r \in Requests : Found(request[r])'
  BY <1>0, <1>2, <1>4 DEF NamespaceInv, Found, ShownIn, Shown
<1>7. ASSUME NEW g PROVE Pins(g)' = Pins(g) /\ Pins(g) \in Nat
  <2>1. Pinners(g) \subseteq Requests BY DEF Pinners
  <2>2. Cardinality(Pinners(g)) \in Nat
    BY <2>1, FS_Subset, FS_CardinalityType, NamespaceAssumption
  <2> QED BY <1>0, <2>2 DEF Pins, Pinners
<1>8. Pins(current + 1) = 0
  <2>1. Pinners(current + 1) = {}
    BY <1>1 DEF Pinners, NamespaceInv, Found, ShownIn
  <2> QED BY <2>1, FS_EmptySet DEF Pins, Pinners
<1>9. ASSUME NEW g \in Generations
      PROVE  refs'[g] = Pins(g)' + (IF g = current' THEN 1 ELSE 0)
  <2>1. refs[g] = Pins(g) + (IF g = current THEN 1 ELSE 0) BY DEF NamespaceInv, PinsExact
  <2>2. refs'[g] = IF g = current + 1 THEN 1 ELSE IF g = current THEN refs[g] - 1 ELSE refs[g]
    BY DEF Swap
  <2>3. current' = current + 1 /\ current # current + 1 BY <1>1, <1>2
  <2> QED BY <1>7, <1>8, <2>1, <2>2, <2>3
<1>10. retained' = {g \in 1..(current' - 1) : Pins(g)' > 0}
  <2>1. retained = {g \in 1..(current - 1) : Pins(g) > 0} BY DEF NamespaceInv, PinsExact
  <2>2. current > 0 => refs[current] = Pins(current) + 1
    BY <1>1, Counts DEF NamespaceInv, PinsExact, Generations
  <2>3. retained' = retained \cup {g \in {current} : g > 0 /\ refs[g] > 1} BY DEF Swap
  <2>4. \A g : g \in 1..(current' - 1) <=> (g \in 1..(current - 1) \/ (g = current /\ current > 0))
    BY <1>1, <1>2
  <2>5. \A g : Pins(g)' = Pins(g) /\ Pins(g) \in Nat BY <1>7
  <2>6. current > 0 => (refs[current] > 1 <=> Pins(current) > 0) BY <2>2, <2>5
  <2> QED BY <2>1, <2>3, <2>4, <2>5, <2>6
<1> QED BY <1>3, <1>5, <1>6, <1>9, <1>10 DEF NamespaceInv, PinsExact

LEMMA NextNamespace == NamespaceInv /\ [NamespaceNext]_nsVars => NamespaceInv'
<1> SUFFICES ASSUME NamespaceInv, [NamespaceNext]_nsVars PROVE NamespaceInv' OBVIOUS
<1>1. CASE Admit BY <1>1, Admits
<1>2. ASSUME NEW p \in Paths, Expire(p) PROVE NamespaceInv' BY <1>2, Expires
<1>3. ASSUME NEW v \in Versions, Forget(v) PROVE NamespaceInv' BY <1>3, Forgets
<1>4. CASE UNCHANGED nsVars
  <2>1. PinsExact' BY <1>4, PinsSame DEF nsVars, NamespaceInv
  <2> QED BY <1>4, <2>1
          DEF nsVars, NamespaceInv, NamespaceTypeOK, Remembers, Found, ShownIn, Shown
<1>5. ASSUME NEW r \in Requests, Lookup(r) PROVE NamespaceInv'
  BY <1>4, <1>5, LookupResolves, LookupRemembers DEF Lookup, LookupAbsent
<1>6. ASSUME NEW r \in Requests, Release(r) PROVE NamespaceInv'
  <2>1. CASE Close(r) BY <2>1, GoesTo DEF Close, At, Step
  <2>2. CASE CloseUnpin(r) BY <2>2, GivesPinBack DEF CloseUnpin, At, Pinning
  <2> QED BY <1>6, <2>1, <2>2 DEF Release
<1>7. ASSUME NEW r \in Requests, Open(r) PROVE NamespaceInv'
  <2>1. CASE OpenPin(r) BY <2>1, GoesTo, TakesPin DEF OpenPin, At, Step
  <2>2. CASE OpenPinAgain(r) BY <2>2, GoesTo, TakesPin DEF OpenPinAgain, At, Step
  <2>3. CASE OpenHandle(r) BY <2>3, GoesTo DEF OpenHandle, At, Step
  <2>4. CASE OpenFails(r) BY <2>4, GivesPinBack DEF OpenFails, At, Pinning
  <2> QED BY <1>7, <2>1, <2>2, <2>3, <2>4, OpenResolves, Refreshes, Answers DEF Open
<1> QED BY <1>1, <1>2, <1>3, <1>4, <1>5, <1>6, <1>7 DEF NamespaceNext

\* The file system remembers where it saw each inode the kernel still knows, and what a
\* request has found stays shown, however many generations are admitted meanwhile.
THEOREM NamespaceInductive == NamespaceSpec => []NamespaceInv
BY InitNamespace, NextNamespace, PTL DEF NamespaceSpec

\* A generation's count is what pins it, and exactly the older generations that somebody
\* pins are kept, for any number of requests and admissions.
THEOREM PinsSound == NamespaceSpec => []PinsExact
<1>1. NamespaceInv => PinsExact BY DEF NamespaceInv
<1> QED BY <1>1, NamespaceInductive, PTL

\* An open handle reads a version that the generation it pins shows.
THEOREM HandleSound == NamespaceSpec => []HandleOfItsGeneration
<1>1. NamespaceInv => HandleOfItsGeneration
  BY DEF NamespaceInv, HandleOfItsGeneration, Found, ShownIn, Pinning, At
<1> QED BY <1>1, NamespaceInductive, PTL

-----------------------------------------------------------------------------
(* The flights of blocks.                                                   *)

Running == {"fetching", "fetched", "leaving"}
Calls == [pc : Running \cup {"free", "done"}, block : Blocks \cup {NoBlock},
          starter : Handles \cup {NoHandle}, waiters : Nat, abandoned : BOOLEAN, ok : BOOLEAN]
Parts == [pc : {"idle", "missed", "waiting", "pinning", "pinned"},
          block : Blocks \cup {NoBlock}, on : Flights \cup {NoFlight}, moved : BOOLEAN]

FlightsTypeOK ==
    /\ flight \in [Blocks -> Flights \cup {NoFlight}]
    /\ call \in [Flights -> Calls] /\ part \in [Participants -> Parts]
    /\ \A c \in Flights : call[c].pc # "free" =>
          call[c].block \in Blocks /\ call[c].starter \in Handles
    /\ \A p \in Participants : part[p].pc # "idle" => part[p].block \in Blocks
    /\ \A p \in Participants : part[p].pc = "waiting" => part[p].on \in Flights

Waiting(c) == {p \in Participants : Where(p, "waiting") /\ part[p].on = c}

\* What the map shows is running, what runs and is wanted is in the map, and a flight
\* that nobody wants any more has nobody on it.
FlightShown(c) ==
    /\ \A b \in Blocks : flight[b] = c => call[c].pc \in Running /\ call[c].block = b
    /\ (call[c].pc \in Running /\ ~call[c].abandoned) => flight[call[c].block] = c
    /\ (call[c].abandoned \/ call[c].pc = "free") => call[c].waiters = 0

FlightsInv ==
    /\ FlightsTypeOK
    /\ \A c \in Flights : FlightShown(c) /\ call[c].waiters = Cardinality(Waiting(c))

LEMMA InitFlights == BlockReadsInit => FlightsInv
<1> SUFFICES ASSUME BlockReadsInit PROVE FlightsInv OBVIOUS
<1>1. /\ flight = [b \in Blocks |-> NoFlight] /\ call = [c \in Flights |-> Free]
      /\ part = [p \in Participants |-> Resting]
  BY DEF BlockReadsInit
<1>2. Free \in Calls /\ Resting \in Parts BY DEF Free, Resting, Calls, Parts
<1>3. FlightsTypeOK BY <1>1, <1>2 DEF FlightsTypeOK, Free, Resting
<1>4. ASSUME NEW c \in Flights
      PROVE  FlightShown(c) /\ call[c].waiters = Cardinality(Waiting(c))
  <2>1. Waiting(c) = {} BY <1>1 DEF Waiting, Where, Resting
  <2>2. FlightShown(c) BY <1>1, ReadsAssumption DEF FlightShown, Free, Running
  <2> QED BY <1>1, <2>1, <2>2, FS_EmptySet DEF Free
<1> QED BY <1>3, <1>4 DEF FlightsInv

LEMMA WaitingAfter ==
    ASSUME FlightsTypeOK, NEW p \in Participants, NEW q, part' = [part EXCEPT ![p] = q], NEW c
    PROVE  /\ Cardinality(Waiting(c)) \in Nat
           /\ p \in Waiting(c) => Cardinality(Waiting(c)) > 0
           /\ Cardinality(Waiting(c)') = Cardinality(Waiting(c))
                + (IF q.pc = "waiting" /\ q.on = c THEN 1 ELSE 0)
                - (IF p \in Waiting(c) THEN 1 ELSE 0)
<1>1. IsFiniteSet(Participants) BY ReadsAssumption, FS_Union DEF Participants
<1>2. Waiting(c) \subseteq Participants /\ Waiting(c)' \subseteq Participants
  BY DEF Waiting
<1>3. part'[p] = q /\ \A s \in Participants \ {p} : part'[s] = part[s] BY DEF FlightsTypeOK
<1>4. Waiting(c) \ {p} = Waiting(c)' \ {p} BY <1>3 DEF Waiting, Where
<1>5. p \in Waiting(c)' <=> q.pc = "waiting" /\ q.on = c BY <1>3 DEF Waiting, Where
<1>6. /\ Cardinality(Waiting(c)) \in Nat /\ Cardinality(Waiting(c)') \in Nat
      /\ Cardinality(Waiting(c)') = Cardinality(Waiting(c))
           + (IF p \in Waiting(c)' THEN 1 ELSE 0) - (IF p \in Waiting(c) THEN 1 ELSE 0)
  BY <1>1, <1>2, <1>4, CountAfter
<1>7. p \in Waiting(c) => Cardinality(Waiting(c)) > 0
  BY <1>1, <1>2, FS_Subset, FS_EmptySet, <1>6
<1> QED BY <1>5, <1>6, <1>7

\* A reader moves that is on no flight and gets on none.
LEMMA MovesOffFlights ==
    ASSUME FlightsInv, NEW p \in Participants, NEW q \in Parts, Moves(p, q),
           ~Where(p, "waiting"), q.pc # "waiting", q.pc # "idle" => q.block \in Blocks,
           UNCHANGED <<flight, call>>
    PROVE  FlightsInv'
<1>1. part' = [part EXCEPT ![p] = q] BY DEF Moves
<1>2. FlightsTypeOK' BY <1>1 DEF FlightsInv, FlightsTypeOK
<1>3. ASSUME NEW c \in Flights
      PROVE  FlightShown(c)' /\ call'[c].waiters = Cardinality(Waiting(c)')
  <2>1. Waiting(c)' = Waiting(c) BY <1>1 DEF FlightsInv, FlightsTypeOK, Waiting, Where
  <2> QED BY <2>1 DEF FlightsInv, FlightShown
<1> QED BY <1>2, <1>3 DEF FlightsInv

\* What a reader wanted is not wanted any more: it is still where it was.
LEMMA EpochsMove ==
    ASSUME FlightsInv, NEW h, part' = EpochMoves(h), UNCHANGED <<flight, call>>
    PROVE  FlightsInv'
<1>1. \A p \in Participants :
         /\ part'[p] \in Parts /\ part'[p].pc = part[p].pc /\ part'[p].on = part[p].on
         /\ part'[p].block = part[p].block
  BY DEF EpochMoves, FlightsInv, FlightsTypeOK, Parts
<1>2. part' \in [Participants -> Parts] BY <1>1 DEF EpochMoves
<1>3. FlightsTypeOK' BY <1>1, <1>2 DEF FlightsInv, FlightsTypeOK
<1>4. ASSUME NEW c \in Flights
      PROVE  FlightShown(c)' /\ call'[c].waiters = Cardinality(Waiting(c)')
  <2>1. Waiting(c)' = Waiting(c) BY <1>1 DEF Waiting, Where
  <2> QED BY <2>1 DEF FlightsInv, FlightShown
<1> QED BY <1>3, <1>4 DEF FlightsInv

LEMMA FlightsStand ==
    ASSUME FlightsInv, UNCHANGED <<flight, call, part>>
    PROVE  FlightsInv'
BY DEF FlightsInv, FlightsTypeOK, FlightShown, Waiting, Where

LEMMA Joins ==
    ASSUME FlightsInv, NEW p \in Participants, Join(p)
    PROVE  FlightsInv'
<1> DEFINE b == part[p].block
           c == flight[b]
           k == [call[c] EXCEPT !.waiters = @ + 1]
           q == [part[p] EXCEPT !.pc = "waiting", !.on = c]
<1>1. /\ part[p].pc = "missed" /\ c # NoFlight /\ ~call[c].abandoned
      /\ call' = [call EXCEPT ![c] = k] /\ part' = [part EXCEPT ![p] = q] /\ flight' = flight
  BY DEF Join, Where, Joinable, Moves
<1>2. b \in Blocks /\ c \in Flights /\ call[c] \in Calls /\ part[p] \in Parts
  BY <1>1 DEF FlightsInv, FlightsTypeOK
<1>3. /\ k \in Calls /\ k.pc = call[c].pc /\ k.block = call[c].block
      /\ k.starter = call[c].starter /\ k.abandoned = call[c].abandoned
      /\ k.waiters = call[c].waiters + 1
  BY <1>2 DEF Calls
<1>4. /\ q \in Parts /\ q.pc = "waiting" /\ q.on = c /\ q.block = b
  BY <1>2 DEF Parts
<1> HIDE DEF k, q
<1>5. FlightsTypeOK' BY <1>1, <1>2, <1>3, <1>4 DEF FlightsInv, FlightsTypeOK
<1>6. call'[c] = k /\ \A d \in Flights \ {c} : call'[d] = call[d]
  BY <1>1, <1>2 DEF FlightsInv, FlightsTypeOK
<1>7. call[c].pc \in Running BY <1>2 DEF FlightsInv, FlightShown
<1>8. ASSUME NEW d \in Flights
      PROVE  FlightShown(d)' /\ call'[d].waiters = Cardinality(Waiting(d)')
  <2>1. Cardinality(Waiting(d)') = Cardinality(Waiting(d)) + (IF d = c THEN 1 ELSE 0)
    <3>1. p \notin Waiting(d) BY <1>1 DEF Waiting, Where
    <3>2. /\ Cardinality(Waiting(d)) \in Nat
          /\ Cardinality(Waiting(d)') = Cardinality(Waiting(d))
                + (IF q.pc = "waiting" /\ q.on = d THEN 1 ELSE 0)
                - (IF p \in Waiting(d) THEN 1 ELSE 0)
      BY <1>1, WaitingAfter DEF FlightsInv
    <3> QED BY <1>4, <3>1, <3>2
  <2>2. call'[d].waiters = Cardinality(Waiting(d)')
    <3>1. call[d].waiters = Cardinality(Waiting(d)) /\ call[d].waiters \in Nat
      BY DEF FlightsInv, FlightsTypeOK, Calls
    <3> QED BY <1>3, <1>6, <2>1, <3>1
  <2>3. FlightShown(d)'
    <3>1. FlightShown(d) BY DEF FlightsInv
    <3>2. CASE d # c BY <1>1, <1>6, <3>1, <3>2 DEF FlightShown
    <3>3. CASE d = c BY <1>1, <1>3, <1>6, <1>7, <3>1, <3>3 DEF FlightShown, Running
    <3> QED BY <3>2, <3>3
  <2> QED BY <2>2, <2>3
<1> QED BY <1>5, <1>8 DEF FlightsInv

LEMMA StartsFlight ==
    ASSUME FlightsInv, NEW p \in Participants, Start(p)
    PROVE  FlightsInv'
<1> DEFINE b == part[p].block
           k == [Free EXCEPT !.pc = "fetching", !.block = b, !.starter = Owner(p), !.waiters = 1]
<1>1. PICK c \in Flights :
         /\ call[c].pc = "free" /\ call' = [call EXCEPT ![c] = k]
         /\ flight' = [flight EXCEPT ![b] = c]
         /\ part' = [part EXCEPT ![p] = [part[p] EXCEPT !.pc = "waiting", !.on = c]]
  BY DEF Start, Moves
<1> DEFINE q == [part[p] EXCEPT !.pc = "waiting", !.on = c]
<1>2. part[p].pc = "missed" /\ ~Joinable(b) BY DEF Start, Where
<1>3. b \in Blocks /\ part[p] \in Parts BY <1>2 DEF FlightsInv, FlightsTypeOK
<1>4. /\ k \in Calls /\ k.pc = "fetching" /\ k.block = b /\ ~k.abandoned /\ k.waiters = 1
      /\ k.starter \in Handles
  <2>1. Owner(p) \in Handles BY ReadsAssumption DEF Owner, Participants
  <2> QED BY <1>3, <2>1 DEF Free, Calls, Running
<1>5. /\ q \in Parts /\ q.pc = "waiting" /\ q.on = c /\ q.block = b
  BY <1>3 DEF Parts
<1>6. part' = [part EXCEPT ![p] = q] BY <1>1
<1> HIDE DEF k, q
<1>7. /\ call'[c] = k /\ \A d \in Flights \ {c} : call'[d] = call[d]
      /\ flight'[b] = c /\ \A x \in Blocks \ {b} : flight'[x] = flight[x]
  BY <1>1, <1>3 DEF FlightsInv, FlightsTypeOK
<1>8. FlightsTypeOK'
  <2>1. /\ call' \in [Flights -> Calls] /\ flight' \in [Blocks -> Flights \cup {NoFlight}]
        /\ part' \in [Participants -> Parts]
    BY <1>1, <1>4, <1>5, <1>6 DEF FlightsInv, FlightsTypeOK
  <2>2. part'[p] = q /\ \A s \in Participants \ {p} : part'[s] = part[s]
    BY <1>6 DEF FlightsInv, FlightsTypeOK
  <2> QED BY <1>3, <1>4, <1>5, <1>7, <2>1, <2>2 DEF FlightsInv, FlightsTypeOK
<1>9. ASSUME NEW d \in Flights
      PROVE  FlightShown(d)' /\ call'[d].waiters = Cardinality(Waiting(d)')
  <2>0. FlightShown(d) /\ call[d].waiters = Cardinality(Waiting(d)) BY DEF FlightsInv
  <2>1. Cardinality(Waiting(d)') = Cardinality(Waiting(d)) + (IF d = c THEN 1 ELSE 0)
    <3>1. p \notin Waiting(d) BY <1>2 DEF Waiting, Where
    <3>2. /\ Cardinality(Waiting(d)) \in Nat
          /\ Cardinality(Waiting(d)') = Cardinality(Waiting(d))
                + (IF q.pc = "waiting" /\ q.on = d THEN 1 ELSE 0)
                - (IF p \in Waiting(d) THEN 1 ELSE 0)
      BY <1>6, WaitingAfter DEF FlightsInv
    <3> QED BY <1>5, <3>1, <3>2
  <2>2. CASE d = c
    <3>1. call[c].waiters = 0 BY <1>1, <2>0, <2>2 DEF FlightShown
    <3>2. \A x \in Blocks \ {b} : flight'[x] # c
      BY <1>1, <1>7, <2>0, <2>2 DEF FlightShown, Running
    <3>3. FlightShown(c)' BY <1>4, <1>7, <3>2 DEF FlightShown, Running
    <3> QED BY <1>4, <1>7, <2>0, <2>1, <2>2, <3>1, <3>3
  <2>3. CASE d # c
    <3>1. call[d].waiters \in Nat BY DEF FlightsInv, FlightsTypeOK, Calls
    <3>2. (call[d].pc \in Running /\ ~call[d].abandoned) => call[d].block # b
      BY <1>2, <2>0, ReadsAssumption DEF FlightShown, Joinable
    <3>3. FlightShown(d)'
      <4>1. \A x \in Blocks : flight'[x] = d => call'[d].pc \in Running /\ call'[d].block = x
        BY <1>7, <2>0, <2>3 DEF FlightShown
      <4>2. (call'[d].pc \in Running /\ ~call'[d].abandoned) => flight'[call'[d].block] = d
        <5>1. call[d].pc \in Running => call[d].block \in Blocks
          BY DEF FlightsInv, FlightsTypeOK, Running
        <5> QED BY <1>7, <2>0, <2>3, <3>2, <5>1 DEF FlightShown
      <4>3. (call'[d].abandoned \/ call'[d].pc = "free") => call'[d].waiters = 0
        BY <1>7, <2>0, <2>3 DEF FlightShown
      <4> QED BY <4>1, <4>2, <4>3 DEF FlightShown
    <3> QED BY <1>7, <2>0, <2>1, <2>3, <3>1, <3>3
  <2> QED BY <2>2, <2>3
<1> QED BY <1>8, <1>9 DEF FlightsInv

\* A reader leaves its flight; the last one out abandons it, or clears it away.
LEMMA Leaves ==
    ASSUME FlightsInv, NEW p \in Participants, Where(p, "waiting"), Left(part[p].on),
           NEW q \in Parts, Moves(p, q), q.pc # "waiting", q.pc # "idle" => q.block \in Blocks,
           flight' = flight
    PROVE  FlightsInv'
<1>0. PICK c \in Flights : c = part[p].on
  BY DEF Where, FlightsInv, FlightsTypeOK
<1> DEFINE last == call[c].waiters = 1
           fewer == [call[c] EXCEPT !.waiters = @ - 1, !.abandoned = @ \/ last]
           k == IF last /\ call[c].pc = "done" THEN Free ELSE fewer
<1>1. call' = [call EXCEPT ![c] = k] /\ part' = [part EXCEPT ![p] = q]
  BY <1>0 DEF Left, Moves
<1>2. call[c] \in Calls /\ part[p].pc = "waiting"
  BY DEF Where, FlightsInv, FlightsTypeOK
<1>3. \A d \in Flights : FlightShown(d) /\ call[d].waiters = Cardinality(Waiting(d))
  BY DEF FlightsInv
<1>4. \A d \in Flights :
         /\ Cardinality(Waiting(d)) \in Nat
         /\ Cardinality(Waiting(d)') = Cardinality(Waiting(d)) - (IF d = c THEN 1 ELSE 0)
  <2> SUFFICES ASSUME NEW d \in Flights
               PROVE  /\ Cardinality(Waiting(d)) \in Nat
                      /\ Cardinality(Waiting(d)')
                           = Cardinality(Waiting(d)) - (IF d = c THEN 1 ELSE 0)
    OBVIOUS
  <2>1. p \in Waiting(d) <=> d = c BY <1>0, <1>2 DEF Waiting, Where
  <2>2. /\ Cardinality(Waiting(d)) \in Nat
        /\ Cardinality(Waiting(d)') = Cardinality(Waiting(d))
              + (IF q.pc = "waiting" /\ q.on = d THEN 1 ELSE 0)
              - (IF p \in Waiting(d) THEN 1 ELSE 0)
    BY <1>1, WaitingAfter DEF FlightsInv
  <2> QED BY <2>1, <2>2
<1>5. call[c].waiters > 0
  <2>1. p \in Waiting(c) BY <1>0, <1>2 DEF Waiting, Where
  <2>2. Cardinality(Waiting(c)) > 0 BY <2>1, <1>1, WaitingAfter DEF FlightsInv
  <2> QED BY <1>2, <1>3, <2>2
<1>6. /\ fewer \in Calls /\ fewer.pc = call[c].pc /\ fewer.block = call[c].block
      /\ fewer.starter = call[c].starter
      /\ fewer.waiters = call[c].waiters - 1 /\ (fewer.abandoned <=> call[c].abandoned \/ last)
  <2>1. call[c].waiters \in Nat /\ call[c].waiters - 1 \in Nat BY <1>2, <1>5 DEF Calls
  <2>2. (call[c].abandoned \/ last) \in BOOLEAN BY <1>2 DEF Calls
  <2> QED BY <1>2, <2>1, <2>2 DEF Calls
<1>7. Free \in Calls /\ Free.pc = "free" /\ Free.waiters = 0 /\ Free.abandoned = FALSE
  BY DEF Free, Calls
<1>8. /\ k \in Calls /\ k.waiters = call[c].waiters - 1
      /\ \/ k.pc = call[c].pc /\ k.block = call[c].block /\ k.starter = call[c].starter
         \/ k.pc = "free" /\ call[c].pc = "done"
      /\ (k.abandoned \/ k.pc = "free") => k.waiters = 0
      /\ k.pc \in Running => (k.abandoned <=> call[c].abandoned \/ last)
  <2> HIDE DEF fewer
  <2>1. CASE last /\ call[c].pc = "done" BY <1>2, <1>7, <2>1 DEF Running
  <2>2. CASE ~(last /\ call[c].pc = "done")
    <3>1. k = fewer BY <2>2
    <3>2. ~call[c].abandoned /\ call[c].pc # "free" BY <1>2, <1>3, <1>5 DEF FlightShown
    <3> HIDE DEF k
    <3> QED BY <1>6, <3>1, <3>2
  <2> QED BY <2>1, <2>2
<1> HIDE DEF k
<1>9. call'[c] = k /\ \A d \in Flights \ {c} : call'[d] = call[d]
  BY <1>1, <1>2 DEF FlightsInv, FlightsTypeOK
<1>10. FlightsTypeOK' BY <1>1, <1>2, <1>8 DEF FlightsInv, FlightsTypeOK
<1>11. ASSUME NEW d \in Flights
       PROVE  FlightShown(d)' /\ call'[d].waiters = Cardinality(Waiting(d)')
  <2>1. CASE d # c BY <1>3, <1>4, <1>9, <2>1 DEF FlightShown
  <2>2. CASE d = c
    <3>1. call'[c].waiters = Cardinality(Waiting(c)') BY <1>2, <1>3, <1>4, <1>8, <1>9
    <3>2. FlightShown(c) BY <1>2, <1>3
    <3>3. FlightShown(c)' BY <1>8, <1>9, <3>2 DEF FlightShown, Running
    <3> QED BY <2>2, <3>1, <3>3
  <2> QED BY <2>1, <2>2
<1> QED BY <1>10, <1>11 DEF FlightsInv

\* A flight's goroutine goes on: its fetch ends, its bytes are published.
LEMMA GoesOnFlying ==
    ASSUME FlightsInv, NEW c \in Flights, NEW k \in Calls, call' = [call EXCEPT ![c] = k],
           call[c].pc \in Running, k.pc \in Running, k.block = call[c].block,
           k.starter = call[c].starter,
           k.waiters = call[c].waiters, k.abandoned = call[c].abandoned,
           UNCHANGED <<flight, part>>
    PROVE  FlightsInv'
<1>1. call'[c] = k /\ \A d \in Flights \ {c} : call'[d] = call[d]
  BY DEF FlightsInv, FlightsTypeOK
<1>2. FlightsTypeOK' BY <1>1 DEF FlightsInv, FlightsTypeOK, Running
<1>3. ASSUME NEW d \in Flights
      PROVE  FlightShown(d)' /\ call'[d].waiters = Cardinality(Waiting(d)')
  <2>1. Waiting(d)' = Waiting(d) BY DEF Waiting, Where
  <2>2. FlightShown(d)' BY <1>1 DEF FlightsInv, FlightShown, Running
  <2> QED BY <1>1, <2>1, <2>2 DEF FlightsInv
<1> QED BY <1>2, <1>3 DEF FlightsInv

LEMMA Flies ==
    ASSUME FlightsInv, NEW c \in Flights, FetchEnds(c) \/ Publish(c)
    PROVE  FlightsInv'
<1>0. call[c] \in Calls BY DEF FlightsInv, FlightsTypeOK
<1>1. CASE FetchEnds(c)
  <2>1. PICK ok \in BOOLEAN :
           call' = [call EXCEPT ![c].pc = IF ok THEN "fetched" ELSE "leaving", ![c].ok = ok]
    BY <1>1 DEF FetchEnds
  <2> DEFINE k == [call[c] EXCEPT !.pc = IF ok THEN "fetched" ELSE "leaving", !.ok = ok]
  <2>2. call' = [call EXCEPT ![c] = k] BY <1>0, <2>1 DEF FlightsInv, FlightsTypeOK
  <2>3. /\ k \in Calls /\ k.pc \in Running /\ k.block = call[c].block
        /\ k.waiters = call[c].waiters /\ k.abandoned = call[c].abandoned
        /\ k.starter = call[c].starter
    BY <1>0 DEF Calls, Running
  <2>4. call[c].pc \in Running /\ UNCHANGED <<flight, part>> BY <1>1 DEF FetchEnds, Running
  <2> HIDE DEF k
  <2> QED BY <2>2, <2>3, <2>4, GoesOnFlying
<1>2. CASE Publish(c)
  <2> DEFINE k == [call[c] EXCEPT !.pc = "leaving"]
  <2>1. /\ call' = [call EXCEPT ![c] = k] /\ call[c].pc \in Running /\ UNCHANGED <<flight, part>>
    BY <1>0, <1>2 DEF Publish, Running, FlightsInv, FlightsTypeOK
  <2>2. /\ k \in Calls /\ k.pc \in Running /\ k.block = call[c].block
        /\ k.waiters = call[c].waiters /\ k.abandoned = call[c].abandoned
        /\ k.starter = call[c].starter
    BY <1>0 DEF Calls, Running
  <2> HIDE DEF k
  <2> QED BY <2>1, <2>2, GoesOnFlying
<1> QED BY <1>1, <1>2

LEMMA FlightLands ==
    ASSUME FlightsInv, NEW c \in Flights, FlightEnds(c)
    PROVE  FlightsInv'
<1> DEFINE b == call[c].block
           done == [call[c] EXCEPT !.pc = "done"]
           k == IF call[c].waiters = 0 THEN Free ELSE done
<1>1. /\ call[c].pc = "leaving" /\ call' = [call EXCEPT ![c] = k] /\ part' = part
      /\ flight' = [flight EXCEPT ![b] = IF @ = c THEN NoFlight ELSE @]
  BY DEF FlightEnds, FlightsInv, FlightsTypeOK
<1>2. call[c] \in Calls /\ b \in Blocks /\ NoFlight # c
  BY <1>1, ReadsAssumption DEF FlightsInv, FlightsTypeOK
<1>3. FlightShown(c) /\ call[c].waiters = Cardinality(Waiting(c)) BY DEF FlightsInv
<1>4. /\ done \in Calls /\ done.pc = "done" /\ done.block = b
      /\ done.waiters = call[c].waiters /\ done.abandoned = call[c].abandoned
      /\ done.starter = call[c].starter
  BY <1>2 DEF Calls
<1>5. Free \in Calls /\ Free.pc = "free" /\ Free.waiters = 0 BY DEF Free, Calls
<1>6. /\ k \in Calls /\ k.waiters = call[c].waiters /\ k.pc \notin Running
      /\ k.pc # "free" => k.block = b /\ k.starter = call[c].starter
      /\ (k.abandoned \/ k.pc = "free") => k.waiters = 0
  <2> HIDE DEF done
  <2> QED BY <1>3, <1>4, <1>5 DEF Running, FlightShown
<1> HIDE DEF k, done
<1>7. /\ call'[c] = k /\ \A d \in Flights \ {c} : call'[d] = call[d]
      /\ \A x \in Blocks : flight'[x] = IF flight[x] = c THEN NoFlight ELSE flight[x]
  <2>1. \A x \in Blocks : flight[x] = c => x = b BY <1>3 DEF FlightShown
  <2> QED BY <1>1, <1>2, <2>1 DEF FlightsInv, FlightsTypeOK
<1>8. FlightsTypeOK' BY <1>1, <1>2, <1>6, <1>7 DEF FlightsInv, FlightsTypeOK
<1>9. ASSUME NEW d \in Flights
      PROVE  FlightShown(d)' /\ call'[d].waiters = Cardinality(Waiting(d)')
  <2>1. Waiting(d)' = Waiting(d) BY <1>1 DEF Waiting, Where
  <2>2. FlightShown(d) /\ call[d].waiters = Cardinality(Waiting(d)) BY DEF FlightsInv
  <2>3. CASE d = c
    <3>1. \A x \in Blocks : flight'[x] # c BY <1>2, <1>7
    <3>2. FlightShown(c)' BY <1>6, <1>7, <3>1 DEF FlightShown
    <3> QED BY <1>6, <1>7, <2>1, <2>2, <2>3, <3>2
  <2>4. CASE d # c
    <3>1. call'[d] = call[d] BY <1>7, <2>4
    <3>2. \A x \in Blocks : flight'[x] = d <=> flight[x] = d
      BY <1>7, <2>4, ReadsAssumption
    <3>3. call[d].pc \in Running => call[d].block \in Blocks
      BY DEF FlightsInv, FlightsTypeOK, Running
    <3>4. FlightShown(d)' BY <2>2, <3>1, <3>2, <3>3 DEF FlightShown
    <3> QED BY <2>1, <2>2, <3>1, <3>4
  <2> QED BY <2>3, <2>4
<1> QED BY <1>8, <1>9 DEF FlightsInv

LEMMA ReaderTakes ==
    ASSUME FlightsInv, NEW p \in Participants, Takes(p)
    PROVE  FlightsInv'
<1>0. part[p] \in Parts /\ Resting \in Parts /\ Resting.pc = "idle"
  BY DEF FlightsInv, FlightsTypeOK, Resting, Parts
<1>1. CASE GiveUp(p)
  BY <1>0, <1>1, Leaves DEF GiveUp
<1>2. CASE Wake(p)
  <2> DEFINE pins == /\ call[part[p].on].ok /\ part[p].block \in Windows
                     /\ ~IsClosed(Owner(p)) /\ ~part[p].moved
             pinning == [part[p] EXCEPT !.pc = "pinning", !.on = NoFlight]
             q == IF pins THEN pinning ELSE Resting
  <2>1. Where(p, "waiting") /\ Left(part[p].on) /\ Moves(p, q) /\ flight' = flight
    BY <1>2 DEF Wake
  <2>2. pinning \in Parts /\ pinning.pc = "pinning" /\ pinning.block = part[p].block
    BY <1>0 DEF Parts
  <2>3. part[p].block \in Blocks BY <2>1 DEF FlightsInv, FlightsTypeOK, Where
  <2> HIDE DEF pinning, pins
  <2>4. q \in Parts /\ q.pc # "waiting" /\ (q.pc # "idle" => q.block \in Blocks)
    BY <1>0, <2>2, <2>3
  <2> HIDE DEF q
  <2> QED BY <2>1, <2>4, Leaves
<1>3. CASE PinWindow(p)
  <2> DEFINE q == [part[p] EXCEPT !.pc = "pinned"]
  <2>1. part[p].pc = "pinning" /\ Moves(p, q) /\ UNCHANGED <<flight, call>>
    BY <1>3 DEF PinWindow, Where
  <2>2. q \in Parts /\ q.pc = "pinned" /\ q.block = part[p].block BY <1>0 DEF Parts
  <2>3. part[p].block \in Blocks BY <2>1 DEF FlightsInv, FlightsTypeOK
  <2> HIDE DEF q
  <2> QED BY <2>1, <2>2, <2>3, MovesOffFlights DEF Where
<1>4. CASE RememberPin(p)
  BY <1>0, <1>4, MovesOffFlights DEF RememberPin, Where
<1> QED BY <1>1, <1>2, <1>3, <1>4, Joins, StartsFlight DEF Takes

LEMMA ReaderComes ==
    ASSUME FlightsInv, NEW p \in Participants, NEW b \in Blocks, Miss(p, b)
    PROVE  FlightsInv'
<1> DEFINE q == [Resting EXCEPT !.pc = "missed", !.block = b]
<1>1. Where(p, "idle") /\ Moves(p, q) /\ UNCHANGED <<flight, call>> BY DEF Miss
<1>2. q \in Parts /\ q.pc = "missed" /\ q.block = b BY DEF Resting, Parts
<1> HIDE DEF q
<1> QED BY <1>1, <1>2, MovesOffFlights DEF Where

LEMMA NextFlights == FlightsInv /\ [BlockReadsNext]_readVars => FlightsInv'
<1> SUFFICES ASSUME FlightsInv, [BlockReadsNext]_readVars PROVE FlightsInv' OBVIOUS
<1>1. CASE UNCHANGED readVars BY <1>1, FlightsStand DEF readVars
<1>2. ASSUME NEW p \in Participants, Takes(p) \/ \E b \in Blocks : Miss(p, b)
      PROVE  FlightsInv'
  BY <1>2, ReaderTakes, ReaderComes
<1>3. ASSUME NEW c \in Flights, Fetches(c) PROVE FlightsInv'
  BY <1>3, Flies, FlightLands DEF Fetches
<1>4. ASSUME NEW h \in Handles, Seek(h) \/ Releases(h) PROVE FlightsInv'
  <2>1. CASE Seek(h) BY <2>1, EpochsMove DEF Seek
  <2>2. CASE CloseHandle(h) BY <2>2, EpochsMove DEF CloseHandle
  <2>3. CASE BindHandle(h) BY <2>3, FlightsStand DEF BindHandle
  <2>4. CASE Discharge(h) BY <2>4, FlightsStand DEF Discharge
  <2>5. CASE UnpinWindows(h) BY <2>5, FlightsStand DEF UnpinWindows
  <2> QED BY <1>4, <2>1, <2>2, <2>3, <2>4, <2>5 DEF Releases
<1>5. ASSUME NEW b \in Windows, EvictWindow(b) PROVE FlightsInv'
  BY <1>5, FlightsStand DEF EvictWindow
<1> QED BY <1>1, <1>2, <1>3, <1>4, <1>5 DEF BlockReadsNext, NextOn

\* Each flight counts its readers; the flight map shows only running flights, and every
\* one that is still wanted.
THEOREM FlightsInductive == BlockReadsSpec => []FlightsInv
BY InitFlights, NextFlights, PTL DEF BlockReadsSpec

\* One block has one fetch that anybody still wants, everybody who comes finds it, and
\* nobody waits on a fetch that was cancelled.
THEOREM FlightsSound == BlockReadsSpec => []FlightsServeWaiters
<1>1. FlightsInv => FlightsServeWaiters
  BY DEF FlightsInv, FlightShown, FlightsServeWaiters, Waiting, Running
<1> QED BY <1>1, FlightsInductive, PTL

-----------------------------------------------------------------------------
(* The playback cache.                                                      *)

LedgerTypeOK ==
    /\ handle \in [Handles -> {"open", "closed", "discharged", "released"}]
    /\ playback \subseteq Chunks /\ owner \in [Chunks -> Handles \cup {NoHandle}]
    /\ byHnd \in [Handles -> Int]

\* Nobody is charged for a chunk that is not cached.
LedgerInv ==
    /\ LedgerTypeOK /\ (\A b \in Chunks : owner[b] # NoHandle => b \in playback)
    /\ LedgerExact

LEMMA Ceilings ==
    /\ MaxPlayback \in Nat /\ 1 <= MaxPlayback /\ MaxPerHandle \in Nat /\ 1 <= MaxPerHandle
    /\ IsFiniteSet({}) /\ Cardinality({}) = 0
BY ReadsAssumption, FS_EmptySet

LEMMA InitLedger == BlockReadsInit => LedgerInv
<1> SUFFICES ASSUME BlockReadsInit PROVE LedgerInv OBVIOUS
<1> USE DEF BlockReadsInit
<1>1. LedgerTypeOK /\ \A b \in Chunks : owner[b] = NoHandle BY DEF LedgerTypeOK
<1>2. \A h \in Handles : Owned(h) = {} BY ReadsAssumption DEF Owned
<1>3. LedgerExact
  <2>1. \A h \in Handles : byHnd[h] = 0 /\ handle[h] = "open" OBVIOUS
  <2>2. \A h \in Handles : Cardinality(Owned(h)) = 0 BY <1>2, Ceilings
  <2>3. Cardinality(playback) = 0 BY Ceilings
  <2>4. 0 <= MaxPerHandle /\ 0 <= MaxPlayback BY Ceilings
  <2> HIDE DEF BlockReadsInit
  <2> QED BY <2>1, <2>2, <2>3, <2>4 DEF LedgerExact
<1> QED BY <1>1, <1>3 DEF LedgerInv

LEMMA OwnedFinite ==
    ASSUME NEW h
    PROVE  IsFiniteSet(Owned(h)) /\ Cardinality(Owned(h)) \in Nat
BY ReadsAssumption, FS_Subset, FS_CardinalityType DEF Owned

\* At most one goes, and one does if one must and there is one.
LEMMA OneGoes ==
    ASSUME NEW S, IsFiniteSet(S), NEW must \in BOOLEAN, NEW gone \in OneOf(S, must)
    PROVE  /\ gone \subseteq S
           /\ Cardinality(S \ gone) = Cardinality(S) - (IF must /\ S # {} THEN 1 ELSE 0)
<1>1. Cardinality(S) \in Nat BY FS_CardinalityType
<1>2. CASE must /\ S # {}
  <2>1. PICK b \in S : gone = {b} BY <1>2 DEF OneOf
  <2>2. Cardinality(S \ {b}) = Cardinality(S) - 1 BY FS_RemoveElement
  <2> QED BY <1>2, <2>1, <2>2
<1>3. CASE ~(must /\ S # {})
  <2>1. gone = {} /\ S \ gone = S BY <1>3 DEF OneOf
  <2> QED BY <1>1, <1>3, <2>1
<1> QED BY <1>2, <1>3

\* A chunk that comes in adds at most one.
LEMMA OneComes ==
    ASSUME NEW S, IsFiniteSet(S), NEW b
    PROVE  /\ Cardinality(S) \in Nat /\ Cardinality(S \cup {b}) \in Nat
           /\ b \notin S => Cardinality(S \cup {b}) = Cardinality(S) + 1
           /\ b \in S => S \cup {b} = S
           /\ Cardinality(S \cup {b}) <= Cardinality(S) + 1
<1>1. Cardinality(S) \in Nat BY FS_CardinalityType
<1>2. IsFiniteSet(S \cup {b}) /\ Cardinality(S \cup {b})
         = IF b \in S THEN Cardinality(S) ELSE Cardinality(S) + 1
  BY FS_AddElement
<1> QED BY <1>1, <1>2

\* Put keeps the ledger: what leaves is discharged, what comes is charged, and both
\* ceilings hold afterwards.
LEMMA Puts ==
    ASSUME LedgerInv, NEW h \in Handles, ~IsClosed(h), NEW b \in Chunks, PlaybackPut(h, b),
           UNCHANGED handle
    PROVE  LedgerInv'
<1> DEFINE mine == Owned(h) \ {b}
           replaced == IF owner[b] = h THEN 1 ELSE 0
           overMine == byHnd[h] - replaced + 1 > MaxPerHandle
<1>1. PICK own \in OneOf(mine, overMine) :
         \E any \in OneOf(playback \ (own \cup {b}),
                          Cardinality((playback \ own) \cup {b}) > MaxPlayback) :
            LET gone == own \cup any \cup {b} IN
            /\ playback' = (playback \ gone) \cup {b}
            /\ owner' = [x \in Chunks |-> IF x = b THEN h
                                          ELSE IF x \in gone THEN NoHandle ELSE owner[x]]
            /\ byHnd' = [g \in Handles |-> byHnd[g] - Cardinality(Owned(g) \cap gone)
                                                    + (IF g = h THEN 1 ELSE 0)]
  BY DEF PlaybackPut
<1> DEFINE others == playback \ (own \cup {b})
           overAll == Cardinality((playback \ own) \cup {b}) > MaxPlayback
<1>2. PICK any \in OneOf(others, overAll) :
         LET gone == own \cup any \cup {b} IN
         /\ playback' = (playback \ gone) \cup {b}
         /\ owner' = [x \in Chunks |-> IF x = b THEN h
                                       ELSE IF x \in gone THEN NoHandle ELSE owner[x]]
         /\ byHnd' = [g \in Handles |-> byHnd[g] - Cardinality(Owned(g) \cap gone)
                                                 + (IF g = h THEN 1 ELSE 0)]
  BY <1>1
<1> DEFINE gone == own \cup any \cup {b}
<1>3. /\ playback' = (playback \ gone) \cup {b}
      /\ owner' = [x \in Chunks |-> IF x = b THEN h ELSE IF x \in gone THEN NoHandle ELSE owner[x]]
      /\ byHnd' = [g \in Handles |-> byHnd[g] - Cardinality(Owned(g) \cap gone)
                                              + (IF g = h THEN 1 ELSE 0)]
  BY <1>2
<1>4. /\ IsFiniteSet(mine) /\ IsFiniteSet(playback) /\ IsFiniteSet(others)
      /\ overMine \in BOOLEAN /\ overAll \in BOOLEAN
  BY OwnedFinite, ReadsAssumption, FS_Subset DEF LedgerInv, LedgerTypeOK
<1>5. /\ own \subseteq mine
      /\ Cardinality(mine \ own) = Cardinality(mine) - (IF overMine /\ mine # {} THEN 1 ELSE 0)
  BY <1>4, OneGoes
<1>6. /\ any \subseteq others
      /\ Cardinality(others \ any)
           = Cardinality(others) - (IF overAll /\ others # {} THEN 1 ELSE 0)
  BY <1>4, OneGoes
<1>7. /\ MaxPerHandle \in Nat /\ 1 <= MaxPerHandle
      /\ MaxPlayback \in Nat /\ 1 <= MaxPlayback /\ NoHandle # h
  BY Ceilings, ReadsAssumption
<1>8. /\ Owned(h)' = (Owned(h) \ gone) \cup {b}
      /\ \A g \in Handles \ {h} : Owned(g)' = Owned(g) \ gone
  BY <1>3, ReadsAssumption DEF Owned, LedgerInv, LedgerTypeOK
<1>9. ASSUME NEW g \in Handles
      PROVE  /\ byHnd'[g] = Cardinality(Owned(g)') /\ byHnd'[g] <= MaxPerHandle
             /\ handle'[g] \in {"discharged", "released"} => byHnd'[g] = 0
  <2>0. /\ byHnd[g] = Cardinality(Owned(g)) /\ byHnd[g] <= MaxPerHandle
        /\ handle[g] \in {"discharged", "released"} => byHnd[g] = 0
    BY DEF LedgerInv, LedgerExact
  <2>1. IsFiniteSet(Owned(g)) /\ Cardinality(Owned(g)) \in Nat BY OwnedFinite
  <2>2. /\ IsFiniteSet(Owned(g) \ gone) /\ Cardinality(Owned(g) \ gone) \in Nat
        /\ Cardinality(Owned(g) \cap gone) \in Nat
        /\ Cardinality(Owned(g) \ gone) = Cardinality(Owned(g)) - Cardinality(Owned(g) \cap gone)
    BY <2>1, FS_Difference, FS_Intersection, FS_CardinalityType
  <2>3. byHnd'[g] = byHnd[g] - Cardinality(Owned(g) \cap gone) + (IF g = h THEN 1 ELSE 0)
    BY <1>3
  <2>4. CASE g # h
    <3>1. Owned(g)' = Owned(g) \ gone BY <1>8, <2>4
    <3>2. byHnd'[g] = Cardinality(Owned(g) \ gone) BY <2>0, <2>1, <2>2, <2>3, <2>4
    <3>3. byHnd'[g] <= byHnd[g] /\ byHnd'[g] >= 0 /\ byHnd'[g] \in Nat /\ byHnd[g] \in Nat
      BY <2>0, <2>1, <2>2, <3>2
    <3>4. byHnd'[g] <= MaxPerHandle BY <1>7, <2>0, <3>3
    <3>5. handle'[g] \in {"discharged", "released"} => byHnd'[g] = 0 BY <2>0, <3>3
    <3> QED BY <3>1, <3>2, <3>4, <3>5
  <2>5. CASE g = h
    <3>1. Cardinality((Owned(h) \ gone) \cup {b}) = Cardinality(Owned(h) \ gone) + 1
      BY <2>2, <2>5, OneComes
    <3>2. byHnd'[h] = Cardinality(Owned(h)')
      BY <1>8, <2>0, <2>1, <2>2, <2>3, <2>5, <3>1
    <3>3. Cardinality(Owned(h) \ gone) <= Cardinality(mine \ own)
      <4>1. Owned(h) \ gone \subseteq mine \ own OBVIOUS
      <4>2. IsFiniteSet(mine \ own) BY <1>4, FS_Subset
      <4> QED BY <4>1, <4>2, FS_Subset
    <3>4. Cardinality(mine) = byHnd[h] - replaced /\ Cardinality(mine) \in Nat
      <4>1. CASE owner[b] = h
        <5>1. b \in Owned(h) BY <4>1 DEF Owned
        <5> QED BY <2>0, <2>1, <2>5, <4>1, <5>1, FS_RemoveElement, <1>4, FS_CardinalityType
      <4>2. CASE owner[b] # h
        <5>1. mine = Owned(h) BY <4>2 DEF Owned
        <5> QED BY <2>0, <2>1, <2>5, <4>2, <5>1
      <4> QED BY <4>1, <4>2
    <3>5. Cardinality(mine \ own) + 1 <= MaxPerHandle
      <4>1. CASE mine = {}
        <5>1. mine \ own = {} BY <4>1
        <5>2. Cardinality(mine \ own) = 0 BY <5>1, Ceilings
        <5> HIDE DEF mine
        <5> QED BY <1>7, <5>2
      <4>2. CASE mine # {} /\ overMine
        <5>1. Cardinality(mine \ own) = Cardinality(mine) - 1 BY <1>5, <4>2
        <5> QED BY <1>7, <2>0, <2>1, <2>5, <3>4, <5>1
      <4>3. CASE mine # {} /\ ~overMine
        <5>1. Cardinality(mine \ own) = Cardinality(mine) BY <1>5, <3>4, <4>3
        <5> QED BY <1>7, <2>0, <2>1, <2>5, <3>4, <4>3, <5>1
      <4> QED BY <4>1, <4>2, <4>3
    <3>6. Cardinality(mine \ own) \in Nat
      BY <1>4, FS_Subset, FS_CardinalityType
    <3>7. byHnd'[h] <= MaxPerHandle
      BY <1>7, <1>8, <2>2, <2>5, <3>1, <3>2, <3>3, <3>5, <3>6
    <3>8. handle'[h] \notin {"discharged", "released"}
      BY DEF IsClosed
    <3> QED BY <2>5, <3>2, <3>7, <3>8
  <2> QED BY <2>4, <2>5
<1>10. Cardinality(playback') <= MaxPlayback
  <2>1. playback' = (others \ any) \cup {b} BY <1>3
  <2>2. IsFiniteSet(others \ any) /\ b \notin others \ any BY <1>4, FS_Subset
  <2>3. Cardinality(playback') = Cardinality(others \ any) + 1 BY <2>1, <2>2, OneComes
  <2>4. Cardinality((playback \ own) \cup {b}) = Cardinality(others) + 1
    <3>1. (playback \ own) \cup {b} = others \cup {b} OBVIOUS
    <3> QED BY <1>4, <3>1, OneComes
  <2>5. Cardinality(others) \in Nat BY <1>4, FS_CardinalityType
  <2>6. CASE others = {}
    <3>1. others \ any = {} BY <2>6
    <3>2. Cardinality(others \ any) = 0 BY <3>1, Ceilings
    <3> HIDE DEF others
    <3> QED BY <1>7, <2>3, <3>2
  <2>7. CASE others # {} /\ overAll
    <3>1. Cardinality(others) <= MaxPlayback
      <4>1. Cardinality(playback) <= MaxPlayback /\ Cardinality(playback) \in Nat
        BY <1>4, FS_CardinalityType DEF LedgerInv, LedgerExact
      <4>2. Cardinality(others) <= Cardinality(playback) BY <1>4, FS_Subset
      <4> QED BY <1>7, <2>5, <4>1, <4>2
    <3>2. Cardinality(others \ any) = Cardinality(others) - 1 BY <1>6, <2>7
    <3> HIDE DEF others
    <3> QED BY <1>7, <2>3, <2>5, <3>1, <3>2
  <2>8. CASE others # {} /\ ~overAll
    <3>1. Cardinality(others \ any) = Cardinality(others) BY <1>6, <2>5, <2>8
    <3>2. Cardinality(others) + 1 <= MaxPlayback BY <1>7, <2>4, <2>5, <2>8
    <3> HIDE DEF others
    <3> QED BY <1>7, <2>3, <2>5, <3>1, <3>2
  <2> QED BY <2>6, <2>7, <2>8
<1>11. \A x \in Chunks : owner'[x] # NoHandle => x \in playback'
  BY <1>3 DEF LedgerInv
<1>12. LedgerTypeOK'
  <2>1. playback' \subseteq Chunks /\ owner' \in [Chunks -> Handles \cup {NoHandle}]
    BY <1>3 DEF LedgerInv, LedgerTypeOK
  <2>2. byHnd' \in [Handles -> Int]
    <3>1. \A g \in Handles : byHnd[g] - Cardinality(Owned(g) \cap gone)
                                + (IF g = h THEN 1 ELSE 0) \in Int
      <4> SUFFICES ASSUME NEW g \in Handles
                   PROVE  byHnd[g] - Cardinality(Owned(g) \cap gone)
                            + (IF g = h THEN 1 ELSE 0) \in Int
        OBVIOUS
      <4>1. Cardinality(Owned(g) \cap gone) \in Nat
        BY OwnedFinite, FS_Subset, FS_CardinalityType
      <4>2. byHnd[g] \in Int BY DEF LedgerInv, LedgerTypeOK
      <4> QED BY <4>1, <4>2
    <3> QED BY <1>3, <3>1
  <2> QED BY <2>1, <2>2 DEF LedgerInv, LedgerTypeOK
<1> QED BY <1>9, <1>10, <1>11, <1>12 DEF LedgerInv, LedgerExact

\* A handle lets go of what it owns: it stays cached, and is nobody's.
LEMMA Drops ==
    ASSUME LedgerInv, NEW h \in Handles, Discharge(h)
    PROVE  LedgerInv'
<1>1. /\ owner' = [b \in Chunks |-> IF owner[b] = h THEN NoHandle ELSE owner[b]]
      /\ byHnd' = [byHnd EXCEPT ![h] = 0] /\ playback' = playback
      /\ handle' = [handle EXCEPT ![h] = "discharged"]
  BY DEF Discharge, PlaybackDrop
<1>2. LedgerTypeOK' BY <1>1 DEF LedgerInv, LedgerTypeOK
<1>3. \A b \in Chunks : owner'[b] # NoHandle => b \in playback' BY <1>1 DEF LedgerInv
<1>4. Owned(h)' = {} BY <1>1, ReadsAssumption DEF Owned
<1>5. \A g \in Handles \ {h} : Owned(g)' = Owned(g) BY <1>1, ReadsAssumption DEF Owned
<1>6. LedgerExact'
  <2>1. ASSUME NEW g \in Handles
        PROVE  /\ byHnd'[g] = Cardinality(Owned(g)') /\ byHnd'[g] <= MaxPerHandle
               /\ handle'[g] \in {"discharged", "released"} => byHnd'[g] = 0
    <3>1. CASE g = h
      <4>1. byHnd'[h] = 0 BY <1>1 DEF LedgerInv, LedgerTypeOK
      <4> QED BY <1>4, <3>1, <4>1, Ceilings
    <3>2. CASE g # h
      <4>1. byHnd'[g] = byHnd[g] /\ handle'[g] = handle[g] /\ Owned(g)' = Owned(g)
        BY <1>1, <1>5, <3>2 DEF LedgerInv, LedgerTypeOK
      <4> QED BY <4>1 DEF LedgerInv, LedgerExact
    <3> QED BY <3>1, <3>2
  <2>2. Cardinality(playback') <= MaxPlayback BY <1>1 DEF LedgerInv, LedgerExact
  <2> QED BY <2>1, <2>2 DEF LedgerExact
<1> QED BY <1>2, <1>3, <1>6 DEF LedgerInv

LEMMA LedgerStands ==
    ASSUME LedgerInv, UNCHANGED <<playback, owner, byHnd>>,
           handle' \in [Handles -> {"open", "closed", "discharged", "released"}],
           \A h \in Handles : handle'[h] \in {"discharged", "released"} =>
                               handle[h] \in {"discharged", "released"}
    PROVE  LedgerInv'
BY DEF LedgerInv, LedgerTypeOK, LedgerExact, Owned

LEMMA NextLedger == FlightsInv /\ LedgerInv /\ [BlockReadsNext]_readVars => LedgerInv'
<1> SUFFICES ASSUME FlightsInv, LedgerInv, [BlockReadsNext]_readVars PROVE LedgerInv' OBVIOUS
<1>0. handle \in [Handles -> {"open", "closed", "discharged", "released"}]
  BY DEF LedgerInv, LedgerTypeOK
<1>1. CASE UNCHANGED <<playback, owner, byHnd, handle>> BY <1>0, <1>1, LedgerStands
<1>2. CASE UNCHANGED readVars BY <1>1, <1>2 DEF readVars
<1>3. ASSUME NEW p \in Participants, Takes(p) \/ \E b \in Blocks : Miss(p, b)
      PROVE  LedgerInv'
  BY <1>1, <1>3 DEF Takes, Miss, Join, Start, GiveUp, Wake, PinWindow, RememberPin, caches,
                    playbackVars
<1>4. ASSUME NEW c \in Flights, Fetches(c) PROVE LedgerInv'
  <2>1. CASE FetchEnds(c) \/ FlightEnds(c)
    BY <1>1, <2>1 DEF FetchEnds, FlightEnds, caches, playbackVars
  <2>2. CASE Publish(c)
    <3>1. UNCHANGED handle /\ call[c].pc \in Running BY <2>2 DEF Publish, Running
    <3>2. call[c].block \in Blocks /\ call[c].starter \in Handles
      BY <3>1 DEF FlightsInv, FlightsTypeOK, Running
    <3>3. CASE UNCHANGED <<playback, owner, byHnd>> BY <1>1, <3>1, <3>3
    <3>4. CASE /\ PlaybackPut(call[c].starter, call[c].block) /\ ~IsClosed(call[c].starter)
               /\ call[c].block \in Chunks
      BY <3>1, <3>2, <3>4, Puts
    <3> QED BY <2>2, <3>2, <3>3, <3>4 DEF Publish, caches, playbackVars, Blocks
  <2> QED BY <1>4, <2>1, <2>2 DEF Fetches
<1>5. ASSUME NEW h \in Handles, Seek(h) \/ Releases(h) PROVE LedgerInv'
  <2>1. CASE Seek(h) BY <1>1, <2>1 DEF Seek, caches, playbackVars
  <2>2. CASE CloseHandle(h) \/ BindHandle(h) \/ UnpinWindows(h)
    <3>1. UNCHANGED <<playback, owner, byHnd>>
      BY <2>2 DEF CloseHandle, BindHandle, UnpinWindows, caches, playbackVars
    <3>2. \/ handle' = [handle EXCEPT ![h] = "closed"]
          \/ handle' = [handle EXCEPT ![h] = "open"]
          \/ handle[h] = "discharged" /\ handle' = [handle EXCEPT ![h] = "released"]
      BY <2>2 DEF CloseHandle, BindHandle, UnpinWindows
    <3> QED BY <1>0, <3>1, <3>2, LedgerStands
  <2>3. CASE Discharge(h) BY <2>3, Drops
  <2> QED BY <1>5, <2>1, <2>2, <2>3 DEF Releases
<1>6. ASSUME NEW b \in Windows, EvictWindow(b) PROVE LedgerInv'
  BY <1>1, <1>6 DEF EvictWindow, playbackVars
<1> QED BY <1>2, <1>3, <1>4, <1>5, <1>6 DEF BlockReadsNext, NextOn

\* What a handle is charged is what it owns, within its ceiling and the cache's, and a
\* handle that has been released is charged nothing, however late its bytes arrive.
THEOREM LedgerSound == BlockReadsSpec => []LedgerExact
<1>1. BlockReadsInit => FlightsInv /\ LedgerInv BY InitFlights, InitLedger
<1>2. FlightsInv /\ LedgerInv /\ [BlockReadsNext]_readVars => (FlightsInv /\ LedgerInv)'
  BY NextFlights, NextLedger
<1>3. FlightsInv /\ LedgerInv => LedgerExact BY DEF LedgerInv
<1> QED BY <1>1, <1>2, <1>3, PTL DEF BlockReadsSpec

-----------------------------------------------------------------------------
(* The probe cache on its disk.                                             *)

ProbeTypeOK ==
    /\ entries \subseteq Records /\ files \subseteq Records
    /\ work \in [Workers -> [pc : {"idle", "reading", "remove", "unlink", "written", "renamed"},
                             record : Records \cup {NoRecord}]]
    /\ \A w \in Workers : work[w].pc # "idle" => work[w].record \in Records

ProbeInv == ProbeTypeOK /\ DiskWithinBudget

\* Between the two steps of its Put or Remove.
Between(w, k) == work[w].record = k /\ work[w].pc \in {"renamed", "unlink"}

LEMMA InitProbe == ProbeInit => ProbeInv
<1> SUFFICES ASSUME ProbeInit PROVE ProbeInv OBVIOUS
<1>1. ProbeTypeOK BY DEF ProbeInit, ProbeTypeOK, Unoccupied
<1>2. DiskWithinBudget BY FS_EmptySet, ProbeAssumption DEF ProbeInit, DiskWithinBudget
<1> QED BY <1>1, <1>2 DEF ProbeInv

LEMMA RecordsFinite ==
    ASSUME NEW S, S \subseteq Records
    PROVE  IsFiniteSet(S) /\ Cardinality(S) \in Nat
BY ProbeAssumption, FS_Subset, FS_CardinalityType

\* An eviction brings the table within the budget.
LEMMA Evicts ==
    ASSUME NEW S, S \subseteq Records, NEW gone \in Excess(S, Cardinality(S))
    PROVE  /\ gone \subseteq S /\ Cardinality(S \ gone) = Cardinality(S) - Cardinality(gone)
           /\ Cardinality(S \ gone) <= MaxTotal
<1>1. /\ gone \subseteq S
      /\ Cardinality(gone) = IF Cardinality(S) > MaxTotal THEN Cardinality(S) - MaxTotal ELSE 0
  BY DEF Excess
<1>2. Cardinality(S) \in Nat /\ IsFiniteSet(S) /\ MaxTotal \in Nat
  BY RecordsFinite, ProbeAssumption
<1>3. S \cap gone = gone BY <1>1
<1>4. Cardinality(S \ gone) = Cardinality(S) - Cardinality(gone) BY <1>2, <1>3, FS_Difference
<1> QED BY <1>1, <1>2, <1>4

\* A worker moves, the table stands still, and of the files only some that it accounts for
\* are there now and were not before.
LEMMA WorkerMoves ==
    ASSUME ProbeInv, NEW w \in Workers,
           NEW q \in [pc : {"idle", "reading", "remove", "unlink", "written", "renamed"},
                      record : Records \cup {NoRecord}],
           work' = [work EXCEPT ![w] = q], q.pc # "idle" => q.record \in Records,
           UNCHANGED <<entries, total>>, files' \subseteq Records,
           \A k \in files' : \/ k \in files /\ ~Between(w, k)
                             \/ q.record = k /\ q.pc \in {"renamed", "unlink"}
    PROVE  ProbeInv'
<1>1. work'[w] = q /\ \A v \in Workers \ {w} : work'[v] = work[v]
  BY DEF ProbeInv, ProbeTypeOK
<1>2. ProbeTypeOK' BY <1>1 DEF ProbeInv, ProbeTypeOK
<1>3. ASSUME NEW k \in files' \ entries'
      PROVE  \E v \in Workers : work'[v].record = k /\ work'[v].pc \in {"renamed", "unlink"}
  <2>1. CASE q.record = k /\ q.pc \in {"renamed", "unlink"} BY <1>1, <2>1
  <2>2. CASE k \in files /\ ~Between(w, k)
    <3>1. PICK v \in Workers : Between(v, k)
      BY <1>3, <2>2 DEF ProbeInv, DiskWithinBudget, Between
    <3> QED BY <1>1, <2>2, <3>1 DEF Between
  <2> QED BY <2>1, <2>2
<1> QED BY <1>2, <1>3 DEF ProbeInv, DiskWithinBudget

LEMMA Looks ==
    ASSUME ProbeInv, NEW w \in Workers,
           \/ ReadRecord(w) \/ RemoveFile(w) \/ PutFails(w) \/ PutRename(w)
           \/ \E k \in Records : PutScrap(w, k)
    PROVE  ProbeInv'
<1>0. /\ \A k : Between(w, k) => work[w].pc \in {"renamed", "unlink"} /\ work[w].record = k
      /\ files \subseteq Records /\ (work[w].pc # "idle" => work[w].record \in Records)
  BY DEF Between, ProbeInv, ProbeTypeOK
<1>1. CASE \E k \in Records : GetEntry(w, k) \/ PutScrap(w, k)
  <2>1. PICK k \in Records : GetEntry(w, k) \/ PutScrap(w, k) BY <1>1
  <2>2. PICK pc \in {"reading", "written"} : Does(w, pc, k)
    BY <2>1 DEF GetEntry, PutScrap
  <2>3. UNCHANGED <<entries, total, files>> /\ work[w].pc = "idle"
    BY <2>1 DEF GetEntry, PutScrap, Doing
  <2> QED BY <1>0, <2>2, <2>3, WorkerMoves DEF Does
<1>2. CASE GetHit(w) \/ PutFails(w)
  <2>1. /\ work' = [work EXCEPT ![w] = Unoccupied] /\ UNCHANGED <<entries, total, files>>
        /\ work[w].pc \in {"reading", "written"}
    BY <1>2 DEF GetHit, PutFails, Rests, Doing
  <2> QED BY <1>0, <2>1, WorkerMoves DEF Unoccupied
<1>3. CASE GetBad(w)
  <2>1. /\ Does(w, "remove", work[w].record) /\ UNCHANGED <<entries, total, files>>
        /\ work[w].pc = "reading"
    BY <1>3 DEF GetBad, Doing
  <2> QED BY <1>0, <2>1, WorkerMoves DEF Does
<1>4. CASE RemoveFile(w)
  <2>1. /\ work' = [work EXCEPT ![w] = Unoccupied] /\ UNCHANGED <<entries, total>>
        /\ files' = files \ {work[w].record}
    BY <1>4 DEF RemoveFile, Rests
  <2> QED BY <1>0, <2>1, WorkerMoves DEF Unoccupied
<1>5. CASE PutRename(w)
  <2> DEFINE k == work[w].record
             q == [pc |-> "renamed", record |-> k]
  <2>1. /\ work' = [work EXCEPT ![w] = q] /\ UNCHANGED <<entries, total>>
        /\ files' = files \cup {k} /\ work[w].pc = "written"
    BY <1>5 DEF PutRename, Doing, Does
  <2>2. k \in Records BY <1>0, <2>1
  <2>3. /\ q \in [pc : {"idle", "reading", "remove", "unlink", "written", "renamed"},
                  record : Records \cup {NoRecord}]
        /\ q.pc = "renamed" /\ q.record = k
    BY <2>2
  <2>4. \A x : ~Between(w, x) BY <2>1 DEF Between
  <2> HIDE DEF q
  <2> QED BY <1>0, <2>1, <2>2, <2>3, <2>4, WorkerMoves
<1> QED BY <1>1, <1>2, <1>3, <1>4, <1>5 DEF ReadRecord

LEMMA RemovesEntry ==
    ASSUME ProbeInv, NEW w \in Workers, RemoveEntry(w)
    PROVE  ProbeInv'
<1> DEFINE k == work[w].record
           q == [pc |-> "unlink", record |-> k]
<1>1. /\ work[w].pc = "remove" /\ entries' = entries \ {k} /\ files' = files
      /\ total' = (IF k \in entries THEN total - 1 ELSE total)
      /\ work' = [work EXCEPT ![w] = q]
  BY DEF RemoveEntry, Doing, Does
<1>2. k \in Records BY <1>1 DEF ProbeInv, ProbeTypeOK
<1>3. work'[w] = q /\ \A v \in Workers \ {w} : work'[v] = work[v]
  BY <1>1 DEF ProbeInv, ProbeTypeOK
<1>4. ProbeTypeOK' BY <1>1, <1>2, <1>3 DEF ProbeInv, ProbeTypeOK
<1>5. total' = Cardinality(entries') /\ total' <= MaxTotal
  <2>1. /\ total = Cardinality(entries) /\ total <= MaxTotal /\ entries \subseteq Records
        /\ MaxTotal \in Nat
    BY ProbeAssumption DEF ProbeInv, ProbeTypeOK, DiskWithinBudget
  <2>2. IsFiniteSet(entries) /\ Cardinality(entries) \in Nat BY <2>1, RecordsFinite
  <2>3. Cardinality(entries \ {k}) = IF k \in entries THEN Cardinality(entries) - 1
                                     ELSE Cardinality(entries)
    BY <2>2, FS_RemoveElement
  <2> QED BY <1>1, <2>1, <2>2, <2>3
<1>6. ASSUME NEW x \in files' \ entries'
      PROVE  \E v \in Workers : work'[v].record = x /\ work'[v].pc \in {"renamed", "unlink"}
  <2>1. CASE x = k BY <1>3, <2>1
  <2>2. CASE x # k
    <3>1. x \in files \ entries BY <1>1, <1>6, <2>2
    <3>2. PICK v \in Workers : work[v].record = x /\ work[v].pc \in {"renamed", "unlink"}
      BY <3>1 DEF ProbeInv, DiskWithinBudget
    <3> QED BY <1>1, <1>3, <3>2
  <2> QED BY <2>1, <2>2
<1> QED BY <1>4, <1>5, <1>6 DEF ProbeInv, DiskWithinBudget

LEMMA EntersRecord ==
    ASSUME ProbeInv, NEW w \in Workers, PutEntry(w)
    PROVE  ProbeInv'
<1> DEFINE k == work[w].record
           table == entries \cup {k}
           sum == total + 1 - (IF k \in entries THEN 1 ELSE 0)
<1>1. PICK gone \in Excess(table, sum) :
         /\ entries' = table \ gone /\ total' = sum - Cardinality(gone)
         /\ files' = files \ gone
  BY DEF PutEntry
<1>2. work[w].pc = "renamed" /\ work' = [work EXCEPT ![w] = Unoccupied]
  BY DEF PutEntry, Doing, Rests
<1>3. k \in Records /\ entries \subseteq Records /\ table \subseteq Records
  BY <1>2 DEF ProbeInv, ProbeTypeOK
<1>4. sum = Cardinality(table)
  <2>1. total = Cardinality(entries) /\ IsFiniteSet(entries) /\ Cardinality(entries) \in Nat
    BY <1>3, RecordsFinite DEF ProbeInv, DiskWithinBudget
  <2>2. Cardinality(table) = IF k \in entries THEN Cardinality(entries)
                             ELSE Cardinality(entries) + 1
    BY <2>1, FS_AddElement
  <2> QED BY <2>1, <2>2
<1>5. /\ gone \subseteq table /\ Cardinality(table \ gone) = sum - Cardinality(gone)
      /\ Cardinality(table \ gone) <= MaxTotal
  <2> HIDE DEF sum, table
  <2>1. gone \in Excess(table, Cardinality(table)) BY <1>1, <1>4
  <2> QED BY <1>3, <1>4, <2>1, Evicts
<1>6. work'[w] = Unoccupied /\ \A v \in Workers \ {w} : work'[v] = work[v]
  BY <1>2 DEF ProbeInv, ProbeTypeOK
<1>7. ProbeTypeOK'
  BY <1>1, <1>2, <1>3, <1>5, <1>6 DEF ProbeInv, ProbeTypeOK, Unoccupied
<1>8. ASSUME NEW x \in files' \ entries'
      PROVE  \E v \in Workers : work'[v].record = x /\ work'[v].pc \in {"renamed", "unlink"}
  <2>1. x \in files \ entries /\ x # k BY <1>1, <1>8
  <2>2. PICK v \in Workers : work[v].record = x /\ work[v].pc \in {"renamed", "unlink"}
    BY <2>1 DEF ProbeInv, DiskWithinBudget
  <2> QED BY <1>6, <2>1, <2>2
<1> QED BY <1>1, <1>5, <1>7, <1>8 DEF ProbeInv, DiskWithinBudget

LEMMA Adopts ==
    ASSUME ProbeInv, Adopt
    PROVE  ProbeInv'
<1>1. PICK gone \in Excess(files, Cardinality(files)) :
         /\ entries' = files \ gone /\ total' = Cardinality(files) - Cardinality(gone)
         /\ files' = files \ gone
  BY DEF Adopt
<1>2. files \subseteq Records /\ work' = [w \in Workers |-> Unoccupied]
  BY DEF ProbeInv, ProbeTypeOK, Adopt
<1>3. /\ Cardinality(files \ gone) = Cardinality(files) - Cardinality(gone)
      /\ Cardinality(files \ gone) <= MaxTotal
  BY <1>2, Evicts
<1>4. ProbeTypeOK' BY <1>1, <1>2 DEF ProbeTypeOK, Unoccupied
<1> QED BY <1>1, <1>3, <1>4 DEF ProbeInv, DiskWithinBudget

LEMMA NextProbe == ProbeInv /\ [ProbeNext]_probeVars => ProbeInv'
<1> SUFFICES ASSUME ProbeInv, [ProbeNext]_probeVars PROVE ProbeInv' OBVIOUS
<1>1. CASE UNCHANGED <<entries, total, files, work>>
  BY <1>1 DEF ProbeInv, ProbeTypeOK, DiskWithinBudget
<1>2. CASE UNCHANGED probeVars BY <1>1, <1>2 DEF probeVars
<1>3. ASSUME NEW k \in Records, Damage(k) PROVE ProbeInv' BY <1>1, <1>3 DEF Damage
<1>4. CASE Adopt BY <1>4, Adopts
<1>5. ASSUME NEW w \in Workers, ReadRecord(w) \/ DropRecord(w) \/ StoreRecord(w)
      PROVE  ProbeInv'
  BY <1>5, Looks, RemovesEntry, EntersRecord DEF DropRecord, StoreRecord
<1> QED BY <1>2, <1>3, <1>4, <1>5 DEF ProbeNext

\* The budget holds on the disk and not only in the table: a file that no entry counts
\* belongs to a Put or a Remove between its two steps, after any restart too.
THEOREM DiskSound == ProbeSpec => []DiskWithinBudget
<1>1. ProbeInv => DiskWithinBudget BY DEF ProbeInv
<1> QED BY <1>1, InitProbe, NextProbe, PTL DEF ProbeSpec

-----------------------------------------------------------------------------
(* The sources: leases and permits.                                         *)

Leases == [id : Nat, generation : Nat]
Slots == [lease : Leases, fresh : BOOLEAN, inflight : Readers \cup {NoReader},
          resolved : BOOLEAN, cooling : BOOLEAN, active : Nat]
Elsewhere == {"idle", "begin", "acquire", "queue", "permitted", "sending", "record"}
Fetching == [pc : Elsewhere \cup Holding, todo : SUBSET Objects, object : Objects \cup {NoObject},
             attempt : Nat, refresh : BOOLEAN, lease : Leases, stale : Leases,
             leader : Readers \cup {NoReader}, outcome : Outcomes \cup {"none"}]

SourceTypeOK ==
    /\ slots \in [Objects -> Slots \cup {NoSlot}]
    /\ minted \in Nat
    /\ reader \in [Readers -> Fetching]
    /\ \A r \in Readers : reader[r].pc # "idle" => Object(r) \in Objects
    /\ permits \in [endpoint : Int, global : Int]

Holders(o) == {r \in Readers : Object(r) = o /\ reader[r].pc \in Holding}

\* A slot is held by those it counts, and the table is over its bound only while
\* everything in it is held.
SlotsCounted ==
    /\ \A o \in Objects : IF slots[o] = NoSlot THEN Cardinality(Holders(o)) = 0
                           ELSE slots[o].active = Cardinality(Holders(o))
    /\ Cardinality(Present) > MaxSlots => Inactive(slots) = {}

\* The call a slot shows is being made, the calls being made are shown, and whoever
\* waits for a call waits for one on its own object.
CallsShown ==
    /\ \A o \in Objects : slots[o] # NoSlot /\ slots[o].inflight # NoReader =>
          slots[o].inflight \in Readers /\ ReaderAt(slots[o].inflight, "resolving")
            /\ Object(slots[o].inflight) = o
    /\ \A r \in Readers : ReaderAt(r, "resolving") => slots[Object(r)].inflight = r
    /\ \A r \in Readers : ReaderAt(r, "waiting") =>
          /\ reader[r].leader \in Readers /\ ReaderAt(reader[r].leader, "resolving")
          /\ Object(reader[r].leader) = Object(r)

\* The lease of a slot is a later one than lease l if its generation is higher: also
\* when the slot was evicted and made anew since l was resolved.
NotBefore(l, o) ==
    slots[o] # NoSlot /\ slots[o].lease.generation > l.generation => slots[o].lease.id > l.id

Renewed(q) ==
    /\ q.refresh
    /\ \/ q.pc \in {"queue", "permitted", "sending"}
       \/ q.pc = "unslot" /\ q.outcome = "ok"

LeasesOrdered ==
    /\ \A o \in Objects : slots[o] # NoSlot =>
          slots[o].lease = NoLease \/ slots[o].lease.id \in 1..minted
    /\ \A r \in Readers :
          /\ reader[r].lease.id <= minted /\ reader[r].stale.id <= minted
          /\ Object(r) \in Objects =>
                NotBefore(reader[r].lease, Object(r)) /\ NotBefore(reader[r].stale, Object(r))
          /\ Renewed(reader[r]) => reader[r].lease.id > reader[r].stale.id

SourceInv == SourceTypeOK /\ SlotsCounted /\ CallsShown /\ LeasesOrdered /\ PermitsExact

LEMMA InitSource == SourceInit => SourceInv
<1> SUFFICES ASSUME SourceInit PROVE SourceInv OBVIOUS
<1> USE DEF SourceInit
<1>1. SourceTypeOK
  BY DEF SourceTypeOK, NoFetch, Fetching, Elsewhere, Leases, NoLease
<1>2. \A r \in Readers : reader[r] = NoFetch OBVIOUS
<1>3. SlotsCounted
  <2>1. \A o : Holders(o) = {} BY <1>2 DEF Holders, NoFetch, Holding
  <2>2. Inactive(slots) = {} BY DEF Inactive
  <2> QED BY <2>1, <2>2, FS_EmptySet DEF SlotsCounted
<1>4. CallsShown BY <1>2 DEF CallsShown, ReaderAt, NoFetch
<1>5. LeasesOrdered
  BY <1>2, SourceAssumption DEF LeasesOrdered, Renewed, NoFetch, NoLease, Object
<1>6. PermitsExact
  <2>1. /\ {r \in Readers : reader[r].pc \in {"permitted", "sending"}} = {}
        /\ {r \in Readers : ReaderAt(r, "sending")} = {}
    BY <1>2 DEF NoFetch, ReaderAt
  <2> QED BY <2>1, FS_EmptySet, SourceAssumption DEF PermitsExact
<1> QED BY <1>1, <1>3, <1>4, <1>5, <1>6 DEF SourceInv

-----------------------------------------------------------------------------
\* Permits.

Permitted == {r \in Readers : reader[r].pc \in {"permitted", "sending"}}
Sending == {r \in Readers : ReaderAt(r, "sending")}

LEMMA PermitsAfter ==
    ASSUME SourceTypeOK, PermitsExact, NEW r \in Readers, NEW q,
           reader' = [reader EXCEPT ![r] = q],
           permits'.endpoint = permits.endpoint
              + (IF q.pc \in {"permitted", "sending"} THEN 1 ELSE 0)
              - (IF reader[r].pc \in {"permitted", "sending"} THEN 1 ELSE 0),
           permits'.global = permits.global + (IF q.pc = "sending" THEN 1 ELSE 0)
                                            - (IF reader[r].pc = "sending" THEN 1 ELSE 0),
           permits'.endpoint <= PerEndpoint, permits'.global <= Global
    PROVE  PermitsExact'
<1>1. IsFiniteSet(Readers) BY SourceAssumption
<1>2. reader'[r] = q /\ \A s \in Readers \ {r} : reader'[s] = reader[s]
  BY DEF SourceTypeOK
<1>3. Cardinality(Permitted') = permits'.endpoint
  <2>1. Permitted \subseteq Readers /\ Permitted' \subseteq Readers BY DEF Permitted
  <2>2. Permitted \ {r} = Permitted' \ {r} BY <1>2 DEF Permitted
  <2>3. r \in Permitted' <=> q.pc \in {"permitted", "sending"} BY <1>2 DEF Permitted
  <2>4. r \in Permitted <=> reader[r].pc \in {"permitted", "sending"} BY DEF Permitted
  <2>5. Cardinality(Permitted) = permits.endpoint BY DEF PermitsExact, Permitted
  <2>6. Cardinality(Permitted') = Cardinality(Permitted)
           + (IF r \in Permitted' THEN 1 ELSE 0) - (IF r \in Permitted THEN 1 ELSE 0)
    BY <1>1, <2>1, <2>2, CountAfter
  <2> QED BY <2>3, <2>4, <2>5, <2>6
<1>4. Cardinality(Sending') = permits'.global
  <2>1. Sending \subseteq Readers /\ Sending' \subseteq Readers BY DEF Sending
  <2>2. Sending \ {r} = Sending' \ {r} BY <1>2 DEF Sending, ReaderAt
  <2>3. r \in Sending' <=> q.pc = "sending" BY <1>2 DEF Sending, ReaderAt
  <2>4. r \in Sending <=> reader[r].pc = "sending" BY DEF Sending, ReaderAt
  <2>5. Cardinality(Sending) = permits.global BY DEF PermitsExact, Sending
  <2>6. Cardinality(Sending') = Cardinality(Sending)
           + (IF r \in Sending' THEN 1 ELSE 0) - (IF r \in Sending THEN 1 ELSE 0)
    BY <1>1, <2>1, <2>2, CountAfter
  <2> QED BY <2>3, <2>4, <2>5, <2>6
<1> QED BY <1>3, <1>4 DEF PermitsExact, Permitted, Sending

\* Nobody takes or gives back a permit.
LEMMA PermitsStay ==
    ASSUME PermitsExact, UNCHANGED permits,
           \A s \in Readers : \/ reader'[s].pc = reader[s].pc
                              \/ /\ reader'[s].pc \notin {"permitted", "sending"}
                                 /\ reader[s].pc \notin {"permitted", "sending"}
    PROVE  PermitsExact'
<1>1. Permitted' = Permitted /\ Sending' = Sending BY DEF Permitted, Sending, ReaderAt
<1> QED BY <1>1 DEF PermitsExact, Permitted, Sending

-----------------------------------------------------------------------------
\* Slots.

LEMMA HolderCounts ==
    ASSUME NEW o
    PROVE  /\ Cardinality(Holders(o)) \in Nat
           /\ \A r \in Holders(o) : Cardinality(Holders(o)) > 0
<1>1. Holders(o) \subseteq Readers BY DEF Holders
<1>2. IsFiniteSet(Holders(o)) BY <1>1, FS_Subset, SourceAssumption
<1>3. Cardinality(Holders(o)) \in Nat BY <1>2, FS_CardinalityType
<1>4. Holders(o) # {} => Cardinality(Holders(o)) # 0 BY <1>2, FS_EmptySet
<1> QED BY <1>3, <1>4

LEMMA HoldersAfter ==
    ASSUME SourceTypeOK, NEW r \in Readers, NEW q, NEW o, reader' = [reader EXCEPT ![r] = q]
    PROVE  /\ Cardinality(Holders(o)) \in Nat
           /\ r \in Holders(o) => Cardinality(Holders(o)) > 0
           /\ Cardinality(Holders(o)') = Cardinality(Holders(o))
                + (IF q.object = o /\ q.pc \in Holding THEN 1 ELSE 0)
                - (IF r \in Holders(o) THEN 1 ELSE 0)
<1>1. Holders(o) \subseteq Readers /\ Holders(o)' \subseteq Readers BY DEF Holders
<1>2. reader'[r] = q /\ \A s \in Readers \ {r} : reader'[s] = reader[s]
  BY DEF SourceTypeOK
<1>3. Holders(o) \ {r} = Holders(o)' \ {r} BY <1>2 DEF Holders, Object
<1>4. r \in Holders(o)' <=> q.object = o /\ q.pc \in Holding BY <1>2 DEF Holders, Object
<1>5. Cardinality(Holders(o)') = Cardinality(Holders(o))
         + (IF r \in Holders(o)' THEN 1 ELSE 0) - (IF r \in Holders(o) THEN 1 ELSE 0)
  BY <1>1, <1>3, CountAfter, SourceAssumption
<1> QED BY <1>4, <1>5, HolderCounts

\* The slot of whoever holds it is there.
LEMMA HeldIsThere ==
    ASSUME SourceInv, NEW r \in Readers, reader[r].pc \in Holding
    PROVE  /\ Object(r) \in Objects /\ slots[Object(r)] \in Slots
           /\ slots[Object(r)] # NoSlot /\ slots[Object(r)].active > 0
<1>1. Object(r) \in Objects BY DEF SourceInv, SourceTypeOK, Holding
<1>2. r \in Holders(Object(r)) BY DEF Holders
<1>3. Cardinality(Holders(Object(r))) > 0 BY <1>2, HolderCounts
<1>4. slots[Object(r)] # NoSlot BY <1>1, <1>3 DEF SourceInv, SlotsCounted
<1> QED BY <1>1, <1>3, <1>4 DEF SourceInv, SlotsCounted, SourceTypeOK

\* What evictLocked leaves: only slots that nobody holds go, and as many as it takes.
LEMMA EvictedLeaves ==
    ASSUME NEW t \in [Objects -> Slots \cup {NoSlot}], NEW u \in Evicted(t)
    PROVE  /\ u \in [Objects -> Slots \cup {NoSlot}]
           /\ \A o \in Objects : u[o] = t[o] \/ (u[o] = NoSlot /\ o \in Inactive(t))
           /\ Cardinality({o \in Objects : u[o] # NoSlot}) > MaxSlots => Inactive(u) = {}
<1> DEFINE There == {o \in Objects : t[o] # NoSlot}
           idle == Inactive(t)
           size == Cardinality(There)
           drop == IF size <= MaxSlots THEN 0
                   ELSE IF size - MaxSlots < Cardinality(idle) THEN size - MaxSlots
                   ELSE Cardinality(idle)
<1>1. PICK gone \in SUBSET idle :
         /\ Cardinality(gone) = drop
         /\ u = [o \in Objects |-> IF o \in gone THEN NoSlot ELSE t[o]]
  BY DEF Evicted
<1>2. \A o \in Objects : u[o] = t[o] \/ (u[o] = NoSlot /\ o \in Inactive(t)) BY <1>1
<1>3. IsFiniteSet(idle) /\ IsFiniteSet(There) /\ IsFiniteSet(gone)
  BY SourceAssumption, FS_Subset DEF Inactive
<1>4. size \in Nat /\ Cardinality(idle) \in Nat /\ MaxSlots \in Nat
  BY <1>3, FS_CardinalityType, SourceAssumption
<1>5. CASE drop = Cardinality(idle)
  <2>1. gone = idle BY <1>1, <1>3, <1>5, FS_Subset
  <2>2. Inactive(u) = {} BY <1>1, <2>1 DEF Inactive
  <2> QED BY <1>1, <1>2, <2>2
<1>6. CASE size <= MaxSlots /\ drop = 0
  <2>1. gone = {} BY <1>1, <1>3, <1>6, FS_EmptySet
  <2>2. {o \in Objects : u[o] # NoSlot} = There BY <1>1, <2>1
  <2> QED BY <1>1, <1>2, <1>4, <1>6, <2>2
<1>7. CASE size > MaxSlots /\ drop = size - MaxSlots
  <2>1. {o \in Objects : u[o] # NoSlot} = There \ gone BY <1>1
  <2>2. gone \subseteq There BY <1>1 DEF Inactive
  <2>3. There = (There \ gone) \cup gone /\ (There \ gone) \cap gone = {} BY <2>2
  <2>4. IsFiniteSet(There \ gone) BY <1>3, FS_Subset
  <2>5. Cardinality(There) = Cardinality(There \ gone) + Cardinality(gone) - Cardinality({})
    BY <1>3, <2>3, <2>4, FS_Union
  <2>6. Cardinality(There \ gone) = MaxSlots
    BY <1>1, <1>4, <1>7, <2>4, <2>5, FS_EmptySet, FS_CardinalityType
  <2>7. ~(Cardinality({o \in Objects : u[o] # NoSlot}) > MaxSlots) BY <1>4, <2>1, <2>6
  <2>8. u \in [Objects -> Slots \cup {NoSlot}] BY <1>1
  <2> QED BY <1>2, <2>7, <2>8
<1> QED BY <1>4, <1>5, <1>6, <1>7

\* A reader that holds no slot, and does not come to hold one.
LEMMA MovesOutside ==
    ASSUME SourceInv, NEW r \in Readers, NEW q \in Fetching,
           reader' = [reader EXCEPT ![r] = q],
           reader[r].pc \notin Holding, q.pc \notin Holding,
           q.pc # "idle" => q.object \in Objects,
           \/ q.lease = NoLease /\ q.stale = NoLease /\ ~q.refresh
           \/ /\ q.object = Object(r) /\ q.lease = reader[r].lease /\ q.stale = reader[r].stale
              /\ Renewed(q) => Renewed(reader[r])
           \/ /\ q.object = Object(r) /\ q.lease = NoLease /\ q.stale = reader[r].lease
              /\ q.pc = "acquire",
           UNCHANGED <<slots, minted>>, permits' \in [endpoint : Int, global : Int], PermitsExact'
    PROVE  SourceInv'
<1>1. reader'[r] = q /\ \A s \in Readers \ {r} : reader'[s] = reader[s]
  BY DEF SourceInv, SourceTypeOK
<1>2. SourceTypeOK' BY <1>1 DEF SourceInv, SourceTypeOK, Object
<1>3. \A o : Holders(o)' = Holders(o) BY <1>1 DEF Holders, Object
<1>4. SlotsCounted' BY <1>3 DEF SourceInv, SlotsCounted, Present
<1>5. CallsShown' BY <1>1 DEF SourceInv, CallsShown, ReaderAt, Object, Holding
<1>6. LeasesOrdered'
  <2>1. \A o \in Objects : slots[o] # NoSlot => NotBefore(NoLease, o)
    BY DEF SourceInv, LeasesOrdered, NotBefore, NoLease, SourceTypeOK
  <2>2. q.lease.id <= minted /\ q.stale.id <= minted
    BY DEF SourceInv, LeasesOrdered, NoLease, SourceTypeOK
  <2>3. q.object \in Objects => NotBefore(q.lease, q.object) /\ NotBefore(q.stale, q.object)
    BY <2>1 DEF SourceInv, LeasesOrdered, NotBefore, Object
  <2>4. Renewed(q) => q.lease.id > q.stale.id
    BY DEF SourceInv, LeasesOrdered, Renewed
  <2> QED BY <1>1, <2>2, <2>3, <2>4 DEF SourceInv, LeasesOrdered, NotBefore, Object
<1> QED BY <1>2, <1>4, <1>5, <1>6 DEF SourceInv

\* A reader that holds its slot and goes on holding it, with or without its lease.
LEMMA MovesInside ==
    ASSUME SourceInv, NEW r \in Readers, NEW q \in Fetching,
           reader' = [reader EXCEPT ![r] = q],
           reader[r].pc \in {"decide", "waiting"}, q.pc \in {"waiting", "unslot"},
           q.object = Object(r), q.stale = reader[r].stale,
           q.lease \in {reader[r].lease, slots[Object(r)].lease},
           q.pc = "waiting" => /\ q.leader = slots[Object(r)].inflight
                               /\ slots[Object(r)].inflight # NoReader,
           Renewed(q) => q.lease.id > q.stale.id,
           UNCHANGED <<slots, minted, permits>>
    PROVE  SourceInv'
<1>1. reader'[r] = q /\ \A s \in Readers \ {r} : reader'[s] = reader[s]
  BY DEF SourceInv, SourceTypeOK
<1>0. Object(r) \in Objects /\ slots[Object(r)] \in Slots /\ slots[Object(r)] # NoSlot
  BY HeldIsThere DEF Holding
<1>2. SourceTypeOK' BY <1>0, <1>1 DEF SourceInv, SourceTypeOK, Object
<1>3. \A o : Holders(o)' = Holders(o) BY <1>1 DEF Holders, Object, Holding
<1>4. SlotsCounted' BY <1>3 DEF SourceInv, SlotsCounted, Present
<1>5. CallsShown'
  <2>1. q.pc = "waiting" => /\ q.leader \in Readers /\ ReaderAt(q.leader, "resolving")
                            /\ Object(q.leader) = Object(r)
    BY <1>0 DEF SourceInv, CallsShown
  <2> QED BY <1>1, <2>1 DEF SourceInv, CallsShown, ReaderAt, Object
<1>6. LeasesOrdered'
  <2>1. q.lease.id <= minted /\ NotBefore(q.lease, Object(r)) /\ q.stale.id <= minted
        /\ NotBefore(q.stale, Object(r))
    BY <1>0 DEF SourceInv, SourceTypeOK, LeasesOrdered, NotBefore, NoLease, Slots, Leases
  <2> QED BY <1>1, <2>1 DEF SourceInv, LeasesOrdered, NotBefore, Object
<1>7. PermitsExact' BY <1>1, PermitsStay DEF SourceInv
<1> QED BY <1>2, <1>4, <1>5, <1>6, <1>7 DEF SourceInv, SourceTypeOK

LEMMA Resolves ==
    ASSUME SourceInv, NEW r \in Readers, BeginResolve(r)
    PROVE  SourceInv'
<1> DEFINE o == Object(r)
           q == [reader[r] EXCEPT !.pc = "resolving"]
           s == [slots[o] EXCEPT !.cooling = @ \/ Budgeted(r), !.resolved = TRUE, !.inflight = r]
<1>1. /\ o \in Objects /\ slots[o] \in Slots /\ slots[o] # NoSlot
      /\ reader[r].pc = "decide" /\ slots[o].inflight = NoReader
  BY HeldIsThere DEF BeginResolve, ReaderAt, Holding, Held, Object
<1>2. /\ slots' = [slots EXCEPT ![o] = s] /\ reader' = [reader EXCEPT ![r] = q]
      /\ UNCHANGED <<minted, breaker, permits>>
  BY DEF BeginResolve, Go, Held, Object
<1>3. /\ s \in Slots /\ s # NoSlot /\ s.active = slots[o].active
      /\ s.lease = slots[o].lease /\ s.inflight = r
  BY <1>1 DEF Slots, NoSlot, Budgeted, Held, SourceInv, SourceTypeOK, Fetching, Object
<1>4. /\ q \in Fetching /\ q.pc = "resolving" /\ q.object = o
      /\ q.lease = reader[r].lease /\ q.stale = reader[r].stale
  BY DEF SourceInv, SourceTypeOK, Fetching, Holding, Object
<1> HIDE DEF q, s
<1>5. reader'[r] = q /\ \A x \in Readers \ {r} : reader'[x] = reader[x]
  BY <1>2 DEF SourceInv, SourceTypeOK
<1>6. slots'[o] = s /\ \A x \in Objects \ {o} : slots'[x] = slots[x]
  BY <1>1, <1>2 DEF SourceInv, SourceTypeOK
<1>7. SourceTypeOK'
  BY <1>1, <1>2, <1>3, <1>4, <1>5 DEF SourceInv, SourceTypeOK, Object
<1>8. \A x : Holders(x)' = Holders(x)
  BY <1>1, <1>4, <1>5 DEF Holders, Object, Holding
<1>9. SlotsCounted'
  <2>1. Present' = Present /\ Inactive(slots)' = Inactive(slots)
    BY <1>1, <1>3, <1>6 DEF Present, Inactive
  <2> QED BY <1>1, <1>3, <1>6, <1>8, <2>1 DEF SourceInv, SlotsCounted
<1>10. CallsShown'
  <2>1. \A x \in Readers : reader[x].pc = "resolving" => Object(x) # o
    BY <1>1, SourceAssumption DEF SourceInv, CallsShown, ReaderAt
  <2>2. \A x \in Readers : reader[x].pc = "waiting" => reader[x].leader # r
    BY <1>1 DEF SourceInv, CallsShown, ReaderAt
  <2>3. \A x \in Readers : ReaderAt(x, "resolving")' => slots'[Object(x)'].inflight = x
    BY <1>3, <1>4, <1>5, <1>6, <2>1, HeldIsThere
       DEF SourceInv, CallsShown, ReaderAt, Object, Holding
  <2>4. \A x \in Objects : slots'[x] # NoSlot /\ slots'[x].inflight # NoReader =>
          slots'[x].inflight \in Readers /\ ReaderAt(slots[x].inflight, "resolving")'
            /\ Object(slots[x].inflight)' = x
    BY <1>1, <1>3, <1>4, <1>5, <1>6 DEF SourceInv, CallsShown, ReaderAt, Object
  <2>5. \A x \in Readers : ReaderAt(x, "waiting")' =>
          /\ reader'[x].leader \in Readers /\ ReaderAt(reader[x].leader, "resolving")'
          /\ Object(reader[x].leader)' = Object(x)'
    BY <1>1, <1>4, <1>5, <2>2 DEF SourceInv, CallsShown, ReaderAt, Object
  <2> QED BY <2>3, <2>4, <2>5 DEF CallsShown
<1>11. LeasesOrdered'
  <2>1. \A x \in Objects : slots'[x] # NoSlot =>
          slots[x] # NoSlot /\ slots'[x].lease = slots[x].lease
    BY <1>1, <1>3, <1>6
  <2>2. \A x \in Readers :
          /\ reader'[x].lease = reader[x].lease /\ reader'[x].stale = reader[x].stale
          /\ Object(x)' = Object(x)
          /\ Renewed(reader'[x]) => Renewed(reader[x])
    BY <1>4, <1>5 DEF Object, Renewed
  <2>3. minted' = minted BY <1>2
  <2>4. LeasesOrdered BY DEF SourceInv
  <2>5. ASSUME NEW x \in Objects, slots'[x] # NoSlot
        PROVE  slots'[x].lease = NoLease \/ slots'[x].lease.id \in 1..minted'
    <3>1. slots[x] # NoSlot /\ slots'[x].lease = slots[x].lease BY <2>1, <2>5
    <3>2. slots[x].lease = NoLease \/ slots[x].lease.id \in 1..minted
      BY <2>4, <3>1 DEF LeasesOrdered
    <3> QED BY <2>3, <3>1, <3>2
  <2>6. ASSUME NEW x \in Readers
        PROVE  /\ reader'[x].lease.id <= minted' /\ reader'[x].stale.id <= minted'
               /\ Renewed(reader'[x]) => reader'[x].lease.id > reader'[x].stale.id
    <3>1. /\ reader[x].lease.id <= minted /\ reader[x].stale.id <= minted
          /\ Renewed(reader[x]) => reader[x].lease.id > reader[x].stale.id
      BY <2>4 DEF LeasesOrdered
    <3> QED BY <2>2, <2>3, <3>1
  <2>7. ASSUME NEW x \in Readers, Object(x)' \in Objects
        PROVE  NotBefore(reader[x].lease, Object(x))' /\ NotBefore(reader[x].stale, Object(x))'
    <3>1. Object(x)' = Object(x) /\ Object(x) \in Objects BY <2>2, <2>7
    <3>2. NotBefore(reader[x].lease, Object(x)) /\ NotBefore(reader[x].stale, Object(x))
      BY <2>4, <3>1 DEF LeasesOrdered
    <3> QED BY <2>1, <2>2, <3>1, <3>2 DEF NotBefore
  <2> QED BY <2>5, <2>6, <2>7 DEF LeasesOrdered
<1>12. PermitsExact' BY <1>1, <1>2, <1>4, <1>5, PermitsStay DEF SourceInv
<1> QED BY <1>7, <1>9, <1>10, <1>11, <1>12 DEF SourceInv

LEMMA Acquires ==
    ASSUME SourceInv, NEW r \in Readers, AcquireSlot(r)
    PROVE  SourceInv'
<1> DEFINE o == Object(r)
           slot == IF slots[o] = NoSlot THEN NewSlot ELSE slots[o]
           s == [slot EXCEPT !.active = @ + 1]
           t == [slots EXCEPT ![o] = s]
           q == [reader[r] EXCEPT !.pc = "decide"]
<1>1. o \in Objects /\ reader[r].pc = "acquire"
  BY DEF AcquireSlot, ReaderAt, SourceInv, SourceTypeOK
<1>2. /\ slots' \in Evicted(t) /\ reader' = [reader EXCEPT ![r] = q]
      /\ UNCHANGED <<minted, breaker, permits>>
  BY DEF AcquireSlot, Go, Object
<1>3. slot \in Slots /\ NewSlot \in Slots
  BY <1>1 DEF SourceInv, SourceTypeOK, NewSlot, Slots, NoLease, Leases
<1>4. /\ s \in Slots /\ s # NoSlot /\ s.active > 0
      /\ slots[o] # NoSlot => /\ s.active = slots[o].active + 1 /\ s.lease = slots[o].lease
                              /\ s.inflight = slots[o].inflight
      /\ slots[o] = NoSlot => s.active = 1 /\ s.lease = NoLease /\ s.inflight = NoReader
  <2>1. slot.active \in Nat BY <1>3 DEF Slots
  <2>2. /\ s.active = slot.active + 1 /\ s.lease = slot.lease /\ s.inflight = slot.inflight
        /\ s \in Slots
    BY <1>3, <2>1 DEF Slots
  <2>3. s # NoSlot BY <2>1, <2>2 DEF NoSlot
  <2>4. NewSlot.active = 0 /\ NewSlot.lease = NoLease /\ NewSlot.inflight = NoReader
    BY DEF NewSlot
  <2> HIDE DEF s
  <2> QED BY <2>1, <2>2, <2>3, <2>4
<1>5. /\ q \in Fetching /\ q.pc = "decide" /\ q.object = o /\ q.outcome = reader[r].outcome
      /\ q.lease = reader[r].lease /\ q.stale = reader[r].stale
  BY DEF SourceInv, SourceTypeOK, Fetching, Holding, Object
<1> HIDE DEF q, s
<1>6. reader'[r] = q /\ \A x \in Readers \ {r} : reader'[x] = reader[x]
  BY <1>2 DEF SourceInv, SourceTypeOK
<1>7. t \in [Objects -> Slots \cup {NoSlot}] /\ t[o] = s
      /\ \A x \in Objects \ {o} : t[x] = slots[x]
  BY <1>1, <1>4 DEF SourceInv, SourceTypeOK
<1> HIDE DEF t
<1>8. /\ slots' \in [Objects -> Slots \cup {NoSlot}]
      /\ \A x \in Objects : slots'[x] = t[x] \/ (slots'[x] = NoSlot /\ x \in Inactive(t))
      /\ Cardinality({x \in Objects : slots'[x] # NoSlot}) > MaxSlots => Inactive(slots') = {}
  BY <1>2, <1>7, EvictedLeaves
<1>9. /\ slots'[o] = s
      /\ \A x \in Objects \ {o} : slots'[x] # slots[x] =>
            slots'[x] = NoSlot /\ slots[x].active = 0 /\ slots[x] # NoSlot
  <2>1. o \notin Inactive(t) BY <1>4, <1>7 DEF Inactive
  <2>2. \A x \in Inactive(t) : t[x] # NoSlot /\ t[x].active = 0 BY DEF Inactive
  <2> QED BY <1>1, <1>7, <1>8, <2>1, <2>2
<1>10. SourceTypeOK'
  BY <1>1, <1>2, <1>5, <1>6, <1>8 DEF SourceInv, SourceTypeOK, Object
<1>11. ASSUME NEW x
       PROVE  /\ Cardinality(Holders(x)) \in Nat
              /\ Cardinality(Holders(x)') = Cardinality(Holders(x)) + (IF x = o THEN 1 ELSE 0)
  <2>1. r \notin Holders(x) BY <1>1 DEF Holders, Holding
  <2>2. /\ Cardinality(Holders(x)) \in Nat
        /\ Cardinality(Holders(x)') = Cardinality(Holders(x))
              + (IF q.object = x /\ q.pc \in Holding THEN 1 ELSE 0)
              - (IF r \in Holders(x) THEN 1 ELSE 0)
    BY <1>2, HoldersAfter DEF SourceInv
  <2> QED BY <1>5, <2>1, <2>2 DEF Holding
<1>12. SlotsCounted'
  <2>1. ASSUME NEW x \in Objects
        PROVE  IF slots'[x] = NoSlot THEN Cardinality(Holders(x)') = 0
               ELSE slots'[x].active = Cardinality(Holders(x)')
    <3>1. IF slots[x] = NoSlot THEN Cardinality(Holders(x)) = 0
          ELSE slots[x].active = Cardinality(Holders(x))
      BY DEF SourceInv, SlotsCounted
    <3> QED BY <1>4, <1>9, <1>11, <3>1
  <2> QED BY <1>8, <2>1 DEF SlotsCounted, Present, Inactive
<1>13. \A x \in Readers \ {r} : reader[x].pc \in Holding =>
          /\ Object(x) \in Objects /\ slots[Object(x)] # NoSlot
          /\ slots'[Object(x)] # NoSlot
          /\ slots'[Object(x)].inflight = slots[Object(x)].inflight
  BY <1>4, <1>9, HeldIsThere
<1>14. CallsShown'
  <2>1. ASSUME NEW x \in Objects, slots'[x] # NoSlot, slots'[x].inflight # NoReader
        PROVE  /\ slots[x] # NoSlot /\ slots'[x].inflight = slots[x].inflight
               /\ slots[x].inflight \in Readers \ {r}
    BY <1>1, <1>4, <1>9, <2>1 DEF SourceInv, CallsShown, ReaderAt
  <2>2. \A x \in Readers : ReaderAt(x, "resolving")' => slots'[Object(x)'].inflight = x
    BY <1>5, <1>6, <1>13 DEF SourceInv, CallsShown, ReaderAt, Object, Holding
  <2> QED BY <1>1, <1>5, <1>6, <2>1, <2>2 DEF SourceInv, CallsShown, ReaderAt, Object
<1>15. LeasesOrdered'
  <2>1. \A x \in Objects : slots'[x] # NoSlot =>
           \/ slots'[x].lease = NoLease
           \/ slots[x] # NoSlot /\ slots'[x].lease = slots[x].lease
    <3>1. ASSUME NEW x \in Objects, x # o, slots'[x] # NoSlot
          PROVE  slots[x] # NoSlot /\ slots'[x].lease = slots[x].lease
      BY <1>9, <3>1
    <3> QED BY <1>4, <1>9, <3>1
  <2>2. ASSUME NEW l \in Leases, NEW x \in Objects, NotBefore(l, x) PROVE NotBefore(l, x)'
    BY <2>1, <2>2 DEF NotBefore, NoLease, Leases
  <2>3. \A x \in Objects : slots'[x] # NoSlot =>
           slots'[x].lease = NoLease \/ slots'[x].lease.id \in 1..minted'
    BY <1>2, <2>1 DEF SourceInv, LeasesOrdered
  <2>4. \A x \in Readers : /\ reader'[x].lease = reader[x].lease
                           /\ reader'[x].stale = reader[x].stale
                           /\ reader[x].lease \in Leases /\ reader[x].stale \in Leases
                           /\ Object(x)' = Object(x)
                           /\ Renewed(reader'[x]) => Renewed(reader[x])
    BY <1>1, <1>5, <1>6 DEF SourceInv, SourceTypeOK, Fetching, Object, Renewed
  <2> QED BY <1>2, <2>2, <2>3, <2>4 DEF SourceInv, LeasesOrdered
<1>16. PermitsExact' BY <1>1, <1>2, <1>5, <1>6, PermitsStay DEF SourceInv
<1> QED BY <1>10, <1>12, <1>14, <1>15, <1>16 DEF SourceInv

LEMMA LetsGo ==
    ASSUME SourceInv, NEW r \in Readers, ReleaseSlot(r)
    PROVE  SourceInv'
<1> DEFINE o == Object(r)
           s == [slots[o] EXCEPT !.active = @ - 1]
           t == [slots EXCEPT ![o] = s]
           q == IF reader[r].outcome = "ok"
                THEN [reader[r] EXCEPT !.pc = "queue", !.outcome = "none"]
                ELSE Ended(r, reader[r].outcome)
<1>1. /\ o \in Objects /\ slots[o] \in Slots /\ slots[o] # NoSlot /\ slots[o].active > 0
      /\ reader[r].pc = "unslot"
  BY HeldIsThere DEF ReleaseSlot, ReaderAt, Holding
<1>2. /\ slots' \in Evicted(t) /\ reader' = [reader EXCEPT ![r] = q]
      /\ UNCHANGED <<minted, breaker, permits>>
  BY DEF ReleaseSlot, Go, Object
<1>3. /\ s \in Slots /\ s.active = slots[o].active - 1 /\ s.lease = slots[o].lease
      /\ s.inflight = slots[o].inflight
  BY <1>1 DEF Slots
<1>4. s # NoSlot BY <1>1, <1>3 DEF NoSlot, Slots
<1>5. /\ q \in Fetching /\ q.pc \notin Holding /\ q.object = o
      /\ q.pc \notin {"idle", "permitted", "sending", "waiting", "resolving"}
      /\ q.lease \in {NoLease, reader[r].lease} /\ q.stale \in {NoLease, reader[r].stale}
      /\ Renewed(q) => Renewed(reader[r]) /\ q.lease = reader[r].lease /\ q.stale = reader[r].stale
  <2>1. reader[r] \in Fetching /\ NoLease \in Leases
    BY DEF SourceInv, SourceTypeOK, NoLease, Leases
  <2>2. CASE reader[r].outcome = "ok"
    <3>1. q = [reader[r] EXCEPT !.pc = "queue", !.outcome = "none"] BY <2>2
    <3> QED BY <1>1, <2>1, <2>2, <3>1 DEF Fetching, Holding, Object, Elsewhere, Renewed
  <2>3. CASE reader[r].outcome # "ok"
    <3>1. q = [reader[r] EXCEPT !.pc = "record", !.outcome = reader[r].outcome, !.refresh = FALSE,
                                !.lease = NoLease, !.stale = NoLease]
      BY <2>3 DEF Ended
    <3> QED BY <1>1, <2>1, <3>1 DEF Fetching, Holding, Object, Elsewhere, Renewed
  <2> QED BY <2>2, <2>3
<1> HIDE DEF q, s
<1>6. reader'[r] = q /\ \A x \in Readers \ {r} : reader'[x] = reader[x]
  BY <1>2 DEF SourceInv, SourceTypeOK
<1>7. t \in [Objects -> Slots \cup {NoSlot}] /\ t[o] = s
      /\ \A x \in Objects \ {o} : t[x] = slots[x]
  BY <1>1, <1>3 DEF SourceInv, SourceTypeOK
<1> HIDE DEF t
<1>8. /\ slots' \in [Objects -> Slots \cup {NoSlot}]
      /\ \A x \in Objects : slots'[x] = t[x] \/ (slots'[x] = NoSlot /\ x \in Inactive(t))
      /\ Cardinality({x \in Objects : slots'[x] # NoSlot}) > MaxSlots => Inactive(slots') = {}
  BY <1>2, <1>7, EvictedLeaves
<1>9. /\ slots'[o] # s => slots'[o] = NoSlot /\ s.active = 0
      /\ \A x \in Objects \ {o} : slots'[x] # slots[x] =>
            slots'[x] = NoSlot /\ slots[x].active = 0 /\ slots[x] # NoSlot
  <2>1. \A x \in Inactive(t) : t[x] # NoSlot /\ t[x].active = 0 BY DEF Inactive
  <2> QED BY <1>1, <1>7, <1>8, <2>1
<1>10. SourceTypeOK'
  BY <1>1, <1>2, <1>5, <1>6, <1>8 DEF SourceInv, SourceTypeOK, Object
<1>11. ASSUME NEW x
       PROVE  /\ Cardinality(Holders(x)) \in Nat
              /\ Cardinality(Holders(x)') = Cardinality(Holders(x)) - (IF x = o THEN 1 ELSE 0)
  <2>1. r \in Holders(x) <=> x = o BY <1>1 DEF Holders, Holding
  <2>2. /\ Cardinality(Holders(x)) \in Nat
        /\ Cardinality(Holders(x)') = Cardinality(Holders(x))
              + (IF q.object = x /\ q.pc \in Holding THEN 1 ELSE 0)
              - (IF r \in Holders(x) THEN 1 ELSE 0)
    BY <1>2, HoldersAfter DEF SourceInv
  <2> QED BY <1>5, <2>1, <2>2
<1>12. SlotsCounted'
  <2>1. ASSUME NEW x \in Objects
        PROVE  IF slots'[x] = NoSlot THEN Cardinality(Holders(x)') = 0
               ELSE slots'[x].active = Cardinality(Holders(x)')
    <3>1. IF slots[x] = NoSlot THEN Cardinality(Holders(x)) = 0
          ELSE slots[x].active = Cardinality(Holders(x))
      BY DEF SourceInv, SlotsCounted
    <3> QED BY <1>1, <1>3, <1>4, <1>9, <1>11, <3>1
  <2> QED BY <1>8, <2>1 DEF SlotsCounted, Present, Inactive
<1>13. \A x \in Readers \ {r} : reader[x].pc \in Holding =>
          /\ Object(x) \in Objects /\ slots'[Object(x)] # NoSlot
          /\ slots'[Object(x)].inflight = slots[Object(x)].inflight
  <2> SUFFICES ASSUME NEW x \in Readers \ {r}, reader[x].pc \in Holding
               PROVE  /\ Object(x) \in Objects /\ slots'[Object(x)] # NoSlot
                      /\ slots'[Object(x)].inflight = slots[Object(x)].inflight
    OBVIOUS
  <2>1. Object(x) \in Objects BY HeldIsThere
  <2>2. x \in Holders(Object(x))' BY <1>6 DEF Holders, Object
  <2>3. IsFiniteSet(Holders(Object(x))')
    BY SourceAssumption, FS_Subset DEF Holders
  <2>4. Cardinality(Holders(Object(x))') # 0 BY <2>2, <2>3, FS_EmptySet
  <2>5. Object(x)' = Object(x) BY <1>6 DEF Object
  <2>6. slots'[Object(x)] # NoSlot BY <1>12, <2>1, <2>4, <2>5 DEF SlotsCounted
  <2> QED BY <1>3, <1>9, <2>1, <2>6
<1>14. CallsShown'
  <2>1. ASSUME NEW x \in Objects, slots'[x] # NoSlot, slots'[x].inflight # NoReader
        PROVE  /\ slots[x] # NoSlot /\ slots'[x].inflight = slots[x].inflight
               /\ slots[x].inflight \in Readers \ {r}
    BY <1>1, <1>3, <1>9, <2>1 DEF SourceInv, CallsShown, ReaderAt
  <2>2. \A x \in Readers : ReaderAt(x, "resolving")' => slots'[Object(x)'].inflight = x
    BY <1>5, <1>6, <1>13 DEF SourceInv, CallsShown, ReaderAt, Object, Holding
  <2> QED BY <1>1, <1>5, <1>6, <2>1, <2>2 DEF SourceInv, CallsShown, ReaderAt, Object
<1>15. LeasesOrdered'
  <2>1. \A x \in Objects : slots'[x] # NoSlot =>
           slots[x] # NoSlot /\ slots'[x].lease = slots[x].lease
    BY <1>1, <1>3, <1>9
  <2>2. ASSUME NEW l, NEW x \in Objects, NotBefore(l, x) PROVE NotBefore(l, x)'
    BY <2>1, <2>2 DEF NotBefore
  <2>3. \A x \in Objects : slots'[x] # NoSlot =>
           \/ slots'[x].lease = NoLease
           \/ slots'[x].lease.id \in 1..minted'
    BY <1>2, <2>1 DEF SourceInv, LeasesOrdered
  <2>4. \A x \in Objects : NotBefore(NoLease, x)
    BY DEF SourceInv, LeasesOrdered, NotBefore, NoLease, SourceTypeOK
  <2>5. /\ q.lease.id <= minted /\ q.stale.id <= minted
        /\ NotBefore(q.lease, o) /\ NotBefore(q.stale, o)
        /\ Renewed(q) => q.lease.id > q.stale.id
    BY <1>1, <1>5, <2>4 DEF SourceInv, SourceTypeOK, LeasesOrdered, NoLease
  <2>6. ASSUME NEW x \in Readers
        PROVE  /\ reader'[x].lease.id <= minted' /\ reader'[x].stale.id <= minted'
               /\ Object(x)' \in Objects =>
                    NotBefore(reader[x].lease, Object(x))' /\ NotBefore(reader[x].stale, Object(x))'
               /\ Renewed(reader'[x]) => reader'[x].lease.id > reader'[x].stale.id
    <3>1. CASE x = r
      <4>1. Object(x)' = o /\ reader'[x] = q BY <1>5, <1>6, <3>1 DEF Object
      <4> QED BY <1>1, <1>2, <2>2, <2>5, <4>1 DEF NotBefore
    <3>2. CASE x # r
      <4>1. Object(x)' = Object(x) /\ reader'[x] = reader[x] BY <1>6, <3>2 DEF Object
      <4>2. /\ reader[x].lease.id <= minted /\ reader[x].stale.id <= minted
            /\ Object(x) \in Objects =>
                 NotBefore(reader[x].lease, Object(x)) /\ NotBefore(reader[x].stale, Object(x))
            /\ Renewed(reader[x]) => reader[x].lease.id > reader[x].stale.id
        BY DEF SourceInv, LeasesOrdered
      <4> QED BY <1>2, <2>1, <4>1, <4>2 DEF NotBefore
    <3> QED BY <3>1, <3>2
  <2> QED BY <2>3, <2>6 DEF LeasesOrdered
<1>16. PermitsExact' BY <1>1, <1>2, <1>5, <1>6, PermitsStay DEF SourceInv
<1> QED BY <1>10, <1>12, <1>14, <1>15, <1>16 DEF SourceInv

\* The end of a call: who is told, and what stays as it was.
Tells(r, lease, outcome) ==
    /\ ReaderAt(r, "resolving") /\ lease \in Leases /\ outcome \in Outcomes
    /\ reader' = Told(r, lease, outcome)
    /\ UNCHANGED permits

LEMMA ToldReaders ==
    ASSUME SourceInv, NEW r \in Readers, NEW lease, NEW outcome, Tells(r, lease, outcome)
    PROVE  /\ reader' \in [Readers -> Fetching] /\ PermitsExact'
           /\ \A x \in Readers : Object(x)' = Object(x) /\ reader'[x].stale = reader[x].stale
           /\ \A x \in Readers :
                 \/ /\ x = r \/ (ReaderAt(x, "waiting") /\ reader[x].leader = r)
                    /\ Object(x) = Object(r) /\ Object(x) \in Objects
                    /\ reader'[x].pc = "unslot" /\ reader[x].pc \in Holding
                    /\ reader'[x].lease = lease /\ reader'[x].outcome = outcome
                 \/ /\ x # r /\ ~(ReaderAt(x, "waiting") /\ reader[x].leader = r)
                    /\ reader'[x] = reader[x]
<1> DEFINE told == {x \in Readers : x = r \/ (ReaderAt(x, "waiting") /\ reader[x].leader = r)}
           told1(x) == [reader[x] EXCEPT !.pc = "unslot", !.lease = lease, !.outcome = outcome,
                                         !.leader = NoReader]
<1>1. reader' = [x \in Readers |-> IF x \in told THEN told1(x) ELSE reader[x]]
  BY DEF Tells, Told
<1>2. ASSUME NEW x \in Readers
      PROVE  /\ told1(x) \in Fetching /\ told1(x).object = reader[x].object
             /\ told1(x).stale = reader[x].stale /\ told1(x).pc = "unslot"
             /\ told1(x).lease = lease /\ told1(x).outcome = outcome
  BY DEF SourceInv, SourceTypeOK, Fetching, Holding, Tells
<1> HIDE DEF told1
<1>3. \A x \in told : /\ reader[x].pc \in Holding /\ Object(x) = Object(r)
                      /\ Object(x) \in Objects
  BY DEF SourceInv, SourceTypeOK, CallsShown, ReaderAt, Holding, Tells
<1>4. reader' \in [Readers -> Fetching] BY <1>1, <1>2 DEF SourceInv, SourceTypeOK
<1>5. PermitsExact'
  BY <1>1, <1>2, <1>3, PermitsStay DEF Tells, SourceInv, Holding
<1>6. \A x \in Readers : Object(x)' = Object(x) /\ reader'[x].stale = reader[x].stale
  BY <1>1, <1>2 DEF Object
<1>7. ASSUME NEW x \in told
      PROVE  /\ reader'[x].pc = "unslot" /\ reader[x].pc \in Holding
             /\ reader'[x].lease = lease /\ reader'[x].outcome = outcome
  BY <1>1, <1>2, <1>3
<1>8. ASSUME NEW x \in Readers, x \notin told PROVE reader'[x] = reader[x] BY <1>1, <1>8
<1> HIDE DEF told
<1>9. \A x \in Readers : x \in told <=> (x = r \/ (ReaderAt(x, "waiting") /\ reader[x].leader = r))
  BY DEF told
<1> QED BY <1>3, <1>4, <1>5, <1>6, <1>7, <1>8, <1>9

\* The slot of a call that has ended: nobody is in it, with a new lease or the one it had.
LEMMA CallEnds ==
    ASSUME SourceInv, NEW r \in Readers, NEW s \in Slots, NEW lease, NEW outcome,
           Tells(r, lease, outcome), slots' = [slots EXCEPT ![Object(r)] = s],
           s.active = slots[Object(r)].active, s.inflight = NoReader,
           \/ /\ lease.id = minted + 1 /\ minted' = minted + 1 /\ s.lease = lease
           \/ /\ lease = NoLease /\ minted' = minted /\ s.lease = slots[Object(r)].lease
              /\ outcome # "ok"
    PROVE  SourceInv'
<1> DEFINE o == Object(r)
<1>1. o \in Objects /\ slots[o] \in Slots /\ slots[o] # NoSlot /\ reader[r].pc = "resolving"
  BY HeldIsThere DEF Tells, ReaderAt, Holding
<1>2. s # NoSlot BY DEF Slots, NoSlot
<1>3. slots'[o] = s /\ \A x \in Objects \ {o} : slots'[x] = slots[x]
  BY <1>1 DEF SourceInv, SourceTypeOK
<1>4. minted \in Nat /\ minted' \in Nat /\ minted <= minted'
  BY DEF SourceInv, SourceTypeOK
<1>5. /\ reader' \in [Readers -> Fetching] /\ PermitsExact'
      /\ \A x \in Readers : Object(x)' = Object(x) /\ reader'[x].stale = reader[x].stale
      /\ \A x \in Readers :
            \/ /\ x = r \/ (ReaderAt(x, "waiting") /\ reader[x].leader = r)
               /\ Object(x) = Object(r) /\ Object(x) \in Objects
               /\ reader'[x].pc = "unslot" /\ reader[x].pc \in Holding
               /\ reader'[x].lease = lease /\ reader'[x].outcome = outcome
            \/ /\ x # r /\ ~(ReaderAt(x, "waiting") /\ reader[x].leader = r)
               /\ reader'[x] = reader[x]
  BY ToldReaders
<1>6. SourceTypeOK'
  <2>1. slots' \in [Objects -> Slots \cup {NoSlot}] BY <1>1 DEF SourceInv, SourceTypeOK
  <2>2. \A x \in Readers : reader'[x].pc # "idle" => Object(x)' \in Objects
    BY <1>5 DEF SourceInv, SourceTypeOK, Object
  <2> QED BY <1>4, <1>5, <2>1, <2>2 DEF SourceInv, SourceTypeOK, Tells
<1>7. SlotsCounted'
  <2>1. \A x : Holders(x)' = Holders(x)
    <3>1. \A x \in Readers : reader'[x].pc \in Holding <=> reader[x].pc \in Holding
      BY <1>5 DEF Holding
    <3> QED BY <1>5, <3>1 DEF Holders
  <2>2. Present' = Present /\ Inactive(slots)' = Inactive(slots)
    BY <1>1, <1>2, <1>3 DEF Present, Inactive
  <2> QED BY <1>1, <1>2, <1>3, <2>1, <2>2 DEF SourceInv, SlotsCounted
<1>8. CallsShown'
  <2>1. \A x \in Readers : reader[x].pc = "resolving" /\ x # r =>
          Object(x) # o /\ reader'[x] = reader[x]
    BY <1>1, <1>5 DEF SourceInv, CallsShown, ReaderAt
  <2>2. \A x \in Objects : slots'[x] # NoSlot /\ slots'[x].inflight # NoReader =>
          slots'[x].inflight \in Readers /\ ReaderAt(slots[x].inflight, "resolving")'
            /\ Object(slots[x].inflight)' = x /\ slots'[x].inflight = slots[x].inflight
    BY <1>3, <1>5, <2>1 DEF SourceInv, CallsShown, ReaderAt
  <2>3. \A x \in Readers : ReaderAt(x, "resolving")' => slots'[Object(x)'].inflight = x
    <3> SUFFICES ASSUME NEW x \in Readers, ReaderAt(x, "resolving")'
                 PROVE  slots'[Object(x)'].inflight = x
      OBVIOUS
    <3>1. x # r /\ reader[x].pc = "resolving" BY <1>5 DEF ReaderAt
    <3>2. Object(x) \in Objects \ {o} BY <2>1, <3>1 DEF SourceInv, SourceTypeOK
    <3> QED BY <1>3, <1>5, <3>1, <3>2 DEF SourceInv, CallsShown, ReaderAt
  <2>4. \A x \in Readers : ReaderAt(x, "waiting")' =>
          /\ reader'[x].leader \in Readers /\ ReaderAt(reader[x].leader, "resolving")'
          /\ Object(reader[x].leader)' = Object(x)' /\ reader'[x].leader = reader[x].leader
    <3> SUFFICES ASSUME NEW x \in Readers, ReaderAt(x, "waiting")'
                 PROVE  /\ reader'[x].leader \in Readers
                        /\ ReaderAt(reader[x].leader, "resolving")'
                        /\ Object(reader[x].leader)' = Object(x)'
                        /\ reader'[x].leader = reader[x].leader
      OBVIOUS
    <3>1. reader'[x] = reader[x] /\ reader[x].leader # r /\ reader[x].pc = "waiting"
      BY <1>5 DEF ReaderAt
    <3> DEFINE y == reader[x].leader
    <3>2. y \in Readers /\ reader[y].pc = "resolving" /\ Object(y) = Object(x)
      BY <3>1 DEF SourceInv, CallsShown, ReaderAt
    <3>3. reader'[y] = reader[y] BY <2>1, <3>1, <3>2
    <3> QED BY <1>5, <3>1, <3>2, <3>3 DEF ReaderAt
  <2> QED BY <2>2, <2>3, <2>4 DEF CallsShown
<1>9. LeasesOrdered'
  <2>1. \A x \in Objects : slots'[x] # NoSlot =>
           slots'[x].lease = NoLease \/ slots'[x].lease.id \in 1..minted'
    BY <1>1, <1>3, <1>4 DEF SourceInv, LeasesOrdered
  <2>2. lease.id <= minted' /\ NotBefore(lease, o)'
    <3>1. s.lease \in Leases /\ s.lease.generation \in Nat BY DEF Slots, Leases
    <3>2. Object(r)' = o BY <1>5
    <3>3. CASE lease.id = minted + 1 /\ minted' = minted + 1 /\ s.lease = lease
      BY <1>3, <1>4, <3>1, <3>2, <3>3 DEF NotBefore
    <3>4. CASE lease = NoLease /\ minted' = minted /\ s.lease = slots[o].lease
      <4>1. \/ s.lease = NoLease
            \/ s.lease.id \in 1..minted
        BY <1>1, <3>4 DEF SourceInv, LeasesOrdered
      <4>2. s.lease.generation > 0 => s.lease.id > 0 BY <4>1, <1>4 DEF NoLease
      <4>3. NoLease.id = 0 /\ NoLease.generation = 0 BY DEF NoLease
      <4> QED BY <1>3, <1>4, <3>2, <3>4, <4>2, <4>3 DEF NotBefore
    <3> QED BY <3>3, <3>4
  <2>3. ASSUME NEW l \in Leases, l.id <= minted, NEW x \in Objects, NotBefore(l, x)
        PROVE  NotBefore(l, x)' /\ l.id <= minted'
    <3>1. l.id \in Nat BY DEF Leases
    <3> QED BY <1>1, <1>3, <1>4, <2>3, <3>1 DEF NotBefore
  <2>4. ASSUME NEW x \in Readers
        PROVE  /\ reader'[x].lease.id <= minted' /\ reader'[x].stale.id <= minted'
               /\ Object(x)' \in Objects =>
                    NotBefore(reader[x].lease, Object(x))' /\ NotBefore(reader[x].stale, Object(x))'
               /\ Renewed(reader'[x]) => reader'[x].lease.id > reader'[x].stale.id
    <3>1. /\ reader[x].lease.id <= minted /\ reader[x].stale.id <= minted
          /\ Object(x) \in Objects =>
               NotBefore(reader[x].lease, Object(x)) /\ NotBefore(reader[x].stale, Object(x))
          /\ Renewed(reader[x]) => reader[x].lease.id > reader[x].stale.id
          /\ reader[x].lease \in Leases /\ reader[x].stale \in Leases
      BY DEF SourceInv, SourceTypeOK, Fetching, LeasesOrdered
    <3>2. /\ Object(x) \in Objects => NotBefore(reader[x].stale, Object(x))'
          /\ reader[x].stale.id <= minted'
      <4>1. Object(x) \in Objects => NotBefore(reader[x].stale, Object(x))'
        BY <2>3, <3>1, <1>5 DEF NotBefore
      <4> QED BY <1>4, <3>1, <4>1 DEF Leases
    <3>3. CASE reader'[x] = reader[x]
      BY <1>4, <1>5, <2>3, <3>1, <3>2, <3>3 DEF NotBefore, Leases
    <3>4. CASE Object(x) = o /\ reader'[x].pc = "unslot" /\ reader'[x].lease = lease
               /\ reader'[x].outcome = outcome
      <4>1. Object(x)' = o /\ reader'[x].stale = reader[x].stale BY <1>5, <3>4
      <4>2. Renewed(reader'[x]) => lease.id > reader[x].stale.id
        BY <1>4, <3>1, <3>4 DEF Renewed, Leases
      <4>3. NotBefore(reader[x].lease, Object(x))' /\ NotBefore(reader[x].stale, Object(x))'
        BY <1>1, <1>5, <2>2, <3>2, <3>4, <4>1 DEF NotBefore
      <4>4. reader'[x].lease.id <= minted' /\ reader'[x].stale.id <= minted'
        BY <2>2, <3>2, <3>4, <4>1
      <4> QED BY <3>4, <4>1, <4>2, <4>3, <4>4
    <3> QED BY <1>5, <3>3, <3>4
  <2> QED BY <2>1, <2>4 DEF LeasesOrdered
<1> QED BY <1>5, <1>6, <1>7, <1>8, <1>9 DEF SourceInv

LEMMA CallSucceeds ==
    ASSUME SourceInv, NEW r \in Readers, ResolveSucceeds(r)
    PROVE  SourceInv'
<1> DEFINE lease == [id |-> minted + 1, generation |-> Held(r).lease.generation + 1]
           s == [Held(r) EXCEPT !.lease = lease, !.fresh = TRUE, !.inflight = NoReader]
<1>1. Object(r) \in Objects /\ Held(r) \in Slots /\ Held(r) = slots[Object(r)]
  BY HeldIsThere DEF ResolveSucceeds, ReaderAt, Holding, Held, Object
<1>2. lease \in Leases /\ lease.id = minted + 1
  <2>1. Held(r).lease \in Leases BY <1>1 DEF Slots
  <2>2. Held(r).lease.generation \in Nat /\ minted \in Nat
    BY <2>1 DEF Leases, SourceInv, SourceTypeOK
  <2> QED BY <2>2 DEF Leases
<1> HIDE DEF lease
<1>3. s \in Slots /\ s.active = Held(r).active /\ s.inflight = NoReader /\ s.lease = lease
  BY <1>1, <1>2 DEF Slots
<1>4. slots' = [slots EXCEPT ![Object(r)] = s] /\ minted' = minted + 1
  BY <1>1 DEF ResolveSucceeds, lease
<1>5. Tells(r, lease, "ok")
  BY <1>2 DEF ResolveSucceeds, Tells, Outcomes, lease
<1> HIDE DEF s
<1> QED BY <1>1, <1>2, <1>3, <1>4, <1>5, CallEnds

LEMMA CallFails ==
    ASSUME SourceInv, NEW r \in Readers, ResolveFails(r)
    PROVE  SourceInv'
<1> DEFINE s == [Held(r) EXCEPT !.inflight = NoReader]
<1>1. Object(r) \in Objects /\ Held(r) \in Slots /\ Held(r) = slots[Object(r)]
  BY HeldIsThere DEF ResolveFails, ReaderAt, Holding, Held, Object
<1>2. /\ s \in Slots /\ s.active = Held(r).active /\ s.inflight = NoReader
      /\ s.lease = Held(r).lease
  BY <1>1 DEF Slots
<1>3. slots' = [slots EXCEPT ![Object(r)] = s] /\ minted' = minted
  BY <1>1 DEF ResolveFails
<1>4. PICK outcome \in Outcomes \ {"ok", "refused"} : Tells(r, NoLease, outcome)
  BY DEF ResolveFails, Tells, NoLease, Leases
<1> HIDE DEF s
<1> QED BY <1>1, <1>2, <1>3, <1>4, CallEnds

\* A slot changes in what nobody relies on: a lease lapses, a cooldown passes.
LEMMA TimePasses ==
    ASSUME SourceInv, LeaseTime
    PROVE  SourceInv'
<1>1. PICK o \in Present : \/ slots' = [slots EXCEPT ![o].fresh = FALSE]
                           \/ slots' = [slots EXCEPT ![o].cooling = FALSE]
  BY DEF LeaseTime
<1>2. o \in Objects /\ slots[o] \in Slots /\ slots[o] # NoSlot
  BY DEF Present, SourceInv, SourceTypeOK
<1>3. /\ slots'[o] \in Slots /\ slots'[o].active = slots[o].active
      /\ slots'[o].inflight = slots[o].inflight /\ slots'[o].lease = slots[o].lease
      /\ \A x \in Objects \ {o} : slots'[x] = slots[x]
      /\ slots' \in [Objects -> Slots \cup {NoSlot}]
  <2>1. PICK s \in {[slots[o] EXCEPT !.fresh = FALSE], [slots[o] EXCEPT !.cooling = FALSE]} :
           slots' = [slots EXCEPT ![o] = s]
    BY <1>1
  <2>2. /\ s \in Slots /\ s.active = slots[o].active /\ s.inflight = slots[o].inflight
        /\ s.lease = slots[o].lease
    BY <1>2 DEF Slots
  <2> QED BY <1>2, <2>1, <2>2 DEF SourceInv, SourceTypeOK
<1>4. slots'[o] # NoSlot BY <1>3 DEF Slots, NoSlot
<1>5. UNCHANGED <<minted, reader, permits>> BY DEF LeaseTime
<1>6. Present' = Present /\ Inactive(slots)' = Inactive(slots)
  BY <1>2, <1>3, <1>4 DEF Present, Inactive
<1>7. SlotsCounted'
  BY <1>2, <1>3, <1>4, <1>5, <1>6 DEF SourceInv, SlotsCounted, Holders, Object
<1>8. CallsShown'
  <2>1. \A x \in Readers : reader[x].pc = "resolving" => Object(x) \in Objects
    BY DEF SourceInv, SourceTypeOK
  <2> QED BY <1>2, <1>3, <1>4, <1>5, <2>1 DEF SourceInv, CallsShown, ReaderAt, Object
<1>9. LeasesOrdered'
  BY <1>2, <1>3, <1>4, <1>5 DEF SourceInv, LeasesOrdered, NotBefore, Object
<1>10. PermitsExact' BY <1>5, PermitsStay DEF SourceInv
<1> QED BY <1>3, <1>5, <1>7, <1>8, <1>9, <1>10 DEF SourceInv, SourceTypeOK, Object

LEMMA StandsStill ==
    ASSUME SourceInv, UNCHANGED <<slots, minted, reader, permits>>
    PROVE  SourceInv'
BY PermitsStay DEF SourceInv, SourceTypeOK, SlotsCounted, CallsShown, LeasesOrdered,
       NotBefore, Holders, Present, ReaderAt, Object

\* With its slot: a lease that will do, a call to wait for, no new call, no more time.
LEMMA Decides ==
    ASSUME SourceInv, NEW r \in Readers,
           UseLease(r) \/ JoinCall(r) \/ RefuseRefresh(r) \/ WaitTimesOut(r)
    PROVE  SourceInv'
<1>0. reader[r] \in Fetching /\ reader[r].pc \in {"decide", "waiting"}
  BY DEF SourceInv, SourceTypeOK, UseLease, JoinCall, RefuseRefresh, WaitTimesOut, ReaderAt
<1>1. Object(r) \in Objects /\ slots[Object(r)] \in Slots /\ Held(r) = slots[Object(r)]
  BY <1>0, HeldIsThere DEF Holding, Held, Object
<1>2. CASE UseLease(r)
  <2> DEFINE q == [reader[r] EXCEPT !.pc = "unslot", !.lease = Held(r).lease, !.outcome = "ok"]
  <2>1. /\ q \in Fetching /\ q.pc = "unslot" /\ q.object = Object(r)
        /\ q.stale = reader[r].stale /\ q.lease = Held(r).lease /\ q.refresh = reader[r].refresh
    BY <1>0, <1>1 DEF Fetching, Holding, Outcomes, Slots, Object
  <2>2. reader' = [reader EXCEPT ![r] = q] /\ reader[r].pc = "decide" /\ Usable(r)
        /\ UNCHANGED <<slots, minted, permits>>
    BY <1>2 DEF UseLease, Go, ReaderAt
  <2> HIDE DEF q
  <2>3. Renewed(q) => q.lease.id > q.stale.id
    BY <1>1, <2>1, <2>2 DEF Renewed, Usable, SourceInv, LeasesOrdered, NotBefore, NoSlot, Slots
  <2> QED BY <1>1, <2>1, <2>2, <2>3, MovesInside
<1>3. CASE JoinCall(r)
  <2> DEFINE q == [reader[r] EXCEPT !.pc = "waiting", !.leader = Held(r).inflight]
  <2>1. /\ q \in Fetching /\ q.pc = "waiting" /\ q.object = Object(r)
        /\ q.stale = reader[r].stale /\ q.lease = reader[r].lease /\ q.leader = Held(r).inflight
    BY <1>0, <1>1 DEF Fetching, Holding, Slots, Object
  <2>2. reader' = [reader EXCEPT ![r] = q] /\ reader[r].pc = "decide" /\ Held(r).inflight # NoReader
        /\ UNCHANGED <<slots, minted, permits>>
    BY <1>3 DEF JoinCall, Go, ReaderAt
  <2> HIDE DEF q
  <2>3. ~Renewed(q) BY <2>1 DEF Renewed
  <2> QED BY <1>1, <2>1, <2>2, <2>3, MovesInside
<1>4. CASE RefuseRefresh(r)
  <2> DEFINE q == [reader[r] EXCEPT !.pc = "unslot", !.outcome = "object"]
  <2>1. /\ q \in Fetching /\ q.pc = "unslot" /\ q.object = Object(r)
        /\ q.stale = reader[r].stale /\ q.lease = reader[r].lease /\ q.outcome = "object"
    BY <1>0 DEF Fetching, Holding, Outcomes, Object
  <2>2. reader' = [reader EXCEPT ![r] = q] /\ UNCHANGED <<slots, minted, permits>>
    BY <1>4 DEF RefuseRefresh, Go, ReaderAt
  <2> HIDE DEF q
  <2>3. ~Renewed(q) BY <2>1 DEF Renewed
  <2> QED BY <1>0, <2>1, <2>2, <2>3, MovesInside
<1>5. CASE WaitTimesOut(r)
  <2> DEFINE q == [reader[r] EXCEPT !.pc = "unslot", !.outcome = "deadline", !.leader = NoReader]
  <2>1. /\ q \in Fetching /\ q.pc = "unslot" /\ q.object = Object(r)
        /\ q.stale = reader[r].stale /\ q.lease = reader[r].lease /\ q.outcome = "deadline"
    BY <1>0 DEF Fetching, Holding, Outcomes, Object
  <2>2. reader' = [reader EXCEPT ![r] = q] /\ UNCHANGED <<slots, minted, permits>>
    BY <1>5 DEF WaitTimesOut, Go, ReaderAt
  <2> HIDE DEF q
  <2>3. ~Renewed(q) BY <2>1 DEF Renewed
  <2> QED BY <1>0, <2>1, <2>2, <2>3, MovesInside
<1> QED BY <1>2, <1>3, <1>4, <1>5

\* A block fetch that starts, tries again, goes over to another source or ends.
FreshFetch(q) ==
    /\ q \in Fetching /\ q.pc \in {"idle", "begin"}
    /\ q.pc # "idle" => q.object \in Objects
    /\ q.lease = NoLease /\ q.stale = NoLease /\ ~q.refresh

LEMMA NoFetchIsTyped == NoFetch \in Fetching /\ FreshFetch(NoFetch)
<1>1. NoLease \in Leases BY DEF NoLease, Leases
<1>2. NoFetch \in Fetching BY <1>1 DEF NoFetch, Fetching, Elsewhere
<1>3. /\ NoFetch.pc = "idle" /\ NoFetch.lease = NoLease /\ NoFetch.stale = NoLease
      /\ ~NoFetch.refresh
  BY DEF NoFetch
<1> QED BY <1>2, <1>3 DEF FreshFetch

LEMMA FreshIsTyped ==
    ASSUME NEW o \in Objects, NEW more \in SUBSET Objects, NEW n \in Nat
    PROVE  FreshFetch([NoFetch EXCEPT !.pc = "begin", !.object = o, !.todo = more,
                                      !.attempt = n])
<1> DEFINE q == [NoFetch EXCEPT !.pc = "begin", !.object = o, !.todo = more, !.attempt = n]
<1>1. q \in Fetching BY NoFetchIsTyped DEF Fetching, Elsewhere
<1>2. /\ q.pc = "begin" /\ q.object = o /\ q.lease = NoLease /\ q.stale = NoLease
      /\ ~q.refresh
  BY DEF NoFetch
<1>3. FreshFetch(q)
  <2> HIDE DEF q
  <2> QED BY <1>1, <1>2 DEF FreshFetch
<1> QED BY <1>3

LEMMA BeginsAfresh ==
    ASSUME SourceInv, NEW r \in Readers, NEW q, FreshFetch(q),
           reader' = [reader EXCEPT ![r] = q], reader[r].pc \in {"idle", "begin", "record"},
           UNCHANGED <<slots, minted, permits>>
    PROVE  SourceInv'
<1>1. reader'[r] = q /\ \A x \in Readers \ {r} : reader'[x] = reader[x]
  BY DEF SourceInv, SourceTypeOK
<1>2. PermitsExact' BY <1>1, PermitsStay DEF FreshFetch, SourceInv
<1> QED BY <1>2, MovesOutside DEF FreshFetch, Holding, SourceInv, SourceTypeOK

LEMMA Continues ==
    ASSUME SourceInv, NEW r \in Readers, NEW outcome, Continue(r, outcome),
           reader[r].pc \in {"begin", "record"}, UNCHANGED <<slots, minted, permits>>
    PROVE  SourceInv'
<1> DEFINE old == reader[r]
           Begins(o, more, n) ==
              [NoFetch EXCEPT !.pc = "begin", !.object = o, !.todo = more, !.attempt = n]
<1>1. old.object \in Objects /\ old.todo \in SUBSET Objects /\ old.attempt + 1 \in Nat
  <2>1. old \in Fetching /\ old.object \in Objects BY DEF SourceInv, SourceTypeOK, Object
  <2> QED BY <2>1 DEF Fetching
<1>2. PICK q \in After(old, outcome) : reader' = [reader EXCEPT ![r] = q]
  BY DEF Continue, Go
<1>3. \/ q = NoFetch
      \/ q = Begins(old.object, old.todo, old.attempt + 1)
      \/ \E o \in old.todo : q = Begins(o, old.todo \ {o}, 1)
  <2> DEFINE begin == [NoFetch EXCEPT !.pc = "begin", !.object = old.object, !.todo = old.todo]
             onward == {[begin EXCEPT !.object = o, !.todo = @ \ {o}, !.attempt = 1] :
                           o \in old.todo}
  <2>1. [begin EXCEPT !.attempt = old.attempt + 1]
           = Begins(old.object, old.todo, old.attempt + 1)
    BY DEF NoFetch
  <2>2. \A o : [begin EXCEPT !.object = o, !.todo = @ \ {o}, !.attempt = 1]
                 = Begins(o, old.todo \ {o}, 1)
    BY DEF NoFetch
  <2>3. q = NoFetch \/ q = [begin EXCEPT !.attempt = old.attempt + 1] \/ q \in onward
    BY <1>2 DEF After
  <2> HIDE DEF begin, Begins
  <2> QED BY <2>1, <2>2, <2>3
<1>4. FreshFetch(q)
  <2>1. \A o \in old.todo : FreshFetch(Begins(o, old.todo \ {o}, 1))
    <3> SUFFICES ASSUME NEW o \in old.todo PROVE FreshFetch(Begins(o, old.todo \ {o}, 1))
      OBVIOUS
    <3>1. o \in Objects /\ old.todo \ {o} \in SUBSET Objects BY <1>1
    <3> QED BY <3>1, FreshIsTyped
  <2>2. FreshFetch(Begins(old.object, old.todo, old.attempt + 1)) BY <1>1, FreshIsTyped
  <2> HIDE DEF Begins
  <2> QED BY <1>3, <2>1, <2>2, NoFetchIsTyped
<1> QED BY <1>2, <1>4, BeginsAfresh

LEMMA Starts ==
    ASSUME SourceInv, NEW r \in Readers, StartFetch(r)
    PROVE  SourceInv'
<1>1. PICK o \in Objects : \E proven \in SUBSET (Objects \ {o}) :
         reader' = [reader EXCEPT ![r] = [NoFetch EXCEPT !.pc = "begin", !.object = o,
                                                         !.todo = proven, !.attempt = 1]]
  BY DEF StartFetch, Go
<1>2. PICK proven \in SUBSET (Objects \ {o}) :
         reader' = [reader EXCEPT ![r] = [NoFetch EXCEPT !.pc = "begin", !.object = o,
                                                         !.todo = proven, !.attempt = 1]]
  BY <1>1
<1>3. FreshFetch([NoFetch EXCEPT !.pc = "begin", !.object = o, !.todo = proven, !.attempt = 1])
  <2>1. proven \in SUBSET Objects /\ 1 \in Nat OBVIOUS
  <2> QED BY <2>1, FreshIsTyped
<1>4. reader[r].pc = "idle" /\ UNCHANGED <<slots, minted, permits>>
  BY DEF StartFetch, ReaderAt
<1> QED BY <1>2, <1>3, <1>4, BeginsAfresh

\* The breaker lets the fetch through, or refuses it.
LEMMA Allows ==
    ASSUME SourceInv, NEW r \in Readers, BreakerAllow(r)
    PROVE  SourceInv'
<1>1. reader[r].pc = "begin" /\ UNCHANGED <<slots, minted, permits>>
  BY DEF BreakerAllow, ReaderAt
<1>2. CASE Continue(r, "object") BY <1>1, <1>2, Continues
<1>3. CASE Go(r, [reader[r] EXCEPT !.pc = "acquire"])
  <2> DEFINE q == [reader[r] EXCEPT !.pc = "acquire"]
  <2>1. /\ q \in Fetching /\ q.pc = "acquire" /\ q.object = Object(r)
        /\ q.lease = reader[r].lease /\ q.stale = reader[r].stale
    BY DEF SourceInv, SourceTypeOK, Fetching, Elsewhere, Object
  <2>2. reader' = [reader EXCEPT ![r] = q] BY <1>3 DEF Go
  <2>3. Object(r) \in Objects BY <1>1 DEF SourceInv, SourceTypeOK
  <2> HIDE DEF q
  <2>4. ~Renewed(q) BY <2>1 DEF Renewed
  <2>5. PermitsExact'
    <3>1. reader'[r] = q /\ \A x \in Readers \ {r} : reader'[x] = reader[x]
      BY <2>2 DEF SourceInv, SourceTypeOK
    <3> QED BY <1>1, <2>1, <3>1, PermitsStay DEF SourceInv
  <2> QED BY <1>1, <2>1, <2>2, <2>3, <2>4, <2>5, MovesOutside
          DEF Holding, SourceInv, SourceTypeOK
<1> QED BY <1>2, <1>3 DEF BreakerAllow

LEMMA KeepsAccount ==
    ASSUME SourceInv, NEW r \in Readers, Record(r)
    PROVE  SourceInv'
<1>1. reader[r].pc = "record" /\ Continue(r, reader[r].outcome)
      /\ UNCHANGED <<slots, minted, permits>>
  BY DEF Record, ReaderAt
<1> QED BY <1>1, Continues

\* A fetch that has ended forgets its leases.
LEMMA EndedIsTyped ==
    ASSUME SourceInv, NEW r \in Readers, NEW outcome \in Outcomes, reader[r].pc # "idle"
    PROVE  /\ Ended(r, outcome) \in Fetching /\ Ended(r, outcome).pc = "record"
           /\ Ended(r, outcome).object \in Objects
           /\ Ended(r, outcome).lease = NoLease /\ Ended(r, outcome).stale = NoLease
           /\ ~Ended(r, outcome).refresh
<1>1. NoLease \in Leases BY DEF NoLease, Leases
<1>2. reader[r] \in Fetching /\ reader[r].object \in Objects
  BY DEF SourceInv, SourceTypeOK, Object
<1> QED BY <1>1, <1>2 DEF Ended, Fetching, Elsewhere

\* A reader takes and gives back permits, and holds no slot.
LEMMA Permits ==
    ASSUME SourceInv, NEW r \in Readers, NEW q \in Fetching,
           reader' = [reader EXCEPT ![r] = q], reader[r].pc \in {"queue", "permitted", "sending"},
           q.pc \in {"acquire", "permitted", "sending", "record"}, q.object \in Objects,
           \/ q.lease = NoLease /\ q.stale = NoLease /\ ~q.refresh
           \/ /\ q.object = Object(r) /\ q.lease = reader[r].lease /\ q.stale = reader[r].stale
              /\ q.refresh = reader[r].refresh
           \/ /\ q.object = Object(r) /\ q.lease = NoLease /\ q.stale = reader[r].lease
              /\ q.pc = "acquire",
           UNCHANGED <<slots, minted>>,
           permits' = [endpoint |-> permits.endpoint
                          + (IF q.pc \in {"permitted", "sending"} THEN 1 ELSE 0)
                          - (IF reader[r].pc \in {"permitted", "sending"} THEN 1 ELSE 0),
                       global |-> permits.global + (IF q.pc = "sending" THEN 1 ELSE 0)
                                     - (IF reader[r].pc = "sending" THEN 1 ELSE 0)],
           permits'.endpoint <= PerEndpoint, permits'.global <= Global
    PROVE  SourceInv'
<1>1. permits' \in [endpoint : Int, global : Int] BY DEF SourceInv, SourceTypeOK
<1>2. PermitsExact'
  <2>1. /\ permits'.endpoint = permits.endpoint
              + (IF q.pc \in {"permitted", "sending"} THEN 1 ELSE 0)
              - (IF reader[r].pc \in {"permitted", "sending"} THEN 1 ELSE 0)
        /\ permits'.global = permits.global + (IF q.pc = "sending" THEN 1 ELSE 0)
                                            - (IF reader[r].pc = "sending" THEN 1 ELSE 0)
    OBVIOUS
  <2> QED BY <2>1, PermitsAfter DEF SourceInv
<1>3. q.pc \notin Holding /\ reader[r].pc \notin Holding BY DEF Holding
<1>4. /\ q.object = Object(r) /\ q.lease = reader[r].lease /\ q.stale = reader[r].stale
      /\ q.refresh = reader[r].refresh
      => (Renewed(q) => Renewed(reader[r]))
  BY DEF Renewed
<1> QED BY <1>1, <1>2, <1>3, <1>4, MovesOutside

LEMMA Queues ==
    ASSUME SourceInv, NEW r \in Readers, TakeEndpointPermit(r) \/ TakeGlobalPermit(r)
    PROVE  SourceInv'
<1>0. /\ permits \in [endpoint : Int, global : Int] /\ reader[r] \in Fetching
      /\ permits.endpoint <= PerEndpoint /\ permits.global <= Global
      /\ PerEndpoint \in Nat /\ Global \in Nat
  BY SourceAssumption DEF SourceInv, SourceTypeOK, PermitsExact
<1>1. CASE TakeEndpointPermit(r)
  <2> DEFINE q == [reader[r] EXCEPT !.pc = "permitted"]
  <2>1. /\ reader[r].pc = "queue" /\ permits.endpoint < PerEndpoint
        /\ permits' = [permits EXCEPT !.endpoint = @ + 1]
        /\ reader' = [reader EXCEPT ![r] = q] /\ UNCHANGED <<slots, minted>>
    BY <1>1 DEF TakeEndpointPermit, ReaderAt, Go
  <2>2. /\ q \in Fetching /\ q.pc = "permitted" /\ q.object = Object(r)
        /\ q.lease = reader[r].lease /\ q.stale = reader[r].stale
        /\ q.refresh = reader[r].refresh
    BY <1>0 DEF Fetching, Elsewhere, Object
  <2>3. q.object \in Objects BY <2>1, <2>2 DEF SourceInv, SourceTypeOK
  <2> HIDE DEF q
  <2>4. /\ permits' = [endpoint |-> permits.endpoint + 1 - 0, global |-> permits.global + 0 - 0]
        /\ permits'.endpoint <= PerEndpoint /\ permits'.global <= Global
    BY <1>0, <2>1
  <2> QED BY <2>1, <2>2, <2>3, <2>4, Permits
<1>2. CASE TakeGlobalPermit(r)
  <2> DEFINE q == [reader[r] EXCEPT !.pc = "sending"]
  <2>1. /\ reader[r].pc = "permitted" /\ permits.global < Global
        /\ permits' = [permits EXCEPT !.global = @ + 1]
        /\ reader' = [reader EXCEPT ![r] = q] /\ UNCHANGED <<slots, minted>>
    BY <1>2 DEF TakeGlobalPermit, ReaderAt, Go
  <2>2. /\ q \in Fetching /\ q.pc = "sending" /\ q.object = Object(r)
        /\ q.lease = reader[r].lease /\ q.stale = reader[r].stale
        /\ q.refresh = reader[r].refresh
    BY <1>0 DEF Fetching, Elsewhere, Object
  <2>3. q.object \in Objects BY <2>1, <2>2 DEF SourceInv, SourceTypeOK
  <2> HIDE DEF q
  <2>4. /\ permits' = [endpoint |-> permits.endpoint + 1 - 1, global |-> permits.global + 1 - 0]
        /\ permits'.endpoint <= PerEndpoint /\ permits'.global <= Global
    BY <1>0, <2>1
  <2> QED BY <2>1, <2>2, <2>3, <2>4, Permits
<1> QED BY <1>1, <1>2

LEMMA TimesOut ==
    ASSUME SourceInv, NEW r \in Readers, QueueTimesOut(r)
    PROVE  SourceInv'
<1>0. /\ permits \in [endpoint : Int, global : Int]
      /\ permits.endpoint <= PerEndpoint /\ permits.global <= Global
      /\ PerEndpoint \in Nat /\ Global \in Nat
  BY SourceAssumption DEF SourceInv, SourceTypeOK, PermitsExact
<1> DEFINE q == Ended(r, "object")
<1>1. /\ reader' = [reader EXCEPT ![r] = q] /\ UNCHANGED <<slots, minted>>
      /\ \/ reader[r].pc = "queue" /\ permits' = permits
         \/ reader[r].pc = "permitted" /\ permits' = [permits EXCEPT !.endpoint = @ - 1]
  BY DEF QueueTimesOut, ReaderAt, Go
<1>2. /\ q \in Fetching /\ q.pc = "record" /\ q.object \in Objects
      /\ q.lease = NoLease /\ q.stale = NoLease /\ ~q.refresh
  BY <1>1, EndedIsTyped DEF Outcomes
<1> HIDE DEF q
<1>3. /\ permits' = [endpoint |-> permits.endpoint + 0
                                    - (IF reader[r].pc = "permitted" THEN 1 ELSE 0),
                     global |-> permits.global + 0 - 0]
      /\ permits'.endpoint <= PerEndpoint /\ permits'.global <= Global
  BY <1>0, <1>1
<1> QED BY <1>1, <1>2, <1>3, Permits

LEMMA AttemptOver ==
    ASSUME SourceInv, NEW r \in Readers, AttemptEnds(r)
    PROVE  SourceInv'
<1>0. /\ permits \in [endpoint : Int, global : Int] /\ reader[r] \in Fetching
      /\ permits.endpoint <= PerEndpoint /\ permits.global <= Global
      /\ PerEndpoint \in Nat /\ Global \in Nat
  BY SourceAssumption DEF SourceInv, SourceTypeOK, PermitsExact
<1>1. /\ reader[r].pc = "sending" /\ UNCHANGED <<slots, minted>>
      /\ permits' = [endpoint |-> permits.endpoint - 1, global |-> permits.global - 1]
  BY DEF AttemptEnds, ReaderAt
<1>2. /\ permits' = [endpoint |-> permits.endpoint + 0 - 1, global |-> permits.global + 0 - 1]
      /\ permits'.endpoint <= PerEndpoint /\ permits'.global <= Global
  BY <1>0, <1>1
<1>3. Object(r) \in Objects BY <1>1 DEF SourceInv, SourceTypeOK
<1> DEFINE again == [reader[r] EXCEPT !.pc = "acquire", !.refresh = TRUE,
                                      !.stale = reader[r].lease, !.lease = NoLease]
<1>4. \/ reader' = [reader EXCEPT ![r] = again]
      \/ \E outcome \in Outcomes : reader' = [reader EXCEPT ![r] = Ended(r, outcome)]
  BY DEF AttemptEnds, Go, Outcomes
<1>5. CASE reader' = [reader EXCEPT ![r] = again]
  <2>1. /\ again \in Fetching /\ again.pc = "acquire" /\ again.object = Object(r)
        /\ again.lease = NoLease /\ again.stale = reader[r].lease
    BY <1>0 DEF Fetching, Elsewhere, Object, NoLease, Leases
  <2> HIDE DEF again
  <2> QED BY <1>1, <1>2, <1>3, <1>5, <2>1, Permits
<1>6. ASSUME NEW outcome \in Outcomes, reader' = [reader EXCEPT ![r] = Ended(r, outcome)]
      PROVE  SourceInv'
  BY <1>1, <1>2, <1>6, EndedIsTyped, Permits
<1> QED BY <1>4, <1>5, <1>6

LEMMA NextSource == SourceInv /\ [SourceNext]_srcVars => SourceInv'
<1> SUFFICES ASSUME SourceInv, [SourceNext]_srcVars PROVE SourceInv' OBVIOUS
<1>1. CASE UNCHANGED srcVars BY <1>1, StandsStill DEF srcVars
<1>2. CASE BreakerTime BY <1>2, StandsStill DEF BreakerTime
<1>3. CASE LeaseTime BY <1>3, TimePasses
<1>4. ASSUME NEW r \in Readers,
             StartFetch(r) \/ GoesOn(r) \/ WaitTimesOut(r) \/ QueueTimesOut(r)
      PROVE  SourceInv'
  <2>1. CASE StartFetch(r) BY <2>1, Starts
  <2>2. CASE WaitTimesOut(r) BY <2>2, Decides
  <2>3. CASE QueueTimesOut(r) BY <2>3, TimesOut
  <2>4. CASE BreakerAllow(r) BY <2>4, Allows
  <2>5. CASE Record(r) BY <2>5, KeepsAccount
  <2>6. CASE Lease(r)
    BY <2>6, Acquires, Decides, Resolves, CallSucceeds, CallFails, LetsGo DEF Lease
  <2>7. CASE Attempt(r) BY <2>7, Queues, AttemptOver DEF Attempt
  <2> QED BY <1>4, <2>1, <2>2, <2>3, <2>4, <2>5, <2>6, <2>7 DEF GoesOn
<1> QED BY <1>1, <1>2, <1>3, <1>4 DEF SourceNext

\* Every slot counts those who hold it and shows the one call made for it, leases of an
\* object are resolved in the order of their generations, and permits are exact.
THEOREM SourceInductive == SourceSpec => []SourceInv
BY InitSource, NextSource, PTL DEF SourceSpec

\* However many readers want one object, one resolution of it is in flight, those who wait
\* wait for that one, and no slot that somebody holds is evicted.
THEOREM ResolutionSound == SourceSpec => []SingleResolution
<1>1. ASSUME SourceInv PROVE SingleResolution
  <2>1. ASSUME NEW r \in Readers, NEW s \in Readers, ReaderAt(r, "resolving"),
               ReaderAt(s, "resolving"), Object(r) = Object(s)
        PROVE  r = s
    BY <1>1, <2>1 DEF SourceInv, CallsShown
  <2>2. \A r \in Readers : ReaderAt(r, "waiting") =>
          ReaderAt(reader[r].leader, "resolving") /\ Object(reader[r].leader) = Object(r)
    BY <1>1 DEF SourceInv, CallsShown
  <2>3. \A o \in Objects :
          IF slots[o] = NoSlot THEN Cardinality(Holders(o)) = 0
          ELSE slots[o].active = Cardinality(Holders(o))
    BY <1>1 DEF SourceInv, SlotsCounted
  <2>4. Cardinality(Present) > MaxSlots => Inactive(slots) = {}
    BY <1>1 DEF SourceInv, SlotsCounted
  <2> QED BY <2>1, <2>2, <2>3, <2>4 DEF SingleResolution, Holders
<1> QED BY <1>1, SourceInductive, PTL

\* A request that is repeated after a refusal carries a lease resolved after the refused
\* one, also when the slot was evicted and made anew in between.
THEOREM RefreshSound == SourceSpec => []RefreshIsNew
<1>1. SourceInv => RefreshIsNew BY DEF SourceInv, LeasesOrdered, RefreshIsNew, Renewed
<1> QED BY <1>1, SourceInductive, PTL

\* The permits taken are those of the readers about to send and sending, within both bounds.
THEOREM PermitsSound == SourceSpec => []PermitsExact
<1>1. SourceInv => PermitsExact BY DEF SourceInv
<1> QED BY <1>1, SourceInductive, PTL

=============================================================================
