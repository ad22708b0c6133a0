--------------------------- MODULE ProjectedNamespace ---------------------------
(***************************************************************************)
(* The namespace of projectiond: the store of admitted generations         *)
(* (internal/namespace/store.go) below the file system the kernel talks to *)
(* (internal/fusefs/fusefs.go).                                            *)
(*                                                                         *)
(* A generation is a tree: what version of a file (and so what inode) each *)
(* path shows, and which paths are retiring.  A version may be shown at    *)
(* two paths: one inode with two names.  Requests of the kernel run beside *)
(* each other and beside the admission of the next generation; the locks   *)
(* of the store and of the file system cover one step each, never a        *)
(* request.                                                                *)
(***************************************************************************)
EXTENDS Integers, Sequences, FiniteSets

CONSTANTS
    Paths,           \* file paths of the namespace
    Versions,        \* projected versions, each with an inode of its own
    Requests,        \* kernel requests the file system serves at once
    NoVersion,       \* what a path shows when it is not in a tree
    MaxGenerations   \* bound: generations admitted in a behaviour

ASSUME NamespaceAssumption ==
    /\ NoVersion \notin Versions
    /\ IsFiniteSet(Requests) /\ MaxGenerations \in Nat

VARIABLES
    trees,      \* the generations admitted so far, oldest first
    refs,       \* Snapshot.refs of each generation
    retained,   \* Store.retained: generations held for their handles
    nodes,      \* FS.nodes: what the file system remembers of an inode
    dentry,     \* the inode the kernel has cached for a path
    request     \* the request each thread serves, and the handle it leaves

nsVars == <<trees, refs, retained, nodes, dentry, request>>

Generations == 1..MaxGenerations
Trees == [shows: [Paths -> Versions \union {NoVersion}], retiring: SUBSET Paths]
current == Len(trees)
Shown(g, p) == trees[g].shows[p]
Shows(g, p) == g > 0 /\ Shown(g, p) # NoVersion

NotRemembered == [path |-> NoVersion, gen |-> 0]
Idle == [pc |-> "idle", path |-> NoVersion, asked |-> NoVersion,
         version |-> NoVersion, gen |-> 0]

-----------------------------------------------------------------------------
(* Admission: Store.Admit is one critical section.  The first generation is *)
(* taken as it is; a later one follows the one before it, whose entries    *)
(* leave only if they were retiring.  A path whose entry left may show     *)
(* another version, in the same generation or later.                       *)

Follows(before, after) ==
    \A p \in Paths : before.shows[p] # NoVersion =>
        \/ after.shows[p] = before.shows[p]
        \/ p \in before.retiring

\* The swap: the new tree is pinned for being current, the old one loses that
\* pin and is kept only if a handle still holds it.
Swap(t) ==
    /\ trees' = Append(trees, t)
    /\ refs' = [g \in Generations |->
                  IF g = current + 1 THEN 1
                  ELSE IF g = current THEN refs[g] - 1 ELSE refs[g]]
    /\ retained' = retained \union {g \in {current} : g > 0 /\ refs[g] > 1}

Admit ==
    /\ current < MaxGenerations
    /\ \E t \in Trees :
        /\ \A p \in t.retiring : t.shows[p] # NoVersion
        /\ current > 0 => Follows(trees[current], t) /\ t # trees[current]
        /\ Swap(t)
    /\ UNCHANGED <<nodes, dentry, request>>

-----------------------------------------------------------------------------
(* The store's pins. *)

Alive(g) == g > 0 /\ (g = current \/ g \in retained)

Pin(g) == refs' = [refs EXCEPT ![g] = @ + 1]

\* Slip: a release that forgets to reclaim.
UnpinOnly(g) ==
    /\ refs' = [refs EXCEPT ![g] = @ - 1]
    /\ UNCHANGED retained

\* Release: the last pin of a generation that is not current reclaims it.
Unpin(g) ==
    /\ refs' = [refs EXCEPT ![g] = @ - 1]
    /\ retained' = IF refs[g] > 1 \/ g = current THEN retained ELSE retained \ {g}

-----------------------------------------------------------------------------
(* Requests.  Each step is what a handler does under one lock, or between  *)
(* two of them.                                                            *)

Step(r, changed) == request' = [request EXCEPT ![r] = changed]
At(r, pc) == request[r].pc = pc

\* Lookup and ReadDirPlus: the tree that was current when the parent was
\* resolved is the one the child and its snapshot come from.
LookupResolve(r, p) ==
    /\ At(r, "idle") /\ Shows(current, p)
    /\ Step(r, [Idle EXCEPT !.pc = "found", !.path = p, !.gen = current,
                            !.version = Shown(current, p)])
    /\ UNCHANGED <<trees, refs, retained, nodes, dentry>>

\* A path that is not in the current tree: ENOENT, and nothing is remembered.
LookupAbsent(r, p) ==
    /\ At(r, "idle") /\ ~Shows(current, p)
    /\ UNCHANGED nsVars

\* remember, and the reply: an inode is remembered under the path it was last
\* looked up by.
LookupRemember(r) ==
    LET q == request[r] IN
    /\ At(r, "found")
    /\ nodes' = [nodes EXCEPT ![q.version] = [path |-> q.path, gen |-> q.gen]]
    /\ dentry' = [dentry EXCEPT ![q.path] = q.version]
    /\ Step(r, Idle)
    /\ UNCHANGED <<trees, refs, retained>>

\* The kernel drops a cached name (its timeout passes), and an inode that no
\* name, handle or request of its uses any more: Forget with all its lookups.
Expire(p) ==
    /\ dentry[p] # NoVersion
    /\ dentry' = [dentry EXCEPT ![p] = NoVersion]
    /\ UNCHANGED <<trees, refs, retained, nodes, request>>

Forget(v) ==
    /\ nodes[v] # NotRemembered
    /\ \A p \in Paths : dentry[p] # v
    /\ \A r \in Requests : v \notin {request[r].asked, request[r].version}
    /\ nodes' = [nodes EXCEPT ![v] = NotRemembered]
    /\ UNCHANGED <<trees, refs, retained, dentry, request>>

\* Open, resolve: the remembered path in the current tree if it still shows
\* this inode there, and else what was remembered.
OpenResolve(r, p) ==
    LET v == dentry[p] IN
    /\ At(r, "idle") /\ v # NoVersion
    /\ LET still == Shown(current, nodes[v].path) = v
       IN  Step(r, [pc |-> "resolved", path |-> p, asked |-> v, version |-> v,
                    gen |-> IF still THEN current ELSE nodes[v].gen])
    /\ UNCHANGED <<trees, refs, retained, nodes, dentry>>

\* Slip: pin what is current, whatever the node came from.
OpenPinCurrent(r) ==
    LET q == request[r] IN
    /\ At(r, "resolved")
    /\ Pin(current)
    /\ Step(r, [q EXCEPT !.pc = "pinned", !.gen = current])
    /\ UNCHANGED <<trees, retained, nodes, dentry>>

\* AcquirePinned(snap).
OpenPin(r) ==
    LET q == request[r] IN
    /\ At(r, "resolved")
    /\ IF Alive(q.gen)
       THEN Pin(q.gen) /\ Step(r, [q EXCEPT !.pc = "pinned"])
       ELSE Step(r, [q EXCEPT !.pc = "reclaimed"]) /\ UNCHANGED refs
    /\ UNCHANGED <<trees, retained, nodes, dentry>>

\* The generation is gone: look the remembered path up in the current tree.
OpenRefresh(r) ==
    LET q == request[r]
        path == nodes[q.asked].path
    IN
    /\ At(r, "reclaimed")
    /\ Step(r, IF Shows(current, path)
               THEN [q EXCEPT !.pc = "refreshed", !.gen = current,
                              !.version = Shown(current, path)]
               ELSE [q EXCEPT !.pc = "enoent"])
    /\ UNCHANGED <<trees, refs, retained, nodes, dentry>>

OpenPinAgain(r) ==
    LET q == request[r] IN
    /\ At(r, "refreshed")
    /\ IF Alive(q.gen)
       THEN Pin(q.gen) /\ Step(r, [q EXCEPT !.pc = "pinned"])
       ELSE Step(r, [q EXCEPT !.pc = "enoent"]) /\ UNCHANGED refs
    /\ UNCHANGED <<trees, retained, nodes, dentry>>

\* Reader.Open binds the handle to the entry, or fails and the pin goes back.
OpenHandle(r) ==
    /\ At(r, "pinned")
    /\ Step(r, [request[r] EXCEPT !.pc = "open"])
    /\ UNCHANGED <<trees, refs, retained, nodes, dentry>>

OpenFails(r) ==
    /\ At(r, "pinned")
    /\ Unpin(request[r].gen)
    /\ Step(r, Idle)
    /\ UNCHANGED <<trees, nodes, dentry>>

Answered(r) ==
    /\ At(r, "enoent")
    /\ Step(r, Idle)
    /\ UNCHANGED <<trees, refs, retained, nodes, dentry>>

\* Release: the handle leaves the table and its reader is released, then the pin.
Close(r) ==
    /\ At(r, "open")
    /\ Step(r, [request[r] EXCEPT !.pc = "closed"])
    /\ UNCHANGED <<trees, refs, retained, nodes, dentry>>

CloseUnpin(r) ==
    /\ At(r, "closed")
    /\ Unpin(request[r].gen)
    /\ Step(r, Idle)
    /\ UNCHANGED <<trees, nodes, dentry>>

-----------------------------------------------------------------------------
NamespaceInit ==
    /\ trees = << >>
    /\ refs = [g \in Generations |-> 0]
    /\ retained = {}
    /\ nodes = [v \in Versions |-> NotRemembered]
    /\ dentry = [p \in Paths |-> NoVersion]
    /\ request = [r \in Requests |-> Idle]

Lookup(r) == LookupRemember(r) \/ \E p \in Paths : LookupResolve(r, p) \/ LookupAbsent(r, p)
Open(r) ==
    \/ \E p \in Paths : OpenResolve(r, p)
    \/ OpenPin(r) \/ OpenRefresh(r) \/ OpenPinAgain(r)
    \/ OpenHandle(r) \/ OpenFails(r) \/ Answered(r)
Release(r) == Close(r) \/ CloseUnpin(r)

NamespaceNext ==
    \/ Admit
    \/ \E p \in Paths : Expire(p)
    \/ \E v \in Versions : Forget(v)
    \/ \E r \in Requests : Lookup(r) \/ Open(r) \/ Release(r)

NamespaceSpec == NamespaceInit /\ [][NamespaceNext]_nsVars

-----------------------------------------------------------------------------
Pinning == {"pinned", "open", "closed"}
Pins(g) == Cardinality({r \in Requests : request[r].pc \in Pinning /\ request[r].gen = g})

\* The count of a generation is what pins it (being current, and each handle
\* open on it or on its way), and exactly the older generations somebody pins
\* are kept: none is reclaimed under a reader, none is kept for nobody.
\* (store.go, Store.)
PinsExact ==
    /\ \A g \in Generations : refs[g] = Pins(g) + (IF g = current THEN 1 ELSE 0)
    /\ retained = {g \in 1..(current - 1) : Pins(g) > 0}

\* An open handle reads a version that the generation it pins does show, however
\* many generations were admitted between the lookup and the open.  (store.go,
\* AcquirePinned; fusefs.go, nodeRef.)
HandleOfItsGeneration ==
    \A r \in Requests : At(r, "open") =>
        \E p \in Paths : Shown(request[r].gen, p) = request[r].version

=============================================================================
