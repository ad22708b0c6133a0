------------------------------ MODULE MCDataPlane ------------------------------
(***************************************************************************)
(* Small instances of four parts of projectiond for TLC, side by side: a   *)
(* behaviour is one of one part, chosen in its initial state, and the other *)
(* parts stand still.  The parts share no state: a part's calls into the    *)
(* next return any of the answers the next can give.                        *)
(***************************************************************************)
EXTENDS ProjectedNamespace, BlockReads, ProbeCache, SourceAccess, TLC

CONSTANTS h1, h2

\* Every demand read is made on the first handle; the second one's prefetcher runs.
MCHandleOf == [d \in Demands |-> h1]

VARIABLE component

DataPlaneInit ==
    /\ NamespaceInit /\ BlockReadsInit /\ ProbeInit /\ SourceInit
    /\ component \in {"namespace", "windows", "chunks", "probe cache", "retries", "failover"}

NamespacePart ==
    /\ component = "namespace" /\ NamespaceNext
    /\ UNCHANGED <<readVars, probeVars, srcVars, component>>

\* The cases of the two caches apart: a read of a window and one of a chunk meet
\* only in their handle.
ReadPart ==
    /\ \/ component = "windows" /\ NextOn(Windows)
       \/ component = "chunks" /\ NextOn(Chunks)
    /\ UNCHANGED <<nsVars, probeVars, srcVars, component>>

ProbePart ==
    /\ component = "probe cache" /\ ProbeNext
    /\ UNCHANGED <<nsVars, readVars, srcVars, component>>

OneObject ==
    Cardinality(Present \union {Object(r) : r \in Readers} \union {NoObject}) <= 2

\* The two cases of a fetch that fails apart: it is tried again on its only source,
\* or goes over to another one.
SourcePart ==
    /\ SourceNext
    /\ \/ component = "retries" /\ OneObject' /\ \A r \in Readers : reader'[r].todo = {}
       \/ component = "failover" /\ \A r \in Readers : reader'[r].outcome # "retryable"
    /\ UNCHANGED <<nsVars, readVars, probeVars, component>>

DataPlaneNext == NamespacePart \/ ReadPart \/ ProbePart \/ SourcePart

DataPlaneSpec ==
    DataPlaneInit /\ [][DataPlaneNext]_<<nsVars, readVars, probeVars, srcVars, component>>

Symmetry == Permutations(Flights) \union Permutations(Readers) \union Permutations(Objects)

=============================================================================
