------------------------------ MODULE MCCommands ------------------------------
(***************************************************************************)
(* Small instances, side by side, of two commands an operator or a timer     *)
(* runs beside a stack that serves: the collection passes, and the rotation  *)
(* of the key-encryption key with the backups.  A behaviour is one of one of *)
(* them, chosen in its initial state, and the other stands still: they share *)
(* no state.                                                               *)
(***************************************************************************)
EXTENDS CollectionOutbox, KekRotation, TLC

\* One record matches the first library item, any other that and one of its own.
MCLibraryOf == [i \in Items |-> IF i = CHOOSE j \in Items : TRUE THEN {1} ELSE {1, 2}]

\* A server that drops the markers shows every copy after the first as lost.
MCMaxCopies == [marked \in BOOLEAN |-> IF marked THEN 2 ELSE 1]

VARIABLE component

CommandsInit ==
    /\ CollectionInit /\ RotationInit
    /\ component \in {"collections", "rotation"}

InCollections(A) == component = "collections" /\ A /\ UNCHANGED <<rotVars, component>>
InRotation(A) == component = "rotation" /\ A /\ UNCHANGED <<collVars, component>>

CommandsNext == InCollections(CollectionNext) \/ InRotation(RotationNext)

CommandsSpec == CommandsInit /\ [][CommandsNext]_<<collVars, rotVars, component>>

Symmetry == Permutations(Passes) \union Permutations(KeyFiles)
=============================================================================
