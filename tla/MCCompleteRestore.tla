-------------------------- MODULE MCCompleteRestore --------------------------
(* CompleteRestore for TLC: an inline installation, and a sidecar one whose  *)
(* state directory is not there yet.                                         *)
EXTENDS CompleteRestore

MCShapes == {[custodian |-> mode, promotion |-> FALSE, held |-> {"secrets"}] :
                mode \in {"inline", "sidecar"}}

=============================================================================
