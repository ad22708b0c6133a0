---------------------- MODULE MCProjectionPublication ----------------------
(* Small instances of ProjectionPublication for TLC. *)
EXTENDS ProjectionPublication

CONSTANTS Edits, Deaths, Sessions, Stops, Files

MCBounds == [edits |-> Edits, deaths |-> Deaths, sessions |-> Sessions,
             stops |-> Stops, files |-> Files]

=============================================================================
