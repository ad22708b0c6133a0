-------------------------- MODULE CatalogConstants --------------------------
(***************************************************************************)
(* The sets the key custodian and the database share.  Ids are uuids in    *)
(* the code: only their identity matters, so they are model values.        *)
(***************************************************************************)
EXTENDS Naturals

CONSTANTS
    Items,      \* catalog items
    Keys,       \* key ids the custodian may mint, one per provisioning
    ShredOps,   \* shred operation ids the database may generate
    NoItem,     \* "no item": the owner of a key that does not exist yet
    NoKey       \* SQL NULL in a key or ciphertext column

ASSUME NoItemAssumption == NoItem \notin Items
ASSUME NoKeyAssumption == NoKey \notin Keys
ASSUME ShredOpsAssumption == ShredOps \subseteq Nat \ {0}

=============================================================================
