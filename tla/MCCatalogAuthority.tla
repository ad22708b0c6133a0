------------------------- MODULE MCCatalogAuthority -------------------------
(* Small instances of CatalogAuthority for TLC. *)
EXTENDS CatalogAuthority

CONSTANTS Failures, Lost, Rollbacks, Updates

MCBudget == [failures |-> Failures, lost |-> Lost, rollbacks |-> Rollbacks,
             updates |-> Updates]

\* What can be in the way of a recovery, beside a rollback: a failed call, a lost reply
\* or an update; not two of them in one behaviour.
Mishaps ==
    {[MCBudget EXCEPT !.lost = 0, !.updates = 0],
     [MCBudget EXCEPT !.failures = 0, !.updates = 0],
     [MCBudget EXCEPT !.failures = 0, !.lost = 0]}
RecoveryInit == AtRest /\ budget \in Mishaps
RecoverySpec == RecoveryInit /\ [][Next]_vars /\ Fairness
=============================================================================
