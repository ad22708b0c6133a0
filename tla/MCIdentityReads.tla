-------------------------- MODULE MCIdentityReads --------------------------
(***************************************************************************)
(* Small instances of IdentityReads, and of CatalogAuthority under it, for *)
(* TLC.  A behaviour is one of three scenes, chosen in its initial state:  *)
(* two callers whose calls fail and lose replies; a reader beside one      *)
(* caller that also updates; and a reader beside one caller and a database *)
(* that is rolled back.                                                    *)
(***************************************************************************)
EXTENDS IdentityReads, FiniteSets, TLC

CONSTANTS Failures, Lost, Rollbacks, Updates,
          ReadKeys  \* bound: keys minted in a scene with a reader

MCBudget == [failures |-> Failures, lost |-> Lost, rollbacks |-> Rollbacks,
             updates |-> Updates]

VARIABLE scene

\* The interventions each scene may spend.
Spends == [callers |-> {"failures", "lost"}, updates |-> {"updates"},
           rollback |-> {"rollbacks"}]

ScenesInit == ReadsInit /\ scene \in DOMAIN Spends

OneCaller == \A b, c \in Clients : ~At(b, "idle") /\ ~At(c, "idle") => b = c
FewKeys == Cardinality({k \in Keys : keyState[k] # "not_found"}) <= ReadKeys

ScenesNext ==
    /\ ReadsNext
    /\ \A what \in DOMAIN Budget \ Spends[scene] : budget'[what] = budget[what]
    /\ scene = "callers" => rd' = NoRead
    /\ scene # "callers" => OneCaller' /\ FewKeys'
    /\ scene # "rollback" => backup' = backup
    /\ scene' = scene

ScenesSpec == ScenesInit /\ [][ScenesNext]_<<readVars, scene>>

\* Keys are minted by one action that takes any unused one, and callers are alike, so
\* permuting them maps behaviours to behaviours (used only for safety).
Symmetry == Permutations(Keys) \cup Permutations(Clients)
=============================================================================
