---------------------------- MODULE MCModuleStates ----------------------------
(* ModuleStates for a few modules and two dashboards. *)
EXTENDS ModuleStates, TLC

CONSTANTS anna, ben

TwoClients == {anna, ben}

\* The last module depends on the second, which depends on the first.
Chain == [m \in Modules |-> IF m = 1 THEN {} ELSE {m - 1}]
AllModules == Modules
EndsForBen == anna :> Modules @@ ben :> {1, N}
=============================================================================
