--------------------------- MODULE ModuleSwitches ---------------------------
(***************************************************************************)
(* What switching a guild's modules on and off promises: each request takes *)
(* effect at once or not at all, a module is switched on only when all it   *)
(* depends on is on, and switching one off switches off no more than what   *)
(* cannot stay on without it.                                               *)
(***************************************************************************)

CONSTANTS Modules, Dependencies

VARIABLE on

\* No module of S depends on one outside of it.
Closed(S) == \A m \in S : Dependencies[m] \subseteq S

SwitchOn(m) ==
  /\ Dependencies[m] \subseteq on
  /\ on' = on \cup {m}

\* What remains is the largest part of the others that needs no module outside.
SwitchOff(m) ==
  /\ on' \subseteq on \ {m}
  /\ Closed(on')
  /\ \A S \in SUBSET (on \ {m}) : Closed(S) => S \subseteq on'

Init == on = Modules
Next == \E m \in Modules : SwitchOn(m) \/ SwitchOff(m)

Spec == Init /\ [][Next]_on
=============================================================================
