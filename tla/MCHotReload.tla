--------------------------- MODULE MCHotReload ---------------------------
(* HotReload for one plugin: its owner-global scope 0, whose handler stops *)
(* when its signal is aborted, and a guild scope 1, whose handler does not.*)
EXTENDS HotReload

CONSTANTS volume, station

BothScopes == {0, 1}
GlobalOwner == [s \in Scopes |-> 0]
GlobalOnly == {0}
TwoKeys == {volume, station}
=============================================================================
