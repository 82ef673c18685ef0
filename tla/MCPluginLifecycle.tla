-------------------------- MODULE MCPluginLifecycle --------------------------
(* PluginLifecycle for a chain of three plugins.                              *)
EXTENDS PluginLifecycle

ChainRequires == [p \in Plugins |-> 1..(p - 1)]
ChainEvents   == [p \in Plugins |-> IF p = 3 THEN {1} ELSE {}]
SecondOptional == {2}
FirstAndLast  == {1, 3}
AllButLast    == Plugins \ {N}
=============================================================================
