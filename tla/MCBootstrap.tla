---------------------------- MODULE MCBootstrap ----------------------------
(* Every dependency graph over three plugins, each of which may also ask for one that is *)
(* not there; then catalogs with one flaw each; migrations in two releases.              *)
EXTENDS Bootstrap

Whichever == [op |-> "*", version |-> <<0, 0, 0>>]
Exactly(v) == [op |-> "^", version |-> v]
Dep(id) == [id |-> id, range |-> Whichever]
Command(n) == [name |-> n, aliases |-> {}]

Plugin(id, needs) ==
  [id |-> id, version |-> <<1, 2, 0>>, deps |-> {Dep(d) : d \in needs}, caps |-> {}, commands |-> <<>>,
   nav |-> id, migrations |-> <<>>]

Graphs3 == {<<Plugin(2, f[2]), Plugin(3, f[3]), Plugin(1, f[1])>> :
              f \in {g \in [1 .. 3 -> SUBSET (1 .. 4)] :
                       \A id \in 1 .. 3 : id \notin g[id] /\ Cardinality(g[id]) <= 2 /\ (4 \in g[id] => id = 3)}}

One == Plugin(1, {})
Two == Plugin(2, {1})

Flawed ==
  {<<One, One>>,
   <<[One EXCEPT !.caps = {"a"}], [Two EXCEPT !.caps = {"a", "b"}]>>,
   <<One, [Two EXCEPT !.deps = {[id |-> 1, range |-> Exactly(<<1, 3, 0>>)]}]>>,
   <<One, [Two EXCEPT !.deps = {[id |-> 1, range |-> Exactly(<<1, 1, 9>>)]}]>>,
   <<One, [Two EXCEPT !.nav = 1]>>,
   <<[One EXCEPT !.commands = <<Command("x")>>],
     [Two EXCEPT !.commands = <<[name |-> "y", aliases |-> {"x"}]>>]>>}

M1 == [namespace |-> 1, version |-> 1, checksum |-> "a"]
M2 == [namespace |-> 1, version |-> 2, checksum |-> "b"]
M2Edited == [M2 EXCEPT !.checksum = "c"]

Releases ==
  {<<[One EXCEPT !.migrations = <<M2, M1>>]>>, <<[One EXCEPT !.migrations = <<M1, M2Edited>>]>>,
   <<[One EXCEPT !.migrations = <<M1, M1>>]>>, <<[Two EXCEPT !.migrations = <<M1>>, !.deps = {}]>>}

Commanding == <<[One EXCEPT !.commands = <<Command("x")>>], Two>>

MCSetups ==
  {[catalog |-> c, plugins |-> TRUE, disabled |-> {}] : c \in Graphs3 \cup Flawed \cup Releases}
    \cup {[catalog |-> c, plugins |-> FALSE, disabled |-> {1}] : c \in {Commanding, <<Two, One>>}}
    \cup {[catalog |-> <<Two, One>>, plugins |-> TRUE, disabled |-> {1}]}
=============================================================================
