--------------------------- MODULE MCApiPipeline ---------------------------
EXTENDS ApiPipeline, TLC

\* The second and the third share a rule, the next has none; the stream and the last
\* have no route, and the last not even a method.
MCAsks == {[method |-> "GET", path |-> <<"auth", "login">>],
           [method |-> "PATCH", path |-> <<"guilds", "g", "settings">>],
           [method |-> "PATCH", path |-> <<"guilds", "h", "settings">>],
           [method |-> "GET", path |-> <<"guilds", "g", "modules">>],
           [method |-> "GET", path |-> <<"guilds", "g", "logs", "stream">>],
           [method |-> "TRACE", path |-> <<"me">>]}

Addresses == Permutations(Clients)
=============================================================================
