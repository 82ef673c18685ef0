------------------------- MODULE SequentialRequests -------------------------
(***************************************************************************)
(* ConfigService with the guilds remembered whose requests have come one at  *)
(* a time, with no reply of the database lost, since the process started: a   *)
(* dashboard that waits for its answers, and nobody else at work.             *)
(***************************************************************************)
EXTENDS ConfigService

VARIABLE alone   \* those guilds (history)

UnderWay(g) == {c \in Clients : op[c].guild = g}

OneAtMost(g) == \A c, d \in UnderWay(g) : c = d

SequentialInit == Init /\ alone = Guilds

SequentialNext ==
  /\ Next
  /\ alone' = IF Restart THEN Guilds
              ELSE {g \in alone : OneAtMost(g)' /\ ~\E c \in UnderWay(g) : ReplyLost(c)}

SequentialSpec == SequentialInit /\ [][SequentialNext]_<<vars, alone>> /\ Fairness

-----------------------------------------------------------------------------
(* Property *)

\* As long as the requests of a guild come one at a time, cache and announcements agree
\* with the store whenever none is in progress, whatever the other guilds' do and whatever
\* is refused or fails.  With two at once neither need: a late read answer puts an old
\* value back into the cache, and afterWrite may run in another order than the commits
\* (get, setMany and afterWrite, configuration.service.ts:26-65, 117-126, 171-178).
SettledWhenAlone ==
  \A g \in alone : UnderWay(g) = {} =>
    \A k \in Keys : /\ cache[g][k] \in {Uncached, db[g][k]}
                    /\ announced[g][k] \in {Uncached, db[g][k]}
=============================================================================
