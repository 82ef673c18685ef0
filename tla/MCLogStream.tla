---------------------------- MODULE MCLogStream ----------------------------
(* Two guilds, three entries in a ring of two, one entry to a page, lists with room for *)
(* all that is written, two streams, two loads, and one thing the user does besides      *)
(* paging.  A ring that has moved on drops the cursor of the next page: lists of up to   *)
(* three entries that started over from the newest are judged.                           *)
EXTENDS LogStream

\* States alike but for the slot a load or a stream lies in count as one: a slot is only
\* picked for being free, and of the streams only the present one is named.
SlotsAside ==
  <<ring, count, [page EXCEPT !.conn = IF @ = 0 THEN NoConn ELSE conns[@]],
    {conns[c] : c \in 1 .. MaxConns \ {page.conn}}, {loads[s] : s \in Slots}, uses>>
=============================================================================
