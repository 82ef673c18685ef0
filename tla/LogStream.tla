----------------------------- MODULE LogStream -----------------------------
(***************************************************************************)
(* The dashboard's log viewer, end to end: the ring of the LogsService, its   *)
(* paged query, the event stream the HTTP server opens for a guild, and the   *)
(* Logs page, which loads pages, follows the stream live, pauses it, changes  *)
(* guild or history size and merges what arrives late.                        *)
(*                                                                          *)
(* Entries are numbered in the order they are written, as their ids are.      *)
(* Filters other than the guild only select entries and are left out.         *)
(***************************************************************************)
EXTENDS Naturals, Sequences, SequencesExt, Subsequences

CONSTANTS
  Guilds,       \* the guilds the page may show
  Capacity,     \* entries the ring holds, of all guilds together
  Limit,        \* entries a query returns at most
  MaxRendered,  \* MAX_RENDERED_LOGS
  MaxEntries,   \* bound on the entries written
  MaxConns,     \* bound on the streams at a time
  MaxUses,      \* bound on what the user does, asking for the next page excepted
  MaxLoads      \* loads that may be under way at once

ASSUME LogStreamAssumption ==
  /\ Capacity \in Nat \ {0} /\ Limit \in Nat \ {0} /\ MaxRendered \in Nat \ {0}
  /\ MaxConns \in Nat \ {0} /\ MaxLoads \in Nat \ {0}
  /\ MaxEntries \in Nat /\ MaxUses \in Nat
  /\ Guilds # {}

VARIABLES
  ring,   \* LogsService.entries: [id, guild], oldest first
  count,  \* LogsService.sequence
  conns,  \* the streams: the server's side and what is on its way to the page
  page,
  loads,  \* per slot: a query under way
  uses    \* how often the user did something

viewerVars == <<ring, count, conns, page, loads, uses>>

Slots == 1 .. MaxLoads

NoConn == [at |-> "none", guild |-> "none", open |-> FALSE, queue |-> <<>>]
NoLoad == [at |-> "none", gen |-> 0, guild |-> "none", cursor |-> 0, logs |-> <<>>, next |-> 0]

Asked(p, cursor) == [NoLoad EXCEPT !.at = "sent", !.gen = p.gen, !.guild = p.guild,
                                  !.cursor = cursor]

\* next: nextCursor, 0 without one.  conn: the present EventSource, 0 without one;
\* streamGen: its streamGeneration.
\* fresh (history): the number of the last entry when the stream was subscribed or a
\* first page replaced the list.
\* mixed (history): the list is not made of pages alone, loaded one after the other.
Stream(g) == [NoConn EXCEPT !.at = "lookup", !.guild = g, !.open = TRUE]

\* The page has just been opened, and may have been switched to live mode and paused.
ViewerInit ==
  /\ ring = <<>> /\ count = 0 /\ uses = 0
  /\ \E live, paused \in BOOLEAN : LET g == CHOOSE h \in Guilds : TRUE IN
       /\ paused => live
       /\ page = [guild |-> g, gen |-> 1, logs |-> <<>>, next |-> 0, buffer |-> <<>>,
                  live |-> live, paused |-> paused, conn |-> IF live THEN 1 ELSE 0,
                  streamGen |-> IF live THEN 1 ELSE 0, fresh |-> 0, mixed |-> FALSE]
       /\ conns = [c \in 1 .. MaxConns |-> IF live /\ c = 1 THEN Stream(g) ELSE NoConn]
  /\ loads = [s \in Slots |-> IF s = 1 THEN Asked(page, 0) ELSE NoLoad]

-----------------------------------------------------------------------------
(* LogsService *)

\* The last n entries.
LastOf(entries, n) == SubSeq(entries, 1 + (IF Len(entries) > n THEN Len(entries) - n ELSE 0), Len(entries))

OfGuild(g) == Chosen(ring, {i \in DOMAIN ring : ring[i].guild = g})

\* Mutant: a page that ends at the cursor.
UpTo(entries, cursor) == Chosen(entries, {i \in DOMAIN entries : entries[i].id < cursor - 1})

\* The entries before the cursor; all of them when the ring no longer holds the cursor.
Before(entries, cursor) ==
  IF \E i \in DOMAIN entries : entries[i].id = cursor
  THEN Chosen(entries, {i \in DOMAIN entries : entries[i].id < cursor}) ELSE entries

Query(g, cursor) ==
  LET logs == Reverse(LastOf(IF cursor = 0 THEN OfGuild(g) ELSE Before(OfGuild(g), cursor), Limit))
  IN  [logs |-> logs, next |-> IF Len(logs) = Limit THEN logs[Limit].id ELSE 0]

\* subscribeGuild.
Subscribed(c, g) == conns[c].at = "subscribed" /\ conns[c].guild = g

\* write: the entry enters the ring and goes to the streams of its guild.
WriteEntry(g) ==
  /\ count < MaxEntries
  /\ count' = count + 1
  /\ LET entry == [id |-> count + 1, guild |-> g]
     IN  /\ ring' = LastOf(Append(ring, entry), Capacity)
         /\ conns' = [c \in 1 .. MaxConns |->
              IF Subscribed(c, g) /\ conns[c].open
              THEN [conns[c] EXCEPT !.queue = Append(@, entry)] ELSE conns[c]]
  /\ UNCHANGED <<page, loads, uses>>

-----------------------------------------------------------------------------
(* handleLogsStream: the session is looked up and the guild authorized, then   *)
(* the subscription is made and the close of the connection listened for.      *)

Admitted(c) ==
  /\ conns[c].at = "lookup"
  /\ \/ /\ conns' = [conns EXCEPT ![c].at = IF conns[c].open THEN "subscribed" ELSE "orphan"]
        /\ page' = IF c = page.conn THEN [page EXCEPT !.fresh = count] ELSE page
     \/ /\ conns' = [conns EXCEPT ![c] = IF @.open THEN [@ EXCEPT !.at = "refused"] ELSE NoConn]
        /\ UNCHANGED page
  /\ UNCHANGED <<ring, count, loads, uses>>

\* The server learns that the client has gone: cleanup.
ConnectionClosed(c) ==
  /\ conns[c].at = "subscribed" /\ ~conns[c].open
  /\ conns' = [conns EXCEPT ![c] = NoConn]
  /\ UNCHANGED <<ring, count, page, loads, uses>>

-----------------------------------------------------------------------------
(* The page's stream *)

Bounded(entries) ==
  SubSeq(entries, 1, IF Len(entries) > MaxRendered THEN MaxRendered ELSE Len(entries))

Unique(entries) ==
  Chosen(entries, {i \in DOMAIN entries : \A j \in 1 .. i - 1 : entries[j] # entries[i]})

BoundedLogs(entries) == Bounded(Unique(entries))

Closed(cs, c) ==
  IF c = 0 THEN cs
  ELSE IF cs[c].at = "refused" THEN [cs EXCEPT ![c] = NoConn]
  ELSE [cs EXCEPT ![c].open = FALSE, ![c].queue = <<>>, ![c].guild = "none"]

Fresh == CHOOSE c \in 0 .. MaxConns :
           \/ c > 0 /\ conns[c] = NoConn /\ \A d \in 1 .. c - 1 : conns[d] # NoConn
           \/ c = 0 /\ \A d \in 1 .. MaxConns : conns[d] # NoConn

\* The effect that depends on the guild, live mode, the pause and the filters: the
\* present stream is closed and, in live mode, another opened.
Reconnect(p) ==
  IF p.live
  THEN /\ Fresh # 0
       /\ conns' = [Closed(conns, p.conn) EXCEPT ![Fresh] = Stream(p.guild)]
       /\ page' = [p EXCEPT !.conn = Fresh, !.streamGen = p.gen]
  ELSE /\ conns' = Closed(conns, p.conn)
       /\ page' = [p EXCEPT !.conn = 0, !.streamGen = 0, !.fresh = 0]

Use == uses < MaxUses /\ uses' = uses + 1

ToggleLive ==
  /\ Use
  /\ Reconnect([page EXCEPT !.live = ~@])
  /\ UNCHANGED <<ring, count, loads>>

Flush(p) == [p EXCEPT !.logs = BoundedLogs(p.buffer \o p.logs), !.buffer = <<>>,
                      !.mixed = @ \/ p.buffer # <<>>]

TogglePause ==
  /\ page.live /\ Use
  /\ Reconnect(IF page.paused THEN [Flush(page) EXCEPT !.paused = FALSE]
               ELSE [page EXCEPT !.paused = TRUE])
  /\ UNCHANGED <<ring, count, loads>>

\* Mutant: what comes while the page is paused is ignored.
Ignore(entry) == page

Hold(entry) == [page EXCEPT !.buffer = BoundedLogs(<<entry>> \o @)]

\* A log event of the present stream.  It is dropped when the page has moved on to a
\* new generation without opening another stream.
Receive ==
  /\ page.conn # 0 /\ conns[page.conn].queue # <<>>
  /\ LET conn == conns[page.conn] entry == Head(conn.queue)
     IN  /\ conns' = [conns EXCEPT ![page.conn].queue = Tail(@)]
         /\ page' = IF page.streamGen # page.gen \/ entry.guild # page.guild THEN page
                    ELSE IF page.paused THEN Hold(entry)
                    ELSE [page EXCEPT !.logs = BoundedLogs(<<entry>> \o @), !.mixed = TRUE]
  /\ UNCHANGED <<ring, count, loads, uses>>

\* The connection is lost or was refused: the page opens another after a while.
StreamError ==
  /\ page.conn # 0 /\ Fresh # 0
  /\ conns' = [Closed(conns, page.conn) EXCEPT ![Fresh] = Stream(page.guild)]
  /\ page' = [page EXCEPT !.conn = Fresh]
  /\ UNCHANGED <<ring, count, loads, uses>>

-----------------------------------------------------------------------------
(* The page's loads *)

IsFree(s) == loads[s].at = "none" /\ \A t \in 1 .. s - 1 : loads[t].at # "none"

Loading(slots) == \E s \in slots : loads[s].at # "none" /\ loads[s].gen = page.gen

Busy == Loading(Slots)

\* loadLogs: a first page, by Refresh, or the next one, by Load more.
Load(s, cursor) ==
  /\ IsFree(s) /\ cursor \in {0, page.next}
  /\ IF cursor = 0 THEN Use ELSE UNCHANGED uses
  /\ loads' = [loads EXCEPT ![s] = Asked(page, cursor)]
  /\ page' = [page EXCEPT !.mixed = @ \/ (cursor # 0 /\ Busy)]
  /\ UNCHANGED <<ring, count, conns>>

\* getLogs: the server evaluates the query.
Evaluate(s) ==
  /\ loads[s].at = "sent"
  /\ LET answer == Query(loads[s].guild, loads[s].cursor)
     IN  loads' = [loads EXCEPT ![s].at = "answered", ![s].guild = "none",
                             ![s].cursor = IF @ = 0 THEN 0 ELSE 1,
                             ![s].logs = answer.logs, ![s].next = answer.next]
  /\ UNCHANGED <<ring, count, conns, page, uses>>

\* Mutant: an answer is used whatever the page shows by now.
AnyAnswer(load) == TRUE

Current(load) == load.gen = page.gen

\* The answer arrives, or an error, which leaves the list as it is.
Answer(s) ==
  /\ loads[s].at = "answered"
  /\ loads' = [loads EXCEPT ![s] = NoLoad]
  /\ \/ page' = page
     \/ /\ Current(loads[s])
        /\ page' = [page EXCEPT !.logs = BoundedLogs(IF loads[s].cursor = 0 THEN loads[s].logs
                                                     ELSE @ \o loads[s].logs),
                                !.next = loads[s].next,
                                !.mixed = (@ /\ loads[s].cursor # 0) \/ Loading(Slots \ {s}),
                                !.fresh = IF loads[s].cursor = 0 /\ page.live THEN count ELSE @]
  /\ UNCHANGED <<ring, count, conns, uses>>

\* The page starts over; its own load is one of the slots.
Reset(p, s) ==
  /\ IsFree(s) /\ Use
  /\ loads' = [loads EXCEPT ![s] = Asked(p, 0)]

Cleared(p) == [p EXCEPT !.gen = @ + 1, !.logs = <<>>, !.buffer = <<>>, !.next = 0, !.mixed = FALSE]

\* Another guild, or other filters on the same: both start a stream of their own.
NewQuery(g, s) ==
  /\ LET p == [Cleared(page) EXCEPT !.guild = g] IN Reset(p, s) /\ Reconnect(p)
  /\ UNCHANGED <<ring, count>>

\* The history size starts a new generation, but the stream's effect does not depend
\* on it: the stream stays as it was opened.
HistorySize(s) ==
  /\ LET p == Cleared(page) IN Reset(p, s) /\ page' = p
  /\ UNCHANGED <<ring, count, conns>>

\* resetFilters: what was held back while paused comes back after the list was cleared.
ResetFilters(s) ==
  /\ LET p == [Cleared(page) EXCEPT !.live = FALSE, !.paused = FALSE, !.logs = page.buffer,
                                    !.mixed = page.buffer # <<>>]
     IN  Reset(p, s) /\ Reconnect(p)
  /\ UNCHANGED <<ring, count>>

ViewerNext ==
  \/ \E g \in Guilds : WriteEntry(g)
  \/ \E c \in 1 .. MaxConns : Admitted(c) \/ ConnectionClosed(c)
  \/ ToggleLive \/ TogglePause \/ Receive \/ StreamError
  \/ \E s \in Slots : \/ \E cursor \in 0 .. MaxEntries : Load(s, cursor)
                      \/ Evaluate(s) \/ Answer(s) \/ HistorySize(s)
                      \/ ResetFilters(s)
                      \/ \E g \in Guilds : NewQuery(g, s)

ViewerSpec == ViewerInit /\ [][ViewerNext]_viewerVars

-----------------------------------------------------------------------------
(* Properties *)

Shown == ToSet(page.logs) \cup ToSet(page.buffer)

\* However late an answer or an event is, the page shows entries of the guild it is on,
\* each once (generation, boundedLogs).
OwnEntriesOnce ==
  /\ \A e \in Shown : e.guild = page.guild
  /\ IsInjective(page.logs) /\ IsInjective(page.buffer)

\* Live mode misses nothing: what was written since the stream opened, or since the last
\* first page replaced the list (with all that the stream had added to it), is shown, held back, or on its way; unless the stream
\* is of an older generation (the history size was changed), or the list or what a pause
\* holds back has reached its bound (boundedLogs).
LiveMissesNothing ==
  page.live /\ page.conn # 0 /\ page.streamGen = page.gen
    /\ conns[page.conn].at = "subscribed"
    /\ Len(page.logs) < MaxRendered /\ Len(page.buffer) < MaxRendered =>
    \A e \in ToSet(ring) :
      e.guild = page.guild /\ e.id > page.fresh => e \in Shown \cup ToSet(conns[page.conn].queue)

\* Paging to the end shows the whole history: when no page is left to load, everything the
\* ring holds of the guild that is older than an entry shown is shown too, although the
\* ring moves on between the pages and may drop the cursor of the next one, which then
\* starts over from the newest entry.  Left out are lists that have reached their bound, and
\* those mixed from more than pages loaded one after the other: by loads started across each
\* other, or by entries of the stream, which opens after the first page was read and does
\* not bring what was written in between.
HistoryComplete ==
  page.next = 0 /\ ~page.mixed /\ Len(page.logs) < MaxRendered =>
    \A e \in ToSet(ring) :
      e.guild = page.guild /\ (\E x \in ToSet(page.logs) : x.id > e.id) => e \in Shown
=============================================================================
