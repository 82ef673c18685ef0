---------------------------- MODULE ShrinePolling ----------------------------
(***************************************************************************)
(* The shrine module polls a web service for the rotation of the week and   *)
(* announces a new week in a Discord channel.  It polls often around the    *)
(* time the rotation it knows ends, and seldom otherwise.  Requests fail    *)
(* and are repeated, announcements fail or are delivered without a reply,   *)
(* and a shutdown can come at every await.                                  *)
(*                                                                          *)
(* Time is counted in ticks relative to the end of the rotation the bot     *)
(* knows; a poll takes less than a tick.  The service may publish a week    *)
(* late but never early, and never takes one back.                          *)
(***************************************************************************)
EXTENDS Integers, FiniteSetsExt

CONSTANTS
  Weeks,       \* number of weeks considered
  Period,      \* length of a rotation
  Interval,    \* polling.pollIntervalMs
  PreReset,    \* polling.preResetWindowMs
  Delayed,     \* polling.delayedUpdateWindowMs
  Fallback,    \* polling.fallbackRetryMs
  Retries,     \* of one request
  MaxLost      \* bound on announcements delivered without a reply

ASSUME TimesAssumption ==
  /\ {Weeks, Period, Interval, PreReset, Delayed, Fallback} \subseteq Nat \ {0}
  /\ PreReset < Period /\ Retries \in Nat /\ MaxLost \in Nat

\* Later than this after an end, lateness makes no difference any more.
Late == Period + Delayed + 2

VARIABLES
  published, \* external: the week the service reports
  posts,     \* external: announcements in the channel, per week
  lost,      \* external: how many of them were delivered without a reply
  rotation,  \* week of currentRotation, 0 for none
  age,       \* ticks since its end
  announced, \* announcedWeek
  first,     \* week of the startup synchronization
  since,     \* ticks since delayedUpdateStartedAt, -1 for null
  timer,     \* ticks until the next poll, -1 for no timer
  started, stopped, \* the scheduler
  pc,        \* where the poll is
  attempt,   \* of its request
  before     \* the rotation when it began

world == <<published, posts, lost>>
service == <<rotation, age, announced, first>>
scheduler == <<since, timer, started, stopped>>
shrineVars == <<world, service, scheduler, pc, attempt, before>>

ShrineInit ==
  /\ published = 1 /\ posts = [w \in 1..Weeks |-> 0] /\ lost = 0
  /\ rotation = 0 /\ age = 0 /\ announced = 0 /\ first = 0
  /\ since = -1 /\ timer = -1 /\ started = FALSE /\ stopped = FALSE
  /\ pc = "idle" /\ attempt = 0 /\ before = 0

-----------------------------------------------------------------------------
(* The scheduler *)

RunPoll ==
  /\ pc' = "config" /\ attempt' = 1 /\ before' = rotation
  /\ UNCHANGED <<world, service>>

\* The client is ready, or the module starts with a client that is: polls begin once,
\* if bot.json enables them.
Start(enabled) ==
  /\ ~started /\ ~stopped
  /\ started' = TRUE
  /\ IF enabled THEN RunPoll ELSE UNCHANGED <<world, service, pc, attempt, before>>
  /\ UNCHANGED <<since, timer, stopped>>

TimerFires ==
  /\ timer = 0 /\ pc = "idle" /\ ~stopped
  /\ timer' = -1
  /\ RunPoll
  /\ UNCHANGED <<since, started, stopped>>

\* Stopping aborts the request in flight; before the scheduler was started it does nothing.
Stop ==
  /\ started /\ ~stopped
  /\ stopped' = TRUE /\ timer' = -1
  /\ UNCHANGED <<world, service, since, started, pc, attempt, before>>

\* The delay until the next poll, when the bot knows rotation r that ended a ticks ago
\* and has waited for s ticks since it first found it late.
NextDelay(r, a, s) ==
  IF r = 0 THEN Interval
  ELSE IF a < -PreReset THEN Max({-PreReset - a, Interval})
  ELSE IF a <= 0 \/ s <= Delayed THEN Interval
  ELSE Fallback

\* Mutant: an earlier delay is not forgotten when the week changes.
SinceKept(changed, r, a) == IF r # 0 /\ a > 0 /\ since = -1 THEN 0 ELSE since

\* When the wait for a late rotation began.
Since(changed, r, a) ==
  LET kept == IF changed THEN -1 ELSE since
  IN  IF r # 0 /\ a > 0 /\ kept = -1 THEN 0 ELSE kept

\* Mutant: a poll that ends after the shutdown schedules the next one.
EndsAndGoesOn ==
  /\ pc' = "idle" /\ attempt' = 0 /\ before' = 0
  /\ LET s == Since(before # 0 /\ rotation' # before, rotation', age')
     IN  since' = s /\ timer' = NextDelay(rotation', age', s)
  /\ UNCHANGED <<started, stopped>>

\* The poll is over; the next one is scheduled unless the scheduler was stopped.
PollEnds ==
  /\ pc' = "idle" /\ attempt' = 0 /\ before' = 0
  /\ IF stopped THEN UNCHANGED <<since, timer>>
     ELSE LET s == Since(before # 0 /\ rotation' # before, rotation', age')
          IN  since' = s /\ timer' = NextDelay(rotation', age', s)
  /\ UNCHANGED <<started, stopped>>

Tick ==
  /\ started /\ pc = "idle" /\ timer # 0
  /\ timer' = IF timer > 0 THEN timer - 1 ELSE timer
  /\ age' = IF rotation = 0 THEN age ELSE Min({age + 1, Late})
  /\ since' = IF since = -1 THEN -1 ELSE Min({since + 1, Delayed + 1})
  /\ UNCHANGED <<world, rotation, announced, first, started, stopped, pc, attempt, before>>

\* External: the service goes on to the next week, when that has come.
Publish ==
  /\ published < Weeks
  /\ rotation = 0 \/ age - Period * (published - rotation) >= 0
  /\ published' = published + 1
  /\ UNCHANGED <<posts, lost, service, scheduler, pc, attempt, before>>

-----------------------------------------------------------------------------
(* One poll *)

\* The settings cannot be read, or say that the module is disabled.
NoConfig == /\ pc = "config" /\ UNCHANGED <<world, service>> /\ PollEnds

ConfigLoaded ==
  /\ pc = "config" /\ pc' = "fetch"
  /\ UNCHANGED <<world, service, scheduler, attempt, before>>

\* The request fails, times out, is aborted, or its answer is no rotation.
FetchFails ==
  /\ pc = "fetch"
  /\ IF stopped \/ attempt > Retries
     THEN UNCHANGED <<world, service>> /\ PollEnds
     ELSE /\ attempt' = attempt + 1
          /\ UNCHANGED <<world, service, scheduler, pc, before>>

\* The bot may come up at any time of a week.
Adopt(w) ==
  /\ rotation' = w
  /\ IF rotation = 0 THEN age' \in -Period..Late
     ELSE age' = age - Period * (w - rotation)

\* The first rotation is not announced, but in development.
Synchronize(forced) ==
  /\ rotation = 0
  /\ Adopt(published) /\ announced' = published /\ first' = published
  /\ UNCHANGED world
  /\ IF forced THEN pc' = "announce" /\ UNCHANGED <<scheduler, attempt, before>>
     ELSE PollEnds

\* Mutant: a failed announcement is not repeated.
IsNews(w) == w # rotation

\* A week is announced when it is new, and again until that has succeeded.
MustAnnounce(w) == w # rotation \/ announced # w

Compare ==
  /\ rotation # 0
  /\ Adopt(published)
  /\ UNCHANGED <<world, announced, first>>
  /\ IF MustAnnounce(published) THEN pc' = "announce" /\ UNCHANGED <<scheduler, attempt, before>>
     ELSE PollEnds

FetchSucceeds ==
  /\ pc = "fetch"
  /\ \/ stopped /\ UNCHANGED <<world, service>> /\ PollEnds
     \/ ~stopped /\ ((\E forced \in BOOLEAN : Synchronize(forced)) \/ Compare)

\* No channel, no guild, or the scheduler was stopped before the message is sent.
NotSent ==
  /\ pc = "announce"
  /\ UNCHANGED <<world, service>> /\ PollEnds

\* The card is drawn, or the announcement goes without it.
Send ==
  /\ pc = "announce" /\ ~stopped /\ pc' = "send"
  /\ UNCHANGED <<world, service, scheduler, attempt, before>>

SendFails ==
  /\ pc = "send"
  /\ UNCHANGED <<world, service>> /\ PollEnds

\* External: Discord has the message, the reply does not arrive.
ReplyLost ==
  /\ pc = "send" /\ lost < MaxLost
  /\ posts' = [posts EXCEPT ![rotation] = @ + 1] /\ lost' = lost + 1
  /\ UNCHANGED <<published, service>> /\ PollEnds

\* Mutant: the week is not marked as announced.
NotMarked == UNCHANGED announced

\* After an abort the success is not recorded any more.
Mark == announced' = IF stopped THEN announced ELSE rotation

Sent ==
  /\ pc = "send"
  /\ posts' = [posts EXCEPT ![rotation] = @ + 1]
  /\ Mark
  /\ UNCHANGED <<published, lost, rotation, age, first>> /\ PollEnds

-----------------------------------------------------------------------------

Poll == NoConfig \/ ConfigLoaded \/ FetchFails \/ FetchSucceeds
          \/ NotSent \/ Send \/ SendFails \/ ReplyLost \/ Sent

ShrineNext == (\E enabled \in BOOLEAN : Start(enabled)) \/ TimerFires \/ Stop \/ Tick \/ Publish \/ Poll

\* Time passes, timers fire, and every request has a time limit.  The web service and
\* Discord do not fail for ever.
ShrineFairness ==
  /\ WF_shrineVars(Tick) /\ WF_shrineVars(TimerFires) /\ WF_shrineVars(Poll)
  /\ SF_shrineVars(ConfigLoaded) /\ SF_shrineVars(FetchSucceeds) /\ SF_shrineVars(Send) /\ SF_shrineVars(Sent)

ShrineSpec == ShrineInit /\ [][ShrineNext]_shrineVars /\ ShrineFairness

-----------------------------------------------------------------------------
(* Properties *)

\* The types of the service's and the scheduler's fields (shrine.service.ts:39-40,
\* shrine-polling.scheduler.ts:7-11).
ShrineTypes ==
  /\ published \in 1..Weeks /\ posts \in [1..Weeks -> Nat] /\ lost \in 0..MaxLost
  /\ {rotation, announced, first, before} \subseteq 0..Weeks
  /\ age \in -Period..Late /\ since \in -1..Delayed + 1
  /\ timer \in -1..Max({Period, Interval, Fallback})
  /\ started \in BOOLEAN /\ stopped \in BOOLEAN
  /\ pc \in {"idle", "config", "fetch", "announce", "send"} /\ attempt \in 0..Retries + 1

\* A week is posted a second time only when an earlier post got no reply
\* (shrine.service.ts:95-126).
PostedOnce == \A w \in 1..Weeks : posts[w] <= 1 + lost

\* From the pre-reset window on, and for as long as a late rotation is waited for,
\* the next poll is at most an interval away (shrine-polling.scheduler.ts:80-109).
PollsNearReset ==
  started /\ ~stopped /\ pc = "idle" /\ rotation # 0 /\ -PreReset <= age /\ age <= Delayed
    => 0 <= timer /\ timer <= Interval

\* A shutdown is final, wherever it finds a poll: nothing that comes back later starts an
\* announcement (only a message already on its way arrives), repeats the request, begins
\* another poll, sets a timer or leaves one set, and the scheduler is not started again
\* (shrine-polling.scheduler.ts:33-64, shrine.service.ts:137,173, shrine.client.ts:65-76,
\* shrine.module.ts:86-93).
QuietAfterStop ==
  [][stopped => /\ posts' # posts => pc = "send"
                /\ pc' \in {"announce", "send"} => pc' = pc
                /\ pc = "idle" => pc' = "idle"
                /\ attempt' \in {attempt, 0}
                /\ timer' = -1 /\ stopped']_shrineVars

\* A new week is posted, unless the next one replaces it first or the bot is stopped
\* (shrine.service.ts:95-127).
WeeksArePosted == \A w \in 2..Weeks :
  rotation = w /\ first # w ~> posts[w] > 0 \/ rotation > w \/ stopped
=============================================================================
