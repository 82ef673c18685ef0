------------------------- MODULE FeatureProofs -------------------------
(***************************************************************************)
(* Proofs about the bot's features: the voice module (VoiceCycle), for any    *)
(* members, retries and pending timers; the shrine module (ShrinePolling),    *)
(* for any weeks, polling times and lost replies; and moderation with its log *)
(* (Moderation, GuildLog), for any commands, members, ranks and events; the   *)
(* log viewer (LogStream), for any ring, pages, lists, streams and loads.     *)
(***************************************************************************)
EXTENDS VoiceCycle, ShrinePolling, Moderation, LogStream, DataLemmas, SequenceTheorems

-----------------------------------------------------------------------------
(***************************************************************************)
(* The voice module                                                          *)
(***************************************************************************)

\* Before bot.ready no cycle runs, so that the handler of that event, which sets
\* the state to IDLE, interrupts none.
NoCycleBeforeReady == running /\ ~ready => state = "IDLE"

\* The bot is in a channel exactly while its connection is not destroyed.  Timers come
\* from a connection: before the first one there is none, and after a stop that gave it
\* up there is none whose handle is known.
TimersCleared ==
  /\ link.channel = "none" <=> Nowhere(link)
  /\ link.status = "none" => ~link.held
  /\ running /\ link.status = "none" => link.stray = 0

VoiceInv == VoiceTypes /\ RestsInStandby /\ NoCycleBeforeReady /\ TimersCleared

-----------------------------------------------------------------------------
(* The connection manager *)

Links == [channel : {"none", "standby", "member"},
          status : {"none", "connecting", "ready", "disconnected", "destroyed"},
          standby : BOOLEAN, attempts : 0..MaxRetries, held : BOOLEAN, stray : Nat]

LEMMA Zero == MaxRetries \in Nat /\ 0 \in 0..MaxRetries
BY RetriesAssumption

\* A new connection, or none: an attempt that throws leaves the bot in no channel.
LEMMA ConnectFacts ==
  ASSUME NEW l \in Links, NEW c \in {"standby", "member"}, NEW joined \in BOOLEAN,
         l.channel = "none" <=> Nowhere(l)
  PROVE  /\ Connect(l, c, joined) \in Links
         /\ Connect(l, c, joined).standby = l.standby
         /\ Connect(l, c, joined).held = l.held /\ Connect(l, c, joined).stray = l.stray
         /\ Connect(l, c, joined).channel = "none" <=> Nowhere(Connect(l, c, joined))
         /\ Connect(l, c, joined).channel = IF Throws(l, joined) THEN "none" ELSE c
         /\ Connect(l, c, joined).status = "none" => l.status = "none"
<1>1. CASE ~Throws(l, joined)
  <2>1. Connect(l, c, joined) = [l EXCEPT !.channel = c, !.status = "connecting"]
    BY <1>1 DEF Connect, Throws
  <2>2. [l EXCEPT !.channel = c, !.status = "connecting"] \in Links
    BY DEF Links
  <2> QED BY <1>1, <2>1, <2>2 DEF Links, Nowhere
<1>2. CASE Throws(l, joined) /\ l.status = "none"
  BY <1>2 DEF Connect, Links, Nowhere
<1>3. CASE Throws(l, joined) /\ l.status # "none"
  BY <1>3 DEF Connect, Links, Nowhere
<1> QED BY <1>1, <1>2, <1>3

LEMMA ReturnFacts ==
  ASSUME NEW l \in Links, NEW joined \in BOOLEAN, l.channel = "none" <=> Nowhere(l)
  PROVE  /\ ReturnToStandby(l, joined) \in Links
         /\ ReturnToStandby(l, joined).standby = l.standby
         /\ ReturnToStandby(l, joined).held = l.held /\ ReturnToStandby(l, joined).stray = l.stray
         /\ l.standby => \/ ReturnToStandby(l, joined).channel = "standby"
                        \/ Nowhere(ReturnToStandby(l, joined))
         /\ ReturnToStandby(l, joined).channel = "none" <=> Nowhere(ReturnToStandby(l, joined))
         /\ ReturnToStandby(l, joined).status = "none" => l.status = "none"
BY ConnectFacts DEF ReturnToStandby

LEMMA JoinFacts ==
  ASSUME NEW l \in Links, NEW joined \in BOOLEAN, l.channel = "none" <=> Nowhere(l)
  PROVE  /\ JoinStandby(l, joined) \in Links
         /\ JoinStandby(l, joined).held = l.held /\ JoinStandby(l, joined).stray = l.stray
         /\ JoinStandby(l, joined).channel = "standby" \/ Nowhere(JoinStandby(l, joined))
         /\ JoinStandby(l, joined).channel = "none" <=> Nowhere(JoinStandby(l, joined))
         /\ JoinStandby(l, joined).status = "none" => l.status = "none"
<1> DEFINE k == [l EXCEPT !.standby = TRUE]
           j == [l EXCEPT !.standby = TRUE, !.attempts = 0]
<1>1. k \in Links
  BY DEF Links
<1>2. [k EXCEPT !.attempts = 0] \in Links
  BY <1>1, Zero DEF Links
<1>3. j \in Links
  BY <1>2
<1>4. j.channel = l.channel /\ j.status = l.status /\ j.held = l.held /\ j.stray = l.stray
  BY DEF Links
<1>5. j.channel = "none" <=> Nowhere(j)
  BY <1>4 DEF Nowhere
<1>6. JoinStandby(l, joined) = Connect(j, "standby", joined)
  BY DEF JoinStandby
<1> HIDE DEF j
<1> QED BY <1>3, <1>4, <1>5, <1>6, ConnectFacts

LEMMA ScheduleFacts ==
  ASSUME NEW l \in Links
  PROVE  /\ ScheduleReconnect(l) \in Links
         /\ ScheduleReconnect(l).channel = l.channel
         /\ ScheduleReconnect(l).status = l.status
         /\ ScheduleReconnect(l).standby = l.standby
<1>1. Timers(l) \in Nat
  BY DEF Timers, Links
<1>2. CASE ~l.standby \/ l.attempts >= MaxRetries
  BY <1>2 DEF ScheduleReconnect
<1>3. CASE l.standby /\ ~(l.attempts >= MaxRetries)
  <2>1. l.attempts + 1 \in 0..MaxRetries
    BY <1>3, Zero DEF Links
  <2>2. ScheduleReconnect(l) = [l EXCEPT !.attempts = l.attempts + 1, !.held = TRUE, !.stray = Timers(l)]
    BY <1>3 DEF ScheduleReconnect
  <2> QED BY <1>1, <2>1, <2>2 DEF Links
<1> QED BY <1>2, <1>3

-----------------------------------------------------------------------------
(* The invariant *)

LEMMA VoiceInitially == VoiceInit => VoiceInv
<1>1. NoLink \in Links
  BY Zero DEF NoLink, Links
<1>2. VoiceInit => VoiceTypes
  BY <1>1 DEF VoiceInit, VoiceTypes, Links
<1>3. VoiceInit => RestsInStandby /\ NoCycleBeforeReady /\ TimersCleared
  BY DEF VoiceInit, NoLink, RestsInStandby, NoCycleBeforeReady, TimersCleared, Nowhere
<1> QED BY <1>2, <1>3 DEF VoiceInv

\* The end of a handler call: the only call there is, while the module runs.
LEMMA HandlerEndsKeeps ==
  ASSUME VoiceInv, NEW m \in Joiners, HandlerEnds(m), doing[m] # "none"
  PROVE  VoiceInv'
<1> USE DEF VoiceInv
<1>1. link \in Links
  BY DEF VoiceTypes, Links
<1>2. doing' \in [Joiners -> {"none", "waiting", "sound", "awaiting", "playing"}]
  BY DEF HandlerEnds, VoiceTypes
<1>3. cut' \subseteq Joiners
  BY DEF HandlerEnds, VoiceTypes, Using
<1>4. \A n \in Joiners : doing'[n] = IF n = m THEN "none" ELSE doing[n]
  BY DEF HandlerEnds, VoiceTypes
<1>5. ASSUME NEW joined \in BOOLEAN, FinishCycle(joined) PROVE VoiceInv'
  <2>1. /\ link' \in Links /\ link'.standby = link.standby
        /\ link'.held = link.held /\ link'.stray = link.stray
        /\ link.standby => link'.channel = "standby" \/ Nowhere(link')
        /\ link'.channel = "none" <=> Nowhere(link')
        /\ link'.status = "none" => link.status = "none"
    BY <1>1, <1>5, ReturnFacts DEF FinishCycle, TimersCleared
  <2>2. \A n \in Joiners : doing'[n] = "none"
    BY <1>4, <1>5 DEF RestsInStandby, FinishCycle
  <2>3. VoiceTypes'
    BY <1>2, <1>3, <1>5, <2>1 DEF VoiceTypes, Links, HandlerEnds, FinishCycle
  <2>4. RestsInStandby'
    BY <1>5, <2>1, <2>2 DEF RestsInStandby, FinishCycle, Nowhere
  <2>5. NoCycleBeforeReady'
    BY <1>5 DEF NoCycleBeforeReady, FinishCycle, HandlerEnds, RestsInStandby
  <2>6. TimersCleared'
    BY <1>5, <2>1 DEF TimersCleared, FinishCycle, HandlerEnds, Nowhere
  <2> QED BY <2>3, <2>4, <2>5, <2>6
<1>6. CASE ~running /\ UNCHANGED <<state, link>>
  BY <1>2, <1>3, <1>6 DEF HandlerEnds, VoiceTypes, RestsInStandby, NoCycleBeforeReady,
                          TimersCleared, Nowhere
<1> QED BY <1>5, <1>6 DEF HandlerEnds

\* A step that only moves handler calls on.
LEMMA CallsKeep ==
  ASSUME VoiceInv, VoiceTypes', UNCHANGED <<plugin, running, ready, link>>,
         state' = state \/ (state \notin {"IDLE", "MOVING", "COOLDOWN"}
                            /\ state' \notin {"IDLE", "MOVING", "COOLDOWN"}),
         \A n \in Joiners : doing'[n] # "none" => doing[n] # "none"
  PROVE  VoiceInv'
BY DEF VoiceInv, RestsInStandby, NoCycleBeforeReady, TimersCleared, Nowhere

LEMMA VoiceStep ==
  ASSUME VoiceInv, [VoiceNext]_voiceVars
  PROVE  VoiceInv'
<1> USE DEF VoiceInv
<1>1. link \in Links /\ Using \subseteq Joiners
  BY DEF VoiceTypes, Links, Using
<1>2. ASSUME NEW hasStandby \in BOOLEAN, NEW joined \in BOOLEAN, BotReady(hasStandby, joined)
      PROVE  VoiceInv'
  <2>1. /\ JoinStandby(link, joined) \in Links
        /\ JoinStandby(link, joined).held = link.held /\ JoinStandby(link, joined).stray = link.stray
        /\ JoinStandby(link, joined).channel = "standby" \/ Nowhere(JoinStandby(link, joined))
        /\ JoinStandby(link, joined).channel = "none" <=> Nowhere(JoinStandby(link, joined))
        /\ JoinStandby(link, joined).status = "none" => link.status = "none"
    BY <1>1, JoinFacts DEF TimersCleared
  <2>2. state' = "IDLE" /\ state = "IDLE" /\ running' /\ running
    BY <1>2 DEF BotReady, NoCycleBeforeReady
  <2>3. /\ link' \in Links
        /\ link' = link \/ link'.channel = "standby" \/ Nowhere(link')
        /\ link'.channel = "none" <=> Nowhere(link')
        /\ link'.held = link.held /\ link'.stray = link.stray
        /\ link'.status = "none" => link.status = "none"
    <3>1. CASE hasStandby
      <4>1. link' = JoinStandby(link, joined)
        BY <1>2, <3>1 DEF BotReady
      <4> QED BY <2>1, <4>1
    <3>2. CASE ~hasStandby
      <4>1. link' = link
        BY <1>2, <3>2 DEF BotReady
      <4> QED BY <1>1, <4>1 DEF TimersCleared, Nowhere
    <3> QED BY <3>1, <3>2
  <2>4. VoiceTypes'
    <3>1. cut' \subseteq Joiners /\ crashing' \in BOOLEAN
      BY <1>1, <1>2 DEF BotReady, VoiceTypes
    <3> QED BY <1>2, <2>2, <2>3, <3>1 DEF BotReady, VoiceTypes, Links
  <2>5. RestsInStandby'
    BY <1>2, <2>2, <2>3 DEF BotReady, RestsInStandby, Nowhere
  <2>6. NoCycleBeforeReady' /\ TimersCleared'
    BY <2>2, <2>3 DEF NoCycleBeforeReady, TimersCleared
  <2> QED BY <2>4, <2>5, <2>6
<1>3. CASE LinkReady
  <2>1. link' \in Links /\ link'.channel = link.channel /\ link'.status = "ready"
        /\ link'.standby = link.standby /\ ~Nowhere(link)
    BY <1>1, <1>3, Zero DEF LinkReady, Links, Nowhere
  <2> QED BY <1>3, <2>1 DEF LinkReady, VoiceTypes, RestsInStandby, NoCycleBeforeReady,
                            TimersCleared, Links, Nowhere
<1>4. CASE LinkLost
  <2> DEFINE l == [link EXCEPT !.status = "disconnected"]
  <2>1. l \in Links /\ l.channel = link.channel /\ l.standby = link.standby
        /\ l.status = "disconnected"
    BY <1>1 DEF Links
  <2>2. link' = ScheduleReconnect(l)
    BY <1>4 DEF LinkLost
  <2>3. link' \in Links /\ link'.channel = link.channel /\ link'.standby = link.standby
        /\ link'.status = "disconnected"
    BY <2>1, <2>2, ScheduleFacts
  <2>4. ~Nowhere(link)
    BY <1>4 DEF LinkLost, Nowhere
  <2> QED BY <1>4, <2>3, <2>4 DEF LinkLost, VoiceTypes, RestsInStandby, NoCycleBeforeReady,
                                  TimersCleared, Links, Nowhere
<1>5. CASE ReconnectTimer
  <2>1. PICK joined \in BOOLEAN :
          \/ link.held /\ link' = Connect([link EXCEPT !.held = FALSE], "standby", joined)
          \/ link.stray > 0 /\ link' = Connect([link EXCEPT !.stray = @ - 1], "standby", joined)
    BY <1>5 DEF ReconnectTimer
  <2>2. PICK l \in Links : /\ link' = Connect(l, "standby", joined)
                           /\ l.channel = link.channel /\ l.status = link.status
                           /\ l.held => link.held
    <3>1. CASE link.held /\ link' = Connect([link EXCEPT !.held = FALSE], "standby", joined)
      <4> DEFINE h == [link EXCEPT !.held = FALSE]
      <4>1. h \in Links /\ h.channel = link.channel /\ h.status = link.status /\ ~h.held
        BY <1>1 DEF Links
      <4> QED BY <3>1, <4>1
    <3>2. CASE link.stray > 0 /\ link' = Connect([link EXCEPT !.stray = @ - 1], "standby", joined)
      <4> DEFINE r == [link EXCEPT !.stray = @ - 1]
      <4>1. r \in Links /\ r.channel = link.channel /\ r.status = link.status /\ r.held = link.held
        BY <1>1, <3>2 DEF Links
      <4> QED BY <3>2, <4>1
    <3> QED BY <2>1, <3>1, <3>2
  <2>3. running => link.status # "none"
    BY <1>1, <2>1 DEF TimersCleared, Links
  <2>4. Nowhere(l) <=> Nowhere(link)
    BY <2>2 DEF Nowhere
  <2>5. link' \in Links /\ (link'.channel = "standby" \/ Nowhere(link'))
        /\ (link'.channel = "none" <=> Nowhere(link')) /\ link'.held = l.held
        /\ (link'.status = "none" => link.status = "none")
        /\ link'.channel = IF Throws(l, joined) THEN "none" ELSE "standby"
    BY <2>2, <2>4, ConnectFacts DEF TimersCleared
  <2>6. running /\ Nowhere(link) => Nowhere(link')
    BY <2>2, <2>3, <2>5 DEF Nowhere, Throws
  <2>7. VoiceTypes'
    BY <1>1, <1>5, <2>5 DEF ReconnectTimer, VoiceTypes, Links
  <2>8. RestsInStandby'
    BY <1>5, <2>5, <2>6 DEF ReconnectTimer, RestsInStandby, Nowhere
  <2>9. NoCycleBeforeReady' /\ TimersCleared'
    BY <1>5, <2>2, <2>3, <2>5 DEF ReconnectTimer, NoCycleBeforeReady, TimersCleared
  <2> QED BY <2>7, <2>8, <2>9
<1>6. CASE CooldownTimer
  BY <1>6 DEF CooldownTimer, VoiceTypes, RestsInStandby, NoCycleBeforeReady, TimersCleared, Nowhere
<1>7. CASE StopVoice
  <2>1. link' \in Links /\ Nowhere(link') /\ link'.channel = "none" /\ ~link'.held
    BY <1>1, <1>7 DEF StopVoice, Disconnect, Links, Nowhere, TimersCleared
  <2>2. doing' \in [Joiners -> {"none", "waiting", "sound", "awaiting", "playing"}]
        /\ state' \in {"IDLE", "MOVING", "WAITING", "PLAYING", "COOLDOWN"}
    BY <1>7 DEF StopVoice, ShutdownModule, StopPlugin, StopAudio, VoiceTypes
  <2>3. cut' \subseteq Joiners
    BY <1>1, <1>7 DEF StopVoice, Resolving, VoiceTypes
  <2>4. VoiceTypes'
    BY <1>7, <2>1, <2>2, <2>3 DEF StopVoice, VoiceTypes, Links
  <2> QED BY <1>7, <2>1, <2>4 DEF StopVoice, RestsInStandby, NoCycleBeforeReady, TimersCleared
<1>8. ASSUME NEW m \in Joiners, NEW allowed \in BOOLEAN, NEW joined \in BOOLEAN,
             MemberJoined(m, allowed, joined)
      PROVE  VoiceInv'
  <2>1. /\ Connect(link, "member", joined) \in Links
        /\ Connect(link, "member", joined).held = link.held
        /\ Connect(link, "member", joined).stray = link.stray
        /\ Connect(link, "member", joined).channel = "none" <=> Nowhere(Connect(link, "member", joined))
        /\ Connect(link, "member", joined).channel = IF Throws(link, joined) THEN "none" ELSE "member"
        /\ Connect(link, "member", joined).status = "none" => link.status = "none"
    BY <1>1, ConnectFacts DEF TimersCleared
  <2>2. /\ link' \in Links
        /\ link'.channel = "none" <=> Nowhere(link')
        /\ link'.held = link.held /\ link'.stray = link.stray
        /\ link'.status = "none" => link.status = "none"
        /\ state' = "MOVING" => Nowhere(link')
    <3>1. CASE allowed
      <4>1. link' = Connect(link, "member", joined)
        BY <1>8, <3>1 DEF MemberJoined
      <4>2. state' = "MOVING" => Throws(link, joined)
        BY <1>8 DEF MemberJoined
      <4> QED BY <2>1, <4>1, <4>2
    <3>2. CASE ~allowed
      <4>1. link' = link /\ state' # "MOVING"
        BY <1>8, <3>2 DEF MemberJoined
      <4> QED BY <1>1, <4>1 DEF TimersCleared, Nowhere
    <3> QED BY <3>1, <3>2
  <2>3. \A n \in Joiners : doing[n] = "none"
    BY <1>8 DEF MemberJoined, RestsInStandby
  <2>4. /\ (state' = "MOVING" /\ doing' = doing) \/ state' = "WAITING"
        /\ \A n \in Joiners : n # m => doing'[n] = "none"
        /\ doing' \in [Joiners -> {"none", "waiting", "sound", "awaiting", "playing"}]
    BY <1>8, <2>3 DEF MemberJoined, VoiceTypes
  <2>5. cut' \subseteq Joiners /\ crashing' \in BOOLEAN
    BY <1>1, <1>8 DEF MemberJoined, VoiceTypes
  <2>6. VoiceTypes'
    BY <1>8, <2>2, <2>4, <2>5 DEF MemberJoined, VoiceTypes, Links
  <2>7. RestsInStandby'
    BY <1>8, <2>2, <2>3, <2>4 DEF MemberJoined, RestsInStandby
  <2>8. NoCycleBeforeReady' /\ TimersCleared'
    BY <1>8, <2>2 DEF MemberJoined, NoCycleBeforeReady, TimersCleared
  <2> QED BY <2>6, <2>7, <2>8
<1>9. ASSUME NEW m \in Joiners, JoinTimer(m) PROVE VoiceInv'
  <2>1. \A n \in Joiners : doing'[n] # "none" => doing[n] # "none"
    BY <1>9 DEF JoinTimer, VoiceTypes
  <2>2. VoiceTypes'
    BY <1>9 DEF JoinTimer, VoiceTypes
  <2> QED BY <1>9, <2>1, <2>2, CallsKeep DEF JoinTimer
<1>10. ASSUME NEW m \in Joiners, SoundResolved(m) PROVE VoiceInv'
  <2>1. CASE HandlerEnds(m)
    BY <1>10, <2>1, HandlerEndsKeeps DEF SoundResolved
  <2>2. CASE ~HandlerEnds(m)
    <3>1. /\ doing[m] = "sound" /\ UNCHANGED <<plugin, running, ready, state, link, cut, crashing>>
          /\ \E p \in {"playing", "awaiting"} : doing' = [doing EXCEPT ![m] = p]
      BY <1>10, <2>2 DEF SoundResolved
    <3>2. \A n \in Joiners : doing'[n] # "none" => doing[n] # "none"
      BY <3>1 DEF VoiceTypes
    <3>3. VoiceTypes'
      BY <3>1 DEF VoiceTypes
    <3> QED BY <3>1, <3>2, <3>3, CallsKeep
  <2> QED BY <2>1, <2>2
<1>11. ASSUME NEW m \in Joiners, ReadyOrTimeout(m) PROVE VoiceInv'
  <2>1. \A n \in Joiners : doing'[n] # "none" => doing[n] # "none"
    BY <1>11 DEF ReadyOrTimeout, VoiceTypes
  <2>2. VoiceTypes'
    BY <1>11 DEF ReadyOrTimeout, VoiceTypes
  <2> QED BY <1>11, <2>1, <2>2, CallsKeep DEF ReadyOrTimeout
<1>12. ASSUME NEW m \in Joiners, SoundFails(m) \/ PlaybackEnds(m) PROVE VoiceInv'
  BY <1>12, HandlerEndsKeeps DEF SoundFails, PlaybackEnds
<1>13. CASE UNCHANGED voiceVars
  BY <1>13 DEF voiceVars, VoiceTypes, RestsInStandby, NoCycleBeforeReady, TimersCleared, Nowhere
<1> QED BY <1>2, <1>3, <1>4, <1>5, <1>6, <1>7, <1>8, <1>9, <1>10, <1>11, <1>12, <1>13
        DEF VoiceNext, VoiceStateUpdate, Playing

\* The invariant of every behaviour.
THEOREM VoiceInvariant == VoiceSpec => []VoiceInv
<1>1. VoiceInit => VoiceInv
  BY VoiceInitially
<1>2. VoiceInv /\ [VoiceNext]_voiceVars => VoiceInv'
  BY VoiceStep
<1> QED BY <1>1, <1>2, PTL DEF VoiceSpec

-----------------------------------------------------------------------------
(* Theorems *)

\* Module, connection manager and handler calls keep their types
\* (voice.module.ts:31-41, ConnectionManager.ts:6-10).
THEOREM VoiceTypesHold == VoiceSpec => []VoiceTypes
BY VoiceInvariant, PTL DEF VoiceInv

\* Whatever the timers and Discord do, and however connecting fails, a bot between two
\* cycles has asked for its standby channel or is in none, as is one that a failed move
\* has left in MOVING; no two handler calls share the connection
\* (voice.module.ts:112,128,163-165, ConnectionManager.ts:97-136,162-166).
THEOREM RestsBetweenCycles == VoiceSpec => []RestsInStandby
BY VoiceInvariant, PTL DEF VoiceInv

\* Only a timer whose handle was overwritten takes a stopped bot into a channel
\* again (voice.plugin.ts:114-123, ConnectionManager.ts:49-56).
THEOREM VoiceStaysQuiet == VoiceSpec => StaysOutAfterStop
<1> DEFINE Quiet == ~running /\ link'.channel # "none" /\ link.channel = "none"
                      => link'.stray < link.stray
<1>1. ASSUME VoiceInv, [VoiceNext]_voiceVars PROVE [Quiet]_voiceVars
  <2> SUFFICES ASSUME ~running, link'.channel # "none", link.channel = "none"
               PROVE  link'.stray < link.stray
    OBVIOUS
  <2> USE DEF VoiceInv
  <2>1. link \in Links /\ Nowhere(link) /\ (link.status = "none" => ~link.held)
    BY <1>1 DEF VoiceTypes, Links, TimersCleared
  <2>2. CASE ReconnectTimer
    <3>1. PICK joined \in BOOLEAN :
            \/ link.held /\ link' = Connect([link EXCEPT !.held = FALSE], "standby", joined)
            \/ link.stray > 0 /\ link' = Connect([link EXCEPT !.stray = @ - 1], "standby", joined)
      BY <2>2 DEF ReconnectTimer
    <3>2. link.status = "none"
      <4>1. SUFFICES ASSUME link.status = "destroyed" PROVE FALSE
        BY <2>1 DEF Nowhere
      <4>2. ASSUME NEW l \in Links, l.status = "destroyed"
            PROVE  Connect(l, "standby", joined).channel = "none"
        BY <4>2 DEF Connect, Throws, Links
      <4>3. [link EXCEPT !.held = FALSE] \in Links /\ [link EXCEPT !.held = FALSE].status = "destroyed"
        BY <2>1, <4>1 DEF Links
      <4>4. CASE link.held /\ link' = Connect([link EXCEPT !.held = FALSE], "standby", joined)
        BY <4>2, <4>3, <4>4
      <4>5. CASE link.stray > 0 /\ link' = Connect([link EXCEPT !.stray = @ - 1], "standby", joined)
        <5>1. [link EXCEPT !.stray = @ - 1] \in Links
              /\ [link EXCEPT !.stray = @ - 1].status = "destroyed"
          BY <2>1, <4>1, <4>5 DEF Links
        <5> QED BY <4>2, <4>5, <5>1
      <4> QED BY <3>1, <4>4, <4>5
    <3> DEFINE l == [link EXCEPT !.stray = @ - 1]
    <3>3. link.stray > 0 /\ link' = Connect(l, "standby", joined)
      BY <2>1, <3>1, <3>2
    <3>4. l \in Links /\ l.stray = link.stray - 1 /\ link.stray \in Nat
          /\ l.channel = link.channel /\ l.status = link.status
      BY <2>1, <3>3 DEF Links
    <3>5. l.channel = "none" <=> Nowhere(l)
      BY <1>1, <3>4 DEF TimersCleared, Nowhere
    <3> HIDE DEF l
    <3>6. Connect(l, "standby", joined).stray = l.stray
      BY <3>4, <3>5, ConnectFacts
    <3> QED BY <3>3, <3>4, <3>6
  <2>3. CASE ~ReconnectTimer
    <3>1. \A m \in Joiners : HandlerEnds(m) => link' = link
      BY DEF HandlerEnds, FinishCycle
    <3>2. link' = link
      BY <1>1, <2>1, <2>3, <3>1 DEF VoiceNext, voiceVars, BotReady, LinkReady, LinkLost, CooldownTimer, StopVoice,
         VoiceStateUpdate, MemberJoined, JoinTimer, Playing, SoundResolved, ReadyOrTimeout,
         SoundFails, PlaybackEnds, Nowhere
    <3> QED BY <3>2
  <2> QED BY <2>2, <2>3
<1> QED BY <1>1, VoiceInvariant, PTL DEF VoiceSpec, StaysOutAfterStop

-----------------------------------------------------------------------------
(***************************************************************************)
(* The shrine module                                                         *)
(***************************************************************************)

\* The bot is never ahead of the service, and knows a rotation before it announces.
Known ==
  /\ rotation <= published
  /\ pc \in {"announce", "send"} => rotation # 0
  /\ pc # "idle" => started
  /\ ~started => rotation = 0 /\ timer = -1

\* The week after the published one has not begun: its rotation would still have to end.
AgeFits == rotation # 0 => age - Period * (published - rotation) >= -Period

\* What has been posted of the weeks so far, and of the one that is to be announced.
PostsFit ==
  /\ PostedOnce
  /\ \A w \in 1..Weeks : w > rotation => posts[w] = 0
  /\ rotation # 0 /\ (pc \in {"announce", "send"} \/ (~stopped /\ announced # rotation))
       => posts[rotation] <= lost

\* A delay that is remembered began after the end of the rotation it belongs to.
DelayFits ==
  /\ pc = "idle" => before = 0
  /\ ~stopped /\ since # -1 /\ (pc = "idle" \/ rotation = before) =>
       rotation # 0 /\ since <= age
  /\ pc # "idle" /\ before = 0 => since = -1
  /\ pc # "idle" => before = rotation \/ pc \in {"announce", "send"}

\* A timer set before the pre-reset window ends with its begin or an interval later.
TimerFits ==
  started /\ ~stopped /\ pc = "idle" /\ rotation # 0 =>
    /\ timer >= 0
    /\ age <= Delayed => timer <= Interval \/ timer + age <= -PreReset

ShrineInv == ShrineTypes /\ Known /\ AgeFits /\ PostsFit /\ DelayFits /\ TimerFits

-----------------------------------------------------------------------------
(* Arithmetic *)

LEMMA Times ==
  /\ Weeks \in Nat /\ Period \in Nat /\ Interval \in Nat /\ PreReset \in Nat
  /\ Delayed \in Nat /\ Fallback \in Nat /\ Retries \in Nat /\ MaxLost \in Nat
  /\ Weeks > 0 /\ Period > 0 /\ Interval > 0 /\ PreReset > 0 /\ Delayed > 0 /\ Fallback > 0
  /\ PreReset < Period
BY TimesAssumption

LEMMA Longest ==
  /\ Max({Period, Interval, Fallback}) \in Nat
  /\ Period <= Max({Period, Interval, Fallback})
  /\ Interval <= Max({Period, Interval, Fallback})
  /\ Fallback <= Max({Period, Interval, Fallback})
<1> DEFINE n == Period + Interval + Fallback
<1>1. n \in Nat /\ {Period, Interval, Fallback} \in SUBSET (0..n)
  BY Times
<1>2. /\ Max({Period, Interval, Fallback}) \in {Period, Interval, Fallback}
      /\ \A y \in {Period, Interval, Fallback} : y <= Max({Period, Interval, Fallback})
  BY <1>1, MaxOfBounded
<1> QED BY <1>2, Times

\* Min of two integers, of which the second may be negative.
LEMMA MinOfTwo ==
  ASSUME NEW m \in Int, NEW n \in Int
  PROVE  Min({m, n}) \in {m, n} /\ Min({m, n}) <= m /\ Min({m, n}) <= n
<1>1. \E x \in {m, n} : \A y \in {m, n} : x =< y
  <2>1. CASE m <= n BY <2>1
  <2>2. CASE n <= m BY <2>2
  <2> QED BY <2>1, <2>2
<1> QED BY <1>1 DEF Min

LEMMA ProductStep ==
  ASSUME NEW p \in Int, NEW d \in Int
  PROVE  p * (d + 1) = p * d + p
OBVIOUS

LEMMA ProductPositive ==
  ASSUME NEW p \in Nat, NEW d \in Nat
  PROVE  p * d >= 0
OBVIOUS

LEMMA DifferenceOfZero ==
  ASSUME NEW a \in Int, NEW p \in Nat, NEW d, d = 0, a >= -p
  PROVE  a - d >= -p
OBVIOUS

\* The delays nextDelay returns.
LEMMA DelayFacts ==
  ASSUME NEW r \in 0..Weeks, NEW a \in -Period..Late, NEW s \in -1..Delayed + 1
  PROVE  /\ NextDelay(r, a, s) \in 0..Max({Period, Interval, Fallback})
         /\ a <= 0 \/ s <= Delayed =>
              NextDelay(r, a, s) <= Interval \/ NextDelay(r, a, s) + a <= -PreReset
<1>1. CASE a < -PreReset
  <2>1. -PreReset - a \in Nat /\ -PreReset - a <= Period
    BY <1>1, Times DEF Late
  <2>2. Max({-PreReset - a, Interval}) \in {-PreReset - a, Interval}
    BY <2>1, Times, MaxOfTwo
  <2>3. NextDelay(r, a, s) \in {-PreReset - a, Interval}
    BY <1>1, <2>2 DEF NextDelay
  <2> HIDE DEF Late
  <2>4. a \in Int
    BY Times DEF Late
  <2> QED BY <2>1, <2>3, <2>4, Longest, Times
<1>2. CASE ~(a < -PreReset)
  <2>1. NextDelay(r, a, s) \in {Interval, Fallback}
        /\ (a <= 0 \/ s <= Delayed => NextDelay(r, a, s) = Interval)
    BY <1>2 DEF NextDelay
  <2> QED BY <2>1, Longest, Times
<1> QED BY <1>1, <1>2

-----------------------------------------------------------------------------
(* The end of a poll *)

\* What a poll that ends leaves behind: the next state of the scheduler fits what is
\* known of the rotation by then.
LEMMA PollEndsFits ==
  ASSUME ShrineTypes, DelayFits, pc # "idle", PollEnds,
         rotation' \in 0..Weeks, age' \in -Period..Late,
         rotation' # rotation \/ age' = age,
         rotation' # rotation => before = rotation /\ rotation' # 0
  PROVE  /\ since' \in -1..Delayed + 1
         /\ timer' \in -1..Max({Period, Interval, Fallback})
         /\ pc' = "idle" /\ attempt' \in 0..Retries + 1 /\ before' = 0
         /\ UNCHANGED <<started, stopped>>
         /\ DelayFits' /\ TimerFits'
<1> DEFINE changed == before # 0 /\ rotation' # before
           s == Since(changed, rotation', age')
<1>1. pc' = "idle" /\ attempt' = 0 /\ before' = 0 /\ UNCHANGED <<started, stopped>>
  BY DEF PollEnds
<1>2. 0 \in 0..Retries + 1
  BY Times
<1>3. /\ since \in -1..Delayed + 1 /\ age \in -Period..Late /\ rotation \in 0..Weeks
      /\ age \in Int /\ age' \in Int /\ since \in Int
  BY Times DEF ShrineTypes, Late
<1>4. ~stopped /\ ~changed /\ since # -1 => rotation' # 0 /\ since <= age'
  BY <1>3 DEF DelayFits
<1>5. CASE stopped
  <2>1. since' = since /\ timer' = timer
    BY <1>5 DEF PollEnds
  <2> QED BY <1>1, <1>2, <1>5, <2>1 DEF ShrineTypes, DelayFits, TimerFits
<1>6. CASE ~stopped
  <2>1. s \in -1..Delayed + 1 /\ (s # -1 => rotation' # 0 /\ s <= age')
    <3>1. CASE s = 0 /\ rotation' # 0 /\ age' > 0
      BY <3>1, Times
    <3>2. CASE ~(s = 0 /\ rotation' # 0 /\ age' > 0)
      <4>1. s = (IF changed THEN -1 ELSE since)
        BY <3>2 DEF Since
      <4> HIDE DEF s, changed
      <4>2. CASE changed
        BY <4>1, <4>2, Times
      <4>3. CASE ~changed
        BY <1>3, <1>4, <1>6, <4>1, <4>3
      <4> QED BY <4>2, <4>3
    <3> QED BY <3>1, <3>2
  <2>2. since' = s /\ timer' = NextDelay(rotation', age', s)
    BY <1>6 DEF PollEnds
  <2> HIDE DEF s
  <2>3. age' <= Delayed => s <= Delayed \/ age' <= 0
    BY <1>3, <2>1, Times
  <2>4. timer' \in 0..Max({Period, Interval, Fallback})
        /\ (age' <= Delayed => timer' <= Interval \/ timer' + age' <= -PreReset)
    BY <2>1, <2>2, <2>3, DelayFacts
  <2>5. timer' \in -1..Max({Period, Interval, Fallback}) /\ timer' >= 0
    BY <2>4, Longest
  <2>6. DelayFits'
    BY <1>1, <2>1, <2>2 DEF DelayFits
  <2> QED BY <1>1, <1>2, <2>1, <2>2, <2>4, <2>5, <2>6 DEF TimerFits
<1> QED BY <1>5, <1>6

\* A poll that ends without anything new.
LEMMA QuietEnd ==
  ASSUME ShrineInv, pc # "idle", PollEnds, UNCHANGED <<world, service>>
  PROVE  ShrineInv'
<1> USE DEF ShrineInv, world, service
<1>1. rotation' = rotation /\ age' = age /\ rotation \in 0..Weeks /\ age \in -Period..Late
  BY DEF ShrineTypes
<1>2. /\ since' \in -1..Delayed + 1
      /\ timer' \in -1..Max({Period, Interval, Fallback})
      /\ pc' = "idle" /\ attempt' \in 0..Retries + 1 /\ before' = 0
      /\ UNCHANGED <<started, stopped>>
      /\ DelayFits' /\ TimerFits'
  BY <1>1, PollEndsFits
<1>3. ShrineTypes'
  BY <1>2, Times DEF ShrineTypes
<1>4. Known' /\ AgeFits' /\ PostsFit'
  BY <1>2 DEF Known, AgeFits, PostsFit, PostedOnce
<1> QED BY <1>2, <1>3, <1>4

\* Adopting the published rotation, during a poll that is not stopped.
LEMMA AdoptFits ==
  ASSUME ShrineInv, pc = "fetch", ~stopped, Adopt(published), UNCHANGED world
  PROVE  /\ rotation' = published /\ published \in 1..Weeks /\ age' \in -Period..Late
         /\ rotation' # rotation \/ age' = age
         /\ before = rotation
         /\ AgeFits'
         /\ rotation' # rotation => posts[rotation'] = 0
<1> USE DEF ShrineInv, world
<1>1. /\ rotation' = published /\ published' = published
      /\ published \in 1..Weeks /\ rotation \in 0..Weeks /\ published \in Int /\ rotation \in Int
      /\ age \in -Period..Late /\ age \in Int /\ Period \in Nat /\ Late \in Int
  BY Times DEF Adopt, ShrineTypes, Late
<1>2. before = rotation
  BY DEF DelayFits
<1>3. Period * (published' - rotation') = 0
  <2>1. published' - rotation' = 0
    BY <1>1
  <2> QED BY <1>1, <2>1
<1>4. CASE rotation = 0
  <2>1. age' \in -Period..Late
    BY <1>4 DEF Adopt
  <2>2. AgeFits'
    <3>1. age' \in Int /\ age' >= -Period
      BY <1>1, <2>1
    <3> QED BY <1>1, <1>3, <3>1, DifferenceOfZero DEF AgeFits
  <2> QED BY <1>1, <1>2, <1>4, <2>1, <2>2, Times DEF PostsFit
<1>5. CASE rotation # 0
  <2> DEFINE late == Period * (published - rotation)
  <2>1. published - rotation \in Nat
    BY <1>1 DEF Known
  <2>2. late \in Int /\ late >= 0
    BY <1>1, <2>1, ProductPositive
  <2>3. age' = age - late /\ age - late >= -Period
    BY <1>5 DEF Adopt, AgeFits
  <2>4. rotation = published => late = 0
    <3>1. rotation = published => published - rotation = 0
      BY <1>1
    <3> QED BY <1>1, <3>1
  <2> HIDE DEF late
  <2>5. age' \in -Period..Late
    BY <1>1, <2>2, <2>3
  <2>6. AgeFits'
    <3>1. age' \in Int /\ age' >= -Period
      BY <1>1, <2>5
    <3> QED BY <1>1, <1>3, <3>1, DifferenceOfZero DEF AgeFits
  <2>7. rotation' # rotation \/ age' = age
    BY <1>1, <2>3, <2>4
  <2>8. rotation' # rotation => rotation' > rotation
    BY <1>1, <2>1
  <2> QED BY <1>1, <1>2, <2>5, <2>6, <2>7, <2>8, Times DEF PostsFit
<1> QED BY <1>4, <1>5

\* A poll that ends with the rotation it adopted.
LEMMA AdoptEnds ==
  ASSUME ShrineInv, pc = "fetch", ~stopped, Adopt(published), UNCHANGED world, PollEnds,
         announced' \in 0..Weeks, first' \in 0..Weeks, announced' = rotation'
  PROVE  ShrineInv'
<1> USE DEF ShrineInv, world
<1>1. /\ rotation' = published /\ published \in 1..Weeks /\ age' \in -Period..Late
      /\ rotation' # rotation \/ age' = age
      /\ before = rotation
      /\ AgeFits'
      /\ rotation' # rotation => posts[rotation'] = 0
  BY AdoptFits
<1>2. rotation' \in 0..Weeks /\ rotation' # 0 /\ rotation \in 0..Weeks
  BY <1>1, Times DEF ShrineTypes
<1>3. /\ since' \in -1..Delayed + 1
      /\ timer' \in -1..Max({Period, Interval, Fallback})
      /\ pc' = "idle" /\ attempt' \in 0..Retries + 1 /\ before' = 0
      /\ UNCHANGED <<started, stopped>>
      /\ DelayFits' /\ TimerFits'
  BY <1>1, <1>2, PollEndsFits
<1>4. ShrineTypes'
  BY <1>1, <1>2, <1>3, Times DEF ShrineTypes
<1>5. Known'
  BY <1>1, <1>3, <1>2 DEF Known
<1>6. PostsFit'
  <2>1. rotation <= rotation' /\ rotation \in Int /\ rotation' \in Int /\ Weeks \in Int
    BY <1>1, <1>2, Times DEF Known
  <2> QED BY <1>1, <1>3, <2>1 DEF PostsFit, PostedOnce
<1> QED BY <1>1, <1>3, <1>4, <1>5, <1>6

\* A poll that goes on to announce the rotation it adopted.
LEMMA AdoptAnnounces ==
  ASSUME ShrineInv, pc = "fetch", ~stopped, Adopt(published), UNCHANGED world,
         pc' = "announce", UNCHANGED <<scheduler, attempt, before>>,
         announced' \in 0..Weeks, first' \in 0..Weeks,
         rotation' # rotation \/ announced # rotation
  PROVE  ShrineInv'
<1> USE DEF ShrineInv, world, scheduler
<1>1. /\ rotation' = published /\ published \in 1..Weeks /\ age' \in -Period..Late
      /\ rotation' # rotation \/ age' = age
      /\ before = rotation
      /\ AgeFits'
      /\ rotation' # rotation => posts[rotation'] = 0
  BY AdoptFits
<1>2. rotation' \in 0..Weeks /\ rotation' # 0 /\ rotation \in 0..Weeks
  BY <1>1, Times DEF ShrineTypes
<1>3. ShrineTypes'
  BY <1>1, <1>2, Times DEF ShrineTypes
<1>4. Known' /\ DelayFits' /\ TimerFits'
  BY <1>1, <1>2 DEF Known, DelayFits, TimerFits
<1>5. PostsFit'
  <2>1. rotation <= rotation' /\ rotation \in Int /\ rotation' \in Int /\ Weeks \in Int
        /\ lost \in Nat /\ lost' = lost
    BY <1>1, <1>2, Times DEF Known, ShrineTypes
  <2>2. posts'[rotation'] <= lost'
    BY <1>1, <1>2, <2>1 DEF PostsFit
  <2> QED BY <1>1, <2>1, <2>2 DEF PostsFit, PostedOnce
<1> QED BY <1>1, <1>3, <1>4, <1>5

\* A message that arrives, with or without its reply.
LEMMA PostKeeps ==
  ASSUME ShrineInv, pc = "send", PollEnds,
         posts' = [posts EXCEPT ![rotation] = @ + 1],
         UNCHANGED <<published, rotation, age, first>>, announced' \in 0..Weeks,
         \/ lost' = lost + 1 /\ lost' \in 0..MaxLost /\ announced' = announced
         \/ lost' = lost /\ (stopped \/ announced' = rotation)
  PROVE  ShrineInv'
<1> USE DEF ShrineInv
<1>0. rotation \in 0..Weeks /\ age \in -Period..Late /\ lost \in 0..MaxLost
      /\ posts \in [1..Weeks -> Nat]
  BY DEF ShrineTypes
<1>1. /\ rotation \in 1..Weeks /\ rotation \in 0..Weeks /\ age \in -Period..Late
      /\ lost \in Nat /\ lost' \in Nat /\ lost <= lost' /\ lost' \in 0..MaxLost
      /\ posts \in [1..Weeks -> Nat]
  <2>1. rotation # 0
    BY DEF Known
  <2>2. rotation \in 1..Weeks
    BY <1>0, <2>1, Times
  <2>3. lost \in Nat
    BY <1>0, Times
  <2>4. lost' \in Nat /\ lost <= lost' /\ lost' \in 0..MaxLost
    BY <1>0, <2>3, Times
  <2> QED BY <1>0, <2>2, <2>3, <2>4
<1>2. /\ since' \in -1..Delayed + 1
      /\ timer' \in -1..Max({Period, Interval, Fallback})
      /\ pc' = "idle" /\ attempt' \in 0..Retries + 1 /\ before' = 0
      /\ UNCHANGED <<started, stopped>>
      /\ DelayFits' /\ TimerFits'
  BY <1>1, PollEndsFits
<1>3. /\ posts' \in [1..Weeks -> Nat] /\ posts[rotation] <= lost
      /\ posts'[rotation] = posts[rotation] + 1
      /\ \A w \in 1..Weeks : w # rotation => posts'[w] = posts[w]
      /\ \A w \in 1..Weeks : posts[w] \in Nat
  BY <1>1 DEF PostsFit
<1>4. ShrineTypes'
  <2>1. 0 \in 0..Weeks
    BY Times
  <2>2. {rotation, announced, first, before}' \subseteq 0..Weeks
    BY <1>1, <1>2, <2>1 DEF ShrineTypes
  <2> QED BY <1>1, <1>2, <1>3, <2>2 DEF ShrineTypes
<1>5. Known' /\ AgeFits'
  BY <1>2 DEF Known, AgeFits
<1>6. PostsFit'
  <2>1. PostedOnce'
    <3>1. \A w \in 1..Weeks : posts[w] <= 1 + lost
      BY DEF PostsFit, PostedOnce
    <3> QED BY <1>1, <1>3, <3>1 DEF PostedOnce
  <2>2. \A w \in 1..Weeks : w > rotation' => posts'[w] = 0
    BY <1>1, <1>3 DEF PostsFit
  <2>3. ~stopped /\ announced' # rotation => posts'[rotation] <= lost'
    BY <1>1, <1>3
  <2> QED BY <1>2, <2>1, <2>2, <2>3 DEF PostsFit
<1> QED BY <1>2, <1>4, <1>5, <1>6

-----------------------------------------------------------------------------
(* The invariant *)

LEMMA ShrineInitially == ShrineInit => ShrineInv
<1> SUFFICES ASSUME ShrineInit PROVE ShrineInv
  OBVIOUS
<1> USE DEF ShrineInit
<1>1. ShrineTypes
  <2>1. 1 \in 1..Weeks /\ 0 \in 0..Weeks /\ 0 \in 0..MaxLost /\ 0 \in 0..Retries + 1
        /\ 0 \in -Period..Late /\ -1 \in -1..Delayed + 1
    BY Times DEF Late
  <2>2. -1 \in -1..Max({Period, Interval, Fallback})
    BY Longest
  <2> QED BY <2>1, <2>2 DEF ShrineTypes
<1>2. PostsFit
  BY Times DEF PostsFit, PostedOnce
<1> QED BY <1>1, <1>2, Times DEF ShrineInv, Known, AgeFits, DelayFits, TimerFits

\* A poll begins.
LEMMA PollBegins ==
  ASSUME ShrineInv, pc = "idle", RunPoll, ~stopped', started', stopped' = stopped, since' = since,
         timer' = timer \/ timer' = -1
  PROVE  ShrineInv'
<1> USE DEF ShrineInv, RunPoll, world, service
<1>1. 1 \in 0..Retries + 1 /\ -1 \in -1..Max({Period, Interval, Fallback})
  BY Times, Longest
<1>2. ShrineTypes'
  BY <1>1 DEF ShrineTypes
<1> QED BY <1>2 DEF Known, AgeFits, PostsFit, PostedOnce, DelayFits, TimerFits

LEMMA TickKeeps ==
  ASSUME ShrineInv, Tick
  PROVE  ShrineInv'
<1> USE DEF ShrineInv, Tick, world
<1>1. /\ age \in -Period..Late /\ timer \in -1..Max({Period, Interval, Fallback})
      /\ since \in -1..Delayed + 1 /\ rotation \in 0..Weeks
      /\ Max({Period, Interval, Fallback}) \in Nat /\ Late \in Nat /\ Delayed \in Nat
      /\ Delayed + 1 < Late
  BY Times, Longest DEF ShrineTypes, Late
<1>2. timer' \in -1..Max({Period, Interval, Fallback})
  BY <1>1
<1>3. Min({age + 1, Late}) \in {age + 1, Late} /\ Min({age + 1, Late}) <= age + 1
      /\ Min({age + 1, Late}) <= Late
  <2>1. age + 1 \in Int /\ Late \in Int
    BY <1>1, Times
  <2> QED BY <2>1, MinOfTwo
<1>4. age' \in -Period..Late /\ age <= age' /\ age' <= age + 1
  BY <1>1, <1>3, Times
<1>5. Min({since + 1, Delayed + 1}) \in {since + 1, Delayed + 1}
      /\ Min({since + 1, Delayed + 1}) <= since + 1
      /\ Min({since + 1, Delayed + 1}) <= Delayed + 1
  <2>1. since + 1 \in Int /\ Delayed + 1 \in Int
    BY <1>1
  <2> QED BY <2>1, MinOfTwo
<1>6. since' \in -1..Delayed + 1
  BY <1>1, <1>5
<1>7. ShrineTypes'
  BY <1>2, <1>4, <1>6 DEF ShrineTypes
<1>8. Known' /\ PostsFit'
  BY DEF Known, PostsFit, PostedOnce
<1>9. AgeFits'
  <2> DEFINE late == Period * (published - rotation)
  <2>0. Period \in Int /\ published \in Int /\ rotation \in Int
    BY Times DEF ShrineTypes
  <2>1. late \in Int /\ (rotation # 0 => age - late >= -Period)
    <3>1. late \in Int
      BY <2>0
    <3>2. rotation # 0 => age - late >= -Period
      BY DEF AgeFits
    <3> QED BY <3>1, <3>2
  <2> HIDE DEF late
  <2>2. rotation # 0 => age' - late >= -Period
    BY <1>1, <1>4, <2>1, Times
  <2> QED BY <2>2 DEF AgeFits, late
<1>10. DelayFits'
  <2>1. pc' = "idle" /\ before' = 0
    BY DEF DelayFits
  <2>2. ASSUME ~stopped, since' # -1 PROVE rotation' # 0 /\ since' <= age'
    <3>1. since # -1 /\ rotation # 0 /\ since <= age
      BY <2>2 DEF DelayFits
    <3>2. age' = Min({age + 1, Late}) /\ since' = Min({since + 1, Delayed + 1})
      BY <3>1
    <3> QED BY <1>1, <1>3, <1>5, <3>1, <3>2
  <2> QED BY <2>1, <2>2 DEF DelayFits
<1>11. TimerFits'
  <2> SUFFICES ASSUME started, ~stopped, rotation # 0
               PROVE  timer' >= 0
                      /\ (age' <= Delayed => timer' <= Interval \/ timer' + age' <= -PreReset)
    BY DEF TimerFits
  <2>1. timer >= 0 /\ (age <= Delayed => timer <= Interval \/ timer + age <= -PreReset)
    BY DEF TimerFits
  <2>2. timer' = timer - 1 /\ timer' >= 0
    BY <1>1, <2>1
  <2> QED BY <1>1, <1>4, <2>1, <2>2, Times
<1> QED BY <1>7, <1>8, <1>9, <1>10, <1>11

LEMMA PublishKeeps ==
  ASSUME ShrineInv, Publish
  PROVE  ShrineInv'
<1> USE DEF ShrineInv, Publish, service, scheduler
<1>1. published \in 1..Weeks /\ published' \in 1..Weeks /\ rotation \in 0..Weeks
      /\ published' = published + 1 /\ published' - rotation = (published - rotation) + 1
      /\ published - rotation \in Int /\ Period \in Int /\ age \in Int
  BY Times DEF ShrineTypes, Late
<1>2. ShrineTypes'
  BY <1>1 DEF ShrineTypes
<1>3. Known'
  BY <1>1 DEF Known
<1>4. AgeFits'
  <2> DEFINE late == Period * (published - rotation)
  <2>1. Period * (published' - rotation) = late + Period /\ late \in Int
    BY <1>1, ProductStep
  <2>2. rotation = 0 \/ age - late >= 0
    OBVIOUS
  <2> HIDE DEF late
  <2>3. rotation # 0 => age - (late + Period) >= -Period
    BY <1>1, <2>1, <2>2
  <2> QED BY <2>1, <2>3 DEF AgeFits
<1>5. PostsFit' /\ DelayFits' /\ TimerFits'
  BY DEF PostsFit, PostedOnce, DelayFits, TimerFits
<1> QED BY <1>2, <1>3, <1>4, <1>5

LEMMA ShrineStep ==
  ASSUME ShrineInv, [ShrineNext]_shrineVars
  PROVE  ShrineInv'
<1> USE DEF ShrineInv
<1>1. ASSUME NEW enabled \in BOOLEAN, Start(enabled) PROVE ShrineInv'
  <2>1. pc = "idle" /\ ~stopped /\ ~started
    BY <1>1 DEF Start, Known
  <2>2. CASE enabled
    BY <1>1, <2>1, <2>2, PollBegins DEF Start
  <2>3. CASE ~enabled
    <3>1. UNCHANGED <<world, service, since, timer, stopped, pc, attempt, before>> /\ started'
      BY <1>1, <2>3 DEF Start
    <3>2. ShrineTypes'
      BY <3>1 DEF ShrineTypes, world, service
    <3>3. rotation = 0
      BY <2>1 DEF Known
    <3> QED BY <2>1, <3>1, <3>2, <3>3 DEF world, service, Known, AgeFits, PostsFit, PostedOnce, DelayFits, TimerFits
  <2> QED BY <2>2, <2>3
<1>2. CASE TimerFires
  <2>1. started
    BY <1>2 DEF TimerFires, Known
  <2> QED BY <1>2, <2>1, PollBegins DEF TimerFires
<1>3. CASE Stop
  <2>1. ShrineTypes'
    BY <1>3, Longest DEF Stop, ShrineTypes, world, service
  <2> QED BY <1>3, <2>1 DEF Stop, world, service, Known, AgeFits, PostsFit, PostedOnce,
                            DelayFits, TimerFits
<1>4. CASE Tick
  BY <1>4, TickKeeps
<1>5. CASE Publish
  BY <1>5, PublishKeeps
<1>6. CASE NoConfig
  BY <1>6, QuietEnd DEF NoConfig
<1>7. CASE ConfigLoaded
  <2>1. ShrineTypes'
    BY <1>7 DEF ConfigLoaded, ShrineTypes, world, service, scheduler
  <2> QED BY <1>7, <2>1 DEF ConfigLoaded, world, service, scheduler, Known, AgeFits, PostsFit,
                            PostedOnce, DelayFits, TimerFits
<1>8. CASE FetchFails
  <2>1. CASE stopped \/ attempt > Retries
    BY <1>8, <2>1, QuietEnd DEF FetchFails
  <2>2. CASE ~(stopped \/ attempt > Retries)
    <3>1. attempt' = attempt + 1 /\ UNCHANGED <<world, service, scheduler, pc, before>>
      BY <1>8, <2>2 DEF FetchFails
    <3>2. attempt' \in 0..Retries + 1
      BY <2>2, <3>1, Times DEF ShrineTypes
    <3>3. ShrineTypes'
      BY <3>1, <3>2 DEF ShrineTypes, world, service, scheduler
    <3> QED BY <3>1, <3>3 DEF world, service, scheduler, Known, AgeFits, PostsFit, PostedOnce,
                              DelayFits, TimerFits
  <2> QED BY <2>1, <2>2
<1>9. ASSUME NEW forced \in BOOLEAN, pc = "fetch", ~stopped, Synchronize(forced) PROVE ShrineInv'
  <2>1. /\ rotation = 0 /\ Adopt(published) /\ UNCHANGED world
        /\ announced' = published /\ first' = published /\ rotation' = published
    BY <1>9 DEF Synchronize, Adopt
  <2>2. published \in 0..Weeks /\ published # 0
    BY Times DEF ShrineTypes
  <2>3. CASE forced
    BY <1>9, <2>1, <2>2, <2>3, AdoptAnnounces DEF Synchronize
  <2>4. CASE ~forced
    BY <1>9, <2>1, <2>2, <2>4, AdoptEnds DEF Synchronize
  <2> QED BY <2>3, <2>4
<1>10. ASSUME pc = "fetch", ~stopped, Compare PROVE ShrineInv'
  <2>1. /\ rotation # 0 /\ Adopt(published) /\ UNCHANGED world
        /\ announced' = announced /\ first' = first /\ rotation' = published
    BY <1>10 DEF Compare, Adopt
  <2>2. announced \in 0..Weeks /\ first \in 0..Weeks
    BY DEF ShrineTypes
  <2>3. CASE MustAnnounce(published)
    BY <1>10, <2>1, <2>2, <2>3, AdoptAnnounces DEF Compare, MustAnnounce
  <2>4. CASE ~MustAnnounce(published)
    BY <1>10, <2>1, <2>2, <2>4, AdoptEnds DEF Compare, MustAnnounce
  <2> QED BY <2>3, <2>4
<1>11. CASE FetchSucceeds
  BY <1>9, <1>10, <1>11, QuietEnd DEF FetchSucceeds
<1>12. CASE NotSent \/ SendFails
  BY <1>12, QuietEnd DEF NotSent, SendFails
<1>13. CASE Send
  <2>1. ShrineTypes'
    BY <1>13 DEF Send, ShrineTypes, world, service, scheduler
  <2> QED BY <1>13, <2>1 DEF Send, world, service, scheduler, Known, AgeFits, PostsFit,
                             PostedOnce, DelayFits, TimerFits
<1>14. CASE ReplyLost
  <2>1. lost' \in 0..MaxLost /\ announced \in 0..Weeks
    BY <1>14, Times DEF ReplyLost, ShrineTypes
  <2> QED BY <1>14, <2>1, PostKeeps DEF ReplyLost, service
<1>15. CASE Sent
  <2>1. announced \in 0..Weeks /\ rotation \in 0..Weeks
    BY DEF ShrineTypes
  <2> QED BY <1>15, <2>1, PostKeeps DEF Sent, Mark
<1>16. CASE UNCHANGED shrineVars
  BY <1>16 DEF shrineVars, world, service, scheduler, ShrineTypes, Known, AgeFits, PostsFit, PostedOnce,
               DelayFits, TimerFits
<1> QED BY <1>1, <1>2, <1>3, <1>4, <1>5, <1>6, <1>7, <1>8, <1>11, <1>12, <1>13, <1>14, <1>15,
           <1>16 DEF ShrineNext, Poll

\* The invariant of every behaviour.
THEOREM ShrineInvariant == ShrineSpec => []ShrineInv
<1>1. ShrineInit => ShrineInv
  BY ShrineInitially
<1>2. ShrineInv /\ [ShrineNext]_shrineVars => ShrineInv'
  BY ShrineStep
<1> QED BY <1>1, <1>2, PTL DEF ShrineSpec

-----------------------------------------------------------------------------
(* Theorems *)

\* The service and the scheduler keep the types of their fields
\* (shrine.service.ts:39-40, shrine-polling.scheduler.ts:7-11).
THEOREM ShrineTypesHold == ShrineSpec => []ShrineTypes
BY ShrineInvariant, PTL DEF ShrineInv

\* A week is announced once, and again only for a reply that was lost
\* (shrine.service.ts:95-126).
THEOREM AnnouncedOnce == ShrineSpec => []PostedOnce
BY ShrineInvariant, PTL DEF ShrineInv, PostsFit

\* Whatever the delays of the polls before were, the next poll is near when a rotation
\* ends or is late (shrine-polling.scheduler.ts:80-109).
THEOREM PollsAreNear == ShrineSpec => []PollsNearReset
<1>1. ShrineInv => PollsNearReset
  <2> SUFFICES ASSUME ShrineInv, started, ~stopped, pc = "idle", rotation # 0,
                      -PreReset <= age, age <= Delayed
               PROVE  0 <= timer /\ timer <= Interval
    BY DEF PollsNearReset
  <2>1. timer >= 0 /\ (timer <= Interval \/ timer + age <= -PreReset)
    BY DEF ShrineInv, TimerFits
  <2>2. timer \in Int /\ age \in Int /\ PreReset \in Nat /\ Interval \in Nat
    BY Times, Longest DEF ShrineInv, ShrineTypes, Late
  <2> QED BY <2>1, <2>2, Times
<1> QED BY <1>1, ShrineInvariant, PTL

\* A shutdown, wherever it finds a poll, keeps what comes back later from announcing,
\* repeating the request, polling again or setting a timer
\* (shrine-polling.scheduler.ts:33-64, shrine.service.ts:137,173).
THEOREM ShrineStaysQuiet == ShrineSpec => QuietAfterStop
<1> DEFINE TimerOff == stopped => timer = -1
           Quiet == stopped => /\ posts' # posts => pc = "send"
                               /\ pc' \in {"announce", "send"} => pc' = pc
                               /\ pc = "idle" => pc' = "idle"
                               /\ attempt' \in {attempt, 0}
                               /\ timer' = -1 /\ stopped'
<1>1. ShrineInit => TimerOff
  BY DEF ShrineInit
<1>2. ASSUME TimerOff, [ShrineNext]_shrineVars PROVE TimerOff' /\ [Quiet]_shrineVars
  <2>1. CASE ~stopped
    <3>1. stopped' => Stop \/ shrineVars' = shrineVars
      BY <1>2, <2>1 DEF ShrineNext, Poll, scheduler, Start, TimerFires, Tick, Publish, PollEnds, NoConfig,
            ConfigLoaded, FetchFails, FetchSucceeds, Synchronize, Compare, NotSent, Send, SendFails, ReplyLost, Sent
    <3> QED BY <2>1, <3>1 DEF Stop, shrineVars, scheduler
  <2>2. CASE stopped
    <3>1. timer = -1
      BY <1>2, <2>2
    <3>2. PollEnds => pc' = "idle" /\ attempt' = 0 /\ timer' = -1 /\ stopped'
      BY <2>2, <3>1 DEF PollEnds
    <3>3. Tick => timer' = -1
      BY <3>1 DEF Tick
    <3> QED BY <1>2, <2>2, <3>1, <3>2, <3>3 DEF ShrineNext, Poll, shrineVars, world, service, scheduler, Start,
          TimerFires, Stop, Tick, Publish, NoConfig, ConfigLoaded, FetchFails, FetchSucceeds, NotSent,
          Send, SendFails, ReplyLost, Sent
  <2> QED BY <2>1, <2>2
<1> QED BY <1>1, <1>2, PTL DEF ShrineSpec, QuietAfterStop

-----------------------------------------------------------------------------
(***************************************************************************)
(* Moderation and its log                                                    *)
(***************************************************************************)

Deletions == [by : Actors \cup {Bot}, channel : Channels, count : Nat, time : Nat]

\* The posts: of a command that the log keeps, of a bulk deletion, and all others.
ActPosts == [what : Logged, of : Calls]
BulkPosts == [what : {"bulk"}, of : Handlers, by : Actors \cup {Bot, NoOne}]
PlainPosts ==
  [what : {"edit", "joined", "left", "moved", "role added", "role removed", "nickname",
           "display name", "avatar"}, of : Handlers]
    \cup [what : {"delete"}, of : Handlers, archived : Nat]
Posts == ActPosts \cup BulkPosts \cup PlainPosts

EventHandler ==
  [at : {"idle", "archive", "pause", "fetch", "send", "done"}, todo : Seq(Posts), files : Nat,
   archived : Nat, due : Nat, found : SUBSET Deletions, read : Nat, deletion : Deletions \cup {<<>>}]

\* What the audit log may hold at t.
Recorded(t) == [entry : {d \in Deletions : d.time <= t}, shown : BOOLEAN]

Dids == {"nothing", "changed", "again"}

Invocation ==
  [at : {"idle", "resolve", "act", "answered", "reply", "over"}, kind : Kinds \cup {"none"},
   by : Moderators \cup {Bot}, target : Targets \cup Calls \cup {Bot}, did : Dids,
   told : {"nothing", "denied", "refused", "failed", "nothing found", "done"}]

CommandTypes ==
  /\ calls \in [Calls -> Invocation] /\ handlers \in [Handlers -> EventHandler]
  /\ posted \subseteq Posts /\ audit \subseteq Recorded(now) /\ now \in Nat

\* A handler sends what it has; one that looks for a moderator has its deletion behind it, and
\* what it has found stands in the audit log.
HandlerSound(h) ==
  /\ handlers[h].at = "send" => handlers[h].todo # <<>>
  /\ handlers[h].at \in {"pause", "fetch"} =>
       handlers[h].deletion \in Deletions /\ handlers[h].deletion.time <= now
  /\ handlers[h].at = "fetch" =>
       \A e \in handlers[h].found : \E a \in audit : a.entry = e

\* What a post of an act says of what the act did.
Tells(what, did) == did \in {"changed"} \cup IF what = "ban" THEN {"again"} ELSE {}

\* Before its act a command has done nothing, and its event comes after the act, before the
\* reply.
CallSound(i) ==
  /\ calls[i].at \in {"idle", "resolve", "act"} => calls[i].did = "nothing" /\ handlers[i].at = "idle"
  /\ calls[i].at = "answered" /\ calls[i].kind \in Logged =>
       Tells(calls[i].kind, calls[i].did) /\ handlers[i].at = "idle"
  /\ calls[i].kind \in Logged /\ calls[i].told = "done" => handlers[i].at # "idle"

\* What a post says, sent or about to be, is so.
InTime(h, entry) == entry.time <= handlers[h].read /\ handlers[h].read <= entry.time + Tolerance

Rightly(h, by) ==
  /\ handlers[h].at \in {"send", "done"} /\ handlers[h].deletion \in Deletions
  /\ \E a \in audit :
       /\ a.entry.by = by /\ a.entry.channel = handlers[h].deletion.channel
       /\ a.entry.count = handlers[h].deletion.count /\ InTime(h, a.entry)
       /\ handlers[h].deletion \in handlers[h].found /\ InTime(h, handlers[h].deletion) =>
            handlers[h].deletion.time <= a.entry.time

Truth(p) ==
  /\ p.what \in Logged => Tells(p.what, calls[p.of].did)
  /\ p.what = "bulk" /\ p.by # NoOne => Rightly(p.of, p.by)

WillTell(h) == \A k \in DOMAIN handlers[h].todo : Truth(handlers[h].todo[k])

TruthTold == (\A p \in posted : Truth(p)) /\ \A h \in Handlers : WillTell(h)

CommandsInv ==
  /\ CommandTypes /\ (\A h \in Handlers : HandlerSound(h)) /\ (\A i \in Calls : CallSound(i))
  /\ TruthTold

-----------------------------------------------------------------------------
(* Helpers *)

\* The handlers that an event may start.
LEMMA NewHandlers ==
  ASSUME CommandTypes
  PROVE  /\ Idle \in EventHandler /\ [Idle EXCEPT !.at = "done"] \in EventHandler
         /\ [Idle EXCEPT !.at = "done"].at = "done" /\ [Idle EXCEPT !.at = "done"].todo = <<>>
         /\ \A todo \in Seq(Posts) :
              /\ ToSend(todo) \in EventHandler /\ ToSend(todo).at \in {"send", "done"}
              /\ ToSend(todo).at = "send" => todo # <<>>
              /\ ToSend(todo).todo = todo /\ ToSend(todo).deletion = <<>>
<1>1. <<>> \in Seq(Posts)
  OBVIOUS
<1>2. Idle \in EventHandler
  BY <1>1 DEF Idle, EventHandler
<1>3. /\ [Idle EXCEPT !.at = "done"] \in EventHandler
      /\ [Idle EXCEPT !.at = "done"].at = "done" /\ [Idle EXCEPT !.at = "done"].todo = <<>>
  BY <1>1 DEF Idle, EventHandler
<1>4. ASSUME NEW todo \in Seq(Posts)
      PROVE  /\ ToSend(todo) \in EventHandler /\ ToSend(todo).at \in {"send", "done"}
             /\ ToSend(todo).at = "send" => todo # <<>>
             /\ ToSend(todo).todo = todo /\ ToSend(todo).deletion = <<>>
  <2>1. CASE todo = <<>>
    BY <1>1, <2>1 DEF Idle, EventHandler, ToSend
  <2>2. CASE todo # <<>>
    BY <2>2 DEF Idle, EventHandler, ToSend
  <2> QED BY <2>1, <2>2
<1> QED BY <1>2, <1>3, <1>4

\* What a step must keep of the truth: acts done stay done, what is sent or given up keeps its
\* deletion and what was found, and the audit log loses nothing.
Kept(h) ==
  handlers[h].at \in {"send", "done"} =>
    /\ handlers'[h].at \in {"send", "done"} /\ handlers'[h].deletion = handlers[h].deletion
    /\ handlers'[h].found = handlers[h].found /\ handlers'[h].read = handlers[h].read

StaysDone(i) == calls[i].did # "nothing" => calls'[i].did = calls[i].did

Faithful ==
  /\ \A i \in Calls : StaysDone(i)
  /\ \A h \in Handlers : Kept(h)
  /\ \A a \in audit : \E b \in audit' : b.entry = a.entry

LEMMA TruthKept ==
  ASSUME Faithful, NEW p \in Posts, Truth(p)
  PROVE  Truth(p)'
<1>1. p.what \in Logged => Tells(p.what, calls'[p.of].did)
  <2> SUFFICES ASSUME p.what \in Logged PROVE Tells(p.what, calls'[p.of].did)
    OBVIOUS
  <2>1. p.of \in Calls
    BY DEF Posts, ActPosts, BulkPosts, PlainPosts, Logged, MemberKinds
  <2>2. Tells(p.what, calls[p.of].did) /\ calls[p.of].did # "nothing"
    BY DEF Truth, Tells
  <2> QED BY <2>1, <2>2 DEF Faithful, StaysDone
<1>2. p.what = "bulk" /\ p.by # NoOne => Rightly(p.of, p.by)'
  <2> SUFFICES ASSUME p.what = "bulk", p.by # NoOne PROVE Rightly(p.of, p.by)'
    OBVIOUS
  <2>1. p.of \in Handlers
    BY DEF Posts, ActPosts, BulkPosts, PlainPosts, Logged, MemberKinds
  <2>2. Rightly(p.of, p.by)
    BY DEF Truth
  <2>3. /\ handlers'[p.of].at \in {"send", "done"}
        /\ handlers'[p.of].deletion = handlers[p.of].deletion
        /\ handlers'[p.of].found = handlers[p.of].found /\ handlers'[p.of].read = handlers[p.of].read
    BY <2>1, <2>2 DEF Faithful, Rightly, Kept
  <2>4. PICK a \in audit :
          /\ a.entry.by = p.by /\ a.entry.channel = handlers[p.of].deletion.channel
          /\ a.entry.count = handlers[p.of].deletion.count /\ InTime(p.of, a.entry)
          /\ handlers[p.of].deletion \in handlers[p.of].found
               /\ InTime(p.of, handlers[p.of].deletion) => handlers[p.of].deletion.time <= a.entry.time
    BY <2>2 DEF Rightly
  <2>5. PICK b \in audit' : b.entry = a.entry
    BY <2>4 DEF Faithful
  <2> QED BY <2>2, <2>3, <2>4, <2>5 DEF Rightly, InTime
<1> QED BY <1>1, <1>2 DEF Truth

\* A handler that a step moves.
Moved(h) ==
  HandlerSound(h)' /\ WillTell(h)' /\ Kept(h)

\* A step keeps the invariant when the handlers and the commands it moves do.
LEMMA Moves ==
  ASSUME CommandsInv, CommandTypes', now <= now',
         \A h \in Handlers : handlers'[h] = handlers[h] \/ Moved(h),
         \A i \in Calls : \/ calls'[i] = calls[i] /\ handlers'[i] = handlers[i]
                          \/ StaysDone(i) /\ CallSound(i)',
         \A p \in posted' : p \in posted \/ Truth(p),
         \A a \in audit : \E b \in audit' : b.entry = a.entry
  PROVE  CommandsInv'
<1>1. Faithful
  BY DEF Faithful, Moved, Kept, StaysDone
<1>2. posted' \subseteq Posts /\ handlers \in [Handlers -> EventHandler] /\ now \in Nat /\ now' \in Nat
  BY DEF CommandTypes, CommandsInv
<1>3. \A p \in posted' : Truth(p)'
  <2> SUFFICES ASSUME NEW p \in posted' PROVE Truth(p)'
    OBVIOUS
  <2>1. p \in Posts /\ Truth(p)
    BY <1>2 DEF CommandsInv, TruthTold
  <2> QED BY <1>1, <2>1, TruthKept
<1>4. \A h \in Handlers : WillTell(h)'
  <2> SUFFICES ASSUME NEW h \in Handlers, handlers'[h] = handlers[h] PROVE WillTell(h)'
    BY DEF Moved
  <2>1. handlers[h].todo \in Seq(Posts)
    BY <1>2 DEF EventHandler
  <2>2. WillTell(h)
    BY DEF CommandsInv, TruthTold
  <2>3. \A k \in DOMAIN handlers[h].todo : handlers[h].todo[k] \in Posts
    BY <2>1
  <2>4. \A k \in DOMAIN handlers[h].todo : Truth(handlers[h].todo[k])
    BY <2>2 DEF WillTell
  <2>5. \A p \in Posts : Truth(p) => Truth(p)'
    BY <1>1, TruthKept
  <2>6. \A k \in DOMAIN handlers'[h].todo : \E p \in Posts : p = handlers'[h].todo[k] /\ Truth(p)'
    BY <2>3, <2>4, <2>5
  <2> QED BY <2>6 DEF WillTell
<1>5. \A h \in Handlers : HandlerSound(h)'
  <2> SUFFICES ASSUME NEW h \in Handlers, handlers'[h] = handlers[h] PROVE HandlerSound(h)'
    BY DEF Moved
  <2>1. HandlerSound(h)
    BY DEF CommandsInv
  <2>2. handlers[h].deletion \in Deletions => handlers[h].deletion.time \in Nat
    BY DEF Deletions
  <2>3. \A e : (\E a \in audit : a.entry = e) => \E b \in audit' : b.entry = e
    BY <1>1 DEF Faithful
  <2> QED BY <1>2, <2>1, <2>2, <2>3 DEF HandlerSound
<1>6. \A i \in Calls : CallSound(i)'
  <2> SUFFICES ASSUME NEW i \in Calls, calls'[i] = calls[i], handlers'[i] = handlers[i] PROVE CallSound(i)'
    OBVIOUS
  <2>1. CallSound(i)
    BY DEF CommandsInv
  <2> QED BY <2>1 DEF CallSound
<1> QED BY <1>3, <1>4, <1>5, <1>6 DEF CommandsInv, TruthTold

\* A step of one handler, which was not idle or is no command's.
LEMMA HandlerMoves ==
  ASSUME CommandsInv, NEW h \in Handlers, NEW new \in EventHandler,
         handlers' = [handlers EXCEPT ![h] = new],
         UNCHANGED <<calls, now>>, Moved(h), new.at # "idle", h \in Calls => handlers[h].at # "idle",
         posted' \subseteq Posts, \A p \in posted' : p \in posted \/ Truth(p),
         audit' \subseteq Recorded(now'),
         \A a \in audit : \E b \in audit' : b.entry = a.entry
  PROVE  CommandsInv'
<1>0. handlers \in [Handlers -> EventHandler] /\ now \in Nat
  BY DEF CommandsInv, CommandTypes
<1>1. handlers' \in [Handlers -> EventHandler] /\ handlers'[h] = new
  BY <1>0
<1>2. CommandTypes'
  BY <1>1 DEF CommandsInv, CommandTypes
<1>3. \A g \in Handlers : handlers'[g] = handlers[g] \/ Moved(g)
  BY <1>0
<1>4. \A i \in Calls : \/ calls'[i] = calls[i] /\ handlers'[i] = handlers[i]
                       \/ StaysDone(i) /\ CallSound(i)'
  <2> SUFFICES ASSUME NEW i \in Calls PROVE \/ calls'[i] = calls[i] /\ handlers'[i] = handlers[i]
                                            \/ StaysDone(i) /\ CallSound(i)'
    OBVIOUS
  <2>1. CASE i # h
    BY <1>0, <2>1, ModerationAssumption
  <2>2. CASE i = h
    <3>1. CallSound(i) /\ handlers'[i].at # "idle" /\ handlers[i].at # "idle" /\ calls' = calls
      BY <1>1, <2>2 DEF CommandsInv
    <3> QED BY <3>1 DEF CallSound, StaysDone
  <2> QED BY <2>1, <2>2
<1> QED BY <1>0, <1>2, <1>3, <1>4, Moves

\* An event of the guild that is only to be posted.
LEMMA PlainEvent ==
  ASSUME CommandsInv, NEW h \in Handlers \ Calls, NEW what \in Seq(PlainPosts),
         Handle(h, ToSend(what)), UNCHANGED <<calls, posted, audit, now>>
  PROVE  CommandsInv'
<1> DEFINE new == IF active /\ configured THEN ToSend(what) ELSE [Idle EXCEPT !.at = "done"]
<1>1. what \in Seq(Posts) /\ \A k \in DOMAIN what : what[k] \in PlainPosts
  BY DEF Posts
<1>2. handlers' = [handlers EXCEPT ![h] = new] /\ handlers[h].at = "idle"
  BY DEF Handle, Free
<1>3. /\ new \in EventHandler /\ new.at \in {"send", "done"} /\ (new.at = "send" => new.todo # <<>>)
      /\ new.todo \in {what, <<>>}
  BY <1>1, NewHandlers DEF CommandsInv
<1>4. handlers'[h] = new
  BY <1>2 DEF CommandsInv, CommandTypes
<1> HIDE DEF new
<1>5. \A k \in DOMAIN new.todo : new.todo[k] \in PlainPosts
  BY <1>1, <1>3
<1>6. \A p \in PlainPosts : Truth(p)'
  BY DEF PlainPosts, Truth, Logged, MemberKinds
<1>7. WillTell(h)'
  BY <1>4, <1>5, <1>6 DEF WillTell
<1>8. Moved(h)
  BY <1>2, <1>3, <1>4, <1>7 DEF Moved, Kept, HandlerSound
<1>9. PICK n \in EventHandler : n = new
  BY <1>3
<1> QED BY <1>2, <1>3, <1>8, <1>9, HandlerMoves DEF CommandsInv, CommandTypes

\* A step of one command at Discord or in the database.
LEMMA CallMoves ==
  ASSUME CommandsInv, NEW i \in Calls, NEW new \in Invocation, calls' = [calls EXCEPT ![i] = new],
         UNCHANGED logVars, calls[i].did # "nothing" => new.did = calls[i].did,
         CallSound(i)'
  PROVE  CommandsInv'
<1>0. calls \in [Calls -> Invocation] /\ now \in Nat
  BY DEF CommandsInv, CommandTypes
<1>1. CommandTypes'
  BY <1>0 DEF CommandsInv, CommandTypes, logVars
<1>2. \A g \in Calls : \/ calls'[g] = calls[g] /\ handlers'[g] = handlers[g]
                       \/ StaysDone(g) /\ CallSound(g)'
  <2> SUFFICES ASSUME NEW g \in Calls PROVE \/ calls'[g] = calls[g] /\ handlers'[g] = handlers[g]
                                            \/ StaysDone(g) /\ CallSound(g)'
    OBVIOUS
  <2>1. CASE g # i
    BY <1>0, <2>1 DEF logVars
  <2>2. CASE g = i
    BY <1>0, <2>2 DEF StaysDone
  <2> QED BY <2>1, <2>2
<1> QED BY <1>0, <1>1, <1>2, Moves DEF logVars

\* The posts of an update of a member are plain.
LEMMA MemberPostsPlain ==
  ASSUME NEW h \in Handlers, NEW what, NEW wanted
  PROVE  MemberPosts(h, what, wanted) \in Seq(PlainPosts)
<1>1. \A c \in {"role added", "role removed", "nickname", "display name", "avatar"} :
        MemberPost(h, c) \in PlainPosts
  BY DEF MemberPost, PlainPosts
<1>2. \A p \in PlainPosts : <<p>> \in Seq(PlainPosts)
  OBVIOUS
<1>3. <<>> \in Seq(PlainPosts) /\ \A s, t \in Seq(PlainPosts) : s \o t \in Seq(PlainPosts)
  OBVIOUS
<1>4. \A c \in {"role added", "role removed", "nickname", "avatar"} :
        PostOf(h, c, what) \in Seq(PlainPosts)
  BY <1>1, <1>2, <1>3 DEF PostOf
<1>5. NicknamePosts(h, what) \in Seq(PlainPosts) /\ AvatarPosts(h, what) \in Seq(PlainPosts)
  BY <1>4 DEF NicknamePosts, AvatarPosts
<1>6. DisplayNamePosts(h, what) \in Seq(PlainPosts)
  BY <1>1, <1>2, <1>3 DEF DisplayNamePosts
<1>7. RolePosts(h, what, wanted) \in Seq(PlainPosts)
  <2>1. PostOf(h, "role added", what) \in Seq(PlainPosts)
    BY <1>4
  <2>2. PostOf(h, "role removed", what) \in Seq(PlainPosts)
    BY <1>4
  <2>3. PostOf(h, "role added", what) \o PostOf(h, "role removed", what) \in Seq(PlainPosts)
    BY <1>3, <2>1, <2>2
  <2> QED BY <1>3, <2>3 DEF RolePosts
<1>8. RolePosts(h, what, wanted) \o NicknamePosts(h, what) \in Seq(PlainPosts)
  BY <1>5, <1>7
<1>9. RolePosts(h, what, wanted) \o NicknamePosts(h, what) \o DisplayNamePosts(h, what)
        \in Seq(PlainPosts)
  BY <1>6, <1>8
<1>10. RolePosts(h, what, wanted) \o NicknamePosts(h, what) \o DisplayNamePosts(h, what)
         \o AvatarPosts(h, what) \in Seq(PlainPosts)
  BY <1>5, <1>9
<1> QED BY <1>10 DEF MemberPosts

\* An event has started its handler, and the audit log may have grown.
Started(h) ==
  \E new \in EventHandler :
    /\ handlers' = [handlers EXCEPT ![h] = new] /\ new.at # "idle" /\ handlers[h].at = "idle"
    /\ Moved(h) /\ UNCHANGED <<posted, now>>
    /\ audit' \subseteq Recorded(now')
    /\ \A a \in audit : \E b \in audit' : b.entry = a.entry

\* A bulk deletion: the audit log grows, and its handler waits or is done.
LEMMA DeletesMoves ==
  ASSUME CommandsInv, NEW h \in Handlers, NEW by \in Actors \cup {Bot}, NEW c \in Channels,
         NEW n \in Nat, Deletes(h, by, c, n)
  PROVE  Started(h)
<1> DEFINE gone == [by |-> by, channel |-> c, count |-> n, time |-> now]
           waits == [Idle EXCEPT !.at = "pause", !.due = now + Pause, !.deletion = gone]
           new == IF active /\ configured THEN waits ELSE [Idle EXCEPT !.at = "done"]
<1>1. /\ handlers' = [handlers EXCEPT ![h] = new] /\ handlers[h].at = "idle"
      /\ audit' = audit \cup {[entry |-> gone, shown |-> FALSE]} /\ UNCHANGED <<active, configured, posted, now>>
  BY DEF Deletes, Handle, Free
<1>2. now \in Nat /\ handlers \in [Handlers -> EventHandler] /\ audit \subseteq Recorded(now)
  BY DEF CommandsInv, CommandTypes
<1>3. gone \in Deletions /\ gone.time = now
  BY <1>2 DEF Deletions
<1>4. /\ waits \in EventHandler /\ waits.at = "pause" /\ waits.todo = <<>> /\ waits.deletion = gone
  <2> HIDE DEF gone
  <2>1. <<>> \in Seq(Posts) /\ {} \in SUBSET Deletions /\ now + Pause \in Nat
    BY <1>2, GuildLogAssumption
  <2> QED BY <1>3, <2>1 DEF Idle, EventHandler
<1> HIDE DEF gone, waits
<1>5. /\ new \in EventHandler /\ new.todo = <<>> /\ new.at \in {"pause", "done"}
      /\ new.at = "pause" => new.deletion = gone
  BY <1>4, NewHandlers DEF CommandsInv
<1> HIDE DEF new
<1>6. handlers'[h] = new
  BY <1>1, <1>2
<1>7. Moved(h)
  <2>1. WillTell(h)'
    BY <1>5, <1>6 DEF WillTell
  <2>2. HandlerSound(h)'
    BY <1>1, <1>2, <1>3, <1>5, <1>6 DEF HandlerSound
  <2> QED BY <1>1, <2>1, <2>2 DEF Moved, Kept
<1>8. /\ audit' \subseteq Recorded(now')
      /\ \A a \in audit : \E b \in audit' : b.entry = a.entry
  <2>1. [entry |-> gone, shown |-> FALSE] \in Recorded(now)
    BY <1>2, <1>3 DEF Recorded
  <2>2. \A a \in audit : a \in audit'
    BY <1>1
  <2> QED BY <1>1, <1>2, <2>1, <2>2
<1> QED BY <1>1, <1>5, <1>7, <1>8 DEF Started

\* The deletion of a message: its handler archives or is done.
LEMMA MessageDeleteMoves ==
  ASSUME CommandsInv, NEW h \in Handlers, MessageDelete(h)
  PROVE  Started(h)
<1>0. now \in Nat /\ audit \subseteq Recorded(now)
  BY DEF CommandsInv, CommandTypes
<1>1. PICK n \in 0 .. MaxFiles, archiving \in BOOLEAN :
        Handle(h, [Idle EXCEPT !.at = "archive", !.files = ToArchive(n, archiving)])
  BY DEF MessageDelete
<1> DEFINE files == ToArchive(n, archiving)
<1>2. files \in Nat
  BY GuildLogAssumption DEF ToArchive
<1> HIDE DEF files
<1> DEFINE waits == [Idle EXCEPT !.at = "archive", !.files = files]
           new == IF active /\ configured THEN waits ELSE [Idle EXCEPT !.at = "done"]
<1>3. waits \in EventHandler /\ waits.at = "archive" /\ waits.todo = <<>>
  <2>1. <<>> \in Seq(Posts) /\ {} \in SUBSET Deletions
    OBVIOUS
  <2> QED BY <1>2, <2>1 DEF Idle, EventHandler
<1> HIDE DEF waits
<1>4. new \in EventHandler /\ new.at \in {"archive", "done"} /\ new.todo = <<>>
  BY <1>3, NewHandlers DEF CommandsInv
<1>5. handlers' = [handlers EXCEPT ![h] = new] /\ handlers[h].at = "idle"
  BY <1>1 DEF Handle, Free, waits, files
<1> HIDE DEF new
<1>6. handlers'[h] = new
  BY <1>5 DEF CommandsInv, CommandTypes
<1>7. Moved(h)
  BY <1>4, <1>5, <1>6 DEF Moved, Kept, HandlerSound, WillTell
<1>8. UNCHANGED <<posted, audit, now>>
  BY DEF MessageDelete
<1> QED BY <1>0, <1>4, <1>5, <1>7, <1>8 DEF Started

LEMMA StartedKeeps ==
  ASSUME CommandsInv, NEW h \in Handlers \ Calls, Started(h), UNCHANGED calls
  PROVE  CommandsInv'
<1>1. PICK new \in EventHandler :
         /\ handlers' = [handlers EXCEPT ![h] = new] /\ new.at # "idle" /\ handlers[h].at = "idle"
         /\ Moved(h) /\ UNCHANGED <<posted, now>>
         /\ audit' \subseteq Recorded(now')
         /\ \A a \in audit : \E b \in audit' : b.entry = a.entry
  BY DEF Started
<1> QED BY <1>1, HandlerMoves DEF CommandsInv, CommandTypes

LEMMA GuildEventKeeps ==
  ASSUME CommandsInv, NEW h \in Handlers \ Calls, GuildEvent(h), UNCHANGED calls
  PROVE  CommandsInv'
<1>0. <<>> \in Seq(PlainPosts) /\ \A p \in PlainPosts : <<p>> \in Seq(PlainPosts)
  OBVIOUS
<1>1. CASE MessageEdit(h)
  <2>1. EditPost(h) \in PlainPosts
    BY DEF EditPost, PlainPosts
  <2>2. \E what \in Seq(PlainPosts) : Handle(h, ToSend(what)) /\ UNCHANGED <<posted, audit, now>>
    BY <1>0, <1>1, <2>1 DEF MessageEdit
  <2> QED BY <2>2, PlainEvent
<1>2. CASE VoiceEvent(h)
  <2>1. \A from, to : VoicePost(h, VoiceAction(from, to)) \in PlainPosts
    BY DEF VoicePost, VoiceAction, PlainPosts
  <2>2. \A from, to, isBot : VoicePosts(h, from, to, isBot) \in Seq(PlainPosts)
    BY <1>0, <2>1 DEF VoicePosts
  <2>3. \E what \in Seq(PlainPosts) : Handle(h, ToSend(what)) /\ UNCHANGED <<posted, audit, now>>
    BY <1>2, <2>2 DEF VoiceEvent
  <2> QED BY <2>3, PlainEvent
<1>3. CASE MemberUpdate(h)
  <2>1. \E what \in Seq(PlainPosts) : Handle(h, ToSend(what)) /\ UNCHANGED <<posted, audit, now>>
    BY <1>3, MemberPostsPlain DEF MemberUpdate
  <2> QED BY <2>1, PlainEvent
<1>4. CASE MessageDelete(h)
  BY <1>4, MessageDeleteMoves, StartedKeeps
<1>5. CASE \E by \in Actors, c \in Channels, n \in 1 .. MaxBulk : Deletes(h, by, c, n)
  <2>1. PICK by \in Actors, c \in Channels, n \in 1 .. MaxBulk : Deletes(h, by, c, n)
    BY <1>5
  <2>2. n \in Nat
    BY GuildLogAssumption
  <2> QED BY <2>1, <2>2, DeletesMoves, StartedKeeps
<1> QED BY <1>1, <1>2, <1>3, <1>4, <1>5 DEF GuildEvent

-----------------------------------------------------------------------------
(* The steps of a handler *)

\* A handler that goes on to send a post that is so.
LEMMA GoesToSend ==
  ASSUME CommandsInv, NEW h \in Handlers, NEW new \in EventHandler, NEW post \in Posts,
         handlers' = [handlers EXCEPT ![h] = new], UNCHANGED <<calls, posted, audit, now>>,
         handlers[h].at \notin {"idle", "send", "done"},
         new.at = "send", new.todo = <<post>>, Truth(post)'
  PROVE  CommandsInv'
<1>1. handlers'[h] = new
  BY DEF CommandsInv, CommandTypes
<1>2. \A k \in DOMAIN new.todo : new.todo[k] = post
  OBVIOUS
<1>3. WillTell(h)'
  BY <1>1, <1>2 DEF WillTell
<1>4. Moved(h)
  BY <1>1, <1>3 DEF Moved, Kept, HandlerSound
<1> QED BY <1>4, HandlerMoves DEF CommandsInv, CommandTypes

LEMMA HandlerStepKeeps ==
  ASSUME CommandsInv, NEW h \in Handlers, HandlerStep(h), UNCHANGED calls
  PROVE  CommandsInv'
<1>0. /\ handlers \in [Handlers -> EventHandler] /\ handlers[h] \in EventHandler
      /\ posted \subseteq Posts /\ audit \subseteq Recorded(now) /\ now \in Nat
      /\ HandlerSound(h) /\ WillTell(h)
  BY DEF CommandsInv, CommandTypes, TruthTold
<1>1. CASE Archive(h)
  <2>1. CASE handlers[h].files = 0
    <3>1. PICK post : post = DeletePost(h, handlers[h].archived)
      OBVIOUS
    <3>2. post \in PlainPosts /\ post \in Posts
      BY <1>0, <3>1 DEF DeletePost, PlainPosts, Posts, EventHandler
    <3>3. <<post>> \in Seq(Posts) /\ <<post>> # <<>>
      BY <3>2
    <3>4. Truth(post)'
      BY <3>2 DEF PlainPosts, Truth, Logged, MemberKinds
    <3>5. PICK new : new = ToSend(<<post>>)
      OBVIOUS
    <3>6. new \in EventHandler /\ new.at = "send" /\ new.todo = <<post>>
      BY <3>3, <3>5, NewHandlers DEF CommandsInv, ToSend, Idle
    <3>7. /\ handlers' = [handlers EXCEPT ![h] = new] /\ handlers[h].at = "archive"
          /\ UNCHANGED <<posted, audit, now>>
      BY <1>1, <2>1, <3>1, <3>5 DEF Archive
    <3> QED BY <3>2, <3>4, <3>6, <3>7, GoesToSend
  <2>2. CASE handlers[h].files # 0
    <3>1. PICK archived \in {0, 1} :
            handlers' = [handlers EXCEPT ![h].files = @ - 1, ![h].archived = @ + archived]
      BY <1>1, <2>2 DEF Archive
    <3>2. PICK new : new = [handlers[h] EXCEPT !.files = @ - 1, !.archived = @ + archived]
      OBVIOUS
    <3>3. new \in EventHandler /\ new.at = handlers[h].at /\ new.todo = handlers[h].todo
      <4>1. handlers[h].files \in Nat /\ handlers[h].archived \in Nat
        BY <1>0 DEF EventHandler
      <4>2. handlers[h].files - 1 \in Nat /\ handlers[h].archived + archived \in Nat
        BY <2>2, <4>1
      <4> QED BY <1>0, <3>2, <4>2 DEF EventHandler
    <3>4. handlers' = [handlers EXCEPT ![h] = new] /\ handlers'[h] = new
      BY <1>0, <3>1, <3>2, <3>3
    <3>5. /\ handlers[h].at = "archive" /\ UNCHANGED <<posted, audit, now>>
      BY <1>1 DEF Archive
    <3>6. Faithful
      BY <1>0, <3>4, <3>5 DEF Faithful, Kept, StaysDone
    <3>7. \A k \in DOMAIN handlers[h].todo :
            handlers[h].todo[k] \in Posts /\ Truth(handlers[h].todo[k])
      BY <1>0 DEF EventHandler, WillTell
    <3>8. \A q \in Posts : Truth(q) => Truth(q)'
      BY <3>6, TruthKept
    <3>9. \A k \in DOMAIN new.todo : \E q \in Posts : q = new.todo[k] /\ Truth(q)'
      BY <3>3, <3>7, <3>8
    <3>10. WillTell(h)'
      BY <3>4, <3>9 DEF WillTell
    <3>11. Moved(h)
      BY <3>3, <3>4, <3>5, <3>10 DEF Moved, Kept, HandlerSound
    <3> QED BY <3>3, <3>4, <3>5, <3>11, HandlerMoves DEF CommandsInv, CommandTypes
  <2> QED BY <2>1, <2>2
<1>2. CASE FetchAudit(h)
  <2>1. CASE active
    <3> DEFINE shown == {a.entry : a \in {b \in audit : b.shown}}
    <3>1. PICK new : new = [handlers[h] EXCEPT !.at = "fetch", !.found = shown]
      OBVIOUS
    <3>2. shown \in SUBSET Deletions /\ \A e \in shown : \E a \in audit : a.entry = e
      BY <1>0 DEF Recorded
    <3> HIDE DEF shown
    <3>3. /\ new \in EventHandler /\ new.at = "fetch" /\ new.todo = handlers[h].todo
          /\ new.found = shown /\ new.deletion = handlers[h].deletion
      BY <1>0, <3>1, <3>2 DEF EventHandler
    <3>4. handlers' = [handlers EXCEPT ![h] = new] /\ handlers'[h] = new
      BY <1>0, <1>2, <2>1, <3>1 DEF FetchAudit, shown
    <3>5. /\ handlers[h].at = "pause" /\ UNCHANGED <<posted, audit, now>>
      BY <1>2 DEF FetchAudit
    <3>6. Faithful
      BY <1>0, <3>4, <3>5 DEF Faithful, Kept, StaysDone
    <3>7. \A k \in DOMAIN handlers[h].todo :
            handlers[h].todo[k] \in Posts /\ Truth(handlers[h].todo[k])
      BY <1>0 DEF EventHandler, WillTell
    <3>8. \A q \in Posts : Truth(q) => Truth(q)'
      BY <3>6, TruthKept
    <3>9. \A k \in DOMAIN new.todo : \E q \in Posts : q = new.todo[k] /\ Truth(q)'
      BY <3>3, <3>7, <3>8
    <3>10. WillTell(h)'
      BY <3>4, <3>9 DEF WillTell
    <3>11. HandlerSound(h)'
      BY <1>0, <3>2, <3>3, <3>4, <3>5 DEF HandlerSound
    <3>12. Moved(h)
      BY <3>5, <3>10, <3>11 DEF Moved, Kept
    <3> QED BY <3>3, <3>4, <3>5, <3>12, HandlerMoves DEF CommandsInv, CommandTypes
  <2>2. CASE ~active
    <3>1. PICK post : post = BulkPost(h, NoOne)
      OBVIOUS
    <3>2. post \in BulkPosts /\ post.by = NoOne
      BY <3>1 DEF BulkPost, BulkPosts
    <3>3. post \in Posts /\ <<post>> \in Seq(Posts)
      BY <3>2 DEF Posts
    <3>4. Truth(post)'
      BY <3>2 DEF BulkPosts, Truth, Logged, MemberKinds
    <3>5. PICK new : new = [handlers[h] EXCEPT !.at = "send", !.todo = <<post>>]
      OBVIOUS
    <3>6. new \in EventHandler /\ new.at = "send" /\ new.todo = <<post>>
      BY <1>0, <3>3, <3>5 DEF EventHandler
    <3>7. /\ handlers' = [handlers EXCEPT ![h] = new] /\ handlers[h].at = "pause"
          /\ UNCHANGED <<posted, audit, now>>
      BY <1>2, <2>2, <3>1, <3>5 DEF FetchAudit
    <3> QED BY <3>3, <3>4, <3>6, <3>7, GoesToSend
  <2> QED BY <2>1, <2>2
<1>3. CASE AuditAnswers(h)
  <2> DEFINE gone == handlers[h].deletion
             found == handlers[h].found
             matching == {e \in handlers[h].found : Matches(e, handlers[h].deletion)}
             newest == {e \in matching : \A f \in matching : f.time <= e.time}
  <2>1. PICK by \in {NoOne} \cup {e.by : e \in newest} :
          handlers' = [handlers EXCEPT ![h].at = "send", ![h].read = now,
                                       ![h].todo = <<BulkPost(h, by)>>]
    BY <1>3 DEF AuditAnswers
  <2>2. handlers[h].at = "fetch" /\ UNCHANGED <<posted, audit, now>>
    BY <1>3 DEF AuditAnswers
  <2>3. by # NoOne => \E e \in found : /\ e.by = by /\ Matches(e, gone)
                                      /\ \A f \in found : Matches(f, gone) => f.time <= e.time
    BY <2>1
  <2>4. /\ gone \in Deletions /\ gone.time <= now /\ gone.time \in Nat
        /\ \A e \in found : \E a \in audit : a.entry = e
    BY <1>0, <2>2 DEF HandlerSound, Deletions
  <2>a. \A e \in found : e.by \in Actors \cup {Bot} /\ e.time \in Nat
    BY <1>0 DEF EventHandler, Deletions
  <2>5. by \in Actors \cup {Bot, NoOne}
    BY <2>3, <2>a
  <2>6. PICK post : post = BulkPost(h, by)
    OBVIOUS
  <2>7. post \in BulkPosts /\ post.by = by /\ post.of = h /\ post.what = "bulk"
    BY <2>5, <2>6 DEF BulkPost, BulkPosts
  <2>8. post \in Posts /\ <<post>> \in Seq(Posts)
    BY <2>7 DEF Posts
  <2>9. PICK new : new = [handlers[h] EXCEPT !.at = "send", !.read = now, !.todo = <<post>>]
    OBVIOUS
  <2>10. /\ new \in EventHandler /\ new.at = "send" /\ new.todo = <<post>>
         /\ new.deletion = gone /\ new.found = found /\ new.read = now
    BY <1>0, <2>8, <2>9 DEF EventHandler
  <2>11. handlers' = [handlers EXCEPT ![h] = new] /\ handlers'[h] = new
    BY <1>0, <2>1, <2>6, <2>9
  <2>12. by # NoOne => Rightly(h, by)'
    <3> SUFFICES ASSUME by # NoOne PROVE Rightly(h, by)'
      OBVIOUS
    <3>1. PICK e \in found : /\ e.by = by /\ Matches(e, gone)
                             /\ \A f \in found : Matches(f, gone) => f.time <= e.time
      BY <2>3
    <3>2. PICK a \in audit : a.entry = e
      BY <2>4, <3>1
    <3>3. e.time <= now
      BY <1>0, <3>2 DEF Recorded
    <3> HIDE DEF gone, found
    <3>4. /\ e.time <= now /\ now <= e.time + Tolerance
          /\ e.count = gone.count /\ e.channel = gone.channel
      BY <3>1, <3>3 DEF Matches
    <3>5. gone \in found /\ now <= gone.time + Tolerance => gone.time <= e.time
      BY <3>1 DEF Matches
    <3>6. /\ handlers'[h].at = "send" /\ handlers'[h].deletion = gone
          /\ handlers'[h].found = found /\ handlers'[h].read = now /\ audit' = audit
      BY <2>2, <2>10, <2>11
    <3> QED BY <2>4, <3>1, <3>2, <3>4, <3>5, <3>6 DEF Rightly, InTime
  <2>13. Truth(post)'
    BY <2>7, <2>12 DEF Truth, Logged, MemberKinds
  <2> QED BY <2>2, <2>8, <2>10, <2>11, <2>13, GoesToSend
<1>4. CASE SendPost(h)
  <2> DEFINE todo == handlers[h].todo
  <2>1. PICK sent \in BOOLEAN :
          /\ posted' = IF sent THEN posted \cup {Head(todo)} ELSE posted
          /\ handlers' = [handlers EXCEPT ![h].todo = Tail(@),
                                          ![h].at = IF Tail(todo) = <<>> THEN "done" ELSE "send"]
    BY <1>4 DEF SendPost
  <2>2. handlers[h].at = "send" /\ UNCHANGED <<audit, now>>
    BY <1>4 DEF SendPost
  <2>3. todo \in Seq(Posts) /\ todo # <<>> /\ handlers[h].deletion \in Deletions \cup {<<>>}
    BY <1>0, <2>2 DEF EventHandler, HandlerSound
  <2>4. \A k \in DOMAIN todo : todo[k] \in Posts /\ Truth(todo[k])
    BY <1>0, <2>3 DEF WillTell
  <2>5. PICK rest : rest = Tail(todo)
    OBVIOUS
  <2>6. rest \in Seq(Posts) /\ \A k \in DOMAIN rest : \E j \in DOMAIN todo : rest[k] = todo[j]
    <3>1. /\ rest \in Seq(Posts) /\ Len(rest) = Len(todo) - 1
          /\ \A k \in 1 .. Len(todo) - 1 : rest[k] = todo[k + 1]
      BY <2>3, <2>5
    <3>2. \A k \in 1 .. Len(todo) - 1 : k + 1 \in 1 .. Len(todo)
      BY <2>3
    <3> QED BY <2>3, <3>1, <3>2
  <2>7. PICK new : new = [handlers[h] EXCEPT !.todo = rest, !.at = IF rest = <<>> THEN "done" ELSE "send"]
    OBVIOUS
  <2>8. /\ new \in EventHandler /\ new.at \in {"send", "done"} /\ new.todo = rest
        /\ new.at = "send" => rest # <<>>
        /\ new.deletion = handlers[h].deletion
        /\ new.found = handlers[h].found /\ new.read = handlers[h].read
    BY <1>0, <2>6, <2>7 DEF EventHandler
  <2>9. handlers' = [handlers EXCEPT ![h] = new] /\ handlers'[h] = new
    BY <1>0, <2>1, <2>5, <2>7
  <2>10. Head(todo) \in Posts /\ Truth(Head(todo))
    BY <2>3, <2>4
  <2>11. posted' \subseteq Posts /\ \A q \in posted' : q \in posted \/ Truth(q)
    BY <1>0, <2>1, <2>10
  <2>12. Faithful
    BY <1>0, <2>2, <2>8, <2>9 DEF Faithful, Kept, StaysDone
  <2>13. \A q \in Posts : Truth(q) => Truth(q)'
    BY <2>12, TruthKept
  <2>14. \A k \in DOMAIN rest : \E q \in Posts : q = rest[k] /\ Truth(q)'
    BY <2>4, <2>6, <2>13
  <2>15. WillTell(h)'
    BY <2>8, <2>9, <2>14 DEF WillTell
  <2>16. Moved(h)
    BY <2>8, <2>9, <2>15 DEF Moved, Kept, HandlerSound
  <2>17. \A a \in audit : \E b \in audit' : b.entry = a.entry
    BY <2>2
  <2>18. new.at # "idle" /\ handlers[h].at # "idle" /\ UNCHANGED <<calls, now>>
         /\ audit' \subseteq Recorded(now')
    BY <1>0, <2>2, <2>8
  <2> HIDE DEF todo
  <2> QED BY <2>8, <2>9, <2>11, <2>16, <2>17, <2>18, HandlerMoves
<1> QED BY <1>1, <1>2, <1>3, <1>4 DEF HandlerStep

-----------------------------------------------------------------------------
(* The steps of a command *)

LEMMA FailsFacts ==
  ASSUME CommandTypes, NEW i \in Calls, NEW did \in Dids, Fails(i, did)
  PROVE  \E new \in Invocation :
           /\ calls' = [calls EXCEPT ![i] = new] /\ new.did = did /\ new.kind = calls[i].kind
           /\ new.at \in {"reply", "over"} /\ new.told # "done"
<1>1. PICK end \in {[at |-> "reply", told |-> "failed"], [at |-> "over", told |-> "nothing"]} :
        calls' = [calls EXCEPT ![i].did = did, ![i].at = end.at, ![i].told = end.told]
  BY DEF Fails
<1>2. end.at \in {"reply", "over"} /\ end.told \in {"failed", "nothing"}
  BY <1>1
<1>3. calls \in [Calls -> Invocation] /\ calls[i] \in Invocation
  BY DEF CommandTypes
<1>4. PICK new : new = [calls[i] EXCEPT !.did = did, !.at = end.at, !.told = end.told]
  OBVIOUS
<1>5. /\ new \in Invocation /\ new.did = did /\ new.kind = calls[i].kind
      /\ new.at \in {"reply", "over"} /\ new.told # "done"
  BY <1>2, <1>3, <1>4 DEF Invocation
<1>6. calls' = [calls EXCEPT ![i] = new]
  BY <1>1, <1>3, <1>4
<1> QED BY <1>5, <1>6

LEMMA ActsFacts ==
  ASSUME CommandTypes, NEW i \in Calls, NEW did \in Dids, Acts(i, did)
  PROVE  \E new \in Invocation :
           /\ calls' = [calls EXCEPT ![i] = new] /\ new.did = did /\ new.kind = calls[i].kind
           /\ new.at \in {"answered", "reply", "over"}
           /\ new.told = "done" => new.told = calls[i].told
<1>1. CASE Fails(i, did)
  BY <1>1, FailsFacts
<1>2. CASE calls' = [calls EXCEPT ![i].did = did, ![i].at = "answered"]
  <2>1. calls \in [Calls -> Invocation] /\ calls[i] \in Invocation
    BY DEF CommandTypes
  <2>2. PICK new : new = [calls[i] EXCEPT !.did = did, !.at = "answered"]
    OBVIOUS
  <2>3. /\ new \in Invocation /\ new.did = did /\ new.kind = calls[i].kind
        /\ new.at = "answered" /\ new.told = calls[i].told
    BY <2>1, <2>2 DEF Invocation
  <2>4. calls' = [calls EXCEPT ![i] = new]
    BY <1>2, <2>1, <2>2
  <2> QED BY <2>3, <2>4
<1> QED BY <1>1, <1>2 DEF Acts

\* The act: it takes effect or it does not, and whether it does or not its answer may be lost.
LEMMA Acted ==
  ASSUME CommandsInv, NEW i \in Calls, calls[i].at = "act", UNCHANGED logVars, NEW did \in Dids,
         Fails(i, did) \/ (Acts(i, did) /\ (calls[i].kind \in Logged => Tells(calls[i].kind, did)))
  PROVE  CommandsInv'
<1>1. PICK new \in Invocation :
        /\ calls' = [calls EXCEPT ![i] = new] /\ new.kind = calls[i].kind
        /\ new.at \in {"answered", "reply", "over"}
        /\ new.at = "answered" /\ new.kind \in Logged => Tells(new.kind, new.did)
        /\ new.told = "done" => new.told = calls[i].told
  BY FailsFacts, ActsFacts DEF CommandsInv
<1>2. calls'[i] = new
  BY <1>1 DEF CommandsInv, CommandTypes
<1>3. calls[i].did = "nothing" /\ handlers[i].at = "idle" /\ CallSound(i)
  BY DEF CommandsInv, CallSound
<1>4. CallSound(i)'
  BY <1>1, <1>2, <1>3 DEF CallSound, logVars
<1> QED BY <1>1, <1>3, <1>4, CallMoves

LEMMA BeginKeeps ==
  ASSUME CommandsInv, NEW i \in Calls, Begin(i)
  PROVE  CommandsInv'
<1>0. calls[i].at = "idle" /\ calls[i].did = "nothing" /\ handlers[i].at = "idle" /\ UNCHANGED logVars
  BY DEF Begin, CommandsInv, CallSound
<1>1. PICK kind, by, target, begun :
        LET called == [NotCalled EXCEPT !.at = "resolve", !.kind = kind, !.by = by, !.target = target] IN
        /\ kind \in Kinds /\ by \in Moderators /\ target \in Targets \cup Calls
        /\ begun \in HandleSlash(called) \cup HandlePrefix(called)
        /\ calls' = [calls EXCEPT ![i] = begun]
  BY DEF Begin
<1> DEFINE called == [NotCalled EXCEPT !.at = "resolve", !.kind = kind, !.by = by, !.target = target]
<1>2. /\ called \in Invocation /\ called.at = "resolve" /\ called.did = "nothing" /\ called.told = "nothing"
      /\ [NotCalled EXCEPT !.at = "over"] \in Invocation
      /\ [NotCalled EXCEPT !.at = "over"].at = "over" /\ [NotCalled EXCEPT !.at = "over"].told = "nothing"
  BY <1>1 DEF NotCalled, Invocation, Dids
<1> HIDE DEF called
<1>3. /\ [called EXCEPT !.at = "reply", !.told = "denied"] \in Invocation
      /\ [called EXCEPT !.at = "reply", !.told = "denied"].at = "reply"
      /\ [called EXCEPT !.at = "reply", !.told = "denied"].told = "denied"
  BY <1>2 DEF Invocation
<1>4. begun \in {called, [called EXCEPT !.at = "reply", !.told = "denied"], [NotCalled EXCEPT !.at = "over"]}
      /\ calls' = [calls EXCEPT ![i] = begun]
  BY <1>1 DEF called, HandleSlash, HandlePrefix, Checked
<1>5. /\ begun \in Invocation /\ begun.at \in {"resolve", "reply", "over"} /\ begun.told # "done"
      /\ begun.at = "resolve" => begun.did = "nothing"
  BY <1>2, <1>3, <1>4
<1>6. calls'[i] = begun
  BY <1>4 DEF CommandsInv, CommandTypes
<1>7. CallSound(i)'
  BY <1>0, <1>5, <1>6 DEF CallSound, logVars
<1>8. PICK new \in Invocation : new = begun
  BY <1>5
<1> QED BY <1>0, <1>4, <1>7, <1>8, CallMoves

LEMMA ResolveKeeps ==
  ASSUME CommandsInv, NEW i \in Calls, Resolve(i)
  PROVE  CommandsInv'
<1>0. /\ calls \in [Calls -> Invocation] /\ calls[i] \in Invocation
      /\ calls[i].at = "resolve" /\ CallSound(i) /\ UNCHANGED logVars
  BY DEF Resolve, CommandsInv, CommandTypes
<1>1. \/ calls' = [calls EXCEPT ![i].at = "act"]
      \/ calls' = [calls EXCEPT ![i].at = "reply", ![i].told = "refused"]
  BY DEF Resolve
<1>2. PICK new : new \in {[calls[i] EXCEPT !.at = "act"], [calls[i] EXCEPT !.at = "reply", !.told = "refused"]}
                 /\ calls' = [calls EXCEPT ![i] = new]
  BY <1>0, <1>1
<1>3. /\ new \in Invocation /\ new.did = calls[i].did /\ new.kind = calls[i].kind
      /\ new.at \in {"act", "reply"} /\ (new.told = "done" => calls[i].told = "done")
  BY <1>0, <1>2 DEF Invocation
<1>4. calls'[i] = new
  BY <1>0, <1>2
<1>5. CallSound(i)'
  BY <1>0, <1>3, <1>4 DEF CallSound, logVars
<1> QED BY <1>0, <1>2, <1>3, <1>5, CallMoves

LEMMA RemoveKeeps ==
  ASSUME CommandsInv, NEW i \in Calls, RemoveOrClear(i)
  PROVE  CommandsInv'
<1>0. /\ calls \in [Calls -> Invocation] /\ calls[i] \in Invocation
      /\ calls[i].at = "act" /\ CallSound(i) /\ UNCHANGED logVars /\ calls[i].did = "nothing"
      /\ handlers[i].at = "idle"
  BY DEF RemoveOrClear, CommandsInv, CommandTypes, CallSound
<1>1. CASE \E did \in Dids : Fails(i, did)
  <2>1. PICK new \in Invocation :
           /\ calls' = [calls EXCEPT ![i] = new] /\ new.kind = calls[i].kind
           /\ new.at \in {"reply", "over"} /\ new.told # "done"
    BY <1>1, FailsFacts DEF CommandsInv
  <2>2. calls'[i] = new
    BY <1>0, <2>1
  <2>3. CallSound(i)'
    BY <2>1, <2>2 DEF CallSound
  <2> QED BY <1>0, <2>1, <2>3, CallMoves
<1>2. CASE calls' = [calls EXCEPT ![i].at = "reply", ![i].told = "nothing found"]
  <2>1. PICK new : new = [calls[i] EXCEPT !.at = "reply", !.told = "nothing found"]
    OBVIOUS
  <2>2. new \in Invocation /\ new.at = "reply" /\ new.told = "nothing found"
    BY <1>0, <2>1 DEF Invocation
  <2>3. calls' = [calls EXCEPT ![i] = new] /\ calls'[i] = new
    BY <1>0, <1>2, <2>1
  <2>4. CallSound(i)'
    BY <2>2, <2>3 DEF CallSound
  <2> QED BY <1>0, <2>2, <2>3, <2>4, CallMoves
<1>3. CASE calls' = [calls EXCEPT ![i].at = "answered", ![i].did = "changed"]
  <2>1. PICK new : new = [calls[i] EXCEPT !.at = "answered", !.did = "changed"]
    OBVIOUS
  <2>2. /\ new \in Invocation /\ new.at = "answered" /\ new.did = "changed"
        /\ new.kind = calls[i].kind /\ new.told = calls[i].told
    BY <1>0, <2>1 DEF Invocation, Dids
  <2>3. calls' = [calls EXCEPT ![i] = new] /\ calls'[i] = new
    BY <1>0, <1>3, <2>1
  <2>4. CallSound(i)'
    BY <1>0, <2>2, <2>3 DEF CallSound, Tells, logVars
  <2> QED BY <1>0, <2>2, <2>3, <2>4, CallMoves
<1>4. Found(Deleted(i)) => (IF Deleted(i) # {} THEN "changed" ELSE "nothing") = "changed"
  BY DEF Found
<1>5. (IF Deleted(i) # {} THEN "changed" ELSE "nothing") \in Dids /\ "nothing" \in Dids
  BY DEF Dids
<1> QED BY <1>1, <1>2, <1>3, <1>4, <1>5 DEF RemoveOrClear

\* The deletion of clean is an event of the guild, too, and the log's handler of it is the
\* command's.
LEMMA CleanKeeps ==
  ASSUME CommandsInv, NEW i \in Calls, Clean(i)
  PROVE  CommandsInv'
<1>0. /\ calls \in [Calls -> Invocation] /\ calls[i] \in Invocation /\ i \in Handlers
      /\ handlers \in [Handlers -> EventHandler] /\ now \in Nat
      /\ calls[i].at = "act" /\ calls[i].kind = "clean" /\ calls[i].did = "nothing" /\ CallSound(i)
  BY ModerationAssumption DEF Clean, CommandsInv, CommandTypes, CallSound
<1>1. CASE Fails(i, "nothing") /\ UNCHANGED logVars
  <2>1. "nothing" \in Dids
    BY DEF Dids
  <2> QED BY <1>0, <1>1, <2>1, Acted
<1>2. ASSUME NEW n \in 0 .. MaxBulk, NEW did \in {"nothing", "changed"}, BulkDelete(i, n),
             calls' = [calls EXCEPT ![i].did = did, ![i].at = "reply", ![i].told = "done"] \/ Fails(i, did)
      PROVE  CommandsInv'
  <2>1. PICK new \in Invocation : /\ calls' = [calls EXCEPT ![i] = new] /\ new.kind = calls[i].kind
                                  /\ new.at \in {"reply", "over"}
    <3>1. CASE Fails(i, did)
      BY <1>2, <3>1, FailsFacts DEF CommandsInv, Dids
    <3>2. CASE calls' = [calls EXCEPT ![i].did = did, ![i].at = "reply", ![i].told = "done"]
      <4>1. PICK new : new = [calls[i] EXCEPT !.did = did, !.at = "reply", !.told = "done"]
        OBVIOUS
      <4>2. new \in Invocation /\ new.kind = calls[i].kind /\ new.at = "reply"
        BY <1>0, <4>1 DEF Invocation, Dids
      <4>3. calls' = [calls EXCEPT ![i] = new]
        BY <1>0, <3>2, <4>1
      <4> QED BY <4>2, <4>3
    <3> QED BY <1>2, <3>1, <3>2
  <2>2. calls'[i] = new
    BY <1>0, <2>1
  <2>3. CallSound(i)' /\ StaysDone(i)
    BY <1>0, <2>1, <2>2 DEF CallSound, Logged, MemberKinds, StaysDone
  <2>4. CASE UNCHANGED logVars
    BY <1>0, <2>1, <2>3, <2>4, CallMoves
  <2>5. CASE Started(i)
    <3>1. PICK handler \in EventHandler :
             /\ handlers' = [handlers EXCEPT ![i] = handler] /\ handler.at # "idle"
             /\ Moved(i) /\ UNCHANGED <<posted, now>>
             /\ audit' \subseteq Recorded(now')
             /\ \A a \in audit : \E b \in audit' : b.entry = a.entry
      BY <2>5 DEF Started
    <3>2. CommandTypes'
      BY <1>0, <2>1, <3>1 DEF CommandsInv, CommandTypes
    <3>3. \A h \in Handlers : handlers'[h] = handlers[h] \/ Moved(h)
      BY <1>0, <3>1
    <3>4. \A j \in Calls : \/ calls'[j] = calls[j] /\ handlers'[j] = handlers[j]
                           \/ StaysDone(j) /\ CallSound(j)'
      BY <1>0, <2>1, <2>3, <3>1, ModerationAssumption
    <3> QED BY <1>0, <3>1, <3>2, <3>3, <3>4, Moves
  <2> QED
    <3>1. n \in Nat
      BY GuildLogAssumption
    <3> QED BY <1>0, <1>2, <2>4, <2>5, <3>1, MessageDeleteMoves, DeletesMoves DEF BulkDelete
<1>3. \A n \in 0 .. MaxBulk : (IF n > 0 THEN "changed" ELSE "nothing") \in {"nothing", "changed"}
  OBVIOUS
<1> QED BY <1>1, <1>2, <1>3 DEF Clean

\* The event of an act comes with the answer, before the reply.
LEMMA AnsweredKeeps ==
  ASSUME CommandsInv, NEW i \in Calls, Answered(i)
  PROVE  CommandsInv'
<1>0. /\ calls \in [Calls -> Invocation] /\ calls[i] \in Invocation /\ i \in Handlers
      /\ handlers \in [Handlers -> EventHandler] /\ now \in Nat
      /\ calls[i].at = "answered" /\ CallSound(i) /\ UNCHANGED <<posted, audit, now>>
      /\ calls' = [calls EXCEPT ![i].at = "reply", ![i].told = "done"] /\ handlers' = Emit(i)
  BY ModerationAssumption DEF Answered, CommandsInv, CommandTypes
<1>1. PICK new : new = [calls[i] EXCEPT !.at = "reply", !.told = "done"]
  OBVIOUS
<1>2. /\ new \in Invocation /\ new.at = "reply" /\ new.did = calls[i].did
      /\ new.kind = calls[i].kind /\ calls' = [calls EXCEPT ![i] = new] /\ calls'[i] = new
      /\ calls' \in [Calls -> Invocation]
  <2>1. new \in Invocation /\ new.at = "reply" /\ new.did = calls[i].did /\ new.kind = calls[i].kind
    BY <1>0, <1>1 DEF Invocation
  <2> QED BY <1>0, <1>1, <2>1
<1>3. CASE calls[i].kind \notin Logged
  <2>1. handlers' = handlers
    BY <1>0, <1>3 DEF Emit
  <2>2. CommandTypes'
    BY <1>0, <1>2, <2>1 DEF CommandsInv, CommandTypes
  <2>3. CallSound(i)'
    BY <1>2, <1>3 DEF CallSound
  <2>4. \A j \in Calls : \/ calls'[j] = calls[j] /\ handlers'[j] = handlers[j]
                         \/ StaysDone(j) /\ CallSound(j)'
    BY <1>0, <1>2, <2>1, <2>3 DEF StaysDone
  <2> QED BY <1>0, <2>1, <2>2, <2>4, Moves
<1>4. CASE calls[i].kind \in Logged
  <2>1. PICK kind \in Logged : /\ kind = calls[i].kind
                               /\ handlers' = [handlers EXCEPT ![i] =
                                    IF active /\ configured THEN ToSend(<<ModerationPost(i, kind)>>)
                                    ELSE [Idle EXCEPT !.at = "done"]]
    BY <1>0, <1>4 DEF Emit, HandleWarningIssued, HandleModerationAction
  <2>2. PICK post : post = ModerationPost(i, kind)
    OBVIOUS
  <2>3. post \in ActPosts /\ post.of = i /\ post.what = kind /\ post.what # "bulk"
    BY <2>2 DEF ModerationPost, ActPosts, Logged, MemberKinds
  <2>4. post \in Posts /\ <<post>> \in Seq(Posts)
    BY <2>3 DEF Posts
  <2>5. PICK handler : handler = IF active /\ configured THEN ToSend(<<post>>) ELSE [Idle EXCEPT !.at = "done"]
    OBVIOUS
  <2>6. /\ handler \in EventHandler /\ handler.at \in {"send", "done"}
        /\ handler.at = "send" => handler.todo # <<>>
        /\ handler.todo \in {<<post>>, <<>>}
    BY <2>4, <2>5, NewHandlers DEF CommandsInv
  <2>7. handlers' = [handlers EXCEPT ![i] = handler] /\ handlers'[i] = handler
    BY <1>0, <2>1, <2>2, <2>5
  <2>8. Tells(kind, calls[i].did) /\ handlers[i].at = "idle"
    BY <1>0, <1>4, <2>1 DEF CallSound
  <2>9. Truth(post)'
    BY <1>2, <2>3, <2>8 DEF Truth
  <2>10. \A k \in DOMAIN handler.todo : handler.todo[k] = post
    BY <2>6
  <2>11. WillTell(i)'
    BY <2>7, <2>9, <2>10 DEF WillTell
  <2>12. Moved(i)
    BY <2>6, <2>7, <2>8, <2>11 DEF Moved, Kept, HandlerSound
  <2>13. CallSound(i)'
    BY <1>2, <2>6, <2>7 DEF CallSound
  <2>14. CommandTypes'
    BY <1>0, <1>2, <2>6, <2>7 DEF CommandsInv, CommandTypes
  <2>15. \A h \in Handlers : handlers'[h] = handlers[h] \/ Moved(h)
    BY <1>0, <2>7, <2>12
  <2>16. \A j \in Calls : \/ calls'[j] = calls[j] /\ handlers'[j] = handlers[j]
                          \/ StaysDone(j) /\ CallSound(j)'
    BY <1>0, <1>2, <2>7, <2>13, ModerationAssumption DEF StaysDone
  <2> QED BY <1>0, <2>14, <2>15, <2>16, Moves
<1> QED BY <1>3, <1>4

LEMMA ReplyKeeps ==
  ASSUME CommandsInv, NEW i \in Calls, Reply(i)
  PROVE  CommandsInv'
<1>0. /\ calls \in [Calls -> Invocation] /\ calls[i] \in Invocation
      /\ calls[i].at = "reply" /\ CallSound(i) /\ UNCHANGED logVars
  BY DEF Reply, CommandsInv, CommandTypes
<1>1. CASE Fails(i, calls[i].did)
  <2>0. calls[i].did \in Dids
    BY <1>0 DEF Invocation
  <2>1. PICK new \in Invocation :
           /\ calls' = [calls EXCEPT ![i] = new] /\ new.did = calls[i].did
           /\ new.at \in {"reply", "over"} /\ new.told # "done"
    BY <1>1, <2>0, FailsFacts DEF CommandsInv
  <2>2. calls'[i] = new
    BY <1>0, <2>1
  <2>3. CallSound(i)'
    BY <2>1, <2>2 DEF CallSound
  <2> QED BY <1>0, <2>1, <2>3, CallMoves
<1>2. CASE \/ calls' = [calls EXCEPT ![i].at = "over"]
           \/ calls' = [calls EXCEPT ![i].at = "over", ![i].told = "nothing"]
  <2>1. PICK new : new \in {[calls[i] EXCEPT !.at = "over"], [calls[i] EXCEPT !.at = "over", !.told = "nothing"]}
                   /\ calls' = [calls EXCEPT ![i] = new]
    BY <1>0, <1>2
  <2>2. /\ new \in Invocation /\ new.did = calls[i].did /\ new.kind = calls[i].kind
        /\ new.at = "over" /\ (new.told = "done" => calls[i].told = "done")
    BY <1>0, <2>1 DEF Invocation
  <2>3. calls'[i] = new
    BY <1>0, <2>1
  <2>4. CallSound(i)'
    BY <1>0, <2>2, <2>3 DEF CallSound, logVars
  <2> QED BY <1>0, <2>1, <2>2, <2>4, CallMoves
<1> QED BY <1>1, <1>2 DEF Reply

\* A step that leaves the handlers and the commands as they are.
LEMMA ElseKeeps ==
  ASSUME CommandsInv, UNCHANGED <<calls, handlers, posted>>, now' \in Nat, now <= now',
         audit' \subseteq Recorded(now'),
         \A a \in audit : \E b \in audit' : b.entry = a.entry
  PROVE  CommandsInv'
<1>1. CommandTypes'
  BY DEF CommandsInv, CommandTypes
<1> QED BY <1>1, Moves

LEMMA CommandStep == CommandsInv /\ [ModerationNext]_moderationVars => CommandsInv'
<1> SUFFICES ASSUME CommandsInv, [ModerationNext]_moderationVars PROVE CommandsInv'
  OBVIOUS
<1>0. now \in Nat /\ audit \subseteq Recorded(now)
  BY DEF CommandsInv, CommandTypes
<1>1. ASSUME NEW i \in Calls, Command(i) PROVE CommandsInv'
  <2>1. ASSUME NEW kind, NEW possible, NEW did \in Dids, NEW left, NEW out, Tells(kind, did),
               AtDiscord(i, kind, possible, did, left, out)
        PROVE  CommandsInv'
    <3>1. calls[i].at = "act" /\ calls[i].kind = kind /\ UNCHANGED logVars
      BY <2>1 DEF AtDiscord
    <3>2. Fails(i, "nothing") \/ Acts(i, did)
      BY <2>1 DEF AtDiscord
    <3>3. "nothing" \in Dids
      BY DEF Dids
    <3> QED BY <2>1, <3>1, <3>2, <3>3, Acted
  <2>2. CASE Ban(i)
    <3>1. PICK did, out : did = BanDid(calls[i].target) /\ out = {calls[i].target}
      OBVIOUS
    <3>2. did \in Dids /\ Tells("ban", did)
      BY <3>1 DEF BanDid, Dids, Tells
    <3>3. AtDiscord(i, "ban", Members, did, out, out)
      BY <2>2, <3>1 DEF Ban
    <3> QED BY <2>1, <3>2, <3>3
  <2>5. CASE Kick(i) \/ Timeout(i)
    <3>1. "changed" \in Dids /\ Tells("kick", "changed") /\ Tells("timeout", "changed")
      BY DEF Dids, Tells
    <3>2. PICK out, possible : out = {calls[i].target} /\ possible = there
      OBVIOUS
    <3>3. \/ AtDiscord(i, "kick", possible, "changed", out, {})
          \/ AtDiscord(i, "timeout", possible, "changed", {}, {})
      BY <2>5, <3>2 DEF Kick, Timeout
    <3> QED BY <2>1, <3>1, <3>3
  <2>3. CASE Warn(i)
    <3>1. "nothing" \in Dids /\ "changed" \in Dids /\ Tells(calls[i].kind, "changed")
      BY DEF Dids, Tells
    <3>2. calls[i].at = "act" /\ UNCHANGED logVars /\ (Fails(i, "nothing") \/ Acts(i, "changed"))
      BY <2>3 DEF Warn
    <3> QED BY <3>1, <3>2, Acted
  <2>4. CASE List(i)
    BY <2>4, Acted DEF List, Dids, Logged, MemberKinds
  <2> QED BY <1>1, <2>2, <2>3, <2>4, <2>5, BeginKeeps, ResolveKeeps, RemoveKeeps, CleanKeeps, AnsweredKeeps,
             ReplyKeeps DEF Command
<1>2. CASE GuildChanges
  BY <1>0, <1>2, ElseKeeps DEF GuildChanges, logVars
<1>3. CASE LogNext /\ UNCHANGED guildVars
  <2>1. CASE \E h \in Handlers : HandlerStep(h)
    BY <1>3, <2>1, HandlerStepKeeps DEF guildVars
  <2>2. CASE AuditShows
    <3>1. PICK a \in audit : audit' = (audit \ {a}) \cup {[a EXCEPT !.shown = TRUE]}
      BY <2>2 DEF AuditShows
    <3>2. PICK b : b = [a EXCEPT !.shown = TRUE]
      OBVIOUS
    <3>3. b \in Recorded(now) /\ b.entry = a.entry
      BY <1>0, <3>2 DEF Recorded
    <3>4. audit' = (audit \ {a}) \cup {b}
      BY <3>1, <3>2
    <3>5. \A x \in audit : \E y \in audit' : y.entry = x.entry
      BY <3>3, <3>4
    <3>6. audit' \subseteq Recorded(now')
      BY <1>0, <2>2, <3>3, <3>4 DEF AuditShows
    <3> QED BY <1>0, <1>3, <2>2, <3>5, <3>6, ElseKeeps DEF AuditShows, guildVars
  <2>3. CASE StopLogging
    BY <1>0, <1>3, <2>3, ElseKeeps DEF StopLogging, guildVars
  <2>4. CASE TimePasses
    <3>1. now' \in Nat /\ now <= now' /\ UNCHANGED <<handlers, posted, audit>>
      BY <1>0, <2>4 DEF TimePasses
    <3>2. Recorded(now) \subseteq Recorded(now')
      BY <1>0, <3>1 DEF Recorded, Deletions
    <3> QED BY <1>0, <1>3, <3>1, <3>2, ElseKeeps DEF guildVars
  <2> QED BY <1>3, <2>1, <2>2, <2>3, <2>4 DEF LogNext
<1>4. CASE \E h \in Handlers \ Calls : GuildEvent(h) /\ UNCHANGED guildVars
  BY <1>4, GuildEventKeeps DEF guildVars
<1>5. CASE UNCHANGED moderationVars
  BY <1>0, <1>5, ElseKeeps DEF moderationVars, logVars, guildVars
<1> QED BY <1>1, <1>2, <1>3, <1>4, <1>5 DEF ModerationNext

LEMMA CommandsInitially == ModerationInit => CommandsInv
<1> SUFFICES ASSUME ModerationInit PROVE CommandsInv
  OBVIOUS
<1>1. /\ handlers = [h \in Handlers |-> Idle] /\ calls = [i \in Calls |-> NotCalled]
      /\ posted = {} /\ audit = {} /\ now = 0
  BY DEF ModerationInit, LogInit
<1>2. Idle.at = "idle" /\ Idle.todo = <<>> /\ Idle \in EventHandler
  <2>1. <<>> \in Seq(Posts)
    OBVIOUS
  <2> QED BY <2>1 DEF Idle, EventHandler
<1>3. NotCalled \in Invocation /\ NotCalled.at = "idle" /\ NotCalled.did = "nothing" /\ NotCalled.told = "nothing"
  BY DEF NotCalled, Invocation, Dids
<1>4. CommandTypes
  BY <1>1, <1>2, <1>3 DEF CommandTypes
<1>5. \A h \in Handlers : HandlerSound(h) /\ WillTell(h)
  BY <1>1, <1>2 DEF HandlerSound, WillTell
<1>6. \A i \in Calls : CallSound(i)
  BY <1>1, <1>2, <1>3, ModerationAssumption DEF CallSound
<1> QED BY <1>1, <1>4, <1>5, <1>6 DEF CommandsInv, TruthTold

-----------------------------------------------------------------------------
(* Theorems *)

\* Commands, events of the guild and their handlers keep the truth of what is posted and of
\* what is about to be, however they overlap.
THEOREM CommandsInvariant == ModerationSpec => []CommandsInv
<1>1. ModerationInit => CommandsInv
  BY CommandsInitially
<1>2. CommandsInv /\ [ModerationNext]_moderationVars => CommandsInv'
  BY CommandStep
<1> QED BY <1>1, <1>2, PTL DEF ModerationSpec

\* The log says of no command what it has not done, but that a ban may have found the member
\* banned; and it puts a bulk deletion down to no one without an entry of the audit log that
\* is in time, nor to another where the doer's own was there in time and newer
\* (moderation-log.service.ts, message-log.service.ts).
THEOREM LogIsTrue == ModerationSpec => []LogTellsTruth
<1>1. CommandsInv => LogTellsTruth
  <2> SUFFICES ASSUME CommandsInv PROVE LogTellsTruth
    OBVIOUS
  <2>1. \A p \in posted : Truth(p)
    BY DEF CommandsInv, TruthTold
  <2>2. \A p \in posted : p.what \in Logged => Tells(p.what, calls[p.of].did)
    BY <2>1 DEF Truth
  <2>3. NamedRight
    <3> SUFFICES ASSUME NEW p \in posted, p.what = "bulk", p.by # NoOne PROVE Rightly(p.of, p.by)
      BY DEF NamedRight, Rightly, InTime
    <3> QED BY <2>1 DEF Truth
  <2> QED BY <2>2, <2>3 DEF LogTellsTruth, Tells
<1> QED BY <1>1, CommandsInvariant, PTL

\* Whoever is told that an act is done finds it in the log or on its way there
\* (command-router.ts, event-bus.ts).
THEOREM DoneReachesLog == ModerationSpec => []DoneIsLogged
<1>1. CommandsInv => DoneIsLogged
  BY DEF CommandsInv, CallSound, DoneIsLogged
<1> QED BY <1>1, CommandsInvariant, PTL
-----------------------------------------------------------------------------
(***************************************************************************)
(* The log viewer                                                            *)
(***************************************************************************)

-----------------------------------------------------------------------------
(* Lists of log entries *)

Entry == [id : Nat \ {0}, guild : Guilds]

\* In the order of the entries' numbers.
InOrder(s) == \A i, j \in DOMAIN s : i < j => s[i].id < s[j].id

LEMMA LastOfFacts ==
  ASSUME NEW T, NEW s \in Seq(T), NEW n \in Nat
  PROVE  /\ LastOf(s, n) \in Seq(T)
         /\ Len(LastOf(s, n)) = IF Len(s) > n THEN n ELSE Len(s)
         /\ \A i \in DOMAIN LastOf(s, n) :
              LastOf(s, n)[i] = s[i + (Len(s) - Len(LastOf(s, n)))]
<1> DEFINE m == 1 + (IF Len(s) > n THEN Len(s) - n ELSE 0)
<1>1. m \in Int /\ Len(s) \in Int /\ m >= 1 /\ m <= Len(s) + 1
  OBVIOUS
<1>2. \A i \in m .. Len(s) : s[i] \in T
  BY <1>1
<1>3. LastOf(s, n) = SubSeq(s, m, Len(s))
  BY DEF LastOf
<1>4. /\ LastOf(s, n) \in Seq(T)
      /\ Len(LastOf(s, n)) = IF m <= Len(s) THEN Len(s) - m + 1 ELSE 0
      /\ \A i \in 1 .. Len(s) - m + 1 : LastOf(s, n)[i] = s[m + i - 1]
  <2> HIDE DEF m
  <2> QED BY <1>1, <1>2, <1>3, SubSeqProperties
<1>5. Len(LastOf(s, n)) = Len(s) - m + 1
  <2> HIDE DEF m
  <2> QED BY <1>1, <1>4
<1>6. DOMAIN LastOf(s, n) = 1 .. Len(LastOf(s, n))
  BY <1>4
<1>7. \A i \in 1 .. Len(s) - m + 1 : m + i - 1 = i + (Len(s) - (Len(s) - m + 1))
  <2> HIDE DEF m
  <2> QED BY <1>1
<1>8. Len(s) - m + 1 = IF Len(s) > n THEN n ELSE Len(s)
  OBVIOUS
<1> HIDE DEF m
<1> QED BY <1>4, <1>5, <1>6, <1>7, <1>8

\* The entries of a sequence in order that satisfy a condition, in order.
LEMMA ChosenInOrder ==
  ASSUME NEW s \in Seq(Entry), InOrder(s), NEW kept \in SUBSET DOMAIN s
  PROVE  Chosen(s, kept) \in Seq(Entry) /\ InOrder(Chosen(s, kept))
<1>1. PICK at \in [1 .. Cardinality(kept) -> kept] :
        /\ Chosen(s, kept) = [k \in 1 .. Cardinality(kept) |-> s[at[k]]]
        /\ \A k, l \in 1 .. Cardinality(kept) : k < l => at[k] < at[l]
  BY ChosenFacts
<1>2. Chosen(s, kept) \in Seq(Entry)
  BY ChosenElements
<1>3. DOMAIN Chosen(s, kept) = 1 .. Cardinality(kept)
  BY <1>1
<1>4. \A k \in 1 .. Cardinality(kept) : at[k] \in DOMAIN s /\ Chosen(s, kept)[k] = s[at[k]]
  BY <1>1
<1> QED BY <1>1, <1>2, <1>3, <1>4 DEF InOrder

LEMMA OfGuildFacts ==
  ASSUME ring \in Seq(Entry), InOrder(ring), NEW g
  PROVE  /\ OfGuild(g) \in Seq(Entry) /\ InOrder(OfGuild(g))
         /\ ToSet(OfGuild(g)) = {e \in ToSet(ring) : e.guild = g}
<1> DEFINE kept == {i \in DOMAIN ring : ring[i].guild = g}
<1>1. kept \in SUBSET DOMAIN ring /\ OfGuild(g) = Chosen(ring, kept)
  BY DEF OfGuild
<1>2. {ring[i] : i \in kept} = {e \in ToSet(ring) : e.guild = g}
  BY DEF ToSet
<1> HIDE DEF kept
<1>3. {Chosen(ring, kept)[k] : k \in DOMAIN Chosen(ring, kept)} = {ring[i] : i \in kept}
  BY <1>1, ChosenElements
<1> QED BY <1>1, <1>2, <1>3, ChosenInOrder DEF ToSet

\* Before a cursor come older entries, all of them; when the cursor is lost, all entries.
LEMMA BeforeFacts ==
  ASSUME NEW s \in Seq(Entry), InOrder(s), NEW c \in Nat
  PROVE  /\ Before(s, c) \in Seq(Entry) /\ InOrder(Before(s, c))
         /\ ToSet(Before(s, c)) \subseteq ToSet(s)
         /\ \A e \in ToSet(s) : e.id < c => e \in ToSet(Before(s, c))
         /\ \A e \in ToSet(s), x \in ToSet(Before(s, c)) : e.id < x.id => e \in ToSet(Before(s, c))
<1>1. CASE \A i \in DOMAIN s : s[i].id # c
  BY <1>1 DEF Before
<1>2. CASE \E i \in DOMAIN s : s[i].id = c
  <2> DEFINE kept == {i \in DOMAIN s : s[i].id < c}
  <2>1. kept \in SUBSET DOMAIN s /\ Before(s, c) = Chosen(s, kept)
    BY <1>2 DEF Before
  <2>2. {s[i] : i \in kept} = {e \in ToSet(s) : e.id < c}
    BY DEF ToSet
  <2> HIDE DEF kept
  <2>a. {Chosen(s, kept)[k] : k \in DOMAIN Chosen(s, kept)} = {s[i] : i \in kept}
    BY <2>1, ChosenElements
  <2>3. ToSet(Before(s, c)) = {e \in ToSet(s) : e.id < c}
    BY <2>1, <2>2, <2>a DEF ToSet
  <2>b. \A i \in DOMAIN s : s[i] \in Entry
    OBVIOUS
  <2>4. \A e \in ToSet(s) : e.id \in Nat
    BY <2>b DEF ToSet, Entry
  <2> QED BY <2>1, <2>3, <2>4, ChosenInOrder
<1> QED BY <1>1, <1>2

LEMMA LastOfInOrder ==
  ASSUME NEW s \in Seq(Entry), InOrder(s), NEW n \in Nat \ {0}
  PROVE  /\ LastOf(s, n) \in Seq(Entry) /\ InOrder(LastOf(s, n))
         /\ ToSet(LastOf(s, n)) \subseteq ToSet(s)
         /\ Len(LastOf(s, n)) = n =>
              \A e \in ToSet(s) : e.id >= LastOf(s, n)[1].id => e \in ToSet(LastOf(s, n))
         /\ Len(LastOf(s, n)) # n => ToSet(s) \subseteq ToSet(LastOf(s, n))
<1> DEFINE t == LastOf(s, n)
           d == Len(s) - Len(t)
<1>1. /\ t \in Seq(Entry) /\ Len(t) = IF Len(s) > n THEN n ELSE Len(s)
      /\ \A i \in DOMAIN t : t[i] = s[i + (Len(s) - Len(t))]
  BY LastOfFacts
<1> HIDE DEF t
<1>2. /\ d \in Nat /\ Len(t) \in Nat /\ Len(s) \in Nat /\ Len(s) = Len(t) + d
      /\ DOMAIN t = 1 .. Len(t) /\ DOMAIN s = 1 .. Len(s)
  BY <1>1
<1>a. \A i \in 1 .. Len(t) : t[i] = s[i + d]
  BY <1>1, <1>2
<1>b. \A i \in 1 .. Len(t) : i + d \in 1 .. Len(s)
  <2> HIDE DEF d
  <2> QED BY <1>2
<1>3. \A i \in 1 .. Len(t) : t[i] = s[i + d] /\ i + d \in 1 .. Len(s)
  BY <1>a, <1>b
<1>4. \A j \in 1 .. Len(s) : j > d => s[j] \in ToSet(t)
  <2> SUFFICES ASSUME NEW j \in 1 .. Len(s), j > d PROVE s[j] \in ToSet(t)
    OBVIOUS
  <2>1. j - d \in 1 .. Len(t) /\ (j - d) + d = j
    <3> HIDE DEF d
    <3> QED BY <1>2
  <2>2. t[j - d] = s[j]
    <3> HIDE DEF d
    <3> QED BY <2>1, <1>3
  <2> QED BY <1>2, <2>1, <2>2 DEF ToSet
<1> HIDE DEF d
<1>5. InOrder(t)
  <2> SUFFICES ASSUME NEW i \in 1 .. Len(t), NEW j \in 1 .. Len(t), i < j PROVE t[i].id < t[j].id
    BY <1>2 DEF InOrder
  <2>1. i + d < j + d /\ i + d \in DOMAIN s /\ j + d \in DOMAIN s
    BY <1>2, <1>3
  <2> QED BY <1>3, <2>1 DEF InOrder
<1>6. ToSet(t) \subseteq ToSet(s)
  BY <1>2, <1>3 DEF ToSet
<1>7. ASSUME Len(t) = n, NEW e \in ToSet(s), e.id >= t[1].id PROVE e \in ToSet(t)
  <2>1. PICK j \in 1 .. Len(s) : e = s[j]
    BY <1>2 DEF ToSet
  <2>2. 1 \in 1 .. Len(t) /\ 1 + d \in DOMAIN s /\ t[1] = s[1 + d]
    BY <1>2, <1>3, <1>7
  <2>3. e.id \in Nat /\ t[1].id \in Nat
    <3>1. \A i \in DOMAIN s : s[i] \in Entry
      OBVIOUS
    <3> QED BY <1>2, <2>1, <2>2, <3>1 DEF Entry
  <2>4. ~(j < 1 + d)
    BY <1>2, <1>7, <2>1, <2>2, <2>3 DEF InOrder
  <2> QED BY <1>2, <1>4, <2>1, <2>4
<1>8. ASSUME Len(t) # n PROVE ToSet(s) \subseteq ToSet(t)
  <2>1. Len(s) = Len(t) /\ d = 0
    BY <1>1, <1>2, <1>8
  <2> QED BY <1>2, <1>4, <2>1 DEF ToSet
<1> QED BY <1>1, <1>5, <1>6, <1>7, <1>8 DEF t

\* What a query answers: entries of the guild, and no gap between the newest of them
\* and where the next page begins.
LEMMA QueryFacts ==
  ASSUME ring \in Seq(Entry), InOrder(ring), NEW g, NEW c \in Nat
  PROVE  /\ Query(g, c).logs \in Seq(Entry) /\ Query(g, c).next \in Nat
         /\ Query(g, c).next = 0 \/ \E x \in ToSet(ring) : Query(g, c).next = x.id
         /\ \A x \in ToSet(Query(g, c).logs) : x \in ToSet(ring) /\ x.guild = g
         /\ \A e \in ToSet(ring) :
              /\ e.guild = g /\ e.id >= Query(g, c).next
              /\ c = 0 \/ e.id < c \/ \E x \in ToSet(Query(g, c).logs) : x.id > e.id
              => e \in ToSet(Query(g, c).logs)
<1> DEFINE all == IF c = 0 THEN OfGuild(g) ELSE Before(OfGuild(g), c)
           last == LastOf(all, Limit)
           logs == Reverse(last)
           next == IF Len(logs) = Limit THEN logs[Limit].id ELSE 0
<1>0. Query(g, c).logs = logs /\ Query(g, c).next = next
  BY DEF Query
<1>1. /\ OfGuild(g) \in Seq(Entry) /\ InOrder(OfGuild(g))
      /\ ToSet(OfGuild(g)) = {e \in ToSet(ring) : e.guild = g}
  BY OfGuildFacts
<1>2. /\ all \in Seq(Entry) /\ InOrder(all) /\ ToSet(all) \subseteq ToSet(OfGuild(g))
      /\ \A e \in ToSet(OfGuild(g)) :
           c = 0 \/ e.id < c \/ (\E x \in ToSet(all) : e.id < x.id) => e \in ToSet(all)
  BY <1>1, BeforeFacts
<1> HIDE DEF all
<1>3. Limit \in Nat \ {0}
  BY LogStreamAssumption
<1>4. /\ last \in Seq(Entry) /\ InOrder(last) /\ ToSet(last) \subseteq ToSet(all)
      /\ Len(last) = Limit => \A e \in ToSet(all) : e.id >= last[1].id => e \in ToSet(last)
      /\ Len(last) # Limit => ToSet(all) \subseteq ToSet(last)
  BY <1>2, <1>3, LastOfInOrder
<1> HIDE DEF last
<1>5. /\ logs \in Seq(Entry) /\ Len(logs) = Len(last) /\ ToSet(logs) = ToSet(last)
      /\ Len(last) = Limit => logs[Limit] = last[1]
  <2>1. \A i \in 1 .. Len(last) : (Len(last) - i) + 1 \in 1 .. Len(last)
    BY <1>4
  <2>2. logs = [i \in 1 .. Len(last) |-> last[(Len(last) - i) + 1]]
    BY DEF Reverse
  <2>3. logs \in Seq(Entry) /\ Len(logs) = Len(last) /\ DOMAIN logs = 1 .. Len(last)
    BY <1>4, <2>1, <2>2
  <2>4. \A i \in 1 .. Len(last) : last[i] = logs[(Len(last) - i) + 1]
    BY <1>4, <2>1, <2>2
  <2>5. ToSet(logs) = ToSet(last)
    <3>1. DOMAIN last = 1 .. Len(last)
      BY <1>4
    <3>2. \A i \in 1 .. Len(last) : logs[i] = last[(Len(last) - i) + 1]
      BY <2>2
    <3> HIDE DEF logs
    <3>3. \A i \in 1 .. Len(last) : logs[i] \in ToSet(last)
      BY <2>1, <3>1, <3>2 DEF ToSet
    <3>4. \A i \in 1 .. Len(last) : last[i] \in ToSet(logs)
      BY <2>1, <2>3, <2>4 DEF ToSet
    <3>5. ToSet(logs) \subseteq ToSet(last)
      BY <2>3, <3>3 DEF ToSet
    <3>6. ToSet(last) \subseteq ToSet(logs)
      BY <3>1, <3>4 DEF ToSet
    <3> QED BY <3>5, <3>6
  <2> QED BY <1>3, <1>4, <2>2, <2>3, <2>5
<1> HIDE DEF logs
<1>6. next \in Nat /\ (next = 0 \/ \E x \in ToSet(logs) : next = x.id)
  <2>1. CASE Len(logs) = Limit
    <3>1. Limit \in DOMAIN logs
      BY <1>3, <1>5, <2>1
    <3>2. logs[Limit] \in Entry
      BY <1>5, <3>1
    <3>3. logs[Limit] \in ToSet(logs)
      BY <3>1 DEF ToSet
    <3> QED BY <2>1, <3>2, <3>3 DEF Entry
  <2>2. CASE Len(logs) # Limit
    BY <2>2
  <2> QED BY <2>1, <2>2
<1>7. \A e \in ToSet(all) : e.id >= next => e \in ToSet(logs)
  BY <1>4, <1>5
<1> HIDE DEF next
<1> QED BY <1>0, <1>1, <1>2, <1>4, <1>5, <1>6, <1>7

LEMMA UniqueFacts ==
  ASSUME NEW T, NEW s \in Seq(T)
  PROVE  /\ Unique(s) \in Seq(T) /\ IsInjective(Unique(s))
         /\ ToSet(Unique(s)) = ToSet(s)
<1> DEFINE kept == {i \in DOMAIN s : \A j \in 1 .. i - 1 : s[j] # s[i]}
<1>1. kept \in SUBSET DOMAIN s /\ Unique(s) = Chosen(s, kept)
  BY DEF Unique
<1>2. \A i \in kept, j \in kept : i < j => s[i] # s[j]
  OBVIOUS
<1>3. \A x \in ToSet(s) : \E i \in kept : x = s[i]
  <2> SUFFICES ASSUME NEW x \in ToSet(s) PROVE \E i \in kept : x = s[i]
    OBVIOUS
  <2> DEFINE places == {i \in DOMAIN s : s[i] = x}
  <2>1. places \in SUBSET Nat /\ places # {}
    <3>1. \E i \in DOMAIN s : s[i] = x
      BY DEF ToSet
    <3>2. DOMAIN s \subseteq Nat
      OBVIOUS
    <3> QED BY <3>1, <3>2
  <2> HIDE DEF places
  <2>2. PICK i \in places : \A j \in places : i <= j
    BY <2>1, LeastNatural
  <2> QED BY <2>2 DEF places
<1>4. \A i \in kept : s[i] \in ToSet(s)
  BY DEF ToSet
<1> HIDE DEF kept
<1>5. /\ Chosen(s, kept) \in Seq(T)
      /\ {Chosen(s, kept)[k] : k \in DOMAIN Chosen(s, kept)} = {s[i] : i \in kept}
  BY <1>1, ChosenElements
<1>6. ToSet(Unique(s)) = ToSet(s)
  <2>1. ToSet(Unique(s)) = {s[i] : i \in kept}
    BY <1>1, <1>5 DEF ToSet
  <2> QED BY <1>3, <1>4, <2>1
<1>7. PICK at \in [1 .. Cardinality(kept) -> kept] :
        /\ Chosen(s, kept) = [k \in 1 .. Cardinality(kept) |-> s[at[k]]]
        /\ \A k, l \in 1 .. Cardinality(kept) : k < l => at[k] < at[l]
  BY <1>1, ChosenFacts
<1>8. Cardinality(kept) \in Nat
  BY <1>1, ChosenFacts
<1>9. IsInjective(Unique(s))
  <2> SUFFICES ASSUME NEW k \in 1 .. Cardinality(kept), NEW l \in 1 .. Cardinality(kept), k < l
               PROVE  s[at[k]] # s[at[l]]
    BY <1>1, <1>7, <1>8 DEF IsInjective
  <2> QED BY <1>2, <1>7
<1> QED BY <1>1, <1>5, <1>6, <1>9

LEMMA BoundedFacts ==
  ASSUME NEW T, NEW s \in Seq(T)
  PROVE  /\ Bounded(s) \in Seq(T) /\ ToSet(Bounded(s)) \subseteq ToSet(s)
         /\ IsInjective(s) => IsInjective(Bounded(s))
         /\ Len(Bounded(s)) < MaxRendered => Bounded(s) = s
<1> DEFINE n == IF Len(s) > MaxRendered THEN MaxRendered ELSE Len(s)
<1>1. n \in Nat /\ n <= Len(s) /\ Len(s) \in Nat /\ MaxRendered \in Nat
  BY LogStreamAssumption
<1>2. Bounded(s) = SubSeq(s, 1, n)
  BY DEF Bounded
<1>3. /\ Bounded(s) \in Seq(T) /\ Len(Bounded(s)) = n
      /\ \A i \in 1 .. n : Bounded(s)[i] = s[i] /\ i \in DOMAIN s
  <2> HIDE DEF n
  <2>1. \A i \in 1 .. n : s[i] \in T
    BY <1>1
  <2>2. n - 1 + 1 = n
    BY <1>1
  <2>3. \A i \in 1 .. n : 1 + i - 1 = i
    BY <1>1
  <2>4. 1 \in Int /\ n \in Int /\ (IF 1 <= n THEN n - 1 + 1 ELSE 0) = n
    BY <1>1
  <2>5. /\ SubSeq(s, 1, n) \in Seq(T)
        /\ Len(SubSeq(s, 1, n)) = n
        /\ \A i \in 1 .. n : SubSeq(s, 1, n)[i] = s[i]
    BY <2>1, <2>2, <2>3, <2>4, SubSeqProperties
  <2> QED BY <1>1, <1>2, <2>5
<1>4. DOMAIN Bounded(s) = 1 .. n
  <2> HIDE DEF n
  <2> QED BY <1>3
<1>5. ToSet(Bounded(s)) \subseteq ToSet(s)
  <2> HIDE DEF n
  <2> QED BY <1>3, <1>4 DEF ToSet
<1>6. IsInjective(s) => IsInjective(Bounded(s))
  <2> HIDE DEF n
  <2> QED BY <1>3, <1>4 DEF IsInjective
<1>7. ASSUME n < MaxRendered PROVE Bounded(s) = s
  <2>1. n = Len(s)
    BY <1>1, <1>7
  <2> HIDE DEF n
  <2> QED BY <1>3, <2>1
<1> QED BY <1>3, <1>5, <1>6, <1>7

LEMMA BoundedLogsFacts ==
  ASSUME NEW T, NEW s \in Seq(T)
  PROVE  /\ BoundedLogs(s) \in Seq(T) /\ IsInjective(BoundedLogs(s))
         /\ ToSet(BoundedLogs(s)) \subseteq ToSet(s)
         /\ Len(BoundedLogs(s)) < MaxRendered => ToSet(BoundedLogs(s)) = ToSet(s)
BY UniqueFacts, BoundedFacts DEF BoundedLogs

\* A list without repetitions is no longer than one with all its elements.
LEMMA NoLonger ==
  ASSUME NEW T, NEW s \in Seq(T), NEW t \in Seq(T), IsInjective(s), ToSet(s) \subseteq ToSet(t)
  PROVE  Len(s) <= Len(t)
<1> DEFINE f == [i \in 1 .. Len(s) |-> CHOOSE j \in 1 .. Len(t) : t[j] = s[i]]
<1>0. /\ DOMAIN s = 1 .. Len(s) /\ DOMAIN t = 1 .. Len(t)
      /\ Len(s) \in Nat /\ Len(t) \in Nat
  OBVIOUS
<1>1. \A i \in 1 .. Len(s) : \E j \in 1 .. Len(t) : t[j] = s[i]
  <2> TAKE i \in 1 .. Len(s)
  <2>1. s[i] \in ToSet(s)
    BY <1>0 DEF ToSet
  <2>2. s[i] \in ToSet(t)
    BY <2>1
  <2> QED BY <1>0, <2>2 DEF ToSet
<1>2. \A i \in 1 .. Len(s) : f[i] \in 1 .. Len(t) /\ t[f[i]] = s[i]
  BY <1>1
<1>3. f \in Injection(1 .. Len(s), 1 .. Len(t))
  <2>1. f \in [1 .. Len(s) -> 1 .. Len(t)]
    BY <1>2
  <2> HIDE DEF f
  <2> QED BY <1>2, <2>1 DEF Injection, IsInjective
<1>4. /\ IsFiniteSet(1 .. Len(s)) /\ Cardinality(1 .. Len(s)) = Len(s)
      /\ IsFiniteSet(1 .. Len(t)) /\ Cardinality(1 .. Len(t)) = Len(t)
  <2>1. \A n \in Nat : IsFiniteSet(1 .. n) /\ Cardinality(1 .. n) = n
    <3> TAKE n \in Nat
    <3>1. /\ IsFiniteSet(1 .. n)
          /\ Cardinality(1 .. n) = IF 1 > n THEN 0 ELSE n - 1 + 1
      BY FS_Interval
    <3> QED BY <3>1
  <2> QED BY <1>0, <2>1
<1> HIDE DEF f
<1> QED BY <1>3, <1>4, FS_Injection

-----------------------------------------------------------------------------
(* The invariant *)

Streams == [at : {"none", "lookup", "subscribed", "refused", "orphan"},
            guild : Guilds \cup {"none"}, open : BOOLEAN, queue : Seq(Entry)]

Pages == [guild : Guilds, gen : Nat, logs : Seq(Entry), next : Nat, buffer : Seq(Entry),
          live : BOOLEAN, paused : BOOLEAN, conn : 0 .. MaxConns, streamGen : Nat,
          fresh : Nat, mixed : BOOLEAN]

Loads == [at : {"none", "sent", "answered"}, gen : Nat, guild : Guilds \cup {"none"},
          cursor : Nat, logs : Seq(Entry), next : Nat]

ViewerTypes ==
  /\ ring \in Seq(Entry) /\ count \in Nat /\ uses \in Nat
  /\ conns \in [1 .. MaxConns -> Streams]
  /\ page \in Pages
  /\ loads \in [Slots -> Loads]

Given(s) == \A x \in ToSet(s) : x.id <= count

\* The ring is in the order of its entries' numbers, and no entry or cursor has a number
\* that is still to be given.
NumberedInOrder ==
  /\ InOrder(ring) /\ Given(ring) /\ Given(page.logs) /\ Given(page.buffer)
  /\ \A c \in 1 .. MaxConns : Given(conns[c].queue)
  /\ \A s \in Slots : Given(loads[s].logs) /\ loads[s].next <= count
  /\ page.next <= count

\* The present stream is the page's own: open, and of its guild.
StreamOfPage ==
  /\ page.streamGen <= page.gen
  /\ page.conn # 0 =>
       /\ conns[page.conn].at \in {"lookup", "subscribed", "refused"}
       /\ conns[page.conn].open /\ conns[page.conn].guild = page.guild

UnderWay(s) == loads[s].at # "none" /\ loads[s].gen = page.gen

\* Where entry e belongs to the answer of slot s: no older than its end, and older than
\* another of it or than the end of the list that it continues.
Spans(s, e) ==
  /\ e.guild = page.guild /\ e.id >= loads[s].next
  /\ \/ \E x \in ToSet(loads[s].logs) : x.id > e.id
     \/ loads[s].cursor # 0 /\ ~page.mixed /\ e.id < page.next

\* A load of the present generation asks for the page's guild, and for what follows the
\* list as it is; its answer has no gap, within and towards the list.
LoadFits(s) ==
  /\ loads[s].gen <= page.gen
  /\ UnderWay(s) /\ loads[s].at = "sent" =>
       /\ loads[s].guild = page.guild
       /\ loads[s].cursor # 0 /\ ~page.mixed => loads[s].cursor = page.next
  /\ UnderWay(s) /\ loads[s].at = "answered" =>
       /\ \A x \in ToSet(loads[s].logs) : x.guild = page.guild
       /\ \A e \in ToSet(ring) : Spans(s, e) => e \in ToSet(loads[s].logs)

\* The list made of pages has no gap above the next page.
NoGap ==
  ~page.mixed /\ Len(page.logs) < MaxRendered =>
    \A e \in ToSet(ring) :
      /\ e.guild = page.guild /\ e.id >= page.next
      /\ \E x \in ToSet(page.logs) : x.id > e.id
      => e \in ToSet(page.logs)

ViewerInv ==
  /\ ViewerTypes /\ NumberedInOrder /\ StreamOfPage
  /\ \A s \in Slots : LoadFits(s)
  /\ OwnEntriesOnce /\ NoGap /\ LiveMissesNothing

-----------------------------------------------------------------------------
(* Streams, loads and lists *)

LEMMA Nothing ==
  /\ NoConn \in Streams /\ NoLoad \in Loads /\ ToSet(<<>>) = {}
  /\ <<>> \in Seq(Entry) /\ IsInjective(<<>>)
BY DEF NoConn, NoLoad, Streams, Loads, ToSet, IsInjective

LEMMA StreamFacts ==
  ASSUME NEW g \in Guilds
  PROVE  /\ Stream(g) \in Streams /\ Stream(g).at = "lookup" /\ Stream(g).guild = g
         /\ Stream(g).open /\ Stream(g).queue = <<>>
BY Nothing DEF Stream, NoConn, Streams

LEMMA AskedFacts ==
  ASSUME NEW p \in Pages, NEW c \in Nat
  PROVE  /\ Asked(p, c) \in Loads /\ Asked(p, c).at = "sent" /\ Asked(p, c).gen = p.gen
         /\ Asked(p, c).guild = p.guild /\ Asked(p, c).cursor = c /\ Asked(p, c).logs = <<>>
         /\ Asked(p, c).next = 0
BY Nothing DEF Asked, NoLoad, Loads, Pages

LEMMA FreshFacts ==
  ASSUME ViewerTypes
  PROVE  Fresh \in 0 .. MaxConns /\ (Fresh # 0 => conns[Fresh] = NoConn)
<1> DEFINE free == {c \in 1 .. MaxConns : conns[c] = NoConn}
           First(c) == \/ c > 0 /\ conns[c] = NoConn /\ \A d \in 1 .. c - 1 : conns[d] # NoConn
                       \/ c = 0 /\ \A d \in 1 .. MaxConns : conns[d] # NoConn
<1>1. \E c \in 0 .. MaxConns : First(c)
  <2>1. MaxConns \in Nat
    BY LogStreamAssumption
  <2>2. CASE free = {}
    <3>1. First(0) /\ 0 \in 0 .. MaxConns
      BY <2>1, <2>2
    <3> QED BY <3>1
  <2>3. CASE free # {}
    <3>1. free \in SUBSET Nat
      BY <2>1
    <3>2. PICK c \in free : \A d \in free : c <= d
      BY <2>3, <3>1, LeastNatural
    <3>3. \A d \in 1 .. c - 1 : d \in 1 .. MaxConns /\ ~(c <= d)
      BY <2>1, <3>2
    <3>4. First(c) /\ c \in 0 .. MaxConns
      BY <2>1, <3>2, <3>3
    <3> QED BY <3>4
  <2> QED BY <2>2, <2>3
<1>2. Fresh = CHOOSE c \in 0 .. MaxConns : First(c)
  BY DEF Fresh
<1>3. Fresh \in 0 .. MaxConns /\ First(Fresh)
  BY <1>1, <1>2
<1> QED BY <1>3

LEMMA ClosedFacts ==
  ASSUME ViewerTypes, NEW c \in 0 .. MaxConns
  PROVE  /\ Closed(conns, c) \in [1 .. MaxConns -> Streams]
         /\ \A d \in 1 .. MaxConns : Closed(conns, c)[d] = conns[d] \/ Closed(conns, c)[d].queue = <<>>
<1>1. conns \in [1 .. MaxConns -> Streams] /\ NoConn.queue = <<>>
  BY DEF ViewerTypes, NoConn
<1>2. CASE c = 0
  BY <1>1, <1>2 DEF Closed
<1>3. CASE c # 0
  <2>1. c \in 1 .. MaxConns /\ conns[c] \in Streams
    BY <1>1, <1>3
  <2> DEFINE shut == [conns EXCEPT ![c].open = FALSE, ![c].queue = <<>>, ![c].guild = "none"]
  <2>2. /\ shut \in [1 .. MaxConns -> Streams] /\ shut[c].queue = <<>>
        /\ \A d \in 1 .. MaxConns : d # c => shut[d] = conns[d]
    BY <1>1, <2>1, Nothing DEF Streams
  <2> DEFINE gone == [conns EXCEPT ![c] = NoConn]
  <2>3. /\ gone \in [1 .. MaxConns -> Streams] /\ gone[c].queue = <<>>
        /\ \A d \in 1 .. MaxConns : d # c => gone[d] = conns[d]
    BY <1>1, <2>1, Nothing
  <2>4. Closed(conns, c) = gone \/ Closed(conns, c) = shut
    BY <1>3 DEF Closed
  <2> HIDE DEF gone, shut
  <2> QED BY <2>2, <2>3, <2>4
<1> QED BY <1>2, <1>3

\* Another stream in place of the present one.
LEMMA ReopenFacts ==
  ASSUME ViewerTypes, NEW g \in Guilds, Fresh # 0,
         conns' = [Closed(conns, page.conn) EXCEPT ![Fresh] = Stream(g)]
  PROVE  /\ conns' \in [1 .. MaxConns -> Streams] /\ Fresh \in 1 .. MaxConns
         /\ conns'[Fresh] = Stream(g)
         /\ \A d \in 1 .. MaxConns : conns'[d] = conns[d] \/ conns'[d].queue = <<>>
<1>1. Fresh \in 1 .. MaxConns /\ page.conn \in 0 .. MaxConns
  BY FreshFacts DEF ViewerTypes, Pages
<1>2. /\ Closed(conns, page.conn) \in [1 .. MaxConns -> Streams]
      /\ \A d \in 1 .. MaxConns :
           Closed(conns, page.conn)[d] = conns[d] \/ Closed(conns, page.conn)[d].queue = <<>>
  BY <1>1, ClosedFacts
<1> QED BY <1>1, <1>2, StreamFacts

LEMMA ReconnectFacts ==
  ASSUME ViewerTypes, NEW p \in Pages, p.conn = page.conn, Reconnect(p)
  PROVE  /\ page' \in Pages
         /\ page'.guild = p.guild /\ page'.gen = p.gen /\ page'.logs = p.logs
         /\ page'.next = p.next /\ page'.buffer = p.buffer /\ page'.mixed = p.mixed
         /\ page'.live = p.live
         /\ page'.streamGen <= p.gen
         /\ conns' \in [1 .. MaxConns -> Streams]
         /\ \A d \in 1 .. MaxConns : conns'[d] = conns[d] \/ conns'[d].queue = <<>>
         /\ page'.conn # 0 => conns'[page'.conn] = Stream(p.guild)
<1>0. p.guild \in Guilds /\ p.gen \in Nat
  BY DEF Pages
<1>1. CASE p.live
  <2>1. /\ Fresh # 0 /\ page' = [p EXCEPT !.conn = Fresh, !.streamGen = p.gen]
        /\ conns' = [Closed(conns, page.conn) EXCEPT ![Fresh] = Stream(p.guild)]
    BY <1>1 DEF Reconnect
  <2>2. /\ conns' \in [1 .. MaxConns -> Streams] /\ Fresh \in 1 .. MaxConns
        /\ conns'[Fresh] = Stream(p.guild)
        /\ \A d \in 1 .. MaxConns : conns'[d] = conns[d] \/ conns'[d].queue = <<>>
    BY <1>0, <2>1, ReopenFacts
  <2>3. /\ page' \in Pages /\ page'.conn = Fresh
        /\ page'.guild = p.guild /\ page'.gen = p.gen /\ page'.logs = p.logs
        /\ page'.next = p.next /\ page'.buffer = p.buffer /\ page'.mixed = p.mixed
        /\ page'.live = p.live /\ page'.streamGen = p.gen
    <3>1. Fresh \in 0 .. MaxConns
      BY <2>2
    <3> QED BY <1>0, <2>1, <3>1 DEF Pages
  <2> QED BY <1>0, <2>2, <2>3
<1>2. CASE ~p.live
  <2>1. /\ page' = [p EXCEPT !.conn = 0, !.streamGen = 0, !.fresh = 0]
        /\ conns' = Closed(conns, page.conn)
    BY <1>2 DEF Reconnect
  <2>2. page.conn \in 0 .. MaxConns /\ 0 \in 0 .. MaxConns
    BY LogStreamAssumption DEF ViewerTypes, Pages
  <2>3. /\ page' \in Pages /\ page'.conn = 0
        /\ page'.guild = p.guild /\ page'.gen = p.gen /\ page'.logs = p.logs
        /\ page'.next = p.next /\ page'.buffer = p.buffer /\ page'.mixed = p.mixed
        /\ page'.live = p.live /\ page'.streamGen = 0
    BY <2>1, <2>2 DEF Pages
  <2> QED BY <1>0, <2>1, <2>2, <2>3, ClosedFacts
<1> QED BY <1>1, <1>2

LEMMA RingKnown ==
  ASSUME ViewerInv
  PROVE  \A e \in ToSet(ring) : e.id \in Nat /\ ~(e.id > count)
<1>1. count \in Nat /\ \A i \in DOMAIN ring : ring[i] \in Entry
  BY DEF ViewerInv, ViewerTypes
<1> QED BY <1>1 DEF ViewerInv, NumberedInOrder, Given, ToSet, Entry

\* A load that is left alone still fits while the page stays in its generation, and after
\* the page went on to another.
LEMMA LoadKept ==
  ASSUME ViewerInv, NEW t \in Slots, loads'[t] = loads[t],
         ToSet(ring)' \subseteq ToSet(ring),
         page'.gen = page.gen, page'.guild = page.guild,
         ~UnderWay(t) \/ page'.mixed \/ (page'.mixed = page.mixed /\ page'.next = page.next)
  PROVE  LoadFits(t)'
<1>1. LoadFits(t)
  BY DEF ViewerInv
<1>2. UnderWay(t)' <=> UnderWay(t)
  BY DEF UnderWay
<1>3. ASSUME NEW e, UnderWay(t), Spans(t, e)' PROVE Spans(t, e)
  BY <1>3 DEF Spans
<1> QED BY <1>1, <1>2, <1>3 DEF LoadFits

LEMMA LoadOutdated ==
  ASSUME ViewerInv, NEW t \in Slots, loads'[t] = loads[t], page' \in Pages, page'.gen = page.gen + 1
  PROVE  LoadFits(t)'
<1>1. loads[t].gen <= page.gen /\ loads[t].gen \in Nat /\ page.gen \in Nat
  BY DEF ViewerInv, ViewerTypes, LoadFits, Loads, Pages
<1>2. loads[t].gen <= page'.gen /\ loads[t].gen # page'.gen
  BY <1>1
<1> QED BY <1>2 DEF LoadFits, UnderWay

\* What keeps the list and the ring keeps what holds of both.
LEMMA ListKept ==
  ASSUME ViewerInv, UNCHANGED <<ring, count>>,
         page'.guild = page.guild, page'.logs = page.logs, page'.buffer = page.buffer,
         page'.next = page.next, page'.mixed = page.mixed
  PROVE  /\ OwnEntriesOnce' /\ NoGap'
         /\ Given(page.logs)' /\ Given(page.buffer)' /\ page'.next <= count'
BY DEF ViewerInv, NumberedInOrder, OwnEntriesOnce, NoGap, Given, Shown

LEMMA QueuesKept ==
  ASSUME ViewerInv, count' = count,
         \A d \in 1 .. MaxConns : conns'[d] = conns[d] \/ conns'[d].queue = <<>>
  PROVE  \A d \in 1 .. MaxConns : Given(conns[d].queue)'
BY Nothing DEF ViewerInv, NumberedInOrder, Given

\* A page that has no stream, or one just opened, misses nothing yet.
LEMMA JustOpened ==
  ASSUME ViewerInv, page' \in Pages, page'.streamGen <= page'.gen,
         page'.conn # 0 => conns'[page'.conn] = Stream(page'.guild)
  PROVE  StreamOfPage' /\ LiveMissesNothing'
<1>1. page'.guild \in Guilds
  BY DEF Pages
<1>2. page'.conn # 0 => /\ conns'[page'.conn].at = "lookup" /\ conns'[page'.conn].open
                        /\ conns'[page'.conn].guild = page'.guild
  BY <1>1, StreamFacts
<1> QED BY <1>2 DEF StreamOfPage, LiveMissesNothing

LEMMA WriteEntryKeeps ==
  ASSUME ViewerInv, NEW g \in Guilds, WriteEntry(g)
  PROVE  ViewerInv'
<1> DEFINE entry == [id |-> count + 1, guild |-> g]
           all == Append(ring, entry)
<1>0. /\ ring \in Seq(Entry) /\ count \in Nat /\ conns \in [1 .. MaxConns -> Streams]
      /\ page \in Pages /\ loads \in [Slots -> Loads] /\ uses \in Nat
      /\ InOrder(ring) /\ Given(ring)
  BY DEF ViewerInv, ViewerTypes, NumberedInOrder
<1>1. /\ count' = count + 1 /\ ring' = LastOf(all, Capacity)
      /\ conns' = [c \in 1 .. MaxConns |->
                     IF Subscribed(c, g) /\ conns[c].open
                     THEN [conns[c] EXCEPT !.queue = Append(@, entry)] ELSE conns[c]]
      /\ UNCHANGED <<page, loads, uses>>
  BY DEF WriteEntry
<1>2. entry \in Entry /\ entry.id = count + 1 /\ entry.guild = g
  BY <1>0 DEF Entry
<1> HIDE DEF entry
<1>3. \A s \in Seq(Entry) : /\ Append(s, entry) \in Seq(Entry)
                            /\ ToSet(Append(s, entry)) = ToSet(s) \cup {entry}
  <2> TAKE s \in Seq(Entry)
  <2>1. Append(s, entry) \in Seq(Entry) /\ DOMAIN Append(s, entry) = 1 .. Len(s) + 1
    BY <1>2
  <2>2. /\ Append(s, entry)[Len(s) + 1] = entry
        /\ \A i \in 1 .. Len(s) : Append(s, entry)[i] = s[i]
    BY <1>2
  <2>3. DOMAIN s = 1 .. Len(s) /\ Len(s) \in Nat
    OBVIOUS
  <2>4. ToSet(Append(s, entry)) \subseteq ToSet(s) \cup {entry}
    BY <2>1, <2>2, <2>3 DEF ToSet
  <2>5. ToSet(s) \cup {entry} \subseteq ToSet(Append(s, entry))
    BY <2>1, <2>2, <2>3 DEF ToSet
  <2> QED BY <2>1, <2>4, <2>5
<1>4. all \in Seq(Entry) /\ ToSet(all) = ToSet(ring) \cup {entry}
  BY <1>0, <1>3
<1>5. InOrder(all)
  <2> SUFFICES ASSUME NEW i \in DOMAIN all, NEW j \in DOMAIN all, i < j PROVE all[i].id < all[j].id
    BY DEF InOrder
  <2>1. /\ i \in 1 .. Len(ring) /\ all[i] = ring[i] /\ ring[i].id \in Nat /\ ring[i].id <= count
        /\ \/ j \in 1 .. Len(ring) /\ all[j] = ring[j]
           \/ all[j] = entry
    <3>1. DOMAIN all = 1 .. Len(ring) + 1 /\ Len(ring) \in Nat /\ DOMAIN ring = 1 .. Len(ring)
      BY <1>0, <1>2
    <3>2. i \in 1 .. Len(ring) /\ (j \in 1 .. Len(ring) \/ j = Len(ring) + 1)
      BY <3>1
    <3>3. ring[i] \in ToSet(ring) /\ ring[i] \in Entry
      BY <1>0, <3>1, <3>2 DEF ToSet
    <3>4. ring[i].id \in Nat /\ ring[i].id <= count
      BY <1>0, <3>3 DEF Given, Entry
    <3> QED BY <1>0, <1>2, <3>1, <3>2, <3>4
  <2>2. CASE all[j] = entry
    BY <1>0, <1>2, <2>1, <2>2
  <2>3. CASE j \in 1 .. Len(ring) /\ all[j] = ring[j]
    BY <1>0, <2>1, <2>3 DEF InOrder
  <2> QED BY <2>1, <2>2, <2>3
<1> HIDE DEF all
<1>6. ring' \in Seq(Entry) /\ InOrder(ring)' /\ ToSet(ring)' \subseteq ToSet(ring) \cup {entry}
  BY <1>1, <1>4, <1>5, LastOfInOrder, LogStreamAssumption DEF InOrder
<1>7. \A s \in Seq(Entry) : \A x \in ToSet(s) : x.id \in Nat /\ x \in Entry
  <2>1. \A s \in Seq(Entry) : \A i \in DOMAIN s : s[i] \in Entry
    OBVIOUS
  <2> QED BY <2>1 DEF ToSet, Entry
<1>8. ASSUME NEW s \in Seq(Entry), Given(s) PROVE \A x \in ToSet(s) : x.id <= count' /\ x.id < entry.id
  BY <1>0, <1>1, <1>2, <1>7, <1>8 DEF Given
<1>a. /\ page.logs \in Seq(Entry) /\ page.buffer \in Seq(Entry) /\ page.next \in Nat
      /\ \A c \in 1 .. MaxConns : conns[c] \in Streams /\ conns[c].queue \in Seq(Entry)
      /\ \A t \in Slots : loads[t].logs \in Seq(Entry) /\ loads[t].next \in Nat
  BY <1>0 DEF Pages, Streams, Loads
<1>b. /\ Given(page.logs) /\ Given(page.buffer) /\ page.next <= count
      /\ \A c \in 1 .. MaxConns : Given(conns[c].queue)
      /\ \A t \in Slots : Given(loads[t].logs) /\ loads[t].next <= count
  BY DEF ViewerInv, NumberedInOrder
<1>9. /\ conns' \in [1 .. MaxConns -> Streams]
      /\ \A c \in 1 .. MaxConns :
           /\ conns'[c].at = conns[c].at /\ conns'[c].open = conns[c].open
           /\ conns'[c].guild = conns[c].guild
           /\ ToSet(conns[c].queue) \subseteq ToSet(conns'[c].queue)
           /\ ToSet(conns'[c].queue) \subseteq ToSet(conns[c].queue) \cup {entry}
           /\ Subscribed(c, g) /\ conns[c].open => entry \in ToSet(conns'[c].queue)
  <2> SUFFICES ASSUME NEW c \in 1 .. MaxConns
      PROVE  /\ conns'[c] \in Streams
             /\ conns'[c].at = conns[c].at /\ conns'[c].open = conns[c].open
             /\ conns'[c].guild = conns[c].guild
             /\ ToSet(conns[c].queue) \subseteq ToSet(conns'[c].queue)
             /\ ToSet(conns'[c].queue) \subseteq ToSet(conns[c].queue) \cup {entry}
             /\ Subscribed(c, g) /\ conns[c].open => entry \in ToSet(conns'[c].queue)
    BY <1>1
  <2>1. CASE Subscribed(c, g) /\ conns[c].open
    <3>1. conns'[c] = [conns[c] EXCEPT !.queue = Append(@, entry)]
      BY <1>1, <2>1
    <3>2. /\ Append(conns[c].queue, entry) \in Seq(Entry)
          /\ ToSet(Append(conns[c].queue, entry)) = ToSet(conns[c].queue) \cup {entry}
      BY <1>3, <1>a
    <3>3. /\ conns'[c] \in Streams /\ conns'[c].queue = Append(conns[c].queue, entry)
          /\ conns'[c].at = conns[c].at /\ conns'[c].open = conns[c].open
          /\ conns'[c].guild = conns[c].guild
      BY <1>a, <3>1, <3>2 DEF Streams
    <3> QED BY <3>2, <3>3
  <2>2. CASE ~(Subscribed(c, g) /\ conns[c].open)
    BY <1>1, <1>a, <2>2
  <2> QED BY <2>1, <2>2
<1>10. ViewerTypes'
  <2>1. count' \in Nat
    BY <1>0, <1>1
  <2>2. page' \in Pages /\ loads' \in [Slots -> Loads] /\ uses' \in Nat
    BY <1>0, <1>1
  <2> QED BY <1>6, <1>9, <2>1, <2>2 DEF ViewerTypes
<1>11. NumberedInOrder'
  <2>1. \A x \in ToSet(ring') : x.id <= count'
    <3>1. \A x \in ToSet(ring) : x.id <= count'
      BY <1>0, <1>8
    <3>2. entry.id <= count'
      BY <1>0, <1>1, <1>2
    <3> QED BY <1>6, <3>1, <3>2
  <2>2. \A c \in 1 .. MaxConns : \A x \in ToSet(conns'[c].queue) : x.id <= count'
    <3> TAKE c \in 1 .. MaxConns
    <3>1. \A x \in ToSet(conns[c].queue) : x.id <= count'
      BY <1>8, <1>a, <1>b
    <3>2. entry.id <= count'
      BY <1>0, <1>1, <1>2
    <3> QED BY <1>9, <3>1, <3>2
  <2>3. /\ \A x \in ToSet(page'.logs) : x.id <= count'
        /\ \A x \in ToSet(page'.buffer) : x.id <= count'
        /\ \A t \in Slots : \A x \in ToSet(loads'[t].logs) : x.id <= count'
    BY <1>1, <1>8, <1>a, <1>b
  <2>4. page'.next <= count' /\ \A t \in Slots : loads'[t].next <= count'
    BY <1>0, <1>1, <1>a, <1>b
  <2> QED BY <1>6, <2>1, <2>2, <2>3, <2>4 DEF NumberedInOrder, Given
<1>12. StreamOfPage'
  <2>1. page.conn # 0 => page.conn \in 1 .. MaxConns
    BY <1>0 DEF Pages
  <2> QED BY <1>1, <1>9, <2>1 DEF ViewerInv, StreamOfPage
<1>13. ASSUME NEW t \in Slots PROVE LoadFits(t)'
  <2>1. LoadFits(t) /\ loads' = loads /\ page' = page
    BY <1>1 DEF ViewerInv
  <2>2. ~Spans(t, entry)
    <3>1. \A x \in ToSet(loads[t].logs) : x.id < entry.id /\ x.id \in Nat
      BY <1>7, <1>8, <1>a, <1>b
    <3>2. ~(entry.id < page.next)
      BY <1>0, <1>2, <1>a, <1>b
    <3>3. entry.id \in Nat
      BY <1>0, <1>2
    <3> QED BY <3>1, <3>2, <3>3 DEF Spans
  <2>3. \A e : Spans(t, e)' <=> Spans(t, e)
    BY <2>1 DEF Spans
  <2>4. UnderWay(t)' <=> UnderWay(t)
    BY <2>1 DEF UnderWay
  <2> QED BY <1>6, <2>1, <2>2, <2>3, <2>4 DEF LoadFits
<1>14. OwnEntriesOnce'
  BY <1>1 DEF ViewerInv, OwnEntriesOnce, Shown
<1>15. NoGap'
  <2>1. \A x \in ToSet(page.logs) : x.id < entry.id /\ x.id \in Nat
    BY <1>7, <1>8, <1>a, <1>b
  <2>2. entry.id \in Nat
    BY <1>0, <1>2
  <2>3. \A x \in ToSet(page.logs) : ~(x.id > entry.id)
    BY <2>1, <2>2
  <2> QED BY <1>1, <1>6, <2>3 DEF ViewerInv, NoGap
<1>16. LiveMissesNothing'
  <2> SUFFICES ASSUME page.live, page.conn # 0, page.streamGen = page.gen,
                      conns'[page.conn].at = "subscribed",
                      Len(page.logs) < MaxRendered, Len(page.buffer) < MaxRendered,
                      NEW e \in ToSet(ring'), e.guild = page.guild, e.id > page.fresh
               PROVE  e \in Shown \cup ToSet(conns'[page.conn].queue)
    BY <1>1 DEF LiveMissesNothing, Shown
  <2>1. page.conn \in 1 .. MaxConns
    BY <1>0 DEF Pages
  <2>2. conns[page.conn].at = "subscribed"
    BY <1>9, <2>1
  <2>3. CASE e \in ToSet(ring)
    BY <1>9, <2>1, <2>2, <2>3 DEF ViewerInv, LiveMissesNothing
  <2>4. CASE e = entry
    <3>1. Subscribed(page.conn, g) /\ conns[page.conn].open
      BY <1>2, <2>2, <2>4 DEF ViewerInv, StreamOfPage, Subscribed
    <3> QED BY <1>9, <2>1, <2>4, <3>1
  <2> QED BY <1>6, <2>3, <2>4
<1> QED BY <1>10, <1>11, <1>12, <1>13, <1>14, <1>15, <1>16 DEF ViewerInv

LEMMA AdmittedKeeps ==
  ASSUME ViewerInv, NEW c \in 1 .. MaxConns, Admitted(c)
  PROVE  ViewerInv'
<1>0. /\ conns \in [1 .. MaxConns -> Streams] /\ page \in Pages /\ count \in Nat
      /\ UNCHANGED <<ring, count, loads, uses>> /\ conns[c].at = "lookup"
      /\ page.conn # 0 => page.conn \in 1 .. MaxConns
  BY DEF ViewerInv, ViewerTypes, Admitted, Pages
<1>1. /\ conns' \in [1 .. MaxConns -> Streams]
      /\ \A d \in 1 .. MaxConns : d # c => conns'[d] = conns[d]
      /\ conns'[c].queue \in {conns[c].queue, <<>>}
      /\ conns[c].open =>
           /\ conns'[c].open /\ conns'[c].guild = conns[c].guild
           /\ conns'[c].at \in {"subscribed", "refused"}
           /\ conns'[c].at = "subscribed" /\ c = page.conn => page'.fresh = count
  <2>1. CASE /\ conns' = [conns EXCEPT ![c].at = IF conns[c].open THEN "subscribed" ELSE "orphan"]
             /\ page' = IF c = page.conn THEN [page EXCEPT !.fresh = count] ELSE page
    BY <1>0, <2>1 DEF Streams, Pages
  <2>2. CASE conns' = [conns EXCEPT ![c] = IF @.open THEN [@ EXCEPT !.at = "refused"] ELSE NoConn]
    <3>1. NoConn \in Streams /\ NoConn.queue = <<>>
      BY Nothing DEF NoConn
    <3> QED BY <1>0, <2>2, <3>1 DEF Streams
  <2> QED BY <2>1, <2>2 DEF Admitted
<1>2. /\ page' \in Pages
      /\ page' = page \/ (c = page.conn /\ page' = [page EXCEPT !.fresh = count])
  BY <1>0 DEF Admitted, Pages
<1>3. /\ page'.guild = page.guild /\ page'.gen = page.gen /\ page'.logs = page.logs
      /\ page'.buffer = page.buffer /\ page'.next = page.next /\ page'.mixed = page.mixed
      /\ page'.conn = page.conn /\ page'.streamGen = page.streamGen /\ page'.live = page.live
      /\ c # page.conn => page'.fresh = page.fresh
  BY <1>0, <1>2 DEF Pages
<1>4. ViewerTypes'
  BY <1>0, <1>1, <1>2 DEF ViewerInv, ViewerTypes
<1>5. OwnEntriesOnce' /\ NoGap' /\ Given(page.logs)' /\ Given(page.buffer)' /\ page'.next <= count'
  BY <1>0, <1>3, ListKept
<1>6. NumberedInOrder'
  <2>1. \A d \in 1 .. MaxConns : conns'[d] = conns[d] \/ conns'[d].queue = <<>> \/ conns'[d].queue = conns[d].queue
    BY <1>1
  <2>2. \A d \in 1 .. MaxConns : Given(conns[d].queue)'
    BY <1>0, <2>1, Nothing DEF ViewerInv, NumberedInOrder, Given
  <2> QED BY <1>0, <1>5, <2>2 DEF ViewerInv, NumberedInOrder, Given, InOrder
<1>7. StreamOfPage'
  BY <1>0, <1>1, <1>3 DEF ViewerInv, StreamOfPage
<1>8. \A t \in Slots : LoadFits(t)'
  BY <1>0, <1>3, LoadKept
<1>9. LiveMissesNothing'
  <2>1. CASE page.conn = 0
    BY <1>3, <2>1 DEF LiveMissesNothing
  <2>2. CASE page.conn = c /\ c # 0
    <3>1. conns[c].open
      BY <2>2 DEF ViewerInv, StreamOfPage
    <3>2. conns'[c].at = "subscribed" => page'.fresh = count
      BY <1>1, <2>2, <3>1
    <3> QED BY <1>0, <1>3, <2>2, <3>2, RingKnown DEF LiveMissesNothing
  <2>3. CASE page.conn # c /\ page.conn # 0
    BY <1>0, <1>1, <1>3, <2>3 DEF ViewerInv, LiveMissesNothing, Shown
  <2> QED BY <2>1, <2>2, <2>3
<1> QED BY <1>4, <1>5, <1>6, <1>7, <1>8, <1>9 DEF ViewerInv

LEMMA ConnectionClosedKeeps ==
  ASSUME ViewerInv, NEW c \in 1 .. MaxConns, ConnectionClosed(c)
  PROVE  ViewerInv'
<1>0. /\ conns \in [1 .. MaxConns -> Streams] /\ page \in Pages
      /\ UNCHANGED <<ring, count, page, loads, uses>> /\ ~conns[c].open
      /\ conns' = [conns EXCEPT ![c] = NoConn]
      /\ page.conn # 0 => page.conn \in 1 .. MaxConns
  BY DEF ViewerInv, ViewerTypes, ConnectionClosed, Pages
<1>1. /\ conns' \in [1 .. MaxConns -> Streams] /\ page.conn # c
      /\ \A d \in 1 .. MaxConns : d # c => conns'[d] = conns[d]
      /\ \A d \in 1 .. MaxConns : conns'[d] = conns[d] \/ conns'[d].queue = <<>>
  BY <1>0, Nothing DEF ViewerInv, StreamOfPage, NoConn
<1>4. ViewerTypes'
  BY <1>0, <1>1 DEF ViewerInv, ViewerTypes
<1>5. OwnEntriesOnce' /\ NoGap' /\ Given(page.logs)' /\ Given(page.buffer)' /\ page'.next <= count'
  BY <1>0, ListKept
<1>6. NumberedInOrder'
  <2>1. \A d \in 1 .. MaxConns : Given(conns[d].queue)'
    BY <1>0, <1>1, QueuesKept
  <2> QED BY <1>0, <1>5, <2>1 DEF ViewerInv, NumberedInOrder, Given, InOrder
<1>7. StreamOfPage'
  BY <1>0, <1>1 DEF ViewerInv, StreamOfPage
<1>8. \A t \in Slots : LoadFits(t)'
  BY <1>0, LoadKept
<1>9. LiveMissesNothing'
  BY <1>0, <1>1 DEF ViewerInv, LiveMissesNothing, Shown
<1> QED BY <1>4, <1>5, <1>6, <1>7, <1>8, <1>9 DEF ViewerInv

\* What the list and the stream are after the page reconnected with its list as it was,
\* or flushed into it.
LEMMA ReconnectKeeps ==
  ASSUME ViewerInv, NEW p \in Pages, p.conn = page.conn, Reconnect(p),
         UNCHANGED <<ring, count, loads>>, uses' \in Nat,
         p.gen = page.gen, p.guild = page.guild, p.next = page.next,
         p.mixed \/ p.mixed = page.mixed,
         OwnEntriesOnce', NoGap', Given(page.logs)', Given(page.buffer)'
  PROVE  ViewerInv'
<1>1. /\ page' \in Pages
      /\ page'.guild = p.guild /\ page'.gen = p.gen
      /\ page'.next = p.next /\ page'.mixed = p.mixed
      /\ page'.streamGen <= p.gen
      /\ conns' \in [1 .. MaxConns -> Streams]
      /\ \A d \in 1 .. MaxConns : conns'[d] = conns[d] \/ conns'[d].queue = <<>>
      /\ page'.conn # 0 => conns'[page'.conn] = Stream(p.guild)
  BY ReconnectFacts DEF ViewerInv
<1>2. ViewerTypes'
  BY <1>1 DEF ViewerInv, ViewerTypes
<1>3. NumberedInOrder'
  <2>1. \A d \in 1 .. MaxConns : Given(conns[d].queue)'
    BY <1>1, QueuesKept
  <2>2. page'.next <= count'
    BY <1>1 DEF ViewerInv, NumberedInOrder
  <2> QED BY <2>1, <2>2 DEF ViewerInv, NumberedInOrder, Given, InOrder
<1>4. StreamOfPage' /\ LiveMissesNothing'
  BY <1>1, JustOpened
<1>5. \A t \in Slots : LoadFits(t)'
  BY <1>1, LoadKept
<1> QED BY <1>2, <1>3, <1>4, <1>5 DEF ViewerInv

LEMMA ToggleLiveKeeps ==
  ASSUME ViewerInv, ToggleLive
  PROVE  ViewerInv'
<1> DEFINE p == [page EXCEPT !.live = ~@]
<1>1. /\ p \in Pages /\ Reconnect(p) /\ UNCHANGED <<ring, count, loads>> /\ uses' \in Nat
      /\ ViewerTypes
  <2>1. page \in Pages /\ ViewerTypes /\ uses \in Nat
    BY DEF ViewerInv, ViewerTypes
  <2>2. p \in Pages
    BY <2>1 DEF Pages
  <2>3. Reconnect(p) /\ UNCHANGED <<ring, count, loads>> /\ uses' = uses + 1
    BY DEF ToggleLive, Use
  <2> HIDE DEF p
  <2> QED BY <2>1, <2>2, <2>3
<1>2. /\ p.conn = page.conn /\ p.gen = page.gen /\ p.guild = page.guild /\ p.next = page.next
      /\ p.mixed = page.mixed /\ p.logs = page.logs /\ p.buffer = page.buffer
  BY DEF ViewerInv, ViewerTypes, Pages
<1> HIDE DEF p
<1>3. OwnEntriesOnce' /\ NoGap' /\ Given(page.logs)' /\ Given(page.buffer)'
  BY <1>1, <1>2, ReconnectFacts, ListKept
<1> QED BY <1>1, <1>2, <1>3, ReconnectKeeps

\* Merging two lists of the page loses nothing unless the result is full.
LEMMA MergeFacts ==
  ASSUME NEW s \in Seq(Entry), NEW t \in Seq(Entry)
  PROVE  /\ BoundedLogs(s \o t) \in Seq(Entry) /\ IsInjective(BoundedLogs(s \o t))
         /\ ToSet(BoundedLogs(s \o t)) \subseteq ToSet(s) \cup ToSet(t)
         /\ Len(BoundedLogs(s \o t)) < MaxRendered =>
              /\ ToSet(BoundedLogs(s \o t)) = ToSet(s) \cup ToSet(t)
              /\ IsInjective(s) => Len(s) < MaxRendered
              /\ IsInjective(t) => Len(t) < MaxRendered
<1> DEFINE m == BoundedLogs(s \o t)
<1>1. s \o t \in Seq(Entry)
  OBVIOUS
<1>2. ToSet(s \o t) = ToSet(s) \cup ToSet(t)
  <2>1. /\ Len(s) \in Nat /\ Len(t) \in Nat /\ DOMAIN (s \o t) = 1 .. Len(s) + Len(t)
        /\ DOMAIN s = 1 .. Len(s) /\ DOMAIN t = 1 .. Len(t)
    OBVIOUS
  <2>2. /\ \A i \in 1 .. Len(s) : (s \o t)[i] = s[i] /\ i \in 1 .. Len(s) + Len(t)
        /\ \A i \in 1 .. Len(t) : (s \o t)[i + Len(s)] = t[i] /\ i + Len(s) \in 1 .. Len(s) + Len(t)
    OBVIOUS
  <2>3. \A i \in 1 .. Len(s) + Len(t) :
          i \in 1 .. Len(s) \/ (i - Len(s) \in 1 .. Len(t) /\ (i - Len(s)) + Len(s) = i)
    BY <2>1
  <2>4. ToSet(s) \cup ToSet(t) \subseteq ToSet(s \o t)
    BY <2>1, <2>2 DEF ToSet
  <2>5. \A i \in 1 .. Len(s) + Len(t) : (s \o t)[i] \in ToSet(s) \cup ToSet(t)
    <3> TAKE i \in 1 .. Len(s) + Len(t)
    <3>1. CASE i \in 1 .. Len(s)
      BY <2>1, <2>2, <3>1 DEF ToSet
    <3>2. CASE i - Len(s) \in 1 .. Len(t) /\ (i - Len(s)) + Len(s) = i
      <4>1. (s \o t)[i] = t[i - Len(s)]
        BY <2>2, <3>2
      <4> QED BY <2>1, <3>2, <4>1 DEF ToSet
    <3> QED BY <2>3, <3>1, <3>2
  <2> QED BY <2>1, <2>4, <2>5 DEF ToSet
<1>3. /\ m \in Seq(Entry) /\ IsInjective(m) /\ ToSet(m) \subseteq ToSet(s \o t)
      /\ Len(m) < MaxRendered => ToSet(m) = ToSet(s \o t)
  BY <1>1, BoundedLogsFacts
<1> HIDE DEF m
<1>4. ASSUME Len(m) < MaxRendered, NEW u \in Seq(Entry), IsInjective(u), ToSet(u) \subseteq ToSet(m)
      PROVE  Len(u) < MaxRendered
  <2>1. Len(u) <= Len(m) /\ Len(u) \in Nat /\ Len(m) \in Nat /\ MaxRendered \in Nat
    BY <1>3, <1>4, NoLonger, LogStreamAssumption
  <2> QED BY <1>4, <2>1
<1> QED BY <1>2, <1>3, <1>4 DEF m

LEMMA TogglePauseKeeps ==
  ASSUME ViewerInv, TogglePause
  PROVE  ViewerInv'
<1>1. /\ page \in Pages /\ ViewerTypes /\ uses \in Nat
      /\ page.logs \in Seq(Entry) /\ page.buffer \in Seq(Entry) /\ page.mixed \in BOOLEAN
  BY DEF ViewerInv, ViewerTypes, Pages
<1>2. UNCHANGED <<ring, count, loads>> /\ uses' \in Nat
  BY <1>1 DEF TogglePause, Use
<1>3. CASE page.paused
  <2> DEFINE m == BoundedLogs(page.buffer \o page.logs)
             p == [Flush(page) EXCEPT !.paused = FALSE]
  <2>1. /\ m \in Seq(Entry) /\ IsInjective(m) /\ ToSet(m) \subseteq ToSet(page.buffer) \cup ToSet(page.logs)
        /\ Len(m) < MaxRendered =>
              /\ ToSet(m) = ToSet(page.buffer) \cup ToSet(page.logs)
              /\ IsInjective(page.logs) => Len(page.logs) < MaxRendered
    BY <1>1, MergeFacts
  <2>2. p = [page EXCEPT !.logs = m, !.buffer = <<>>, !.paused = FALSE,
                         !.mixed = page.mixed \/ page.buffer # <<>>]
    BY <1>1 DEF Flush, Pages
  <2>3. Reconnect(p)
    BY <1>3 DEF TogglePause
  <2> HIDE DEF m
  <2>4. /\ p \in Pages
        /\ p.logs = m /\ p.buffer = <<>> /\ p.mixed = (page.mixed \/ page.buffer # <<>>)
        /\ p.conn = page.conn /\ p.gen = page.gen /\ p.guild = page.guild /\ p.next = page.next
    BY <1>1, <2>1, <2>2, Nothing DEF Pages
  <2> HIDE DEF p
  <2>5. /\ page'.guild = page.guild /\ page'.logs = m /\ page'.next = page.next
        /\ page'.buffer = <<>> /\ page'.mixed = (page.mixed \/ page.buffer # <<>>)
    BY <1>1, <2>3, <2>4, ReconnectFacts
  <2>6. OwnEntriesOnce'
    BY <2>1, <2>5, Nothing DEF ViewerInv, OwnEntriesOnce, Shown
  <2>7. NoGap'
    <3> SUFFICES ASSUME ~page'.mixed, Len(m) < MaxRendered,
                        NEW e \in ToSet(ring), e.guild = page.guild, e.id >= page.next,
                        NEW x \in ToSet(m), x.id > e.id
                 PROVE  e \in ToSet(m)
      BY <1>2, <2>5 DEF NoGap
    <3>1. page.buffer = <<>> /\ ~page.mixed
      BY <2>5
    <3>2. ToSet(m) = ToSet(page.logs) /\ Len(page.logs) < MaxRendered
      BY <2>1, <3>1, Nothing DEF ViewerInv, OwnEntriesOnce
    <3> QED BY <3>1, <3>2 DEF ViewerInv, NoGap
  <2>8. Given(page.logs)' /\ Given(page.buffer)'
    BY <1>2, <2>1, <2>5, Nothing DEF ViewerInv, NumberedInOrder, Given
  <2>9. p.mixed \/ p.mixed = page.mixed
    <3>1. CASE page.buffer = <<>>
      BY <1>1, <2>4, <3>1
    <3>2. CASE page.buffer # <<>>
      BY <2>4, <3>2
    <3> QED BY <3>1, <3>2
  <2> QED BY <1>2, <2>3, <2>4, <2>6, <2>7, <2>8, <2>9, ReconnectKeeps
<1>4. CASE ~page.paused
  <2> DEFINE p == [page EXCEPT !.paused = TRUE]
  <2>1. Reconnect(p)
    BY <1>4 DEF TogglePause
  <2>2. /\ p \in Pages /\ p.logs = page.logs /\ p.buffer = page.buffer /\ p.mixed = page.mixed
        /\ p.conn = page.conn /\ p.gen = page.gen /\ p.guild = page.guild /\ p.next = page.next
    BY <1>1 DEF Pages
  <2> HIDE DEF p
  <2>3. OwnEntriesOnce' /\ NoGap' /\ Given(page.logs)' /\ Given(page.buffer)'
    BY <1>1, <1>2, <2>1, <2>2, ReconnectFacts, ListKept
  <2> QED BY <1>2, <2>1, <2>2, <2>3, ReconnectKeeps
<1> QED BY <1>3, <1>4

LEMMA StreamErrorKeeps ==
  ASSUME ViewerInv, StreamError
  PROVE  ViewerInv'
<1>1. /\ page \in Pages /\ ViewerTypes /\ uses \in Nat /\ page.guild \in Guilds
  BY DEF ViewerInv, ViewerTypes, Pages
<1>2. /\ UNCHANGED <<ring, count, loads, uses>> /\ Fresh # 0
      /\ conns' = [Closed(conns, page.conn) EXCEPT ![Fresh] = Stream(page.guild)]
      /\ page' = [page EXCEPT !.conn = Fresh]
  BY DEF StreamError
<1>3. /\ conns' \in [1 .. MaxConns -> Streams] /\ Fresh \in 1 .. MaxConns
      /\ conns'[Fresh] = Stream(page.guild)
      /\ \A d \in 1 .. MaxConns : conns'[d] = conns[d] \/ conns'[d].queue = <<>>
  BY <1>1, <1>2, ReopenFacts
<1>4. Fresh \in 0 .. MaxConns
  BY <1>3
<1>5. /\ page' \in Pages /\ page'.conn = Fresh
      /\ page'.guild = page.guild /\ page'.gen = page.gen /\ page'.logs = page.logs
      /\ page'.buffer = page.buffer /\ page'.next = page.next /\ page'.mixed = page.mixed
      /\ page'.streamGen = page.streamGen
  BY <1>1, <1>2, <1>4 DEF Pages
<1>6. ViewerTypes'
  BY <1>1, <1>2, <1>3, <1>5 DEF ViewerTypes
<1>7. OwnEntriesOnce' /\ NoGap' /\ Given(page.logs)' /\ Given(page.buffer)' /\ page'.next <= count'
  BY <1>2, <1>5, ListKept
<1>8. NumberedInOrder'
  <2>1. \A d \in 1 .. MaxConns : Given(conns[d].queue)'
    BY <1>2, <1>3, QueuesKept
  <2> QED BY <1>2, <1>7, <2>1 DEF ViewerInv, NumberedInOrder, Given, InOrder
<1>9. StreamOfPage' /\ LiveMissesNothing'
  <2>1. page'.streamGen <= page'.gen
    BY <1>5 DEF ViewerInv, StreamOfPage
  <2> QED BY <1>3, <1>5, <2>1, JustOpened
<1>10. \A t \in Slots : LoadFits(t)'
  BY <1>2, <1>5, LoadKept
<1> QED BY <1>6, <1>7, <1>8, <1>9, <1>10 DEF ViewerInv

LEMMA ReceiveKeeps ==
  ASSUME ViewerInv, Receive
  PROVE  ViewerInv'
<1> DEFINE queue == conns[page.conn].queue
           entry == Head(queue)
           logs == BoundedLogs(<<entry>> \o page.logs)
           buffer == BoundedLogs(<<entry>> \o page.buffer)
<1>1. /\ page \in Pages /\ conns \in [1 .. MaxConns -> Streams]
      /\ page.logs \in Seq(Entry) /\ page.buffer \in Seq(Entry) /\ page.mixed \in BOOLEAN
  BY DEF ViewerInv, ViewerTypes, Pages
<1>2. /\ page.conn \in 1 .. MaxConns /\ queue # <<>> /\ UNCHANGED <<ring, count, loads, uses>>
      /\ conns' = [conns EXCEPT ![page.conn].queue = Tail(@)]
  BY <1>1 DEF Receive, Pages
<1>3. queue \in Seq(Entry)
  BY <1>1, <1>2 DEF Streams
<1>4. /\ entry \in Entry /\ Tail(queue) \in Seq(Entry)
      /\ ToSet(queue) = {entry} \cup ToSet(Tail(queue))
  <2> HIDE DEF queue
  <2>1. /\ entry \in Entry /\ Tail(queue) \in Seq(Entry) /\ Len(Tail(queue)) = Len(queue) - 1
        /\ \A i \in 1 .. Len(Tail(queue)) : Tail(queue)[i] = queue[i + 1]
        /\ entry = queue[1] /\ Len(queue) \in Nat /\ Len(queue) > 0
    BY <1>2, <1>3
  <2>2. DOMAIN queue = 1 .. Len(queue) /\ DOMAIN Tail(queue) = 1 .. Len(queue) - 1
    BY <1>3, <2>1
  <2> HIDE DEF entry
  <2>3. \A i \in 1 .. Len(queue) - 1 : Tail(queue)[i] \in ToSet(queue)
    <3> TAKE i \in 1 .. Len(queue) - 1
    <3>1. i + 1 \in DOMAIN queue /\ Tail(queue)[i] = queue[i + 1]
      BY <2>1, <2>2
    <3> QED BY <3>1 DEF ToSet
  <2>4. entry \in ToSet(queue)
    BY <2>1, <2>2 DEF ToSet
  <2>5. \A i \in 1 .. Len(queue) : queue[i] = entry \/ queue[i] \in ToSet(Tail(queue))
    <3> TAKE i \in 1 .. Len(queue)
    <3>1. CASE i = 1
      BY <2>1, <3>1
    <3>2. CASE i # 1
      <4>1. i - 1 \in 1 .. Len(queue) - 1 /\ (i - 1) + 1 = i
        BY <2>1, <3>2
      <4>2. Tail(queue)[i - 1] = queue[i]
        BY <2>1, <4>1
      <4> QED BY <2>2, <4>1, <4>2 DEF ToSet
    <3> QED BY <3>1, <3>2
  <2>6. ToSet(queue) \subseteq {entry} \cup ToSet(Tail(queue))
    BY <2>2, <2>5 DEF ToSet
  <2>7. ToSet(Tail(queue)) \subseteq ToSet(queue)
    BY <2>2, <2>3 DEF ToSet
  <2> QED BY <2>1, <2>4, <2>6, <2>7
<1>5. \/ /\ page.streamGen # page.gen \/ entry.guild # page.guild
         /\ page' = page
      \/ /\ page.streamGen = page.gen /\ entry.guild = page.guild /\ page.paused
         /\ page' = [page EXCEPT !.buffer = buffer]
      \/ /\ page.streamGen = page.gen /\ entry.guild = page.guild /\ ~page.paused
         /\ page' = [page EXCEPT !.logs = logs, !.mixed = TRUE]
  <2>1. page' = IF page.streamGen # page.gen \/ entry.guild # page.guild THEN page
                ELSE IF page.paused THEN Hold(entry)
                ELSE [page EXCEPT !.logs = logs, !.mixed = TRUE]
    BY DEF Receive
  <2>2. Hold(entry) = [page EXCEPT !.buffer = buffer]
    BY DEF Hold
  <2> HIDE DEF entry, logs, buffer
  <2>3. CASE page.streamGen # page.gen \/ entry.guild # page.guild
    BY <2>1, <2>3
  <2>4. CASE ~(page.streamGen # page.gen \/ entry.guild # page.guild) /\ page.paused
    BY <2>1, <2>2, <2>4
  <2>5. CASE ~(page.streamGen # page.gen \/ entry.guild # page.guild) /\ ~page.paused
    BY <2>1, <2>5
  <2> QED BY <2>3, <2>4, <2>5
<1> HIDE DEF queue, entry
<1>6. /\ conns' \in [1 .. MaxConns -> Streams]
      /\ \A d \in 1 .. MaxConns : d # page.conn => conns'[d] = conns[d]
      /\ LET c == page.conn
         IN  /\ conns'[c].queue = Tail(queue) /\ conns'[c].at = conns[c].at
             /\ conns'[c].open = conns[c].open /\ conns'[c].guild = conns[c].guild
  BY <1>1, <1>2, <1>4 DEF Streams, queue
<1>7. /\ <<entry>> \in Seq(Entry) /\ ToSet(<<entry>>) = {entry}
      /\ Given(<<entry>>) /\ Given(Tail(queue))
  <2>1. <<entry>> \in Seq(Entry) /\ ToSet(<<entry>>) = {entry}
    BY <1>4 DEF ToSet
  <2>2. Given(queue)
    BY <1>2 DEF ViewerInv, NumberedInOrder, queue
  <2> QED BY <1>4, <2>1, <2>2 DEF Given
<1>8. /\ logs \in Seq(Entry) /\ IsInjective(logs) /\ ToSet(logs) \subseteq {entry} \cup ToSet(page.logs)
      /\ Len(logs) < MaxRendered =>
           /\ ToSet(logs) = {entry} \cup ToSet(page.logs)
           /\ IsInjective(page.logs) => Len(page.logs) < MaxRendered
      /\ buffer \in Seq(Entry) /\ IsInjective(buffer)
      /\ ToSet(buffer) \subseteq {entry} \cup ToSet(page.buffer)
      /\ Len(buffer) < MaxRendered =>
           /\ ToSet(buffer) = {entry} \cup ToSet(page.buffer)
           /\ IsInjective(page.buffer) => Len(page.buffer) < MaxRendered
  <2>1. /\ logs \in Seq(Entry) /\ IsInjective(logs)
        /\ ToSet(logs) \subseteq ToSet(<<entry>>) \cup ToSet(page.logs)
        /\ Len(logs) < MaxRendered =>
             /\ ToSet(logs) = ToSet(<<entry>>) \cup ToSet(page.logs)
             /\ IsInjective(page.logs) => Len(page.logs) < MaxRendered
    BY <1>1, <1>7, MergeFacts
  <2>2. /\ buffer \in Seq(Entry) /\ IsInjective(buffer)
        /\ ToSet(buffer) \subseteq ToSet(<<entry>>) \cup ToSet(page.buffer)
        /\ Len(buffer) < MaxRendered =>
             /\ ToSet(buffer) = ToSet(<<entry>>) \cup ToSet(page.buffer)
             /\ IsInjective(page.buffer) => Len(page.buffer) < MaxRendered
    BY <1>1, <1>7, MergeFacts
  <2> HIDE DEF logs, buffer
  <2> QED BY <1>7, <2>1, <2>2
<1> HIDE DEF logs, buffer
<1>9. /\ page' \in Pages
      /\ page'.guild = page.guild /\ page'.gen = page.gen /\ page'.next = page.next
      /\ page'.conn = page.conn /\ page'.streamGen = page.streamGen /\ page'.live = page.live
      /\ page'.fresh = page.fresh
      /\ \/ page'.logs = page.logs /\ page'.mixed = page.mixed
         \/ page'.logs = logs /\ page'.mixed /\ entry.guild = page.guild
      /\ page'.buffer = page.buffer \/ (page'.buffer = buffer /\ entry.guild = page.guild)
      /\ page.streamGen = page.gen /\ entry.guild = page.guild =>
           page'.logs = logs \/ page'.buffer = buffer
  BY <1>1, <1>5, <1>8 DEF Pages
<1>10. ViewerTypes'
  BY <1>2, <1>6, <1>9 DEF ViewerInv, ViewerTypes
<1>11. NumberedInOrder'
  <2>1. \A d \in 1 .. MaxConns : Given(conns[d].queue)'
    BY <1>2, <1>6, <1>7 DEF ViewerInv, NumberedInOrder, Given
  <2>2. Given(page.logs)' /\ Given(page.buffer)'
    BY <1>2, <1>7, <1>8, <1>9 DEF ViewerInv, NumberedInOrder, Given
  <2> QED BY <1>2, <1>9, <2>1, <2>2 DEF ViewerInv, NumberedInOrder, Given, InOrder
<1>12. StreamOfPage'
  BY <1>2, <1>6, <1>9 DEF ViewerInv, StreamOfPage
<1>13. \A t \in Slots : LoadFits(t)'
  BY <1>2, <1>9, LoadKept
<1>14. OwnEntriesOnce'
  BY <1>8, <1>9 DEF ViewerInv, OwnEntriesOnce, Shown
<1>15. NoGap'
  BY <1>2, <1>9 DEF ViewerInv, NoGap
<1>16. LiveMissesNothing'
  <2> SUFFICES ASSUME page.live, page.streamGen = page.gen, conns[page.conn].at = "subscribed",
                      Len(page'.logs) < MaxRendered, Len(page'.buffer) < MaxRendered,
                      NEW e \in ToSet(ring), e.guild = page.guild, e.id > page.fresh
               PROVE  e \in ToSet(page'.logs) \cup ToSet(page'.buffer) \cup ToSet(Tail(queue))
    BY <1>2, <1>6, <1>9 DEF LiveMissesNothing, Shown
  <2>1. /\ Len(page.logs) < MaxRendered /\ ToSet(page.logs) \subseteq ToSet(page'.logs)
        /\ Len(page.buffer) < MaxRendered /\ ToSet(page.buffer) \subseteq ToSet(page'.buffer)
    BY <1>8, <1>9 DEF ViewerInv, OwnEntriesOnce
  <2>2. page.conn # 0
    BY <1>2
  <2>3. e \in ToSet(page.logs) \cup ToSet(page.buffer) \cup ToSet(queue)
    BY <2>1, <2>2 DEF ViewerInv, LiveMissesNothing, Shown, queue
  <2>4. CASE e = entry
    BY <1>8, <1>9, <2>4
  <2>5. CASE e # entry
    BY <1>4, <2>1, <2>3, <2>5
  <2> QED BY <2>4, <2>5
<1> QED BY <1>10, <1>11, <1>12, <1>13, <1>14, <1>15, <1>16 DEF ViewerInv

LEMMA LoadKeeps ==
  ASSUME ViewerInv, NEW s \in Slots, NEW cursor \in Nat, Load(s, cursor)
  PROVE  ViewerInv'
<1>1. /\ page \in Pages /\ loads \in [Slots -> Loads] /\ uses \in Nat /\ page.mixed \in BOOLEAN
      /\ page.gen \in Nat
  BY DEF ViewerInv, ViewerTypes, Pages
<1> DEFINE mixed == page.mixed \/ (cursor # 0 /\ Busy)
<1>2. /\ cursor \in {0, page.next} /\ uses' \in Nat /\ UNCHANGED <<ring, count, conns>>
      /\ loads' = [loads EXCEPT ![s] = Asked(page, cursor)]
      /\ page' = [page EXCEPT !.mixed = mixed]
  BY <1>1 DEF Load, Use
<1>3. mixed \in BOOLEAN /\ (mixed \/ mixed = page.mixed) /\ (~mixed => ~page.mixed)
  <2>1. mixed \in BOOLEAN
    BY <1>1
  <2>2. CASE page.mixed
    BY <2>2
  <2>3. CASE ~page.mixed
    BY <1>1, <2>3
  <2> QED BY <2>1, <2>2, <2>3
<1> HIDE DEF mixed
<1>4. /\ page' \in Pages /\ page'.mixed = mixed
      /\ page'.guild = page.guild /\ page'.gen = page.gen /\ page'.logs = page.logs
      /\ page'.buffer = page.buffer /\ page'.next = page.next /\ page'.conn = page.conn
      /\ page'.streamGen = page.streamGen /\ page'.live = page.live /\ page'.fresh = page.fresh
  BY <1>1, <1>2, <1>3 DEF Pages
<1>5. /\ loads' \in [Slots -> Loads] /\ \A t \in Slots : t # s => loads'[t] = loads[t]
      /\ loads'[s].at = "sent" /\ loads'[s].gen = page.gen /\ loads'[s].guild = page.guild
      /\ loads'[s].cursor = cursor /\ loads'[s].logs = <<>> /\ loads'[s].next = 0
  BY <1>1, <1>2, AskedFacts
<1>6. ViewerTypes'
  BY <1>2, <1>4, <1>5 DEF ViewerInv, ViewerTypes
<1>7. NumberedInOrder'
  <2>1. count \in Nat
    BY DEF ViewerInv, ViewerTypes
  <2> QED BY <1>2, <1>4, <1>5, <2>1, Nothing DEF ViewerInv, NumberedInOrder, Given, InOrder
<1>8. StreamOfPage' /\ OwnEntriesOnce' /\ LiveMissesNothing'
  BY <1>2, <1>4 DEF ViewerInv, StreamOfPage, OwnEntriesOnce, LiveMissesNothing, Shown
<1>9. NoGap'
  BY <1>2, <1>3, <1>4 DEF ViewerInv, NoGap
<1>10. ASSUME NEW t \in Slots PROVE LoadFits(t)'
  <2>1. CASE t = s
    BY <1>1, <1>2, <1>4, <1>5, <2>1 DEF LoadFits
  <2>2. CASE t # s
    BY <1>2, <1>3, <1>4, <1>5, <2>2, LoadKept
  <2> QED BY <2>1, <2>2
<1> QED BY <1>6, <1>7, <1>8, <1>9, <1>10 DEF ViewerInv

LEMMA EvaluateKeeps ==
  ASSUME ViewerInv, NEW s \in Slots, Evaluate(s)
  PROVE  ViewerInv'
<1> DEFINE answer == Query(loads[s].guild, loads[s].cursor)
<1>1. /\ page \in Pages /\ loads \in [Slots -> Loads] /\ ring \in Seq(Entry) /\ InOrder(ring)
      /\ loads[s] \in Loads /\ loads[s].cursor \in Nat /\ count \in Nat
  BY DEF ViewerInv, ViewerTypes, NumberedInOrder, Loads
<1>2. /\ loads[s].at = "sent" /\ UNCHANGED <<ring, count, conns, page, uses>>
      /\ loads' = [loads EXCEPT ![s].at = "answered", ![s].guild = "none",
                                ![s].cursor = IF @ = 0 THEN 0 ELSE 1,
                                ![s].logs = answer.logs, ![s].next = answer.next]
  BY DEF Evaluate
<1>3. /\ answer.logs \in Seq(Entry) /\ answer.next \in Nat
      /\ answer.next = 0 \/ \E x \in ToSet(ring) : answer.next = x.id
      /\ \A x \in ToSet(answer.logs) : x \in ToSet(ring) /\ x.guild = loads[s].guild
      /\ \A e \in ToSet(ring) :
           /\ e.guild = loads[s].guild /\ e.id >= answer.next
           /\ loads[s].cursor = 0 \/ e.id < loads[s].cursor \/ \E x \in ToSet(answer.logs) : x.id > e.id
           => e \in ToSet(answer.logs)
  BY <1>1, QueryFacts
<1> HIDE DEF answer
<1>4. /\ loads' \in [Slots -> Loads] /\ \A t \in Slots : t # s => loads'[t] = loads[t]
      /\ loads'[s].at = "answered" /\ loads'[s].gen = loads[s].gen
      /\ loads'[s].cursor # 0 => loads[s].cursor # 0
      /\ loads'[s].logs = answer.logs /\ loads'[s].next = answer.next
  BY <1>1, <1>2, <1>3 DEF Loads
<1>5. ViewerTypes'
  BY <1>2, <1>4 DEF ViewerInv, ViewerTypes
<1>6. NumberedInOrder'
  <2>1. Given(ring) /\ answer.next <= count /\ Given(answer.logs)
    BY <1>1, <1>3 DEF ViewerInv, NumberedInOrder, Given
  <2> QED BY <1>2, <1>4, <2>1 DEF ViewerInv, NumberedInOrder, Given, InOrder
<1>7. StreamOfPage' /\ OwnEntriesOnce' /\ LiveMissesNothing' /\ NoGap'
  BY <1>2 DEF ViewerInv, StreamOfPage, OwnEntriesOnce, LiveMissesNothing, Shown, NoGap
<1>8. LoadFits(s)'
  <2>1. LoadFits(s) /\ loads'[s].gen <= page.gen
    BY <1>4 DEF ViewerInv, LoadFits
  <2>2. SUFFICES ASSUME UnderWay(s)
                 PROVE  /\ \A x \in ToSet(answer.logs) : x.guild = page.guild
                        /\ \A e \in ToSet(ring) : Spans(s, e)' => e \in ToSet(answer.logs)
    BY <1>2, <1>4, <2>1 DEF LoadFits, UnderWay
  <2>3. /\ loads[s].guild = page.guild
        /\ loads[s].cursor # 0 /\ ~page.mixed => loads[s].cursor = page.next
    BY <1>2, <2>1, <2>2 DEF LoadFits
  <2>4. ASSUME NEW e \in ToSet(ring), Spans(s, e)' PROVE e \in ToSet(answer.logs)
    <3>1. e.guild = page.guild /\ e.id >= answer.next
      BY <1>2, <1>4, <2>4 DEF Spans
    <3>2. (\E x \in ToSet(answer.logs) : x.id > e.id) \/ (loads[s].cursor # 0 /\ e.id < loads[s].cursor)
      BY <1>2, <1>4, <2>3, <2>4 DEF Spans
    <3> QED BY <1>3, <2>3, <3>1, <3>2
  <2> QED BY <1>3, <2>3, <2>4
<1>9. ASSUME NEW t \in Slots, t # s PROVE LoadFits(t)'
  BY <1>2, <1>4, <1>9, LoadKept
<1> QED BY <1>5, <1>6, <1>7, <1>8, <1>9 DEF ViewerInv

LEMMA AnswerKeeps ==
  ASSUME ViewerInv, NEW s \in Slots, Answer(s)
  PROVE  ViewerInv'
<1> DEFINE load == loads[s]
<1>1. /\ page \in Pages /\ loads \in [Slots -> Loads] /\ count \in Nat /\ ring \in Seq(Entry)
      /\ load \in Loads /\ load.cursor \in Nat /\ load.logs \in Seq(Entry) /\ load.next \in Nat
      /\ page.logs \in Seq(Entry) /\ page.gen \in Nat /\ page.mixed \in BOOLEAN
      /\ page.fresh \in Nat /\ page.live \in BOOLEAN
      /\ LoadFits(s)
  BY DEF ViewerInv, ViewerTypes, Loads, Pages
<1>2. /\ load.at = "answered" /\ loads' = [loads EXCEPT ![s] = NoLoad]
      /\ UNCHANGED <<ring, count, conns, uses>>
  BY DEF Answer
<1> HIDE DEF load
<1>3. /\ loads' \in [Slots -> Loads] /\ \A t \in Slots : t # s => loads'[t] = loads[t]
      /\ loads'[s].at = "none" /\ loads'[s].gen = 0 /\ loads'[s].logs = <<>> /\ loads'[s].next = 0
  BY <1>1, <1>2, Nothing DEF NoLoad
<1>4. \A t \in Slots : Given(loads'[t].logs) /\ loads'[t].next <= count
  BY <1>1, <1>3, Nothing DEF ViewerInv, NumberedInOrder, Given
<1>5. ASSUME page'.gen = page.gen PROVE LoadFits(s)'
  BY <1>1, <1>3, <1>5 DEF LoadFits, UnderWay
<1>6. CASE page' = page
  <2>1. ViewerTypes' /\ NumberedInOrder'
    BY <1>2, <1>3, <1>4, <1>6 DEF ViewerInv, ViewerTypes, NumberedInOrder, Given, InOrder
  <2>2. StreamOfPage' /\ OwnEntriesOnce' /\ LiveMissesNothing' /\ NoGap'
    BY <1>2, <1>6 DEF ViewerInv, StreamOfPage, OwnEntriesOnce, LiveMissesNothing, Shown, NoGap
  <2>3. ASSUME NEW t \in Slots, t # s PROVE LoadFits(t)'
    BY <1>2, <1>3, <1>6, <2>3, LoadKept
  <2> QED BY <1>5, <1>6, <2>1, <2>2, <2>3 DEF ViewerInv
<1>7. CASE page' # page
  <2> DEFINE all == IF load.cursor = 0 THEN load.logs ELSE page.logs \o load.logs
             list == BoundedLogs(all)
             mixed == (page.mixed /\ load.cursor # 0) \/ Loading(Slots \ {s})
             fresh == IF load.cursor = 0 /\ page.live THEN count ELSE page.fresh
  <2>1. /\ load.gen = page.gen
        /\ page' = [page EXCEPT !.logs = list, !.next = load.next, !.mixed = mixed, !.fresh = fresh]
    <3>1. /\ Current(loads[s])
          /\ page' = [page EXCEPT !.logs = BoundedLogs(IF loads[s].cursor = 0 THEN loads[s].logs
                                                     ELSE @ \o loads[s].logs),
                                !.next = loads[s].next,
                                !.mixed = (@ /\ loads[s].cursor # 0) \/ Loading(Slots \ {s}),
                                !.fresh = IF loads[s].cursor = 0 /\ page.live THEN count ELSE @]
      BY <1>7 DEF Answer
    <3> QED BY <3>1 DEF load, Current
  <2>2. UnderWay(s)
    BY <1>2, <2>1 DEF UnderWay, load
  <2>3. /\ list \in Seq(Entry) /\ IsInjective(list)
        /\ ToSet(list) \subseteq ToSet(page.logs) \cup ToSet(load.logs)
        /\ Len(list) < MaxRendered =>
             /\ ToSet(load.logs) \subseteq ToSet(list)
             /\ load.cursor # 0 => ToSet(page.logs) \subseteq ToSet(list) /\ Len(page.logs) < MaxRendered
        /\ load.cursor = 0 => ToSet(list) \subseteq ToSet(load.logs)
    <3>1. CASE load.cursor = 0
      BY <1>1, <3>1, BoundedLogsFacts
    <3>2. CASE load.cursor # 0
      <4>1. IsInjective(page.logs)
        BY DEF ViewerInv, OwnEntriesOnce
      <4> QED BY <1>1, <3>2, <4>1, MergeFacts
    <3> QED BY <3>1, <3>2
  <2>4. /\ \A x \in ToSet(load.logs) : x.guild = page.guild
        /\ \A e \in ToSet(ring) : Spans(s, e) => e \in ToSet(load.logs)
    BY <1>1, <1>2, <2>2 DEF LoadFits, load
  <2>5. Given(load.logs) /\ load.next <= count /\ Given(page.logs)
    BY DEF ViewerInv, NumberedInOrder, load
  <2>6. mixed \in BOOLEAN /\ fresh \in Nat
    BY <1>1 DEF Loading
  <2>7. \A t \in Slots : t # s /\ UnderWay(t) => mixed
    BY DEF Loading, UnderWay
  <2>8. ~mixed => load.cursor = 0 \/ ~page.mixed
    OBVIOUS
  <2>9. page.live /\ load.cursor = 0 => fresh = count
    OBVIOUS
  <2>10. load.cursor # 0 => fresh = page.fresh
    OBVIOUS
  <2> HIDE DEF all, list, mixed, fresh
  <2>11. /\ page' \in Pages /\ page'.mixed = mixed /\ page'.logs = list /\ page'.next = load.next
         /\ page'.fresh = fresh
         /\ page'.guild = page.guild /\ page'.gen = page.gen
         /\ page'.buffer = page.buffer /\ page'.conn = page.conn
         /\ page'.streamGen = page.streamGen /\ page'.live = page.live
    BY <1>1, <2>1, <2>3, <2>6 DEF Pages
  <2>12. ViewerTypes'
    BY <1>2, <1>3, <2>11 DEF ViewerInv, ViewerTypes
  <2>13. NumberedInOrder'
    BY <1>2, <1>4, <2>3, <2>5, <2>11 DEF ViewerInv, NumberedInOrder, Given, InOrder
  <2>14. StreamOfPage'
    BY <1>2, <2>11 DEF ViewerInv, StreamOfPage
  <2>15. ASSUME NEW t \in Slots PROVE LoadFits(t)'
    <3>1. CASE t = s
      BY <1>5, <2>11, <3>1
    <3>2. CASE t # s
      BY <1>2, <1>3, <2>7, <2>11, <3>2, LoadKept
    <3> QED BY <3>1, <3>2
  <2>16. OwnEntriesOnce'
    BY <2>3, <2>4, <2>11 DEF ViewerInv, OwnEntriesOnce, Shown
  <2>17. NoGap'
    <3> SUFFICES ASSUME ~mixed, Len(list) < MaxRendered,
                        NEW e \in ToSet(ring), e.guild = page.guild, e.id >= load.next,
                        NEW x \in ToSet(list), x.id > e.id
                 PROVE  e \in ToSet(list)
      BY <1>2, <2>11 DEF NoGap
    <3>1. CASE x \in ToSet(load.logs)
      <4>1. Spans(s, e)
        BY <3>1 DEF Spans, load
      <4> QED BY <2>3, <2>4, <4>1
    <3>2. CASE x \notin ToSet(load.logs)
      <4>1. x \in ToSet(page.logs) /\ load.cursor # 0 /\ ~page.mixed
        BY <2>3, <2>8, <3>2
      <4>2. CASE e.id >= page.next
        BY <2>3, <4>1, <4>2 DEF ViewerInv, NoGap
      <4>3. CASE ~(e.id >= page.next)
        <5>1. e.id \in Nat /\ page.next \in Nat
          BY <1>1, RingKnown DEF Pages
        <5>2. e.id < page.next
          BY <4>3, <5>1
        <5>3. Spans(s, e)
          BY <4>1, <5>2 DEF Spans, load
        <5> QED BY <2>3, <2>4, <5>3
      <4> QED BY <4>2, <4>3
    <3> QED BY <3>1, <3>2
  <2>18. LiveMissesNothing'
    <3>1. CASE load.cursor = 0
      BY <1>2, <2>9, <2>11, <3>1, RingKnown DEF LiveMissesNothing
    <3>2. CASE load.cursor # 0
      BY <1>2, <2>3, <2>10, <2>11, <3>2 DEF ViewerInv, LiveMissesNothing, Shown
    <3> QED BY <3>1, <3>2
  <2> QED BY <2>12, <2>13, <2>14, <2>15, <2>16, <2>17, <2>18 DEF ViewerInv
<1> QED BY <1>6, <1>7

\* The page starts over, in a new generation: of what it showed only what was held back
\* can come back.
LEMMA StartOver ==
  ASSUME ViewerInv, NEW p \in Pages, NEW s \in Slots, Reset(p, s), UNCHANGED <<ring, count>>,
         p.gen = page.gen + 1,
         page' \in Pages, page'.gen = p.gen, page'.guild = p.guild, page'.next = 0,
         page'.buffer = <<>>,
         \/ page'.logs = <<>>
         \/ page'.logs = page.buffer /\ page'.mixed /\ page'.guild = page.guild,
         conns' \in [1 .. MaxConns -> Streams],
         \A d \in 1 .. MaxConns : conns'[d] = conns[d] \/ conns'[d].queue = <<>>,
         StreamOfPage', LiveMissesNothing'
  PROVE  ViewerInv'
<1>1. /\ loads \in [Slots -> Loads] /\ uses \in Nat /\ page.gen \in Nat /\ p.gen \in Nat
      /\ count \in Nat /\ 0 \in Nat
  BY DEF ViewerInv, ViewerTypes, Pages
<1>2. uses' \in Nat /\ loads' = [loads EXCEPT ![s] = Asked(p, 0)]
  BY <1>1 DEF Reset, Use
<1>3. /\ loads' \in [Slots -> Loads] /\ \A t \in Slots : t # s => loads'[t] = loads[t]
      /\ loads'[s].at = "sent" /\ loads'[s].gen = p.gen /\ loads'[s].guild = p.guild
      /\ loads'[s].cursor = 0 /\ loads'[s].logs = <<>> /\ loads'[s].next = 0
  BY <1>1, <1>2, AskedFacts
<1>4. ViewerTypes'
  BY <1>2, <1>3 DEF ViewerInv, ViewerTypes
<1>5. NumberedInOrder'
  <2>1. \A d \in 1 .. MaxConns : Given(conns[d].queue)'
    BY QueuesKept
  <2>2. Given(page.logs)' /\ Given(page.buffer)' /\ page'.next <= count'
    BY <1>1, Nothing DEF ViewerInv, NumberedInOrder, Given
  <2>3. \A t \in Slots : Given(loads[t].logs)' /\ loads'[t].next <= count'
    BY <1>1, <1>3, Nothing DEF ViewerInv, NumberedInOrder, Given
  <2> QED BY <2>1, <2>2, <2>3 DEF ViewerInv, NumberedInOrder, Given, InOrder
<1>6. OwnEntriesOnce'
  BY Nothing DEF ViewerInv, OwnEntriesOnce, Shown
<1>7. NoGap'
  BY Nothing DEF NoGap
<1>8. ASSUME NEW t \in Slots PROVE LoadFits(t)'
  <2>1. CASE t = s
    BY <1>1, <1>3, <2>1 DEF LoadFits
  <2>2. CASE t # s
    BY <1>3, <2>2, LoadOutdated
  <2> QED BY <2>1, <2>2
<1> QED BY <1>4, <1>5, <1>6, <1>7, <1>8 DEF ViewerInv

LEMMA NewQueryKeeps ==
  ASSUME ViewerInv, NEW g \in Guilds, NEW s \in Slots, NewQuery(g, s)
  PROVE  ViewerInv'
<1> DEFINE p == [Cleared(page) EXCEPT !.guild = g]
<1>1. page \in Pages /\ ViewerTypes /\ page.gen \in Nat
  BY DEF ViewerInv, ViewerTypes, Pages
<1>2. p = [page EXCEPT !.gen = page.gen + 1, !.logs = <<>>, !.buffer = <<>>, !.next = 0,
                       !.mixed = FALSE, !.guild = g]
  BY <1>1 DEF Cleared, Pages
<1>3. Reset(p, s) /\ Reconnect(p) /\ UNCHANGED <<ring, count>>
  BY DEF NewQuery
<1> HIDE DEF p
<1>4. /\ p \in Pages /\ p.conn = page.conn /\ p.gen = page.gen + 1 /\ p.logs = <<>>
      /\ p.buffer = <<>> /\ p.next = 0
  <2>1. page.gen + 1 \in Nat /\ 0 \in Nat
    BY <1>1
  <2>2. p \in Pages
    BY <1>1, <1>2, <2>1, Nothing DEF Pages
  <2> QED BY <1>1, <1>2, <2>2 DEF Pages
<1>5. /\ page' \in Pages
      /\ page'.guild = p.guild /\ page'.gen = p.gen /\ page'.logs = p.logs
      /\ page'.next = p.next /\ page'.buffer = p.buffer
      /\ page'.streamGen <= p.gen
      /\ conns' \in [1 .. MaxConns -> Streams]
      /\ \A d \in 1 .. MaxConns : conns'[d] = conns[d] \/ conns'[d].queue = <<>>
      /\ page'.conn # 0 => conns'[page'.conn] = Stream(p.guild)
  BY <1>1, <1>3, <1>4, ReconnectFacts
<1>6. StreamOfPage' /\ LiveMissesNothing'
  BY <1>5, JustOpened
<1> QED BY <1>3, <1>4, <1>5, <1>6, StartOver

LEMMA ResetFiltersKeeps ==
  ASSUME ViewerInv, NEW s \in Slots, ResetFilters(s)
  PROVE  ViewerInv'
<1> DEFINE p == [Cleared(page) EXCEPT !.live = FALSE, !.paused = FALSE, !.logs = page.buffer,
                                      !.mixed = page.buffer # <<>>]
<1>1. /\ page \in Pages /\ ViewerTypes /\ page.gen \in Nat /\ page.buffer \in Seq(Entry)
  BY DEF ViewerInv, ViewerTypes, Pages
<1>2. p = [page EXCEPT !.gen = page.gen + 1, !.logs = page.buffer, !.buffer = <<>>, !.next = 0,
                       !.mixed = (page.buffer # <<>>), !.live = FALSE, !.paused = FALSE]
  BY <1>1 DEF Cleared, Pages
<1>3. Reset(p, s) /\ Reconnect(p) /\ UNCHANGED <<ring, count>>
  BY DEF ResetFilters
<1> HIDE DEF p
<1>4. /\ p \in Pages /\ p.conn = page.conn /\ p.gen = page.gen + 1 /\ p.logs = page.buffer
      /\ p.buffer = <<>> /\ p.next = 0 /\ p.mixed = (page.buffer # <<>>) /\ p.guild = page.guild
  <2>1. page.gen + 1 \in Nat /\ 0 \in Nat
    BY <1>1
  <2>2. p \in Pages
    BY <1>1, <1>2, <2>1, Nothing DEF Pages
  <2> QED BY <1>1, <1>2, <2>2 DEF Pages
<1>5. /\ page' \in Pages
      /\ page'.guild = p.guild /\ page'.gen = p.gen /\ page'.logs = p.logs
      /\ page'.next = p.next /\ page'.buffer = p.buffer /\ page'.mixed = p.mixed
      /\ page'.streamGen <= p.gen
      /\ conns' \in [1 .. MaxConns -> Streams]
      /\ \A d \in 1 .. MaxConns : conns'[d] = conns[d] \/ conns'[d].queue = <<>>
      /\ page'.conn # 0 => conns'[page'.conn] = Stream(p.guild)
  BY <1>1, <1>3, <1>4, ReconnectFacts
<1>6. StreamOfPage' /\ LiveMissesNothing'
  BY <1>5, JustOpened
<1>7. \/ page'.logs = <<>>
      \/ page'.logs = page.buffer /\ page'.mixed /\ page'.guild = page.guild
  BY <1>4, <1>5
<1>8. page'.next = 0 /\ page'.buffer = <<>>
  BY <1>4, <1>5
<1> QED BY <1>3, <1>4, <1>5, <1>6, <1>7, <1>8, StartOver

LEMMA HistorySizeKeeps ==
  ASSUME ViewerInv, NEW s \in Slots, HistorySize(s)
  PROVE  ViewerInv'
<1> DEFINE p == Cleared(page)
<1>1. page \in Pages /\ page.gen \in Nat /\ page.streamGen \in Nat
  BY DEF ViewerInv, ViewerTypes, Pages
<1>2. p = [page EXCEPT !.gen = page.gen + 1, !.logs = <<>>, !.buffer = <<>>, !.next = 0, !.mixed = FALSE]
  BY <1>1 DEF Cleared
<1>3. Reset(p, s) /\ page' = p /\ UNCHANGED <<ring, count, conns>>
  BY DEF HistorySize
<1> HIDE DEF p
<1>4. /\ p \in Pages /\ p.conn = page.conn /\ p.gen = page.gen + 1 /\ p.logs = <<>>
      /\ p.buffer = <<>> /\ p.next = 0 /\ p.guild = page.guild /\ p.streamGen = page.streamGen
  <2>1. page.gen + 1 \in Nat /\ 0 \in Nat
    BY <1>1
  <2>2. p \in Pages
    BY <1>1, <1>2, <2>1, Nothing DEF Pages
  <2> QED BY <1>1, <1>2, <2>2 DEF Pages
<1>5. StreamOfPage' /\ LiveMissesNothing'
  <2>1. page.streamGen <= page.gen
    BY DEF ViewerInv, StreamOfPage
  <2>2. page'.streamGen <= page'.gen /\ page'.streamGen # page'.gen
    BY <1>1, <1>3, <1>4, <2>1
  <2> QED BY <1>3, <1>4, <2>2 DEF ViewerInv, StreamOfPage, LiveMissesNothing
<1>6. conns' \in [1 .. MaxConns -> Streams]
  BY <1>3 DEF ViewerInv, ViewerTypes
<1> QED BY <1>3, <1>4, <1>5, <1>6, StartOver

-----------------------------------------------------------------------------
(* The specification *)

LEMMA ViewerStarts ==
  ASSUME ViewerInit
  PROVE  ViewerInv
<1> DEFINE g == CHOOSE h \in Guilds : TRUE
<1>1. g \in Guilds
  BY LogStreamAssumption
<1> HIDE DEF g
<1>2. PICK live, paused \in BOOLEAN :
       /\ page = [guild |-> g, gen |-> 1, logs |-> <<>>, next |-> 0, buffer |-> <<>>,
                  live |-> live, paused |-> paused, conn |-> IF live THEN 1 ELSE 0,
                  streamGen |-> IF live THEN 1 ELSE 0, fresh |-> 0, mixed |-> FALSE]
       /\ conns = [c \in 1 .. MaxConns |-> IF live /\ c = 1 THEN Stream(g) ELSE NoConn]
  BY DEF ViewerInit, g
<1>3. /\ ring = <<>> /\ count = 0 /\ uses = 0
      /\ loads = [s \in Slots |-> IF s = 1 THEN Asked(page, 0) ELSE NoLoad]
  BY DEF ViewerInit
<1>4. /\ 0 \in 0 .. MaxConns /\ 1 \in 0 .. MaxConns /\ 1 \in 1 .. MaxConns /\ 0 \in Nat /\ 1 \in Nat
  BY LogStreamAssumption
<1>5. page \in Pages
  BY <1>1, <1>2, <1>4, Nothing DEF Pages
<1>6. /\ conns \in [1 .. MaxConns -> Streams]
      /\ \A c \in 1 .. MaxConns : conns[c].queue = <<>>
      /\ page.conn # 0 => conns[page.conn] = Stream(page.guild)
  <2>1. NoConn.queue = <<>>
    BY DEF NoConn
  <2>2. /\ Stream(g) \in Streams /\ Stream(g).queue = <<>>
    BY <1>1, StreamFacts
  <2> QED BY <1>2, <1>4, <2>1, <2>2, Nothing
<1>7. \A s \in Slots :
        /\ loads[s] \in Loads /\ loads[s].logs = <<>> /\ loads[s].next = 0
        /\ loads[s].at \in {"none", "sent"}
        /\ loads[s].cursor = 0 /\ loads[s].gen <= page.gen
        /\ loads[s].at = "sent" => loads[s].guild = page.guild
  <2>1. /\ NoLoad \in Loads /\ NoLoad.logs = <<>> /\ NoLoad.next = 0 /\ NoLoad.at = "none"
        /\ NoLoad.cursor = 0 /\ NoLoad.gen = 0
    BY Nothing DEF NoLoad
  <2>2. /\ Asked(page, 0) \in Loads /\ Asked(page, 0).at = "sent" /\ Asked(page, 0).gen = page.gen
        /\ Asked(page, 0).guild = page.guild /\ Asked(page, 0).cursor = 0
        /\ Asked(page, 0).logs = <<>> /\ Asked(page, 0).next = 0
    BY <1>4, <1>5, AskedFacts
  <2>3. page.gen = 1
    BY <1>2
  <2> QED BY <1>3, <2>1, <2>2, <2>3
<1>8. ViewerTypes
  <2>1. loads \in [Slots -> Loads]
    BY <1>3, <1>7
  <2> QED BY <1>3, <1>4, <1>5, <1>6, <2>1, Nothing DEF ViewerTypes
<1>9. NumberedInOrder
  <2>1. InOrder(ring)
    BY <1>3 DEF InOrder
  <2>2. page.logs = <<>> /\ page.buffer = <<>> /\ page.next = 0
    BY <1>2
  <2> QED BY <1>3, <1>4, <1>6, <1>7, <2>1, <2>2, Nothing DEF NumberedInOrder, Given
<1>10. StreamOfPage /\ LiveMissesNothing
  <2>1. page.guild \in Guilds /\ page.streamGen <= page.gen
    BY <1>1, <1>2
  <2>2. page.conn # 0 => /\ conns[page.conn].at = "lookup" /\ conns[page.conn].open
                         /\ conns[page.conn].guild = page.guild
    BY <1>6, <2>1, StreamFacts
  <2> QED BY <2>1, <2>2 DEF StreamOfPage, LiveMissesNothing
<1>11. \A s \in Slots : LoadFits(s)
  BY <1>7 DEF LoadFits
<1>12. OwnEntriesOnce /\ NoGap
  <2>1. page.logs = <<>> /\ page.buffer = <<>>
    BY <1>2
  <2> QED BY <2>1, Nothing DEF OwnEntriesOnce, NoGap, Shown
<1> QED BY <1>8, <1>9, <1>10, <1>11, <1>12 DEF ViewerInv

LEMMA ViewerStep ==
  ASSUME ViewerInv, [ViewerNext]_viewerVars
  PROVE  ViewerInv'
<1>1. ASSUME NEW g \in Guilds, WriteEntry(g) PROVE ViewerInv'
  BY <1>1, WriteEntryKeeps
<1>2. ASSUME NEW c \in 1 .. MaxConns, Admitted(c) PROVE ViewerInv'
  BY <1>2, AdmittedKeeps
<1>3. ASSUME NEW c \in 1 .. MaxConns, ConnectionClosed(c) PROVE ViewerInv'
  BY <1>3, ConnectionClosedKeeps
<1>4. CASE ToggleLive
  BY <1>4, ToggleLiveKeeps
<1>5. CASE TogglePause
  BY <1>5, TogglePauseKeeps
<1>6. CASE Receive
  BY <1>6, ReceiveKeeps
<1>7. CASE StreamError
  BY <1>7, StreamErrorKeeps
<1>8. ASSUME NEW s \in Slots, NEW cursor \in 0 .. MaxEntries, Load(s, cursor) PROVE ViewerInv'
  <2>1. cursor \in Nat
    BY LogStreamAssumption
  <2> QED BY <1>8, <2>1, LoadKeeps
<1>9. ASSUME NEW s \in Slots, Evaluate(s) PROVE ViewerInv'
  BY <1>9, EvaluateKeeps
<1>10. ASSUME NEW s \in Slots, Answer(s) PROVE ViewerInv'
  BY <1>10, AnswerKeeps
<1>11. ASSUME NEW s \in Slots, HistorySize(s) PROVE ViewerInv'
  BY <1>11, HistorySizeKeeps
<1>12. ASSUME NEW s \in Slots, ResetFilters(s) PROVE ViewerInv'
  BY <1>12, ResetFiltersKeeps
<1>13. ASSUME NEW s \in Slots, NEW g \in Guilds, NewQuery(g, s) PROVE ViewerInv'
  BY <1>13, NewQueryKeeps
<1>14. CASE UNCHANGED viewerVars
  <2>1. UNCHANGED <<ring, count, conns, page, loads, uses>>
    BY <1>14 DEF viewerVars
  <2>2. ViewerTypes' /\ NumberedInOrder' /\ StreamOfPage'
    BY <2>1 DEF ViewerInv, ViewerTypes, NumberedInOrder, Given, InOrder, StreamOfPage
  <2>3. OwnEntriesOnce' /\ NoGap' /\ LiveMissesNothing'
    BY <2>1 DEF ViewerInv, OwnEntriesOnce, NoGap, LiveMissesNothing, Shown
  <2>4. ASSUME NEW t \in Slots PROVE LoadFits(t)'
    BY <2>1, LoadKept
  <2> QED BY <2>2, <2>3, <2>4 DEF ViewerInv
<1> QED BY <1>1, <1>2, <1>3, <1>4, <1>5, <1>6, <1>7, <1>8, <1>9, <1>10, <1>11, <1>12, <1>13, <1>14
        DEF ViewerNext

\* The viewer's inductive invariant, for every ring, page size, list bound and number of
\* streams and loads: LogsService (query, write, subscribeGuild), handleLogsStream, LogsPage.
THEOREM ViewerInvariant == ViewerSpec => []ViewerInv
<1>1. ViewerInit => ViewerInv
  BY ViewerStarts
<1>2. ViewerInv /\ [ViewerNext]_viewerVars => ViewerInv'
  BY ViewerStep
<1> QED BY <1>1, <1>2, PTL DEF ViewerSpec

\* However late answers and events are, the Logs page shows entries of its own guild, each
\* once (the generation in LogsPage, boundedLogs).
THEOREM ListIsOwn == ViewerSpec => []OwnEntriesOnce
<1>1. ViewerInv => OwnEntriesOnce
  BY DEF ViewerInv
<1> QED BY <1>1, ViewerInvariant, PTL

\* In live mode nothing written since the stream opened is missing (handleLogsStream, the
\* page's stream and its pause).
THEOREM LiveIsComplete == ViewerSpec => []LiveMissesNothing
<1>1. ViewerInv => LiveMissesNothing
  BY DEF ViewerInv
<1> QED BY <1>1, ViewerInvariant, PTL

\* A history paged to its end has no gap, although entries leave the ring meanwhile (the
\* cursor of LogsService.query, loadLogs).
THEOREM HistoryIsComplete == ViewerSpec => []HistoryComplete
<1>1. ViewerInv => HistoryComplete
  <2> SUFFICES ASSUME ViewerInv PROVE HistoryComplete
    OBVIOUS
  <2> QED BY RingKnown DEF ViewerInv, NoGap, HistoryComplete, Shown
<1> QED BY <1>1, ViewerInvariant, PTL
=============================================================================
