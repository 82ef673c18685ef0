----------------------------- MODULE VoiceCycle -----------------------------
(***************************************************************************)
(* The voice module: the bot waits in a standby channel, follows a member   *)
(* who joins a channel, plays a sound there and goes back.  The timers of   *)
(* the cycle, the reconnect timers of the connection manager, Discord's     *)
(* connection events and a shutdown cut into each other.  The feature flag  *)
(* voicePlugin chooses between the module and the plugin of the same name.  *)
(*                                                                          *)
(* Code between two awaits is one action.  Discord sends bot.ready once,    *)
(* and the client's events stop before the module is shut down.             *)
(***************************************************************************)
EXTENDS Naturals, FiniteSets

CONSTANTS
  Joiners,    \* who may join a channel; one handler call for each at a time
  MaxRetries, \* voice.maxReconnectRetries
  MaxTimers   \* bound on the reconnect timers pending at once

ASSUME RetriesAssumption == MaxRetries \in Nat \ {0} /\ MaxTimers \in Nat \ {0}

VARIABLES
  plugin,  \* is voicePlugin set?
  running, \* not stopped
  ready,   \* has bot.ready been seen?
  state,   \* the VoiceStateEnum
  link,    \* the connection manager
  doing,   \* where the handler call of each member's event is
  cut,     \* calls whose connection has been destroyed under them
  crashing \* has an unhandled rejection begun to end the process?

voiceVars == <<plugin, running, ready, state, link, doing, cut, crashing>>

NoLink == [channel |-> "none", status |-> "none", standby |-> FALSE,
           attempts |-> 0, held |-> FALSE, stray |-> 0]

VoiceInit ==
  /\ plugin \in BOOLEAN
  /\ running = TRUE /\ ready = FALSE
  /\ state = "IDLE"
  /\ link = NoLink
  /\ doing = [m \in Joiners |-> "none"]
  /\ cut = {}
  /\ crashing = FALSE

-----------------------------------------------------------------------------
(* The connection manager.  held: the timer that reconnectTimer names is      *)
(* pending; stray: pending timers whose handle was overwritten.               *)

\* The calls that work with the present connection: the module looks it up before
\* it resolves the sound, the plugin after that.
Using == {m \in Joiners : doing[m] \in {"awaiting", "playing"} \/ (doing[m] = "sound" /\ ~plugin)}

\* No connection, or one that is destroyed.
Nowhere(l) == l.status \in {"none", "destroyed"}

\* destroy throws of a connection that is destroyed already, and joinVoiceChannel may.
Throws(l, joined) == l.status = "destroyed" \/ ~joined

\* The present connection is destroyed, and a new one takes its place; when
\* joinVoiceChannel throws, the manager keeps the one it has destroyed.
Connect(l, channel, joined) ==
  IF ~Throws(l, joined) THEN [l EXCEPT !.channel = channel, !.status = "connecting"]
  ELSE IF l.status = "none" THEN l
  ELSE [l EXCEPT !.channel = "none", !.status = "destroyed"]

JoinStandby(l, joined) == Connect([l EXCEPT !.standby = TRUE, !.attempts = 0], "standby", joined)

\* Mutant: the bot stays where it is.
StayThere(l, joined) == l

\* What connect throws is logged.
ReturnToStandby(l, joined) == IF l.standby THEN Connect(l, "standby", joined) ELSE l

Timers(l) == l.stray + (IF l.held THEN 1 ELSE 0)

ScheduleReconnect(l) ==
  IF ~l.standby \/ l.attempts >= MaxRetries THEN l
  ELSE [l EXCEPT !.attempts = @ + 1, !.held = TRUE, !.stray = Timers(l)]

\* Mutant: the reconnect timer is not cleared.
DestroyOnly(l) == [l EXCEPT !.channel = "none", !.status = "none"]

\* disconnect: clears the timer it knows of, then destroys the connection, which
\* throws of one that is destroyed already.
Disconnect(l) ==
  IF l.status = "destroyed" THEN [l EXCEPT !.held = FALSE]
  ELSE [l EXCEPT !.channel = "none", !.status = "none", !.held = FALSE]

\* External: Discord reports the connection ready, also one that was lost.
LinkReady ==
  /\ link.status \in {"connecting", "disconnected"}
  /\ link' = [link EXCEPT !.status = "ready", !.attempts = 0]
  /\ UNCHANGED <<plugin, running, ready, state, doing, cut, crashing>>

\* External: Discord drops the connection.
LinkLost ==
  /\ link.status \in {"connecting", "ready"} /\ Timers(link) < MaxTimers
  /\ link' = ScheduleReconnect([link EXCEPT !.status = "disconnected"])
  /\ UNCHANGED <<plugin, running, ready, state, doing, cut, crashing>>

\* A reconnect timer fires, whatever has happened since it was set; what connect
\* throws is logged.
ReconnectTimer ==
  /\ \E joined \in BOOLEAN :
       \/ link.held /\ link' = Connect([link EXCEPT !.held = FALSE], "standby", joined)
       \/ link.stray > 0 /\ link' = Connect([link EXCEPT !.stray = @ - 1], "standby", joined)
  /\ cut' = cut \cup Using
  /\ UNCHANGED <<plugin, running, ready, state, doing, crashing>>

-----------------------------------------------------------------------------
(* The cycle *)

\* Without a standby channel in its configuration the bot joins none.  Nobody
\* catches what joinStandby throws: the process shuts down.
BotReady(configured, joined) ==
  /\ running /\ ~ready
  /\ ready' = TRUE
  /\ IF configured
     THEN /\ link' = JoinStandby(link, joined)
          /\ cut' = cut \cup Using
          /\ state' = IF plugin \/ Throws(link, joined) THEN state ELSE "IDLE"
          /\ crashing' = (crashing \/ Throws(link, joined))
     ELSE UNCHANGED <<link, cut, state, crashing>>
  /\ UNCHANGED <<plugin, running, doing>>

\* Only a human who was in no channel starts a cycle.
Joins(human, from, to) == human /\ from = "none" /\ to = "member"

\* The channel of the member may be one the bot cannot enter: it stays where it is,
\* and the cycle goes on.  When moveTo throws, the call is over and the state stays
\* MOVING: the event bus logs what the plugin's call throws, nobody catches the
\* module's.
MemberJoined(m, allowed, joined) ==
  /\ running /\ ready /\ doing[m] = "none" /\ state = "IDLE"
  /\ link' = IF allowed THEN Connect(link, "member", joined) ELSE link
  /\ cut' = IF allowed THEN cut \cup Using ELSE cut
  /\ IF allowed /\ Throws(link, joined)
     THEN /\ state' = "MOVING" /\ crashing' = (crashing \/ ~plugin)
          /\ UNCHANGED doing
     ELSE /\ state' = "WAITING" /\ doing' = [doing EXCEPT ![m] = "waiting"]
          /\ UNCHANGED crashing
  /\ UNCHANGED <<plugin, running, ready>>

VoiceStateUpdate(m, human, from, to, allowed, joined) ==
  Joins(human, from, to) /\ MemberJoined(m, allowed, joined)

\* The join delay is over.
JoinTimer(m) ==
  /\ doing[m] = "waiting"
  /\ running /\ state = "WAITING"
  /\ state' = "PLAYING"
  /\ doing' = [doing EXCEPT ![m] = "sound"]
  /\ UNCHANGED <<plugin, running, ready, link, cut, crashing>>

\* Mutant: after the playback the module waits for the next ready event.
NoCooldown(joined) == /\ running
                      /\ state' = "RETURNING" /\ link' = ReturnToStandby(link, joined)

\* Back to standby, and no new cycle before the cooldown is over.
FinishCycle(joined) == /\ running
                       /\ state' = "COOLDOWN" /\ link' = ReturnToStandby(link, joined)

\* The handler call is over, by success or failure of what it awaited.
HandlerEnds(m) ==
  /\ doing' = [doing EXCEPT ![m] = "none"]
  /\ cut' = (cut \cup (IF running /\ link.standby THEN Using ELSE {})) \ {m}
  /\ \/ \E joined \in BOOLEAN : FinishCycle(joined)
     \/ ~running /\ UNCHANGED <<state, link>>
  /\ UNCHANGED <<plugin, running, ready, crashing>>

\* The sound has no file: an error, like one of the playback.
SoundFails(m) == doing[m] = "sound" /\ HandlerEnds(m)

\* There is no connection, or no audio manager any more.
Mute(m) == m \notin cut /\ (link.status = "none" \/ (plugin /\ ~running))

\* play: it waits for a connection that is not ready yet.
SoundResolved(m) ==
  /\ doing[m] = "sound"
  /\ \/ Mute(m) /\ HandlerEnds(m)
     \/ /\ ~Mute(m)
        /\ doing' = [doing EXCEPT ![m] = IF link.status = "ready" /\ m \notin cut
                                    THEN "playing" ELSE "awaiting"]
        /\ UNCHANGED <<plugin, running, ready, state, link, cut, crashing>>

\* waitForReady: the ready event, or ten seconds have passed.
ReadyOrTimeout(m) ==
  /\ doing[m] = "awaiting"
  /\ doing' = [doing EXCEPT ![m] = "playing"]
  /\ UNCHANGED <<plugin, running, ready, state, link, cut, crashing>>

\* External: a player pauses for as long as its connection is not ready.
Silent(m) == doing[m] = "playing" /\ (m \in cut \/ link.status # "ready")

PlaybackEnds(m) == doing[m] = "playing" /\ ~Silent(m) /\ HandlerEnds(m)

CooldownTimer ==
  /\ state = "COOLDOWN" /\ running
  /\ state' = "IDLE"
  /\ UNCHANGED <<plugin, running, ready, link, doing, cut, crashing>>

-----------------------------------------------------------------------------
(* Shutdown *)

\* onShutdown of the module: clears its timers, and the call that waits for one
\* never goes on; what plays is left to the end of the process.
ShutdownModule ==
  /\ ~plugin
  /\ doing' = [m \in Joiners |-> IF doing[m] = "waiting" THEN "none" ELSE doing[m]]
  /\ UNCHANGED state

\* AudioManager.stop: players stop, and with them their calls; a call that waits
\* for the connection goes on to play on the destroyed one.
StopAudio(p) == CASE p = "playing" -> "none" [] p = "awaiting" -> "playing" [] OTHER -> p

\* stop of the plugin: calls that go on find another generation and return.
StopPlugin ==
  /\ plugin
  /\ state' = "IDLE"
  /\ doing' = [m \in Joiners |-> IF doing[m] = "waiting" THEN "none" ELSE StopAudio(doing[m])]

\* When disconnect throws, the plugin's stop is over before it gives up its audio
\* manager and its connection: a call that resolves its sound goes on with both.
Resolving == {m \in Joiners : doing[m] = "sound"}

StopVoice ==
  /\ running /\ running' = FALSE
  /\ ShutdownModule \/ StopPlugin
  /\ link' = Disconnect(link)
  /\ cut' = cut \cup Using \cup (IF link.status = "destroyed" THEN Resolving ELSE {})
  /\ UNCHANGED <<plugin, ready, crashing>>

-----------------------------------------------------------------------------

Playing(m) == SoundResolved(m) \/ ReadyOrTimeout(m)

VoiceNext ==
  \/ (\E configured, joined \in BOOLEAN : BotReady(configured, joined))
  \/ LinkReady \/ LinkLost \/ ReconnectTimer \/ CooldownTimer \/ StopVoice
  \/ \E m \in Joiners :
       \/ \E human, allowed, joined \in BOOLEAN, from, to \in {"none", "member"} :
            VoiceStateUpdate(m, human, from, to, allowed, joined)
       \/ JoinTimer(m) \/ Playing(m) \/ SoundFails(m) \/ PlaybackEnds(m)

\* Timers fire, files are found or not, and a sound that is heard comes to its end.
\* Nobody need join, and no connection need become ready.  A process that is
\* crashing shuts down, or is ended five seconds later.
VoiceFairness ==
  /\ WF_voiceVars(crashing /\ StopVoice)
  /\ WF_voiceVars(ReconnectTimer) /\ WF_voiceVars(CooldownTimer)
  /\ \A m \in Joiners : /\ WF_voiceVars(JoinTimer(m)) /\ WF_voiceVars(Playing(m))
                        /\ SF_voiceVars(PlaybackEnds(m))

VoiceSpec == VoiceInit /\ [][VoiceNext]_voiceVars /\ VoiceFairness

-----------------------------------------------------------------------------
(* Properties *)

\* The types of the fields of the module and of its connection manager
\* (voice.module.ts:31-41, ConnectionManager.ts:6-10).
VoiceTypes ==
  /\ plugin \in BOOLEAN /\ running \in BOOLEAN /\ ready \in BOOLEAN /\ crashing \in BOOLEAN
  /\ state \in {"IDLE", "MOVING", "WAITING", "PLAYING", "COOLDOWN"}
  /\ link \in [channel : {"none", "standby", "member"},
               status : {"none", "connecting", "ready", "disconnected", "destroyed"},
               standby : BOOLEAN, attempts : 0..MaxRetries, held : BOOLEAN, stray : Nat]
  /\ doing \in [Joiners -> {"none", "waiting", "sound", "awaiting", "playing"}]
  /\ cut \subseteq Joiners

\* Whatever timers have fired in between, a bot that takes no part in a cycle never
\* rests in a member's channel: it has asked for its standby channel, or its last
\* attempt to connect threw and it is in none.  A module that a failed move has left
\* in MOVING is in none either, for good.  No two cycles share the connection
\* (voice.module.ts:112,128,163-165, ConnectionManager.ts:97-136,162-166).
RestsInStandby ==
  /\ running /\ link.standby /\ state \in {"IDLE", "COOLDOWN"}
       => link.channel = "standby" \/ Nowhere(link)
  /\ running /\ state = "MOVING" => Nowhere(link)
  /\ running /\ state \in {"IDLE", "MOVING", "COOLDOWN"} => \A m \in Joiners : doing[m] = "none"
  /\ running => \A m, n \in Joiners : doing[m] # "none" /\ doing[n] # "none" => m = n

\* Once stopped, the bot enters no channel, but for a reconnect timer that a later
\* drop had overwritten before (voice.plugin.ts:114-123, ConnectionManager.ts:49-56).
StaysOutAfterStop ==
  [][~running /\ link'.channel # "none" /\ link.channel = "none" => link'.stray < link.stray]_voiceVars

\* A cycle ends and the module listens to members again, unless it is stopped.  Two
\* exceptions are the code's: the connection of the sound is lost for good, and a
\* move of the plugin threw (voice.module.ts:124-173, voice.plugin.ts:85-95).
CyclesEnd ==
  state # "IDLE" ~> \/ state = "IDLE" \/ ~running
                    \/ plugin /\ state = "MOVING"
                    \/ \E m \in Joiners : []Silent(m)
=============================================================================
