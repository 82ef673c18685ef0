------------------------------ MODULE GuildLog ------------------------------
(***************************************************************************)
(* The logging module: what happens in a guild becomes posts in its log        *)
(* channel.  Each event starts a handler of its own, which waits (for          *)
(* attachments to be archived, for the audit log) and then sends; handlers     *)
(* overlap, a send may fail, and the module may be stopped while they wait.    *)
(*                                                                          *)
(* Embeds, metrics and the logging.* events, which nobody subscribes to, are   *)
(* left out.  The audit log is Discord's: an entry appears some time after     *)
(* the deletion it tells of.                                                   *)
(***************************************************************************)
EXTENDS Naturals, Sequences, SequencesExt, FiniteSets

CONSTANTS
  Actors,      \* those who delete messages in bulk, the bot among them
  Channels,
  NoChannel,
  MemberChanges, \* what may change of a member: "role added", "role removed", ...
  MaxBulk,     \* bound on the messages one bulk deletion takes
  Handlers,    \* bound on the events: each has one handler
  MaxFiles,    \* bound on the attachments of a message
  Pause,       \* the 750 ms before the audit log is read
  Tolerance,   \* TOLERANCE_MS
  MaxTime      \* bound on the clock

ASSUME GuildLogAssumption ==
  Pause \in Nat /\ Tolerance \in Nat /\ MaxTime \in Nat /\ MaxBulk \in Nat /\ MaxFiles \in Nat

VARIABLES
  active,      \* the services are active
  configured,  \* logging is enabled and its channel exists
  handlers,    \* per event: its handler
  posted,       \* what stands in the log channel
  audit,       \* Discord's audit log of bulk deletions; shown: fetchAuditLogs returns it
  now

logVars == <<active, configured, handlers, posted, audit, now>>

NoOne == "no one"

\* deletion: what a bulk deletion took, and (history) whose it was and when; read (history): when
\* the answer of the audit log, found, was looked through.
Idle == [at |-> "idle", todo |-> <<>>, files |-> 0, archived |-> 0, due |-> 0, found |-> {}, read |-> 0,
         deletion |-> <<>>]

LogInit ==
  /\ active = TRUE /\ configured \in BOOLEAN
  /\ handlers = [h \in Handlers |-> Idle]
  /\ posted = {} /\ audit = {} /\ now = 0

\* The next event's handler; the bound is reached when all have been used.
Free(h) == handlers[h].at = "idle"

\* An event reaches its service while that is active, and is dropped when logging is off.
Handle(h, handler) ==
  /\ Free(h)
  /\ handlers' = [handlers EXCEPT ![h] = IF active /\ configured THEN handler ELSE [Idle EXCEPT !.at = "done"]]

ToSend(what) == [Idle EXCEPT !.at = IF what = <<>> THEN "done" ELSE "send", !.todo = what]

-----------------------------------------------------------------------------
(* The posts: what they are about, in place of their embeds.                  *)

EditPost(h) == [what |-> "edit", of |-> h]
VoicePost(h, action) == [what |-> action, of |-> h]
DeletePost(h, archived) == [what |-> "delete", of |-> h, archived |-> archived]
BulkPost(h, by) == [what |-> "bulk", of |-> h, by |-> by]
MemberPost(h, change) == [what |-> change, of |-> h]
ModerationPost(h, action) == [what |-> action, of |-> h]

-----------------------------------------------------------------------------
(* The handlers.                                                              *)

\* handleMessageEdit: one post, at once; none when the text is the same.
MessageEdit(h) ==
  /\ \E changed \in BOOLEAN : Handle(h, ToSend(IF changed THEN <<EditPost(h)>> ELSE <<>>))
  /\ UNCHANGED <<active, configured, posted, audit, now>>

\* resolveAction, for one who joins or leaves voice, or goes from one channel to another.
VoiceAction(from, to) ==
  CASE from = NoChannel -> "joined" [] to = NoChannel -> "left" [] OTHER -> "moved"

\* The voice listener: bots, and what changes within a channel, are not its affair.
VoicePosts(h, from, to, bot) ==
  IF bot \/ from = to THEN <<>> ELSE <<VoicePost(h, VoiceAction(from, to))>>

\* handleVoiceEvent.
VoiceEvent(h) ==
  /\ \E what \in {VoicePosts(h, from, to, bot) :
                   from \in Channels \cup {NoChannel}, to \in Channels \cup {NoChannel}, bot \in BOOLEAN} :
       Handle(h, ToSend(what))
  /\ UNCHANGED <<active, configured, posted, audit, now>>

\* handleRoleChanges, when the roles are logged; handleNicknameChange,
\* handleDisplayNameChange and handleAvatarChange: a post for each change.
PostOf(h, change, changes) == IF change \in changes THEN <<MemberPost(h, change)>> ELSE <<>>

RolePosts(h, changes, wanted) ==
  IF wanted THEN PostOf(h, "role added", changes) \o PostOf(h, "role removed", changes) ELSE <<>>

NicknamePosts(h, changes) == PostOf(h, "nickname", changes)

\* A nickname is the display name too: both are posted.
DisplayNamePosts(h, changes) ==
  IF {"nickname", "display name"} \cap changes # {} THEN <<MemberPost(h, "display name")>> ELSE <<>>

AvatarPosts(h, changes) == PostOf(h, "avatar", changes)

MemberPosts(h, changes, wanted) ==
  RolePosts(h, changes, wanted) \o NicknamePosts(h, changes)
    \o DisplayNamePosts(h, changes) \o AvatarPosts(h, changes)

\* handleMemberUpdate: one after the other, each waiting for the one before.
MemberUpdate(h) ==
  /\ \E what \in {MemberPosts(h, changes, wanted) : changes \in SUBSET MemberChanges, wanted \in BOOLEAN} :
       Handle(h, ToSend(what))
  /\ UNCHANGED <<active, configured, posted, audit, now>>

\* archiveAttachments: none are fetched where archiving is off.
ToArchive(files, archiving) == IF archiving THEN files ELSE 0

\* handleMessageDelete: the attachments are archived one after the other, before the post.
MessageDelete(h) ==
  /\ \E n \in 0 .. MaxFiles, archiving \in BOOLEAN :
       Handle(h, [Idle EXCEPT !.at = "archive", !.files = ToArchive(n, archiving)])
  /\ UNCHANGED <<active, configured, posted, audit, now>>

\* archive: one that is too large is skipped, one that cannot be fetched has failed.
Archive(h) ==
  /\ handlers[h].at = "archive"
  /\ IF handlers[h].files = 0
     THEN handlers' = [handlers EXCEPT ![h] = ToSend(<<DeletePost(h, @.archived)>>)]
     ELSE \E archived \in {0, 1} :
            handlers' = [handlers EXCEPT ![h].files = @ - 1, ![h].archived = @ + archived]
  /\ UNCHANGED <<active, configured, posted, audit, now>>

\* Discord deletes messages in bulk: an audit entry, shown later, and an event.
Deletes(h, by, channel, count) ==
  LET deletion == [by |-> by, channel |-> channel, count |-> count, time |-> now] IN
  /\ Handle(h, [Idle EXCEPT !.at = "pause", !.due = now + Pause, !.deletion = deletion])
  /\ audit' = audit \cup {[entry |-> deletion, shown |-> FALSE]}
  /\ UNCHANGED <<active, configured, posted, now>>

AuditShows ==
  /\ \E a \in audit : ~a.shown /\ audit' = (audit \ {a}) \cup {[a EXCEPT !.shown = TRUE]}
  /\ UNCHANGED <<active, configured, handlers, posted, now>>

\* resolveBulkDeleteModerator, after the pause: the audit log is asked for.
FetchAudit(h) ==
  /\ handlers[h].at = "pause" /\ now >= handlers[h].due
  /\ handlers' = [handlers EXCEPT ![h] =
       IF active THEN [@ EXCEPT !.at = "fetch", !.found = {a.entry : a \in {b \in audit : b.shown}}]
       ELSE [@ EXCEPT !.at = "send", !.todo = <<BulkPost(h, NoOne)>>]]
  /\ UNCHANGED <<active, configured, posted, audit, now>>

Matches(entry, deletion) ==
  /\ now <= entry.time + Tolerance
  /\ entry.count = deletion.count /\ entry.channel = deletion.channel

\* The answer: the newest entry that matches, by the clock of this moment; or an error.
AuditAnswers(h) ==
  /\ handlers[h].at = "fetch"
  /\ LET matching == {e \in handlers[h].found : Matches(e, handlers[h].deletion)}
         newest == {e \in matching : \A f \in matching : f.time <= e.time}
     IN  \E by \in {NoOne} \cup {e.by : e \in newest} :
           handlers' = [handlers EXCEPT ![h].at = "send", ![h].read = now,
                                        ![h].todo = <<BulkPost(h, by)>>]
  /\ UNCHANGED <<active, configured, posted, audit, now>>

\* The next post is sent, or fails and is given up; the others follow all the same.
SendPost(h) ==
  /\ handlers[h].at = "send"
  /\ \E sent \in BOOLEAN :
       /\ posted' = IF sent THEN posted \cup {Head(handlers[h].todo)} ELSE posted
       /\ handlers' = [handlers EXCEPT ![h].todo = Tail(@),
                                         ![h].at = IF Tail(handlers[h].todo) = <<>> THEN "done" ELSE "send"]
  /\ UNCHANGED <<active, configured, audit, now>>

\* dispose of the services; what waits goes on.
StopLogging ==
  /\ active
  /\ active' = FALSE
  /\ UNCHANGED <<configured, handlers, posted, audit, now>>

TimePasses ==
  /\ now < MaxTime
  /\ now' = now + 1
  /\ UNCHANGED <<active, configured, handlers, posted, audit>>

\* An event of the guild that no command of the bot has caused.
GuildEvent(h) ==
  \/ MessageEdit(h) \/ VoiceEvent(h) \/ MemberUpdate(h) \/ MessageDelete(h)
  \/ \E by \in Actors, c \in Channels, n \in 1 .. MaxBulk : Deletes(h, by, c, n)

HandlerStep(h) == Archive(h) \/ FetchAudit(h) \/ AuditAnswers(h) \/ SendPost(h)

LogNext ==
  \/ \E h \in Handlers : HandlerStep(h)
  \/ AuditShows \/ StopLogging \/ TimePasses

-----------------------------------------------------------------------------
(* Properties *)

\* A bulk deletion is put down to someone only by an entry of the audit log for as many
\* messages of the same channel, made no longer than the tolerance before the log was looked
\* through; and to another than the one who did it only by an entry as new as his own, or
\* when his own had not appeared or was too old by then, however handlers overlap and late
\* the entries and answers are.
NamedRight ==
  \A p \in posted : p.what = "bulk" /\ p.by # NoOne =>
    LET mine == handlers[p.of].deletion
        read == handlers[p.of].read
        inTime(entry) == entry.time <= read /\ read <= entry.time + Tolerance
    IN  \E a \in audit :
          /\ a.entry.by = p.by /\ a.entry.channel = mine.channel /\ a.entry.count = mine.count
          /\ inTime(a.entry)
          /\ mine \in handlers[p.of].found /\ inTime(mine) => mine.time <= a.entry.time
=============================================================================
