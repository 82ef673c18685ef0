----------------------------- MODULE Moderation -----------------------------
(***************************************************************************)
(* The moderation commands, as the command router runs them, together with    *)
(* the log they report to (GuildLog).  Commands of several moderators overlap; *)
(* between the check of the target and the act at Discord or in the warnings   *)
(* table the guild may change; the act, its answer and every reply may fail.   *)
(*                                                                          *)
(* A warning's id is the command that issued it.  Reasons, durations and the   *)
(* wording of replies are left out, as are the other modules' commands.        *)
(***************************************************************************)
EXTENDS GuildLog, FiniteSetsExt

CONSTANTS
  Calls,      \* the commands; each has the handler of its name in the log
  Kinds,      \* the commands modelled
  Members,    \* of the guild, the bot among them
  Bot,
  Moderators, \* who give the commands
  Targets,    \* whom they are given for
  Owner,      \* the guild's owner
  Ranks,      \* positions of roles
  FirstRank,  \* the members' ranks at first
  MaxChanges  \* bound on what others change in the guild

ASSUME ModerationAssumption ==
  /\ Calls \subseteq Handlers /\ Bot \in Members /\ Owner \in Members
  /\ FirstRank \in [Members -> Ranks]

VARIABLES
  calls,     \* per command: how far it is, its invocation, what it did and what it told
  there,     \* the members in the guild
  banned,    \* those whom the guild has banned
  rank,      \* per member: roles.highest.position
  granted,   \* those whose roles hold the permission the commands ask for
  warnings,  \* the warnings table: [id, of]
  changes

guildVars == <<calls, there, banned, rank, granted, warnings, changes>>
moderationVars == <<logVars, guildVars>>

\* Those for a member of the guild; those whose act is inside a try of their own; those that
\* handleModerationAction and handleWarningIssued take.
MemberKinds == {"ban", "kick", "timeout", "warn"}
NeedUser == MemberKinds \cup {"warnings", "warn_clear"}
Caught == MemberKinds \cup {"clean"}
Logged == MemberKinds \cup {"warn_remove", "warn_clear"}

\* did (history): what the act changed; "again" is a ban of one already banned.  target: a member, or the id for warn_remove.
NotCalled == [at |-> "idle", kind |-> "none", by |-> Bot, target |-> Bot, did |-> "nothing",
              told |-> "nothing"]

ModerationInit ==
  /\ LogInit
  /\ calls = [i \in Calls |-> NotCalled]
  /\ there = Members /\ banned = {} /\ rank = FirstRank
  /\ granted = Members
  /\ warnings = {} /\ changes = 0

\* evaluateCommandAuthorization: they and the bot hold the permission; the owners that the
\* configuration names need none.
Permitted(by) == {by, Bot} \subseteq granted

\* PermissionMiddleware.check: who may not is told so.
Checked(called) ==
  {called} \cup IF Permitted(called.by) THEN {} ELSE {[called EXCEPT !.at = "reply", !.told = "denied"]}

\* handleSlash: the reply is deferred first, which may fail.
HandleSlash(called) == Checked(called) \cup {[NotCalled EXCEPT !.at = "over"]}

\* handlePrefix, of a message that begins with the prefix and a command's name or alias.
HandlePrefix(called) == Checked(called)

Begin(i) ==
  /\ calls[i].at = "idle"
  /\ \E kind \in Kinds, by \in Moderators, target \in Targets \cup Calls :
       LET called == [NotCalled EXCEPT !.at = "resolve", !.kind = kind, !.by = by, !.target = target] IN
       /\ (target \in Calls) <=> (kind = "warn_remove")
       /\ \E begun \in HandleSlash(called) \cup HandlePrefix(called) : calls' = [calls EXCEPT ![i] = begun]
  /\ UNCHANGED <<logVars, there, banned, rank, granted, warnings, changes>>

\* resolveTarget: the user is named, or only his id, which Discord may not know, or neither.
TargetResolved(kind, user) == kind \in NeedUser => user \in {"named", "found"}

\* resolveMember.
MemberResolved(kind, target) == kind \in MemberKinds => target \in there

\* validateCommon, and kickable, bannable, moderatable.
Valid(by, target) ==
  /\ target \notin {by, Bot, Owner}
  /\ rank[target] < rank[by] /\ rank[target] < rank[Bot]

\* resolveReason, resolveDuration, resolveId, parseAmount: what the command cannot do without.
ReasonGiven(kind, given) == kind = "warn" => given
DurationGiven(kind, given) == kind = "timeout" => given
IdGiven(kind, given) == kind = "warn_remove" => given
AmountGiven(kind, given) == kind = "clean" => given

OptionsGiven(kind, given) ==
  /\ ReasonGiven(kind, given) /\ DurationGiven(kind, given)
  /\ IdGiven(kind, given) /\ AmountGiven(kind, given)

\* What the command checks before it acts.
Accepted(i, user, given) ==
  LET kind == calls[i].kind target == calls[i].target IN
  /\ TargetResolved(kind, user) /\ MemberResolved(kind, target)
  /\ kind \in MemberKinds => Valid(calls[i].by, target)
  /\ OptionsGiven(kind, given)

Resolve(i) ==
  /\ calls[i].at = "resolve"
  /\ \E accepted \in {Accepted(i, user, given) : user \in {"named", "found", "unknown", "missing"},
                                                  given \in BOOLEAN} :
       calls' = IF accepted THEN [calls EXCEPT ![i].at = "act"]
                ELSE [calls EXCEPT ![i].at = "reply", ![i].told = "refused"]
  /\ UNCHANGED <<logVars, there, banned, rank, granted, warnings, changes>>

-----------------------------------------------------------------------------
(* The act, at Discord or in the database, and then its answer: an error means *)
(* that it was refused, or done and the answer was lost.                       *)

\* The catch of the command; for the others the router's, which answers a slash command only.
Fails(i, did) ==
  \E end \in {[at |-> "reply", told |-> "failed"]}
              \cup IF calls[i].kind \in Caught THEN {} ELSE {[at |-> "over", told |-> "nothing"]} :
    calls' = [calls EXCEPT ![i].did = did, ![i].at = end.at, ![i].told = end.told]

Acts(i, did) == calls' = [calls EXCEPT ![i].did = did, ![i].at = "answered"] \/ Fails(i, did)

\* Discord refuses what the bot may not do at that moment.
AtDiscord(i, kind, possible, did, left, out) ==
  LET target == calls[i].target IN
  /\ calls[i].at = "act" /\ calls[i].kind = kind
  /\ \/ Fails(i, "nothing") /\ UNCHANGED <<there, banned>>
     \/ /\ Bot \in granted /\ target \in possible
        /\ target \in there => rank[target] < rank[Bot]
        /\ Acts(i, did)
        /\ there' = there \ left /\ banned' = banned \cup out
  /\ UNCHANGED <<logVars, rank, granted, warnings, changes>>

\* What Discord answers to a ban of one already banned is no error.
BanDid(target) == IF target \in banned THEN "again" ELSE "changed"

\* BanCommand: one who has left meanwhile, or has been banned, is banned all the same.
Ban(i) == LET target == calls[i].target IN AtDiscord(i, "ban", Members, BanDid(target), {target}, {target})
Kick(i) == AtDiscord(i, "kick", there, "changed", {calls[i].target}, {})
Timeout(i) == AtDiscord(i, "timeout", there, "changed", {}, {})

\* createWarning.
Created(i) == warnings \cup {[id |-> i, of |-> calls[i].target]}

\* warn and countWarnings: when the count fails, the warning stands.
Warn(i) ==
  /\ calls[i].at = "act" /\ calls[i].kind = "warn"
  /\ \/ Fails(i, "nothing") /\ UNCHANGED warnings
     \/ Acts(i, "changed") /\ warnings' = Created(i)
  /\ UNCHANGED <<logVars, there, banned, rank, granted, changes>>

\* deleteWarning and clearWarnings: the rows they delete.
WithId(id) == {w \in warnings : w.id = id}
OfMember(member) == {w \in warnings : w.of = member}

Deleted(i) ==
  IF calls[i].kind = "warn_remove" THEN WithId(calls[i].target) ELSE OfMember(calls[i].target)

\* Mutant: whether a row was deleted is not looked at.
NotLooked(deleted) == TRUE

Found(deleted) == deleted # {}

\* WarnRemoveCommand, WarnClearCommand: both look at what was deleted.
RemoveOrClear(i) ==
  LET deleted == Deleted(i)
      did == IF deleted # {} THEN "changed" ELSE "nothing" IN
  /\ calls[i].at = "act" /\ calls[i].kind \in {"warn_remove", "warn_clear"}
  /\ \/ Fails(i, "nothing") /\ UNCHANGED warnings
     \/ /\ warnings' = warnings \ deleted
        /\ \/ Fails(i, did)
           \/ Found(deleted) /\ calls' = [calls EXCEPT ![i].at = "answered", ![i].did = did]
           \/ ~Found(deleted) /\ calls' = [calls EXCEPT ![i].at = "reply", ![i].told = "nothing found"]
  /\ UNCHANGED <<logVars, there, banned, rank, granted, changes>>

\* WarningsCommand: two queries.
List(i) ==
  /\ calls[i].at = "act" /\ calls[i].kind = "warnings"
  /\ Acts(i, "nothing")
  /\ UNCHANGED <<logVars, there, banned, rank, granted, warnings, changes>>

\* What bulkDelete does with the messages it finds: one is deleted like any other, more in
\* bulk, and then the audit entry names the bot.
BulkDelete(i, n) ==
  \/ n = 0 /\ UNCHANGED logVars
  \/ n = 1 /\ MessageDelete(i)
  \/ n > 1 /\ \E c \in Channels : Deletes(i, Bot, c, n)

\* CleanCommand: the reply comes first, and then an event that the log does not keep.
Clean(i) ==
  /\ calls[i].at = "act" /\ calls[i].kind = "clean"
  /\ \/ Fails(i, "nothing") /\ UNCHANGED logVars
     \/ \E n \in 0 .. MaxBulk : LET did == IF n > 0 THEN "changed" ELSE "nothing" IN
          /\ BulkDelete(i, n)
          /\ calls' = [calls EXCEPT ![i].did = did, ![i].at = "reply", ![i].told = "done"] \/ Fails(i, did)
  /\ UNCHANGED <<there, banned, rank, granted, warnings, changes>>

-----------------------------------------------------------------------------
(* The answer.                                                                *)

\* Mutant: the event is emitted once the reply has been delivered.
EmitLater(i) == handlers

\* handleModerationAction and handleWarningIssued, up to the send.
HandleModerationAction(i) ==
  IF active /\ configured THEN ToSend(<<ModerationPost(i, calls[i].kind)>>)
  ELSE [Idle EXCEPT !.at = "done"]

HandleWarningIssued(i) ==
  IF active /\ configured THEN ToSend(<<ModerationPost(i, "warn")>>)
  ELSE [Idle EXCEPT !.at = "done"]

\* emit: the log's handler starts; the list of warnings has no event.
Emit(i) ==
  IF calls[i].kind \notin Logged THEN handlers
  ELSE [handlers EXCEPT ![i] = IF calls[i].kind = "warn" THEN HandleWarningIssued(i)
                               ELSE HandleModerationAction(i)]

\* What follows the answer up to the reply, one synchronous stretch of the code: the event
\* and then the call of the reply, which is still to be delivered.  warn awaits a second
\* count in between (warn.command.ts:59); its failure is taken with that of the reply.
Answered(i) ==
  /\ calls[i].at = "answered"
  /\ handlers' = Emit(i)
  /\ calls' = [calls EXCEPT ![i].at = "reply", ![i].told = "done"]
  /\ UNCHANGED <<active, configured, posted, audit, now, there, banned, rank, granted, warnings, changes>>

\* The reply is delivered, or fails: the command that waits for it in its try says it failed.
Reply(i) ==
  /\ calls[i].at = "reply"
  /\ \/ calls' = [calls EXCEPT ![i].at = "over"]
     \/ calls[i].told = "done" /\ Fails(i, calls[i].did)
     \/ calls[i].told # "done" /\ calls' = [calls EXCEPT ![i].at = "over", ![i].told = "nothing"]
  /\ UNCHANGED <<logVars, there, banned, rank, granted, warnings, changes>>

\* Others change the guild: a member leaves, is banned or comes back (the ban, if any, lifted), a
\* role is moved or its rights are.
GuildChanges ==
  /\ changes < MaxChanges /\ changes' = changes + 1
  /\ \E m \in Members :
       \/ m # Bot /\ there' = SymDiff(there, {m}) /\ banned' = banned \ {m} /\ UNCHANGED <<rank, granted>>
       \/ m # Bot /\ there' = there \ {m} /\ banned' = banned \cup {m} /\ UNCHANGED <<rank, granted>>
       \/ \E r \in Ranks \ {rank[m]} : rank' = [rank EXCEPT ![m] = r] /\ UNCHANGED <<there, banned, granted>>
       \/ granted' = SymDiff(granted, {m}) /\ UNCHANGED <<there, banned, rank>>
  /\ UNCHANGED <<logVars, calls, warnings>>

Command(i) ==
  \/ Begin(i) \/ Resolve(i)
  \/ Ban(i) \/ Kick(i) \/ Timeout(i) \/ Warn(i) \/ RemoveOrClear(i) \/ List(i) \/ Clean(i)
  \/ Answered(i) \/ Reply(i)

ModerationNext ==
  \/ \E i \in Calls : Command(i)
  \/ GuildChanges
  \/ LogNext /\ UNCHANGED guildVars
  \/ \E h \in Handlers \ Calls : GuildEvent(h) /\ UNCHANGED guildVars

ModerationSpec == ModerationInit /\ [][ModerationNext]_moderationVars

-----------------------------------------------------------------------------
(* Properties *)

\* What the log says a moderator did has been done: however commands race for the same member
\* or warning, fail or answer late, no act that changed nothing is posted, with one exception:
\* a ban of one already banned, which Discord accepts and BanCommand does not look for, so
\* that two moderators may both be said to have banned him.  And a bulk deletion is put down
\* to no one who may not have done it (NamedRight); the other posts carry their own event's
\* moderator.
LogTellsTruth ==
  /\ \A p \in posted : p.what \in Logged =>
       calls[p.of].did \in {"changed"} \cup IF p.what = "ban" THEN {"again"} ELSE {}
  /\ NamedRight

\* A moderator who reads that the act is done finds it in the log, or on its way there,
\* unless the log is off or failed to send it: the reply never overtakes the event.
DoneIsLogged ==
  \A i \in Calls :
    calls[i].kind \in Logged /\ calls[i].told = "done" => handlers[i].at # "idle"
=============================================================================
