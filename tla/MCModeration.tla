---------------------------- MODULE MCModeration ----------------------------
(* Two commands, or one and an event of the guild, and one thing besides. *)
EXTENDS Moderation, TLC

CONSTANTS c1, c2, event, ann, bob, bot, general, random

MCChanges == {"role added", "avatar"}
AllKinds == Logged \cup {"warnings", "clean"}
MCRank == (ann :> 1) @@ (bob :> 2) @@ (bot :> 2)

\* Bound: two of the commands and the event, and one of a change of the guild, the passing
\* of time and the end of the log.  The guild changes beside commands only, which alone look
\* at it; time passes beside cleaning and deletions in bulk, which alone look at the clock, and
\* these happen early enough for the log to be read after them.
One(happened) == IF happened THEN 1 ELSE 0
FewThings ==
  /\ One(calls[c1].at # "idle") + One(calls[c2].at # "idle") + One(handlers[event].at # "idle") <= 2
  /\ changes + One(now > 0) + One(~active) <= 1
  /\ changes > 0 => handlers[event].at = "idle"
  /\ now > 0 => /\ \A i \in Calls : calls[i].kind \in {"none", "clean"}
                /\ handlers[event].at = "idle" \/ handlers[event].deletion # <<>>
  /\ \A a \in audit : a.entry.time <= 1

Symmetry == Permutations({c1, c2}) \cup Permutations({general, random})
=============================================================================
