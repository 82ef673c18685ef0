------------------------------ MODULE Sessions ------------------------------
(***************************************************************************)
(* Dashboard sessions: the Discord login with its one-time states, the rows  *)
(* of auth_sessions with the CSRF token in their metadata, the middlewares   *)
(* that admit a request, the logout and the hourly cleanup.  One user works  *)
(* in several tabs of one browser: the tabs share the cookie, each holds its *)
(* own CSRF token.  A database call fails, or the process restarts, at most  *)
(* MaxFaults times; a restart loses the login states, not the sessions.      *)
(*                                                                          *)
(* A query is one step and the code that uses its answer another; the code   *)
(* between two awaits is one action.                                         *)
(***************************************************************************)
EXTENDS Naturals, FiniteSets

CONSTANTS
  Tabs,        \* one request or navigation of each at a time
  MaxLogins,   \* bound on the login states drawn
  MaxTokens,   \* bound on the CSRF tokens drawn
  MaxTime,     \* bound on the clock
  StateTtl,    \* ttlMs of the OAuthStateService
  Duration,    \* session.durationMs, also the life of a CSRF token
  MaxFaults,   \* bound on failing queries and restarts
  Rights       \* what the guild list of a login may say of the one guild of the model

ASSUME SessionsAssumption ==
  /\ MaxLogins \in Nat /\ MaxTokens \in Nat /\ MaxTime \in Nat /\ MaxFaults \in Nat
  /\ StateTtl \in Nat \ {0} /\ Duration \in Nat \ {0}
  /\ Rights \subseteq {"absent", "none", "manager", "botowner"}

Sessions == 1 .. MaxLogins + 1   \* room for one more than there are logins
Tokens == 0 .. MaxTokens   \* 0: no token
NoRow == [until |-> 0, revoked |-> FALSE, token |-> 0, guilds |-> "absent"]

VARIABLES
  now,
  states,  \* OAuthStateService.states, as a function from the drawn values to their expiry
  drawn,   \* how many login states and how many CSRF tokens have been drawn
  rows,    \* auth_sessions; NoRow: no such row
  login,   \* the login state and the first token of each session (history)
  cookie,  \* the browser's session cookie, 0 without one
  page,    \* per tab: its CSRF token, and whether /me listed the guild
  req,     \* per tab: the request under way
  faults

vars == <<now, states, drawn, rows, login, cookie, page, req, faults>>

\* kind and at: the request and the step it waits for; sid and token: what it carries;
\* rec: the row its last query returned; late: sent for a session already dead (history).
Idle == [kind |-> "none", at |-> "idle", sid |-> 0, token |-> 0, rec |-> NoRow, late |-> FALSE]

Init ==
  /\ now = 0
  /\ states = [o \in {} |-> 0]
  /\ drawn = [states |-> 0, tokens |-> 0]
  /\ rows = [s \in Sessions |-> NoRow]
  /\ login = [s \in Sessions |-> [state |-> 0, token |-> 0]]
  /\ cookie = 0
  /\ page = [t \in Tabs |-> [token |-> 0, listed |-> FALSE]]
  /\ req = [t \in Tabs |-> Idle]
  /\ faults = 0

-----------------------------------------------------------------------------
(* Rows and tokens *)

Live(row) == row # NoRow /\ ~row.revoked /\ row.until > now

\* getSessionRecord on the row a query returned.
SessionRecord(row) == Live(row)

\* Mutant: the stored token is not looked for.
AlwaysFresh(row) == 0

\* readToken.  The token of a session expires with it; whether the session is revoked
\* is not looked at here.
ReadToken(row) == IF row.until > now THEN row.token ELSE 0

\* validate.
ValidCsrf(row, token) == token # 0 /\ ReadToken(row) = token

\* attachToMetadata and invalidateMetadata.
WithToken(row, token) == [row EXCEPT !.token = token]

\* updateMetadata writes the whole metadata over a row that is not revoked.
UpdateMetadata(s, row) ==
  IF rows[s] = NoRow \/ rows[s].revoked THEN rows
  ELSE [rows EXCEPT ![s].token = row.token, ![s].guilds = row.guilds]

Dead(s) == login[s].state # 0 /\ ~Live(rows[s])

-----------------------------------------------------------------------------
(* Authorization.  The user's guilds are those of the login, the bot's are    *)
(* those it is in now; a bot owner needs no authority of his own.             *)

\* resolveGuild.
ResolveGuild(guilds, botIn) == [inUserGuild |-> guilds # "absent", inBotGuild |-> botIn]

\* resolveGuildPermission: owner, administrator or manager of the guild.
GuildPermission(guilds) == guilds = "manager"

OwnerOverride(guilds) == guilds = "botowner"

\* evaluateGuild.
CanAccessGuild(guilds, botIn) ==
  LET resolution == ResolveGuild(guilds, botIn)
  IN \/ OwnerOverride(guilds)
     \/ resolution.inBotGuild /\ resolution.inUserGuild /\ GuildPermission(guilds)

\* The guild must be on the list of the login, whoever asks.
AuthorizeGuildRequest(row, botIn) == row.guilds # "absent" /\ CanAccessGuild(row.guilds, botIn)

\* evaluateGuildEligibility: /me lists the guilds the bot is in.
Eligible(row, botIn) ==
  /\ row.guilds # "absent"
  /\ ResolveGuild(row.guilds, botIn).inBotGuild
  /\ CanAccessGuild(row.guilds, botIn)

\* resolveMe, for a browser that has a cookie.
Me(row, botIn) ==
  IF SessionRecord(row) THEN [authenticated |-> TRUE, listed |-> Eligible(row, botIn)]
  ELSE [authenticated |-> FALSE, listed |-> FALSE]

-----------------------------------------------------------------------------
(* Login *)

Purged == [o \in {x \in DOMAIN states : states[x] > now} |-> states[o]]

Login(t) ==
  /\ req[t] = Idle /\ drawn.states < MaxLogins
  /\ drawn' = [drawn EXCEPT !.states = @ + 1]
  /\ states' = [o \in DOMAIN Purged \cup {drawn'.states} |->
                  IF o = drawn'.states THEN now + StateTtl ELSE states[o]]
  /\ UNCHANGED <<now, rows, login, cookie, page, req, faults>>

\* Mutant: a state stays good until it expires.
KeepState(o) == states

Without(o) == [x \in DOMAIN states \ {o} |-> states[x]]

\* Discord sends the browser back, once or, when the page is loaded again, more often.
Callback(t, o) ==
  /\ req[t] = Idle /\ o \in 1 .. drawn.states
  /\ states' = Without(o)
  /\ req' = IF o \in DOMAIN states /\ states[o] > now
            THEN [req EXCEPT ![t] = [Idle EXCEPT !.kind = "callback", !.at = "insert", !.sid = o]]
            ELSE req
  /\ UNCHANGED <<now, drawn, rows, login, cookie, page, faults>>

\* Discord refuses the code, or cannot be asked for the user: the state is spent and no
\* session is made.
CodeRefused(t) ==
  /\ req[t].at = "insert"
  /\ req' = [req EXCEPT ![t] = Idle]
  /\ UNCHANGED <<now, states, drawn, rows, login, cookie, page, faults>>

\* An id already taken is drawn again: a new session has an id of its own.
FreshId(s) == login[s].state = 0 /\ \A r \in Sessions : r < s => login[r].state # 0

\* create: the row with the guilds of the login and its first CSRF token.
Inserted(s, guilds, token) ==
  [rows EXCEPT ![s] = WithToken([until |-> now + Duration, revoked |-> FALSE,
                                 token |-> 0, guilds |-> guilds], token)]

\* Discord takes the code and names the user's guilds, and the row is inserted.
CreateSession(t, guilds) ==
  /\ req[t].at = "insert" /\ drawn.tokens < MaxTokens
  /\ \E s \in Sessions :
       /\ FreshId(s)
       /\ drawn' = [drawn EXCEPT !.tokens = @ + 1]
       /\ rows' = Inserted(s, guilds, drawn'.tokens)
       /\ login' = [login EXCEPT ![s] = [state |-> req[t].sid, token |-> drawn'.tokens]]
       /\ req' = [req EXCEPT ![t] = [Idle EXCEPT !.kind = "callback", !.at = "answer", !.sid = s]]
  /\ UNCHANGED <<now, states, cookie, page, faults>>

-----------------------------------------------------------------------------
(* Requests with a session *)

Sent(kind, t) == [Idle EXCEPT !.kind = kind, !.at = "lookup", !.sid = cookie,
                              !.token = page[t].token, !.late = Dead(cookie)]

\* The page is loaded: bootstrapSession asks for /me, which writes nothing and is one
\* step here, and then, authenticated, for /csrf.
Load(t, botIn) ==
  /\ req[t] = Idle /\ cookie # 0
  /\ LET me == Me(rows[cookie], botIn)
     IN /\ page' = [page EXCEPT ![t] = [token |-> 0, listed |-> me.listed]]
        /\ req' = IF me.authenticated THEN [req EXCEPT ![t] = [Sent("csrf", t) EXCEPT !.token = 0]]
                  ELSE req
  /\ UNCHANGED <<now, states, drawn, rows, login, cookie, faults>>

\* A loaded page, which has its token, writes or signs out.
Write(t) ==
  /\ req[t] = Idle /\ cookie # 0 /\ page[t].token # 0 /\ page[t].listed
  /\ req' = [req EXCEPT ![t] = Sent("write", t)]
  /\ UNCHANGED <<now, states, drawn, rows, login, cookie, page, faults>>

SignOut(t) ==
  /\ req[t] = Idle /\ cookie # 0 /\ page[t].token # 0
  /\ req' = [req EXCEPT ![t] = Sent("logout", t)]
  /\ UNCHANGED <<now, states, drawn, rows, login, cookie, page, faults>>

\* The query of the session middleware.
Find(t) ==
  /\ req[t].at = "lookup"
  /\ req' = [req EXCEPT ![t].rec = rows[req[t].sid], ![t].at = "found"]
  /\ UNCHANGED <<now, states, drawn, rows, login, cookie, page, faults>>

\* What the tab makes of an answer that ends its request: a sign-out drops the token
\* whatever the answer was.
Refused(t) ==
  /\ req' = [req EXCEPT ![t] = Idle]
  /\ page' = IF req[t].kind = "logout" THEN [page EXCEPT ![t].token = 0] ELSE page

\* The middlewares.  Only a path with a guild is authorized; only a request that may
\* change something needs a token.
SessionAuth(t) == SessionRecord(req[t].rec)

GuildAuth(t, botIn) == req[t].kind = "write" => AuthorizeGuildRequest(req[t].rec, botIn)

CsrfAuth(t) == req[t].kind \in {"write", "logout"} => ValidCsrf(req[t].rec, req[t].token)

Middlewares(t, botIn) ==
  /\ req[t].at = "found"
  /\ IF SessionAuth(t) /\ GuildAuth(t, botIn) /\ CsrfAuth(t)
     THEN /\ req' = [req EXCEPT ![t].at = CASE req[t].kind = "logout" -> "again"
                                            [] req[t].kind = "csrf"  -> "csrf"
                                            [] req[t].kind = "write" -> "running",
                                ![t].rec = IF req[t].kind = "csrf" THEN @ ELSE NoRow,
                                ![t].token = 0]
          /\ UNCHANGED page
     ELSE Refused(t)
  /\ UNCHANGED <<now, states, drawn, rows, login, cookie, faults>>

WriteEnds(t) ==
  /\ req[t].at = "running"
  /\ req' = [req EXCEPT ![t] = Idle]
  /\ UNCHANGED <<now, states, drawn, rows, login, cookie, page, faults>>

\* Mutant: a session without a token is refused.
CsrfStoredOnly(t) ==
  /\ req[t].at = "csrf"
  /\ IF ReadToken(req[t].rec) # 0
     THEN /\ req' = [req EXCEPT ![t].token = ReadToken(req[t].rec), ![t].at = "answer",
                                ![t].rec = NoRow]
          /\ UNCHANGED page
     ELSE Refused(t)
  /\ UNCHANGED <<now, states, drawn, rows, login, cookie, faults>>

\* getCsrfToken: the stored token, or a new one that is stored first.
Csrf(t) ==
  /\ req[t].at = "csrf"
  /\ IF ReadToken(req[t].rec) # 0
     THEN /\ req' = [req EXCEPT ![t].token = ReadToken(req[t].rec), ![t].at = "answer",
                                ![t].rec = NoRow]
          /\ UNCHANGED drawn
     ELSE /\ drawn.tokens < MaxTokens
          /\ drawn' = [drawn EXCEPT !.tokens = @ + 1]
          /\ req' = [req EXCEPT ![t].rec = WithToken(@, drawn'.tokens), ![t].at = "store"]
  /\ UNCHANGED <<now, states, rows, login, cookie, page, faults>>

StoreToken(t) ==
  /\ req[t].at = "store"
  /\ rows' = UpdateMetadata(req[t].sid, req[t].rec)
  /\ IF Live(rows'[req[t].sid])
     THEN /\ req' = [req EXCEPT ![t].token = req[t].rec.token, ![t].at = "answer",
                                ![t].rec = NoRow]
          /\ UNCHANGED page
     ELSE Refused(t)
  /\ UNCHANGED <<now, states, drawn, login, cookie, faults>>

-----------------------------------------------------------------------------
(* Logout: the token is removed from the metadata, then the session revoked   *)

LogoutReads(t) ==
  /\ req[t].at = "again"
  /\ req' = IF SessionRecord(rows[req[t].sid])
            THEN [req EXCEPT ![t].at = "strip", ![t].rec = rows[req[t].sid]]
            ELSE [req EXCEPT ![t].at = "revoke"]
  /\ UNCHANGED <<now, states, drawn, rows, login, cookie, page, faults>>

StripToken(t) ==
  /\ req[t].at = "strip"
  /\ rows' = UpdateMetadata(req[t].sid, WithToken(req[t].rec, 0))
  /\ req' = [req EXCEPT ![t].at = "revoke", ![t].rec = NoRow]
  /\ UNCHANGED <<now, states, drawn, login, cookie, page, faults>>

Revoke(s) == IF rows[s] = NoRow THEN rows ELSE [rows EXCEPT ![s].revoked = TRUE]

RevokeSession(t) ==
  /\ req[t].at = "revoke"
  /\ rows' = Revoke(req[t].sid)
  /\ req' = [req EXCEPT ![t].at = "answer"]
  /\ UNCHANGED <<now, states, drawn, login, cookie, page, faults>>

\* The answer reaches the browser: a login sets the cookie, a logout clears it
\* (whichever session it holds by then), /csrf gives the page its token.
Answer(t) ==
  /\ req[t].at = "answer"
  /\ cookie' = CASE req[t].kind = "callback" -> req[t].sid
                 [] req[t].kind = "logout" -> 0
                 [] OTHER -> cookie
  /\ page' = CASE req[t].kind = "csrf" -> [page EXCEPT ![t].token = req[t].token]
               [] req[t].kind = "logout" -> [page EXCEPT ![t].token = 0]
               [] OTHER -> page
  /\ req' = [req EXCEPT ![t] = Idle]
  /\ UNCHANGED <<now, states, drawn, rows, login, faults>>

-----------------------------------------------------------------------------
(* Cleanup, faults and time *)

Deletable(row) == row.revoked \/ row.until <= now

Cleanup ==
  /\ \E s \in Sessions : rows[s] # NoRow /\ Deletable(rows[s])
  /\ rows' = [s \in Sessions |-> IF Deletable(rows[s]) THEN NoRow ELSE rows[s]]
  /\ UNCHANGED <<now, states, drawn, login, cookie, page, req, faults>>

\* A query fails: the request is answered with an error.
QueryFails(t) ==
  /\ faults < MaxFaults
  /\ req[t].at \in {"insert", "lookup", "again", "store", "strip", "revoke"}
  /\ faults' = faults + 1
  /\ Refused(t)
  /\ UNCHANGED <<now, states, drawn, rows, login, cookie>>

Restart ==
  /\ faults < MaxFaults
  /\ faults' = faults + 1
  /\ states' = [o \in {} |-> 0]
  /\ req' = [t \in Tabs |-> Idle]
  /\ page' = [t \in Tabs |-> IF req[t].kind = "logout" THEN [page[t] EXCEPT !.token = 0] ELSE page[t]]
  /\ UNCHANGED <<now, drawn, rows, login, cookie>>

Tick ==
  /\ now < MaxTime
  /\ now' = now + 1
  /\ UNCHANGED <<states, drawn, rows, login, cookie, page, req, faults>>

Steps(t) ==
  \/ CodeRefused(t) \/ \E guilds \in Rights : CreateSession(t, guilds)
  \/ Find(t) \/ \E botIn \in BOOLEAN : Middlewares(t, botIn)
  \/ WriteEnds(t) \/ Csrf(t) \/ StoreToken(t)
  \/ LogoutReads(t) \/ StripToken(t) \/ RevokeSession(t) \/ Answer(t)

Next ==
  \/ \E t \in Tabs : \/ Login(t) \/ Write(t) \/ SignOut(t)
                     \/ Steps(t) \/ QueryFails(t)
                     \/ \E botIn \in BOOLEAN : Load(t, botIn)
                     \/ \E o \in 1 .. MaxLogins : Callback(t, o)
  \/ Cleanup \/ Restart \/ Tick

\* A request goes on; the cleanup timer fires; and a user who wants out loads the page
\* and signs out again while it still finds him signed in.
Fairness ==
  /\ \A t \in Tabs : WF_vars(Steps(t)) /\ SF_vars(\E botIn \in BOOLEAN : Load(t, botIn)) /\ SF_vars(SignOut(t))
  /\ WF_vars(Cleanup)

Spec == Init /\ [][Next]_vars /\ Fairness

-----------------------------------------------------------------------------
(* Properties *)

\* One login state, one session: a callback that is loaded again, in another tab or
\* after a restart, creates no second session; and a write sent after its session was
\* logged out, expired or deleted is never handled, whatever the tabs and the cleanup
\* were doing (OAuthStateService.consumeState, createSessionAuthMiddleware).
OneSessionPerLogin ==
  /\ \A r, s \in Sessions : login[r].state # 0 /\ login[r].state = login[s].state => r = s
  /\ \A t \in Tabs : req[t].at = "running" => ~req[t].late

\* A live session keeps the guilds of its login through every rewrite of its metadata
\* by /csrf and /logout, and the token of its login until a sign-out removes it, so that
\* the pages loaded with it go on working (attachToMetadata, getCsrfToken).
MetadataKept ==
  [][\A s \in Sessions :
       Live(rows[s]) /\ Live(rows[s])' =>
         /\ rows'[s].guilds = rows[s].guilds
         /\ rows[s].token = login[s].token /\ rows'[s].token # rows[s].token =>
              \E t \in Tabs : req[t].at = "strip" /\ req[t].sid = s /\ rows'[s].token = 0]_vars

\* A user who goes on signing out gets out, although a query or the process may fail
\* between the two writes of a logout and other tabs ask for tokens meanwhile; and the
\* rows of dead sessions do not stay (SessionCleanupScheduler).
SignOutEnds ==
  \A s \in Sessions : /\ cookie = s ~> (Dead(s) \/ cookie # s)
                      /\ Dead(s) ~> rows[s] = NoRow
=============================================================================
