---------------------------- MODULE ApiPipeline ----------------------------
(***************************************************************************)
(* The dashboard's HTTP API: a request is read, matched against the routes,  *)
(* validated and passed through the middlewares to its handler, and the      *)
(* answer goes back through those it had entered.  The rate limiter keeps    *)
(* the times of the requests it let through, per rule and address; the audit *)
(* trail records the refusals.  The two event streams never get there: the   *)
(* server answers them before the router.                                    *)
(*                                                                          *)
(* A request waits while its body is read, while its session is looked up    *)
(* and while its handler runs: other requests pass meanwhile.                *)
(***************************************************************************)
EXTENDS Naturals, Sequences, FiniteSets, FiniteSetsExt, SequencesExt

CONSTANTS
  Clients,       \* addresses; one request of each at a time
  Asks,          \* what they ask for: [method, path]
  Limit,         \* limit of the rules; they differ in the number only
  Window,        \* windowMs of the rules
  CleanupEvery,  \* cleanupIntervalMs of the limiter
  MaxTime,       \* bound on the clock
  MaxRequests    \* bound on the requests sent

ASSUME PipelineAssumption ==
  /\ Asks \subseteq [method : STRING, path : Seq(STRING)]
  /\ Limit \in Nat \ {0} /\ Window \in Nat \ {0}
  /\ CleanupEvery \in Nat /\ MaxTime \in Nat /\ MaxRequests \in Nat
\* The limiter is made with its default interval, as long as the windows of the rules.
ASSUME IntervalAssumption == Window <= CleanupEvery

VARIABLES
  now,
  buckets,      \* RateLimiter.buckets: [rule, ip] -> the requests let through: [nr, time]
  lastCleanup,
  req,          \* per address: the request under way
  passed,       \* per ask and address: the requests the limiter let go on (history)
  count,        \* per address: how many that were, which numbers them (history)
  answers,      \* how many answers were sent (history)
  last          \* of the last step: the answer it sent, whether it was a stream's, and
                \* the event the audit recorded

pipelineVars == <<now, buckets, lastCleanup, req, passed, count, answers, last>>

-----------------------------------------------------------------------------
(* Routes and rules *)

Params == {":id", ":guildId", ":moduleId"}

Endpoint(method, path, auth) == [method |-> method, path |-> path, auth |-> auth]

AuthEndpoints ==
  << Endpoint("GET", <<"auth", "login">>, "public"), Endpoint("GET", <<"auth", "callback">>, "public"),
     Endpoint("GET", <<"me">>, "public"), Endpoint("POST", <<"logout">>, "public") >>

CsrfEndpoints == << Endpoint("GET", <<"csrf">>, "authenticated") >>

ModuleEndpoints ==
  << Endpoint("GET", <<"modules">>, "public"), Endpoint("GET", <<"modules", ":id">>, "public"),
     Endpoint("GET", <<"modules", ":id", "settings">>, "public"),
     Endpoint("GET", <<"guilds", ":guildId", "modules">>, "guild_member"),
     Endpoint("GET", <<"guilds", ":guildId", "settings">>, "guild_member"),
     Endpoint("PATCH", <<"guilds", ":guildId", "settings">>, "guild_admin"),
     Endpoint("PATCH", <<"guilds", ":guildId", "modules", ":id">>, "guild_admin") >>

LogsEndpoints == << Endpoint("GET", <<"guilds", ":guildId", "logs">>, "guild_admin") >>

HealthEndpoint == Endpoint("GET", <<"system", "health">>, "public")

Routes == AuthEndpoints \o CsrfEndpoints \o ModuleEndpoints \o LogsEndpoints \o <<HealthEndpoint>>

\* register refuses a second route of one method and path; bootstrap then fails.
Register ==
  \A i, j \in DOMAIN Routes :
    Routes[i].method = Routes[j].method /\ Routes[i].path = Routes[j].path => i = j
ASSUME RoutesAssumption == Register

\* router.matchPath.
MatchesRoute(route, path) ==
  /\ Len(route) = Len(path)
  /\ \A i \in DOMAIN path : route[i] \in Params \/ route[i] = path[i]

None == Endpoint("none", <<>>, "none")

\* router.match: the first route that fits.
RouteOf(method, path) ==
  LET fits == {i \in DOMAIN Routes : Routes[i].method = method /\ MatchesRoute(Routes[i].path, path)}
  IN  IF fits = {} THEN None ELSE Routes[Min(fits)]

\* The paths of the log stream and of the stream of module states; the second is there
\* when the feature flag pluginDashboard is set.
Streams == {<<"guilds", ":guildId", "logs", "stream">>, <<"dashboard", "state", "stream">>}

IsStream(ask) == ask.method = "GET" /\ \E path \in Streams : MatchesRoute(path, ask.path)

Rule(name, method, path) == [name |-> name, method |-> method, path |-> path]

Rules ==
  << Rule("auth-login", "GET", <<"auth", "login">>), Rule("auth-callback", "GET", <<"auth", "callback">>),
     Rule("csrf", "GET", <<"csrf">>), Rule("me", "GET", <<"me">>), Rule("logout", "POST", <<"logout">>),
     Rule("config-write", "PATCH", <<"guilds", ":guildId", "settings">>),
     Rule("module-state-write", "PATCH", <<"guilds", ":guildId", "modules", ":moduleId">>),
     Rule("guild-post", "POST", <<"guilds", ":guildId", "*">>),
     Rule("guild-put", "PUT", <<"guilds", ":guildId", "*">>),
     Rule("guild-delete", "DELETE", <<"guilds", ":guildId", "*">>) >>

\* matchesPath of the rules, whose last segment may stand for any rest.
MatchesRule(pattern, path) ==
  LET open == Last(pattern) = "*"
      fixed == IF open THEN Front(pattern) ELSE pattern
  IN  /\ IF open THEN Len(path) > Len(fixed) ELSE Len(path) = Len(fixed)
      /\ \A i \in DOMAIN fixed : fixed[i] \in Params \/ fixed[i] = path[i]

RuleOf(method, path) ==
  LET fits == {i \in DOMAIN Rules : Rules[i].method = method /\ MatchesRule(Rules[i].path, path)}
  IN  IF fits = {} THEN "none" ELSE Rules[Min(fits)].name

\* toAPIRequest: a method the server does not support becomes a path no route has.
SupportedMethods == {"GET", "POST", "PUT", "PATCH", "DELETE"}

RouteOfRequest ==
  [ask \in Asks |-> IF ask.method \in SupportedMethods THEN RouteOf(ask.method, ask.path) ELSE None]

\* The rule the limiter finds for a request.
RuleOfRequest == [ask \in Asks |-> RuleOf(ask.method, ask.path)]

-----------------------------------------------------------------------------
(* The rate limiter *)

Keys == [rule : {Rules[i].name : i \in DOMAIN Rules}, ip : Clients]

\* Mutant: a bucket goes when its oldest entry is past the interval.
StaleByOldest(bucket) == bucket = {} \/ \E r \in bucket : r.time + CleanupEvery <= now

\* cleanup deletes a bucket whose newest entry is past the interval.
Stale(bucket) == \A r \in bucket : r.time + CleanupEvery <= now

Cleaned ==
  IF now - lastCleanup < CleanupEvery THEN buckets
  ELSE [k \in Keys |-> IF Stale(buckets[k]) THEN {} ELSE buckets[k]]

\* activeRequests.
Active(bucket) == {r \in bucket : r.time + Window > now}

Allowed(key) == Cardinality(Active(Cleaned[key])) < Limit

\* A request of an address the limiter lets go on now.
Pass(c) == [nr |-> count[c], time |-> now]

\* check, whose result is Allowed(key).
Checked(key) ==
  /\ buckets' = IF Allowed(key)
                THEN [Cleaned EXCEPT ![key] = Active(@) \cup {Pass(key.ip)}] ELSE Cleaned
  /\ lastCleanup' = IF now - lastCleanup < CleanupEvery THEN lastCleanup ELSE now

-----------------------------------------------------------------------------
(* Answers *)

\* auditEventForResponse.
EventOf(code) ==
  CASE code = "AUTH_REQUIRED"   -> "authentication_required"
    [] code = "INVALID_CSRF"    -> "csrf_validation_failure"
    [] code = "RATE_LIMITED"    -> "rate_limit_exceeded"
    [] code = "GUILD_NOT_FOUND" -> "unknown_guild_access_attempt"
    [] code = "FORBIDDEN"       -> "authorization_denied"
    [] OTHER                    -> "none"

\* Mutant: the limit is the outermost middleware.
LimitFirst == <<"limit", "headers", "audit", "session", "authorize", "csrf", "handler">>

\* The middlewares in the order bootstrap uses them, and the handler.
Pipeline == <<"headers", "audit", "limit", "session", "authorize", "csrf", "handler">>

\* The middlewares a request has entered when it gets to a stage.
Entered ==
  [stage \in Range(Pipeline) |->
     {Pipeline[i] : i \in {j \in DOMAIN Pipeline :
                             \E k \in DOMAIN Pipeline : j < k /\ Pipeline[k] = stage}}]

\* The answer a stage gives goes back through the middlewares entered before it; an
\* error that is thrown goes past them all to the router or the server.
Audited(code, stage) == IF "audit" \in Entered[stage] THEN EventOf(code) ELSE "none"

NoAsk == [method |-> "none", path |-> <<>>]
Idle == [at |-> "idle", ask |-> NoAsk]

Reply(code, event) == [code |-> code, event |-> event, stream |-> FALSE]

Silence == Reply("none", "none")

Respond(c, code, stage) ==
  /\ answers' = answers + 1
  /\ last' = Reply(code, Audited(code, stage))
  /\ req' = [req EXCEPT ![c] = Idle]

Throw(c, code) ==
  /\ answers' = answers + 1
  /\ last' = Reply(code, "none")
  /\ req' = [req EXCEPT ![c] = Idle]

\* The server opens a stream, or refuses it, and tells no audit trail.
ReplyStream(c, code) ==
  /\ answers' = answers + 1
  /\ last' = [Reply(code, "none") EXCEPT !.stream = TRUE]
  /\ req' = [req EXCEPT ![c] = Idle]

GoOn(c, at) ==
  /\ req' = [req EXCEPT ![c].at = at]
  /\ last' = Silence
  /\ UNCHANGED answers

-----------------------------------------------------------------------------
(* A request *)

PipelineInit ==
  /\ now = 0 /\ lastCleanup = 0
  /\ buckets = [k \in Keys |-> {}]
  /\ req = [c \in Clients |-> Idle]
  /\ passed = [a \in Asks |-> [c \in Clients |-> {}]]
  /\ count = [c \in Clients |-> 0]
  /\ answers = 0 /\ last = Silence

Send(c, ask) ==
  /\ req[c] = Idle
  /\ answers + Cardinality({d \in Clients : req[d] # Idle}) < MaxRequests
  /\ req' = [req EXCEPT ![c] = [at |-> "reading", ask |-> ask]]
  /\ last' = Silence
  /\ UNCHANGED <<now, buckets, lastCleanup, passed, count, answers>>

\* The body is too large or no JSON: the server answers.
BodyFails(c) ==
  /\ req[c].at = "reading" /\ ~IsStream(req[c].ask)
  /\ req[c].ask.method \in SupportedMethods \ {"GET"}
  /\ Throw(c, "INTERNAL_ERROR")
  /\ UNCHANGED <<now, buckets, lastCleanup, passed, count>>

\* No route, or a request that its schemas refuse: thrown before the middlewares.
Mismatch(c) ==
  /\ req[c].at = "reading" /\ ~IsStream(req[c].ask)
  /\ Throw(c, IF RouteOfRequest[req[c].ask] = None THEN "NOT_FOUND" ELSE "VALIDATION_ERROR")
  /\ UNCHANGED <<now, buckets, lastCleanup, passed, count>>

PublicPaths == {<<"auth", "login">>, <<"auth", "callback">>, <<"system", "health">>}

\* The session middleware up to its query.
AskForSession(c, cookie) ==
  LET route == RouteOfRequest[req[c].ask]
  IN  IF route.auth = "public" /\ route.path \in PublicPaths THEN GoOn(c, "handler")
      ELSE IF cookie THEN GoOn(c, "lookup")
      ELSE Respond(c, "AUTH_REQUIRED", "session")

\* The router's dispatch up to the first await: headers, audit, limit, session.
Dispatch(c, cookie) ==
  LET ask == req[c].ask
      rule == RuleOfRequest[ask]
      key == [rule |-> rule, ip |-> c]
  IN  /\ req[c].at = "reading" /\ ~IsStream(ask) /\ RouteOfRequest[ask] # None
      /\ IF rule = "none" THEN UNCHANGED <<buckets, lastCleanup>> ELSE Checked(key)
      /\ IF rule # "none" /\ ~Allowed(key)
         THEN Respond(c, "RATE_LIMITED", "limit") /\ UNCHANGED <<passed, count>>
         ELSE /\ passed' = [passed EXCEPT ![ask][c] = @ \cup {Pass(c)}]
              /\ count' = [count EXCEPT ![c] = @ + 1]
              /\ AskForSession(c, cookie)
      /\ UNCHANGED now

OfGuild(route) == \E i \in DOMAIN route.path : route.path[i] = ":guildId"

\* authorizeGuildRequest: what the guilds of the session's login say of the one asked for.
Authorize(rights) ==
  CASE rights = "stranger" -> "GUILD_NOT_FOUND"
    [] rights = "member"   -> "FORBIDDEN"
    [] OTHER               -> "OK"

SafeMethods == {"GET", "HEAD", "OPTIONS"}

\* The rest of the pipeline, once the session is there.
Admit(c, rights, token) ==
  LET route == RouteOfRequest[req[c].ask]
      ruling == IF OfGuild(route) THEN Authorize(rights) ELSE "OK"
  IN  CASE ruling # "OK" -> Respond(c, ruling, "authorize")
        [] ruling = "OK" /\ route.method \notin SafeMethods /\ ~token -> Respond(c, "INVALID_CSRF", "csrf")
        [] OTHER -> GoOn(c, "handler")

Lookup(c) ==
  /\ req[c].at = "lookup"
  /\ \/ Throw(c, "INTERNAL_ERROR")
     \/ Respond(c, "AUTH_REQUIRED", "session")
     \/ \E rights \in {"stranger", "member", "manager"}, token \in BOOLEAN : Admit(c, rights, token)
  /\ UNCHANGED <<now, buckets, lastCleanup, passed, count>>

\* What the handlers answer: a setting out of bounds is a VALIDATION_ERROR, and a token
\* for a session that has gone meanwhile AUTH_REQUIRED.
HandlerCodes == {"OK", "NOT_FOUND", "CONFLICT", "VALIDATION_ERROR", "AUTH_REQUIRED"}

\* The handler answers, or throws.
Finish(c) ==
  /\ req[c].at = "handler"
  /\ \/ \E code \in HandlerCodes : Respond(c, code, "handler")
     \/ Throw(c, "INTERNAL_ERROR")
  /\ UNCHANGED <<now, buckets, lastCleanup, passed, count>>

\* A stream is asked for: without a cookie it is refused at once.
AskForStream(c, cookie) ==
  /\ req[c].at = "reading" /\ IsStream(req[c].ask)
  /\ IF cookie THEN GoOn(c, "stream") ELSE ReplyStream(c, "AUTH_REQUIRED")
  /\ UNCHANGED <<now, buckets, lastCleanup, passed, count>>

\* The log stream takes the rights of the guild's requests; for the module states it is
\* enough that the login knows the guild.
StreamRuling(ask, rights) ==
  IF Head(ask.path) = "guilds" THEN Authorize(rights)
  ELSE IF rights = "stranger" THEN "FORBIDDEN" ELSE "OK"

\* Its session is looked up: there is none, or its guilds decide.
StreamLookup(c) ==
  /\ req[c].at = "stream"
  /\ \/ Throw(c, "INTERNAL_ERROR")
     \/ ReplyStream(c, "AUTH_REQUIRED")
     \/ \E rights \in {"stranger", "member", "manager"} :
          ReplyStream(c, StreamRuling(req[c].ask, rights))
  /\ UNCHANGED <<now, buckets, lastCleanup, passed, count>>

Tick ==
  /\ now < MaxTime
  /\ now' = now + 1
  /\ last' = Silence
  /\ UNCHANGED <<buckets, lastCleanup, req, passed, count, answers>>

PipelineNext ==
  \/ \E c \in Clients : \/ \E ask \in Asks : Send(c, ask)
                        \/ BodyFails(c) \/ Mismatch(c)
                        \/ \E cookie \in BOOLEAN : Dispatch(c, cookie)
                        \/ Lookup(c) \/ Finish(c)
                        \/ \E cookie \in BOOLEAN : AskForStream(c, cookie)
                        \/ StreamLookup(c)
  \/ Tick

PipelineSpec == PipelineInit /\ [][PipelineNext]_pipelineVars

-----------------------------------------------------------------------------
(* Properties *)

\* The requests of an address that went through under the rule of an ask.
Admitted(ask, c) ==
  UNION {passed[a][c] : a \in {b \in Asks : RuleOfRequest[b] = RuleOfRequest[ask]}}

Within(requests, first, length) ==
  {r \in requests : first <= r.time /\ r.time < first + length}

\* Logins, state-changing requests and session requests.
Limited ==
  {ask \in Asks : /\ RouteOfRequest[ask] # None
                  /\ ask.method # "GET" \/ ask.path[1] \in {"auth", "me", "csrf"}}

\* No address gets more than the limit of limited requests past the limiter in any window
\* of its length, wherever the window starts, whatever the cleanup deleted
\* (RateLimiter.check, dashboardRateLimitRules).
WindowKept ==
  \A ask \in Limited, c \in Clients, first \in 0 .. now :
    Cardinality(Within(Admitted(ask, c), first, Window)) <= Limit

\* The limit is exact: no request that goes through gives a window more, and a client is turned away only while as many
\* of its own requests as the limit allows went through under the same rule in the window
\* that ends now, so that neither refused requests nor those of another rule or address
\* count against it (RateLimiter.check).
LimiterExact ==
  [][/\ passed' # passed => WindowKept'
     /\ last'.code = "RATE_LIMITED" =>
          \E c \in Clients :
            /\ req[c].at = "reading" /\ req'[c] = Idle
            /\ Cardinality(Active(Admitted(req[c].ask, c))) >= Limit]_pipelineVars

\* Whatever the pipeline refuses, middleware or handler, the audit trail names the
\* refusal that was sent, and nothing else is put down as one.  What is refused of the
\* two streams is in no trail: the server answers them before the pipeline
\* (createSecurityAuditMiddleware, server.ts:64,111-123,167-175).
RefusalsAudited == last.event = IF last.stream THEN "none" ELSE EventOf(last.code)
=============================================================================
