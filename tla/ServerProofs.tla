------------------------- MODULE ServerProofs -------------------------
(***************************************************************************)
(* Proofs about the process and its administration: the API pipeline          *)
(* (ApiPipeline), for any addresses, asks, limits and windows; the dashboard   *)
(* (Dashboard), for any guilds, loads and saves; the settings it shows           *)
(* (SettingRules), for any numbers and texts; what the startup makes of any     *)
(* catalog of plugins (PluginCatalog); and the life of the process (Bootstrap), *)
(* for any setups, connections, signals and crashes.                           *)
(***************************************************************************)
EXTENDS ApiPipeline, Dashboard, Bootstrap, DataLemmas, FiniteSetTheorems, SequenceTheorems

-----------------------------------------------------------------------------
(***************************************************************************)
(* The API pipeline                                                          *)
(***************************************************************************)

-----------------------------------------------------------------------------
(* Routes and rules *)

\* The audit comes before every middleware that refuses, and before the handler.
LEMMA AuditFirst ==
  ASSUME NEW stage \in {"limit", "session", "authorize", "csrf", "handler"}
  PROVE  "audit" \in Entered[stage]
<1>1. /\ DOMAIN Pipeline = 1..7
      /\ Pipeline[2] = "audit" /\ Pipeline[3] = "limit" /\ Pipeline[4] = "session"
      /\ Pipeline[5] = "authorize" /\ Pipeline[6] = "csrf" /\ Pipeline[7] = "handler"
  BY DEF Pipeline
<1>2. \E k \in DOMAIN Pipeline : 2 < k /\ Pipeline[k] = stage
  BY <1>1
<1>3. stage \in Range(Pipeline)
  BY <1>2 DEF Range
<1> QED BY <1>1, <1>2, <1>3 DEF Entered

\* What a step sends and what the audit trail keeps of it.
LEMMA RespondAudited ==
  ASSUME NEW c, NEW code, NEW stage \in {"limit", "session", "authorize", "csrf", "handler"},
         Respond(c, code, stage)
  PROVE  RefusalsAudited'
BY AuditFirst DEF Respond, Audited, RefusalsAudited, Reply

LEMMA ThrowAudited ==
  ASSUME NEW c, NEW code \in {"INTERNAL_ERROR", "NOT_FOUND", "VALIDATION_ERROR"}, Throw(c, code)
  PROVE  RefusalsAudited'
BY DEF Throw, RefusalsAudited, EventOf, Reply

LEMMA StreamAudited ==
  ASSUME NEW c, NEW code, ReplyStream(c, code)
  PROVE  RefusalsAudited'
<1>1. last' = [Reply(code, "none") EXCEPT !.stream = TRUE]
  BY DEF ReplyStream
<1> QED BY <1>1 DEF RefusalsAudited, Reply

LEMMA SilenceAudited ==
  ASSUME last' = Silence
  PROVE  RefusalsAudited'
BY DEF Silence, RefusalsAudited, EventOf, Reply

LEMMA AuditedInitially == PipelineInit => RefusalsAudited
BY DEF PipelineInit, Silence, RefusalsAudited, EventOf, Reply

LEMMA AuditedStep == RefusalsAudited /\ [PipelineNext]_pipelineVars => RefusalsAudited'
<1> SUFFICES ASSUME RefusalsAudited, [PipelineNext]_pipelineVars PROVE RefusalsAudited'
  OBVIOUS
<1>1. ASSUME NEW c \in Clients, NEW ask \in Asks, Send(c, ask) PROVE RefusalsAudited'
  BY <1>1, SilenceAudited DEF Send
<1>2. ASSUME NEW c \in Clients, BodyFails(c) \/ Mismatch(c) PROVE RefusalsAudited'
  BY <1>2, ThrowAudited DEF BodyFails, Mismatch
<1>3. ASSUME NEW c \in Clients, NEW cookie \in BOOLEAN, Dispatch(c, cookie) PROVE RefusalsAudited'
  <2>1. ASSUME AskForSession(c, cookie) PROVE RefusalsAudited'
    BY <2>1, RespondAudited, SilenceAudited DEF AskForSession, GoOn
  <2> QED BY <1>3, <2>1, RespondAudited DEF Dispatch
<1>4. ASSUME NEW c \in Clients, Lookup(c) PROVE RefusalsAudited'
  <2>1. ASSUME NEW rights, NEW token, Admit(c, rights, token) PROVE RefusalsAudited'
    BY <2>1, RespondAudited, SilenceAudited DEF Admit, GoOn
  <2> QED BY <1>4, <2>1, RespondAudited, ThrowAudited DEF Lookup
<1>5. ASSUME NEW c \in Clients, Finish(c) PROVE RefusalsAudited'
  BY <1>5, RespondAudited, ThrowAudited DEF Finish
<1>6. CASE Tick
  BY <1>6, SilenceAudited DEF Tick
<1>7. CASE UNCHANGED pipelineVars
  BY <1>7 DEF pipelineVars, RefusalsAudited
<1>8. ASSUME NEW c \in Clients, NEW cookie \in BOOLEAN, AskForStream(c, cookie)
      PROVE  RefusalsAudited'
  BY <1>8, StreamAudited, SilenceAudited DEF AskForStream, GoOn
<1>9. ASSUME NEW c \in Clients, StreamLookup(c) PROVE RefusalsAudited'
  BY <1>9, StreamAudited, ThrowAudited DEF StreamLookup
<1> QED BY <1>1, <1>2, <1>3, <1>4, <1>5, <1>6, <1>7, <1>8, <1>9 DEF PipelineNext

\* Whatever the pipeline refuses, the trail has the refusal that was sent; it has none of
\* the streams' (security-audit.middleware.ts:8-53, bootstrap.ts:329-334, server.ts:64).
THEOREM AuditTrail == PipelineSpec => []RefusalsAudited
BY AuditedInitially, AuditedStep, PTL DEF PipelineSpec

-----------------------------------------------------------------------------
(* The rate limiter *)

Stamps == [nr : Nat, time : Nat]
KeyOf(ask, c) == [rule |-> RuleOfRequest[ask], ip |-> c]

LimiterTypes ==
  /\ now \in Nat /\ lastCleanup \in Nat
  /\ count \in [Clients -> Nat]
  /\ buckets \in [Keys -> SUBSET Stamps]
  /\ passed \in [Asks -> [Clients -> SUBSET Stamps]]
  /\ req \in [Clients -> [at : {"idle", "reading", "lookup", "handler", "stream"}, ask : Asks \cup {NoAsk}]]
  /\ \A c \in Clients : req[c].at = "reading" => req[c].ask \in Asks

\* The requests that went through have numbers of their own and lie in the past.
Numbered ==
  \A a \in Asks, c \in Clients : \A r \in passed[a][c] : r.nr < count[c] /\ r.time <= now

\* A bucket holds requests of its address that went through under its rule.
BucketsTrue ==
  \A k \in Keys : \A r \in buckets[k] :
    \E a \in Asks : RuleOfRequest[a] = k.rule /\ r \in passed[a][k.ip]

\* It holds all of those that still count.
RecentKept ==
  \A a \in Asks, c \in Clients : RuleOfRequest[a] # "none" =>
    Active(passed[a][c]) \subseteq buckets[KeyOf(a, c)]

LimiterInv == LimiterTypes /\ Numbered /\ BucketsTrue /\ RecentKept /\ WindowKept

\* What went through under a rule: finite, stamped, in the past.
LEMMA AdmittedFinite ==
  ASSUME LimiterTypes, Numbered, NEW ask \in Asks, NEW c \in Clients
  PROVE  /\ IsFiniteSet(Admitted(ask, c)) /\ Admitted(ask, c) \subseteq Stamps
         /\ \A r \in Admitted(ask, c) : r.nr < count[c] /\ r.time <= now
<1> DEFINE A == Admitted(ask, c)
           T == (0 .. count[c]) \X (0 .. now)
           f == [r \in A |-> <<r.nr, r.time>>]
<1>1. /\ A \subseteq Stamps
      /\ \A r \in A : r.nr < count[c] /\ r.time <= now
  BY DEF Admitted, LimiterTypes, Numbered
<1>2. count[c] \in Nat /\ now \in Nat
  BY DEF LimiterTypes
<1>3. IsFiniteSet(T)
  <2>1. IsFiniteSet(0 .. count[c]) /\ IsFiniteSet(0 .. now)
    BY <1>2, FS_Interval
  <2> QED BY <2>1, FS_Product
<1>4. f \in Injection(A, T)
  <2>1. f \in [A -> T]
    BY <1>1, <1>2 DEF Stamps
  <2>2. \A r, q \in A : f[r] = f[q] => r = q
    BY <1>1 DEF Stamps
  <2> QED BY <2>1, <2>2 DEF Injection, IsInjective
<1> HIDE DEF A, T, f
<1>5. IsFiniteSet(A)
  BY <1>3, <1>4, FS_Injection
<1> QED BY <1>1, <1>5 DEF A

LEMMA FiniteParts ==
  ASSUME NEW S, IsFiniteSet(S), NEW T, T \subseteq S
  PROVE  /\ IsFiniteSet(T) /\ Cardinality(T) \in Nat /\ Cardinality(S) \in Nat
         /\ Cardinality(T) <= Cardinality(S)
BY FS_Subset, FS_CardinalityType

\* A rule that was found is one of the rules.
LEMMA RuleKnown ==
  ASSUME NEW ask \in Asks, NEW c \in Clients, RuleOfRequest[ask] # "none"
  PROVE  KeyOf(ask, c) \in Keys
<1> DEFINE fits == {i \in DOMAIN Rules : Rules[i].method = ask.method /\ MatchesRule(Rules[i].path, ask.path)}
<1>1. fits # {} /\ RuleOfRequest[ask] = Rules[Min(fits)].name
  BY DEF RuleOfRequest, RuleOf
<1>2. DOMAIN Rules = 1 .. 10
  BY DEF Rules
<1>3. Min(fits) \in DOMAIN Rules
  <2>1. fits \in SUBSET Nat /\ fits \subseteq DOMAIN Rules
    BY <1>2
  <2> HIDE DEF fits
  <2> QED BY <1>1, <2>1, MinOfNaturals
<1> QED BY <1>1, <1>3 DEF KeyOf, Keys

\* A rule that fits is found.
LEMMA RuleFound ==
  ASSUME NEW ask \in Asks, NEW i \in 1 .. 10, Rules[i].method = ask.method,
         MatchesRule(Rules[i].path, ask.path)
  PROVE  RuleOfRequest[ask] # "none"
<1> DEFINE fits == {j \in DOMAIN Rules : Rules[j].method = ask.method /\ MatchesRule(Rules[j].path, ask.path)}
<1>1. DOMAIN Rules = 1 .. 10
  BY DEF Rules
<1>2. fits # {} /\ fits \in SUBSET Nat
  BY <1>1
<1>3. Min(fits) \in fits
  <2> HIDE DEF fits
  <2> QED BY <1>2, MinOfNaturals
<1>4. \A j \in 1 .. 10 : Rules[j].name # "none"
  BY DEF Rules, Rule
<1>5. RuleOfRequest[ask] = Rules[Min(fits)].name
  BY <1>2 DEF RuleOfRequest, RuleOf
<1> QED BY <1>1, <1>3, <1>4, <1>5

\* What the rules are for has a rule: a route that changes state, or one of the session's.
LEMMA RouteKnown ==
  ASSUME NEW ask \in Asks, RouteOfRequest[ask] # None
  PROVE  \E e \in {AuthEndpoints[i] : i \in 1 .. 4} \cup {CsrfEndpoints[1]}
                    \cup {ModuleEndpoints[i] : i \in 1 .. 7} \cup {LogsEndpoints[1], HealthEndpoint} :
            e.method = ask.method /\ MatchesRoute(e.path, ask.path)
<1> DEFINE fits == {i \in DOMAIN Routes : Routes[i].method = ask.method /\ MatchesRoute(Routes[i].path, ask.path)}
<1>1. fits # {}
  BY DEF RouteOfRequest, RouteOf
<1>2. PICK i \in DOMAIN Routes : Routes[i].method = ask.method /\ MatchesRoute(Routes[i].path, ask.path)
  BY <1>1
<1>3. Routes[i] \in {AuthEndpoints[j] : j \in 1 .. 4} \cup {CsrfEndpoints[1]}
                    \cup {ModuleEndpoints[j] : j \in 1 .. 7} \cup {LogsEndpoints[1], HealthEndpoint}
  <2>1. Len(AuthEndpoints) = 4 /\ Len(CsrfEndpoints) = 1 /\ Len(ModuleEndpoints) = 7 /\ Len(LogsEndpoints) = 1
    BY DEF AuthEndpoints, CsrfEndpoints, ModuleEndpoints, LogsEndpoints
  <2> DEFINE E == {AuthEndpoints[j] : j \in 1 .. 4} \cup {CsrfEndpoints[1]}
                    \cup {ModuleEndpoints[j] : j \in 1 .. 7} \cup {LogsEndpoints[1], HealthEndpoint}
  <2>2. AuthEndpoints \in Seq(E) /\ CsrfEndpoints \in Seq(E) /\ ModuleEndpoints \in Seq(E)
        /\ LogsEndpoints \in Seq(E) /\ <<HealthEndpoint>> \in Seq(E)
    BY DEF AuthEndpoints, CsrfEndpoints, ModuleEndpoints, LogsEndpoints
  <2> HIDE DEF E
  <2>3. Routes \in Seq(E)
    BY <2>2 DEF Routes
  <2>4. Routes[i] \in E
    BY <2>3
  <2> QED BY <2>4 DEF E
<1> QED BY <1>2, <1>3

\* A rule without a rest fits what a route of the same pattern fits.
LEMMA FixedRule ==
  ASSUME NEW pattern, NEW path \in Seq(STRING), DOMAIN pattern = 1 .. Len(pattern),
         pattern[Len(pattern)] # "*", MatchesRoute(pattern, path)
  PROVE  MatchesRule(pattern, path)
<1>1. Len(pattern) = Len(path) /\ DOMAIN pattern = DOMAIN path
  BY DEF MatchesRoute
<1>2. \A i \in DOMAIN pattern : pattern[i] \in Params \/ pattern[i] = path[i]
  BY <1>1 DEF MatchesRoute
<1> QED BY <1>1, <1>2 DEF MatchesRule, Last

LEMMA LimitedRuled ==
  ASSUME NEW ask \in Limited
  PROVE  ask \in Asks /\ RuleOfRequest[ask] # "none"
<1>0. /\ ask \in Asks /\ ask.path \in Seq(STRING) /\ RouteOfRequest[ask] # None
      /\ ask.method # "GET" \/ ask.path[1] \in {"auth", "me", "csrf"}
  BY PipelineAssumption DEF Limited
<1>1. PICK e \in {AuthEndpoints[i] : i \in 1 .. 4} \cup {CsrfEndpoints[1]}
                    \cup {ModuleEndpoints[i] : i \in 1 .. 7} \cup {LogsEndpoints[1], HealthEndpoint} :
            e.method = ask.method /\ MatchesRoute(e.path, ask.path)
  BY <1>0, RouteKnown
<1> DEFINE p == ask.path
<1>2. \/ e = Endpoint("GET", <<"auth", "login">>, "public")
      \/ e = Endpoint("GET", <<"auth", "callback">>, "public")
      \/ e = Endpoint("GET", <<"me">>, "public")
      \/ e = Endpoint("POST", <<"logout">>, "public")
      \/ e = Endpoint("GET", <<"csrf">>, "authenticated")
      \/ e = Endpoint("PATCH", <<"guilds", ":guildId", "settings">>, "guild_admin")
      \/ e = Endpoint("PATCH", <<"guilds", ":guildId", "modules", ":id">>, "guild_admin")
  <2>1. Len(e.path) \in Nat \ {0} /\ e.path[1] \notin Params
    <3>1. \A i \in 1 .. 4 : e = AuthEndpoints[i] =>
            Len(e.path) \in Nat \ {0} /\ e.path[1] \notin Params
      BY DEF AuthEndpoints, Endpoint, Params
    <3>2. e = CsrfEndpoints[1] => Len(e.path) \in Nat \ {0} /\ e.path[1] \notin Params
      BY DEF CsrfEndpoints, Endpoint, Params
    <3>3. \A i \in 1 .. 7 : e = ModuleEndpoints[i] =>
            Len(e.path) \in Nat \ {0} /\ e.path[1] \notin Params
      BY DEF ModuleEndpoints, Endpoint, Params
    <3>4. e \in {LogsEndpoints[1], HealthEndpoint} =>
            Len(e.path) \in Nat \ {0} /\ e.path[1] \notin Params
      BY DEF LogsEndpoints, HealthEndpoint, Endpoint, Params
    <3> QED BY <1>1, <3>1, <3>2, <3>3, <3>4
  <2>2. 1 \in DOMAIN p /\ e.path[1] = p[1]
    BY <1>0, <1>1, <2>1 DEF MatchesRoute
  <2>3. e.method # "GET" \/ e.path[1] \in {"auth", "me", "csrf"}
    BY <1>0, <1>1, <2>2
  <2> QED BY <1>1, <2>3 DEF AuthEndpoints, CsrfEndpoints, ModuleEndpoints, LogsEndpoints,
          HealthEndpoint, Endpoint
<1>r. /\ Rules[1].method = "GET" /\ Rules[1].path = <<"auth", "login">>
      /\ Rules[2].method = "GET" /\ Rules[2].path = <<"auth", "callback">>
      /\ Rules[3].method = "GET" /\ Rules[3].path = <<"csrf">>
      /\ Rules[4].method = "GET" /\ Rules[4].path = <<"me">>
      /\ Rules[5].method = "POST" /\ Rules[5].path = <<"logout">>
      /\ Rules[6].method = "PATCH" /\ Rules[6].path = <<"guilds", ":guildId", "settings">>
      /\ Rules[7].method = "PATCH"
      /\ Rules[7].path = <<"guilds", ":guildId", "modules", ":moduleId">>
  BY DEF Rules, Rule
<1>3. \A i \in 1 .. 7 : /\ DOMAIN Rules[i].path = 1 .. Len(Rules[i].path)
                        /\ Rules[i].path[Len(Rules[i].path)] # "*"
  <2> DEFINE Plain(q) == DOMAIN q = 1 .. Len(q) /\ q[Len(q)] # "*"
  <2>1. Plain(<<"auth", "login">>) /\ Plain(<<"auth", "callback">>)
    OBVIOUS
  <2>2. Plain(<<"csrf">>) /\ Plain(<<"me">>) /\ Plain(<<"logout">>)
    OBVIOUS
  <2>3. Plain(<<"guilds", ":guildId", "settings">>)
    OBVIOUS
  <2>4. Plain(<<"guilds", ":guildId", "modules", ":moduleId">>)
    OBVIOUS
  <2> HIDE DEF Plain
  <2>5. \A i \in 1 .. 7 : Plain(Rules[i].path)
    BY <1>r, <2>1, <2>2, <2>3, <2>4
  <2> QED BY <2>5 DEF Plain
<1>4. ASSUME e.path # <<"guilds", ":guildId", "modules", ":id">>
      PROVE  \E i \in 1 .. 6 : Rules[i].method = e.method /\ Rules[i].path = e.path
  BY <1>2, <1>4, <1>r DEF Endpoint
<1>5. CASE e.path # <<"guilds", ":guildId", "modules", ":id">>
  <2>1. PICK i \in 1 .. 6 : Rules[i].method = e.method /\ Rules[i].path = e.path
    BY <1>4, <1>5
  <2>2. MatchesRule(Rules[i].path, ask.path)
    BY <1>0, <1>1, <1>3, <2>1, FixedRule
  <2> QED BY <1>0, <1>1, <2>1, <2>2, RuleFound
<1>6. CASE e.path = <<"guilds", ":guildId", "modules", ":id">>
  <2> DEFINE pattern == <<"guilds", ":guildId", "modules", ":moduleId">>
  <2>1. e.method = "PATCH"
    BY <1>2, <1>6 DEF Endpoint
  <2>3. MatchesRoute(Rules[7].path, ask.path)
    <3>1. e.path = <<"guilds", ":guildId", "modules", ":id">> /\ Len(e.path) = 4
      BY <1>6
    <3>2. Len(p) = 4 /\ DOMAIN p = 1 .. 4 /\ Len(Rules[7].path) = 4
      BY <1>0, <1>1, <1>r, <3>1 DEF MatchesRoute
    <3>3. \A i \in 1 .. 4 : e.path[i] \in Params \/ e.path[i] = p[i]
      BY <1>1, <3>2 DEF MatchesRoute
    <3>4. p[1] = "guilds" /\ p[3] = "modules"
      BY <3>1, <3>3 DEF Params
    <3>5. \A i \in 1 .. 4 : Rules[7].path[i] \in Params \/ Rules[7].path[i] = p[i]
      BY <1>r, <3>4 DEF Params
    <3> QED BY <3>2, <3>5 DEF MatchesRoute
  <2>4. MatchesRule(Rules[7].path, ask.path)
    BY <1>0, <1>3, <2>3, FixedRule
  <2>5. 7 \in 1 .. 10 /\ Rules[7].method = ask.method
    BY <1>1, <1>r, <2>1
  <2> QED BY <1>0, <2>4, <2>5, RuleFound
<1> QED BY <1>5, <1>6

LEMMA LimiterInitially == PipelineInit => LimiterInv
<1> SUFFICES ASSUME PipelineInit PROVE LimiterInv
  OBVIOUS
<1>1. LimiterTypes
  BY DEF PipelineInit, LimiterTypes, Idle
<1>2. Numbered /\ BucketsTrue
  BY DEF PipelineInit, Numbered, BucketsTrue
<1>3. RecentKept
  BY DEF PipelineInit, RecentKept, Active
<1>4. WindowKept
  <2> SUFFICES ASSUME NEW ask \in Limited, NEW c \in Clients, NEW first \in 0 .. now
               PROVE  Cardinality(Within(Admitted(ask, c), first, Window)) <= Limit
    BY DEF WindowKept
  <2>1. Within(Admitted(ask, c), first, Window) = {}
    BY DEF PipelineInit, Admitted, Within
  <2> QED BY <2>1, FS_EmptySet, PipelineAssumption
<1> QED BY <1>1, <1>2, <1>3, <1>4 DEF LimiterInv

\* The cleanup takes no request that still counts.
LEMMA CleanupKeeps ==
  ASSUME LimiterTypes, NEW k \in Keys
  PROVE  /\ Cleaned \in [Keys -> SUBSET Stamps] /\ Cleaned[k] \subseteq buckets[k]
         /\ Active(Cleaned[k]) = Active(buckets[k])
<1>1. buckets[k] \subseteq Stamps /\ now \in Nat /\ Window \in Nat /\ CleanupEvery \in Nat
      /\ Window <= CleanupEvery
  BY PipelineAssumption, IntervalAssumption DEF LimiterTypes
<1>2. Stale(buckets[k]) => Active(buckets[k]) = {}
  <2> SUFFICES ASSUME Stale(buckets[k]), NEW r \in buckets[k]
               PROVE  ~(r.time + Window > now)
    BY DEF Active
  <2>1. r.time \in Nat /\ r.time + CleanupEvery <= now
    BY <1>1 DEF Stamps, Stale
  <2> QED BY <1>1, <2>1
<1>3. Active({}) = {}
  BY DEF Active
<1>4. Cleaned \in [Keys -> SUBSET Stamps]
  BY DEF Cleaned, LimiterTypes
<1>5. Cleaned[k] = buckets[k] \/ (Stale(buckets[k]) /\ Cleaned[k] = {})
  BY DEF Cleaned
<1> QED BY <1>2, <1>3, <1>4, <1>5

\* No request goes through: what is known of the limiter stays.
LEMMA NonePassed ==
  ASSUME LimiterInv, UNCHANGED <<now, passed, count>>, buckets' = buckets \/ buckets' = Cleaned
  PROVE  buckets' \in [Keys -> SUBSET Stamps] /\ Numbered' /\ BucketsTrue' /\ RecentKept' /\ WindowKept'
<1>0. /\ LimiterTypes
      /\ \A k \in Keys : buckets'[k] \subseteq buckets[k] /\ Active(buckets'[k]) = Active(buckets[k])
  BY CleanupKeeps DEF LimiterInv
<1>1. buckets' \in [Keys -> SUBSET Stamps]
  <2>1. CASE Keys = {}
    BY <1>0, <2>1 DEF LimiterTypes, Cleaned
  <2>2. CASE Keys # {}
    BY <1>0, <2>2, CleanupKeeps DEF LimiterTypes
  <2> QED BY <2>1, <2>2
<1>2. Numbered' /\ BucketsTrue'
  BY <1>0 DEF LimiterInv, Numbered, BucketsTrue
<1>3. RecentKept'
  <2> SUFFICES ASSUME NEW a \in Asks, NEW c \in Clients, RuleOfRequest[a] # "none",
                      NEW r \in passed[a][c], r.time + Window > now
               PROVE  r \in buckets'[KeyOf(a, c)]
    BY DEF RecentKept, Active
  <2>1. KeyOf(a, c) \in Keys
    BY RuleKnown
  <2>2. r \in Active(buckets[KeyOf(a, c)])
    BY DEF LimiterInv, RecentKept, Active
  <2>3. r \in Active(buckets'[KeyOf(a, c)])
    BY <1>0, <2>1, <2>2
  <2> QED BY <2>3 DEF Active
<1>4. WindowKept'
  BY DEF LimiterInv, WindowKept, Admitted, Within
<1> QED BY <1>1, <1>2, <1>3, <1>4

LEMMA TimePasses ==
  ASSUME LimiterInv, Tick
  PROVE  LimiterInv'
<1>0. /\ now \in Nat /\ now' = now + 1
      /\ UNCHANGED <<buckets, lastCleanup, req, passed, count>>
  BY DEF Tick, LimiterInv, LimiterTypes
<1>1. LimiterTypes'
  BY <1>0 DEF LimiterInv, LimiterTypes
<1>2. Numbered'
  <2> SUFFICES ASSUME NEW a \in Asks, NEW c \in Clients, NEW r \in passed[a][c]
               PROVE  r.nr < count[c] /\ r.time <= now + 1
    BY <1>0 DEF Numbered
  <2>1. r.nr < count[c] /\ r.time <= now /\ r.time \in Nat
    BY DEF LimiterInv, Numbered, LimiterTypes, Stamps
  <2> QED BY <1>0, <2>1
<1>3. BucketsTrue'
  BY <1>0 DEF LimiterInv, BucketsTrue
<1>4. RecentKept'
  <2> SUFFICES ASSUME NEW a \in Asks, NEW c \in Clients, RuleOfRequest[a] # "none",
                      NEW r \in passed[a][c], r.time + Window > now + 1
               PROVE  r \in buckets[KeyOf(a, c)]
    BY <1>0 DEF RecentKept, Active
  <2>1. r.time \in Nat /\ Window \in Nat
    BY PipelineAssumption DEF LimiterInv, LimiterTypes, Stamps
  <2>2. r.time + Window > now
    BY <1>0, <2>1
  <2> QED BY <2>2 DEF LimiterInv, RecentKept, Active
<1>5. WindowKept'
  <2> SUFFICES ASSUME NEW ask \in Limited, NEW c \in Clients, NEW first \in 0 .. now + 1
               PROVE  Cardinality(Within(Admitted(ask, c), first, Window)) <= Limit
    BY <1>0 DEF WindowKept, Admitted, Within
  <2>1. CASE first \in 0 .. now
    BY <2>1 DEF LimiterInv, WindowKept
  <2>2. CASE first = now + 1
    <3>1. \A r \in Admitted(ask, c) : r.time \in Nat /\ r.time <= now
      BY LimitedRuled, AdmittedFinite DEF LimiterInv, Stamps
    <3>2. Within(Admitted(ask, c), first, Window) = {}
      BY <1>0, <2>2, <3>1 DEF Within
    <3> QED BY <3>2, FS_EmptySet, PipelineAssumption
  <2> QED BY <1>0, <2>1, <2>2
<1> QED BY <1>1, <1>2, <1>3, <1>4, <1>5 DEF LimiterInv

\* A request of a rule that may go on: the bucket takes it, and no window has too many.
LEMMA RequestPasses ==
  ASSUME LimiterInv, NEW c \in Clients, NEW ask \in Asks, RuleOfRequest[ask] # "none",
         Allowed(KeyOf(ask, c)), now' = now,
         buckets' = [Cleaned EXCEPT ![KeyOf(ask, c)] = Active(@) \cup {Pass(c)}],
         passed' = [passed EXCEPT ![ask][c] = @ \cup {Pass(c)}],
         count' = [count EXCEPT ![c] = @ + 1]
  PROVE  /\ buckets' \in [Keys -> SUBSET Stamps]
         /\ passed' \in [Asks -> [Clients -> SUBSET Stamps]] /\ count' \in [Clients -> Nat]
         /\ Numbered' /\ BucketsTrue' /\ RecentKept' /\ WindowKept'
<1> DEFINE key == KeyOf(ask, c)
<1>0. LimiterTypes /\ key \in Keys /\ now \in Nat /\ count[c] \in Nat
  BY RuleKnown DEF LimiterInv, LimiterTypes
<1>1. Pass(c) \in Stamps /\ Pass(c).nr = count[c] /\ Pass(c).time = now
  BY <1>0 DEF Pass, Stamps
<1>2. \A k \in Keys : /\ Cleaned[k] \subseteq buckets[k] /\ Cleaned[k] \subseteq Stamps
                      /\ Active(Cleaned[k]) = Active(buckets[k])
  BY <1>0, CleanupKeeps
<1>3. Cleaned \in [Keys -> SUBSET Stamps]
  BY <1>0, CleanupKeeps
<1>4. /\ buckets'[key] = Active(Cleaned[key]) \cup {Pass(c)}
      /\ \A k \in Keys : k # key => buckets'[k] = Cleaned[k]
  BY <1>0, <1>3
<1>5. buckets' \in [Keys -> SUBSET Stamps]
  BY <1>0, <1>1, <1>2, <1>3 DEF Active
<1>6. /\ passed' \in [Asks -> [Clients -> SUBSET Stamps]]
      /\ passed'[ask][c] = passed[ask][c] \cup {Pass(c)}
      /\ \A a \in Asks, d \in Clients : a # ask \/ d # c => passed'[a][d] = passed[a][d]
  BY <1>0, <1>1 DEF LimiterTypes
<1>7. /\ count' \in [Clients -> Nat] /\ count'[c] = count[c] + 1
      /\ \A d \in Clients : d # c => count'[d] = count[d]
  BY <1>0 DEF LimiterTypes
<1>8. Numbered'
  <2> SUFFICES ASSUME NEW a \in Asks, NEW d \in Clients, NEW r \in passed'[a][d]
               PROVE  r.nr < count'[d] /\ r.time <= now
    BY DEF Numbered
  <2>1. CASE r \in passed[a][d]
    <3>1. r.nr \in Nat /\ r.nr < count[d] /\ r.time <= now
      BY <1>0, <2>1 DEF LimiterInv, LimiterTypes, Numbered, Stamps
    <3>2. count[d] \in Nat /\ (count'[d] = count[d] \/ count'[d] = count[d] + 1)
      BY <1>0, <1>7 DEF LimiterTypes
    <3> QED BY <3>1, <3>2
  <2>2. CASE r \notin passed[a][d]
    BY <1>0, <1>1, <1>6, <1>7, <2>2
  <2> QED BY <2>1, <2>2
<1>9. BucketsTrue'
  <2> SUFFICES ASSUME NEW k \in Keys, NEW r \in buckets'[k]
               PROVE  \E a \in Asks : RuleOfRequest[a] = k.rule /\ r \in passed'[a][k.ip]
    BY DEF BucketsTrue
  <2>1. CASE r \in buckets[k]
    <3>1. PICK a \in Asks : RuleOfRequest[a] = k.rule /\ r \in passed[a][k.ip]
      BY <2>1 DEF LimiterInv, BucketsTrue
    <3>2. k.ip \in Clients
      BY DEF Keys
    <3> QED BY <1>6, <3>1, <3>2
  <2>2. CASE r \notin buckets[k]
    <3>1. k = key /\ r = Pass(c)
      BY <1>2, <1>4, <2>2 DEF Active
    <3> QED BY <1>6, <3>1 DEF KeyOf
  <2> QED BY <2>1, <2>2
<1>10. RecentKept'
  <2> SUFFICES ASSUME NEW a \in Asks, NEW d \in Clients, RuleOfRequest[a] # "none",
                      NEW r \in passed'[a][d], r.time + Window > now
               PROVE  r \in buckets'[KeyOf(a, d)]
    BY DEF RecentKept, Active
  <2>0. KeyOf(a, d) \in Keys
    BY RuleKnown
  <2>1. CASE r \in passed[a][d]
    <3>1. r \in Active(buckets[KeyOf(a, d)])
      BY <2>1 DEF LimiterInv, RecentKept, Active
    <3>2. r \in Active(Cleaned[KeyOf(a, d)]) /\ r \in Cleaned[KeyOf(a, d)]
      BY <1>2, <2>0, <3>1 DEF Active
    <3> QED BY <1>4, <2>0, <3>2
  <2>2. CASE r \notin passed[a][d]
    BY <1>4, <1>6, <2>2
  <2> QED BY <2>1, <2>2
<1>11. WindowKept'
  <2> SUFFICES ASSUME NEW b \in Limited, NEW d \in Clients, NEW first \in 0 .. now
               PROVE  Cardinality(Within(Admitted(b, d)', first, Window)) <= Limit
    BY DEF WindowKept, Within
  <2> DEFINE old == Within(Admitted(b, d), first, Window)
             new == Within(Admitted(b, d)', first, Window)
  <2>0. b \in Asks /\ RuleOfRequest[b] # "none" /\ Window \in Nat /\ Limit \in Nat
    BY LimitedRuled, PipelineAssumption
  <2>1. Cardinality(old) <= Limit
    BY DEF LimiterInv, WindowKept
  <2>2. CASE d = c /\ RuleOfRequest[b] = RuleOfRequest[ask] /\ now < first + Window
    <3>1. new \subseteq Active(Cleaned[key]) \cup {Pass(c)}
      <4> SUFFICES ASSUME NEW r \in new, r # Pass(c) PROVE r \in Active(Cleaned[key])
        OBVIOUS
      <4>1. PICK a \in Asks : RuleOfRequest[a] = RuleOfRequest[b] /\ r \in passed'[a][d]
        BY DEF Within, Admitted
      <4>2. r \in passed[a][d]
        BY <1>6, <4>1
      <4>3. r.time \in Nat /\ first <= r.time
        BY <1>0, <4>2 DEF Within, LimiterTypes, Stamps
      <4>4. r.time + Window > now
        BY <1>0, <2>0, <2>2, <4>3
      <4>5. r \in buckets[KeyOf(a, d)] /\ KeyOf(a, d) = key
        BY <2>0, <2>2, <4>1, <4>2, <4>4 DEF LimiterInv, RecentKept, Active, KeyOf
      <4> QED BY <1>0, <1>2, <4>4, <4>5 DEF Active
    <3>2. Active(Cleaned[key]) \subseteq Admitted(ask, c)
      BY <1>0, <1>2 DEF Active, LimiterInv, BucketsTrue, Admitted, KeyOf
    <3>3. IsFiniteSet(Active(Cleaned[key])) /\ Cardinality(Active(Cleaned[key])) \in Nat
      BY <3>2, AdmittedFinite, FiniteParts DEF LimiterInv
    <3>4. Cardinality(Active(Cleaned[key])) < Limit
      BY DEF Allowed
    <3>5. /\ IsFiniteSet(Active(Cleaned[key]) \cup {Pass(c)})
          /\ Cardinality(Active(Cleaned[key]) \cup {Pass(c)}) <= Cardinality(Active(Cleaned[key])) + 1
      <4>1. Cardinality(Active(Cleaned[key]) \cup {Pass(c)}) =
              IF Pass(c) \in Active(Cleaned[key]) THEN Cardinality(Active(Cleaned[key]))
              ELSE Cardinality(Active(Cleaned[key])) + 1
        BY <3>3, FS_AddElement
      <4>2. IsFiniteSet(Active(Cleaned[key]) \cup {Pass(c)})
        BY <3>3, FS_AddElement
      <4> QED BY <3>3, <4>1, <4>2
    <3>6. /\ Cardinality(new) <= Cardinality(Active(Cleaned[key]) \cup {Pass(c)})
          /\ Cardinality(new) \in Nat /\ Cardinality(Active(Cleaned[key]) \cup {Pass(c)}) \in Nat
      <4> HIDE DEF new
      <4> QED BY <3>1, <3>5, FiniteParts
    <3> QED BY <2>0, <3>3, <3>4, <3>5, <3>6
  <2>3. CASE ~(d = c /\ RuleOfRequest[b] = RuleOfRequest[ask] /\ now < first + Window)
    <3>1. new = old
      <4> SUFFICES ASSUME NEW r PROVE r \in new <=> r \in old
        OBVIOUS
      <4>1. r \in old => r \in new
        BY <1>6 DEF Within, Admitted
      <4>2. ASSUME r \in new PROVE r \in old
        <5>1. PICK a \in Asks : RuleOfRequest[a] = RuleOfRequest[b] /\ r \in passed'[a][d]
          BY <4>2 DEF Within, Admitted
        <5>2. first <= r.time /\ r.time < first + Window
          BY <4>2 DEF Within
        <5>3. CASE r \in passed[a][d]
          BY <5>1, <5>2, <5>3 DEF Within, Admitted
        <5>4. CASE r \notin passed[a][d]
          <6>1. a = ask /\ d = c /\ r.time = now
            BY <1>1, <1>6, <5>1, <5>4
          <6> QED BY <2>3, <5>1, <5>2, <6>1
        <5> QED BY <5>3, <5>4
      <4> QED BY <4>1, <4>2
    <3> QED BY <2>1, <3>1
  <2> QED BY <2>2, <2>3
<1> QED BY <1>5, <1>6, <1>7, <1>8, <1>9, <1>10, <1>11

\* Nor does the limiter mind a request that has no rule.
LEMMA UnruledPasses ==
  ASSUME LimiterInv, NEW c \in Clients, NEW ask \in Asks, RuleOfRequest[ask] = "none",
         UNCHANGED <<now, buckets>>,
         passed' = [passed EXCEPT ![ask][c] = @ \cup {Pass(c)}],
         count' = [count EXCEPT ![c] = @ + 1]
  PROVE  /\ passed' \in [Asks -> [Clients -> SUBSET Stamps]] /\ count' \in [Clients -> Nat]
         /\ Numbered' /\ BucketsTrue' /\ RecentKept' /\ WindowKept'
<1>0. LimiterTypes /\ now \in Nat /\ count[c] \in Nat
  BY DEF LimiterInv, LimiterTypes
<1>1. Pass(c) \in Stamps /\ Pass(c).nr = count[c] /\ Pass(c).time = now
  BY <1>0 DEF Pass, Stamps
<1>2. /\ passed' \in [Asks -> [Clients -> SUBSET Stamps]]
      /\ passed'[ask][c] = passed[ask][c] \cup {Pass(c)}
      /\ \A a \in Asks, d \in Clients : a # ask \/ d # c => passed'[a][d] = passed[a][d]
  BY <1>0, <1>1 DEF LimiterTypes
<1>3. /\ count' \in [Clients -> Nat] /\ count'[c] = count[c] + 1
      /\ \A d \in Clients : d # c => count'[d] = count[d]
  BY <1>0 DEF LimiterTypes
<1>4. Numbered'
  <2> SUFFICES ASSUME NEW a \in Asks, NEW d \in Clients, NEW r \in passed'[a][d]
               PROVE  r.nr < count'[d] /\ r.time <= now
    BY DEF Numbered
  <2>1. CASE r \in passed[a][d]
    <3>1. r.nr \in Nat /\ r.nr < count[d] /\ r.time <= now
      BY <1>0, <2>1 DEF LimiterInv, LimiterTypes, Numbered, Stamps
    <3>2. count[d] \in Nat /\ (count'[d] = count[d] \/ count'[d] = count[d] + 1)
      BY <1>0, <1>3 DEF LimiterTypes
    <3> QED BY <3>1, <3>2
  <2>2. CASE r \notin passed[a][d]
    BY <1>0, <1>1, <1>2, <1>3, <2>2
  <2> QED BY <2>1, <2>2
<1>5. BucketsTrue'
  <2> SUFFICES ASSUME NEW k \in Keys, NEW r \in buckets[k]
               PROVE  \E a \in Asks : RuleOfRequest[a] = k.rule /\ r \in passed'[a][k.ip]
    BY DEF BucketsTrue
  <2>1. PICK a \in Asks : RuleOfRequest[a] = k.rule /\ r \in passed[a][k.ip]
    BY DEF LimiterInv, BucketsTrue
  <2>2. k.ip \in Clients
    BY DEF Keys
  <2> QED BY <1>2, <2>1, <2>2
<1>6. RecentKept'
  BY <1>2 DEF LimiterInv, RecentKept, Active
<1>7. WindowKept'
  <2> SUFFICES ASSUME NEW b \in Limited, NEW d \in Clients, NEW first \in 0 .. now
               PROVE  Cardinality(Within(Admitted(b, d)', first, Window)) <= Limit
    BY DEF WindowKept, Within
  <2>1. RuleOfRequest[b] # "none"
    BY LimitedRuled
  <2>2. Admitted(b, d)' = Admitted(b, d)
    BY <1>2, <2>1 DEF Admitted
  <2> QED BY <2>2 DEF LimiterInv, WindowKept
<1> QED BY <1>2, <1>3, <1>4, <1>5, <1>6, <1>7

\* A request that is turned away has, under its rule, as many before it as may go on.
LEMMA RefusedRightly ==
  ASSUME LimiterInv, NEW c \in Clients, NEW ask \in Asks, RuleOfRequest[ask] # "none",
         ~Allowed(KeyOf(ask, c))
  PROVE  Cardinality(Active(Admitted(ask, c))) >= Limit
<1> DEFINE key == KeyOf(ask, c)
<1>1. LimiterTypes /\ key \in Keys
  BY RuleKnown DEF LimiterInv
<1>2. Active(Cleaned[key]) = Active(buckets[key])
  BY <1>1, CleanupKeeps
<1>3. Active(buckets[key]) \subseteq Active(Admitted(ask, c))
  BY <1>1 DEF Active, LimiterInv, BucketsTrue, Admitted, KeyOf
<1>4. IsFiniteSet(Active(Admitted(ask, c)))
  <2>1. Active(Admitted(ask, c)) \subseteq Admitted(ask, c)
    BY DEF Active
  <2> QED BY <2>1, AdmittedFinite, FiniteParts DEF LimiterInv
<1>5. /\ Cardinality(Active(Cleaned[key])) <= Cardinality(Active(Admitted(ask, c)))
      /\ Cardinality(Active(Cleaned[key])) \in Nat /\ Cardinality(Active(Admitted(ask, c))) \in Nat
  BY <1>2, <1>3, <1>4, FiniteParts
<1> QED BY <1>5, PipelineAssumption DEF Allowed

-----------------------------------------------------------------------------
(* The invariant *)

LEMMA RequestTypes ==
  ASSUME LimiterTypes, NEW c \in Clients,
         \/ req' = [req EXCEPT ![c] = Idle]
         \/ \E at \in {"lookup", "handler", "stream"} : req' = [req EXCEPT ![c].at = at]
  PROVE  /\ req' \in [Clients -> [at : {"idle", "reading", "lookup", "handler", "stream"}, ask : Asks \cup {NoAsk}]]
         /\ \A d \in Clients : req'[d].at = "reading" => req'[d].ask \in Asks
<1>1. \A d \in Clients : req[d] \in [at : {"idle", "reading", "lookup", "handler", "stream"}, ask : Asks \cup {NoAsk}]
  BY DEF LimiterTypes
<1>2. Idle \in [at : {"idle", "reading", "lookup", "handler", "stream"}, ask : Asks \cup {NoAsk}]
      /\ Idle.at = "idle"
  BY DEF Idle
<1>3. CASE req' = [req EXCEPT ![c] = Idle]
  BY <1>2, <1>3 DEF LimiterTypes
<1>4. ASSUME NEW at \in {"lookup", "handler", "stream"}, req' = [req EXCEPT ![c].at = at]
      PROVE  /\ req' \in [Clients -> [at : {"idle", "reading", "lookup", "handler", "stream"}, ask : Asks \cup {NoAsk}]]
             /\ \A d \in Clients : req'[d].at = "reading" => req'[d].ask \in Asks
  BY <1>1, <1>4 DEF LimiterTypes
<1> QED BY <1>3, <1>4

LEMMA LimiterStep == LimiterInv /\ [PipelineNext]_pipelineVars => LimiterInv'
<1> SUFFICES ASSUME LimiterInv, [PipelineNext]_pipelineVars PROVE LimiterInv'
  OBVIOUS
<1>0. LimiterTypes /\ lastCleanup \in Nat /\ now \in Nat
  BY DEF LimiterInv, LimiterTypes
<1>1. ASSUME NEW c \in Clients, NEW ask \in Asks, Send(c, ask) PROVE LimiterInv'
  <2>1. LimiterTypes'
    BY <1>0, <1>1 DEF Send, LimiterTypes
  <2> QED BY <1>1, <2>1, NonePassed DEF Send, LimiterInv
<1>2. ASSUME NEW c \in Clients,
             \/ BodyFails(c) \/ Mismatch(c) \/ Lookup(c) \/ Finish(c) \/ StreamLookup(c)
             \/ \E cookie \in BOOLEAN : AskForStream(c, cookie)
      PROVE  LimiterInv'
  <2>1. UNCHANGED <<now, buckets, lastCleanup, passed, count>>
    BY <1>2 DEF BodyFails, Mismatch, Lookup, Finish, StreamLookup, AskForStream
  <2>2. \/ req' = [req EXCEPT ![c] = Idle]
        \/ \E at \in {"lookup", "handler", "stream"} : req' = [req EXCEPT ![c].at = at]
    BY <1>2 DEF BodyFails, Mismatch, Lookup, Finish, Admit, Respond, Throw, GoOn,
                StreamLookup, AskForStream, ReplyStream
  <2>3. LimiterTypes'
    BY <1>0, <2>1, <2>2, RequestTypes DEF LimiterTypes
  <2> QED BY <2>1, <2>3, NonePassed DEF LimiterInv
<1>3. ASSUME NEW c \in Clients, NEW cookie \in BOOLEAN, Dispatch(c, cookie) PROVE LimiterInv'
  <2> DEFINE ask == req[c].ask
             key == KeyOf(ask, c)
  <2>1. ask \in Asks /\ now' = now
    BY <1>0, <1>3 DEF Dispatch, LimiterTypes
  <2>2. lastCleanup' \in Nat
    BY <1>0, <1>3 DEF Dispatch, Checked
  <2>3. \/ req' = [req EXCEPT ![c] = Idle]
        \/ \E at \in {"lookup", "handler", "stream"} : req' = [req EXCEPT ![c].at = at]
    BY <1>3 DEF Dispatch, AskForSession, Respond, GoOn
  <2>4. /\ req' \in [Clients -> [at : {"idle", "reading", "lookup", "handler", "stream"}, ask : Asks \cup {NoAsk}]]
        /\ \A d \in Clients : req'[d].at = "reading" => req'[d].ask \in Asks
    BY <1>0, <2>3, RequestTypes
  <2>5. CASE RuleOfRequest[ask] = "none"
    <3>1. /\ UNCHANGED <<buckets, lastCleanup>>
          /\ passed' = [passed EXCEPT ![ask][c] = @ \cup {Pass(c)}]
          /\ count' = [count EXCEPT ![c] = @ + 1]
      BY <1>3, <2>5 DEF Dispatch
    <3>2. /\ passed' \in [Asks -> [Clients -> SUBSET Stamps]] /\ count' \in [Clients -> Nat]
          /\ Numbered' /\ BucketsTrue' /\ RecentKept' /\ WindowKept'
      BY <2>1, <2>5, <3>1, UnruledPasses
    <3>3. LimiterTypes'
      BY <1>0, <2>1, <2>2, <2>4, <3>1, <3>2 DEF LimiterTypes
    <3> QED BY <3>2, <3>3 DEF LimiterInv
  <2>6. CASE RuleOfRequest[ask] # "none" /\ Allowed(key)
    <3>1. /\ buckets' = [Cleaned EXCEPT ![key] = Active(@) \cup {Pass(c)}]
          /\ passed' = [passed EXCEPT ![ask][c] = @ \cup {Pass(c)}]
          /\ count' = [count EXCEPT ![c] = @ + 1]
      BY <1>3, <2>6 DEF Dispatch, Checked, KeyOf
    <3>2. /\ buckets' \in [Keys -> SUBSET Stamps]
          /\ passed' \in [Asks -> [Clients -> SUBSET Stamps]] /\ count' \in [Clients -> Nat]
          /\ Numbered' /\ BucketsTrue' /\ RecentKept' /\ WindowKept'
      BY <2>1, <2>6, <3>1, RequestPasses
    <3>3. LimiterTypes'
      BY <1>0, <2>1, <2>2, <2>4, <3>2 DEF LimiterTypes
    <3> QED BY <3>2, <3>3 DEF LimiterInv
  <2>7. CASE RuleOfRequest[ask] # "none" /\ ~Allowed(key)
    <3>1. buckets' = Cleaned /\ UNCHANGED <<passed, count>>
      BY <1>3, <2>7 DEF Dispatch, Checked, KeyOf
    <3>2. buckets' \in [Keys -> SUBSET Stamps] /\ Numbered' /\ BucketsTrue' /\ RecentKept' /\ WindowKept'
      BY <2>1, <3>1, NonePassed
    <3>3. LimiterTypes'
      BY <1>0, <2>1, <2>2, <2>4, <3>1, <3>2 DEF LimiterTypes
    <3> QED BY <3>2, <3>3 DEF LimiterInv
  <2> QED BY <2>5, <2>6, <2>7
<1>4. CASE Tick
  BY <1>4, TimePasses
<1>5. CASE UNCHANGED pipelineVars
  <2>1. LimiterTypes'
    BY <1>0, <1>5 DEF pipelineVars, LimiterTypes
  <2> QED BY <1>5, <2>1, NonePassed DEF pipelineVars, LimiterInv
<1> QED BY <1>1, <1>2, <1>3, <1>4, <1>5 DEF PipelineNext

\* The bucket of a rule and address holds every request that still counts, and no window
\* of any length of time has more than the limit (rate-limiter.service.ts:33-84).
THEOREM LimiterInvariant == PipelineSpec => []LimiterInv
BY LimiterInitially, LimiterStep, PTL DEF PipelineSpec

\* The limiter lets no address past its limit and turns none away below it
\* (rate-limiter.service.ts:33-60, rate-limit.middleware.ts:20-56).
THEOREM LimitIsExact == PipelineSpec => LimiterExact
<1> DEFINE Exact == /\ passed' # passed => WindowKept'
                    /\ last'.code = "RATE_LIMITED" =>
                         \E c \in Clients :
                           /\ req[c].at = "reading" /\ req'[c] = Idle
                           /\ Cardinality(Active(Admitted(req[c].ask, c))) >= Limit
<1>1. ASSUME LimiterInv, [PipelineNext]_pipelineVars PROVE [Exact]_pipelineVars
  <2>1. WindowKept'
    BY <1>1, LimiterStep DEF LimiterInv
  <2>2. ASSUME last'.code = "RATE_LIMITED", PipelineNext
        PROVE  \E c \in Clients : /\ req[c].at = "reading" /\ req'[c] = Idle
                                  /\ Cardinality(Active(Admitted(req[c].ask, c))) >= Limit
    <3>1. PICK c \in Clients, cookie \in BOOLEAN : Dispatch(c, cookie)
      <4>1. ASSUME NEW c \in Clients, BodyFails(c) \/ Mismatch(c) \/ Lookup(c) \/ Finish(c) PROVE FALSE
        BY <2>2, <4>1 DEF BodyFails, Mismatch, Lookup, Finish, HandlerCodes, Admit, Authorize,
                          Respond, Throw, GoOn, Silence, Reply
      <4>3. ASSUME NEW c \in Clients, StreamLookup(c) \/ \E cookie \in BOOLEAN : AskForStream(c, cookie)
            PROVE  FALSE
        <5>1. ASSUME NEW code, ReplyStream(c, code) PROVE last'.code = code
          BY <5>1 DEF ReplyStream, Reply
        <5> QED BY <2>2, <4>3, <5>1 DEF StreamLookup, AskForStream, StreamRuling, Authorize, Throw, GoOn,
                                        Silence, Reply
      <4>2. ~Tick /\ \A c \in Clients, ask \in Asks : ~Send(c, ask)
        BY <2>2 DEF Tick, Send, Silence, Reply
      <4> QED BY <2>2, <4>1, <4>2, <4>3 DEF PipelineNext
    <3>2. req[c].at = "reading" /\ req[c].ask \in Asks /\ req \in [Clients -> [at : {"idle", "reading", "lookup", "handler", "stream"}, ask : Asks \cup {NoAsk}]]
      BY <1>1, <3>1 DEF Dispatch, LimiterInv, LimiterTypes
    <3>3. RuleOfRequest[req[c].ask] # "none" /\ ~Allowed(KeyOf(req[c].ask, c)) /\ req' = [req EXCEPT ![c] = Idle]
      BY <2>2, <3>1 DEF Dispatch, AskForSession, Respond, GoOn, Silence, Reply, KeyOf
    <3>4. Cardinality(Active(Admitted(req[c].ask, c))) >= Limit
      BY <1>1, <3>2, <3>3, RefusedRightly
    <3>5. req'[c] = Idle
      BY <3>2, <3>3
    <3> QED BY <3>2, <3>4, <3>5
  <2> QED BY <1>1, <2>1, <2>2
<1> QED BY <1>1, LimiterInvariant, PTL DEF PipelineSpec, LimiterExact

-----------------------------------------------------------------------------
(***************************************************************************)
(* The dashboard                                                             *)
(***************************************************************************)

Loads == [at : {"none", "modules", "listed", "values", "read"}, guild : Guilds \cup {NoGuild},
          enabled : BOOLEAN, shown : Nat, got : Nat]
Saves == [at : {"none", "sent", "accepted", "refused"}, guild : Guilds \cup {NoGuild},
          expected : Nat, got : Nat, mounted : BOOLEAN, here : BOOLEAN, seen : Nat, read : Nat,
          late : BOOLEAN]
Toggles == [at : {"none", "sent", "conflict", "switched"}, guild : Guilds \cup {NoGuild},
            enabled : BOOLEAN, confirmed : BOOLEAN, mounted : BOOLEAN]

Pages == [status : {"loading", "ready", "error"}, enabled : BOOLEAN, plugin : BOOLEAN,
          of : Guilds \cup {NoGuild}, shown : Nat, read : Nat, late : BOOLEAN]

\* A request is made for a guild.
LoadsMade ==
  /\ loads \in [LoadSlots -> Loads]
  /\ \A l \in LoadSlots : loads[l].at # "none" => loads[l].guild \in Guilds
SavesMade ==
  /\ saves \in [SaveSlots -> Saves]
  /\ \A s \in SaveSlots : saves[s].at # "none" => saves[s].guild \in Guilds
ToggleMade == toggle \in Toggles /\ (toggle.at # "none" => toggle.guild \in Guilds)

PageTypes ==
  /\ auth \in [status : {"loading", "authenticated", "unauthenticated", "error"},
               guild : Guilds \cup {NoGuild}]
  /\ server \in [Guilds -> [version : Nat, others : Nat, enabled : BOOLEAN]]
  /\ page \in Pages
  /\ versionRef \in Nat
  /\ LoadsMade /\ SavesMade /\ ToggleMade

\* Without a selected guild nothing is loaded, and so nothing saved or switched.
NothingUnselected ==
  (auth.status = "loading" \/ (auth.status = "authenticated" /\ auth.guild = NoGuild)) =>
    /\ auth.guild = NoGuild /\ ~news /\ page.status # "ready" /\ toggle.at = "none"
    /\ \A l \in LoadSlots : loads[l].at = "none"

\* What others wrote last is not newer than the settings.
OthersCounted == \A g \in Guilds : server[g].others <= server[g].version

\* A version fits what was read of a guild: while it is the current one, nothing of others is
\* newer than what was read.
Suits(version, g, read) ==
  /\ version <= server[g].version
  /\ server[g].version = version => server[g].others <= read

LoadsFit == \A l \in LoadSlots :
  loads[l].at = "read" => loads[l].got <= server[loads[l].guild].version

\* The version the page would send fits the load that fills it,
PageFits == page.of \in Guilds /\ ~page.late => Suits(versionRef, page.of, page.read)

\* and so do the versions of the saves sent from it.
SaveFits(save) == ~save.late =>
  /\ save.at = "sent" => Suits(save.expected, save.guild, save.read)
  /\ save.at = "accepted" => Suits(save.got, save.guild, save.read)
SavesFit == \A s \in SaveSlots : SaveFits(saves[s])

\* A save whose page is still the one it was sent from read what that page shows.
SaveHere(save) ==
  save.at \in {"sent", "accepted"} /\ save.here /\ page.of # NoGuild =>
    page.of = save.guild /\ page.read = save.read /\ (save.late => page.late)
SavesHere == \A s \in SaveSlots : SaveHere(saves[s])

VersionsSeen == OthersCounted /\ LoadsFit /\ PageFits /\ SavesFit /\ SavesHere /\ OthersSeen

PageInv == PageTypes /\ NothingUnselected /\ VersionsSeen

-----------------------------------------------------------------------------
(* The parts of a step *)

\* The page shows what it showed, or nothing.
PageStays ==
  \/ page'.of = NoGuild
  \/ page'.of = page.of /\ page'.read = page.read /\ page'.late = page.late

\* No load that has read a version reads another.
LoadsGoOn == \A l \in LoadSlots : loads'[l].at = "read" =>
  loads[l].at = "read" /\ loads'[l].guild = loads[l].guild /\ loads'[l].got = loads[l].got

\* A load is asked for: the page shows nothing new yet.
LEMMA LoadAsked ==
  ASSUME PageTypes, NEW g \in Guilds \cup {NoGuild}, LoadDashboard(g)
  PROVE  /\ page' \in Pages /\ PageStays /\ page'.status # "ready"
         /\ LoadsMade' /\ LoadsGoOn /\ (g = NoGuild => loads' = loads)
<1>1. CASE g = NoGuild
  <2>1. page' = Empty("error") /\ loads' = loads
    BY <1>1 DEF LoadDashboard
  <2>2. LoadsMade' /\ LoadsGoOn
    BY <2>1 DEF PageTypes, LoadsMade, LoadsGoOn
  <2> QED BY <2>1, <2>2 DEF Empty, Pages, PageStays
<1>2. CASE g # NoGuild
  <2>1. page' = [page EXCEPT !.status = "loading"]
    BY <1>2 DEF LoadDashboard
  <2>2. PICK l \in LoadSlots :
          loads' = [loads EXCEPT ![l] = [NoLoad EXCEPT !.at = "modules", !.guild = g]]
    BY <1>2 DEF LoadDashboard
  <2>3. [NoLoad EXCEPT !.at = "modules", !.guild = g] \in Loads
    BY DEF NoLoad, Loads
  <2>4. LoadsMade' /\ LoadsGoOn
    BY <1>2, <2>2, <2>3 DEF LoadsMade, PageTypes, NoLoad, LoadsGoOn
  <2> QED BY <1>2, <2>1, <2>4 DEF PageTypes, Pages, PageStays
<1> QED BY <1>1, <1>2

LEMMA LoadChanged ==
  ASSUME PageTypes, NEW l \in LoadSlots, NEW r \in Loads, r.at # "none" => r.guild \in Guilds,
         loads' = [loads EXCEPT ![l] = r]
  PROVE  LoadsMade' /\ (r.at # "read" => LoadsGoOn)
BY DEF PageTypes, LoadsMade, LoadsGoOn

LEMMA SaveChanged ==
  ASSUME PageTypes, NEW s \in SaveSlots, NEW r \in Saves, r.at # "none" => r.guild \in Guilds,
         saves' = [saves EXCEPT ![s] = r]
  PROVE  SavesMade'
BY DEF PageTypes, SavesMade

\* A save goes on when it ends or nothing but its listener is taken from it.
SavesGoOn == \A s \in SaveSlots :
  \/ saves'[s].at \notin {"sent", "accepted"}
  \/ /\ saves'[s].at = saves[s].at /\ saves'[s].guild = saves[s].guild
     /\ saves'[s].expected = saves[s].expected /\ saves'[s].got = saves[s].got
     /\ saves'[s].here = saves[s].here /\ saves'[s].read = saves[s].read
     /\ saves'[s].late = saves[s].late

LEMMA FormLeaves ==
  ASSUME PageTypes, saves' = [s \in SaveSlots |-> [saves[s] EXCEPT !.mounted = FALSE]]
  PROVE  SavesMade' /\ SavesGoOn
<1>1. \A s \in SaveSlots : /\ saves[s] \in Saves
                           /\ saves'[s] = [saves[s] EXCEPT !.mounted = FALSE]
  BY DEF PageTypes, SavesMade
<1>2. \A s \in SaveSlots : saves'[s] \in Saves /\ saves'[s].at = saves[s].at
       /\ saves'[s].guild = saves[s].guild
       /\ saves'[s].expected = saves[s].expected /\ saves'[s].got = saves[s].got
       /\ saves'[s].here = saves[s].here /\ saves'[s].read = saves[s].read
       /\ saves'[s].late = saves[s].late
  BY <1>1 DEF Saves
<1>3. saves' \in [SaveSlots -> Saves]
  BY <1>2
<1> QED BY <1>2, <1>3 DEF SavesMade, SavesGoOn, PageTypes

LEMMA FormUnmounts ==
  ASSUME PageTypes, Unmount
  PROVE  SavesMade' /\ SavesGoOn /\ ToggleMade' /\ (toggle'.at = toggle.at)
<1>1. SavesMade' /\ SavesGoOn
  BY FormLeaves DEF Unmount
<1>2. ToggleMade' /\ (toggle'.at = toggle.at)
  BY DEF PageTypes, ToggleMade, Unmount, Toggles
<1> QED BY <1>1, <1>2

LEMMA SavesSame ==
  ASSUME UNCHANGED saves
  PROVE  SavesGoOn
BY DEF SavesGoOn

LEMMA LoadsSame ==
  ASSUME UNCHANGED loads
  PROVE  LoadsGoOn
BY DEF LoadsGoOn

\* Versions only grow, and with them what others wrote.
ServerGoesOn == \A g \in Guilds :
  \/ server'[g].version = server[g].version /\ server'[g].others = server[g].others
  \/ server'[g].version > server[g].version /\ server'[g].others <= server'[g].version

LEMMA ServerSame ==
  ASSUME UNCHANGED server
  PROVE  ServerGoesOn
BY DEF ServerGoesOn

\* What is known of the versions is kept, part by part.
LEMMA OthersStayCounted ==
  ASSUME PageTypes, OthersCounted, ServerGoesOn
  PROVE  OthersCounted'
BY DEF OthersCounted, ServerGoesOn

LEMMA LoadsKept ==
  ASSUME PageTypes, PageTypes', LoadsFit, ServerGoesOn, LoadsGoOn
  PROVE  LoadsFit'
<1> SUFFICES ASSUME NEW l \in LoadSlots, loads'[l].at = "read"
             PROVE  loads'[l].got <= server'[loads'[l].guild].version
  BY DEF LoadsFit
<1>1. /\ loads[l].at = "read" /\ loads'[l].guild = loads[l].guild
      /\ loads'[l].got = loads[l].got /\ loads[l].got <= server[loads[l].guild].version
  BY DEF LoadsGoOn, LoadsFit
<1>2. loads[l].guild \in Guilds /\ loads[l].got \in Nat
  BY <1>1 DEF PageTypes, LoadsMade, Loads
<1>3. server'[loads[l].guild].version >= server[loads[l].guild].version
  BY <1>2 DEF ServerGoesOn, PageTypes
<1>4. server[loads[l].guild].version \in Nat /\ server'[loads[l].guild].version \in Nat
  BY <1>2 DEF PageTypes
<1> QED BY <1>1, <1>2, <1>3, <1>4

LEMMA SavesKept ==
  ASSUME PageTypes, PageTypes', SavesFit, ServerGoesOn, SavesGoOn
  PROVE  SavesFit'
<1> SUFFICES ASSUME NEW s \in SaveSlots, ~saves'[s].late, saves'[s].at \in {"sent", "accepted"}
             PROVE  /\ saves'[s].at = "sent" => Suits(saves[s].expected, saves[s].guild, saves[s].read)'
                    /\ saves'[s].at = "accepted" => Suits(saves[s].got, saves[s].guild, saves[s].read)'
  BY DEF SavesFit, SaveFits
<1>1. /\ saves'[s].at = saves[s].at /\ saves'[s].guild = saves[s].guild
      /\ saves'[s].expected = saves[s].expected /\ saves'[s].got = saves[s].got
      /\ saves'[s].read = saves[s].read /\ saves'[s].late = saves[s].late
  BY DEF SavesGoOn
<1>2. /\ saves[s].guild \in Guilds /\ saves[s].expected \in Nat /\ saves[s].got \in Nat
      /\ saves[s].read \in Nat
  BY <1>1 DEF PageTypes, SavesMade, Saves
<1>3. /\ saves[s].at = "sent" => Suits(saves[s].expected, saves[s].guild, saves[s].read)
      /\ saves[s].at = "accepted" => Suits(saves[s].got, saves[s].guild, saves[s].read)
  BY <1>1 DEF SavesFit, SaveFits
<1> DEFINE g == saves[s].guild
<1>4. /\ server[g].version \in Nat /\ server[g].others \in Nat
      /\ server'[g].version \in Nat /\ server'[g].others \in Nat
  BY <1>2 DEF PageTypes
<1>5. \/ server'[g].version = server[g].version /\ server'[g].others = server[g].others
      \/ server'[g].version > server[g].version /\ server'[g].others <= server'[g].version
  BY <1>2 DEF ServerGoesOn
<1> QED BY <1>1, <1>2, <1>3, <1>4, <1>5 DEF Suits

LEMMA HereKept ==
  ASSUME PageTypes, SavesHere, PageStays, SavesGoOn
  PROVE  SavesHere'
<1> SUFFICES ASSUME NEW s \in SaveSlots
             PROVE  SaveHere(saves[s])'
  BY DEF SavesHere
<1>1. SaveHere(saves[s])
  BY DEF SavesHere
<1> QED BY <1>1 DEF SaveHere, SavesGoOn, PageStays

LEMMA PageKept ==
  ASSUME PageTypes, PageTypes', PageFits, PageStays, ServerGoesOn, UNCHANGED versionRef
  PROVE  PageFits'
<1> SUFFICES ASSUME page'.of \in Guilds, ~page'.late
             PROVE  Suits(versionRef, page.of, page.read)' 
  BY DEF PageFits
<1>1. page'.of = page.of /\ page'.read = page.read /\ page'.late = page.late
  BY DashboardAssumption DEF PageStays
<1>2. Suits(versionRef, page.of, page.read)
  BY <1>1 DEF PageFits
<1>3. versionRef \in Nat /\ page.of \in Guilds /\ page.read \in Nat
  BY <1>1 DEF PageTypes, Pages
<1> DEFINE g == page.of
<1>4. /\ server[g].version \in Nat /\ server[g].others \in Nat
      /\ server'[g].version \in Nat /\ server'[g].others \in Nat
  BY <1>3 DEF PageTypes
<1>5. \/ server'[g].version = server[g].version /\ server'[g].others = server[g].others
      \/ server'[g].version > server[g].version /\ server'[g].others <= server'[g].version
  BY <1>3 DEF ServerGoesOn
<1> QED BY <1>1, <1>2, <1>3, <1>4, <1>5 DEF Suits

\* A step that shows no answer leaves what is known of the versions.
LEMMA SeenKept ==
  ASSUME PageTypes, PageTypes', VersionsSeen, UNCHANGED <<versionRef, blind>>,
         ServerGoesOn, PageStays, LoadsGoOn, SavesGoOn
  PROVE  VersionsSeen'
BY OthersStayCounted, LoadsKept, SavesKept, HereKept, PageKept DEF VersionsSeen, OthersSeen

-----------------------------------------------------------------------------
(* The invariant *)

LEMMA PageInitially == DashboardInit => PageInv
<1> SUFFICES ASSUME DashboardInit PROVE PageInv
  OBVIOUS
<1> USE DEF DashboardInit
<1>1. auth.guild = NoGuild /\ page \in Pages /\ LoadsMade /\ SavesMade /\ ToggleMade
  BY DEF Pages, Empty, LoadsMade, SavesMade, ToggleMade, NoLoad, NoSave, NoToggle, Loads, Saves,
     Toggles
<1>2. PageTypes
  BY <1>1 DEF PageTypes
<1>3. NothingUnselected
  BY DEF NothingUnselected, Empty, NoLoad, NoToggle
<1>4. VersionsSeen
  BY DashboardAssumption DEF VersionsSeen, OthersCounted, LoadsFit, PageFits, SavesFit, SavesHere, SaveFits, SaveHere,
         OthersSeen, Empty, NoSave, NoLoad
<1> QED BY <1>2, <1>3, <1>4 DEF PageInv

LEMMA PageStep == PageInv /\ [DashboardNext]_dashboardVars => PageInv'
<1> SUFFICES ASSUME PageTypes, NothingUnselected, VersionsSeen, [DashboardNext]_dashboardVars
             PROVE  PageTypes' /\ NothingUnselected' /\ VersionsSeen'
  BY DEF PageInv
<1>0. \A s \in SaveSlots : saves[s] \in Saves
  BY DEF PageTypes, SavesMade
<1>a. \A l \in LoadSlots : loads[l] \in Loads
  BY DEF PageTypes, LoadsMade
<1>1. ASSUME NEW g \in {First, NoGuild}, Authenticated(g)
      PROVE  PageTypes' /\ NothingUnselected' /\ VersionsSeen'
  <2>1. LoadDashboard(g)
    BY <1>1 DEF Authenticated
  <2>2. g \in Guilds \cup {NoGuild}
    BY DashboardAssumption DEF PageTypes
  <2>3. page' \in Pages /\ PageStays /\ page'.status # "ready"
        /\ LoadsMade' /\ LoadsGoOn /\ (g = NoGuild => loads' = loads)
    BY <2>1, <2>2, LoadAsked
  <2>a. PageTypes'
    BY <1>1, <2>2, <2>3 DEF PageTypes, Authenticated, SavesMade, ToggleMade
  <2>b. NothingUnselected'
    BY <1>1, <2>3, DashboardAssumption DEF NothingUnselected, Authenticated, PageTypes
  <2>c. VersionsSeen'
    BY <1>1, <2>3, <2>a, ServerSame, SeenKept, SavesSame DEF Authenticated
  <2> QED BY <2>a, <2>b, <2>c
<1>2. ASSUME NotAuthenticated
      PROVE  PageTypes' /\ NothingUnselected' /\ VersionsSeen'
  <2>a. PageTypes'
    BY <1>2 DEF PageTypes, NotAuthenticated, LoadsMade, SavesMade, ToggleMade
  <2>b. NothingUnselected'
    BY <1>2 DEF NothingUnselected, NotAuthenticated, PageTypes
  <2>c. VersionsSeen'
    BY <1>2, <2>a, LoadsSame, ServerSame, SeenKept, SavesSame DEF NotAuthenticated, PageStays
  <2> QED BY <2>a, <2>b, <2>c
<1>3. ASSUME NEW l \in LoadSlots, ReadModules(l)
      PROVE  PageTypes' /\ NothingUnselected' /\ VersionsSeen'
  <2> DEFINE r == [loads[l] EXCEPT !.at = "listed", !.enabled = server[loads[l].guild].enabled]
  <2>1. loads[l].guild \in Guilds
    BY <1>3 DEF PageTypes, LoadsMade, ReadModules
  <2>2. r \in Loads /\ r.guild = loads[l].guild /\ r.at # "read"
    BY <1>a, <2>1 DEF Loads, PageTypes
  <2>3. loads' = [loads EXCEPT ![l] = r]
    BY <1>3 DEF ReadModules
  <2>4. LoadsMade' /\ LoadsGoOn
    BY <2>1, <2>2, <2>3, LoadChanged
  <2>a. PageTypes'
    BY <1>3, <2>4 DEF PageTypes, ReadModules, SavesMade, ToggleMade
  <2>b. NothingUnselected'
    BY <1>3 DEF NothingUnselected, ReadModules, PageTypes, LoadsMade
  <2>c. VersionsSeen'
    BY <2>a, <2>4, ServerSame, <1>3, SeenKept, SavesSame DEF ReadModules, PageStays
  <2> QED BY <2>a, <2>b, <2>c
<1>4. ASSUME NEW l \in LoadSlots, ReadValues(l)
      PROVE  PageTypes' /\ NothingUnselected' /\ VersionsSeen'
  <2> DEFINE r == [loads[l] EXCEPT !.at = "values", !.shown = server[loads[l].guild].version]
  <2>1. loads[l].guild \in Guilds
    BY <1>4 DEF PageTypes, LoadsMade, ReadValues
  <2>2. r \in Loads /\ r.guild = loads[l].guild /\ r.at # "read"
    BY <1>a, <2>1 DEF Loads, PageTypes
  <2>3. loads' = [loads EXCEPT ![l] = r]
    BY <1>4 DEF ReadValues
  <2>4. LoadsMade' /\ LoadsGoOn
    BY <2>1, <2>2, <2>3, LoadChanged
  <2>a. PageTypes'
    BY <1>4, <2>4 DEF PageTypes, ReadValues, SavesMade, ToggleMade
  <2>b. NothingUnselected'
    BY <1>4 DEF NothingUnselected, ReadValues, PageTypes, LoadsMade
  <2>c. VersionsSeen'
    BY <1>4, <2>4, <2>a, ServerSame, SeenKept, SavesSame DEF ReadValues, PageStays
  <2> QED BY <2>a, <2>b, <2>c
<1>26. ASSUME NEW l \in LoadSlots, ReadVersion(l)
      PROVE  PageTypes' /\ NothingUnselected' /\ VersionsSeen'
  <2> DEFINE r == [loads[l] EXCEPT !.at = "read", !.got = server[loads[l].guild].version]
  <2>1. loads[l].guild \in Guilds
    BY <1>26 DEF PageTypes, LoadsMade, ReadVersion
  <2>2. r \in Loads /\ r.guild = loads[l].guild /\ r.got = server[r.guild].version
    BY <1>a, <2>1 DEF Loads, PageTypes
  <2>3. loads' = [loads EXCEPT ![l] = r]
    BY <1>26 DEF ReadVersion
  <2>4. LoadsMade'
    BY <2>1, <2>2, <2>3, LoadChanged
  <2>a. PageTypes'
    BY <1>26, <2>4 DEF PageTypes, ReadVersion, SavesMade, ToggleMade
  <2>b. NothingUnselected'
    BY <1>26 DEF NothingUnselected, ReadVersion, PageTypes, LoadsMade
  <2>c. VersionsSeen'
    <3>1. \A k \in LoadSlots : loads'[k] = IF k = l THEN r ELSE loads[k]
      BY <2>3 DEF PageTypes, LoadsMade
    <3>2. LoadsFit'
      <4> SUFFICES ASSUME NEW k \in LoadSlots, loads'[k].at = "read"
                   PROVE  loads'[k].got <= server'[loads'[k].guild].version
        BY DEF LoadsFit
      <4>1. server' = server
        BY <1>26 DEF ReadVersion
      <4>2. CASE k = l
        <5>1. loads'[k].got = server[loads'[k].guild].version /\ loads'[k].guild \in Guilds
          BY <2>1, <2>2, <3>1, <4>2
        <5>2. server[loads'[k].guild].version \in Nat
          BY <5>1 DEF PageTypes
        <5> QED BY <4>1, <5>1, <5>2
      <4>3. CASE k # l
        BY <3>1, <4>1, <4>3 DEF VersionsSeen, LoadsFit
      <4> QED BY <4>2, <4>3
    <3>3. PageStays /\ SavesGoOn /\ ServerGoesOn /\ UNCHANGED versionRef /\ UNCHANGED blind
      BY <1>26, ServerSame, SavesSame DEF ReadVersion, PageStays
    <3> QED BY <2>a, <3>2, <3>3, OthersStayCounted, SavesKept, HereKept, PageKept
           DEF VersionsSeen, OthersSeen
  <2> QED BY <2>a, <2>b, <2>c
<1>5. ASSUME NEW l \in LoadSlots, ModuleNotFound(l)
      PROVE  PageTypes' /\ NothingUnselected' /\ VersionsSeen'
  <2>1. NoLoad \in Loads /\ NoLoad.at = "none" /\ loads' = [loads EXCEPT ![l] = NoLoad]
    BY <1>5 DEF NoLoad, Loads, ModuleNotFound
  <2>2. LoadsMade' /\ LoadsGoOn
    BY <2>1, LoadChanged
  <2>3. SavesMade' /\ SavesGoOn /\ ToggleMade' /\ toggle'.at = toggle.at
    BY <1>5, FormUnmounts DEF ModuleNotFound
  <2>4. page' \in Pages /\ page'.of = NoGuild /\ page'.status = "error"
    BY <1>5, DashboardAssumption DEF ModuleNotFound, Empty, Pages
  <2>a. PageTypes'
    BY <1>5, <2>2, <2>3, <2>4 DEF PageTypes, ModuleNotFound
  <2>b. NothingUnselected'
    BY <1>5, <2>1, <2>3, <2>4 DEF NothingUnselected, ModuleNotFound, PageTypes, LoadsMade
  <2>c. VersionsSeen'
    BY <1>5, <2>2, <2>3, <2>4, <2>a, ServerSame, SeenKept DEF ModuleNotFound, PageStays
  <2> QED BY <2>a, <2>b, <2>c
<1>6. ASSUME NEW l \in LoadSlots, LoadFails(l)
      PROVE  PageTypes' /\ NothingUnselected' /\ VersionsSeen'
  <2>1. NoLoad \in Loads /\ NoLoad.at = "none" /\ loads' = [loads EXCEPT ![l] = NoLoad]
    BY <1>6 DEF NoLoad, Loads, LoadFails
  <2>2. LoadsMade' /\ LoadsGoOn
    BY <2>1, LoadChanged
  <2>3. SavesMade' /\ SavesGoOn /\ ToggleMade' /\ toggle'.at = toggle.at
    BY <1>6, FormUnmounts DEF LoadFails
  <2>4. page' \in Pages /\ page'.of = NoGuild /\ page'.status = "error"
    BY <1>6, DashboardAssumption DEF LoadFails, Empty, Pages
  <2>a. PageTypes'
    BY <1>6, <2>2, <2>3, <2>4 DEF PageTypes, LoadFails
  <2>b. NothingUnselected'
    BY <1>6, <2>1, <2>3, <2>4 DEF NothingUnselected, LoadFails, PageTypes, LoadsMade
  <2>c. VersionsSeen'
    BY <1>6, <2>2, <2>3, <2>4, <2>a, ServerSame, SeenKept DEF LoadFails, PageStays
  <2> QED BY <2>a, <2>b, <2>c
<1>7. ASSUME NEW l \in LoadSlots, Ready(l)
      PROVE  PageTypes' /\ NothingUnselected' /\ VersionsSeen'
  <2>1. NoLoad \in Loads /\ NoLoad.at = "none" /\ loads' = [loads EXCEPT ![l] = NoLoad]
    BY <1>7 DEF NoLoad, Loads, Ready
  <2>2. LoadsMade' /\ LoadsGoOn
    BY <2>1, LoadChanged
  <2>3. /\ loads[l].guild \in Guilds /\ loads[l].got \in Nat /\ loads[l].shown \in Nat
        /\ loads[l].enabled \in BOOLEAN /\ loads[l].at = "read"
    BY <1>a, <1>7 DEF Loads, LoadsMade, PageTypes, Ready
  <2>4. /\ page' \in Pages /\ page'.of = loads[l].guild /\ page'.read = loads[l].got
        /\ ~page'.late /\ versionRef' = loads[l].got
    BY <1>7, <2>3, DashboardAssumption DEF Ready, Pages
  <2>5. \A s \in SaveSlots : saves'[s] \in Saves /\ ~saves'[s].here
       /\ saves'[s].at = saves[s].at /\ saves'[s].guild = saves[s].guild
       /\ saves'[s].expected = saves[s].expected /\ saves'[s].got = saves[s].got
       /\ saves'[s].read = saves[s].read /\ saves'[s].late = saves[s].late
    BY <1>0, <1>7 DEF Ready, Saves
  <2>6. saves' \in [SaveSlots -> Saves]
    BY <1>7, <2>5 DEF Ready
  <2>7. SavesMade'
    BY <2>5, <2>6 DEF SavesMade, PageTypes
  <2>8. server' = server /\ blind' = blind
    BY <1>7 DEF Ready
  <2>a. PageTypes'
    BY <1>7, <2>2, <2>3, <2>4, <2>7 DEF PageTypes, Ready, ToggleMade
  <2>b. NothingUnselected'
    BY <1>7 DEF NothingUnselected, Ready, PageTypes
  <2>c. VersionsSeen'
    <3>1. OthersCounted' /\ LoadsFit' /\ OthersSeen'
      BY <2>2, <2>8, <2>a, LoadsKept, OthersStayCounted, ServerSame DEF VersionsSeen, OthersSeen
    <3>2. PageFits'
      BY <2>3, <2>4, <2>8 DEF PageFits, Suits, VersionsSeen, LoadsFit, OthersCounted, PageTypes
    <3>3. SavesFit'
      BY <2>5, <2>8 DEF SavesFit, SaveFits, Suits, VersionsSeen
    <3>4. SavesHere'
      BY <2>5 DEF SavesHere, SaveHere
    <3> QED BY <3>1, <3>2, <3>3, <3>4 DEF VersionsSeen
  <2> QED BY <2>a, <2>b, <2>c
<1>8. ASSUME NEW s \in SaveSlots, Save(s)
      PROVE  PageTypes' /\ NothingUnselected' /\ VersionsSeen'
  <2> DEFINE save == [NoSave EXCEPT !.at = "sent", !.guild = auth.guild,
                                    !.expected = versionRef, !.mounted = TRUE]
             own == [save EXCEPT !.here = TRUE, !.seen = page.shown, !.read = page.read,
                                 !.late = page.late]
             r == IF page.of # auth.guild THEN save ELSE own
  <2>1. auth.guild \in Guilds
    BY <1>8 DEF Save, MaySave, Shown, SignedIn, NothingUnselected, PageTypes
  <2>0. /\ page.late \in BOOLEAN /\ page.shown \in Nat /\ page.read \in Nat
        /\ versionRef \in Nat
    BY DEF PageTypes, Pages
  <2>2. /\ r \in Saves /\ r.guild = auth.guild /\ r.expected = versionRef /\ r.at = "sent"
        /\ (page.of # auth.guild => r.late /\ ~r.here)
        /\ (page.of = auth.guild => r.read = page.read /\ r.late = page.late)
    <3>1. /\ save \in Saves /\ save.guild = auth.guild /\ save.expected = versionRef
          /\ save.at = "sent" /\ save.late /\ ~save.here
      BY <2>0, <2>1 DEF NoSave, Saves
    <3> HIDE DEF save
    <3>2. /\ own \in Saves /\ own.guild = auth.guild /\ own.expected = versionRef
          /\ own.at = "sent" /\ own.read = page.read /\ own.late = page.late
      BY <2>0, <3>1 DEF Saves
    <3> HIDE DEF own
    <3> QED BY <3>1, <3>2
  <2>3. saves' = [saves EXCEPT ![s] = r]
    BY <1>8 DEF Save
  <2>4. SavesMade'
    BY <2>1, <2>2, <2>3, SaveChanged
  <2>6. \A t \in SaveSlots : saves'[t] = IF t = s THEN r ELSE saves[t]
    BY <2>3 DEF PageTypes, SavesMade
  <2>7. page' = page /\ server' = server /\ versionRef' = versionRef /\ UNCHANGED <<loads, blind>>
    BY <1>8 DEF Save
  <2>a. PageTypes'
    BY <1>8, <2>4 DEF PageTypes, Save, LoadsMade, ToggleMade
  <2>b. NothingUnselected'
    BY <1>8 DEF Save, NothingUnselected
  <2> HIDE DEF r
  <2>c. VersionsSeen'
    <3>1. SaveFits(r)
      BY <2>1, <2>2 DEF SaveFits, VersionsSeen, PageFits
    <3>2. SaveHere(r)
      BY <2>1, <2>2 DEF SaveHere
    <3>3. SavesFit'
      BY <2>6, <2>7, <3>1 DEF SavesFit, SaveFits, Suits, VersionsSeen
    <3>4. SavesHere'
      BY <2>6, <2>7, <3>2 DEF SavesHere, SaveHere, VersionsSeen
    <3> QED BY <2>7, <3>3, <3>4 DEF VersionsSeen, OthersCounted, LoadsFit, PageFits, Suits, OthersSeen
  <2> QED BY <2>a, <2>b, <2>c
<1>9. ASSUME NEW s \in SaveSlots, PatchSettings(s)
      PROVE  PageTypes' /\ NothingUnselected' /\ VersionsSeen'
  <2> DEFINE g == saves[s].guild
  <2>0. /\ g \in Guilds /\ saves[s].expected \in Nat /\ saves[s].at = "sent"
        /\ saves[s].read \in Nat /\ saves[s].seen \in Nat
    BY <1>0, <1>9 DEF PatchSettings, Saves, SavesMade, PageTypes
  <2>1. CASE Accepts(g, saves[s].expected)
    <3>1. /\ server' = [server EXCEPT ![g].version = @ + 1]
          /\ saves' = [saves EXCEPT ![s].at = "accepted", ![s].got = server[g].version + 1]
          /\ blind' = blind \cup Overwritten(s)
          /\ UNCHANGED <<page, versionRef, loads>>
      BY <1>9, <2>1 DEF PatchSettings
    <3>a. server[g].version + 1 \in Nat
      BY <2>0 DEF PageTypes
    <3> DEFINE r == [saves[s] EXCEPT !.at = "accepted", !.got = server[g].version + 1]
    <3>2. /\ r \in Saves /\ r.at = "accepted" /\ r.got = server[g].version + 1
          /\ r.guild = g /\ r.here = saves[s].here /\ r.read = saves[s].read
          /\ r.late = saves[s].late
      BY <1>0, <3>a DEF Saves
    <3>b. saves' = [saves EXCEPT ![s] = r]
      BY <3>1
    <3>c. \A t \in SaveSlots : saves'[t] = IF t = s THEN r ELSE saves[t]
      BY <3>b DEF PageTypes, SavesMade
    <3> HIDE DEF r
    <3>3. SavesMade'
      BY <2>0, <3>b, <3>2, SaveChanged
    <3>4. /\ server' \in [Guilds -> [version : Nat, others : Nat, enabled : BOOLEAN]]
          /\ ServerGoesOn
          /\ server'[g].version = server[g].version + 1 /\ server'[g].others = server[g].others
      BY <2>0, <3>1 DEF PageTypes, OthersCounted, VersionsSeen, ServerGoesOn
    <3>6. ~saves[s].late => server[g].others <= saves[s].read
      BY <2>0, <2>1 DEF Accepts, VersionsSeen, SavesFit, SaveFits, Suits
    <3>5. OthersSeen'
      <4>1. "unseen" \notin Overwritten(s)
        <5>1. server[g].others \in Nat
          BY <2>0 DEF PageTypes
        <5>2. CASE server[g].others <= saves[s].seen
          <6>1. Overwritten(s) = {}
            BY <2>0, <5>1, <5>2 DEF Overwritten
          <6> QED BY <6>1
        <5>3. CASE server[g].others > saves[s].seen /\ saves[s].late
          <6>1. Overwritten(s) = {"late"}
            BY <2>0, <5>1, <5>3 DEF Overwritten
          <6> QED BY <6>1
        <5>4. CASE server[g].others > saves[s].seen /\ ~saves[s].late
          <6>1. Overwritten(s) = {"torn"}
            BY <2>0, <3>6, <5>1, <5>4 DEF Overwritten
          <6> QED BY <6>1
        <5> QED BY <2>0, <5>1, <5>2, <5>3, <5>4
      <4> QED BY <3>1, <4>1 DEF VersionsSeen, OthersSeen
    <3>7. PageTypes'
      BY <1>9, <3>3, <3>4 DEF PatchSettings, PageTypes, LoadsMade, ToggleMade
    <3>8. SavesFit'
      <4> SUFFICES ASSUME NEW t \in SaveSlots PROVE SaveFits(saves[t])'
        BY DEF SavesFit
      <4>1. CASE t = s
        BY <2>0, <3>2, <3>4, <3>6, <3>7, <3>c, <4>1 DEF SaveFits, Suits, PageTypes
      <4>2. CASE t # s
        <5>1. saves'[t] = saves[t] /\ SaveFits(saves[t])
          BY <3>c, <4>2 DEF VersionsSeen, SavesFit
        <5>2. CASE saves[t].at \in {"sent", "accepted"}
          <6>1. /\ saves[t].guild \in Guilds /\ saves[t].expected \in Nat
                /\ saves[t].got \in Nat /\ saves[t].read \in Nat
            BY <1>0, <5>2 DEF PageTypes, SavesMade, Saves
          <6> DEFINE h == saves[t].guild
          <6>2. /\ server[h].version \in Nat /\ server[h].others \in Nat
                /\ server'[h].version \in Nat /\ server'[h].others \in Nat
            BY <3>7, <6>1 DEF PageTypes
          <6>3. \/ server'[h].version = server[h].version /\ server'[h].others = server[h].others
                \/ server'[h].version > server[h].version /\ server'[h].others <= server'[h].version
            BY <3>4, <6>1 DEF ServerGoesOn
          <6> QED BY <5>1, <6>1, <6>2, <6>3 DEF SaveFits, Suits
        <5>3. CASE saves[t].at \notin {"sent", "accepted"}
          BY <5>1, <5>3 DEF SaveFits
        <5> QED BY <5>2, <5>3
      <4> QED BY <4>1, <4>2
    <3>9. SavesHere'
      <4> SUFFICES ASSUME NEW t \in SaveSlots PROVE SaveHere(saves[t])'
        BY DEF SavesHere
      <4>1. SaveHere(saves[t]) /\ page' = page
        BY <3>1 DEF VersionsSeen, SavesHere
      <4>2. CASE t = s
        <5>1. saves'[t] = r
          BY <3>c, <4>2
        <5>2. SaveHere(r)
          BY <2>0, <3>2, <4>1, <4>2 DEF SaveHere
        <5> QED BY <4>1, <5>1, <5>2 DEF SaveHere
      <4>3. CASE t # s
        <5>1. saves'[t] = saves[t]
          BY <3>c, <4>3
        <5> QED BY <4>1, <5>1 DEF SaveHere
      <4> QED BY <4>2, <4>3
    <3>d. PageStays /\ LoadsGoOn
      BY <3>1, LoadsSame DEF PageStays
    <3>e. VersionsSeen'
      BY <3>1, <3>4, <3>5, <3>7, <3>8, <3>9, <3>d, OthersStayCounted, LoadsKept, PageKept
         DEF VersionsSeen
    <3> QED BY <1>9, <3>7, <3>e DEF PatchSettings, NothingUnselected
  <2>2. CASE ~Accepts(g, saves[s].expected)
    <3>1. UNCHANGED <<server, blind>> /\ saves' = [saves EXCEPT ![s].at = "refused"]
      BY <1>9, <2>2 DEF PatchSettings
    <3>2. SavesMade' /\ SavesGoOn
      BY <1>0, <1>9, <2>0, <3>1 DEF SavesMade, PageTypes, Saves, SavesGoOn, PatchSettings
    <3>3. PageTypes'
      BY <1>9, <3>1, <3>2 DEF PatchSettings, PageTypes, LoadsMade, ToggleMade
    <3>4. VersionsSeen'
      BY <1>9, <3>1, <3>2, <3>3, LoadsSame, ServerSame, SeenKept DEF PatchSettings, PageStays
    <3> QED BY <1>9, <3>3, <3>4 DEF PatchSettings, NothingUnselected
  <2> QED BY <2>1, <2>2
<1>10. ASSUME NEW s \in SaveSlots, SaveSettings(s)
      PROVE  PageTypes' /\ NothingUnselected' /\ VersionsSeen'
  <2>1. NoSave \in Saves /\ NoSave.at = "none" /\ saves' = [saves EXCEPT ![s] = NoSave]
    BY <1>10 DEF NoSave, Saves, SaveSettings
  <2>2. SavesMade'
    BY <2>1, SaveChanged
  <2>3. SavesGoOn
    BY <1>0, <2>1 DEF SavesGoOn, PageTypes, SavesMade
  <2>4. saves[s].guild \in Guilds /\ saves[s].got \in Nat /\ saves[s].at = "accepted"
    BY <1>0, <1>10 DEF SaveSettings, Saves, SavesMade, PageTypes
  <2>5. /\ page' \in Pages /\ page'.of = page.of /\ page'.read = page.read
        /\ page'.late = (page.late \/ ~saves[s].here) /\ page'.status = page.status
        /\ versionRef' = saves[s].got
    BY <1>0, <1>10 DEF SaveSettings, Pages, PageTypes, Saves
  <2>6. server' = server /\ UNCHANGED <<loads, blind>>
    BY <1>10 DEF SaveSettings
  <2>a. PageTypes'
    BY <1>10, <2>2, <2>4, <2>5 DEF PageTypes, SaveSettings, LoadsMade, ToggleMade
  <2>b. NothingUnselected'
    BY <1>10, <2>5 DEF NothingUnselected, SaveSettings
  <2>c. VersionsSeen'
    <3>1. PageFits'
      <4> SUFFICES ASSUME page.of \in Guilds, ~page.late, saves[s].here
                   PROVE  Suits(versionRef, page.of, page.read)'
        BY <2>5 DEF PageFits
      <4>1. SaveHere(saves[s]) /\ SaveFits(saves[s])
        BY DEF VersionsSeen, SavesHere, SavesFit
      <4>2. page.of = saves[s].guild /\ page.read = saves[s].read /\ ~saves[s].late
        BY <2>4, <4>1, DashboardAssumption DEF SaveHere
      <4> QED BY <2>4, <2>5, <2>6, <4>1, <4>2 DEF SaveFits, Suits
    <3>2. SavesHere'
      <4> SUFFICES ASSUME NEW t \in SaveSlots PROVE SaveHere(saves[t])'
        BY DEF SavesHere
      <4>1. SaveHere(saves[t])
        BY DEF VersionsSeen, SavesHere
      <4> QED BY <2>3, <2>5, <4>1 DEF SaveHere, SavesGoOn
    <3>3. OthersCounted' /\ LoadsFit' /\ SavesFit' /\ OthersSeen'
      BY <2>3, <2>6, <2>a, LoadsSame, ServerSame, LoadsKept, SavesKept, OthersStayCounted
         DEF VersionsSeen, OthersSeen
    <3> QED BY <3>1, <3>2, <3>3 DEF VersionsSeen
  <2> QED BY <2>a, <2>b, <2>c
<1>11. ASSUME NEW s \in SaveSlots, SaveError(s)
      PROVE  PageTypes' /\ NothingUnselected' /\ VersionsSeen'
  <2>1. NoSave \in Saves /\ NoSave.at = "none" /\ saves' = [saves EXCEPT ![s] = NoSave]
    BY <1>11 DEF NoSave, Saves, SaveError
  <2>2. SavesMade'
    BY <2>1, SaveChanged
  <2>3. SavesGoOn
    BY <1>0, <2>1 DEF SavesGoOn, PageTypes, SavesMade
  <2>a. PageTypes'
    BY <1>11, <2>2 DEF PageTypes, SaveError, LoadsMade, ToggleMade
  <2>b. NothingUnselected'
    BY <1>11 DEF NothingUnselected, SaveError
  <2>c. VersionsSeen'
    BY <1>11, <2>3, <2>a, LoadsSame, ServerSame, SeenKept DEF SaveError, PageStays
  <2> QED BY <2>a, <2>b, <2>c
<1>12. ASSUME NEW g \in Guilds, SetSelectedGuild(g)
      PROVE  PageTypes' /\ NothingUnselected' /\ VersionsSeen'
  <2>1. LoadDashboard(g)
    BY <1>12 DEF SetSelectedGuild
  <2>2. g \in Guilds \cup {NoGuild}
    BY DashboardAssumption DEF PageTypes
  <2>3. page' \in Pages /\ PageStays /\ page'.status # "ready"
        /\ LoadsMade' /\ LoadsGoOn /\ (g = NoGuild => loads' = loads)
    BY <2>1, <2>2, LoadAsked
  <2>4. SavesMade' /\ SavesGoOn /\ ToggleMade' /\ toggle'.at = toggle.at
    BY <1>12, FormUnmounts DEF SetSelectedGuild
  <2>a. PageTypes'
    BY <1>12, <2>3, <2>4 DEF PageTypes, SetSelectedGuild
  <2>b. NothingUnselected'
    BY <1>12, DashboardAssumption DEF NothingUnselected, SetSelectedGuild, SignedIn
  <2>c. VersionsSeen'
    BY <1>12, <2>3, <2>4, <2>a, ServerSame, SeenKept DEF SetSelectedGuild
  <2> QED BY <2>a, <2>b, <2>c
<1>13. ASSUME NEW g \in Guilds, OtherSaves(g)
      PROVE  PageTypes' /\ NothingUnselected' /\ VersionsSeen'
  <2>1. /\ server' \in [Guilds -> [version : Nat, others : Nat, enabled : BOOLEAN]]
        /\ ServerGoesOn
    <3>1. server' = [server EXCEPT ![g].version = @ + 1, ![g].others = server[g].version + 1]
      BY <1>13 DEF OtherSaves
    <3>2. server[g].version \in Nat
      BY DEF PageTypes
    <3>3. \A h \in Guilds : h # g => server'[h] = server[h]
      BY <3>1 DEF PageTypes
    <3> DEFINE r == [server[g] EXCEPT !.version = server[g].version + 1,
                                       !.others = server[g].version + 1]
    <3>a. server[g] \in [version : Nat, others : Nat, enabled : BOOLEAN]
      BY DEF PageTypes
    <3>b. /\ r \in [version : Nat, others : Nat, enabled : BOOLEAN]
          /\ r.version = server[g].version + 1 /\ r.others = server[g].version + 1
      <4> DEFINE v == server[g].version + 1
                 e == server[g]
      <4>1. v \in Nat /\ e \in [version : Nat, others : Nat, enabled : BOOLEAN]
        BY <3>2, <3>a
      <4> HIDE DEF v, e
      <4>2. LET q == [e EXCEPT !.version = v, !.others = v] IN
              /\ q \in [version : Nat, others : Nat, enabled : BOOLEAN]
              /\ q.version = v /\ q.others = v
        BY <4>1
      <4> QED BY <4>2 DEF v, e
    <3>c. server' = [server EXCEPT ![g] = r]
      BY <3>1 DEF PageTypes
    <3> HIDE DEF r
    <3>4. server'[g].version = server[g].version + 1 /\ server'[g].others = server[g].version + 1
      BY <3>b, <3>c DEF PageTypes
    <3>5. ServerGoesOn
      BY <3>2, <3>3, <3>4 DEF ServerGoesOn
    <3>6. server' \in [Guilds -> [version : Nat, others : Nat, enabled : BOOLEAN]]
      BY <3>b, <3>c DEF PageTypes
    <3> QED BY <3>5, <3>6
  <2>a. PageTypes'
    BY <1>13, <2>1 DEF OtherSaves, PageTypes, LoadsMade, SavesMade, ToggleMade
  <2>b. NothingUnselected'
    BY <1>13 DEF NothingUnselected, OtherSaves
  <2>c. VersionsSeen'
    BY <1>13, <2>1, <2>a, LoadsSame, SavesSame, SeenKept DEF OtherSaves, PageStays
  <2> QED BY <2>a, <2>b, <2>c
<1>14. ASSUME NEW g \in Guilds, OtherSwitches(g)
      PROVE  PageTypes' /\ NothingUnselected' /\ VersionsSeen'
  <2>1. /\ server' \in [Guilds -> [version : Nat, others : Nat, enabled : BOOLEAN]]
        /\ ServerGoesOn
    BY <1>14 DEF OtherSwitches, PageTypes, ServerGoesOn
  <2>a. PageTypes'
    BY <1>14, <2>1 DEF OtherSwitches, PageTypes, LoadsMade, SavesMade, ToggleMade
  <2>b. NothingUnselected'
    BY <1>14, DashboardAssumption DEF NothingUnselected, OtherSwitches, StreamOpen
  <2>c. VersionsSeen'
    BY <1>14, <2>1, <2>a, LoadsSame, SeenKept, SavesSame DEF OtherSwitches, PageStays
  <2> QED BY <2>a, <2>b, <2>c
<1>15. ASSUME Retry
      PROVE  PageTypes' /\ NothingUnselected' /\ VersionsSeen'
  <2>1. LoadDashboard(auth.guild)
    BY <1>15 DEF Retry
  <2>2. auth.guild \in Guilds \cup {NoGuild}
    BY DashboardAssumption DEF PageTypes
  <2>3. page' \in Pages /\ PageStays /\ page'.status # "ready"
        /\ LoadsMade' /\ LoadsGoOn /\ (auth.guild = NoGuild => loads' = loads)
    BY <2>1, <2>2, LoadAsked
  <2>a. PageTypes'
    BY <1>15, <2>3 DEF PageTypes, Retry, SavesMade, ToggleMade
  <2>b. NothingUnselected'
    BY <1>15, <2>3 DEF NothingUnselected, Retry, SignedIn
  <2>c. VersionsSeen'
    BY <1>15, <2>3, <2>a, ServerSame, SeenKept, SavesSame DEF Retry
  <2> QED BY <2>a, <2>b, <2>c
<1>16. ASSUME ModuleState
      PROVE  PageTypes' /\ NothingUnselected' /\ VersionsSeen'
  <2>1. LoadDashboard(auth.guild)
    BY <1>16 DEF ModuleState
  <2>2. auth.guild \in Guilds \cup {NoGuild}
    BY DashboardAssumption DEF PageTypes
  <2>3. page' \in Pages /\ PageStays /\ page'.status # "ready"
        /\ LoadsMade' /\ LoadsGoOn /\ (auth.guild = NoGuild => loads' = loads)
    BY <2>1, <2>2, LoadAsked
  <2>4. SavesMade' /\ SavesGoOn /\ ToggleMade' /\ toggle'.at = toggle.at
    BY <1>16, FormUnmounts DEF ModuleState
  <2>a. PageTypes'
    BY <1>16, <2>3, <2>4 DEF PageTypes, ModuleState
  <2>b. NothingUnselected'
    BY <1>16, <2>3, <2>4 DEF NothingUnselected, ModuleState
  <2>c. VersionsSeen'
    BY <1>16, <2>3, <2>4, <2>a, ServerSame, SeenKept DEF ModuleState
  <2> QED BY <2>a, <2>b, <2>c
<1>17. ASSUME SignOut
      PROVE  PageTypes' /\ NothingUnselected' /\ VersionsSeen'
  <2>1. SavesMade' /\ SavesGoOn /\ ToggleMade' /\ toggle'.at = toggle.at
    BY <1>17, FormUnmounts DEF SignOut
  <2>a. PageTypes'
    BY <1>17, <2>1 DEF PageTypes, SignOut, LoadsMade
  <2>b. NothingUnselected'
    BY <1>17 DEF NothingUnselected, SignOut
  <2>c. VersionsSeen'
    BY <1>17, <2>1, <2>a, LoadsSame, ServerSame, SeenKept DEF SignOut, PageStays
  <2> QED BY <2>a, <2>b, <2>c
<1>18. ASSUME UpdateValue
      PROVE  PageTypes' /\ NothingUnselected' /\ VersionsSeen'
  <2>a. PageTypes'
    BY <1>18 DEF PageTypes, UpdateValue, LoadsMade, SavesMade, ToggleMade
  <2>b. NothingUnselected'
    BY <1>18 DEF NothingUnselected, UpdateValue
  <2>c. VersionsSeen'
    BY <1>18, <2>a, LoadsSame, ServerSame, SeenKept, SavesSame DEF UpdateValue, PageStays
  <2> QED BY <2>a, <2>b, <2>c
<1>19. ASSUME SaveInvalid
      PROVE  PageTypes' /\ NothingUnselected' /\ VersionsSeen'
  <2>a. PageTypes'
    BY <1>19 DEF PageTypes, SaveInvalid, LoadsMade, SavesMade, ToggleMade
  <2>b. NothingUnselected'
    BY <1>19 DEF NothingUnselected, SaveInvalid
  <2>c. VersionsSeen'
    BY <1>19, <2>a, LoadsSame, ServerSame, SeenKept, SavesSame DEF SaveInvalid, PageStays
  <2> QED BY <2>a, <2>b, <2>c
<1>20. ASSUME ToggleEnabled
      PROVE  PageTypes' /\ NothingUnselected' /\ VersionsSeen'
  <2>1. auth.guild \in Guilds
    BY <1>20 DEF ToggleEnabled, Shown, SignedIn, NothingUnselected, PageTypes
  <2>2. ToggleMade'
    BY <1>20, <2>1 DEF ToggleEnabled, ToggleMade, Toggles, NoToggle
  <2>a. PageTypes'
    BY <1>20, <2>2 DEF PageTypes, ToggleEnabled, LoadsMade, SavesMade
  <2>b. NothingUnselected'
    BY <1>20, <2>1, DashboardAssumption DEF NothingUnselected, ToggleEnabled, Shown, SignedIn
  <2>c. VersionsSeen'
    BY <1>20, <2>a, LoadsSame, ServerSame, SeenKept, SavesSame DEF ToggleEnabled, PageStays
  <2> QED BY <2>a, <2>b, <2>c
<1>21. ASSUME Confirm
      PROVE  PageTypes' /\ NothingUnselected' /\ VersionsSeen'
  <2>1. ToggleMade'
    BY <1>21 DEF Confirm, ToggleMade, PageTypes, Toggles
  <2>a. PageTypes'
    BY <1>21, <2>1 DEF PageTypes, Confirm, LoadsMade, SavesMade
  <2>b. NothingUnselected'
    BY <1>21 DEF NothingUnselected, Confirm
  <2>c. VersionsSeen'
    BY <1>21, <2>a, LoadsSame, ServerSame, SeenKept, SavesSame DEF Confirm, PageStays
  <2> QED BY <2>a, <2>b, <2>c
<1>22. ASSUME SetModuleEnabled
      PROVE  PageTypes' /\ NothingUnselected' /\ VersionsSeen'
  <2>1. LoadDashboard(toggle.guild)
    BY <1>22 DEF SetModuleEnabled
  <2>2. toggle.guild \in Guilds \cup {NoGuild}
    BY DashboardAssumption DEF PageTypes, ToggleMade, Toggles
  <2>3. page' \in Pages /\ PageStays /\ page'.status # "ready"
        /\ LoadsMade' /\ LoadsGoOn /\ (toggle.guild = NoGuild => loads' = loads)
    BY <2>1, <2>2, LoadAsked
  <2>4. SavesMade' /\ SavesGoOn
    BY <1>22, FormLeaves DEF SetModuleEnabled
  <2>5. ToggleMade'
    BY <1>22 DEF SetModuleEnabled, ToggleMade, Toggles, NoToggle
  <2>a. PageTypes'
    BY <1>22, <2>3, <2>4, <2>5 DEF PageTypes, SetModuleEnabled
  <2>b. NothingUnselected'
    BY <1>22 DEF NothingUnselected, SetModuleEnabled
  <2>c. VersionsSeen'
    BY <1>22, <2>3, <2>4, <2>a, ServerSame, SeenKept DEF SetModuleEnabled
  <2> QED BY <2>a, <2>b, <2>c
<1>23. ASSUME ToggleFails
      PROVE  PageTypes' /\ NothingUnselected' /\ VersionsSeen'
  <2>1. ToggleMade' /\ toggle'.at = "none"
    BY <1>23 DEF ToggleFails, ToggleMade, Toggles, NoToggle
  <2>a. PageTypes'
    BY <1>23, <2>1 DEF PageTypes, ToggleFails, LoadsMade, SavesMade
  <2>b. NothingUnselected'
    BY <1>23, <2>1 DEF NothingUnselected, ToggleFails
  <2>c. VersionsSeen'
    BY <1>23, <2>a, LoadsSame, ServerSame, SeenKept, SavesSame DEF ToggleFails, PageStays
  <2> QED BY <2>a, <2>b, <2>c
<1>24. ASSUME NEW dependents \in BOOLEAN, SwitchModule(dependents)
      PROVE  PageTypes' /\ NothingUnselected' /\ VersionsSeen'
  <2>1. toggle.guild \in Guilds /\ toggle.at = "sent" /\ toggle.enabled \in BOOLEAN
    BY <1>24 DEF SwitchModule, PageTypes, ToggleMade, Toggles
  <2>2. /\ server' \in [Guilds -> [version : Nat, others : Nat, enabled : BOOLEAN]]
        /\ ServerGoesOn
    BY <1>24, <2>1 DEF SwitchModule, PageTypes, ServerGoesOn
  <2>3. ToggleMade'
    BY <1>24 DEF SwitchModule, ToggleMade, PageTypes, Toggles
  <2>a. PageTypes'
    BY <1>24, <2>2, <2>3 DEF PageTypes, SwitchModule, LoadsMade, SavesMade
  <2>b. NothingUnselected'
    BY <1>24, <2>1 DEF NothingUnselected, SwitchModule
  <2>c. VersionsSeen'
    BY <1>24, <2>2, <2>a, LoadsSame, SeenKept, SavesSame DEF SwitchModule, PageStays
  <2> QED BY <2>a, <2>b, <2>c
<1>25. CASE UNCHANGED dashboardVars
  <2>1. PageTypes'
    BY <1>25 DEF dashboardVars, PageTypes, LoadsMade, SavesMade, ToggleMade
  <2>2. NothingUnselected'
    BY <1>25 DEF dashboardVars, NothingUnselected
  <2>3. VersionsSeen'
    BY <1>25, <2>1, LoadsSame, ServerSame, SeenKept, SavesSame DEF dashboardVars, PageStays
  <2> QED BY <2>1, <2>2, <2>3
<1> QED BY <1>1, <1>2, <1>3, <1>4, <1>5, <1>6, <1>7, <1>8, <1>9, <1>10, <1>11, <1>12,
       <1>13, <1>14, <1>15, <1>16, <1>17, <1>18, <1>19, <1>20, <1>21, <1>22, <1>23, <1>24,
       <1>25, <1>26 DEF DashboardNext, LoadSteps, SaveSteps

\* Without a selected guild the dashboard loads, saves and switches nothing, and each
\* request knows its guild (App.tsx:54-88, GuildContext.tsx:14-37).
THEOREM PageInvariant == DashboardSpec => []PageInv
BY PageInitially, PageStep, PTL DEF DashboardSpec

\* Whatever the overlap of loads, saves and changes of guild, an accepted save overwrites a
\* change of others that its page did not show only in the two cases OthersSeen names
\* (App.tsx:188-206, 259-277, SharedModulePage.tsx:59-63, module-config.endpoints.ts:119-127).
THEOREM NothingOverwrittenUnseen == DashboardSpec => []OthersSeen
BY PageInvariant, PTL DEF PageInv, VersionsSeen

-----------------------------------------------------------------------------
(***************************************************************************)
(* The settings: registry, form, server and AppConfig                        *)
(***************************************************************************)

-----------------------------------------------------------------------------
(* The schema of what is at a path *)

SchemaPath(f, path) ==
  f = [i \in 0 .. Len(path) |-> IF i = 0 THEN appConfigSchema ELSE f[i - 1][path[i]]]

\* The walk along a path, as a choice of the function it is.
LEMMA SchemaAtDef ==
  ASSUME NEW path
  PROVE  SchemaAt(path) = (CHOOSE f : SchemaPath(f, path))[Len(path)]
BY Zenon DEF SchemaAt, SchemaPath

\* There is such a function, for a path of any length.
LEMMA SchemaPathExists ==
  ASSUME NEW path, Len(path) \in Nat
  PROVE  \E f : SchemaPath(f, path)
<1> DEFINE Upto(n, f) ==
             f = [i \in 0 .. n |-> IF i = 0 THEN appConfigSchema ELSE f[i - 1][path[i]]]
           N == {n \in Nat : \E f : Upto(n, f)}
<1>1. 0 \in N
  <2>1. Upto(0, [i \in 0 .. 0 |-> appConfigSchema])
    OBVIOUS
  <2> QED BY <2>1
<1>2. ASSUME NEW n \in N PROVE n + 1 \in N
  <2>1. PICK f : Upto(n, f)
    OBVIOUS
  <2>2. n \in Nat /\ n + 1 \in Nat
    OBVIOUS
  <2> DEFINE g == [i \in 0 .. n + 1 |-> IF i = n + 1 THEN f[n][path[n + 1]] ELSE f[i]]
  <2>3. \A i \in 0 .. n : f[i] = IF i = 0 THEN appConfigSchema ELSE f[i - 1][path[i]]
    BY <2>1
  <2>4. \A i \in 0 .. n : g[i] = f[i]
    BY <2>2
  <2>5. g[n + 1] = f[n][path[n + 1]]
    BY <2>2
  <2>6. \A i \in 0 .. n + 1 : g[i] = IF i = 0 THEN appConfigSchema ELSE g[i - 1][path[i]]
    <3> TAKE i \in 0 .. n + 1
    <3>1. CASE i = n + 1
      <4>1. n \in 0 .. n /\ i - 1 = n /\ i # 0
        BY <2>2, <3>1
      <4>2. g[i - 1] = f[n]
        BY <2>4, <4>1
      <4> HIDE DEF g
      <4> QED BY <2>5, <3>1, <4>1, <4>2
    <3>2. CASE i # n + 1
      <4>1. i \in 0 .. n /\ (i # 0 => i - 1 \in 0 .. n)
        BY <2>2, <3>2
      <4> HIDE DEF g
      <4> QED BY <2>3, <2>4, <4>1
    <3> QED BY <3>1, <3>2
  <2>7. g = [i \in 0 .. n + 1 |-> g[i]]
    OBVIOUS
  <2> HIDE DEF g
  <2>8. g = [i \in 0 .. n + 1 |-> IF i = 0 THEN appConfigSchema ELSE g[i - 1][path[i]]]
    BY <2>6, <2>7
  <2>9. Upto(n + 1, g)
    BY <2>8
  <2> QED BY <2>2, <2>9
<1>3. N \in SUBSET Nat
  OBVIOUS
<1> HIDE DEF N
<1>4. N = Nat
  BY <1>1, <1>2, <1>3, SetInduction
<1> QED BY <1>4 DEF N, SchemaPath

\* The walk, one step at a time.
LEMMA SchemaAtFacts ==
  ASSUME NEW path, Len(path) \in Nat
  PROVE  \E f : /\ SchemaAt(path) = f[Len(path)] /\ f[0] = appConfigSchema
                /\ \A i \in 1 .. Len(path) : f[i] = f[i - 1][path[i]]
<1> DEFINE f == CHOOSE g : SchemaPath(g, path)
<1>1. SchemaPath(f, path)
  BY SchemaPathExists
<1>2. SchemaAt(path) = f[Len(path)]
  BY SchemaAtDef
<1> HIDE DEF f
<1>3. f[0] = appConfigSchema /\ \A i \in 1 .. Len(path) : f[i] = f[i - 1][path[i]]
  BY <1>1 DEF SchemaPath
<1> QED BY <1>2, <1>3

\* The paths of AppConfig have two, three or four names.
LEMMA SchemaAt3 ==
  ASSUME NEW a, NEW b, NEW c
  PROVE  SchemaAt(<<a, b, c>>) = appConfigSchema[a][b][c]
<1>1. Len(<<a, b, c>>) = 3 /\ <<a, b, c>>[1] = a /\ <<a, b, c>>[2] = b /\ <<a, b, c>>[3] = c
  OBVIOUS
<1>2. PICK f : /\ SchemaAt(<<a, b, c>>) = f[3] /\ f[0] = appConfigSchema
               /\ \A i \in 1 .. 3 : f[i] = f[i - 1][<<a, b, c>>[i]]
  BY <1>1, SchemaAtFacts
<1>3. f[1] = f[0][a] /\ f[2] = f[1][b] /\ f[3] = f[2][c]
  BY <1>1, <1>2
<1> QED BY <1>2, <1>3

LEMMA SchemaAt2 ==
  ASSUME NEW a, NEW b
  PROVE  SchemaAt(<<a, b>>) = appConfigSchema[a][b]
<1>1. Len(<<a, b>>) = 2 /\ <<a, b>>[1] = a /\ <<a, b>>[2] = b
  OBVIOUS
<1>2. PICK f : /\ SchemaAt(<<a, b>>) = f[2] /\ f[0] = appConfigSchema
               /\ \A i \in 1 .. 2 : f[i] = f[i - 1][<<a, b>>[i]]
  BY <1>1, SchemaAtFacts
<1>3. f[1] = f[0][a] /\ f[2] = f[1][b]
  BY <1>1, <1>2
<1> QED BY <1>2, <1>3

LEMMA SchemaAt4 ==
  ASSUME NEW a, NEW b, NEW c, NEW d
  PROVE  SchemaAt(<<a, b, c, d>>) = appConfigSchema[a][b][c][d]
<1>1. /\ Len(<<a, b, c, d>>) = 4 /\ <<a, b, c, d>>[1] = a /\ <<a, b, c, d>>[2] = b
      /\ <<a, b, c, d>>[3] = c /\ <<a, b, c, d>>[4] = d
  OBVIOUS
<1> DEFINE path == <<a, b, c, d>>
<1> HIDE DEF path
<1>0. Len(path) = 4
  BY <1>1 DEF path
<1>a. Len(path) \in Nat
  BY <1>0
<1>2. PICK f : /\ SchemaAt(path) = f[Len(path)] /\ f[0] = appConfigSchema
               /\ \A i \in 1 .. Len(path) : f[i] = f[i - 1][path[i]]
  BY <1>a, SchemaAtFacts
<1> USE DEF path
<1>3. f[1] = f[0][a] /\ f[2] = f[1][b] /\ f[3] = f[2][c] /\ f[4] = f[3][d]
  BY <1>0, <1>1, <1>2
<1> QED BY <1>0, <1>2, <1>3

\* Tuples put together.
LEMMA Concat ==
  /\ \A a, b : <<a>> \o <<b>> = <<a, b>>
  /\ \A a, b, c : <<a>> \o <<b, c>> = <<a, b, c>>
  /\ \A a, b, c, d : <<a>> \o <<b, c, d>> = <<a, b, c, d>>
<1>1. ASSUME NEW a, NEW b PROVE <<a>> \o <<b>> = <<a, b>>
  <2> DEFINE t == <<a>> \o <<b>>
             S == {a, b}
  <2>1. <<a>> \in Seq(S) /\ <<b>> \in Seq(S) /\ Len(<<a>>) = 1 /\ Len(<<b>>) = 1
    OBVIOUS
  <2>2. /\ t \in Seq(S) /\ Len(t) = 2
        /\ \A i \in 1 .. 2 : t[i] = IF i <= 1 THEN <<a>>[i] ELSE <<b>>[i - 1]
    BY <2>1, ConcatProperties
  <2> HIDE DEF t
  <2>3. t = [i \in 1 .. 2 |-> t[i]]
    BY <2>2
  <2>5. <<a, b>> = [i \in 1 .. 2 |-> <<a, b>>[i]]
    OBVIOUS
  <2>6. \A i \in 1 .. 2 : t[i] = <<a, b>>[i]
    BY <2>2
  <2> QED BY <2>3, <2>5, <2>6 DEF t
<1>2. ASSUME NEW a, NEW b, NEW c PROVE <<a>> \o <<b, c>> = <<a, b, c>>
  <2> DEFINE t == <<a>> \o <<b, c>>
             S == {a, b, c}
  <2>1. <<a>> \in Seq(S) /\ <<b, c>> \in Seq(S) /\ Len(<<a>>) = 1 /\ Len(<<b, c>>) = 2
    OBVIOUS
  <2>2. /\ t \in Seq(S) /\ Len(t) = 3
        /\ \A i \in 1 .. 3 : t[i] = IF i <= 1 THEN <<a>>[i] ELSE <<b, c>>[i - 1]
    BY <2>1, ConcatProperties
  <2> HIDE DEF t
  <2>3. t = [i \in 1 .. 3 |-> t[i]]
    BY <2>2
  <2>5. <<a, b, c>> = [i \in 1 .. 3 |-> <<a, b, c>>[i]]
    OBVIOUS
  <2>6. \A i \in 1 .. 3 : t[i] = <<a, b, c>>[i]
    BY <2>2
  <2> QED BY <2>3, <2>5, <2>6 DEF t
<1>3. ASSUME NEW a, NEW b, NEW c, NEW d PROVE <<a>> \o <<b, c, d>> = <<a, b, c, d>>
  <2> DEFINE t == <<a>> \o <<b, c, d>>
             S == {a, b, c, d}
  <2>1. <<a>> \in Seq(S) /\ <<b, c, d>> \in Seq(S) /\ Len(<<a>>) = 1 /\ Len(<<b, c, d>>) = 3
    OBVIOUS
  <2>2. /\ t \in Seq(S) /\ Len(t) = 4
        /\ \A i \in 1 .. 4 : t[i] = IF i <= 1 THEN <<a>>[i] ELSE <<b, c, d>>[i - 1]
    BY <2>1, ConcatProperties
  <2> HIDE DEF t
  <2>3. t = [i \in 1 .. 4 |-> t[i]]
    BY <2>2
  <2>5. <<a, b, c, d>> = [i \in 1 .. 4 |-> <<a, b, c, d>>[i]]
    OBVIOUS
  <2>6. \A i \in 1 .. 4 : t[i] = <<a, b, c, d>>[i]
    BY <2>2
  <2> QED BY <2>3, <2>5, <2>6 DEF t
<1> QED BY <1>1, <1>2, <1>3

\* Tuples without their first.
LEMMA Tails ==
  /\ \A a, b : Tail(<<a, b>>) = <<b>>
  /\ \A a, b, c : Tail(<<a, b, c>>) = <<b, c>>
  /\ \A a, b, c, d : Tail(<<a, b, c, d>>) = <<b, c, d>>
OBVIOUS

-----------------------------------------------------------------------------
(* The settings of the modules, row by row *)

\* The five kinds of settings, by what their schemas and their metadata say.
Switch(s) == s.type = "boolean" /\ s.validation = ZBoolean
Collection(s) == s.type \notin {"boolean", "number"} /\ s.validation = ZStrings
Amount(s) ==
  /\ s.type = "number" /\ s.validation.kind = "number" /\ ~s.validation.url
  /\ s.validation.options = {} /\ s.max = s.validation.high /\ ~s.validation.trim
  /\ s.validation.whole \in BOOLEAN /\ (s.step = 10 => s.validation.whole)
  /\ s.min \in Int /\ s.validation.low \in Int /\ s.validation.high \in Int
  /\ s.validation.low <= 10 /\ 10 <= s.validation.high
  /\ \/ s.min = -NoLimit \/ s.min = s.validation.low
     \/ s.min = 10 /\ s.validation.low = 1 /\ s.validation.whole
Choice(s) ==
  /\ s.type = "select" /\ s.validation = ZEnum(s.options) /\ s.options # {}
  /\ s.options \subseteq Languages \cup PresenceTypes /\ s.minLength = 0 /\ s.maxLength = NoLimit
Wording(s) ==
  /\ s.type \notin {"boolean", "number", "json", "select"} /\ s.validation.kind = "text"
  /\ s.validation.options = {} /\ ~s.validation.whole /\ s.validation.url \in BOOLEAN
  /\ s.validation.high = s.maxLength /\ s.options = {}
  /\ s.validation.low \in Int /\ s.validation.high \in Int
  /\ s.validation.low <= 8 /\ 8 <= s.validation.high
  /\ \/ ~s.validation.trim /\ s.minLength = 0 /\ s.validation.low = -NoLimit
     \/ ~s.validation.trim /\ s.minLength = s.validation.low /\ s.validation.low > 0
     \/ s.validation.trim /\ s.validation.low = 1 /\ s.minLength = 0 /\ s.maxLength = NoLimit

Loose(s) ==
  s.key \in LooselyConfigured /\ SchemaAt(s.default) = ZString /\ s.validation.kind = "text"

Row(s, module) ==
  /\ s.key[1] = module
  /\ toRuntimePath(s.key) = s.default
  /\ SchemaAt(s.default) = s.validation \/ Loose(s)
  /\ Switch(s) \/ Collection(s) \/ Amount(s) \/ Choice(s) \/ Wording(s)

\* What the schemas of the settings ask for.
Demands(schema, kind, whole, low, high, trim, url, options) ==
  /\ schema.kind = kind /\ schema.whole = whole /\ schema.low = low /\ schema.high = high
  /\ schema.trim = trim /\ schema.url = url /\ schema.options = options

\* The bound of numbers and lengths: a number like the others.
LEMMA LimitIsNatural == NoLimit \in Nat /\ 1000 < NoLimit
BY DEF NoLimit

\* What each of the schemas asks for.
LEMMA Schemas ==
  /\ Demands(ZBoolean, "boolean", FALSE, -NoLimit, NoLimit, FALSE, FALSE, {})
  /\ Demands(ZString, "text", FALSE, -NoLimit, NoLimit, FALSE, FALSE, {})
  /\ Demands(ZUrl, "text", FALSE, -NoLimit, NoLimit, FALSE, TRUE, {})
  /\ Demands(ZName, "text", FALSE, 1, NoLimit, TRUE, FALSE, {})
  /\ Demands(ZStrings, "list", FALSE, -NoLimit, NoLimit, FALSE, FALSE, {})
  /\ Demands(ZPositive, "number", TRUE, 1, NoLimit, FALSE, FALSE, {})
  /\ Demands(ZWhole(0), "number", TRUE, 0, NoLimit, FALSE, FALSE, {})
  /\ \A low, high : Demands(ZNumber(low, high), "number", FALSE, low, high, FALSE, FALSE, {})
  /\ \A low, high : Demands(ZLength(low, high), "text", FALSE, low, high, FALSE, FALSE, {})
  /\ \A options : Demands(ZEnum(options), "text", FALSE, -NoLimit, NoLimit, FALSE, FALSE, options)
<1>0. \A kind : Demands(Zod(kind), kind, FALSE, -NoLimit, NoLimit, FALSE, FALSE, {})
  BY DEF Demands, Zod
<1>1. /\ Demands(ZBoolean, "boolean", FALSE, -NoLimit, NoLimit, FALSE, FALSE, {})
      /\ Demands(ZString, "text", FALSE, -NoLimit, NoLimit, FALSE, FALSE, {})
      /\ Demands(ZStrings, "list", FALSE, -NoLimit, NoLimit, FALSE, FALSE, {})
  BY <1>0 DEF ZBoolean, ZString, ZStrings
<1>2. Demands(ZUrl, "text", FALSE, -NoLimit, NoLimit, FALSE, TRUE, {})
  BY DEF Demands, ZUrl, ZString, Zod
<1>3. Demands(ZName, "text", FALSE, 1, NoLimit, TRUE, FALSE, {})
  BY DEF Demands, ZName, ZString, Zod
<1>4. \A low, high : Demands(ZNumber(low, high), "number", FALSE, low, high, FALSE, FALSE, {})
  BY DEF Demands, ZNumber, Zod
<1>5. \A low, high : Demands(ZLength(low, high), "text", FALSE, low, high, FALSE, FALSE, {})
  BY DEF Demands, ZLength, ZString, Zod
<1>6. \A options : Demands(ZEnum(options), "text", FALSE, -NoLimit, NoLimit, FALSE, FALSE, options)
  BY DEF Demands, ZEnum, ZString, Zod
<1>7. \A low : Demands(ZWhole(low), "number", TRUE, low, NoLimit, FALSE, FALSE, {})
  BY DEF Demands, ZWhole, ZNumber, Zod
<1> QED BY <1>1, <1>2, <1>3, <1>4, <1>5, <1>6, <1>7 DEF ZPositive

\* The settings of most modules: no bounds, and a schema that says what its control does.
Plain(type, validation) ==
  \/ type = "boolean" /\ validation = ZBoolean
  \/ type = "number" /\ validation = ZPositive
  \/ type \in {"channel", "text", "image", "template"} /\ validation \in {ZString, ZUrl, ZName}
  \/ type \in {"json", "role"} /\ validation = ZStrings

\* The fields of a setting without bounds; its kind.
LEMMA PlainFields ==
  ASSUME NEW key, NEW type, NEW default, NEW validation, Plain(type, validation),
         NEW s, s = Setting(key, type, default, validation)
  PROVE  /\ s.key = key /\ s.default = default /\ s.validation = validation
         /\ Switch(s) \/ Collection(s) \/ Amount(s) \/ Choice(s) \/ Wording(s)
<1>1. /\ s.key = key /\ s.default = default /\ s.validation = validation /\ s.type = type
      /\ s.min = -NoLimit /\ s.max = NoLimit /\ s.minLength = 0 /\ s.maxLength = NoLimit
      /\ s.step = 0 /\ s.options = {}
  BY DEF Setting
<1>2. CASE type = "boolean"
  BY <1>1, <1>2 DEF Plain, Switch
<1>3. CASE type = "number"
  <2>1. Demands(s.validation, "number", TRUE, 1, NoLimit, FALSE, FALSE, {})
    BY <1>1, <1>3, Schemas DEF Plain
  <2>2. /\ s.validation.kind = "number" /\ ~s.validation.url /\ s.validation.options = {}
        /\ ~s.validation.trim /\ s.validation.whole = TRUE /\ s.validation.low = 1
        /\ s.validation.high = NoLimit
    BY <1>3, <1>1, <2>1 DEF Demands
  <2>3. s.validation.whole \in BOOLEAN /\ (s.step = 10 => s.validation.whole)
    BY <1>3, <1>1, <2>2
  <2>4. /\ s.min \in Int /\ s.validation.low \in Int /\ s.validation.high \in Int
        /\ s.max = s.validation.high /\ s.validation.low <= 10 /\ 10 <= s.validation.high
    BY <1>3, <1>1, <2>2, LimitIsNatural
  <2>5. \/ s.min = -NoLimit \/ s.min = s.validation.low
        \/ s.min = 10 /\ s.validation.low = 1 /\ s.validation.whole
    BY <1>3, <1>1, <2>2
  <2>6. Amount(s)
    BY <1>1, <1>3, <2>2, <2>3, <2>4, <2>5 DEF Amount
  <2> QED BY <1>1, <2>6
<1>4. CASE type \in {"channel", "text", "image", "template"}
  <2>1. \/ Demands(s.validation, "text", FALSE, -NoLimit, NoLimit, FALSE, FALSE, {})
        \/ Demands(s.validation, "text", FALSE, -NoLimit, NoLimit, FALSE, TRUE, {})
        \/ Demands(s.validation, "text", FALSE, 1, NoLimit, TRUE, FALSE, {})
    BY <1>1, <1>4, Schemas DEF Plain
  <2>2. /\ s.validation.kind = "text" /\ s.validation.options = {} /\ ~s.validation.whole
        /\ s.validation.url \in BOOLEAN /\ s.validation.high = NoLimit
    BY <2>1 DEF Demands
  <2>3. \/ ~s.validation.trim /\ s.validation.low = -NoLimit
        \/ s.validation.trim /\ s.validation.low = 1
    BY <2>1 DEF Demands
  <2>4. /\ s.validation.low \in Int /\ s.validation.high \in Int
        /\ s.validation.low <= 8 /\ 8 <= s.validation.high
    BY <2>2, <2>3, LimitIsNatural
  <2>5. Wording(s)
    BY <1>1, <1>4, <2>2, <2>3, <2>4 DEF Wording
  <2> QED BY <1>1, <2>5
<1>5. CASE type \in {"json", "role"}
  BY <1>1, <1>5 DEF Plain, Collection
<1> QED BY <1>1, <1>2, <1>3, <1>4, <1>5 DEF Plain

\* A row of a module whose settings come from the part of the bot's configuration of its name.
LEMMA RowOfTwo ==
  ASSUME NEW m, NEW a, m \notin {"general", "moderation"},
         NEW type, NEW validation, Plain(type, validation), appConfigSchema["bot"][m][a] = validation
  PROVE  Row(InBot(<<m, a>>, type, validation), m)
<1> DEFINE s == InBot(<<m, a>>, type, validation)
<1>1. s = Setting(<<m, a>>, type, <<"bot", m, a>>, validation)
  BY Concat DEF InBot
<1> HIDE DEF s
<1>2. /\ s.key = <<m, a>> /\ s.default = <<"bot", m, a>> /\ s.validation = validation
      /\ Switch(s) \/ Collection(s) \/ Amount(s) \/ Choice(s) \/ Wording(s)
  BY <1>1, PlainFields
<1>3. SchemaAt(s.default) = validation
  BY <1>2, SchemaAt3
<1>4. s.key[1] = m /\ toRuntimePath(s.key) = s.default
  BY <1>2, Concat DEF toRuntimePath
<1> QED BY <1>2, <1>3, <1>4 DEF Row, s

LEMMA RowOfThree ==
  ASSUME NEW m, NEW a, NEW b, m \notin {"general", "moderation"},
         NEW type, NEW validation, Plain(type, validation), appConfigSchema["bot"][m][a][b] = validation
  PROVE  Row(InBot(<<m, a, b>>, type, validation), m)
<1> DEFINE s == InBot(<<m, a, b>>, type, validation)
<1>1. s = Setting(<<m, a, b>>, type, <<"bot", m, a, b>>, validation)
  BY Concat DEF InBot
<1> HIDE DEF s
<1>2. /\ s.key = <<m, a, b>> /\ s.default = <<"bot", m, a, b>> /\ s.validation = validation
      /\ Switch(s) \/ Collection(s) \/ Amount(s) \/ Choice(s) \/ Wording(s)
  BY <1>1, PlainFields
<1>3. SchemaAt(s.default) = validation
  BY <1>2, SchemaAt4
<1>4. s.key[1] = m /\ toRuntimePath(s.key) = s.default
  BY <1>2, Concat DEF toRuntimePath
<1> QED BY <1>2, <1>3, <1>4 DEF Row, s

\* The settings of the welcome module (welcome-settings.ts).
LEMMA WelcomeRows ==
  \A i \in DOMAIN createWelcomeSettings : Row(createWelcomeSettings[i], "welcome")
<1> USE DEF appConfigSchema, botSchema, welcomeSchema, Plain
<1>1. Row(InBot(<<"welcome", "enabled">>, "boolean", ZBoolean), "welcome")
  BY RowOfTwo
<1>2. Row(InBot(<<"welcome", "channelId">>, "channel", ZString), "welcome")
  BY RowOfTwo
<1>3. Row(InBot(<<"welcome", "backgroundUrl">>, "image", ZString), "welcome")
  BY RowOfTwo
<1>4. Row(InBot(<<"welcome", "message", "title">>, "template", ZString), "welcome")
  BY RowOfThree
<1>5. Row(InBot(<<"welcome", "message", "body">>, "json", ZStrings), "welcome")
  BY RowOfThree
<1>6. Row(InBot(<<"welcome", "image", "title">>, "template", ZString), "welcome")
  BY RowOfThree
<1>7. Row(InBot(<<"welcome", "image", "subtitle">>, "template", ZString), "welcome")
  BY RowOfThree
<1> QED BY <1>1, <1>2, <1>3, <1>4, <1>5, <1>6, <1>7 DEF createWelcomeSettings

\* The settings of the goodbye module (goodbye-settings.ts).
LEMMA GoodbyeRows ==
  \A i \in DOMAIN createGoodbyeSettings : Row(createGoodbyeSettings[i], "goodbye")
<1> USE DEF appConfigSchema, botSchema, goodbyeSchema, Plain
<1>1. Row(InBot(<<"goodbye", "enabled">>, "boolean", ZBoolean), "goodbye")
  BY RowOfTwo
<1>2. Row(InBot(<<"goodbye", "channelId">>, "channel", ZString), "goodbye")
  BY RowOfTwo
<1>3. Row(InBot(<<"goodbye", "image", "backgroundUrl">>, "image", ZString), "goodbye")
  BY RowOfThree
<1>4. Row(InBot(<<"goodbye", "image", "title">>, "template", ZString), "goodbye")
  BY RowOfThree
<1>5. Row(InBot(<<"goodbye", "image", "subtitle">>, "template", ZString), "goodbye")
  BY RowOfThree
<1> QED BY <1>1, <1>2, <1>3, <1>4, <1>5 DEF createGoodbyeSettings

\* The settings of the shrine module (shrine-settings.ts).
LEMMA ShrineRows ==
  \A i \in DOMAIN createShrineSettings : Row(createShrineSettings[i], "shrine")
<1> USE DEF appConfigSchema, botSchema, shrineSchema, Plain
<1>1. Row(InBot(<<"shrine", "enabled">>, "boolean", ZBoolean), "shrine")
  BY RowOfTwo
<1>2. Row(InBot(<<"shrine", "guildId">>, "text", ZString), "shrine")
  BY RowOfTwo
<1>3. Row(InBot(<<"shrine", "channelId">>, "channel", ZString), "shrine")
  BY RowOfTwo
<1>4. Row(InBot(<<"shrine", "nightLightBaseUrl">>, "text", ZUrl), "shrine")
  BY RowOfTwo
<1>5. Row(InBot(<<"shrine", "imageCdnUrl">>, "text", ZUrl), "shrine")
  BY RowOfTwo
<1>6. Row(InBot(<<"shrine", "portraitFolder">>, "text", ZName), "shrine")
  BY RowOfTwo
<1>7. Row(InBot(<<"shrine", "perkFolder">>, "text", ZName), "shrine")
  BY RowOfTwo
<1>8. Row(InBot(<<"shrine", "iridescentShardIcon">>, "text", ZName), "shrine")
  BY RowOfTwo
<1>9. Row(InBot(<<"shrine", "polling", "pollIntervalMs">>, "number", ZPositive), "shrine")
  BY RowOfThree
<1>10. Row(InBot(<<"shrine", "polling", "preResetWindowMs">>, "number", ZPositive), "shrine")
  BY RowOfThree
<1>11. Row(InBot(<<"shrine", "polling", "delayedUpdateWindowMs">>, "number", ZPositive), "shrine")
  BY RowOfThree
<1>12. Row(InBot(<<"shrine", "polling", "fallbackRetryMs">>, "number", ZPositive), "shrine")
  BY RowOfThree
<1>13. Row(InBot(<<"shrine", "dev", "forceAnnouncementOnStartup">>, "boolean", ZBoolean), "shrine")
  BY RowOfThree
<1> QED BY <1>1, <1>2, <1>3, <1>4, <1>5, <1>6, <1>7, <1>8, <1>9, <1>10, <1>11, <1>12, <1>13 DEF
       createShrineSettings

\* The settings of the moderation module, the only ones that are not under bot.
LEMMA ModerationRows ==
  \A i \in DOMAIN createModerationSettings : Row(createModerationSettings[i], "moderation")
<1>1. ASSUME NEW who \in {"administrator", "moderator", "trusted"}, NEW s,
             s = Setting(<<"moderation", "roles", who>>, "role", <<"permissions", "roles", who>>, ZStrings)
      PROVE  Row(s, "moderation")
  <2>1. /\ s.key = <<"moderation", "roles", who>> /\ s.default = <<"permissions", "roles", who>>
        /\ s.validation = ZStrings
        /\ Switch(s) \/ Collection(s) \/ Amount(s) \/ Choice(s) \/ Wording(s)
    BY <1>1, PlainFields DEF Plain
  <2>2. SchemaAt(s.default) = ZStrings
    BY <2>1, SchemaAt3 DEF appConfigSchema, permissionsSchema
  <2>3. s.key[1] = "moderation" /\ toRuntimePath(s.key) = s.default
    BY <2>1, Concat, Tails DEF toRuntimePath
  <2> QED BY <2>1, <2>2, <2>3 DEF Row
<1> QED BY <1>1 DEF createModerationSettings

\* Settings with bounds for numbers.
BoundedBy(validation, min, max, step) ==
  \/ validation = ZPositive /\ min = 10 /\ max = NoLimit
  \/ validation = ZWhole(0) /\ min = 0 /\ max = NoLimit
  \/ validation = ZNumber(0, 20) /\ min = 0 /\ max = 20 /\ step = 1

\* The fields of a setting with bounds for numbers.
LEMMA BoundedFields ==
  ASSUME NEW key, NEW default, NEW validation, NEW min, NEW max, NEW step,
         BoundedBy(validation, min, max, step),
         NEW s, s = Bounded(Setting(key, "number", default, validation), min, max, step)
  PROVE  s.key = key /\ s.default = default /\ s.validation = validation /\ Amount(s)
<1>1. /\ s.key = key /\ s.default = default /\ s.validation = validation /\ s.type = "number"
      /\ s.min = min /\ s.max = max /\ s.step = step
  BY DEF Bounded, Setting
<1>2. CASE validation = ZPositive /\ min = 10 /\ max = NoLimit
  <2>1. Demands(validation, "number", TRUE, 1, NoLimit, FALSE, FALSE, {})
    BY <1>2, Schemas
  <2>2. /\ s.validation.kind = "number" /\ ~s.validation.url /\ s.validation.options = {}
        /\ ~s.validation.trim /\ s.validation.whole = TRUE /\ s.validation.low = 1
        /\ s.validation.high = NoLimit
    BY <1>2, <1>1, <2>1 DEF Demands
  <2>3. s.validation.whole \in BOOLEAN /\ (s.step = 10 => s.validation.whole)
    BY <1>2, <1>1, <2>2
  <2>4. /\ s.min \in Int /\ s.validation.low \in Int /\ s.validation.high \in Int
        /\ s.max = s.validation.high /\ s.validation.low <= 10 /\ 10 <= s.validation.high
    BY <1>2, <1>1, <2>2, LimitIsNatural
  <2>5. \/ s.min = -NoLimit \/ s.min = s.validation.low
        \/ s.min = 10 /\ s.validation.low = 1 /\ s.validation.whole
    BY <1>2, <1>1, <2>2
  <2> QED BY <1>1, <2>2, <2>3, <2>4, <2>5 DEF Amount
<1>3. CASE validation = ZWhole(0) /\ min = 0 /\ max = NoLimit
  <2>1. Demands(validation, "number", TRUE, 0, NoLimit, FALSE, FALSE, {})
    BY <1>3, Schemas
  <2>2. /\ s.validation.kind = "number" /\ ~s.validation.url /\ s.validation.options = {}
        /\ ~s.validation.trim /\ s.validation.whole = TRUE /\ s.validation.low = 0
        /\ s.validation.high = NoLimit
    BY <1>3, <1>1, <2>1 DEF Demands
  <2>3. s.validation.whole \in BOOLEAN /\ (s.step = 10 => s.validation.whole)
    BY <1>3, <1>1, <2>2
  <2>4. /\ s.min \in Int /\ s.validation.low \in Int /\ s.validation.high \in Int
        /\ s.max = s.validation.high /\ s.validation.low <= 10 /\ 10 <= s.validation.high
    BY <1>3, <1>1, <2>2, LimitIsNatural
  <2>5. \/ s.min = -NoLimit \/ s.min = s.validation.low
        \/ s.min = 10 /\ s.validation.low = 1 /\ s.validation.whole
    BY <1>3, <1>1, <2>2
  <2> QED BY <1>1, <2>2, <2>3, <2>4, <2>5 DEF Amount
<1>4. CASE validation = ZNumber(0, 20) /\ min = 0 /\ max = 20 /\ step = 1
  <2>1. Demands(validation, "number", FALSE, 0, 20, FALSE, FALSE, {})
    BY <1>4, Schemas
  <2>2. /\ s.validation.kind = "number" /\ ~s.validation.url /\ s.validation.options = {}
        /\ ~s.validation.trim /\ s.validation.whole = FALSE /\ s.validation.low = 0
        /\ s.validation.high = 20
    BY <1>4, <1>1, <2>1 DEF Demands
  <2>3. s.validation.whole \in BOOLEAN /\ (s.step = 10 => s.validation.whole)
    <3>1. s.step = 1 /\ ~(1 = 10)
      BY <1>1, <1>4
    <3> QED BY <2>2, <3>1
  <2>4. /\ s.min \in Int /\ s.validation.low \in Int /\ s.validation.high \in Int
        /\ s.max = s.validation.high /\ s.validation.low <= 10 /\ 10 <= s.validation.high
    BY <1>4, <1>1, <2>2, LimitIsNatural
  <2>5. \/ s.min = -NoLimit \/ s.min = s.validation.low
        \/ s.min = 10 /\ s.validation.low = 1 /\ s.validation.whole
    BY <1>4, <1>1, <2>2
  <2> QED BY <1>1, <2>2, <2>3, <2>4, <2>5 DEF Amount
<1> QED BY <1>1, <1>2, <1>3, <1>4 DEF BoundedBy

\* A row with bounds for numbers.
LEMMA BoundedRowOfTwo ==
  ASSUME NEW m, NEW a, m \notin {"general", "moderation"}, NEW validation, NEW min, NEW max, NEW step,
         BoundedBy(validation, min, max, step), appConfigSchema["bot"][m][a] = validation
  PROVE  Row(Bounded(InBot(<<m, a>>, "number", validation), min, max, step), m)
<1> DEFINE s == Bounded(InBot(<<m, a>>, "number", validation), min, max, step)
<1>1. s = Bounded(Setting(<<m, a>>, "number", <<"bot", m, a>>, validation), min, max, step)
  BY Concat DEF InBot
<1> HIDE DEF s
<1>2. s.key = <<m, a>> /\ s.default = <<"bot", m, a>> /\ s.validation = validation /\ Amount(s)
  BY <1>1, BoundedFields
<1>3. SchemaAt(s.default) = validation
  BY <1>2, SchemaAt3
<1>4. s.key[1] = m /\ toRuntimePath(s.key) = s.default
  BY <1>2, Concat DEF toRuntimePath
<1> QED BY <1>2, <1>3, <1>4 DEF Row, s

LEMMA BoundedRowOfThree ==
  ASSUME NEW m, NEW a, NEW b, m \notin {"general", "moderation"}, NEW validation, NEW min, NEW max,
         NEW step, BoundedBy(validation, min, max, step), appConfigSchema["bot"][m][a][b] = validation
  PROVE  Row(Bounded(InBot(<<m, a, b>>, "number", validation), min, max, step), m)
<1> DEFINE s == Bounded(InBot(<<m, a, b>>, "number", validation), min, max, step)
<1>1. s = Bounded(Setting(<<m, a, b>>, "number", <<"bot", m, a, b>>, validation), min, max, step)
  BY Concat DEF InBot
<1> HIDE DEF s
<1>2. s.key = <<m, a, b>> /\ s.default = <<"bot", m, a, b>> /\ s.validation = validation /\ Amount(s)
  BY <1>1, BoundedFields
<1>3. SchemaAt(s.default) = validation
  BY <1>2, SchemaAt4
<1>4. s.key[1] = m /\ toRuntimePath(s.key) = s.default
  BY <1>2, Concat DEF toRuntimePath
<1> QED BY <1>2, <1>3, <1>4 DEF Row, s

\* The settings of the logging module.
LEMMA LoggingRows ==
  \A i \in DOMAIN createLoggingSettings : Row(createLoggingSettings[i], "logging")
<1> DEFINE Toggle(rest) == InBot(<<"logging">> \o rest, "boolean", ZBoolean)
           ChannelId(kind) == InBot(<<"logging", kind, "channelId">>, "channel", ZString)
<1> USE DEF appConfigSchema, botSchema, loggingSchema, Channel, Plain, BoundedBy
<1>1. /\ Toggle(<<"enabled">>) = InBot(<<"logging", "enabled">>, "boolean", ZBoolean)
      /\ \A a, b : Toggle(<<a, b>>) = InBot(<<"logging", a, b>>, "boolean", ZBoolean)
  BY Concat
<1> HIDE DEF Toggle
<1>2. /\ Row(InBot(<<"logging", "enabled">>, "boolean", ZBoolean), "logging")
      /\ Row(InBot(<<"logging", "voice", "enabled">>, "boolean", ZBoolean), "logging")
      /\ Row(InBot(<<"logging", "member", "enabled">>, "boolean", ZBoolean), "logging")
      /\ Row(InBot(<<"logging", "member", "roles">>, "boolean", ZBoolean), "logging")
      /\ Row(InBot(<<"logging", "message", "enabled">>, "boolean", ZBoolean), "logging")
      /\ Row(InBot(<<"logging", "message", "archiveAttachments">>, "boolean", ZBoolean), "logging")
      /\ Row(InBot(<<"logging", "moderation", "enabled">>, "boolean", ZBoolean), "logging")
  BY RowOfTwo, RowOfThree
<1>3. ASSUME NEW kind \in {"voice", "member", "message", "moderation"}
      PROVE  Row(ChannelId(kind), "logging")
  BY RowOfThree
<1>4. Row(Bounded(InBot(<<"logging", "message", "maxAttachmentSizeMb">>, "number", ZPositive),
                  10, NoLimit, 10), "logging")
  BY BoundedRowOfThree
<1>5. /\ Row(Toggle(<<"enabled">>), "logging") /\ Row(Toggle(<<"voice", "enabled">>), "logging")
      /\ Row(Toggle(<<"member", "enabled">>), "logging")
      /\ Row(Toggle(<<"member", "roles">>), "logging")
      /\ Row(Toggle(<<"message", "enabled">>), "logging")
      /\ Row(Toggle(<<"message", "archiveAttachments">>), "logging")
      /\ Row(Toggle(<<"moderation", "enabled">>), "logging")
  BY <1>1, <1>2
<1> USE DEF Toggle
<1> QED BY <1>3, <1>4, <1>5 DEF createLoggingSettings

\* The settings of the voice module, with the one sound that is loosely configured.
LEMMA VoiceRows ==
  \A i \in DOMAIN createVoiceSettings : Row(createVoiceSettings[i], "voice")
<1> USE DEF appConfigSchema, botSchema, voiceSchema, Plain, BoundedBy
<1>1. Row(InBot(<<"voice", "standbyChannelId">>, "channel", ZString), "voice")
  BY RowOfTwo
<1>2. Row(Bounded(InBot(<<"voice", "maxReconnectRetries">>, "number", ZPositive), 10, NoLimit, 10), "voice")
  BY BoundedRowOfTwo
<1>3. Row(OfLength(InBot(<<"voice", "defaultSound">>, "audio", ZLength(1, NoLimit)), 1, NoLimit), "voice")
  <2> DEFINE s == OfLength(InBot(<<"voice", "defaultSound">>, "audio", ZLength(1, NoLimit)), 1, NoLimit)
  <2>1. /\ s.key = <<"voice", "defaultSound">> /\ s.default = <<"bot", "voice", "defaultSound">>
        /\ s.type = "audio" /\ s.validation = ZLength(1, NoLimit) /\ s.minLength = 1 /\ s.maxLength = NoLimit
        /\ s.options = {}
    BY Concat DEF OfLength, InBot, Setting
  <2> HIDE DEF s
  <2>2. Demands(s.validation, "text", FALSE, 1, NoLimit, FALSE, FALSE, {})
    BY <2>1, Schemas
  <2>3. Wording(s)
    <3>1. /\ s.validation.kind = "text" /\ s.validation.options = {} /\ ~s.validation.whole
          /\ s.validation.url \in BOOLEAN /\ s.validation.high = s.maxLength
          /\ s.options = {}
      BY <2>1, <2>2 DEF Demands
    <3>2. ~s.validation.trim /\ s.validation.low = 1 /\ s.minLength = s.validation.low
      BY <2>1, <2>2 DEF Demands
    <3>3. s.validation.low > 0 /\ s.validation.low \in Int /\ s.validation.high \in Int
          /\ s.validation.low <= 8 /\ 8 <= s.validation.high
      BY <2>1, <3>1, <3>2, LimitIsNatural
    <3>4. s.type \notin {"boolean", "number", "json", "select"}
      BY <2>1
    <3> QED BY <3>1, <3>2, <3>3, <3>4 DEF Wording
  <2>4. SchemaAt(s.default) = ZString
    BY <2>1, SchemaAt3
  <2>5. Loose(s)
    BY <2>1, <2>2, <2>4 DEF Loose, LooselyConfigured, Demands
  <2>6. s.key[1] = "voice" /\ toRuntimePath(s.key) = s.default
    BY <2>1, Concat DEF toRuntimePath
  <2> QED BY <2>3, <2>5, <2>6 DEF Row, s
<1>4. Row(Bounded(InBot(<<"voice", "volume">>, "number", ZNumber(0, 20)), 0, 20, 1), "voice")
  BY BoundedRowOfTwo
<1>5. Row(Bounded(InBot(<<"voice", "joinDelayMs">>, "number", ZWhole(0)), 0, NoLimit, 1000), "voice")
  BY BoundedRowOfTwo
<1>6. Row(Bounded(InBot(<<"voice", "cooldownMs">>, "number", ZPositive), 10, NoLimit, 1000), "voice")
  BY BoundedRowOfTwo
<1>7. Row(Bounded(InBot(<<"voice", "reconnectDelayMs">>, "number", ZPositive), 10, NoLimit, 1000), "voice")
  BY BoundedRowOfTwo
<1> QED BY <1>1, <1>2, <1>3, <1>4, <1>5, <1>6, <1>7 DEF createVoiceSettings

\* The settings of the general module are those of the bot itself.
GeneralPaths ==
  /\ \A a : toRuntimePath(<<"general", a>>) = <<"bot", a>> /\ SchemaAt(<<"bot", a>>) = botSchema[a]
  /\ \A a, b : /\ toRuntimePath(<<"general", a, b>>) = <<"bot", a, b>>
               /\ SchemaAt(<<"bot", a, b>>) = botSchema[a][b]

\* The settings of the general module, four of them loosely configured.
LEMMA GeneralRows ==
  \A i \in DOMAIN createGeneralSettings : Row(createGeneralSettings[i], "general")
<1> DEFINE General(rest, type, validation) ==
             Setting(<<"general">> \o rest, type, <<"bot">> \o rest, validation)
           Select(rest, options) ==
             [General(rest, "select", ZEnum(options)) EXCEPT !.options = options]
<1>0. GeneralPaths
  <2>1. appConfigSchema["bot"] = botSchema
    BY DEF appConfigSchema
  <2>2. ASSUME NEW a PROVE toRuntimePath(<<"general", a>>) = <<"bot", a>>
    <3>1. <<"general", a>>[1] = "general" /\ Tail(<<"general", a>>) = <<a>>
      BY Tails
    <3>2. toRuntimePath(<<"general", a>>) = <<"bot">> \o <<a>>
      BY <3>1 DEF toRuntimePath
    <3> QED BY <3>2, Concat
  <2>3. ASSUME NEW a, NEW b PROVE toRuntimePath(<<"general", a, b>>) = <<"bot", a, b>>
    <3>1. <<"general", a, b>>[1] = "general" /\ Tail(<<"general", a, b>>) = <<a, b>>
      BY Tails
    <3>2. toRuntimePath(<<"general", a, b>>) = <<"bot">> \o <<a, b>>
      BY <3>1 DEF toRuntimePath
    <3> QED BY <3>2, Concat
  <2> QED BY <2>1, <2>2, <2>3, SchemaAt2, SchemaAt3 DEF GeneralPaths
<1>a. ASSUME NEW rest, NEW s, s.key = <<"general">> \o rest, s.default = <<"bot">> \o rest,
             rest \in {<<"prefix">>, <<"defaultLanguage">>, <<"presence", "type">>, <<"presence", "text">>}
      PROVE  /\ s.key \in LooselyConfigured /\ s.key[1] = "general"
             /\ toRuntimePath(s.key) = s.default /\ SchemaAt(s.default) = ZString
  <2>1. CASE \E a \in {"prefix", "defaultLanguage"} : rest = <<a>>
    <3>1. PICK a \in {"prefix", "defaultLanguage"} : rest = <<a>>
      BY <2>1
    <3>2. s.key = <<"general", a>> /\ s.default = <<"bot", a>>
      BY <1>a, <3>1, Concat
    <3>3. s.key \in LooselyConfigured /\ s.key[1] = "general"
      BY <3>2, <3>1 DEF LooselyConfigured
    <3>4. botSchema[a] = ZString
      BY <3>1 DEF botSchema
    <3> QED BY <1>0, <3>2, <3>3, <3>4 DEF GeneralPaths
  <2>2. CASE \E a \in {"type", "text"} : rest = <<"presence", a>>
    <3>1. PICK a \in {"type", "text"} : rest = <<"presence", a>>
      BY <2>2
    <3>2. s.key = <<"general", "presence", a>> /\ s.default = <<"bot", "presence", a>>
      BY <1>a, <3>1, Concat
    <3>3. s.key \in LooselyConfigured /\ s.key[1] = "general"
      BY <3>2, <3>1 DEF LooselyConfigured
    <3>4. botSchema["presence"][a] = ZString
      BY <3>1 DEF botSchema, presenceSchema
    <3> QED BY <1>0, <3>2, <3>3, <3>4 DEF GeneralPaths
  <2> QED BY <1>a, <2>1, <2>2
<1>1. ASSUME NEW rest, NEW most \in Int, 8 <= most, NEW s,
             s = OfLength(General(rest, "string", ZLength(1, most)), 1, most),
             rest \in {<<"prefix">>, <<"presence", "text">>}
      PROVE  Row(s, "general")
  <2>1. /\ s.key = <<"general">> \o rest /\ s.default = <<"bot">> \o rest /\ s.type = "string"
        /\ s.validation = ZLength(1, most) /\ s.minLength = 1 /\ s.maxLength = most
        /\ s.options = {}
    BY <1>1 DEF OfLength, Setting
  <2>2. Demands(s.validation, "text", FALSE, 1, most, FALSE, FALSE, {})
    BY <2>1, Schemas
  <2>3. Wording(s)
    <3>1. /\ s.validation.kind = "text" /\ s.validation.options = {} /\ ~s.validation.whole
          /\ s.validation.url \in BOOLEAN /\ s.validation.high = s.maxLength
          /\ s.options = {}
      BY <2>1, <2>2 DEF Demands
    <3>2. ~s.validation.trim /\ s.validation.low = 1 /\ s.minLength = s.validation.low
      BY <2>1, <2>2 DEF Demands
    <3>3. s.validation.low > 0 /\ s.validation.low \in Int /\ s.validation.high \in Int
          /\ s.validation.low <= 8 /\ 8 <= s.validation.high
      BY <1>1, <2>1, <3>1, <3>2, LimitIsNatural
    <3>4. s.type \notin {"boolean", "number", "json", "select"}
      BY <2>1
    <3> QED BY <3>1, <3>2, <3>3, <3>4 DEF Wording
  <2>4. /\ s.key \in LooselyConfigured /\ s.key[1] = "general" /\ toRuntimePath(s.key) = s.default
        /\ SchemaAt(s.default) = ZString
    <3>1. rest \in {<<"prefix">>, <<"defaultLanguage">>, <<"presence", "type">>, <<"presence", "text">>}
      BY <1>1
    <3> QED BY <1>a, <2>1, <3>1
  <2>5. Loose(s)
    BY <2>2, <2>4 DEF Loose, Demands
  <2> QED BY <2>3, <2>4, <2>5 DEF Row
<1>2. ASSUME NEW rest, NEW options \in {Languages, PresenceTypes}, NEW s, s = Select(rest, options),
             rest \in {<<"defaultLanguage">>, <<"presence", "type">>}
      PROVE  Row(s, "general")
  <2>1. /\ s.key = <<"general">> \o rest /\ s.default = <<"bot">> \o rest /\ s.type = "select"
        /\ s.validation = ZEnum(options) /\ s.options = options /\ s.minLength = 0 /\ s.maxLength = NoLimit
    BY <1>2 DEF Setting
  <2>2. Demands(s.validation, "text", FALSE, -NoLimit, NoLimit, FALSE, FALSE, options)
    BY <2>1, Schemas
  <2>3. Choice(s)
    BY <1>2, <2>1 DEF Choice, Languages, PresenceTypes
  <2>4. /\ s.key \in LooselyConfigured /\ s.key[1] = "general" /\ toRuntimePath(s.key) = s.default
        /\ SchemaAt(s.default) = ZString
    BY <1>a, <1>2, <2>1, ZenonT(60)
  <2>5. Loose(s)
    BY <2>2, <2>4 DEF Loose, Demands
  <2> QED BY <2>3, <2>4, <2>5 DEF Row
<1>3. ASSUME NEW a \in {"global", "perUser"}, NEW s,
             s = Bounded(General(<<"cooldowns", a>>, "number", ZPositive), 10, NoLimit, 1000)
      PROVE  Row(s, "general")
  <2>1. s = Bounded(Setting(<<"general", "cooldowns", a>>, "number", <<"bot", "cooldowns", a>>, ZPositive),
                    10, NoLimit, 1000)
    BY <1>3, Concat, ZenonT(60)
  <2>2. /\ s.key = <<"general", "cooldowns", a>> /\ s.default = <<"bot", "cooldowns", a>>
        /\ s.validation = ZPositive /\ Amount(s)
    BY <2>1, BoundedFields DEF BoundedBy
  <2>3. /\ s.key[1] = "general" /\ toRuntimePath(s.key) = s.default /\ SchemaAt(s.default) = ZPositive
    BY <1>0, <1>3, <2>2 DEF GeneralPaths, botSchema, cooldownsSchema
  <2> QED BY <2>2, <2>3 DEF Row
<1>4. Row(OfLength(General(<<"prefix">>, "string", ZLength(1, 20)), 1, 20), "general")
  BY <1>1
<1>5. Row(Select(<<"defaultLanguage">>, Languages), "general")
  BY <1>2
<1>6. Row(Select(<<"presence", "type">>, PresenceTypes), "general")
  BY <1>2
<1>7. Row(OfLength(General(<<"presence", "text">>, "string", ZLength(1, 128)), 1, 128), "general")
  BY <1>1
<1>8. Row(Bounded(General(<<"cooldowns", "global">>, "number", ZPositive), 10, NoLimit, 1000), "general")
  BY <1>3
<1>9. Row(Bounded(General(<<"cooldowns", "perUser">>, "number", ZPositive), 10, NoLimit, 1000), "general")
  BY <1>3
<1> QED BY <1>4, <1>5, <1>6, <1>7, <1>8, <1>9 DEF createGeneralSettings

-----------------------------------------------------------------------------
(* The form, the server and AppConfig *)

\* All settings, module by module.
LEMMA AllRows ==
  \A m \in DOMAIN BuiltIn : \A i \in DOMAIN BuiltIn[m] : Row(BuiltIn[m][i], Modules[m])
<1>1. DOMAIN BuiltIn = 1 .. 7
  BY DEF BuiltIn
<1>2. ASSUME NEW m \in 1 .. 7, NEW i \in DOMAIN BuiltIn[m]
      PROVE  Row(BuiltIn[m][i], Modules[m])
  <2>1. CASE m = 1
    BY <2>1, GeneralRows DEF BuiltIn, Modules
  <2>2. CASE m = 2
    BY <2>2, VoiceRows DEF BuiltIn, Modules
  <2>3. CASE m = 3
    BY <2>3, ModerationRows DEF BuiltIn, Modules
  <2>4. CASE m = 4
    BY <2>4, LoggingRows DEF BuiltIn, Modules
  <2>5. CASE m = 5
    BY <2>5, WelcomeRows DEF BuiltIn, Modules
  <2>6. CASE m = 6
    BY <2>6, GoodbyeRows DEF BuiltIn, Modules
  <2>7. CASE m = 7
    BY <2>7, ShrineRows DEF BuiltIn, Modules
  <2> QED BY <2>1, <2>2, <2>3, <2>4, <2>5, <2>6, <2>7
<1> QED BY <1>1, <1>2

\* A setting is a row of one of the modules.
LEMMA SettingsAreRows ==
  ASSUME NEW s \in Settings
  PROVE  \E m \in DOMAIN BuiltIn : (\E i \in DOMAIN BuiltIn[m] : s = BuiltIn[m][i]) /\ Row(s, Modules[m])
<1>1. PICK m \in DOMAIN BuiltIn : s \in Range(BuiltIn[m])
  BY DEF Settings
<1>2. PICK i \in DOMAIN BuiltIn[m] : s = BuiltIn[m][i]
  BY <1>1 DEF Range
<1> QED BY <1>1, <1>2, AllRows

\* What values are made of.
Measured(x) ==
  /\ x.kind \in {"boolean", "list", "number", "text"}
  /\ x.kind = "number" => x.n \in -NoLimit .. NoLimit
  /\ x.kind = "text" => /\ x.length \in 0 .. NoLimit /\ x.trimmed \in 0 .. NoLimit
                       /\ x.trimmed <= x.length

\* The fields of a text.
LEMMA TextFields ==
  ASSUME NEW length, NEW trimmed, NEW is
  PROVE  /\ Text(length, trimmed, is).kind = "text" /\ Text(length, trimmed, is).length = length
         /\ Text(length, trimmed, is).trimmed = trimmed /\ Text(length, trimmed, is).is = is
BY DEF Text, Value

\* The fields of a number, and of a text that is one.
LEMMA NumberFields ==
  ASSUME NEW n
  PROVE  /\ NumberOf(n).kind = "number" /\ NumberOf(n).n = n
         /\ Numeral(n).kind = "text" /\ Numeral(n).length = 2 /\ Numeral(n).trimmed = 2
         /\ Numeral(n).is = "numeral" /\ Numeral(n).n = n
BY DEF NumberOf, Numeral, Text, Value

\* Texts are texts, of lengths within the bound.
LEMMA MeasuredTexts ==
  ASSUME NEW x \in Texts
  PROVE  x.kind = "text" /\ Measured(x)
<1>0. \A n \in Lengths : 0 <= n /\ n <= NoLimit /\ n \in Int
  BY SettingAssumption, LimitIsNatural
<1>1. CASE x = EmptyText
  <2>1. x.kind = "text" /\ x.length = 0 /\ x.trimmed = 0
    BY <1>1, TextFields DEF EmptyText
  <2> QED BY <2>1, LimitIsNatural DEF Measured
<1>2. CASE x \in Blanks
  <2>1. PICK n \in Lengths : x = Text(n, 0, "other")
    BY <1>2 DEF Blanks
  <2>2. x.kind = "text" /\ x.length = n /\ x.trimmed = 0
    BY <2>1, TextFields
  <2> QED BY <1>0, <2>1, <2>2, LimitIsNatural DEF Measured
<1>3. CASE x \in Numerals
  <2>1. PICK n \in Amounts : x = Numeral(n)
    BY <1>3 DEF Numerals
  <2>2. x.kind = "text" /\ x.length = 2 /\ x.trimmed = 2
    BY <2>1, NumberFields
  <2> QED BY <2>2, LimitIsNatural DEF Measured
<1>4. ASSUME NEW n \in Lengths, NEW is, x = Text(n, n, is)
      PROVE  x.kind = "text" /\ Measured(x)
  <2>2. x.kind = "text" /\ x.length = n /\ x.trimmed = n
    BY <1>4, TextFields
  <2> QED BY <1>0, <2>2, LimitIsNatural DEF Measured
<1> QED BY <1>1, <1>2, <1>3, <1>4 DEF Texts

\* The same for all values.
LEMMA MeasuredValues ==
  ASSUME NEW x \in Values
  PROVE  Measured(x)
<1>1. CASE x \in {Flag, List}
  BY <1>1 DEF Flag, List, Value, Measured
<1>2. CASE x \in Texts
  BY <1>2, MeasuredTexts
<1>3. ASSUME NEW n \in Amounts, x = NumberOf(n) PROVE Measured(x)
  <2>1. x.kind = "number" /\ x.n = n
    BY <1>3, NumberFields
  <2>2. n \in -NoLimit .. NoLimit
    BY SettingAssumption
  <2> QED BY <2>1, <2>2 DEF Measured
<1> QED BY <1>1, <1>2, <1>3 DEF Values

\* What a setting's schema takes, kind by kind.
LEMMA ParsesByKind ==
  ASSUME NEW schema, NEW x, Parses(schema, x)
  PROVE  /\ x.kind = schema.kind
         /\ x.kind = "number" => /\ schema.low <= x.n /\ x.n <= schema.high
                                 /\ schema.whole => Whole(x)
         /\ x.kind = "text" /\ ~schema.trim => schema.low <= x.length /\ x.length <= schema.high
         /\ x.kind = "text" /\ schema.trim => schema.low <= x.trimmed /\ x.trimmed <= schema.high
         /\ schema.options # {} => x.is \in schema.options
BY DEF Parses, Measure

\* A saved value fits the place in AppConfig it is written to.
LEMMA RuntimeIsValid == RuntimeStaysValid
<1> SUFFICES ASSUME NEW s \in Settings
             PROVE  /\ toRuntimePath(s.key) = s.default
                    /\ \A x \in Values : Parses(s.validation, x) => x \in Configured(s)
  BY DEF RuntimeStaysValid
<1>1. PICK m \in DOMAIN BuiltIn : Row(s, Modules[m])
  BY SettingsAreRows
<1>2. toRuntimePath(s.key) = s.default
  BY <1>1 DEF Row
<1>3. ASSUME NEW x \in Values, Parses(s.validation, x)
      PROVE  Parses(SchemaAt(s.default), x)
  <2>1. CASE SchemaAt(s.default) = s.validation
    BY <1>3, <2>1
  <2>2. CASE Loose(s)
    <3>1. x.kind = "text" /\ SchemaAt(s.default) = ZString
      BY <1>3, <2>2 DEF Loose, Parses
    <3>2. Demands(ZString, "text", FALSE, -NoLimit, NoLimit, FALSE, FALSE, {})
      BY Schemas
    <3>3. x.length \in -NoLimit .. NoLimit
      BY <3>1, MeasuredValues, LimitIsNatural DEF Measured
    <3> QED BY <3>1, <3>2, <3>3 DEF Parses, Measure, Demands
  <2> QED BY <1>1, <2>1, <2>2 DEF Row
<1> QED BY <1>2, <1>3 DEF Configured

\* A number a form hands over, as the server gets it.
LEMMA NormalizedNumber ==
  ASSUME NEW s, s.type = "number", NEW n \in Amounts
  PROVE  /\ Numeral(n) # EmptyText
         /\ Normalized(s, Numeral(n)) = NumberOf(n)
<1>1. EmptyText.length = 0 /\ Numeral(n).length = 2
  BY TextFields, NumberFields DEF EmptyText
<1>2. Numeral(n) # EmptyText
  BY <1>1
<1> QED BY <1>2, NumberFields DEF Normalized

\* What the form lets through is refused only by rules the metadata does not state.
LEMMA FormSuffices == FormIsEnough
<1> SUFFICES ASSUME NEW s \in Settings, NEW d \in Configured(s), NEW x \in ModuleSettingControl(s),
                    Parses(s.validation, d), validateSetting(s, d, x),
                    ~Parses(s.validation, Normalized(s, x))
             PROVE  RuleNotStated(s, Normalized(s, x))
  BY DEF FormIsEnough
<1>1. Switch(s) \/ Collection(s) \/ Amount(s) \/ Choice(s) \/ Wording(s)
  BY SettingsAreRows DEF Row
<1>d. d \in Values
  BY DEF Configured
<1>2. CASE Switch(s)
  <2>1. x = Flag /\ Normalized(s, x) = Flag
    BY <1>2 DEF Switch, ModuleSettingControl, Normalized
  <2>2. Demands(s.validation, "boolean", FALSE, -NoLimit, NoLimit, FALSE, FALSE, {})
    BY <1>2, Schemas DEF Switch
  <2>3. Parses(s.validation, Flag)
    BY <2>2 DEF Parses, Demands, Flag, Value
  <2> QED BY <2>1, <2>3
<1>3. CASE Collection(s)
  <2>1. s.validation.kind = "list"
    BY <1>3, Schemas DEF Collection, Demands
  <2> QED BY <2>1 DEF RuleNotStated
<1>4. CASE Amount(s)
  <2>1. s.type = "number" /\ s.validation.kind = "number"
    BY <1>4 DEF Amount
  <2>2. d.kind = "number"
    BY <2>1 DEF Parses
  <2>3. requiresValue(s, d)
    BY <2>2 DEF requiresValue
  <2>4. validateNumberSetting(s, d, x)
    BY <2>1 DEF validateSetting
  <2>5. x # EmptyText /\ (s.step = 10 => Whole(x)) /\ s.min <= x.n /\ x.n <= s.max
    BY <2>3, <2>4 DEF validateNumberSetting
  <2>6. PICK n \in Amounts : x = Numeral(n)
    BY <2>1, <2>5 DEF ModuleSettingControl, Numerals
  <2>7. Normalized(s, x) = NumberOf(n) /\ x.n = n
    BY <2>1, <2>6, NormalizedNumber, NumberFields
  <2> DEFINE y == NumberOf(n)
  <2>8. y.kind = "number" /\ y.n = n /\ Whole(y) = Whole(x)
    BY <2>7, NumberFields DEF Whole
  <2> HIDE DEF y
  <2>9. /\ n \in Int /\ s.validation.low \in Int /\ s.validation.high \in Int
        /\ s.validation.high = s.max
    BY <1>4, LimitIsNatural, SettingAssumption DEF Amount
  <2>10. CASE s.validation.whole /\ ~Whole(y)
    BY <2>5, <2>7, <2>8, <2>10 DEF RuleNotStated, y
  <2>11. CASE n < s.validation.low
    <3>1. s.min < s.validation.low /\ y.n < s.validation.low
      BY <1>4, <2>5, <2>7, <2>8, <2>9, <2>11 DEF Amount
    <3> QED BY <3>1, <2>1, <2>7 DEF RuleNotStated, y
  <2>12. (s.validation.whole => Whole(y)) /\ s.validation.low <= n => Parses(s.validation, y)
    <3> SUFFICES ASSUME s.validation.whole => Whole(y), s.validation.low <= n
                 PROVE  Parses(s.validation, y)
      OBVIOUS
    <3>1. n \in s.validation.low .. s.validation.high
      BY <2>5, <2>7, <2>9
    <3> QED BY <3>1, <2>1, <2>8, <1>4 DEF Parses, Measure, Amount
  <2> QED BY <2>7, <2>9, <2>10, <2>11, <2>12 DEF y
<1>5. CASE Choice(s)
  <2>1. x \in Texts /\ x.is \in s.options /\ Normalized(s, x) = x
    BY <1>5 DEF Choice, ModuleSettingControl, Normalized
  <2>2. Demands(s.validation, "text", FALSE, -NoLimit, NoLimit, FALSE, FALSE, s.options)
    BY <1>5, Schemas DEF Choice
  <2>3. x.kind = "text" /\ x.length \in -NoLimit .. NoLimit
    BY <2>1, MeasuredTexts, LimitIsNatural DEF Measured
  <2>4. Parses(s.validation, x)
    BY <2>1, <2>2, <2>3 DEF Parses, Measure, Demands
  <2> QED BY <2>1, <2>4
<1>6. CASE Wording(s)
  <2>1. x \in Texts /\ Normalized(s, x) = x
    BY <1>6 DEF Wording, ModuleSettingControl, Normalized
  <2>2. validateTextSetting(s, d, x)
    BY <1>6 DEF Wording, validateSetting
  <2>3. /\ x.kind = "text" /\ x.length \in 0 .. NoLimit /\ x.trimmed \in 0 .. NoLimit
        /\ x.trimmed <= x.length
    BY <2>1, MeasuredTexts DEF Measured
  <2>4. d.kind = "text"
    BY <1>6 DEF Wording, Parses
  <2>5. /\ s.minLength <= x.length /\ x.length <= s.maxLength
        /\ IsBlank(x) => ~requiresValue(s, d)
    BY <2>2 DEF validateTextSetting
  <2>6. CASE s.validation.url
    BY <2>6 DEF RuleNotStated
  <2>7. CASE ~s.validation.url
    <3>1. Measure(s.validation, x) \in s.validation.low .. s.validation.high
      <4>1. CASE s.validation.trim
        <5>1. d.trimmed >= 1 /\ d.trimmed \in Int
          BY <1>d, <1>6, <2>4, <4>1, ParsesByKind, MeasuredValues, LimitIsNatural DEF Wording, Measured
        <5>2. ~IsBlank(x)
          BY <2>4, <2>5, <5>1 DEF requiresValue, IsBlank
        <5>3. 1 <= x.trimmed /\ x.trimmed <= NoLimit
          BY <2>3, <5>2, LimitIsNatural DEF IsBlank
        <5>4. s.validation.low = 1 /\ s.validation.high = NoLimit
          BY <1>6, <4>1 DEF Wording
        <5> QED BY <2>3, <4>1, <5>3, <5>4, LimitIsNatural DEF Measure
      <4>2. CASE ~s.validation.trim
        <5>1. s.validation.low <= x.length /\ x.length <= s.validation.high
          BY <1>6, <2>3, <2>5, <4>2, LimitIsNatural DEF Wording
        <5>2. Measure(s.validation, x) = x.length /\ x.length \in Int
          BY <2>3, <4>2, LimitIsNatural DEF Measure
        <5> QED BY <1>6, <5>1, <5>2 DEF Wording
      <4> QED BY <4>1, <4>2
    <3>2. Parses(s.validation, x)
      BY <1>6, <2>3, <2>7, <3>1 DEF Wording, Parses
    <3> QED BY <2>1, <3>2
  <2> QED BY <2>6, <2>7
<1> QED BY <1>1, <1>2, <1>3, <1>4, <1>5, <1>6

\* What the server takes, the form and the published contract take.
LEMMA FormIsFair == NothingValidRefused
<1> SUFFICES ASSUME NEW s \in Settings
             PROVE  /\ \A d \in Configured(s), x \in ModuleSettingControl(s) :
                         /\ Parses(s.validation, d)
                         /\ Parses(s.validation, Normalized(s, x))
                         /\ ~validateSetting(s, d, x)
                         => IsBlank(x)
                    /\ \A x \in Values :
                         Parses(s.validation, x)
                           => s.validation.kind = "list" \/ Parses(toValidationSchema(s), x)
  BY DEF NothingValidRefused
<1>k. Switch(s) \/ Collection(s) \/ Amount(s) \/ Choice(s) \/ Wording(s)
  BY SettingsAreRows DEF Row
\* A number the server takes is within the bounds of the metadata.
<1>n. ASSUME Amount(s), NEW x, x.kind = "number", x.n \in Int, -NoLimit <= x.n, Parses(s.validation, x)
      PROVE  s.min <= x.n /\ x.n <= s.max /\ (s.step = 10 => Whole(x))
  <2>1. /\ s.validation.low <= x.n /\ x.n <= s.validation.high
        /\ s.validation.whole => Whole(x)
    <3> DEFINE schema == s.validation
    <3>1. Parses(schema, x)
      BY <1>n
    <3> HIDE DEF schema
    <3>2. schema.low <= x.n /\ x.n <= schema.high
      BY <1>n, <3>1 DEF Parses, Measure
    <3>3. schema.whole => Whole(x)
      BY <3>1, Zenon DEF Parses
    <3> QED BY <3>2, <3>3 DEF schema
  <2>2. s.min <= x.n
    <3>1. CASE s.min = 10 /\ s.validation.low = 1 /\ s.validation.whole
      <4>1. x.n % 10 = 0 /\ 1 <= x.n
        BY <2>1, <3>1 DEF Whole
      <4> QED BY <1>n, <3>1, <4>1
    <3> QED BY <1>n, <2>1, <3>1 DEF Amount
  <2> QED BY <1>n, <2>1, <2>2 DEF Amount
\* A text the server takes is as long as the metadata says.
<1>w. ASSUME Wording(s) \/ Choice(s), NEW x, x.kind = "text", Measured(x), Parses(s.validation, x)
      PROVE  s.minLength <= x.length /\ x.length <= s.maxLength /\ (s.options # {} => x.is \in s.options)
  <2>1. x.length \in Int /\ 0 <= x.length /\ x.length <= NoLimit
    BY <1>w, LimitIsNatural DEF Measured
  <2>2. CASE Choice(s)
    <3>1. Demands(s.validation, "text", FALSE, -NoLimit, NoLimit, FALSE, FALSE, s.options)
      BY <2>2, Schemas DEF Choice
    <3>2. s.options # {} => x.is \in s.options
      BY <1>w, <3>1, ParsesByKind DEF Demands
    <3> QED BY <2>1, <2>2, <3>2 DEF Choice
  <2>3. CASE Wording(s)
    <3>1. CASE s.validation.trim
      BY <2>1, <2>3, <3>1 DEF Wording
    <3>2. CASE ~s.validation.trim
      <4>1. s.validation.low <= x.length /\ x.length <= s.validation.high
        BY <1>w, <3>2, ParsesByKind
      <4> QED BY <2>1, <2>3, <3>2, <4>1 DEF Wording
    <3> QED BY <3>1, <3>2
  <2> QED BY <1>w, <2>2, <2>3
<1>1. ASSUME NEW d \in Configured(s), NEW x \in ModuleSettingControl(s), Parses(s.validation, d),
             Parses(s.validation, Normalized(s, x)), ~validateSetting(s, d, x), ~IsBlank(x)
      PROVE  FALSE
  <2>1. CASE Switch(s)
    <3>1. x = Flag /\ ~(x.kind = "boolean")
      BY <1>1, <2>1 DEF Switch, ModuleSettingControl, validateSetting
    <3> QED BY <3>1 DEF Flag, Value
  <2>2. CASE Collection(s)
    <3>1. x \in Texts /\ Normalized(s, x) = x
      BY <2>2 DEF Collection, ModuleSettingControl, Normalized
    <3>2. s.validation.kind = "list"
      BY <2>2, Schemas DEF Collection, Demands
    <3>3. x.kind = "text"
      BY <3>1, MeasuredTexts
    <3> QED BY <1>1, <3>1, <3>2, <3>3, ParsesByKind
  <2>3. CASE Amount(s)
    <3>0. s.type = "number"
      BY <2>3 DEF Amount
    <3>1. EmptyText.kind = "text" /\ EmptyText.trimmed = 0
      BY TextFields DEF EmptyText
    <3>2. x # EmptyText
      BY <1>1, <3>1 DEF IsBlank
    <3>3. PICK n \in Amounts : x = Numeral(n)
      BY <3>0, <3>2 DEF ModuleSettingControl, Numerals
    <3>4. Normalized(s, x) = NumberOf(n) /\ x.n = n
      BY <3>0, <3>3, NormalizedNumber, NumberFields
    <3> DEFINE y == NumberOf(n)
    <3>5. y.kind = "number" /\ y.n = n /\ (Whole(y) => Whole(x))
      BY <3>4, NumberFields DEF Whole
    <3> HIDE DEF y
    <3>6. n \in Int /\ -NoLimit <= n
      BY SettingAssumption, LimitIsNatural
    <3>7. Parses(s.validation, y)
      BY <1>1, <3>4 DEF y
    <3>8. s.min <= y.n /\ y.n <= s.max /\ (s.step = 10 => Whole(y))
      BY <1>n, <2>3, <3>5, <3>6, <3>7
    <3>9. validateNumberSetting(s, d, x)
      BY <3>2, <3>4, <3>5, <3>8 DEF validateNumberSetting
    <3> QED BY <1>1, <3>0, <3>9 DEF validateSetting
  <2>4. CASE Choice(s) \/ Wording(s)
    <3>1. s.type \notin {"boolean", "number", "json"}
      BY <2>4 DEF Choice, Wording
    <3>2. x \in Texts /\ Normalized(s, x) = x
      BY <3>1 DEF ModuleSettingControl, Normalized
    <3>3. x.kind = "text" /\ Measured(x)
      BY <3>2, MeasuredTexts
    <3>4. s.minLength <= x.length /\ x.length <= s.maxLength /\ (s.options # {} => x.is \in s.options)
      BY <1>1, <1>w, <2>4, <3>2, <3>3
    <3>5. s.type = "select" => s.options # {}
      BY <2>4 DEF Choice, Wording
    <3>6. validateTextSetting(s, d, x)
      BY <1>1, <3>4, <3>5 DEF validateTextSetting
    <3> QED BY <1>1, <3>1, <3>6 DEF validateSetting
  <2> QED BY <1>k, <2>1, <2>2, <2>3, <2>4
<1>2. ASSUME NEW x \in Values, Parses(s.validation, x), s.validation.kind # "list"
      PROVE  Parses(toValidationSchema(s), x)
  <2>0. Measured(x) /\ x.kind = s.validation.kind
    BY <1>2, MeasuredValues, ParsesByKind
  <2>1. CASE Switch(s)
    BY <1>2, <2>1 DEF Switch, toValidationSchema
  <2>2. ~Collection(s)
    BY <1>2, Schemas DEF Collection, Demands
  <2>3. CASE Amount(s)
    <3>1. toValidationSchema(s) = ZNumber(s.min, s.max)
      BY <2>3 DEF Amount, toValidationSchema
    <3>2. Demands(ZNumber(s.min, s.max), "number", FALSE, s.min, s.max, FALSE, FALSE, {})
      BY Schemas
    <3>3. x.kind = "number" /\ x.n \in Int /\ -NoLimit <= x.n
      BY <2>0, <2>3, LimitIsNatural DEF Amount, Measured
    <3>4. s.min <= x.n /\ x.n <= s.max
      BY <1>2, <1>n, <2>3, <3>3
    <3>5. x.n \in s.min .. s.max
      BY <2>3, <3>3, <3>4 DEF Amount
    <3>6. Parses(ZNumber(s.min, s.max), x)
      BY <3>2, <3>3, <3>5 DEF Parses, Measure, Demands
    <3> QED BY <3>1, <3>6
  <2>4. CASE Choice(s) \/ Wording(s)
    <3> DEFINE z == ZLength(s.minLength, s.maxLength)
               schema == [z EXCEPT !.options = s.options]
    <3>1. toValidationSchema(s) = schema
      BY <2>4 DEF Choice, Wording, toValidationSchema
    <3>2. Demands(schema, "text", FALSE, s.minLength, s.maxLength, FALSE, FALSE, s.options)
      BY DEF Demands, ZLength, ZString, Zod
    <3> HIDE DEF schema
    <3>3. x.kind = "text"
      <4>1. Choice(s) => s.validation.kind = "text"
        BY Schemas DEF Choice, Demands
      <4> QED BY <2>0, <2>4, <4>1 DEF Wording
    <3>4. s.minLength <= x.length /\ x.length <= s.maxLength /\ (s.options # {} => x.is \in s.options)
      BY <1>2, <1>w, <2>0, <2>4, <3>3
    <3>5. s.minLength \in Int /\ s.maxLength \in Int /\ x.length \in Int
      BY <2>0, <2>4, <3>3, LimitIsNatural DEF Choice, Wording, Measured
    <3>6. x.length \in s.minLength .. s.maxLength
      BY <3>4, <3>5
    <3>7. Parses(schema, x)
      BY <3>2, <3>3, <3>4, <3>6 DEF Parses, Measure, Demands
    <3> QED BY <3>1, <3>7
  <2> QED BY <1>k, <2>1, <2>2, <2>3, <2>4
<1> QED BY <1>1, <1>2

-----------------------------------------------------------------------------
(* The settings registry *)

KeysDiffer(settings) ==
  \A i, j \in DOMAIN settings : settings[i].key = settings[j].key => i = j

\* The key of a setting, whatever is added to the setting.
LEMMA KeyOfSetting ==
  ASSUME NEW key, NEW type, NEW default, NEW validation
  PROVE  /\ Setting(key, type, default, validation).key = key
         /\ \A min, max, step : Bounded(Setting(key, type, default, validation), min, max, step).key = key
         /\ \A least, most : OfLength(Setting(key, type, default, validation), least, most).key = key
         /\ \A options : [Setting(key, type, default, validation) EXCEPT !.options = options].key = key
BY DEF Setting, Bounded, OfLength

\* The same for the settings under bot.
LEMMA KeyInBot ==
  ASSUME NEW key, NEW type, NEW validation
  PROVE  /\ InBot(key, type, validation).key = key
         /\ \A min, max, step : Bounded(InBot(key, type, validation), min, max, step).key = key
         /\ \A least, most : OfLength(InBot(key, type, validation), least, most).key = key
BY KeyOfSetting DEF InBot

\* No module has two settings of one key.
LEMMA VoiceKeys == KeysDiffer(createVoiceSettings)
<1> DEFINE keys == << <<"voice", "standbyChannelId">>, <<"voice", "maxReconnectRetries">>,
                      <<"voice", "defaultSound">>, <<"voice", "volume">>, <<"voice", "joinDelayMs">>,
                      <<"voice", "cooldownMs">>, <<"voice", "reconnectDelayMs">> >>
<1>1. DOMAIN createVoiceSettings = 1 .. 7
  BY DEF createVoiceSettings
<1>2. \A i \in 1 .. 7 : createVoiceSettings[i].key = keys[i]
  BY KeyInBot DEF createVoiceSettings
<1>3. \A i, j \in 1 .. 7 : keys[i] = keys[j] => i = j
  <2>1. \A i \in 1 .. 7 : keys[i][2] = << "standbyChannelId", "maxReconnectRetries", "defaultSound", "volume", "joinDelayMs", "cooldownMs", "reconnectDelayMs" >>[i]
    OBVIOUS
  <2> QED BY <2>1
<1> HIDE DEF keys
<1> QED BY <1>1, <1>2, <1>3 DEF KeysDiffer

LEMMA WelcomeKeys == KeysDiffer(createWelcomeSettings)
<1> DEFINE keys == << <<"welcome", "enabled">>, <<"welcome", "channelId">>, <<"welcome",
                      "backgroundUrl">>, <<"welcome", "message", "title">>, <<"welcome", "message",
                      "body">>, <<"welcome", "image", "title">>, <<"welcome", "image", "subtitle">>
                      >>
<1>1. DOMAIN createWelcomeSettings = 1 .. 7
  BY DEF createWelcomeSettings
<1>2. \A i \in 1 .. 7 : createWelcomeSettings[i].key = keys[i]
  BY KeyInBot DEF createWelcomeSettings
<1>3. \A i, j \in 1 .. 7 : keys[i] = keys[j] => i = j
  OBVIOUS
<1> HIDE DEF keys
<1> QED BY <1>1, <1>2, <1>3 DEF KeysDiffer

LEMMA GoodbyeKeys == KeysDiffer(createGoodbyeSettings)
<1> DEFINE keys == << <<"goodbye", "enabled">>, <<"goodbye", "channelId">>, <<"goodbye", "image",
                      "backgroundUrl">>, <<"goodbye", "image", "title">>, <<"goodbye", "image",
                      "subtitle">> >>
<1>1. DOMAIN createGoodbyeSettings = 1 .. 5
  BY DEF createGoodbyeSettings
<1>2. \A i \in 1 .. 5 : createGoodbyeSettings[i].key = keys[i]
  BY KeyInBot DEF createGoodbyeSettings
<1>3. \A i, j \in 1 .. 5 : keys[i] = keys[j] => i = j
  OBVIOUS
<1> HIDE DEF keys
<1> QED BY <1>1, <1>2, <1>3 DEF KeysDiffer

LEMMA ShrineKeys == KeysDiffer(createShrineSettings)
<1> DEFINE keys == << <<"shrine", "enabled">>, <<"shrine", "guildId">>, <<"shrine",
                      "channelId">>, <<"shrine", "nightLightBaseUrl">>, <<"shrine", "imageCdnUrl">>,
                      <<"shrine", "portraitFolder">>, <<"shrine", "perkFolder">>, <<"shrine",
                      "iridescentShardIcon">>, <<"shrine", "polling", "pollIntervalMs">>,
                      <<"shrine", "polling", "preResetWindowMs">>, <<"shrine", "polling",
                      "delayedUpdateWindowMs">>, <<"shrine", "polling", "fallbackRetryMs">>,
                      <<"shrine", "dev", "forceAnnouncementOnStartup">> >>
<1>1. DOMAIN createShrineSettings = 1 .. 13
  BY DEF createShrineSettings
<1>2. \A i \in 1 .. 13 : createShrineSettings[i].key = keys[i]
  <2>1. createShrineSettings[1].key = <<"shrine", "enabled">>
    BY KeyInBot DEF createShrineSettings
  <2>2. createShrineSettings[2].key = <<"shrine", "guildId">>
    BY KeyInBot DEF createShrineSettings
  <2>3. createShrineSettings[3].key = <<"shrine", "channelId">>
    BY KeyInBot DEF createShrineSettings
  <2>4. createShrineSettings[4].key = <<"shrine", "nightLightBaseUrl">>
    BY KeyInBot DEF createShrineSettings
  <2>5. createShrineSettings[5].key = <<"shrine", "imageCdnUrl">>
    BY KeyInBot DEF createShrineSettings
  <2>6. createShrineSettings[6].key = <<"shrine", "portraitFolder">>
    BY KeyInBot DEF createShrineSettings
  <2>7. createShrineSettings[7].key = <<"shrine", "perkFolder">>
    BY KeyInBot DEF createShrineSettings
  <2>8. createShrineSettings[8].key = <<"shrine", "iridescentShardIcon">>
    BY KeyInBot DEF createShrineSettings
  <2>9. createShrineSettings[9].key = <<"shrine", "polling", "pollIntervalMs">>
    BY KeyInBot DEF createShrineSettings
  <2>10. createShrineSettings[10].key = <<"shrine", "polling", "preResetWindowMs">>
    BY KeyInBot DEF createShrineSettings
  <2>11. createShrineSettings[11].key = <<"shrine", "polling", "delayedUpdateWindowMs">>
    BY KeyInBot DEF createShrineSettings
  <2>12. createShrineSettings[12].key = <<"shrine", "polling", "fallbackRetryMs">>
    BY KeyInBot DEF createShrineSettings
  <2>13. createShrineSettings[13].key = <<"shrine", "dev", "forceAnnouncementOnStartup">>
    BY KeyInBot DEF createShrineSettings
  <2>a. \A i \in 1 .. 4 : createShrineSettings[i].key = keys[i]
    BY <2>1, <2>2, <2>3, <2>4
  <2>b. \A i \in 5 .. 8 : createShrineSettings[i].key = keys[i]
    BY <2>5, <2>6, <2>7, <2>8
  <2>c. \A i \in 9 .. 10 : createShrineSettings[i].key = keys[i]
    BY <2>9, <2>10
  <2>d. \A i \in 11 .. 13 : createShrineSettings[i].key = keys[i]
    BY <2>11, <2>12, <2>13
  <2> HIDE DEF keys
  <2> QED BY <2>a, <2>b, <2>c, <2>d
<1>3. \A i, j \in 1 .. 13 : keys[i] = keys[j] => i = j
  OBVIOUS
<1> HIDE DEF keys
<1> QED BY <1>1, <1>2, <1>3 DEF KeysDiffer

LEMMA ModerationKeys == KeysDiffer(createModerationSettings)
<1> DEFINE keys == << <<"moderation", "roles", "administrator">>, <<"moderation", "roles",
                      "moderator">>, <<"moderation", "roles", "trusted">> >>
<1>1. DOMAIN createModerationSettings = 1 .. 3
  BY DEF createModerationSettings
<1>2. \A i \in 1 .. 3 : createModerationSettings[i].key = keys[i]
  BY KeyOfSetting DEF createModerationSettings
<1>3. \A i, j \in 1 .. 3 : keys[i] = keys[j] => i = j
  OBVIOUS
<1> HIDE DEF keys
<1> QED BY <1>1, <1>2, <1>3 DEF KeysDiffer

LEMMA LoggingKeys == KeysDiffer(createLoggingSettings)
<1> DEFINE keys == << <<"logging", "enabled">>, <<"logging", "voice", "enabled">>, <<"logging",
                      "voice", "channelId">>, <<"logging", "member", "enabled">>, <<"logging",
                      "member", "channelId">>, <<"logging", "member", "roles">>, <<"logging",
                      "message", "enabled">>, <<"logging", "message", "channelId">>, <<"logging",
                      "message", "archiveAttachments">>, <<"logging", "message",
                      "maxAttachmentSizeMb">>, <<"logging", "moderation", "enabled">>, <<"logging",
                      "moderation", "channelId">> >>
<1>a. /\ InBot(<<"logging">> \o <<"enabled">>, "boolean", ZBoolean).key = <<"logging", "enabled">>
      /\ \A a, b : InBot(<<"logging">> \o <<a, b>>, "boolean", ZBoolean).key = <<"logging", a, b>>
  <2>1. InBot(<<"logging">> \o <<"enabled">>, "boolean", ZBoolean).key = <<"logging">> \o <<"enabled">>
    BY KeyInBot
  <2>2. \A a, b : InBot(<<"logging">> \o <<a, b>>, "boolean", ZBoolean).key = <<"logging">> \o <<a, b>>
    BY KeyInBot
  <2> QED BY <2>1, <2>2, Concat
<1>1. DOMAIN createLoggingSettings = 1 .. 12
  BY DEF createLoggingSettings
<1>2. \A i \in 1 .. 12 : createLoggingSettings[i].key = keys[i]
  <2>1. createLoggingSettings[1].key = <<"logging", "enabled">>
    BY <1>a, KeyInBot DEF createLoggingSettings
  <2>2. createLoggingSettings[2].key = <<"logging", "voice", "enabled">>
    BY <1>a, KeyInBot DEF createLoggingSettings
  <2>3. createLoggingSettings[3].key = <<"logging", "voice", "channelId">>
    BY <1>a, KeyInBot DEF createLoggingSettings
  <2>4. createLoggingSettings[4].key = <<"logging", "member", "enabled">>
    BY <1>a, KeyInBot DEF createLoggingSettings
  <2>5. createLoggingSettings[5].key = <<"logging", "member", "channelId">>
    BY <1>a, KeyInBot DEF createLoggingSettings
  <2>6. createLoggingSettings[6].key = <<"logging", "member", "roles">>
    BY <1>a, KeyInBot DEF createLoggingSettings
  <2>7. createLoggingSettings[7].key = <<"logging", "message", "enabled">>
    BY <1>a, KeyInBot DEF createLoggingSettings
  <2>8. createLoggingSettings[8].key = <<"logging", "message", "channelId">>
    BY <1>a, KeyInBot DEF createLoggingSettings
  <2>9. createLoggingSettings[9].key = <<"logging", "message", "archiveAttachments">>
    BY <1>a, KeyInBot DEF createLoggingSettings
  <2>10. createLoggingSettings[10].key = <<"logging", "message", "maxAttachmentSizeMb">>
    BY <1>a, KeyInBot DEF createLoggingSettings
  <2>11. createLoggingSettings[11].key = <<"logging", "moderation", "enabled">>
    BY <1>a, KeyInBot DEF createLoggingSettings
  <2>12. createLoggingSettings[12].key = <<"logging", "moderation", "channelId">>
    BY <1>a, KeyInBot DEF createLoggingSettings
  <2>a. \A i \in 1 .. 4 : createLoggingSettings[i].key = keys[i]
    BY <2>1, <2>2, <2>3, <2>4
  <2>b. \A i \in 5 .. 8 : createLoggingSettings[i].key = keys[i]
    BY <2>5, <2>6, <2>7, <2>8
  <2>c. \A i \in 9 .. 10 : createLoggingSettings[i].key = keys[i]
    BY <2>9, <2>10
  <2>d. \A i \in 11 .. 12 : createLoggingSettings[i].key = keys[i]
    BY <2>11, <2>12
  <2> HIDE DEF keys
  <2> QED BY <2>a, <2>b, <2>c, <2>d
<1>3. \A i, j \in 1 .. 12 : keys[i] = keys[j] => i = j
  OBVIOUS
<1> HIDE DEF keys
<1> QED BY <1>1, <1>2, <1>3 DEF KeysDiffer

LEMMA GeneralKeys == KeysDiffer(createGeneralSettings)
<1> DEFINE keys == << <<"general", "prefix">>, <<"general", "defaultLanguage">>, <<"general",
                      "presence", "type">>, <<"general", "presence", "text">>, <<"general",
                      "cooldowns", "global">>, <<"general", "cooldowns", "perUser">> >>
<1> DEFINE General(rest, type, validation) ==
             Setting(<<"general">> \o rest, type, <<"bot">> \o rest, validation)
<1>a. ASSUME NEW rest, NEW least, NEW most, NEW type, NEW validation
      PROVE  OfLength(General(rest, type, validation), least, most).key = <<"general">> \o rest
  <2>1. \A key, default : OfLength(Setting(key, type, default, validation), least, most).key = key
    BY KeyOfSetting
  <2> QED BY <2>1, Zenon
<1>b. ASSUME NEW rest, NEW options, NEW type, NEW validation
      PROVE  [General(rest, type, validation) EXCEPT !.options = options].key = <<"general">> \o rest
  <2>1. \A key, default : [Setting(key, type, default, validation) EXCEPT !.options = options].key = key
    BY KeyOfSetting
  <2> QED BY <2>1, Zenon
<1>c. ASSUME NEW rest, NEW min, NEW max, NEW step, NEW type, NEW validation
      PROVE  Bounded(General(rest, type, validation), min, max, step).key = <<"general">> \o rest
  <2>1. \A key, default : Bounded(Setting(key, type, default, validation), min, max, step).key = key
    BY KeyOfSetting
  <2> QED BY <2>1, Zenon
<1> HIDE DEF General
<1>d. OfLength(General(<<"prefix">>, "string", ZLength(1, 20)), 1, 20).key
        = <<"general", "prefix">>
  <2>1. OfLength(General(<<"prefix">>, "string", ZLength(1, 20)), 1, 20).key
          = <<"general">> \o <<"prefix">>
    BY <1>a
  <2> QED BY <2>1, Concat
<1>e. [General(<<"defaultLanguage">>, "select", ZEnum(Languages)) EXCEPT !.options = Languages].key
        = <<"general", "defaultLanguage">>
  <2>1. [General(<<"defaultLanguage">>, "select", ZEnum(Languages)) EXCEPT !.options = Languages].key
          = <<"general">> \o <<"defaultLanguage">>
    BY <1>b
  <2> QED BY <2>1, Concat
<1>f. [General(<<"presence", "type">>, "select", ZEnum(PresenceTypes)) EXCEPT !.options = PresenceTypes].key
        = <<"general", "presence", "type">>
  <2>1. [General(<<"presence", "type">>, "select", ZEnum(PresenceTypes)) EXCEPT !.options = PresenceTypes].key
          = <<"general">> \o <<"presence", "type">>
    BY <1>b
  <2> QED BY <2>1, Concat
<1>g. OfLength(General(<<"presence", "text">>, "string", ZLength(1, 128)), 1, 128).key
        = <<"general", "presence", "text">>
  <2>1. OfLength(General(<<"presence", "text">>, "string", ZLength(1, 128)), 1, 128).key
          = <<"general">> \o <<"presence", "text">>
    BY <1>a, SMTT(30)
  <2> QED BY <2>1, Concat
<1>h. Bounded(General(<<"cooldowns", "global">>, "number", ZPositive), 10, NoLimit, 1000).key
        = <<"general", "cooldowns", "global">>
  <2>1. Bounded(General(<<"cooldowns", "global">>, "number", ZPositive), 10, NoLimit, 1000).key
          = <<"general">> \o <<"cooldowns", "global">>
    BY <1>c, SMTT(30)
  <2> QED BY <2>1, Concat
<1>i. Bounded(General(<<"cooldowns", "perUser">>, "number", ZPositive), 10, NoLimit, 1000).key
        = <<"general", "cooldowns", "perUser">>
  <2>1. Bounded(General(<<"cooldowns", "perUser">>, "number", ZPositive), 10, NoLimit, 1000).key
          = <<"general">> \o <<"cooldowns", "perUser">>
    BY <1>c, SMTT(30)
  <2> QED BY <2>1, Concat
<1> USE DEF General
<1>1. DOMAIN createGeneralSettings = 1 .. 6
  BY DEF createGeneralSettings
<1>2. \A i \in 1 .. 6 : createGeneralSettings[i].key = keys[i]
  <2>1. createGeneralSettings[1].key = <<"general", "prefix">>
    BY <1>d, <1>e, <1>f, <1>g, <1>h, <1>i DEF createGeneralSettings
  <2>2. createGeneralSettings[2].key = <<"general", "defaultLanguage">>
    BY <1>d, <1>e, <1>f, <1>g, <1>h, <1>i DEF createGeneralSettings
  <2>3. createGeneralSettings[3].key = <<"general", "presence", "type">>
    BY <1>d, <1>e, <1>f, <1>g, <1>h, <1>i DEF createGeneralSettings
  <2>4. createGeneralSettings[4].key = <<"general", "presence", "text">>
    BY <1>d, <1>e, <1>f, <1>g, <1>h, <1>i DEF createGeneralSettings
  <2>5. createGeneralSettings[5].key = <<"general", "cooldowns", "global">>
    BY <1>d, <1>e, <1>f, <1>g, <1>h, <1>i DEF createGeneralSettings
  <2>6. createGeneralSettings[6].key = <<"general", "cooldowns", "perUser">>
    BY <1>d, <1>e, <1>f, <1>g, <1>h, <1>i DEF createGeneralSettings
  <2> QED BY <2>1, <2>2, <2>3, <2>4, <2>5, <2>6
<1>3. \A i, j \in 1 .. 6 : keys[i] = keys[j] => i = j
  OBVIOUS
<1> HIDE DEF keys
<1> QED BY <1>1, <1>2, <1>3 DEF KeysDiffer

\* Every setting has a default that the configuration files and its own schema take.
LEMMA DefaultParses ==
  ASSUME NEW s \in Settings
  PROVE  Parses(s.validation, Default(s))
<1>k. Switch(s) \/ Collection(s) \/ Amount(s) \/ Choice(s) \/ Wording(s)
  BY SettingsAreRows DEF Row
<1>1. \E x \in Values : Parses(s.validation, x)
  <2>1. CASE Switch(s)
    <3>1. Demands(s.validation, "boolean", FALSE, -NoLimit, NoLimit, FALSE, FALSE, {})
      BY <2>1, Schemas DEF Switch
    <3>2. Parses(s.validation, Flag)
      BY <3>1 DEF Parses, Demands, Flag, Value
    <3> QED BY <3>2 DEF Values
  <2>2. CASE Collection(s)
    <3>1. Demands(s.validation, "list", FALSE, -NoLimit, NoLimit, FALSE, FALSE, {})
      BY <2>2, Schemas DEF Collection
    <3>2. Parses(s.validation, List)
      BY <3>1 DEF Parses, Demands, List, Value
    <3> QED BY <3>2 DEF Values
  <2>3. CASE Amount(s)
    <3> DEFINE x == NumberOf(10)
    <3>1. x.kind = "number" /\ x.n = 10 /\ x \in Values
      BY NumberFields, SettingAssumption DEF Values
    <3>2. Whole(x)
      BY <3>1 DEF Whole
    <3> HIDE DEF x
    <3>3. x.n \in s.validation.low .. s.validation.high
      BY <2>3, <3>1 DEF Amount
    <3>4. Parses(s.validation, x)
      BY <2>3, <3>1, <3>2, <3>3 DEF Amount, Parses, Measure
    <3> QED BY <3>1, <3>4
  <2>4. CASE Choice(s)
    <3>1. PICK option : option \in s.options /\ option \in Languages \cup PresenceTypes
      BY <2>4 DEF Choice
    <3> DEFINE x == Text(8, 8, option)
    <3>2. x.kind = "text" /\ x.length = 8 /\ x.is = option
      BY TextFields
    <3>3. x \in Values
      BY <3>1, SettingAssumption DEF Values, Texts
    <3> HIDE DEF x
    <3>4. Demands(s.validation, "text", FALSE, -NoLimit, NoLimit, FALSE, FALSE, s.options)
      BY <2>4, Schemas DEF Choice
    <3>5. x.length \in -NoLimit .. NoLimit
      BY <3>2, LimitIsNatural
    <3>6. Parses(s.validation, x)
      BY <3>1, <3>2, <3>4, <3>5 DEF Parses, Measure, Demands
    <3> QED BY <3>3, <3>6
  <2>5. CASE Wording(s)
    <3> DEFINE x == Text(8, 8, "url")
    <3>1. x.kind = "text" /\ x.length = 8 /\ x.trimmed = 8 /\ x.is = "url"
      BY TextFields
    <3>2. x \in Values
      BY SettingAssumption DEF Values, Texts
    <3> HIDE DEF x
    <3>3. 8 \in s.validation.low .. s.validation.high
      BY <2>5 DEF Wording
    <3>4. Measure(s.validation, x) = 8
      BY <3>1 DEF Measure
    <3>5. Parses(s.validation, x)
      BY <2>5, <3>1, <3>3, <3>4 DEF Wording, Parses
    <3> QED BY <3>2, <3>5
  <2> QED BY <1>k, <2>1, <2>2, <2>3, <2>4, <2>5
<1>2. \E x \in Configured(s) : Parses(s.validation, x)
  BY <1>1, RuntimeIsValid DEF RuntimeStaysValid
<1> QED BY <1>2 DEF Default

\* Seven modules, of different names.
LEMMA BuiltInFacts ==
  /\ DOMAIN BuiltIn = 1 .. 7 /\ Len(BuiltIn) = 7 /\ BuiltIn \in Seq(Range(BuiltIn))
  /\ \A m, n \in 1 .. 7 : Modules[m] = Modules[n] => m = n
  /\ \A m \in 1 .. 7 : KeysDiffer(BuiltIn[m])
<1>1. DOMAIN BuiltIn = 1 .. 7 /\ Len(BuiltIn) = 7 /\ BuiltIn \in Seq(Range(BuiltIn))
  BY DEF BuiltIn, Range
<1>2. \A m, n \in 1 .. 7 : Modules[m] = Modules[n] => m = n
  BY DEF Modules
<1>3. ASSUME NEW m \in 1 .. 7 PROVE KeysDiffer(BuiltIn[m])
  BY GeneralKeys, VoiceKeys, ModerationKeys, LoggingKeys, WelcomeKeys, GoodbyeKeys, ShrineKeys DEF BuiltIn
<1> QED BY <1>1, <1>2, <1>3

\* The registry after the first n modules.
Registry(n, defaults) ==
  [modules |-> [j \in 1 .. n |-> Entry(Modules[j], BuiltIn[j], defaults[j])], threw |-> FALSE]

\* Defaults that the schemas of the settings take.
Fitting(defaults) ==
  \A m \in 1 .. 7 : \A i \in DOMAIN BuiltIn[m] : Parses(BuiltIn[m][i].validation, defaults[m][i])

\* A module whose defaults fit is accepted, as its keys are its own.
LEMMA IsAcceptable ==
  ASSUME NEW defaults, Fitting(defaults), NEW n \in 1 .. 7
  PROVE  /\ Places(Registry(n - 1, defaults), Modules[n]) = {}
         /\ Acceptable(Registry(n - 1, defaults), Modules[n], BuiltIn[n], defaults[n])
<1> DEFINE reg == Registry(n - 1, defaults)
<1>1. /\ DOMAIN reg.modules = 1 .. n - 1
      /\ \A j \in 1 .. n - 1 : /\ reg.modules[j].module = Modules[j]
                               /\ reg.modules[j].settings = BuiltIn[j]
  BY DEF Registry, Entry
<1> HIDE DEF reg
<1>a. \A j \in 1 .. n - 1 : j \in 1 .. 7 /\ j # n
  OBVIOUS
<1>b. \A j \in 1 .. n - 1 : Modules[j] # Modules[n]
  BY <1>a, BuiltInFacts
<1>2. Places(reg, Modules[n]) = {}
  BY <1>1, <1>b DEF Places
<1>3. \A m \in 1 .. 7 : \A i \in DOMAIN BuiltIn[m] : BuiltIn[m][i].key[1] = Modules[m]
  BY AllRows, BuiltInFacts DEF Row
<1>4. KeysOf(BuiltIn[n]) \cap RegisteredKeys(reg) = {}
  <2> SUFFICES ASSUME NEW key \in KeysOf(BuiltIn[n]), key \in RegisteredKeys(reg)
               PROVE  FALSE
    OBVIOUS
  <2>1. PICK j \in 1 .. n - 1 : key \in KeysOf(BuiltIn[j])
    BY <1>1 DEF RegisteredKeys
  <2>2. key[1] = Modules[n] /\ key[1] = Modules[j]
    BY <1>3, <1>a, <2>1 DEF KeysOf
  <2> QED BY <1>b, <2>2
<1>5. Acceptable(reg, Modules[n], BuiltIn[n], defaults[n])
  BY <1>3, <1>4, BuiltInFacts DEF Acceptable, Fitting, KeysDiffer
<1> QED BY <1>2, <1>5 DEF reg

\* The registry after a change of its modules, and after a call that throws.
LEMMA Replaced ==
  ASSUME NEW modules, NEW reg, reg = [modules |-> modules, threw |-> FALSE], NEW x
  PROVE  /\ [reg EXCEPT !.modules = x] = [modules |-> x, threw |-> FALSE]
         /\ [reg EXCEPT !.threw = FALSE] = reg
         /\ [reg EXCEPT !.threw = TRUE].threw = TRUE
         /\ [[reg EXCEPT !.threw = TRUE] EXCEPT !.threw = FALSE] = reg
<1> DEFINE one == [reg EXCEPT !.modules = x]
           same == [reg EXCEPT !.threw = FALSE]
           thrown == [reg EXCEPT !.threw = TRUE]
           back == [thrown EXCEPT !.threw = FALSE]
<1>1. reg \in [modules : {modules}, threw : {FALSE}]
  OBVIOUS
<1>2. /\ one \in [modules : {x}, threw : {FALSE}] /\ same \in [modules : {modules}, threw : {FALSE}]
      /\ thrown \in [modules : {modules}, threw : {TRUE}]
  BY <1>1
<1>3. back \in [modules : {modules}, threw : {FALSE}]
  <2> HIDE DEF thrown
  <2> QED BY <1>2
<1>4. thrown.threw = TRUE
  BY <1>1
<1> HIDE DEF one, same, thrown, back
<1>5. /\ one = [modules |-> x, threw |-> FALSE] /\ same = [modules |-> modules, threw |-> FALSE]
      /\ back = [modules |-> modules, threw |-> FALSE]
  BY <1>2, <1>3
<1>6. one = [modules |-> x, threw |-> FALSE] /\ same = reg /\ back = reg
  BY <1>5
<1> USE DEF one, same, thrown, back
<1> QED BY <1>4, <1>6

\* The next module is appended to those before it.
LEMMA NextRegistered ==
  ASSUME NEW defaults, Fitting(defaults), NEW n \in 1 .. 7
  PROVE  RegisterNext(Registry(n - 1, defaults), n, defaults) = Registry(n, defaults)
<1> DEFINE Of(j) == Entry(Modules[j], BuiltIn[j], defaults[j])
           before == [j \in 1 .. n - 1 |-> Of(j)]
           after == [j \in 1 .. n |-> Of(j)]
           reg == Registry(n - 1, defaults)
<1>1. reg = [modules |-> before, threw |-> FALSE] /\ reg.modules = before /\ reg.threw = FALSE
  BY DEF Registry
<1>2. Append(before, Of(n)) = after
  <2> DEFINE T == {Of(j) : j \in 1 .. 7}
  <2>1. before \in Seq(T) /\ Len(before) = n - 1 /\ Of(n) \in T
    OBVIOUS
  <2>2. \A j \in 1 .. n - 1 : before[j] = after[j]
    OBVIOUS
  <2>3. after[n] = Of(n) /\ after = [j \in 1 .. n |-> after[j]]
    OBVIOUS
  <2> HIDE DEF before, after, T, Of
  <2> DEFINE longer == Append(before, Of(n))
  <2>4. longer \in Seq(T) /\ Len(longer) = n /\ longer[n] = Of(n) /\ \A j \in 1 .. n - 1 : longer[j] = before[j]
    BY <2>1, AppendProperties
  <2> HIDE DEF longer
  <2>5. longer = [j \in 1 .. n |-> longer[j]]
    BY <2>4
  <2>6. \A j \in 1 .. n : longer[j] = after[j]
    <3> TAKE j \in 1 .. n
    <3>1. j = n \/ j \in 1 .. n - 1
      OBVIOUS
    <3> QED BY <2>2, <2>3, <2>4, <3>1
  <2> QED BY <2>3, <2>5, <2>6 DEF longer
<1>3. Registry(n, defaults) = [modules |-> after, threw |-> FALSE]
  BY DEF Registry
<1>4. Places(reg, Modules[n]) = {} /\ Acceptable(reg, Modules[n], BuiltIn[n], defaults[n])
  BY IsAcceptable
<1>5. RegisterNext(reg, n, defaults) = register(reg, Modules[n], BuiltIn[n], defaults[n])
  BY <1>1 DEF RegisterNext
<1> HIDE DEF reg, before, after
<1>6. register(reg, Modules[n], BuiltIn[n], defaults[n]) = [reg EXCEPT !.modules = Append(@, Of(n))]
  BY <1>4 DEF register
<1>7. [reg EXCEPT !.modules = Append(@, Of(n))] = [modules |-> Append(before, Of(n)), threw |-> FALSE]
  <2>1. [reg EXCEPT !.modules = Append(@, Of(n))] = [reg EXCEPT !.modules = Append(before, Of(n))]
    BY <1>1, Zenon
  <2>2. ASSUME NEW x PROVE [reg EXCEPT !.modules = x] = [modules |-> x, threw |-> FALSE]
    BY <1>1, Replaced
  <2> QED BY <2>1, <2>2
<1> QED BY <1>2, <1>3, <1>5, <1>6, <1>7 DEF reg

Registering(f, defaults) ==
  f = [m \in 0 .. Len(BuiltIn) |->
         IF m = 0 THEN NothingRegistered ELSE RegisterNext(f[m - 1], m, defaults)]

\* All modules register, one after the other.
LEMMA AllRegister ==
  ASSUME NEW defaults, Fitting(defaults)
  PROVE  registerBuiltInSettings(defaults) = Registry(7, defaults)
<1> DEFINE reached == [m \in 0 .. 7 |-> Registry(m, defaults)]
           chosen == CHOOSE f : Registering(f, defaults)
<1>0. NothingRegistered = Registry(0, defaults)
  <2>1. [j \in 1 .. 0 |-> Entry(Modules[j], BuiltIn[j], defaults[j])] = <<>>
    OBVIOUS
  <2> QED BY <2>1 DEF NothingRegistered, Registry
<1>1. Registering(reached, defaults)
  <2>1. \A m \in 0 .. 7 : reached[m] = IF m = 0 THEN NothingRegistered
                                       ELSE RegisterNext(reached[m - 1], m, defaults)
    <3> TAKE m \in 0 .. 7
    <3>1. CASE m = 0
      BY <1>0, <3>1
    <3>2. CASE m \in 1 .. 7
      <4>1. reached[m] = Registry(m, defaults) /\ reached[m - 1] = Registry(m - 1, defaults)
        BY <3>2
      <4> HIDE DEF reached
      <4> QED BY <3>2, <4>1, NextRegistered
    <3> QED BY <3>1, <3>2
  <2>2. reached = [m \in 0 .. 7 |-> reached[m]]
    OBVIOUS
  <2> HIDE DEF reached
  <2>3. reached = [m \in 0 .. 7 |-> IF m = 0 THEN NothingRegistered
                                   ELSE RegisterNext(reached[m - 1], m, defaults)]
    BY <2>1, <2>2
  <2> QED BY <2>3, BuiltInFacts DEF Registering
<1>2. Registering(chosen, defaults)
  BY <1>1
<1>3. registerBuiltInSettings(defaults) = chosen[7]
  <2>1. registerBuiltInSettings(defaults) = chosen[Len(BuiltIn)]
    BY Zenon DEF registerBuiltInSettings, Registering
  <2> QED BY <2>1, BuiltInFacts
<1> HIDE DEF chosen
<1>4. \A m \in 0 .. 7 : chosen[m] = IF m = 0 THEN NothingRegistered
                                    ELSE RegisterNext(chosen[m - 1], m, defaults)
  BY <1>2, BuiltInFacts DEF Registering
<1> DEFINE N == {n \in Nat : n <= 7 => chosen[n] = Registry(n, defaults)}
<1>5. N = Nat
  <2>1. 0 \in N
    BY <1>0, <1>4
  <2>2. ASSUME NEW n \in N PROVE n + 1 \in N
    <3>1. CASE n + 1 <= 7
      <4>1. n + 1 \in 1 .. 7 /\ (n + 1) - 1 = n /\ chosen[n] = Registry(n, defaults)
        BY <3>1
      <4>2. chosen[n + 1] = RegisterNext(chosen[n], n + 1, defaults)
        BY <1>4, <4>1
      <4>3. RegisterNext(Registry(n, defaults), n + 1, defaults) = Registry(n + 1, defaults)
        BY <4>1, NextRegistered
      <4> QED BY <4>1, <4>2, <4>3
    <3> QED BY <3>1
  <2> HIDE DEF N
  <2>3. N \in SUBSET Nat
    BY DEF N
  <2> QED BY <2>1, <2>2, <2>3, SetInduction
<1> QED BY <1>3, <1>5

\* The defaults that are chosen fit.
LEMMA DefaultsFit == Fitting(Defaults)
<1> SUFFICES ASSUME NEW m \in 1 .. 7, NEW i \in DOMAIN BuiltIn[m]
             PROVE  Parses(BuiltIn[m][i].validation, Defaults[m][i])
  BY DEF Fitting
<1>1. BuiltIn[m][i] \in Settings
  BY BuiltInFacts DEF Settings, Range
<1>2. Defaults[m][i] = Default(BuiltIn[m][i])
  BY BuiltInFacts DEF Defaults
<1> QED BY <1>1, <1>2, DefaultParses

\* A default that appConfigSchema takes registers, the five texts excepted.
LEMMA DefaultsDoRegister == DefaultsRegister
<1> SUFFICES ASSUME NEW m \in DOMAIN BuiltIn, NEW i \in DOMAIN BuiltIn[m], NEW d \in Configured(BuiltIn[m][i]),
                    BuiltIn[m][i].key \notin LooselyConfigured
             PROVE  ~registerBuiltInSettings([Defaults EXCEPT ![m][i] = d]).threw
  BY DEF DefaultsRegister
<1> DEFINE defaults == [Defaults EXCEPT ![m][i] = d]
<1>1. Row(BuiltIn[m][i], Modules[m]) /\ m \in 1 .. 7
  BY AllRows, BuiltInFacts
<1>2. Parses(BuiltIn[m][i].validation, d)
  BY <1>1 DEF Row, Loose, Configured
<1>3. Fitting(defaults)
  <2> SUFFICES ASSUME NEW n \in 1 .. 7, NEW j \in DOMAIN BuiltIn[n]
               PROVE  Parses(BuiltIn[n][j].validation, defaults[n][j])
    BY DEF Fitting
  <2>1. defaults[n][j] = IF n = m /\ j = i THEN d ELSE Defaults[n][j]
    BY BuiltInFacts DEF Defaults
  <2>2. Parses(BuiltIn[n][j].validation, Defaults[n][j])
    BY DefaultsFit DEF Fitting
  <2> HIDE DEF defaults
  <2> QED BY <1>2, <2>1, <2>2
<1> HIDE DEF defaults
<1>4. registerBuiltInSettings(defaults) = Registry(7, defaults)
  BY <1>3, AllRegister
<1>5. Registry(7, defaults).threw = FALSE
  BY DEF Registry
<1> QED BY <1>4, <1>5 DEF defaults

-----------------------------------------------------------------------------
(* Plugins that start and stop *)

\* A registry that holds the built-in settings as they were registered, with these counts.
Held(counts) ==
  [modules |-> [j \in 1 .. 7 |-> [module |-> Modules[j], settings |-> BuiltIn[j],
                                 defaults |-> Defaults[j], count |-> counts[j]]],
   threw   |-> FALSE]
Plugins(counts, running) == [reg |-> Held(counts), started |-> running]

\* Every module is registered once, and once more while its plugin is started.
Enough(counts, running) == \A j \in 1 .. 7 : 1 <= counts[j] /\ (j \in running => 2 <= counts[j])

Staying ==
  UNION {{Plugins(counts, running) : counts \in {c \in [1 .. 7 -> Nat] : Enough(c, running)}} :
           running \in SUBSET (1 .. 7)}

\* The states of a registry that plugins leave in place.
LEMMA StayingIs ==
  /\ \A counts \in [1 .. 7 -> Nat] : \A running \in SUBSET (1 .. 7) :
       Enough(counts, running) => Plugins(counts, running) \in Staying
  /\ \A p \in Staying : \E counts \in [1 .. 7 -> Nat], running \in SUBSET (1 .. 7) :
       Enough(counts, running) /\ p = Plugins(counts, running)
<1>1. ASSUME NEW counts \in [1 .. 7 -> Nat], NEW running \in SUBSET (1 .. 7), Enough(counts, running)
      PROVE  Plugins(counts, running) \in Staying
  BY <1>1 DEF Staying
<1>2. ASSUME NEW p \in Staying
      PROVE  \E counts \in [1 .. 7 -> Nat], running \in SUBSET (1 .. 7) :
               Enough(counts, running) /\ p = Plugins(counts, running)
  <2>1. PICK running \in SUBSET (1 .. 7) :
          p \in {Plugins(counts, running) : counts \in {c \in [1 .. 7 -> Nat] : Enough(c, running)}}
    BY DEF Staying
  <2>2. PICK counts \in {c \in [1 .. 7 -> Nat] : Enough(c, running)} : p = Plugins(counts, running)
    BY <2>1
  <2> QED BY <2>2
<1> QED BY <1>1, <1>2

\* What a registry that holds the built-in settings is made of.
LEMMA HeldFacts ==
  ASSUME NEW counts
  PROVE  /\ Held(counts).threw = FALSE /\ DOMAIN Held(counts).modules = 1 .. 7
         /\ \A j \in 1 .. 7 : /\ Held(counts).modules[j].module = Modules[j]
                              /\ Held(counts).modules[j].settings = BuiltIn[j]
                              /\ Held(counts).modules[j].count = counts[j]
         /\ Held(counts) = [modules |-> Held(counts).modules, threw |-> FALSE]
BY DEF Held

\* All of a sequence, chosen, is the sequence.
LEMMA ChosenAll ==
  ASSUME NEW T, NEW seq \in Seq(T)
  PROVE  Chosen(seq, DOMAIN seq) = seq
<1> DEFINE n == Len(seq)
           before(i) == {j \in 1 .. n : j < i}
<1>1. n \in Nat /\ DOMAIN seq = 1 .. n /\ seq = [k \in 1 .. n |-> seq[k]]
  OBVIOUS
<1>2. Cardinality(1 .. n) = n
  BY <1>1, FS_Interval
<1>3. ASSUME NEW i \in 1 .. n PROVE Cardinality(before(i)) = i - 1
  <2>1. before(i) = 1 .. i - 1
    BY <1>1
  <2>2. 1 \in Int /\ i - 1 \in Int
    BY <1>1
  <2>3. Cardinality(1 .. i - 1) = IF 1 > i - 1 THEN 0 ELSE (i - 1) - 1 + 1
    BY <2>2, FS_Interval
  <2>4. Cardinality(1 .. i - 1) = i - 1
    BY <1>1, <2>3
  <2> HIDE DEF before
  <2> QED BY <2>1, <2>4
<1>4. ASSUME NEW k \in 1 .. n PROVE (CHOOSE i \in 1 .. n : Cardinality(before(i)) = k - 1) = k
  <2>1. \A i \in 1 .. n : Cardinality(before(i)) = k - 1 <=> i = k
    BY <1>1, <1>3
  <2> QED BY <2>1
<1>5. Chosen(seq, 1 .. n) = [k \in 1 .. n |-> seq[CHOOSE i \in 1 .. n : Cardinality(before(i)) = k - 1]]
  BY <1>2, Zenon DEF Chosen
<1> HIDE DEF n, before
<1> QED BY <1>1, <1>4, <1>5

\* Counting a module leaves the rest of its entry.
LEMMA EntryCounted ==
  ASSUME NEW a, NEW b, NEW c, NEW n, NEW k,
         NEW entry, entry = [module |-> a, settings |-> b, defaults |-> c, count |-> n]
  PROVE  [entry EXCEPT !.count = @ + k] = [module |-> a, settings |-> b, defaults |-> c, count |-> n + k]
OBVIOUS

\* after is counts, but for k more at m.
Differs(after, counts, m, k) ==
  \A j \in 1 .. 7 : after[j] = IF j = m THEN counts[j] + k ELSE counts[j]

\* Counting changes the count of one module.
LEMMA CountedHeld ==
  ASSUME NEW counts, NEW after, NEW m \in 1 .. 7, NEW k, Differs(after, counts, m, k)
  PROVE  Counted(Held(counts), Modules[m], k) = Held(after).modules
<1> DEFINE of == Counted(Held(counts), Modules[m], k)
           to == Held(after).modules
           old == Held(counts).modules
<1>1. /\ of = [j \in 1 .. 7 |-> IF old[j].module = Modules[m] THEN [old[j] EXCEPT !.count = @ + k] ELSE old[j]]
  BY HeldFacts DEF Counted
<1>2. /\ to = [j \in 1 .. 7 |-> [module |-> Modules[j], settings |-> BuiltIn[j],
                               defaults |-> Defaults[j], count |-> after[j]]]
      /\ \A j \in 1 .. 7 : old[j] = [module |-> Modules[j], settings |-> BuiltIn[j],
                                   defaults |-> Defaults[j], count |-> counts[j]]
  BY DEF Held
<1>3. \A j \in 1 .. 7 : old[j].module = Modules[m] <=> j = m
  <2>1. \A j \in 1 .. 7 : Modules[j] = Modules[m] <=> j = m
    BY BuiltInFacts
  <2>2. \A j \in 1 .. 7 : old[j].module = Modules[j]
    BY HeldFacts
  <2> HIDE DEF old
  <2> QED BY <2>1, <2>2
<1> HIDE DEF of, to, old
<1>4. ASSUME NEW j \in 1 .. 7 PROVE of[j] = to[j]
  <2>1. CASE j = m
    <3>1. of[j] = [old[j] EXCEPT !.count = @ + k]
      BY <1>1, <1>3, <2>1
    <3>2. [old[j] EXCEPT !.count = @ + k] = [module |-> Modules[j], settings |-> BuiltIn[j],
                                             defaults |-> Defaults[j], count |-> counts[j] + k]
      BY <1>2, EntryCounted
    <3>3. after[j] = counts[j] + k
      BY <2>1 DEF Differs
    <3> QED BY <1>2, <3>1, <3>2, <3>3
  <2>2. CASE j # m
    <3>1. of[j] = old[j]
      BY <1>1, <1>3, <2>2
    <3>2. after[j] = counts[j]
      BY <2>2 DEF Differs
    <3> QED BY <1>2, <3>1, <3>2
  <2> QED BY <2>1, <2>2
<1>5. of = [j \in 1 .. 7 |-> of[j]] /\ to = [j \in 1 .. 7 |-> to[j]]
  BY <1>1, <1>2
<1>6. of = to
  BY <1>4, <1>5
<1> QED BY <1>6 DEF of, to

\* A module that is registered already is counted once more, or its registration throws.
CountedOrThrown(reg, counts, after) ==
  \/ reg.threw = FALSE /\ [reg EXCEPT !.threw = FALSE] = Held(after)
  \/ reg.threw = TRUE /\ [reg EXCEPT !.threw = FALSE] = Held(counts)

LEMMA RegisteredAgain ==
  ASSUME NEW counts, NEW after, NEW m \in 1 .. 7, NEW defaults, Differs(after, counts, m, 1),
         NEW reg, reg = register(Held(counts), Modules[m], BuiltIn[m], defaults)
  PROVE  CountedOrThrown(reg, counts, after)
<1> DEFINE held == Held(counts)
           more == Held(after)
<1>1. held = [modules |-> held.modules, threw |-> FALSE] /\ more = [modules |-> more.modules, threw |-> FALSE]
  BY HeldFacts
<1>2. Counted(held, Modules[m], 1) = more.modules
  BY CountedHeld
<1>3. Places(held, Modules[m]) # {}
  BY HeldFacts DEF Places
<1> HIDE DEF held, more
<1>4. \/ reg = [held EXCEPT !.modules = Counted(held, Modules[m], 1)]
      \/ reg = [held EXCEPT !.threw = TRUE]
  BY <1>3 DEF register, held
<1>5. CASE reg = [held EXCEPT !.modules = Counted(held, Modules[m], 1)]
  <2>1. reg = [held EXCEPT !.modules = more.modules]
    BY <1>2, <1>5
  <2>2. \A x : [held EXCEPT !.modules = x] = [modules |-> x, threw |-> FALSE]
    BY <1>1, Replaced
  <2>3. reg = more
    BY <1>1, <2>1, <2>2
  <2>4. [more EXCEPT !.threw = FALSE] = more
    BY <1>1, Replaced
  <2>5. more.threw = FALSE
    BY <1>1
  <2> QED BY <2>3, <2>4, <2>5 DEF more, CountedOrThrown
<1>6. CASE reg = [held EXCEPT !.threw = TRUE]
  <2>1. [held EXCEPT !.threw = TRUE].threw = TRUE
    BY <1>1, Replaced
  <2>2. [[held EXCEPT !.threw = TRUE] EXCEPT !.threw = FALSE] = held
    BY <1>1, Replaced
  <2> QED BY <1>6, <2>1, <2>2 DEF held, CountedOrThrown
<1> QED BY <1>4, <1>5, <1>6

\* A start, good or bad, leaves the built-in settings registered.
LEMMA StartsStay ==
  ASSUME NEW p \in Staying, NEW m \in 1 .. 7, NEW defaults, NEW throws \in BOOLEAN
  PROVE  StartAgain(p, m, defaults, throws) \in Staying
<1>1. PICK counts \in [1 .. 7 -> Nat], running \in SUBSET (1 .. 7) :
        Enough(counts, running) /\ p = Plugins(counts, running)
  BY StayingIs
<1> DEFINE reg == register(p.reg, Modules[m], BuiltIn[m], defaults)
           more == [counts EXCEPT ![m] = @ + 1]
<1>2. p.reg = Held(counts) /\ p.started = running
  BY <1>1 DEF Plugins
<1>4. /\ more \in [1 .. 7 -> Nat] /\ \A j \in 1 .. 7 : more[j] = IF j = m THEN counts[j] + 1 ELSE counts[j]
      /\ Differs(more, counts, m, 1)
  BY DEF Differs
<1> HIDE DEF more
<1>3. \/ reg.threw = FALSE /\ [reg EXCEPT !.threw = FALSE] = Held(more)
      \/ reg.threw = TRUE /\ [reg EXCEPT !.threw = FALSE] = Held(counts)
  <2>1. reg = register(Held(counts), Modules[m], BuiltIn[m], defaults)
    BY <1>2
  <2> HIDE DEF reg
  <2>2. Differs(more, counts, m, 1)
    BY <1>4
  <2>3. CountedOrThrown(reg, counts, more)
    BY <2>1, <2>2, RegisteredAgain
  <2> QED BY <2>3 DEF CountedOrThrown
<1>5. StartAgain(p, m, defaults, throws) =
        IF m \in running THEN p
        ELSE [reg     |-> [reg EXCEPT !.threw = FALSE],
              started |-> IF reg.threw \/ throws THEN running ELSE running \cup {m}]
  BY <1>2 DEF StartAgain
<1> HIDE DEF reg
<1>6. CASE m \in running
  BY <1>5, <1>6
<1>7. CASE m \notin running /\ reg.threw = TRUE
  <2>1. StartAgain(p, m, defaults, throws) = Plugins(counts, running)
    BY <1>3, <1>5, <1>7 DEF Plugins
  <2> QED BY <1>1, <2>1, StayingIs
<1>8. CASE m \notin running /\ reg.threw = FALSE
  <2>1. [reg EXCEPT !.threw = FALSE] = Held(more)
    BY <1>3, <1>8
  <2>2. Enough(more, running) /\ Enough(more, running \cup {m}) /\ running \cup {m} \in SUBSET (1 .. 7)
    BY <1>1, <1>4 DEF Enough
  <2>3. \/ StartAgain(p, m, defaults, throws) = Plugins(more, running)
        \/ StartAgain(p, m, defaults, throws) = Plugins(more, running \cup {m})
    BY <1>5, <1>8, <2>1 DEF Plugins
  <2> QED BY <1>4, <2>2, <2>3, StayingIs
<1> QED BY <1>3, <1>6, <1>7, <1>8

\* So does a stop: the registration it takes back is not the last.
LEMMA StopsStay ==
  ASSUME NEW p \in Staying, NEW m \in 1 .. 7
  PROVE  StopAgain(p, m) \in Staying
<1>1. PICK counts \in [1 .. 7 -> Nat], running \in SUBSET (1 .. 7) :
        Enough(counts, running) /\ p = Plugins(counts, running)
  BY StayingIs
<1>2. p.reg = Held(counts) /\ p.started = running
  BY <1>1 DEF Plugins
<1>3. CASE m \notin running
  BY <1>2, <1>3 DEF StopAgain
<1>4. CASE m \in running
  <2> DEFINE less == [counts EXCEPT ![m] = @ - 1]
             modules == Held(less).modules
  <2>1. \A j \in 1 .. 7 : counts[j] \in Nat /\ 1 <= counts[j] /\ (j = m => 2 <= counts[j])
    BY <1>1, <1>4 DEF Enough
  <2>2. less \in [1 .. 7 -> Nat] /\ \A j \in 1 .. 7 : less[j] = IF j = m THEN counts[j] - 1 ELSE counts[j]
    BY <2>1
  <2>3. Enough(less, running \ {m})
    <3> HIDE DEF less
    <3> QED BY <1>1, <2>1, <2>2 DEF Enough
  <2>4. Differs(less, counts, m, -1)
    BY <2>1 DEF Differs
  <2> HIDE DEF less
  <2>5. Counted(Held(counts), Modules[m], -1) = modules
    BY <2>4, CountedHeld
  <2>6. DOMAIN modules = 1 .. 7 /\ \A j \in 1 .. 7 : modules[j].count > 0
    <3>1. DOMAIN modules = 1 .. 7 /\ \A j \in 1 .. 7 : modules[j].count = less[j]
      BY HeldFacts
    <3> HIDE DEF modules
    <3> QED BY <2>1, <2>2, <3>1
  <2>7. modules \in Seq({modules[j] : j \in 1 .. 7})
    <3>1. modules = [j \in 1 .. 7 |-> modules[j]]
      BY DEF Held
    <3> HIDE DEF modules
    <3> QED BY <3>1
  <2>8. Held(counts) = [modules |-> Held(counts).modules, threw |-> FALSE]
        /\ Held(less) = [modules |-> modules, threw |-> FALSE]
    BY HeldFacts
  <2> HIDE DEF modules
  <2>9. Chosen(modules, {i \in DOMAIN modules : modules[i].count > 0}) = modules
    <3>1. {i \in DOMAIN modules : modules[i].count > 0} = DOMAIN modules
      BY <2>6
    <3> QED BY <2>7, <3>1, ChosenAll
  <2>10. unregister(Held(counts), Modules[m]) = [Held(counts) EXCEPT !.modules = modules]
    BY <2>5, <2>9 DEF unregister
  <2>11. [Held(counts) EXCEPT !.modules = modules] = [modules |-> modules, threw |-> FALSE]
    BY <2>8, Replaced
  <2>12. unregister(Held(counts), Modules[m]) = Held(less)
    BY <2>8, <2>10, <2>11
  <2>13. StopAgain(p, m) = Plugins(less, running \ {m})
    BY <1>2, <1>4, <2>12 DEF StopAgain, Plugins
  <2> QED BY <2>2, <2>3, <2>13, StayingIs
<1> QED BY <1>3, <1>4

\* So does every call.
LEMMA CallsStay ==
  ASSUME NEW p \in Staying, NEW call \in Calls
  PROVE  Called(p, call) \in Staying
<1>1. call.do \in {"start", "changed", "throws", "stop"} /\ call.m \in 1 .. 7
  BY SettingAssumption DEF Calls
<1>2. /\ \A defaults : \A throws \in BOOLEAN : StartAgain(p, call.m, defaults, throws) \in Staying
      /\ StopAgain(p, call.m) \in Staying
  BY <1>1, StartsStay, StopsStay
<1> QED BY <1>1, <1>2 DEF Called

AtStart == [reg |-> registerBuiltInSettings(Defaults), started |-> {}]

\* The startup registers everything once.
LEMMA StartsStaying == AtStart \in Staying
<1> DEFINE one == [j \in 1 .. 7 |-> 1]
<1>1. registerBuiltInSettings(Defaults) = Registry(7, Defaults)
  BY DefaultsFit, AllRegister
<1>2. Registry(7, Defaults) = Held(one)
  BY DEF Registry, Held, Entry
<1>3. one \in [1 .. 7 -> Nat] /\ Enough(one, {}) /\ {} \in SUBSET (1 .. 7)
  BY DEF Enough
<1>4. AtStart = Plugins(one, {})
  BY <1>1, <1>2 DEF AtStart, Plugins
<1> HIDE DEF one
<1> QED BY <1>3, <1>4, StayingIs

CalledInTurn(f, calls) ==
  f = [n \in 0 .. Len(calls) |->
         IF n = 0 THEN [reg |-> registerBuiltInSettings(Defaults), started |-> {}]
         ELSE Called(f[n - 1], calls[n])]

\* So does any number of calls, by induction over their number.
LEMMA AfterAllStays ==
  ASSUME NEW n \in Nat, NEW calls \in [1 .. n -> Calls]
  PROVE  AfterAll(calls) \in Staying
<1> DEFINE chosen == CHOOSE f : CalledInTurn(f, calls)
           step == [k \in Nat |-> [p \in Staying |-> IF k + 1 \in 1 .. n THEN Called(p, calls[k + 1]) ELSE p]]
<1>0. Len(calls) = n
  OBVIOUS
<1>1. step \in Stepping(Staying)
  <2>1. \A k \in Nat, p \in Staying : k + 1 \in 1 .. n => Called(p, calls[k + 1]) \in Staying
    BY CallsStay
  <2> QED BY <2>1 DEF Stepping
<1> HIDE DEF step
<1>2. PICK f : Iterates(f, Staying, AtStart, step)
  BY <1>1, StartsStaying, Recursion
<1> DEFINE g == [k \in 0 .. n |-> f[k]]
<1>3. CalledInTurn(g, calls)
  <2>1. f \in [Nat -> Staying] /\ f[0] = AtStart /\ \A k \in Nat : f[k + 1] = step[k][f[k]]
    BY <1>2 DEF Iterates
  <2>2. \A k \in 0 .. n : g[k] = IF k = 0 THEN AtStart ELSE Called(g[k - 1], calls[k])
    <3> TAKE k \in 0 .. n
    <3>1. CASE k = 0
      BY <2>1, <3>1
    <3>2. CASE k # 0
      <4>1. k - 1 \in Nat /\ k - 1 \in 0 .. n /\ (k - 1) + 1 = k /\ k \in 1 .. n /\ k \in Nat
        BY <3>2
      <4>2. g[k] = f[k] /\ g[k - 1] = f[k - 1]
        BY <4>1
      <4>3. f[k] = step[k - 1][f[k - 1]] /\ f[k - 1] \in Staying
        BY <2>1, <4>1
      <4> HIDE DEF g
      <4>4. step[k - 1][f[k - 1]] = Called(f[k - 1], calls[k])
        BY <4>1, <4>3 DEF step
      <4> QED BY <3>2, <4>2, <4>3, <4>4
    <3> QED BY <3>1, <3>2
  <2>3. g = [k \in 0 .. n |-> g[k]]
    OBVIOUS
  <2> HIDE DEF g
  <2>4. g = [k \in 0 .. n |-> IF k = 0 THEN AtStart ELSE Called(g[k - 1], calls[k])]
    BY <2>2, <2>3
  <2> QED BY <1>0, <2>4 DEF CalledInTurn, AtStart
<1>4. CalledInTurn(chosen, calls)
  BY <1>3
<1>5. AfterAll(calls) = chosen[n]
  <2>1. AfterAll(calls) = chosen[Len(calls)]
    BY Zenon DEF AfterAll, CalledInTurn
  <2> QED BY <1>0, <2>1
<1> HIDE DEF chosen, g
<1>6. \A k \in 0 .. n : chosen[k] = IF k = 0 THEN AtStart ELSE Called(chosen[k - 1], calls[k])
  BY <1>0, <1>4 DEF CalledInTurn, AtStart
<1> DEFINE N == {k \in Nat : k <= n => chosen[k] \in Staying}
<1>7. N = Nat
  <2>1. 0 \in N
    BY <1>6, StartsStaying
  <2>2. ASSUME NEW k \in N PROVE k + 1 \in N
    <3>1. CASE k + 1 <= n
      <4>1. k + 1 \in 1 .. n /\ k + 1 \in 0 .. n /\ k + 1 # 0 /\ (k + 1) - 1 = k /\ chosen[k] \in Staying
        BY <3>1
      <4>2. chosen[k + 1] = Called(chosen[k], calls[k + 1]) /\ calls[k + 1] \in Calls
        BY <1>6, <4>1
      <4>3. Called(chosen[k], calls[k + 1]) \in Staying
        BY <4>1, <4>2, CallsStay
      <4> QED BY <4>2, <4>3
    <3> QED BY <3>1
  <2>3. N \in SUBSET Nat
    OBVIOUS
  <2> HIDE DEF N
  <2> QED BY <2>1, <2>2, <2>3, SetInduction
<1> QED BY <1>5, <1>7

\* Every built-in setting is registered after any calls.
LEMMA BuiltInDoStay == BuiltInStay
<1> SUFFICES ASSUME NEW n \in 0 .. MaxCalls, NEW calls \in [1 .. n -> Calls], NEW s \in Settings
             PROVE  s.key \in RegisteredKeys(AfterAll(calls).reg)
  BY DEF BuiltInStay
<1>1. n \in Nat
  BY SettingAssumption
<1>2. AfterAll(calls) \in Staying
  BY <1>1, AfterAllStays
<1>3. PICK counts : AfterAll(calls).reg = Held(counts)
  BY <1>2, StayingIs DEF Plugins
<1>4. PICK m \in 1 .. 7 : \E i \in DOMAIN BuiltIn[m] : s = BuiltIn[m][i]
  BY SettingsAreRows, BuiltInFacts
<1>5. s.key \in KeysOf(BuiltIn[m])
  BY <1>4 DEF KeysOf
<1>6. /\ DOMAIN Held(counts).modules = 1 .. 7
      /\ Held(counts).modules[m].settings = BuiltIn[m]
  BY HeldFacts
<1>7. s.key \in RegisteredKeys(Held(counts))
  BY <1>5, <1>6 DEF RegisteredKeys
<1> QED BY <1>3, <1>7

\* No step changes the rules of the settings, so what holds of them holds in every state.

\* For all numbers and lengths: every default the configuration files were checked for
\* registers, the five texts excepted; any number of starts, failed starts and stops of any
\* plugins leave every built-in setting registered; and a saved value fits the place in
\* AppConfig it is written to (registerBuiltInSettings, unregister, applyRuntimeValue).
THEOREM SettingsAgree == DashboardSpec => []SettingsFitConfig
<1>1. SettingsFitConfig
  BY DefaultsDoRegister, BuiltInDoStay, RuntimeIsValid DEF SettingsFitConfig
<1> QED BY <1>1, PTL

\* For all numbers and lengths: what the form lets through is refused only by rules that the
\* metadata does not state, and what the server takes neither the form nor the published
\* contract refuses, blank texts and lists excepted (validateSetting, toValidationSchema).
THEOREM FormAgrees == DashboardSpec => []FormFitsServer
<1>1. FormFitsServer
  BY FormSuffices, FormIsFair DEF FormFitsServer
<1> QED BY <1>1, PTL

-----------------------------------------------------------------------------
(***************************************************************************)
(* The catalog: what the recursions of the startup do                        *)
(***************************************************************************)

-----------------------------------------------------------------------------
(* One visit after the other *)

\* How Each takes a set of indices: the last of them is visited last.
LEMMA EachDef ==
  ASSUME NEW visit, NEW state, NEW ids
  PROVE  Each(visit, state, ids) =
           (CHOOSE iter : iter = [T \in SUBSET DOMAIN ids |->
              IF T = {} THEN state ELSE visit[ids[Max(T)]][iter[T \ {Max(T)}]]])[DOMAIN ids]
BY Zenon DEF Each, FoldLeft, MapThenFoldSet

Visitors(A, S) == [A -> [S -> S]]

\* The states Each goes through.
Goes(t, S, visit, state, ids) ==
  /\ t \in [0 .. Len(ids) -> S] /\ t[0] = state
  /\ \A i \in 1 .. Len(ids) : t[i] = visit[ids[i]][t[i - 1]]
  /\ Each(visit, state, ids) = t[Len(ids)]

LEMMA EachStates ==
  ASSUME NEW A, NEW S, NEW visit \in Visitors(A, S), NEW state \in S, NEW ids \in Seq(A)
  PROVE  \E t : Goes(t, S, visit, state, ids)
<1> USE DEF Visitors
<1> DEFINE Works(n, iter) ==
      /\ iter \in [SUBSET (1 .. n) -> S]
      /\ \A T \in SUBSET (1 .. n) :
           iter[T] = IF T = {} THEN state ELSE visit[ids[Max(T)]][iter[T \ {Max(T)}]]
    M == {n \in Nat : n <= Len(ids) => \E iter : Works(n, iter)}
<1>0. Len(ids) \in Nat /\ DOMAIN ids = 1 .. Len(ids) /\ \A i \in 1 .. Len(ids) : ids[i] \in A
  OBVIOUS
<1>1. 0 \in M
  <2>1. SUBSET (1 .. 0) = {{}}
    OBVIOUS
  <2>2. Works(0, [T \in SUBSET (1 .. 0) |-> state])
    BY <2>1
  <2> QED BY <2>2
<1>2. ASSUME NEW n \in M PROVE n + 1 \in M
  <2> HIDE DEF Works
  <2>a. n \in Nat /\ n + 1 \in Nat
    OBVIOUS
  <2> SUFFICES ASSUME n + 1 <= Len(ids) PROVE \E iter : Works(n + 1, iter)
    BY <2>a
  <2>0. n \in Nat /\ n + 1 \in 1 .. Len(ids)
    BY <1>0, <2>a
  <2>1. PICK iter : Works(n, iter)
    BY <1>0, <2>0
  <2> USE DEF Works
  <2> DEFINE more == [T \in SUBSET (1 .. n + 1) |->
                        IF n + 1 \in T THEN visit[ids[n + 1]][iter[T \ {n + 1}]] ELSE iter[T]]
  <2>2. ASSUME NEW T \in SUBSET (1 .. n + 1)
        PROVE  /\ n + 1 \notin T => T \in SUBSET (1 .. n)
               /\ T \ {n + 1} \in SUBSET (1 .. n)
    BY <2>0
  <2>3. \A T \in SUBSET (1 .. n) : T \in SUBSET (1 .. n + 1) /\ n + 1 \notin T
    BY <2>0
  <2>4. \A T \in SUBSET (1 .. n) : more[T] = iter[T]
    BY <2>3
  <2>5. ASSUME NEW T \in SUBSET (1 .. n + 1) PROVE more[T] \in S
    <3>1. CASE n + 1 \in T
      <4>1. iter[T \ {n + 1}] \in S
        BY <2>1, <2>2
      <4>2. visit[ids[n + 1]] \in [S -> S]
        BY <1>0, <2>0
      <4> QED BY <3>1, <4>1, <4>2
    <3>2. CASE n + 1 \notin T
      <4>1. more[T] = iter[T]
        BY <3>2
      <4> QED BY <2>1, <2>2, <3>2, <4>1
    <3> QED BY <3>1, <3>2
  <2>6. ASSUME NEW T \in SUBSET (1 .. n + 1), T # {} 
        PROVE  more[T] = visit[ids[Max(T)]][more[T \ {Max(T)}]]
    <3>1. Max(T) \in T /\ \A i \in T : i <= Max(T)
      <4>1. T \in SUBSET (0 .. n + 1) /\ n + 1 \in Nat
        BY <2>0
      <4> QED BY <2>6, <4>1, MaxOfBounded
    <3>2. CASE n + 1 \in T
      <4>1. Max(T) = n + 1
        <5>1. Max(T) \in 1 .. n + 1 /\ n + 1 <= Max(T)
          BY <3>1, <3>2
        <5> QED BY <2>0, <5>1
      <4>2. more[T] = visit[ids[n + 1]][iter[T \ {n + 1}]]
        BY <3>2
      <4>3. more[T \ {n + 1}] = iter[T \ {n + 1}]
        BY <2>2, <2>4
      <4> QED BY <4>1, <4>2, <4>3
    <3>3. CASE n + 1 \notin T
      <4>1. T \in SUBSET (1 .. n) /\ T \ {Max(T)} \in SUBSET (1 .. n)
        BY <2>2, <3>3
      <4>2. iter[T] = visit[ids[Max(T)]][iter[T \ {Max(T)}]]
        BY <2>1, <2>6, <4>1
      <4> QED BY <2>4, <4>1, <4>2
    <3> QED BY <3>2, <3>3
  <2>7. more[{}] = state
    <3>1. {} \in SUBSET (1 .. n)
      OBVIOUS
    <3> QED BY <2>1, <2>4, <3>1
  <2>8. more \in [SUBSET (1 .. n + 1) -> S]
    <3>1. more = [T \in SUBSET (1 .. n + 1) |-> more[T]]
      OBVIOUS
    <3> HIDE DEF more
    <3> QED BY <2>5, <3>1
  <2> HIDE DEF more
  <2>9. Works(n + 1, more)
    BY <2>6, <2>7, <2>8
  <2> QED BY <2>9
<1>3. M = Nat
  <2> HIDE DEF Works
  <2>1. M \in SUBSET Nat
    OBVIOUS
  <2> HIDE DEF M
  <2> QED BY <1>1, <1>2, <2>1, SetInduction
<1>4. \E it : Works(Len(ids), it)
  <2> HIDE DEF Works
  <2> QED BY <1>0, <1>3
<1> HIDE DEF M
<1> DEFINE IsIter(it) == it = [T \in SUBSET DOMAIN ids |->
                     IF T = {} THEN state ELSE visit[ids[Max(T)]][it[T \ {Max(T)}]]]
           iter == CHOOSE it : IsIter(it)
<1>5. \E it : IsIter(it)
  <2>1. PICK it : Works(Len(ids), it)
    BY <1>4
  <2> HIDE DEF iter
  <2>2. IsIter(it)
    BY <1>0, <2>1
  <2> HIDE DEF IsIter, Works
  <2> QED BY <2>2
<1>6. IsIter(iter)
  <2> HIDE DEF IsIter
  <2> QED BY <1>5
<1>7. Each(visit, state, ids) = iter[DOMAIN ids]
  BY EachDef, Zenon
<1>8. \A it : IsIter(it) => \A T \in SUBSET DOMAIN ids :
                it[T] = IF T = {} THEN state ELSE visit[ids[Max(T)]][it[T \ {Max(T)}]]
  OBVIOUS
<1> HIDE DEF IsIter
<1>9. \A T \in SUBSET DOMAIN ids :
        iter[T] = IF T = {} THEN state ELSE visit[ids[Max(T)]][iter[T \ {Max(T)}]]
  <2> HIDE DEF iter
  <2> QED BY <1>6, <1>8
<1> HIDE DEF iter
<1> DEFINE t == [i \in 0 .. Len(ids) |-> iter[1 .. i]]
<1>10. t[0] = state
  <2>1. 1 .. 0 = {} /\ {} \in SUBSET DOMAIN ids /\ 0 \in 0 .. Len(ids)
    BY <1>0
  <2>2. iter[{}] = state
    BY <1>9, <2>1
  <2> QED BY <2>1, <2>2
<1>11. ASSUME NEW i \in 1 .. Len(ids) PROVE t[i] = visit[ids[i]][t[i - 1]]
  <2>0. i \in Nat /\ 1 <= i
    BY <1>0
  <2>1. 1 .. i \in SUBSET (0 .. i) /\ i \in 1 .. i /\ 1 .. i # {} /\ i \in Nat
    <3>1. i \in 1 .. i
      BY <2>0
    <3>2. 1 .. i \in SUBSET (0 .. i)
      BY <2>0
    <3> QED BY <2>0, <3>1, <3>2
  <2>2. Max(1 .. i) \in 1 .. i /\ \A j \in 1 .. i : j <= Max(1 .. i)
    BY <2>1, MaxOfBounded
  <2>3. Max(1 .. i) = i
    BY <2>1, <2>2
  <2>4. 1 .. i \in SUBSET DOMAIN ids
    BY <1>0
  <2>5. iter[1 .. i] = visit[ids[i]][iter[(1 .. i) \ {i}]]
    BY <1>9, <2>1, <2>3, <2>4
  <2>6. (1 .. i) \ {i} = 1 .. i - 1
    BY <2>1
  <2>7. i \in 0 .. Len(ids) /\ i - 1 \in 0 .. Len(ids)
    BY <1>0
  <2> QED BY <2>5, <2>6, <2>7
<1>12. \A i \in 0 .. Len(ids) : t[i] \in S
  <2> DEFINE N == {i \in Nat : i <= Len(ids) => t[i] \in S}
  <2> HIDE DEF t
  <2>1. 0 \in N
    BY <1>10
  <2>2. ASSUME NEW i \in N PROVE i + 1 \in N
    <3> SUFFICES ASSUME i + 1 <= Len(ids) PROVE t[i + 1] \in S
      OBVIOUS
    <3>1. t[i] \in S /\ i + 1 \in 1 .. Len(ids) /\ (i + 1) - 1 = i
      BY <1>0
    <3>2. t[i + 1] = visit[ids[i + 1]][t[i]]
      BY <1>11, <3>1
    <3>3. visit[ids[i + 1]] \in [S -> S]
      BY <1>4, <3>1
    <3> QED BY <3>1, <3>2, <3>3
  <2>3. N \in SUBSET Nat
    OBVIOUS
  <2> HIDE DEF N
  <2>4. N = Nat
    BY <2>1, <2>2, <2>3, SetInduction
  <2> QED BY <1>0, <2>4 DEF N
<1>13. t \in [0 .. Len(ids) -> S]
  <2>1. t = [i \in 0 .. Len(ids) |-> t[i]]
    OBVIOUS
  <2> HIDE DEF t
  <2> QED BY <1>12, <2>1
<1>14. Each(visit, state, ids) = t[Len(ids)]
  BY <1>0, <1>7
<1> HIDE DEF t
<1>99. Goes(t, S, visit, state, ids)
  BY <1>10, <1>11, <1>13, <1>14 DEF Goes
<1> QED BY <1>99

-----------------------------------------------------------------------------
(* In the order of the names *)

\* A finite set of natural numbers is bounded.
LEMMA FiniteBounded ==
  ASSUME NEW S \in SUBSET Nat, IsFiniteSet(S)
  PROVE  \E m \in Nat : \A i \in S : i <= m
<1> DEFINE Bound(T) == \E m \in Nat : \A i \in T : i <= m
           N == {n \in Nat : \A T \in SUBSET Nat : IsFiniteSet(T) /\ Cardinality(T) = n => Bound(T)}
<1>1. 0 \in N
  <2>1. Bound({})
    OBVIOUS
  <2> HIDE DEF Bound
  <2> QED BY <2>1, FS_EmptySet
<1>2. ASSUME NEW n \in N PROVE n + 1 \in N
  <2>0. n \in Nat /\ \A T \in SUBSET Nat : IsFiniteSet(T) /\ Cardinality(T) = n => Bound(T)
    BY DEF N
  <2> HIDE DEF N, Bound
  <2>1. ASSUME NEW T \in SUBSET Nat, IsFiniteSet(T), Cardinality(T) = n + 1
        PROVE  Bound(T)
    <3>1. T # {}
      BY <2>0, <2>1, FS_EmptySet
    <3>2. PICK x : x \in T
      BY <3>1
    <3>3. IsFiniteSet(T \ {x}) /\ Cardinality(T \ {x}) = n
      <4>1. IsFiniteSet(T \ {x}) /\ Cardinality(T \ {x}) = (n + 1) - 1
        BY <2>1, <3>2, FS_RemoveElement
      <4> QED BY <2>0, <4>1
    <3>4. Bound(T \ {x})
      BY <2>0, <3>3
    <3>5. PICK m \in Nat : \A i \in T \ {x} : i <= m
      BY <3>4 DEF Bound
    <3>6. x \in Nat
      BY <3>2
    <3>7. \A i \in T : i <= m + x
      BY <3>5, <3>6
    <3> QED BY <3>6, <3>7 DEF Bound
  <2> QED BY <2>0, <2>1 DEF N
<1> HIDE DEF Bound
<1>3. N \in SUBSET Nat
  OBVIOUS
<1>4. N = Nat
  <2> HIDE DEF N
  <2> QED BY <1>1, <1>2, <1>3, SetInduction
<1>5. Cardinality(S) \in Nat
  BY FS_CardinalityType
<1>6. Bound(S)
  BY <1>4, <1>5
<1> QED BY <1>6 DEF Bound

\* ByName goes through a set once.
LEMMA ByNameFacts ==
  ASSUME NEW S \in SUBSET (Nat \ {0}), IsFiniteSet(S)
  PROVE  ByName(S) \in Seq(S) /\ ToSet(ByName(S)) = S
<1> DEFINE n == Cardinality(S)
           Sorted(names) == \A i, j \in 1 .. n : i < j => names[i] < names[j]
<1>0. n \in Nat /\ S \in SUBSET Nat
  BY FS_CardinalityType
<1>1. PICK m \in Nat : \A i \in S : i <= m
  BY <1>0, FiniteBounded
<1> DEFINE seq == [i \in 1 .. m |-> i]
<1>2. seq \in Seq(Nat) /\ DOMAIN seq = 1 .. m
  BY <1>1
<1>3. S \in SUBSET DOMAIN seq
  BY <1>1, <1>2
<1> HIDE DEF seq
<1>4. \E at \in [1 .. n -> S] : Sorted(at)
  BY <1>2, <1>3, ChosenFacts
<1> DEFINE names == CHOOSE at \in [1 .. n -> S] : Sorted(at)
<1>5. names \in [1 .. n -> S] /\ Sorted(names)
  <2> HIDE DEF Sorted, n
  <2> QED BY <1>4
<1>6. ByName(S) = names
  BY DEF ByName
<1> HIDE DEF names
<1>7. names \in Injection(1 .. n, S)
  <2>1. \A i, j \in 1 .. n : names[i] = names[j] => i = j
    <3> SUFFICES ASSUME NEW i \in 1 .. n, NEW j \in 1 .. n, names[i] = names[j], i # j PROVE FALSE
      OBVIOUS
    <3>1. names[i] \in Nat /\ names[j] \in Nat /\ (i < j \/ j < i)
      <4>1. i \in Nat /\ j \in Nat /\ names[i] \in S /\ names[j] \in S
        BY <1>0, <1>5
      <4>2. i < j \/ j < i
        BY <4>1
      <4>3. \A x \in S : x \in Nat
        OBVIOUS
      <4> QED BY <4>1, <4>2, <4>3
    <3> HIDE DEF n
    <3>2. ~(names[i] < names[j]) /\ ~(names[j] < names[i])
      BY <3>1
    <3> QED BY <1>5, <3>1, <3>2
  <2> QED BY <1>5, <2>1 DEF Injection, IsInjective
<1>8. Cardinality(1 .. n) = n
  BY <1>0, FS_Interval
<1>9. names \in Surjection(1 .. n, S)
  BY <1>7, <1>8, FS_Injection
<1>10. S \in SUBSET {names[i] : i \in 1 .. n}
  BY <1>9 DEF Surjection
<1>11. names \in Seq(S) /\ DOMAIN names = 1 .. n
  BY <1>0, <1>5
<1>12. ToSet(names) = S
  BY <1>5, <1>10, <1>11 DEF ToSet
<1> QED BY <1>6, <1>11, <1>12

-----------------------------------------------------------------------------
(* The catalog *)

LEMMA CatalogFacts ==
  ASSUME NEW catalog, Readable(catalog)
  PROVE  /\ Len(catalog) \in Nat /\ DOMAIN catalog = 1 .. Len(catalog)
         /\ \A i \in DOMAIN catalog : catalog[i] \in Entries(catalog) /\ catalog[i].id \in Ids(catalog)
         /\ Ids(catalog) \in SUBSET (Nat \ {0})
         /\ IsFiniteSet(Ids(catalog)) /\ Cardinality(Ids(catalog)) \in Nat
         /\ Cardinality(Ids(catalog)) <= Len(catalog)
         /\ \A id \in Ids(catalog) : /\ ById(catalog, id) \in Entries(catalog)
                                     /\ ById(catalog, id).id = id
                                     /\ IsFiniteSet(Needs(catalog, id))
<1>1. Len(catalog) \in Nat /\ DOMAIN catalog = 1 .. Len(catalog)
  BY DEF Readable
<1>2. \A i \in DOMAIN catalog : catalog[i] \in Entries(catalog) /\ catalog[i].id \in Ids(catalog)
  BY DEF Entries, ToSet, Ids
<1>3. Ids(catalog) \in SUBSET (Nat \ {0})
  BY DEF Readable, Ids
<1> DEFINE f == [i \in 1 .. Len(catalog) |-> catalog[i].id]
<1>4. f \in Surjection(1 .. Len(catalog), Ids(catalog))
  <2>1. f \in [1 .. Len(catalog) -> Ids(catalog)]
    BY <1>1, <1>2
  <2>2. ASSUME NEW id \in Ids(catalog) PROVE \E i \in 1 .. Len(catalog) : f[i] = id
    BY <1>1, <2>2 DEF Ids, Entries, ToSet
  <2> QED BY <2>1, <2>2 DEF Surjection
<1> HIDE DEF f
<1>5. IsFiniteSet(1 .. Len(catalog)) /\ Cardinality(1 .. Len(catalog)) = Len(catalog)
  <2>1. /\ IsFiniteSet(1 .. Len(catalog))
        /\ Cardinality(1 .. Len(catalog)) = IF 1 > Len(catalog) THEN 0 ELSE Len(catalog) - 1 + 1
    BY <1>1, FS_Interval
  <2> QED BY <1>1, <2>1
<1>6. IsFiniteSet(Ids(catalog)) /\ Cardinality(Ids(catalog)) <= Len(catalog)
  BY <1>4, <1>5, FS_Surjection
<1>7. Cardinality(Ids(catalog)) \in Nat
  BY <1>6, FS_CardinalityType
<1>8. ASSUME NEW id \in Ids(catalog)
      PROVE  /\ ById(catalog, id) \in Entries(catalog) /\ ById(catalog, id).id = id
             /\ IsFiniteSet(Needs(catalog, id))
  <2>1. ById(catalog, id) \in Entries(catalog) /\ ById(catalog, id).id = id
    BY DEF ById, Ids
  <2> DEFINE D == ById(catalog, id).deps
             g == [dep \in D |-> dep.id]
  <2>2. IsFiniteSet(D)
    BY <2>1 DEF Readable
  <2>3. g \in Surjection(D, Needs(catalog, id))
    <3>1. g \in [D -> Needs(catalog, id)]
      BY DEF Needs
    <3>2. \A x \in Needs(catalog, id) : \E dep \in D : g[dep] = x
      BY DEF Needs
    <3> QED BY <3>1, <3>2 DEF Surjection
  <2> HIDE DEF D, g
  <2>4. IsFiniteSet(Needs(catalog, id))
    BY <2>2, <2>3, FS_Surjection
  <2> QED BY <2>1, <2>4
<1> QED BY <1>1, <1>2, <1>3, <1>6, <1>7, <1>8

\* When every dependency is there, the plugins and what each needs come by name.
LEMMA NamesFacts ==
  ASSUME NEW catalog, Readable(catalog)
  PROVE  /\ ByName(Ids(catalog)) \in Seq(Ids(catalog)) /\ ToSet(ByName(Ids(catalog))) = Ids(catalog)
         /\ \A id \in Ids(catalog) : /\ Known(catalog, id) \in Seq(Ids(catalog))
                                     /\ ToSet(Known(catalog, id)) = Needs(catalog, id) \cap Ids(catalog)
         /\ ~Unmet(catalog) => \A id \in Ids(catalog) : /\ Needs(catalog, id) \subseteq Ids(catalog)
                                                        /\ NeedsByName(catalog, id) \in Seq(Ids(catalog))
                                                        /\ ToSet(NeedsByName(catalog, id)) = Needs(catalog, id)
<1>0. \A S, T : S \subseteq T => \A seq \in Seq(S) : seq \in Seq(T)
  OBVIOUS
<1>1. Ids(catalog) \in SUBSET (Nat \ {0}) /\ IsFiniteSet(Ids(catalog))
  BY CatalogFacts
<1>2. \A S \in SUBSET Ids(catalog) : ByName(S) \in Seq(Ids(catalog)) /\ ToSet(ByName(S)) = S
  <2> TAKE S \in SUBSET Ids(catalog)
  <2>1. IsFiniteSet(S) /\ S \in SUBSET (Nat \ {0})
    BY <1>1, FS_Subset
  <2>2. ByName(S) \in Seq(S) /\ ToSet(ByName(S)) = S
    BY <2>1, ByNameFacts
  <2> QED BY <1>0, <2>2
<1>3. ASSUME NEW id \in Ids(catalog)
      PROVE  Known(catalog, id) \in Seq(Ids(catalog))
             /\ ToSet(Known(catalog, id)) = Needs(catalog, id) \cap Ids(catalog)
  BY <1>2 DEF Known
<1>4. ASSUME ~Unmet(catalog), NEW id \in Ids(catalog)
      PROVE  Needs(catalog, id) \subseteq Ids(catalog)
             /\ NeedsByName(catalog, id) \in Seq(Ids(catalog))
             /\ ToSet(NeedsByName(catalog, id)) = Needs(catalog, id)
  <2>1. ById(catalog, id) \in Entries(catalog)
    BY CatalogFacts
  <2>2. Needs(catalog, id) \subseteq Ids(catalog)
    BY <1>4, <2>1 DEF Unmet, Met, Needs
  <2> QED BY <1>2, <2>2 DEF NeedsByName
<1> QED BY <1>2, <1>3, <1>4

-----------------------------------------------------------------------------
(* resolveDependencies is defined: every visit is, at every depth *)

Walkers(catalog) == Visitors(Ids(catalog), Walk(catalog))

LEMMA WalkFields ==
  ASSUME NEW catalog, NEW s \in Walk(catalog)
  PROVE  /\ s.active \in Seq(Ids(catalog)) /\ s.visited \subseteq Ids(catalog)
         /\ s.result \in Seq(Ids(catalog)) /\ s.cycle \in BOOLEAN
BY DEF Walk

LEMMA WalkCycle ==
  ASSUME NEW catalog, NEW s \in Walk(catalog)
  PROVE  [s EXCEPT !.cycle = TRUE] \in Walk(catalog) /\ [s EXCEPT !.cycle = TRUE].cycle
BY DEF Walk

LEMMA WalkActive ==
  ASSUME NEW catalog, NEW s \in Walk(catalog), NEW id \in Ids(catalog),
         NEW t, t = [s EXCEPT !.active = Append(@, id)]
  PROVE  /\ t \in Walk(catalog)
         /\ t.active = Append(s.active, id) /\ t.visited = s.visited /\ t.result = s.result
         /\ t.cycle = s.cycle
<1>1. t.active = Append(s.active, id) /\ t.visited = s.visited /\ t.result = s.result /\ t.cycle = s.cycle
  BY DEF Walk
<1>2. Append(s.active, id) \in Seq(Ids(catalog))
  BY DEF Walk
<1> QED BY <1>1, <1>2 DEF Walk

LEMMA EnterTyped ==
  ASSUME NEW catalog, Readable(catalog), ~Unmet(catalog),
         NEW deeper \in Walkers(catalog), NEW id \in Ids(catalog), NEW s \in Walk(catalog)
  PROVE  Enter(catalog, deeper, id, s) \in Walk(catalog)
<1> DEFINE inner == [s EXCEPT !.active = Append(@, id)]
           ids == NeedsByName(catalog, id)
           below == Each(deeper, inner, ids)
<1>1. inner \in Walk(catalog)
  BY WalkActive
<1>2. ids \in Seq(Ids(catalog))
  BY NamesFacts
<1>3. below \in Walk(catalog)
  <2> HIDE DEF inner, ids
  <2>1. PICK t : Goes(t, Walk(catalog), deeper, inner, ids)
    BY <1>1, <1>2, EachStates DEF Walkers
  <2>2. Len(ids) \in 0 .. Len(ids)
    BY <1>2
  <2> QED BY <2>1, <2>2 DEF Goes
<1>4. Enter(catalog, deeper, id, s) =
        IF below.cycle THEN below
        ELSE [active |-> s.active, visited |-> below.visited \cup {id},
              result |-> Append(below.result, id), cycle |-> FALSE]
  BY DEF Enter
<1> HIDE DEF below
<1>5. s.active \in Seq(Ids(catalog)) /\ below.visited \subseteq Ids(catalog) /\ below.result \in Seq(Ids(catalog))
  BY <1>3, WalkFields
<1>6. [active |-> s.active, visited |-> below.visited \cup {id},
       result |-> Append(below.result, id), cycle |-> FALSE] \in Walk(catalog)
  <2>1. Append(below.result, id) \in Seq(Ids(catalog))
    BY <1>5
  <2> QED BY <1>5, <2>1 DEF Walk
<1> QED BY <1>3, <1>4, <1>6

LEMMA VisitAt ==
  ASSUME NEW catalog, NEW n, NEW deeper, NEW id \in Ids(catalog), NEW s \in Walk(catalog)
  PROVE  Visit(catalog, n, deeper)[id][s] =
           IF s.cycle THEN s
           ELSE IF Contains(s.active, id) \/ n = 0 THEN [s EXCEPT !.cycle = TRUE]
           ELSE IF id \in s.visited THEN s
           ELSE Enter(catalog, deeper, id, s)
BY DEF Visit

LEMMA VisitTyped ==
  ASSUME NEW catalog, Readable(catalog), ~Unmet(catalog), NEW n \in Nat, NEW deeper,
         n = 0 \/ deeper \in Walkers(catalog)
  PROVE  Visit(catalog, n, deeper) \in Walkers(catalog)
<1>1. ASSUME NEW id \in Ids(catalog), NEW s \in Walk(catalog)
      PROVE  Visit(catalog, n, deeper)[id][s] \in Walk(catalog)
  <2>1. [s EXCEPT !.cycle = TRUE] \in Walk(catalog)
    BY WalkCycle
  <2>2. n # 0 => Enter(catalog, deeper, id, s) \in Walk(catalog)
    BY EnterTyped
  <2> QED BY <2>1, <2>2, VisitAt
<1>2. ASSUME NEW id \in Ids(catalog)
      PROVE  Visit(catalog, n, deeper)[id] \in [Walk(catalog) -> Walk(catalog)]
  <2>1. Visit(catalog, n, deeper)[id] =
          [s \in Walk(catalog) |-> Visit(catalog, n, deeper)[id][s]]
    BY DEF Visit
  <2> QED BY <1>1, <2>1
<1>3. Visit(catalog, n, deeper) = [id \in Ids(catalog) |-> Visit(catalog, n, deeper)[id]]
  BY DEF Visit
<1> QED BY <1>2, <1>3 DEF Walkers, Visitors

\* Without a depth left, what is deeper does not matter.
LEMMA VisitAtZero ==
  ASSUME NEW catalog, NEW f, NEW g
  PROVE  Visit(catalog, 0, f) = Visit(catalog, 0, g)
BY DEF Visit

LEMMA ResolveDef ==
  ASSUME NEW catalog
  PROVE  Resolve(catalog) =
           Each((CHOOSE v : v = [depth \in Nat |-> Visit(catalog, depth, v[depth - 1])])[Len(catalog)],
                Start, ByName(Ids(catalog)))
BY Zenon DEF Resolve

\* What Resolve visits with.
LEMMA ResolveVisits ==
  ASSUME NEW catalog, Readable(catalog), ~Unmet(catalog)
  PROVE  \E v \in [Nat -> Walkers(catalog)] :
           /\ \A n \in Nat : v[n] = Visit(catalog, n, v[n - 1])
           /\ Resolve(catalog) = Each(v[Len(catalog)], Start, ByName(Ids(catalog)))
<1> DEFINE S == Walkers(catalog)
           first == Visit(catalog, 0, Start)
           step == [n \in Nat |-> [g \in S |-> Visit(catalog, n + 1, g)]]
           IsVisit(v) == v = [depth \in Nat |-> Visit(catalog, depth, v[depth - 1])]
           visit == CHOOSE v : IsVisit(v)
<1>1. first \in S
  BY VisitTyped
<1>2. step \in Stepping(S)
  <2>1. \A n \in Nat, g \in S : Visit(catalog, n + 1, g) \in S
    <3> TAKE n \in Nat, g \in S
    <3>1. n + 1 \in Nat
      OBVIOUS
    <3> QED BY <3>1, VisitTyped
  <2> HIDE DEF S
  <2> QED BY <2>1 DEF Stepping
<1>3. \A n \in Nat, g \in S : step[n][g] = Visit(catalog, n + 1, g)
  OBVIOUS
<1> HIDE DEF S, first, step
<1>4. PICK f \in [Nat -> S] : f[0] = first /\ \A n \in Nat : f[n + 1] = step[n][f[n]]
  BY <1>1, <1>2, Recursion DEF Iterates
<1>5. \A n \in Nat : f[n] = Visit(catalog, n, f[n - 1])
  <2> TAKE n \in Nat
  <2>1. CASE n = 0
    <3>1. f[0] = first
      BY <1>4
    <3>2. first = Visit(catalog, 0, f[n - 1])
      BY VisitAtZero DEF first
    <3> QED BY <2>1, <3>1, <3>2
  <2>2. CASE n # 0
    <3>1. n - 1 \in Nat /\ (n - 1) + 1 = n
      BY <2>2
    <3>2. f[n] = step[n - 1][f[n - 1]] /\ f[n - 1] \in S
      BY <1>4, <3>1
    <3> QED BY <1>3, <3>1, <3>2
  <2> QED BY <2>1, <2>2
<1>6. IsVisit(f)
  BY <1>4, <1>5
<1>7. IsVisit(visit)
  <2> HIDE DEF IsVisit
  <2> QED BY <1>6
<1>8. visit = [depth \in Nat |-> visit[depth]] /\ \A n \in Nat : visit[n] = Visit(catalog, n, visit[n - 1])
  <2>1. \A v : IsVisit(v) =>
          v = [depth \in Nat |-> v[depth]] /\ \A n \in Nat : v[n] = Visit(catalog, n, v[n - 1])
    OBVIOUS
  <2> HIDE DEF IsVisit, visit
  <2> QED BY <1>7, <2>1
<1>9. Resolve(catalog) = Each(visit[Len(catalog)], Start, ByName(Ids(catalog)))
  BY ResolveDef, Zenon
<1> HIDE DEF IsVisit, visit
<1>10. \A n \in Nat : visit[n] \in S
  <2> DEFINE N == {n \in Nat : visit[n] \in S}
  <2>1. 0 \in N
    <3>1. Visit(catalog, 0, visit[0 - 1]) \in S
      BY VisitTyped DEF S
    <3> QED BY <1>8, <3>1
  <2>2. ASSUME NEW n \in N PROVE n + 1 \in N
    <3>1. n + 1 \in Nat /\ (n + 1) - 1 = n /\ visit[n] \in S
      OBVIOUS
    <3>2. Visit(catalog, n + 1, visit[n]) \in S
      BY <3>1, VisitTyped DEF S
    <3> QED BY <1>8, <3>1, <3>2
  <2>3. N \in SUBSET Nat
    OBVIOUS
  <2> HIDE DEF N
  <2>4. N = Nat
    BY <2>1, <2>2, <2>3, SetInduction
  <2> QED BY <2>4 DEF N
<1>11. visit \in [Nat -> S]
  BY <1>8, <1>10
<1> QED BY <1>8, <1>9, <1>11 DEF S

-----------------------------------------------------------------------------
(* resolveDependencies is right *)

\* The plugins being visited: each is needed by the one before.
Path(catalog, p) ==
  /\ p \in Seq(Ids(catalog))
  /\ \A i, j \in 1 .. Len(p) : p[i] = p[j] => i = j
  /\ \A i \in 1 .. Len(p) - 1 : p[i + 1] \in Needs(catalog, p[i])

\* The next one is needed by the last.
Asked(catalog, p, id) == p # <<>> => id \in Needs(catalog, p[Len(p)])

\* An order in which every plugin comes once, after all it needs.
Ordered(catalog, order_) ==
  /\ \A i, j \in 1 .. Len(order_) : order_[i] = order_[j] => i = j
  /\ \A i \in 1 .. Len(order_) :
       Needs(catalog, order_[i]) \subseteq {order_[j] : j \in 1 .. i - 1}

\* What is true between two visits.
Fits(catalog, s) ==
  /\ s \in Walk(catalog) /\ ~s.cycle
  /\ Path(catalog, s.active) /\ \A i \in 1 .. Len(s.active) : s.active[i] \notin s.visited
  /\ Ordered(catalog, s.result) /\ ToSet(s.result) = s.visited

\* What visits make of such a state: they meet a plugin that is active, or they add to the order.
Settles(catalog, s, t) ==
  /\ t \in Walk(catalog)
  /\ t.cycle => Circular(catalog)
  /\ ~t.cycle => Fits(catalog, t) /\ t.active = s.active /\ s.visited \subseteq t.visited

\* The visits are right wherever the depth suffices.
Right(catalog, n, visit) ==
  \A id \in Ids(catalog), s \in Walk(catalog) :
    /\ s.cycle => visit[id][s] = s
    /\ /\ Fits(catalog, s) /\ Asked(catalog, s.active, id)
       /\ Len(s.active) + n >= Cardinality(Ids(catalog))
       => /\ Settles(catalog, s, visit[id][s])
          /\ ~visit[id][s].cycle => id \in visit[id][s].visited

\* A path that comes back to itself is a circle.
LEMMA PathCloses ==
  ASSUME NEW catalog, NEW p, Path(catalog, p), NEW id, Asked(catalog, p, id), Contains(p, id)
  PROVE  Circular(catalog)
<1>0. Len(p) \in Nat /\ \A i \in 1 .. Len(p) : p[i] \in Ids(catalog)
  BY DEF Path
<1>1. PICK k \in 1 .. Len(p) : p[k] = id
  BY DEF Contains
<1> DEFINE S == {p[i] : i \in k .. Len(p)}
<1>2. id \in S
  BY <1>0, <1>1
<1>3. S \in SUBSET Ids(catalog)
  BY <1>0, <1>1
<1>4. ASSUME NEW x \in S PROVE Needs(catalog, x) \cap S # {}
  <2>1. PICK i \in k .. Len(p) : x = p[i]
    BY <1>4
  <2>2. CASE i = Len(p)
    <3>1. p # <<>>
      BY <1>0, <1>1
    <3>2. id \in Needs(catalog, x)
      BY <2>1, <2>2, <3>1 DEF Asked
    <3> QED BY <1>2, <3>2
  <2>3. CASE i # Len(p)
    <3>1. i \in 1 .. Len(p) - 1 /\ i + 1 \in k .. Len(p)
      BY <1>0, <1>1, <2>3
    <3>2. p[i + 1] \in Needs(catalog, x) /\ p[i + 1] \in S
      BY <2>1, <3>1 DEF Path
    <3> QED BY <3>2
  <2> QED BY <2>2, <2>3
<1> HIDE DEF S
<1>5. Circle(catalog, S)
  BY <1>2, <1>4 DEF Circle
<1> QED BY <1>3, <1>5 DEF Circular

\* A path has at most as many plugins as there are; one that has as many has all.
LEMMA PathLength ==
  ASSUME NEW catalog, Readable(catalog), NEW p, Path(catalog, p), NEW id \in Ids(catalog),
         Len(p) >= Cardinality(Ids(catalog))
  PROVE  Contains(p, id)
<1>0. Len(p) \in Nat /\ p \in [1 .. Len(p) -> Ids(catalog)]
  BY DEF Path
<1>1. p \in Injection(1 .. Len(p), Ids(catalog))
  <2>1. \A i, j \in 1 .. Len(p) : p[i] = p[j] => i = j
    BY DEF Path
  <2> QED BY <1>0, <2>1 DEF Injection, IsInjective
<1>2. IsFiniteSet(Ids(catalog)) /\ Cardinality(Ids(catalog)) \in Nat
  BY CatalogFacts
<1>3. Cardinality(1 .. Len(p)) = Len(p)
  <2>1. Cardinality(1 .. Len(p)) = IF 1 > Len(p) THEN 0 ELSE Len(p) - 1 + 1
    BY <1>0, FS_Interval
  <2> QED BY <1>0, <2>1
<1>4. /\ Cardinality(1 .. Len(p)) <= Cardinality(Ids(catalog))
      /\ Cardinality(1 .. Len(p)) = Cardinality(Ids(catalog)) <=> p \in Surjection(1 .. Len(p), Ids(catalog))
  BY <1>1, <1>2, FS_Injection
<1>5. p \in Surjection(1 .. Len(p), Ids(catalog))
  BY <1>0, <1>2, <1>3, <1>4
<1> QED BY <1>5 DEF Surjection, Contains

\* A path goes on with what its last plugin needs.
LEMMA PathGrows ==
  ASSUME NEW catalog, NEW q, Path(catalog, q), NEW id \in Ids(catalog), Asked(catalog, q, id),
         ~Contains(q, id)
  PROVE  Path(catalog, Append(q, id))
<1> DEFINE p == Append(q, id)
<1>1. q \in Seq(Ids(catalog)) /\ Len(q) \in Nat /\ Path(catalog, q)
  BY DEF Path
<1>2. /\ p \in Seq(Ids(catalog)) /\ Len(p) = Len(q) + 1 /\ p[Len(p)] = id /\ p # <<>>
       /\ \A i \in 1 .. Len(q) : p[i] = q[i]
  BY <1>1
<1> HIDE DEF p
<1>3. \A i \in 1 .. Len(p) : i \in 1 .. Len(q) \/ i = Len(p)
  BY <1>1, <1>2
<1>4. \A i \in 1 .. Len(q) : q[i] # id
  BY DEF Contains
<1>5. ASSUME NEW i \in 1 .. Len(p), NEW j \in 1 .. Len(p), p[i] = p[j] PROVE i = j
  BY <1>1, <1>2, <1>3, <1>4, <1>5 DEF Path
<1>6. ASSUME NEW i \in 1 .. Len(p) - 1 PROVE p[i + 1] \in Needs(catalog, p[i])
  <2>1. i \in 1 .. Len(q)
    BY <1>1, <1>2
  <2>2. CASE i = Len(q)
    <3>1. q # <<>>
      BY <1>1, <2>1
    <3> QED BY <1>2, <2>1, <2>2, <3>1 DEF Asked
  <2>3. CASE i # Len(q)
    <3>1. i + 1 \in 1 .. Len(q) /\ i \in 1 .. Len(q) - 1
      BY <1>1, <2>1, <2>3
    <3> QED BY <1>1, <1>2, <2>1, <3>1 DEF Path
  <2> QED BY <2>2, <2>3
<1> QED BY <1>2, <1>5, <1>6 DEF Path, p

\* One visit after the other.
LEMMA EachSettles ==
  ASSUME NEW catalog, Readable(catalog), NEW n \in Nat, NEW visit \in Walkers(catalog),
         Right(catalog, n, visit), NEW s, Fits(catalog, s), NEW ids \in Seq(Ids(catalog)),
         \A i \in 1 .. Len(ids) : Asked(catalog, s.active, ids[i]),
         Len(s.active) + n >= Cardinality(Ids(catalog))
  PROVE  /\ Settles(catalog, s, Each(visit, s, ids))
         /\ ~Each(visit, s, ids).cycle => ToSet(ids) \subseteq Each(visit, s, ids).visited
<1>0. s \in Walk(catalog) /\ Len(ids) \in Nat /\ \A i \in 1 .. Len(ids) : ids[i] \in Ids(catalog)
  BY DEF Fits
<1>1. PICK t : Goes(t, Walk(catalog), visit, s, ids)
  BY <1>0, EachStates DEF Walkers
<1> DEFINE Done(i) == /\ Settles(catalog, s, t[i])
                      /\ ~t[i].cycle => \A j \in 1 .. i : ids[j] \in t[i].visited
           N == {i \in Nat : i <= Len(ids) => Done(i)}
<1>2. Done(0)
  <2>1. t[0] = s
    BY <1>1 DEF Goes
  <2> QED BY <1>0, <2>1 DEF Settles, Fits
<1>3. ASSUME NEW i \in Nat, i + 1 <= Len(ids), Done(i) PROVE Done(i + 1)
  <2>0. i + 1 \in 1 .. Len(ids) /\ i \in 0 .. Len(ids) /\ (i + 1) - 1 = i
    BY <1>0, <1>3
  <2>1. t[i + 1] = visit[ids[i + 1]][t[i]] /\ t[i] \in Walk(catalog)
    BY <1>1, <2>0 DEF Goes
  <2>2. ids[i + 1] \in Ids(catalog)
    BY <1>0, <2>0
  <2>3. CASE t[i].cycle
    <3>1. t[i + 1] = t[i]
      BY <2>1, <2>2, <2>3 DEF Right
    <3> QED BY <1>3, <2>3, <3>1
  <2>4. CASE ~t[i].cycle
    <3>1. Fits(catalog, t[i]) /\ t[i].active = s.active /\ s.visited \subseteq t[i].visited
      BY <1>3, <2>4 DEF Settles
    <3>2. Asked(catalog, t[i].active, ids[i + 1]) /\ Len(t[i].active) + n >= Cardinality(Ids(catalog))
      BY <2>0, <3>1
    <3>3. Settles(catalog, t[i], t[i + 1]) /\ (~t[i + 1].cycle => ids[i + 1] \in t[i + 1].visited)
      BY <2>1, <2>2, <3>1, <3>2 DEF Right
    <3>4. Settles(catalog, s, t[i + 1])
      BY <3>1, <3>3 DEF Settles
    <3>5. ASSUME ~t[i + 1].cycle, NEW j \in 1 .. i + 1 PROVE ids[j] \in t[i + 1].visited
      <4>1. CASE j = i + 1
        BY <3>3, <3>5, <4>1
      <4>2. CASE j # i + 1
        <5>1. j \in 1 .. i
          BY <3>5, <4>2
        <5>2. ids[j] \in t[i].visited
          BY <1>3, <2>4, <5>1
        <5> QED BY <3>3, <3>5, <5>2 DEF Settles
      <4> QED BY <4>1, <4>2
    <3> QED BY <3>4, <3>5
  <2> QED BY <2>3, <2>4
<1> HIDE DEF Done
<1>4. N = Nat
  <2>1. 0 \in N /\ N \in SUBSET Nat
    BY <1>2
  <2>2. ASSUME NEW i \in N PROVE i + 1 \in N
    <3>1. i \in Nat /\ i + 1 \in Nat /\ (i + 1 <= Len(ids) => i <= Len(ids))
      BY <1>0
    <3> QED BY <1>3, <3>1
  <2> HIDE DEF N
  <2> QED BY <2>1, <2>2, SetInduction
<1>5. Done(Len(ids))
  BY <1>0, <1>4
<1>6. Each(visit, s, ids) = t[Len(ids)]
  BY <1>1 DEF Goes
<1>7. ToSet(ids) = {ids[j] : j \in 1 .. Len(ids)}
  BY DEF ToSet
<1> QED BY <1>5, <1>6, <1>7 DEF Done

\* A plugin that is not active and not visited.
LEMMA EnterSettles ==
  ASSUME NEW catalog, Readable(catalog), ~Unmet(catalog), NEW n \in Nat,
         NEW deeper \in Walkers(catalog), Right(catalog, n, deeper),
         NEW id \in Ids(catalog), NEW s, Fits(catalog, s), Asked(catalog, s.active, id),
         Len(s.active) + n + 1 >= Cardinality(Ids(catalog)),
         ~Contains(s.active, id), id \notin s.visited
  PROVE  LET t == Enter(catalog, deeper, id, s)
         IN  Settles(catalog, s, t) /\ (~t.cycle => id \in t.visited)
<1> DEFINE t == Enter(catalog, deeper, id, s)
           inner == [s EXCEPT !.active = Append(@, id)]
           ids == NeedsByName(catalog, id)
           below == Each(deeper, inner, ids)
<1>0. /\ s \in Walk(catalog) /\ ~s.cycle /\ s.active \in Seq(Ids(catalog)) /\ Len(s.active) \in Nat
      /\ Path(catalog, s.active)
  BY DEF Fits, Path
<1>1. /\ inner \in Walk(catalog) /\ inner.active = Append(s.active, id) /\ inner.visited = s.visited
      /\ inner.result = s.result /\ inner.cycle = s.cycle
  BY <1>0, WalkActive
<1>2. ids \in Seq(Ids(catalog)) /\ ToSet(ids) = Needs(catalog, id)
  BY NamesFacts
<1>3. t = IF below.cycle THEN below
          ELSE [active |-> s.active, visited |-> below.visited \cup {id},
                result |-> Append(below.result, id), cycle |-> FALSE]
  BY DEF Enter
<1> HIDE DEF t, inner, ids
<1> DEFINE p == inner.active
<1>4. /\ p \in Seq(Ids(catalog)) /\ Len(p) = Len(s.active) + 1 /\ p[Len(p)] = id /\ p # <<>>
      /\ \A i \in 1 .. Len(s.active) : p[i] = s.active[i]
  BY <1>0, <1>1
<1>5. \A i \in 1 .. Len(p) : i \in 1 .. Len(s.active) \/ i = Len(p)
  BY <1>0, <1>4
<1>6. \A i \in 1 .. Len(s.active) : s.active[i] # id
  BY DEF Contains
<1>7. Path(catalog, p)
  BY <1>0, <1>1, PathGrows
<1>8. Fits(catalog, inner)
  <2>1. \A i \in 1 .. Len(p) : p[i] \notin inner.visited
    <3> TAKE i \in 1 .. Len(p)
    <3>1. \A k \in 1 .. Len(s.active) : s.active[k] \notin s.visited
      BY DEF Fits
    <3> QED BY <1>1, <1>4, <1>5, <3>1
  <2>2. Ordered(catalog, inner.result) /\ ToSet(inner.result) = inner.visited
    BY <1>1 DEF Fits
  <2> QED BY <1>0, <1>1, <1>7, <2>1, <2>2 DEF Fits
<1>9. \A i \in 1 .. Len(ids) : Asked(catalog, p, ids[i])
  BY <1>2, <1>4 DEF Asked, ToSet
<1>10. Len(p) + n >= Cardinality(Ids(catalog))
  <2>1. Cardinality(Ids(catalog)) \in Nat
    BY CatalogFacts
  <2> QED BY <1>0, <1>4, <2>1
<1>11. /\ Settles(catalog, inner, below)
       /\ ~below.cycle => ToSet(ids) \subseteq below.visited
  BY <1>2, <1>8, <1>9, <1>10, EachSettles
<1> HIDE DEF below
<1>12. CASE below.cycle
  <2>1. t = below
    BY <1>3, <1>12
  <2>2. Settles(catalog, s, t) /\ t.cycle
    BY <1>11, <1>12, <2>1 DEF Settles
  <2> QED BY <2>2 DEF t
<1>13. CASE ~below.cycle
  <2>1. /\ Fits(catalog, below) /\ below.active = p /\ s.visited \subseteq below.visited
        /\ Needs(catalog, id) \subseteq below.visited
    BY <1>1, <1>2, <1>11, <1>13 DEF Settles
  <2>2. /\ t.active = s.active /\ t.visited = below.visited \cup {id}
        /\ t.result = Append(below.result, id) /\ ~t.cycle
    BY <1>3, <1>13
  <2>3. /\ below.result \in Seq(Ids(catalog)) /\ Len(below.result) \in Nat
        /\ ToSet(below.result) = below.visited /\ Ordered(catalog, below.result)
        /\ \A i \in 1 .. Len(p) : p[i] \notin below.visited
    BY <2>1 DEF Fits, Walk
  <2>4. id \notin below.visited
    BY <1>0, <1>4, <2>3
  <2>5. t \in Walk(catalog)
    BY <1>0, EnterTyped DEF t
  <2>6. \A i \in 1 .. Len(t.active) : t.active[i] \notin t.visited
    <3> TAKE i \in 1 .. Len(t.active)
    <3>1. p[i] = s.active[i] /\ s.active[i] # id /\ i \in 1 .. Len(p)
      BY <1>0, <1>4, <1>6, <2>2
    <3> QED BY <2>2, <2>3, <3>1
  <2> DEFINE r == below.result
  <2>7. /\ Len(t.result) = Len(r) + 1 /\ t.result[Len(r) + 1] = id
        /\ \A i \in 1 .. Len(r) : t.result[i] = r[i]
        /\ \A i \in 1 .. Len(t.result) : i \in 1 .. Len(r) \/ i = Len(r) + 1
    BY <2>2, <2>3
  <2>8. ToSet(r) = {r[i] : i \in 1 .. Len(r)} /\ ToSet(t.result) = {t.result[i] : i \in 1 .. Len(t.result)}
    <3>1. DOMAIN r = 1 .. Len(r) /\ DOMAIN t.result = 1 .. Len(t.result)
      BY <2>2, <2>3
    <3> QED BY <3>1 DEF ToSet
  <2> HIDE DEF r
  <2>9. ToSet(t.result) = t.visited
    <3>1. ToSet(t.result) = ToSet(r) \cup {id}
      <4>1. \A i \in 1 .. Len(r) : i \in 1 .. Len(t.result)
        BY <2>3, <2>7 DEF r
      <4>2. Len(r) + 1 \in 1 .. Len(t.result)
        BY <2>3, <2>7 DEF r
      <4> QED BY <2>7, <2>8, <4>1, <4>2
    <3> QED BY <2>2, <2>3, <3>1 DEF r
  <2>10. \A i \in 1 .. Len(r) : r[i] # id
    BY <2>3, <2>4, <2>8 DEF r
  <2>11. Ordered(catalog, t.result)
    <3>1. ASSUME NEW i \in 1 .. Len(t.result), NEW j \in 1 .. Len(t.result), t.result[i] = t.result[j]
          PROVE  i = j
      <4>1. \A k, l \in 1 .. Len(r) : r[k] = r[l] => k = l
        BY <2>3 DEF Ordered, r
      <4> QED BY <2>7, <2>10, <3>1, <4>1
    <3>2. ASSUME NEW i \in 1 .. Len(t.result)
          PROVE  Needs(catalog, t.result[i]) \subseteq {t.result[j] : j \in 1 .. i - 1}
      <4>0. \A j \in 1 .. i - 1 : j \in 1 .. Len(r)
        BY <2>3, <2>7 DEF r
      <4>1. {t.result[j] : j \in 1 .. i - 1} = {r[j] : j \in 1 .. i - 1}
        BY <2>7, <4>0
      <4>2. CASE i \in 1 .. Len(r)
        BY <2>3, <2>7, <4>1, <4>2 DEF Ordered, r
      <4>3. CASE i = Len(r) + 1
        <5>1. i - 1 = Len(r)
          BY <2>3, <4>3 DEF r
        <5>2. Needs(catalog, id) \subseteq {r[j] : j \in 1 .. Len(r)}
          BY <2>1, <2>3, <2>8 DEF r
        <5> QED BY <2>7, <4>1, <4>3, <5>1, <5>2
      <4> QED BY <2>7, <4>2, <4>3
    <3> QED BY <3>1, <3>2 DEF Ordered
  <2>12. Fits(catalog, t)
    BY <1>0, <2>2, <2>5, <2>6, <2>9, <2>11 DEF Fits
  <2>13. Settles(catalog, s, t)
    BY <2>1, <2>2, <2>5, <2>12 DEF Settles
  <2> QED BY <2>2, <2>13 DEF t
<1> QED BY <1>12, <1>13 DEF t

\* Visit is right when what is deeper is, and without a depth left.
LEMMA VisitRight ==
  ASSUME NEW catalog, Readable(catalog), ~Unmet(catalog), NEW n \in Nat, NEW deeper,
         n = 0 \/ (deeper \in Walkers(catalog) /\ Right(catalog, n - 1, deeper))
  PROVE  Right(catalog, n, Visit(catalog, n, deeper))
<1> DEFINE visit == Visit(catalog, n, deeper)
<1>0. \A id \in Ids(catalog), s \in Walk(catalog) :
        visit[id][s] =
           IF s.cycle THEN s
           ELSE IF Contains(s.active, id) \/ n = 0 THEN [s EXCEPT !.cycle = TRUE]
           ELSE IF id \in s.visited THEN s
           ELSE Enter(catalog, deeper, id, s)
  BY DEF Visit
<1> HIDE DEF visit
<1>1. ASSUME NEW id \in Ids(catalog), NEW s \in Walk(catalog), s.cycle PROVE visit[id][s] = s
  BY <1>0, <1>1
<1>2. ASSUME NEW id \in Ids(catalog), NEW s \in Walk(catalog), Fits(catalog, s),
             Asked(catalog, s.active, id), Len(s.active) + n >= Cardinality(Ids(catalog))
      PROVE  Settles(catalog, s, visit[id][s]) /\ (~visit[id][s].cycle => id \in visit[id][s].visited)
  <2>0. ~s.cycle /\ Path(catalog, s.active) /\ Len(s.active) \in Nat
    BY <1>2 DEF Fits, Path
  <2>1. CASE Contains(s.active, id) \/ n = 0
    <3>1. visit[id][s] = [s EXCEPT !.cycle = TRUE]
      BY <1>0, <2>0, <2>1
    <3>2. visit[id][s] \in Walk(catalog) /\ visit[id][s].cycle
      BY <3>1, WalkCycle
    <3>3. Contains(s.active, id)
      <4>1. CASE n = 0
        <5>1. Len(s.active) >= Cardinality(Ids(catalog))
          BY <1>2, <2>0, <4>1
        <5> QED BY <2>0, <5>1, PathLength
      <4> QED BY <2>1, <4>1
    <3>4. Circular(catalog)
      BY <1>2, <2>0, <3>3, PathCloses
    <3> QED BY <3>2, <3>4 DEF Settles
  <2>2. CASE ~Contains(s.active, id) /\ n # 0 /\ id \in s.visited
    <3>1. visit[id][s] = s
      BY <1>0, <2>0, <2>2
    <3> QED BY <1>2, <2>0, <2>2, <3>1 DEF Settles
  <2>3. CASE ~Contains(s.active, id) /\ n # 0 /\ id \notin s.visited
    <3>1. visit[id][s] = Enter(catalog, deeper, id, s)
      BY <1>0, <2>0, <2>3
    <3>2. n - 1 \in Nat /\ Len(s.active) + (n - 1) + 1 >= Cardinality(Ids(catalog))
      BY <1>2, <2>0, <2>3
    <3>3. deeper \in Walkers(catalog) /\ Right(catalog, n - 1, deeper)
      BY <2>3
    <3> QED BY <1>2, <2>3, <3>1, <3>2, <3>3, EnterSettles
  <2> QED BY <2>1, <2>2, <2>3
<1>3. Right(catalog, n, visit)
  BY <1>1, <1>2 DEF Right
<1> QED BY <1>3 DEF visit

\* An order of all plugins leaves no room for a circle.
LEMMA OrderNoCircle ==
  ASSUME NEW catalog, NEW r \in Seq(Ids(catalog)), Ordered(catalog, r), ToSet(r) = Ids(catalog)
  PROVE  ~Circular(catalog)
<1> SUFFICES ASSUME NEW S \in SUBSET Ids(catalog), Circle(catalog, S) PROVE FALSE
  BY DEF Circular
<1>0. Len(r) \in Nat /\ DOMAIN r = 1 .. Len(r)
  OBVIOUS
<1> DEFINE P == {i \in 1 .. Len(r) : r[i] \in S}
<1>1. P \in SUBSET Nat /\ P # {}
  <2>1. PICK x \in S : TRUE
    BY DEF Circle
  <2>2. \E i \in 1 .. Len(r) : r[i] = x
    BY <1>0, <2>1 DEF ToSet
  <2> QED BY <1>0, <2>1, <2>2
<1>2. PICK i \in P : \A j \in P : i <= j
  BY <1>1, LeastNatural
<1>3. i \in 1 .. Len(r) /\ r[i] \in S /\ i \in Nat
  BY <1>0, <1>2
<1>4. PICK y \in S : y \in Needs(catalog, r[i])
  BY <1>3 DEF Circle
<1>5. PICK j \in 1 .. i - 1 : y = r[j]
  BY <1>3, <1>4 DEF Ordered
<1>6. j \in P /\ j < i
  BY <1>0, <1>3, <1>4, <1>5
<1> QED BY <1>0, <1>2, <1>3, <1>6

\* What resolveDependencies makes of a catalog whose dependencies are all there
\* (dependency-resolver.ts): it reports a cycle exactly when some plugins need one another in a
\* circle; otherwise its order has every plugin once, each after all that it needs.
THEOREM ResolveIsOrder ==
  ASSUME NEW catalog, Readable(catalog), ~Unmet(catalog)
  PROVE  /\ Resolve(catalog).cycle <=> Circular(catalog)
         /\ ~Resolve(catalog).cycle =>
              /\ LoadOrder(catalog) \in Seq(Ids(catalog)) /\ ToSet(LoadOrder(catalog)) = Ids(catalog)
              /\ Ordered(catalog, LoadOrder(catalog))
<1>1. PICK v \in [Nat -> Walkers(catalog)] :
        /\ \A n \in Nat : v[n] = Visit(catalog, n, v[n - 1])
        /\ Resolve(catalog) = Each(v[Len(catalog)], Start, ByName(Ids(catalog)))
  BY ResolveVisits
<1>2. \A n \in Nat : Right(catalog, n, v[n])
  <2> DEFINE N == {n \in Nat : Right(catalog, n, v[n])}
  <2>1. 0 \in N
    <3>1. \A d : Right(catalog, 0, Visit(catalog, 0, d))
      <4> TAKE d
      <4>1. 0 \in Nat
        OBVIOUS
      <4> QED BY <4>1, VisitRight
    <3> QED BY <1>1, <3>1
  <2>2. ASSUME NEW n \in N PROVE n + 1 \in N
    <3>1. n + 1 \in Nat /\ (n + 1) - 1 = n /\ n \in Nat /\ Right(catalog, n, v[n])
      OBVIOUS
    <3>2. v[n] \in Walkers(catalog)
      BY <1>1, <3>1
    <3>3. Right(catalog, n + 1, Visit(catalog, n + 1, v[n]))
      BY <3>1, <3>2, VisitRight
    <3> QED BY <1>1, <3>1, <3>3
  <2>3. N \in SUBSET Nat
    OBVIOUS
  <2> HIDE DEF N
  <2>4. N = Nat
    BY <2>1, <2>2, <2>3, SetInduction
  <2> QED BY <2>4 DEF N
<1> DEFINE ids == ByName(Ids(catalog))
           t == Resolve(catalog)
<1>3. /\ Len(catalog) \in Nat /\ Cardinality(Ids(catalog)) \in Nat
      /\ Cardinality(Ids(catalog)) <= Len(catalog)
  BY CatalogFacts
<1>4. ids \in Seq(Ids(catalog)) /\ ToSet(ids) = Ids(catalog)
  BY NamesFacts
<1>5. Fits(catalog, Start) /\ Start.active = <<>>
  <2>1. Start \in Walk(catalog)
    BY DEF Start, Walk
  <2> QED BY <2>1 DEF Start, Fits, Path, Ordered, ToSet
<1>6. Settles(catalog, Start, t) /\ (~t.cycle => ToSet(ids) \subseteq t.visited)
  <2>1. v[Len(catalog)] \in Walkers(catalog) /\ Right(catalog, Len(catalog), v[Len(catalog)])
    BY <1>1, <1>2, <1>3
  <2>2. \A i \in 1 .. Len(ids) : Asked(catalog, Start.active, ids[i])
    BY <1>5 DEF Asked
  <2>3. Len(Start.active) + Len(catalog) >= Cardinality(Ids(catalog))
    BY <1>3, <1>5
  <2> HIDE DEF ids
  <2>4. t = Each(v[Len(catalog)], Start, ids)
    BY <1>1 DEF ids
  <2> QED BY <1>3, <1>4, <1>5, <2>1, <2>2, <2>3, <2>4, EachSettles
<1>7. ASSUME ~t.cycle
      PROVE  /\ t.result \in Seq(Ids(catalog)) /\ ToSet(t.result) = Ids(catalog)
             /\ Ordered(catalog, t.result)
  <2>1. Fits(catalog, t) /\ Ids(catalog) \subseteq t.visited
    BY <1>4, <1>6, <1>7 DEF Settles
  <2> QED BY <2>1, WalkFields DEF Fits
<1>8. t.cycle \in BOOLEAN
  BY <1>6, WalkFields DEF Settles
<1>9. t.cycle <=> Circular(catalog)
  BY <1>6, <1>7, <1>8, OrderNoCircle DEF Settles
<1> QED BY <1>7, <1>9 DEF LoadOrder

-----------------------------------------------------------------------------
(* findCircularDependencies is defined *)

Searchers(catalog) == Visitors(Ids(catalog), Search(catalog))

LEMMA SearchFields ==
  ASSUME NEW catalog, NEW s \in Search(catalog)
  PROVE  s.stack \in Seq(Ids(catalog)) /\ s.visited \subseteq Ids(catalog) /\ s.circular \in BOOLEAN
BY DEF Search

LEMMA SearchCircular ==
  ASSUME NEW catalog, NEW s \in Search(catalog), NEW t, t = [s EXCEPT !.circular = TRUE]
  PROVE  t \in Search(catalog) /\ t.circular /\ t.stack = s.stack
BY DEF Search

LEMMA SearchStack ==
  ASSUME NEW catalog, NEW s \in Search(catalog), NEW stack \in Seq(Ids(catalog)),
         NEW t, t = [s EXCEPT !.stack = stack]
  PROVE  t \in Search(catalog) /\ t.stack = stack /\ t.visited = s.visited /\ t.circular = s.circular
BY DEF Search

\* What is searched below a manifest, and what comes of it.
Inner(s, id) == [s EXCEPT !.visited = @ \cup {id}, !.stack = Append(@, id)]

LEMMA SearchInner ==
  ASSUME NEW catalog, NEW s \in Search(catalog), NEW id \in Ids(catalog)
  PROVE  /\ Inner(s, id) \in Search(catalog) /\ Inner(s, id).stack = Append(s.stack, id)
         /\ Inner(s, id).visited = s.visited \cup {id} /\ Inner(s, id).circular = s.circular
<1> DEFINE t == Inner(s, id)
<1>1. t.stack = Append(s.stack, id) /\ t.visited = s.visited \cup {id} /\ t.circular = s.circular
  BY DEF Search, Inner
<1>2. Append(s.stack, id) \in Seq(Ids(catalog)) /\ s.visited \cup {id} \subseteq Ids(catalog)
  BY DEF Search
<1>3. t \in Search(catalog)
  BY <1>1, <1>2 DEF Search, Inner
<1> QED BY <1>1, <1>3

Found(catalog, deeper, id, s) ==
  [Each(deeper, Inner(s, id), Known(catalog, id)) EXCEPT !.stack = s.stack]

LEMMA DetectAt ==
  ASSUME NEW catalog, NEW n, NEW deeper, NEW id \in Ids(catalog), NEW s \in Search(catalog)
  PROVE  Detect(catalog, n, deeper)[id][s] =
           IF OnStack(s, id) \/ n = 0 THEN [s EXCEPT !.circular = TRUE]
           ELSE IF id \in s.visited THEN s
           ELSE Found(catalog, deeper, id, s)
BY DEF Detect, Found, Inner

\* A manifest keeps the stack, and a cycle once found stays found.
Steady(catalog, visit) ==
  \A id \in Ids(catalog), s \in Search(catalog) :
    visit[id][s].stack = s.stack /\ (s.circular => visit[id][s].circular)

LEMMA EachSteady ==
  ASSUME NEW catalog, NEW visit \in Searchers(catalog), Steady(catalog, visit),
         NEW s \in Search(catalog), NEW ids \in Seq(Ids(catalog))
  PROVE  /\ Each(visit, s, ids) \in Search(catalog)
         /\ Each(visit, s, ids).stack = s.stack
         /\ s.circular => Each(visit, s, ids).circular
<1>0. Len(ids) \in Nat /\ \A i \in 1 .. Len(ids) : ids[i] \in Ids(catalog)
  OBVIOUS
<1>1. PICK t : Goes(t, Search(catalog), visit, s, ids)
  BY EachStates DEF Searchers
<1> DEFINE N == {i \in Nat : i <= Len(ids) => t[i].stack = s.stack /\ (s.circular => t[i].circular)}
<1>2. N = Nat
  <2>1. 0 \in N /\ N \in SUBSET Nat
    BY <1>1 DEF Goes
  <2>2. ASSUME NEW i \in N PROVE i + 1 \in N
    <3> SUFFICES ASSUME i + 1 <= Len(ids)
                 PROVE  t[i + 1].stack = s.stack /\ (s.circular => t[i + 1].circular)
      OBVIOUS
    <3>1. i \in Nat /\ i + 1 \in 1 .. Len(ids) /\ i \in 0 .. Len(ids) /\ (i + 1) - 1 = i
      BY <1>0
    <3>2. t[i + 1] = visit[ids[i + 1]][t[i]] /\ t[i] \in Search(catalog)
      BY <1>1, <3>1 DEF Goes
    <3>3. t[i].stack = s.stack /\ (s.circular => t[i].circular)
      BY <3>1
    <3> QED BY <1>0, <3>1, <3>2, <3>3 DEF Steady
  <2> HIDE DEF N
  <2> QED BY <2>1, <2>2, SetInduction
<1>3. Len(ids) \in N /\ t[Len(ids)] \in Search(catalog) /\ Each(visit, s, ids) = t[Len(ids)]
  <2>1. Len(ids) \in 0 .. Len(ids)
    BY <1>0
  <2> HIDE DEF N
  <2> QED BY <1>0, <1>1, <1>2, <2>1 DEF Goes
<1> QED BY <1>3

LEMMA FoundTyped ==
  ASSUME NEW catalog, Readable(catalog), NEW deeper \in Searchers(catalog), Steady(catalog, deeper),
         NEW id \in Ids(catalog), NEW s \in Search(catalog)
  PROVE  /\ Found(catalog, deeper, id, s) \in Search(catalog)
         /\ Found(catalog, deeper, id, s).stack = s.stack
         /\ s.circular => Found(catalog, deeper, id, s).circular
<1> DEFINE below == Each(deeper, Inner(s, id), Known(catalog, id))
<1>1. Inner(s, id) \in Search(catalog) /\ Inner(s, id).circular = s.circular
  BY SearchInner
<1>2. Known(catalog, id) \in Seq(Ids(catalog))
  BY NamesFacts
<1>3. below \in Search(catalog) /\ (s.circular => below.circular)
  BY <1>1, <1>2, EachSteady
<1>4. Found(catalog, deeper, id, s) = [below EXCEPT !.stack = s.stack]
  BY DEF Found
<1>5. s.stack \in Seq(Ids(catalog))
  BY SearchFields
<1> HIDE DEF below
<1> QED BY <1>3, <1>4, <1>5, SearchStack

LEMMA DetectTyped ==
  ASSUME NEW catalog, Readable(catalog), NEW n \in Nat, NEW deeper,
         n = 0 \/ (deeper \in Searchers(catalog) /\ Steady(catalog, deeper))
  PROVE  /\ Detect(catalog, n, deeper) \in Searchers(catalog)
         /\ Steady(catalog, Detect(catalog, n, deeper))
<1> DEFINE detect == Detect(catalog, n, deeper)
<1>0. \A id \in Ids(catalog), s \in Search(catalog) :
        detect[id][s] =
           IF OnStack(s, id) \/ n = 0 THEN [s EXCEPT !.circular = TRUE]
           ELSE IF id \in s.visited THEN s
           ELSE Found(catalog, deeper, id, s)
  BY DEF Detect, Found, Inner
<1>a. /\ detect = [id \in Ids(catalog) |-> detect[id]]
      /\ \A id \in Ids(catalog) : detect[id] = [s \in Search(catalog) |-> detect[id][s]]
  BY DEF Detect
<1> HIDE DEF detect
<1>1. ASSUME NEW id \in Ids(catalog), NEW s \in Search(catalog)
      PROVE  detect[id][s] \in Search(catalog) /\ detect[id][s].stack = s.stack
             /\ (s.circular => detect[id][s].circular)
  <2>1. n # 0 => /\ Found(catalog, deeper, id, s) \in Search(catalog)
                 /\ Found(catalog, deeper, id, s).stack = s.stack
                 /\ s.circular => Found(catalog, deeper, id, s).circular
    BY FoundTyped
  <2>2. CASE OnStack(s, id) \/ n = 0
    <3>1. detect[id][s] = [s EXCEPT !.circular = TRUE]
      BY <1>0, <2>2
    <3> QED BY <3>1, SearchCircular
  <2>3. CASE ~(OnStack(s, id) \/ n = 0) /\ id \in s.visited
    BY <1>0, <2>3
  <2>4. CASE ~(OnStack(s, id) \/ n = 0) /\ id \notin s.visited
    BY <1>0, <2>1, <2>4
  <2> QED BY <2>2, <2>3, <2>4
<1>2. \A id \in Ids(catalog) : detect[id] \in [Search(catalog) -> Search(catalog)]
  BY <1>a, <1>1
<1>3. detect \in Searchers(catalog)
  BY <1>a, <1>2 DEF Searchers, Visitors
<1>4. Steady(catalog, detect)
  BY <1>1 DEF Steady
<1> QED BY <1>3, <1>4 DEF detect

LEMMA DetectAtZero ==
  ASSUME NEW catalog, NEW f, NEW g
  PROVE  Detect(catalog, 0, f) = Detect(catalog, 0, g)
BY DEF Detect

Nothing == [stack |-> <<>>, visited |-> {}, circular |-> FALSE]
Listed(catalog) == [i \in DOMAIN catalog |-> catalog[i].id]

LEMMA DetectCycleDef ==
  ASSUME NEW catalog
  PROVE  DetectCycle(catalog) =
           Each((CHOOSE v : v = [depth \in Nat |-> Detect(catalog, depth, v[depth - 1])])[Len(catalog)],
                Nothing, Listed(catalog)).circular
BY Zenon DEF DetectCycle, Nothing, Listed

\* What DetectCycle searches with.
LEMMA DetectVisits ==
  ASSUME NEW catalog, Readable(catalog)
  PROVE  \E v \in [Nat -> Searchers(catalog)] :
           /\ \A n \in Nat : v[n] = Detect(catalog, n, v[n - 1]) /\ Steady(catalog, v[n])
           /\ DetectCycle(catalog) = Each(v[Len(catalog)], Nothing, Listed(catalog)).circular
<1> DEFINE S == {visit \in Searchers(catalog) : Steady(catalog, visit)}
           first == Detect(catalog, 0, Start)
           step == [n \in Nat |-> [g \in S |-> Detect(catalog, n + 1, g)]]
           IsVisit(v) == v = [depth \in Nat |-> Detect(catalog, depth, v[depth - 1])]
           visit == CHOOSE v : IsVisit(v)
<1>1. first \in S
  BY DetectTyped
<1>2. step \in Stepping(S)
  <2>1. \A n \in Nat, g \in S : Detect(catalog, n + 1, g) \in S
    <3> TAKE n \in Nat, g \in S
    <3>1. n + 1 \in Nat
      OBVIOUS
    <3> QED BY <3>1, DetectTyped
  <2> HIDE DEF S
  <2> QED BY <2>1 DEF Stepping
<1>3. \A n \in Nat, g \in S : step[n][g] = Detect(catalog, n + 1, g)
  OBVIOUS
<1> HIDE DEF S, first, step
<1>4. PICK f \in [Nat -> S] : f[0] = first /\ \A n \in Nat : f[n + 1] = step[n][f[n]]
  BY <1>1, <1>2, Recursion DEF Iterates
<1>5. \A n \in Nat : f[n] = Detect(catalog, n, f[n - 1])
  <2> TAKE n \in Nat
  <2>1. CASE n = 0
    <3>1. f[0] = first
      BY <1>4
    <3>2. first = Detect(catalog, 0, f[n - 1])
      BY DetectAtZero DEF first
    <3> QED BY <2>1, <3>1, <3>2
  <2>2. CASE n # 0
    <3>1. n - 1 \in Nat /\ (n - 1) + 1 = n
      BY <2>2
    <3>2. f[n] = step[n - 1][f[n - 1]] /\ f[n - 1] \in S
      BY <1>4, <3>1
    <3> QED BY <1>3, <3>1, <3>2
  <2> QED BY <2>1, <2>2
<1>6. IsVisit(f)
  BY <1>4, <1>5
<1>7. IsVisit(visit)
  <2> HIDE DEF IsVisit
  <2> QED BY <1>6
<1>8. visit = [depth \in Nat |-> visit[depth]] /\ \A n \in Nat : visit[n] = Detect(catalog, n, visit[n - 1])
  <2>1. \A v : IsVisit(v) =>
          v = [depth \in Nat |-> v[depth]] /\ \A n \in Nat : v[n] = Detect(catalog, n, v[n - 1])
    OBVIOUS
  <2> HIDE DEF IsVisit, visit
  <2> QED BY <1>7, <2>1
<1>9. DetectCycle(catalog) = Each(visit[Len(catalog)], Nothing, Listed(catalog)).circular
  BY DetectCycleDef, Zenon
<1> HIDE DEF IsVisit, visit
<1>10. \A n \in Nat : visit[n] \in S
  <2> DEFINE N == {n \in Nat : visit[n] \in S}
  <2>1. 0 \in N
    <3>1. Detect(catalog, 0, visit[0 - 1]) \in S
      BY DetectTyped DEF S
    <3> QED BY <1>8, <3>1
  <2>2. ASSUME NEW n \in N PROVE n + 1 \in N
    <3>1. n + 1 \in Nat /\ (n + 1) - 1 = n /\ visit[n] \in S
      OBVIOUS
    <3>2. Detect(catalog, n + 1, visit[n]) \in S
      BY <3>1, DetectTyped DEF S
    <3> QED BY <1>8, <3>1, <3>2
  <2>3. N \in SUBSET Nat
    OBVIOUS
  <2> HIDE DEF N
  <2>4. N = Nat
    BY <2>1, <2>2, <2>3, SetInduction
  <2> QED BY <2>4 DEF N
<1>11. visit \in [Nat -> Searchers(catalog)] /\ \A n \in Nat : Steady(catalog, visit[n])
  BY <1>8, <1>10 DEF S
<1> QED BY <1>8, <1>9, <1>11

-----------------------------------------------------------------------------
(* findCircularDependencies is right *)

\* The manifests that have been visited to their end.
Finished(s) == s.visited \ {s.stack[i] : i \in 1 .. Len(s.stack)}

\* What is true between two visits as long as no cycle is found: what has been visited to its
\* end needs such manifests only, and none of these are in a circle.
Clear(catalog, s) ==
  /\ s \in Search(catalog) /\ ~s.circular
  /\ Path(catalog, s.stack) /\ \A i \in 1 .. Len(s.stack) : s.stack[i] \in s.visited
  /\ \A id \in Finished(s) : Needs(catalog, id) \cap Ids(catalog) \subseteq Finished(s)
  /\ \A S \in SUBSET Finished(s) : ~Circle(catalog, S)

\* What visits make of such a state.
Judges(catalog, s, t) ==
  /\ t \in Search(catalog) /\ t.stack = s.stack
  /\ t.circular => Circular(catalog)
  /\ ~t.circular => Clear(catalog, t) /\ s.visited \subseteq t.visited

\* The visits are right wherever the depth suffices.
Sure(catalog, n, visit) ==
  \A id \in Ids(catalog), s \in Search(catalog) :
    Clear(catalog, s) /\ Asked(catalog, s.stack, id) /\ Len(s.stack) + n >= Cardinality(Ids(catalog))
      => /\ Judges(catalog, s, visit[id][s])
         /\ ~visit[id][s].circular => id \in Finished(visit[id][s])

\* Where the stack is the same, what was visited to its end still is.
LEMMA FinishedGrows ==
  ASSUME NEW s, NEW t, t.stack = s.stack, s.visited \subseteq t.visited
  PROVE  Finished(s) \subseteq Finished(t)
BY DEF Finished

LEMMA EachJudges ==
  ASSUME NEW catalog, Readable(catalog), NEW n \in Nat, NEW visit \in Searchers(catalog),
         Steady(catalog, visit), Sure(catalog, n, visit), NEW s, Clear(catalog, s),
         NEW ids \in Seq(Ids(catalog)), \A i \in 1 .. Len(ids) : Asked(catalog, s.stack, ids[i]),
         Len(s.stack) + n >= Cardinality(Ids(catalog))
  PROVE  /\ Judges(catalog, s, Each(visit, s, ids))
         /\ ~Each(visit, s, ids).circular => ToSet(ids) \subseteq Finished(Each(visit, s, ids))
<1>0. s \in Search(catalog) /\ Len(ids) \in Nat /\ \A i \in 1 .. Len(ids) : ids[i] \in Ids(catalog)
  BY DEF Clear
<1>1. PICK t : Goes(t, Search(catalog), visit, s, ids)
  BY <1>0, EachStates DEF Searchers
<1> DEFINE Done(i) == /\ Judges(catalog, s, t[i])
                      /\ ~t[i].circular => \A j \in 1 .. i : ids[j] \in Finished(t[i])
           N == {i \in Nat : i <= Len(ids) => Done(i)}
<1>2. Done(0)
  <2>1. t[0] = s
    BY <1>1 DEF Goes
  <2> QED BY <1>0, <2>1 DEF Judges, Clear
<1>3. ASSUME NEW i \in Nat, i + 1 <= Len(ids), Done(i) PROVE Done(i + 1)
  <2>0. i + 1 \in 1 .. Len(ids) /\ i \in 0 .. Len(ids) /\ (i + 1) - 1 = i /\ i + 1 \in 0 .. Len(ids)
    BY <1>0, <1>3
  <2>1. t[i + 1] = visit[ids[i + 1]][t[i]] /\ t[i] \in Search(catalog) /\ t[i + 1] \in Search(catalog)
    BY <1>1, <2>0 DEF Goes
  <2>2. ids[i + 1] \in Ids(catalog)
    BY <1>0, <2>0
  <2>3. CASE t[i].circular
    <3>1. t[i + 1].stack = t[i].stack /\ t[i + 1].circular
      BY <2>1, <2>2, <2>3 DEF Steady
    <3> QED BY <1>3, <2>1, <2>3, <3>1 DEF Judges
  <2>4. CASE ~t[i].circular
    <3>1. Clear(catalog, t[i]) /\ t[i].stack = s.stack /\ s.visited \subseteq t[i].visited
      BY <1>3, <2>4 DEF Judges
    <3>2. Asked(catalog, t[i].stack, ids[i + 1]) /\ Len(t[i].stack) + n >= Cardinality(Ids(catalog))
      BY <2>0, <3>1
    <3>3. Judges(catalog, t[i], t[i + 1]) /\ (~t[i + 1].circular => ids[i + 1] \in Finished(t[i + 1]))
      BY <2>1, <2>2, <3>1, <3>2 DEF Sure
    <3>4. Judges(catalog, s, t[i + 1])
      BY <3>1, <3>3 DEF Judges
    <3>5. ASSUME ~t[i + 1].circular, NEW j \in 1 .. i + 1 PROVE ids[j] \in Finished(t[i + 1])
      <4>1. CASE j = i + 1
        BY <3>3, <3>5, <4>1
      <4>2. CASE j # i + 1
        <5>1. j \in 1 .. i
          BY <3>5, <4>2
        <5>2. ids[j] \in Finished(t[i])
          BY <1>3, <2>4, <5>1
        <5>3. t[i + 1].stack = t[i].stack /\ t[i].visited \subseteq t[i + 1].visited
          BY <3>3, <3>5 DEF Judges
        <5> QED BY <5>2, <5>3, FinishedGrows
      <4> QED BY <4>1, <4>2
    <3> QED BY <3>4, <3>5
  <2> QED BY <2>3, <2>4
<1> HIDE DEF Done
<1>4. N = Nat
  <2>1. 0 \in N /\ N \in SUBSET Nat
    BY <1>2
  <2>2. ASSUME NEW i \in N PROVE i + 1 \in N
    <3>1. i \in Nat /\ i + 1 \in Nat /\ (i + 1 <= Len(ids) => i <= Len(ids))
      BY <1>0
    <3> QED BY <1>3, <3>1
  <2> HIDE DEF N
  <2> QED BY <2>1, <2>2, SetInduction
<1>5. Done(Len(ids))
  BY <1>0, <1>4
<1>6. Each(visit, s, ids) = t[Len(ids)]
  BY <1>1 DEF Goes
<1>7. ToSet(ids) = {ids[j] : j \in 1 .. Len(ids)}
  BY DEF ToSet
<1> QED BY <1>5, <1>6, <1>7 DEF Done

\* A manifest that is not on the stack and not visited: once what it needs has been visited to
\* the end, so is it, and no circle goes through it.
LEMMA FoundJudges ==
  ASSUME NEW catalog, Readable(catalog), NEW n \in Nat, NEW deeper \in Searchers(catalog),
         Steady(catalog, deeper), Sure(catalog, n, deeper),
         NEW id \in Ids(catalog), NEW s, Clear(catalog, s), Asked(catalog, s.stack, id),
         Len(s.stack) + n + 1 >= Cardinality(Ids(catalog)),
         ~OnStack(s, id), id \notin s.visited
  PROVE  LET t == Found(catalog, deeper, id, s)
         IN  Judges(catalog, s, t) /\ (~t.circular => id \in Finished(t))
<1> DEFINE t == Found(catalog, deeper, id, s)
           inner == Inner(s, id)
           ids == Known(catalog, id)
           below == Each(deeper, inner, ids)
           p == inner.stack
<1>0. /\ s \in Search(catalog) /\ ~s.circular /\ s.stack \in Seq(Ids(catalog)) /\ Len(s.stack) \in Nat
      /\ Path(catalog, s.stack) /\ s.visited \subseteq Ids(catalog)
  BY DEF Clear, Path, Search
<1>1. /\ inner \in Search(catalog) /\ p = Append(s.stack, id)
      /\ inner.visited = s.visited \cup {id} /\ inner.circular = s.circular
  BY <1>0, SearchInner
<1>2. ids \in Seq(Ids(catalog)) /\ ToSet(ids) = Needs(catalog, id) \cap Ids(catalog)
  BY NamesFacts
<1>3. t = [below EXCEPT !.stack = s.stack]
  BY DEF Found
<1>4. t \in Search(catalog)
  BY <1>0, FoundTyped
<1> HIDE DEF inner, t, ids
<1>5. /\ p \in Seq(Ids(catalog)) /\ Len(p) = Len(s.stack) + 1 /\ p[Len(p)] = id /\ p # <<>>
      /\ \A i \in 1 .. Len(s.stack) : p[i] = s.stack[i]
      /\ \A i \in 1 .. Len(p) : i \in 1 .. Len(s.stack) \/ i = Len(p)
      /\ \A i \in 1 .. Len(s.stack) : i \in 1 .. Len(p)
      /\ Len(p) \in 1 .. Len(p)
  BY <1>0, <1>1
<1>6. {p[i] : i \in 1 .. Len(p)} = {s.stack[i] : i \in 1 .. Len(s.stack)} \cup {id}
  BY <1>5
<1>7. \A i \in 1 .. Len(s.stack) : s.stack[i] # id
  BY DEF OnStack, Contains
<1>8. Finished(inner) = Finished(s)
  BY <1>1, <1>6 DEF Finished
<1>9. Clear(catalog, inner)
  <2>1. Path(catalog, p)
    BY <1>0, <1>1, PathGrows DEF OnStack
  <2>2. \A i \in 1 .. Len(p) : p[i] \in inner.visited
    <3> TAKE i \in 1 .. Len(p)
    <3>1. \A k \in 1 .. Len(s.stack) : s.stack[k] \in s.visited
      BY DEF Clear
    <3> QED BY <1>1, <1>5, <3>1
  <2>3. /\ \A x \in Finished(inner) : Needs(catalog, x) \cap Ids(catalog) \subseteq Finished(inner)
        /\ \A S \in SUBSET Finished(inner) : ~Circle(catalog, S)
    BY <1>8 DEF Clear
  <2> QED BY <1>0, <1>1, <2>1, <2>2, <2>3 DEF Clear
<1>10. \A i \in 1 .. Len(ids) : Asked(catalog, p, ids[i])
  BY <1>2, <1>5 DEF Asked, ToSet
<1>11. Len(p) + n >= Cardinality(Ids(catalog))
  <2>1. Cardinality(Ids(catalog)) \in Nat
    BY CatalogFacts
  <2> QED BY <1>0, <1>5, <2>1
<1>12. /\ Judges(catalog, inner, below)
       /\ ~below.circular => ToSet(ids) \subseteq Finished(below)
  BY <1>2, <1>9, <1>10, <1>11, EachJudges
<1> HIDE DEF below
<1>13. t.stack = s.stack /\ t.visited = below.visited /\ t.circular = below.circular
  BY <1>0, <1>3, <1>12, SearchStack DEF Judges
<1>14. CASE below.circular
  <2>1. Judges(catalog, s, t) /\ t.circular
    BY <1>4, <1>12, <1>13, <1>14 DEF Judges
  <2> QED BY <2>1 DEF t
<1>15. CASE ~below.circular
  <2>1. /\ Clear(catalog, below) /\ below.stack = p /\ s.visited \cup {id} \subseteq below.visited
        /\ Needs(catalog, id) \cap Ids(catalog) \subseteq Finished(below)
    BY <1>1, <1>2, <1>12, <1>15 DEF Judges
  <2> DEFINE F == Finished(below)
  <2>2. Finished(t) = F \cup {id} /\ id \notin F
    <3>1. F = below.visited \ ({s.stack[i] : i \in 1 .. Len(s.stack)} \cup {id})
      BY <1>6, <2>1 DEF Finished
    <3>2. Finished(t) = below.visited \ {s.stack[i] : i \in 1 .. Len(s.stack)}
      BY <1>13 DEF Finished
    <3>3. id \notin {s.stack[i] : i \in 1 .. Len(s.stack)}
      BY <1>7
    <3> HIDE DEF F
    <3> QED BY <2>1, <3>1, <3>2, <3>3
  <2>3. F \subseteq Ids(catalog)
    BY <2>1 DEF Finished, Clear, Search
  <2>4. /\ \A x \in F : Needs(catalog, x) \cap Ids(catalog) \subseteq F
        /\ \A S \in SUBSET F : ~Circle(catalog, S)
        /\ Needs(catalog, id) \cap Ids(catalog) \subseteq F
    BY <2>1 DEF Clear
  <2> HIDE DEF F
  <2>5. \A x \in Finished(t) : Needs(catalog, x) \cap Ids(catalog) \subseteq F
    BY <2>2, <2>4
  <2>6. ASSUME NEW S \in SUBSET Finished(t), Circle(catalog, S) PROVE FALSE
    <3> DEFINE R == S \ {id}
    <3>1. \A x \in S : \E y \in R : y \in Needs(catalog, x)
      <4> TAKE x \in S
      <4>1. PICK y \in S : y \in Needs(catalog, x)
        BY <2>6 DEF Circle
      <4>2. y \in Ids(catalog) /\ x \in Finished(t)
        BY <2>2, <2>3, <2>6
      <4>3. y \in F
        BY <2>5, <4>1, <4>2
      <4> QED BY <2>2, <4>1, <4>3
    <3>2. R # {}
      BY <2>6, <3>1 DEF Circle
    <3>3. Circle(catalog, R)
      BY <3>1, <3>2 DEF Circle
    <3>4. R \in SUBSET F
      BY <2>2, <2>6
    <3> QED BY <2>4, <3>3, <3>4
  <2>7. \A i \in 1 .. Len(t.stack) : t.stack[i] \in t.visited
    BY <1>13, <2>1 DEF Clear
  <2>8. Clear(catalog, t)
    BY <1>0, <1>4, <1>13, <1>15, <2>2, <2>5, <2>6, <2>7 DEF Clear
  <2>9. Judges(catalog, s, t) /\ id \in Finished(t)
    BY <1>4, <1>13, <1>15, <2>1, <2>2, <2>8 DEF Judges
  <2> QED BY <2>9 DEF t
<1> QED BY <1>14, <1>15

LEMMA DetectSure ==
  ASSUME NEW catalog, Readable(catalog), NEW n \in Nat, NEW deeper,
         n = 0 \/ (/\ deeper \in Searchers(catalog) /\ Steady(catalog, deeper)
                   /\ Sure(catalog, n - 1, deeper))
  PROVE  Sure(catalog, n, Detect(catalog, n, deeper))
<1> DEFINE detect == Detect(catalog, n, deeper)
<1>0. \A id \in Ids(catalog), s \in Search(catalog) :
        detect[id][s] =
           IF OnStack(s, id) \/ n = 0 THEN [s EXCEPT !.circular = TRUE]
           ELSE IF id \in s.visited THEN s
           ELSE Found(catalog, deeper, id, s)
  BY DEF Detect, Found, Inner
<1> HIDE DEF detect
<1>1. ASSUME NEW id \in Ids(catalog), NEW s \in Search(catalog), Clear(catalog, s),
             Asked(catalog, s.stack, id), Len(s.stack) + n >= Cardinality(Ids(catalog))
      PROVE  Judges(catalog, s, detect[id][s]) /\ (~detect[id][s].circular => id \in Finished(detect[id][s]))
  <2>0. ~s.circular /\ Path(catalog, s.stack) /\ Len(s.stack) \in Nat
    <3>1. s.stack \in Seq(Ids(catalog))
      BY SearchFields
    <3>2. Len(s.stack) \in Nat
      BY <3>1
    <3> QED BY <1>1, <3>2 DEF Clear
  <2>1. CASE OnStack(s, id) \/ n = 0
    <3>1. detect[id][s] = [s EXCEPT !.circular = TRUE]
      BY <1>0, <2>1
    <3>2. detect[id][s] \in Search(catalog) /\ detect[id][s].circular /\ detect[id][s].stack = s.stack
      BY <3>1, SearchCircular
    <3>3. Contains(s.stack, id)
      <4>1. CASE n = 0
        <5>1. Len(s.stack) >= Cardinality(Ids(catalog))
          BY <1>1, <2>0, <4>1
        <5> QED BY <2>0, <5>1, PathLength
      <4> QED BY <2>1, <4>1 DEF OnStack
    <3>4. Circular(catalog)
      BY <1>1, <2>0, <3>3, PathCloses
    <3> QED BY <3>2, <3>4 DEF Judges
  <2>2. CASE ~OnStack(s, id) /\ n # 0 /\ id \in s.visited
    <3>1. detect[id][s] = s
      BY <1>0, <2>2
    <3>2. id \in Finished(s)
      BY <2>2 DEF Finished, OnStack, Contains
    <3> QED BY <1>1, <2>0, <3>1, <3>2 DEF Judges
  <2>3. CASE ~OnStack(s, id) /\ n # 0 /\ id \notin s.visited
    <3>1. detect[id][s] = Found(catalog, deeper, id, s)
      BY <1>0, <2>3
    <3>2. n - 1 \in Nat /\ Len(s.stack) + (n - 1) + 1 >= Cardinality(Ids(catalog))
      BY <1>1, <2>0, <2>3
    <3>3. deeper \in Searchers(catalog) /\ Steady(catalog, deeper) /\ Sure(catalog, n - 1, deeper)
      BY <2>3
    <3> QED BY <1>1, <2>3, <3>1, <3>2, <3>3, FoundJudges
  <2> QED BY <2>1, <2>2, <2>3
<1>2. Sure(catalog, n, detect)
  BY <1>1 DEF Sure
<1> QED BY <1>2 DEF detect

\* The graph of the manifests (dependency-graph.ts) finds a cycle exactly when some of the
\* manifests there are need one another in a circle, whatever is missing or twice in the catalog.
THEOREM DetectsCircles ==
  ASSUME NEW catalog, Readable(catalog)
  PROVE  DetectCycle(catalog) = Circular(catalog)
<1>1. PICK v \in [Nat -> Searchers(catalog)] :
        /\ \A n \in Nat : v[n] = Detect(catalog, n, v[n - 1]) /\ Steady(catalog, v[n])
        /\ DetectCycle(catalog) = Each(v[Len(catalog)], Nothing, Listed(catalog)).circular
  BY DetectVisits
<1>2. \A n \in Nat : Sure(catalog, n, v[n])
  <2> DEFINE N == {n \in Nat : Sure(catalog, n, v[n])}
  <2>1. 0 \in N
    <3>1. \A d : Sure(catalog, 0, Detect(catalog, 0, d))
      <4> TAKE d
      <4>1. 0 \in Nat
        OBVIOUS
      <4> QED BY <4>1, DetectSure
    <3> QED BY <1>1, <3>1
  <2>2. ASSUME NEW n \in N PROVE n + 1 \in N
    <3>1. n + 1 \in Nat /\ (n + 1) - 1 = n /\ n \in Nat /\ Sure(catalog, n, v[n])
      OBVIOUS
    <3>2. v[n] \in Searchers(catalog) /\ Steady(catalog, v[n])
      BY <1>1, <3>1
    <3>3. Sure(catalog, n + 1, Detect(catalog, n + 1, v[n]))
      BY <3>1, <3>2, DetectSure
    <3> QED BY <1>1, <3>1, <3>3
  <2>3. N \in SUBSET Nat
    OBVIOUS
  <2> HIDE DEF N
  <2>4. N = Nat
    BY <2>1, <2>2, <2>3, SetInduction
  <2> QED BY <2>4 DEF N
<1>3. /\ Len(catalog) \in Nat /\ DOMAIN catalog = 1 .. Len(catalog)
      /\ \A i \in DOMAIN catalog : catalog[i].id \in Ids(catalog)
      /\ Cardinality(Ids(catalog)) \in Nat /\ Cardinality(Ids(catalog)) <= Len(catalog)
  BY CatalogFacts
<1> DEFINE ids == Listed(catalog)
           t == Each(v[Len(catalog)], Nothing, ids)
<1>4. ids \in Seq(Ids(catalog)) /\ ToSet(ids) = Ids(catalog)
  <2>1. ids \in Seq(Ids(catalog)) /\ DOMAIN ids = DOMAIN catalog
    BY <1>3 DEF Listed
  <2>2. \A i \in DOMAIN catalog : ids[i] = catalog[i].id
    BY DEF Listed
  <2> HIDE DEF ids
  <2> QED BY <2>1, <2>2 DEF ToSet, Ids, Entries
<1>5. Clear(catalog, Nothing) /\ Nothing.stack = <<>>
  <2>1. Nothing \in Search(catalog)
    BY DEF Nothing, Search
  <2>2. Finished(Nothing) = {}
    BY DEF Finished, Nothing
  <2>3. \A S \in SUBSET {} : ~Circle(catalog, S)
    BY DEF Circle
  <2> QED BY <2>1, <2>2, <2>3 DEF Nothing, Clear, Path
<1> HIDE DEF ids
<1>6. Judges(catalog, Nothing, t) /\ (~t.circular => ToSet(ids) \subseteq Finished(t))
  <2>1. /\ v[Len(catalog)] \in Searchers(catalog) /\ Steady(catalog, v[Len(catalog)])
        /\ Sure(catalog, Len(catalog), v[Len(catalog)])
    BY <1>1, <1>2, <1>3
  <2>2. \A i \in 1 .. Len(ids) : Asked(catalog, Nothing.stack, ids[i])
    BY <1>5 DEF Asked
  <2>3. Len(Nothing.stack) + Len(catalog) >= Cardinality(Ids(catalog))
    BY <1>3, <1>5
  <2> QED BY <1>3, <1>4, <1>5, <2>1, <2>2, <2>3, EachJudges
<1>7. DetectCycle(catalog) = t.circular
  BY <1>1 DEF ids
<1> HIDE DEF t
<1>8. ASSUME ~t.circular PROVE ~Circular(catalog)
  <2>1. Clear(catalog, t) /\ Ids(catalog) \subseteq Finished(t)
    BY <1>4, <1>6, <1>8 DEF Judges
  <2> QED BY <2>1 DEF Clear, Circular
<1>9. t.circular <=> Circular(catalog)
  BY <1>6, <1>8 DEF Judges
<1>a. t.circular \in BOOLEAN
  BY <1>6, SearchFields DEF Judges, Clear
<1>b. Circular(catalog) \in BOOLEAN
  BY DEF Circular
<1> QED BY <1>7, <1>9, <1>a, <1>b

-----------------------------------------------------------------------------
(* The catalog that is accepted is the one that is sound *)

\* The plugins are distinct when they are as many as the entries.
LEMMA DistinctIds ==
  ASSUME NEW catalog, Readable(catalog)
  PROVE  Cardinality(Ids(catalog)) = Len(catalog) <=> ~DuplicateId(catalog)
<1>0. /\ Len(catalog) \in Nat /\ DOMAIN catalog = 1 .. Len(catalog)
      /\ \A i \in DOMAIN catalog : catalog[i].id \in Ids(catalog)
  BY CatalogFacts
<1> DEFINE f == [i \in 1 .. Len(catalog) |-> catalog[i].id]
<1>1. f \in Surjection(1 .. Len(catalog), Ids(catalog))
  <2>1. f \in [1 .. Len(catalog) -> Ids(catalog)]
    BY <1>0
  <2>2. ASSUME NEW id \in Ids(catalog) PROVE \E i \in 1 .. Len(catalog) : f[i] = id
    BY <1>0, <2>2 DEF Ids, Entries, ToSet
  <2> QED BY <2>1, <2>2 DEF Surjection
<1>2. f \in Injection(1 .. Len(catalog), Ids(catalog)) <=>
        \A i, j \in 1 .. Len(catalog) : catalog[i].id = catalog[j].id => i = j
  <2>1. \A i \in 1 .. Len(catalog) : f[i] = catalog[i].id
    OBVIOUS
  <2>2. f \in [1 .. Len(catalog) -> Ids(catalog)]
    BY <1>0
  <2> HIDE DEF f
  <2> QED BY <2>1, <2>2 DEF Injection, IsInjective
<1> HIDE DEF f
<1>3. IsFiniteSet(1 .. Len(catalog)) /\ Cardinality(1 .. Len(catalog)) = Len(catalog)
  <2>1. /\ IsFiniteSet(1 .. Len(catalog))
        /\ Cardinality(1 .. Len(catalog)) = IF 1 > Len(catalog) THEN 0 ELSE Len(catalog) - 1 + 1
    BY <1>0, FS_Interval
  <2> QED BY <1>0, <2>1
<1>4. Cardinality(Ids(catalog)) = Len(catalog) <=> f \in Injection(1 .. Len(catalog), Ids(catalog))
  BY <1>1, <1>3, FS_Surjection
<1>5. (\A i, j \in 1 .. Len(catalog) : catalog[i].id = catalog[j].id => i = j) <=> ~DuplicateId(catalog)
  <2>1. \A i, j \in 1 .. Len(catalog) : i < j \/ j < i \/ i = j
    BY <1>0
  <2>2. \A i, j \in 1 .. Len(catalog) : i < j => i # j
    BY <1>0
  <2> QED BY <1>0, <2>1, <2>2 DEF DuplicateId
<1> QED BY <1>2, <1>4, <1>5

LEMMA EntriesFacts ==
  ASSUME NEW catalog, Readable(catalog), ~DuplicateId(catalog)
  PROVE  /\ IsFiniteSet(Entries(catalog))
         /\ \A e, f \in Entries(catalog) : e.id = f.id => e = f
         /\ \A i, j \in DOMAIN catalog : catalog[i] = catalog[j] => i = j
<1>0. /\ Len(catalog) \in Nat /\ DOMAIN catalog = 1 .. Len(catalog)
      /\ \A i \in DOMAIN catalog : catalog[i] \in Entries(catalog)
      /\ \A e \in Entries(catalog) : \E i \in DOMAIN catalog : e = catalog[i]
  BY CatalogFacts DEF Entries, ToSet
<1>1. \A i, j \in DOMAIN catalog : catalog[i].id = catalog[j].id => i = j
  <2>1. \A i, j \in DOMAIN catalog : i < j \/ j < i \/ i = j
    BY <1>0
  <2> QED BY <2>1 DEF DuplicateId
<1> DEFINE f == [i \in 1 .. Len(catalog) |-> catalog[i]]
<1>2. f \in Surjection(1 .. Len(catalog), Entries(catalog))
  BY <1>0 DEF Surjection
<1>3. IsFiniteSet(1 .. Len(catalog))
  BY <1>0, FS_Interval
<1>4. IsFiniteSet(Entries(catalog))
  BY <1>2, <1>3, FS_Surjection
<1> QED BY <1>0, <1>1, <1>4

\* No capability is shared when every one has one owner.
LEMMA OwnCapabilities ==
  ASSUME NEW catalog, Readable(catalog), ~DuplicateId(catalog)
  PROVE  ~Collision(catalog) <=>
           \A v \in UNION {e.caps : e \in Entries(catalog)} :
             Cardinality({e \in Entries(catalog) : v \in e.caps}) = 1
<1>0. /\ \A i \in DOMAIN catalog : catalog[i] \in Entries(catalog)
      /\ \A e \in Entries(catalog) : \E i \in DOMAIN catalog : e = catalog[i]
      /\ \A i, j \in DOMAIN catalog : i < j \/ j < i \/ i = j
      /\ \A i, j \in DOMAIN catalog : i < j => i # j
      /\ \A i, j \in DOMAIN catalog : catalog[i] = catalog[j] => i = j
  <2>1. Len(catalog) \in Nat /\ DOMAIN catalog = 1 .. Len(catalog)
    BY CatalogFacts
  <2>2. \A i, j \in DOMAIN catalog : (i < j \/ j < i \/ i = j) /\ (i < j => i # j)
    BY <2>1
  <2> QED BY <2>2, CatalogFacts, EntriesFacts DEF Entries, ToSet
<1> DEFINE Owners(v) == {e \in Entries(catalog) : v \in e.caps}
<1>1. \A v : IsFiniteSet(Owners(v))
  <2> TAKE v
  <2>1. Owners(v) \in SUBSET Entries(catalog) /\ IsFiniteSet(Entries(catalog))
    BY EntriesFacts
  <2> HIDE DEF Owners
  <2> QED BY <2>1, FS_Subset
<1>2. \A v : Cardinality(Owners(v)) = 1 <=> \E e : Owners(v) = {e}
  <2> HIDE DEF Owners
  <2> QED BY <1>1, FS_Singleton
<1>3. ASSUME ~Collision(catalog), NEW e \in Entries(catalog), NEW v \in e.caps
      PROVE  \E x : Owners(v) = {x}
  <2>1. ASSUME NEW g \in Owners(v) PROVE g = e
    <3>1. PICK i \in DOMAIN catalog : e = catalog[i]
      BY <1>0
    <3>2. PICK j \in DOMAIN catalog : g = catalog[j]
      BY <1>0, <2>1
    <3>3. v \in catalog[i].caps \cap catalog[j].caps
      BY <2>1, <3>1, <3>2
    <3>4. i = j
      BY <1>0, <1>3, <3>3 DEF Collision
    <3> QED BY <3>1, <3>2, <3>4
  <2>2. Owners(v) = {e}
    BY <2>1
  <2> QED BY <2>2
<1>4. ASSUME Collision(catalog)
      PROVE  \E e \in Entries(catalog) : \E v \in e.caps : ~\E x : Owners(v) = {x}
  <2>1. PICK i \in DOMAIN catalog, j \in DOMAIN catalog :
          i < j /\ catalog[i].caps \cap catalog[j].caps # {}
    BY <1>4 DEF Collision
  <2>2. PICK v : v \in catalog[i].caps /\ v \in catalog[j].caps
    BY <2>1
  <2>3. catalog[i] # catalog[j] /\ catalog[i] \in Owners(v) /\ catalog[j] \in Owners(v)
    BY <1>0, <2>1, <2>2
  <2>4. ~\E x : Owners(v) = {x}
    <3> HIDE DEF Owners
    <3> QED BY <2>3
  <2> HIDE DEF Owners
  <2> QED BY <1>0, <2>2, <2>4
<1>5. (\A v \in UNION {e.caps : e \in Entries(catalog)} : Cardinality(Owners(v)) = 1) <=>
        \A e \in Entries(catalog) : \A v \in e.caps : \E x : Owners(v) = {x}
  <2> HIDE DEF Owners
  <2> QED BY <1>2
<1>6. ~Collision(catalog) <=> \A e \in Entries(catalog) : \A v \in e.caps : \E x : Owners(v) = {x}
  <2> HIDE DEF Owners
  <2> QED BY <1>3, <1>4
<1> QED BY <1>5, <1>6

\* No dependency is unmet when each has a plugin of its name in a version that suits.
LEMMA MetDependencies ==
  ASSUME NEW catalog, Readable(catalog), ~DuplicateId(catalog)
  PROVE  ~Unmet(catalog) <=>
           \A e \in Entries(catalog), dep \in UNION {f.deps : f \in Entries(catalog)} :
             dep \in e.deps => \E f \in Entries(catalog) : f.id = dep.id /\ Satisfies(f.version, dep.range)
<1>1. \A dep : Met(catalog, dep) <=>
        \E f \in Entries(catalog) : f.id = dep.id /\ Satisfies(f.version, dep.range)
  <2> TAKE dep
  <2>1. \A id \in Ids(catalog) : ById(catalog, id) \in Entries(catalog) /\ ById(catalog, id).id = id
    BY CatalogFacts
  <2>2. \A e, f \in Entries(catalog) : e.id = f.id => e = f
    BY EntriesFacts
  <2>3. ASSUME NEW f \in Entries(catalog), f.id = dep.id
        PROVE  dep.id \in Ids(catalog) /\ ById(catalog, dep.id) = f
    <3>1. dep.id \in Ids(catalog)
      BY <2>3 DEF Ids
    <3> QED BY <2>1, <2>2, <2>3, <3>1
  <2>4. ASSUME Met(catalog, dep)
        PROVE  \E f \in Entries(catalog) : f.id = dep.id /\ Satisfies(f.version, dep.range)
    BY <2>1, <2>4 DEF Met
  <2>5. ASSUME NEW f \in Entries(catalog), f.id = dep.id, Satisfies(f.version, dep.range)
        PROVE  Met(catalog, dep)
    BY <2>3, <2>5 DEF Met
  <2> QED BY <2>4, <2>5
<1>2. ~Unmet(catalog) <=> \A e \in Entries(catalog) : \A dep \in e.deps : Met(catalog, dep)
  BY DEF Unmet
<1>3. \A e \in Entries(catalog) : \A dep \in e.deps : dep \in UNION {f.deps : f \in Entries(catalog)}
  OBVIOUS
<1> QED BY <1>1, <1>2, <1>3

\* The startup accepts exactly the sound catalogs: what validateCatalog and resolveDependencies
\* check one after the other is that the plugins are distinct, share no capability of which
\* there is one, have all they need in a version that suits, and do not need one another in a
\* circle (catalog-validator.ts, dependency-resolver.ts).
THEOREM AcceptedIsSound ==
  ASSUME NEW catalog, Readable(catalog)
  PROVE  Accepted(catalog) <=> Sound(catalog)
<1>1. DuplicateId(catalog) => ~Accepted(catalog) /\ ~Sound(catalog)
  BY DistinctIds DEF Accepted, ValidCatalog, Sound
<1>2. ASSUME ~DuplicateId(catalog), ~Unmet(catalog) PROVE Accepted(catalog) <=> Sound(catalog)
  <2>1. Resolve(catalog).cycle <=> Circular(catalog)
    BY <1>2, ResolveIsOrder
  <2> QED BY <1>2, <2>1, DistinctIds, OwnCapabilities, MetDependencies DEF Accepted, ValidCatalog, Sound
<1>3. ASSUME ~DuplicateId(catalog), Unmet(catalog) PROVE ~Accepted(catalog) /\ ~Sound(catalog)
  BY <1>3, MetDependencies DEF Accepted, Sound
<1> QED BY <1>1, <1>2, <1>3

-----------------------------------------------------------------------------
(***************************************************************************)
(* The life of the process                                                   *)
(***************************************************************************)

Steps == {"database", "client", "migrate", "plugins", "load", "start", "health", "listen", "login", "up"}
Stages == {"no", "plugins", "modules", "api", "database", "done"}

\* How far the startup is.
Reached(step) ==
  startup \in (CASE step = "client"  -> Steps \ {"database"}
                 [] step = "plugins" -> {"plugins", "load", "start", "health", "listen", "login", "up"}
                 [] step = "load"    -> {"load", "start", "health", "listen", "login", "up"}
                 [] step = "start"   -> {"start", "health", "listen", "login", "up"}
                 [] step = "health"  -> {"health", "listen", "login", "up"}
                 [] step = "login"   -> {"login", "up"})

ProcessTypes ==
  /\ setup \in Setups /\ startup \in Steps /\ shutdown \in Stages
  /\ exit \in {"no", "done", "cut", "failed", "forced"}
  /\ plugins \in {"none", "started", "stopped"} /\ client \in {"none", "created", "ready", "destroyed"}
  /\ db \in {"off", "on", "ended"} /\ api \in {"off", "listening", "closing", "closed"}
  /\ conns \in [Conns -> {"none", "request", "stream"}]
  /\ sweep \in {"off", "armed", "running", "last"}
  /\ order \in Seq(Ids(setup.catalog)) /\ loaded \in Seq(Ids(setup.catalog))
  /\ stopped \in Seq(Ids(setup.catalog)) /\ started \subseteq ToSet(loaded)
  /\ threw \in BOOLEAN /\ (exit = "done" <=> shutdown = "done")

\* What the startup has done by the step it is at.
StartedInOrder ==
  /\ Alive /\ Reached("client") => db = "on"
  /\ Reached("plugins") /\ setup.plugins => ToSet(Migrations(setup.catalog)) \subseteq ledger
  /\ plugins # "none" => Reached("load") /\ setup.plugins
  /\ Reached("load") => ToSet(order) = Ids(setup.catalog)
  /\ Reached("start") => ToSet(loaded) = Ids(setup.catalog) \ setup.disabled
  /\ ~Reached("start") => loaded = <<>> /\ started = {}
  /\ Reached("health") => started = ToSet(loaded)
  /\ api # "off" \/ shutdown # "no" => Reached("login")
  /\ api = "off" => \A c \in Conns : conns[c] = "none"

\* The modules stop last first.
StoppedInOrder ==
  /\ Len(stopped) <= Len(loaded) /\ stopped = SubSeq(Reverse(loaded), 1, Len(stopped))
  /\ shutdown \in {"no", "plugins"} => stopped = <<>>

\* What the shutdown has done by the stage it is at.
ShutInOrder ==
  /\ shutdown # "no" => sweep \in {"off", "last"}
  /\ shutdown \notin {"no", "plugins"} => client = "destroyed" /\ plugins # "started"
  /\ shutdown \in {"api", "database", "done"} => threw \/ Len(stopped) = Len(loaded)
  /\ shutdown \in {"database", "done"} => api = "closed" /\ \A c \in Conns : conns[c] = "none"
  /\ api = "closed" => shutdown \in {"database", "done"}
  /\ shutdown = "done" => db = "ended" /\ sweep = "off"

AppliedOnce == \A m \in ledger : Recorded(ledger, m) = {m}

ProcessInv == ProcessTypes /\ StartedInOrder /\ StoppedInOrder /\ ShutInOrder /\ AppliedOnce

-----------------------------------------------------------------------------
(* Helpers *)

\* Leaving out elements of a sequence leaves the others.
LEMMA WithoutFacts ==
  ASSUME NEW T, NEW seq \in Seq(T), NEW S
  PROVE  /\ Without(seq, S) \in Seq(T)
         /\ ToSet(Without(seq, S)) = ToSet(seq) \ S
<1> DEFINE kept == {i \in DOMAIN seq : seq[i] \notin S}
<1>1. kept \in SUBSET DOMAIN seq /\ Without(seq, S) = Chosen(seq, kept)
  BY DEF Without
<1>2. {seq[i] : i \in kept} = ToSet(seq) \ S
  BY DEF ToSet
<1> HIDE DEF kept
<1>3. /\ Chosen(seq, kept) \in Seq(T)
      /\ {Chosen(seq, kept)[k] : k \in DOMAIN Chosen(seq, kept)} = {seq[i] : i \in kept}
  BY <1>1, ChosenElements
<1> QED BY <1>1, <1>2, <1>3 DEF ToSet

\* The step after each step of the startup.
LEMMA NextStep ==
  /\ Step("database") => startup' = "client"
  /\ Step("client")   => startup' = "migrate"
  /\ Step("migrate")  => startup' = "plugins"
  /\ Step("plugins")  => startup' = "load"
  /\ Step("load")     => startup' = "start"
  /\ Step("start")    => startup' = "health"
  /\ Step("health")   => startup' = "listen"
  /\ Step("listen")   => startup' = "login"
  /\ Step("login")    => startup' = "up"
<1>1. /\ Len(Order) = 10
      /\ Order[1] = "database" /\ Order[2] = "client" /\ Order[3] = "migrate"
      /\ Order[4] = "plugins" /\ Order[5] = "load" /\ Order[6] = "start" /\ Order[7] = "health"
      /\ Order[8] = "listen" /\ Order[9] = "login" /\ Order[10] = "up"
  BY DEF Order
<1>2. ASSUME NEW n \in 2 .. 10
      PROVE  (CHOOSE i \in 2 .. Len(Order) : Order[i - 1] = Order[n - 1]) = n
  <2>1. \A i \in 2 .. 10 : Order[i - 1] = Order[n - 1] => i = n
    BY <1>1
  <2> QED BY <1>1, <2>1
<1>3. \A n \in 2 .. 10 : Step(Order[n - 1]) => startup' = Order[n]
  BY <1>2 DEF Step
<1>4. /\ Step(Order[1]) => startup' = Order[2]
      /\ Step(Order[2]) => startup' = Order[3]
      /\ Step(Order[3]) => startup' = Order[4]
      /\ Step(Order[4]) => startup' = Order[5]
      /\ Step(Order[5]) => startup' = Order[6]
      /\ Step(Order[6]) => startup' = Order[7]
      /\ Step(Order[7]) => startup' = Order[8]
      /\ Step(Order[8]) => startup' = Order[9]
      /\ Step(Order[9]) => startup' = Order[10]
  BY <1>3
<1> QED BY <1>1, <1>4

\* With nothing due, the ledger has every migration.
LEMMA NothingDue ==
  ASSUME NEW s \in Setups, Due(s.catalog, ledger) = {}
  PROVE  ToSet(Migrations(s.catalog)) \subseteq ledger
<1> DEFINE M == ToSet(Migrations(s.catalog))
           left == {m \in M : m \notin ledger}
<1>0. \A m \in M : m.namespace \in Nat /\ m.version \in Nat
  BY BootstrapAssumption
<1> SUFFICES ASSUME left # {} PROVE FALSE
  OBVIOUS
<1> DEFINE N == {m.namespace : m \in left}
<1>1. N \in SUBSET Nat /\ N # {}
  BY <1>0
<1>2. PICK ns \in N : \A x \in N : ns <= x
  <2> HIDE DEF N
  <2> QED BY <1>1, LeastNatural
<1> DEFINE V == {m.version : m \in {l \in left : l.namespace = ns}}
<1>3. V \in SUBSET Nat /\ V # {}
  BY <1>0
<1>4. PICK v \in V : \A x \in V : v <= x
  <2> HIDE DEF V
  <2> QED BY <1>3, LeastNatural
<1>5. PICK m \in left : m.namespace = ns /\ m.version = v
  BY <1>4
<1>6. \A k \in left : ~Earlier(k, m)
  <2> SUFFICES ASSUME NEW k \in left, Earlier(k, m) PROVE FALSE
    OBVIOUS
  <2>1. /\ k.namespace \in Nat /\ k.version \in Nat /\ m.namespace \in Nat /\ m.version \in Nat
        /\ ns <= k.namespace
    BY <1>0, <1>2
  <2>2. k.namespace = m.namespace /\ k.version < m.version
    BY <1>5, <2>1 DEF Earlier
  <2>3. v <= k.version
    BY <1>4, <1>5, <2>2
  <2> QED BY <1>5, <2>1, <2>2, <2>3
<1>7. m \in Due(s.catalog, ledger)
  BY <1>5, <1>6 DEF Due
<1> QED BY <1>7

-----------------------------------------------------------------------------
(* The invariant *)

LEMMA ProcessInitially == ProcessInit => ProcessInv
<1> SUFFICES ASSUME ProcessInit PROVE ProcessInv
  OBVIOUS
<1> USE DEF ProcessInit
<1>1. ProcessTypes
  <2>1. /\ setup \in Setups /\ startup \in Steps /\ shutdown \in Stages
        /\ exit \in {"no", "done", "cut", "failed", "forced"}
        /\ plugins \in {"none", "started", "stopped"}
        /\ client \in {"none", "created", "ready", "destroyed"}
        /\ db \in {"off", "on", "ended"} /\ api \in {"off", "listening", "closing", "closed"}
        /\ sweep \in {"off", "armed", "running", "last"}
        /\ threw \in BOOLEAN /\ (exit = "done" <=> shutdown = "done")
    BY DEF Steps, Stages
  <2>2. conns \in [Conns -> {"none", "request", "stream"}]
    OBVIOUS
  <2>3. /\ order \in Seq(Ids(setup.catalog)) /\ loaded \in Seq(Ids(setup.catalog))
        /\ stopped \in Seq(Ids(setup.catalog)) /\ started \subseteq ToSet(loaded)
    OBVIOUS
  <2> QED BY <2>1, <2>2, <2>3 DEF ProcessTypes
<1>2. StartedInOrder
  BY DEF StartedInOrder, Reached
<1>3. StoppedInOrder
  BY DEF StoppedInOrder, Reverse
<1>4. ShutInOrder
  BY DEF ShutInOrder
<1>5. AppliedOnce
  BY DEF AppliedOnce
<1> QED BY <1>1, <1>2, <1>3, <1>4, <1>5 DEF ProcessInv

\* A step that changes neither the modules nor the ledger.
LEMMA ModulesLeft ==
  ASSUME StoppedInOrder, AppliedOnce, UNCHANGED <<loaded, stopped, ledger>>,
         shutdown' \in {"no", "plugins"} => shutdown \in {"no", "plugins"}
  PROVE  StoppedInOrder' /\ AppliedOnce'
BY DEF StoppedInOrder, AppliedOnce

\* The setup is refused: the process ends as it is.
LEMMA Refused ==
  ASSUME ProcessTypes, StartedInOrder, StoppedInOrder, ShutInOrder, AppliedOnce,
         NEW why, Refuse(why)
  PROVE  ProcessTypes' /\ StartedInOrder' /\ StoppedInOrder' /\ ShutInOrder' /\ AppliedOnce'
<1>1. ProcessTypes'
  BY DEF Refuse, serving, ProcessTypes, Alive
<1>2. StartedInOrder'
  BY DEF Refuse, serving, StartedInOrder, Reached, Alive
<1>3. StoppedInOrder' /\ AppliedOnce'
  BY ModulesLeft DEF Refuse
<1>4. ShutInOrder'
  BY DEF Refuse, serving, ShutInOrder
<1> QED BY <1>1, <1>2, <1>3, <1>4

LEMMA ProcessStep == ProcessInv /\ [ProcessNext]_processVars => ProcessInv'
<1> SUFFICES ASSUME ProcessTypes, StartedInOrder, StoppedInOrder, ShutInOrder, AppliedOnce,
                    [ProcessNext]_processVars
             PROVE  ProcessTypes' /\ StartedInOrder' /\ StoppedInOrder' /\ ShutInOrder' /\ AppliedOnce'
  BY DEF ProcessInv
<1>1. CASE ConnectDatabase
  <2>1. ProcessTypes'
    BY <1>1, NextStep DEF ConnectDatabase, Step, Alive, release, process, serving,
       ProcessTypes, Steps, Stages, StartedInOrder, ShutInOrder
  <2>2. StartedInOrder'
    BY <1>1, NextStep DEF ConnectDatabase, Step, Alive, release, process, serving,
       ProcessTypes, StartedInOrder, ShutInOrder, Reached, Steps
  <2>3. StoppedInOrder' /\ AppliedOnce'
    BY <1>1, ModulesLeft DEF ConnectDatabase, Step, Alive, release, process, serving
  <2>4. ShutInOrder'
    BY <1>1, NextStep DEF ConnectDatabase, Step, Alive, release, process, serving,
       ProcessTypes, StartedInOrder, ShutInOrder, Reached
  <2> QED BY <2>1, <2>2, <2>3, <2>4
<1>2. CASE CreateClient
  <2>1. ProcessTypes'
    BY <1>2, NextStep DEF CreateClient, Step, Alive, release, process, serving,
       ProcessTypes, Steps, Stages, StartedInOrder, ShutInOrder
  <2>2. StartedInOrder'
    BY <1>2, NextStep DEF CreateClient, Step, Alive, release, process, serving,
       ProcessTypes, StartedInOrder, ShutInOrder, Reached, Steps
  <2>3. StoppedInOrder' /\ AppliedOnce'
    BY <1>2, ModulesLeft DEF CreateClient, Step, Alive, release, process, serving
  <2>4. ShutInOrder'
    BY <1>2, NextStep DEF CreateClient, Step, Alive, release, process, serving,
       ProcessTypes, StartedInOrder, ShutInOrder, Reached
  <2> QED BY <2>1, <2>2, <2>3, <2>4
<1>3. ASSUME NEW m \in ToSet(Migrations(setup.catalog)), Migrate(m)
      PROVE  ProcessTypes' /\ StartedInOrder' /\ StoppedInOrder' /\ ShutInOrder' /\ AppliedOnce'
  <2>1. CASE Mismatched(m)
    BY <1>3, <2>1, Refused DEF Migrate
  <2>2. CASE ~Mismatched(m)
    <3>1. /\ ledger' = ledger \cup {m} /\ Recorded(ledger, m) = {} /\ Alive
          /\ UNCHANGED <<setup, order, refused, restarts, startup, plugins, client, loaded, started,
                         stopped, threw, db, serving, process>>
      BY <1>3, <2>2 DEF Migrate, Mismatched
    <3>2. ProcessTypes'
      BY <3>1 DEF serving, process, ProcessTypes
    <3>3. StartedInOrder'
      BY <3>1 DEF serving, process, StartedInOrder, Reached, Alive
    <3>4. StoppedInOrder' /\ ShutInOrder'
      BY <3>1 DEF serving, process, StoppedInOrder, ShutInOrder
    <3>5. AppliedOnce'
      <4> SUFFICES ASSUME NEW r \in ledger \cup {m}
                   PROVE  Recorded(ledger \cup {m}, r) = {r}
        BY <3>1 DEF AppliedOnce
      <4>1. CASE r = m
        BY <3>1, <4>1 DEF Recorded
      <4>2. CASE r # m
        <5>1. r \in ledger /\ Recorded(ledger, r) = {r}
          BY <4>2 DEF AppliedOnce
        <5>2. ~(m.namespace = r.namespace /\ m.version = r.version)
          BY <3>1, <5>1 DEF Recorded
        <5> QED BY <5>1, <5>2 DEF Recorded
      <4> QED BY <4>1, <4>2
    <3> QED BY <3>2, <3>3, <3>4, <3>5
  <2> QED BY <2>1, <2>2
<1>4. ASSUME Migrated
      PROVE  ProcessTypes' /\ StartedInOrder' /\ StoppedInOrder' /\ ShutInOrder' /\ AppliedOnce'
  <2>1. CASE setup.plugins /\ MigrationsRefused(setup.catalog)
    BY <1>4, <2>1, Refused DEF Migrated
  <2>2. CASE ~(setup.plugins /\ MigrationsRefused(setup.catalog))
    <3>a. /\ startup = "migrate" /\ startup' = "plugins"
          /\ UNCHANGED <<release, plugins, client, loaded, started, stopped, threw, db, serving, process>>
      BY <1>4, <2>2, NextStep DEF Migrated, Step
    <3>b. setup.plugins => ToSet(Migrations(setup.catalog)) \subseteq ledger
      BY <1>4, <2>2, NothingDue DEF Migrated, ProcessTypes
    <3>1. ProcessTypes'
      BY <3>a, <3>b DEF release, process, serving, ProcessTypes, Steps
    <3>2. StartedInOrder'
      BY <3>a, <3>b DEF release, process, serving, ProcessTypes, StartedInOrder, ShutInOrder, Reached, Alive
    <3>3. StoppedInOrder' /\ AppliedOnce'
      BY <3>a, <3>b, ModulesLeft DEF release, process, serving
    <3>4. ShutInOrder'
      BY <3>a, <3>b DEF release, process, serving, ShutInOrder, StartedInOrder, Reached, ProcessTypes
    <3> QED BY <3>1, <3>2, <3>3, <3>4
  <2> QED BY <2>1, <2>2
<1>5. ASSUME StartPlugins
      PROVE  ProcessTypes' /\ StartedInOrder' /\ StoppedInOrder' /\ ShutInOrder' /\ AppliedOnce'
  <2>1. CASE setup.plugins /\ ~Accepted(setup.catalog)
    BY <1>5, <2>1, Refused DEF StartPlugins
  <2>2. CASE ~(setup.plugins /\ ~Accepted(setup.catalog))
    <3>a. /\ startup = "plugins" /\ startup' = "load"
          /\ plugins' = (IF setup.plugins THEN "started" ELSE "none")
          /\ order' = (IF setup.plugins THEN LoadOrder(setup.catalog)
                       ELSE [i \in DOMAIN setup.catalog |-> setup.catalog[i].id])
          /\ UNCHANGED <<setup, ledger, refused, restarts, client, loaded, started, stopped, threw, db,
                         serving, process>>
      BY <1>5, <2>2, NextStep DEF StartPlugins, Step
    <3>b. order' \in Seq(Ids(setup.catalog)) /\ ToSet(order') = Ids(setup.catalog)
      <4>1. CASE setup.plugins
        BY <2>2, <3>a, <4>1, ResolveIsOrder, BootstrapAssumption DEF ProcessTypes, Accepted
      <4>2. CASE ~setup.plugins
        <5>1. setup.catalog \in Seq(Entries(setup.catalog))
          BY BootstrapAssumption DEF ProcessTypes, Readable
        <5>2. DOMAIN setup.catalog = 1 .. Len(setup.catalog) /\ Len(setup.catalog) \in Nat
          BY <5>1
        <5>3. order' = [i \in 1 .. Len(setup.catalog) |-> setup.catalog[i].id]
          BY <3>a, <4>2, <5>2
        <5>4. \A i \in 1 .. Len(setup.catalog) : setup.catalog[i].id \in Ids(setup.catalog)
          BY <5>2 DEF Ids, Entries, ToSet
        <5>5. order' \in Seq(Ids(setup.catalog))
          BY <5>2, <5>3, <5>4
        <5>6. ToSet(order') = Ids(setup.catalog)
          BY <5>2, <5>3 DEF Ids, Entries, ToSet
        <5> QED BY <5>5, <5>6
      <4> QED BY <4>1, <4>2
    <3>c. setup' = setup /\ shutdown' = shutdown /\ exit' = exit
      BY <3>a DEF process
    <3>1. ProcessTypes'
      BY <3>a, <3>b, <3>c DEF process, serving, ProcessTypes, Steps
    <3>2. StartedInOrder'
      BY <3>a, <3>b, <3>c DEF process, serving, ProcessTypes, StartedInOrder, Reached, Alive
    <3>3. StoppedInOrder' /\ AppliedOnce'
      BY <3>a, <3>c, ModulesLeft
    <3>4. ShutInOrder'
      BY <3>a, <3>c DEF process, serving, ShutInOrder, StartedInOrder, Reached
    <3> QED BY <3>1, <3>2, <3>3, <3>4
  <2> QED BY <2>1, <2>2
<1>6. ASSUME LoadModules
      PROVE  ProcessTypes' /\ StartedInOrder' /\ StoppedInOrder' /\ ShutInOrder' /\ AppliedOnce'
  <2>1. CASE ~(Registrable(setup.catalog) /\ ~CommandsClash(Commands(setup.catalog, Enabled)))
    BY <1>6, <2>1, Refused DEF LoadModules
  <2>2. CASE Registrable(setup.catalog) /\ ~CommandsClash(Commands(setup.catalog, Enabled))
    <3>a. /\ startup = "load" /\ startup' = "start" /\ loaded' = Enabled
          /\ UNCHANGED <<release, plugins, client, started, stopped, threw, db, serving, process>>
      BY <1>6, <2>2, NextStep DEF LoadModules, Step
    <3>b. /\ loaded' \in Seq(Ids(setup.catalog))
          /\ ToSet(loaded') = Ids(setup.catalog) \ setup.disabled
      BY <3>a, WithoutFacts DEF Enabled, ProcessTypes, StartedInOrder, Reached
    <3>c. shutdown = "no" /\ stopped = <<>> /\ started = {}
      BY <3>a DEF StartedInOrder, StoppedInOrder, Reached, ProcessTypes
    <3>d. setup' = setup /\ shutdown' = shutdown /\ exit' = exit
      BY <3>a DEF process, release
    <3>1. ProcessTypes'
      BY <3>a, <3>b, <3>c, <3>d DEF release, process, serving, ProcessTypes, Steps
    <3>2. StartedInOrder'
      BY <3>a, <3>b, <3>c, <3>d DEF release, process, serving, ProcessTypes, StartedInOrder, Reached, Alive
    <3>3. StoppedInOrder' /\ AppliedOnce'
      <4>1. Len(loaded') \in Nat
        BY <3>b
      <4>2. Reverse(loaded') \in Seq(Ids(setup.catalog))
        BY <3>b, <4>1 DEF Reverse
      <4>3. SubSeq(Reverse(loaded'), 1, 0) = <<>>
        BY <4>2
      <4>4. StoppedInOrder'
        BY <3>a, <3>c, <4>1, <4>3 DEF StoppedInOrder
      <4> QED BY <3>a, <4>4 DEF AppliedOnce, release
    <3>4. ShutInOrder'
      BY <3>a, <3>c, <3>d DEF release, process, serving, ShutInOrder, StartedInOrder, Reached
    <3> QED BY <3>1, <3>2, <3>3, <3>4
  <2> QED BY <2>1, <2>2
<1>7. ASSUME StartModule
      PROVE  ProcessTypes' /\ StartedInOrder' /\ StoppedInOrder' /\ ShutInOrder' /\ AppliedOnce'
  <2> DEFINE next == {i \in DOMAIN loaded : /\ loaded[i] \notin started
                                            /\ \A j \in 1 .. i - 1 : loaded[j] \in started}
  <2>1. /\ startup = "start" /\ Alive
        /\ started' = started \cup {loaded[CHOOSE i \in DOMAIN loaded :
                                /\ loaded[i] \notin started
                                /\ \A j \in 1 .. i - 1 : loaded[j] \in started]}
        /\ UNCHANGED <<release, startup, plugins, client, loaded, stopped, threw, db, serving, process>>
    BY <1>7 DEF StartModule
  <2>2. \E i \in next : TRUE
    <3> DEFINE left == {i \in DOMAIN loaded : loaded[i] \notin started}
    <3>1. left # {} /\ left \in SUBSET Nat /\ DOMAIN loaded = 1 .. Len(loaded) /\ Len(loaded) \in Nat
      BY <1>7 DEF StartModule, ProcessTypes, ToSet
    <3>2. PICK i \in left : \A j \in left : i <= j
      <4> HIDE DEF left
      <4> QED BY <3>1, LeastNatural
    <3>3. \A j \in 1 .. i - 1 : loaded[j] \in started
      <4> SUFFICES ASSUME NEW j \in 1 .. i - 1 PROVE loaded[j] \in started
        OBVIOUS
      <4>1. i \in 1 .. Len(loaded) /\ j \in DOMAIN loaded /\ ~(i <= j)
        BY <3>1
      <4> QED BY <3>2, <4>1
    <3> QED BY <3>2, <3>3
  <2>3. started' \subseteq ToSet(loaded)
    <3>1. \E i \in DOMAIN loaded : started' = started \cup {loaded[i]}
      BY <2>1, <2>2
    <3> QED BY <3>1 DEF ToSet, ProcessTypes
  <2>c. /\ setup' = setup /\ order' = order /\ loaded' = loaded /\ exit' = exit /\ shutdown' = shutdown
        /\ api' = api /\ conns' = conns /\ sweep' = sweep /\ startup' = startup
        /\ UNCHANGED <<plugins, client, stopped, threw, db>>
    BY <2>1 DEF release, process, serving
  <2>d. started' \subseteq ToSet(loaded')
    BY <2>3, <2>c
  <2>4. ProcessTypes'
    <3> HIDE DEF next
    <3> QED BY <2>c, <2>d DEF ProcessTypes
  <2>5. StartedInOrder'
    BY <2>1 DEF release, process, serving, StartedInOrder, Reached, Alive
  <2>6. StoppedInOrder' /\ AppliedOnce'
    BY <2>1, ModulesLeft DEF release, process
  <2>7. ShutInOrder'
    BY <2>1 DEF process, serving, ShutInOrder
  <2> QED BY <2>4, <2>5, <2>6, <2>7
<1>8. ASSUME ModulesStarted
      PROVE  ProcessTypes' /\ StartedInOrder' /\ StoppedInOrder' /\ ShutInOrder' /\ AppliedOnce'
  <2>1. CASE ~CatalogComplete(setup.catalog, loaded)
    BY <1>8, <2>1, Refused DEF ModulesStarted
  <2>2. CASE CatalogComplete(setup.catalog, loaded)
    <3>a. /\ startup = "start" /\ startup' = "health" /\ started = ToSet(loaded)
          /\ UNCHANGED <<release, plugins, client, loaded, started, stopped, threw, db, serving, process>>
      BY <1>8, <2>2, NextStep DEF ModulesStarted, Step
    <3>1. ProcessTypes'
      BY <3>a DEF release, process, serving, ProcessTypes, Steps
    <3>2. StartedInOrder'
      BY <3>a DEF release, process, serving, ProcessTypes, StartedInOrder, ShutInOrder, Reached, Alive
    <3>3. StoppedInOrder' /\ AppliedOnce'
      BY <3>a, ModulesLeft DEF release, process, serving
    <3>4. ShutInOrder'
      BY <3>a DEF release, process, serving, ShutInOrder, StartedInOrder, Reached, ProcessTypes
    <3> QED BY <3>1, <3>2, <3>3, <3>4
  <2> QED BY <2>1, <2>2
<1>9. CASE RunHealthChecks
  <2>1. ProcessTypes'
    BY <1>9, NextStep DEF RunHealthChecks, Step, Alive, release, process, serving,
       ProcessTypes, Steps, Stages, StartedInOrder, ShutInOrder
  <2>2. StartedInOrder'
    BY <1>9, NextStep DEF RunHealthChecks, Step, Alive, release, process, serving,
       ProcessTypes, StartedInOrder, ShutInOrder, Reached, Steps
  <2>3. StoppedInOrder' /\ AppliedOnce'
    BY <1>9, ModulesLeft DEF RunHealthChecks, Step, Alive, release, process, serving
  <2>4. ShutInOrder'
    BY <1>9, NextStep DEF RunHealthChecks, Step, Alive, release, process, serving,
       ProcessTypes, StartedInOrder, ShutInOrder, Reached
  <2> QED BY <2>1, <2>2, <2>3, <2>4
<1>10. CASE Listen
  <2>1. ProcessTypes'
    BY <1>10, NextStep DEF Listen, Step, Alive, release, process, serving, ProcessTypes,
       Steps, Stages, StartedInOrder, ShutInOrder
  <2>2. StartedInOrder'
    BY <1>10, NextStep DEF Listen, Step, Alive, release, process, serving, ProcessTypes,
       StartedInOrder, ShutInOrder, Reached, Steps
  <2>3. StoppedInOrder' /\ AppliedOnce'
    BY <1>10, ModulesLeft DEF Listen, Step, Alive, release, process, serving
  <2>4. ShutInOrder'
    BY <1>10, NextStep DEF Listen, Step, Alive, release, process, serving, ProcessTypes,
       StartedInOrder, ShutInOrder, Reached
  <2> QED BY <2>1, <2>2, <2>3, <2>4
<1>11. CASE Login
  <2>1. ProcessTypes'
    BY <1>11, NextStep DEF Login, Step, Alive, release, process, serving, ProcessTypes,
       Steps, Stages, StartedInOrder, ShutInOrder
  <2>2. StartedInOrder'
    BY <1>11, NextStep DEF Login, Step, Alive, release, process, serving, ProcessTypes,
       StartedInOrder, ShutInOrder, Reached, Steps
  <2>3. StoppedInOrder' /\ AppliedOnce'
    BY <1>11, ModulesLeft DEF Login, Step, Alive, release, process, serving
  <2>4. ShutInOrder'
    BY <1>11, NextStep DEF Login, Step, Alive, release, process, serving, ProcessTypes,
       StartedInOrder, ShutInOrder, Reached
  <2> QED BY <2>1, <2>2, <2>3, <2>4
<1>12. CASE StartupFails
  <2>1. ProcessTypes'
    BY <1>12 DEF StartupFails, Alive, release, process, serving, ProcessTypes, Steps,
       Stages, StartedInOrder, ShutInOrder
  <2>2. StartedInOrder'
    BY <1>12 DEF StartupFails, Alive, release, process, serving, ProcessTypes,
       StartedInOrder, ShutInOrder, Reached
  <2>3. StoppedInOrder' /\ AppliedOnce'
    BY <1>12, ModulesLeft DEF StartupFails, Alive, release, process, serving
  <2>4. ShutInOrder'
    BY <1>12 DEF StartupFails, Alive, release, process, serving, ProcessTypes,
       StartedInOrder, ShutInOrder, Reached
  <2> QED BY <2>1, <2>2, <2>3, <2>4
<1>13. ASSUME NEW c \in Conns, Connect(c)
      PROVE  ProcessTypes' /\ StartedInOrder' /\ StoppedInOrder' /\ ShutInOrder' /\ AppliedOnce'
  <2>1. ProcessTypes'
    BY <1>13 DEF Connect, Alive, release, process, serving, ProcessTypes, Steps, Stages,
       StartedInOrder, ShutInOrder
  <2>2. StartedInOrder'
    BY <1>13 DEF Connect, Alive, release, process, serving, ProcessTypes, StartedInOrder,
       ShutInOrder, Reached
  <2>3. StoppedInOrder' /\ AppliedOnce'
    BY <1>13, ModulesLeft DEF Connect, Alive, release, process, serving
  <2>4. ShutInOrder'
    BY <1>13 DEF Connect, Alive, release, process, serving, ProcessTypes, StartedInOrder,
       ShutInOrder, Reached
  <2> QED BY <2>1, <2>2, <2>3, <2>4
<1>14. ASSUME NEW c \in Conns, Answer(c)
      PROVE  ProcessTypes' /\ StartedInOrder' /\ StoppedInOrder' /\ ShutInOrder' /\ AppliedOnce'
  <2>1. ProcessTypes'
    BY <1>14 DEF Answer, Alive, release, process, serving, ProcessTypes, Steps, Stages,
       StartedInOrder, ShutInOrder
  <2>2. StartedInOrder'
    BY <1>14 DEF Answer, Alive, release, process, serving, ProcessTypes, StartedInOrder,
       ShutInOrder, Reached
  <2>3. StoppedInOrder' /\ AppliedOnce'
    BY <1>14, ModulesLeft DEF Answer, Alive, release, process, serving
  <2>4. ShutInOrder'
    BY <1>14 DEF Answer, Alive, release, process, serving, ProcessTypes, StartedInOrder,
       ShutInOrder, Reached
  <2> QED BY <2>1, <2>2, <2>3, <2>4
<1>15. ASSUME NEW c \in Conns, Leave(c)
      PROVE  ProcessTypes' /\ StartedInOrder' /\ StoppedInOrder' /\ ShutInOrder' /\ AppliedOnce'
  <2>1. ProcessTypes'
    BY <1>15 DEF Leave, Alive, release, process, serving, ProcessTypes, Steps, Stages,
       StartedInOrder, ShutInOrder
  <2>2. StartedInOrder'
    BY <1>15 DEF Leave, Alive, release, process, serving, ProcessTypes, StartedInOrder,
       ShutInOrder, Reached
  <2>3. StoppedInOrder' /\ AppliedOnce'
    BY <1>15, ModulesLeft DEF Leave, Alive, release, process, serving
  <2>4. ShutInOrder'
    BY <1>15 DEF Leave, Alive, release, process, serving, ProcessTypes, StartedInOrder,
       ShutInOrder, Reached
  <2> QED BY <2>1, <2>2, <2>3, <2>4
<1>16. CASE SweepBegins
  <2>1. ProcessTypes'
    BY <1>16 DEF SweepBegins, Alive, release, process, serving, ProcessTypes, Steps, Stages,
       StartedInOrder, ShutInOrder
  <2>2. StartedInOrder'
    BY <1>16 DEF SweepBegins, Alive, release, process, serving, ProcessTypes,
       StartedInOrder, ShutInOrder, Reached
  <2>3. StoppedInOrder' /\ AppliedOnce'
    BY <1>16, ModulesLeft DEF SweepBegins, Alive, release, process, serving
  <2>4. ShutInOrder'
    BY <1>16 DEF SweepBegins, Alive, release, process, serving, ProcessTypes,
       StartedInOrder, ShutInOrder, Reached
  <2> QED BY <2>1, <2>2, <2>3, <2>4
<1>17. CASE SweepEnds
  <2>1. ProcessTypes'
    BY <1>17 DEF SweepEnds, Alive, release, process, serving, ProcessTypes, Steps, Stages,
       StartedInOrder, ShutInOrder
  <2>2. StartedInOrder'
    BY <1>17 DEF SweepEnds, Alive, release, process, serving, ProcessTypes, StartedInOrder,
       ShutInOrder, Reached
  <2>3. StoppedInOrder' /\ AppliedOnce'
    BY <1>17, ModulesLeft DEF SweepEnds, Alive, release, process, serving
  <2>4. ShutInOrder'
    BY <1>17 DEF SweepEnds, Alive, release, process, serving, ProcessTypes, StartedInOrder,
       ShutInOrder, Reached
  <2> QED BY <2>1, <2>2, <2>3, <2>4
<1>18. CASE Signal
  <2>1. ProcessTypes'
    BY <1>18 DEF Signal, Alive, BeginShutdown, Cut, Handled, release, process, serving,
       ProcessTypes, Steps, Stages, StartedInOrder, ShutInOrder
  <2>2. StartedInOrder'
    BY <1>18 DEF Signal, Alive, BeginShutdown, Cut, Handled, release, process, serving,
       ProcessTypes, StartedInOrder, ShutInOrder, Reached
  <2>3. StoppedInOrder' /\ AppliedOnce'
    BY <1>18, ModulesLeft DEF Signal, Alive, BeginShutdown, Cut, Handled, release, process,
       serving
  <2>4. ShutInOrder'
    BY <1>18 DEF Signal, Alive, BeginShutdown, Cut, Handled, release, process, serving,
       ProcessTypes, StartedInOrder, ShutInOrder, Reached
  <2> QED BY <2>1, <2>2, <2>3, <2>4
<1>19. CASE Crash
  <2>1. ProcessTypes'
    BY <1>19 DEF Crash, Alive, BeginShutdown, Cut, Handled, ForceExit, release, process,
       serving, ProcessTypes, Steps, Stages, StartedInOrder, ShutInOrder
  <2>2. StartedInOrder'
    BY <1>19 DEF Crash, Alive, BeginShutdown, Cut, Handled, ForceExit, release, process,
       serving, ProcessTypes, StartedInOrder, ShutInOrder, Reached
  <2>3. StoppedInOrder' /\ AppliedOnce'
    BY <1>19, ModulesLeft DEF Crash, Alive, BeginShutdown, Cut, Handled, ForceExit, release,
       process, serving
  <2>4. ShutInOrder'
    BY <1>19 DEF Crash, Alive, BeginShutdown, Cut, Handled, ForceExit, release, process,
       serving, ProcessTypes, StartedInOrder, ShutInOrder, Reached
  <2> QED BY <2>1, <2>2, <2>3, <2>4
<1>20. CASE ForceTimer
  <2>1. ProcessTypes'
    BY <1>20 DEF ForceTimer, Alive, release, process, serving, ProcessTypes, Steps, Stages,
       StartedInOrder, ShutInOrder
  <2>2. StartedInOrder'
    BY <1>20 DEF ForceTimer, Alive, release, process, serving, ProcessTypes, StartedInOrder,
       ShutInOrder, Reached
  <2>3. StoppedInOrder' /\ AppliedOnce'
    BY <1>20, ModulesLeft DEF ForceTimer, Alive, release, process, serving
  <2>4. ShutInOrder'
    BY <1>20 DEF ForceTimer, Alive, release, process, serving, ProcessTypes, StartedInOrder,
       ShutInOrder, Reached
  <2> QED BY <2>1, <2>2, <2>3, <2>4
<1>21. CASE StopPlugins
  <2>1. ProcessTypes'
    BY <1>21 DEF StopPlugins, Part, Ends, After, Alive, release, process, serving,
       ProcessTypes, Steps, Stages, StartedInOrder, ShutInOrder
  <2>2. StartedInOrder'
    BY <1>21 DEF StopPlugins, Part, Ends, After, Alive, release, process, serving,
       ProcessTypes, StartedInOrder, ShutInOrder, Reached
  <2>3. StoppedInOrder' /\ AppliedOnce'
    BY <1>21, ModulesLeft DEF StopPlugins, Part, Ends, After, Alive, release, process,
       serving
  <2>4. ShutInOrder'
    BY <1>21 DEF StopPlugins, Part, Ends, After, Alive, release, process, serving,
       ProcessTypes, StartedInOrder, ShutInOrder, Reached
  <2> QED BY <2>1, <2>2, <2>3, <2>4
<1>22. ASSUME StopModule
      PROVE  ProcessTypes' /\ StartedInOrder' /\ StoppedInOrder' /\ ShutInOrder' /\ AppliedOnce'
  <2> DEFINE r == Reverse(loaded)
             n == Len(stopped)
  <2>1. /\ shutdown = "modules" /\ n < Len(loaded) /\ ~threw /\ Alive
        /\ stopped' = Append(stopped, r[n + 1]) /\ threw' \in BOOLEAN
        /\ UNCHANGED <<release, startup, force, signals, crashes, exit, shutdown, plugins, client,
                       loaded, started, db, serving>>
    BY <1>22 DEF StopModule, Part, ToStop
  <2>2. /\ loaded \in Seq(Ids(setup.catalog)) /\ stopped \in Seq(Ids(setup.catalog))
        /\ n \in Nat /\ Len(loaded) \in Nat
    BY DEF ProcessTypes
  <2>3. r \in Seq(Ids(setup.catalog)) /\ Len(r) = Len(loaded)
    BY <2>2 DEF Reverse
  <2> HIDE DEF r
  <2>4. r[n + 1] \in Ids(setup.catalog)
    BY <2>1, <2>2, <2>3
  <2>5. stopped' \in Seq(Ids(setup.catalog)) /\ Len(stopped') = n + 1
    BY <2>1, <2>2, <2>4
  <2>6. stopped' = SubSeq(r, 1, n + 1)
    <3>1. stopped = SubSeq(r, 1, n)
      BY DEF StoppedInOrder, r
    <3>2. \A i \in 1 .. n : stopped[i] = r[i]
      BY <2>1, <2>2, <2>3, <3>1
    <3>3. SubSeq(r, 1, n + 1) \in Seq(Ids(setup.catalog)) /\ Len(SubSeq(r, 1, n + 1)) = n + 1
          /\ \A i \in 1 .. n + 1 : SubSeq(r, 1, n + 1)[i] = r[i]
      BY <2>1, <2>2, <2>3
    <3>4. \A i \in 1 .. n + 1 : stopped'[i] = r[i]
      BY <2>1, <2>2, <3>2
    <3> HIDE DEF n
    <3> QED BY <2>5, <3>3, <3>4
  <2>7. StoppedInOrder'
    BY <2>1, <2>2, <2>5, <2>6 DEF StoppedInOrder, r
  <2>8. AppliedOnce'
    BY <2>1 DEF release, AppliedOnce
  <2>9. ProcessTypes'
    BY <2>1, <2>5 DEF release, serving, ProcessTypes
  <2>10. StartedInOrder'
    BY <2>1 DEF release, serving, StartedInOrder, Reached, Alive
  <2>11. ShutInOrder'
    BY <2>1 DEF serving, ShutInOrder
  <2> QED BY <2>7, <2>8, <2>9, <2>10, <2>11
<1>23. CASE ModulesStopped
  <2>1. ProcessTypes'
    BY <1>23 DEF ModulesStopped, Part, Ends, After, Alive, LoopOver, ToStop, release,
       process, serving, ProcessTypes, Steps, Stages, StartedInOrder, ShutInOrder
  <2>2. StartedInOrder'
    BY <1>23 DEF ModulesStopped, Part, Ends, After, Alive, LoopOver, ToStop, release,
       process, serving, ProcessTypes, StartedInOrder, ShutInOrder, Reached
  <2>3. StoppedInOrder' /\ AppliedOnce'
    BY <1>23, ModulesLeft DEF ModulesStopped, Part, Ends, After, Alive, LoopOver, ToStop,
       release, process, serving
  <2>4. ShutInOrder'
    BY <1>23 DEF ModulesStopped, Part, Ends, After, Alive, LoopOver, ToStop, release,
       process, serving, ProcessTypes, StartedInOrder, ShutInOrder, Reached
  <2> QED BY <2>1, <2>2, <2>3, <2>4
<1>24. CASE CloseServer
  <2>1. ProcessTypes'
    BY <1>24 DEF CloseServer, Part, Ends, After, Alive, release, process, serving,
       ProcessTypes, Steps, Stages, StartedInOrder, ShutInOrder
  <2>2. StartedInOrder'
    BY <1>24 DEF CloseServer, Part, Ends, After, Alive, release, process, serving,
       ProcessTypes, StartedInOrder, ShutInOrder, Reached
  <2>3. StoppedInOrder' /\ AppliedOnce'
    BY <1>24, ModulesLeft DEF CloseServer, Part, Ends, After, Alive, release, process,
       serving
  <2>4. ShutInOrder'
    BY <1>24 DEF CloseServer, Part, Ends, After, Alive, release, process, serving,
       ProcessTypes, StartedInOrder, ShutInOrder, Reached
  <2> QED BY <2>1, <2>2, <2>3, <2>4
<1>25. CASE ServerClosed
  <2>1. ProcessTypes'
    BY <1>25 DEF ServerClosed, Part, Ends, After, Alive, release, process, serving,
       ProcessTypes, Steps, Stages, StartedInOrder, ShutInOrder
  <2>2. StartedInOrder'
    BY <1>25 DEF ServerClosed, Part, Ends, After, Alive, release, process, serving,
       ProcessTypes, StartedInOrder, ShutInOrder, Reached
  <2>3. StoppedInOrder' /\ AppliedOnce'
    BY <1>25, ModulesLeft DEF ServerClosed, Part, Ends, After, Alive, release, process,
       serving
  <2>4. ShutInOrder'
    BY <1>25 DEF ServerClosed, Part, Ends, After, Alive, release, process, serving,
       ProcessTypes, StartedInOrder, ShutInOrder, Reached
  <2> QED BY <2>1, <2>2, <2>3, <2>4
<1>26. CASE Disconnect
  <2>1. ProcessTypes'
    BY <1>26 DEF Disconnect, Part, Ends, After, Alive, release, process, serving,
       ProcessTypes, Steps, Stages, StartedInOrder, ShutInOrder
  <2>2. StartedInOrder'
    BY <1>26 DEF Disconnect, Part, Ends, After, Alive, release, process, serving,
       ProcessTypes, StartedInOrder, ShutInOrder, Reached
  <2>3. StoppedInOrder' /\ AppliedOnce'
    BY <1>26, ModulesLeft DEF Disconnect, Part, Ends, After, Alive, release, process,
       serving
  <2>4. ShutInOrder'
    BY <1>26 DEF Disconnect, Part, Ends, After, Alive, release, process, serving,
       ProcessTypes, StartedInOrder, ShutInOrder, Reached
  <2> QED BY <2>1, <2>2, <2>3, <2>4
<1>27. ASSUME Restart
      PROVE  ProcessTypes' /\ StartedInOrder' /\ StoppedInOrder' /\ ShutInOrder' /\ AppliedOnce'
  <2>0. /\ order' = <<>> /\ loaded' = <<>> /\ stopped' = <<>> /\ started' = {}
        /\ setup' \in Setups /\ startup' = "database" /\ shutdown' = "no" /\ exit' = "no"
        /\ plugins' = "none" /\ client' = "none" /\ db' = "off" /\ api' = "off" /\ sweep' = "off"
        /\ threw' = FALSE /\ conns' = [c \in Conns |-> "none"]
    BY <1>27 DEF Restart
  <2>a. /\ order' \in Seq(Ids(setup'.catalog)) /\ loaded' \in Seq(Ids(setup'.catalog))
        /\ stopped' \in Seq(Ids(setup'.catalog)) /\ started' \subseteq ToSet(loaded')
    BY <2>0
  <2>b. conns' \in [Conns -> {"none", "request", "stream"}]
    BY <2>0
  <2>1. ProcessTypes'
    BY <2>0, <2>a, <2>b DEF ProcessTypes, Steps, Stages
  <2>2. StartedInOrder'
    BY <1>27 DEF Restart, StartedInOrder, Reached, Alive
  <2>3. StoppedInOrder'
    BY <1>27 DEF Restart, StoppedInOrder, Reverse
  <2>4. ShutInOrder' /\ AppliedOnce'
    BY <1>27 DEF Restart, ShutInOrder, AppliedOnce
  <2> QED BY <2>1, <2>2, <2>3, <2>4
<1>28. CASE UNCHANGED processVars
  <2>1. ProcessTypes'
    BY <1>28 DEF processVars, ProcessTypes
  <2>2. StartedInOrder'
    BY <1>28 DEF processVars, StartedInOrder, Reached, Alive
  <2>3. StoppedInOrder' /\ AppliedOnce'
    BY <1>28, ModulesLeft DEF processVars
  <2>4. ShutInOrder'
    BY <1>28 DEF processVars, ShutInOrder
  <2> QED BY <2>1, <2>2, <2>3, <2>4
<1> QED BY <1>1, <1>2, <1>3, <1>4, <1>5, <1>6, <1>7, <1>8, <1>9, <1>10, <1>11, <1>12,
       <1>13, <1>14, <1>15, <1>16, <1>17, <1>18, <1>19, <1>20, <1>21, <1>22, <1>23, <1>24,
       <1>25, <1>26, <1>27, <1>28 DEF ProcessNext

\* The startup and the shutdown go through their steps in order, whatever is asked of the
\* server, and whenever a signal, a crash or a failure comes in between.
THEOREM ProcessInvariant == ProcessSpec => []ProcessInv
<1>1. ProcessInit => ProcessInv
  BY ProcessInitially
<1>2. ProcessInv /\ [ProcessNext]_processVars => ProcessInv'
  BY ProcessStep
<1> QED BY <1>1, <1>2, PTL DEF ProcessSpec

\* A request is only handled while the pool is open and the modules of the release, those
\* that are not disabled and no other, have started (bootstrap.ts: the server listens last).
THEOREM RequestsServedByWhole == ProcessSpec => []ServedByWhole
<1>1. ProcessInv => ServedByWhole
  <2> SUFFICES ASSUME ProcessInv, Alive, NEW c \in Conns, conns[c] = "request"
               PROVE  db = "on" /\ started = ToSet(loaded) /\ started = Ids(setup.catalog) \ setup.disabled
    BY DEF ServedByWhole
  <2>1. api # "off" /\ shutdown \notin {"database", "done"}
    BY DEF ProcessInv, StartedInOrder, ShutInOrder
  <2>2. startup \in {"login", "up"}
    BY <2>1 DEF ProcessInv, StartedInOrder, Reached
  <2> QED BY <2>2 DEF ProcessInv, StartedInOrder, Reached, Steps
<1> QED BY <1>1, ProcessInvariant, PTL

\* A shutdown that runs to its end leaves nothing open and stops the modules in the reverse
\* of the order they were loaded in (bootstrap.ts: shutdown, ModuleLoader.shutdownAll).
THEOREM ShutdownIsOrderly == ProcessSpec => []OrderlyExit
<1>1. ProcessInv => OrderlyExit
  <2> SUFFICES ASSUME ProcessInv PROVE OrderlyExit
    OBVIOUS
  <2>1. /\ loaded \in Seq(Ids(setup.catalog)) /\ stopped \in Seq(Ids(setup.catalog))
        /\ Len(stopped) <= Len(loaded) /\ stopped = SubSeq(Reverse(loaded), 1, Len(stopped))
    BY DEF ProcessInv, ProcessTypes, StoppedInOrder
  <2>2. /\ Reverse(loaded) \in Seq(Ids(setup.catalog)) /\ Len(Reverse(loaded)) = Len(loaded)
    BY <2>1 DEF Reverse
  <2>3. IsPrefix(stopped, Reverse(loaded))
    BY <2>1, <2>2 DEF IsPrefix
  <2>4. Len(stopped) = Len(loaded) => stopped = Reverse(loaded)
    BY <2>1, <2>2
  <2>5. exit = "done" => shutdown = "done"
    BY DEF ProcessInv, ProcessTypes
  <2>6. exit = "done" =>
          /\ threw \/ Len(stopped) = Len(loaded)
          /\ db = "ended" /\ api = "closed" /\ sweep = "off" /\ client = "destroyed"
          /\ plugins # "started" /\ \A c \in Conns : conns[c] = "none"
    BY <2>5 DEF ProcessInv, ShutInOrder
  <2> QED BY <2>3, <2>4, <2>6 DEF OrderlyExit
<1> QED BY <1>1, ProcessInvariant, PTL

\* Whichever releases have run before, and wherever they were interrupted, plugins run on
\* the schema their release asks for, and no version was applied twice
\* (PluginMigrationRunner.run).
THEOREM SchemaHolds == ProcessSpec => []MigrationsHold
<1>1. ProcessInv => MigrationsHold
  <2> SUFFICES ASSUME ProcessInv PROVE MigrationsHold
    OBVIOUS
  <2>1. plugins = "started" => ToSet(Migrations(setup.catalog)) \subseteq ledger
    BY DEF ProcessInv, ProcessTypes, StartedInOrder, Reached
  <2>2. \A m \in ledger : Cardinality({m}) = 1
    BY FS_Singleton
  <2>3. \A m \in ledger : Cardinality(Recorded(ledger, m)) = 1
    BY <2>2 DEF ProcessInv, AppliedOnce
  <2> QED BY <2>1, <2>3 DEF MigrationsHold
<1> QED BY <1>1, ProcessInvariant, PTL

-----------------------------------------------------------------------------
(* The order the modules start in *)

\* What the startup has made of the catalog by the step it is at; the modules start one after
\* the other.
JudgedInOrder ==
  /\ refused = "catalog" => ~Accepted(setup.catalog)
  /\ plugins # "none" => Accepted(setup.catalog)
  /\ setup.plugins /\ Reached("load") =>
       Accepted(setup.catalog) /\ order = LoadOrder(setup.catalog)
  /\ Reached("start") => loaded = Enabled
  /\ \E k \in 0 .. Len(loaded) : started = {loaded[i] : i \in 1 .. k}

LEMMA JudgedInitially == ProcessInit => JudgedInOrder
<1> SUFFICES ASSUME ProcessInit PROVE JudgedInOrder
  OBVIOUS
<1>1. 0 \in 0 .. Len(loaded) /\ started = {loaded[i] : i \in 1 .. 0}
  BY DEF ProcessInit
<1> QED BY <1>1 DEF ProcessInit, JudgedInOrder, Reached

\* A step that changes neither the order nor the modules, nor gets the startup to either.
LEMMA OrderLeft ==
  ASSUME JudgedInOrder, UNCHANGED <<setup, order, loaded, started>>,
         plugins' # "none" => plugins # "none",
         refused' = "catalog" => refused = "catalog" \/ ~Accepted(setup.catalog),
         Reached("load")' => Reached("load"), Reached("start")' => Reached("start")
  PROVE  JudgedInOrder'
BY DEF JudgedInOrder, Enabled

LEMMA JudgedStep == ProcessInv /\ JudgedInOrder /\ [ProcessNext]_processVars => JudgedInOrder'
<1> SUFFICES ASSUME ProcessInv, JudgedInOrder, [ProcessNext]_processVars PROVE JudgedInOrder'
  OBVIOUS
<1>0. setup \in Setups /\ loaded \in Seq(Ids(setup.catalog)) /\ Len(loaded) \in Nat
  BY DEF ProcessInv, ProcessTypes
<1>1. CASE ConnectDatabase
  BY <1>1, OrderLeft, NextStep DEF ConnectDatabase, Step, release, Reached
<1>2. CASE CreateClient
  BY <1>2, OrderLeft, NextStep DEF CreateClient, Step, release, Reached
<1>3. ASSUME NEW m \in ToSet(Migrations(setup.catalog)), Migrate(m) PROVE JudgedInOrder'
  BY <1>3, OrderLeft DEF Migrate, Refuse, process, Reached
<1>4. CASE Migrated
  BY <1>4, OrderLeft, NextStep DEF Migrated, Refuse, Step, release, Reached
<1>5. CASE StartPlugins
  <2>1. CASE setup.plugins /\ ~Accepted(setup.catalog)
    BY <1>5, <2>1, OrderLeft DEF StartPlugins, Refuse, Reached
  <2>2. CASE ~(setup.plugins /\ ~Accepted(setup.catalog))
    <3>1. /\ startup' = "load"
          /\ plugins' = (IF setup.plugins THEN "started" ELSE "none")
          /\ setup.plugins => order' = LoadOrder(setup.catalog)
          /\ UNCHANGED <<setup, refused, loaded, started>>
      BY <1>5, <2>2, NextStep DEF StartPlugins, Step
    <3> QED BY <2>2, <3>1 DEF JudgedInOrder, Reached
  <2> QED BY <2>1, <2>2
<1>6. CASE LoadModules
  <2>1. CASE ~(Registrable(setup.catalog) /\ ~CommandsClash(Commands(setup.catalog, Enabled)))
    BY <1>6, <2>1, OrderLeft DEF LoadModules, Refuse, Reached
  <2>2. CASE Registrable(setup.catalog) /\ ~CommandsClash(Commands(setup.catalog, Enabled))
    <3>1. /\ startup = "load" /\ startup' = "start" /\ loaded' = Enabled
          /\ UNCHANGED <<setup, order, refused, plugins, started>>
      BY <1>6, <2>2, NextStep DEF LoadModules, Step, release
    <3>2. started = {}
      BY <3>1 DEF ProcessInv, StartedInOrder, Reached
    <3>3. Enabled' = Enabled
      BY <3>1 DEF Enabled
    <3>4. Len(loaded') \in Nat
      BY <3>1, WithoutFacts DEF Enabled, ProcessInv, ProcessTypes
    <3>5. 0 \in 0 .. Len(loaded') /\ started' = {loaded'[i] : i \in 1 .. 0}
      BY <3>1, <3>2, <3>4
    <3> QED BY <3>1, <3>3, <3>5 DEF JudgedInOrder, Reached
  <2> QED BY <2>1, <2>2
<1>7. CASE StartModule
  <2> DEFINE next == CHOOSE i \in DOMAIN loaded :
                       loaded[i] \notin started /\ \A j \in 1 .. i - 1 : loaded[j] \in started
  <2>1. /\ started # ToSet(loaded) /\ started' = started \cup {loaded[next]}
        /\ UNCHANGED <<setup, order, refused, startup, plugins, loaded>>
    BY <1>7 DEF StartModule, release
  <2>2. DOMAIN loaded = 1 .. Len(loaded)
    BY <1>0
  <2>3. PICK k \in 0 .. Len(loaded) : started = {loaded[i] : i \in 1 .. k}
    BY DEF JudgedInOrder
  <2>4. next \in DOMAIN loaded /\ loaded[next] \notin started
        /\ \A j \in 1 .. next - 1 : loaded[j] \in started
    <3> DEFINE left == {i \in DOMAIN loaded : loaded[i] \notin started}
    <3>1. left # {} /\ left \in SUBSET Nat
      BY <1>0, <2>1, <2>2 DEF ProcessInv, ProcessTypes, ToSet
    <3>2. PICK i \in left : \A j \in left : i <= j
      <4> HIDE DEF left
      <4> QED BY <3>1, LeastNatural
    <3>3. \A j \in 1 .. i - 1 : loaded[j] \in started
      <4> SUFFICES ASSUME NEW j \in 1 .. i - 1 PROVE loaded[j] \in started
        OBVIOUS
      <4>1. i \in 1 .. Len(loaded) /\ j \in DOMAIN loaded /\ ~(i <= j)
        BY <1>0, <2>2
      <4> QED BY <3>2, <4>1
    <3> QED BY <3>2, <3>3
  <2> HIDE DEF next
  <2>5. next \in 1 .. Len(loaded) /\ k < next
    BY <1>0, <2>2, <2>3, <2>4
  <2>6. started' = {loaded[i] : i \in 1 .. next}
    <3>1. \A i \in 1 .. next : i = next \/ i \in 1 .. next - 1
      BY <1>0, <2>5
    <3>2. \A i \in 1 .. k : i \in 1 .. next
      BY <1>0, <2>5
    <3>3. next \in 1 .. next
      BY <1>0, <2>5
    <3> QED BY <2>1, <2>3, <2>4, <3>1, <3>2, <3>3
  <2>7. next \in 0 .. Len(loaded') /\ started' = {loaded'[i] : i \in 1 .. next}
    BY <1>0, <2>1, <2>5, <2>6
  <2>8. Enabled' = Enabled
    BY <2>1 DEF Enabled
  <2> QED BY <2>1, <2>7, <2>8 DEF JudgedInOrder, Reached
<1>8. CASE ModulesStarted
  BY <1>8, OrderLeft, NextStep DEF ModulesStarted, Refuse, Step, release, Reached
<1>9. CASE RunHealthChecks
  BY <1>9, OrderLeft, NextStep DEF RunHealthChecks, Step, release, Reached
<1>10. CASE Listen
  BY <1>10, OrderLeft, NextStep DEF Listen, Step, release, Reached
<1>11. CASE Login
  BY <1>11, OrderLeft, NextStep DEF Login, Step, release, Reached
<1>12. CASE StartupFails
  BY <1>12, OrderLeft DEF StartupFails, release, Reached
<1>13. ASSUME NEW c \in Conns, Connect(c) \/ Answer(c) \/ Leave(c) PROVE JudgedInOrder'
  BY <1>13, OrderLeft DEF Connect, Answer, Leave, release, Reached
<1>14. CASE SweepBegins \/ SweepEnds
  BY <1>14, OrderLeft DEF SweepBegins, SweepEnds, release, Reached
<1>15. CASE Signal \/ Crash
  BY <1>15, OrderLeft DEF Signal, Crash, BeginShutdown, Cut, release, Reached
<1>16. CASE ForceTimer
  BY <1>16, OrderLeft DEF ForceTimer, release, Reached
<1>17. CASE StopPlugins
  BY <1>17, OrderLeft DEF StopPlugins, Part, release, Reached
<1>18. CASE StopModule \/ ModulesStopped
  BY <1>18, OrderLeft DEF StopModule, ModulesStopped, Part, release, Reached
<1>19. CASE CloseServer \/ ServerClosed \/ Disconnect
  BY <1>19, OrderLeft DEF CloseServer, ServerClosed, Disconnect, Part, release, Reached
<1>20. CASE Restart
  <2>1. /\ refused' = "no" /\ plugins' = "none" /\ startup' = "database"
        /\ loaded' = <<>> /\ started' = {}
    BY <1>20 DEF Restart
  <2>2. 0 \in 0 .. Len(loaded') /\ started' = {loaded'[i] : i \in 1 .. 0}
    BY <2>1
  <2> QED BY <2>1, <2>2 DEF JudgedInOrder, Reached
<1>21. CASE UNCHANGED processVars
  BY <1>21, OrderLeft DEF processVars, Reached
<1> QED BY <1>1, <1>2, <1>3, <1>4, <1>5, <1>6, <1>7, <1>8, <1>9, <1>10, <1>11, <1>12,
       <1>13, <1>14, <1>15, <1>16, <1>17, <1>18, <1>19, <1>20, <1>21 DEF ProcessNext

\* Leaving out the disabled modules keeps the others behind what they need.
LEMMA EnabledOrdered ==
  ASSUME NEW catalog, NEW seq \in Seq(Ids(catalog)), Ordered(catalog, seq), NEW disabled,
         NEW k \in 0 .. Len(Without(seq, disabled)),
         NEW id \in {Without(seq, disabled)[i] : i \in 1 .. k}
  PROVE  Needs(catalog, id) \ disabled \subseteq {Without(seq, disabled)[i] : i \in 1 .. k}
<1> DEFINE kept == {i \in DOMAIN seq : seq[i] \notin disabled}
           n == Cardinality(kept)
<1>1. kept \in SUBSET DOMAIN seq /\ Without(seq, disabled) = Chosen(seq, kept)
  BY DEF Without
<1>2. DOMAIN seq = 1 .. Len(seq) /\ Len(seq) \in Nat /\ \A i \in kept : i \in 1 .. Len(seq)
  OBVIOUS
<1>k. \A i \in 1 .. Len(seq) : seq[i] \notin disabled => i \in kept
  BY <1>2
<1> HIDE DEF kept
<1>3. /\ n \in Nat
      /\ \E at \in [1 .. n -> kept] :
           /\ Chosen(seq, kept) = [i \in 1 .. n |-> seq[at[i]]]
           /\ \A i, j \in 1 .. n : i < j => at[i] < at[j]
           /\ \A i \in kept : \E j \in 1 .. n : at[j] = i
  BY <1>1, ChosenFacts
<1> HIDE DEF n
<1>4. PICK at \in [1 .. n -> kept] :
        /\ Chosen(seq, kept) = [i \in 1 .. n |-> seq[at[i]]]
        /\ \A i, j \in 1 .. n : i < j => at[i] < at[j]
        /\ \A i \in kept : \E j \in 1 .. n : at[j] = i
  BY <1>3
<1> DEFINE en == Without(seq, disabled)
<1>5. Len(en) = n /\ \A i \in 1 .. n : en[i] = seq[at[i]]
  BY <1>1, <1>3, <1>4
<1> HIDE DEF en
<1>6. k \in 0 .. n /\ id \in {en[i] : i \in 1 .. k}
  BY <1>5 DEF en
<1>7. PICK i \in 1 .. k : id = en[i]
  BY <1>6
<1>8. i \in 1 .. n /\ id = seq[at[i]] /\ at[i] \in 1 .. Len(seq)
  BY <1>2, <1>3, <1>4, <1>5, <1>6, <1>7
<1>9. ASSUME NEW x \in Needs(catalog, id) \ disabled PROVE x \in {en[j] : j \in 1 .. k}
  <2>0. Needs(catalog, seq[at[i]]) \subseteq {seq[l] : l \in 1 .. at[i] - 1}
    BY <1>8 DEF Ordered
  <2>1. PICK l \in 1 .. at[i] - 1 : x = seq[l]
    BY <1>8, <1>9, <2>0
  <2>2. l \in 1 .. Len(seq) /\ l < at[i] /\ l \in kept
    BY <1>2, <1>8, <1>9, <1>k, <2>1
  <2>3. PICK j \in 1 .. n : at[j] = l
    BY <1>4, <2>2
  <2>4. ~(i < j) /\ i # j
    BY <1>2, <1>4, <1>8, <2>2, <2>3
  <2>5. j \in 1 .. k
    <3>1. n \in Nat /\ k \in 0 .. n /\ i \in 1 .. k /\ j \in 1 .. n
      BY <1>3, <1>6
    <3> QED BY <2>4, <3>1
  <2>6. en[j] = x
    BY <1>5, <2>1, <2>3
  <2> QED BY <2>5, <2>6
<1> QED BY <1>9 DEF en

\* Whatever the catalog, the startup refuses it exactly when it is not sound, no module starts
\* before one that it needs, and the search of the manifests agrees with the definition of a
\* cycle (loader.ts, module-loader.ts, dependency-resolver.ts, dependency-graph.ts).
THEOREM CatalogIsJudged == ProcessSpec => []CatalogJudged
<1>1. ProcessInv /\ JudgedInOrder => CatalogJudged
  <2> SUFFICES ASSUME ProcessInv, JudgedInOrder PROVE CatalogJudged
    OBVIOUS
  <2>0. setup \in Setups /\ Readable(setup.catalog)
    BY BootstrapAssumption DEF ProcessInv, ProcessTypes
  <2>1. Accepted(setup.catalog) <=> Sound(setup.catalog)
    BY <2>0, AcceptedIsSound
  <2>2. DetectCycle(setup.catalog) = Circular(setup.catalog)
    BY <2>0, DetectsCircles
  <2>3. ASSUME setup.plugins, NEW id \in started
        PROVE  Needs(setup.catalog, id) \ setup.disabled \subseteq started
    <3>1. Reached("start")
      BY <2>3 DEF ProcessInv, StartedInOrder
    <3>2. Reached("load")
      BY <3>1 DEF Reached
    <3>3. Accepted(setup.catalog) /\ order = LoadOrder(setup.catalog) /\ loaded = Enabled
      BY <2>3, <3>1, <3>2 DEF JudgedInOrder
    <3>4. order \in Seq(Ids(setup.catalog)) /\ Ordered(setup.catalog, order)
      BY <2>0, <3>3, ResolveIsOrder DEF Accepted
    <3>5. PICK k \in 0 .. Len(loaded) : started = {loaded[i] : i \in 1 .. k}
      BY DEF JudgedInOrder
    <3> QED BY <2>3, <3>3, <3>4, <3>5, EnabledOrdered DEF Enabled
  <2> QED BY <2>1, <2>2, <2>3 DEF CatalogJudged, JudgedInOrder
<1>2. ProcessSpec => []JudgedInOrder
  BY JudgedInitially, JudgedStep, ProcessInvariant, PTL DEF ProcessSpec
<1> QED BY <1>1, <1>2, ProcessInvariant, PTL
=============================================================================
