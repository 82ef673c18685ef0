# Hoakbot in TLA+

A verification project for Hoakbot, a Discord bot with plugins, a per-guild
configuration store, an HTTP API and a dashboard. It holds TLA+ modules of the
parts where order, failure and concurrency decide, TLC configurations that
check them on small instances, and TLAPS proofs for every instance.

Paths below are those of the repository. `config/` stands for
`src/core/config/`, `plugin-core/` for `src/plugin-core/`.

## 1. The system

One Node.js process. There are no threads: two activities interleave where one
of them awaits (the database, Discord, a plugin's hook, a timer), and database
transactions of different requests overlap on a pool of five connections.
`src/bootstrap.ts` builds the object graph, loads plugins and legacy modules,
starts the API server and installs the signal handlers. The dashboard is a
React application in the browser that talks to that API.

| Component | State | Operations | Interacts with |
|---|---|---|---|
| Bootstrap and shutdown, `src/bootstrap.ts`; legacy loader, `src/modules/module-loader.ts` | how far startup and shutdown are; loaded and started modules; open connections | startup steps, signal, crash, force exit, shutdown steps | everything |
| Plugin catalog, `plugin-core/catalog-validator.ts`, `dependency-resolver.ts`, `src/modules/dependency-graph.ts` | none | validate, resolve, detect cycles | loader |
| Migrations, `plugin-core/migrations.ts` | ledger table | run | loader, database |
| Plugin core, `plugin-core/loader.ts`, `lifecycle.ts`, `registry.ts`, `context.ts` | staged and published registry, started plugins, stop functions of their events, owners' disposers | load, start, stop, cleanup, restore | plugin factories and hooks (with timeout and abort signal), event registry |
| Hot-reload coordinator, `config/hot-reload.coordinator.ts` | per scope (owner, guild): pending batch, promise chain, versions, changes kept for reconciliation, diagnostic | register, enqueue, flush, reconcile, health | called after a commit by the configuration service; calls the plugins' handlers |
| Configuration service, `config/configuration.service.ts`, `database-config.provider.ts`, `guild-settings.repository.ts` | in-process cache without expiry; `AppConfig` of the process; tables `guild_settings`, `guild_config_versions`, `config_audit_log` | get, getMany, set, setMany, delete | requests of the API; row locks in PostgreSQL; emits `configuration.changed`, enqueues to the coordinator |
| Settings registry and rules, `src/core/settings/`, `config/schema.ts`, `src/modules/*/settings.ts` | registered definitions with their use counts | register, unregister, validate | startup, plugins, endpoints, the dashboard's form |
| Settings endpoints, `src/core/api/module-config.endpoints.ts` | none; the version a dashboard was shown travels with the request | GET, PATCH settings; PATCH module state | configuration service, module states |
| Module states, `config/guild-module-state.repository.ts` | rows of `guild_settings` | getMany, setMany with expected states | endpoint, dashboard state stream |
| API pipeline, `src/core/api/` | rate-limit buckets, audit trail, open event streams | route, validate, audit, rate limit, session, authorize, CSRF, handle; open a stream | all endpoints |
| Sessions, OAuth, authorization, `src/core/auth/`, `src/core/api/auth.endpoints.ts` | session rows with a CSRF token and guilds in their metadata, OAuth states in memory | login, callback, me, csrf, logout, clean up | database, Discord OAuth, the browser's cookie |
| Log ring and viewer, `src/core/logs/logs.service.ts`, `src/dashboard/src/logs/LogsPage.tsx` | ring of 2000 entries, streams; list, buffer, cursor and generation of the page | write, query, subscribe; load, live, pause, filter | API streams |
| Dashboard, `src/dashboard/src/App.tsx`, `SharedModulePage.tsx` | shown settings, version, form, selected guild | load, edit, save, switch, retry, sign out | API, module-state stream |
| Voice, `src/modules/voice/` | cycle state, connection, join, cooldown and reconnect timers | handleReady, handleMemberJoined, move, play, return, reconnect | Discord voice gateway |
| Shrine, `src/modules/shrine/` | current rotation, announced week, poll timer | start, stop, poll, announce | HTTP API of the shrine, Discord |
| Moderation, `src/modules/moderation/`, with the router and permissions, `src/adapters/`, `src/core/permissions/` | warnings in the database | one guard-act-reply sequence per command | Discord, event bus |
| Logging, `src/modules/logging/` | handlers under way, archived files | one post per event, audit log lookup | event bus, Discord |
| Events, `src/core/event-bus/` | subscriptions; event definitions, aliases, owner states | emit, subscribe, once; install, activate, dispatch, stop | everything |
| Assets, `plugin-core/assets/resolver.ts`; welcome, goodbye, general modules; cache, container, health, metrics, logger | caches and counters | synchronous, or one message per event | |

What is hard about them, and what makes each correct:

* **Startup and shutdown.** A step fails, a signal comes before or while the
  handlers exist, a client stays in its stream. Nothing is served by half a
  process, what an orderly exit leaves is nothing, and there is an exit.
* **Hot reload.** Flushes, retries after a timeout and operators' reconcile
  calls meet on one promise chain per scope. A committed change must be kept
  until it was applied, must not be applied after a newer one, and its delivery
  must come to an end.
* **Configuration.** A cache filled after an await, transactions that overlap
  on row locks, replies lost after a commit, restarts. Writes must be atomic and
  versioned, the audit log truthful, a stale save refused, and what is cached
  and announced must be what is stored.
* **Plugin lifecycle.** One plugin of several fails, hangs or is aborted, and a
  signal comes at any time after that. Everything taken must be given back, in
  reverse order and once; no event may reach a plugin that is not started.
* **Module states.** Optimistic checks against rows that may not exist yet, and
  so cannot be locked. No module may run on a disabled dependency.
* **Requests and sessions.** The pipeline's awaits let requests pass each
  other; session metadata is read and written back over them; a callback is
  loaded twice. Limits must be exact, refusals recorded, a login must make one
  session, a dead session must admit nothing.
* **Pages.** Answers arrive late, for another guild, while the stream goes on.
  A page shows nothing foreign and overwrites nothing unseen.
* **Voice.** Timers, repeated gateway events and attempts to connect that throw
  cut into one cycle. One cycle at a time, back to standby, listening again;
  section 6 says where the code falls short of it.
* **Shrine.** Polls that fail, announcements that fail. Every week is announced
  once, and retried until it is.
* **Moderation and its log.** A command and its log entry are several awaits
  apart, in two modules. The log must tell what was done, by whom, and all of it.

`PROJECT.json` lists every component with its status, and the hazards with the
lines where they bite and the properties that would notice.

## 2. Modules

```
VersionedStore  <-- refined by -- ConfigService <-- SequentialRequests <-- MCConfigService, ConfigServiceProofs
ModuleSwitches  <-- refined by -- ModuleStates <-- MCModuleStates, ModuleStatesProofs
HotReload       <-- MCHotReload, HotReloadProofs
PluginLifecycle <-- MCPluginLifecycle, PluginLifecycleProofs
Sessions        <-- MCSessions, SessionsProofs
Subsequences    <-- PluginCatalog, SettingRules, LogStream, DataLemmas
PluginCatalog   <-- Bootstrap <-- MCBootstrap, ServerProofs
ApiPipeline     <-- MCApiPipeline, ServerProofs
SettingRules    <-- Dashboard <-- MCDashboard, ServerProofs
LogStream       <-- MCLogStream, FeatureProofs
VoiceCycle      <-- MCVoiceCycle, FeatureProofs
ShrinePolling   <-- MCShrinePolling, FeatureProofs
GuildLog        <-- Moderation <-- MCModeration, FeatureProofs
DataLemmas      <-- HotReloadProofs, ModuleStatesProofs, PluginLifecycleProofs, FeatureProofs, ServerProofs
```

`Moderation` composes the commands with the log they report to, `Bootstrap` the
life of the process with the catalog it starts from, `Dashboard` a page with the
server it talks to and the rules of the settings it shows. Components that share a module of proofs have specifications
with names of their own (`VoiceSpec`, `ShrineSpec`, `ModerationSpec`,
`ViewerSpec`, `PipelineSpec`, `DashboardSpec`, `ProcessSpec`); the others are
called `Spec`. `Subsequences` defines the part of a sequence at given positions
(what `filter` returns) without recursion, so that it can be reasoned about.
Operators whose comment begins with "Mutant" are not part of
a specification: they are plausible mistakes in the definition that follows
them, kept to show that a property notices them.

### HotReload

A change is identified with the version the coordinator gives it at `enqueue`;
what the value is makes no difference. `pending`, `chain`, `version`, `applied`,
`committed` and `status` are the maps of the class; `phase` and `attempt` are
the local state of the `deliver` call that runs the head of a scope's chain.

| Action | Code (`hot-reload.coordinator.ts`) |
|---|---|
| `Enqueue` | `enqueue`, 67-82 |
| `TimerFlush` | the batch window's timer and `flush`, 81-89 |
| `ReconcileStart`, `ReconcileNext`, `ReconcileFinish` | `reconcile` up to, between and after its awaits, 102-109 |
| `DeliverStart`, `DeliverNoHandler`, `DeliverEmpty` | `deliver` up to its first await, 117-129 |
| `HandlerSucceeds`, `HandlerRejects`, `HandlerTimesOut`, `RetryAfterDelay` | one attempt and what follows it, 125-147 |
| `LateHandlerCompletes` | external: a handler that goes on after its timeout |

The history variables `latest` (the newest change of a key) and `delivered` (the
newest one a handler took) and the external `runtime` (what the plugin works with)
exist for the properties.

### ConfigService and VersionedStore

A value is identified with the configuration version that wrote it. Each client
is an API caller with one request at a time; `op[c].phase` says at which await
the request is, and every phase change is an action, so requests interleave
exactly where the code awaits.

| Action | Code |
|---|---|
| `GetSettings`, `Query`, `Fill`, `ReadVersion` | GET settings: `getMany` up to its query, the database's answer at its snapshot, filling the cache when the answer is handled (`configuration.service.ts` 41-65), then the version in a query of its own (`module-config.endpoints.ts` 110-130) |
| `InvalidStored` | a stored row that no longer fits its schema: what was loaded before it is cached and the read fails, 55-62 |
| `PatchSettings`, `DeleteSetting` | PATCH, whose schema refuses `expectedVersion` 0; `ConfigurationService.delete`, which no endpoint calls |
| `LockVersion`, `Conflict`, `NothingToDelete`, `Commit` | the transaction (`guild-settings.repository.ts` 54-147): lock, check, old values; write, audit, new version |
| `AfterWrite` | cache, `AppConfig`, event and hot-reload queue after the commit's reply (`configuration.service.ts` 171-241) |
| `DatabaseError`, `ReplyLost`, `Restart` | a failed statement; a connection that breaks after the commit; the process |

`VersionedStore` is what the store promises: each write one atomic step, with
the next version and an audit row with the value really replaced. `StoreSpec`
is that specification under the mapping `store <- db, version <- dbVersion,
log <- audit`.

`SequentialRequests` adds one history variable, `alone`: the guilds whose
requests have come one at a time, with no reply of the database lost, since the
process started. It is what `SettledWhenAlone` needs to be said of behaviours in
which other guilds, or this one later, have many requests at once.

### ModuleStates and ModuleSwitches

One guild, fresh at the start: no module has a row. Modules are numbered in the
order of their manifests. `rows` is the table, where a module without a row
counts as enabled; `op[c]` is the request of dashboard `c`: what its handler
read, what it is going to change, the rows its statement saw (`seen`), and those
it has locked or written. The history variable `raced` tells that a transaction
was committed that took a module for enabled, for want of a row, which another
one had just disabled.

| Action | Code |
|---|---|
| `Enable`, `Disable` | the handler up to its transaction (`module-config.endpoints.ts` 193-214); a request refused there changes nothing and is no step |
| `Select`, `LockRow` | `SELECT ... FOR UPDATE`: its snapshot, then one lock after the other (`guild-module-state.repository.ts` 35-39). SQL promises no order, so the model takes any |
| `Compare`, `RefuseChanged` | the comparison with what was read, 40-41 |
| `Upsert`, `Commit` | 42-51, in the order of the map the handler built |
| `QueryFails`, `DeadlockVictim` | a rollback; external: PostgreSQL aborts one of the transactions that wait for each other |

PostgreSQL runs the transaction READ COMMITTED: a row that appears after the
statement's snapshot is neither locked nor seen by it. The event published after
the commit and the second read for the answer change nothing here.

`ModuleSwitches` is what switching promises: a module goes on only when its
dependencies are on; when one goes off, what remains is the largest set of the
others that needs no module outside of it. `SwitchSpec` is that specification
with `on <- On`, up to such a race. It says nothing of how dependents are found, so the fixed
points of `transitiveDependents` and `transitiveDependencies` are checked and
proved against it.

### PluginLifecycle

Plugins are numbered in the order `resolveDependencies` returns. `phase` and
`at` are the program counter of `loadAndStartPluginCatalog`, `start` and `stop`
(they are one sequential activity), `failing` tells a `stop` that a failed
startup called. `caps` are the owners with a disposer still to run. The hooks
are external code: `starting` and `stopping` are the hooks executing, which
includes those nobody awaits any more; `holds` are the resources their start
hooks took.

| Action | Code |
|---|---|
| `Create`, `FactoryFails`, `Unload`, `Publish` | `loadPluginCatalog`, `loader.ts` 48-76; `registry.ts` 17-51 |
| `InstallFails`, `InvokeStart`, `StartSucceeds`, `StartFails`, `StartTimesOut`, `StartAborted` | one turn of `start`, `lifecycle.ts` 40-67, with `invoke`, 104-122 |
| `Skip`, `Ready` | an optional plugin that failed; all plugins visited |
| `InvokeStop`, `StopSucceeds`, `StopFails`, `StopTimesOut`, `StopAborted`, `StopLoopEnds` | the stop of one plugin, in `cleanupFailedPlugin` (92-96) or in `stop` (76-85) |
| `Dispose` | `cleanupOwner` of every owner, then `registry.restore` after a failure (`loader.ts` 97-102) |
| `Signal`, `Exit` | `bootstrap.ts` 484-534; a second signal exits at once |
| `Abort`, `RegisterCapability`, `LateStart`, `LateStop` | external: the caller's signal; hooks at work, awaited or not |

`Cooperative` are the plugins whose hooks stop when their signal is aborted.
The manifest dependencies (`Requires`) order the plugins; the event
dependencies (`EventDeps`) are checked by the event registry at installation.

### PluginCatalog and Bootstrap

`PluginCatalog` holds the pure parts of startup: `ValidCatalog`, `Satisfies`
(version ranges), `Resolve` (the depth-first order), `DetectCycle` (the search
of the manifest graph), command and navigation clashes, and the migrations that
are due. The two searches are functions of their depth, counted down from the
number of plugins, which they never use up before a cycle shows. `Sound` and
`Circular` (some plugins need one another in a circle), which follow no search,
are the references they are compared with; `Readable` says what a catalog is at
all. `Bootstrap` is the process: `startup` is the step under way,
`shutdown` the step of the shutdown, `exit` why the process ended.

| Action | Code (`bootstrap.ts` unless named) |
|---|---|
| `ConnectDatabase`, `CreateClient`, `StartPlugins`, `Refuse` | 122-310, 438-441: database, Discord client, settings, catalog |
| `Migrate`, `Migrated` | `migrations.ts` 49-82: one transaction each |
| `LoadModules`, `StartModule`, `ModulesStarted` | `module-loader.ts` 23-43, then the command check, 365-374 |
| `RunHealthChecks`, `Listen`, `Login`, `StartupFails` | 377-441 |
| `Connect`, `Answer`, `Leave`, `SweepBegins`, `SweepEnds` | requests, streams and the hourly session sweep |
| `Signal`, `Crash`, `ForceTimer` | 104-119, 484-491, 526-533 |
| `StopPlugins`, `StopModule`, `ModulesStopped`, `CloseServer`, `ServerClosed`, `Disconnect` | 493-525 |
| `Restart` | external: the process manager, with the same or another release |

### Sessions

One user in several tabs of one browser. `rows` is `auth_sessions`, `states` the
login states in memory, `req[t]` the request of a tab with what its last query
returned. A query is one action and the use of its answer another.

| Action | Code |
|---|---|
| `Login`, `Callback`, `CodeRefused`, `CreateSession` | `auth.endpoints.ts` 60-137, `oauth-state.service.ts` 32-60 |
| `Load` | the dashboard's `/me`, then `/csrf` |
| `Find`, `Middlewares` | session lookup; session, guild and CSRF checks in their order |
| `Csrf`, `StoreToken` | `csrf.endpoints.ts` 17-50, metadata written back |
| `LogoutReads`, `StripToken`, `RevokeSession`, `Answer` | `auth.endpoints.ts` 150-185: token first, then the session |
| `Cleanup` | `session-cleanup.scheduler.ts` |
| `QueryFails`, `Restart`, `Tick` | external: the database, the process, time |

### ApiPipeline

`Routes` is the table the router is given, `req[c]` where a request waits,
`buckets` the limiter's arrays as sets of stamps (the number of the request and
its time), and `last` the answer sent last with the audit entry it left.
`passed` and `count`, the requests the limiter let go on, are history variables. Reading the body, the
session lookup and the handler are the awaits.

| Action | Code |
|---|---|
| `Send`, `BodyFails`, `Mismatch` | `server.ts` 193-256, `router.ts` 80-128, `validation.ts` |
| `Dispatch` | headers, audit and rate limit up to the session middleware's await (`rate-limit.middleware.ts` 20-42, `rate-limiter.service.ts` 33-84) |
| `Lookup` | `session-auth.middleware.ts` 27-56, `authorization.middleware.ts`, `csrf.middleware.ts` |
| `Finish` | the handler, and the way back through the audit middleware (`HandlerCodes`: the endpoints' own refusals, as `csrf.endpoints.ts` 28, 43 and `module-config.endpoints.ts` 145) |
| `AskForStream`, `StreamLookup` | the two event streams, which the server answers before the router: without a cookie, without a session, without the right (`server.ts` 64, 93-123, 153-175) |
| `Tick` | external: time |

### LogStream

`ring` and `count` are the service; `conns` the streams with what is in flight;
`page` the component's state and refs (`gen` is its generation counter, `next`
its cursor). Two of its fields are history: `fresh`, the number of the last
entry when the present stream was subscribed or a first page replaced the list,
and `mixed`, whether the list is anything else than pages loaded one after the
other (an entry of the stream makes it so).

| Action | Code |
|---|---|
| `WriteEntry` | `logs.service.ts` 52-98 with its subscribers |
| `Admitted`, `ConnectionClosed` | `server.ts` 93-151 |
| `Load`, `Evaluate`, `Answer` | `LogsPage.tsx` 54-80: sent, read by the server, handled |
| `Receive`, `StreamError`, `ToggleLive`, `TogglePause` | 82-133, 284-312 |
| `NewQuery`, `HistorySize`, `ResetFilters` | 46-52, 169-193 |

### Dashboard and SettingRules

`page` is `DashboardState`, `versionRef` the ref the next save states, `form`
the mounted `SharedModulePage`, `loads` and `saves` the requests under way, each
with the guild of the closure that sent it. `server` is what the API would
answer. `blind` is a history variable: the ways in which a save that was taken
overwrote a change its page had not shown. `"torn"`: the change came between the
two queries of the load that filled the page; `"late"`: the page's version or
values are from an answer to a request made for another guild, or to a save of
what was shown before; `"unseen"`: any other way. Pages and saves carry as
history what they showed (`of`, `shown`, `read`, `late`; `here`, `seen`).

| Action | Code (`App.tsx` unless named) |
|---|---|
| `LoadDashboard`, `ReadModules`, `ModuleNotFound`, `Ready`, `LoadFails`, `Retry` | 54-241, 303-309 |
| `ReadValues`, `ReadVersion` | the two queries of one GET settings, `module-config.endpoints.ts` 119-128 |
| `ModuleState` | 248-257: an event of the stream starts another load |
| `Save`, `SaveInvalid`, `SaveSettings`, `SaveError`, `UpdateValue` | 259-277, `SharedModulePage.tsx` 46-82 |
| `ToggleEnabled`, `Confirm`, `SwitchModule`, `SetModuleEnabled`, `ToggleFails` | 279-297, `SharedModulePage.tsx` 84-95 |
| `SetSelectedGuild`, `SignOut`, `Authenticated`, `NotAuthenticated` | `GuildContext.tsx`, `AuthContext.tsx` |

`SettingRules` translates the definitions of every built-in setting, the schema
of the configuration files, the registry, the form's validation
(`validateSetting`, `Normalized`), the published metadata
(`toValidationSchema`) and the path a saved value takes into `AppConfig`.
Values stand for the kinds the rules tell apart: numbers (in tenths), texts by
length and nature, lists, flags. Which numbers and lengths there are is left to
the constants `Amounts` and `Lengths`; the rules themselves are a finite table
and hold no state, so that the two properties about them speak of the initial
state alone.

| Operator | Code |
|---|---|
| `createGeneralSettings` and its six siblings, `BuiltIn` | `modules/*/settings.ts`; `bootstrap.ts` 84-92 |
| `appConfigSchema` and its parts, `SchemaAt` | `config/schema.ts` |
| `register`, `unregister`, `Acceptable`, `Same` | `settings-registry.ts` 17-67, 134-162 |
| `registerBuiltInSettings`, `StartAgain`, `StopAgain` | `bootstrap.ts` 84-92; the plugins' `start` and `stop` (`general.plugin.ts` 62-82) |
| `validateSetting`, `validateNumberSetting`, `validateTextSetting`, `Normalized` | `SharedModulePage.tsx` 308-438 |
| `toValidationSchema`, `toRuntimePath` | `module-config.endpoints.ts` 281-300, `configuration.service.ts` 208-241 |

A plugin registers its module's settings a second time when it starts, which
counts, and gives that registration back when it stops. `BuiltInStay` lets the
plugins of the modules in `Restarted` do so up to `MaxCalls` times, in any
order: starts with the defaults of the startup, starts after a saved value has
changed a default, starts that throw after they have registered, and stops.

### Moderation and GuildLog

`calls[i]` is a command: its kind, how far it is, what it did (`did`: nothing,
something changed, or, of a ban, the same again) and what the moderator was
told. `there` and `banned` are the guild's members and bans. `handlers[h]` is
one handler of the logging module for one event, with what it found in the audit
log and when it looked it through (`found`, `read`). A command's handler in the
log has the command's name, so that a post can be compared with the act it tells
of.

| Action | Code |
|---|---|
| `HandleSlash`, `HandlePrefix`, `Begin` | `command-router.ts` 31-45, 92-109, 191-288, permission check |
| `Accepted` and its parts | `moderation.guard.ts`, options of each command |
| `Ban`, `Kick`, `Timeout`, `Warn`, `RemoveOrClear`, `List` | the commands from their guard to the act |
| `Clean`, `BulkDelete` | `clean.command.ts` 35-43: of the messages found none, one (an ordinary deletion) or several (a bulk deletion) are deleted, and the reply comes before the event |
| `GuildChanges` | external: others leave, are banned or come back, roles and rights move |
| `Answered`, `Emit`, `Reply`, `Fails` | what comes after the act, and any failure |
| `GuildEvent`: `MessageEdit`, `MessageDelete`, `Deletes`, `VoiceEvent`, `MemberUpdate` | the logging services' handlers |
| `Archive`, `FetchAudit`, `AuditAnswers`, `SendPost` | their awaits |
| `StopLogging` | `logging.plugin.ts` 74-81 |

### VoiceCycle

`state` is the `VoiceStateEnum`, `link` the connection manager (`held`: the
timer its field names; `stray`: pending timers whose handle was overwritten;
`status` "destroyed": the connection it still holds after `joinVoiceChannel`
threw), `doing[m]` where the handler call of a member's event waits, `cut` the
calls whose connection was destroyed under them, `crashing` whether an unhandled
rejection is ending the process. The flag `plugin` chooses the module or the
plugin, which differ in what a stop clears and in who catches what `connect`
throws. `Connect` is `connect` with both outcomes: `joinVoiceChannel` may throw
(`joined`), and destroying a destroyed connection always does (`Throws`).

| Action | Code |
|---|---|
| `BotReady`, `VoiceStateUpdate`, `JoinTimer`, `CooldownTimer` | `voice.module.ts` 105-219 |
| `SoundResolved`, `SoundFails`, `ReadyOrTimeout`, `PlaybackEnds` | `AudioManager.ts` 25-102 |
| `LinkReady`, `LinkLost` | external: the voice gateway; the drop schedules a reconnect (`ConnectionManager.ts` 138-167) |
| `ReconnectTimer` | `ConnectionManager.ts` 162-174 |
| `StopVoice` | `voice.module.ts` 95-103, `voice.plugin.ts` 111-129, also by the crash handler of `bootstrap.ts` |

### ShrinePolling

Time counts in ticks relative to the end of the rotation the bot knows (`age`).
`pc` is the await a poll is at, `since` the memory of a delay, `timer` the ticks
to the next poll. `posts` is the external channel.

| Action | Code |
|---|---|
| `Start`, `TimerFires`, `Stop`, `RunPoll`, `PollEnds` | `shrine-polling.scheduler.ts` 20-109 |
| `NoConfig`, `ConfigLoaded`, `FetchFails`, `FetchSucceeds` | `shrine.service.ts` 56-119, `shrine.client.ts` 40-112 |
| `NotSent`, `Send`, `SendFails`, `Sent` | `shrine.service.ts` 119-187 |
| `Publish`, `ReplyLost`, `Tick` | external: the service, Discord, time |

## 3. Runs

| Run | Instance | Shows |
|---|---|---|
| `hotreload` | 2 scopes (one whose handler stops on abort), 2 keys, 2 changes, 1 retry, 1 reconcile | a change is kept until, and only until, a handler took it or (the code's exception) a later change of another key was delivered; values never delivered out of order; changes and reconciles end |
| `config` | 2 clients, 1 guild, 1 key, 3 writes, a restart or lost reply | the store refines `VersionedStore`; the audit log explains every stored value and nothing uncommitted is shown; stale saves are refused; requests of a guild that come one at a time leave its cache and announcements equal to the store; every request ends though all wait for one row lock |
| `modules` | 2 dashboards (one switches any module, one the first and the last), 3 modules in a chain, a fresh guild, failing statements, deadlocks | until two of them race for a row that does not exist, overlapping requests refine `ModuleSwitches` and no module stays on without its dependencies; every request ends |
| `plugins` | 3 plugins in a chain, the 2nd optional, the 3rd deaf to aborts, an abort, 2 signals | order of starts, stops and events; a clean end; no hook, however it hangs, holds startup or exit up |
| `bootstrap` | every dependency graph over 3 plugins (up to 2 dependencies each), one catalog per flaw, 4 releases with migrations, a restart, a signal, a crash, one connection | which catalogs are refused and in which order modules start; migrations are applied once and before anything runs on them; requests meet a whole process; an orderly exit leaves nothing; there is an exit |
| `sessions` | 2 tabs, 1 login, 3 tokens, 1 fault, sessions that expire | one session per login; a dead session admits nothing; rewrites of metadata lose nothing; a repeated sign-out succeeds and dead rows are swept |
| `api_pipeline` | 2 addresses, 6 asks (one of a stream), 4 requests, limit 2, window 2, times up to 2 | the limit is exact in every window; every refusal of a middleware or handler is the one recorded, those of the streams and what is thrown are not recorded |
| `logstream` | 2 guilds, ring of 2, pages of 1, lists of 4, 3 entries, 2 streams, 2 loads, 1 user action besides paging | no foreign or repeated entry; live mode misses nothing since its stream or last first page; paging leaves no gap, also when the cursor was evicted |
| `dashboard` | 2 guilds, 2 loads, 2 saves, 2 changes of others per guild, 2 user actions besides editing; every setting, 12 numbers, 8 lengths, 4 starts and stops of 2 plugins | no change of others overwritten unseen but by torn and late pages; no request leaves the page waiting; which values form, contract, server and `AppConfig` disagree about |
| `moderation` | 2 commands, or one and a guild event; every failure; tolerance 2, time up to 3 | the log tells of nothing that was not done, but for a ban repeated; bulk deletions are put down to those the audit log names in time; what was reported done is logged |
| `voice_cycle` | 2 members, 2 retries, 2 timers, any attempt to connect may throw, as module and plugin | between cycles in standby or, after a throw, nowhere; one cycle at a time; quiet after stop; cycles end |
| `shrine_polling` | 3 weeks of 6 ticks, 1 retry, 1 lost reply | posted once, polled near the reset, quiet after stop, every week posted |

**Bounds.** Each is a named constant that acts in a guard, and bounds how often
the environment acts, never what the code does in reply. Two changes, of one key
or of two, with a reconcile are the least for which a failed change, a retry and
a selection of kept changes meet on a chain, and for which a change of one key
is pruned by another's; two scopes, that a reconcile call goes through both. A first write, then two clients that both state version 1
and race for the row lock: three writes are the least for which one finds its
version stale, since version 0 cannot be stated. A chain of three modules is
the least with a dependent that is not direct; two dashboards race for a row
that does not exist, as a fresh guild has none. A chain of three plugins is the
least with a middle one whose failure has one to undo before it and one that
depends on it. Three plugins with two dependencies each hold every shape of a
cycle, a diamond's half and a missing dependency. Two tabs suffice for every
race over the one cookie; two tokens more than the login's let `/csrf` answers
cross. A ring of two and pages of one evict an entry, and the cursor with it,
between two pages; lists of four hold every entry there is, so that the
properties judge all of them. Two loads and two saves are the least that
overtake each other; what others write is two changes, so that one may be seen
and the other not, or come between the two queries of a load. The numbers and
lengths of values lie at, just under and just over every bound of a rule; of two
plugins, one can register and leave while the other is started, and four calls
let each do so. Two commands share a
target, a warning, or a bulk deletion. The clock and the tolerance let an audit
entry become too old before the log is read, and stay in time after it.
`MCModeration` has two activities at a time (two commands, or one and a guild
event) and one thing besides, a change of the guild, the passing of time or the
end of the log (`FewThings`): changes of the guild are combined with commands,
which alone look at it, and time with cleaning and bulk deletions, which alone
look at the clock. It and `MCApiPipeline` use symmetry over the commands and
the addresses, which no constant or property tells apart; `MCLogStream` counts
states as one (`VIEW SlotsAside`) that differ only in the slot a load or a
stream lies in. The proofs remove these bounds where there is one.

**Deadlock** is checked except in the runs whose process exits (`plugins`,
`bootstrap`), whose bound of requests or time is used up (`sessions`,
`api_pipeline`, `logstream`, `dashboard`, `moderation`), or whose scheduler is
stopped (`voice_cycle`, `shrine_polling`).

**Fairness.** HotReload: weak for timers and for the promise reactions of each
scope; a handler settles or its timeout fires, which the race in `deliver`
guarantees. None for operators or for enqueues. ConfigService: weak for every
request's next step, since PostgreSQL answers or the connection fails; strong
for taking the row lock, since PostgreSQL queues those who wait. ModuleStates:
the same, and weak for the deadlock check, which PostgreSQL runs while a
transaction waits; none for failures. PluginLifecycle: weak for what loader and
coordinator do by themselves and for the timeout of an awaited hook; none for
hooks settling, which may hang for ever, nor for signals. Factories are awaited
without a timeout by the code, and assumed to settle. Bootstrap: weak for
handlers, the sweep, the force timer and the awaits of the shutdown; none for
clients leaving a stream. VoiceCycle: weak for timers and file look-ups, strong
for the end of a sound that is heard (it may be interrupted again and again);
none for joins or for connections becoming ready, so that `CyclesEnd` excepts a
sound whose connection is lost for good; its other exception, a plugin whose move
threw, is the code's. Weak for the stop of a process that is crashing, which is
ended after five seconds at the latest. ShrinePolling: weak for time, timers and polls;
strong for a request, a card and a message succeeding, since the web service and
Discord do not fail for ever. Sessions: weak for every request's steps and the
cleanup; strong for a user who wants out loading the page and signing out again.
Dashboard: weak for each request under way, which is answered or fails. None in
ApiPipeline, LogStream and Moderation, which check safety only.

## 4. Proofs

Checked by TLAPS for every value of the constants that satisfies the `ASSUME`s
of the modules.

* **HotReloadProofs.** `TypeCorrect`; `RetainedForReconciliation`
  (`KeptUntilDelivered`: a change is gone exactly when a handler took it or a
  later one of another key of its scope); `NoBatchStranded`; `DeliveryOrder`
  (`RuntimeNeverRegresses`, which speaks of the scopes in `HonourAbort`: a
  handler deaf to its abort may overtake its own retry). The inductive
  invariant says that the versions on a scope's chain, then in its pending
  batch, lie between what was applied and the scope's counter, and that every
  job is for each key at least as new as the ones before it. Without it a
  reconcile snapshot on the chain could be older than what follows.
* **ConfigServiceProofs.** `TypeCorrect`; `StoreIsAtomic` (`StoreSpec`);
  `StaleSavesNeverCommit`. The invariant says that a transaction between its
  lock and its commit is the only one of its guild, and that the version and
  old values it read are still those stored, which makes the commit one step of
  `VersionedStore` and every other action a stutter. `AuditTellsTheTruth`
  (`AuditIsTruth`): what a request has read or has just committed is committed,
  and so is all it hands on to the cache, to AppConfig, to the plugins and to
  the response; and as the versions in the audit log never pass the guild's, a
  commit's row is above all others and explains exactly what it leaves.
  `SettlesAlone` (`SettledWhenAlone`): in a guild whose requests come one at a
  time, cache and announcements differ from the store only in the keys of a
  request that has committed and not yet seen to them, and what a query found is
  still stored when it is cached.
* **PluginLifecycleProofs.** `TypeCorrect`, `DependenciesStartFirst`,
  `DependentsStop`, `EventsOnlyWhileStarted`, together `PluginsRunInOrder`
  (`LifecycleOrder`), `HooksStopOnce`, `EndsClean`. The invariant has six named
  parts: where `at` lies in each phase; that the started plugins precede `at`
  and only optional ones are missing; that event definitions are left only
  where a plugin is in place; how far the stop loop has come; who was called;
  and what each owner's cleanup covers. None of the properties is inductive by
  itself: that no stop hook is called twice needs the position of the loop, and
  that nothing is left needs the hooks that outlive their timeouts.
* **ModuleStatesProofs.** `TypeCorrect`, `DependenciesStayEnabled`
  (`DependenciesEnabled`) and `SwitchesAreAtomic` (`SwitchSpec`), from a fresh
  guild on, for any dependency graph, and up to a commit that raced for a row
  that did not exist. The invariant says that the rows a transaction saw exist,
  that no two hold a row, and that in one which writes all it saw are locked and
  say what its handler had read. What may differ at the commit is only what it
  missed (`Missed`): modules without a row that another one has disabled since.
  Without such a module the commit is one switch. `ClosedSetsHaveNoDependents`
  is the heart of it: the dependents of a module are the least set closed under
  depending, so no consistent set without the module contains one of them.
* **ServerProofs**: pipeline, page and process.
  `AuditTrail` (`RefusalsAudited`), of what middlewares and handlers answer. `LimitIsExact` (`LimiterExact`): by
  `LimiterInv`, a bucket holds only requests that were let go on, and every one
  that some window still counts, which a cleanup may not take away because its
  interval is no shorter than the window.
  `NothingOverwrittenUnseen` (`OthersSeen`): by `PageInv`, the version a page
  that is not late would state, and that of a save it sent, suits what its load
  read (`Suits`): as long as it is the current one, nothing of others is newer
  than the version that load read. So a save the server takes overwrites at most
  what came between the load's two queries.
  `RequestsServedByWhole`, `ShutdownIsOrderly`, `SchemaHolds` (`ServedByWhole`,
  `OrderlyExit`, `MigrationsHold`): `ProcessInv` says what startup and shutdown
  have done by each of their steps, that the started modules are a beginning of
  the load order of which the shutdown takes the last away each time, and that
  every migration of the ledger is recorded once.
  `SettingsAgree` (`SettingsFitConfig`) and `FormAgrees` (`FormFitsServer`), for
  any set of numbers and lengths. The settings of the table are of five kinds,
  as lemma `AllRows` shows one module after the other: flags, choices, numbers,
  texts and lists. For each kind one argument says what its schema demands, what
  the form lets through and what `AppConfig` takes at the place of the default.
  That the seven registrations of the startup succeed follows from the modules'
  keys being apart (`AllRegister`), and that changing one default makes them
  throw only where the default itself is refused, from the same steps
  (`DefaultsDoRegister`). `BuiltInStay` is an induction over the number of
  starts and stops, whatever `MaxCalls` is: a module's entry is counted at least
  once, and once more when its plugin is started, so that no stop takes it away
  (`StartsStay`, `StopsStay`, `CallsStay`, `AfterAllStays`).
  `CatalogIsJudged` (`CatalogJudged`) for every catalog, by three results about
  the recursions of the startup. `ResolveIsOrder`: the depth-first search reports
  a cycle exactly when there is a circle, and otherwise returns each plugin once,
  behind all it needs. `DetectsCircles`: so does the search of the manifests,
  which goes on after a cycle and skips what is missing. `AcceptedIsSound`:
  accepted are exactly the sound catalogs. The argument is the same for both
  searches. Each visit finds the active plugins on a path, every one needed by
  the one before (`Path`); so a plugin met again closes a circle. As the path
  repeats nothing it cannot be longer than there are plugins, and the depth is
  used up only when no plugin is left off it. What a visit has finished needs
  nothing but what is finished, and holds no circle: the plugin put last into
  the order of a supposed circle would need one that comes after it. This is an
  induction over the depth, and within it one over the plugins visited one after
  the other. `JudgedInOrder` carries the results through startup, crash and
  restart: what was loaded is the order of an accepted catalog without the
  disabled modules, and what was started a beginning of it.
* **FeatureProofs**: voice, shrine, moderation with its log, log viewer.
  `VoiceTypesHold`; `RestsBetweenCycles` (`RestsInStandby`); `VoiceStaysQuiet`
  (`StaysOutAfterStop`). The invariant adds that no cycle runs before bot.ready,
  whose handler sets the state to IDLE and would otherwise cut one off; that the
  bot is in a channel exactly while the manager's connection is neither missing
  nor destroyed; and that there is no timer before the first connection, and
  none whose handle is known once a stop has given the connection up
  (`TimersCleared`): what is left is a stray one.
  `ShrineTypesHold`; `AnnouncedOnce` (`PostedOnce`); `PollsAreNear`
  (`PollsNearReset`); `ShrineStaysQuiet` (`QuietAfterStop`). The invariant
  bounds what was posted of the week that is to be announced, says that a
  remembered delay is no older than the end of the rotation it belongs to, and
  that a timer set before the pre-reset window ends with the window's begin or
  an interval after it was set, and that a stopped scheduler has none. The weeks' lengths are a product of two
  constants and variables; the lemmas on it are stated by themselves.
  `LogIsTrue`, `DoneReachesLog` (`LogTellsTruth`, `DoneIsLogged`): by
  `CommandsInv`, what was posted and what a handler is still going to post is
  true (for a bulk deletion that an entry in time says so, and that the doer's
  own, if it was found in time, is no newer), a command's event comes after its
  act and before its reply, and a handler that looks through the audit log found
  only what stands there.
  `ListIsOwn`, `LiveIsComplete`, `HistoryIsComplete` (`OwnEntriesOnce`,
  `LiveMissesNothing`, `HistoryComplete`): by `ViewerInv`, the ring is in the
  order of the numbers, the present stream is open and of the page's guild, a
  load of the present generation asks for the page's guild and continues its
  list (`LoadFits`), and above its cursor the list has no gap (`NoGap`), which
  is what an answer needs in order to leave none.
* **SessionsProofs.** `OneSession` (`OneSessionPerLogin`). A login state that was
  consumed is on the list no more, no other callback has it, and no session was
  made of it; a request sent for a dead session gets no further than the session
  middleware, because death is final (nothing revives a row, time goes on) and
  the row its query returns is dead too. `MetadataStay` (`MetadataKept`): the copy
  of the metadata that a request carries, and is going to write back, fits the
  row: it has the same guilds, and the token of the login as long as the row does;
  a request that draws another token found none in the row, or the session is
  over by now.
* **DataLemmas.** `Max` and `Min` of bounded and of non-empty sets of natural
  numbers, from the well-foundedness of `<`; and `ChosenFacts`, what a
  subsequence holds and in which order, from the rank of its positions.
  `SetInduction` is induction stated of a set of natural numbers instead of an
  operator, and `Recursion` what follows for a function defined by recursion on
  its depth: it is defined, has the values of its equation, and every value is
  of the type its steps keep.

TLC checked each invariant before it was proved. Assumptions are the constants'
types, plus:

* manifest dependencies precede their dependents in PluginLifecycle
  (`CatalogAssumption`: what `ResolveIsOrder` proves of `resolveDependencies`);
* a catalog is a sequence of entries with an id, a positive number that stands
  for its place among the names, and finitely many dependencies (`Readable`);
* the limiter cleans up at intervals no shorter than its windows
  (`IntervalAssumption`: its default interval is as long as the windows of the
  rules);
* no two routes have one method and path (`RoutesAssumption`: `register` throws
  otherwise);
* numbers and lengths lie below a number that stands for infinity, and the
  number one and the length eight, which every rule takes, are among them
  (`SettingAssumption`);
* `NoGuild` is no guild, and `PreReset < Period` in ShrinePolling.

Every invariant and every action property of every run is stated by a theorem.
Only liveness is model-checked and not proved (`ChangesSettle`, `RequestsEnd`,
`ProcessEnds`, `NothingHangs`, `HooksHoldNothingUp`, `SignOutEnds`, `CyclesEnd`,
`WeeksArePosted`): fairness and ENABLED are beyond the prover.

Proofs were attempted of what TLC had accepted, and three came back with a reason.
`LiveMissesNothing` did not hold of a page whose pause buffer is full: the buffer
is cut like the list, so the property speaks of a page in which neither is (the
run had lists too long for three entries to show it). `FormIsEnough` let a text
break a least length that the metadata does state, because a rule about numbers
was applied to texts as well; it excuses numbers only now. And two definitions whose
CASE had overlapping guards were no translation of an if-else, since TLA+
leaves open which arm is taken; they are IFs now.

## 5. What is left out

Of the modelled components:

* ConfigService: the JSON provider and the parsing of the files; several keys
  of one request in the run (`StoreIsAtomic` covers them).
* PluginLifecycle: permission grants, source adapters other than that they may
  fail, failures of disposers (the code collects them and goes on).
* Bootstrap: the construction of the object graph. `ModuleRegistry.transition`,
  `ManifestRegistry.validate` and `DependencyGraph` have no caller in
  production; the last two are modelled, as functions.
* ApiPipeline: CORS and OPTIONS, the format of bodies, the audit of logins and
  configuration changes.
* Sessions: the memory providers and `refreshSession`, which production does
  not call; several guilds.
* LogStream: filters other than the guild; that a stream is released in the end
  (too costly here).
* Dashboard: other pages, rendering, translations.
* Moderation: durations, reasons, wording; cooldowns of the router, which no
  command uses.
* Voice and shrine: which sound, which channel; the card.

Not modelled: welcome, goodbye and general modules (one message per event, no
state between events), the asset resolver (fewer assets than its cache holds,
so that it never evicts), cache, container, metrics and logger (synchronous
utilities), the plugin SDK and scripts, and of the event bus priorities, filters
and re-entrant emits.

## 6. What the code does that a reader may not expect

Each was met while modelling; the properties are stated so that they hold of
the code as it is, and name these cases where they touch them.

*Hot reload.* A successful batch forgets failed changes of other keys of its
scope, since it prunes by version alone (`hot-reload.coordinator.ts` 132-138),
although ADR-012 (lines 12 and 15) has every failed change stay reconcilable.
`KeptUntilDelivered` names this case and no other; the run has it. A reconcile of several scopes rejects when a delivery
empties a scope before its turn (107). A handler that ignores its abort runs
beside its own retry.

*Configuration.* A read that overlaps a write puts the old value back into the
cache, where it stays (`PHASE-05-CONFIG.md` 16 says otherwise), and GET settings
reads values before the version, so that a page with old values and the new
version overwrites a change it never showed (`module-config.endpoints.ts` 125);
both need two requests at a time, which is why `SettledWhenAlone` speaks of one.
The first save of a guild is refused: the dashboard states version 0 and the
schema wants a positive one (`contract.schemas.ts` 11). A restart forgets the
values applied to `AppConfig`, a value of one guild is written to the one
`AppConfig` of the process, and a delete leaves the value there undefined until
the restart (`configuration.service.ts` 141, 174, 223).

*Settings.* Texts of five settings may be configured with values the registry
refuses, so that the startup throws (`DefaultsRegister` names them). Lists have
text controls, so that the form can never save them; shrine intervals state no
minimum and URLs are checked by the server only (`FormIsEnough`). A plugin whose
default was changed by a saved value cannot register again.

*Module states.* Rows that do not exist cannot be locked: two first switches can
leave a module enabled on a disabled dependency, although
`PHASE-04-DASHBOARD.md` (16 and 25) has dependencies validated and never
disabled under a module that needs them. The run starts from a fresh guild and
reaches this; the properties name it (`raced`) and hold of everything up to it.
A module the loader skipped is
expected to be stored as disabled (`guild-module-state.repository.ts` 41).

*Plugins.* Event dependencies are looked up among event definitions, so that the
logging plugin with declarative events could not be started
(`PHASE-07-EVENTS.md` 16). An abort during startup skips the stop hooks of
plugins already started. A start hook that outlives its timeout can register a
capability after its owner was cleaned up.

*Process.* A signal before the handlers are installed (bootstrap.ts 421) or a
second one ends the process at once; a failing startup closes nothing; on a
signal an open event stream keeps `server.close` waiting until the process
manager kills the process, while a crash has a timer of five seconds; modules
and plugins are stopped before the API is closed. A command-count check makes
the startup fail when a flag disables a module with commands (370).

*API and sessions.* Errors thrown before or inside the pipeline (404, 422, 500)
are caught by the router, past the audit and rate-limit middlewares, and so are
the refusals of the two event streams (401, 403, 404), which the server sends
before it comes to the router: neither is in the audit trail. A logout
strips the token, then revokes: one that fails between leaves a live session
without a token, until the page is loaded again. Guild rights are those of the
login. A stream's session is checked when it is opened.

*Log viewer.* A changed history size in live mode leaves the page deaf until it
is toggled (`LogsPage.tsx` 90); a pause holds back 1000 entries and drops the
oldest after that, while the ring holds 2000, so that a long pause leaves a gap
in a list that is far from full (433), and `LiveMissesNothing` is about pages
that have room; resetting the filters brings the pause's buffer
back; a client that leaves during the session lookup leaves its subscription
(`server.ts` 108); a cursor that was evicted restarts from the newest entry. A
late first page replaces the list with all that the stream had added since
(`LiveMissesNothing` counts from that page on). The stream opens after the first
page was read, and what was written in between comes by neither, so that
`HistoryComplete` leaves lists with entries of the stream out.

*Dashboard.* Every module-state event loads the page again and drops unsaved
edits; edits made during a save are dropped; late answers of another guild fill
the page and set its version (`App.tsx` 206, although
`docs/2026-07-13-engineering-audit.md` 392 calls the isolation of guilds
resolved), and so does the answer to a save of what was shown before. With the
two queries of GET settings these are the ways to overwrite a change unseen;
`OthersSeen` excepts them as `"late"` and `"torn"`, and the run reaches both.

*Moderation.* A ban of someone already banned succeeds and is posted again, as if
it had changed something (`LogTellsTruth` names it). Bulk deletions are
attributed by size, channel and time, and two alike may be confused: `NamedRight`
allows a name only by an entry of the same channel and count made at most the
tolerance before the log was looked through (`message-log.service.ts` 311-314),
and another's than the doer's only if his own was not there in time or is no
newer. The other posts carry the moderator of their own event. An act's event is
emitted before its reply, in one synchronous stretch (for a warning, a second
count is awaited between them): `DoneIsLogged` is about that order, and about
acts reported as done. Those whose first reply, or second count, fails are
reported as failed and logged all the same; a first count that fails after the
insert leaves a warning that is stored, reported as failed and not logged. The
prefix form of `clean` deletes the message it answers. Handlers in flight when
the plugin stops still send.

*Voice and shrine.* A second drop before the reconnect timer fired overwrites
its handle (`StaysOutAfterStop` names the stray timer, although
`PHASE-03-PLUGIN-MIGRATION.md` 25 asks for clean shutdowns). A reconnect timer that
fires in the middle of a cycle takes the bot out of the member's channel, and a
playback whose connection is lost for good waits for ever, so that the module is
deaf from then on (`CyclesEnd`). When `joinVoiceChannel` throws, the manager keeps
the connection it has just destroyed, and every later connect and disconnect
throws in `destroy` (`ConnectionManager.ts` 52, 99): the bot is in no channel
until the process restarts. Thrown in the plugin's move, the state stays MOVING
and no member is followed any more; in the module's move or in either `bot.ready`
handler nobody catches it, and the process shuts down.

A failed announcement of the shrine is repeated with the next poll, which comes
in the pre-reset window of that week; a failed forced
announcement at startup is never repeated
(`shrine.service.ts` 74). A shutdown before the scheduler was started does
nothing (`shrine-polling.scheduler.ts` 33). An end without a zone is parsed as
local time (`shrine.client.ts` 92) while embed and tests take it for UTC: the
polling times are relative to the end as the bot knows it.

## 7. Plan

1. **EventDelivery** (`event-bus.ts`, `event-registry.ts`, `source-adapters.ts`):
   re-entrant emit, once, unsubscribing during an emit, a failed installation;
   composed with PluginLifecycle through `events`.
2. The release of log streams as a liveness property, on a smaller page.
3. SequentialRequests for two requests at a time: which stale fills of the cache
   a later read repairs.
