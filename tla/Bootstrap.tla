----------------------------- MODULE Bootstrap -----------------------------
(***************************************************************************)
(* The life of the process (bootstrap.ts): the startup sequence, what runs    *)
(* once it is up (API requests and event streams, the session sweep, Discord), *)
(* and the shutdown that a signal or a crash starts, which another signal, the *)
(* crash timer or a failing login may cut short.                               *)
(*                                                                          *)
(* What a module, a plugin or an endpoint does is the matter of other modules. *)
(***************************************************************************)
EXTENDS PluginCatalog

CONSTANTS
  Setups,      \* what a release starts with: [catalog, plugins (by the plugin catalog), disabled]
  MaxRestarts, \* bound on restarts, each with a release of its own
  Conns,       \* connections the API may have at a time
  MaxSignals,  \* bound on SIGINT and SIGTERM
  MaxCrashes   \* bound on unhandled rejections and uncaught exceptions

ASSUME BootstrapAssumption ==
  /\ MaxRestarts \in Nat /\ MaxSignals \in Nat /\ MaxCrashes \in Nat
  /\ \A s \in Setups : /\ Readable(s.catalog) /\ s.plugins \in BOOLEAN
                       /\ \A m \in ToSet(Migrations(s.catalog)) : m.namespace \in Nat /\ m.version \in Nat

VARIABLES
  setup,     \* the release that runs
  ledger,    \* the table plugin_migrations
  order,     \* the built-in modules in the order they are registered
  refused,   \* what the startup threw about the setup: "no", "migrations", "catalog", ... (history)
  restarts,
  startup,   \* the startup step under way; "up" after the last
  exit,      \* "no", or why the process ended: "done" (shutdown), "cut", "failed", "forced"
  plugins,   \* "none", "started", "stopped"
  client,    \* the Discord client: "none", "created", "ready", "destroyed"
  loaded,    \* ModuleLoader.loadedModules
  started,   \* modules whose onStart has returned
  stopped,   \* modules whose onShutdown has been called, in that order
  threw,     \* an onShutdown has thrown
  db,        \* the pool: "off", "on", "ended"
  api,       \* the HTTP server: "off", "listening", "closing", "closed"
  conns,     \* per connection: "none", "request" (a handler runs), "stream"
  sweep,     \* the session sweep: "off", "armed", "running", "last" (running, timer cleared)
  shutdown,  \* the shutdown step under way: "no" before it
  force,     \* the 5 s timer of a crash is running
  signals, crashes

processVars == <<setup, ledger, order, refused, restarts, startup, exit, plugins, client, loaded, started, stopped, threw, db, api, conns, sweep,
          shutdown, force, signals, crashes>>

release == <<setup, ledger, order, refused, restarts>>
process == <<exit, shutdown, force, signals, crashes>>
serving == <<api, conns, sweep>>

ProcessInit ==
  /\ setup \in Setups /\ ledger = {} /\ order = <<>> /\ refused = "no" /\ restarts = 0
  /\ startup = "database" /\ exit = "no" /\ plugins = "none" /\ client = "none"
  /\ loaded = <<>> /\ started = {} /\ stopped = <<>> /\ threw = FALSE
  /\ db = "off" /\ api = "off" /\ conns = [c \in Conns |-> "none"] /\ sweep = "off"
  /\ shutdown = "no" /\ force = FALSE /\ signals = 0 /\ crashes = 0

Alive == exit = "no"

-----------------------------------------------------------------------------
(* Startup.  Each step may throw, which ends the process (StartupFails).       *)

\* Mutant: the API listens before the modules have started.
ListenFirst == <<"database", "client", "migrate", "plugins", "load", "listen", "start", "health",
                 "login", "up">>

Order == <<"database", "client", "migrate", "plugins", "load", "start", "health", "listen",
           "login", "up">>

Step(step) ==
  /\ Alive /\ startup = step
  /\ startup' = Order[CHOOSE i \in 2 .. Len(Order) : Order[i - 1] = step]
  /\ UNCHANGED process

ConnectDatabase ==
  /\ Step("database")
  /\ db' = "on"
  /\ UNCHANGED <<release, plugins, client, loaded, started, stopped, threw, serving>>

CreateClient ==
  /\ Step("client")
  /\ client' = "created"
  /\ UNCHANGED <<release, plugins, loaded, started, stopped, threw, db, serving>>

\* What the setup makes the startup throw.
Refuse(why) ==
  /\ Alive
  /\ exit' = "failed" /\ refused' = why
  /\ UNCHANGED <<setup, ledger, order, restarts, startup, plugins, client, loaded, started, stopped,
                 threw, db, serving, shutdown, force, signals, crashes>>

\* Mutant: a version that is in the ledger is never compared.
NeverMismatched(m) == FALSE

\* The ledger has the version with another checksum.
Mismatched(m) == Recorded(ledger, m) # {}

\* PluginMigrationRunner.run: one migration and its record in one transaction, unless the
\* ledger says otherwise.
Migrate(m) ==
  /\ startup = "migrate" /\ setup.plugins
  /\ ~MigrationsRefused(setup.catalog) /\ m \in Due(setup.catalog, ledger)
  /\ IF Mismatched(m) THEN Refuse("checksum")
     ELSE /\ Alive
          /\ ledger' = ledger \cup {m}
          /\ UNCHANGED <<setup, order, refused, restarts, startup, plugins, client, loaded, started,
                         stopped, threw, db, serving, process>>

Migrated ==
  /\ IF setup.plugins /\ MigrationsRefused(setup.catalog) THEN startup = "migrate" /\ Refuse("migrations")
     ELSE /\ setup.plugins => Due(setup.catalog, ledger) = {}
          /\ Step("migrate")
          /\ UNCHANGED <<release, plugins, client, loaded, started, stopped, threw, db, serving>>

\* The plugin catalog is validated, loaded and started; without a plugin flag the modules
\* are those of a fixed list, in its order.
StartPlugins ==
  IF setup.plugins /\ ~Accepted(setup.catalog) THEN startup = "plugins" /\ Refuse("catalog")
  ELSE /\ Step("plugins")
       /\ plugins' = IF setup.plugins THEN "started" ELSE "none"
       /\ order' = IF setup.plugins THEN LoadOrder(setup.catalog)
                    ELSE [i \in DOMAIN setup.catalog |-> setup.catalog[i].id]
       /\ UNCHANGED <<setup, ledger, refused, restarts, client, loaded, started, stopped, threw, db,
                      serving>>

Enabled == Without(order, setup.disabled)

\* The manifests are registered, then loadAll registers the modules whose flag is set, and
\* these their commands.
LoadModules ==
  IF Registrable(setup.catalog) /\ ~CommandsClash(Commands(setup.catalog, Enabled))
  THEN /\ Step("load")
       /\ loaded' = Enabled
       /\ UNCHANGED <<release, plugins, client, started, stopped, threw, db, serving>>
  ELSE startup = "load" /\ Refuse("registry")

\* startAll: one onStart after the other; the routes are registered before.
StartModule ==
  /\ Alive /\ startup = "start" /\ started # ToSet(loaded)
  /\ started' = started \cup {loaded[CHOOSE i \in DOMAIN loaded :
                                /\ loaded[i] \notin started
                                /\ \A j \in 1 .. i - 1 : loaded[j] \in started]}
  /\ UNCHANGED <<release, startup, plugins, client, loaded, stopped, threw, db, serving, process>>

\* The commands are counted once the modules have started.
ModulesStarted ==
  /\ startup = "start" /\ started = ToSet(loaded)
  /\ IF CatalogComplete(setup.catalog, loaded)
     THEN /\ Step("start")
          /\ UNCHANGED <<release, plugins, client, loaded, started, stopped, threw, db, serving>>
     ELSE Refuse("commands")

\* An unhealthy subsystem is reported and does not stop the startup.
RunHealthChecks ==
  /\ Step("health")
  /\ UNCHANGED <<release, plugins, client, loaded, started, stopped, threw, db, serving>>

\* The server listens, the sweep is scheduled, signals and crashes are handled from here on.
Listen ==
  /\ Step("listen")
  /\ api' = "listening" /\ sweep' = "armed"
  /\ UNCHANGED <<release, plugins, client, loaded, started, stopped, threw, db, conns>>

Login ==
  /\ Step("login")
  /\ client' = IF client = "destroyed" THEN client ELSE "ready"
  /\ UNCHANGED <<release, plugins, loaded, started, stopped, threw, db, serving>>

\* process.exit(1): nothing that has been opened is closed.
StartupFails ==
  /\ Alive /\ startup # "up"
  /\ exit' = "failed"
  /\ UNCHANGED <<release, startup, plugins, client, loaded, started, stopped, threw, db, serving, shutdown,
                 force, signals, crashes>>

-----------------------------------------------------------------------------
(* The running process *)

Connect(c) ==
  /\ Alive /\ api = "listening" /\ conns[c] = "none"
  /\ conns' = [conns EXCEPT ![c] = "request"]
  /\ UNCHANGED <<release, startup, plugins, client, loaded, started, stopped, threw, db, api, sweep, process>>

\* A request is answered; one to a stream path becomes a stream.
Answer(c) ==
  /\ Alive /\ conns[c] = "request"
  /\ conns' \in {[conns EXCEPT ![c] = "none"], [conns EXCEPT ![c] = "stream"]}
  /\ UNCHANGED <<release, startup, plugins, client, loaded, started, stopped, threw, db, api, sweep, process>>

\* Only its client ends a stream.
Leave(c) ==
  /\ Alive /\ conns[c] = "stream"
  /\ conns' = [conns EXCEPT ![c] = "none"]
  /\ UNCHANGED <<release, startup, plugins, client, loaded, started, stopped, threw, db, api, sweep, process>>

SweepBegins ==
  /\ Alive /\ sweep = "armed"
  /\ sweep' = "running"
  /\ UNCHANGED <<release, startup, plugins, client, loaded, started, stopped, threw, db, api, conns, process>>

SweepEnds ==
  /\ Alive /\ sweep \in {"running", "last"}
  /\ sweep' = IF sweep = "running" THEN "armed" ELSE "off"
  /\ UNCHANGED <<release, startup, plugins, client, loaded, started, stopped, threw, db, api, conns, process>>

-----------------------------------------------------------------------------
(* Signals and crashes *)

Handled == startup \in {"login", "up"}

\* shutdown(), up to its first await.
BeginShutdown ==
  /\ shutdown' = "plugins"
  /\ sweep' = IF sweep = "running" THEN "last" ELSE "off"
  /\ UNCHANGED <<release, startup, exit, plugins, client, loaded, started, stopped, threw, db, api, conns>>

\* shutdown() again returns at once, and process.exit follows: the shutdown is cut short.
Cut ==
  /\ exit' = "cut"
  /\ UNCHANGED <<release, startup, plugins, client, loaded, started, stopped, threw, db, serving, shutdown>>

\* Without a handler the signal ends the process.
Signal ==
  /\ Alive /\ signals < MaxSignals
  /\ signals' = signals + 1
  /\ IF Handled /\ shutdown = "no" THEN BeginShutdown ELSE Cut
  /\ UNCHANGED <<force, crashes>>

ForceExit == force \/ Handled

Crash ==
  /\ Alive /\ crashes < MaxCrashes
  /\ crashes' = crashes + 1
  /\ force' = ForceExit
  /\ IF Handled /\ shutdown = "no" THEN BeginShutdown ELSE Cut
  /\ UNCHANGED signals

ForceTimer ==
  /\ Alive /\ force
  /\ exit' = "forced"
  /\ UNCHANGED <<release, startup, plugins, client, loaded, started, stopped, threw, db, serving, shutdown,
                 force, signals, crashes>>

-----------------------------------------------------------------------------
(* The rest of shutdown(): each part is tried, and what it throws is logged.    *)

After(part) ==
  CASE part = "plugins" -> "modules" [] part = "modules" -> "api"
    [] part = "api" -> "database" [] part = "database" -> "done"

Part(part) == Alive /\ shutdown = part /\ UNCHANGED <<release, startup, force, signals, crashes>>

Ends(part) ==
  /\ shutdown' = After(part)
  /\ exit' = IF After(part) = "done" THEN "done" ELSE "no"

\* The plugins have stopped, or their stop has failed; then the client is destroyed.
StopPlugins ==
  /\ Part("plugins") /\ Ends("plugins")
  /\ plugins' = IF plugins = "started" THEN "stopped" ELSE plugins
  /\ client' = "destroyed"
  /\ UNCHANGED <<release, loaded, started, stopped, threw, db, serving>>

\* Mutant: one module is left out.
AllButFirst == SubSeq(loaded, 2, Len(loaded))

ToStop == loaded

\* shutdownAll: the last loaded first; one that throws ends the loop.
StopModule ==
  /\ Part("modules") /\ Len(stopped) < Len(ToStop) /\ ~threw
  /\ stopped' = Append(stopped, Reverse(ToStop)[Len(stopped) + 1])
  /\ threw' \in BOOLEAN
  /\ UNCHANGED <<release, exit, shutdown, plugins, client, loaded, started, db, serving>>

\* Mutant: what a module throws is not caught.
AllCalled == Len(stopped) = Len(ToStop)

LoopOver == threw \/ Len(stopped) = Len(ToStop)

ModulesStopped ==
  /\ Part("modules") /\ LoopOver /\ Ends("modules")
  /\ UNCHANGED <<release, plugins, client, loaded, started, stopped, threw, db, serving>>

CloseServer ==
  /\ Part("api") /\ api = "listening"
  /\ api' = "closing"
  /\ UNCHANGED <<release, exit, shutdown, plugins, client, loaded, started, stopped, threw, db, conns, sweep>>

\* server.close calls back when the last connection has ended.
ServerClosed ==
  /\ Part("api") /\ api = "closing" /\ \A c \in Conns : conns[c] = "none"
  /\ Ends("api")
  /\ api' = "closed"
  /\ UNCHANGED <<release, plugins, client, loaded, started, stopped, threw, db, conns, sweep>>

\* sql.end() waits for the queries under way.
Disconnect ==
  /\ Part("database") /\ sweep \notin {"running", "last"}
  /\ Ends("database")
  /\ db' = "ended"
  /\ UNCHANGED <<release, plugins, client, loaded, started, stopped, threw, serving>>

\* The process manager starts it again, perhaps another release.
Restart ==
  /\ ~Alive /\ restarts < MaxRestarts
  /\ restarts' = restarts + 1
  /\ setup' \in Setups /\ order' = <<>> /\ refused' = "no"
  /\ startup' = "database" /\ exit' = "no" /\ plugins' = "none" /\ client' = "none"
  /\ loaded' = <<>> /\ started' = {} /\ stopped' = <<>> /\ threw' = FALSE
  /\ db' = "off" /\ api' = "off" /\ conns' = [c \in Conns |-> "none"] /\ sweep' = "off"
  /\ shutdown' = "no" /\ force' = FALSE /\ signals' = 0 /\ crashes' = 0
  /\ UNCHANGED ledger

ProcessNext ==
  \/ (\E m \in ToSet(Migrations(setup.catalog)) : Migrate(m)) \/ Migrated \/ Restart
  \/ ConnectDatabase \/ CreateClient \/ StartPlugins \/ LoadModules \/ StartModule
  \/ ModulesStarted \/ RunHealthChecks \/ Listen \/ Login \/ StartupFails
  \/ \E c \in Conns : Connect(c) \/ Answer(c) \/ Leave(c)
  \/ SweepBegins \/ SweepEnds
  \/ Signal \/ Crash \/ ForceTimer
  \/ StopPlugins \/ StopModule \/ ModulesStopped \/ CloseServer \/ ServerClosed \/ Disconnect

\* Handlers, the sweep, timers and the awaits of the shutdown come to an end (plugin hooks
\* have a timeout of their own).  Nothing makes a client leave its stream.
ProcessFairness ==
  /\ \A c \in Conns : WF_processVars(Answer(c))
  /\ WF_processVars(SweepEnds) /\ WF_processVars(ForceTimer)
  /\ WF_processVars(StopPlugins) /\ WF_processVars(StopModule) /\ WF_processVars(ModulesStopped)
  /\ WF_processVars(CloseServer) /\ WF_processVars(ServerClosed) /\ WF_processVars(Disconnect)

ProcessSpec == ProcessInit /\ [][ProcessNext]_processVars /\ ProcessFairness

-----------------------------------------------------------------------------
(* Properties *)

\* A request is only ever handled between the start of the modules and the end of the pool:
\* the order of the startup and the order of the shutdown together.  (Modules and plugins
\* may already be stopped: the server is closed after them.)
ServedByWhole ==
  Alive /\ (\E c \in Conns : conns[c] = "request") =>
    db = "on" /\ started = ToSet(loaded) /\ started = Ids(setup.catalog) \ setup.disabled

\* A process that exits at the end of its shutdown has stopped every module, the last loaded
\* first, unless one threw; has no connection left; has closed the pool; and has no sweep
\* scheduled or running.
OrderlyExit ==
  /\ IsPrefix(stopped, Reverse(loaded))
  /\ exit = "done" =>
       /\ threw \/ stopped = Reverse(loaded)
       /\ db = "ended" /\ api = "closed" /\ sweep = "off" /\ client = "destroyed"
       /\ plugins # "started" /\ \A c \in Conns : conns[c] = "none"

\* The catalog is judged and put in order as a definition that follows no search says:
\* startup refuses it exactly when it is not sound, the modules of its plugins start after
\* those they depend on, whatever the order of the catalog, and the graph of the manifests,
\* a search of its own, finds a cycle exactly when some module depends on itself
\* (validateCatalog, resolveDependencies, DependencyGraph.findCircularDependencies).
CatalogJudged ==
  /\ refused = "catalog" => ~Sound(setup.catalog)
  /\ plugins = "started" => Sound(setup.catalog)
  /\ setup.plugins =>
       \A id \in started : Needs(setup.catalog, id) \ setup.disabled \subseteq started
  /\ startup = "plugins" /\ ~DuplicateId(setup.catalog) =>
       DetectCycle(setup.catalog) = Circular(setup.catalog)

\* Plugins only run on the schema their release asks for: all its migrations are in the
\* ledger as they are now, whichever release applied them and wherever it was interrupted;
\* and no version was ever applied twice.
MigrationsHold ==
  /\ plugins = "started" => ToSet(Migrations(setup.catalog)) \subseteq ledger
  /\ \A m \in ledger : Cardinality(Recorded(ledger, m)) = 1

\* A crash ends the process whatever its clients do (forceExit); a shutdown ends it, too,
\* unless a client stays in its stream.
ProcessEnds ==
  /\ crashes > 0 ~> ~Alive
  /\ shutdown # "no" ~> ~Alive \/ \E c \in Conns : conns[c] = "stream"
=============================================================================
