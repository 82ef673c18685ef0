--------------------------- MODULE PluginLifecycle ---------------------------
(***************************************************************************)
(* The plugin core from bootstrap to exit: the loader creates the plugins   *)
(* of a catalog and publishes them in the registry, the coordinator starts  *)
(* them in dependency order with their event handlers and, on a failure or  *)
(* a signal, stops them in reverse order and disposes of what each owns.    *)
(* Hooks are the plugins' own asynchronous code: they settle, fail, or run  *)
(* into the coordinator's timeout, which cannot stop them.                  *)
(*                                                                          *)
(* Plugins are numbered in the order resolveDependencies gives them.        *)
(***************************************************************************)
EXTENDS Integers, FiniteSets, FiniteSetsExt

CONSTANTS
  N,            \* number of plugins in the catalog
  Requires,     \* per plugin: the plugins its manifest depends on
  Optional,     \* plugins whose requirement is "optional"
  Listeners,    \* plugins with declarative event definitions
  EventDeps,    \* per plugin: the plugins its event definitions depend on
  Cooperative,  \* plugins whose hooks stop when their signal is aborted
  Abortable,    \* did the caller pass an abort signal?
  MaxSignals    \* bound: SIGINT and SIGTERM the process receives

Plugins == 1..N

ASSUME CatalogAssumption ==
  /\ N \in Nat
  /\ Requires \in [Plugins -> SUBSET Plugins]
  /\ \A p \in Plugins : \A d \in Requires[p] : d < p
  /\ Optional \subseteq Plugins /\ Listeners \subseteq Plugins
  /\ EventDeps \in [Plugins -> SUBSET Nat]
ASSUME CallerAssumption ==
  Cooperative \subseteq Plugins /\ Abortable \in BOOLEAN /\ MaxSignals \in Nat

VARIABLES
  phase,     \* what the loader or the coordinator is doing
  at,        \* with which plugin
  failing,   \* was stop called by a failed startup?
  registry,  \* the published snapshot: "previous" or "catalog"
  started,   \* the coordinator's list of started plugins
  events,    \* per plugin: its event definitions in the event registry
  caps,      \* plugins with a capability registration not disposed of
  cleaned,   \* owners whose cleanup has run
  starting,  \* external: plugins whose start hook is executing
  stopping,  \* external: plugins whose stop hook is executing
  holds,     \* external: plugins that hold resources taken by their start hook
  stops,     \* history, per plugin: calls of its stop hook
  startCalled, \* history: plugins whose start hook was called
  faults,    \* history: plugins that failed, or ran into a timeout
  aborted,   \* was the caller's signal aborted?
  signals,   \* signals received
  exited     \* has the process ended?

coreVars == <<phase, at, failing, registry, started, events, caps, cleaned>>
hookVars == <<starting, stopping, holds, stops, startCalled>>
envVars  == <<faults, aborted, signals, exited>>
vars == <<coreVars, hookVars, envVars>>

Init ==
  /\ phase = "load" /\ at = 1 /\ failing = FALSE
  /\ registry = "previous"
  /\ started = {}
  /\ events = [p \in Plugins |-> "none"]
  /\ caps = {} /\ cleaned = {}
  /\ starting = {} /\ stopping = {} /\ holds = {}
  /\ stops = [p \in Plugins |-> 0]
  /\ startCalled = {}
  /\ faults = {} /\ aborted = FALSE
  /\ signals = 0 /\ exited = FALSE

Doing(ph) == ~exited /\ phase = ph

GoTo(ph, p) == phase' = ph /\ at' = p

\* A plugin whose hook runs may register capabilities through its context.
MayRegister(p) == caps' \in {caps, caps \cup {p}}

-----------------------------------------------------------------------------
(* Loading *)

Create ==
  /\ Doing("load") /\ at \in Plugins
  /\ MayRegister(at)
  /\ at' = at + 1
  /\ UNCHANGED <<phase, failing, registry, started, events, cleaned, hookVars, envVars>>

\* The factory throws, or returns an incompatible instance, whose stop hook
\* becomes one more disposer of its owner.
FactoryFails ==
  /\ Doing("load") /\ at \in Plugins
  /\ MayRegister(at)
  /\ faults' = faults \cup {at}
  /\ GoTo("unload", N)
  /\ UNCHANGED <<failing, registry, started, events, cleaned, hookVars,
                 aborted, signals, exited>>

\* cleanupOnce: the disposers of an owner run the first time only.
CleanUp(p) ==
  /\ caps' = IF p \in cleaned THEN caps ELSE caps \ {p}
  /\ cleaned' = cleaned \cup {p}

\* cleanupAll of a failed load, owner by owner in reverse order.
Unload ==
  /\ Doing("unload")
  /\ IF at = 0
     THEN GoTo("failed", 0) /\ UNCHANGED <<caps, cleaned>>
     ELSE GoTo("unload", at - 1) /\ CleanUp(at)
  /\ UNCHANGED <<failing, registry, started, events, hookVars, envVars>>

\* An event dependency that is no plugin of the catalog refuses the start.
AllAvailable == \A p \in Listeners : EventDeps[p] \subseteq Plugins

\* The staged registry is committed, and lifecycle.start is called.
Publish ==
  /\ Doing("load") /\ at = N + 1
  /\ registry' = "catalog"
  /\ IF AllAvailable
     THEN GoTo("start", 1) /\ UNCHANGED failing
     ELSE GoTo("stop", N) /\ failing' = TRUE
  /\ UNCHANGED <<started, events, caps, cleaned, hookVars, envVars>>

-----------------------------------------------------------------------------
(* Starting *)

\* What EventCoordinator.install checks of the owners a plugin depends on.
Installable(p) == \A d \in EventDeps[p] \ {p} : d \in Plugins /\ events[d] = "active"

\* A plugin failed: an optional one is cleaned up and left out, a required
\* one stops everything.
GiveUp(p) ==
  IF p \in Optional THEN GoTo("skip", p) /\ UNCHANGED failing
  ELSE GoTo("stop", N) /\ failing' = TRUE

\* install throws, or a source adapter does: no hook is called.
InstallFails ==
  /\ Doing("start") /\ at \in Listeners
  /\ \/ ~Installable(at) /\ UNCHANGED faults
     \/ Installable(at) /\ faults' = faults \cup {at}
  /\ GiveUp(at)
  /\ UNCHANGED <<registry, started, events, caps, cleaned, hookVars,
                 aborted, signals, exited>>

\* cleanupFailedPlugin begins with the plugin's stop hook.
Undo(p, running) ==
  /\ GoTo("undo", p)
  /\ starting' = running
  /\ stopping' = stopping \cup {p}
  /\ stops' = [stops EXCEPT ![p] = @ + 1]

\* An aborted signal fails the plugin before its start hook is called.
InvokeStart ==
  /\ Doing("start") /\ at \in Plugins
  /\ at \in Listeners => Installable(at)
  /\ events' = IF at \in Listeners THEN [events EXCEPT ![at] = "installed"] ELSE events
  /\ IF aborted
     THEN Undo(at, starting) /\ UNCHANGED startCalled
     ELSE /\ GoTo("starting", at)
          /\ starting' = starting \cup {at}
          /\ startCalled' = startCalled \cup {at}
          /\ UNCHANGED <<stopping, stops>>
  /\ UNCHANGED <<failing, registry, started, caps, cleaned, holds, envVars>>

StartSucceeds ==
  /\ Doing("starting")
  /\ starting' = starting \ {at}
  /\ holds' = holds \cup {at}
  /\ events' = IF at \in Listeners THEN [events EXCEPT ![at] = "active"] ELSE events
  /\ started' = started \cup {at}
  /\ GoTo("start", at + 1)
  /\ UNCHANGED <<failing, registry, caps, cleaned, stopping, stops, startCalled, envVars>>

\* A hook that fails may have taken resources before.
StartFails ==
  /\ Doing("starting")
  /\ holds' \in {holds, holds \cup {at}}
  /\ faults' = faults \cup {at}
  /\ Undo(at, starting \ {at})
  /\ UNCHANGED <<failing, registry, started, events, caps, cleaned, startCalled,
                 aborted, signals, exited>>

\* Executing hooks after the coordinator stopped waiting for one of plugin p.
Abandoned(running, p) == running \ (Cooperative \cap {p})

StartTimesOut ==
  /\ Doing("starting")
  /\ holds' \in {holds, holds \cup {at}}
  /\ faults' = faults \cup {at}
  /\ Undo(at, Abandoned(starting, at))
  /\ UNCHANGED <<failing, registry, started, events, caps, cleaned, startCalled,
                 aborted, signals, exited>>

StartAborted ==
  /\ Doing("starting") /\ aborted
  /\ holds' \in {holds, holds \cup {at}}
  /\ Undo(at, Abandoned(starting, at))
  /\ UNCHANGED <<failing, registry, started, events, caps, cleaned, startCalled, envVars>>

\* Mutant: the installation of the failed plugin is not stopped.
EndUndoInstalled(p) == GiveUp(p) /\ UNCHANGED events

\* The stop hook of the failed plugin is over: its events are removed.
EndUndo(p) ==
  /\ events' = [events EXCEPT ![p] = "none"]
  /\ GiveUp(p)

\* cleanupOwner of an optional plugin that failed.
Skip ==
  /\ Doing("skip")
  /\ CleanUp(at)
  /\ GoTo("start", at + 1)
  /\ UNCHANGED <<failing, registry, started, events, hookVars, envVars>>

Ready ==
  /\ Doing("start") /\ at = N + 1
  /\ GoTo("ready", at)
  /\ UNCHANGED <<failing, registry, started, events, caps, cleaned, hookVars, envVars>>

-----------------------------------------------------------------------------
(* Stopping *)

\* Mutant: started plugins are stopped in the order they were started.
NextToStopAscending ==
  LET left == {p \in started : stops[p] = 0} IN IF left = {} THEN {} ELSE {Min(left)}

\* The plugin stop turns to next, none when it has visited all.
NextToStop ==
  LET left == {p \in started : p <= at} IN IF left = {} THEN {} ELSE {Max(left)}

\* The parent signal of the stop hooks: start hands its own to stop.
SkipsHooks == failing /\ aborted

InvokeStop ==
  /\ Doing("stop")
  /\ \E p \in NextToStop :
       /\ events' = [events EXCEPT ![p] = "none"]
       /\ IF SkipsHooks
          THEN GoTo("stop", p - 1) /\ UNCHANGED <<stopping, stops>>
          ELSE /\ GoTo("stopHook", p)
               /\ stopping' = stopping \cup {p}
               /\ stops' = [stops EXCEPT ![p] = @ + 1]
  /\ UNCHANGED <<failing, registry, started, caps, cleaned, starting, holds,
                 startCalled, envVars>>

\* A stop hook is over, of a failed plugin or in the stop loop.
EndStop ==
  IF phase = "undo" THEN EndUndo(at)
  ELSE GoTo("stop", at - 1) /\ UNCHANGED <<events, failing>>

StopSucceeds ==
  /\ Doing("undo") \/ Doing("stopHook")
  /\ stopping' = stopping \ {at}
  /\ holds' = holds \ {at}
  /\ EndStop
  /\ UNCHANGED <<registry, started, caps, cleaned, starting, stops, startCalled, envVars>>

StopFails ==
  /\ Doing("undo") \/ Doing("stopHook")
  /\ stopping' = stopping \ {at}
  /\ faults' = faults \cup {at}
  /\ EndStop
  /\ UNCHANGED <<registry, started, caps, cleaned, starting, holds, stops, startCalled,
                 aborted, signals, exited>>

\* Mutant: the stop hooks of a shutdown are awaited without a timeout.
StopTimesOutUndoOnly ==
  /\ Doing("undo")
  /\ stopping' = Abandoned(stopping, at)
  /\ faults' = faults \cup {at}
  /\ EndStop
  /\ UNCHANGED <<registry, started, caps, cleaned, starting, holds, stops, startCalled,
                 aborted, signals, exited>>

StopTimesOut ==
  /\ Doing("undo") \/ Doing("stopHook")
  /\ stopping' = Abandoned(stopping, at)
  /\ faults' = faults \cup {at}
  /\ EndStop
  /\ UNCHANGED <<registry, started, caps, cleaned, starting, holds, stops, startCalled,
                 aborted, signals, exited>>

\* Only the stop loop of a failed startup listens to the caller's signal.
StopAborted ==
  /\ Doing("stopHook") /\ SkipsHooks
  /\ stopping' = Abandoned(stopping, at)
  /\ EndStop
  /\ UNCHANGED <<registry, started, caps, cleaned, starting, holds, stops, startCalled,
                 envVars>>

StopLoopEnds ==
  /\ Doing("stop") /\ NextToStop = {}
  /\ started' = {}
  /\ GoTo("dispose", N)
  /\ UNCHANGED <<failing, registry, events, caps, cleaned, hookVars, envVars>>

\* cleanupOwner of every owner in reverse order; a failed startup then
\* restores the registry.
Dispose ==
  /\ Doing("dispose")
  /\ IF at > 0
     THEN GoTo("dispose", at - 1) /\ CleanUp(at) /\ UNCHANGED registry
     ELSE /\ GoTo(IF failing THEN "failed" ELSE "stopped", 0)
          /\ registry' = IF failing THEN "previous" ELSE registry
          /\ UNCHANGED <<caps, cleaned>>
  /\ UNCHANGED <<failing, started, events, hookVars, envVars>>

-----------------------------------------------------------------------------
(* The process *)

\* The first signal shuts down, another one exits at once: its shutdown call
\* returns immediately, and process.exit follows.
Signal ==
  /\ ~exited /\ signals < MaxSignals
  /\ phase = "ready" \/ signals > 0
  /\ signals' = signals + 1
  /\ exited' = (signals > 0)
  /\ IF signals = 0 THEN GoTo("stop", N) ELSE UNCHANGED <<phase, at>>
  /\ UNCHANGED <<failing, registry, started, events, caps, cleaned, hookVars,
                 faults, aborted>>

Exit ==
  /\ Doing("stopped") \/ Doing("failed")
  /\ exited' = TRUE
  /\ UNCHANGED <<coreVars, hookVars, faults, aborted, signals>>

\* External: the caller aborts the signal it passed.
Abort ==
  /\ Abortable /\ ~exited /\ ~aborted
  /\ aborted' = TRUE
  /\ UNCHANGED <<coreVars, hookVars, faults, signals, exited>>

\* External: a start hook registers a capability through its context.
RegisterCapability ==
  /\ ~exited
  /\ \E p \in starting : caps' = caps \cup {p}
  /\ UNCHANGED <<phase, at, failing, registry, started, events, cleaned, hookVars, envVars>>

\* External: a hook nobody waits for any more ends.
LateStart ==
  /\ ~exited
  /\ \E p \in starting :
       /\ ~(phase = "starting" /\ at = p)
       /\ starting' = starting \ {p}
       /\ holds' = holds \cup {p}
  /\ UNCHANGED <<coreVars, stopping, stops, startCalled, envVars>>

LateStop ==
  /\ ~exited
  /\ \E p \in stopping :
       /\ ~(phase \in {"undo", "stopHook"} /\ at = p)
       /\ stopping' = stopping \ {p}
       /\ holds' = holds \ {p}
  /\ UNCHANGED <<coreVars, starting, stops, startCalled, envVars>>

-----------------------------------------------------------------------------

Loader == Create \/ FactoryFails \/ Unload \/ Publish

\* What the coordinator does by itself, and how the hooks it awaits may end.
Advance ==
  \/ InstallFails \/ InvokeStart \/ Skip \/ Ready
  \/ InvokeStop \/ StopLoopEnds \/ Dispose
HookEnds ==
  \/ StartSucceeds \/ StartFails \/ StartTimesOut \/ StartAborted
  \/ StopSucceeds \/ StopFails \/ StopTimesOut \/ StopAborted

External == Abort \/ RegisterCapability \/ LateStart \/ LateStop

Next == Loader \/ Advance \/ HookEnds \/ Signal \/ Exit \/ External

\* Factories settle; a hook may hang for ever, the timer it races fires.
Fairness ==
  /\ WF_vars(Loader) /\ WF_vars(Advance) /\ WF_vars(Exit)
  /\ WF_vars(StartTimesOut) /\ WF_vars(StopTimesOut)

Spec == Init /\ [][Next]_vars /\ Fairness

-----------------------------------------------------------------------------
(* Properties *)

Phases == {"load", "unload", "start", "starting", "undo", "skip", "ready",
           "stop", "stopHook", "dispose", "failed", "stopped"}

\* The coordinator's fields, the registry and the plugins' hooks
\* (lifecycle.ts:17-25, registry.ts:8).
TypeOK ==
  /\ phase \in Phases /\ at \in 0..(N + 1) /\ failing \in BOOLEAN
  /\ registry \in {"previous", "catalog"}
  /\ started \subseteq Plugins
  /\ events \in [Plugins -> {"none", "installed", "active"}]
  /\ caps \subseteq Plugins /\ cleaned \subseteq Plugins
  /\ starting \subseteq Plugins /\ stopping \subseteq Plugins /\ holds \subseteq Plugins
  /\ stops \in [Plugins -> Nat] /\ startCalled \subseteq Plugins
  /\ faults \subseteq Plugins /\ aborted \in BOOLEAN
  /\ signals \in 0..MaxSignals /\ exited \in BOOLEAN

Ended == phase \in {"failed", "stopped"}

\* However startup fails or shutdown goes, at its end no event definition is
\* left, no capability is left registered but by a start hook that outlives its
\* timeout, nobody holds resources but plugins whose own hooks failed, and
\* a failed startup has restored the registry (loader.ts:71-102, lifecycle.ts:76-102).
CleanEnd ==
  Ended =>
    /\ \A p \in Plugins : events[p] = "none"
    /\ caps \subseteq Plugins \ Cooperative
    /\ ~aborted => caps \cup holds \subseteq faults
    /\ phase = "failed" => registry = "previous"

\* A plugin is started only on top of what it depends on, but for optional
\* plugins that were left out (start, lifecycle.ts:40-67).
DependenciesFirst ==
  \A p \in started : Requires[p] \subseteq started \cup Optional

\* A plugin's stop hook is called when those of its dependents are over, failed
\* startups included, unless the caller's abort cut the stop short
\* (stop, lifecycle.ts:76-89).
DependentsStopFirst ==
  ~SkipsHooks =>
    \A q \in started : \A p \in Requires[q] \cap started :
      stops[p] > 0 => stops[q] > 0 /\ ~(phase = "stopHook" /\ at = q)

\* Events reach a plugin only between its start and its stop hook, and while
\* every plugin its handlers depend on has its own handlers
\* (install, event-registry.ts:43-54; lifecycle.ts:47-58, 79-82).
EventsWhileStarted ==
  \A p \in Plugins : events[p] = "active" =>
    /\ p \in started /\ stops[p] = 0 /\ p \notin starting
    /\ \A d \in EventDeps[p] \ {p} : events[d] = "active"

\* A stop hook is never called twice, and in the end every plugin whose start
\* hook was called had its stop hook called (lifecycle.ts:52-60, 76-96).
StoppedOnce ==
  /\ \A p \in Plugins : stops[p] <= 1
  /\ Ended /\ ~aborted => \A p \in startCalled : stops[p] = 1

\* A plugin runs inside the life of those it depends on: it starts after them,
\* stops before them, and gets events only in between and while theirs flow.
LifecycleOrder == DependenciesFirst /\ DependentsStopFirst /\ EventsWhileStarted

\* A hook that hangs holds nothing up for ever: startup gets somewhere and a
\* signal ends the process (invoke, lifecycle.ts:104-122; bootstrap.ts:484-534).
HooksHoldNothingUp ==
  /\ <>(phase \in {"ready", "failed"})
  /\ signals > 0 ~> exited

=============================================================================
