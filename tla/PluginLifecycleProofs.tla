------------------------ MODULE PluginLifecycleProofs ------------------------
(***************************************************************************)
(* Proofs about PluginLifecycle, for any catalog, requirements and event    *)
(* dependencies, and any failures, timeouts, aborts and signals.            *)
(***************************************************************************)
EXTENDS PluginLifecycle, DataLemmas

Loading  == phase \in {"load", "unload"}
Starting == phase \in {"start", "starting", "undo", "skip", "ready"}
Stopping == phase \in {"stop", "stopHook"}
Over     == phase \in {"dispose", "failed", "stopped"}

\* A hook of p outlives the wait for it.
MayOutlive(p) == p \notin Cooperative /\ (p \in faults \/ aborted)

-----------------------------------------------------------------------------
(* The inductive invariant *)

\* Where the position of each phase lies.
PositionInv ==
  /\ phase \in {"load", "start"} => at \in 1..(N + 1)
  /\ phase \in {"starting", "undo", "skip", "stopHook"} => at \in Plugins
  /\ phase = "ready" => at = N + 1
  /\ phase \in {"unload", "stop", "dispose"} => at \in 0..N
  /\ phase \in {"failed", "stopped"} => at = 0

\* Startup proceeds plugin by plugin, and only optional ones are left out.
StartedInv ==
  /\ Loading \/ Over => started = {}
  /\ Starting =>
       /\ \A p \in started : p < at
       /\ \A p \in Plugins : p < at => p \in started \cup Optional
       /\ phase = "skip" => at \in Optional
  /\ phase = "stopHook" => at \in started
  /\ DependenciesFirst

\* Only plugins in place have event definitions, on top of active ones.
EventsInv ==
  /\ \A p \in Plugins : events[p] = "active" =>
       /\ p \in started /\ p \notin starting
       /\ Stopping => p <= at
       /\ phase = "stopHook" => p # at
  /\ \A p \in Plugins : events[p] = "installed" => p = at /\ phase \in {"starting", "undo"}
  /\ phase = "starting" /\ at \in Listeners => events[at] = "installed"
  /\ \A p \in Plugins : events[p] # "none" => p \in Listeners
  /\ \A p \in Plugins : events[p] # "none" =>
       \A d \in EventDeps[p] \ {p} : d \in Plugins /\ d < p /\ events[d] = "active"

\* How far the stop hooks have been called.
StopsInv ==
  /\ \A p \in Plugins : stops[p] <= 1
  /\ Loading => \A p \in Plugins : stops[p] = 0
  /\ Starting => /\ \A p \in started : stops[p] = 0
                 /\ \A p \in Plugins : p > at => stops[p] = 0
  /\ phase \in {"start", "starting"} => \A p \in Plugins : p >= at => stops[p] = 0
  /\ phase = "undo" => stops[at] = 1
  /\ Stopping => \A p \in started :
       /\ p < at => stops[p] = 0
       /\ phase = "stop" /\ p = at => stops[p] = 0
       /\ phase = "stopHook" /\ p = at => stops[p] = 1
       /\ p > at => stops[p] = 1 \/ SkipsHooks

\* Whose start hook was called is started, or its stop hook was called.
CalledInv ==
  /\ Loading => startCalled = {}
  /\ \A p \in startCalled :
       \/ p \in started \/ stops[p] = 1
       \/ phase = "starting" /\ p = at
       \/ aborted

\* What hooks leave behind, and what the cleanup of an owner covers.
CleanupInv ==
  /\ \A p \in starting : (phase = "starting" /\ p = at) \/ MayOutlive(p)
  /\ \A p \in cleaned \cap caps : MayOutlive(p)
  /\ phase = "load" => cleaned = {}
  /\ Starting => \A p \in cleaned : p < at
  /\ phase \in {"unload", "dispose"} => \A p \in Plugins : p > at => p \in cleaned
  /\ Ended => cleaned = Plugins
  /\ \A p \in holds :
       \/ p \in faults \/ aborted
       \/ p \in started /\ (Stopping => p <= at)
  /\ Loading \/ phase = "failed" => registry = "previous"

Inv ==
  /\ TypeOK /\ PositionInv /\ StartedInv /\ EventsInv
  /\ StopsInv /\ CalledInv /\ CleanupInv

\* What TypeOK says of the lists, tables and counters.
SetsOK ==
  /\ registry \in {"previous", "catalog"}
  /\ started \subseteq Plugins
  /\ events \in [Plugins -> {"none", "installed", "active"}]
  /\ caps \subseteq Plugins /\ cleaned \subseteq Plugins
  /\ starting \subseteq Plugins /\ stopping \subseteq Plugins /\ holds \subseteq Plugins
  /\ stops \in [Plugins -> Nat] /\ startCalled \subseteq Plugins
  /\ faults \subseteq Plugins /\ signals \in 0..MaxSignals

-----------------------------------------------------------------------------
(* Lemmas *)

\* The plugins are numbered from 1.
LEMMA PluginNumbers ==
  N \in Nat /\ Plugins \subseteq Nat /\ \A i \in Int : i \in Plugins <=> 1 <= i /\ i <= N
BY CatalogAssumption DEF Plugins

\* NextToStop is the last started plugin that is not past, if there is one.
LEMMA NextToStopIsLast ==
  ASSUME TypeOK, at \in 0..N
  PROVE  /\ \A p \in NextToStop : /\ p \in started /\ p \in Plugins /\ p <= at
                                  /\ \A q \in started : q <= at => q <= p
         /\ NextToStop = {} => \A p \in started : p > at
<1> DEFINE left == {p \in started : p <= at}
<1>1. NextToStop = IF left = {} THEN {} ELSE {Max(left)}
  BY DEF NextToStop
<1>2. started \subseteq Nat /\ N \in Nat
  BY PluginNumbers DEF TypeOK
<1>3. CASE left = {}
  <2>1. \A p \in started : ~ (p <= at)
    BY <1>3
  <2> HIDE DEF left
  <2>2. NextToStop = {}
    BY <1>1, <1>3
  <2> QED BY <1>2, <2>1, <2>2
<1>4. CASE left # {}
  <2>0. left \in SUBSET (0..N)
    <3>1. \A p \in left : p \in 0..N
      BY <1>2
    <3> HIDE DEF left
    <3> QED BY <3>1
  <2>1. Max(left) \in left /\ \A q \in left : q <= Max(left)
    BY <1>2, <1>4, <2>0, MaxOfBounded
  <2> HIDE DEF left
  <2>2. NextToStop = {Max(left)}
    BY <1>1, <1>4
  <2> QED BY <2>1, <2>2 DEF left, TypeOK
<1> QED BY <1>3, <1>4

\* The stop loop turns to plugin p, the last started one that is not past.
StopsAt(p) ==
  /\ phase = "stop" /\ at \in 0..N
  /\ p \in Plugins /\ p <= at /\ \A q \in started : q <= at => q <= p
  /\ events' = [events EXCEPT ![p] = "none"]
  /\ \/ /\ SkipsHooks
        /\ phase' = "stop" /\ at' = p - 1 /\ stopping' = stopping /\ stops' = stops
     \/ /\ phase' = "stopHook" /\ at' = p
        /\ stopping' = stopping \cup {p}
        /\ stops' = [stops EXCEPT ![p] = @ + 1]
  /\ UNCHANGED <<failing, registry, started, caps, cleaned, starting, holds,
                 startCalled, envVars>>

LEMMA StopsTheLast ==
  ASSUME TypeOK, PositionInv, InvokeStop
  PROVE  \E p \in started : StopsAt(p)
<1>1. phase = "stop" /\ at \in 0..N
  BY DEF InvokeStop, Doing, PositionInv
<1>2. \A p \in NextToStop : /\ p \in started /\ p \in Plugins /\ p <= at
                            /\ \A q \in started : q <= at => q <= p
  BY <1>1, NextToStopIsLast
<1> QED BY <1>1, <1>2 DEF InvokeStop, GoTo, StopsAt

LEMMA HookOrAbort ==
  ASSUME NEW p, StopsAt(p)
  PROVE  aborted \/ (phase' = "stopHook" /\ at' = p)
<1>1. CASE aborted BY Zenon, <1>1
<1>2. CASE ~aborted
  <2>1. ~SkipsHooks
    BY <1>2 DEF SkipsHooks
  <2> QED BY <2>1 DEF StopsAt
<1> QED BY <1>1, <1>2

\* A failed plugin that is undone is left out, or all are stopped.
LEMMA UndoEnds ==
  ASSUME NEW p \in Plugins, EndUndo(p)
  PROVE  /\ events' = [events EXCEPT ![p] = "none"]
         /\ (phase' = "skip" /\ at' = p) \/ (phase' = "stop" /\ at' = N)
<1>1. CASE p \in Optional BY Zenon, <1>1 DEF EndUndo, GiveUp, GoTo
<1>2. CASE p \notin Optional BY <1>2 DEF EndUndo, GiveUp, GoTo
<1> QED BY <1>1, <1>2

\* When the stop loop ends, all started plugins are past.
LEMMA AllPast ==
  ASSUME TypeOK, PositionInv, StopLoopEnds
  PROVE  phase = "stop" /\ at \in 0..N /\ \A p \in started : p > at
<1>1. phase = "stop" /\ at \in 0..N /\ NextToStop = {}
  BY DEF StopLoopEnds, Doing, PositionInv
<1> QED BY <1>1, NextToStopIsLast

\* What the cleanup of an owner removes.
LEMMA CleansUp ==
  ASSUME TypeOK, NEW p \in Plugins, CleanUp(p)
  PROVE  /\ caps' \subseteq caps /\ caps' \subseteq Plugins
         /\ cleaned' = cleaned \cup {p} /\ cleaned' \subseteq Plugins
         /\ p \in caps' => p \in cleaned
BY DEF TypeOK, CleanUp

\* The stop of one more hook.
LEMMA OneMoreStop ==
  ASSUME TypeOK, NEW p \in Plugins, stops' = [stops EXCEPT ![p] = @ + 1]
  PROVE  /\ stops' \in [Plugins -> Nat]
         /\ stops'[p] = stops[p] + 1
         /\ \A q \in Plugins : q # p => stops'[q] = stops[q]
BY DEF TypeOK

-----------------------------------------------------------------------------
\* Every step keeps the positions.
LEMMA StepPosition == Inv /\ [Next]_vars => PositionInv'
<1> SUFFICES ASSUME Inv, [Next]_vars PROVE PositionInv'
  OBVIOUS
<1> USE CatalogAssumption DEF coreVars, hookVars, envVars, Doing, GoTo, MayRegister
<1>0. TypeOK /\ PositionInv /\ StartedInv
  BY DEF Inv
<1> USE DEF PositionInv, TypeOK, StartedInv, Plugins
<1>1. CASE Create BY <1>0, <1>1 DEF Create
<1>2. CASE FactoryFails BY <1>0, <1>2 DEF FactoryFails
<1>3. CASE Unload BY <1>0, <1>3 DEF Unload, CleanUp
<1>4. CASE Publish BY <1>0, <1>4 DEF Publish
<1>5. CASE InstallFails BY <1>0, <1>5 DEF InstallFails, GiveUp, Installable
<1>6. CASE InvokeStart BY <1>0, <1>6 DEF InvokeStart, Undo, Installable
<1>7. CASE Skip BY <1>0, <1>7 DEF Skip, CleanUp
<1>8. CASE Ready BY <1>0, <1>8 DEF Ready
<1>9. CASE InvokeStop
  <2>1. PICK p \in started : StopsAt(p)
    BY <1>0, <1>9, StopsTheLast
  <2> QED BY <1>0, <2>1 DEF StopsAt
<1>10. CASE StopLoopEnds BY <1>0, <1>10, AllPast DEF StopLoopEnds
<1>11. CASE Dispose BY <1>0, <1>11 DEF Dispose, CleanUp
<1>12. CASE StartSucceeds BY <1>0, <1>12 DEF StartSucceeds
<1>13. CASE StartFails BY <1>0, <1>13 DEF StartFails, Undo
<1>14. CASE StartTimesOut BY <1>0, <1>14 DEF StartTimesOut, Undo, Abandoned
<1>15. CASE StartAborted BY <1>0, <1>15 DEF StartAborted, Undo, Abandoned
<1>16. CASE StopSucceeds BY <1>0, <1>16 DEF StopSucceeds, EndStop, EndUndo, GiveUp
<1>17. CASE StopFails BY <1>0, <1>17 DEF StopFails, EndStop, EndUndo, GiveUp
<1>18. CASE StopTimesOut BY <1>0, <1>18 DEF StopTimesOut, EndStop, EndUndo, GiveUp, Abandoned
<1>19. CASE StopAborted
  BY <1>0, <1>19 DEF StopAborted, EndStop, EndUndo, GiveUp, Abandoned, SkipsHooks
<1>20. CASE Signal BY <1>0, <1>20 DEF Signal
<1>21. CASE Exit BY <1>0, <1>21 DEF Exit
<1>22. CASE Abort BY <1>0, <1>22 DEF Abort
<1>23. CASE RegisterCapability BY <1>0, <1>23 DEF RegisterCapability
<1>24. CASE LateStart BY <1>0, <1>24 DEF LateStart
<1>25. CASE LateStop BY <1>0, <1>25 DEF LateStop
<1>26. CASE UNCHANGED vars BY <1>0, <1>26 DEF vars
<1> QED
  BY <1>1, <1>2, <1>3, <1>4, <1>5, <1>6, <1>7, <1>8, <1>9, <1>10, <1>11, <1>12, <1>13,
     <1>14, <1>15, <1>16, <1>17, <1>18, <1>19, <1>20, <1>21, <1>22, <1>23, <1>24, <1>25,
     <1>26 DEF Next, Loader, Advance, HookEnds, External

\* Every step keeps what is known of the started plugins.
LEMMA StepStarted == Inv /\ [Next]_vars => StartedInv'
<1> SUFFICES ASSUME Inv, [Next]_vars PROVE StartedInv'
  OBVIOUS
<1> USE CatalogAssumption DEF coreVars, hookVars, envVars, Doing, GoTo, MayRegister
<1>0. TypeOK /\ PositionInv /\ StartedInv
  BY DEF Inv
<1> USE DEF StartedInv, TypeOK, PositionInv, DependenciesFirst, Loading, Starting, Over, Plugins
<1>1. CASE Create BY <1>0, <1>1 DEF Create
<1>2. CASE FactoryFails BY <1>0, <1>2 DEF FactoryFails
<1>3. CASE Unload BY <1>0, <1>3 DEF Unload, CleanUp
<1>4. CASE Publish BY <1>0, <1>4 DEF Publish
<1>5. CASE InstallFails BY <1>0, <1>5 DEF InstallFails, GiveUp, Installable
<1>6. CASE InvokeStart BY <1>0, <1>6 DEF InvokeStart, Undo, Installable
<1>7. CASE Skip BY <1>0, <1>7 DEF Skip, CleanUp
<1>8. CASE Ready BY <1>0, <1>8 DEF Ready
<1>9. CASE InvokeStop
  <2>1. PICK p \in started : StopsAt(p)
    BY <1>0, <1>9, StopsTheLast
  <2> QED BY <1>0, <2>1 DEF StopsAt
<1>10. CASE StopLoopEnds BY <1>0, <1>10, AllPast DEF StopLoopEnds
<1>11. CASE Dispose BY <1>0, <1>11 DEF Dispose, CleanUp
<1>12. CASE StartSucceeds BY <1>0, <1>12 DEF StartSucceeds
<1>13. CASE StartFails BY <1>0, <1>13 DEF StartFails, Undo
<1>14. CASE StartTimesOut BY <1>0, <1>14 DEF StartTimesOut, Undo, Abandoned
<1>15. CASE StartAborted BY <1>0, <1>15 DEF StartAborted, Undo, Abandoned
<1>16. CASE StopSucceeds BY SMTT(30), <1>0, <1>16 DEF StopSucceeds, EndStop, EndUndo, GiveUp
<1>17. CASE StopFails BY SMTT(30), <1>0, <1>17 DEF StopFails, EndStop, EndUndo, GiveUp
<1>18. CASE StopTimesOut BY SMTT(30), <1>0, <1>18 DEF StopTimesOut, EndStop, EndUndo, GiveUp, Abandoned
<1>19. CASE StopAborted
  BY <1>0, <1>19 DEF StopAborted, EndStop, EndUndo, GiveUp, Abandoned, SkipsHooks
<1>20. CASE Signal BY <1>0, <1>20 DEF Signal
<1>21. CASE Exit BY <1>0, <1>21 DEF Exit
<1>22. CASE Abort BY <1>0, <1>22 DEF Abort
<1>23. CASE RegisterCapability BY <1>0, <1>23 DEF RegisterCapability
<1>24. CASE LateStart BY <1>0, <1>24 DEF LateStart
<1>25. CASE LateStop BY <1>0, <1>25 DEF LateStop
<1>26. CASE UNCHANGED vars BY <1>0, <1>26 DEF vars
<1> QED
  BY <1>1, <1>2, <1>3, <1>4, <1>5, <1>6, <1>7, <1>8, <1>9, <1>10, <1>11, <1>12, <1>13,
     <1>14, <1>15, <1>16, <1>17, <1>18, <1>19, <1>20, <1>21, <1>22, <1>23, <1>24, <1>25,
     <1>26 DEF Next, Loader, Advance, HookEnds, External

\* Every step keeps what is known of the event definitions.
LEMMA StepEvents == Inv /\ [Next]_vars => EventsInv'
<1> SUFFICES ASSUME Inv, [Next]_vars PROVE EventsInv'
  OBVIOUS
<1> USE CatalogAssumption DEF coreVars, hookVars, envVars, Doing, GoTo, MayRegister
<1>0. TypeOK /\ PositionInv /\ StartedInv /\ EventsInv /\ CleanupInv
  BY DEF Inv
<1> USE DEF EventsInv, TypeOK, PositionInv, StartedInv, Stopping, Loading, Starting, Over,
  Plugins
<1>1. CASE Create BY <1>0, <1>1 DEF Create
<1>2. CASE FactoryFails BY <1>0, <1>2 DEF FactoryFails
<1>3. CASE Unload BY <1>0, <1>3 DEF Unload, CleanUp
<1>4. CASE Publish BY <1>0, <1>4 DEF Publish
<1>5. CASE InstallFails BY <1>0, <1>5 DEF InstallFails, GiveUp, Installable
<1>6. CASE InvokeStart BY <1>0, <1>6 DEF InvokeStart, Undo, Installable
<1>7. CASE Skip BY <1>0, <1>7 DEF Skip, CleanUp
<1>8. CASE Ready BY <1>0, <1>8 DEF Ready
<1>9. CASE InvokeStop
  <2>1. PICK p \in started : StopsAt(p)
    BY <1>0, <1>9, StopsTheLast
  <2> QED BY <1>0, <2>1 DEF StopsAt
<1>10. CASE StopLoopEnds
  <2>1. phase = "stop" /\ \A p \in started : p > at
    BY <1>0, <1>10, AllPast
  <2>2. \A p \in Plugins : events[p] = "none"
    BY <1>0, <2>1
  <2> QED BY <1>0, <1>10, <2>1, <2>2 DEF StopLoopEnds
<1>11. CASE Dispose BY <1>0, <1>11 DEF Dispose, CleanUp
<1>12. CASE StartSucceeds
  <2>1. /\ at \in Plugins /\ events[at] # "active"
        /\ events' \in [Plugins -> {"none", "installed", "active"}]
        /\ \A p \in Plugins : p # at => events'[p] = events[p] /\ events[p] # "installed"
        /\ events'[at] \in {"none", "active"} /\ (events'[at] = "active" => events[at] = "installed")
    BY <1>0, <1>12 DEF StartSucceeds
  <2> QED BY <1>0, <1>12, <2>1 DEF StartSucceeds
<1>13. CASE StartFails BY <1>0, <1>13 DEF StartFails, Undo
<1>14. CASE StartTimesOut BY <1>0, <1>14 DEF StartTimesOut, Undo, Abandoned
<1>15. CASE StartAborted BY <1>0, <1>15 DEF StartAborted, Undo, Abandoned
<1>16. CASE StopSucceeds
  <2>1. CASE phase = "undo"
    <3>0. EndUndo(at) /\ at \in Plugins /\ UNCHANGED <<started, starting>>
      BY <1>0, <1>16, <2>1 DEF StopSucceeds, EndStop
    <3>1. /\ at \in Plugins /\ events' = [events EXCEPT ![at] = "none"]
          /\ (phase' = "skip" /\ at' = at) \/ (phase' = "stop" /\ at' = N)
          /\ UNCHANGED <<started, starting>>
      BY <3>0, UndoEnds
    <3> QED BY <1>0, <2>1, <3>1
  <2>2. CASE phase = "stopHook"
    BY <1>0, <1>16, <2>2 DEF StopSucceeds, EndStop
  <2> QED BY <1>16, <2>1, <2>2 DEF StopSucceeds
<1>17. CASE StopFails
  <2>1. CASE phase = "undo"
    <3>0. EndUndo(at) /\ at \in Plugins /\ UNCHANGED <<started, starting>>
      BY <1>0, <1>17, <2>1 DEF StopFails, EndStop
    <3>1. /\ at \in Plugins /\ events' = [events EXCEPT ![at] = "none"]
          /\ (phase' = "skip" /\ at' = at) \/ (phase' = "stop" /\ at' = N)
          /\ UNCHANGED <<started, starting>>
      BY <3>0, UndoEnds
    <3> QED BY <1>0, <2>1, <3>1
  <2>2. CASE phase = "stopHook"
    BY <1>0, <1>17, <2>2 DEF StopFails, EndStop
  <2> QED BY <1>17, <2>1, <2>2 DEF StopFails
<1>18. CASE StopTimesOut
  <2>1. CASE phase = "undo"
    <3>0. EndUndo(at) /\ at \in Plugins /\ UNCHANGED <<started, starting>>
      BY <1>0, <1>18, <2>1 DEF StopTimesOut, EndStop
    <3>1. /\ at \in Plugins /\ events' = [events EXCEPT ![at] = "none"]
          /\ (phase' = "skip" /\ at' = at) \/ (phase' = "stop" /\ at' = N)
          /\ UNCHANGED <<started, starting>>
      BY <3>0, UndoEnds
    <3> QED BY <1>0, <2>1, <3>1
  <2>2. CASE phase = "stopHook"
    BY <1>0, <1>18, <2>2 DEF StopTimesOut, EndStop
  <2> QED BY <1>18, <2>1, <2>2 DEF StopTimesOut
<1>19. CASE StopAborted
  BY <1>0, <1>19 DEF StopAborted, EndStop, EndUndo, GiveUp, Abandoned, SkipsHooks
<1>20. CASE Signal BY <1>0, <1>20 DEF Signal
<1>21. CASE Exit BY <1>0, <1>21 DEF Exit
<1>22. CASE Abort BY <1>0, <1>22 DEF Abort
<1>23. CASE RegisterCapability BY <1>0, <1>23 DEF RegisterCapability
<1>24. CASE LateStart BY <1>0, <1>24 DEF LateStart
<1>25. CASE LateStop BY <1>0, <1>25 DEF LateStop
<1>26. CASE UNCHANGED vars BY <1>0, <1>26 DEF vars
<1> QED
  BY <1>1, <1>2, <1>3, <1>4, <1>5, <1>6, <1>7, <1>8, <1>9, <1>10, <1>11, <1>12, <1>13,
     <1>14, <1>15, <1>16, <1>17, <1>18, <1>19, <1>20, <1>21, <1>22, <1>23, <1>24, <1>25,
     <1>26 DEF Next, Loader, Advance, HookEnds, External

\* Every step keeps what is known of the calls of stop hooks.
LEMMA StepStops == Inv /\ [Next]_vars => StopsInv'
<1> SUFFICES ASSUME Inv, [Next]_vars PROVE StopsInv'
  OBVIOUS
<1> USE CatalogAssumption DEF coreVars, hookVars, envVars, Doing, GoTo, MayRegister
<1>0. TypeOK /\ PositionInv /\ StartedInv /\ StopsInv
  BY DEF Inv
<1> USE DEF StopsInv, TypeOK, PositionInv, StartedInv, Stopping, SkipsHooks, Loading,
  Starting, Over, Plugins
<1>1. CASE Create BY <1>0, <1>1 DEF Create
<1>2. CASE FactoryFails BY <1>0, <1>2 DEF FactoryFails
<1>3. CASE Unload BY <1>0, <1>3 DEF Unload, CleanUp
<1>4. CASE Publish BY <1>0, <1>4 DEF Publish
<1>5. CASE InstallFails BY <1>0, <1>5 DEF InstallFails, GiveUp, Installable
<1>6. CASE InvokeStart BY <1>0, <1>6 DEF InvokeStart, Undo, Installable
<1>7. CASE Skip BY <1>0, <1>7 DEF Skip, CleanUp
<1>8. CASE Ready BY <1>0, <1>8 DEF Ready
<1>9. CASE InvokeStop
  <2>1. PICK p \in started : StopsAt(p)
    BY <1>0, <1>9, StopsTheLast
  <2> QED BY SMTT(30), <1>0, <2>1 DEF StopsAt
<1>10. CASE StopLoopEnds BY <1>0, <1>10, AllPast DEF StopLoopEnds
<1>11. CASE Dispose BY <1>0, <1>11 DEF Dispose, CleanUp
<1>12. CASE StartSucceeds BY <1>0, <1>12 DEF StartSucceeds
<1>13. CASE StartFails BY <1>0, <1>13 DEF StartFails, Undo
<1>14. CASE StartTimesOut BY <1>0, <1>14 DEF StartTimesOut, Undo, Abandoned
<1>15. CASE StartAborted BY <1>0, <1>15 DEF StartAborted, Undo, Abandoned
<1>16. CASE StopSucceeds BY <1>0, <1>16 DEF StopSucceeds, EndStop, EndUndo, GiveUp
<1>17. CASE StopFails BY <1>0, <1>17 DEF StopFails, EndStop, EndUndo, GiveUp
<1>18. CASE StopTimesOut BY <1>0, <1>18 DEF StopTimesOut, EndStop, EndUndo, GiveUp, Abandoned
<1>19. CASE StopAborted
  BY <1>0, <1>19 DEF StopAborted, EndStop, EndUndo, GiveUp, Abandoned, SkipsHooks
<1>20. CASE Signal BY <1>0, <1>20 DEF Signal
<1>21. CASE Exit BY <1>0, <1>21 DEF Exit
<1>22. CASE Abort BY <1>0, <1>22 DEF Abort
<1>23. CASE RegisterCapability BY <1>0, <1>23 DEF RegisterCapability
<1>24. CASE LateStart BY <1>0, <1>24 DEF LateStart
<1>25. CASE LateStop BY <1>0, <1>25 DEF LateStop
<1>26. CASE UNCHANGED vars BY <1>0, <1>26 DEF vars
<1> QED
  BY <1>1, <1>2, <1>3, <1>4, <1>5, <1>6, <1>7, <1>8, <1>9, <1>10, <1>11, <1>12, <1>13,
     <1>14, <1>15, <1>16, <1>17, <1>18, <1>19, <1>20, <1>21, <1>22, <1>23, <1>24, <1>25,
     <1>26 DEF Next, Loader, Advance, HookEnds, External

\* Every step keeps what is known of the plugins whose start hook was called.
LEMMA StepCalled == Inv /\ [Next]_vars => CalledInv'
<1> SUFFICES ASSUME Inv, [Next]_vars PROVE CalledInv'
  OBVIOUS
<1> USE CatalogAssumption DEF coreVars, hookVars, envVars, Doing, GoTo, MayRegister
<1>0. TypeOK /\ PositionInv /\ StartedInv /\ StopsInv /\ CalledInv
  BY DEF Inv
<1> USE DEF CalledInv, TypeOK, PositionInv, StartedInv, StopsInv, Stopping, SkipsHooks,
  Loading, Starting, Over, Plugins
<1>1. CASE Create BY <1>0, <1>1 DEF Create
<1>2. CASE FactoryFails BY <1>0, <1>2 DEF FactoryFails
<1>3. CASE Unload BY <1>0, <1>3 DEF Unload, CleanUp
<1>4. CASE Publish BY <1>0, <1>4 DEF Publish
<1>5. CASE InstallFails BY <1>0, <1>5 DEF InstallFails, GiveUp, Installable
<1>6. CASE InvokeStart
  <2>1. CASE aborted
    <3>1. aborted' /\ startCalled' = startCalled /\ phase' = "undo"
      BY <1>6, <2>1 DEF InvokeStart, Undo
    <3> QED BY <1>0, <3>1
  <2>2. CASE ~aborted
    <3>1. /\ startCalled' = startCalled \cup {at} /\ phase' = "starting" /\ at' = at
          /\ phase = "start" /\ UNCHANGED <<started, stops, aborted>>
      BY <1>6, <2>2 DEF InvokeStart
    <3> QED BY <1>0, <3>1
  <2> QED BY <2>1, <2>2
<1>7. CASE Skip BY <1>0, <1>7 DEF Skip, CleanUp
<1>8. CASE Ready BY <1>0, <1>8 DEF Ready
<1>9. CASE InvokeStop
  <2>1. PICK p \in started : StopsAt(p)
    BY <1>0, <1>9, StopsTheLast
  <2> QED BY <1>0, <2>1 DEF StopsAt
<1>10. CASE StopLoopEnds BY <1>0, <1>10, AllPast DEF StopLoopEnds
<1>11. CASE Dispose BY <1>0, <1>11 DEF Dispose, CleanUp
<1>12. CASE StartSucceeds BY <1>0, <1>12 DEF StartSucceeds
<1>13. CASE StartFails BY <1>0, <1>13 DEF StartFails, Undo
<1>14. CASE StartTimesOut BY <1>0, <1>14 DEF StartTimesOut, Undo, Abandoned
<1>15. CASE StartAborted BY <1>0, <1>15 DEF StartAborted, Undo, Abandoned
<1>16. CASE StopSucceeds BY <1>0, <1>16 DEF StopSucceeds, EndStop, EndUndo, GiveUp
<1>17. CASE StopFails BY <1>0, <1>17 DEF StopFails, EndStop, EndUndo, GiveUp
<1>18. CASE StopTimesOut BY <1>0, <1>18 DEF StopTimesOut, EndStop, EndUndo, GiveUp, Abandoned
<1>19. CASE StopAborted
  BY <1>0, <1>19 DEF StopAborted, EndStop, EndUndo, GiveUp, Abandoned, SkipsHooks
<1>20. CASE Signal BY <1>0, <1>20 DEF Signal
<1>21. CASE Exit BY <1>0, <1>21 DEF Exit
<1>22. CASE Abort BY <1>0, <1>22 DEF Abort
<1>23. CASE RegisterCapability BY <1>0, <1>23 DEF RegisterCapability
<1>24. CASE LateStart BY <1>0, <1>24 DEF LateStart
<1>25. CASE LateStop BY <1>0, <1>25 DEF LateStop
<1>26. CASE UNCHANGED vars BY <1>0, <1>26 DEF vars
<1> QED
  BY <1>1, <1>2, <1>3, <1>4, <1>5, <1>6, <1>7, <1>8, <1>9, <1>10, <1>11, <1>12, <1>13,
     <1>14, <1>15, <1>16, <1>17, <1>18, <1>19, <1>20, <1>21, <1>22, <1>23, <1>24, <1>25,
     <1>26 DEF Next, Loader, Advance, HookEnds, External

\* Every step keeps what is known of the cleanup.
LEMMA StepCleanup == Inv /\ [Next]_vars => CleanupInv'
<1> SUFFICES ASSUME Inv, [Next]_vars PROVE CleanupInv'
  OBVIOUS
<1> USE CatalogAssumption DEF coreVars, hookVars, envVars, Doing, GoTo, MayRegister
<1>0. TypeOK /\ PositionInv /\ StartedInv /\ CleanupInv
  BY DEF Inv
<1> USE DEF CleanupInv, TypeOK, PositionInv, StartedInv, Stopping, MayOutlive, Ended,
  Loading, Starting, Over, Plugins
<1>1. CASE Create BY <1>0, <1>1 DEF Create
<1>2. CASE FactoryFails BY <1>0, <1>2 DEF FactoryFails
<1>3. CASE Unload
  <2>1. CASE at = 0
    <3>0. \A p \in Plugins : p \in cleaned
      BY <1>0, <1>3, <2>1 DEF Unload
    <3>1. cleaned = Plugins
      BY <1>0, <3>0 DEF TypeOK
    <3> QED BY <1>0, <1>3, <2>1, <3>1 DEF Unload
  <2>2. CASE at # 0
    <3>1. /\ at \in Plugins /\ CleanUp(at) /\ at' = at - 1 /\ phase' = phase
          /\ UNCHANGED <<registry, started, starting, holds, faults, aborted>>
      BY <1>0, <1>3, <2>2 DEF Unload
    <3>2. /\ caps' \subseteq caps /\ cleaned' = cleaned \cup {at} /\ (at \in caps' => at \in cleaned)
      BY <1>0, <3>1, CleansUp
    <3>3. \A p \in Plugins : p > at' => p \in cleaned'
      BY <1>0, <1>3, <3>1, <3>2 DEF Unload
    <3> QED BY <1>0, <1>3, <3>1, <3>2, <3>3 DEF Unload
  <2> QED BY <2>1, <2>2
<1>4. CASE Publish BY <1>0, <1>4 DEF Publish
<1>5. CASE InstallFails BY <1>0, <1>5 DEF InstallFails, GiveUp, Installable
<1>6. CASE InvokeStart BY <1>0, <1>6 DEF InvokeStart, Undo, Installable
<1>7. CASE Skip BY <1>0, <1>7 DEF Skip, CleanUp
<1>8. CASE Ready BY <1>0, <1>8 DEF Ready
<1>9. CASE InvokeStop
  <2>1. PICK p \in started : StopsAt(p)
    BY <1>0, <1>9, StopsTheLast
  <2>a. aborted \/ (phase' = "stopHook" /\ at' = p)
    BY <2>1, HookOrAbort
  <2>b. phase = "stop" /\ phase' \in {"stop", "stopHook"} /\ \A q \in started : q <= at => q <= p
    BY <2>1 DEF StopsAt
  <2>2. /\ phase' \in {"stop", "stopHook"}
        /\ \A q \in holds \cap started : q <= at' \/ q \in faults \/ aborted
    BY <1>0, <2>a, <2>b
  <2>3. UNCHANGED <<registry, started, caps, cleaned, starting, holds, faults, aborted>>
    BY <2>1 DEF StopsAt
  <2> QED BY <1>0, <2>b, <2>2, <2>3
<1>10. CASE StopLoopEnds
  <2>1. started = {} \/ started # {}
    OBVIOUS
  <2> QED BY SMTT(30), <1>0, <1>10, <2>1, AllPast DEF StopLoopEnds
<1>11. CASE Dispose
  <2>1. CASE at = 0
    <3>0. \A p \in Plugins : p \in cleaned
      BY <1>0, <1>11, <2>1 DEF Dispose
    <3>1. cleaned = Plugins
      BY <1>0, <3>0 DEF TypeOK
    <3> QED BY <1>0, <1>11, <2>1, <3>1 DEF Dispose
  <2>2. CASE at # 0
    <3>1. /\ at \in Plugins /\ CleanUp(at) /\ at' = at - 1 /\ phase' = phase
          /\ UNCHANGED <<registry, started, starting, holds, faults, aborted>>
      BY <1>0, <1>11, <2>2 DEF Dispose
    <3>2. /\ caps' \subseteq caps /\ cleaned' = cleaned \cup {at} /\ (at \in caps' => at \in cleaned)
      BY <1>0, <3>1, CleansUp
    <3>3. \A p \in Plugins : p > at' => p \in cleaned'
      BY <1>0, <1>11, <3>1, <3>2 DEF Dispose
    <3> QED BY <1>0, <1>11, <3>1, <3>2, <3>3 DEF Dispose
  <2> QED BY <2>1, <2>2
<1>12. CASE StartSucceeds BY <1>0, <1>12 DEF StartSucceeds
<1>13. CASE StartFails BY <1>0, <1>13 DEF StartFails, Undo
<1>14. CASE StartTimesOut BY <1>0, <1>14 DEF StartTimesOut, Undo, Abandoned
<1>15. CASE StartAborted BY <1>0, <1>15 DEF StartAborted, Undo, Abandoned
<1>16. CASE StopSucceeds BY <1>0, <1>16 DEF StopSucceeds, EndStop, EndUndo, GiveUp
<1>17. CASE StopFails BY <1>0, <1>17 DEF StopFails, EndStop, EndUndo, GiveUp
<1>18. CASE StopTimesOut BY <1>0, <1>18 DEF StopTimesOut, EndStop, EndUndo, GiveUp, Abandoned
<1>19. CASE StopAborted
  BY <1>0, <1>19 DEF StopAborted, EndStop, EndUndo, GiveUp, Abandoned, SkipsHooks
<1>20. CASE Signal BY <1>0, <1>20 DEF Signal
<1>21. CASE Exit BY <1>0, <1>21 DEF Exit
<1>22. CASE Abort BY <1>0, <1>22 DEF Abort
<1>23. CASE RegisterCapability BY <1>0, <1>23 DEF RegisterCapability
<1>24. CASE LateStart BY <1>0, <1>24 DEF LateStart
<1>25. CASE LateStop BY <1>0, <1>25 DEF LateStop
<1>26. CASE UNCHANGED vars BY <1>0, <1>26 DEF vars
<1> QED
  BY <1>1, <1>2, <1>3, <1>4, <1>5, <1>6, <1>7, <1>8, <1>9, <1>10, <1>11, <1>12, <1>13,
     <1>14, <1>15, <1>16, <1>17, <1>18, <1>19, <1>20, <1>21, <1>22, <1>23, <1>24, <1>25,
     <1>26 DEF Next, Loader, Advance, HookEnds, External

\* Every step keeps the flags Boolean.
LEMMA StepFlags == Inv /\ [Next]_vars => failing' \in BOOLEAN /\ aborted' \in BOOLEAN /\ exited' \in BOOLEAN
<1> SUFFICES ASSUME Inv, [Next]_vars PROVE failing' \in BOOLEAN /\ aborted' \in BOOLEAN /\ exited' \in BOOLEAN
  OBVIOUS
<1> USE DEF coreVars, hookVars, envVars, Doing, GoTo, MayRegister
<1>0. TypeOK
  BY DEF Inv
<1> USE DEF TypeOK
<1>1. CASE Create BY Zenon, <1>0, <1>1 DEF Create
<1>2. CASE FactoryFails BY Zenon, <1>0, <1>2 DEF FactoryFails
<1>3. CASE Unload BY Zenon, <1>0, <1>3 DEF Unload, CleanUp
<1>4. CASE Publish BY Zenon, <1>0, <1>4 DEF Publish
<1>5. CASE InstallFails BY Zenon, <1>0, <1>5 DEF InstallFails, GiveUp, Installable
<1>6. CASE InvokeStart BY Zenon, <1>0, <1>6 DEF InvokeStart, Undo, Installable
<1>7. CASE Skip BY Zenon, <1>0, <1>7 DEF Skip, CleanUp
<1>8. CASE Ready BY Zenon, <1>0, <1>8 DEF Ready
<1>9. CASE InvokeStop BY Zenon, <1>0, <1>9 DEF InvokeStop
<1>10. CASE StopLoopEnds BY Zenon, <1>0, <1>10 DEF StopLoopEnds
<1>11. CASE Dispose BY Zenon, <1>0, <1>11 DEF Dispose, CleanUp
<1>12. CASE StartSucceeds BY Zenon, <1>0, <1>12 DEF StartSucceeds
<1>13. CASE StartFails BY Zenon, <1>0, <1>13 DEF StartFails, Undo
<1>14. CASE StartTimesOut BY Zenon, <1>0, <1>14 DEF StartTimesOut, Undo, Abandoned
<1>15. CASE StartAborted BY Zenon, <1>0, <1>15 DEF StartAborted, Undo, Abandoned
<1>16. CASE StopSucceeds BY Zenon, <1>0, <1>16 DEF StopSucceeds, EndStop, EndUndo, GiveUp
<1>17. CASE StopFails BY Zenon, <1>0, <1>17 DEF StopFails, EndStop, EndUndo, GiveUp
<1>18. CASE StopTimesOut BY Zenon, <1>0, <1>18 DEF StopTimesOut, EndStop, EndUndo, GiveUp, Abandoned
<1>19. CASE StopAborted
  BY Zenon, <1>0, <1>19 DEF StopAborted, EndStop, EndUndo, GiveUp, Abandoned, SkipsHooks
<1>20. CASE Signal
  <2>1. exited' \in BOOLEAN
    BY <1>20 DEF Signal
  <2> QED BY Zenon, <1>0, <1>20, <2>1 DEF Signal
<1>21. CASE Exit BY Zenon, <1>0, <1>21 DEF Exit
<1>22. CASE Abort BY Zenon, <1>0, <1>22 DEF Abort
<1>23. CASE RegisterCapability BY Zenon, <1>0, <1>23 DEF RegisterCapability
<1>24. CASE LateStart BY Zenon, <1>0, <1>24 DEF LateStart
<1>25. CASE LateStop BY Zenon, <1>0, <1>25 DEF LateStop
<1>26. CASE UNCHANGED vars BY <1>0, <1>26 DEF vars
<1> QED
  BY <1>1, <1>2, <1>3, <1>4, <1>5, <1>6, <1>7, <1>8, <1>9, <1>10, <1>11, <1>12, <1>13,
     <1>14, <1>15, <1>16, <1>17, <1>18, <1>19, <1>20, <1>21, <1>22, <1>23, <1>24, <1>25,
     <1>26 DEF Next, Loader, Advance, HookEnds, External

\* Every step leads to a phase, at a position of the catalog.
LEMMA StepPhases == Inv /\ [Next]_vars => phase' \in Phases /\ at' \in 0..(N + 1)
<1> SUFFICES ASSUME Inv, [Next]_vars PROVE phase' \in Phases /\ at' \in 0..(N + 1)
  OBVIOUS
<1> USE PluginNumbers, StepPosition DEF coreVars, hookVars, envVars, Doing, GoTo, MayRegister
<1>0. TypeOK /\ PositionInv
  BY DEF Inv
<1> USE DEF Phases, TypeOK, PositionInv
<1>1. CASE Create BY <1>0, <1>1 DEF Create
<1>2. CASE FactoryFails BY <1>0, <1>2 DEF FactoryFails
<1>3. CASE Unload BY <1>0, <1>3 DEF Unload, CleanUp
<1>4. CASE Publish BY <1>0, <1>4 DEF Publish
<1>5. CASE InstallFails BY <1>0, <1>5 DEF InstallFails, GiveUp, Installable
<1>6. CASE InvokeStart BY <1>0, <1>6 DEF InvokeStart, Undo, Installable
<1>7. CASE Skip BY <1>0, <1>7 DEF Skip, CleanUp
<1>8. CASE Ready BY <1>0, <1>8 DEF Ready
<1>9. CASE InvokeStop
  <2>1. PICK p \in started : StopsAt(p)
    BY <1>0, <1>9, StopsTheLast
  <2> QED BY <1>0, <2>1 DEF StopsAt
<1>10. CASE StopLoopEnds BY <1>0, <1>10, AllPast DEF StopLoopEnds
<1>11. CASE Dispose BY <1>0, <1>11 DEF Dispose, CleanUp
<1>12. CASE StartSucceeds BY <1>0, <1>12 DEF StartSucceeds
<1>13. CASE StartFails BY <1>0, <1>13 DEF StartFails, Undo
<1>14. CASE StartTimesOut BY <1>0, <1>14 DEF StartTimesOut, Undo, Abandoned
<1>15. CASE StartAborted BY <1>0, <1>15 DEF StartAborted, Undo, Abandoned
<1>16. CASE StopSucceeds BY <1>0, <1>16 DEF StopSucceeds, EndStop, EndUndo, GiveUp
<1>17. CASE StopFails BY <1>0, <1>17 DEF StopFails, EndStop, EndUndo, GiveUp
<1>18. CASE StopTimesOut BY <1>0, <1>18 DEF StopTimesOut, EndStop, EndUndo, GiveUp, Abandoned
<1>19. CASE StopAborted
  BY <1>0, <1>19 DEF StopAborted, EndStop, EndUndo, GiveUp, Abandoned, SkipsHooks
<1>20. CASE Signal BY <1>0, <1>20 DEF Signal
<1>21. CASE Exit BY <1>0, <1>21 DEF Exit
<1>22. CASE Abort BY <1>0, <1>22 DEF Abort
<1>23. CASE RegisterCapability BY <1>0, <1>23 DEF RegisterCapability
<1>24. CASE LateStart BY <1>0, <1>24 DEF LateStart
<1>25. CASE LateStop BY <1>0, <1>25 DEF LateStop
<1>26. CASE UNCHANGED vars BY <1>0, <1>26 DEF vars
<1> QED
  BY <1>1, <1>2, <1>3, <1>4, <1>5, <1>6, <1>7, <1>8, <1>9, <1>10, <1>11, <1>12, <1>13,
     <1>14, <1>15, <1>16, <1>17, <1>18, <1>19, <1>20, <1>21, <1>22, <1>23, <1>24, <1>25,
     <1>26 DEF Next, Loader, Advance, HookEnds, External

\* Every step keeps the types of the lists, tables and counters.
LEMMA StepSets == Inv /\ [Next]_vars => SetsOK'
<1> SUFFICES ASSUME Inv, [Next]_vars PROVE SetsOK'
  OBVIOUS
<1> USE PluginNumbers DEF coreVars, hookVars, envVars, Doing, GoTo, MayRegister
<1>0. TypeOK /\ PositionInv
  BY DEF Inv
<1> USE DEF SetsOK, PositionInv, TypeOK
<1>1. CASE Create BY <1>0, <1>1 DEF Create
<1>2. CASE FactoryFails BY <1>0, <1>2 DEF FactoryFails
<1>3. CASE Unload
  <2>1. CASE at = 0
    BY <1>0, <1>3, <2>1 DEF Unload
  <2>2. CASE at # 0
    <3>1. at \in Plugins /\ CleanUp(at)
      BY <1>0, <1>3, <2>2 DEF Unload
    <3>2. caps' \subseteq Plugins /\ cleaned' \subseteq Plugins
      BY <1>0, <3>1, CleansUp
    <3> QED BY <1>0, <1>3, <2>2, <3>2 DEF Unload
  <2> QED BY <2>1, <2>2
<1>4. CASE Publish BY <1>0, <1>4 DEF Publish
<1>5. CASE InstallFails
  <2>1. at \in Plugins /\ faults' \subseteq Plugins
    BY <1>0, <1>5, CatalogAssumption DEF InstallFails
  <2> QED BY <1>0, <1>5, <2>1 DEF InstallFails
<1>6. CASE InvokeStart
  <2>1. at \in Plugins /\ events' \in [Plugins -> {"none", "installed", "active"}]
    BY <1>0, <1>6 DEF InvokeStart
  <2>2. CASE aborted
    <3>1. Undo(at, starting) /\ startCalled' = startCalled
      BY <1>6, <2>2 DEF InvokeStart
    <3>2. starting' = starting /\ stopping' \subseteq Plugins /\ stops' \in [Plugins -> Nat]
      BY <1>0, <2>1, <3>1, OneMoreStop DEF Undo
    <3> QED BY <1>0, <1>6, <2>1, <3>1, <3>2 DEF InvokeStart
  <2>3. CASE ~aborted
    BY <1>0, <1>6, <2>1, <2>3 DEF InvokeStart
  <2> QED BY <2>2, <2>3
<1>7. CASE Skip
  <2>1. caps' \subseteq Plugins /\ cleaned' \subseteq Plugins
    BY <1>0, <1>7, CleansUp DEF Skip
  <2> QED BY <1>0, <1>7, <2>1 DEF Skip
<1>8. CASE Ready BY <1>0, <1>8 DEF Ready
<1>9. CASE InvokeStop
  <2>1. PICK p \in started : StopsAt(p)
    BY <1>0, <1>9, StopsTheLast
  <2>2. /\ events' \in [Plugins -> {"none", "installed", "active"}]
        /\ stopping' \subseteq Plugins
    BY <1>0, <2>1 DEF StopsAt
  <2>3. stops' \in [Plugins -> Nat]
    BY <1>0, <2>1, OneMoreStop DEF StopsAt
  <2> QED BY <1>0, <2>1, <2>2, <2>3 DEF StopsAt
<1>10. CASE StopLoopEnds BY <1>0, <1>10, AllPast DEF StopLoopEnds
<1>11. CASE Dispose
  <2>1. CASE at = 0
    <3>1. registry' \in {"previous", "catalog"} /\ UNCHANGED <<caps, cleaned>>
      BY <1>0, <1>11, <2>1 DEF Dispose
    <3> QED BY <1>0, <1>11, <3>1 DEF Dispose
  <2>2. CASE at # 0
    <3>1. at \in Plugins /\ CleanUp(at)
      BY <1>0, <1>11, <2>2 DEF Dispose
    <3>2. caps' \subseteq Plugins /\ cleaned' \subseteq Plugins
      BY <1>0, <3>1, CleansUp
    <3> QED BY <1>0, <1>11, <2>2, <3>2 DEF Dispose
  <2> QED BY <2>1, <2>2
<1>12. CASE StartSucceeds BY <1>0, <1>12 DEF StartSucceeds
<1>13. CASE StartFails BY <1>0, <1>13 DEF StartFails, Undo
<1>14. CASE StartTimesOut
  <2>1. at \in Plugins /\ holds' \subseteq Plugins /\ Undo(at, Abandoned(starting, at))
    BY <1>0, <1>14 DEF StartTimesOut
  <2>2. starting' \subseteq Plugins /\ stopping' \subseteq Plugins /\ stops' \in [Plugins -> Nat]
    BY <1>0, <2>1, OneMoreStop DEF Undo, Abandoned
  <2> QED BY <1>0, <1>14, <2>1, <2>2 DEF StartTimesOut
<1>15. CASE StartAborted
  <2>1. at \in Plugins /\ holds' \subseteq Plugins /\ Undo(at, Abandoned(starting, at))
    BY <1>0, <1>15 DEF StartAborted
  <2>2. starting' \subseteq Plugins /\ stopping' \subseteq Plugins /\ stops' \in [Plugins -> Nat]
    BY <1>0, <2>1, OneMoreStop DEF Undo, Abandoned
  <2> QED BY <1>0, <1>15, <2>1, <2>2 DEF StartAborted
<1>16. CASE StopSucceeds BY <1>0, <1>16 DEF StopSucceeds, EndStop, EndUndo, GiveUp
<1>17. CASE StopFails BY <1>0, <1>17 DEF StopFails, EndStop, EndUndo, GiveUp
<1>18. CASE StopTimesOut BY <1>0, <1>18 DEF StopTimesOut, EndStop, EndUndo, GiveUp, Abandoned
<1>19. CASE StopAborted
  BY <1>0, <1>19 DEF StopAborted, EndStop, EndUndo, GiveUp, Abandoned, SkipsHooks
<1>20. CASE Signal
  <2>1. signals' \in 0..MaxSignals
    BY <1>0, <1>20, CallerAssumption DEF Signal
  <2> QED BY <1>0, <1>20, <2>1 DEF Signal
<1>21. CASE Exit BY <1>0, <1>21 DEF Exit
<1>22. CASE Abort BY <1>0, <1>22 DEF Abort
<1>23. CASE RegisterCapability BY <1>0, <1>23 DEF RegisterCapability
<1>24. CASE LateStart BY <1>0, <1>24 DEF LateStart
<1>25. CASE LateStop BY <1>0, <1>25 DEF LateStop
<1>26. CASE UNCHANGED vars BY <1>0, <1>26 DEF vars
<1> QED
  BY <1>1, <1>2, <1>3, <1>4, <1>5, <1>6, <1>7, <1>8, <1>9, <1>10, <1>11, <1>12, <1>13,
     <1>14, <1>15, <1>16, <1>17, <1>18, <1>19, <1>20, <1>21, <1>22, <1>23, <1>24, <1>25,
     <1>26 DEF Next, Loader, Advance, HookEnds, External

-----------------------------------------------------------------------------
(* Invariance *)

LEMMA InitInv == Init => Inv
<1> SUFFICES ASSUME Init PROVE Inv
  OBVIOUS
<1> USE PluginNumbers DEF Init
<1>1. TypeOK
  <2>1. phase \in Phases /\ at \in 0..(N + 1) /\ signals \in 0..MaxSignals
    BY CallerAssumption DEF Phases
  <2>2. failing \in BOOLEAN /\ aborted \in BOOLEAN /\ exited \in BOOLEAN
    BY Zenon
  <2>3. SetsOK
    BY <2>1 DEF SetsOK
  <2> QED BY <2>1, <2>2, <2>3 DEF TypeOK, SetsOK
<1>2. PositionInv
  BY DEF PositionInv
<1>3. StartedInv
  BY DEF StartedInv, Loading, Over, Starting, DependenciesFirst
<1>4. EventsInv
  BY DEF EventsInv
<1>5. StopsInv
  BY DEF StopsInv, Loading, Starting, Stopping
<1>6. CalledInv
  BY DEF CalledInv
<1>7. CleanupInv
  BY DEF CleanupInv, Starting, Ended
<1> QED BY <1>1, <1>2, <1>3, <1>4, <1>5, <1>6, <1>7 DEF Inv

LEMMA StepInv == Inv /\ [Next]_vars => Inv'
<1> SUFFICES ASSUME Inv, [Next]_vars PROVE Inv'
  OBVIOUS
<1>1. TypeOK'
  BY Zenon, StepPhases, StepFlags, StepSets DEF TypeOK, SetsOK
<1> QED
  BY <1>1, StepPosition, StepStarted, StepEvents, StepStops, StepCalled, StepCleanup DEF Inv

\* The inductive invariant holds in every reachable state.
THEOREM Invariance == Spec => []Inv
BY InitInv, StepInv, PTL DEF Spec

\* The coordinator's fields, the registry and the hooks keep their types
\* (lifecycle.ts:17-25, registry.ts:8), for any catalog.
THEOREM TypeCorrect == Spec => []TypeOK
<1>1. Inv => TypeOK
  BY DEF Inv
<1> QED BY <1>1, Invariance, PTL

-----------------------------------------------------------------------------
(* What it means for a host of plugins *)

\* A plugin is started only on top of what it depends on, but for optional
\* plugins that were left out (start, lifecycle.ts:40-67).
THEOREM DependenciesStartFirst == Spec => []DependenciesFirst
<1>1. Inv => DependenciesFirst
  BY DEF Inv, StartedInv
<1> QED BY <1>1, Invariance, PTL

\* When a plugin's stop hook has been called, those of its dependents are over
\* (stop, lifecycle.ts:76-89).
THEOREM DependentsStop == Spec => []DependentsStopFirst
<1>1. ASSUME Inv PROVE DependentsStopFirst
  <2> SUFFICES ASSUME ~SkipsHooks, NEW q \in started, NEW p \in Requires[q] \cap started,
                      stops[p] > 0
               PROVE  stops[q] > 0 /\ ~(phase = "stopHook" /\ at = q)
    BY DEF DependentsStopFirst
  <2>1. p \in Plugins /\ q \in Plugins /\ p < q /\ at \in Int
    BY <1>1, CatalogAssumption DEF Inv, TypeOK
  <2>2. Stopping
    BY <1>1, <2>1 DEF Inv, TypeOK, Phases, StartedInv, StopsInv, Loading, Starting,
                      Stopping, Over
  <2>3. p >= at
    BY <1>1, <2>1, <2>2, PluginNumbers DEF Inv, StopsInv
  <2>4. q > at
    BY <2>1, <2>3, PluginNumbers
  <2>5. stops[q] = 1
    BY <1>1, <2>2, <2>4 DEF Inv, StopsInv
  <2> QED BY <2>1, <2>4, <2>5, PluginNumbers
<1> QED BY <1>1, Invariance, PTL

\* Events reach a plugin only between its start and its stop hook, and on top of
\* active dependencies (install, event-registry.ts:43-54).
THEOREM EventsOnlyWhileStarted == Spec => []EventsWhileStarted
<1>1. ASSUME Inv PROVE EventsWhileStarted
  <2> SUFFICES ASSUME NEW p \in Plugins, events[p] = "active"
               PROVE  /\ p \in started /\ stops[p] = 0 /\ p \notin starting
                      /\ \A d \in EventDeps[p] \ {p} : events[d] = "active"
    BY DEF EventsWhileStarted
  <2>1. /\ p \in started /\ p \notin starting /\ (Stopping => p <= at)
        /\ phase = "stopHook" => p # at
        /\ \A d \in EventDeps[p] \ {p} : events[d] = "active"
    BY <1>1 DEF Inv, EventsInv
  <2>2. at \in Int /\ p \in Int
    BY <1>1, PluginNumbers DEF Inv, TypeOK
  <2>3. stops[p] = 0
    BY <1>1, <2>1, <2>2 DEF Inv, TypeOK, Phases, StartedInv, StopsInv, Loading, Starting,
                            Stopping, Over
  <2> QED BY <2>1, <2>3
<1> QED BY <1>1, Invariance, PTL

\* A plugin runs inside the life of those it depends on (lifecycle.ts:40-102,
\* event-registry.ts:43-54), whatever the catalog and whatever fails.
THEOREM PluginsRunInOrder == Spec => []LifecycleOrder
<1>1. DependenciesFirst /\ DependentsStopFirst /\ EventsWhileStarted => LifecycleOrder
  BY DEF LifecycleOrder
<1> QED BY <1>1, DependenciesStartFirst, DependentsStop, EventsOnlyWhileStarted, PTL

\* A stop hook is never called twice, and in the end every plugin whose start
\* hook was called had its stop hook called (lifecycle.ts:52-60, 76-96).
THEOREM HooksStopOnce == Spec => []StoppedOnce
<1>1. ASSUME Inv PROVE StoppedOnce
  <2>1. \A p \in Plugins : stops[p] <= 1
    BY <1>1 DEF Inv, StopsInv
  <2>2. ASSUME Ended, ~aborted, NEW p \in startCalled PROVE stops[p] = 1
    <3>1. started = {} /\ phase # "starting"
      BY <1>1, <2>2 DEF Inv, StartedInv, Ended, Over
    <3> QED BY <1>1, <2>2, <3>1 DEF Inv, CalledInv
  <2> QED BY <2>1, <2>2 DEF StoppedOnce
<1> QED BY <1>1, Invariance, PTL

\* At the end of a failed startup or a shutdown nothing is left but what hooks
\* that outlive their timeout keep (loader.ts:71-102, lifecycle.ts:76-102).
THEOREM EndsClean == Spec => []CleanEnd
<1>1. ASSUME Inv PROVE CleanEnd
  <2> SUFFICES ASSUME Ended
               PROVE  /\ \A p \in Plugins : events[p] = "none"
                      /\ caps \subseteq Plugins \ Cooperative
                      /\ ~aborted => caps \cup holds \subseteq faults
                      /\ phase = "failed" => registry = "previous"
    BY DEF CleanEnd
  <2>1. started = {}
    BY <1>1 DEF Inv, StartedInv, Over, Ended
  <2>2. \A p \in Plugins : events[p] = "none"
    BY <1>1, <2>1 DEF Inv, TypeOK, EventsInv, Ended
  <2>3. \A p \in caps : p \in Plugins /\ MayOutlive(p)
    BY <1>1 DEF Inv, TypeOK, CleanupInv
  <2>4. \A p \in holds : p \in faults \/ aborted
    BY <1>1, <2>1 DEF Inv, CleanupInv
  <2>5. phase = "failed" => registry = "previous"
    BY <1>1 DEF Inv, CleanupInv
  <2> QED BY <2>2, <2>3, <2>4, <2>5 DEF MayOutlive
<1> QED BY <1>1, Invariance, PTL
=============================================================================
