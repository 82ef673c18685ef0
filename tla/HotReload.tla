----------------------------- MODULE HotReload -----------------------------
(***************************************************************************)
(* The configuration hot-reload coordinator: committed setting changes of  *)
(* a scope (one plugin in one guild, or one plugin globally) are coalesced *)
(* in a batch window, queued on the scope's promise chain and delivered to *)
(* the plugin's handler with a timeout and bounded retries.  An operator   *)
(* may reconcile: redeliver what was committed and never applied.          *)
(*                                                                         *)
(* A change is identified with its version, the scope's counter at its     *)
(* enqueue.  A batch maps every key to the version of the change it holds, *)
(* NoChange when it holds none.                                            *)
(***************************************************************************)
EXTENDS Integers, Sequences, FiniteSets, FiniteSetsExt

CONSTANTS
  Scopes,              \* scopes, numbered in the order of their names
  Keys,                \* setting keys
  OwnerScope,          \* the owner-global scope of the owner of a scope
  Retries,             \* retries after the first attempt
  Enabled,             \* feature flag pluginConfigHotReload
  HonourAbort,         \* the scopes whose handlers stop when their signal is aborted
  MaxVersion,          \* bound: enqueues per scope
  MaxChanges,          \* bound: enqueues of all scopes
  MaxReconciles        \* bound: reconcile calls

ASSUME ScopesAssumption  == Scopes \subseteq Nat
ASSUME OwnerAssumption   == OwnerScope \in [Scopes -> Scopes]
ASSUME RetriesAssumption == Retries \in Nat
ASSUME FlagsAssumption   == Enabled \in BOOLEAN /\ HonourAbort \subseteq Scopes
ASSUME BoundsAssumption  == {MaxVersion, MaxChanges, MaxReconciles} \subseteq Nat

NoChange == 0
NoScope  == -1

VARIABLES
  handlers,     \* scopes with a registered handler
  pending,      \* per scope: the batch being coalesced
  timer,        \* is the batch-window timer armed?
  chain,        \* per scope: jobs of the promise chain, the head is delivered
  phase,        \* per scope: what the delivery of the head is doing
  attempt,      \* per scope: attempt number of the delivery of the head
  version,      \* per scope: committedVersions
  applied,      \* per scope: appliedVersions
  committed,    \* per scope: changes kept for reconciliation
  status,       \* per scope: diagnostics status, "none" before any
  latest,       \* history, per scope and key: version of the newest change
  delivered,    \* history, per scope and key: the newest version whose batch
                \* a handler took without an error
  runtime,      \* external: the version of the key the plugin works with
  late,         \* external: timed-out handler invocations still running
  rec           \* the reconcile call in progress

queueVars   == <<pending, timer, chain>>
runVars     == <<phase, attempt>>
versionVars == <<version, applied, committed, latest, delivered>>
vars == <<handlers, queueVars, runVars, versionVars, status, runtime, late, rec>>

Batch     == [Keys -> 0..MaxVersion]
EmptyBatch == [k \in Keys |-> NoChange]
KeysOf(b) == {k \in Keys : b[k] # NoChange}
IsEmpty(b) == KeysOf(b) = {}

\* Math.max over the versions of a batch's changes.
BatchVersion(b) == Max({b[k] : k \in KeysOf(b)})

\* A scheduled batch; "awaited" when a reconcile call awaits its delivery.
Job == [batch : Batch, awaited : BOOLEAN]

Phases   == {"idle", "running", "delay"}
Statuses == {"none", "pending", "retrying", "applied", "failed", "disabled"}

\* An idle reconcile has nothing to do; "emptied" are the scopes of "todo"
\* whose committed map was deleted since they were selected.
RecIdle == [active |-> FALSE, todo |-> {}, emptied |-> {}, waiting |-> FALSE,
            calls |-> 0, rejected |-> FALSE]

\* What reconcile(ownerId, guildId) may select: everything, the scopes of an
\* owner, or a single guild scope.
Selections ==
  {Scopes} \cup {{t \in Scopes : OwnerScope[t] = OwnerScope[s]} : s \in Scopes}
           \cup {{s} : s \in {t \in Scopes : OwnerScope[t] # t}}

Init ==
  /\ handlers = {}
  /\ pending = [s \in Scopes |-> EmptyBatch]
  /\ timer = FALSE
  /\ chain = [s \in Scopes |-> <<>>]
  /\ phase = [s \in Scopes |-> "idle"]
  /\ attempt = [s \in Scopes |-> 0]
  /\ version = [s \in Scopes |-> 0]
  /\ applied = [s \in Scopes |-> 0]
  /\ committed = [s \in Scopes |-> EmptyBatch]
  /\ status = [s \in Scopes |-> "none"]
  /\ latest = [s \in Scopes |-> EmptyBatch]
  /\ delivered = [s \in Scopes |-> EmptyBatch]
  /\ runtime = [s \in Scopes |-> EmptyBatch]
  /\ late = [s \in Scopes |-> {}]
  /\ rec = RecIdle

-----------------------------------------------------------------------------
(* Registration and enqueueing *)

Register(s) ==
  /\ s \notin handlers
  /\ handlers' = handlers \cup {s}
  /\ UNCHANGED <<queueVars, runVars, versionVars, status, runtime, late, rec>>

Unregister(s) ==
  /\ s \in handlers
  /\ handlers' = handlers \ {s}
  /\ UNCHANGED <<queueVars, runVars, versionVars, status, runtime, late, rec>>

\* Mutant: a running delivery is trusted to flush what arrives meanwhile.
EnqueueWhileBusy(s, k) ==
  /\ version[s] < MaxVersion
  /\ MapThenSumSet(LAMBDA t : version[t], Scopes) < MaxChanges
  /\ version' = [version EXCEPT ![s] = @ + 1]
  /\ committed' = [committed EXCEPT ![s][k] = version[s] + 1]
  /\ latest' = [latest EXCEPT ![s][k] = version[s] + 1]
  /\ pending' = [pending EXCEPT ![s][k] = version[s] + 1]
  /\ timer' = (timer \/ chain[s] = <<>>)
  /\ status' = [status EXCEPT ![s] = "pending"]
  /\ UNCHANGED <<handlers, chain, runVars, applied, delivered, runtime, late, rec>>

Enqueue(s, k) ==
  /\ version[s] < MaxVersion
  /\ MapThenSumSet(LAMBDA t : version[t], Scopes) < MaxChanges
  /\ version' = [version EXCEPT ![s] = @ + 1]
  /\ committed' = [committed EXCEPT ![s][k] = version[s] + 1]
  /\ latest' = [latest EXCEPT ![s][k] = version[s] + 1]
  /\ IF Enabled
     THEN /\ pending' = [pending EXCEPT ![s][k] = version[s] + 1]
          /\ timer' = TRUE
          /\ status' = [status EXCEPT ![s] = "pending"]
     ELSE /\ status' = [status EXCEPT ![s] = "disabled"]
          /\ UNCHANGED <<pending, timer>>
  /\ UNCHANGED <<handlers, chain, runVars, applied, delivered, runtime, late, rec>>

-----------------------------------------------------------------------------
(* Flushing: by the window's timer, or at the end of a reconcile *)

\* Mutant: a flushed batch overtakes the jobs waiting behind the running one.
FlushOvertaking ==
  /\ timer' = FALSE
  /\ pending' = [s \in Scopes |-> EmptyBatch]
  /\ chain' = [s \in Scopes |->
       LET job == [batch |-> pending[s], awaited |-> FALSE]
       IN IF IsEmpty(pending[s]) THEN chain[s]
          ELSE IF chain[s] = <<>> THEN <<job>>
          ELSE <<Head(chain[s]), job>> \o Tail(chain[s])]

FlushPending ==
  /\ timer' = FALSE
  /\ pending' = [s \in Scopes |-> EmptyBatch]
  /\ chain' = [s \in Scopes |->
                 IF IsEmpty(pending[s]) THEN chain[s]
                 ELSE Append(chain[s], [batch |-> pending[s], awaited |-> FALSE])]

TimerFlush ==
  /\ timer
  /\ FlushPending
  /\ UNCHANGED <<handlers, runVars, versionVars, status, runtime, late, rec>>

-----------------------------------------------------------------------------
(* Reconciliation *)

ReconcileStart(selected) ==
  /\ ~rec.active
  /\ rec.calls < MaxReconciles
  /\ rec' = [RecIdle EXCEPT !.active = TRUE, !.calls = rec.calls + 1,
                            !.todo = {s \in selected : ~IsEmpty(committed[s])}]
  /\ UNCHANGED <<handlers, queueVars, runVars, versionVars, status, runtime, late>>

\* The snapshot is read when the scope's turn comes, from the map selected at
\* the start: a map deleted in between has no entry left.
ReconcileNext ==
  /\ rec.active /\ ~rec.waiting /\ rec.todo # {}
  /\ LET s        == Min(rec.todo)
         snapshot == IF s \in rec.emptied THEN EmptyBatch ELSE committed[s]
     IN /\ chain' = [chain EXCEPT ![s] =
                       Append(@, [batch |-> snapshot, awaited |-> TRUE])]
        /\ rec' = [rec EXCEPT !.todo = @ \ {s}, !.waiting = TRUE]
  /\ UNCHANGED <<handlers, pending, timer, runVars, versionVars, status, runtime, late>>

ReconcileFinish ==
  /\ rec.active /\ ~rec.waiting /\ rec.todo = {}
  /\ rec' = [rec EXCEPT !.active = FALSE]
  /\ IF \E s \in Scopes : ~IsEmpty(pending[s]) THEN FlushPending ELSE UNCHANGED queueVars
  /\ UNCHANGED <<handlers, runVars, versionVars, status, runtime, late>>

-----------------------------------------------------------------------------
(* Delivery of the head of a scope's chain *)

HasHandler(s) == s \in handlers \/ OwnerScope[s] \in handlers

\* The job at the head is done: the chain moves on, an awaiting reconcile too.
Finish(s, r) ==
  /\ chain' = [chain EXCEPT ![s] = Tail(@)]
  /\ phase' = [phase EXCEPT ![s] = "idle"]
  /\ attempt' = [attempt EXCEPT ![s] = 0]
  /\ rec' = IF Head(chain[s]).awaited THEN [r EXCEPT !.waiting = FALSE] ELSE r

DeliverStart(s) ==
  /\ chain[s] # <<>> /\ phase[s] = "idle"
  /\ ~IsEmpty(Head(chain[s]).batch)
  /\ HasHandler(s)
  /\ phase' = [phase EXCEPT ![s] = "running"]
  /\ attempt' = [attempt EXCEPT ![s] = 1]
  /\ UNCHANGED <<handlers, queueVars, versionVars, status, runtime, late, rec>>

DeliverNoHandler(s) ==
  /\ chain[s] # <<>> /\ phase[s] = "idle"
  /\ ~IsEmpty(Head(chain[s]).batch)
  /\ ~HasHandler(s)
  /\ status' = [status EXCEPT ![s] = "failed"]
  /\ Finish(s, rec)
  /\ UNCHANGED <<handlers, pending, timer, versionVars, runtime, late>>

\* changes[0] of an empty batch is undefined: reading its owner throws, the
\* awaiting reconcile rejects and abandons the scopes it had still to visit.
DeliverEmpty(s) ==
  /\ chain[s] # <<>> /\ phase[s] = "idle"
  /\ IsEmpty(Head(chain[s]).batch)
  /\ Finish(s, [rec EXCEPT !.active = FALSE, !.todo = {}, !.rejected = TRUE])
  /\ UNCHANGED <<handlers, pending, timer, versionVars, status, runtime, late>>

\* The newest version of every key among those delivered before and a batch.
DeliveredWith(d, b) == [k \in Keys |-> Max({d[k], b[k]})]

ApplyTo(values, b) == [k \in Keys |-> IF b[k] = NoChange THEN values[k] ELSE b[k]]

\* Mutant: an applied batch clears the whole committed map.
ForgetAll(c, v) == EmptyBatch

\* Forget every committed change that is not newer than the batch.
Forget(c, v) == [k \in Keys |-> IF c[k] <= v THEN NoChange ELSE c[k]]

HandlerSucceeds(s) ==
  /\ phase[s] = "running"
  /\ LET b == Head(chain[s]).batch
         v == BatchVersion(b)
     IN /\ applied' = [applied EXCEPT ![s] = Max({@, v})]
        /\ committed' = [committed EXCEPT ![s] = Forget(@, v)]
        /\ delivered' = [delivered EXCEPT ![s] = DeliveredWith(@, b)]
        /\ runtime' = [runtime EXCEPT ![s] = ApplyTo(@, b)]
        /\ Finish(s, IF s \in rec.todo /\ IsEmpty(Forget(committed[s], v))
                     THEN [rec EXCEPT !.emptied = @ \cup {s}] ELSE rec)
  /\ status' = [status EXCEPT ![s] = "applied"]
  /\ UNCHANGED <<handlers, pending, timer, version, latest, late>>

\* An attempt failed: give up after the last one, else wait and retry.
AttemptFailed(s) ==
  IF attempt[s] > Retries
  THEN /\ status' = [status EXCEPT ![s] = "failed"]
       /\ Finish(s, rec)
  ELSE /\ status' = [status EXCEPT ![s] = "retrying"]
       /\ phase' = [phase EXCEPT ![s] = "delay"]
       /\ UNCHANGED <<chain, attempt, rec>>

HandlerRejects(s) ==
  /\ phase[s] = "running"
  /\ AttemptFailed(s)
  /\ UNCHANGED <<handlers, pending, timer, versionVars, runtime, late>>

\* The timeout wins the race: the handler is told to abort, not stopped.
HandlerTimesOut(s) ==
  /\ phase[s] = "running"
  /\ late' = IF s \in HonourAbort THEN late
             ELSE [late EXCEPT ![s] = @ \cup {Head(chain[s]).batch}]
  /\ AttemptFailed(s)
  /\ UNCHANGED <<handlers, pending, timer, versionVars, runtime>>

RetryAfterDelay(s) ==
  /\ phase[s] = "delay"
  /\ phase' = [phase EXCEPT ![s] = "running"]
  /\ attempt' = [attempt EXCEPT ![s] = @ + 1]
  /\ UNCHANGED <<handlers, queueVars, versionVars, status, runtime, late, rec>>

\* External: a handler that ignored its abort signal completes after all.
LateHandlerCompletes(s) ==
  \E b \in late[s] :
    /\ runtime' = [runtime EXCEPT ![s] = ApplyTo(@, b)]
    /\ late' = [late EXCEPT ![s] = @ \ {b}]
    /\ UNCHANGED <<handlers, queueVars, runVars, versionVars, status, rec>>

-----------------------------------------------------------------------------

Deliver(s) ==
  \/ DeliverStart(s) \/ DeliverNoHandler(s) \/ DeliverEmpty(s)
  \/ HandlerSucceeds(s) \/ HandlerRejects(s) \/ HandlerTimesOut(s)
  \/ RetryAfterDelay(s)

Next ==
  \/ \E s \in Scopes :
       \/ Register(s)
       \/ Unregister(s)
       \/ \E k \in Keys : Enqueue(s, k)
       \/ DeliverStart(s)
       \/ DeliverNoHandler(s)
       \/ DeliverEmpty(s)
       \/ HandlerSucceeds(s)
       \/ HandlerRejects(s)
       \/ HandlerTimesOut(s)
       \/ RetryAfterDelay(s)
       \/ LateHandlerCompletes(s)
  \/ TimerFlush
  \/ \E selected \in Selections : ReconcileStart(selected)
  \/ ReconcileNext
  \/ ReconcileFinish

\* Timers fire, promise reactions run and a handler settles or times out.
Fairness ==
  /\ WF_vars(TimerFlush)
  /\ WF_vars(ReconcileNext) /\ WF_vars(ReconcileFinish)
  /\ \A s \in Scopes : WF_vars(Deliver(s))

Spec == Init /\ [][Next]_vars /\ Fairness

-----------------------------------------------------------------------------
(* Properties *)

RecType == [active : BOOLEAN, todo : SUBSET Scopes, emptied : SUBSET Scopes,
            waiting : BOOLEAN, calls : 0..MaxReconciles, rejected : BOOLEAN]

\* The types of the coordinator's maps (hot-reload.coordinator.ts:46-53).
TypeOK ==
  /\ handlers \subseteq Scopes
  /\ pending \in [Scopes -> Batch]
  /\ timer \in BOOLEAN
  /\ chain \in [Scopes -> Seq(Job)]
  /\ phase \in [Scopes -> Phases]
  /\ attempt \in [Scopes -> 0..(Retries + 1)]
  /\ version \in [Scopes -> 0..MaxVersion]
  /\ applied \in [Scopes -> 0..MaxVersion]
  /\ committed \in [Scopes -> Batch]
  /\ status \in [Scopes -> Statuses]
  /\ latest \in [Scopes -> Batch]
  /\ delivered \in [Scopes -> Batch]
  /\ runtime \in [Scopes -> Batch]
  /\ late \in [Scopes -> SUBSET Batch]
  /\ rec \in RecType

\* A handler took the newest change of the key.
Delivered(s, k) == delivered[s][k] >= latest[s][k]

\* A handler took a change of another key of the scope that was committed after
\* the newest change of this one.
Overtaken(s, k) == \E j \in Keys \ {k} : delivered[s][j] >= latest[s][k]

\* The newest committed change of a key is kept for reconciliation until a
\* handler took it, and not once it has, whatever fails, times out, is retried
\* or reconciled meanwhile.  ADR-012 (lines 12 and 15) promises the first half
\* of every committed change; the code breaks the promise in the one case named
\* here, and in no other: it prunes by version (hot-reload.coordinator.ts:132-138),
\* so a change whose delivery failed is dropped for good as soon as a later
\* change of another key of its scope is delivered.
KeptUntilDelivered ==
  \A s \in Scopes, k \in Keys :
    committed[s][k] = IF Delivered(s, k) \/ Overtaken(s, k) THEN NoChange ELSE latest[s][k]

\* A coalesced change never waits for a flush nobody will start: the timer is
\* armed whenever a batch is pending (hot-reload.coordinator.ts:78-86).
NoStrandedBatch == (\E s \in Scopes : ~IsEmpty(pending[s])) => timer

\* The plugin's value of a key never goes back to an older change, if its
\* handlers stop when their signal is aborted, whatever the order of flush
\* batches, retries and reconcile snapshots on the chain
\* (schedule and deliver, hot-reload.coordinator.ts:111-149).
RuntimeNeverRegresses ==
  [][\A s \in HonourAbort, k \in Keys : runtime'[s][k] >= runtime[s][k]]_vars

\* A scope with nothing to coalesce, to deliver or being delivered.
Quiet(s) == IsEmpty(pending[s]) /\ chain[s] = <<>>

\* A change is never left waiting: once enqueued, its scope comes to rest with
\* a final diagnostic, whatever handlers, retries and reconciles do meanwhile
\* (flush, schedule and deliver, hot-reload.coordinator.ts:84-149); and every
\* reconcile call, which awaits each scope's chain, ends, by finishing or by
\* rejecting (hot-reload.coordinator.ts:107).
ChangesSettle ==
  /\ \A s \in Scopes :
       (status[s] = "pending") ~> (Quiet(s) /\ status[s] \in {"applied", "failed"})
  /\ rec.active ~> ~rec.active
=============================================================================
