-------------------------- MODULE HotReloadProofs --------------------------
(***************************************************************************)
(* Proofs about HotReload, for any scopes, keys, retries and bounds.       *)
(***************************************************************************)
EXTENDS HotReload, DataLemmas, SequenceTheorems

\* The version of a non-empty batch is the version of one of its changes and
\* at least as new as every one of them.
LEMMA BatchVersionIsNewest ==
  ASSUME NEW b \in Batch, ~IsEmpty(b)
  PROVE  /\ BatchVersion(b) \in 1..MaxVersion
         /\ \E k \in Keys : BatchVersion(b) = b[k]
         /\ \A k \in Keys : b[k] <= BatchVersion(b)
<1> DEFINE S == {b[k] : k \in KeysOf(b)}
<1>1. S \in SUBSET (0..MaxVersion) /\ S # {} /\ 0 \notin S
  BY DEF Batch, IsEmpty, KeysOf, NoChange
<1>2. Max(S) \in S /\ \A y \in S : y <= Max(S)
  BY <1>1, MaxOfBounded, BoundsAssumption
<1>3. BatchVersion(b) = Max(S)
  BY DEF BatchVersion
<1>4. \A k \in Keys : b[k] <= Max(S)
  <2> TAKE k \in Keys
  <2>1. CASE k \in KeysOf(b) BY <2>1, <1>2
  <2>2. CASE k \notin KeysOf(b)
    BY <2>2, <1>1, <1>2, BoundsAssumption DEF KeysOf, NoChange
  <2> QED BY <2>1, <2>2
<1>5. \E k \in Keys : Max(S) = b[k]
  BY <1>2 DEF KeysOf
<1> QED
  BY <1>1, <1>2, <1>3, <1>4, <1>5, BoundsAssumption

\* Applying or forgetting keeps a batch a batch.
LEMMA BatchOperators ==
  ASSUME NEW a \in Batch, NEW b \in Batch, NEW v \in Nat
  PROVE  /\ ApplyTo(a, b) \in Batch
         /\ Forget(a, v) \in Batch
         /\ EmptyBatch \in Batch
BY BoundsAssumption DEF Batch, ApplyTo, Forget, EmptyBatch, NoChange

\* The newest delivered versions, with those of one more batch.
LEMMA DeliveredWithKeys ==
  ASSUME NEW d \in Batch, NEW b \in Batch
  PROVE  /\ DeliveredWith(d, b) \in Batch
         /\ \A k \in Keys : /\ DeliveredWith(d, b)[k] \in {d[k], b[k]}
                            /\ d[k] <= DeliveredWith(d, b)[k]
                            /\ b[k] <= DeliveredWith(d, b)[k]
<1>1. ASSUME NEW k \in Keys
      PROVE  /\ Max({d[k], b[k]}) \in {d[k], b[k]}
             /\ d[k] <= Max({d[k], b[k]}) /\ b[k] <= Max({d[k], b[k]})
             /\ d[k] \in 0..MaxVersion /\ b[k] \in 0..MaxVersion
  <2>1. d[k] \in 0..MaxVersion /\ b[k] \in 0..MaxVersion
    BY DEF Batch
  <2> QED BY <2>1, MaxOfTwo, BoundsAssumption
<1> QED BY <1>1 DEF DeliveredWith, Batch

-----------------------------------------------------------------------------
(* Type correctness *)

\* A delivery in progress is about the non-empty batch at the head, and one
\* that will be retried has an attempt left.
DeliveryInProgress ==
  \A s \in Scopes :
    /\ phase[s] # "idle" => chain[s] # <<>> /\ ~IsEmpty(Head(chain[s]).batch)
    /\ phase[s] = "delay" => attempt[s] <= Retries

TypeInv == TypeOK /\ DeliveryInProgress

\* Leaving the head of the chain keeps the types.
LEMMA FinishTypes ==
  ASSUME TypeInv, NEW s \in Scopes, NEW r \in RecType, chain[s] # <<>>, Finish(s, r)
  PROVE  /\ chain' \in [Scopes -> Seq(Job)]
         /\ phase' \in [Scopes -> Phases]
         /\ attempt' \in [Scopes -> 0..(Retries + 1)]
         /\ rec' \in RecType
         /\ \A t \in Scopes : t # s => /\ chain'[t] = chain[t]
                                       /\ phase'[t] = phase[t]
                                       /\ attempt'[t] = attempt[t]
         /\ phase'[s] = "idle"
<1> USE RetriesAssumption DEF TypeInv, TypeOK, Finish
<1>1. Tail(chain[s]) \in Seq(Job)
  OBVIOUS
<1>2. chain' \in [Scopes -> Seq(Job)]
  BY <1>1
<1>3. phase' \in [Scopes -> Phases] /\ attempt' \in [Scopes -> 0..(Retries + 1)]
  BY DEF Phases
<1>4. rec' \in RecType
  BY DEF RecType
<1> QED BY <1>2, <1>3, <1>4

\* Scheduling keeps what a delivery in progress is about.
LEMMA AppendKeepsHead ==
  ASSUME NEW q \in Seq(Job), NEW j \in Job
  PROVE  /\ Append(q, j) \in Seq(Job)
         /\ Append(q, j) # <<>>
         /\ q # <<>> => Head(Append(q, j)) = Head(q)
<1>1. Append(q, j) \in Seq(Job) /\ Append(q, j) # <<>>
  BY AppendProperties
<1>2. ASSUME q # <<>> PROVE Head(Append(q, j)) = Head(q)
  BY <1>2, AppendProperties, EmptySeq
<1> QED BY <1>1, <1>2

\* The head of a non-empty chain is a job about a batch.
LEMMA HeadIsJob ==
  ASSUME NEW q \in Seq(Job), q # <<>>
  PROVE  Head(q) \in Job /\ Head(q).batch \in Batch /\ Tail(q) \in Seq(Job)
<1>1. Head(q) \in Job /\ Tail(q) \in Seq(Job)
  BY HeadTailProperties
<1> QED BY <1>1 DEF Job

LEMMA EmptyBatchType == EmptyBatch \in Batch /\ IsEmpty(EmptyBatch)
BY BoundsAssumption DEF EmptyBatch, Batch, NoChange, IsEmpty, KeysOf

\* A flush keeps the types, and the head of every chain that has one.
LEMMA FlushTypes ==
  ASSUME TypeInv, FlushPending
  PROVE  /\ pending' \in [Scopes -> Batch] /\ timer' \in BOOLEAN
         /\ chain' \in [Scopes -> Seq(Job)]
         /\ \A s \in Scopes : chain[s] # <<>> =>
              chain'[s] # <<>> /\ Head(chain'[s]) = Head(chain[s])
<1> USE DEF TypeInv, TypeOK, FlushPending
<1>1. EmptyBatch \in Batch
  BY BoundsAssumption DEF EmptyBatch, Batch, NoChange
<1>2. \A s \in Scopes : [batch |-> pending[s], awaited |-> FALSE] \in Job
  BY DEF Job
<1>3. \A s \in Scopes :
        /\ chain'[s] \in Seq(Job)
        /\ chain[s] # <<>> => chain'[s] # <<>> /\ Head(chain'[s]) = Head(chain[s])
  <2> TAKE s \in Scopes
  <2>1. CASE IsEmpty(pending[s]) BY <2>1
  <2>2. CASE ~IsEmpty(pending[s]) BY <2>2, <1>2, AppendKeepsHead
  <2> QED BY <2>1, <2>2
<1> QED BY <1>1, <1>3

LEMMA InitTypes == Init => TypeInv
<1> SUFFICES ASSUME Init PROVE TypeInv
  OBVIOUS
<1> USE RetriesAssumption, BoundsAssumption, EmptyBatchType DEF Init
<1>1. chain \in [Scopes -> Seq(Job)]
  BY EmptySeq
<1>2. rec \in RecType
  BY DEF RecIdle, RecType
<1>3. phase \in [Scopes -> Phases] /\ status \in [Scopes -> Statuses]
  BY DEF Phases, Statuses
<1>4. attempt \in [Scopes -> 0..(Retries + 1)]
  OBVIOUS
<1>5. /\ version \in [Scopes -> 0..MaxVersion] /\ applied \in [Scopes -> 0..MaxVersion]
      /\ pending \in [Scopes -> Batch] /\ committed \in [Scopes -> Batch]
      /\ latest \in [Scopes -> Batch] /\ runtime \in [Scopes -> Batch]
      /\ delivered \in [Scopes -> Batch]
      /\ late \in [Scopes -> SUBSET Batch]
  OBVIOUS
<1>6. TypeOK
  BY <1>1, <1>2, <1>3, <1>4, <1>5 DEF TypeOK
<1>7. DeliveryInProgress
  BY DEF DeliveryInProgress
<1> QED BY <1>6, <1>7 DEF TypeInv

LEMMA StepTypes == TypeInv /\ [Next]_vars => TypeInv'
<1> SUFFICES ASSUME TypeInv, [Next]_vars PROVE TypeInv'
  OBVIOUS
<1> USE RetriesAssumption, BoundsAssumption, FlagsAssumption, ScopesAssumption
<1> USE DEF TypeInv, TypeOK, DeliveryInProgress, queueVars, runVars, versionVars
<1>1. ASSUME NEW s \in Scopes, Register(s) PROVE TypeInv'
  BY <1>1 DEF Register
<1>2. ASSUME NEW s \in Scopes, Unregister(s) PROVE TypeInv'
  BY <1>2 DEF Unregister
<1>3. ASSUME NEW s \in Scopes, NEW k \in Keys, Enqueue(s, k) PROVE TypeInv'
  <2>1. version[s] + 1 \in 0..MaxVersion
    BY <1>3 DEF Enqueue
  <2>2. /\ committed' \in [Scopes -> Batch] /\ latest' \in [Scopes -> Batch]
        /\ version' \in [Scopes -> 0..MaxVersion]
    BY <1>3, <2>1 DEF Enqueue, Batch
  <2>3. pending' \in [Scopes -> Batch] /\ timer' \in BOOLEAN
    <3>1. CASE Enabled
      <4>1. pending' = [pending EXCEPT ![s][k] = version[s] + 1] /\ timer' = TRUE
        BY <1>3, <3>1 DEF Enqueue
      <4> QED BY <2>1, <4>1 DEF Batch
    <3>2. CASE ~Enabled
      BY <1>3, <3>2 DEF Enqueue
    <3> QED BY <3>1, <3>2
  <2>4. status' \in [Scopes -> Statuses]
    BY <1>3 DEF Enqueue, Statuses
  <2> QED BY <1>3, <2>2, <2>3, <2>4 DEF Enqueue
<1>4. CASE TimerFlush
  BY <1>4, FlushTypes DEF TimerFlush
<1>5. ASSUME NEW sel \in Selections, ReconcileStart(sel) PROVE TypeInv'
  <2>1. sel \in SUBSET Scopes
    BY <1>5 DEF Selections
  <2>2. rec.calls + 1 \in 0..MaxReconciles
    BY <1>5 DEF ReconcileStart, RecType
  <2>3. rec' \in RecType
    BY <1>5, <2>1, <2>2 DEF ReconcileStart, RecIdle, RecType
  <2> QED BY <1>5, <2>3 DEF ReconcileStart
<1>6. CASE ReconcileNext
  <2> DEFINE s == Min(rec.todo)
             snapshot == IF s \in rec.emptied THEN EmptyBatch ELSE committed[s]
             job == [batch |-> snapshot, awaited |-> TRUE]
  <2>1. s \in Scopes
    BY <1>6, MinOfNaturals DEF ReconcileNext, RecType
  <2>2. job \in Job
    BY <2>1, EmptyBatchType DEF Job
  <2>3. chain' = [chain EXCEPT ![s] = Append(@, job)]
    BY <1>6 DEF ReconcileNext
  <2> HIDE DEF s, job
  <2>4. /\ chain' \in [Scopes -> Seq(Job)]
        /\ \A t \in Scopes : chain[t] # <<>> =>
             chain'[t] # <<>> /\ Head(chain'[t]) = Head(chain[t])
    BY <2>1, <2>2, <2>3, AppendKeepsHead
  <2>5. rec' \in RecType
    BY <1>6 DEF ReconcileNext, RecType
  <2> QED BY <1>6, <2>4, <2>5 DEF ReconcileNext
<1>7. CASE ReconcileFinish
  <2>1. rec' \in RecType
    BY <1>7 DEF ReconcileFinish, RecType
  <2> QED BY <1>7, <2>1, FlushTypes DEF ReconcileFinish
<1>8. ASSUME NEW s \in Scopes, DeliverStart(s) PROVE TypeInv'
  <2>1. 1 \in 0..(Retries + 1)
    OBVIOUS
  <2>2. phase' \in [Scopes -> Phases] /\ attempt' \in [Scopes -> 0..(Retries + 1)]
    BY <1>8, <2>1 DEF DeliverStart, Phases
  <2> QED BY <1>8, <2>2 DEF DeliverStart
<1>9. ASSUME NEW s \in Scopes, DeliverNoHandler(s) PROVE TypeInv'
  <2>1. status' \in [Scopes -> Statuses]
    BY <1>9 DEF DeliverNoHandler, Statuses
  <2> QED BY <1>9, <2>1, FinishTypes DEF DeliverNoHandler
<1>10. ASSUME NEW s \in Scopes, DeliverEmpty(s) PROVE TypeInv'
  <2>1. [rec EXCEPT !.active = FALSE, !.todo = {}, !.rejected = TRUE] \in RecType
    BY DEF RecType
  <2> QED BY <1>10, <2>1, FinishTypes DEF DeliverEmpty
<1>11. ASSUME NEW s \in Scopes, HandlerSucceeds(s) PROVE TypeInv'
  <2> DEFINE b == Head(chain[s]).batch
             v == BatchVersion(b)
             r == IF s \in rec.todo /\ IsEmpty(Forget(committed[s], v))
                  THEN [rec EXCEPT !.emptied = @ \cup {s}] ELSE rec
  <2>1. chain[s] # <<>> /\ b \in Batch /\ ~IsEmpty(b)
    BY <1>11, HeadIsJob DEF HandlerSucceeds
  <2>2. v \in 0..MaxVersion
    BY <2>1, BatchVersionIsNewest
  <2>3. Max({applied[s], v}) \in 0..MaxVersion
    <3> HIDE DEF v
    <3>1. applied[s] \in Nat /\ v \in Nat /\ applied[s] <= MaxVersion /\ v <= MaxVersion
      BY <2>2
    <3>2. Max({applied[s], v}) \in {applied[s], v}
      BY <3>1, MaxOfTwo
    <3> QED BY <3>1, <3>2
  <2>4. r \in RecType
    BY DEF RecType
  <2>5. Finish(s, r)
    BY <1>11 DEF HandlerSucceeds
  <2>6. applied' \in [Scopes -> 0..MaxVersion]
    BY <1>11, <2>3 DEF HandlerSucceeds
  <2>7. committed' \in [Scopes -> Batch] /\ runtime' \in [Scopes -> Batch]
    <3>1. Forget(committed[s], v) \in Batch /\ ApplyTo(runtime[s], b) \in Batch
      <4> HIDE DEF b, v
      <4>1. committed[s] \in Batch /\ runtime[s] \in Batch /\ v \in Nat
        BY <2>2
      <4> QED BY <2>1, <4>1, BatchOperators
    <3>2. /\ committed' = [committed EXCEPT ![s] = Forget(committed[s], v)]
          /\ runtime' = [runtime EXCEPT ![s] = ApplyTo(runtime[s], b)]
      BY <1>11 DEF HandlerSucceeds
    <3> QED BY <3>1, <3>2
  <2>8. status' \in [Scopes -> Statuses]
    BY <1>11 DEF HandlerSucceeds, Statuses
  <2>9. delivered' \in [Scopes -> Batch]
    <3>1. DeliveredWith(delivered[s], b) \in Batch
      <4> HIDE DEF b
      <4> QED BY <2>1, DeliveredWithKeys
    <3> QED BY <1>11, <3>1 DEF HandlerSucceeds
  <2> HIDE DEF r
  <2> QED BY <1>11, <2>1, <2>4, <2>5, <2>6, <2>7, <2>8, <2>9, FinishTypes DEF HandlerSucceeds
<1>12. ASSUME NEW s \in Scopes, phase[s] = "running", AttemptFailed(s),
              UNCHANGED <<handlers, pending, timer, versionVars, runtime>>,
              late' \in [Scopes -> SUBSET Batch]
       PROVE TypeInv'
  <2>1. status' \in [Scopes -> Statuses]
    BY <1>12 DEF AttemptFailed, Statuses
  <2>2. CASE attempt[s] > Retries
    BY <1>12, <2>1, <2>2, FinishTypes DEF AttemptFailed
  <2>3. CASE ~(attempt[s] > Retries)
    <3>1. phase' = [phase EXCEPT ![s] = "delay"] /\ UNCHANGED <<chain, attempt, rec>>
      BY <1>12, <2>3 DEF AttemptFailed
    <3>2. phase' \in [Scopes -> Phases]
      BY <3>1 DEF Phases
    <3>3. TypeOK'
      <4> HIDE DEF DeliveryInProgress
      <4> QED BY <1>12, <2>1, <3>1, <3>2
    <3>4. DeliveryInProgress'
      <4> HIDE DEF TypeOK
      <4>1. phase \in [Scopes -> Phases] /\ attempt[s] \in Nat
        BY DEF TypeOK
      <4>2. attempt[s] <= Retries
        BY <2>3, <4>1
      <4> QED BY <1>12, <3>1, <4>1, <4>2
    <3> QED BY <3>3, <3>4
  <2> QED BY <2>2, <2>3
<1>13. ASSUME NEW s \in Scopes, HandlerRejects(s) PROVE TypeInv'
  BY <1>12, <1>13 DEF HandlerRejects
<1>14. ASSUME NEW s \in Scopes, HandlerTimesOut(s) PROVE TypeInv'
  <2>1. Head(chain[s]).batch \in Batch
    BY <1>14, HeadIsJob DEF HandlerTimesOut
  <2>2. late' \in [Scopes -> SUBSET Batch]
    BY <1>14, <2>1 DEF HandlerTimesOut
  <2> QED BY <1>12, <1>14, <2>2 DEF HandlerTimesOut
<1>15. ASSUME NEW s \in Scopes, RetryAfterDelay(s) PROVE TypeInv'
  <2>1. attempt[s] + 1 \in 0..(Retries + 1)
    BY <1>15 DEF RetryAfterDelay
  <2> QED BY <1>15, <2>1 DEF RetryAfterDelay, Phases
<1>16. ASSUME NEW s \in Scopes, LateHandlerCompletes(s) PROVE TypeInv'
  <2>1. PICK b \in late[s] : /\ runtime' = [runtime EXCEPT ![s] = ApplyTo(@, b)]
                             /\ late' = [late EXCEPT ![s] = @ \ {b}]
    BY <1>16 DEF LateHandlerCompletes
  <2>2. runtime' \in [Scopes -> Batch]
    BY <2>1, BatchOperators
  <2>3. late' \in [Scopes -> SUBSET Batch]
    BY <2>1
  <2> QED BY <1>16, <2>2, <2>3 DEF LateHandlerCompletes
<1>17. CASE UNCHANGED vars
  BY <1>17 DEF vars
<1> QED
  BY <1>1, <1>2, <1>3, <1>4, <1>5, <1>6, <1>7, <1>8, <1>9, <1>10, <1>11, <1>13, <1>14,
     <1>15, <1>16, <1>17 DEF Next

\* The coordinator's maps keep their types for any number of scopes and keys.
THEOREM TypeCorrect == Spec => []TypeOK
<1>1. TypeInv => TypeOK
  BY DEF TypeInv
<1> QED BY <1>1, InitTypes, StepTypes, PTL DEF Spec
-----------------------------------------------------------------------------
(* Order and retention.  The chain of a scope holds, for every key, versions *)
(* that are not newer than the newest change and never decrease along the    *)
(* chain.  When handlers honour their abort signal, these versions are not   *)
(* older than what the plugin works with either.                             *)

ChainInOrder(q, newest, current) ==
  \A i \in 1..Len(q), k \in Keys :
    /\ q[i].batch[k] <= newest[k]
    /\ q[i].batch[k] # NoChange =>
         /\ current[k] <= q[i].batch[k]
         /\ \A j \in i..Len(q) :
              q[j].batch[k] # NoChange => q[i].batch[k] <= q[j].batch[k]

\* What the chain of s is known to be at least as new as.
Floor(s) == IF s \in HonourAbort THEN runtime[s] ELSE EmptyBatch

\* What is kept for reconciliation is decided by the last applied version alone.
PrunedByVersion ==
  \A s \in Scopes, k \in Keys :
    committed[s][k] = IF latest[s][k] > applied[s] THEN latest[s][k] ELSE NoChange

\* pending holds newest changes, and only while the feature is enabled.
VersionsBounded ==
  \A s \in Scopes :
    /\ applied[s] <= version[s]
    /\ ~Enabled => pending[s] = EmptyBatch
    /\ \A k \in Keys : /\ latest[s][k] <= version[s]
                       /\ Floor(s)[k] <= latest[s][k]
                       /\ pending[s][k] \in {NoChange, latest[s][k]}

OrderInv == \A s \in Scopes : ChainInOrder(chain[s], latest[s], Floor(s))

NoLateHandler == \A s \in Scopes : s \in HonourAbort => late[s] = {}

Inv == TypeInv /\ VersionsBounded /\ PrunedByVersion /\ OrderInv /\ NoLateHandler

LEMMA FloorType == TypeInv => \A s \in Scopes : Floor(s) \in Batch
BY EmptyBatchType DEF TypeInv, TypeOK, Floor

LEMMA JobVersions ==
  ASSUME NEW q \in Seq(Job), NEW i \in 1..Len(q), NEW k \in Keys
  PROVE  q[i].batch[k] \in Nat
<1>1. q[i] \in Job
  BY ElementOfSeq
<1> QED BY <1>1, BoundsAssumption DEF Job, Batch

\* Scheduling newest changes keeps the chain in order.
LEMMA AppendInOrder ==
  ASSUME NEW q \in Seq(Job), NEW j \in Job, NEW newest \in Batch, NEW current \in Batch,
         ChainInOrder(q, newest, current),
         \A k \in Keys : current[k] <= newest[k] /\ j.batch[k] \in {NoChange, newest[k]}
  PROVE  ChainInOrder(Append(q, j), newest, current)
<1> USE BoundsAssumption
<1> DEFINE p == Append(q, j)
<1>1. /\ Len(p) = Len(q) + 1 /\ Len(q) \in Nat
      /\ \A i \in 1..Len(q) : p[i] = q[i]
      /\ p[Len(q) + 1] = j
  BY AppendProperties, LenProperties
<1>2. \A i \in 1..Len(q), k \in Keys : q[i].batch[k] \in Nat
  BY JobVersions
<1> HIDE DEF p
<1> SUFFICES ASSUME NEW i \in 1..Len(p), NEW k \in Keys
             PROVE  /\ p[i].batch[k] <= newest[k]
                    /\ p[i].batch[k] # NoChange =>
                         /\ current[k] <= p[i].batch[k]
                         /\ \A m \in i..Len(p) :
                              p[m].batch[k] # NoChange => p[i].batch[k] <= p[m].batch[k]
  BY DEF ChainInOrder, p
<1>3. newest[k] \in Nat /\ current[k] \in Nat /\ j.batch[k] \in Nat
  BY DEF Job, Batch
<1>4. CASE i = Len(q) + 1
  <2>1. p[i] = j /\ \A m \in i..Len(p) : m = i
    BY <1>1, <1>4
  <2> QED BY <2>1, <1>3 DEF NoChange
<1>5. CASE i \in 1..Len(q)
  <2>1. p[i] = q[i] /\ q[i].batch[k] <= newest[k]
    BY <1>1, <1>5 DEF ChainInOrder
  <2>2. ASSUME p[i].batch[k] # NoChange, NEW m \in i..Len(p), p[m].batch[k] # NoChange
        PROVE  p[i].batch[k] <= p[m].batch[k]
    <3>1. CASE m \in 1..Len(q)
      <4>1. p[m] = q[m] /\ m \in i..Len(q)
        BY <1>1, <1>5, <3>1
      <4> QED BY <2>1, <2>2, <4>1, <1>5 DEF ChainInOrder
    <3>2. CASE m = Len(q) + 1
      <4>1. p[m].batch[k] = newest[k]
        BY <1>1, <2>2, <3>2
      <4> QED BY <2>1, <4>1
    <3> QED BY <1>1, <1>5, <3>1, <3>2
  <2>3. p[i].batch[k] # NoChange => current[k] <= p[i].batch[k]
    BY <2>1, <1>5 DEF ChainInOrder
  <2> QED BY <2>1, <2>2, <2>3
<1> QED BY <1>1, <1>4, <1>5

\* Dropping the head keeps the chain in order, for any current values that
\* are those before, or those of the head where it has a change.
LEMMA TailInOrder ==
  ASSUME NEW q \in Seq(Job), q # <<>>, NEW newest \in Batch, NEW current \in Batch,
         ChainInOrder(q, newest, current)
  PROVE  /\ ChainInOrder(Tail(q), newest, current)
         /\ ChainInOrder(Tail(q), newest, ApplyTo(current, Head(q).batch))
<1> USE BoundsAssumption
<1> DEFINE p == Tail(q)
           h == Head(q).batch
<1>1. /\ Len(p) = Len(q) - 1 /\ Len(q) \in Nat \ {0}
      /\ \A i \in 1..Len(p) : p[i] = q[i + 1]
      /\ h = q[1].batch
  BY HeadTailProperties, EmptySeq, LenProperties
<1> HIDE DEF p, h
<1>2. ASSUME NEW i \in 1..Len(p), NEW k \in Keys
      PROVE  /\ p[i].batch[k] <= newest[k]
             /\ p[i].batch[k] # NoChange =>
                  /\ current[k] <= p[i].batch[k]
                  /\ h[k] # NoChange => h[k] <= p[i].batch[k]
                  /\ \A m \in i..Len(p) :
                       p[m].batch[k] # NoChange => p[i].batch[k] <= p[m].batch[k]
  <2>1. p[i] = q[i + 1] /\ i + 1 \in 1..Len(q) /\ 1 \in 1..Len(q) /\ i + 1 \in 1..Len(q)
    BY <1>1
  <2>2. \A m \in i..Len(p) : p[m] = q[m + 1] /\ m + 1 \in (i + 1)..Len(q)
    BY <1>1
  <2> QED BY <1>1, <2>1, <2>2 DEF ChainInOrder
<1>3. ChainInOrder(p, newest, current)
  BY <1>2 DEF ChainInOrder
<1>4. ChainInOrder(p, newest, ApplyTo(current, h))
  BY <1>2 DEF ChainInOrder, ApplyTo
<1> QED BY <1>3, <1>4 DEF p, h

\* A newer change leaves the chain in order.
LEMMA NewerInOrder ==
  ASSUME NEW q \in Seq(Job), NEW newest \in Batch, NEW newer \in Batch,
         NEW current \in Batch, ChainInOrder(q, newest, current),
         \A k \in Keys : newest[k] <= newer[k]
  PROVE  ChainInOrder(q, newer, current)
<1>1. \A i \in 1..Len(q), k \in Keys : q[i].batch[k] \in Nat
  BY JobVersions
<1>2. \A k \in Keys : newest[k] \in Nat /\ newer[k] \in Nat
  BY BoundsAssumption DEF Batch
<1> QED BY <1>1, <1>2 DEF ChainInOrder

\* The order part of a step that only takes the head off the chain of s.
LEMMA FinishKeepsOrder ==
  ASSUME Inv, NEW s \in Scopes, NEW r, chain[s] # <<>>, Finish(s, r),
         UNCHANGED <<latest, runtime>>
  PROVE  OrderInv'
<1> USE DEF Inv, TypeInv, TypeOK
<1>1. \A t \in Scopes : chain'[t] = IF t = s THEN Tail(chain[s]) ELSE chain[t]
  BY DEF Finish
<1>2. \A t \in Scopes : ChainInOrder(chain[t], latest[t], Floor(t))
  BY DEF OrderInv
<1>3. ChainInOrder(Tail(chain[s]), latest[s], Floor(s))
  BY <1>2, TailInOrder, FloorType
<1> QED BY <1>1, <1>2, <1>3 DEF OrderInv, Floor

LEMMA FlushKeepsOrder ==
  ASSUME Inv, FlushPending, UNCHANGED <<latest, runtime>>
  PROVE  OrderInv'
<1> USE DEF Inv, TypeInv, TypeOK
<1> SUFFICES ASSUME NEW s \in Scopes
             PROVE  ChainInOrder(chain'[s], latest[s], Floor(s))
  BY DEF OrderInv, Floor
<1> DEFINE j == [batch |-> pending[s], awaited |-> FALSE]
<1>1. ChainInOrder(chain[s], latest[s], Floor(s))
  BY DEF OrderInv
<1>2. chain'[s] = IF IsEmpty(pending[s]) THEN chain[s] ELSE Append(chain[s], j)
  BY DEF FlushPending
<1>3. j \in Job /\ j.batch = pending[s]
  BY DEF Job
<1>4. \A k \in Keys : Floor(s)[k] <= latest[s][k] /\ pending[s][k] \in {NoChange, latest[s][k]}
  BY DEF VersionsBounded
<1> HIDE DEF j
<1>5. ChainInOrder(Append(chain[s], j), latest[s], Floor(s))
  BY <1>1, <1>3, <1>4, AppendInOrder, FloorType
<1> QED BY <1>1, <1>2, <1>5

\* What the plugin works with after a successful delivery: never older, and
\* still not newer than the newest change.
LEMMA SuccessIsNewer ==
  ASSUME Inv, NEW s \in Scopes, chain[s] # <<>>, NEW k \in Keys
  PROVE  LET b == Head(chain[s]).batch
         IN /\ Floor(s)[k] <= ApplyTo(Floor(s), b)[k]
            /\ ApplyTo(Floor(s), b)[k] <= latest[s][k]
            /\ b[k] <= latest[s][k]
<1> USE DEF Inv, TypeInv, TypeOK
<1> DEFINE b == Head(chain[s]).batch
<1>1. b = chain[s][1].batch /\ 1 \in 1..Len(chain[s])
  BY HeadTailProperties, EmptySeq, LenProperties
<1>2. b[k] <= latest[s][k] /\ (b[k] # NoChange => Floor(s)[k] <= b[k])
  BY <1>1 DEF OrderInv, ChainInOrder
<1>3. Floor(s)[k] \in Nat /\ Floor(s)[k] <= latest[s][k]
  BY BoundsAssumption, FloorType DEF VersionsBounded, Batch
<1> QED BY <1>2, <1>3 DEF ApplyTo

LEMMA InitInv == Init => Inv
<1> SUFFICES ASSUME Init PROVE Inv
  OBVIOUS
<1>1. TypeInv
  BY InitTypes
<1>2. VersionsBounded /\ PrunedByVersion /\ NoLateHandler
  BY DEF Init, VersionsBounded, PrunedByVersion, NoLateHandler, Floor, EmptyBatch, NoChange
<1>3. OrderInv
  BY EmptySeq DEF Init, OrderInv, ChainInOrder, Floor
<1> QED BY <1>1, <1>2, <1>3 DEF Inv

\* The parts of the invariant a step keeps because it leaves them alone.
LEMMA UntouchedVersions ==
  ASSUME VersionsBounded, PrunedByVersion, UNCHANGED <<versionVars, runtime>>,
         \A s \in Scopes : pending'[s] = pending[s] \/ pending'[s] = EmptyBatch
  PROVE  VersionsBounded' /\ PrunedByVersion'
<1>1. PrunedByVersion'
  BY DEF PrunedByVersion, versionVars
<1>2. VersionsBounded'
  BY DEF VersionsBounded, versionVars, EmptyBatch, NoChange, Floor
<1> QED BY <1>1, <1>2

NeverOlder ==
  \A s \in Scopes, k \in Keys :
    s \in HonourAbort => runtime'[s][k] >= runtime[s][k]

LEMMA StepInv == Inv /\ [Next]_vars => Inv' /\ NeverOlder
<1> SUFFICES ASSUME Inv, [Next]_vars PROVE Inv' /\ NeverOlder
  OBVIOUS
<1>0. TypeInv /\ TypeInv' /\ VersionsBounded /\ PrunedByVersion /\ OrderInv /\ NoLateHandler
  BY StepTypes DEF Inv
<1> DEFINE Goal == /\ VersionsBounded' /\ PrunedByVersion' /\ OrderInv' /\ NoLateHandler'
                   /\ NeverOlder
<1> SUFFICES Goal
  BY <1>0 DEF Inv
<1>a. \A s \in Scopes, k \in Keys :
        /\ runtime[s][k] \in Nat /\ latest[s][k] \in Nat /\ committed[s][k] \in Nat
        /\ version[s] \in Nat /\ applied[s] \in Nat
  BY <1>0, BoundsAssumption DEF TypeInv, TypeOK, Batch
<1>b. ASSUME UNCHANGED <<versionVars, runtime, chain, late>>,
             \A s \in Scopes : pending'[s] = pending[s] \/ pending'[s] = EmptyBatch
      PROVE  Goal
  <2>1. VersionsBounded' /\ PrunedByVersion'
    BY <1>0, <1>b, UntouchedVersions
  <2>2. OrderInv' /\ NoLateHandler'
    BY <1>0, <1>b DEF OrderInv, NoLateHandler, versionVars, Floor
  <2>3. NeverOlder
    BY <1>a, <1>b DEF NeverOlder
  <2> QED BY <2>1, <2>2, <2>3
<1>c. ASSUME NEW s \in Scopes, NEW r, chain[s] # <<>>, Finish(s, r),
             UNCHANGED <<versionVars, runtime, pending, late>>
      PROVE  Goal
  <2>1. VersionsBounded' /\ PrunedByVersion'
    BY <1>0, <1>c, UntouchedVersions
  <2>2. OrderInv'
    BY <1>c, FinishKeepsOrder DEF versionVars
  <2>3. NoLateHandler' /\ NeverOlder
    BY <1>0, <1>a, <1>c DEF NoLateHandler, NeverOlder
  <2> QED BY <2>1, <2>2, <2>3
<1>d. ASSUME FlushPending, UNCHANGED <<versionVars, runtime, late>>
      PROVE  Goal
  <2>1. \A s \in Scopes : pending'[s] = EmptyBatch
    BY <1>d DEF FlushPending
  <2>2. VersionsBounded' /\ PrunedByVersion'
    BY <1>0, <1>d, <2>1, UntouchedVersions
  <2>3. OrderInv'
    BY <1>d, FlushKeepsOrder DEF versionVars
  <2>4. NoLateHandler' /\ NeverOlder
    BY <1>0, <1>a, <1>d DEF NoLateHandler, NeverOlder
  <2> QED BY <2>2, <2>3, <2>4
<1> HIDE DEF Goal
<1>1. ASSUME NEW s \in Scopes, Register(s) PROVE Goal
  BY <1>1, <1>b DEF Register, queueVars
<1>2. ASSUME NEW s \in Scopes, Unregister(s) PROVE Goal
  BY <1>2, <1>b DEF Unregister, queueVars
<1>3. ASSUME NEW s \in Scopes, NEW k \in Keys, Enqueue(s, k) PROVE Goal
  <2> DEFINE new == version[s] + 1
  <2>1. /\ version' = [version EXCEPT ![s] = new]
        /\ committed' = [committed EXCEPT ![s][k] = new]
        /\ latest' = [latest EXCEPT ![s][k] = new]
        /\ UNCHANGED <<chain, applied, runtime, late>>
    BY <1>3 DEF Enqueue
  <2>2. /\ Enabled => pending' = [pending EXCEPT ![s][k] = new]
        /\ ~Enabled => pending' = pending
    BY <1>3 DEF Enqueue
  <2>3. new \in Nat /\ new > version[s]
    BY <1>a
  <2> HIDE DEF new
  <2>4. \A t \in Scopes : version'[t] = IF t = s THEN new ELSE version[t]
    BY <1>0, <2>1 DEF TypeInv, TypeOK
  <2>5. \A t \in Scopes, m \in Keys :
          latest'[t][m] = IF t = s /\ m = k THEN new ELSE latest[t][m]
    <3>1. latest \in [Scopes -> [Keys -> 0..MaxVersion]]
      BY <1>0 DEF TypeInv, TypeOK, Batch
    <3>2. latest' = [latest EXCEPT ![s][k] = new]
      BY <2>1
    <3> QED BY <3>1, <3>2
  <2>6. \A t \in Scopes, m \in Keys :
          committed'[t][m] = IF t = s /\ m = k THEN new ELSE committed[t][m]
    <3>1. committed \in [Scopes -> [Keys -> 0..MaxVersion]]
      BY <1>0 DEF TypeInv, TypeOK, Batch
    <3>2. committed' = [committed EXCEPT ![s][k] = new]
      BY <2>1
    <3> QED BY <3>1, <3>2
  <2>7. ASSUME Enabled, NEW t \in Scopes, NEW m \in Keys
        PROVE  pending'[t][m] = IF t = s /\ m = k THEN new ELSE pending[t][m]
    <3>1. pending' = [pending EXCEPT ![s][k] = new]
      BY <2>2, <2>7
    <3> QED BY <1>0, <3>1 DEF TypeInv, TypeOK, Batch
  <2>8. VersionsBounded'
    <3>1. \A t \in Scopes : /\ applied'[t] <= version'[t]
                            /\ ~Enabled => pending'[t] = EmptyBatch
      BY <1>0, <1>a, <2>1, <2>2, <2>3, <2>4 DEF VersionsBounded
    <3>f. \A t \in Scopes : Floor(t)' = Floor(t)
      BY <2>1 DEF Floor
    <3> SUFFICES ASSUME NEW t \in Scopes, NEW m \in Keys
                 PROVE  /\ latest'[t][m] <= version'[t]
                        /\ Floor(t)[m] <= latest'[t][m]
                        /\ pending'[t][m] \in {NoChange, latest'[t][m]}
      BY <2>1, <3>1 DEF VersionsBounded, Floor
    <3>2. /\ Floor(t)[m] \in Nat
          /\ latest[t][m] <= version[t] /\ Floor(t)[m] <= latest[t][m]
          /\ pending[t][m] \in {NoChange, latest[t][m]}
      BY <1>0, FloorType, BoundsAssumption DEF VersionsBounded, Batch
    <3>3. latest'[t][m] <= version'[t] /\ Floor(t)[m] <= latest'[t][m]
      BY <1>a, <2>3, <2>4, <2>5, <3>2
    <3>4. CASE Enabled
      BY <2>5, <2>7, <3>2, <3>3, <3>4
    <3>5. CASE ~Enabled
      <4>1. pending'[t] = EmptyBatch
        BY <3>1, <3>5
      <4> QED BY <3>3, <4>1 DEF EmptyBatch
    <3> QED BY <3>3, <3>4, <3>5, FlagsAssumption
  <2>9. PrunedByVersion'
    <3> SUFFICES ASSUME NEW t \in Scopes, NEW m \in Keys
                 PROVE  committed'[t][m] = IF latest'[t][m] > applied[t]
                                           THEN latest'[t][m] ELSE NoChange
      BY <2>1 DEF PrunedByVersion
    <3>1. /\ applied[t] <= version[t]
          /\ committed[t][m] = IF latest[t][m] > applied[t] THEN latest[t][m] ELSE NoChange
      BY <1>0 DEF VersionsBounded, PrunedByVersion
    <3> QED BY <3>1, <2>3, <2>5, <2>6, <1>a
  <2>10. OrderInv'
    <3> SUFFICES ASSUME NEW t \in Scopes
                 PROVE  ChainInOrder(chain[t], latest'[t], Floor(t))
      BY <2>1 DEF OrderInv, Floor
    <3>1. \A m \in Keys : latest[t][m] <= latest'[t][m]
      BY <1>0, <1>a, <2>3, <2>5 DEF VersionsBounded
    <3>2. /\ chain[t] \in Seq(Job) /\ latest[t] \in Batch /\ latest'[t] \in Batch
          /\ Floor(t) \in Batch
      BY <1>0, FloorType DEF TypeInv, TypeOK
    <3>3. ChainInOrder(chain[t], latest[t], Floor(t))
      BY <1>0 DEF OrderInv
    <3> QED BY <3>1, <3>2, <3>3, NewerInOrder
  <2> QED BY <2>1, <2>8, <2>9, <2>10, <1>0, <1>a DEF Goal, NoLateHandler, NeverOlder
<1>4. CASE TimerFlush
  BY <1>4, <1>d DEF TimerFlush
<1>5. ASSUME NEW sel \in Selections, ReconcileStart(sel) PROVE Goal
  BY <1>5, <1>b DEF ReconcileStart, queueVars
<1>6. CASE ReconcileNext
  <2> DEFINE s == Min(rec.todo)
             snapshot == IF s \in rec.emptied THEN EmptyBatch ELSE committed[s]
             job == [batch |-> snapshot, awaited |-> TRUE]
  <2>1. s \in Scopes
    BY <1>0, <1>6, MinOfNaturals, ScopesAssumption DEF ReconcileNext, RecType, TypeInv, TypeOK
  <2>2. job \in Job /\ job.batch = snapshot
    BY <1>0, <2>1, EmptyBatchType DEF Job, TypeInv, TypeOK
  <2>3. chain' = [chain EXCEPT ![s] = Append(@, job)]
    BY <1>6 DEF ReconcileNext
  <2>4. UNCHANGED <<versionVars, runtime, pending, late>>
    BY <1>6 DEF ReconcileNext
  <2>5. \A k \in Keys : job.batch[k] \in {NoChange, latest[s][k]}
    BY <1>0, <2>1, <2>2 DEF PrunedByVersion, EmptyBatch
  <2> HIDE DEF s, snapshot, job
  <2>6. ChainInOrder(Append(chain[s], job), latest[s], Floor(s))
    BY <1>0, <2>1, <2>2, <2>5, AppendInOrder, FloorType DEF OrderInv, VersionsBounded, TypeInv, TypeOK
  <2>7. OrderInv'
    <3>1. \A t \in Scopes : chain'[t] = IF t = s THEN Append(chain[s], job) ELSE chain[t]
      BY <1>0, <2>1, <2>3 DEF TypeInv, TypeOK
    <3> QED BY <1>0, <2>4, <2>6, <3>1 DEF OrderInv, versionVars, Floor
  <2>8. VersionsBounded' /\ PrunedByVersion'
    BY <1>0, <2>4, UntouchedVersions
  <2> QED BY <2>4, <2>7, <2>8, <1>0, <1>a DEF Goal, NoLateHandler, NeverOlder
<1>7. CASE ReconcileFinish
  <2>1. CASE FlushPending
    BY <1>7, <1>d, <2>1 DEF ReconcileFinish
  <2>2. CASE UNCHANGED queueVars
    BY <1>7, <1>b, <2>2 DEF ReconcileFinish, queueVars
  <2> QED BY <1>7, <2>1, <2>2 DEF ReconcileFinish
<1>8. ASSUME NEW s \in Scopes, DeliverStart(s) PROVE Goal
  BY <1>8, <1>b DEF DeliverStart, queueVars
<1>9. ASSUME NEW s \in Scopes, DeliverNoHandler(s) PROVE Goal
  BY <1>9, <1>c DEF DeliverNoHandler
<1>10. ASSUME NEW s \in Scopes, DeliverEmpty(s) PROVE Goal
  BY <1>10, <1>c DEF DeliverEmpty
<1>11. ASSUME NEW s \in Scopes, HandlerSucceeds(s) PROVE Goal
  <2> DEFINE b == Head(chain[s]).batch
             v == BatchVersion(b)
  <2>1. chain[s] # <<>> /\ b \in Batch /\ ~IsEmpty(b)
    BY <1>0, <1>11, HeadIsJob DEF HandlerSucceeds, TypeInv, TypeOK, DeliveryInProgress
  <2>2. /\ v \in Nat
        /\ \E k \in Keys : v = b[k]
    BY <2>1, BatchVersionIsNewest, BoundsAssumption
  <2>3. v <= version[s]
    <3>1. PICK k \in Keys : v = b[k]
      BY <2>2
    <3>2. b[k] <= latest[s][k] /\ latest[s][k] <= version[s]
      BY <1>0, <2>1, SuccessIsNewer DEF Inv, VersionsBounded
    <3> QED BY <3>1, <3>2, <2>2, <1>a
  <2>4. /\ applied' = [applied EXCEPT ![s] = Max({applied[s], v})]
        /\ committed' = [committed EXCEPT ![s] = Forget(committed[s], v)]
        /\ runtime' = [runtime EXCEPT ![s] = ApplyTo(runtime[s], b)]
        /\ chain' = [chain EXCEPT ![s] = Tail(chain[s])]
        /\ UNCHANGED <<pending, version, latest, late>>
    BY <1>11 DEF HandlerSucceeds, Finish
  <2>5. \A t \in Scopes :
          /\ applied'[t] = IF t = s THEN Max({applied[s], v}) ELSE applied[t]
          /\ committed'[t] = IF t = s THEN Forget(committed[s], v) ELSE committed[t]
          /\ runtime'[t] = IF t = s THEN ApplyTo(runtime[s], b) ELSE runtime[t]
          /\ chain'[t] = IF t = s THEN Tail(chain[s]) ELSE chain[t]
    BY <1>0, <2>4 DEF TypeInv, TypeOK
  <2>6. \A k \in Keys : /\ Floor(s)[k] <= ApplyTo(Floor(s), b)[k]
                        /\ ApplyTo(Floor(s), b)[k] <= latest[s][k]
    BY <2>1, SuccessIsNewer
  <2>f. \A t \in Scopes :
          Floor(t)' = IF t \in HonourAbort /\ t = s THEN ApplyTo(Floor(s), b) ELSE Floor(t)
    BY <2>5 DEF Floor
  <2> HIDE DEF v
  <2>7. /\ Max({applied[s], v}) \in {applied[s], v}
        /\ applied[s] <= Max({applied[s], v}) /\ v <= Max({applied[s], v})
    BY <1>a, <2>2, MaxOfTwo
  <2> HIDE DEF b
  <2>8. VersionsBounded'
    <3>1. \A t \in Scopes : applied'[t] <= version[t]
      BY <1>0, <2>3, <2>5, <2>7 DEF VersionsBounded
    <3>2. \A t \in Scopes, k \in Keys : Floor(t)'[k] <= latest[t][k]
      BY <1>0, <2>f, <2>6 DEF VersionsBounded
    <3> QED BY <1>0, <2>4, <3>1, <3>2 DEF VersionsBounded
  <2>9. PrunedByVersion'
    <3>0. latest' = latest
      BY <2>4
    <3> SUFFICES ASSUME NEW t \in Scopes, NEW k \in Keys
                 PROVE  committed'[t][k] = IF latest[t][k] > applied'[t]
                                           THEN latest[t][k] ELSE NoChange
      BY <3>0 DEF PrunedByVersion
    <3>1. committed[t][k] = IF latest[t][k] > applied[t] THEN latest[t][k] ELSE NoChange
      BY <1>0 DEF PrunedByVersion
    <3>2. CASE t # s
      BY <2>5, <3>1, <3>2
    <3>3. CASE t = s
      <4>1. committed'[t][k] = IF committed[s][k] <= v THEN NoChange ELSE committed[s][k]
        BY <2>5, <3>3 DEF Forget
      <4> QED BY <3>1, <3>3, <4>1, <2>2, <2>5, <2>7, <1>a DEF NoChange
    <3> QED BY <3>2, <3>3
  <2>10. OrderInv'
    <3>1. \A t \in Scopes : ChainInOrder(chain[t], latest[t], Floor(t))
      BY <1>0 DEF OrderInv
    <3>2. /\ ChainInOrder(Tail(chain[s]), latest[s], Floor(s))
          /\ ChainInOrder(Tail(chain[s]), latest[s], ApplyTo(Floor(s), b))
      BY <1>0, <2>1, <3>1, TailInOrder, FloorType DEF TypeInv, TypeOK, b
    <3>3. \A t \in Scopes : ChainInOrder(chain'[t], latest[t], Floor(t)')
      BY <2>5, <2>f, <3>1, <3>2
    <3> QED BY <2>4, <3>3 DEF OrderInv
  <2>11. NeverOlder
    <3> SUFFICES ASSUME NEW t \in Scopes, t \in HonourAbort, NEW k \in Keys
                 PROVE  runtime'[t][k] >= runtime[t][k]
      BY DEF NeverOlder
    <3>1. Floor(t) = runtime[t] /\ Floor(t)' = runtime'[t] /\ runtime'[t][k] \in Nat
      BY <1>0, BoundsAssumption DEF TypeInv, TypeOK, Batch, Floor
    <3>2. CASE t = s BY <3>1, <3>2, <2>f, <2>6, <1>a
    <3>3. CASE t # s BY <3>1, <3>3, <2>f, <1>a
    <3> QED BY <3>2, <3>3
  <2> QED BY <2>4, <2>8, <2>9, <2>10, <2>11, <1>0 DEF Goal, NoLateHandler
<1>12. ASSUME NEW s \in Scopes, phase[s] = "running", AttemptFailed(s),
              UNCHANGED <<handlers, pending, timer, versionVars, runtime>>,
              \A t \in Scopes : t \in HonourAbort => late'[t] = late[t]
       PROVE  Goal
  <2>1. VersionsBounded' /\ PrunedByVersion'
    BY <1>0, <1>12, UntouchedVersions
  <2>2. OrderInv'
    <3>1. CASE attempt[s] > Retries
      <4>1. chain[s] # <<>> /\ Finish(s, rec)
        BY <1>0, <1>12, <3>1 DEF TypeInv, DeliveryInProgress, AttemptFailed
      <4> QED BY <1>12, <4>1, FinishKeepsOrder DEF versionVars
    <3>2. CASE ~(attempt[s] > Retries)
      BY <1>0, <1>12, <3>2 DEF AttemptFailed, OrderInv, versionVars, Floor
    <3> QED BY <3>1, <3>2
  <2>3. NoLateHandler' /\ NeverOlder
    BY <1>0, <1>a, <1>12 DEF NoLateHandler, NeverOlder
  <2> QED BY <2>1, <2>2, <2>3 DEF Goal
<1>13. ASSUME NEW s \in Scopes, HandlerRejects(s) PROVE Goal
  <2>1. /\ phase[s] = "running" /\ AttemptFailed(s) /\ late' = late
        /\ UNCHANGED <<handlers, pending, timer, versionVars, runtime>>
    BY <1>13 DEF HandlerRejects
  <2> QED BY <1>12, <2>1
<1>14. ASSUME NEW s \in Scopes, HandlerTimesOut(s) PROVE Goal
  <2>1. /\ phase[s] = "running" /\ AttemptFailed(s)
        /\ UNCHANGED <<handlers, pending, timer, versionVars, runtime>>
    BY <1>14 DEF HandlerTimesOut
  <2>2. \A t \in Scopes : t \in HonourAbort => late'[t] = late[t]
    BY <1>0, <1>14 DEF HandlerTimesOut, TypeInv, TypeOK
  <2> QED BY <1>12, <2>1, <2>2
<1>15. ASSUME NEW s \in Scopes, RetryAfterDelay(s) PROVE Goal
  BY <1>15, <1>b DEF RetryAfterDelay, queueVars
<1>16. ASSUME NEW s \in Scopes, LateHandlerCompletes(s) PROVE Goal
  <2>1. s \notin HonourAbort
    BY <1>0, <1>16 DEF LateHandlerCompletes, NoLateHandler
  <2>2. UNCHANGED <<chain, pending, version, applied, committed, latest>>
    BY <1>16 DEF LateHandlerCompletes, queueVars, versionVars
  <2>3. \A t \in Scopes \ {s} : runtime'[t] = runtime[t] /\ late'[t] = late[t]
    BY <1>0, <1>16 DEF LateHandlerCompletes, TypeInv, TypeOK
  <2>4. \A t \in Scopes : Floor(t)' = Floor(t)
    BY <2>1, <2>3 DEF Floor
  <2> QED BY <1>0, <1>a, <2>1, <2>2, <2>3, <2>4
          DEF Goal, VersionsBounded, PrunedByVersion, OrderInv, NoLateHandler, NeverOlder
<1>17. CASE UNCHANGED vars
  BY <1>17, <1>b DEF vars, queueVars
<1> QED
  BY <1>1, <1>2, <1>3, <1>4, <1>5, <1>6, <1>7, <1>8, <1>9, <1>10, <1>11, <1>13, <1>14,
     <1>15, <1>16, <1>17 DEF Next

\* The last applied version is that of the newest delivered change.
AppliedIsNewest ==
  \A s \in Scopes :
    /\ \A k \in Keys : delivered[s][k] <= applied[s]
    /\ applied[s] # 0 => \E k \in Keys : delivered[s][k] = applied[s]

LEMMA SuccessAppliesNewest ==
  ASSUME TypeInv, AppliedIsNewest, NEW s \in Scopes, HandlerSucceeds(s)
  PROVE  AppliedIsNewest'
<1> USE BoundsAssumption
<1> DEFINE b == Head(chain[s]).batch
           v == BatchVersion(b)
           d == DeliveredWith(delivered[s], b)
           a == Max({applied[s], v})
<1>1. chain[s] # <<>> /\ b \in Batch /\ ~IsEmpty(b)
  BY HeadIsJob DEF HandlerSucceeds, TypeInv, TypeOK, DeliveryInProgress
<1>2. /\ applied' = [applied EXCEPT ![s] = a]
      /\ delivered' = [delivered EXCEPT ![s] = d]
  BY DEF HandlerSucceeds
<1>3. /\ v \in Nat /\ \E k \in Keys : v = b[k]
      /\ \A k \in Keys : b[k] <= v /\ b[k] \in Nat
  BY <1>1, BatchVersionIsNewest DEF Batch
<1>4. /\ applied[s] \in Nat /\ \A k \in Keys : delivered[s][k] \in Nat
      /\ delivered[s] \in Batch
  BY DEF TypeInv, TypeOK, Batch
<1>5. \A k \in Keys : /\ d[k] \in {delivered[s][k], b[k]}
                      /\ delivered[s][k] <= d[k] /\ b[k] <= d[k]
  BY <1>1, <1>4, DeliveredWithKeys
<1> HIDE DEF b, v, d
<1>6. a \in {applied[s], v} /\ applied[s] <= a /\ v <= a
  BY <1>3, <1>4, MaxOfTwo
<1> HIDE DEF a
<1>7. \A t \in Scopes : /\ applied'[t] = IF t = s THEN a ELSE applied[t]
                        /\ delivered'[t] = IF t = s THEN d ELSE delivered[t]
  BY <1>2 DEF TypeInv, TypeOK
<1>8. \A k \in Keys : d[k] <= a
  BY <1>3, <1>4, <1>5, <1>6 DEF AppliedIsNewest
<1>9. a # 0 => \E k \in Keys : d[k] = a
  <2>1. CASE a = v
    <3>1. PICK k \in Keys : v = b[k]
      BY <1>3
    <3> QED BY <1>3, <1>4, <1>5, <1>8, <2>1, <3>1
  <2>2. CASE a = applied[s] /\ a # 0
    <3>1. PICK k \in Keys : delivered[s][k] = applied[s]
      BY <2>2 DEF AppliedIsNewest
    <3> QED BY <1>3, <1>4, <1>5, <1>8, <2>2, <3>1
  <2> QED BY <1>6, <2>1, <2>2
<1> QED BY <1>7, <1>8, <1>9 DEF AppliedIsNewest

LEMMA StepAppliesNewest == TypeInv /\ AppliedIsNewest /\ [Next]_vars => AppliedIsNewest'
<1> SUFFICES ASSUME TypeInv, AppliedIsNewest, [Next]_vars PROVE AppliedIsNewest'
  OBVIOUS
<1>1. ASSUME UNCHANGED <<applied, delivered>> PROVE AppliedIsNewest'
  BY <1>1 DEF AppliedIsNewest
<1>2. ASSUME NEW s \in Scopes, HandlerSucceeds(s) PROVE AppliedIsNewest'
  BY <1>2, SuccessAppliesNewest
<1>3. ASSUME NEW s \in Scopes, NEW k \in Keys, Enqueue(s, k) PROVE AppliedIsNewest'
  BY <1>1, <1>3 DEF Enqueue
<1>4. ASSUME NEW s \in Scopes,
             \/ Register(s) \/ Unregister(s) \/ DeliverStart(s) \/ DeliverNoHandler(s)
             \/ DeliverEmpty(s) \/ HandlerRejects(s) \/ HandlerTimesOut(s)
             \/ RetryAfterDelay(s) \/ LateHandlerCompletes(s)
      PROVE  AppliedIsNewest'
  BY <1>1, <1>4 DEF Register, Unregister, DeliverStart, DeliverNoHandler, DeliverEmpty,
     HandlerRejects, HandlerTimesOut, RetryAfterDelay, LateHandlerCompletes, versionVars
<1>5. TimerFlush \/ ReconcileNext \/ ReconcileFinish
        \/ (\E sel \in Selections : ReconcileStart(sel)) \/ UNCHANGED vars => AppliedIsNewest'
  BY <1>1 DEF TimerFlush, ReconcileNext, ReconcileFinish, ReconcileStart, vars, versionVars
<1> QED BY <1>2, <1>3, <1>4, <1>5 DEF Next

\* A committed change whose delivery failed is kept for reconciliation as
\* ADR-012 promises, unless a later change of another key of its scope was
\* delivered, the one case in which the code's pruning by version
\* (hot-reload.coordinator.ts:132-138) drops it; for any number of scopes, keys,
\* retries and reconciles, with handlers that outlive their timeout too.
THEOREM RetainedForReconciliation == Spec => []KeptUntilDelivered
<1>1. Init => AppliedIsNewest
  BY DEF Init, AppliedIsNewest, EmptyBatch, NoChange
<1>2. ASSUME Inv, AppliedIsNewest, NEW s \in Scopes, NEW k \in Keys
      PROVE  committed[s][k] = IF Delivered(s, k) \/ Overtaken(s, k)
                               THEN NoChange ELSE latest[s][k]
  <2>1. /\ latest[s][k] \in Nat /\ applied[s] \in Nat
        /\ \A j \in Keys : delivered[s][j] \in Nat
    BY <1>2, BoundsAssumption DEF Inv, TypeInv, TypeOK, Batch
  <2>2. committed[s][k] = IF latest[s][k] > applied[s] THEN latest[s][k] ELSE NoChange
    BY <1>2 DEF Inv, PrunedByVersion
  <2>3. Delivered(s, k) \/ Overtaken(s, k) <=> \E j \in Keys : delivered[s][j] >= latest[s][k]
    BY DEF Delivered, Overtaken
  <2>4. CASE latest[s][k] > applied[s]
    <3>1. \A j \in Keys : ~(delivered[s][j] >= latest[s][k])
      BY <1>2, <2>1, <2>4 DEF AppliedIsNewest
    <3> QED BY <2>2, <2>3, <2>4, <3>1
  <2>5. CASE ~(latest[s][k] > applied[s])
    <3>1. \E j \in Keys : delivered[s][j] >= latest[s][k]
      <4>1. CASE applied[s] = 0
        BY <2>1, <2>5, <4>1
      <4>2. CASE applied[s] # 0
        BY <1>2, <2>1, <2>5, <4>2 DEF AppliedIsNewest
      <4> QED BY <4>1, <4>2
    <3> QED BY <2>2, <2>3, <2>5, <3>1
  <2> QED BY <2>4, <2>5
<1>3. Inv /\ AppliedIsNewest => KeptUntilDelivered
  BY <1>2 DEF KeptUntilDelivered
<1>4. Inv => TypeInv
  BY DEF Inv
<1> QED BY <1>1, <1>3, <1>4, InitInv, StepInv, StepAppliesNewest, PTL DEF Spec

\* The values a plugin works with never go back to an older change in a scope
\* whose handlers honour the abort signal (hot-reload.coordinator.ts:111-149).
THEOREM DeliveryOrder == Spec => RuntimeNeverRegresses
<1>1. Inv /\ [Next]_vars
        => [\A s \in HonourAbort, k \in Keys : runtime'[s][k] >= runtime[s][k]]_vars
  BY StepInv, FlagsAssumption DEF NeverOlder
<1> QED BY <1>1, InitInv, StepInv, PTL DEF Spec, RuntimeNeverRegresses

\* A batch that is pending has its window's timer armed
\* (hot-reload.coordinator.ts:78-86).
THEOREM NoBatchStranded == Spec => []NoStrandedBatch
<1>1. Init => NoStrandedBatch
  BY DEF Init, NoStrandedBatch, IsEmpty, KeysOf, EmptyBatch
<1>2. FlushPending => NoStrandedBatch'
  BY DEF FlushPending, NoStrandedBatch, IsEmpty, KeysOf, EmptyBatch
<1>3. UNCHANGED <<pending, timer>> /\ NoStrandedBatch => NoStrandedBatch'
  BY DEF NoStrandedBatch
<1>4. ReconcileFinish /\ NoStrandedBatch => NoStrandedBatch'
  BY <1>2, <1>3 DEF ReconcileFinish, queueVars
<1>5. ASSUME NoStrandedBatch, NEW s \in Scopes, NEW k \in Keys, Enqueue(s, k)
      PROVE  NoStrandedBatch'
  BY <1>3, <1>5 DEF Enqueue, NoStrandedBatch
<1>6. ASSUME NoStrandedBatch, NEW s \in Scopes,
             \/ Register(s) \/ Unregister(s) \/ DeliverStart(s) \/ DeliverNoHandler(s)
             \/ DeliverEmpty(s) \/ HandlerSucceeds(s) \/ HandlerRejects(s)
             \/ HandlerTimesOut(s) \/ RetryAfterDelay(s) \/ LateHandlerCompletes(s)
      PROVE  NoStrandedBatch'
  BY <1>3, <1>6 DEF Register, Unregister, DeliverStart, DeliverNoHandler, DeliverEmpty,
     HandlerSucceeds, HandlerRejects, HandlerTimesOut, RetryAfterDelay,
     LateHandlerCompletes, queueVars
<1>7. NoStrandedBatch /\ [Next]_vars => NoStrandedBatch'
  BY <1>2, <1>3, <1>4, <1>5, <1>6
     DEF Next, TimerFlush, ReconcileStart, ReconcileNext, vars, queueVars
<1> QED BY <1>1, <1>7, PTL DEF Spec
=============================================================================
