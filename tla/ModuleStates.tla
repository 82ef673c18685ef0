---------------------------- MODULE ModuleStates ----------------------------
(***************************************************************************)
(* Switching the modules of one guild on and off from several dashboards.   *)
(* The handler reads the states, decides what has to change and hands both  *)
(* to a transaction that compares and writes: it locks the rows it finds,   *)
(* but a module never switched before has no row and counts as enabled.  A  *)
(* fresh guild has none at all.                                             *)
(* PostgreSQL runs it READ COMMITTED: a statement sees the rows committed   *)
(* before it began, and the latest version of those it had to wait for.     *)
(*                                                                          *)
(* Modules are numbered in the order of their manifests' registration.      *)
(***************************************************************************)
EXTENDS Integers, FiniteSets, FiniteSetsExt

CONSTANTS
  N,            \* number of registered manifests
  Dependencies, \* per module: those its manifest depends on
  Available,    \* modules the loader has loaded
  Clients,      \* dashboards, one request at a time each
  Asks,         \* per client: the modules its user switches
  QueriesFail   \* may statements fail?

Modules == 1..N

ASSUME ManifestAssumption ==
  N \in Nat /\ Dependencies \in [Modules -> SUBSET Modules]
ASSUME GuildAssumption == Available \subseteq Modules
ASSUME ClientAssumption == Asks \in [Clients -> SUBSET Modules]
ASSUME FailureAssumption == QueriesFail \in BOOLEAN

VARIABLES
  rows, \* guild_settings: per module "on", "off" or "missing"
  op,   \* per client: the request in progress
  raced \* history: a transaction was committed that took a module for enabled,
        \* because it had no row to lock, that another one had just disabled

vars == <<rows, op, raced>>

NoOp == [phase |-> "idle", module |-> 0, enabled |-> FALSE, read |-> {}, changed |-> {},
         seen |-> {}, locked |-> {}, written |-> {}]

\* A module without a row is enabled.
On == {m \in Modules : rows[m] # "off"}

Init ==
  /\ rows = [m \in Modules |-> "missing"]
  /\ op = [c \in Clients |-> NoOp]
  /\ raced = FALSE

-----------------------------------------------------------------------------
(* The handler, up to the transaction.  A request it refuses changes nothing. *)

\* Everything m depends on, directly or not.
TransitiveDependencies(m) ==
  {x \in Modules : \A S \in SUBSET Modules :
     Dependencies[m] \subseteq S /\ (\A d \in S : Dependencies[d] \subseteq S) => x \in S}

\* Mutant: only direct dependents are switched off with a module.
DirectDependents(m) == {x \in Modules : m \in Dependencies[x]}

\* Everything that depends on m, directly or not.
TransitiveDependents(m) ==
  {x \in Modules : \A S \in SUBSET Modules :
     (\A y \in Modules : m \in Dependencies[y] \/ Dependencies[y] \cap S # {} => y \in S)
       => x \in S}

Idle(c) == op[c].phase = "idle"

Proceed(c, m, enabled, read, changed) ==
  /\ op' = [op EXCEPT ![c] = [NoOp EXCEPT !.phase = "select", !.module = m,
              !.enabled = enabled, !.read = read, !.changed = changed]]
  /\ UNCHANGED <<rows, raced>>

Enable(c, m) ==
  LET read == On \cap Available
  IN  /\ Idle(c)
      /\ TransitiveDependencies(m) \subseteq read
      /\ Proceed(c, m, TRUE, read, {m})

Disable(c, m, confirmed) ==
  LET read == On \cap Available
      dependents == read \cap TransitiveDependents(m)
  IN  /\ Idle(c)
      /\ dependents = {} \/ confirmed
      /\ Proceed(c, m, FALSE, read, {m} \cup dependents)

-----------------------------------------------------------------------------
(* The transaction.  It holds the rows it has locked or written to its end. *)

Held(c) == op[c].locked \cup op[c].written

Free(c, m) == \A d \in Clients \ {c} : m \notin Held(d)

\* SELECT ... FOR UPDATE begins: it will lock the rows it sees now.
Select(c) ==
  /\ op[c].phase = "select"
  /\ op' = [op EXCEPT ![c].phase = "lock",
                      ![c].seen = {m \in Modules : rows[m] # "missing"}]
  /\ UNCHANGED <<rows, raced>>

\* The next row, in whatever order the scan finds them.
LockRow(c, m) ==
  /\ op[c].phase = "lock"
  /\ m \in op[c].seen \ op[c].locked /\ Free(c, m)
  /\ op' = [op EXCEPT ![c].locked = @ \cup {m}]
  /\ UNCHANGED <<rows, raced>>

\* Mutant: only the modules that are about to change are compared.
MatchesChanged(c) ==
  \A m \in op[c].changed : m \in op[c].read <=> (m \in op[c].seen => rows[m] = "on")

\* The rows the statement returned say what the handler had read.
Matches(c) ==
  \A m \in Modules : m \in op[c].read <=> (m \in op[c].seen => rows[m] = "on")

RowsLocked(c) == op[c].phase = "lock" /\ op[c].locked = op[c].seen

Compare(c) ==
  /\ RowsLocked(c) /\ Matches(c)
  /\ op' = [op EXCEPT ![c].phase = "write"]
  /\ UNCHANGED <<rows, raced>>

\* Mutant: the repository tries again by itself.
RefuseChangedRetrying(c) ==
  /\ RowsLocked(c) /\ ~Matches(c)
  /\ op' = [op EXCEPT ![c].phase = "select", ![c].locked = {}]
  /\ UNCHANGED <<rows, raced>>

\* The states have changed since they were read: the transaction does nothing.
RefuseChanged(c) ==
  /\ RowsLocked(c) /\ ~Matches(c)
  /\ op' = [op EXCEPT ![c] = NoOp]
  /\ UNCHANGED <<rows, raced>>

\* The module asked for comes first, its dependents in the order of their manifests.
NextWrite(c) ==
  IF op[c].module \notin op[c].written THEN op[c].module
  ELSE Min(op[c].changed \ op[c].written)

\* An upsert waits for another transaction's row of the same key, also for one
\* that is not committed yet.
Upsert(c) ==
  /\ op[c].phase = "write" /\ op[c].written # op[c].changed
  /\ Free(c, NextWrite(c))
  /\ op' = [op EXCEPT ![c].written = @ \cup {NextWrite(c)}]
  /\ UNCHANGED <<rows, raced>>

\* Modules the transaction found without a row, and so could not lock, which
\* another one has disabled since.
Missed(c) == {m \in Modules \ op[c].seen : rows[m] = "off"}

Value(enabled) == IF enabled THEN "on" ELSE "off"

Commit(c) ==
  /\ op[c].phase = "write" /\ op[c].written = op[c].changed
  /\ rows' = [m \in Modules |-> IF m = op[c].module THEN Value(op[c].enabled)
                                ELSE IF m \in op[c].changed THEN Value(FALSE) ELSE rows[m]]
  /\ raced' = (raced \/ Missed(c) # {})
  /\ op' = [op EXCEPT ![c] = NoOp]

-----------------------------------------------------------------------------
(* Failures *)

Abort(c) ==
  /\ op' = [op EXCEPT ![c] = NoOp]
  /\ UNCHANGED <<rows, raced>>

\* A statement fails: the transaction is rolled back.
QueryFails(c) ==
  /\ QueriesFail
  /\ op[c].phase \in {"select", "lock", "write"}
  /\ Abort(c)

\* The rows a request cannot go on without, when it can lock none of them.
Wants(c) ==
  LET next == CASE op[c].phase = "lock" -> op[c].seen \ op[c].locked
                [] op[c].phase = "write" /\ op[c].written # op[c].changed -> {NextWrite(c)}
                [] OTHER -> {}
  IN  IF \E m \in next : Free(c, m) THEN {} ELSE next

Deadlocked(c) ==
  \E D \in SUBSET Clients :
    /\ c \in D
    /\ \A d \in D : /\ Wants(d) # {}
                    /\ \A m \in Wants(d) : \E e \in D \ {d} : m \in Held(e)

\* PostgreSQL finds that transactions wait for each other and aborts one.
DeadlockVictim(c) == Deadlocked(c) /\ Abort(c)

-----------------------------------------------------------------------------

Request(c) == \E m \in Asks[c] :
  Enable(c, m) \/ \E confirmed \in BOOLEAN : Disable(c, m, confirmed)

Locking(c) == \E m \in Modules : LockRow(c, m)

Deciding(c) == Compare(c) \/ RefuseChanged(c) \/ Commit(c)

Next ==
  \E c \in Clients :
    \/ Request(c) \/ Select(c) \/ Locking(c) \/ Deciding(c) \/ Upsert(c)
    \/ QueryFails(c) \/ DeadlockVictim(c)

GoOn(c) == Select(c) \/ Locking(c) \/ Deciding(c) \/ Upsert(c) \/ DeadlockVictim(c)

\* PostgreSQL and the event loop answer.  A row lock goes to its waiters in turn,
\* and the deadlock check runs while a transaction waits: one that could go on
\* again and again does, or is aborted.  Nobody need ask, and nothing need fail.
Fairness == \A c \in Clients : SF_vars(GoOn(c))

Spec == Init /\ [][Next]_vars /\ Fairness

-----------------------------------------------------------------------------
(* Properties *)

OpType ==
  [phase : {"idle", "select", "lock", "write"}, module : 0..N,
   enabled : BOOLEAN, read : SUBSET Modules, changed : SUBSET Modules,
   seen : SUBSET Modules, locked : SUBSET Modules, written : SUBSET Modules]

\* The types of the table, the requests (guild-module-state.repository.ts:8-11,
\* module-config.endpoints.ts:197-200).
TypeOK ==
  /\ rows \in [Modules -> {"on", "off", "missing"}]
  /\ op \in [Clients -> OpType]
  /\ raced \in BOOLEAN

Switches == INSTANCE ModuleSwitches WITH on <- On

\* Whatever requests overlap, from the first of a fresh guild on, no module is
\* enabled while one it depends on is disabled (module-config.endpoints.ts:201-213).
\* PHASE-04-DASHBOARD.md 16 and 25 promise it without exception; the code has this
\* one: two transactions overlap, and the later one judged by the absence of a
\* row that the earlier one inserted, a row SELECT ... FOR UPDATE could not lock
\* (guild-module-state.repository.ts:35-41).
DependenciesEnabled == raced \/ Switches!Closed(On)

\* Overlapping requests switch modules in single steps that keep what others need,
\* until two of them race for a row that does not exist
\* (guild-module-state.repository.ts:29-52).
SwitchSpec == Switches!Init /\ [][raced' \/ Switches!Next]_On

\* Every request is answered, also when transactions wait for each other's rows
\* (guild-module-state.repository.ts:32-51).
RequestsEnd == \A c \in Clients : ~Idle(c) ~> Idle(c)
=============================================================================
