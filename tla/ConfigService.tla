---------------------------- MODULE ConfigService ----------------------------
(***************************************************************************)
(* Guild configuration: the service's cache in front of the versioned       *)
(* PostgreSQL store, read and written by concurrent API requests.  Every    *)
(* await is a point where other requests run, and the answers of different  *)
(* connections of the pool arrive in any order.                             *)
(*                                                                          *)
(* A value is identified with the configuration version that wrote it.      *)
(* Default stands for the fallback value of a key without a row.            *)
(***************************************************************************)
EXTENDS Integers, FiniteSets

CONSTANTS
  Guilds, Keys,
  Clients,   \* API callers, one request at a time each
  NoGuild,   \* the guild of a client that has read nothing yet
  Faults,    \* which faults may happen: "restart", "lostReply"
  MaxVersion \* bound: writes per guild

ASSUME GuildAssumption  == NoGuild \notin Guilds
ASSUME FaultsAssumption == Faults \subseteq {"restart", "lostReply"}
ASSUME BoundAssumption  == MaxVersion \in Nat

Default    == 0
Uncached   == -1
AnyVersion == -1 \* a write without expectedVersion
Undefined  == -2 \* what AppConfig has for a deleted key

VARIABLES
  db,        \* guild_settings: per guild and key
  dbVersion, \* guild_config_versions
  audit,     \* config_audit_log
  cache,     \* the service's cache
  runtime,   \* AppConfig: per key, the value and the guild that wrote it
  announced, \* per guild and key: the last change emitted and queued for plugins
  op,        \* per client: the request in progress
  view       \* external, per client: what the dashboard shows

storeVars   == <<db, dbVersion, audit>>
serviceVars == <<cache, runtime, announced>>
vars == <<storeVars, serviceVars, view, op>>

Values == [Keys -> Nat]
AllDefault == [k \in Keys |-> Default]

\* What a request has read: first the cached and loaded values, then, under the
\* row lock of its transaction, the version and the old values.
NoOp == [phase |-> "idle", kind |-> "read", guild |-> NoGuild, keys |-> {},
         expected |-> AnyVersion, missing |-> {}, values |-> AllDefault, base |-> 0]

NoView == [guild |-> NoGuild, values |-> AllDefault, version |-> 0]

Init ==
  /\ db = [g \in Guilds |-> AllDefault]
  /\ dbVersion = [g \in Guilds |-> 0]
  /\ audit = {}
  /\ cache = [g \in Guilds |-> [k \in Keys |-> Uncached]]
  /\ runtime = [k \in Keys |-> [guild |-> NoGuild, value |-> Default]]
  /\ announced = [g \in Guilds |-> [k \in Keys |-> Uncached]]
  /\ op = [c \in Clients |-> NoOp]
  /\ view = [c \in Clients |-> NoView]

-----------------------------------------------------------------------------
(* Reads: from the cache, and from the database what it does not hold *)

Idle(c) == op[c].phase = "idle"

\* Requests that may still write to the guild count against the bound.
Writing(g) == {c \in Clients : op[c].guild = g /\ op[c].kind # "read"}
MayWrite(g) == dbVersion[g] + Cardinality(Writing(g)) < MaxVersion

AfterRead(kind) == IF kind = "read" THEN "version" ELSE "lock"

\* getMany, up to its first await.
LookUp(c, kind, g, K, expected) ==
  LET missing == {k \in K : cache[g][k] = Uncached}
  IN op' = [op EXCEPT ![c] =
       [NoOp EXCEPT !.kind = kind, !.guild = g, !.keys = K, !.expected = expected,
                    !.missing = missing,
                    !.values = [k \in Keys |-> IF k \in K \ missing THEN cache[g][k]
                                               ELSE Default],
                    !.phase = IF missing = {} THEN AfterRead(kind) ELSE "query"]]

GetSettings(c, g) ==
  /\ Idle(c)
  /\ LookUp(c, "read", g, Keys, AnyVersion)
  /\ UNCHANGED <<storeVars, serviceVars, view>>

\* The database answers a read from its committed rows; a key without a row
\* gets its fallback value.
Query(c) ==
  /\ op[c].phase = "query"
  /\ op' = [op EXCEPT ![c].phase = "fill",
                      ![c].values = [k \in Keys |-> IF k \in op[c].missing
                                                    THEN db[op[c].guild][k] ELSE @[k]]]
  /\ UNCHANGED <<storeVars, serviceVars, view>>

\* The answer arrives: the loaded values are cached.
Fill(c) ==
  /\ op[c].phase = "fill"
  /\ cache' = [cache EXCEPT ![op[c].guild] =
                 [k \in Keys |-> IF k \in op[c].missing THEN op[c].values[k] ELSE @[k]]]
  /\ op' = [op EXCEPT ![c].phase = AfterRead(op[c].kind), ![c].missing = {}]
  /\ UNCHANGED <<storeVars, runtime, announced, view>>

\* A row that an older release wrote no longer fits its schema: the loaded values before it
\* are cached, and the request fails.
InvalidStored(c) ==
  /\ op[c].phase = "fill"
  /\ \E K \in SUBSET op[c].missing :
       /\ K # op[c].missing
       /\ cache' = [cache EXCEPT ![op[c].guild] =
                      [k \in Keys |-> IF k \in K THEN op[c].values[k] ELSE @[k]]]
  /\ op' = [op EXCEPT ![c] = NoOp]
  /\ UNCHANGED <<storeVars, runtime, announced, view>>

\* The settings request reads the version after the values.
ReadVersion(c) ==
  /\ op[c].phase = "version"
  /\ view' = [view EXCEPT ![c] = [guild |-> op[c].guild, values |-> op[c].values,
                                  version |-> dbVersion[op[c].guild]]]
  /\ op' = [op EXCEPT ![c] = NoOp]
  /\ UNCHANGED <<storeVars, serviceVars>>

-----------------------------------------------------------------------------
(* Writes *)

\* What a request may state as expectedVersion: nothing, or what was shown.
Expectable(c, g) ==
  {AnyVersion} \cup (IF view[c].guild = g THEN {view[c].version} ELSE {})

\* Mutant: the cache is written before the transaction.
PatchSettingsOptimistic(c, g, K, expected) ==
  /\ Idle(c) /\ MayWrite(g)
  /\ expected # 0
  /\ LookUp(c, "write", g, K, expected)
  /\ cache' = [cache EXCEPT ![g] = [k \in Keys |-> IF k \in K THEN dbVersion[g] + 1 ELSE @[k]]]
  /\ UNCHANGED <<storeVars, runtime, announced, view>>

\* patchSettingsBodySchema accepts no expectedVersion but a positive one.
PatchSettings(c, g, K, expected) ==
  /\ Idle(c) /\ MayWrite(g)
  /\ expected # 0
  /\ LookUp(c, "write", g, K, expected)
  /\ UNCHANGED <<storeVars, serviceVars, view>>

\* ConfigurationService.delete, for whoever has the service: no endpoint calls it.
DeleteSetting(c, g, k) ==
  /\ Idle(c) /\ MayWrite(g)
  /\ op' = [op EXCEPT ![c] = [NoOp EXCEPT !.kind = "delete", !.guild = g,
                                          !.keys = {k}, !.phase = "lock"]]
  /\ UNCHANGED <<storeVars, serviceVars, view>>

\* A transaction has the guild's version row.
Holds(c, g) == op[c].phase = "commit" /\ op[c].guild = g

\* Mutant: only a version from the future is refused.
StaleNewer(c) == op[c].expected > dbVersion[op[c].guild]

Stale(c) == op[c].expected \notin {AnyVersion, dbVersion[op[c].guild]}

\* Mutant: the old values are those the request read before its transaction.
LockVersionKeepingOld(c) ==
  /\ op[c].phase = "lock"
  /\ \A d \in Clients : ~Holds(d, op[c].guild)
  /\ ~Stale(c)
  /\ op' = [op EXCEPT ![c].phase = "commit", ![c].base = dbVersion[op[c].guild]]
  /\ UNCHANGED <<storeVars, serviceVars, view>>

\* The transaction takes the row lock, then reads the version and the old
\* values of its keys.
LockVersion(c) ==
  /\ op[c].phase = "lock"
  /\ \A d \in Clients : ~Holds(d, op[c].guild)
  /\ ~Stale(c)
  /\ op' = [op EXCEPT ![c].phase = "commit", ![c].base = dbVersion[op[c].guild],
                      ![c].values = db[op[c].guild]]
  /\ UNCHANGED <<storeVars, serviceVars, view>>

\* Mutant: a conflict is retried with the same expectedVersion.
ConflictRetried(c) ==
  /\ op[c].phase = "lock"
  /\ \A d \in Clients : ~Holds(d, op[c].guild)
  /\ Stale(c)
  /\ UNCHANGED <<storeVars, serviceVars, view, op>>

\* A version conflict rolls back and answers 409.
Conflict(c) ==
  /\ op[c].phase = "lock"
  /\ \A d \in Clients : ~Holds(d, op[c].guild)
  /\ Stale(c)
  /\ op' = [op EXCEPT ![c] = NoOp]
  /\ UNCHANGED <<storeVars, serviceVars, view>>

\* The value a request gives its keys.
NewValue(o) == IF o.kind = "delete" THEN Default ELSE o.base + 1

WithNew(values, o) ==
  [k \in Keys |-> IF k \in o.keys THEN NewValue(o) ELSE values[k]]

AuditRows(o) ==
  {[guild |-> o.guild, version |-> o.base + 1, key |-> k, old |-> o.values[k],
    new |-> NewValue(o)] : k \in o.keys}

\* A delete that finds no row commits nothing.
NothingToDelete(c) ==
  /\ op[c].phase = "commit"
  /\ op[c].kind = "delete" /\ \A k \in op[c].keys : op[c].values[k] = Default
  /\ op' = [op EXCEPT ![c] = NoOp]
  /\ UNCHANGED <<storeVars, serviceVars, view>>

\* Values, audit rows and version become visible together.
Commit(c) ==
  /\ op[c].phase = "commit"
  /\ op[c].kind = "delete" => \E k \in op[c].keys : op[c].values[k] # Default
  /\ db' = [db EXCEPT ![op[c].guild] = WithNew(@, op[c])]
  /\ dbVersion' = [dbVersion EXCEPT ![op[c].guild] = op[c].base + 1]
  /\ audit' = audit \cup AuditRows(op[c])
  /\ op' = [op EXCEPT ![c].phase = "after"]
  /\ UNCHANGED <<serviceVars, view>>

\* What applyRuntimeValue writes for a value.
RuntimeValue(value) == IF value = Default THEN Undefined ELSE value

\* Mutant: a delete is not announced.
AfterWriteSilentDelete(c) ==
  /\ op[c].phase = "after"
  /\ LET o == op[c]
     IN /\ cache' = [cache EXCEPT ![o.guild] = [k \in Keys |->
                       IF k \notin o.keys THEN @[k]
                       ELSE IF o.kind = "delete" THEN Uncached ELSE NewValue(o)]]
        /\ runtime' = [k \in Keys |-> IF k \in o.keys
                         THEN [guild |-> o.guild, value |-> RuntimeValue(NewValue(o))] ELSE runtime[k]]
        /\ announced' = IF o.kind = "delete" THEN announced
                        ELSE [announced EXCEPT ![o.guild] = WithNew(@, o)]
        /\ view' = IF o.kind = "delete" \/ view[c].guild # o.guild THEN view
                   ELSE [view EXCEPT ![c].values = WithNew(@, o),
                                     ![c].version = o.base + 1]
  /\ op' = [op EXCEPT ![c] = NoOp]
  /\ UNCHANGED storeVars

\* afterWrite of every key of the committed write, in one turn of the event
\* loop, and the response.
AfterWrite(c) ==
  /\ op[c].phase = "after"
  /\ LET o == op[c]
     IN /\ cache' = [cache EXCEPT ![o.guild] = [k \in Keys |->
                       IF k \notin o.keys THEN @[k]
                       ELSE IF o.kind = "delete" THEN Uncached ELSE NewValue(o)]]
        /\ runtime' = [k \in Keys |-> IF k \in o.keys
                         THEN [guild |-> o.guild, value |-> RuntimeValue(NewValue(o))] ELSE runtime[k]]
        /\ announced' = [announced EXCEPT ![o.guild] = WithNew(@, o)]
        /\ view' = IF o.kind = "delete" \/ view[c].guild # o.guild THEN view
                   ELSE [view EXCEPT ![c].values = WithNew(@, o),
                                     ![c].version = o.base + 1]
  /\ op' = [op EXCEPT ![c] = NoOp]
  /\ UNCHANGED storeVars

-----------------------------------------------------------------------------
(* Faults *)

\* A statement fails: the request rejects, its transaction is rolled back.
DatabaseError(c) ==
  /\ op[c].phase \in {"query", "version", "lock", "commit"}
  /\ op' = [op EXCEPT ![c] = NoOp]
  /\ UNCHANGED <<storeVars, serviceVars, view>>

\* The connection breaks between the commit and its acknowledgement.
ReplyLost(c) ==
  /\ "lostReply" \in Faults
  /\ op[c].phase = "after"
  /\ op' = [op EXCEPT ![c] = NoOp]
  /\ UNCHANGED <<storeVars, serviceVars, view>>

\* The process restarts: AppConfig is read from the files again.
Restart ==
  /\ "restart" \in Faults
  /\ cache' = [g \in Guilds |-> [k \in Keys |-> Uncached]]
  /\ runtime' = [k \in Keys |-> [guild |-> NoGuild, value |-> Default]]
  /\ announced' = [g \in Guilds |-> [k \in Keys |-> Uncached]]
  /\ op' = [c \in Clients |-> NoOp]
  /\ UNCHANGED <<storeVars, view>>

-----------------------------------------------------------------------------

Step(c) ==
  \/ Query(c) \/ Fill(c) \/ InvalidStored(c) \/ ReadVersion(c)
  \/ NothingToDelete(c) \/ Commit(c) \/ AfterWrite(c)

Request(c) ==
  \E g \in Guilds :
    \/ GetSettings(c, g)
    \/ \E K \in (SUBSET Keys) \ {{}}, expected \in Expectable(c, g) :
         PatchSettings(c, g, K, expected)
    \/ \E k \in Keys : DeleteSetting(c, g, k)

Next ==
  \/ \E c \in Clients :
       \/ Request(c)
       \/ Query(c) \/ Fill(c) \/ InvalidStored(c) \/ ReadVersion(c)
       \/ LockVersion(c) \/ Conflict(c) \/ NothingToDelete(c) \/ Commit(c)
       \/ AfterWrite(c)
       \/ DatabaseError(c) \/ ReplyLost(c)
  \/ Restart

\* The database and the event loop answer, and PostgreSQL grants a row lock to
\* its waiters in turn.
Fairness ==
  \A c \in Clients : WF_vars(Step(c)) /\ SF_vars(LockVersion(c) \/ Conflict(c))

Spec == Init /\ [][Next]_vars /\ Fairness

-----------------------------------------------------------------------------
(* Properties *)

Phases == {"idle", "query", "fill", "version", "lock", "commit", "after"}

OpType == [phase : Phases, kind : {"read", "write", "delete"},
           guild : Guilds \cup {NoGuild}, keys : SUBSET Keys,
           expected : Nat \cup {AnyVersion}, missing : SUBSET Keys,
           values : Values, base : Nat]

AuditType == [guild : Guilds, version : Nat, key : Keys, old : Nat, new : Nat]

\* The types of the tables, the cache and the requests
\* (configuration.service.ts:13, guild-settings.repository.ts:17-27).
TypeOK ==
  /\ db \in [Guilds -> Values]
  /\ dbVersion \in [Guilds -> Nat]
  /\ audit \subseteq AuditType
  /\ cache \in [Guilds -> [Keys -> Nat \cup {Uncached}]]
  /\ runtime \in [Keys -> [guild : Guilds \cup {NoGuild}, value : Nat \cup {Undefined}]]
  /\ announced \in [Guilds -> [Keys -> Nat \cup {Uncached}]]
  /\ op \in [Clients -> OpType]
  /\ view \in [Clients -> [guild : Guilds \cup {NoGuild}, values : Values, version : Nat]]

\* The audit log is the history of the store: every row's old value is what the
\* row before it left, the last row of a key is its stored value, and no
\* version has two writers, however transactions overlap
\* (bulkSave and deleteSetting, guild-settings.repository.ts:54-131).
AuditExplainsStore ==
  \A g \in Guilds, k \in Keys :
    LET rows   == {r \in audit : r.guild = g /\ r.key = k}
        Left(v) == {r \in rows : r.version < v
                                 /\ \A s \in rows : s.version < v => s.version <= r.version}
        Before(v) == IF Left(v) = {} THEN {Default} ELSE {r.new : r \in Left(v)}
    IN /\ \A r \in rows : Before(r.version) = {r.old} /\ r.version <= dbVersion[g]
       /\ Before(dbVersion[g] + 1) = {db[g][k]}

\* A step in which a client's transaction commits.
Commits(c) == op[c].phase = "commit" /\ op'[c].phase = "after"

\* A write that states a version commits only on top of that very version: no
\* other write slips in between the check and the commit
\* (lockVersion, guild-settings.repository.ts:133-145).
StaleSavesRefused ==
  [][\A c \in Clients : Commits(c) /\ op[c].expected # AnyVersion
        => dbVersion[op[c].guild] = op[c].expected]_vars

\* What was ever committed for a key.
Committed(g, k) ==
  {Default} \cup {r.new : r \in {s \in audit : s.guild = g /\ s.key = k}}

\* Neither the cache, AppConfig, a plugin nor a response ever shows a value that
\* was not committed, whatever fails; AppConfig has no value at all for a key whose
\* row was deleted (setMany and delete, configuration.service.ts:106-145).
OnlyCommittedValues ==
  /\ \A g \in Guilds, k \in Keys :
       /\ cache[g][k] \in Committed(g, k) \cup {Uncached}
       /\ announced[g][k] \in Committed(g, k) \cup {Uncached}
  /\ \A k \in Keys : runtime[k].guild # NoGuild
                       => runtime[k].value \in
                                  {RuntimeValue(v) : v \in Committed(runtime[k].guild, k)}
  /\ \A c \in Clients, k \in Keys :
       view[c].guild # NoGuild => view[c].values[k] \in Committed(view[c].guild, k)

\* The audit log tells the whole truth: it explains the store, and it has every
\* value that was ever shown, cached or applied.
AuditIsTruth == AuditExplainsStore /\ OnlyCommittedValues

Store == INSTANCE VersionedStore WITH store <- db, version <- dbVersion, log <- audit

\* Overlapping transactions of any number of clients look like atomic writes,
\* one version each, audited with the values they really replaced
\* (guild-settings.repository.ts:54-147).
StoreSpec == Store!Spec

\* Every request ends, also one that waits for the row lock of a busy guild
\* (guild-settings.repository.ts:133-145).
RequestsEnd == \A c \in Clients : op[c].phase # "idle" ~> op[c].phase = "idle"
=============================================================================
