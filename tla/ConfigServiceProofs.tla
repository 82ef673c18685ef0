------------------------- MODULE ConfigServiceProofs -------------------------
(***************************************************************************)
(* Proofs about ConfigService, for any guilds, keys, clients and faults.    *)
(***************************************************************************)
EXTENDS SequentialRequests, TLAPS

-----------------------------------------------------------------------------
(* Type correctness *)

\* A request in progress is about a guild and, when it writes, about at least
\* one key; a delete is about one.
Shape(o) ==
  /\ o.phase # "idle" => o.guild \in Guilds
  /\ o.phase \in {"lock", "commit", "after"} => o.kind # "read"
  /\ o.phase # "idle" /\ o.kind # "read" => o.keys # {}
  /\ o.phase # "idle" /\ o.kind = "delete" => \E k \in Keys : o.keys = {k}

Shaped == \A c \in Clients : Shape(op[c])

TypeInv == TypeOK /\ Shaped

LEMMA NoOpType == NoOp \in OpType /\ Shape(NoOp)
BY DEF NoOp, OpType, Shape, Phases, Values, AllDefault, Default, AnyVersion

\* Looking values up in the cache yields a request of the right shape.
LEMMA LookUpTypes ==
  ASSUME TypeInv, NEW c \in Clients, NEW kind \in {"read", "write"}, NEW g \in Guilds,
         NEW K \in SUBSET Keys, K # {} \/ kind = "read",
         NEW expected \in Nat \cup {AnyVersion}, LookUp(c, kind, g, K, expected)
  PROVE  op' \in [Clients -> OpType] /\ Shaped'
<1> DEFINE missing == {k \in K : cache[g][k] = Uncached}
           values == [k \in Keys |-> IF k \in K \ missing THEN cache[g][k] ELSE Default]
           phase == IF missing = {} THEN AfterRead(kind) ELSE "query"
           o == [NoOp EXCEPT !.kind = kind, !.guild = g, !.keys = K, !.expected = expected,
                             !.missing = missing, !.values = values, !.phase = phase]
<1>1. op' = [op EXCEPT ![c] = o]
  BY DEF LookUp
<1>2. values \in Values
  BY DEF Values, TypeInv, TypeOK, Default
<1>3. phase \in {"query", AfterRead(kind)} /\ missing \in SUBSET Keys
  OBVIOUS
<1> HIDE DEF missing, values, phase
<1>4. phase \in Phases /\ (phase \in {"lock", "commit", "after"} => kind # "read")
  BY <1>3 DEF AfterRead, Phases
<1>5. o \in OpType /\ Shape(o)
  <2>1. /\ o.phase = phase /\ o.kind = kind /\ o.guild = g /\ o.keys = K
    BY DEF NoOp
  <2>2. o \in OpType
    BY <1>2, <1>3, <1>4 DEF OpType, NoOp
  <2> HIDE DEF o
  <2> QED BY <1>4, <2>1, <2>2 DEF Shape
<1> HIDE DEF o
<1> QED BY <1>1, <1>5 DEF TypeInv, TypeOK, Shaped

LEMMA NewValues ==
  ASSUME NEW o \in OpType, NEW values \in Values
  PROVE  NewValue(o) \in Nat /\ WithNew(values, o) \in Values
<1>1. NewValue(o) \in Nat
  BY DEF NewValue, OpType, Default
<1> QED BY <1>1 DEF WithNew, Values

LEMMA InitTypes == Init => TypeInv
<1> SUFFICES ASSUME Init PROVE TypeInv
  OBVIOUS
<1>1. AllDefault \in Values
  BY DEF AllDefault, Values, Default
<1>2. TypeOK
  BY <1>1, NoOpType DEF Init, TypeOK, NoView, Default
<1>3. Shaped
  BY NoOpType DEF Init, Shaped
<1> QED BY <1>2, <1>3 DEF TypeInv

\* A request that ends leaves the others alone.
LEMMA EndTypes ==
  ASSUME TypeInv, NEW c \in Clients, op' = [op EXCEPT ![c] = NoOp]
  PROVE  op' \in [Clients -> OpType] /\ Shaped'
BY NoOpType DEF TypeInv, TypeOK, Shaped

LEMMA StepTypes == TypeInv /\ [Next]_vars => TypeInv'
<1> SUFFICES ASSUME TypeInv, [Next]_vars PROVE TypeInv'
  OBVIOUS
<1> USE DEF storeVars, serviceVars
<1>0. TypeOK /\ Shaped
  BY DEF TypeInv
<1>a. ASSUME op' \in [Clients -> OpType], Shaped', UNCHANGED <<storeVars, serviceVars, view>>
      PROVE  TypeInv'
  BY <1>0, <1>a DEF TypeInv, TypeOK
<1>1. ASSUME NEW c \in Clients, NEW g \in Guilds, GetSettings(c, g) PROVE TypeInv'
  <2>1. op' \in [Clients -> OpType] /\ Shaped'
    BY <1>1, LookUpTypes DEF GetSettings
  <2> QED BY <1>0, <1>1, <1>a, <2>1 DEF GetSettings, TypeOK
<1>3. ASSUME NEW c \in Clients, NEW g \in Guilds, NEW K \in (SUBSET Keys) \ {{}},
             NEW expected \in Expectable(c, g), PatchSettings(c, g, K, expected)
      PROVE  TypeInv'
  <2>1. expected \in Nat \cup {AnyVersion}
    BY <1>0 DEF Expectable, TypeOK
  <2>2. op' \in [Clients -> OpType] /\ Shaped'
    <3>1. LookUp(c, "write", g, K, expected) /\ K \in SUBSET Keys /\ K # {}
      BY <1>3 DEF PatchSettings
    <3> QED BY <2>1, <3>1, LookUpTypes
  <2> QED BY <1>0, <1>3, <1>a, <2>2 DEF PatchSettings, TypeOK
<1>4. ASSUME NEW c \in Clients, NEW g \in Guilds, NEW k \in Keys, DeleteSetting(c, g, k)
      PROVE  TypeInv'
  <2> DEFINE o == [NoOp EXCEPT !.kind = "delete", !.guild = g, !.keys = {k}, !.phase = "lock"]
  <2>1. o \in OpType /\ Shape(o)
    BY DEF NoOp, OpType, Shape, Phases, Values, AllDefault, Default, AnyVersion
  <2>2. op' = [op EXCEPT ![c] = o]
    BY <1>4 DEF DeleteSetting
  <2> HIDE DEF o
  <2>3. op' \in [Clients -> OpType] /\ Shaped'
    BY <1>0, <2>1, <2>2 DEF TypeOK, Shaped
  <2> QED BY <1>0, <1>4, <1>a, <2>3 DEF DeleteSetting, TypeOK
<1>5. ASSUME NEW c \in Clients, Query(c) PROVE TypeInv'
  <2>1. op[c] \in OpType /\ Shape(op[c]) /\ op[c].guild \in Guilds
    BY <1>0, <1>5 DEF TypeOK, Shaped, Shape, Query
  <2> DEFINE values == [k \in Keys |-> IF k \in op[c].missing
                                       THEN db[op[c].guild][k] ELSE op[c].values[k]]
             o == [op[c] EXCEPT !.phase = "fill", !.values = values]
  <2>2. values \in Values
    BY <1>0, <2>1 DEF TypeOK, Values, OpType
  <2>3. op' = [op EXCEPT ![c] = o]
    BY <1>0, <1>5, <2>1 DEF Query, TypeOK, OpType
  <2> HIDE DEF values
  <2>4. o \in OpType /\ Shape(o)
    BY <1>5, <2>1, <2>2 DEF Query, OpType, Shape, Phases
  <2> HIDE DEF o
  <2>5. op' \in [Clients -> OpType] /\ Shaped'
    BY <1>0, <2>3, <2>4 DEF TypeOK, Shaped
  <2> QED BY <1>0, <1>5, <1>a, <2>5 DEF Query, TypeOK
<1>6. ASSUME NEW c \in Clients, Fill(c) PROVE TypeInv'
  <2>1. op[c] \in OpType /\ Shape(op[c]) /\ op[c].guild \in Guilds
    BY <1>0, <1>6 DEF TypeOK, Shaped, Shape, Fill
  <2> DEFINE o == [op[c] EXCEPT !.phase = AfterRead(op[c].kind), !.missing = {}]
  <2>2. op' = [op EXCEPT ![c] = o]
    BY <1>0, <1>6, <2>1 DEF Fill, TypeOK, OpType
  <2>3. o \in OpType /\ Shape(o)
    BY <1>6, <2>1 DEF Fill, OpType, Shape, Phases, AfterRead
  <2> HIDE DEF o
  <2>4. op' \in [Clients -> OpType] /\ Shaped'
    BY <1>0, <2>2, <2>3 DEF TypeOK, Shaped
  <2>5. cache' \in [Guilds -> [Keys -> Nat \cup {Uncached}]]
    <3>1. \A k \in Keys : op[c].values[k] \in Nat
      BY <2>1 DEF OpType, Values
    <3> QED BY <1>0, <1>6, <2>1, <3>1 DEF Fill, TypeOK
  <2> QED BY <1>0, <1>6, <2>4, <2>5 DEF Fill, TypeInv, TypeOK
<1>15. ASSUME NEW c \in Clients, InvalidStored(c) PROVE TypeInv'
  <2>1. op[c] \in OpType /\ op[c].guild \in Guilds
    BY <1>0, <1>15 DEF TypeOK, Shaped, Shape, InvalidStored
  <2>2. op' \in [Clients -> OpType] /\ Shaped'
    BY <1>15, EndTypes DEF InvalidStored
  <2>3. cache' \in [Guilds -> [Keys -> Nat \cup {Uncached}]]
    <3>1. \A k \in Keys : op[c].values[k] \in Nat
      BY <2>1 DEF OpType, Values
    <3> QED BY <1>0, <1>15, <2>1, <3>1 DEF InvalidStored, TypeOK
  <2> QED BY <1>0, <1>15, <2>2, <2>3 DEF InvalidStored, TypeInv, TypeOK
<1>7. ASSUME NEW c \in Clients, ReadVersion(c) PROVE TypeInv'
  <2>1. op[c] \in OpType /\ op[c].guild \in Guilds
    BY <1>0, <1>7 DEF TypeOK, Shaped, Shape, ReadVersion
  <2>2. view' \in [Clients -> [guild : Guilds \cup {NoGuild}, values : Values, version : Nat]]
    BY <1>0, <1>7, <2>1 DEF ReadVersion, TypeOK, OpType
  <2>3. op' \in [Clients -> OpType] /\ Shaped'
    BY <1>7, EndTypes DEF ReadVersion
  <2> QED BY <1>0, <1>7, <2>2, <2>3 DEF ReadVersion, TypeInv, TypeOK
<1>8. ASSUME NEW c \in Clients, LockVersion(c) PROVE TypeInv'
  <2>1. op[c] \in OpType /\ Shape(op[c]) /\ op[c].guild \in Guilds
    BY <1>0, <1>8 DEF TypeOK, Shaped, Shape, LockVersion
  <2> DEFINE o == [op[c] EXCEPT !.phase = "commit", !.base = dbVersion[op[c].guild],
                                !.values = db[op[c].guild]]
  <2>2. op' = [op EXCEPT ![c] = o]
    BY <1>0, <1>8, <2>1 DEF LockVersion, TypeOK, OpType
  <2>3. o \in OpType /\ Shape(o)
    BY <1>0, <1>8, <2>1 DEF LockVersion, TypeOK, OpType, Shape, Phases
  <2> HIDE DEF o
  <2>4. op' \in [Clients -> OpType] /\ Shaped'
    BY <1>0, <2>2, <2>3 DEF TypeOK, Shaped
  <2> QED BY <1>0, <1>8, <1>a, <2>4 DEF LockVersion, TypeOK
<1>9. ASSUME NEW c \in Clients, Conflict(c) PROVE TypeInv'
  <2>1. op' \in [Clients -> OpType] /\ Shaped'
    BY <1>9, EndTypes DEF Conflict
  <2> QED BY <1>0, <1>9, <1>a, <2>1 DEF Conflict, TypeOK
<1>10. ASSUME NEW c \in Clients,
              NothingToDelete(c) \/ DatabaseError(c) \/ ReplyLost(c)
       PROVE  TypeInv'
  <2>1. op' \in [Clients -> OpType] /\ Shaped'
    BY <1>10, EndTypes DEF NothingToDelete, DatabaseError, ReplyLost
  <2> QED BY <1>0, <1>10, <1>a, <2>1 DEF NothingToDelete, DatabaseError, ReplyLost, TypeOK
<1>11. ASSUME NEW c \in Clients, Commit(c) PROVE TypeInv'
  <2>1. op[c] \in OpType /\ Shape(op[c]) /\ op[c].guild \in Guilds
    BY <1>0, <1>11 DEF TypeOK, Shaped, Shape, Commit
  <2>2. NewValue(op[c]) \in Nat /\ WithNew(db[op[c].guild], op[c]) \in Values
    BY <1>0, <2>1, NewValues DEF TypeOK
  <2> DEFINE o == [op[c] EXCEPT !.phase = "after"]
  <2>3. op' = [op EXCEPT ![c] = o]
    BY <1>0, <1>11, <2>1 DEF Commit, TypeOK, OpType
  <2>4. o \in OpType /\ Shape(o)
    BY <1>11, <2>1 DEF Commit, OpType, Shape, Phases
  <2> HIDE DEF o
  <2>5. op' \in [Clients -> OpType] /\ Shaped'
    BY <1>0, <2>3, <2>4 DEF TypeOK, Shaped
  <2>6. AuditRows(op[c]) \subseteq AuditType
    BY <2>1, <2>2 DEF AuditRows, AuditType, OpType, Values
  <2>7. /\ db' \in [Guilds -> Values] /\ dbVersion' \in [Guilds -> Nat]
        /\ audit' \subseteq AuditType
    BY <1>0, <1>11, <2>1, <2>2, <2>6 DEF Commit, TypeOK, OpType
  <2> QED BY <1>0, <1>11, <2>5, <2>7 DEF Commit, TypeInv, TypeOK
<1>12. ASSUME NEW c \in Clients, AfterWrite(c) PROVE TypeInv'
  <2> DEFINE o == op[c]
  <2>1. o \in OpType /\ o.guild \in Guilds
    BY <1>0, <1>12 DEF TypeOK, Shaped, Shape, AfterWrite
  <2>2. NewValue(o) \in Nat /\ \A values \in Values : WithNew(values, o) \in Values
    <3> HIDE DEF o
    <3>1. \A values \in Values : NewValue(o) \in Nat /\ WithNew(values, o) \in Values
      BY <2>1, NewValues
    <3>2. AllDefault \in Values
      BY DEF AllDefault, Values, Default
    <3> QED BY <3>1, <3>2
  <2>3. cache' \in [Guilds -> [Keys -> Nat \cup {Uncached}]]
    BY <1>0, <1>12, <2>1, <2>2 DEF AfterWrite, TypeOK
  <2>4. runtime' \in [Keys -> [guild : Guilds \cup {NoGuild}, value : Nat \cup {Undefined}]]
    BY <1>0, <1>12, <2>1, <2>2 DEF AfterWrite, RuntimeValue, TypeOK
  <2>5. announced' \in [Guilds -> [Keys -> Nat \cup {Uncached}]]
    BY <1>0, <1>12, <2>1, <2>2 DEF AfterWrite, TypeOK, WithNew
  <2>6. view' \in [Clients -> [guild : Guilds \cup {NoGuild}, values : Values, version : Nat]]
    <3>1. o.base + 1 \in Nat /\ view[c].values \in Values
      BY <1>0, <2>1 DEF OpType, TypeOK
    <3>2. WithNew(view[c].values, o) \in Values
      BY <2>2, <3>1
    <3>3. CASE view' = view
      BY <1>0, <3>3 DEF TypeOK
    <3>4. CASE view' = [view EXCEPT ![c].values = WithNew(@, o), ![c].version = o.base + 1]
      <4>1. view \in [Clients -> [guild : Guilds \cup {NoGuild}, values : Values, version : Nat]]
        BY <1>0 DEF TypeOK
      <4>2. [view[c] EXCEPT !.values = WithNew(@, o), !.version = o.base + 1]
              \in [guild : Guilds \cup {NoGuild}, values : Values, version : Nat]
        <5> HIDE DEF o
        <5> QED BY <3>1, <3>2, <4>1
      <4>3. view' = [view EXCEPT ![c] = [view[c] EXCEPT !.values = WithNew(@, o),
                                                     !.version = o.base + 1]]
        <5> HIDE DEF o
        <5> QED BY <3>4, <4>1
      <4> QED BY <4>1, <4>2, <4>3
    <3> QED BY <1>12, <3>3, <3>4 DEF AfterWrite
  <2>7. op' \in [Clients -> OpType] /\ Shaped'
    BY <1>12, EndTypes DEF AfterWrite
  <2> QED BY <1>0, <1>12, <2>3, <2>4, <2>5, <2>6, <2>7 DEF AfterWrite, TypeInv, TypeOK
<1>13. CASE Restart
  <2>1. op' \in [Clients -> OpType] /\ Shaped'
    BY <1>13, NoOpType DEF Restart, Shaped
  <2>2. /\ cache' \in [Guilds -> [Keys -> Nat \cup {Uncached}]]
        /\ runtime' \in [Keys -> [guild : Guilds \cup {NoGuild}, value : Nat \cup {Undefined}]]
        /\ announced' \in [Guilds -> [Keys -> Nat \cup {Uncached}]]
    BY <1>13 DEF Restart, Default
  <2> QED BY <1>0, <1>13, <2>1, <2>2 DEF Restart, TypeInv, TypeOK
<1>14. CASE UNCHANGED vars
  BY <1>0, <1>14 DEF vars, TypeInv, TypeOK, Shaped
<1> QED
  BY <1>1, <1>3, <1>4, <1>5, <1>6, <1>7, <1>8, <1>9, <1>10, <1>11, <1>12, <1>13, <1>14, <1>15
     DEF Next, Request

\* The tables, the cache and the requests keep their types for any number of
\* guilds, keys and clients.
THEOREM TypeCorrect == Spec => []TypeOK
<1>1. TypeInv => TypeOK
  BY DEF TypeInv
<1> QED BY <1>1, InitTypes, StepTypes, PTL DEF Spec

-----------------------------------------------------------------------------
(* The row lock.  Between taking the version row and committing, what a      *)
(* transaction has read is what the tables hold, and it is alone.            *)

LockInv ==
  \A c \in Clients : op[c].phase = "commit" =>
    /\ op[c].base = dbVersion[op[c].guild]
    /\ op[c].values = db[op[c].guild]
    /\ op[c].expected \in {AnyVersion, op[c].base}
    /\ \A d \in Clients : Holds(d, op[c].guild) => d = c

Inv == TypeInv /\ LockInv

\* A step that leaves the tables alone and brings no request to its commit.
LEMMA NoNewHolder ==
  ASSUME Inv, NEW c \in Clients, NEW o, op' = [op EXCEPT ![c] = o], o.phase # "commit",
         UNCHANGED <<db, dbVersion>>
  PROVE  LockInv'
<1>1. op \in [Clients -> OpType]
  BY DEF Inv, TypeInv, TypeOK
<1>2. \A d \in Clients : op'[d].phase = "commit" => op'[d] = op[d]
  BY <1>1
<1> QED BY <1>2 DEF Inv, LockInv, Holds

LEMMA LookUpNoHolder ==
  ASSUME Inv, NEW c \in Clients, NEW kind, NEW g, NEW K, NEW expected,
         LookUp(c, kind, g, K, expected), UNCHANGED <<db, dbVersion>>
  PROVE  LockInv'
<1> DEFINE missing == {k \in K : cache[g][k] = Uncached}
           phase == IF missing = {} THEN AfterRead(kind) ELSE "query"
           o == [NoOp EXCEPT !.kind = kind, !.guild = g, !.keys = K, !.expected = expected,
                  !.missing = missing,
                  !.values = [k \in Keys |-> IF k \in K \ missing THEN cache[g][k]
                                             ELSE Default],
                  !.phase = phase]
<1>1. op' = [op EXCEPT ![c] = o]
  BY DEF LookUp
<1>2. phase # "commit"
  BY DEF AfterRead
<1> HIDE DEF phase, missing
<1>3. o.phase # "commit"
  BY <1>2 DEF NoOp
<1> HIDE DEF o
<1> QED BY <1>1, <1>3, NoNewHolder

\* A committing transaction is one atomic write of the abstract store.
LEMMA CommitRefines ==
  ASSUME Inv, NEW c \in Clients, Commit(c)
  PROVE  Store!Next
<1> DEFINE o == op[c]
           g == o.guild
<1>1. /\ o \in OpType /\ Shape(o) /\ g \in Guilds /\ o.phase = "commit"
      /\ db \in [Guilds -> Values] /\ dbVersion \in [Guilds -> Nat]
  BY DEF Inv, TypeInv, TypeOK, Shaped, Shape, Commit
<1>2. o.base = dbVersion[g] /\ o.values = db[g]
  BY <1>1 DEF Inv, LockInv
<1>3. /\ db' = [db EXCEPT ![g] = WithNew(@, o)]
      /\ dbVersion' = [dbVersion EXCEPT ![g] = o.base + 1]
      /\ audit' = audit \cup AuditRows(o)
      /\ o.kind = "delete" => \E k \in o.keys : o.values[k] # Default
  BY DEF Commit
<1> HIDE DEF o
<1>4. Store!Commit(g, o.keys, NewValue(o))
  <2>1. db' = [db EXCEPT ![g] = [k \in Keys |-> IF k \in o.keys THEN NewValue(o) ELSE @[k]]]
    BY <1>3 DEF WithNew
  <2>2. dbVersion' = [dbVersion EXCEPT ![g] = @ + 1]
    BY <1>1, <1>2, <1>3
  <2>3. AuditRows(o) = Store!Rows(g, o.keys, db[g], NewValue(o), dbVersion[g] + 1)
    BY <1>2 DEF AuditRows, Store!Rows
  <2> QED BY <1>3, <2>1, <2>2, <2>3 DEF Store!Commit
<1>5. o.keys \in (SUBSET Keys) \ {{}} /\ o.kind \in {"write", "delete"}
  BY <1>1 DEF OpType, Shape
<1>6. CASE o.kind = "write"
  <2>1. NewValue(o) = dbVersion[g] + 1
    BY <1>2, <1>6 DEF NewValue
  <2>2. Store!Put(g, o.keys)
    BY <1>4, <2>1 DEF Store!Put
  <2> QED BY <1>1, <1>5, <2>2 DEF Store!Next
<1>7. CASE o.kind = "delete"
  <2>1. PICK k \in Keys : o.keys = {k}
    BY <1>1, <1>7 DEF Shape
  <2>2. db[g][k] # Store!Default
    BY <1>2, <1>3, <1>7, <2>1 DEF Default, Store!Default
  <2>3. NewValue(o) = Store!Default
    BY <1>7 DEF NewValue, Default, Store!Default
  <2>4. Store!Remove(g, k)
    BY <1>4, <2>1, <2>2, <2>3 DEF Store!Remove
  <2> QED BY <1>1, <2>4 DEF Store!Next
<1> QED BY <1>5, <1>6, <1>7

LEMMA InitInv == Init => Inv
<1> SUFFICES ASSUME Init PROVE Inv
  OBVIOUS
<1>1. LockInv
  BY DEF Init, LockInv, NoOp
<1> QED BY <1>1, InitTypes DEF Inv

\* A step keeps the invariant; it leaves the tables alone or is a commit.
LEMMA StepInv ==
  Inv /\ [Next]_vars => /\ Inv'
                        /\ UNCHANGED storeVars \/ \E c \in Clients : Commit(c)
<1> SUFFICES ASSUME Inv, [Next]_vars
             PROVE  LockInv' /\ (UNCHANGED storeVars \/ \E c \in Clients : Commit(c))
  BY StepTypes DEF Inv
<1> USE DEF storeVars, serviceVars
<1>0. TypeInv /\ TypeOK /\ LockInv
  BY DEF Inv, TypeInv
<1>1. ASSUME NEW c \in Clients, op' = [op EXCEPT ![c] = NoOp], UNCHANGED storeVars
      PROVE  LockInv'
  <2>1. NoOp.phase # "commit"
    BY DEF NoOp
  <2> QED BY <1>1, <2>1, NoNewHolder
<1>2. ASSUME NEW c \in Clients, NEW g \in Guilds, GetSettings(c, g)
      PROVE  LockInv' /\ UNCHANGED storeVars
  BY <1>2, LookUpNoHolder DEF GetSettings
<1>4. ASSUME NEW c \in Clients, NEW g \in Guilds, NEW K, NEW expected,
             PatchSettings(c, g, K, expected)
      PROVE  LockInv' /\ UNCHANGED storeVars
  BY <1>4, LookUpNoHolder DEF PatchSettings
<1>5. ASSUME NEW c \in Clients, NEW g \in Guilds, NEW k \in Keys, DeleteSetting(c, g, k)
      PROVE  LockInv' /\ UNCHANGED storeVars
  <2> DEFINE o == [NoOp EXCEPT !.kind = "delete", !.guild = g, !.keys = {k}, !.phase = "lock"]
  <2>1. op' = [op EXCEPT ![c] = o] /\ UNCHANGED storeVars
    BY <1>5 DEF DeleteSetting
  <2>2. o.phase # "commit"
    BY DEF NoOp
  <2> HIDE DEF o
  <2> QED BY <2>1, <2>2, NoNewHolder
<1>6. ASSUME NEW c \in Clients, Query(c) \/ Fill(c)
      PROVE  LockInv' /\ UNCHANGED storeVars
  <2>1. op'[c].phase # "commit" /\ op' = [op EXCEPT ![c] = op'[c]]
    BY <1>0, <1>6 DEF Query, Fill, AfterRead, TypeOK, OpType
  <2>2. UNCHANGED storeVars
    BY <1>6 DEF Query, Fill
  <2> QED BY <2>1, <2>2, NoNewHolder
<1>7. ASSUME NEW c \in Clients,
             ReadVersion(c) \/ Conflict(c) \/ NothingToDelete(c) \/ AfterWrite(c)
               \/ DatabaseError(c) \/ ReplyLost(c) \/ InvalidStored(c)
      PROVE  LockInv' /\ UNCHANGED storeVars
  BY <1>1, <1>7 DEF ReadVersion, Conflict, NothingToDelete, AfterWrite, DatabaseError, ReplyLost,
                    InvalidStored
<1>8. ASSUME NEW c \in Clients, LockVersion(c)
      PROVE  LockInv' /\ UNCHANGED storeVars
  <2> DEFINE g == op[c].guild
  <2>1. /\ op'[c].phase = "commit" /\ op'[c].guild = g
        /\ op'[c].base = dbVersion[g] /\ op'[c].values = db[g]
        /\ op'[c].expected = op[c].expected
        /\ \A d \in Clients : d # c => op'[d] = op[d]
    BY <1>0, <1>8 DEF LockVersion, TypeOK, OpType
  <2>2. /\ op[c].expected \in {AnyVersion, dbVersion[g]}
        /\ \A d \in Clients : ~Holds(d, g)
        /\ UNCHANGED storeVars
    BY <1>8 DEF LockVersion, Stale
  <2> HIDE DEF g
  <2> SUFFICES ASSUME NEW e \in Clients, op'[e].phase = "commit"
               PROVE  /\ op'[e].base = dbVersion[op'[e].guild]
                      /\ op'[e].values = db[op'[e].guild]
                      /\ op'[e].expected \in {AnyVersion, op'[e].base}
                      /\ \A d \in Clients :
                           op'[d].phase = "commit" /\ op'[d].guild = op'[e].guild => d = e
    BY <2>2 DEF LockInv, Holds
  <2>3. CASE e = c
    BY <2>1, <2>2, <2>3 DEF Holds
  <2>4. CASE e # c
    <3>1. op'[e] = op[e] /\ op[e].guild # g
      BY <2>1, <2>2, <2>4 DEF Holds
    <3> QED BY <1>0, <2>1, <2>4, <3>1 DEF LockInv, Holds
  <2> QED BY <2>3, <2>4
<1>9. ASSUME NEW c \in Clients, Commit(c)
      PROVE  LockInv'
  <2> DEFINE g == op[c].guild
  <2>1. /\ op[c].phase = "commit" /\ op'[c].phase = "after"
        /\ \A d \in Clients : d # c => op'[d] = op[d]
    BY <1>0, <1>9 DEF Commit, TypeOK, OpType
  <2>2. \A h \in Guilds : h # g => db'[h] = db[h] /\ dbVersion'[h] = dbVersion[h]
    BY <1>0, <1>9 DEF Commit, TypeOK
  <2>3. ASSUME NEW e \in Clients, op'[e].phase = "commit"
        PROVE  op'[e] = op[e] /\ e # c /\ op[e].guild # g /\ op[e].guild \in Guilds
    <3>1. op'[e] = op[e] /\ e # c
      BY <2>1, <2>3
    <3>2. op[e].guild \in Guilds
      BY <1>0, <2>3, <3>1 DEF TypeInv, Shaped, Shape
    <3>3. op[e].guild # g
      BY <1>0, <2>1, <2>3, <3>1 DEF LockInv, Holds
    <3> QED BY <3>1, <3>2, <3>3
  <2> HIDE DEF g
  <2> SUFFICES ASSUME NEW e \in Clients, op'[e].phase = "commit"
               PROVE  /\ op'[e].base = dbVersion'[op'[e].guild]
                      /\ op'[e].values = db'[op'[e].guild]
                      /\ op'[e].expected \in {AnyVersion, op'[e].base}
                      /\ \A d \in Clients :
                           op'[d].phase = "commit" /\ op'[d].guild = op'[e].guild => d = e
    BY DEF LockInv, Holds
  <2>4. /\ op[e].phase = "commit" /\ op[e].base = dbVersion[op[e].guild]
        /\ op[e].values = db[op[e].guild] /\ op[e].expected \in {AnyVersion, op[e].base}
        /\ \A d \in Clients : op[d].phase = "commit" /\ op[d].guild = op[e].guild => d = e
    BY <1>0, <2>3 DEF LockInv, Holds
  <2> QED BY <2>2, <2>3, <2>4
<1>10. CASE Restart
  BY <1>10 DEF Restart, LockInv, NoOp
<1>11. CASE UNCHANGED vars
  BY <1>0, <1>11 DEF vars, LockInv, Holds
<1> QED
  BY <1>2, <1>4, <1>5, <1>6, <1>7, <1>8, <1>9, <1>10, <1>11
     DEF Next, Request, Restart, vars

\* Overlapping transactions are atomic writes of a versioned store
\* (guild-settings.repository.ts:54-147): the row lock makes what was read under
\* it true until the commit, for any number of clients and any faults.
THEOREM StoreIsAtomic == Spec => StoreSpec
<1>1. Init => Store!Init
  BY DEF Init, Store!Init, AllDefault, Default, Store!Default
<1>2. Inv /\ [Next]_vars => [Store!Next]_(Store!storeVars)
  BY StepInv, CommitRefines DEF storeVars, Store!storeVars
<1> QED BY <1>1, <1>2, InitInv, StepInv, PTL DEF Spec, StoreSpec, Store!Spec

\* A write that states a version commits only on top of that very version
\* (lockVersion, guild-settings.repository.ts:133-145).
THEOREM StaleSavesNeverCommit == Spec => StaleSavesRefused
<1> DEFINE A == \A c \in Clients : Commits(c) /\ op[c].expected # AnyVersion
                  => dbVersion[op[c].guild] = op[c].expected
<1>1. Inv => A
  BY DEF Inv, LockInv, Commits
<1>2. Inv /\ [Next]_vars => [A]_vars
  BY <1>1
<1> QED BY <1>2, InitInv, StepInv, PTL DEF Spec, StaleSavesRefused

-----------------------------------------------------------------------------
(* The audit log is the history of the store.  Its versions never pass the   *)
(* guild's, so a commit, which is one above, is written after all the rest.  *)

Rows(g, k) == {r \in audit : r.guild = g /\ r.key = k}

LeftOf(R, v) == {r \in R : r.version < v /\ \A s \in R : s.version < v => s.version <= r.version}

BeforeOf(R, v) == IF LeftOf(R, v) = {} THEN {Default} ELSE {r.new : r \in LeftOf(R, v)}

Explains(R, value, v) ==
  /\ \A r \in R : BeforeOf(R, r.version) = {r.old} /\ r.version <= v
  /\ BeforeOf(R, v + 1) = {value}

LEMMA ExplainsStore ==
  AuditExplainsStore <=> \A g \in Guilds, k \in Keys : Explains(Rows(g, k), db[g][k], dbVersion[g])
BY DEF AuditExplainsStore, Explains, BeforeOf, LeftOf, Rows

\* The history as of a version does not depend on later rows.
LEMMA HistoryPrefix ==
  ASSUME NEW R, NEW n, NEW v \in Nat, NEW w \in Nat, w <= v + 1,
         \A r \in R : r.version \in Nat /\ r.version <= v, n.version = v + 1
  PROVE  BeforeOf(R \cup {n}, w) = BeforeOf(R, w)
<1>1. LeftOf(R \cup {n}, w) = LeftOf(R, w)
  <2>1. ~(n.version < w)
    OBVIOUS
  <2> QED BY <2>1 DEF LeftOf
<1> QED BY <1>1 DEF BeforeOf

\* A row above all others is what the next one finds.
LEMMA HistoryAppend ==
  ASSUME NEW R, NEW n, NEW v \in Nat,
         \A r \in R : r.version \in Nat /\ r.version <= v, n.version = v + 1
  PROVE  BeforeOf(R \cup {n}, v + 2) = {n.new}
<1>1. LeftOf(R \cup {n}, v + 2) = {n}
  BY DEF LeftOf
<1> QED BY <1>1 DEF BeforeOf

\* Without a row the history stays.
LEMMA HistoryStays ==
  ASSUME NEW R, NEW v \in Nat, \A r \in R : r.version \in Nat /\ r.version <= v
  PROVE  BeforeOf(R, v + 2) = BeforeOf(R, v + 1)
<1>1. LeftOf(R, v + 2) = LeftOf(R, v + 1)
  BY DEF LeftOf
<1> QED BY <1>1 DEF BeforeOf

\* A committed write adds the row that explains what it leaves.
LEMMA CommitExplains ==
  ASSUME Inv, NEW c \in Clients, Commit(c), AuditExplainsStore
  PROVE  AuditExplainsStore'
<1> DEFINE o == op[c]
           g == o.guild
           v == dbVersion[g]
           row(k) == [guild |-> g, version |-> v + 1, key |-> k, old |-> db[g][k],
                      new |-> NewValue(o)]
<1>1. /\ o \in OpType /\ g \in Guilds
      /\ db \in [Guilds -> Values] /\ dbVersion \in [Guilds -> Nat] /\ audit \subseteq AuditType
  BY DEF Inv, TypeInv, TypeOK, Shaped, Shape, Commit
<1>2. o.base = v /\ o.values = db[g] /\ v \in Nat
  BY <1>1 DEF Inv, LockInv, Commit
<1>3. /\ db' = [db EXCEPT ![g] = WithNew(@, o)]
      /\ dbVersion' = [dbVersion EXCEPT ![g] = v + 1]
      /\ audit' = audit \cup {row(k) : k \in o.keys}
  BY <1>2 DEF Commit, AuditRows
<1>4. ASSUME NEW h \in Guilds, NEW k \in Keys
      PROVE  Explains(Rows(h, k), db[h][k], dbVersion[h])'
  <2>1. Explains(Rows(h, k), db[h][k], dbVersion[h])
    BY ExplainsStore
  <2>2. \A r \in Rows(h, k) : r.version \in Nat
    BY <1>1 DEF Rows, AuditType
  <2> HIDE DEF o
  <2>3. CASE h # g
    <3>1. Rows(h, k)' = Rows(h, k)
      BY <1>3, <2>3 DEF Rows
    <3>2. db'[h][k] = db[h][k] /\ dbVersion'[h] = dbVersion[h]
      BY <1>1, <1>3, <2>3
    <3> QED BY <2>1, <3>1, <3>2 DEF Explains
  <2>4. CASE h = g /\ k \notin o.keys
    <3>1. Rows(h, k)' = Rows(h, k)
      BY <1>3, <2>4 DEF Rows
    <3>2. db'[h][k] = db[h][k] /\ dbVersion'[h] = v + 1
      BY <1>1, <1>3, <2>4 DEF WithNew
    <3>3. \A r \in Rows(h, k) : BeforeOf(Rows(h, k), r.version) = {r.old} /\ r.version <= v
      BY <2>1, <2>4 DEF Explains
    <3>4. BeforeOf(Rows(h, k), v + 2) = BeforeOf(Rows(h, k), v + 1)
      BY <1>2, <2>2, <3>3, HistoryStays
    <3>5. BeforeOf(Rows(h, k), v + 1) = {db[h][k]}
      BY <2>1, <2>4 DEF Explains
    <3>6. (v + 1) + 1 = v + 2 /\ \A r \in Rows(h, k) : r.version <= v + 1
      BY <1>2, <2>2, <3>3
    <3> HIDE DEF v, g
    <3>7. Explains(Rows(h, k), db[h][k], v + 1)
      BY <3>3, <3>4, <3>5, <3>6 DEF Explains
    <3> QED BY <3>1, <3>2, <3>7 DEF Explains
  <2>5. CASE h = g /\ k \in o.keys
    <3> DEFINE R == Rows(h, k)
               n == row(k)
    <3>1. Rows(h, k)' = R \cup {n}
      BY <1>3, <2>5 DEF Rows
    <3>2. db'[h][k] = NewValue(o) /\ dbVersion'[h] = v + 1
      BY <1>1, <1>3, <2>5 DEF WithNew
    <3>3. n.version = v + 1 /\ n.old = db[h][k] /\ n.new = NewValue(o)
      BY <2>5
    <3>4. \A r \in R : BeforeOf(R, r.version) = {r.old} /\ r.version <= v /\ r.version \in Nat
      BY <2>1, <2>2, <2>5 DEF Explains
    <3>5. BeforeOf(R, v + 1) = {db[h][k]}
      BY <2>1, <2>5 DEF Explains
    <3> HIDE DEF R, n, v, g
    <3>6. \A r \in R : BeforeOf(R \cup {n}, r.version) = {r.old}
      <4> SUFFICES ASSUME NEW r \in R PROVE BeforeOf(R \cup {n}, r.version) = {r.old}
        OBVIOUS
      <4>1. r.version \in Nat /\ r.version <= v + 1
        BY <1>2, <3>4
      <4> QED BY <1>2, <3>3, <3>4, <4>1, HistoryPrefix
    <3>7. BeforeOf(R \cup {n}, n.version) = {n.old}
      <4>1. v + 1 \in Nat /\ v + 1 <= v + 1
        BY <1>2
      <4> QED BY <1>2, <3>3, <3>4, <3>5, <4>1, HistoryPrefix
    <3>8. BeforeOf(R \cup {n}, v + 2) = {NewValue(o)}
      <4>1. \A r \in R : r.version \in Nat /\ r.version <= v
        BY <3>4
      <4>2. v \in Nat /\ n.version = v + 1
        BY <1>2, <3>3
      <4>3. BeforeOf(R \cup {n}, v + 2) = {n.new}
        BY <4>1, <4>2, HistoryAppend
      <4> QED BY <3>3, <4>3
    <3>9. (v + 1) + 1 = v + 2 /\ \A r \in R \cup {n} : r.version <= v + 1
      BY <1>2, <3>3, <3>4
    <3>10. Explains(R \cup {n}, NewValue(o), v + 1)
      BY <3>6, <3>7, <3>8, <3>9 DEF Explains
    <3> QED BY <3>1, <3>2, <3>10 DEF Explains
  <2> QED BY <2>3, <2>4, <2>5
<1> QED BY <1>4 DEF AuditExplainsStore, Explains, BeforeOf, LeftOf, Rows

-----------------------------------------------------------------------------
(* Whatever is cached, applied, announced or shown was committed.  Values    *)
(* travel there through the requests, so what a request has read, or has     *)
(* just committed, must be committed as well.                                *)

Trusted(o) ==
  /\ o.phase \in {"query", "fill", "version"} =>
       \A k \in Keys : o.values[k] \in Committed(o.guild, k)
  /\ o.phase = "after" => \A k \in o.keys : NewValue(o) \in Committed(o.guild, k)

CommittedInv ==
  /\ OnlyCommittedValues
  /\ \A g \in Guilds, k \in Keys : db[g][k] \in Committed(g, k)
  /\ \A c \in Clients : Trusted(op[c])

LEMMA CommittedGrows ==
  ASSUME audit \subseteq audit', NEW g, NEW k
  PROVE  Committed(g, k) \subseteq Committed(g, k)'
BY DEF Committed

LEMMA DefaultCommitted == \A g, k : Default \in Committed(g, k)
BY DEF Committed

LEMMA NoOpTrusted == Trusted(NoOp) /\ Trusted(NoOp)'
BY DEF NoOp, Trusted

\* A step of one client that leaves tables, service and view alone.
LEMMA OpCommitted ==
  ASSUME TypeOK, CommittedInv, NEW c \in Clients, NEW o, op' = [op EXCEPT ![c] = o],
         Trusted(o), UNCHANGED <<storeVars, serviceVars, view>>
  PROVE  CommittedInv'
<1> USE DEF storeVars, serviceVars
<1>1. \A g, k : Committed(g, k)' = Committed(g, k)
  BY DEF Committed
<1>2. \A x : Trusted(x)' <=> Trusted(x)
  BY <1>1 DEF Trusted
<1>3. \A d \in Clients : Trusted(op[d])'
  BY <1>2 DEF CommittedInv, TypeOK
<1>4. OnlyCommittedValues'
  BY <1>1 DEF CommittedInv, OnlyCommittedValues
<1> QED BY <1>1, <1>3, <1>4 DEF CommittedInv

LEMMA LookUpCommitted ==
  ASSUME TypeOK, CommittedInv, NEW c \in Clients, NEW kind \in {"read", "write"},
         NEW g \in Guilds, NEW K \in SUBSET Keys, NEW expected,
         LookUp(c, kind, g, K, expected), UNCHANGED <<storeVars, serviceVars, view>>
  PROVE  CommittedInv'
<1> DEFINE missing == {k \in K : cache[g][k] = Uncached}
           values == [k \in Keys |-> IF k \in K \ missing THEN cache[g][k] ELSE Default]
           phase == IF missing = {} THEN AfterRead(kind) ELSE "query"
           o == [NoOp EXCEPT !.kind = kind, !.guild = g, !.keys = K, !.expected = expected,
                             !.missing = missing, !.values = values, !.phase = phase]
<1>1. op' = [op EXCEPT ![c] = o]
  BY DEF LookUp
<1>2. \A k \in Keys : values[k] \in Committed(g, k)
  BY DefaultCommitted DEF CommittedInv, OnlyCommittedValues
<1>3. phase # "after"
  BY DEF AfterRead
<1> HIDE DEF values, phase, missing
<1>4. o.phase = phase /\ o.values = values /\ o.guild = g
  BY DEF NoOp
<1> HIDE DEF o
<1>5. Trusted(o)
  BY <1>2, <1>3, <1>4 DEF Trusted
<1> QED BY <1>1, <1>5, OpCommitted

\* A committed value is in the log.
LEMMA CommitCommitted ==
  ASSUME Inv, CommittedInv, NEW c \in Clients, Commit(c)
  PROVE  CommittedInv'
<1> USE DEF storeVars, serviceVars
<1> PICK o : o = op[c]
  OBVIOUS
<1> DEFINE g == o.guild
<1>1. /\ TypeOK /\ o \in OpType /\ g \in Guilds
      /\ db' = [db EXCEPT ![g] = WithNew(@, o)]
      /\ audit' = audit \cup AuditRows(o)
      /\ UNCHANGED <<serviceVars, view>>
  BY DEF Inv, TypeInv, TypeOK, Shaped, Shape, Commit
<1>2. /\ op'[c].phase = "after" /\ op'[c].kind = o.kind /\ op'[c].base = o.base
      /\ op'[c].keys = o.keys /\ op'[c].guild = g
      /\ \A d \in Clients : d # c => op'[d] = op[d]
  BY <1>1 DEF Commit, TypeOK, OpType
<1>3. \A h, k : Committed(h, k) \subseteq Committed(h, k)'
  <2>1. audit \subseteq audit'
    BY <1>1
  <2> QED BY <2>1, CommittedGrows
<1>4. ASSUME NEW k \in o.keys PROVE NewValue(o) \in Committed(g, k)'
  <2> DEFINE row == [guild |-> g, version |-> o.base + 1, key |-> k, old |-> o.values[k],
                     new |-> NewValue(o)]
  <2>1. row \in audit'
    BY <1>1 DEF AuditRows
  <2>2. row.guild = g /\ row.key = k /\ row.new = NewValue(o)
    OBVIOUS
  <2> HIDE DEF row, g
  <2> QED BY <2>1, <2>2 DEF Committed
<1>5. NewValue(op'[c]) = NewValue(o)
  BY <1>2 DEF NewValue
<1> HIDE DEF g
<1>6. ASSUME NEW d \in Clients PROVE Trusted(op[d])'
  <2>1. CASE d = c
    BY <1>2, <1>4, <1>5, <2>1 DEF Trusted
  <2>2. CASE d # c
    <3>1. op'[d] = op[d] /\ Trusted(op[d])
      BY <1>2, <2>2 DEF CommittedInv
    <3> QED BY <1>3, <3>1 DEF Trusted, NewValue
  <2> QED BY <2>1, <2>2
<1>7. ASSUME NEW h \in Guilds, NEW k \in Keys PROVE db'[h][k] \in Committed(h, k)'
  <2>1. db[h][k] \in Committed(h, k)'
    BY <1>3 DEF CommittedInv
  <2>2. db'[h][k] = IF h = g /\ k \in o.keys THEN NewValue(o) ELSE db[h][k]
    BY <1>1 DEF WithNew, TypeOK
  <2> QED BY <1>4, <2>1, <2>2
<1>8. OnlyCommittedValues'
  BY <1>1, <1>3 DEF CommittedInv, OnlyCommittedValues
<1> QED BY <1>6, <1>7, <1>8 DEF CommittedInv

\* After a write the service, the plugins and the response have its value.
LEMMA AfterWriteCommitted ==
  ASSUME Inv, CommittedInv, NEW c \in Clients, AfterWrite(c)
  PROVE  CommittedInv'
<1> USE DEF storeVars, serviceVars
<1> PICK o : o = op[c]
  OBVIOUS
<1> DEFINE g == o.guild
<1>1. /\ TypeOK /\ o \in OpType /\ g \in Guilds
      /\ op' = [op EXCEPT ![c] = NoOp] /\ db' = db /\ audit' = audit
  BY DEF Inv, TypeInv, TypeOK, Shaped, Shape, AfterWrite
<1>2. \A h, k : Committed(h, k)' = Committed(h, k)
  BY <1>1 DEF Committed
<1>3. \A k \in o.keys : NewValue(o) \in Committed(g, k)
  BY DEF CommittedInv, Trusted, AfterWrite
<1>4. ASSUME NEW d \in Clients PROVE Trusted(op[d])'
  <2>1. CASE d = c
    BY <1>1, <2>1 DEF NoOp, Trusted, TypeOK
  <2>2. CASE d # c
    <3>1. op'[d] = op[d] /\ Trusted(op[d])
      BY <1>1, <2>2 DEF CommittedInv, TypeOK
    <3> QED BY <1>2, <3>1 DEF Trusted
  <2> QED BY <2>1, <2>2
<1>5. OnlyCommittedValues
  BY DEF CommittedInv
<1> HIDE DEF g
<1>6. ASSUME NEW h \in Guilds, NEW k \in Keys
      PROVE  /\ cache'[h][k] \in Committed(h, k) \cup {Uncached}
             /\ announced'[h][k] \in Committed(h, k) \cup {Uncached}
  <2>1. \/ cache'[h][k] \in {cache[h][k], Uncached}
        \/ h = g /\ k \in o.keys /\ cache'[h][k] = NewValue(o)
    <3>1. cache' = [cache EXCEPT ![g] = [j \in Keys |->
                      IF j \notin o.keys THEN @[j]
                      ELSE IF o.kind = "delete" THEN Uncached ELSE NewValue(o)]]
      BY DEF AfterWrite, g
    <3>2. cache \in [Guilds -> [Keys -> Nat \cup {Uncached}]]
      BY <1>1 DEF TypeOK
    <3> QED BY <3>1, <3>2
  <2>2. \/ announced'[h][k] = announced[h][k]
        \/ h = g /\ k \in o.keys /\ announced'[h][k] = NewValue(o)
    <3>1. announced' = [announced EXCEPT ![g] = WithNew(@, o)]
      BY DEF AfterWrite, g
    <3>2. announced \in [Guilds -> [Keys -> Nat \cup {Uncached}]]
      BY <1>1 DEF TypeOK
    <3> QED BY <3>1, <3>2 DEF WithNew
  <2> QED BY <1>3, <1>5, <2>1, <2>2 DEF OnlyCommittedValues
<1>7. ASSUME NEW k \in Keys, runtime'[k].guild # NoGuild
      PROVE  runtime'[k].value \in {RuntimeValue(v) : v \in Committed(runtime'[k].guild, k)}
  <2>1. \/ runtime'[k] = runtime[k]
        \/ k \in o.keys /\ runtime'[k] = [guild |-> g, value |-> RuntimeValue(NewValue(o))]
    <3>1. runtime' = [j \in Keys |-> IF j \in o.keys
                        THEN [guild |-> g, value |-> RuntimeValue(NewValue(o))] ELSE runtime[j]]
      BY DEF AfterWrite, g
    <3> QED BY <3>1
  <2> QED BY <1>3, <1>5, <1>7, <2>1 DEF OnlyCommittedValues
<1>8. ASSUME NEW d \in Clients, NEW k \in Keys, view'[d].guild # NoGuild
      PROVE  view'[d].values[k] \in Committed(view'[d].guild, k)
  <2>1. CASE view'[d] = view[d]
    BY <1>5, <1>8, <2>1 DEF OnlyCommittedValues
  <2>2. CASE view'[d] # view[d]
    <3>1. /\ view[d].guild = g /\ view'[d].guild = g
          /\ view'[d].values = WithNew(view[d].values, o)
      BY <1>1, <2>2 DEF AfterWrite, TypeOK, g
    <3>2. view'[d].values[k] = IF k \in o.keys THEN NewValue(o) ELSE view[d].values[k]
      BY <3>1 DEF WithNew
    <3>3. view[d].values[k] \in Committed(g, k)
      BY <1>5, <1>8, <3>1 DEF OnlyCommittedValues
    <3> QED BY <1>3, <3>1, <3>2, <3>3
  <2> QED BY <2>1, <2>2
<1>9. \A h \in Guilds, k \in Keys : db'[h][k] \in Committed(h, k)
  BY <1>1 DEF CommittedInv
<1> QED BY <1>2, <1>4, <1>6, <1>7, <1>8, <1>9 DEF CommittedInv, OnlyCommittedValues

LEMMA InitTruth == Init => AuditExplainsStore /\ CommittedInv
<1> SUFFICES ASSUME Init PROVE AuditExplainsStore /\ CommittedInv
  OBVIOUS
<1>1. AuditExplainsStore
  BY DEF Init, AuditExplainsStore, AllDefault
<1>2. OnlyCommittedValues
  BY DEF Init, OnlyCommittedValues, NoView
<1>3. CommittedInv
  BY <1>2, NoOpTrusted, DefaultCommitted DEF Init, CommittedInv, AllDefault
<1> QED BY <1>1, <1>3

LEMMA StepTruth ==
  Inv /\ AuditExplainsStore /\ CommittedInv /\ [Next]_vars
    => AuditExplainsStore' /\ CommittedInv'
<1> SUFFICES ASSUME Inv, AuditExplainsStore, CommittedInv, [Next]_vars
             PROVE  AuditExplainsStore' /\ CommittedInv'
  OBVIOUS
<1> USE DEF storeVars, serviceVars
<1>0. TypeInv /\ TypeOK /\ Shaped /\ LockInv
  BY DEF Inv, TypeInv
<1>a. AuditExplainsStore'
  <2>1. CASE UNCHANGED storeVars
    <3>1. ASSUME NEW g \in Guilds, NEW k \in Keys
          PROVE  Explains(Rows(g, k), db[g][k], dbVersion[g])'
      <4>1. Explains(Rows(g, k), db[g][k], dbVersion[g])
        BY ExplainsStore
      <4>2. Rows(g, k)' = Rows(g, k) /\ db'[g][k] = db[g][k] /\ dbVersion'[g] = dbVersion[g]
        BY <2>1 DEF Rows
      <4> QED BY <4>1, <4>2
    <3> QED BY <3>1 DEF AuditExplainsStore, Explains, BeforeOf, LeftOf, Rows
  <2>2. CASE \E c \in Clients : Commit(c)
    BY <2>2, CommitExplains
  <2> QED BY <2>1, <2>2, StepInv
<1>1. ASSUME NEW c \in Clients, NEW g \in Guilds, GetSettings(c, g) PROVE CommittedInv'
  BY <1>0, <1>1, LookUpCommitted DEF GetSettings
<1>2. ASSUME NEW c \in Clients, NEW g \in Guilds, NEW K \in (SUBSET Keys) \ {{}},
             NEW expected, PatchSettings(c, g, K, expected)
      PROVE  CommittedInv'
  <2>1. LookUp(c, "write", g, K, expected) /\ K \in SUBSET Keys
    BY <1>2 DEF PatchSettings
  <2>2. UNCHANGED <<storeVars, serviceVars, view>>
    BY <1>2 DEF PatchSettings
  <2> QED BY <1>0, <2>1, <2>2, LookUpCommitted
<1>3. ASSUME NEW c \in Clients, NEW g \in Guilds, NEW k \in Keys, DeleteSetting(c, g, k)
      PROVE  CommittedInv'
  <2> DEFINE o == [NoOp EXCEPT !.kind = "delete", !.guild = g, !.keys = {k}, !.phase = "lock"]
  <2>1. op' = [op EXCEPT ![c] = o] /\ UNCHANGED <<storeVars, serviceVars, view>>
    BY <1>3 DEF DeleteSetting
  <2>2. Trusted(o)
    BY DEF Trusted, NoOp
  <2> HIDE DEF o
  <2> QED BY <1>0, <2>1, <2>2, OpCommitted
<1>4. ASSUME NEW c \in Clients, Query(c) PROVE CommittedInv'
  <2> DEFINE o == [op[c] EXCEPT !.phase = "fill",
                     !.values = [k \in Keys |-> IF k \in op[c].missing
                                                THEN db[op[c].guild][k] ELSE op[c].values[k]]]
  <2>1. op[c] \in OpType /\ op[c].guild \in Guilds /\ op[c].phase = "query"
    BY <1>0, <1>4 DEF TypeOK, Shaped, Shape, Query
  <2>2. op' = [op EXCEPT ![c] = o] /\ UNCHANGED <<storeVars, serviceVars, view>>
    BY <1>0, <1>4, <2>1 DEF Query, TypeOK, OpType
  <2>3. Trusted(o)
    <3>1. \A k \in Keys : o.values[k] \in Committed(op[c].guild, k)
      BY <2>1 DEF CommittedInv, Trusted, OpType
    <3>2. o.phase = "fill" /\ o.guild = op[c].guild
      BY <2>1 DEF OpType
    <3> HIDE DEF o
    <3> QED BY <3>1, <3>2 DEF Trusted
  <2> HIDE DEF o
  <2> QED BY <1>0, <2>2, <2>3, OpCommitted
<1>5. ASSUME NEW c \in Clients, Fill(c) PROVE CommittedInv'
  <2> PICK o : o = op[c]
    OBVIOUS
  <2>1. o \in OpType /\ o.guild \in Guilds
    BY <1>0, <1>5 DEF TypeOK, Shaped, Shape, Fill
  <2>2. \A k \in Keys : o.values[k] \in Committed(o.guild, k)
    BY <1>5 DEF CommittedInv, Trusted, Fill
  <2>3. \A h, k : Committed(h, k)' = Committed(h, k)
    BY <1>5 DEF Fill, Committed
  <2>4. /\ op'[c].phase \in {"version", "lock"} /\ op'[c].values = o.values
        /\ op'[c].guild = o.guild /\ \A d \in Clients : d # c => op'[d] = op[d]
    BY <1>0, <1>5, <2>1 DEF Fill, AfterRead, TypeOK, OpType
  <2>5. ASSUME NEW d \in Clients PROVE Trusted(op[d])'
    <3>1. CASE d = c
      BY <2>2, <2>3, <2>4, <3>1 DEF Trusted
    <3>2. CASE d # c
      <4>1. op'[d] = op[d] /\ Trusted(op[d])
        BY <2>4, <3>2 DEF CommittedInv
      <4> QED BY <2>3, <4>1 DEF Trusted, NewValue
    <3> QED BY <3>1, <3>2
  <2>6. ASSUME NEW h \in Guilds, NEW k \in Keys
        PROVE  cache'[h][k] \in Committed(h, k) \cup {Uncached}
    <3>1. cache'[h][k] = IF h = o.guild /\ k \in o.missing THEN o.values[k] ELSE cache[h][k]
      BY <1>0, <1>5 DEF Fill, TypeOK
    <3>2. cache[h][k] \in Committed(h, k) \cup {Uncached}
      BY DEF CommittedInv, OnlyCommittedValues
    <3> QED BY <2>2, <3>1, <3>2
  <2>7. UNCHANGED <<db, announced, runtime, view>>
    BY <1>5 DEF Fill
  <2> QED BY <2>3, <2>5, <2>6, <2>7 DEF CommittedInv, OnlyCommittedValues
<1>13. ASSUME NEW c \in Clients, InvalidStored(c) PROVE CommittedInv'
  <2> PICK o : o = op[c]
    OBVIOUS
  <2>1. o \in OpType /\ o.guild \in Guilds
    BY <1>0, <1>13 DEF TypeOK, Shaped, Shape, InvalidStored
  <2>2. \A k \in Keys : o.values[k] \in Committed(o.guild, k)
    BY <1>13 DEF CommittedInv, Trusted, InvalidStored
  <2>3. \A h, k : Committed(h, k)' = Committed(h, k)
    BY <1>13 DEF InvalidStored, Committed
  <2>4. ASSUME NEW d \in Clients PROVE Trusted(op[d])'
    <3>1. CASE d = c
      BY <1>0, <1>13, <3>1 DEF InvalidStored, NoOp, Trusted, TypeOK
    <3>2. CASE d # c
      <4>1. op'[d] = op[d] /\ Trusted(op[d])
        BY <1>0, <1>13, <3>2 DEF InvalidStored, CommittedInv, TypeOK
      <4> QED BY <2>3, <4>1 DEF Trusted, NewValue
    <3> QED BY <3>1, <3>2
  <2>5. ASSUME NEW h \in Guilds, NEW k \in Keys
        PROVE  cache'[h][k] \in Committed(h, k) \cup {Uncached}
    <3>1. cache'[h][k] = cache[h][k] \/ (h = o.guild /\ cache'[h][k] = o.values[k])
      BY <1>0, <1>13 DEF InvalidStored, TypeOK
    <3>2. cache[h][k] \in Committed(h, k) \cup {Uncached}
      BY DEF CommittedInv, OnlyCommittedValues
    <3> QED BY <2>2, <3>1, <3>2
  <2>6. UNCHANGED <<db, announced, runtime, view>>
    BY <1>13 DEF InvalidStored
  <2> QED BY <2>3, <2>4, <2>5, <2>6 DEF CommittedInv, OnlyCommittedValues
<1>6. ASSUME NEW c \in Clients, ReadVersion(c) PROVE CommittedInv'
  <2> PICK o : o = op[c]
    OBVIOUS
  <2>1. \A k \in Keys : o.values[k] \in Committed(o.guild, k)
    BY <1>6 DEF CommittedInv, Trusted, ReadVersion
  <2>2. \A h, k : Committed(h, k)' = Committed(h, k)
    BY <1>6 DEF ReadVersion, Committed
  <2>3. ASSUME NEW d \in Clients PROVE Trusted(op[d])'
    <3>1. CASE d = c
      BY <1>0, <1>6, <3>1 DEF ReadVersion, NoOp, Trusted, TypeOK
    <3>2. CASE d # c
      <4>1. op'[d] = op[d] /\ Trusted(op[d])
        BY <1>0, <1>6, <3>2 DEF ReadVersion, CommittedInv, TypeOK
      <4> QED BY <2>2, <4>1 DEF Trusted, NewValue
    <3> QED BY <3>1, <3>2
  <2>4. ASSUME NEW d \in Clients, NEW k \in Keys, view'[d].guild # NoGuild
        PROVE  view'[d].values[k] \in Committed(view'[d].guild, k)
    <3>1. \/ view'[d] = view[d]
          \/ view'[d].guild = o.guild /\ view'[d].values = o.values
      BY <1>0, <1>6 DEF ReadVersion, TypeOK
    <3> QED BY <2>1, <2>4, <3>1 DEF CommittedInv, OnlyCommittedValues
  <2>5. UNCHANGED <<db, cache, announced, runtime>>
    BY <1>6 DEF ReadVersion
  <2> QED BY <2>2, <2>3, <2>4, <2>5 DEF CommittedInv, OnlyCommittedValues
<1>7. ASSUME NEW c \in Clients, LockVersion(c) PROVE CommittedInv'
  <2> DEFINE o == [op[c] EXCEPT !.phase = "commit", !.base = dbVersion[op[c].guild],
                                !.values = db[op[c].guild]]
  <2>1. op[c] \in OpType
    BY <1>0 DEF TypeOK
  <2>2. op' = [op EXCEPT ![c] = o] /\ UNCHANGED <<storeVars, serviceVars, view>>
    BY <1>0, <1>7, <2>1 DEF LockVersion, TypeOK, OpType
  <2>3. o.phase = "commit"
    BY <2>1 DEF OpType
  <2> HIDE DEF o
  <2>4. Trusted(o)
    BY <2>3 DEF Trusted
  <2> QED BY <1>0, <2>2, <2>4, OpCommitted
<1>8. ASSUME NEW c \in Clients,
             Conflict(c) \/ NothingToDelete(c) \/ DatabaseError(c) \/ ReplyLost(c)
      PROVE  CommittedInv'
  <2>1. op' = [op EXCEPT ![c] = NoOp] /\ UNCHANGED <<storeVars, serviceVars, view>>
    BY <1>8 DEF Conflict, NothingToDelete, DatabaseError, ReplyLost
  <2> QED BY <1>0, <2>1, NoOpTrusted, OpCommitted
<1>9. ASSUME NEW c \in Clients, Commit(c) PROVE CommittedInv'
  BY <1>9, CommitCommitted
<1>10. ASSUME NEW c \in Clients, AfterWrite(c) PROVE CommittedInv'
  BY <1>10, AfterWriteCommitted
<1>11. CASE Restart
  <2>1. \A h, k : Committed(h, k)' = Committed(h, k)
    BY <1>11 DEF Restart, Committed
  <2>2. \A c \in Clients : Trusted(op[c])'
    BY <1>11 DEF Restart, Trusted, NoOp
  <2>3. OnlyCommittedValues'
    BY <1>11, <2>1 DEF Restart, CommittedInv, OnlyCommittedValues
  <2>4. db' = db
    BY <1>11 DEF Restart
  <2>5. \A g \in Guilds, k \in Keys : db'[g][k] \in Committed(g, k)'
    BY <2>1, <2>4 DEF CommittedInv
  <2> QED BY <1>a, <2>2, <2>3, <2>5 DEF CommittedInv
<1>12. CASE UNCHANGED vars
  <2>1. \A h, k : Committed(h, k)' = Committed(h, k)
    BY <1>12 DEF vars, Committed
  <2>2. \A x : Trusted(x)' <=> Trusted(x)
    BY <2>1 DEF Trusted, NewValue
  <2>3. UNCHANGED <<db, cache, announced, runtime, view, op>>
    BY <1>12 DEF vars
  <2>4. OnlyCommittedValues'
    BY <2>1, <2>3 DEF CommittedInv, OnlyCommittedValues
  <2>5. \A g \in Guilds, k \in Keys : db'[g][k] \in Committed(g, k)'
    BY <2>1, <2>3 DEF CommittedInv
  <2>6. \A c \in Clients : Trusted(op[c])'
    BY <2>2, <2>3 DEF CommittedInv
  <2> QED BY <1>a, <2>4, <2>5, <2>6 DEF CommittedInv
<1> QED
  BY <1>a, <1>1, <1>2, <1>3, <1>4, <1>5, <1>6, <1>7, <1>8, <1>9, <1>10, <1>11, <1>12, <1>13
     DEF Next, Request

\* The audit log tells the whole truth for any number of guilds, keys and
\* clients, whatever fails: it is the history of the store, without a gap or a
\* version with two writers, and every value that is cached, applied, announced
\* or shown is in it (guild-settings.repository.ts:54-147,
\* configuration.service.ts:106-126).
THEOREM AuditTellsTheTruth == Spec => []AuditIsTruth
<1>1. AuditExplainsStore /\ CommittedInv => AuditIsTruth
  BY DEF AuditIsTruth, CommittedInv
<1> QED BY <1>1, InitInv, StepInv, InitTruth, StepTruth, PTL DEF Spec

-----------------------------------------------------------------------------
(* Requests one at a time *)

Agrees(g, k) == /\ cache[g][k] \in {Uncached, db[g][k]}
                /\ announced[g][k] \in {Uncached, db[g][k]}

\* Only a commit makes cache and announcements differ from the store, in the keys of the
\* request alone, until the request has seen to them; what a query found is still stored
\* when it is cached.
Settles(g) ==
  /\ OneAtMost(g)
  /\ (\A c \in UnderWay(g) : op[c].phase # "after") => \A k \in Keys : Agrees(g, k)
  /\ \A c \in UnderWay(g) :
       /\ op[c].phase = "fill" => \A k \in op[c].missing : op[c].values[k] = db[g][k]
       /\ op[c].phase = "after" =>
            \A k \in Keys : IF k \in op[c].keys THEN db[g][k] = NewValue(op[c]) ELSE Agrees(g, k)

AloneInv == alone \subseteq Guilds /\ \A g \in alone : Settles(g)

\* What is done for other guilds changes nothing.
LEMMA Elsewhere ==
  ASSUME NEW g \in Guilds, Settles(g),
         \A c \in Clients : op'[c] = op[c] \/ (op[c].guild # g /\ op'[c].guild # g),
         db'[g] = db[g], cache'[g] = cache[g], announced'[g] = announced[g]
  PROVE  Settles(g)'
<1>1. UnderWay(g)' = UnderWay(g) /\ \A c \in UnderWay(g) : op'[c] = op[c]
  BY DEF UnderWay
<1> QED BY <1>1 DEF Settles, OneAtMost, Agrees, NewValue

\* What the one request of a guild does.
LEMMA Onward ==
  ASSUME NEW g \in Guilds, Settles(g), OneAtMost(g)', NEW c \in Clients,
         \A d \in Clients \ {c} : op'[d] = op[d], op[c].guild = g \/ op'[c].guild = g,
         op'[c].phase # "after" => \A k \in Keys : Agrees(g, k)',
         op'[c].phase = "fill" => \A k \in op'[c].missing : op'[c].values[k] = db'[g][k],
         op'[c].phase = "after" =>
            \A k \in Keys : IF k \in op'[c].keys THEN db'[g][k] = NewValue(op'[c]) ELSE Agrees(g, k)',
         op'[c].guild = g \/ op'[c].phase # "after"
  PROVE  Settles(g)'
<1>1. \A d \in UnderWay(g)' : d = c
  BY DEF UnderWay, Settles, OneAtMost
<1>2. \A d \in UnderWay(g)' : op'[d].phase = "after" => op'[c].phase = "after"
  BY <1>1
<1>3. op'[c].phase = "after" => c \in UnderWay(g)'
  BY DEF UnderWay
<1>4. (\A d \in UnderWay(g)' : op'[d].phase # "after") => \A k \in Keys : Agrees(g, k)'
  BY <1>3
<1>5. \A d \in UnderWay(g)' :
        /\ op'[d].phase = "fill" => \A k \in op'[d].missing : op'[d].values[k] = db'[g][k]
        /\ op'[d].phase = "after" =>
             \A k \in Keys : IF k \in op'[d].keys THEN db'[g][k] = NewValue(op'[d]) ELSE Agrees(g, k)'
  BY <1>1
<1>6. \A d \in Clients : NewValue(op[d])' = NewValue(op'[d])
  BY DEF NewValue
<1> QED BY <1>4, <1>5, <1>6 DEF Settles, UnderWay

\* Before it has committed, the one request finds everything agreed.
LEMMA AgreedSoFar ==
  ASSUME NEW g \in Guilds, Settles(g), OneAtMost(g)', NEW c \in Clients,
         \A d \in Clients \ {c} : op'[d] = op[d], op[c].guild = g \/ op'[c].guild = g,
         op[c].phase # "after"
  PROVE  \A k \in Keys : Agrees(g, k)
<1>1. \A d \in UnderWay(g) : d = c
  BY DEF UnderWay, Settles, OneAtMost
<1> QED BY <1>1 DEF Settles

\* A step that writes nothing leads to a phase in which nothing was found or committed.
LEMMA NothingWritten ==
  ASSUME NEW g \in Guilds, Settles(g), OneAtMost(g)', NEW c \in Clients,
         \A d \in Clients \ {c} : op'[d] = op[d],
         op[c].phase # "after", op'[c].phase \notin {"fill", "after"},
         UNCHANGED <<db, cache, announced>>
  PROVE  Settles(g)'
<1>1. CASE op[c].guild # g /\ op'[c].guild # g
  BY <1>1, Elsewhere
<1>2. CASE op[c].guild = g \/ op'[c].guild = g
  <2>1. \A k \in Keys : Agrees(g, k)'
    BY <1>2, AgreedSoFar DEF Agrees
  <2> QED BY <1>2, <2>1, Onward
<1> QED BY <1>1, <1>2

\* The types of what the steps below change.
LEMMA OpsTyped ==
  ASSUME Inv, NEW c \in Clients
  PROVE  /\ op \in [Clients -> OpType] /\ op[c] \in OpType
         /\ cache \in [Guilds -> [Keys -> Nat \cup {Uncached}]] /\ db \in [Guilds -> Values]
         /\ announced \in [Guilds -> [Keys -> Nat \cup {Uncached}]]
         /\ op[c].phase # "idle" => op[c].guild \in Guilds
BY DEF Inv, TypeInv, TypeOK, Shaped, Shape

LEMMA QuerySettles ==
  ASSUME Inv, NEW g \in Guilds, Settles(g), OneAtMost(g)', NEW c \in Clients, Query(c)
  PROVE  Settles(g)'
<1>1. /\ op[c].phase = "query" /\ UNCHANGED <<db, cache, announced>>
      /\ \A d \in Clients \ {c} : op'[d] = op[d]
      /\ op'[c].phase = "fill" /\ op'[c].guild = op[c].guild /\ op'[c].missing = op[c].missing
      /\ \A k \in op[c].missing : op'[c].values[k] = db[op[c].guild][k]
  BY OpsTyped DEF Query, storeVars, serviceVars, OpType, Values
<1>2. CASE op[c].guild # g
  BY <1>1, <1>2, Elsewhere
<1>3. CASE op[c].guild = g
  <2>1. \A k \in Keys : Agrees(g, k)'
    BY <1>1, <1>3, AgreedSoFar DEF Agrees
  <2> QED BY <1>1, <1>3, <2>1, Onward
<1> QED BY <1>2, <1>3

LEMMA FillSettles ==
  ASSUME Inv, NEW g \in Guilds, Settles(g), OneAtMost(g)', NEW c \in Clients, Fill(c)
  PROVE  Settles(g)'
<1>1. /\ op[c].phase = "fill" /\ UNCHANGED <<db, announced>>
      /\ \A d \in Clients \ {c} : op'[d] = op[d]
      /\ op'[c].phase \in {"version", "lock"} /\ op'[c].guild = op[c].guild
      /\ cache' = [cache EXCEPT ![op[c].guild] =
                     [k \in Keys |-> IF k \in op[c].missing THEN op[c].values[k] ELSE @[k]]]
  BY OpsTyped DEF Fill, storeVars, AfterRead, OpType
<1>2. CASE op[c].guild # g
  BY <1>1, <1>2, OpsTyped, Elsewhere
<1>3. CASE op[c].guild = g
  <2>1. \A k \in Keys : Agrees(g, k)
    BY <1>1, <1>3, AgreedSoFar
  <2>2. \A k \in op[c].missing : op[c].values[k] = db[g][k]
    BY <1>1, <1>3 DEF Settles, UnderWay
  <2>3. \A k \in Keys : cache'[g][k] = IF k \in op[c].missing THEN op[c].values[k] ELSE cache[g][k]
    BY <1>1, <1>3, OpsTyped
  <2>4. \A k \in Keys : Agrees(g, k)'
    BY <1>1, <2>1, <2>2, <2>3 DEF Agrees
  <2> QED BY <1>1, <1>3, <2>4, Onward
<1> QED BY <1>2, <1>3

LEMMA InvalidStoredSettles ==
  ASSUME Inv, NEW g \in Guilds, Settles(g), OneAtMost(g)', NEW c \in Clients, InvalidStored(c)
  PROVE  Settles(g)'
<1>1. /\ op[c].phase = "fill" /\ UNCHANGED <<db, announced>>
      /\ op' = [op EXCEPT ![c] = NoOp]
  BY DEF InvalidStored, storeVars
<1>2. PICK K \in SUBSET op[c].missing :
        cache' = [cache EXCEPT ![op[c].guild] =
                    [k \in Keys |-> IF k \in K THEN op[c].values[k] ELSE @[k]]]
  BY DEF InvalidStored
<1>3. /\ \A d \in Clients \ {c} : op'[d] = op[d]
      /\ op'[c].phase = "idle" /\ op'[c].guild = NoGuild /\ g # NoGuild
  BY <1>1, OpsTyped, GuildAssumption DEF NoOp
<1>4. CASE op[c].guild # g
  BY <1>1, <1>2, <1>3, <1>4, OpsTyped, Elsewhere
<1>5. CASE op[c].guild = g
  <2>1. \A k \in Keys : Agrees(g, k)
    BY <1>1, <1>3, <1>5, AgreedSoFar
  <2>2. \A k \in op[c].missing : op[c].values[k] = db[g][k]
    BY <1>1, <1>5 DEF Settles, UnderWay
  <2>3. \A k \in Keys : cache'[g][k] = IF k \in K THEN op[c].values[k] ELSE cache[g][k]
    BY <1>2, <1>5, OpsTyped
  <2>4. \A k \in Keys : Agrees(g, k)'
    BY <1>1, <2>1, <2>2, <2>3 DEF Agrees
  <2> QED BY <1>3, <1>5, <2>4, Onward
<1> QED BY <1>4, <1>5

LEMMA CommitSettles ==
  ASSUME Inv, NEW g \in Guilds, Settles(g), OneAtMost(g)', NEW c \in Clients, Commit(c)
  PROVE  Settles(g)'
<1>1. /\ op[c].phase = "commit" /\ UNCHANGED <<cache, announced>>
      /\ \A d \in Clients \ {c} : op'[d] = op[d]
      /\ op'[c].phase = "after" /\ op'[c].guild = op[c].guild /\ op'[c].keys = op[c].keys
      /\ op'[c].kind = op[c].kind /\ op'[c].base = op[c].base
      /\ db' = [db EXCEPT ![op[c].guild] = WithNew(@, op[c])]
  BY OpsTyped DEF Commit, serviceVars, OpType
<1>2. NewValue(op'[c]) = NewValue(op[c])
  BY <1>1 DEF NewValue
<1>3. CASE op[c].guild # g
  BY <1>1, <1>3, OpsTyped, Elsewhere
<1>4. CASE op[c].guild = g
  <2>1. \A k \in Keys : Agrees(g, k)
    BY <1>1, <1>4, AgreedSoFar
  <2>2. \A k \in Keys : db'[g][k] = IF k \in op[c].keys THEN NewValue(op[c]) ELSE db[g][k]
    BY <1>1, <1>4, OpsTyped DEF WithNew
  <2>3. \A k \in Keys : IF k \in op'[c].keys THEN db'[g][k] = NewValue(op'[c]) ELSE Agrees(g, k)'
    BY <1>1, <1>2, <2>1, <2>2 DEF Agrees
  <2> QED BY <1>1, <1>4, <2>3, Onward
<1> QED BY <1>3, <1>4

LEMMA AfterWriteSettles ==
  ASSUME Inv, NEW g \in Guilds, Settles(g), OneAtMost(g)', NEW c \in Clients, AfterWrite(c)
  PROVE  Settles(g)'
<1> DEFINE o == op[c]
<1>1. /\ o.phase = "after" /\ UNCHANGED db /\ op' = [op EXCEPT ![c] = NoOp]
      /\ cache' = [cache EXCEPT ![o.guild] = [k \in Keys |->
                     IF k \notin o.keys THEN @[k]
                     ELSE IF o.kind = "delete" THEN Uncached ELSE NewValue(o)]]
      /\ announced' = [announced EXCEPT ![o.guild] = WithNew(@, o)]
  BY DEF AfterWrite, storeVars
<1>2. /\ \A d \in Clients \ {c} : op'[d] = op[d]
      /\ op'[c].phase = "idle" /\ op'[c].guild = NoGuild /\ g # NoGuild
  BY <1>1, OpsTyped, GuildAssumption DEF NoOp
<1>3. CASE o.guild # g
  BY <1>1, <1>2, <1>3, OpsTyped, Elsewhere
<1>4. CASE o.guild = g
  <2>1. \A k \in Keys : IF k \in o.keys THEN db[g][k] = NewValue(o) ELSE Agrees(g, k)
    BY <1>1, <1>4 DEF Settles, UnderWay
  <2>2. \A k \in Keys :
          /\ cache'[g][k] = IF k \notin o.keys THEN cache[g][k]
                            ELSE IF o.kind = "delete" THEN Uncached ELSE NewValue(o)
          /\ announced'[g][k] = IF k \in o.keys THEN NewValue(o) ELSE announced[g][k]
    BY <1>1, <1>4, OpsTyped DEF WithNew
  <2>3. \A k \in Keys : Agrees(g, k)'
    BY <1>1, <2>1, <2>2 DEF Agrees
  <2> QED BY <1>2, <1>4, <2>3, Onward
<1> QED BY <1>3, <1>4

\* The steps that write nothing.
LEMMA QuietSettles ==
  ASSUME Inv, NEW g \in Guilds, Settles(g), OneAtMost(g)', NEW c \in Clients,
         \/ Request(c) \/ ReadVersion(c) \/ LockVersion(c) \/ Conflict(c) \/ NothingToDelete(c)
         \/ DatabaseError(c)
  PROVE  Settles(g)'
<1> USE DEF storeVars, serviceVars
<1>1. ASSUME NEW h \in Guilds, NEW kind \in {"read", "write"}, NEW K, NEW expected,
             LookUp(c, kind, h, K, expected)
      PROVE  op'[c].phase \notin {"fill", "after"} /\ \A d \in Clients \ {c} : op'[d] = op[d]
  <2> DEFINE missing == {k \in K : cache[h][k] = Uncached}
             phase == IF missing = {} THEN AfterRead(kind) ELSE "query"
             o == [NoOp EXCEPT !.kind = kind, !.guild = h, !.keys = K, !.expected = expected,
                    !.missing = missing,
                    !.values = [k \in Keys |-> IF k \in K \ missing THEN cache[h][k]
                                               ELSE Default],
                    !.phase = phase]
  <2>1. op' = [op EXCEPT ![c] = o]
    BY <1>1 DEF LookUp
  <2>2. phase \in {"query", "version", "lock"}
    BY DEF AfterRead
  <2> HIDE DEF missing, phase
  <2>3. o.phase = phase
    BY DEF NoOp
  <2> HIDE DEF o
  <2> QED BY <2>1, <2>2, <2>3, OpsTyped
<1>2. ASSUME NEW h \in Guilds, GetSettings(c, h) PROVE Settles(g)'
  <2>1. op[c].phase = "idle" /\ LookUp(c, "read", h, Keys, AnyVersion) /\ UNCHANGED <<db, cache, announced>>
    BY <1>2 DEF GetSettings, Idle
  <2> QED BY <1>1, <2>1, NothingWritten
<1>3. ASSUME NEW h \in Guilds, NEW K, NEW expected, PatchSettings(c, h, K, expected) PROVE Settles(g)'
  <2>1. op[c].phase = "idle" /\ LookUp(c, "write", h, K, expected) /\ UNCHANGED <<db, cache, announced>>
    BY <1>3 DEF PatchSettings, Idle
  <2> QED BY <1>1, <2>1, NothingWritten
<1>4. ASSUME NEW h \in Guilds, NEW k \in Keys, DeleteSetting(c, h, k) PROVE Settles(g)'
  <2>1. /\ op[c].phase = "idle" /\ UNCHANGED <<db, cache, announced>>
        /\ op' = [op EXCEPT ![c] = [NoOp EXCEPT !.kind = "delete", !.guild = h, !.keys = {k},
                                               !.phase = "lock"]]
    BY <1>4 DEF DeleteSetting, Idle
  <2>2. op'[c].phase = "lock" /\ \A d \in Clients \ {c} : op'[d] = op[d]
    BY <2>1, OpsTyped DEF NoOp
  <2> QED BY <2>1, <2>2, NothingWritten
<1>5. CASE ReadVersion(c) \/ Conflict(c) \/ NothingToDelete(c) \/ DatabaseError(c)
  <2>1. op[c].phase # "after" /\ op' = [op EXCEPT ![c] = NoOp] /\ UNCHANGED <<db, cache, announced>>
    BY <1>5 DEF ReadVersion, Conflict, NothingToDelete, DatabaseError
  <2>2. op'[c].phase = "idle" /\ \A d \in Clients \ {c} : op'[d] = op[d]
    BY <2>1, OpsTyped DEF NoOp
  <2> QED BY <2>1, <2>2, NothingWritten
<1>6. CASE LockVersion(c)
  <2>1. /\ op[c].phase = "lock" /\ op'[c].phase = "commit" /\ UNCHANGED <<db, cache, announced>>
        /\ \A d \in Clients \ {c} : op'[d] = op[d]
    BY <1>6, OpsTyped DEF LockVersion, OpType
  <2> QED BY <2>1, NothingWritten
<1> QED BY <1>2, <1>3, <1>4, <1>5, <1>6 DEF Request

LEMMA AloneInitially == SequentialInit => AloneInv
<1> SUFFICES ASSUME SequentialInit PROVE AloneInv
  OBVIOUS
<1>1. \A g \in Guilds : UnderWay(g) = {}
  BY GuildAssumption DEF SequentialInit, Init, UnderWay, NoOp
<1>2. \A g \in Guilds, k \in Keys : Agrees(g, k)
  BY DEF SequentialInit, Init, Agrees
<1> QED BY <1>1, <1>2 DEF SequentialInit, AloneInv, Settles, OneAtMost

LEMMA AloneStep == Inv /\ AloneInv /\ [SequentialNext]_<<vars, alone>> => AloneInv'
<1> SUFFICES ASSUME Inv, AloneInv, [SequentialNext]_<<vars, alone>> PROVE AloneInv'
  OBVIOUS
<1>1. CASE UNCHANGED <<vars, alone>>
  BY <1>1 DEF vars, storeVars, serviceVars, AloneInv, Settles, OneAtMost, UnderWay, Agrees, NewValue
<1>2. CASE SequentialNext /\ Restart
  <2>1. alone' = Guilds /\ \A g \in Guilds : UnderWay(g)' = {}
    BY <1>2, GuildAssumption DEF SequentialNext, Restart, UnderWay, NoOp
  <2>2. \A g \in Guilds, k \in Keys : Agrees(g, k)'
    BY <1>2 DEF Restart, Agrees
  <2> QED BY <2>1, <2>2 DEF AloneInv, Settles, OneAtMost
<1>3. CASE SequentialNext /\ ~Restart
  <2>1. alone' = {g \in alone : OneAtMost(g)' /\ ~\E c \in UnderWay(g) : ReplyLost(c)}
    BY <1>3 DEF SequentialNext
  <2> SUFFICES ASSUME NEW g \in Guilds, Settles(g), OneAtMost(g)', ~\E c \in UnderWay(g) : ReplyLost(c)
               PROVE  Settles(g)'
    BY <2>1 DEF AloneInv
  <2>2. PICK c \in Clients :
          \/ Request(c)
          \/ Query(c) \/ Fill(c) \/ InvalidStored(c) \/ ReadVersion(c)
          \/ LockVersion(c) \/ Conflict(c) \/ NothingToDelete(c) \/ Commit(c)
          \/ AfterWrite(c)
          \/ DatabaseError(c) \/ ReplyLost(c)
    BY <1>3 DEF SequentialNext, Next
  <2>3. CASE ReplyLost(c)
    <3>1. /\ op[c].guild # g /\ op' = [op EXCEPT ![c] = NoOp] /\ UNCHANGED <<db, cache, announced>>
      BY <2>3 DEF ReplyLost, UnderWay, storeVars, serviceVars
    <3>2. \A d \in Clients : op'[d] = op[d] \/ (op[d].guild # g /\ op'[d].guild # g)
      BY <3>1, OpsTyped, GuildAssumption DEF NoOp
    <3> QED BY <3>1, <3>2, Elsewhere
  <2> QED BY <2>2, <2>3, QuietSettles, QuerySettles, FillSettles, InvalidStoredSettles,
                  CommitSettles, AfterWriteSettles
<1> QED BY <1>1, <1>2, <1>3

\* However often its requests are refused or fail and the process restarts, a guild whose
\* requests come one at a time finds in cache and announcements what is stored
\* (get, setMany and afterWrite, configuration.service.ts:26-65, 117-126, 171-178).
THEOREM SettlesAlone == SequentialSpec => []SettledWhenAlone
<1>1. Inv /\ [SequentialNext]_<<vars, alone>> => Inv'
  BY StepInv DEF SequentialNext, vars
<1>2. SequentialInit => Inv
  BY InitInv DEF SequentialInit
<1>3. AloneInv => SettledWhenAlone
  BY DEF AloneInv, Settles, SettledWhenAlone, Agrees
<1> QED BY <1>1, <1>2, <1>3, AloneInitially, AloneStep, PTL DEF SequentialSpec
=============================================================================
