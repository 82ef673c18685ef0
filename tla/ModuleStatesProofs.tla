-------------------------- MODULE ModuleStatesProofs --------------------------
(***************************************************************************)
(* Proofs about ModuleStates, for any manifests and any number of clients.  *)
(***************************************************************************)
EXTENDS ModuleStates, DataLemmas

-----------------------------------------------------------------------------
(* Type correctness *)

\* A request in progress changes its module and writes no other than it planned.
Shape(o) ==
  /\ o.phase # "idle" =>
       o.module \in Modules /\ o.module \in o.changed /\ o.written \subseteq o.changed
  /\ o.phase \in {"idle", "select"} => o.locked = {} /\ o.written = {}

Shaped == \A c \in Clients : Shape(op[c])

TypeInv == TypeOK /\ Shaped

LEMMA NoOpTypes == NoOp \in OpType /\ Shape(NoOp)
<1>1. 0 \in 0..N
  BY ManifestAssumption
<1> QED BY <1>1 DEF NoOp, OpType, Shape

\* A request that replaces one of the right type and shape keeps the invariant.
LEMMA ReplaceOp ==
  ASSUME TypeInv, NEW c \in Clients, NEW o \in OpType, Shape(o), op' = [op EXCEPT ![c] = o],
         rows' \in [Modules -> {"on", "off", "missing"}], raced' \in BOOLEAN
  PROVE  TypeInv'
BY DEF TypeInv, TypeOK, Shaped

LEMMA ProceedTypes ==
  ASSUME TypeInv, NEW c \in Clients, NEW m \in Modules, NEW enabled \in BOOLEAN,
         NEW read \in SUBSET Modules, NEW changed \in SUBSET Modules, m \in changed,
         Proceed(c, m, enabled, read, changed)
  PROVE  TypeInv'
<1> DEFINE o == [NoOp EXCEPT !.phase = "select", !.module = m, !.enabled = enabled,
                             !.read = read, !.changed = changed]
<1>1. m \in 0..N
  BY ManifestAssumption DEF Modules
<1>2. o \in OpType /\ Shape(o)
  BY <1>1 DEF NoOp, OpType, Shape
<1>3. op' = [op EXCEPT ![c] = o] /\ UNCHANGED <<rows, raced>>
  BY DEF Proceed
<1> HIDE DEF o
<1> QED BY <1>2, <1>3, ReplaceOp DEF TypeInv, TypeOK

\* The next module to be written is one of those to be changed.
LEMMA NextWriteIsPlanned ==
  ASSUME TypeInv, NEW c \in Clients, op[c].phase = "write", op[c].written # op[c].changed
  PROVE  NextWrite(c) \in op[c].changed
<1>1. /\ op[c].module \in op[c].changed /\ op[c].written \subseteq op[c].changed
      /\ op[c].changed \subseteq Modules
  BY DEF TypeInv, TypeOK, OpType, Shaped, Shape
<1>2. op[c].changed \ op[c].written \in SUBSET Nat /\ op[c].changed \ op[c].written # {}
  <2>1. Modules \subseteq Nat
    BY ManifestAssumption DEF Modules
  <2>2. op[c].changed \ op[c].written # {}
    BY <1>1
  <2> QED BY <1>1, <2>1, <2>2
<1>3. Min(op[c].changed \ op[c].written) \in op[c].changed \ op[c].written
  BY <1>2, MinOfNaturals
<1> QED BY <1>1, <1>3 DEF NextWrite

LEMMA InitTypes == Init => TypeInv
BY NoOpTypes DEF Init, TypeInv, TypeOK, Shaped

LEMMA StepTypes == TypeInv /\ [Next]_vars => TypeInv'
<1> SUFFICES ASSUME TypeInv, [Next]_vars PROVE TypeInv'
  OBVIOUS
<1>0. rows \in [Modules -> {"on", "off", "missing"}] /\ raced \in BOOLEAN
  BY DEF TypeInv, TypeOK
<1>a. ASSUME NEW c \in Clients
      PROVE  op[c] \in OpType /\ Shape(op[c])
  BY DEF TypeInv, TypeOK, Shaped
<1>q. \A c \in Clients : Asks[c] \subseteq Modules
  BY ClientAssumption
<1>1. ASSUME NEW c \in Clients, NEW m \in Modules, Enable(c, m) PROVE TypeInv'
  BY <1>1, ProceedTypes DEF Enable, On
<1>2. ASSUME NEW c \in Clients, NEW m \in Modules, NEW confirmed \in BOOLEAN,
             Disable(c, m, confirmed)
      PROVE  TypeInv'
  <2> DEFINE read == On \cap Available
             changed == {m} \cup (read \cap TransitiveDependents(m))
  <2>1. read \in SUBSET Modules /\ changed \in SUBSET Modules /\ m \in changed
    BY DEF On
  <2>2. Proceed(c, m, FALSE, read, changed)
    BY <1>2 DEF Disable
  <2> HIDE DEF read, changed
  <2> QED BY <2>1, <2>2, ProceedTypes
<1>3. ASSUME NEW c \in Clients, Select(c) PROVE TypeInv'
  <2> DEFINE o == [op[c] EXCEPT !.phase = "lock", !.seen = {m \in Modules : rows[m] # "missing"}]
  <2>1. o \in OpType /\ Shape(o)
    BY <1>3, <1>a DEF Select, OpType, Shape
  <2>2. op' = [op EXCEPT ![c] = o] /\ rows' = rows /\ raced' = raced
    BY <1>3, <1>a DEF Select
  <2> HIDE DEF o
  <2> QED BY <1>0, <2>1, <2>2, ReplaceOp
<1>4. ASSUME NEW c \in Clients, NEW m \in Modules, LockRow(c, m) PROVE TypeInv'
  <2> DEFINE o == [op[c] EXCEPT !.locked = @ \cup {m}]
  <2>1. o \in OpType /\ Shape(o)
    BY <1>4, <1>a DEF LockRow, OpType, Shape
  <2>2. op' = [op EXCEPT ![c] = o] /\ rows' = rows /\ raced' = raced
    BY <1>4, <1>a DEF LockRow
  <2> HIDE DEF o
  <2> QED BY <1>0, <2>1, <2>2, ReplaceOp
<1>5. ASSUME NEW c \in Clients, Compare(c) PROVE TypeInv'
  <2> DEFINE o == [op[c] EXCEPT !.phase = "write"]
  <2>1. o \in OpType /\ Shape(o)
    BY <1>5, <1>a DEF Compare, RowsLocked, OpType, Shape
  <2>2. op' = [op EXCEPT ![c] = o] /\ rows' = rows /\ raced' = raced
    BY <1>5, <1>a DEF Compare
  <2> HIDE DEF o
  <2> QED BY <1>0, <2>1, <2>2, ReplaceOp
<1>6. ASSUME NEW c \in Clients, RefuseChanged(c) PROVE TypeInv'
  BY <1>0, <1>6, NoOpTypes, ReplaceOp DEF RefuseChanged
<1>7. ASSUME NEW c \in Clients, Upsert(c) PROVE TypeInv'
  <2> DEFINE o == [op[c] EXCEPT !.written = @ \cup {NextWrite(c)}]
  <2>1. NextWrite(c) \in op[c].changed
    BY <1>7, NextWriteIsPlanned DEF Upsert
  <2>2. o \in OpType /\ Shape(o)
    BY <1>7, <1>a, <2>1 DEF Upsert, OpType, Shape
  <2>3. op' = [op EXCEPT ![c] = o] /\ rows' = rows /\ raced' = raced
    BY <1>7, <1>a DEF Upsert
  <2> HIDE DEF o
  <2> QED BY <1>0, <2>2, <2>3, ReplaceOp
<1>8. ASSUME NEW c \in Clients, Commit(c) PROVE TypeInv'
  <2>1. rows' \in [Modules -> {"on", "off", "missing"}] /\ raced' \in BOOLEAN
    BY <1>0, <1>8 DEF Commit, Value
  <2> QED BY <1>8, <2>1, NoOpTypes, ReplaceOp DEF Commit
<1>9. ASSUME NEW c \in Clients, Abort(c) PROVE TypeInv'
  BY <1>0, <1>9, NoOpTypes, ReplaceOp DEF Abort
<1>10. CASE UNCHANGED vars
  BY <1>10 DEF vars, TypeInv, TypeOK, Shaped
<1> QED
  BY <1>q, <1>1, <1>2, <1>3, <1>4, <1>5, <1>6, <1>7, <1>8, <1>9, <1>10
     DEF Next, Request, Locking, Deciding, QueryFails, DeadlockVictim

\* The table and the requests keep their types
\* (guild-module-state.repository.ts:8-11, module-config.endpoints.ts:197-200).
THEOREM TypeCorrect == Spec => []TypeOK
<1>1. TypeInv => TypeOK
  BY DEF TypeInv
<1> QED BY <1>1, InitTypes, StepTypes, PTL DEF Spec
-----------------------------------------------------------------------------
(* Dependencies.  The rows a transaction has found are locked while it writes,  *)
(* so that what the handler read of them is still true when it commits; of      *)
(* those it has not found, it is told apart by Missed.                          *)

LockInv ==
  /\ \A c \in Clients : op[c].phase \in {"lock", "write"} =>
       /\ op[c].locked \subseteq op[c].seen
       /\ \A m \in op[c].seen : rows[m] # "missing"
  /\ \A c \in Clients : op[c].phase = "write" => op[c].locked = op[c].seen /\ Matches(c)
  /\ \A c, d \in Clients : c # d => Held(c) \cap Held(d) = {}

\* What a request is about to change follows from what its handler read.
Planned(o) ==
  o.phase # "idle" =>
    IF o.enabled
      THEN o.changed = {o.module} /\ TransitiveDependencies(o.module) \subseteq o.read
      ELSE o.changed = {o.module} \cup (o.read \cap TransitiveDependents(o.module))

AllPlanned == \A c \in Clients : Planned(op[c])

Inv == TypeInv /\ LockInv /\ AllPlanned /\ DependenciesEnabled

\* What m depends on directly is among what it depends on.
LEMMA DirectDependenciesIncluded ==
  ASSUME NEW m \in Modules
  PROVE  Dependencies[m] \subseteq TransitiveDependencies(m)
BY ManifestAssumption DEF TransitiveDependencies

\* The dependents of m contain its direct dependents and their dependents.
LEMMA DependentsClosed ==
  ASSUME NEW m \in Modules, NEW x \in Modules,
         m \in Dependencies[x] \/ Dependencies[x] \cap TransitiveDependents(m) # {}
  PROVE  x \in TransitiveDependents(m)
<1> SUFFICES ASSUME NEW S \in SUBSET Modules,
                    \A y \in Modules :
                      m \in Dependencies[y] \/ Dependencies[y] \cap S # {} => y \in S
             PROVE  x \in S
  BY DEF TransitiveDependents
<1>1. TransitiveDependents(m) \subseteq S
  BY DEF TransitiveDependents
<1> QED BY <1>1

\* They are the least such set: a closed set of modules without m has none of them.
LEMMA ClosedSetsHaveNoDependents ==
  ASSUME NEW m \in Modules, NEW S \in SUBSET Modules, m \notin S, Switches!Closed(S)
  PROVE  S \cap TransitiveDependents(m) = {}
<1> DEFINE T == Modules \ S
<1>1. \A y \in Modules : m \in Dependencies[y] \/ Dependencies[y] \cap T # {} => y \in T
  BY DEF Switches!Closed
<1>2. TransitiveDependents(m) \subseteq T
  BY <1>1 DEF TransitiveDependents
<1> QED BY <1>2

\* A commit turns on the module asked for, or off it and what needs it.
LEMMA CommitSwitches ==
  ASSUME Inv, NEW c \in Clients, Commit(c)
  PROVE  /\ On' = IF op[c].enabled THEN On \cup {op[c].module} ELSE On \ op[c].changed
         /\ op[c].module \in Modules
         /\ \A m \in Modules : rows'[m] # rows[m] => m \in op[c].written /\ rows'[m] # "missing"
<1>1. /\ op[c].phase = "write" /\ op[c].module \in Modules /\ op[c].module \in op[c].changed
      /\ op[c].enabled \in BOOLEAN /\ op[c].written = op[c].changed
      /\ op[c].enabled => op[c].changed = {op[c].module}
  BY DEF Inv, TypeInv, TypeOK, OpType, Shaped, Shape, Commit, AllPlanned, Planned
<1>2. \A m \in Modules : rows'[m] = IF m = op[c].module THEN Value(op[c].enabled)
                                    ELSE IF m \in op[c].changed THEN Value(FALSE) ELSE rows[m]
  BY DEF Commit
<1>3. \A m \in Modules : rows'[m] # rows[m] => m \in op[c].written /\ rows'[m] # "missing"
  BY <1>1, <1>2 DEF Value
<1>5. CASE op[c].enabled
  <2>1. \A m \in Modules : rows'[m] # "off" <=> m = op[c].module \/ rows[m] # "off"
    BY <1>1, <1>2, <1>5 DEF Value
  <2>2. On' = On \cup {op[c].module}
    BY <1>1, <2>1 DEF On
  <2> QED BY <1>1, <1>3, <1>5, <2>2
<1>6. CASE ~op[c].enabled
  <2>1. \A m \in Modules : rows'[m] # "off" <=> m \notin op[c].changed /\ rows[m] # "off"
    BY <1>1, <1>2, <1>6 DEF Value
  <2>2. On' = On \ op[c].changed
    BY <2>1 DEF On
  <2> QED BY <1>1, <1>3, <1>6, <2>2
<1> QED BY <1>1, <1>5, <1>6

\* What the handler read is what is on when its transaction commits, unless a
\* module it could not lock was disabled meanwhile.
LEMMA ReadIsTrue ==
  ASSUME Inv, NEW c \in Clients, op[c].phase = "write", Missed(c) = {}
  PROVE  op[c].read = On
<1>1. /\ op[c].read \subseteq Modules /\ op[c].seen \subseteq Modules
      /\ \A m \in Modules : rows[m] \in {"on", "off", "missing"}
  BY DEF Inv, TypeInv, TypeOK, OpType
<1>2. Matches(c) /\ \A m \in op[c].seen : rows[m] # "missing"
  BY DEF Inv, LockInv
<1>3. \A m \in Modules \ op[c].seen : rows[m] # "off"
  BY DEF Missed
<1> QED BY <1>1, <1>2, <1>3 DEF Matches, On

\* A commit is one switch of the abstract specification, and keeps dependencies.
LEMMA CommitRefines ==
  ASSUME Inv, NEW c \in Clients, Commit(c), ~raced'
  PROVE  Switches!Next /\ Switches!Closed(On')
<1> DEFINE m == op[c].module
<1>1. /\ m \in Modules /\ op[c].read = On /\ Planned(op[c]) /\ op[c].phase # "idle"
      /\ Switches!Closed(On)
  <2>1. ~raced /\ Missed(c) = {} /\ op[c].phase = "write"
    BY DEF Commit
  <2> QED BY <2>1, CommitSwitches, ReadIsTrue DEF Inv, AllPlanned, DependenciesEnabled
<1>a. On \subseteq Modules /\ On' \subseteq Modules
  BY DEF On
<1>2. CASE op[c].enabled
  <2>1. On' = On \cup {m} /\ TransitiveDependencies(m) \subseteq On
    BY <1>1, <1>2, CommitSwitches DEF Planned
  <2>2. Dependencies[m] \subseteq On
    BY <1>1, <2>1, DirectDependenciesIncluded
  <2>3. Switches!SwitchOn(m)
    BY <2>1, <2>2 DEF Switches!SwitchOn
  <2>4. Switches!Closed(On')
    BY <1>1, <2>1, <2>2 DEF Switches!Closed
  <2> QED BY <1>1, <2>3, <2>4 DEF Switches!Next
<1>3. CASE ~op[c].enabled
  <2>1. On' = On \ ({m} \cup TransitiveDependents(m))
    <3>1. op[c].changed = {m} \cup (On \cap TransitiveDependents(m))
      BY <1>1, <1>3 DEF Planned
    <3>2. On' = On \ op[c].changed
      BY <1>3, CommitSwitches
    <3> QED BY <3>1, <3>2
  <2>2. ASSUME NEW x \in On'
        PROVE  Dependencies[x] \subseteq On'
    <3>1. x \in On /\ x \in Modules /\ x \notin TransitiveDependents(m)
      BY <1>a, <2>1
    <3>2. Dependencies[x] \subseteq On
      BY <1>1, <3>1 DEF Switches!Closed
    <3>3. m \notin Dependencies[x] /\ Dependencies[x] \cap TransitiveDependents(m) = {}
      BY <1>1, <3>1, DependentsClosed
    <3> QED BY <2>1, <3>2, <3>3
  <2>3. Switches!Closed(On')
    BY <2>2 DEF Switches!Closed
  <2>4. ASSUME NEW S \in SUBSET (On \ {m}), Switches!Closed(S)
        PROVE  S \subseteq On'
    <3>1. S \in SUBSET Modules /\ m \notin S
      BY <1>a
    <3>2. S \cap TransitiveDependents(m) = {}
      BY <1>1, <2>4, <3>1, ClosedSetsHaveNoDependents
    <3> QED BY <2>1, <3>2
  <2>5. Switches!SwitchOff(m)
    BY <2>1, <2>3, <2>4 DEF Switches!SwitchOff
  <2> QED BY <1>1, <2>3, <2>5 DEF Switches!Next
<1> QED BY <1>1, <1>2, <1>3

-----------------------------------------------------------------------------
(* The invariant *)

LEMMA InitInv == Init => Inv
<1> SUFFICES ASSUME Init PROVE Inv
  OBVIOUS
<1>1. \A m \in Modules : rows[m] = "missing"
  BY DEF Init
<1>2. LockInv /\ AllPlanned
  BY DEF Init, LockInv, AllPlanned, Planned, NoOp, Held
<1>3. DependenciesEnabled
  BY <1>1, ManifestAssumption DEF DependenciesEnabled, Switches!Closed, On
<1> QED BY <1>2, <1>3, InitTypes DEF Inv

\* A step of one client that leaves the table alone keeps the invariant when what
\* it holds was free and what it has read under its locks is true.
LEMMA OneClientMoves ==
  ASSUME Inv, TypeInv', UNCHANGED <<rows, raced>>, NEW c \in Clients,
         \A d \in Clients \ {c} : op'[d] = op[d],
         Planned(op'[c]),
         op'[c].phase \in {"lock", "write"} =>
           op'[c].locked \subseteq op'[c].seen /\ \A m \in op'[c].seen : rows[m] # "missing",
         op'[c].phase = "write" => op'[c].locked = op'[c].seen /\ Matches(c)',
         \A d \in Clients \ {c} : (op'[c].locked \cup op'[c].written) \cap Held(d) = {}
  PROVE  Inv'
<1>1. On' = On
  BY DEF On
<1>2. DependenciesEnabled'
  BY <1>1 DEF Inv, DependenciesEnabled, Switches!Closed
<1>3. AllPlanned'
  <2> SUFFICES ASSUME NEW d \in Clients PROVE Planned(op'[d])
    BY DEF AllPlanned, Planned, TransitiveDependencies, TransitiveDependents
  <2>1. CASE d = c
    BY <2>1
  <2>2. CASE d # c
    BY <2>2 DEF Inv, AllPlanned
  <2> QED BY <2>1, <2>2
<1>4. LockInv'
  <2>1. ASSUME NEW d \in Clients
        PROVE  /\ op'[d].phase \in {"lock", "write"} =>
                    /\ op'[d].locked \subseteq op'[d].seen
                    /\ \A m \in op'[d].seen : rows'[m] # "missing"
               /\ op'[d].phase = "write" => op'[d].locked = op'[d].seen /\ Matches(d)'
    <3>1. CASE d = c
      BY <3>1
    <3>2. CASE d # c
      BY <3>2 DEF Inv, LockInv, Matches
    <3> QED BY <3>1, <3>2
  <2>2. ASSUME NEW d \in Clients, NEW e \in Clients, d # e
        PROVE  Held(d)' \cap Held(e)' = {}
    <3>1. Held(d) \cap Held(e) = {}
      BY <2>2 DEF Inv, LockInv
    <3>2. \A x \in Clients \ {c} : Held(x)' = Held(x)
      BY DEF Held
    <3>3. Held(c)' = op'[c].locked \cup op'[c].written
      BY DEF Held
    <3> QED BY <2>2, <3>1, <3>2, <3>3
  <2> QED BY <2>1, <2>2 DEF LockInv
<1> QED BY <1>2, <1>3, <1>4 DEF Inv

\* A request that ends without a commit.
LEMMA Ends ==
  ASSUME Inv, TypeInv', UNCHANGED <<rows, raced>>, NEW c \in Clients,
         op' = [op EXCEPT ![c] = NoOp]
  PROVE  Inv'
<1>1. op'[c] = NoOp /\ \A d \in Clients \ {c} : op'[d] = op[d]
  BY DEF Inv, TypeInv, TypeOK
<1> QED BY <1>1, OneClientMoves DEF NoOp, Planned

LEMMA CommitKeepsInv ==
  ASSUME Inv, TypeInv', NEW c \in Clients, Commit(c)
  PROVE  Inv'
<1>1. op'[c] = NoOp /\ (\A d \in Clients \ {c} : op'[d] = op[d]) /\ op[c].phase = "write"
  BY DEF Commit, Inv, TypeInv, TypeOK
<1>2. \A m \in Modules : rows'[m] # rows[m] => m \in Held(c) /\ rows'[m] # "missing"
  BY CommitSwitches DEF Held
<1>3. ASSUME NEW d \in Clients, op'[d].phase \in {"lock", "write"}
      PROVE  /\ d # c /\ op'[d] = op[d] /\ op[d].seen \subseteq Modules
             /\ op'[d].locked \subseteq op'[d].seen
             /\ \A m \in op'[d].seen : rows'[m] # "missing"
  <2>1. d # c /\ op'[d] = op[d]
    BY <1>1, <1>3 DEF NoOp
  <2>2. op[d].seen \subseteq Modules
    BY DEF Inv, TypeInv, TypeOK, OpType
  <2>3. op[d].locked \subseteq op[d].seen /\ \A m \in op[d].seen : rows[m] # "missing"
    BY <1>3, <2>1 DEF Inv, LockInv
  <2> QED BY <1>2, <2>1, <2>2, <2>3
<1>4. ASSUME NEW d \in Clients, op'[d].phase = "write"
      PROVE  op'[d].locked = op'[d].seen /\ Matches(d)'
  <2>1. d # c /\ op'[d] = op[d] /\ op[d].seen \subseteq Modules
    BY <1>3, <1>4
  <2>2. op[d].locked = op[d].seen /\ Matches(d) /\ Held(c) \cap Held(d) = {}
    BY <1>4, <2>1 DEF Inv, LockInv
  <2>3. \A m \in op[d].seen : rows'[m] = rows[m]
    BY <1>2, <2>1, <2>2 DEF Held
  <2> QED BY <2>1, <2>2, <2>3 DEF Matches
<1>5. ASSUME NEW d \in Clients, NEW e \in Clients, d # e
      PROVE  Held(d)' \cap Held(e)' = {}
  <2>1. Held(c)' = {} /\ \A x \in Clients \ {c} : Held(x)' = Held(x)
    BY <1>1 DEF Held, NoOp
  <2> QED BY <1>5, <2>1 DEF Inv, LockInv
<1>6. LockInv'
  BY <1>3, <1>4, <1>5 DEF LockInv
<1>7. AllPlanned'
  BY <1>1 DEF Inv, AllPlanned, Planned, NoOp
<1>8. DependenciesEnabled'
  BY CommitRefines DEF DependenciesEnabled, Switches!Closed
<1> QED BY <1>6, <1>7, <1>8 DEF Inv

LEMMA StepInv == Inv /\ [Next]_vars => Inv'
<1> SUFFICES ASSUME Inv, [Next]_vars PROVE Inv'
  OBVIOUS
<1>0. TypeInv'
  BY StepTypes DEF Inv
<1>a. op \in [Clients -> OpType]
  BY DEF Inv, TypeInv, TypeOK
<1>b. \A c \in Clients : Planned(op[c])
  BY DEF Inv, AllPlanned
<1>h. \A c, d \in Clients : c # d => (op[c].locked \cup op[c].written) \cap Held(d) = {}
  BY DEF Inv, LockInv, Held
<1>q. \A c \in Clients : Asks[c] \subseteq Modules
  BY ClientAssumption
<1>1. ASSUME NEW c \in Clients, NEW m \in Modules, Enable(c, m) PROVE Inv'
  <2>1. /\ op'[c].phase = "select" /\ op'[c].locked = {} /\ op'[c].written = {}
        /\ op'[c].enabled = TRUE
        /\ op'[c].module = m /\ op'[c].changed = {m} /\ op'[c].read = On \cap Available
        /\ UNCHANGED <<rows, raced>> /\ \A d \in Clients \ {c} : op'[d] = op[d]
    BY <1>1, <1>a DEF Enable, Proceed, NoOp
  <2>2. TransitiveDependencies(m) \subseteq op'[c].read
    BY <1>1, <2>1 DEF Enable
  <2> QED BY <1>0, <2>1, <2>2, OneClientMoves DEF Planned
<1>2. ASSUME NEW c \in Clients, NEW m \in Modules, NEW confirmed \in BOOLEAN,
             Disable(c, m, confirmed)
      PROVE  Inv'
  <2>1. /\ op'[c].phase = "select" /\ op'[c].locked = {} /\ op'[c].written = {}
        /\ op'[c].enabled = FALSE
        /\ op'[c].module = m /\ op'[c].read = On \cap Available
        /\ op'[c].changed = {m} \cup (On \cap Available \cap TransitiveDependents(m))
        /\ UNCHANGED <<rows, raced>> /\ \A d \in Clients \ {c} : op'[d] = op[d]
    BY <1>2, <1>a DEF Disable, Proceed, NoOp
  <2> QED BY <1>0, <2>1, OneClientMoves DEF Planned
<1>3. ASSUME NEW c \in Clients, Select(c) PROVE Inv'
  <2>1. /\ op'[c].phase = "lock" /\ op'[c].seen = {m \in Modules : rows[m] # "missing"}
        /\ op'[c].written = op[c].written /\ op'[c].locked = op[c].locked
        /\ UNCHANGED <<rows, raced>> /\ \A d \in Clients \ {c} : op'[d] = op[d]
    BY <1>3, <1>a DEF Select
  <2>2. op[c].locked = {} /\ op[c].written = {}
    BY <1>3, <1>a DEF Select, Inv, TypeInv, Shaped, Shape
  <2>3. Planned(op'[c])
    BY <1>3, <1>a, <1>b DEF Select, Planned
  <2> QED BY <1>0, <2>1, <2>2, <2>3, OneClientMoves
<1>4. ASSUME NEW c \in Clients, NEW m \in Modules, LockRow(c, m) PROVE Inv'
  <2>1. /\ op'[c].phase = "lock" /\ op'[c].seen = op[c].seen /\ m \in op[c].seen
        /\ op'[c].locked = op[c].locked \cup {m} /\ op'[c].written = op[c].written
        /\ UNCHANGED <<rows, raced>> /\ \A d \in Clients \ {c} : op'[d] = op[d]
    BY <1>4, <1>a DEF LockRow
  <2>2. op[c].locked \subseteq op[c].seen /\ \A x \in op[c].seen : rows[x] # "missing"
    BY <1>4 DEF LockRow, Inv, LockInv
  <2>3. \A d \in Clients \ {c} : (op'[c].locked \cup op'[c].written) \cap Held(d) = {}
    BY <1>4, <1>h, <2>1 DEF LockRow, Free
  <2>4. Planned(op'[c])
    BY <1>4, <1>a, <1>b DEF LockRow, Planned
  <2> QED BY <1>0, <2>1, <2>2, <2>3, <2>4, OneClientMoves
<1>5. ASSUME NEW c \in Clients, Compare(c) PROVE Inv'
  <2>1. /\ op'[c].phase = "write" /\ op'[c].seen = op[c].seen
        /\ op'[c].locked = op[c].locked /\ op'[c].read = op[c].read
        /\ op'[c].written = op[c].written
        /\ UNCHANGED <<rows, raced>> /\ \A d \in Clients \ {c} : op'[d] = op[d]
    BY <1>5, <1>a DEF Compare
  <2>2. op[c].locked = op[c].seen /\ \A m \in op[c].seen : rows[m] # "missing"
    BY <1>5 DEF Compare, RowsLocked, Inv, LockInv
  <2>3. Matches(c)'
    BY <1>5, <2>1 DEF Compare, Matches
  <2>4. Planned(op'[c])
    BY <1>5, <1>a, <1>b DEF Compare, RowsLocked, Planned
  <2> QED BY <1>0, <1>h, <2>1, <2>2, <2>3, <2>4, OneClientMoves
<1>6. ASSUME NEW c \in Clients, RefuseChanged(c) PROVE Inv'
  BY <1>0, <1>6, Ends DEF RefuseChanged
<1>7. ASSUME NEW c \in Clients, Upsert(c) PROVE Inv'
  <2>1. /\ op[c].phase = "write" /\ op'[c].phase = "write" /\ op'[c].seen = op[c].seen
        /\ op'[c].locked = op[c].locked /\ op'[c].read = op[c].read
        /\ op'[c].written = op[c].written \cup {NextWrite(c)}
        /\ UNCHANGED <<rows, raced>> /\ \A d \in Clients \ {c} : op'[d] = op[d]
    BY <1>7, <1>a DEF Upsert
  <2>2. /\ op[c].locked = op[c].seen /\ Matches(c)
        /\ \A m \in op[c].seen : rows[m] # "missing"
    BY <2>1 DEF Inv, LockInv
  <2>3. Matches(c)'
    BY <2>1, <2>2 DEF Matches
  <2>4. Planned(op'[c])
    BY <1>7, <1>a, <1>b DEF Upsert, Planned
  <2>5. \A d \in Clients \ {c} : (op'[c].locked \cup op'[c].written) \cap Held(d) = {}
    BY <1>7, <1>h, <2>1 DEF Upsert, Free
  <2> QED BY <1>0, <2>1, <2>2, <2>3, <2>4, <2>5, OneClientMoves
<1>8. ASSUME NEW c \in Clients, Commit(c) PROVE Inv'
  BY <1>0, <1>8, CommitKeepsInv
<1>9. ASSUME NEW c \in Clients, Abort(c) PROVE Inv'
  BY <1>0, <1>9, Ends DEF Abort
<1>10. CASE UNCHANGED vars
  BY <1>0, <1>10 DEF vars, Inv, LockInv, Held, Matches, AllPlanned, Planned,
     DependenciesEnabled, Switches!Closed, On
<1> QED
  BY <1>q, <1>1, <1>2, <1>3, <1>4, <1>5, <1>6, <1>7, <1>8, <1>9, <1>10
     DEF Next, Request, Locking, Deciding, QueryFails, DeadlockVictim

\* From the first switch of a fresh guild on, no module is enabled while one it
\* depends on is disabled (module-config.endpoints.ts:201-213), as long as no
\* transaction was committed that had taken the absence of a row for a module that
\* another one disabled meanwhile: the rows a transaction finds stay as it found
\* them until it commits (guild-module-state.repository.ts:35-50).
THEOREM DependenciesStayEnabled == Spec => []DependenciesEnabled
<1>1. Inv => DependenciesEnabled
  BY DEF Inv
<1> QED BY <1>1, InitInv, StepInv, PTL DEF Spec

\* Until such a race, overlapping requests implement the atomic switches of
\* ModuleSwitches (guild-module-state.repository.ts:29-52).
THEOREM SwitchesAreAtomic == Spec => SwitchSpec
<1>1. Init => Switches!Init
  BY DEF Init, On, Switches!Init
<1>2. Inv /\ [Next]_vars => [raced' \/ Switches!Next]_On
  <2> SUFFICES ASSUME Inv, [Next]_vars, On' # On, ~raced' PROVE Switches!Next
    OBVIOUS
  <2>1. rows' # rows
    BY DEF On
  <2>2. PICK c \in Clients : Commit(c)
    BY <2>1 DEF Next, vars, Request, Enable, Disable, Proceed, Select, Locking, LockRow,
                Deciding, Compare, RefuseChanged, Upsert, QueryFails, DeadlockVictim, Abort
  <2> QED BY <2>2, CommitRefines
<1> QED BY <1>1, <1>2, InitInv, StepInv, PTL DEF Spec, SwitchSpec
=============================================================================
