--------------------------- MODULE PluginCatalog ---------------------------
(***************************************************************************)
(* What the startup makes of a catalog of plugins: its validation, the order *)
(* its dependencies ask for, the dependency graph of the manifests, the       *)
(* manifest and command registries, and the migrations that are due.         *)
(*                                                                          *)
(* Plugins are numbered in the order of their names.  A catalog is a sequence *)
(* of entries [id, version, deps, caps, commands, nav, migrations].          *)
(***************************************************************************)
EXTENDS Naturals, Sequences, FiniteSets, FiniteSetsExt, SequencesExt, Subsequences

Entries(catalog) == ToSet(catalog)
Ids(catalog) == {e.id : e \in Entries(catalog)}
ById(catalog, id) == CHOOSE e \in Entries(catalog) : e.id = id

\* In the order of the names.
ByName(S) ==
  CHOOSE names \in [1 .. Cardinality(S) -> S] :
    \A i, j \in 1 .. Cardinality(S) : i < j => names[i] < names[j]

\* The elements of a sequence that are not in a set, in their order.
Without(seq, S) == Chosen(seq, {i \in DOMAIN seq : seq[i] \notin S})

-----------------------------------------------------------------------------
(* validateCatalog: the same id twice, or two plugins with a capability only   *)
(* one may have.  The schema of a single manifest is left out.                *)

DuplicateId(catalog) ==
  \E i, j \in DOMAIN catalog : i < j /\ catalog[i].id = catalog[j].id

Collision(catalog) ==
  \E i, j \in DOMAIN catalog : i < j /\ catalog[i].caps \cap catalog[j].caps # {}

ValidCatalog(catalog) == ~DuplicateId(catalog) /\ ~Collision(catalog)

-----------------------------------------------------------------------------
(* Versions <<major, minor, patch>>.  The code compares major * 1e12 + minor *  *)
(* 1e6 + patch, which is the order of the triples below a million.             *)

Below(v, w) ==
  \E i \in 1 .. 3 : v[i] < w[i] /\ \A j \in 1 .. i - 1 : v[j] = w[j]

\* satisfies.  A caret keeps the major number only, also when it is 0.
Satisfies(version, range) ==
  LET v == version  w == range.version
  IN  CASE range.op = "*"  -> TRUE
        [] range.op = "="  -> v = w
        [] range.op = "^"  -> v[1] = w[1] /\ ~Below(v, w)
        [] range.op = "~"  -> v[1] = w[1] /\ v[2] = w[2] /\ v[3] >= w[3]
        [] range.op = ">=" -> ~Below(v, w)
        [] range.op = ">"  -> Below(w, v)
        [] range.op = "<=" -> ~Below(w, v)
        [] range.op = "<"  -> Below(v, w)

\* Mutant: the range of a dependency is not looked at.
MetById(catalog, dep) == dep.id \in Ids(catalog)

Met(catalog, dep) ==
  dep.id \in Ids(catalog) /\ Satisfies(ById(catalog, dep.id).version, dep.range)

Unmet(catalog) == \E e \in Entries(catalog) : \E dep \in e.deps : ~Met(catalog, dep)

-----------------------------------------------------------------------------
(* resolveDependencies: depth first, by name.  The recursion is a function of  *)
(* its depth, counted down from the number of plugins: when it is used up, all  *)
(* of them are active, so that the next one is.                               *)

Walk(catalog) ==
  [active : Seq(Ids(catalog)), visited : SUBSET Ids(catalog), result : Seq(Ids(catalog)), cycle : BOOLEAN]

Start == [active |-> <<>>, visited |-> {}, result |-> <<>>, cycle |-> FALSE]

Needs(catalog, id) == {dep.id : dep \in ById(catalog, id).deps}

NeedsByName(catalog, id) == ByName(Needs(catalog, id))

\* One visit after the other, each with what the one before has left.
Each(visit, state, ids) == FoldLeft(LAMBDA s, id : visit[id][s], state, ids)

\* What an active plugin needs is visited; then it is put into the order itself.
Enter(catalog, deeper, id, s) ==
  LET below == Each(deeper, [s EXCEPT !.active = Append(@, id)], NeedsByName(catalog, id))
  IN  IF below.cycle THEN below
      ELSE [active |-> s.active, visited |-> below.visited \cup {id},
            result |-> Append(below.result, id), cycle |-> FALSE]

Visit(catalog, depth, deeper) ==
  [id \in Ids(catalog) |-> [s \in Walk(catalog) |->
     IF s.cycle THEN s
     ELSE IF Contains(s.active, id) \/ depth = 0 THEN [s EXCEPT !.cycle = TRUE]
     ELSE IF id \in s.visited THEN s
     ELSE Enter(catalog, deeper, id, s)]]

Resolve(catalog) ==
  LET visit[depth \in Nat] == Visit(catalog, depth, visit[depth - 1])
  IN  Each(visit[Len(catalog)], Start, ByName(Ids(catalog)))

\* loadPluginCatalog up to the factories: refused, or the plugins in the order they load.
Accepted(catalog) == ValidCatalog(catalog) /\ ~Unmet(catalog) /\ ~Resolve(catalog).cycle
LoadOrder(catalog) == Resolve(catalog).result

-----------------------------------------------------------------------------
(* DependencyGraph.validate over the manifests, whose dependencies have no     *)
(* range: a search of its own, in the order of the manifests.                  *)

Search(catalog) == [stack : Seq(Ids(catalog)), visited : SUBSET Ids(catalog), circular : BOOLEAN]

OnStack(s, id) == Contains(s.stack, id)

\* The dependencies that are there.  Their order in the manifest makes no difference to
\* whether a cycle is found: the one by name stands for any.
Known(catalog, id) == ByName(Needs(catalog, id) \cap Ids(catalog))

Detect(catalog, depth, deeper) ==
  [id \in Ids(catalog) |-> [s \in Search(catalog) |->
     IF OnStack(s, id) \/ depth = 0 THEN [s EXCEPT !.circular = TRUE]
     ELSE IF id \in s.visited THEN s
     ELSE [Each(deeper, [s EXCEPT !.visited = @ \cup {id}, !.stack = Append(@, id)], Known(catalog, id))
             EXCEPT !.stack = s.stack]]]

DetectCycle(catalog) ==
  LET detect[depth \in Nat] == Detect(catalog, depth, detect[depth - 1])
  IN  Each(detect[Len(catalog)], [stack |-> <<>>, visited |-> {}, circular |-> FALSE],
           [i \in DOMAIN catalog |-> catalog[i].id]).circular

-----------------------------------------------------------------------------
(* The manifest registry and the command registry                             *)

\* validateNavigationOrder: two modules the navigation shows have one place.
NavigationClash(catalog) ==
  \E i, j \in DOMAIN catalog : i < j /\ catalog[i].nav # 0 /\ catalog[i].nav = catalog[j].nav

\* ManifestRegistry.register, one manifest after the other.
Registrable(catalog) == ~DuplicateId(catalog) /\ ~NavigationClash(catalog)

Commands(catalog, loaded) ==
  FlattenSeq([i \in DOMAIN loaded |-> ById(catalog, loaded[i]).commands])

\* validateCommandDescriptors: a name that is taken as a name or an alias, or such an alias.
CommandsClash(commands) ==
  \/ \E i, j \in DOMAIN commands :
       /\ i < j
       /\ ({commands[i].name} \cup commands[i].aliases) \cap ({commands[j].name} \cup commands[j].aliases) # {}
  \/ \E i \in DOMAIN commands : commands[i].name \in commands[i].aliases

\* bootstrap counts the registered commands: all those of the built-in modules must be there.
CatalogComplete(catalog, loaded) ==
  Len(Commands(catalog, loaded)) = Len(Commands(catalog, [i \in DOMAIN catalog |-> catalog[i].id]))

-----------------------------------------------------------------------------
(* Migrations [namespace, version, checksum]                                  *)

Migrations(catalog) == FlattenSeq([i \in DOMAIN catalog |-> catalog[i].migrations])

\* loadAndStartPluginCatalog: a plugin migrates its own namespace only; run: one version once.
MigrationsRefused(catalog) ==
  \/ \E e \in Entries(catalog) : \E m \in ToSet(e.migrations) : m.namespace # e.id
  \/ \E i, j \in DOMAIN Migrations(catalog) :
       /\ i < j
       /\ Migrations(catalog)[i].namespace = Migrations(catalog)[j].namespace
       /\ Migrations(catalog)[i].version = Migrations(catalog)[j].version

\* In the order they are run: by namespace, then by version.
Earlier(m, n) ==
  m.namespace < n.namespace \/ (m.namespace = n.namespace /\ m.version < n.version)

\* What the ledger holds of the same namespace and version.
Recorded(ledger, m) == {r \in ledger : r.namespace = m.namespace /\ r.version = m.version}

\* The next migration to look at: not the ledger's own, and all before it are.
Due(catalog, ledger) ==
  {m \in ToSet(Migrations(catalog)) :
     /\ m \notin ledger
     /\ \A n \in ToSet(Migrations(catalog)) : Earlier(n, m) => n \in ledger}

-----------------------------------------------------------------------------
(* References                                                                 *)

\* Plugins have names and finitely many dependencies.
Readable(catalog) ==
  /\ catalog \in Seq(Entries(catalog))
  /\ \A e \in Entries(catalog) : e.id \in Nat \ {0} /\ IsFiniteSet(e.deps)

\* Plugins each of which needs one of them: no order puts all behind what they need.
Circle(catalog, S) == S # {} /\ \A id \in S : Needs(catalog, id) \cap S # {}

Circular(catalog) == \E S \in SUBSET Ids(catalog) : Circle(catalog, S)

\* What a catalog has to be: the plugins are distinct and own their capabilities alone,
\* every dependency is there in a version that suits, and none depends on itself, however far.
Sound(catalog) ==
  /\ Cardinality(Ids(catalog)) = Len(catalog)
  /\ \A v \in UNION {e.caps : e \in Entries(catalog)} : Cardinality({e \in Entries(catalog) : v \in e.caps}) = 1
  /\ \A e \in Entries(catalog), dep \in UNION {f.deps : f \in Entries(catalog)} :
       dep \in e.deps => \E f \in Entries(catalog) : f.id = dep.id /\ Satisfies(f.version, dep.range)
  /\ ~Circular(catalog)
=============================================================================
