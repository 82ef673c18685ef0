--------------------------- MODULE VersionedStore ---------------------------
(***************************************************************************)
(* What the guild configuration store promises its callers: every committed *)
(* write is one atomic step that gives the guild the next version and       *)
(* records, for each key it changes, the value the key really had before.   *)
(* A value is identified with the version that wrote it, Default when the   *)
(* key has no row.                                                          *)
(***************************************************************************)
EXTENDS Integers

CONSTANTS Guilds, Keys

Default == 0

VARIABLES
  store,   \* per guild and key: the stored value
  version, \* per guild: its configuration version
  log      \* the audit rows

storeVars == <<store, version, log>>

Init ==
  /\ store = [g \in Guilds |-> [k \in Keys |-> Default]]
  /\ version = [g \in Guilds |-> 0]
  /\ log = {}

\* The audit rows of one commit: what the keys held, and what they hold now.
Rows(g, K, old, new, v) ==
  {[guild |-> g, version |-> v, key |-> k, old |-> old[k], new |-> new] : k \in K}

\* One commit gives the keys of K the value new.
Commit(g, K, new) ==
  /\ store' = [store EXCEPT ![g] = [k \in Keys |-> IF k \in K THEN new ELSE @[k]]]
  /\ version' = [version EXCEPT ![g] = @ + 1]
  /\ log' = log \cup Rows(g, K, store[g], new, version[g] + 1)

Put(g, K)    == Commit(g, K, version[g] + 1)
Remove(g, k) == store[g][k] # Default /\ Commit(g, {k}, Default)

Next ==
  \E g \in Guilds :
    \/ \E K \in (SUBSET Keys) \ {{}} : Put(g, K)
    \/ \E k \in Keys : Remove(g, k)

Spec == Init /\ [][Next]_storeVars
=============================================================================
