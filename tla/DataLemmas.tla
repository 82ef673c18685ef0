---------------------------- MODULE DataLemmas ----------------------------
(***************************************************************************)
(* Extrema of sets of natural numbers, which the proofs about versions,    *)
(* attempts and time stamps rest on; the subsequences that the lists of the  *)
(* log viewer and of the startup are; and induction over the natural numbers, *)
(* as a fact about sets, with what it says of functions defined by recursion. *)
(***************************************************************************)
EXTENDS Integers, Sequences, FiniteSetsExt, Subsequences,
        FiniteSetTheorems, WellFoundedInduction, TLAPS

LessThan == {ss \in Nat \X Nat : ss[1] < ss[2]}

\* There is no infinite descent in the natural numbers.
LEMMA LessThanWellFounded == IsWellFoundedOn(LessThan, Nat)
BY NatLessThanWellFounded DEF LessThan, OpToRel

\* A non-empty set of natural numbers has a least element.
LEMMA LeastNatural ==
  ASSUME NEW S \in SUBSET Nat, S # {}
  PROVE  \E x \in S : \A y \in S : x <= y
<1>1. \E x \in S : \A y \in S : ~ (<<y, x>> \in LessThan)
  BY LessThanWellFounded, WFMin
<1>2. PICK x \in S : \A y \in S : ~ (<<y, x>> \in LessThan)
  BY <1>1
<1>3. \A y \in S : x <= y
  <2> TAKE y \in S
  <2>1. <<y, x>> \in LessThan <=> y < x
    BY DEF LessThan
  <2> QED BY <2>1, <1>2
<1> QED BY <1>3

\* Max of a non-empty bounded set of natural numbers is its greatest element.
LEMMA MaxOfBounded ==
  ASSUME NEW n \in Nat, NEW S \in SUBSET (0..n), S # {}
  PROVE  /\ Max(S) \in S
         /\ \A y \in S : y <= Max(S)
<1> DEFINE T == {n - x : x \in S}
<1>0. \A x \in S : n - x \in Nat
  OBVIOUS
<1>1. T \in SUBSET Nat /\ T # {}
  BY <1>0
<1>2. PICK t \in T : \A u \in T : t <= u
  BY <1>1, LeastNatural
<1>3. PICK x \in S : t = n - x
  OBVIOUS
<1>4. \A y \in S : x >= y
  BY <1>2, <1>3
<1>5. QED BY <1>4 DEF Max

\* Max of two natural numbers.
LEMMA MaxOfTwo ==
  ASSUME NEW m \in Nat, NEW n \in Nat
  PROVE  /\ Max({m, n}) \in {m, n}
         /\ m <= Max({m, n}) /\ n <= Max({m, n})
<1>1. \E x \in {m, n} : \A y \in {m, n} : x >= y
  <2>1. CASE m <= n BY <2>1
  <2>2. CASE n <= m BY <2>2
  <2> QED BY <2>1, <2>2
<1> QED BY <1>1 DEF Max

\* Min of a non-empty set of natural numbers is its least element.
LEMMA MinOfNaturals ==
  ASSUME NEW S \in SUBSET Nat, S # {}
  PROVE  /\ Min(S) \in S
         /\ \A y \in S : Min(S) <= y
BY LeastNatural DEF Min
-----------------------------------------------------------------------------
(* Subsequences *)

\* Chosen goes through the chosen indices, each once, from the least to the greatest.
LEMMA ChosenFacts ==
  ASSUME NEW T, NEW seq \in Seq(T), NEW kept \in SUBSET DOMAIN seq
  PROVE  /\ Cardinality(kept) \in Nat
         /\ \E at \in [1 .. Cardinality(kept) -> kept] :
              /\ Chosen(seq, kept) = [k \in 1 .. Cardinality(kept) |-> seq[at[k]]]
              /\ \A k, l \in 1 .. Cardinality(kept) : k < l => at[k] < at[l]
              /\ \A i \in kept : \E k \in 1 .. Cardinality(kept) : at[k] = i
<1> DEFINE n == Cardinality(kept)
           before(i) == {j \in kept : j < i}
           rank == [i \in kept |-> Cardinality(before(i))]
           at == [k \in 1 .. n |-> CHOOSE i \in kept : Cardinality(before(i)) = k - 1]
<1>1. /\ kept \subseteq 1 .. Len(seq) /\ IsFiniteSet(kept) /\ n \in Nat
      /\ \A i \in kept : i \in Int
  <2>1. kept \subseteq 1 .. Len(seq) /\ Len(seq) \in Nat
    OBVIOUS
  <2>2. IsFiniteSet(1 .. Len(seq))
    BY <2>1, FS_Interval
  <2>3. \A i \in kept : i \in Int
    BY <2>1
  <2>4. IsFiniteSet(kept)
    BY <2>1, <2>2, FS_Subset
  <2>5. n \in Nat
    BY <2>4, FS_CardinalityType
  <2> QED BY <2>1, <2>3, <2>4, <2>5
<1>2. \A i \in kept : /\ IsFiniteSet(before(i)) /\ Cardinality(before(i)) \in Nat
                      /\ Cardinality(before(i)) < n
  <2> TAKE i \in kept
  <2>1. before(i) \subseteq kept \ {i}
    BY <1>1
  <2>2. IsFiniteSet(kept \ {i}) /\ Cardinality(kept \ {i}) = n - 1
    BY <1>1, FS_RemoveElement
  <2>3. IsFiniteSet(before(i)) /\ Cardinality(before(i)) <= Cardinality(kept \ {i})
    BY <2>1, <2>2, FS_Subset
  <2>4. Cardinality(before(i)) \in Nat
    BY <2>3, FS_CardinalityType
  <2> HIDE DEF before, n
  <2> QED BY <1>1, <2>2, <2>3, <2>4
<1>3. \A i, j \in kept : i < j => Cardinality(before(i)) < Cardinality(before(j))
  <2> SUFFICES ASSUME NEW i \in kept, NEW j \in kept, i < j
               PROVE  Cardinality(before(i)) < Cardinality(before(j))
    OBVIOUS
  <2>0. i \in Int /\ j \in Int /\ \A k \in before(i) : k \in Int /\ k \in kept /\ k < i
    BY <1>1
  <2>1. before(i) \cup {i} \subseteq before(j) /\ i \notin before(i)
    <3>1. \A k \in before(i) : k < j
      BY <2>0
    <3>2. i \notin before(i)
      BY <2>0
    <3>3. before(i) \cup {i} \subseteq before(j)
      BY <2>0, <3>1
    <3> QED BY <3>2, <3>3
  <2>2. /\ IsFiniteSet(before(i)) /\ Cardinality(before(i)) \in Nat
        /\ IsFiniteSet(before(j)) /\ Cardinality(before(j)) \in Nat
    BY <1>2
  <2>3. Cardinality(before(i) \cup {i}) = Cardinality(before(i)) + 1
    BY <2>1, <2>2, FS_AddElement
  <2>4. Cardinality(before(i) \cup {i}) <= Cardinality(before(j))
    BY <2>1, <2>2, FS_Subset
  <2> HIDE DEF before
  <2> QED BY <2>2, <2>3, <2>4
<1>4. rank \in Injection(kept, 0 .. n - 1)
  <2>1. rank \in [kept -> 0 .. n - 1]
    <3> HIDE DEF n, before
    <3> QED BY <1>1, <1>2
  <2>2. \A i, j \in kept : rank[i] = rank[j] => i = j
    <3> SUFFICES ASSUME NEW i \in kept, NEW j \in kept, i # j PROVE rank[i] # rank[j]
      OBVIOUS
    <3>1. i < j \/ j < i
      BY <1>1
    <3>2. rank[i] \in Nat /\ rank[j] \in Nat /\ (rank[i] < rank[j] \/ rank[j] < rank[i])
      BY <1>2, <1>3, <3>1
    <3> QED BY <3>2
  <2> HIDE DEF rank
  <2> QED BY <2>1, <2>2 DEF Injection, IsInjective
<1>5. rank \in Surjection(kept, 0 .. n - 1)
  <2>1. IsFiniteSet(0 .. n - 1) /\ Cardinality(0 .. n - 1) = n
    <3> HIDE DEF n
    <3>1. n \in Nat /\ 0 \in Int /\ n - 1 \in Int
      BY <1>1
    <3>2. /\ IsFiniteSet(0 .. n - 1)
          /\ Cardinality(0 .. n - 1) = IF 0 > n - 1 THEN 0 ELSE n - 1 - 0 + 1
      BY <3>1, FS_Interval
    <3> QED BY <3>1, <3>2
  <2> HIDE DEF rank
  <2> QED BY <1>4, <2>1, FS_Injection
<1>6. \A k \in 1 .. n : at[k] \in kept /\ Cardinality(before(at[k])) = k - 1
  <2> TAKE k \in 1 .. n
  <2>1. k - 1 \in 0 .. n - 1
    BY <1>1
  <2>2. \E i \in kept : rank[i] = k - 1
    <3> HIDE DEF rank
    <3> QED BY <1>5, <2>1 DEF Surjection
  <2>3. \E i \in kept : Cardinality(before(i)) = k - 1
    BY <2>2
  <2>4. at[k] = CHOOSE i \in kept : Cardinality(before(i)) = k - 1
    OBVIOUS
  <2> HIDE DEF at, n, before
  <2> QED BY <2>3, <2>4
<1>7. at \in [1 .. n -> kept]
  <2>1. \A k \in 1 .. n : (CHOOSE i \in kept : Cardinality(before(i)) = k - 1) \in kept
    BY <1>6
  <2> HIDE DEF n, before
  <2> QED BY <2>1
<1>8. Chosen(seq, kept) = [k \in 1 .. n |-> seq[at[k]]]
  BY DEF Chosen
<1>9. \A k, l \in 1 .. n : k < l => at[k] < at[l]
  <2> SUFFICES ASSUME NEW k \in 1 .. n, NEW l \in 1 .. n, k < l PROVE at[k] < at[l]
    OBVIOUS
  <2>1. /\ at[k] \in kept /\ Cardinality(before(at[k])) = k - 1
        /\ at[l] \in kept /\ Cardinality(before(at[l])) = l - 1
    BY <1>6
  <2> HIDE DEF at, before, n
  <2>2. at[k] \in Int /\ at[l] \in Int /\ k \in Int /\ l \in Int
    BY <1>1, <2>1
  <2>3. at[k] # at[l] /\ ~(at[l] < at[k])
    <3>1. at[l] < at[k] => Cardinality(before(at[l])) < Cardinality(before(at[k]))
      BY <1>3, <2>1
    <3> QED BY <2>1, <2>2, <3>1
  <2> QED BY <2>2, <2>3
<1>10. \A i \in kept : \E k \in 1 .. n : at[k] = i
  <2> TAKE i \in kept
  <2>1. Cardinality(before(i)) \in Nat /\ Cardinality(before(i)) < n
    BY <1>2
  <2> DEFINE k == Cardinality(before(i)) + 1
  <2>2. k \in 1 .. n /\ k - 1 = Cardinality(before(i))
    <3> HIDE DEF before, n
    <3> QED BY <1>1, <2>1
  <2>3. at[k] \in kept /\ Cardinality(before(at[k])) = k - 1
    BY <1>6, <2>2
  <2>4. Cardinality(before(at[k])) = Cardinality(before(i))
    BY <2>2, <2>3
  <2> HIDE DEF at, before, n, k
  <2>5. at[k] \in Int /\ i \in Int
    BY <1>1, <2>3
  <2>6. ~(at[k] < i) /\ ~(i < at[k])
    BY <1>3, <2>1, <2>3, <2>4
  <2>7. at[k] = i
    BY <2>5, <2>6
  <2> QED BY <2>2, <2>7
<1> HIDE DEF at
<1> QED BY <1>1, <1>7, <1>8, <1>9, <1>10

\* What Chosen makes of a sequence: a sequence of the elements at the chosen indices.
LEMMA ChosenElements ==
  ASSUME NEW T, NEW seq \in Seq(T), NEW kept \in SUBSET DOMAIN seq
  PROVE  /\ Chosen(seq, kept) \in Seq(T)
         /\ {Chosen(seq, kept)[k] : k \in DOMAIN Chosen(seq, kept)} = {seq[i] : i \in kept}
<1> DEFINE n == Cardinality(kept)
<1>1. /\ n \in Nat
      /\ \E at \in [1 .. n -> kept] :
           /\ Chosen(seq, kept) = [k \in 1 .. n |-> seq[at[k]]]
           /\ \A i \in kept : \E k \in 1 .. n : at[k] = i
  BY ChosenFacts
<1> HIDE DEF n
<1>2. PICK at \in [1 .. n -> kept] :
        /\ Chosen(seq, kept) = [k \in 1 .. n |-> seq[at[k]]]
        /\ \A i \in kept : \E k \in 1 .. n : at[k] = i
  BY <1>1
<1>3. \A i \in kept : seq[i] \in T
  OBVIOUS
<1>4. Chosen(seq, kept) \in [1 .. n -> T]
  BY <1>2, <1>3
<1>5. DOMAIN Chosen(seq, kept) = 1 .. n
  BY <1>2
<1>6. \A k \in 1 .. n : at[k] \in kept /\ Chosen(seq, kept)[k] = seq[at[k]]
  BY <1>2
<1>7. {Chosen(seq, kept)[k] : k \in 1 .. n} = {seq[i] : i \in kept}
  BY <1>2, <1>6
<1>8. Chosen(seq, kept) \in Seq(T)
  BY <1>1, <1>4
<1> QED BY <1>5, <1>7, <1>8

-----------------------------------------------------------------------------
(* Induction and recursion *)

\* A set of natural numbers with 0 and every successor of a member holds them all.
LEMMA SetInduction ==
  ASSUME NEW S \in SUBSET Nat, 0 \in S, \A n \in S : n + 1 \in S
  PROVE  S = Nat
<1> SUFFICES ASSUME Nat \ S # {} PROVE FALSE
  OBVIOUS
<1>1. PICK n \in Nat \ S : \A m \in Nat \ S : n <= m
  BY LeastNatural
<1>2. n - 1 \in Nat /\ ~(n <= n - 1)
  BY <1>1
<1>3. n - 1 \in S
  BY <1>1, <1>2
<1> QED BY <1>1, <1>2, <1>3

Stepping(S) == [Nat -> [S -> S]]

Iterates(f, S, first, step) ==
  f \in [Nat -> S] /\ f[0] = first /\ \A n \in Nat : f[n + 1] = step[n][f[n]]

\* A function on the natural numbers is defined by its first value and a step.
LEMMA Recursion ==
  ASSUME NEW S, NEW first \in S, NEW step \in Stepping(S)
  PROVE  \E f : Iterates(f, S, first, step)
<1> USE DEF Stepping
<1> DEFINE Upto(n, g) == /\ g[0] = first
                         /\ \A i \in 0 .. n - 1 : g[i + 1] = step[i][g[i]]
<1>1. \A n \in Nat : \E g \in [0 .. n -> S] : Upto(n, g)
  <2> DEFINE N == {n \in Nat : \E g \in [0 .. n -> S] : Upto(n, g)}
  <2>1. 0 \in N
    <3>1. [i \in 0 .. 0 |-> first] \in [0 .. 0 -> S] /\ Upto(0, [i \in 0 .. 0 |-> first])
      OBVIOUS
    <3> QED BY <3>1
  <2>2. ASSUME NEW n \in N PROVE n + 1 \in N
    <3>1. PICK g \in [0 .. n -> S] : Upto(n, g)
      BY <2>2
    <3> DEFINE h == [i \in 0 .. n + 1 |-> IF i = n + 1 THEN step[n][g[n]] ELSE g[i]]
    <3>2. n \in Nat
      OBVIOUS
    <3>3. step[n][g[n]] \in S
      BY <3>2
    <3>4. h \in [0 .. n + 1 -> S]
      BY <3>2, <3>3
    <3>5. Upto(n + 1, h)
      <4>1. h[0] = first
        BY <3>1, <3>2
      <4>2. ASSUME NEW i \in 0 .. n PROVE h[i + 1] = step[i][h[i]]
        BY <3>1, <3>2
      <4>3. (n + 1) - 1 = n
        BY <3>2
      <4> HIDE DEF h
      <4> QED BY <4>1, <4>2, <4>3
    <3> HIDE DEF h, Upto
    <3> QED BY <3>2, <3>4, <3>5
  <2> HIDE DEF N
  <2>3. N \in SUBSET Nat
    BY DEF N
  <2>4. N = Nat
    BY <2>1, <2>2, <2>3, SetInduction
  <2> QED BY <2>4 DEF N
<1> DEFINE G(n) == CHOOSE g \in [0 .. n -> S] : Upto(n, g)
           f == [n \in Nat |-> G(n)[n]]
<1>2. \A n \in Nat : G(n) \in [0 .. n -> S] /\ Upto(n, G(n))
  <2> HIDE DEF Upto
  <2> QED BY <1>1
<1>3. \A n \in Nat : G(n + 1)[n] = G(n)[n]
  <2> SUFFICES ASSUME NEW n \in Nat PROVE G(n + 1)[n] = G(n)[n]
    OBVIOUS
  <2> DEFINE same == {i \in Nat : i <= n => G(n + 1)[i] = G(n)[i]}
  <2>0. /\ G(n) \in [0 .. n -> S] /\ Upto(n, G(n))
        /\ G(n + 1) \in [0 .. n + 1 -> S] /\ Upto(n + 1, G(n + 1))
    <3>1. n + 1 \in Nat
      OBVIOUS
    <3> HIDE DEF G, Upto
    <3> QED BY <1>2, <3>1
  <2> HIDE DEF G
  <2>1. 0 \in same
    BY <2>0
  <2>2. ASSUME NEW i \in same PROVE i + 1 \in same
    <3> SUFFICES ASSUME i + 1 <= n PROVE G(n + 1)[i + 1] = G(n)[i + 1]
      OBVIOUS
    <3>1. i \in 0 .. n - 1 /\ i \in 0 .. (n + 1) - 1 /\ G(n + 1)[i] = G(n)[i]
      OBVIOUS
    <3> QED BY <2>0, <3>1
  <2> HIDE DEF same
  <2>3. same \in SUBSET Nat
    BY DEF same
  <2>4. same = Nat
    BY <2>1, <2>2, <2>3, SetInduction
  <2> QED BY <2>4 DEF same
<1>4. f \in [Nat -> S]
  <2>1. \A n \in Nat : G(n)[n] \in S
    <3> HIDE DEF G
    <3> QED BY <1>2
  <2> HIDE DEF G
  <2> QED BY <2>1
<1>5. f[0] = first
  <2> HIDE DEF G
  <2> QED BY <1>2
<1>6. ASSUME NEW n \in Nat PROVE f[n + 1] = step[n][f[n]]
  <2>0. n + 1 \in Nat /\ n \in 0 .. (n + 1) - 1
    OBVIOUS
  <2> HIDE DEF G
  <2>1. G(n + 1)[n + 1] = step[n][G(n + 1)[n]]
    BY <1>2, <2>0
  <2>2. f[n + 1] = G(n + 1)[n + 1] /\ f[n] = G(n)[n]
    BY <2>0
  <2> QED BY <1>3, <2>1, <2>2
<1> HIDE DEF f
<1>7. Iterates(f, S, first, step)
  BY <1>4, <1>5, <1>6 DEF Iterates
<1> QED BY <1>7
=============================================================================
