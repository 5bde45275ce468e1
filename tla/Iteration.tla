----------------------------- MODULE Iteration ------------------------------
(***************************************************************************)
(* Facts about repeating a step a bounded number of times, as the loops of *)
(* the file system and of the heap do, for the proofs about them.          *)
(***************************************************************************)
EXTENDS Integers, FiniteSets, WellFoundedInduction, FiniteSetTheorems, TLAPS

(* A set that holds 0 and, with every number, the next one holds them all. *)
LEMMA NatSet ==
  ASSUME NEW S, 0 \in S, \A n \in Nat : n \in S => n + 1 \in S
  PROVE  Nat \subseteq S
  <1> DEFINE T == Nat \ S
  <1>1. SUFFICES ASSUME T # {} PROVE FALSE
    OBVIOUS
  <1>2. PICK x \in T : \A y \in T : ~ (<<y, x>> \in OpToRel(<, Nat))
    <2> HIDE DEF T
    <2>1. T \subseteq Nat /\ T # {}
      BY <1>1 DEF T
    <2>2. QED
      BY <2>1, NatLessThanWellFounded, WFMin
  <1>3. \A y \in T : ~(y < x)
    BY <1>2 DEF OpToRel
  <1>4. x \in Nat /\ x # 0 /\ x \notin S
    OBVIOUS
  <1>5. x - 1 \in Nat /\ (x - 1) + 1 = x
    BY <1>4
  <1>6. x - 1 \notin S
    BY <1>4, <1>5
  <1>7. QED
    BY <1>3, <1>5, <1>6

(* A set of numbers that is not empty has a least one.                     *)
LEMMA LeastNat ==
  ASSUME NEW S \in SUBSET Nat, S # {}
  PROVE  \E x \in S : \A y \in S : x <= y
  <1>1. PICK x \in S : \A y \in S : ~ (<<y, x>> \in OpToRel(<, Nat))
    BY NatLessThanWellFounded, WFMin
  <1>2. \A y \in S : ~(y < x)
    BY <1>1 DEF OpToRel
  <1>3. QED
    BY <1>2

(* G leads from each value in A to the next, at each of N steps.           *)
StepOn(G, N, A) == G \in [(1 .. N) \X A -> A]

(* u holds the values from a on.                                           *)
RunOf(u, G, N, A, a) ==
  u \in [0 .. N -> A] /\ u[0] = a /\ \A n \in 1 .. N : u[n] = G[<<n, u[n - 1]>>]

(* Steps can be repeated.                                                  *)
LEMMA Runs ==
  ASSUME NEW N \in Nat, NEW A, NEW a \in A, NEW G, StepOn(G, N, A)
  PROVE  \E u : RunOf(u, G, N, A, a)
  <1> SUFFICES \E u \in [0 .. N -> A] :
                  u[0] = a /\ \A n \in 1 .. N : u[n] = G[<<n, u[n - 1]>>]
    BY DEF RunOf
  <1> G \in [(1 .. N) \X A -> A]
    BY DEF StepOn
  <1> DEFINE Run(u, k) == u[0] = a /\ \A n \in 1 .. k : u[n] = G[<<n, u[n - 1]>>]
             S == {k \in Nat : k <= N => \E u \in [0 .. k -> A] : Run(u, k)}
  <1>1. 0 \in S
    <2>1. [n \in 0 .. 0 |-> a] \in [0 .. 0 -> A] /\ Run([n \in 0 .. 0 |-> a], 0)
      OBVIOUS
    <2>2. QED
      BY <2>1
  <1>2. ASSUME NEW k \in Nat, k \in S
        PROVE  k + 1 \in S
    <2> SUFFICES ASSUME k + 1 <= N
                 PROVE  \E u \in [0 .. k + 1 -> A] : Run(u, k + 1)
      OBVIOUS
    <2>1. PICK u \in [0 .. k -> A] : Run(u, k)
      BY <1>2
    <2> DEFINE v == [n \in 0 .. k + 1 |-> IF n = k + 1 THEN G[<<n, u[k]>>] ELSE u[n]]
    <2>2. \A n \in 0 .. k : v[n] = u[n]
      OBVIOUS
    <2>3. v[k + 1] = G[<<k + 1, u[k]>>] /\ v[k + 1] \in A
      <3>1. u[k] \in A /\ <<k + 1, u[k]>> \in (1 .. N) \X A
        OBVIOUS
      <3>2. QED
        BY <3>1
    <2>4. v \in [0 .. k + 1 -> A]
      <3>1. \A n \in 0 .. k + 1 : v[n] \in A
        BY <2>2, <2>3
      <3>2. QED
        BY <3>1
    <2>5. Run(v, k + 1)
      <3>1. v[0] = a
        BY <2>1, <2>2
      <3>2. ASSUME NEW n \in 1 .. k + 1
            PROVE  v[n] = G[<<n, v[n - 1]>>]
        <4>1. CASE n = k + 1
          <5>1. n - 1 = k /\ v[k] = u[k]
            BY <4>1, <2>2
          <5>2. QED
            BY <2>3, <4>1, <5>1
        <4>2. CASE n # k + 1
          <5>1. n \in 1 .. k /\ n \in 0 .. k /\ n - 1 \in 0 .. k
            BY <4>2
          <5>2. QED
            BY <2>1, <2>2, <5>1
        <4>3. QED
          BY <4>1, <4>2
      <3>3. QED
        BY <3>1, <3>2
    <2>6. QED
      BY <2>4, <2>5
  <1>3. N \in S
    <2> HIDE DEF S
    <2>1. QED
      BY <1>1, <1>2, NatSet
  <1>4. QED
    BY <1>3

(* What starts the same and goes on the same is the same.                  *)
LEMMA SameRun ==
  ASSUME NEW N \in Nat, NEW u, NEW w, u[0] = w[0],
         \A n \in 1 .. N : u[n - 1] = w[n - 1] => u[n] = w[n]
  PROVE  \A n \in 0 .. N : w[n] = u[n]
  <1> DEFINE S == {k \in Nat : k <= N => w[k] = u[k]}
  <1>1. 0 \in S
    OBVIOUS
  <1>2. ASSUME NEW k \in Nat, k \in S
        PROVE  k + 1 \in S
    <2>1. SUFFICES ASSUME k + 1 <= N PROVE w[k + 1] = u[k + 1]
      OBVIOUS
    <2>2. k + 1 \in 1 .. N /\ (k + 1) - 1 = k /\ w[k] = u[k]
      BY <1>2, <2>1
    <2>3. QED
      BY <2>2
  <1>3. Nat \subseteq S
    <2> HIDE DEF S
    <2>1. QED
      BY <1>1, <1>2, NatSet
  <1>4. QED
    BY <1>3

(* A set that grows at every step but the last ones has stopped growing    *)
(* after as many steps as there is room for.                               *)

(* A set that grows at every step but the last ones has stopped growing    *)
(* after as many steps as there is room for.                               *)
LEMMA Saturates ==
  ASSUME NEW N \in Nat, NEW A, IsFiniteSet(A), Cardinality(A) <= N,
         NEW P, NEW G \in [P -> P], \A X \in P : X \subseteq A /\ X \subseteq G[X],
         NEW u \in [0 .. N -> P], u[0] # {},
         \A n \in 1 .. N : u[n] = G[u[n - 1]]
  PROVE  G[u[N]] = u[N]
  <1> DEFINE S == {k \in Nat : k <= N => G[u[k]] = u[k] \/ k + 1 <= Cardinality(u[k])}
  <1>1. \A X \in SUBSET A : IsFiniteSet(X) /\ Cardinality(X) \in Nat /\ Cardinality(X) <= N
    <2> SUFFICES ASSUME NEW X \in SUBSET A
                 PROVE  IsFiniteSet(X) /\ Cardinality(X) \in Nat /\ Cardinality(X) <= N
      OBVIOUS
    <2>1. IsFiniteSet(X) /\ Cardinality(X) <= Cardinality(A)
      BY FS_Subset
    <2>2. Cardinality(X) \in Nat /\ Cardinality(A) \in Nat
      BY <2>1, FS_CardinalityType
    <2>3. QED
      BY <2>1, <2>2
  <1>2. 0 \in S
    <2>1. Cardinality(u[0]) # 0
      BY <1>1, FS_EmptySet
    <2>2. QED
      BY <1>1, <2>1
  <1>3. ASSUME NEW k \in Nat, k \in S
        PROVE  k + 1 \in S
    <2> SUFFICES ASSUME k + 1 <= N
                 PROVE  G[u[k + 1]] = u[k + 1] \/ (k + 1) + 1 <= Cardinality(u[k + 1])
      OBVIOUS
    <2>1. /\ u[k + 1] = G[u[k]] /\ u[k] \in SUBSET A /\ u[k + 1] \in SUBSET A
          /\ u[k] \in P
      <3>1. k + 1 \in 1 .. N /\ (k + 1) - 1 = k /\ k \in 0 .. N
        OBVIOUS
      <3>2. QED
        BY <3>1
    <2>2. CASE G[u[k]] = u[k]
      BY <2>1, <2>2
    <2>3. CASE G[u[k]] # u[k]
      <3>1. k + 1 <= Cardinality(u[k])
        BY <1>3, <2>3
      <3>2. u[k] \in SUBSET u[k + 1] /\ u[k] # u[k + 1]
        BY <2>1, <2>3
      <3>3. Cardinality(u[k]) <= Cardinality(u[k + 1]) /\ Cardinality(u[k]) # Cardinality(u[k + 1])
        BY <1>1, <2>1, <3>2, FS_Subset
      <3>4. Cardinality(u[k]) \in Nat /\ Cardinality(u[k + 1]) \in Nat
        BY <1>1, <2>1
      <3>5. QED
        BY <3>1, <3>3, <3>4
    <2>4. QED
      BY <2>2, <2>3
  <1>4. N \in S
    <2> HIDE DEF S
    <2>1. QED
      BY <1>2, <1>3, NatSet
  <1>5. Cardinality(u[N]) \in Nat /\ Cardinality(u[N]) <= N
    BY <1>1
  <1>6. QED
    BY <1>4, <1>5

(* A walk through N places cannot go on for N steps: it comes back to a    *)
(* place, and a set of places is left by no step.                          *)
LEMMA WalkEnds ==
  ASSUME NEW N \in Nat, NEW A, IsFiniteSet(A), Cardinality(A) <= N,
         NEW D \in SUBSET A, NEW u \in [0 .. N -> A],
         NEW g \in [D -> A],
         \A n \in 1 .. N : u[n] = IF u[n - 1] \in D THEN g[u[n - 1]] ELSE u[n - 1],
         \A X \in SUBSET D : (\A x \in X : g[x] \in X) => X = {}
  PROVE  u[N] \notin D
  <1>1. SUFFICES ASSUME u[N] \in D PROVE FALSE
    OBVIOUS
  <1> DEFINE S == {k \in Nat : k <= N => u[N - k] \in D}
  <1>2. \A n \in 0 .. N : u[n] \in D
    <2>1. 0 \in S
      BY <1>1
    <2>2. ASSUME NEW k \in Nat, k \in S
          PROVE  k + 1 \in S
      <3>1. SUFFICES ASSUME k + 1 <= N PROVE u[N - (k + 1)] \in D
        OBVIOUS
      <3>2. /\ N - k \in 1 .. N /\ (N - k) - 1 = N - (k + 1)
            /\ u[N - k] \in D
        BY <2>2, <3>1
      <3>3. QED
        BY <3>2
    <2>3. Nat \subseteq S
      <3> HIDE DEF S
      <3>1. QED
        BY <2>1, <2>2, NatSet
    <2>4. ASSUME NEW n \in 0 .. N
          PROVE  u[n] \in D
      <3>1. N - n \in Nat /\ N - n <= N /\ N - (N - n) = n
        OBVIOUS
      <3>2. N - n \in S
        BY <2>3, <3>1
      <3>3. QED
        BY <3>1, <3>2
    <2>5. QED
      BY <2>4
  <1>3. \E i, j \in 0 .. N : i # j /\ u[i] = u[j]
    <2>1. IsFiniteSet(0 .. N) /\ Cardinality(0 .. N) = N + 1
      BY FS_Interval
    <2>2. Cardinality(A) \in Nat
      BY FS_CardinalityType
    <2>3. Cardinality(A) < Cardinality(0 .. N)
      BY <2>1, <2>2
    <2>4. QED
      BY <2>1, <2>3, FS_PigeonHole
  <1>4. PICK i \in 0 .. N, j \in 0 .. N : i < j /\ u[i] = u[j]
    BY <1>3
  <1> DEFINE X == {u[k] : k \in i .. j - 1}
  <1>5. X \in SUBSET D /\ X # {}
    <2>1. \A k \in i .. j - 1 : k \in 0 .. N
      BY <1>4
    <2>2. i \in i .. j - 1
      BY <1>4
    <2>3. QED
      BY <1>2, <2>1, <2>2
  <1>6. \A x \in X : g[x] \in X
    <2> SUFFICES ASSUME NEW k \in i .. j - 1 PROVE g[u[k]] \in X
      OBVIOUS
    <2>1. k + 1 \in 1 .. N /\ (k + 1) - 1 = k /\ k \in 0 .. N
      BY <1>4
    <2>2. u[k + 1] = g[u[k]]
      BY <1>2, <2>1
    <2>3. CASE k + 1 = j
      <3>1. g[u[k]] = u[i] /\ i \in i .. j - 1
        BY <1>4, <2>2, <2>3
      <3>2. QED
        BY <3>1
    <2>4. CASE k + 1 # j
      <3>1. k + 1 \in i .. j - 1
        BY <2>4
      <3>2. QED
        BY <2>2, <3>1
    <2>5. QED
      BY <2>3, <2>4
  <1>7. QED
    <2> HIDE DEF X
    <2>1. QED
      BY <1>5, <1>6
=============================================================================
