------------------------------ MODULE CommonProofs ------------------------------
(***************************************************************************)
(* The laws of sums and of the queue of events, which the proofs share.    *)
(***************************************************************************)
EXTENDS Sums, EventQueue, FiniteSetTheorems, SequenceTheorems, NaturalsInduction,
        WellFoundedInduction, TLAPS

--------------------------------------------------------------------------------
(* Sums.  What a recursive function is cannot be taken from its definition *)
(* before a function with those values is known to exist; it is built here *)
(* from its finite parts.                                                  *)

LEMMA LeastExists ==
    ASSUME NEW S \in SUBSET Nat, S # {}
    PROVE  \E m \in S : \A y \in S : m <= y
  <1>1. PICK m \in S : \A y \in S : ~(<<y, m>> \in OpToRel(<, Nat))
    BY NatLessThanWellFounded, WFMin
  <1>2. \A y \in S : ~(y < m)
    <2> SUFFICES ASSUME NEW y \in S PROVE ~(y < m)
      OBVIOUS
    <2>1. y \in Nat /\ m \in Nat
      OBVIOUS
    <2> QED BY <1>1, <2>1 DEF OpToRel
  <1>3. \A y \in S : m <= y
    BY <1>2
  <1> QED BY <1>3

SumsTo(p, w, n) ==
    p \in [0..n -> Int] /\ p[0] = 0 /\ \A i \in 0..(n - 1) : p[i + 1] = p[i] + w[i]

LEMMA SumsOfLength ==
    ASSUME NEW w \in [Nat -> Int]
    PROVE  \A n \in Nat : \E p : SumsTo(p, w, n)
  <1> DEFINE S == {n \in Nat : ~\E p : SumsTo(p, w, n)}
  <1> SUFFICES ASSUME S # {} PROVE FALSE
    OBVIOUS
  <1>1. PICK m \in S : \A y \in S : m <= y
    BY LeastExists
  <1>2. m \in Nat /\ ~\E p : SumsTo(p, w, m)
    OBVIOUS
  <1>3. m # 0
    <2> DEFINE p == [i \in 0..0 |-> 0]
    <2>1. SumsTo(p, w, 0)
      BY DEF SumsTo
    <2> QED BY <1>2, <2>1
  <1>4. m - 1 \in Nat /\ ~(m <= m - 1)
    BY <1>2, <1>3
  <1>5. PICK q : SumsTo(q, w, m - 1)
    BY <1>1, <1>4
  <1> DEFINE p == [i \in 0..m |-> IF i = m THEN q[m - 1] + w[m - 1] ELSE q[i]]
  <1>6. SumsTo(p, w, m)
    <2>1. q \in [0..(m - 1) -> Int] /\ q[0] = 0 /\ m - 1 \in 0..(m - 1)
      BY <1>4, <1>5 DEF SumsTo
    <2>2. p \in [0..m -> Int]
      BY <1>2, <1>4, <2>1
    <2>3. p[0] = 0
      BY <1>2, <1>3, <2>1
    <2>4. ASSUME NEW i \in 0..(m - 1) PROVE p[i + 1] = p[i] + w[i]
      <3>1. i \in Nat /\ i \in 0..m /\ i + 1 \in 0..m /\ i # m
        BY <1>2, <1>4
      <3>2. CASE i = m - 1
        BY <1>2, <3>1, <3>2
      <3>3. CASE i # m - 1
        <4>1. i \in 0..((m - 1) - 1) /\ i + 1 # m
          BY <1>2, <1>4, <3>1, <3>3
        <4>2. q[i + 1] = q[i] + w[i]
          BY <1>5, <4>1 DEF SumsTo
        <4> QED BY <3>1, <4>1, <4>2
      <3> QED BY <3>2, <3>3
    <2> HIDE DEF p
    <2> QED BY <2>2, <2>3, <2>4 DEF SumsTo
  <1> QED BY <1>2, <1>6

LEMMA SumsAgree ==
    ASSUME NEW w \in [Nat -> Int], NEW n \in Nat, NEW p, NEW q,
           SumsTo(p, w, n), SumsTo(q, w, n + 1)
    PROVE  p[n] = q[n]
  <1> DEFINE S == {i \in 0..n : p[i] # q[i]}
  <1>1. S \in SUBSET Nat
    OBVIOUS
  <1> SUFFICES ASSUME S # {} PROVE FALSE
    OBVIOUS
  <1>2. PICK m \in S : \A y \in S : m <= y
    BY <1>1, LeastExists
  <1>3. m \in Nat /\ m <= n /\ p[m] # q[m]
    OBVIOUS
  <1>4. m # 0
    BY <1>3 DEF SumsTo
  <1>5. m - 1 \in 0..n /\ m - 1 \in 0..(n - 1) /\ m - 1 \in 0..((n + 1) - 1) /\ ~(m <= m - 1)
    BY <1>3, <1>4
  <1>6. p[m - 1] = q[m - 1]
    BY <1>2, <1>5
  <1>7. p[(m - 1) + 1] = p[m - 1] + w[m - 1] /\ q[(m - 1) + 1] = q[m - 1] + w[m - 1]
    BY <1>5 DEF SumsTo
  <1>8. (m - 1) + 1 = m
    BY <1>3
  <1> QED BY <1>3, <1>6, <1>7, <1>8

LEMMA PartialSumsStep ==
    ASSUME NEW w \in [Nat -> Int]
    PROVE  /\ PartialSums(w) \in [Nat -> Int]
           /\ PartialSums(w)[0] = 0
           /\ \A n \in Nat : PartialSums(w)[n + 1] = PartialSums(w)[n] + w[n]
  <1> DEFINE part == [n \in Nat |-> CHOOSE p : SumsTo(p, w, n)]
             P == [n \in Nat |-> part[n][n]]
  <1>1. \A n \in Nat : SumsTo(part[n], w, n)
    BY SumsOfLength
  <1> HIDE DEF part
  <1>2. P \in [Nat -> Int] /\ P[0] = 0
    BY <1>1 DEF SumsTo
  <1>3. ASSUME NEW n \in Nat PROVE P[n + 1] = P[n] + w[n]
    <2>1. n + 1 \in Nat /\ n \in 0..((n + 1) - 1)
      OBVIOUS
    <2>2. part[n + 1][n + 1] = part[n + 1][n] + w[n]
      BY <1>1, <2>1 DEF SumsTo
    <2>3. SumsTo(part[n], w, n) /\ SumsTo(part[n + 1], w, n + 1)
      BY <1>1, <2>1
    <2>4. part[n][n] = part[n + 1][n]
      BY <2>3, SumsAgree
    <2> QED BY <2>1, <2>2, <2>4
  <1> HIDE DEF P
  <1>4. P = [n \in Nat |-> IF n = 0 THEN 0 ELSE P[n - 1] + w[n - 1]]
    <2>1. ASSUME NEW n \in Nat PROVE P[n] = IF n = 0 THEN 0 ELSE P[n - 1] + w[n - 1]
      <3>1. CASE n = 0
        BY <1>2, <3>1
      <3>2. CASE n # 0
        <4>1. n - 1 \in Nat /\ (n - 1) + 1 = n
          BY <3>2
        <4> QED BY <1>3, <3>2, <4>1
      <3> QED BY <3>1, <3>2
    <2> QED BY <1>2, <2>1
  <1>5. PartialSums(w) = [n \in Nat |-> IF n = 0 THEN 0
                                         ELSE PartialSums(w)[n - 1] + w[n - 1]]
    BY <1>4 DEF PartialSums
  <1> DEFINE Q == PartialSums(w)
  <1> HIDE DEF Q
  <1>6. Q = [n \in Nat |-> IF n = 0 THEN 0 ELSE Q[n - 1] + w[n - 1]]
    BY <1>5 DEF Q
  <1>7. Q[0] = 0
    BY <1>6
  <1>8. \A n \in Nat : Q[n + 1] = Q[n] + w[n]
    BY <1>6
  <1>9. \A n \in Nat : Q[n] = P[n]
    <2> DEFINE S == {n \in Nat : Q[n] # P[n]}
    <2> SUFFICES ASSUME S # {} PROVE FALSE
      OBVIOUS
    <2>1. PICK m \in S : \A y \in S : m <= y
      BY LeastExists
    <2>2. m \in Nat /\ Q[m] # P[m]
      OBVIOUS
    <2>3. m # 0
      BY <1>2, <1>7, <2>2
    <2>4. m - 1 \in Nat /\ (m - 1) + 1 = m /\ ~(m <= m - 1)
      BY <2>2, <2>3
    <2>5. Q[m - 1] = P[m - 1]
      BY <2>1, <2>4
    <2> QED BY <1>3, <1>8, <2>2, <2>4, <2>5
  <1>10. Q \in [Nat -> Int]
    BY <1>2, <1>6, <1>9
  <1> QED BY <1>7, <1>8, <1>10 DEF Q

(* Sums over the same numbers are the same.                                *)
LEMMA SumsSame ==
    ASSUME NEW v \in [Nat -> Int], NEW w \in [Nat -> Int], NEW n \in Nat,
           \A i \in 0..(n - 1) : v[i] = w[i]
    PROVE  PartialSums(v)[n] = PartialSums(w)[n]
  <1> DEFINE S == {k \in Nat : k <= n /\ PartialSums(v)[k] # PartialSums(w)[k]}
  <1> SUFFICES ASSUME S # {} PROVE FALSE
    OBVIOUS
  <1>1. PICK m \in S : \A y \in S : m <= y
    BY LeastExists
  <1>2. m \in Nat /\ m <= n /\ PartialSums(v)[m] # PartialSums(w)[m]
    OBVIOUS
  <1>3. m # 0
    BY <1>2, PartialSumsStep
  <1>4. m - 1 \in Nat /\ (m - 1) + 1 = m /\ m - 1 \in 0..(n - 1) /\ ~(m <= m - 1) /\ m - 1 <= n
    BY <1>2, <1>3
  <1>5. PartialSums(v)[m - 1] = PartialSums(w)[m - 1]
    BY <1>1, <1>4
  <1>6. /\ PartialSums(v)[(m - 1) + 1] = PartialSums(v)[m - 1] + v[m - 1]
        /\ PartialSums(w)[(m - 1) + 1] = PartialSums(w)[m - 1] + w[m - 1]
    BY <1>4, PartialSumsStep
  <1> QED BY <1>2, <1>4, <1>5, <1>6

(* A sum changes by as much as one of its numbers.                         *)
LEMMA SumsMove ==
    ASSUME NEW v \in [Nat -> Int], NEW w \in [Nat -> Int], NEW n \in Nat, NEW i \in Nat,
           i < n, \A j \in Nat : j # i => v[j] = w[j]
    PROVE  PartialSums(w)[n] = PartialSums(v)[n] + (w[i] - v[i])
  <1> DEFINE V == PartialSums(v)
             W == PartialSums(w)
             S == {k \in Nat : i < k /\ W[k] # V[k] + (w[i] - v[i])}
  <1>1. V[i] = W[i]
    BY SumsSame
  <1>2. /\ V \in [Nat -> Int] /\ W \in [Nat -> Int]
        /\ \A k \in Nat : V[k + 1] = V[k] + v[k]
        /\ \A k \in Nat : W[k + 1] = W[k] + w[k]
    BY PartialSumsStep
  <1> HIDE DEF V, W
  <1>3. S = {}
    <2> SUFFICES ASSUME S # {} PROVE FALSE
      OBVIOUS
    <2>1. PICK m \in S : \A y \in S : m <= y
      BY LeastExists
    <2>2. m \in Nat /\ i < m /\ W[m] # V[m] + (w[i] - v[i])
      OBVIOUS
    <2>3. m - 1 \in Nat /\ (m - 1) + 1 = m /\ ~(m <= m - 1) /\ i <= m - 1
      BY <2>2
    <2>4. /\ V[m] = V[m - 1] + v[m - 1] /\ W[m] = W[m - 1] + w[m - 1]
          /\ V[m - 1] \in Int /\ W[m - 1] \in Int
          /\ v[m - 1] \in Int /\ w[m - 1] \in Int /\ v[i] \in Int /\ w[i] \in Int
      BY <1>2, <2>3
    <2>5. CASE m - 1 = i
      BY <1>1, <2>2, <2>4, <2>5
    <2>6. CASE m - 1 # i
      <3>1. W[m - 1] = V[m - 1] + (w[i] - v[i])
        BY <2>1, <2>3, <2>6
      <3>2. v[m - 1] = w[m - 1]
        BY <2>3, <2>6
      <3> QED BY <2>2, <2>4, <3>1, <3>2
    <2> QED BY <2>5, <2>6
  <1> QED BY <1>3 DEF V, W

LEMMA SumsOfZero ==
    ASSUME NEW w \in [Nat -> Int], NEW n \in Nat, \A i \in Nat : i < n => w[i] = 0
    PROVE  PartialSums(w)[n] = 0
  <1> DEFINE z == [i \in Nat |-> 0]
  <1>1. z \in [Nat -> Int]
    OBVIOUS
  <1>2. PartialSums(w)[n] = PartialSums(z)[n]
    BY <1>1, SumsSame
  <1> DEFINE Z == PartialSums(z)
             S == {k \in Nat : Z[k] # 0}
  <1>3. Z[0] = 0 /\ \A k \in Nat : Z[k + 1] = Z[k] + z[k]
    BY <1>1, PartialSumsStep
  <1> HIDE DEF Z
  <1>4. S = {}
    <2> SUFFICES ASSUME S # {} PROVE FALSE
      OBVIOUS
    <2>1. PICK m \in S : \A y \in S : m <= y
      BY LeastExists
    <2>2. m \in Nat /\ Z[m] # 0
      OBVIOUS
    <2>3. m - 1 \in Nat /\ (m - 1) + 1 = m /\ ~(m <= m - 1)
      BY <1>3, <2>2
    <2>4. Z[m - 1] = 0 /\ z[m - 1] = 0
      BY <2>1, <2>3
    <2> QED BY <1>3, <2>2, <2>3, <2>4
  <1> QED BY <1>2, <1>4 DEF Z

(* Sums of sums.                                                           *)
LEMMA SumsAdd ==
    ASSUME NEW u \in [Nat -> Int], NEW v \in [Nat -> Int], NEW w \in [Nat -> Int],
           \A i \in Nat : u[i] = v[i] + w[i], NEW n \in Nat
    PROVE  PartialSums(u)[n] = PartialSums(v)[n] + PartialSums(w)[n]
  <1> DEFINE U == PartialSums(u)
             V == PartialSums(v)
             W == PartialSums(w)
             S == {k \in Nat : U[k] # V[k] + W[k]}
  <1>1. /\ U \in [Nat -> Int] /\ U[0] = 0 /\ \A k \in Nat : U[k + 1] = U[k] + u[k]
        /\ V \in [Nat -> Int] /\ V[0] = 0 /\ \A k \in Nat : V[k + 1] = V[k] + v[k]
        /\ W \in [Nat -> Int] /\ W[0] = 0 /\ \A k \in Nat : W[k + 1] = W[k] + w[k]
    BY PartialSumsStep
  <1> HIDE DEF U, V, W
  <1> SUFFICES ASSUME S # {} PROVE FALSE
    BY DEF U, V, W
  <1>2. PICK m \in S : \A y \in S : m <= y
    BY LeastExists
  <1>3. m \in Nat /\ U[m] # V[m] + W[m]
    OBVIOUS
  <1>4. m # 0
    BY <1>1, <1>3
  <1>5. m - 1 \in Nat /\ ~(m <= m - 1) /\ (m - 1) + 1 = m
    BY <1>3, <1>4
  <1>6. U[m - 1] = V[m - 1] + W[m - 1]
    BY <1>2, <1>5
  <1>7. /\ U[m] = U[m - 1] + u[m - 1] /\ V[m] = V[m - 1] + v[m - 1] /\ W[m] = W[m - 1] + w[m - 1]
        /\ u[m - 1] = v[m - 1] + w[m - 1]
    BY <1>1, <1>5
  <1>8. /\ U[m - 1] \in Int /\ V[m - 1] \in Int /\ W[m - 1] \in Int
        /\ u[m - 1] \in Int /\ v[m - 1] \in Int /\ w[m - 1] \in Int
    BY <1>1, <1>5
  <1> QED BY <1>3, <1>6, <1>7, <1>8

--------------------------------------------------------------------------------
(* The queue of events.  Its order puts every event in one place, and      *)
(* keeps those apart that it tells apart.                                  *)

Timed(q) == \A i \in DOMAIN q : q[i].time \in Int

LEMMA RankTyped ==
    ASSUME NEW q, NEW n \in Nat, DOMAIN q = 1..n, Timed(q), NEW i \in 1..n
    PROVE  /\ Rank(q, i) \in 1..n
           /\ \A j \in 1..n : TakenFirst(q, i, j) => Rank(q, i) < Rank(q, j)
  <1> DEFINE B(k) == {j \in 1..n : j = k \/ TakenFirst(q, j, k)}
  <1>1. IsFiniteSet(1..n) /\ Cardinality(1..n) = n
    BY FS_Interval
  <1>2. \A k \in 1..n : IsFiniteSet(B(k)) /\ Cardinality(B(k)) \in Nat /\ Cardinality(B(k)) <= n
    <2> TAKE k \in 1..n
    <2>1. B(k) \in SUBSET (1..n)
      OBVIOUS
    <2> HIDE DEF B
    <2> QED BY <1>1, <2>1, FS_Subset, FS_CardinalityType
  <1>3. Cardinality(B(i)) # 0
    <2>1. i \in B(i)
      OBVIOUS
    <2> HIDE DEF B
    <2> QED BY <1>2, <2>1, FS_EmptySet
  <1>4. ASSUME NEW j \in 1..n, TakenFirst(q, i, j) PROVE Cardinality(B(i)) < Cardinality(B(j))
    <2>0. \A k \in 1..n : q[k].time \in Int
      BY DEF Timed
    <2>1. B(i) \subseteq B(j)
      <3> SUFFICES ASSUME NEW k \in B(i) PROVE k \in B(j)
        OBVIOUS
      <3>1. k \in 1..n /\ (k = i \/ TakenFirst(q, k, i))
        OBVIOUS
      <3>2. TakenFirst(q, k, j)
        BY <1>4, <2>0, <3>1 DEF TakenFirst
      <3> QED BY <3>1, <3>2
    <2>2. j \in B(j)
      OBVIOUS
    <2>3. j \notin B(i)
      <3>1. ~TakenFirst(q, j, i) /\ j # i
        BY <1>4, <2>0 DEF TakenFirst
      <3> QED BY <3>1
    <2> HIDE DEF B
    <2>4. B(i) \in SUBSET B(j) /\ B(i) # B(j)
      BY <2>1, <2>2, <2>3
    <2>5. Cardinality(B(i)) <= Cardinality(B(j)) /\ Cardinality(B(j)) # Cardinality(B(i))
      BY <1>2, <2>4, FS_Subset
    <2> QED BY <1>2, <2>5
  <1>5. \A k \in 1..n : Rank(q, k) = Cardinality(B(k))
    BY DEF Rank
  <1> HIDE DEF B
  <1> QED BY <1>2, <1>3, <1>4, <1>5

(* Where the events of q are in r.                                         *)
Reorders(q, r, pos) ==
    /\ pos \in [DOMAIN q -> DOMAIN r]
    /\ \A i \in DOMAIN q : r[pos[i]] = q[i]
    /\ \A n \in DOMAIN r : \E i \in DOMAIN q : pos[i] = n
    /\ \A i, j \in DOMAIN q : TakenFirst(q, i, j) => pos[i] < pos[j]

LEMMA OrderMoves ==
    ASSUME NEW S, NEW q \in Seq(S), Timed(q)
    PROVE  LET r == InOrderOfTime(q)
           IN  /\ r \in Seq(S) /\ Len(r) = Len(q)
               /\ \E pos : Reorders(q, r, pos)
               /\ \A m, n \in DOMAIN r : m < n => r[m].time <= r[n].time
  <1> DEFINE N == Len(q)
             rank == [i \in 1..N |-> Rank(q, i)]
             r == InOrderOfTime(q)
  <1>1. N \in Nat /\ DOMAIN q = 1..N
    OBVIOUS
  <1>2. /\ rank \in [1..N -> 1..N]
        /\ \A i, j \in 1..N : TakenFirst(q, i, j) => rank[i] < rank[j]
    BY <1>1, RankTyped
  <1>3. r = [n \in 1..N |-> q[CHOOSE i \in 1..N : rank[i] = n]]
    BY <1>1 DEF InOrderOfTime
  <1>0. \A k \in 1..N : q[k].time \in Int
    BY <1>1 DEF Timed
  <1> HIDE DEF N, rank, r
  <1>4. \A i, j \in 1..N : i # j => TakenFirst(q, i, j) \/ TakenFirst(q, j, i)
    BY <1>0, <1>1 DEF TakenFirst
  <1>5. \A i, j \in 1..N : i # j => rank[i] # rank[j]
    <2> TAKE i, j \in 1..N
    <2>1. rank[i] \in Int /\ rank[j] \in Int
      BY <1>1, <1>2
    <2> QED BY <1>2, <1>4, <2>1
  <1>6. \A n \in 1..N : \E i \in 1..N : rank[i] = n
    <2>1. rank \in Injection(1..N, 1..N)
      BY <1>2, <1>5 DEF Injection, IsInjective
    <2>2. IsFiniteSet(1..N)
      BY <1>1, FS_Interval
    <2>3. rank \in Surjection(1..N, 1..N)
      BY <2>1, <2>2, FS_Injection
    <2> QED BY <2>3 DEF Surjection
  <1>7. \A i \in 1..N : r[rank[i]] = q[i]
    <2> TAKE i \in 1..N
    <2>1. rank[i] \in 1..N
      BY <1>2
    <2>2. (CHOOSE k \in 1..N : rank[k] = rank[i]) = i
      BY <1>5
    <2> QED BY <1>3, <2>1, <2>2
  <1>8. DOMAIN r = 1..N
    BY <1>3
  <1>9. Reorders(q, r, rank)
    BY <1>1, <1>2, <1>6, <1>7, <1>8 DEF Reorders
  <1>10. r \in Seq(S) /\ Len(r) = Len(q)
    <2>1. \A n \in 1..N : r[n] \in S
      <3> TAKE n \in 1..N
      <3>1. PICK i \in 1..N : rank[i] = n
        BY <1>6
      <3>2. q[i] \in S
        BY <1>1
      <3> QED BY <1>7, <3>1, <3>2
    <2>2. r \in [1..N -> S]
      BY <1>3, <2>1
    <2> QED BY <1>1, <2>2, <1>8 DEF N
  <1>11. ASSUME NEW m \in DOMAIN r, NEW n \in DOMAIN r, m < n PROVE r[m].time <= r[n].time
    <2>1. m \in 1..N /\ n \in 1..N
      BY <1>8
    <2>2. PICK i \in 1..N : rank[i] = m
      BY <1>6, <2>1
    <2>3. PICK j \in 1..N : rank[j] = n
      BY <1>6, <2>1
    <2>4. ~(n < m) /\ i # j
      BY <1>1, <1>11, <2>1, <2>2, <2>3
    <2>5. ~TakenFirst(q, j, i)
      BY <1>2, <2>2, <2>3, <2>4
    <2>6. q[i].time <= q[j].time
      BY <1>0, <2>5 DEF TakenFirst
    <2> QED BY <1>7, <2>2, <2>3, <2>6
  <1> QED BY <1>9, <1>10, <1>11 DEF r
(* The queue r holds old, in its order, and new: events of new come after  *)
(* what is not later than they are.                                        *)
Merged(r, old, new, a, b) ==
    /\ a \in [DOMAIN old -> DOMAIN r] /\ b \in [DOMAIN new -> DOMAIN r]
    /\ \A i \in DOMAIN old : r[a[i]] = old[i]
    /\ \A j \in DOMAIN new : r[b[j]] = new[j]
    /\ \A n \in DOMAIN r : (\E i \in DOMAIN old : a[i] = n) \/ (\E j \in DOMAIN new : b[j] = n)
    /\ \A i, k \in DOMAIN old : i < k => a[i] < a[k]
    /\ \A i \in DOMAIN old, j \in DOMAIN new :
        a[i] # b[j] /\ (old[i].time <= new[j].time => a[i] < b[j])
    /\ \A j, k \in DOMAIN new :
        j < k => b[j] # b[k] /\ (new[j].time <= new[k].time => b[j] < b[k])

Sorted(q) == \A i, j \in DOMAIN q : i < j => q[i].time <= q[j].time

LEMMA ScheduleMerges ==
    ASSUME NEW S, NEW old \in Seq(S), NEW new \in Seq(S), Timed(old), Timed(new), Sorted(old)
    PROVE  LET r == ScheduleAll(old, new)
           IN  /\ r \in Seq(S) /\ Len(r) = Len(old) + Len(new) /\ Timed(r) /\ Sorted(r)
               /\ \E a, b : Merged(r, old, new, a, b)
  <1> DEFINE q == old \o new
             r == ScheduleAll(old, new)
             M == Len(old)
             N == Len(new)
  <1>1. /\ M \in Nat /\ N \in Nat /\ DOMAIN old = 1..M /\ DOMAIN new = 1..N
        /\ q \in Seq(S) /\ Len(q) = M + N /\ DOMAIN q = 1..(M + N)
        /\ \A i \in 1..M : i \in 1..(M + N) /\ q[i] = old[i]
        /\ \A j \in 1..N : M + j \in 1..(M + N) /\ q[M + j] = new[j]
    OBVIOUS
  <1>0. \A k \in 1..(M + N) : k \in 1..M \/ \E j \in 1..N : k = M + j
    <2> SUFFICES ASSUME NEW k \in 1..(M + N), k \notin 1..M PROVE \E j \in 1..N : k = M + j
      OBVIOUS
    <2>1. k - M \in 1..N /\ k = M + (k - M)
      BY <1>1
    <2> QED BY <2>1
  <1>2. r = InOrderOfTime(q)
    BY DEF ScheduleAll
  <1> HIDE DEF q, r, M, N
  <1>20. \A k \in 1..(M + N) : q[k].time \in Int
    <2> TAKE k \in 1..(M + N)
    <2>1. \A i \in 1..M : old[i].time \in Int
      BY <1>1 DEF Timed
    <2>2. \A j \in 1..N : new[j].time \in Int
      BY <1>1 DEF Timed
    <2>3. CASE k \in 1..M
      BY <1>1, <2>1, <2>3
    <2>4. CASE \E j \in 1..N : k = M + j
      BY <1>1, <2>2, <2>4
    <2> QED BY <1>0, <2>3, <2>4
  <1>3. Timed(q)
    BY <1>1, <1>20 DEF Timed
  <1>4. /\ r \in Seq(S) /\ Len(r) = M + N /\ Sorted(r)
        /\ \E pos : Reorders(q, r, pos)
    BY <1>1, <1>2, <1>3, OrderMoves DEF Sorted
  <1>5. PICK pos : Reorders(q, r, pos)
    BY <1>4
  <1>6. Timed(r)
    BY <1>1, <1>3, <1>5 DEF Reorders, Timed
  <1> DEFINE a == [i \in 1..M |-> pos[i]]
             b == [j \in 1..N |-> pos[M + j]]
  <1>7. /\ pos \in [1..(M + N) -> DOMAIN r]
        /\ \A k \in 1..(M + N) : r[pos[k]] = q[k]
        /\ \A n \in DOMAIN r : \E k \in 1..(M + N) : pos[k] = n
        /\ \A k, l \in 1..(M + N) : TakenFirst(q, k, l) => pos[k] < pos[l]
    BY <1>1, <1>5 DEF Reorders
  <1>8. \A k \in 1..(M + N) : pos[k] \in Int
    <2>1. DOMAIN r = 1..Len(r)
      BY <1>4
    <2> QED BY <1>7, <2>1
  <1>9. \A k, l \in 1..(M + N) : k < l /\ q[k].time <= q[l].time => pos[k] < pos[l]
    <2> TAKE k, l \in 1..(M + N)
    <2>1. HAVE k < l /\ q[k].time <= q[l].time
    <2>2. q[k].time \in Int /\ q[l].time \in Int
      BY <1>20
    <2>3. TakenFirst(q, k, l)
      BY <2>1, <2>2 DEF TakenFirst
    <2> QED BY <1>7, <2>3
  <1>10. \A k, l \in 1..(M + N) : k # l => pos[k] # pos[l]
    <2> TAKE k, l \in 1..(M + N)
    <2>1. k # l => TakenFirst(q, k, l) \/ TakenFirst(q, l, k)
      BY <1>20 DEF TakenFirst
    <2> QED BY <1>7, <1>8, <2>1
  <1>11. a \in [1..M -> DOMAIN r] /\ b \in [1..N -> DOMAIN r]
    BY <1>1, <1>7
  <1>12. \A i \in 1..M : a[i] = pos[i] /\ r[a[i]] = old[i]
    BY <1>1, <1>7
  <1>13. \A j \in 1..N : b[j] = pos[M + j] /\ r[b[j]] = new[j]
    BY <1>1, <1>7
  <1>14. \A n \in DOMAIN r : (\E i \in 1..M : a[i] = n) \/ (\E j \in 1..N : b[j] = n)
    <2> TAKE n \in DOMAIN r
    <2>1. PICK k \in 1..(M + N) : pos[k] = n
      BY <1>7
    <2>2. k \in 1..M \/ \E j \in 1..N : k = M + j
      BY <1>0
    <2> HIDE DEF a, b
    <2> QED BY <1>12, <1>13, <2>1, <2>2
  <1> HIDE DEF a, b
  <1>15. \A i, k \in 1..M : i < k => a[i] < a[k]
    <2> TAKE i, k \in 1..M
    <2>1. i < k => old[i].time <= old[k].time
      BY <1>1 DEF Sorted
    <2> QED BY <1>1, <1>9, <1>12, <2>1
  <1>16. \A i \in 1..M, j \in 1..N : a[i] # b[j] /\ (old[i].time <= new[j].time => a[i] < b[j])
    <2> TAKE i \in 1..M, j \in 1..N
    <2>1. i < M + j
      BY <1>1
    <2> QED BY <1>1, <1>9, <1>10, <1>12, <1>13, <2>1
  <1>17. \A j, k \in 1..N : j < k => b[j] # b[k] /\ (new[j].time <= new[k].time => b[j] < b[k])
    <2> SUFFICES ASSUME NEW j \in 1..N, NEW k \in 1..N, j < k
                 PROVE  b[j] # b[k] /\ (new[j].time <= new[k].time => b[j] < b[k])
      OBVIOUS
    <2>1. M + j < M + k /\ M + j # M + k
      BY <1>1
    <2> QED BY <1>1, <1>9, <1>10, <1>13, <2>1
  <1>18. Merged(r, old, new, a, b)
    BY <1>1, <1>11, <1>12, <1>13, <1>14, <1>15, <1>16, <1>17 DEF Merged
  <1> QED BY <1>4, <1>6, <1>18 DEF r, M, N

================================================================================
