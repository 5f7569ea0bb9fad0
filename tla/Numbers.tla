-------------------------------- MODULE Numbers --------------------------------
(***************************************************************************)
(* Lemmas about numbers that several proofs share.                          *)
(***************************************************************************)
EXTENDS Integers, FiniteSetTheorems, TLAPS

-----------------------------------------------------------------------------
(* Residues: two numbers of one residue are a whole modulus apart.          *)

LEMMA DivMod ==
  ASSUME NEW a \in Nat, NEW r \in Nat \ {0}
  PROVE  a = r * (a \div r) + (a % r) /\ (a \div r) \in Nat /\ a % r \in 0..(r - 1)
BY SMT

LEMMA Quotient ==
  ASSUME NEW r \in Nat \ {0}, NEW q \in Nat, NEW p \in Nat, q < p
  PROVE  r * q + r <= r * p /\ r * q \in Nat /\ r * p \in Nat
<1>1. r * (q + 1) <= r * p
  OBVIOUS
<1>2. r * (q + 1) = r * q + r
  OBVIOUS
<1> QED
  BY <1>1, <1>2

LEMMA ModGap ==
  ASSUME NEW a \in Nat, NEW b \in Nat, NEW r \in Nat \ {0}, a % r = b % r, a < b
  PROVE  a + r <= b
<1>1. PICK q \in Nat, p \in Nat, t \in 0..(r - 1) : a = r * q + t /\ b = r * p + t
  BY DivMod
<1>2. CASE q < p
  BY <1>1, <1>2, Quotient
<1>3. CASE p < q
  BY <1>1, <1>3, Quotient
<1>4. CASE p = q
  BY <1>1, <1>4
<1> QED
  BY <1>1, <1>2, <1>3, <1>4

LEMMA ModShift ==
  ASSUME NEW a \in Nat, NEW r \in Nat \ {0}
  PROVE  (a + r) % r = a % r
<1>0. a + r \in Nat
  OBVIOUS
<1>1. PICK q \in Nat, t \in 0..(r - 1) : a = r * q + t /\ t = a % r
  BY DivMod
<1>2. PICK p \in Nat, u \in 0..(r - 1) : a + r = r * p + u /\ u = (a + r) % r
  BY <1>0, DivMod
<1>3. q + 1 \in Nat /\ r * (q + 1) = r * q + r
  BY <1>1
<1>4. r * (q + 1) + t = r * p + u
  BY <1>1, <1>2, <1>3
<1>5. CASE q + 1 < p
  BY <1>1, <1>2, <1>3, <1>4, <1>5, Quotient
<1>6. CASE p < q + 1
  BY <1>1, <1>2, <1>3, <1>4, <1>6, Quotient
<1>7. CASE p = q + 1
  <2>1. r * p \in Nat
    BY <1>2
  <2> QED
    BY <1>1, <1>2, <1>4, <1>7, <2>1
<1> QED
  BY <1>1, <1>2, <1>3, <1>5, <1>6, <1>7

LEMMA DivIs ==
  ASSUME NEW r \in Nat \ {0}, NEW q \in Nat, NEW m \in 0..(r - 1), NEW a \in Nat,
         a = r * q + m
  PROVE  a \div r = q
<1>1. PICK s \in Nat, u \in 0..(r - 1) : a = r * s + u /\ s = a \div r
  BY DivMod
<1>2. CASE q < s
  BY <1>1, <1>2, Quotient
<1>3. CASE s < q
  BY <1>1, <1>3, Quotient
<1> QED
  BY <1>1, <1>2, <1>3

LEMMA TimesMono ==
  ASSUME NEW a \in Nat, NEW b \in Nat, NEW t \in Nat, a <= b
  PROVE  a * t <= b * t /\ a * t \in Nat /\ b * t \in Nat /\ (a + 1) * t = a * t + t
<1>1. PICK d \in Nat : b = a + d
  <2>1. b - a \in Nat /\ b = a + (b - a)
    OBVIOUS
  <2> QED
    BY <2>1
<1>2. a * t \in Nat /\ d * t \in Nat
  OBVIOUS
<1>3. (a + d) * t = a * t + d * t /\ (a + 1) * t = a * t + t
  BY <1>1
<1> QED
  BY <1>1, <1>2, <1>3

(* The quotient grows by one at a multiple, and not between two.            *)
LEMMA DivStep ==
  ASSUME NEW a \in Nat, NEW r \in Nat \ {0}
  PROVE  /\ a \div r \in Nat /\ (a + 1) \div r \in Nat /\ a \div r <= a
         /\ (a + 1) % r # 0 => (a + 1) \div r = a \div r
         /\ (a + 1) \div r <= (a \div r) + 1
<1>1. PICK q \in Nat, m \in 0..(r - 1) : a = r * q + m /\ q = a \div r
  BY DivMod
<1>2. r * q \in Nat /\ r * (q + 1) = r * q + r
  BY <1>1
<1>3. a + 1 \in Nat
  OBVIOUS
<1>4. q <= a
  <2>1. 1 <= r /\ 1 \in Nat /\ r \in Nat
    OBVIOUS
  <2>2. 1 * q <= r * q
    BY <2>1, TimesMono
  <2> QED
    BY <1>1, <1>2, <2>2
<1>5. CASE m + 1 < r
  <2>1. m + 1 \in 0..(r - 1) /\ a + 1 = r * q + (m + 1)
    BY <1>1, <1>2, <1>5
  <2>2. (a + 1) \div r = q
    BY <1>3, <2>1, DivIs
  <2> QED
    BY <1>1, <1>4, <2>2
<1>6. CASE m + 1 = r
  <2>1. 0 \in 0..(r - 1) /\ q + 1 \in Nat /\ a + 1 = r * (q + 1) + 0
    BY <1>1, <1>2, <1>6
  <2>2. (a + 1) \div r = q + 1
    BY <1>3, <2>1, DivIs
  <2>3. PICK s \in Nat, u \in 0..(r - 1) :
          a + 1 = r * s + u /\ s = (a + 1) \div r /\ u = (a + 1) % r
    BY <1>3, DivMod
  <2>4. (a + 1) % r = 0
    <3>1. r * s = r * (q + 1)
      BY <2>2, <2>3
    <3>2. r * s \in Nat
      BY <2>3
    <3> QED
      BY <2>1, <2>3, <3>1, <3>2
  <2> QED
    BY <1>1, <1>4, <2>2, <2>4
<1> QED
  BY <1>1, <1>5, <1>6

-----------------------------------------------------------------------------
(* Finite sets of numbers, and the least-number principle.                  *)

(* Place of s in the ascending enumeration of S.                            *)
UpTo(S, s) == {t \in S : t <= s}
Rank(S, s) == Cardinality(UpTo(S, s))

LEMMA RankType ==
  ASSUME NEW S \in SUBSET Int, IsFiniteSet(S), NEW s \in S
  PROVE  Rank(S, s) \in 1..Cardinality(S)
<1>1. UpTo(S, s) \in SUBSET S /\ s \in UpTo(S, s)
  BY DEF UpTo
<1>2. IsFiniteSet(UpTo(S, s)) /\ Cardinality(UpTo(S, s)) <= Cardinality(S)
  BY <1>1, FS_Subset
<1>3. Cardinality(UpTo(S, s)) \in Nat /\ Cardinality(S) \in Nat
  BY <1>2, FS_CardinalityType
<1>4. Cardinality(UpTo(S, s)) # 0
  BY <1>1, <1>2, FS_EmptySet
<1> QED
  BY <1>2, <1>3, <1>4 DEF Rank

LEMMA RankAscends ==
  ASSUME NEW S \in SUBSET Int, IsFiniteSet(S), NEW s \in S, NEW t \in S, s < t
  PROVE  Rank(S, s) < Rank(S, t)
<1>5. s \in Int /\ t \in Int /\ \A r \in S : r \in Int
  OBVIOUS
<1>6. t \in UpTo(S, t) /\ t \notin UpTo(S, s)
  BY <1>5 DEF UpTo
<1>7. \A r \in S : r <= s => r <= t
  BY <1>5
<1>8. UpTo(S, s) \subseteq UpTo(S, t) /\ UpTo(S, t) \subseteq S
  BY <1>7 DEF UpTo
<1>1. UpTo(S, s) \in SUBSET UpTo(S, t) /\ UpTo(S, t) \in SUBSET S /\ UpTo(S, s) # UpTo(S, t)
  BY <1>6, <1>8
<1>2. IsFiniteSet(UpTo(S, t))
  BY <1>1, FS_Subset
<1>3. /\ Cardinality(UpTo(S, s)) <= Cardinality(UpTo(S, t))
      /\ Cardinality(UpTo(S, t)) # Cardinality(UpTo(S, s))
  BY <1>1, <1>2, FS_Subset
<1>4. Rank(S, s) \in Int /\ Rank(S, t) \in Int
  BY RankType
<1> QED
  BY <1>3, <1>4 DEF Rank

(* Every finite set of numbers can be enumerated in ascending order.        *)
LEMMA Enumeration ==
  ASSUME NEW S \in SUBSET Int, IsFiniteSet(S)
  PROVE  /\ Cardinality(S) \in Nat
         /\ \E q \in [1..Cardinality(S) -> S] :
              /\ \A i, j \in 1..Cardinality(S) : i < j => q[i] < q[j]
              /\ \A s \in S : q[Rank(S, s)] = s
<1> DEFINE n == Cardinality(S)
           rank == [s \in S |-> Rank(S, s)]
           q == [i \in 1..n |-> CHOOSE s \in S : rank[s] = i]
<1>1. n \in Nat /\ IsFiniteSet(1..n) /\ Cardinality(1..n) = n
  BY FS_CardinalityType, FS_Interval
<1>2. rank \in [S -> 1..n]
  BY RankType
<1>3. \A s, t \in S : s < t => rank[s] < rank[t]
  BY RankAscends
<1>4. \A s, t \in S : rank[s] = rank[t] => s = t
  <2> SUFFICES ASSUME NEW s \in S, NEW t \in S, rank[s] = rank[t] PROVE s = t
    OBVIOUS
  <2>1. s \in Int /\ t \in Int /\ rank[s] \in Int
    BY <1>1, <1>2
  <2>2. ~(s < t) /\ ~(t < s)
    BY <1>3, <2>1
  <2> QED
    BY <2>1, <2>2
<1>5. rank \in Injection(S, 1..n)
  BY <1>2, <1>4 DEF Injection, IsInjective
<1>6. rank \in Surjection(S, 1..n)
  <2> HIDE DEF rank
  <2>1. Cardinality(S) = Cardinality(1..n)
    BY <1>1
  <2> QED BY <1>1, <1>5, <2>1, FS_Injection
<1>13. \A s \in S : rank[s] \in Int /\ s \in Int
  BY <1>1, <1>2
<1>7. \A i \in 1..n : \E s \in S : rank[s] = i
  BY <1>6 DEF Surjection
<1> HIDE DEF rank
<1>8. \A i \in 1..n : q[i] \in S /\ rank[q[i]] = i
  BY <1>7
<1>9. q \in [1..n -> S]
  BY <1>8
<1> HIDE DEF q
<1>10. \A i, j \in 1..n : i < j => q[i] < q[j]
  <2> SUFFICES ASSUME NEW i \in 1..n, NEW j \in 1..n, i < j PROVE q[i] < q[j]
    OBVIOUS
  <2>1. q[i] \in S /\ q[j] \in S /\ rank[q[i]] < rank[q[j]]
    BY <1>8
  <2>3. /\ q[i] \in Int /\ q[j] \in Int /\ rank[q[i]] \in Int /\ rank[q[j]] \in Int
    BY <1>13, <2>1
  <2>4. q[j] < q[i] => rank[q[j]] < rank[q[i]]
    BY <1>3, <2>1
  <2>2. q[i] # q[j] /\ ~(q[j] < q[i])
    BY <2>1, <2>3, <2>4
  <2> QED
    BY <2>2, <2>3
<1>11. \A s \in S : q[rank[s]] = s
  BY <1>2, <1>4, <1>8
<1>12. \A s \in S : rank[s] = Rank(S, s)
  BY DEF rank
<1> QED
  BY <1>1, <1>9, <1>10, <1>11, <1>12

(* Hence a finite set of numbers has a largest one and a smallest one.      *)
LEMMA Largest ==
  ASSUME NEW S \in SUBSET Int, IsFiniteSet(S), S # {}
  PROVE  \E m \in S : \A s \in S : s <= m
<1>1. PICK q \in [1..Cardinality(S) -> S] :
        /\ \A i, j \in 1..Cardinality(S) : i < j => q[i] < q[j]
        /\ \A s \in S : q[Rank(S, s)] = s
  BY Enumeration
<1>2. Cardinality(S) \in Nat /\ \A s \in S : Rank(S, s) \in 1..Cardinality(S)
  BY Enumeration, RankType
<1>0. PICK n \in Nat : n = Cardinality(S)
  BY <1>2
<1> DEFINE m == q[n]
<1>5. \A s \in S : s \in Int
  OBVIOUS
<1>6. PICK r \in S : TRUE
  OBVIOUS
<1>7. n \in 1..n
  <2>1. Rank(S, r) \in 1..n
    BY <1>0, <1>2, <1>6
  <2> QED BY <2>1, <1>0
<1>3. m \in S
  BY <1>0, <1>1, <1>7
<1>4. \A s \in S : s <= m
  <2> SUFFICES ASSUME NEW s \in S PROVE s <= m
    OBVIOUS
  <2>1. s = q[Rank(S, s)] /\ Rank(S, s) \in 1..Cardinality(S)
    BY <1>1, <1>2
  <2>4. PICK k \in 1..n : k = Rank(S, s)
    BY <1>0, <2>1
  <2>2. CASE k = n
    BY <1>3, <1>5, <2>1, <2>2, <2>4
  <2>3. CASE k < n
    <3>1. q[k] < q[n]
      BY <1>0, <1>1, <1>7, <2>3, <2>4
    <3>2. s = q[k]
      BY <2>1, <2>4
    <3>3. s \in Int /\ q[n] \in Int
      BY <1>3, <1>5
    <3> QED
      BY <3>1, <3>2, <3>3
  <2> QED
    BY <1>0, <2>2, <2>3, <2>4
<1> QED
  BY <1>3, <1>4

LEMMA Smallest ==
  ASSUME NEW S \in SUBSET Int, IsFiniteSet(S), S # {}
  PROVE  \E m \in S : \A s \in S : m <= s
<1>1. PICK q \in [1..Cardinality(S) -> S] :
        /\ \A i, j \in 1..Cardinality(S) : i < j => q[i] < q[j]
        /\ \A s \in S : q[Rank(S, s)] = s
  BY Enumeration
<1>2. Cardinality(S) \in Nat /\ \A s \in S : Rank(S, s) \in 1..Cardinality(S)
  BY Enumeration, RankType
<1>0. PICK n \in Nat : n = Cardinality(S)
  BY <1>2
<1> DEFINE m == q[1]
<1>7. \A s \in S : s \in Int
  OBVIOUS
<1>6. PICK r \in S : TRUE
  OBVIOUS
<1>3. 1 \in 1..n
  <2>1. Rank(S, r) \in 1..n
    BY <1>0, <1>2, <1>6
  <2> QED BY <2>1, <1>0
<1>5. m \in S
  BY <1>0, <1>1, <1>3
<1>4. \A s \in S : m <= s
  <2> SUFFICES ASSUME NEW s \in S PROVE m <= s
    OBVIOUS
  <2>1. s = q[Rank(S, s)] /\ Rank(S, s) \in 1..Cardinality(S)
    BY <1>1, <1>2
  <2>4. PICK k \in 1..n : k = Rank(S, s)
    BY <1>0, <2>1
  <2>2. CASE k = 1
    BY <1>5, <1>7, <2>1, <2>2, <2>4
  <2>3. CASE 1 < k
    <3>1. q[1] < q[k]
      BY <1>0, <1>1, <1>3, <2>3, <2>4
    <3>2. s = q[k]
      BY <2>1, <2>4
    <3>3. s \in Int /\ q[1] \in Int
      BY <1>5, <1>7
    <3> QED
      BY <3>1, <3>2, <3>3
  <2> QED
    BY <1>0, <2>2, <2>3, <2>4
<1> QED
  BY <1>5, <1>4

(* The least-number principle, which stands in for induction.               *)
LEMMA LeastNatural ==
  ASSUME NEW T \in SUBSET Nat, T # {}
  PROVE  \E m \in T : \A n \in T : m <= n
<1>1. PICK n \in T : TRUE
  OBVIOUS
<1>2. n \in Nat /\ UpTo(T, n) \in SUBSET Nat /\ UpTo(T, n) \in SUBSET Int
  <2>1. UpTo(T, n) \subseteq T
    BY DEF UpTo
  <2>2. Nat \subseteq Int /\ T \subseteq Nat /\ n \in Nat
    OBVIOUS
  <2> QED BY <2>1, <2>2
<1>5. n \in UpTo(T, n)
  BY <1>2 DEF UpTo
<1>3. IsFiniteSet(UpTo(T, n))
  BY <1>2, FS_BoundedSetOfNaturals DEF UpTo
<1>4. PICK m \in UpTo(T, n) : \A t \in UpTo(T, n) : m <= t
  BY <1>2, <1>3, <1>5, Smallest
<1>6. m \in T /\ m \in Nat /\ m <= n
  BY <1>2, <1>4 DEF UpTo
<1>7. ASSUME NEW t \in T PROVE m <= t
  <2>1. t \in Nat
    OBVIOUS
  <2>2. CASE t <= n
    BY <1>4, <2>2 DEF UpTo
  <2>3. CASE n < t
    BY <1>2, <1>6, <2>1, <2>3
  <2> QED
    BY <1>2, <2>1, <2>2, <2>3
<1> QED
  BY <1>6, <1>7
=============================================================================
