------------------------- MODULE RedisArbiterProofs -------------------------
(***************************************************************************)
(* What RedisArbiter guarantees for every budget, every number of steps,   *)
(* every rounding grain, and whichever calls fail, are retried or run late.*)
(***************************************************************************)
EXTENDS RedisArbiter, WellFoundedInduction, FiniteSetTheorems, TLAPS

-----------------------------------------------------------------------------
(* What SumTo computes, for every n and every family of integers.  The     *)
(* induction principle is stated over a SET of naturals rather than a      *)
(* predicate: it is derived from the well-foundedness of < on Nat.         *)

(* Every nonempty set of naturals has a least element. *)
LEMMA LeastNatural ==
  ASSUME NEW T \in SUBSET Nat, T # {}
  PROVE  \E m \in T : \A n \in T : m <= n
<1> DEFINE R == {p \in Nat \X Nat : p[1] < p[2]}
<1>1. IsWellFoundedOn(R, Nat)
  BY NatLessThanWellFounded, Zenon DEF OpToRel
<1> HIDE DEF R
<1>2. PICK m \in T : \A n \in T : <<n, m>> \notin R
  BY <1>1, WFMin, Zenon
<1>3. \A n \in T : ~(n < m)
  BY <1>2 DEF R
<1> QED BY <1>3

(* Induction: a set of naturals that holds 0 and is closed under successor *)
(* is all of Nat.                                                          *)
LEMMA SetInduction ==
  ASSUME NEW S \in SUBSET Nat, 0 \in S, \A n \in S : n + 1 \in S
  PROVE  S = Nat
<1> SUFFICES ASSUME Nat \ S # {} PROVE FALSE
  OBVIOUS
<1>1. PICK m \in Nat \ S : \A n \in Nat \ S : m <= n
  BY LeastNatural
<1>2. m # 0 /\ m - 1 \in Nat
  BY <1>1
<1>3. m - 1 \in S
  BY <1>1, <1>2
<1> QED BY <1>1, <1>3

IsPartialSums(f, n, g) ==
  /\ g \in [0..n -> Int]
  /\ g[0] = 0
  /\ \A i \in 1..n : g[i] = g[i - 1] + f[i]

(* The recursive definition of PartialSums has a solution and is one. *)
LEMMA PartialSumsDef ==
  ASSUME NEW n \in Nat, NEW f \in [1..n -> Int]
  PROVE  IsPartialSums(f, n, PartialSums(f, n))
<1> DEFINE S == {m \in Nat : m <= n => \E g : IsPartialSums(f, m, g)}
<1>1. 0 \in S
  <2> DEFINE z == [i \in 0..0 |-> 0]
  <2>1. IsPartialSums(f, 0, z)
    BY DEF IsPartialSums
  <2> QED BY <2>1
<1>2. ASSUME NEW m \in S PROVE m + 1 \in S
  <2> SUFFICES ASSUME m + 1 <= n PROVE \E g : IsPartialSums(f, m + 1, g)
    OBVIOUS
  <2>1. PICK g : IsPartialSums(f, m, g)
    OBVIOUS
  <2> DEFINE h == [i \in 0..(m + 1) |-> IF i = m + 1 THEN g[m] + f[m + 1] ELSE g[i]]
  <2>2. h \in [0..(m + 1) -> Int]
    BY <2>1 DEF IsPartialSums
  <2>3. \A i \in 1..(m + 1) : h[i] = h[i - 1] + f[i]
    <3> SUFFICES ASSUME NEW i \in 1..(m + 1) PROVE h[i] = h[i - 1] + f[i]
      OBVIOUS
    <3>1. CASE i = m + 1
      BY <3>1
    <3>2. CASE i # m + 1
      <4>1. i \in 1..m /\ i - 1 \in 0..m /\ i - 1 # m + 1
        BY <3>2
      <4> QED BY <4>1, <2>1 DEF IsPartialSums
    <3> QED BY <3>1, <3>2
  <2>4. h[0] = 0
    BY <2>1 DEF IsPartialSums
  <2>5. IsPartialSums(f, m + 1, h)
    BY <2>2, <2>3, <2>4 DEF IsPartialSums
  <2> QED BY <2>5
<1>3. S = Nat
  <2> HIDE DEF S
  <2>1. S \in SUBSET Nat
    BY DEF S
  <2> QED BY <1>1, <1>2, <2>1, SetInduction
<1>4. PICK g : IsPartialSums(f, n, g)
  <2> HIDE DEF S
  <2>1. n \in S
    BY <1>3
  <2> QED BY <2>1 DEF S
<1> DEFINE Solves(a) == a = [i \in 0..n |-> IF i = 0 THEN 0 ELSE a[i - 1] + f[i]]
<1>5. Solves(g)
  BY <1>4 DEF IsPartialSums
<1>6. PartialSums(f, n) = CHOOSE a : Solves(a)
  BY DEF PartialSums
<1>7. Solves(PartialSums(f, n))
  BY <1>5, <1>6
<1> DEFINE p == PartialSums(f, n)
<1>8. /\ p = [i \in 0..n |-> IF i = 0 THEN 0 ELSE p[i - 1] + f[i]]
  BY <1>7
<1> HIDE DEF p
<1>9. p[0] = 0 /\ \A i \in 1..n : p[i] = p[i - 1] + f[i]
  BY <1>8
<1> DEFINE U == {m \in Nat : m <= n => p[m] \in Int}
<1>10. U = Nat
  <2>1. 0 \in U
    BY <1>9
  <2>2. ASSUME NEW m \in U PROVE m + 1 \in U
    <3> SUFFICES ASSUME m + 1 <= n PROVE p[m + 1] \in Int
      OBVIOUS
    <3>1. m + 1 \in 1..n /\ p[m] \in Int /\ (m + 1) - 1 = m
      OBVIOUS
    <3>2. f[m + 1] \in Int
      BY <3>1
    <3> QED BY <3>1, <3>2, <1>9
  <2> HIDE DEF U
  <2>3. U \in SUBSET Nat
    BY DEF U
  <2> QED BY <2>1, <2>2, <2>3, SetInduction
<1>11. p \in [0..n -> Int]
  <2> HIDE DEF U
  <2>1. \A i \in 0..n : p[i] \in Int
    <3> TAKE i \in 0..n
    <3>1. i \in U
      BY <1>10
    <3> QED BY <3>1 DEF U
  <2>2. p \in [0..n -> Int] <=> \A i \in 0..n : p[i] \in Int
    <3> DEFINE e(i) == IF i = 0 THEN 0 ELSE p[i - 1] + f[i]
    <3>1. p = [i \in 0..n |-> e(i)]
      BY <1>8
    <3> HIDE DEF e
    <3> QED BY <3>1
  <2> QED BY <2>1, <2>2
<1> QED BY <1>9, <1>11 DEF IsPartialSums, p

(* A sum of integers is an integer. *)
LEMMA SumIsInt ==
  ASSUME NEW n \in Nat, NEW f \in [1..n -> Int]
  PROVE  SumTo(f, n) \in Int
BY PartialSumsDef DEF SumTo, IsPartialSums

(* Changing one term changes the sum by as much. *)
LEMMA SumUpdate ==
  ASSUME NEW n \in Nat, NEW f \in [1..n -> Int], NEW k \in 1..n, NEW v \in Int
  PROVE  SumTo([f EXCEPT ![k] = v], n) = SumTo(f, n) - f[k] + v
<1> DEFINE h == [f EXCEPT ![k] = v]
           s == PartialSums(f, n)
           t == PartialSums(h, n)
           Agree(m) == t[m] = s[m] + (IF m >= k THEN v - f[k] ELSE 0)
           S == {m \in Nat : m <= n => Agree(m)}
<1>1. h \in [1..n -> Int]
  OBVIOUS
<1>2. IsPartialSums(f, n, s) /\ IsPartialSums(h, n, t)
  BY <1>1, PartialSumsDef
<1> HIDE DEF s, t
<1>3. 0 \in S
  BY <1>2 DEF IsPartialSums
<1>4. ASSUME NEW m \in S PROVE m + 1 \in S
  <2> SUFFICES ASSUME m + 1 <= n PROVE Agree(m + 1)
    OBVIOUS
  <2>1. Agree(m) /\ m + 1 \in 1..n /\ (m + 1) - 1 = m /\ m \in 0..n
    OBVIOUS
  <2>2. s[m + 1] = s[m] + f[m + 1] /\ t[m + 1] = t[m] + h[m + 1]
    BY <2>1, <1>2 DEF IsPartialSums
  <2>3. s[m] \in Int /\ f[m + 1] \in Int /\ f[k] \in Int
    BY <2>1, <1>2 DEF IsPartialSums
  <2>4. h[m + 1] = IF m + 1 = k THEN v ELSE f[m + 1]
    BY <2>1
  <2>5. t[m] = s[m] + (IF m >= k THEN v - f[k] ELSE 0) /\ m \in Nat
    BY <2>1
  <2> HIDE DEF h, S
  <2>6. CASE m + 1 = k
    <3>1. ~(m >= k) /\ m + 1 >= k
      BY <2>5, <2>6
    <3> QED BY <2>2, <2>3, <2>4, <2>5, <2>6, <3>1
  <2>7. CASE m + 1 # k
    <3>1. (m + 1 >= k) <=> (m >= k)
      BY <2>5, <2>7
    <3> QED BY <2>2, <2>3, <2>4, <2>5, <2>7, <3>1
  <2> QED BY <2>6, <2>7
<1>5. n \in S
  <2> HIDE DEF S
  <2>1. S \in SUBSET Nat
    BY DEF S
  <2> QED BY <1>3, <1>4, <2>1, SetInduction
<1>6. Agree(n)
  BY <1>5
<1>7. s[n] \in Int /\ f[k] \in Int
  BY <1>2 DEF IsPartialSums
<1> QED BY <1>6, <1>7 DEF SumTo, s, t

(* Families that differ in one term have the same sum without it. *)
LEMMA SumExchange ==
  ASSUME NEW n \in Nat, NEW f \in [1..n -> Int], NEW g \in [1..n -> Int], NEW k \in 1..n,
         \A i \in 1..n : i # k => g[i] = f[i]
  PROVE  SumTo(g, n) + f[k] = SumTo(f, n) + g[k]
<1>1. PICK v \in Int : v = g[k]
  OBVIOUS
<1>2. g = [f EXCEPT ![k] = v]
  BY <1>1
<1>3. SumTo(g, n) = SumTo(f, n) - f[k] + v
  <2>1. SumTo([f EXCEPT ![k] = v], n) = SumTo(f, n) - f[k] + v
    BY <1>1, SumUpdate
  <2> QED BY <1>2, <2>1
<1>4. SumTo(f, n) \in Int /\ f[k] \in Int
  BY SumIsInt
<1> QED BY <1>1, <1>3, <1>4

(* A sum of naturals is a natural that no term exceeds. *)
LEMMA SumBoundsTerm ==
  ASSUME NEW n \in Nat, NEW f \in [1..n -> Nat], NEW k \in 1..n
  PROVE  f[k] <= SumTo(f, n)
<1> DEFINE s == PartialSums(f, n)
           S == {m \in Nat : m <= n => s[m] >= (IF m >= k THEN f[k] ELSE 0)}
<1>1. IsPartialSums(f, n, s)
  BY PartialSumsDef
<1> HIDE DEF s
<1>2. 0 \in S
  BY <1>1 DEF IsPartialSums
<1>3. ASSUME NEW m \in S PROVE m + 1 \in S
  <2> SUFFICES ASSUME m + 1 <= n
               PROVE  s[m + 1] >= (IF m + 1 >= k THEN f[k] ELSE 0)
    OBVIOUS
  <2>1. m + 1 \in 1..n /\ (m + 1) - 1 = m /\ m \in 0..n
    OBVIOUS
  <2>2. s[m + 1] = s[m] + f[m + 1] /\ s[m] \in Int /\ f[m + 1] \in Nat /\ f[k] \in Nat
    BY <2>1, <1>1 DEF IsPartialSums
  <2> QED BY <2>1, <2>2
<1>4. n \in S
  <2> HIDE DEF S
  <2>1. S \in SUBSET Nat
    BY DEF S
  <2> QED BY <1>2, <1>3, <2>1, SetInduction
<1> QED BY <1>4 DEF SumTo, s

(* A sum of naturals is a natural. *)
LEMMA SumIsNat ==
  ASSUME NEW n \in Nat, NEW f \in [1..n -> Nat]
  PROVE  SumTo(f, n) \in Nat
<1> f \in [1..n -> Int]
  OBVIOUS
<1>1. CASE n = 0
  <2>1. IsPartialSums(f, n, PartialSums(f, n))
    BY PartialSumsDef
  <2> QED BY <2>1, <1>1 DEF SumTo, IsPartialSums
<1>2. CASE n # 0
  <2>1. 1 \in 1..n
    BY <1>2
  <2>2. f[1] <= SumTo(f, n) /\ f[1] \in Nat
    BY <2>1, SumBoundsTerm
  <2> QED BY <2>2, SumIsInt
<1> QED BY <1>1, <1>2

(* The sum of zeros is zero. *)
LEMMA SumOfZeros ==
  ASSUME NEW n \in Nat, NEW f \in [1..n -> {0}]
  PROVE  SumTo(f, n) = 0
<1> DEFINE s == PartialSums(f, n)
           S == {m \in Nat : m <= n => s[m] = 0}
<1>1. f \in [1..n -> Int]
  OBVIOUS
<1>2. IsPartialSums(f, n, s)
  BY <1>1, PartialSumsDef
<1> HIDE DEF s
<1>3. 0 \in S
  BY <1>2 DEF IsPartialSums
<1>4. ASSUME NEW m \in S PROVE m + 1 \in S
  <2> SUFFICES ASSUME m + 1 <= n PROVE s[m + 1] = 0
    OBVIOUS
  <2>1. m + 1 \in 1..n /\ (m + 1) - 1 = m
    OBVIOUS
  <2> QED BY <2>1, <1>2 DEF IsPartialSums
<1>5. n \in S
  <2> HIDE DEF S
  <2>1. S \in SUBSET Nat
    BY DEF S
  <2> QED BY <1>3, <1>4, <2>1, SetInduction
<1> QED BY <1>5 DEF SumTo, s

(* Adding to one term adds as much to the sum. *)
LEMMA SumAdds ==
  ASSUME NEW n \in Nat, NEW f \in [1..n -> Nat], NEW k \in 1..n, NEW d \in Nat
  PROVE  SumTo([f EXCEPT ![k] = f[k] + d], n) = SumTo(f, n) + d
<1>1. f \in [1..n -> Int] /\ f[k] \in Nat /\ f[k] + d \in Int
  OBVIOUS
<1>2. SumTo(f, n) \in Int
  BY <1>1, SumIsInt
<1>3. SumTo([f EXCEPT ![k] = f[k] + d], n) = SumTo(f, n) - f[k] + (f[k] + d)
  <2> DEFINE v == f[k] + d
  <2>1. v \in Int
    BY <1>1
  <2> HIDE DEF v
  <2>2. SumTo([f EXCEPT ![k] = v], n) = SumTo(f, n) - f[k] + v
    BY <1>1, <2>1, SumUpdate
  <2> QED
    BY <2>2 DEF v
<1> QED
  BY <1>1, <1>2, <1>3

(* A sum of terms that are no larger is no larger. *)
LEMMA SumLeq ==
  ASSUME NEW n \in Nat, NEW f \in [1..n -> Int], NEW g \in [1..n -> Int],
         \A i \in 1..n : f[i] <= g[i]
  PROVE  SumTo(f, n) <= SumTo(g, n)
<1> DEFINE s == PartialSums(f, n)
           t == PartialSums(g, n)
           S == {m \in Nat : m <= n => s[m] <= t[m]}
<1>1. IsPartialSums(f, n, s) /\ IsPartialSums(g, n, t)
  BY PartialSumsDef
<1> HIDE DEF s, t
<1>2. 0 \in S
  BY <1>1 DEF IsPartialSums
<1>3. ASSUME NEW m \in S PROVE m + 1 \in S
  <2> SUFFICES ASSUME m + 1 <= n PROVE s[m + 1] <= t[m + 1]
    OBVIOUS
  <2>1. m + 1 \in 1..n /\ (m + 1) - 1 = m /\ m \in 0..n /\ s[m] <= t[m]
    OBVIOUS
  <2>2. /\ s[m + 1] = s[m] + f[m + 1] /\ t[m + 1] = t[m] + g[m + 1]
        /\ s[m] \in Int /\ t[m] \in Int
        /\ f[m + 1] \in Int /\ g[m + 1] \in Int /\ f[m + 1] <= g[m + 1]
    BY <2>1, <1>1 DEF IsPartialSums
  <2> QED BY <2>1, <2>2
<1>4. n \in S
  <2> HIDE DEF S
  <2>1. S \in SUBSET Nat
    BY DEF S
  <2> QED BY <1>2, <1>3, <2>1, SetInduction
<1> QED BY <1>4 DEF SumTo, s, t

(* The sum of sums, term by term. *)
LEMMA SumPlus ==
  ASSUME NEW n \in Nat, NEW f \in [1..n -> Int], NEW g \in [1..n -> Int],
         NEW h \in [1..n -> Int], \A i \in 1..n : h[i] = f[i] + g[i]
  PROVE  SumTo(h, n) = SumTo(f, n) + SumTo(g, n)
<1> DEFINE s == PartialSums(f, n)
           t == PartialSums(g, n)
           u == PartialSums(h, n)
           S == {m \in Nat : m <= n => u[m] = s[m] + t[m]}
<1>1. IsPartialSums(f, n, s) /\ IsPartialSums(g, n, t) /\ IsPartialSums(h, n, u)
  BY PartialSumsDef
<1> HIDE DEF s, t, u
<1>2. 0 \in S
  BY <1>1 DEF IsPartialSums
<1>3. ASSUME NEW m \in S PROVE m + 1 \in S
  <2> SUFFICES ASSUME m + 1 <= n PROVE u[m + 1] = s[m + 1] + t[m + 1]
    OBVIOUS
  <2>1. m + 1 \in 1..n /\ (m + 1) - 1 = m /\ m \in 0..n /\ u[m] = s[m] + t[m]
    OBVIOUS
  <2>2. /\ s[m + 1] = s[m] + f[m + 1] /\ t[m + 1] = t[m] + g[m + 1]
        /\ u[m + 1] = u[m] + h[m + 1] /\ s[m] \in Int /\ t[m] \in Int /\ u[m] \in Int
        /\ f[m + 1] \in Int /\ g[m + 1] \in Int /\ h[m + 1] = f[m + 1] + g[m + 1]
    BY <2>1, <1>1 DEF IsPartialSums
  <2> QED BY <2>1, <2>2
<1>4. n \in S
  <2> HIDE DEF S
  <2>1. S \in SUBSET Nat
    BY DEF S
  <2> QED BY <1>2, <1>3, <2>1, SetInduction
<1> QED BY <1>4 DEF SumTo, s, t, u

(* A sum with few terms that are not zero, none above a maximum, is at     *)
(* most that many times the maximum.                                       *)
LEMMA SumOfFew ==
  ASSUME NEW n \in Nat, NEW f \in [1..n -> Nat], NEW T \in SUBSET (1..n), NEW M \in Nat,
         \A i \in T : f[i] <= M,
         \A i \in 1..n : i \notin T => f[i] = 0
  PROVE  SumTo(f, n) <= Cardinality(T) * M
<1> DEFINE s == PartialSums(f, n)
           Up(m) == {i \in T : i <= m}
           S == {m \in Nat : m <= n => s[m] <= Cardinality(Up(m)) * M}
<1>1. IsPartialSums(f, n, s)
  BY PartialSumsDef
<1>2. IsFiniteSet(T) /\ \A m : IsFiniteSet(Up(m)) /\ Cardinality(Up(m)) \in Nat
  <2>1. IsFiniteSet(T)
    <3>1. IsFiniteSet(1..n)
      BY FS_Interval
    <3> QED BY <3>1, FS_Subset
  <2>2. \A m : IsFiniteSet(Up(m))
    BY <2>1, FS_Subset
  <2> QED BY <2>1, <2>2, FS_CardinalityType
<1>3. Up(0) = {} /\ Up(n) = T
  <2>1. \A i \in T : i \in Int /\ ~(i <= 0) /\ i <= n
    OBVIOUS
  <2> QED BY <2>1, Zenon
<1>4. Cardinality(Up(0)) = 0
  BY <1>3, FS_EmptySet
<1> HIDE DEF s
<1>5. 0 \in S
  <2> HIDE DEF Up
  <2> QED BY <1>1, <1>4 DEF IsPartialSums
<1>6. ASSUME NEW m \in S PROVE m + 1 \in S
  <2> SUFFICES ASSUME m + 1 <= n PROVE s[m + 1] <= Cardinality(Up(m + 1)) * M
    OBVIOUS
  <2>1. /\ m + 1 \in 1..n /\ (m + 1) - 1 = m /\ m \in 0..n
        /\ s[m] <= Cardinality(Up(m)) * M
    OBVIOUS
  <2>2. s[m + 1] = s[m] + f[m + 1] /\ s[m] \in Int /\ f[m + 1] \in Nat
    BY <2>1, <1>1 DEF IsPartialSums
  <2>3. CASE m + 1 \in T
    <3>1. Up(m + 1) = Up(m) \cup {m + 1} /\ m + 1 \notin Up(m)
      <4>1. \A i \in T : (i <= m + 1) <=> (i <= m \/ i = m + 1)
        BY <2>1
      <4>2. ~(m + 1 <= m)
        BY <2>1
      <4> QED BY <2>3, <4>1, <4>2, Zenon
    <3>2. Cardinality(Up(m + 1)) = Cardinality(Up(m)) + 1
      <4> HIDE DEF Up
      <4> QED BY <1>2, <3>1, FS_AddElement
    <3>3. f[m + 1] <= M
      BY <2>3
    <3> HIDE DEF Up
    <3>4. (Cardinality(Up(m)) + 1) * M = Cardinality(Up(m)) * M + M
      BY <1>2
    <3>5. Cardinality(Up(m)) * M \in Int
      BY <1>2
    <3> QED BY <2>1, <2>2, <3>2, <3>3, <3>4, <3>5
  <2>4. CASE m + 1 \notin T
    <3>1. Up(m + 1) = Up(m)
      <4>1. \A i \in T : i # m + 1 => ((i <= m + 1) <=> (i <= m))
        BY <2>1
      <4>2. \A i \in T : i # m + 1
        BY <2>4
      <4> QED BY <4>1, <4>2, Zenon
    <3>2. f[m + 1] = 0
      BY <2>1, <2>4
    <3> HIDE DEF Up
    <3> QED BY <2>1, <2>2, <3>1, <3>2
  <2> QED BY <2>3, <2>4
<1>7. n \in S
  <2> HIDE DEF S
  <2>1. S \in SUBSET Nat
    BY DEF S
  <2> QED BY <1>5, <1>6, <2>1, SetInduction
<1> QED BY <1>3, <1>7 DEF SumTo, s


-----------------------------------------------------------------------------
(* Amounts. *)

(* A non-negative amount in grains is worth a whole, non-negative number   *)
(* of microdollars.                                                        *)
LEMMA QuotientNat ==
  ASSUME NEW n \in Nat, NEW g \in Nat \ {0}
  PROVE  n \div g \in Nat
OBVIOUS

(* _to_micro returns an integer. *)
LEMMA ToMicroInt ==
  ASSUME NEW usd \in Int
  PROVE  ToMicro(usd) \in Int
<1>1. usd \div Grain \in Int /\ usd % Grain \in Int
  BY RedisAssumption
<1> QED BY <1>1 DEF ToMicro

(* _to_micro of a non-negative amount is non-negative. *)
LEMMA ToMicroNat ==
  ASSUME NEW usd \in Nat
  PROVE  ToMicro(usd) \in Nat
<1>1. usd \div Grain \in Nat /\ usd % Grain \in Int
  BY RedisAssumption, QuotientNat
<1> QED BY <1>1 DEF ToMicro

(* A cost settles as a non-negative number of microdollars. *)
LEMMA ActualMicroNat ==
  ASSUME NEW c \in Costs
  PROVE  ActualMicro(c) \in Nat
<1>1. CASE c = NonFinite
  BY <1>1 DEF ActualMicro
<1>2. CASE c # NonFinite
  <2>1. c \in Nat
    BY <1>2, RedisAssumption
  <2> QED BY <2>1, <1>2, ToMicroNat DEF ActualMicro
<1> QED BY <1>1, <1>2

(* The budget in microdollars is a natural number (_to_micro of a total >= 0). *)
LEMMA TotalNat == Total \in Nat
BY ToMicroNat, RedisAssumption DEF Total

(* A desired ceiling has an amount in microdollars (arbitrate: _to_micro). *)
LEMMA DesireMicroInt ==
  ASSUME NEW d \in Desires
  PROVE  d.ceiling \in Int /\ ToMicro(d.ceiling) \in Int
<1>1. d \in [ceiling : Int, priority : Int]
  BY RedisAssumption
<1> QED BY <1>1, ToMicroInt

-----------------------------------------------------------------------------
(* Type correctness. *)

\* Scripts that settle carry no negative cost.
LateSettlesNat == \A m \in late : m.op = "settle" => m.micro \in Nat

TypeInv == TypeOK /\ LateSettlesNat

(* What LUA_RESERVE sees as remaining is a natural number. *)
LEMMA AvailableNat ==
  ASSUME TypeOK
  PROVE  Available \in Nat /\ OrZero \in Nat
BY TotalNat, RedisAssumption DEF TypeOK, Available, OrZero

(* A reserve script keeps the counter a natural number. *)
LEMMA ReserveTypes ==
  ASSUME TypeOK, NEW k \in Keys, NEW micro \in Int, LuaReserve(k, micro)
  PROVE  remaining' \in Nat \cup {NoKey} /\ alloc' \in [Keys -> Int \cup {NoAlloc}]
<1>1. Available \in Nat
  BY AvailableNat
<1>2. remaining \in Nat \cup {NoKey} /\ alloc \in [Keys -> Int \cup {NoAlloc}]
  BY DEF TypeOK
<1>3. CASE alloc[k] # NoAlloc
  BY <1>2, <1>3 DEF LuaReserve, redis
<1>4. CASE alloc[k] = NoAlloc /\ Available < micro
  BY <1>1, <1>2, <1>4 DEF LuaReserve
<1>5. CASE alloc[k] = NoAlloc /\ Available >= micro
  <2>1. Available - micro \in Nat
    BY <1>1, <1>5
  <2> QED BY <1>1, <1>2, <1>5, <2>1 DEF LuaReserve
<1> QED BY <1>1, <1>3, <1>4, <1>5

(* A settle script keeps the counter a natural number. *)
LEMMA SettleTypes ==
  ASSUME TypeOK, NEW k \in Keys, NEW micro \in Nat, LuaSettle(k, micro)
  PROVE  /\ remaining' \in Nat \cup {NoKey}
         /\ alloc' \in [Keys -> Int \cup {NoAlloc}]
         /\ spent' \in Nat /\ lapsed' \in Int /\ cold' \in BOOLEAN
<1>1. OrZero \in Nat
  BY AvailableNat
<1>2. /\ remaining \in Nat \cup {NoKey} /\ alloc \in [Keys -> Int \cup {NoAlloc}]
      /\ spent \in Nat /\ lapsed \in Int
  BY DEF TypeOK
<1>3. spent' \in Nat /\ lapsed' \in Int
  BY <1>2 DEF LuaSettle
<1>5. cold' \in BOOLEAN
  BY Zenon DEF LuaSettle
<1>4. remaining' \in Nat \cup {NoKey} /\ alloc' \in [Keys -> Int \cup {NoAlloc}]
  <2>1. CASE alloc[k] = NoAlloc
    BY <1>1, <1>2, <2>1 DEF LuaSettle, AtLeastZero
  <2>2. CASE alloc[k] # NoAlloc
    <3>1. alloc[k] \in Int
      BY <1>2, <2>2
    <3> QED BY <1>1, <1>2, <2>2, <3>1 DEF LuaSettle, AtLeastZero
  <2> QED BY <2>1, <2>2
<1> QED BY <1>3, <1>4, <1>5, Zenon

(* Before any script Redis holds no counter and no record. *)
LEMMA InitTypes == Init => TypeInv
<1> SUFFICES ASSUME Init PROVE TypeInv
  OBVIOUS
<1>1. cold \in BOOLEAN
  BY Zenon DEF Init
<1>2. /\ remaining \in Nat \cup {NoKey} /\ alloc \in [Keys -> Int \cup {NoAlloc}]
      /\ grant \in [Keys -> Grants \cup {NoGrant}] /\ late \subseteq Scripts
      /\ settles \in [Keys -> 0..MaxSettles] /\ spent \in Nat /\ lapsed \in Int
      /\ LateSettlesNat
  BY RedisAssumption DEF Init, LateSettlesNat
<1> QED BY <1>1, <1>2, Zenon DEF TypeInv, TypeOK

(* The answer of the local fallback is a grant. *)
LEMMA FallbackIsGrant ==
  ASSUME NEW d \in Desires, NEW b \in Budgets
  PROVE  Fallback(d, b) \in Grants
<1>1. d \in [ceiling : Int, priority : Int] /\ b \in Int /\ MinAllocation \in Int
  BY RedisAssumption
<1>2. ProportionalCeiling(d, b) \in Int
  BY <1>1 DEF ProportionalCeiling
<1> QED BY <1>2 DEF Fallback, Grants

(* A call that fails leaves at most its own script behind. *)
LEMMA LateTypes ==
  ASSUME TypeInv, NEW script \in Scripts, MayRunLate(script),
         script.op = "settle" => script.micro \in Nat
  PROVE  late' \subseteq Scripts /\ LateSettlesNat'
BY DEF TypeInv, TypeOK, LateSettlesNat, MayRunLate

(* Every call, late script and expiry keeps the types (arbitrate, settle). *)
LEMMA NextTypes == TypeInv /\ [Next]_vars => TypeInv'
<1> SUFFICES ASSUME TypeInv, [Next]_vars PROVE TypeInv'
  OBVIOUS
<1> USE DEF TypeInv
<1>1. CASE UNCHANGED vars
  BY <1>1 DEF vars, TypeOK, LateSettlesNat
<1>2. ASSUME NEW k \in Keys, NEW d \in Desires, Arbitrate(k, d)
      PROVE  TypeInv'
  <2>1. remaining' \in Nat \cup {NoKey} /\ alloc' \in [Keys -> Int \cup {NoAlloc}]
    BY <1>2, ReserveTypes, DesireMicroInt DEF Arbitrate
  <2>2. FromMicro(Available) \in Int
    BY AvailableNat, RedisAssumption DEF FromMicro
  <2>3. /\ [ceiling |-> FromMicro(Available), by |-> "insufficient"] \in Grants
        /\ [ceiling |-> d.ceiling, by |-> "reserved"] \in Grants
    BY <2>2, DesireMicroInt DEF Grants
  <2>4. grant' \in [Keys -> Grants \cup {NoGrant}]
    BY <1>2, <2>3 DEF Arbitrate, TypeOK
  <2> QED BY <1>2, <2>1, <2>4 DEF Arbitrate, TypeOK, LateSettlesNat
<1>3. ASSUME NEW k \in Keys, NEW d \in Desires, NEW b \in Budgets, ArbitrateFails(k, d, b)
      PROVE  TypeInv'
  <2> DEFINE script == [op |-> "reserve", key |-> k, micro |-> ToMicro(d.ceiling)]
  <2>1. script \in Scripts /\ script.op # "settle"
    BY DesireMicroInt DEF Scripts
  <2>2. MayRunLate(script)
    BY <1>3 DEF ArbitrateFails
  <2>3. late' \subseteq Scripts /\ LateSettlesNat'
    <3> HIDE DEF script
    <3> QED BY <2>1, <2>2, LateTypes
  <2>4. grant' \in [Keys -> Grants \cup {NoGrant}]
    BY <1>3, FallbackIsGrant DEF ArbitrateFails, TypeOK
  <2> QED BY <1>3, <2>3, <2>4 DEF ArbitrateFails, TypeOK
<1>4. ASSUME NEW k \in Keys, NEW c \in Costs, Settle(k, c)
      PROVE  TypeInv'
  <2>1. /\ remaining' \in Nat \cup {NoKey}
        /\ alloc' \in [Keys -> Int \cup {NoAlloc}]
        /\ spent' \in Nat /\ lapsed' \in Int /\ cold' \in BOOLEAN
    BY <1>4, SettleTypes, ActualMicroNat DEF Settle
  <2>2. settles' \in [Keys -> 0..MaxSettles]
    BY <1>4, RedisAssumption DEF Settle, MaySettle, TypeOK
  <2> QED BY <1>4, <2>1, <2>2 DEF Settle, TypeOK, LateSettlesNat
<1>5. ASSUME NEW k \in Keys, NEW c \in Costs, SettleFails(k, c)
      PROVE  TypeInv'
  <2> DEFINE script == [op |-> "settle", key |-> k, micro |-> ActualMicro(c)]
  <2>1. script \in Scripts /\ script.micro \in Nat
    BY ActualMicroNat DEF Scripts
  <2>2. MayRunLate(script)
    BY <1>5 DEF SettleFails
  <2>3. late' \subseteq Scripts /\ LateSettlesNat'
    <3> HIDE DEF script
    <3> QED BY <2>1, <2>2, LateTypes
  <2>4. settles' \in [Keys -> 0..MaxSettles]
    BY <1>5, RedisAssumption DEF SettleFails, MaySettle, TypeOK
  <2> QED BY <1>5, <2>3, <2>4 DEF SettleFails, TypeOK
<1>6. ASSUME NEW k \in Keys, Expire(k)
      PROVE  TypeInv'
  BY <1>6 DEF Expire, TypeOK, LateSettlesNat
<1>7. ASSUME NEW m \in late, RunLate(m)
      PROVE  TypeInv'
  <2>1. m \in Scripts /\ m.key \in Keys /\ m.micro \in Int
    BY DEF TypeOK, Scripts
  <2>2. late' \subseteq Scripts /\ LateSettlesNat'
    BY <1>7 DEF RunLate, TypeOK, LateSettlesNat
  <2>3. CASE m.op = "reserve" /\ LuaReserve(m.key, m.micro) /\ UNCHANGED history
    <3>1. remaining' \in Nat \cup {NoKey} /\ alloc' \in [Keys -> Int \cup {NoAlloc}]
      BY <2>1, <2>3, ReserveTypes
    <3> QED BY <1>7, <2>2, <2>3, <3>1 DEF RunLate, TypeOK, history
  <2>4. CASE m.op = "settle" /\ LuaSettle(m.key, m.micro)
    <3>1. m.micro \in Nat
      BY <2>4 DEF LateSettlesNat
    <3>2. /\ remaining' \in Nat \cup {NoKey}
          /\ alloc' \in [Keys -> Int \cup {NoAlloc}]
          /\ spent' \in Nat /\ lapsed' \in Int /\ cold' \in BOOLEAN
      BY <2>1, <2>4, <3>1, SettleTypes
    <3> QED BY <1>7, <2>2, <3>2 DEF RunLate, TypeOK
  <2> QED BY <1>7, <2>3, <2>4 DEF RunLate
<1> QED BY <1>1, <1>2, <1>3, <1>4, <1>5, <1>6, <1>7 DEF Next

(* The counter is never negative and every record is an amount, whatever   *)
(* the planner desires, a negative ceiling included (LUA_RESERVE,          *)
(* LUA_SETTLE: the counter is clamped at zero).                            *)
THEOREM RedisTypeCorrect == Spec => []TypeOK
<1>1. TypeInv => TypeOK
  BY DEF TypeInv
<1> QED BY <1>1, InitTypes, NextTypes, PTL DEF Spec

-----------------------------------------------------------------------------
(* The ledger.  A negative ceiling would make LUA_RESERVE add to the       *)
(* counter, so the planner is assumed to desire none.                      *)

NonNegativeDesires == \A d \in Desires : d.ceiling >= 0

\* No reservation is negative: neither one made nor one still to be made.
NoNegative ==
  /\ \A k \in Keys : alloc[k] # NoAlloc => alloc[k] \in Nat
  /\ \A m \in late : m.micro \in Nat

SafeInv == TypeInv /\ NoNegative

(* No record of a negative amount exists before the first script. *)
LEMMA InitNoNegative == Init => NoNegative
BY DEF Init, NoNegative

(* With desires that are not negative, no script records a negative amount. *)
LEMMA NextNoNegative ==
  ASSUME NonNegativeDesires, SafeInv, [Next]_vars
  PROVE  NoNegative'
<1> USE DEF SafeInv, TypeInv
<1>1. CASE UNCHANGED vars
  BY <1>1 DEF vars, NoNegative
<1>2. ASSUME NEW k \in Keys, NEW d \in Desires, Arbitrate(k, d)
      PROVE  NoNegative'
  <2>1. ToMicro(d.ceiling) \in Nat
    BY DesireMicroInt, ToMicroNat DEF NonNegativeDesires
  <2> QED BY <1>2, <2>1 DEF Arbitrate, LuaReserve, redis, NoNegative, TypeOK
<1>3. ASSUME NEW k \in Keys, NEW d \in Desires, NEW b \in Budgets, ArbitrateFails(k, d, b)
      PROVE  NoNegative'
  <2>1. ToMicro(d.ceiling) \in Nat
    BY DesireMicroInt, ToMicroNat DEF NonNegativeDesires
  <2> QED BY <1>3, <2>1 DEF ArbitrateFails, MayRunLate, NoNegative
<1>4. ASSUME NEW k \in Keys, NEW c \in Costs, Settle(k, c)
      PROVE  NoNegative'
  BY <1>4 DEF Settle, LuaSettle, NoNegative, TypeOK
<1>5. ASSUME NEW k \in Keys, NEW c \in Costs, SettleFails(k, c)
      PROVE  NoNegative'
  BY <1>5, ActualMicroNat DEF SettleFails, MayRunLate, NoNegative
<1>6. ASSUME NEW k \in Keys, Expire(k)
      PROVE  NoNegative'
  BY <1>6 DEF Expire, NoNegative, TypeOK
<1>7. ASSUME NEW m \in late, RunLate(m)
      PROVE  NoNegative'
  <2>1. m.key \in Keys /\ m.micro \in Nat
    BY DEF TypeOK, Scripts, NoNegative
  <2>2. \A n \in late' : n.micro \in Nat
    BY <1>7 DEF RunLate, NoNegative
  <2>3. CASE LuaReserve(m.key, m.micro)
    BY <2>1, <2>2, <2>3 DEF LuaReserve, redis, NoNegative, TypeOK
  <2>4. CASE LuaSettle(m.key, m.micro)
    BY <2>1, <2>2, <2>4 DEF LuaSettle, NoNegative, TypeOK
  <2> QED BY <1>7, <2>3, <2>4 DEF RunLate
<1> QED BY <1>1, <1>2, <1>3, <1>4, <1>5, <1>6, <1>7 DEF Next

(* The holds are naturals, one for each key. *)
LEMMA HeldTypes ==
  ASSUME SafeInv
  PROVE  Held \in [Keys -> Nat]
BY DEF SafeInv, NoNegative, Held, HeldBy

(* A reserve script holds, or changes nothing of the ledger (LUA_RESERVE). *)
LEMMA ReserveRefines ==
  ASSUME SafeInv, NEW k \in Keys, NEW micro \in Nat, LuaReserve(k, micro)
  PROVE  \/ Available' = Available /\ Held' = Held
         \/ Ledger!Hold(k, micro)
<1>1. Available \in Nat /\ alloc \in [Keys -> Int \cup {NoAlloc}] /\ NoKey \notin Int
  BY AvailableNat, RedisAssumption DEF SafeInv, TypeInv, TypeOK
<1>2. CASE alloc[k] # NoAlloc
  BY <1>2 DEF LuaReserve, redis, Available, Held, HeldBy
<1>3. CASE alloc[k] = NoAlloc /\ Available < micro
  <2>1. remaining' = Available /\ alloc' = alloc
    BY <1>1, <1>3 DEF LuaReserve
  <2>2. Available' = Available
    BY <1>1, <2>1, RedisAssumption DEF Available
  <2> QED BY <2>1, <2>2 DEF Held, HeldBy
<1>4. CASE alloc[k] = NoAlloc /\ Available >= micro
  <2>1. remaining' = Available - micro /\ alloc' = [alloc EXCEPT ![k] = micro]
    BY <1>1, <1>4 DEF LuaReserve
  <2>2. Available - micro \in Nat
    BY <1>1, <1>4
  <2>3. Available' = Available - micro
    BY <1>1, <2>1, <2>2 DEF Available
  <2>4. Held' = [Held EXCEPT ![k] = micro]
    <3>1. micro # NoAlloc
      BY RedisAssumption
    <3>2. \A j \in Keys : alloc'[j] = IF j = k THEN micro ELSE alloc[j]
      BY <1>1, <2>1
    <3> QED BY <3>1, <3>2 DEF Held, HeldBy
  <2>5. Held[k] = 0
    BY <1>4 DEF Held, HeldBy
  <2> QED BY <1>1, <1>4, <2>3, <2>4, <2>5 DEF Ledger!Hold
<1> QED BY <1>1, <1>2, <1>3, <1>4

(* A settle script releases the hold of its key, or charges what is free
   (LUA_SETTLE). *)
LEMMA SettleRefines ==
  ASSUME SafeInv, NEW k \in Keys, NEW micro \in Nat, LuaSettle(k, micro)
  PROVE  \/ Available' \in 0..Available /\ Ledger!Charge(Available')
         \/ /\ Available' \in 0..(Available + Held[k])
            /\ Ledger!Release(k, Available')
<1>1. /\ Available \in Nat /\ OrZero \in Nat /\ OrZero <= Available
      /\ alloc \in [Keys -> Int \cup {NoAlloc}] /\ NoKey \notin Int /\ NoAlloc \notin Int
  BY AvailableNat, RedisAssumption, TotalNat
     DEF SafeInv, TypeInv, TypeOK, OrZero, Available
<1>2. CASE alloc[k] = NoAlloc
  <2>1. remaining' = AtLeastZero(OrZero - micro) /\ alloc' = alloc
    BY <1>2 DEF LuaSettle
  <2>2. remaining' \in 0..Available
    BY <1>1, <2>1 DEF AtLeastZero
  <2>3. Available' = remaining'
    BY <1>1, <2>2 DEF Available
  <2>4. Held' = Held
    BY <2>1 DEF Held, HeldBy
  <2> QED BY <2>2, <2>3, <2>4 DEF Ledger!Charge
<1>3. CASE alloc[k] # NoAlloc
  <2>1. alloc[k] \in Nat /\ Held[k] = alloc[k]
    BY <1>3 DEF SafeInv, NoNegative, Held, HeldBy
  <2>2. alloc' = [alloc EXCEPT ![k] = NoAlloc]
    BY <1>3 DEF LuaSettle
  <2>3. Held' = [Held EXCEPT ![k] = 0]
    BY <1>1, <2>2 DEF Held, HeldBy
  <2>4. Available' \in 0..(Available + Held[k])
    <3>1. CASE alloc[k] = micro
      <4>1. remaining' = remaining
        BY <1>3, <3>1 DEF LuaSettle
      <4>2. Available' = Available
        BY <4>1 DEF Available
      <4> QED BY <1>1, <2>1, <4>2
    <3>2. CASE alloc[k] # micro
      <4>1. remaining' = AtLeastZero(OrZero + alloc[k] - micro)
        BY <1>3, <3>2 DEF LuaSettle
      <4>2. remaining' \in 0..(Available + alloc[k])
        BY <1>1, <2>1, <4>1 DEF AtLeastZero
      <4>3. Available' = remaining'
        BY <1>1, <4>2 DEF Available
      <4> QED BY <2>1, <4>2, <4>3
    <3> QED BY <3>1, <3>2
  <2> QED BY <2>3, <2>4 DEF Ledger!Release
<1> QED BY <1>2, <1>3

(* Every step of Redis and of its clients is a step of the ledger.         *)
LEMMA NextRefines ==
  ASSUME NonNegativeDesires, SafeInv, [Next]_vars
  PROVE  [Ledger!Next]_<<Available, Held>>
<1> DEFINE Stutter == Available' = Available /\ Held' = Held
<1>1. Ledger!Holders = Keys
  BY DEF Ledger!Holders, Keys
<1>2. ASSUME NEW k \in Keys, NEW micro \in Nat, LuaReserve(k, micro)
      PROVE  Ledger!Next \/ Stutter
  <2>1. Ledger!Hold(k, micro) => micro \in 0..Available
    BY DEF Ledger!Hold
  <2> QED BY <1>1, <1>2, <2>1, ReserveRefines DEF Ledger!Next
<1>3. ASSUME NEW k \in Keys, NEW micro \in Nat, LuaSettle(k, micro)
      PROVE  Ledger!Next \/ Stutter
  BY <1>1, <1>3, SettleRefines DEF Ledger!Next
<1>4. (UNCHANGED redis) => Stutter
  BY DEF redis, Available, Held, HeldBy
<1>5. CASE UNCHANGED vars
  BY <1>4, <1>5 DEF vars, redis
<1>6. ASSUME NEW k \in Keys, NEW d \in Desires, Arbitrate(k, d)
      PROVE  Ledger!Next \/ Stutter
  <2>1. ToMicro(d.ceiling) \in Nat
    BY DesireMicroInt, ToMicroNat DEF NonNegativeDesires
  <2> QED BY <1>2, <1>6, <2>1 DEF Arbitrate
<1>7. ASSUME NEW k \in Keys, NEW d \in Desires, NEW b \in Budgets, ArbitrateFails(k, d, b)
      PROVE  Ledger!Next \/ Stutter
  BY <1>4, <1>7 DEF ArbitrateFails, redis
<1>8. ASSUME NEW k \in Keys, NEW c \in Costs, Settle(k, c)
      PROVE  Ledger!Next \/ Stutter
  BY <1>3, <1>8, ActualMicroNat DEF Settle
<1>9. ASSUME NEW k \in Keys, NEW c \in Costs, SettleFails(k, c)
      PROVE  Ledger!Next \/ Stutter
  BY <1>4, <1>9 DEF SettleFails, redis
<1>10. ASSUME NEW k \in Keys, Expire(k)
       PROVE  Ledger!Next \/ Stutter
  <2>1. /\ alloc \in [Keys -> Int \cup {NoAlloc}] /\ NoAlloc \notin Int
        /\ Available \in Nat /\ Held[k] \in Nat
    BY AvailableNat, HeldTypes, RedisAssumption DEF SafeInv, TypeInv, TypeOK
  <2>2. Held' = [Held EXCEPT ![k] = 0]
    BY <1>10, <2>1 DEF Expire, Held, HeldBy
  <2>3. Available' = Available
    BY <1>10 DEF Expire, Available
  <2>4. Available \in 0..(Available + Held[k])
    BY <2>1
  <2>5. Ledger!Release(k, Available)
    BY <2>2, <2>3, <2>4 DEF Ledger!Release
  <2> QED BY <1>1, <2>4, <2>5 DEF Ledger!Next
<1>11. ASSUME NEW m \in late, RunLate(m)
       PROVE  Ledger!Next \/ Stutter
  <2>1. m.key \in Keys /\ m.micro \in Nat
    BY DEF SafeInv, TypeInv, TypeOK, Scripts, NoNegative
  <2> QED BY <1>2, <1>3, <1>11, <2>1 DEF RunLate
<1>12. Ledger!Next \/ Stutter
  BY <1>5, <1>6, <1>7, <1>8, <1>9, <1>10, <1>11 DEF Next
<1> QED BY <1>12

(* The missing counter stands for the whole budget, free (LUA_RESERVE). *)
LEMMA InitRefines == Init => Ledger!Init
<1> SUFFICES ASSUME Init PROVE Ledger!Init
  OBVIOUS
<1>1. Held = [k \in Keys |-> 0] /\ Available = Total
  BY DEF Init, Held, HeldBy, Available
<1> QED BY <1>1 DEF Ledger!Init, Ledger!Holders, Keys

(* RedisArbiter implements the budget ledger as long as no desired ceiling *)
(* is negative: the two Lua scripts, their failures, retries and late      *)
(* executions and the expiry of records only hold, release and charge.     *)
THEOREM RedisImplementsLedger ==
  ASSUME NonNegativeDesires
  PROVE  Spec => ImplementsLedger
<1>1. Init => SafeInv
  BY InitTypes, InitNoNegative DEF SafeInv
<1>2. SafeInv /\ [Next]_vars => SafeInv'
  BY NextTypes, NextNoNegative DEF SafeInv
<1>3. SafeInv /\ [Next]_vars => [Ledger!Next]_<<Available, Held>>
  BY NextRefines
<1>4. SafeInv /\ [Next]_vars => [Ledger!Next]_(Ledger!ledgerVars)
  BY <1>3 DEF Ledger!ledgerVars
<1> QED BY <1>1, <1>2, <1>4, InitRefines, PTL
         DEF Spec, ImplementsLedger, Ledger!Spec

-----------------------------------------------------------------------------
(* What the ledger promises, whatever moves it, and therefore of Redis. *)

(* The budget and the number of allocation identities are natural numbers  *)
(* (RedisArbiter.__init__ rejects a negative total).                       *)
LEMMA LedgerSizes == NKeys \in Nat /\ Total \in Nat
BY RedisAssumption, TotalNat

(* A ledger never owes: what is free and every hold stay natural numbers. *)
LEMMA LedgerTypes ==
  ASSUME Ledger!TypeOK, BudgetNeverCreated, [Ledger!Next]_(Ledger!ledgerVars)
  PROVE  Available' \in Nat /\ Held' \in [Ledger!Holders -> Nat]
<1>1. CASE UNCHANGED Ledger!ledgerVars
  BY <1>1 DEF Ledger!ledgerVars, Ledger!TypeOK
<1>2. ASSUME NEW k \in Ledger!Holders, NEW amount \in 0..Available, Ledger!Hold(k, amount)
      PROVE  Available' \in Nat /\ Held' \in [Ledger!Holders -> Nat]
  BY LedgerSizes, <1>2 DEF Ledger!Hold, Ledger!TypeOK
<1>3. ASSUME NEW k \in Ledger!Holders, NEW rest \in 0..(Available + Held[k]), Ledger!Release(k, rest)
      PROVE  Available' \in Nat /\ Held' \in [Ledger!Holders -> Nat]
  BY LedgerSizes, <1>3 DEF Ledger!Release, Ledger!TypeOK
<1>4. ASSUME NEW rest \in 0..Available, Ledger!Charge(rest)
      PROVE  Available' \in Nat /\ Held' \in [Ledger!Holders -> Nat]
  BY LedgerSizes, <1>4 DEF Ledger!Charge, Ledger!TypeOK
<1> QED BY <1>1, <1>2, <1>3, <1>4 DEF Ledger!Next

(* One step keeps the total of free and held money within the budget. *)
LEMMA LedgerNeverCreatedStep ==
  ASSUME Ledger!TypeOK, BudgetNeverCreated, [Ledger!Next]_(Ledger!ledgerVars)
  PROVE  BudgetNeverCreated'
<1>1. Held \in [1..NKeys -> Int] /\ SumTo(Held, NKeys) \in Int /\ Available \in Int
  <2>1. Held \in [1..NKeys -> Int] /\ Available \in Int
    BY LedgerSizes DEF Ledger!TypeOK, Ledger!Holders
  <2> QED BY LedgerSizes, <2>1, SumIsInt
<1>2. CASE UNCHANGED Ledger!ledgerVars
  BY <1>2 DEF Ledger!ledgerVars, BudgetNeverCreated
<1>3. ASSUME NEW k \in Ledger!Holders, NEW amount \in 0..Available, Ledger!Hold(k, amount)
      PROVE  BudgetNeverCreated'
  <2>1. k \in 1..NKeys /\ amount \in Int
    BY DEF Ledger!Holders
  <2>2. SumTo([Held EXCEPT ![k] = amount], NKeys) = SumTo(Held, NKeys) - Held[k] + amount
    BY LedgerSizes, <1>1, <2>1, SumUpdate
  <2>3. Available' = Available - amount /\ Held' = [Held EXCEPT ![k] = amount] /\ Held[k] = 0
    BY <1>3 DEF Ledger!Hold
  <2> QED BY LedgerSizes, <1>1, <2>1, <2>2, <2>3 DEF BudgetNeverCreated
<1>4. ASSUME NEW k \in Ledger!Holders, NEW rest \in 0..(Available + Held[k]), Ledger!Release(k, rest)
      PROVE  BudgetNeverCreated'
  <2>1. /\ k \in 1..NKeys /\ Held[k] \in Int
        /\ rest <= Available + Held[k] /\ rest \in Int /\ 0 \in Int
    BY <1>1 DEF Ledger!Holders
  <2>2. SumTo([Held EXCEPT ![k] = 0], NKeys) = SumTo(Held, NKeys) - Held[k] + 0
    BY LedgerSizes, <1>1, <2>1, SumUpdate
  <2>3. Available' = rest /\ Held' = [Held EXCEPT ![k] = 0]
    BY <1>4 DEF Ledger!Release
  <2> QED BY LedgerSizes, <1>1, <2>1, <2>2, <2>3 DEF BudgetNeverCreated
<1>5. ASSUME NEW rest \in 0..Available, Ledger!Charge(rest)
      PROVE  BudgetNeverCreated'
  BY LedgerSizes, <1>1, <1>5 DEF Ledger!Charge, BudgetNeverCreated
<1> QED BY <1>2, <1>3, <1>4, <1>5 DEF Ledger!Next

(* Types follow from the bound: no hold and no free amount exceeds it. *)
LEMMA LedgerBounded ==
  ASSUME NEW f \in Nat, NEW h \in [Ledger!Holders -> Nat],
         f + SumTo(h, NKeys) <= Total
  PROVE  f \in 0..Total /\ h \in [Ledger!Holders -> 0..Total]
<1>1. h \in [1..NKeys -> Nat]
  BY DEF Ledger!Holders
<1>2. SumTo(h, NKeys) \in Nat
  BY LedgerSizes, <1>1, SumIsNat
<1>3. \A k \in 1..NKeys : h[k] <= SumTo(h, NKeys)
  BY LedgerSizes, <1>1, SumBoundsTerm
<1>4. \A k \in Ledger!Holders : h[k] \in 0..Total
  BY LedgerSizes, <1>1, <1>2, <1>3 DEF Ledger!Holders
<1> QED BY LedgerSizes, <1>2, <1>4

(* A new ledger has all of its budget free, and no more. *)
LEMMA LedgerInit ==
  ASSUME Ledger!Init
  PROVE  Ledger!TypeOK /\ BudgetNeverCreated
<1>1. Ledger!TypeOK
  BY LedgerSizes DEF Ledger!Init, Ledger!TypeOK
<1>2. Held \in [1..NKeys -> {0}]
  BY DEF Ledger!Init, Ledger!Holders
<1>3. SumTo(Held, NKeys) = 0
  BY LedgerSizes, <1>2, SumOfZeros
<1> QED BY LedgerSizes, <1>1, <1>3 DEF Ledger!Init, BudgetNeverCreated

(* The abstract specification keeps its promise: what is free and what is  *)
(* held never exceed the budget together, for every number of holders.     *)
LEMMA LedgerSafe ==
  Ledger!Spec => [](Ledger!TypeOK /\ BudgetNeverCreated)
<1>0. Ledger!Init => Ledger!TypeOK /\ BudgetNeverCreated
  BY LedgerInit
<1>1. Ledger!TypeOK /\ BudgetNeverCreated /\ [Ledger!Next]_(Ledger!ledgerVars)
      => Ledger!TypeOK' /\ BudgetNeverCreated'
  <2> SUFFICES ASSUME Ledger!TypeOK, BudgetNeverCreated, [Ledger!Next]_(Ledger!ledgerVars)
               PROVE  Ledger!TypeOK' /\ BudgetNeverCreated'
    OBVIOUS
  <2>1. BudgetNeverCreated' /\ Available' \in Nat /\ Held' \in [Ledger!Holders -> Nat]
    BY LedgerNeverCreatedStep, LedgerTypes
  <2> QED BY <2>1, LedgerBounded DEF Ledger!TypeOK, BudgetNeverCreated
<1> QED BY <1>0, <1>1, PTL DEF Ledger!Spec

(* Neither a refund, a retry, a late script nor an expiry creates money:   *)
(* the counter and the live records never exceed the total budget          *)
(* (LUA_RESERVE, LUA_SETTLE), as long as no desired ceiling is negative.   *)
THEOREM RedisBudgetNeverCreated ==
  ASSUME NonNegativeDesires
  PROVE  Spec => []BudgetNeverCreated
<1>1. Spec => ImplementsLedger
  BY RedisImplementsLedger
<1> QED BY <1>1, LedgerSafe, PTL DEF ImplementsLedger

-----------------------------------------------------------------------------
(* No money disappears, until a settle meets a counter that is not set.    *)

LostInv == TypeInv /\ BudgetNeverLost

(* What the records hold is one amount per allocation identity. *)
LEMMA HeldIntTypes ==
  ASSUME TypeInv
  PROVE  /\ Held \in [1..NKeys -> Int] /\ SumTo(Held, NKeys) \in Int /\ NKeys \in Nat
         /\ Available \in Nat /\ spent \in Nat /\ lapsed \in Int /\ Total \in Nat
<1>1. Held \in [1..NKeys -> Int] /\ NKeys \in Nat
  BY RedisAssumption DEF TypeInv, TypeOK, Held, HeldBy, Keys
<1>2. SumTo(Held, NKeys) \in Int
  BY <1>1, SumIsInt
<1> QED BY <1>1, <1>2, AvailableNat, TotalNat DEF TypeInv, TypeOK

(* Setting or clearing one record changes the sum of the holds by as much. *)
LEMMA HeldUpdate ==
  ASSUME TypeInv, NEW k \in Keys, NEW v \in Int \cup {NoAlloc},
         alloc' = [alloc EXCEPT ![k] = v]
  PROVE  SumTo(Held', NKeys)
           = SumTo(Held, NKeys) - HeldBy(k) + (IF v = NoAlloc THEN 0 ELSE v)
<1> DEFINE w == IF v = NoAlloc THEN 0 ELSE v
<1>1. k \in 1..NKeys /\ w \in Int /\ Held[k] = HeldBy(k)
  BY DEF Keys, Held
<1>2. Held' = [Held EXCEPT ![k] = w]
  <2>1. \A j \in Keys : alloc'[j] = IF j = k THEN v ELSE alloc[j]
    BY DEF TypeInv, TypeOK
  <2> QED BY <2>1 DEF Held, HeldBy
<1> HIDE DEF w
<1>3. SumTo([Held EXCEPT ![k] = w], NKeys) = SumTo(Held, NKeys) - Held[k] + w
  BY <1>1, HeldIntTypes, SumUpdate
<1> QED BY <1>1, <1>2, <1>3 DEF w

(* A record that is deleted holds nothing, the others what they did (DEL). *)
LEMMA HeldCleared ==
  ASSUME TypeInv, NEW k \in Keys, alloc' = [alloc EXCEPT ![k] = NoAlloc],
         alloc[k] \in Int, HeldBy(k) = alloc[k]
  PROVE  SumTo(Held', NKeys) = SumTo(Held, NKeys) - alloc[k]
<1>1. NoAlloc \in Int \cup {NoAlloc}
  OBVIOUS
<1>2. SumTo(Held', NKeys) = SumTo(Held, NKeys) - HeldBy(k)
                              + (IF NoAlloc = NoAlloc THEN 0 ELSE NoAlloc)
  BY <1>1, HeldUpdate
<1> QED BY <1>2, HeldIntTypes

(* A reserve script loses no money (LUA_RESERVE). *)
LEMMA ReserveKeeps ==
  ASSUME LostInv, NEW k \in Keys, NEW micro \in Int, LuaReserve(k, micro),
         UNCHANGED history
  PROVE  BudgetNeverLost'
<1>1. /\ Held \in [1..NKeys -> Int] /\ SumTo(Held, NKeys) \in Int
      /\ Available \in Nat /\ spent \in Nat /\ lapsed \in Int /\ Total \in Nat
  BY HeldIntTypes DEF LostInv
<1>2. /\ alloc \in [Keys -> Int \cup {NoAlloc}] /\ NoKey \notin Int /\ NoAlloc \notin Int
      /\ spent' = spent /\ lapsed' = lapsed /\ cold' = cold
  BY RedisAssumption DEF LostInv, TypeInv, TypeOK, history
<1>3. CASE alloc[k] # NoAlloc
  <2>1. alloc' = alloc /\ remaining' = remaining
    BY <1>3 DEF LuaReserve, redis
  <2>2. Held' = Held /\ Available' = Available
    BY <2>1 DEF Held, HeldBy, Available
  <2> QED BY <1>2, <2>2 DEF LostInv, BudgetNeverLost
<1>4. CASE alloc[k] = NoAlloc /\ Available < micro
  <2>1. alloc' = alloc /\ remaining' = Available
    BY <1>1, <1>4 DEF LuaReserve
  <2>2. remaining' # NoKey
    BY <1>1, <1>2, <2>1
  <2>3. Held' = Held /\ Available' = Available
    BY <2>1, <2>2 DEF Held, HeldBy, Available
  <2> QED BY <1>2, <2>3 DEF LostInv, BudgetNeverLost
<1>5. CASE alloc[k] = NoAlloc /\ Available >= micro
  <2>1. alloc' = [alloc EXCEPT ![k] = micro] /\ remaining' = Available - micro
    BY <1>1, <1>5 DEF LuaReserve
  <2>2. Available - micro \in Int /\ remaining' # NoKey /\ micro # NoAlloc
    BY <1>1, <1>2, <2>1
  <2>3. Available' = Available - micro
    BY <2>1, <2>2 DEF Available
  <2>4. HeldBy(k) = 0
    BY <1>5 DEF HeldBy
  <2>5. SumTo(Held', NKeys) = SumTo(Held, NKeys) + micro
    <3>1. TypeInv /\ micro \in Int \cup {NoAlloc}
      BY DEF LostInv
    <3>2. SumTo(Held', NKeys) = SumTo(Held, NKeys) - HeldBy(k)
                                  + (IF micro = NoAlloc THEN 0 ELSE micro)
      BY <2>1, <3>1, HeldUpdate
    <3> QED BY <1>1, <2>2, <2>4, <3>2
  <2> QED BY <1>1, <1>2, <2>3, <2>5 DEF LostInv, BudgetNeverLost
<1> QED BY <1>1, <1>3, <1>4, <1>5

(* A settle script on a counter that is set loses at most what it reports
   (LUA_SETTLE). *)
LEMMA SettleKeeps ==
  ASSUME LostInv, NEW k \in Keys, NEW micro \in Nat, LuaSettle(k, micro)
  PROVE  BudgetNeverLost'
<1> SUFFICES ASSUME ~cold' PROVE BudgetNeverLost'
  BY DEF BudgetNeverLost
<1>0. remaining # NoKey /\ ~cold
  BY DEF LuaSettle
<1>1. /\ Held \in [1..NKeys -> Int] /\ SumTo(Held, NKeys) \in Int
      /\ Available \in Nat /\ spent \in Nat /\ lapsed \in Int /\ Total \in Nat
  BY HeldIntTypes DEF LostInv
<1>2. /\ alloc \in [Keys -> Int \cup {NoAlloc}] /\ NoKey \notin Int
      /\ spent' = spent + micro /\ lapsed' = lapsed
      /\ remaining = Available /\ OrZero = Available
  BY <1>0, RedisAssumption DEF LostInv, TypeInv, TypeOK, LuaSettle, Available, OrZero
<1>3. CASE alloc[k] = NoAlloc
  <2>1. alloc' = alloc /\ remaining' = AtLeastZero(Available - micro)
    BY <1>2, <1>3 DEF LuaSettle
  <2>2. remaining' \in Nat /\ remaining' >= Available - micro
    BY <1>1, <2>1 DEF AtLeastZero
  <2>3. Available' = remaining' /\ Held' = Held
    BY <1>2, <2>1, <2>2 DEF Available, Held, HeldBy
  <2> QED BY <1>0, <1>1, <1>2, <2>2, <2>3 DEF LostInv, BudgetNeverLost
<1>4. CASE alloc[k] # NoAlloc
  <2>1. alloc[k] \in Int /\ HeldBy(k) = alloc[k] /\ alloc' = [alloc EXCEPT ![k] = NoAlloc]
    BY <1>2, <1>4 DEF LuaSettle, HeldBy
  <2>2. SumTo(Held', NKeys) = SumTo(Held, NKeys) - alloc[k]
    BY <2>1, HeldCleared DEF LostInv
  <2>3. remaining' \in Nat /\ remaining' >= Available + alloc[k] - micro
    BY <1>1, <1>2, <1>4, <2>1 DEF LuaSettle, AtLeastZero
  <2>4. Available' = remaining'
    BY <1>2, <2>3 DEF Available
  <2> QED BY <1>0, <1>1, <1>2, <2>1, <2>2, <2>3, <2>4 DEF LostInv, BudgetNeverLost
<1> QED BY <1>3, <1>4

(* Nothing of the budget is lost before the first script. *)
LEMMA InitNotLost == Init => LostInv
<1> SUFFICES ASSUME Init PROVE LostInv
  OBVIOUS
<1>1. Held \in [1..NKeys -> {0}] /\ Available = Total /\ spent = 0 /\ lapsed = 0
  BY DEF Init, Held, HeldBy, Available, Keys
<1>2. SumTo(Held, NKeys) = 0
  BY <1>1, SumOfZeros, RedisAssumption
<1> QED BY <1>1, <1>2, InitTypes, TotalNat DEF LostInv, BudgetNeverLost

(* No call, late script or expiry loses more than is settled or expires. *)
LEMMA NextNotLost ==
  ASSUME LostInv, [Next]_vars
  PROVE  BudgetNeverLost'
<1>1. CASE UNCHANGED redis /\ UNCHANGED history
  BY <1>1 DEF redis, history, LostInv, BudgetNeverLost, Available, Held, HeldBy
<1>2. ASSUME NEW k \in Keys, NEW d \in Desires, Arbitrate(k, d)
      PROVE  BudgetNeverLost'
  <2>1. ToMicro(d.ceiling) \in Int /\ LuaReserve(k, ToMicro(d.ceiling))
        /\ UNCHANGED history
    BY <1>2, DesireMicroInt DEF Arbitrate, history
  <2> QED BY <2>1, ReserveKeeps
<1>3. ASSUME NEW k \in Keys, NEW c \in Costs, Settle(k, c)
      PROVE  BudgetNeverLost'
  BY <1>3, ActualMicroNat, SettleKeeps DEF Settle
<1>4. ASSUME NEW k \in Keys, Expire(k)
      PROVE  BudgetNeverLost'
  <2>1. /\ alloc[k] \in Int /\ HeldBy(k) = alloc[k]
        /\ alloc' = [alloc EXCEPT ![k] = NoAlloc]
        /\ lapsed' = lapsed + alloc[k] /\ spent' = spent /\ cold' = cold
        /\ Available' = Available
    BY <1>4 DEF Expire, LostInv, TypeInv, TypeOK, HeldBy, Available
  <2>2. SumTo(Held', NKeys) = SumTo(Held, NKeys) - alloc[k]
    BY <2>1, HeldCleared DEF LostInv
  <2> QED BY <2>1, <2>2, HeldIntTypes DEF LostInv, BudgetNeverLost
<1>5. ASSUME NEW m \in late, RunLate(m)
      PROVE  BudgetNeverLost'
  <2>1. m.key \in Keys /\ m.micro \in Int
    BY DEF LostInv, TypeInv, TypeOK, Scripts
  <2>2. CASE LuaReserve(m.key, m.micro) /\ UNCHANGED history
    BY <2>1, <2>2, ReserveKeeps
  <2>3. CASE m.op = "settle" /\ LuaSettle(m.key, m.micro)
    <3>1. m.micro \in Nat
      BY <2>3 DEF LostInv, TypeInv, LateSettlesNat
    <3> QED BY <2>1, <2>3, <3>1, SettleKeeps
  <2> QED BY <1>5, <2>2, <2>3 DEF RunLate
<1>6. ASSUME \/ UNCHANGED vars
             \/ \E k \in Keys, d \in Desires, b \in Budgets : ArbitrateFails(k, d, b)
             \/ \E k \in Keys, c \in Costs : SettleFails(k, c)
      PROVE  UNCHANGED redis /\ UNCHANGED history
  BY <1>6 DEF vars, ArbitrateFails, SettleFails, redis, history
<1> QED BY <1>1, <1>2, <1>3, <1>4, <1>5, <1>6 DEF Next

(* Money leaves the shared budget only as a cost that was settled or as a  *)
(* reservation that expired, for as long as no settle has come before the  *)
(* first reserve (LUA_SETTLE takes a missing counter for an empty one).    *)
THEOREM RedisBudgetNeverLost == Spec => []BudgetNeverLost
<1>1. LostInv /\ [Next]_vars => LostInv'
  BY NextTypes, NextNotLost DEF LostInv
<1>2. LostInv => BudgetNeverLost
  BY DEF LostInv
<1> QED BY <1>1, <1>2, InitNotLost, PTL DEF Spec

-----------------------------------------------------------------------------
(* A step that asks once.                                                  *)

\* May a reserve script of the step still run?
ReservePending(k) == \E m \in late : m.op = "reserve" /\ m.key = k

\* Before a step asks, nothing is reserved for it; and once it is told that
\* its reservation stands, no other script can make it one.
AsksOnce(k) ==
  /\ grant[k] = NoGrant => alloc[k] = NoAlloc /\ ~ReservePending(k)
  /\ (grant[k] # NoGrant /\ grant[k].by = "reserved") =>
       /\ ~ReservePending(k)
       /\ alloc[k] # NoAlloc => alloc[k] = ToMicro(grant[k].ceiling)

BackedInv == TypeInv /\ \A k \in Keys \ Retries : AsksOnce(k)

(* A script that was sent for one step says nothing of the others. *)
LEMMA OthersBacked ==
  ASSUME NEW k \in Keys, AsksOnce(k),
         grant'[k] = grant[k],
         alloc'[k] = alloc[k] \/ alloc'[k] = NoAlloc,
         \A m \in late' : m \in late \/ m.key # k \/ m.op # "reserve"
  PROVE  AsksOnce(k)'
BY DEF AsksOnce, ReservePending

(* A reserve or settle script touches the record of its own step only. *)
LEMMA ScriptIsLocal ==
  ASSUME TypeOK, NEW j \in Keys, NEW k \in Keys, NEW micro \in Int,
         LuaReserve(j, micro) \/ LuaSettle(j, micro)
  PROVE  k # j => alloc'[k] = alloc[k]
BY DEF TypeOK, LuaReserve, LuaSettle, redis

(* arbitrate, answered by Redis: the record made is the ceiling granted. *)
LEMMA ArbitrateBacks ==
  ASSUME BackedInv, NEW j \in Keys, NEW d \in Desires, Arbitrate(j, d),
         NEW k \in Keys \ Retries
  PROVE  AsksOnce(k)'
<1>1. /\ k \in Keys /\ AsksOnce(k) /\ late' = late /\ d.ceiling \in Int
      /\ ToMicro(d.ceiling) \in Int /\ LuaReserve(j, ToMicro(d.ceiling))
      /\ grant \in [Keys -> Grants \cup {NoGrant}]
      /\ alloc \in [Keys -> Int \cup {NoAlloc}]
  BY DesireMicroInt DEF BackedInv, TypeInv, TypeOK, Arbitrate
<1>2. CASE k # j
  <2>1. grant'[k] = grant[k]
    BY <1>1, <1>2 DEF Arbitrate
  <2>2. alloc'[k] = alloc[k]
    BY <1>1, <1>2, ScriptIsLocal DEF BackedInv, TypeInv
  <2> QED BY <1>1, <2>1, <2>2, OthersBacked
<1>3. CASE k = j
  <2>1. grant[k] = NoGrant /\ alloc[k] = NoAlloc /\ ~ReservePending(k)
    BY <1>1, <1>3 DEF Arbitrate, MayArbitrate, AsksOnce
  <2>2. ~ReservePending(k)'
    BY <1>1, <2>1 DEF ReservePending
  <2>3. CASE Available < ToMicro(d.ceiling)
    <3>1. grant'[k] = [ceiling |-> FromMicro(Available), by |-> "insufficient"]
      BY <1>1, <1>3, <2>1, <2>3 DEF Arbitrate
    <3>2. FromMicro(Available) \in Int
      BY AvailableNat, RedisAssumption DEF FromMicro, BackedInv, TypeInv
    <3>3. grant'[k] # NoGrant /\ grant'[k].by # "reserved"
      BY <3>1, <3>2, RedisAssumption DEF Grants
    <3> QED BY <3>3 DEF AsksOnce
  <2>4. CASE ~(Available < ToMicro(d.ceiling))
    <3>1. grant'[k] = [ceiling |-> d.ceiling, by |-> "reserved"]
      BY <1>1, <1>3, <2>1, <2>4 DEF Arbitrate
    <3>2. grant'[k] # NoGrant /\ grant'[k].ceiling = d.ceiling
      BY <1>1, <3>1, RedisAssumption DEF Grants
    <3>3. alloc'[k] = ToMicro(d.ceiling)
      BY <1>1, <1>3, <2>1, <2>4 DEF LuaReserve
    <3> QED BY <2>2, <3>2, <3>3 DEF AsksOnce
  <2> QED BY <2>3, <2>4
<1> QED BY <1>2, <1>3

(* arbitrate, answered by the fallback: no reservation is claimed, though  *)
(* one may still be made.                                                  *)
LEMMA FallbackBacks ==
  ASSUME BackedInv, NEW j \in Keys, NEW d \in Desires, NEW b \in Budgets,
         ArbitrateFails(j, d, b), NEW k \in Keys \ Retries
  PROVE  AsksOnce(k)'
<1>1. /\ k \in Keys /\ AsksOnce(k) /\ alloc' = alloc
      /\ grant \in [Keys -> Grants \cup {NoGrant}]
      /\ grant' = [grant EXCEPT ![j] = Fallback(d, b)]
  BY DEF BackedInv, TypeInv, TypeOK, ArbitrateFails
<1>2. CASE k # j
  <2>1. grant'[k] = grant[k]
    BY <1>1, <1>2
  <2>2. \A m \in late' : m \in late \/ m.key # k
    BY <1>2 DEF ArbitrateFails, MayRunLate
  <2> QED BY <1>1, <2>1, <2>2, OthersBacked
<1>3. CASE k = j
  <2>1. grant'[k] = Fallback(d, b)
    BY <1>1, <1>3
  <2>2. Fallback(d, b) # NoGrant
    BY FallbackIsGrant, RedisAssumption
  <2>3. Fallback(d, b).by # "reserved"
    BY DEF Fallback
  <2> QED BY <2>1, <2>2, <2>3 DEF AsksOnce
<1> QED BY <1>2, <1>3

(* No step is told of a reservation before the first call. *)
LEMMA InitBacked == Init => BackedInv
<1> SUFFICES ASSUME Init PROVE BackedInv
  OBVIOUS
<1>1. \A k \in Keys : AsksOnce(k)
  BY DEF Init, AsksOnce, ReservePending
<1> QED BY <1>1, InitTypes DEF BackedInv

(* Whatever runs next, a step that asks once is backed or holds nothing. *)
LEMMA NextBacked ==
  ASSUME BackedInv, [Next]_vars, NEW k \in Keys \ Retries
  PROVE  AsksOnce(k)'
<1>0. k \in Keys /\ AsksOnce(k) /\ TypeOK
  BY DEF BackedInv, TypeInv
<1>1. CASE UNCHANGED vars
  BY <1>0, <1>1, OthersBacked DEF vars
<1>2. ASSUME NEW j \in Keys, NEW d \in Desires, Arbitrate(j, d)
      PROVE  AsksOnce(k)'
  BY <1>2, ArbitrateBacks
<1>3. ASSUME NEW j \in Keys, NEW d \in Desires, NEW b \in Budgets, ArbitrateFails(j, d, b)
      PROVE  AsksOnce(k)'
  BY <1>3, FallbackBacks
<1>4. ASSUME NEW j \in Keys, NEW c \in Costs, Settle(j, c)
      PROVE  AsksOnce(k)'
  <2>1. grant' = grant /\ late' = late
    BY <1>4 DEF Settle
  <2>2. alloc'[k] = alloc[k] \/ alloc'[k] = NoAlloc
    BY <1>0, <1>4 DEF Settle, LuaSettle, TypeOK
  <2> QED BY <1>0, <2>1, <2>2, OthersBacked
<1>5. ASSUME NEW j \in Keys, NEW c \in Costs, SettleFails(j, c)
      PROVE  AsksOnce(k)'
  <2>1. grant' = grant /\ alloc' = alloc
    BY <1>5 DEF SettleFails
  <2>2. \A m \in late' : m \in late \/ m.op # "reserve"
    BY <1>5 DEF SettleFails, MayRunLate
  <2> QED BY <1>0, <2>1, <2>2, OthersBacked
<1>6. ASSUME NEW j \in Keys, Expire(j)
      PROVE  AsksOnce(k)'
  <2>1. grant' = grant /\ late' = late
    BY <1>6 DEF Expire
  <2>2. alloc'[k] = alloc[k] \/ alloc'[k] = NoAlloc
    BY <1>0, <1>6 DEF Expire, TypeOK
  <2> QED BY <1>0, <2>1, <2>2, OthersBacked
<1>7. ASSUME NEW m \in late, RunLate(m)
      PROVE  AsksOnce(k)'
  <2>1. /\ m.key \in Keys /\ m.micro \in Int /\ grant' = grant
        /\ \A n \in late' : n \in late
    BY <1>0, <1>7 DEF RunLate, TypeOK, Scripts
  <2>2. CASE m.op = "settle" /\ LuaSettle(m.key, m.micro)
    <3>1. alloc'[k] = alloc[k] \/ alloc'[k] = NoAlloc
      BY <1>0, <2>1, <2>2 DEF LuaSettle, TypeOK
    <3> QED BY <1>0, <2>1, <3>1, OthersBacked
  <2>3. CASE m.op = "reserve" /\ LuaReserve(m.key, m.micro)
    <3>1. CASE k # m.key
      <4>1. alloc'[k] = alloc[k]
        BY <1>0, <2>1, <2>3, <3>1, ScriptIsLocal
      <4> QED BY <1>0, <2>1, <4>1, OthersBacked
    <3>2. CASE k = m.key
      <4>1. ReservePending(k)
        BY <2>3, <3>2 DEF ReservePending
      <4>2. grant'[k] # NoGrant /\ grant'[k].by # "reserved"
        BY <1>0, <2>1, <4>1 DEF AsksOnce
      <4> QED BY <4>2 DEF AsksOnce
    <3> QED BY <3>1, <3>2
  <2> QED BY <1>7, <2>2, <2>3 DEF RunLate
<1> QED BY <1>1, <1>2, <1>3, <1>4, <1>5, <1>6, <1>7 DEF Next

(* A step that asks once and is told that its reservation stands has one   *)
(* of the size of its ceiling, to the nearest microdollar, until it        *)
(* expires or is settled: a late reserve script cannot change it, because  *)
(* one is pending only after an error, and then the fallback has granted   *)
(* (arbitrate).  A step that asks again may be told so wrongly.            *)
THEOREM RedisGrantsBacked == Spec => []ReservedGrantIsBacked
<1>1. BackedInv /\ [Next]_vars => BackedInv'
  BY NextTypes, NextBacked DEF BackedInv
<1>2. BackedInv => ReservedGrantIsBacked
  BY DEF BackedInv, AsksOnce, ReservedGrantIsBacked
<1> QED BY <1>1, <1>2, InitBacked, PTL DEF Spec

=============================================================================
