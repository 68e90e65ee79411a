----------------------------- MODULE DataLemmas -----------------------------
(***************************************************************************)
(* Facts about data that the proofs of several components need: induction  *)
(* on the naturals and functions defined by recursion, remainders,         *)
(* sequences whose elements all differ, and windows, the parts of a ring   *)
(* that are in use.                                                        *)
(***************************************************************************)
EXTENDS Integers, Sequences, FiniteSets, Functions, SequenceTheorems,
        FiniteSetTheorems, TLAPS

-----------------------------------------------------------------------------
(* Induction and recursion.                                                *)

\* Induction on the naturals, with a set in the place of a predicate.
LEMMA SetInduction ==
  ASSUME NEW S, 0 \in S, \A n \in Nat : n \in S => n + 1 \in S
  PROVE  Nat \subseteq S
<1> SUFFICES ASSUME Nat \ S # {} PROVE FALSE
  OBVIOUS
<1> DEFINE T == Nat \ S
<1>1. T \subseteq Nat /\ T # {}
  OBVIOUS
<1> HIDE DEF T
<1>2. PICK n \in T : \A m \in T : <<m, n>> \notin OpToRel(<, Nat)
  BY <1>1, WFMin, NatLessThanWellFounded
<1>3. \A m \in T : ~(m < n)
  BY <1>1, <1>2 DEF OpToRel
<1>4. n # 0 /\ n \in Nat
  BY DEF T
<1>5. n - 1 \in Nat /\ n - 1 < n
  BY <1>4
<1>6. n - 1 \in S
  BY <1>3, <1>5 DEF T
<1>7. n \in S
  BY <1>4, <1>5, <1>6
<1> QED
  BY <1>7 DEF T

\* The function g follows step from a up to n.
Follows(g, n, a, step) ==
  \A i \in 0..n : g[i] = IF i = 0 THEN a ELSE step[i][g[i - 1]]

\* A function defined by a step from each number to the next exists.
LEMMA Recursion ==
  ASSUME NEW V, NEW a \in V, NEW N \in Nat, NEW step \in [1..N -> [V -> V]]
  PROVE  \E g \in [0..N -> V] : Follows(g, N, a, step)
<1> DEFINE P(n) == n <= N => \E g \in [0..n -> V] : Follows(g, n, a, step)
           S == {n \in Nat : P(n)}
<1>1. P(0)
  <2> DEFINE g == [i \in 0..0 |-> a]
  <2>1. g \in [0..0 -> V] /\ Follows(g, 0, a, step)
    BY DEF Follows
  <2> QED
    BY <2>1
<1>2. ASSUME NEW n \in Nat, P(n)
      PROVE  P(n + 1)
  <2> SUFFICES ASSUME n + 1 <= N
               PROVE  \E g \in [0..(n + 1) -> V] : Follows(g, n + 1, a, step)
    OBVIOUS
  <2>1. PICK g \in [0..n -> V] : Follows(g, n, a, step)
    BY <1>2
  <2> DEFINE v == step[n + 1][g[n]]
             h == [i \in 0..(n + 1) |-> IF i = n + 1 THEN v ELSE g[i]]
  <2>2. v \in V
    <3>1. g[n] \in V /\ n + 1 \in 1..N
      BY <2>1
    <3>2. step[n + 1] \in [V -> V]
      BY <3>1
    <3> QED
      BY <3>1, <3>2
  <2> HIDE DEF v
  <2>3. h \in [0..(n + 1) -> V]
    BY <2>1, <2>2
  <2>4. ASSUME NEW i \in 0..(n + 1)
        PROVE  h[i] = IF i = 0 THEN a ELSE step[i][h[i - 1]]
    <3>1. CASE i = n + 1
      <4>1. i - 1 \in 0..(n + 1) /\ i - 1 = n /\ i - 1 # n + 1 /\ i # 0
        BY <3>1
      <4>2. h[i - 1] = g[n] /\ h[i] = v
        BY <3>1, <4>1
      <4> QED
        BY <3>1, <4>1, <4>2 DEF v
    <3>2. CASE i \in 0..n
      <4>1. h[i] = g[i]
        BY <3>2
      <4>2. i # 0 => h[i - 1] = g[i - 1]
        BY <3>2
      <4>3. g[i] = IF i = 0 THEN a ELSE step[i][g[i - 1]]
        BY <2>1, <3>2 DEF Follows
      <4> QED
        BY <4>1, <4>2, <4>3
    <3> QED
      BY <3>1, <3>2
  <2>5. Follows(h, n + 1, a, step)
    BY <2>4 DEF Follows
  <2> QED
    BY <2>3, <2>5
<1> HIDE DEF P
<1>3. Nat \subseteq S
  <2>1. 0 \in S /\ \A n \in Nat : n \in S => n + 1 \in S
    BY <1>1, <1>2
  <2> HIDE DEF S
  <2> QED
    BY <2>1, SetInduction
<1>4. P(N)
  <2>1. N \in S
    BY <1>3 DEF S
  <2> QED
    BY <2>1
<1> QED
  BY <1>4 DEF P

\* The function that begins with 1 and doubles exists.
LEMMA Doubling == \E f \in [Nat -> Nat] : f[0] = 1 /\ \A n \in Nat : f[n + 1] = 2 * f[n]
<1> DEFINE Part(g, n) == g \in [0..n -> Nat] /\ g[0] = 1 /\ \A i \in 1..n : g[i] = 2 * g[i - 1]
<1>1. ASSUME NEW n \in Nat PROVE \E g : Part(g, n)
  <2> DEFINE step == [i \in 1..n |-> [v \in Nat |-> 2 * v]]
  <2>1. step \in [1..n -> [Nat -> Nat]]
    OBVIOUS
  <2>2. PICK g \in [0..n -> Nat] : Follows(g, n, 1, step)
    <3> HIDE DEF step
    <3> QED
      BY <2>1, Recursion
  <2> HIDE DEF step
  <2>3. g[0] = 1
    <3>1. 0 \in 0..n
      OBVIOUS
    <3> QED
      BY <2>2, <3>1 DEF Follows
  <2>4. ASSUME NEW i \in 1..n PROVE g[i] = 2 * g[i - 1]
    <3>1. i \in 0..n /\ i # 0 /\ i - 1 \in 0..n
      OBVIOUS
    <3>2. g[i] = step[i][g[i - 1]] /\ g[i - 1] \in Nat
      BY <2>2, <3>1 DEF Follows
    <3> QED
      BY <3>2 DEF step
  <2> QED
    BY <2>2, <2>3, <2>4
<1>2. ASSUME NEW m \in Nat, NEW n \in Nat, NEW g, NEW h, Part(g, m), Part(h, n)
      PROVE  \A i \in Nat : i <= m /\ i <= n => g[i] = h[i]
  <2> DEFINE S == {i \in Nat : i <= m /\ i <= n => g[i] = h[i]}
  <2>1. 0 \in S
    BY <1>2
  <2>2. ASSUME NEW i \in Nat, i \in S PROVE i + 1 \in S
    <3> SUFFICES ASSUME i + 1 <= m, i + 1 <= n PROVE g[i + 1] = h[i + 1]
      OBVIOUS
    <3>1. i + 1 \in 1..m /\ i + 1 \in 1..n /\ (i + 1) - 1 = i
      OBVIOUS
    <3> QED
      BY <1>2, <2>2, <3>1
  <2>3. Nat \subseteq S
    <3> HIDE DEF S
    <3> QED
      BY <2>1, <2>2, SetInduction
  <2> QED
    BY <2>3
<1> DEFINE G(n) == CHOOSE g : Part(g, n)
           f == [n \in Nat |-> G(n)[n]]
<1>3. \A n \in Nat : Part(G(n), n)
  BY <1>1
<1> HIDE DEF G
<1>4. f \in [Nat -> Nat]
  BY <1>3
<1>5. f[0] = 1
  BY <1>3
<1>6. ASSUME NEW n \in Nat PROVE f[n + 1] = 2 * f[n]
  <2>1. G(n + 1)[n + 1] = 2 * G(n + 1)[n]
    <3>1. n + 1 \in 1..(n + 1) /\ (n + 1) - 1 = n /\ n + 1 \in Nat
      OBVIOUS
    <3> QED
      BY <1>3, <3>1
  <2>2. G(n + 1)[n] = G(n)[n]
    <3>1. Part(G(n + 1), n + 1) /\ Part(G(n), n) /\ n + 1 \in Nat
      BY <1>3
    <3> HIDE DEF Part
    <3>2. \A i \in Nat : i <= n + 1 /\ i <= n => G(n + 1)[i] = G(n)[i]
      BY <1>2, <3>1
    <3>3. n <= n + 1 /\ n <= n
      OBVIOUS
    <3> QED
      BY <3>2, <3>3
  <2> QED
    BY <2>1, <2>2
<1> QED
  BY <1>4, <1>5, <1>6

-----------------------------------------------------------------------------
(* Remainders.                                                             *)

LEMMA DivMod ==
  ASSUME NEW s \in Nat \ {0}, NEW a \in Int
  PROVE  /\ a \div s \in Int
         /\ a % s \in 0..(s - 1)
         /\ a = s * (a \div s) + (a % s)
OBVIOUS

LEMMA Times ==
  ASSUME NEW s \in Nat \ {0}, NEW q \in Int
  PROVE  /\ q >= 1 => s * q >= s
         /\ q <= -1 => s * q <= -s
         /\ s * q \in Int
OBVIOUS

LEMMA ModUnique ==
  ASSUME NEW s \in Nat \ {0}, NEW q \in Int, NEW r \in 0..(s - 1)
  PROVE  (s * q + r) % s = r
OBVIOUS

LEMMA ModDiffer ==
  ASSUME NEW s \in Nat \ {0}, NEW a \in Int, NEW b \in Int, a < b, b - a < s
  PROVE  a % s # b % s
<1> DEFINE qa == a \div s
           qb == b \div s
<1>1. a = s * qa + (a % s) /\ b = s * qb + (b % s) /\ qa \in Int /\ qb \in Int
  BY DivMod
<1> SUFFICES ASSUME a % s = b % s PROVE FALSE
  OBVIOUS
<1>2. a % s \in Int
  BY DivMod
<1> HIDE DEF qa, qb
<1>3. b - a = s * (qb - qa)
  BY <1>1, <1>2
<1> QED
  BY <1>1, <1>3, Times

LEMMA ModShift ==
  ASSUME NEW s \in Nat \ {0}, NEW a \in Int, NEW b \in Int, a % s = b % s, NEW k \in Int
  PROVE  (a + k) % s = (b + k) % s
<1> DEFINE qa == a \div s
           qb == b \div s
           qk == (b + k) \div s
           r == (b + k) % s
<1>1. a = s * qa + (a % s) /\ b = s * qb + (b % s) /\ b + k = s * qk + r
  BY DivMod
<1>2. qa \in Int /\ qb \in Int /\ qk \in Int /\ r \in 0..(s - 1) /\ a % s \in Int
  BY DivMod
<1> HIDE DEF qa, qb, qk, r
<1>3. a + k = s * (qa - qb + qk) + r
  BY <1>1, <1>2
<1>4. (s * (qa - qb + qk) + r) % s = r
  BY <1>2, ModUnique
<1> QED
  BY <1>3, <1>4 DEF r

LEMMA ModMod ==
  ASSUME NEW s \in Nat \ {0}, NEW m \in Nat \ {0}, m % s = 0, NEW a \in Int
  PROVE  (a % m) % s = a % s
<1> DEFINE q == a \div m
           c == m \div s
           r == a % m
           t == r % s
           d == r \div s
<1>1. a = m * q + r /\ m = s * c /\ r = s * d + t
  BY DivMod
<1>2. q \in Int /\ c \in Int /\ r \in Int /\ t \in 0..(s - 1) /\ d \in Int
  BY DivMod
<1> HIDE DEF q, c, r, t, d
<1>3. a = s * (c * q + d) + t
  <2>1. a = (s * c) * q + s * d + t
    BY <1>1, <1>2
  <2>2. (s * c) * q = s * (c * q)
    BY <1>2
  <2>3. c * q \in Int
    BY <1>2
  <2> QED
    BY <1>2, <2>1, <2>2, <2>3
<1>4. (s * (c * q + d) + t) % s = t
  <2>1. c * q + d \in Int
    BY <1>2
  <2> QED
    BY <1>2, <2>1, ModUnique
<1> QED
  BY <1>3, <1>4 DEF t, r

LEMMA DivUnique ==
  ASSUME NEW s \in Nat \ {0}, NEW a \in Int, NEW q \in Int, NEW r \in 0..(s - 1), a = s * q + r
  PROVE  a \div s = q /\ a % s = r
OBVIOUS

\* Multiples of the divisor go to the quotient.
LEMMA ModPlus ==
  ASSUME NEW s \in Nat \ {0}, NEW a \in Int, NEW k \in Int
  PROVE  (a + s * k) % s = a % s /\ (a + s * k) \div s = (a \div s) + k
<1> DEFINE q == a \div s
           r == a % s
<1>1. q \in Int /\ r \in 0..(s - 1) /\ a = s * q + r
  BY DivMod
<1> HIDE DEF q, r
<1>2. a + s * k = s * (q + k) + r /\ s * k \in Int
  BY <1>1
<1>3. (a + s * k) \div s = q + k /\ (a + s * k) % s = r
  BY <1>1, <1>2, DivUnique
<1> QED
  BY <1>3 DEF q, r

LEMMA DivDiv ==
  ASSUME NEW s \in Nat \ {0}, NEW t \in Nat \ {0}, NEW a \in Int
  PROVE  (a \div s) \div t = a \div (s * t)
<1> DEFINE q == a \div s
           r == a % s
           p == q \div t
           u == q % t
<1>1. q \in Int /\ r \in 0..(s - 1) /\ a = s * q + r /\ p \in Int /\ u \in 0..(t - 1) /\ q = t * p + u
  BY DivMod
<1> HIDE DEF q, r, p, u
<1>2. a = (s * t) * p + (s * u + r)
  BY <1>1
<1>3. s * u + r \in 0..(s * t - 1) /\ s * t \in Nat \ {0}
  <2>1. s * u <= s * (t - 1) /\ s * u >= 0
    BY <1>1
  <2> QED
    BY <1>1, <2>1
<1>4. a \div (s * t) = p
  BY <1>1, <1>2, <1>3, DivUnique
<1> QED
  BY <1>4 DEF p, q

\* Numbers with the same remainder.
LEMMA ModEqual ==
  ASSUME NEW s \in Nat \ {0}, NEW a \in Int, NEW b \in Int
  PROVE  (a - b) % s = 0 <=> a % s = b % s
<1> DEFINE qa == a \div s
           ra == a % s
           qb == b \div s
           rb == b % s
<1>1. /\ qa \in Int /\ ra \in 0..(s - 1) /\ a = s * qa + ra
      /\ qb \in Int /\ rb \in 0..(s - 1) /\ b = s * qb + rb
  BY DivMod
<1> HIDE DEF qa, ra, qb, rb
<1>2. ASSUME ra = rb PROVE (a - b) % s = 0
  <2>1. a - b = s * (qa - qb) + 0
    BY <1>1, <1>2
  <2> QED
    BY <1>1, <2>1, DivUnique
<1>3. ASSUME (a - b) % s = 0 PROVE ra = rb
  <2>1. PICK c \in Int : a - b = s * c
    BY <1>1, <1>3, DivMod
  <2>2. a = s * (qb + c) + rb /\ qb + c \in Int
    BY <1>1, <2>1
  <2>3. a % s = rb
    BY <1>1, <2>2, DivUnique
  <2> QED
    BY <2>3 DEF ra
<1> QED
  BY <1>2, <1>3 DEF ra, rb

LEMMA ModLess ==
  ASSUME NEW s \in Nat \ {0}, NEW n \in Int
  PROVE  ((n % s) - n) % s = 0 /\ n % s \in 0..(s - 1)
<1>1. PICK r \in 0..(s - 1) : r = n % s
  BY DivMod
<1>2. r = s * 0 + r
  OBVIOUS
<1>3. r % s = r
  BY <1>2, DivUnique
<1>4. r \in Int /\ r % s = n % s
  BY <1>1, <1>3
<1>5. (r - n) % s = 0
  BY <1>4, ModEqual
<1> QED
  BY <1>1, <1>5

\* Products of numbers with the same remainder.
LEMMA ModTimes ==
  ASSUME NEW s \in Nat \ {0}, NEW a \in Int, NEW b \in Int, NEW c \in Int, a % s = b % s
  PROVE  (a * c) % s = (b * c) % s
<1>1. PICK k \in Int : a - b = s * k
  <2>1. PICK n \in Int : n = a - b
    OBVIOUS
  <2>2. n % s = 0
    BY <2>1, ModEqual
  <2>3. n \div s \in Int /\ n = s * (n \div s) + (n % s)
    BY DivMod
  <2>4. n = s * (n \div s)
    BY <2>2, <2>3
  <2> QED
    BY <2>1, <2>3, <2>4
<1> DEFINE d == b * c
           e == k * c
<1>2. a * c = d + s * e /\ d \in Int /\ e \in Int
  <2>1. a = b + s * k
    BY <1>1
  <2> QED
    BY <2>1
<1> HIDE DEF e
<1>3. (d + s * e) % s = d % s
  <2> HIDE DEF d
  <2> QED
    BY <1>2, ModPlus
<1> QED
  BY <1>2, <1>3

\* A remainder is the number itself when that is small.
LEMMA ModSmall ==
  ASSUME NEW s \in Nat \ {0}, NEW a \in 0..(s - 1)
  PROVE  a % s = a /\ a \div s = 0
<1>1. a = s * 0 + a
  OBVIOUS
<1> QED
  BY <1>1, DivUnique

-----------------------------------------------------------------------------
(* Sequences.                                                              *)

LEMMA RangeOf ==
  ASSUME NEW S, NEW s \in Seq(S), NEW v
  PROVE  v \in Range(s) <=> \E i \in 1..Len(s) : s[i] = v
BY RangeEquality

LEMMA InjectiveSeq ==
  ASSUME NEW S, NEW s \in Seq(S)
  PROVE  IsInjective(s) <=> \A i, j \in 1..Len(s) : s[i] = s[j] => i = j
BY LenProperties DEF IsInjective

LEMMA RangeAppend ==
  ASSUME NEW S, NEW s \in Seq(S), NEW v \in S
  PROVE  /\ Range(Append(s, v)) = Range(s) \cup {v}
         /\ IsInjective(Append(s, v)) <=> IsInjective(s) /\ v \notin Range(s)
<1> DEFINE t == Append(s, v)
           n == Len(s)
<1>1. /\ t \in Seq(S) /\ Len(t) = n + 1
      /\ \A i \in 1..n : t[i] = s[i]
      /\ t[n + 1] = v
      /\ n \in Nat
  BY AppendProperties, LenProperties
<1> HIDE DEF t
<1>2. \A i : i \in 1..(n + 1) <=> i \in 1..n \/ i = n + 1
  BY <1>1
<1> HIDE DEF n
<1>3. Range(t) = {t[i] : i \in 1..(n + 1)} /\ Range(s) = {s[i] : i \in 1..n}
  BY <1>1, RangeEquality DEF n
<1>4. Range(t) = Range(s) \cup {v}
  BY <1>1, <1>2, <1>3
<1>5. IsInjective(s) <=> \A i, j \in 1..n : s[i] = s[j] => i = j
  BY InjectiveSeq DEF n
<1>6. IsInjective(t) <=> \A i, j \in 1..(n + 1) : t[i] = t[j] => i = j
  BY <1>1, InjectiveSeq
<1>7. n + 1 \notin 1..n
  BY <1>1
<1>8. IsInjective(t) <=> IsInjective(s) /\ v \notin Range(s)
  BY <1>1, <1>2, <1>3, <1>5, <1>6, <1>7
<1> QED
  BY <1>4, <1>8 DEF t

LEMMA RangeTail ==
  ASSUME NEW S, NEW s \in Seq(S), s # <<>>
  PROVE  /\ Head(s) \in Range(s)
         /\ Range(s) = {Head(s)} \cup Range(Tail(s))
         /\ IsInjective(s) => IsInjective(Tail(s)) /\ Head(s) \notin Range(Tail(s))
<1> DEFINE t == Tail(s)
           n == Len(s)
<1>1. /\ t \in Seq(S) /\ Len(t) = n - 1
      /\ \A i \in 1..(n - 1) : t[i] = s[i + 1]
      /\ n \in Nat \ {0}
      /\ Head(s) = s[1]
  BY HeadTailProperties, EmptySeq
<1> HIDE DEF t
<1>2. \A i : i \in 1..n <=> i = 1 \/ (i - 1 \in 1..(n - 1) /\ i \in Nat)
  BY <1>1
<1>3. \A i \in 1..(n - 1) : i + 1 \in 1..n /\ i + 1 # 1
  BY <1>1
<1>4. \A i \in 1..n : i # 1 => i - 1 \in 1..(n - 1) /\ (i - 1) + 1 = i
  BY <1>1
<1>5. \A i, j \in 1..(n - 1) : i + 1 = j + 1 => i = j
  OBVIOUS
<1> HIDE DEF n
<1>6. Range(s) = {s[i] : i \in 1..n} /\ Range(t) = {t[i] : i \in 1..(n - 1)}
  BY <1>1, RangeEquality DEF n
<1>7. 1 \in 1..n
  BY <1>1
<1>8. Head(s) \in Range(s) /\ Range(t) \subseteq Range(s)
  BY <1>1, <1>3, <1>6, <1>7
<1>9. Range(s) \subseteq {Head(s)} \cup Range(t)
  <2> SUFFICES ASSUME NEW i \in 1..n, i # 1
               PROVE  s[i] \in Range(t)
    BY <1>1, <1>6
  <2>1. t[i - 1] = s[i]
    BY <1>1, <1>4
  <2> QED
    BY <1>4, <1>6, <2>1
<1>10. ASSUME IsInjective(s)
       PROVE  IsInjective(t) /\ Head(s) \notin Range(t)
  <2>1. \A i, j \in 1..n : s[i] = s[j] => i = j
    BY <1>10, InjectiveSeq DEF n
  <2>2. \A i, j \in 1..(n - 1) : t[i] = t[j] => i = j
    BY <1>1, <1>3, <1>5, <2>1
  <2>3. IsInjective(t)
    BY <1>1, <2>2, InjectiveSeq
  <2>4. Head(s) \notin Range(t)
    BY <1>1, <1>3, <1>6, <1>7, <2>1
  <2> QED
    BY <2>3, <2>4
<1> QED
  BY <1>8, <1>9, <1>10 DEF t

LEMMA InjectiveConcat ==
  ASSUME NEW S, NEW s \in Seq(S), NEW t \in Seq(S)
  PROVE  IsInjective(s \o t)
           <=> IsInjective(s) /\ IsInjective(t) /\ Range(s) \cap Range(t) = {}
<1> DEFINE u == s \o t
           m == Len(s)
           n == Len(t)
<1>1. /\ u \in Seq(S) /\ Len(u) = m + n
      /\ \A i \in 1..(m + n) : u[i] = IF i <= m THEN s[i] ELSE t[i - m]
      /\ m \in Nat /\ n \in Nat
  BY ConcatProperties, LenProperties
<1> HIDE DEF u
<1>2. IsInjective(u) <=> \A i, j \in 1..(m + n) : u[i] = u[j] => i = j
  BY <1>1, InjectiveSeq
<1>3. IsInjective(s) <=> \A i, j \in 1..m : s[i] = s[j] => i = j
  BY InjectiveSeq
<1>4. IsInjective(t) <=> \A i, j \in 1..n : t[i] = t[j] => i = j
  BY InjectiveSeq
<1>5. Range(s) = {s[i] : i \in 1..m} /\ Range(t) = {t[i] : i \in 1..n}
  BY RangeEquality
<1> HIDE DEF m, n
<1>6. \A i \in 1..m : i \in 1..(m + n) /\ u[i] = s[i]
  BY <1>1
<1>7. \A i \in 1..n : i + m \in 1..(m + n) /\ u[i + m] = t[i]
  <2> SUFFICES ASSUME NEW i \in 1..n PROVE i + m \in 1..(m + n) /\ u[i + m] = t[i]
    OBVIOUS
  <2>1. i + m \in 1..(m + n) /\ ~(i + m <= m) /\ (i + m) - m = i
    BY <1>1
  <2> QED
    BY <1>1, <2>1
<1>8. ASSUME IsInjective(u)
      PROVE  IsInjective(s) /\ IsInjective(t) /\ Range(s) \cap Range(t) = {}
  <2>1. IsInjective(s)
    BY <1>2, <1>3, <1>6, <1>8
  <2>2. IsInjective(t)
    <3> SUFFICES ASSUME NEW i \in 1..n, NEW j \in 1..n, t[i] = t[j] PROVE i = j
      BY <1>4
    <3>1. i + m = j + m
      BY <1>2, <1>7, <1>8
    <3> QED
      BY <1>1, <3>1
  <2>3. Range(s) \cap Range(t) = {}
    <3> SUFFICES ASSUME NEW i \in 1..m, NEW j \in 1..n, s[i] = t[j] PROVE FALSE
      BY <1>5
    <3>1. i = j + m
      BY <1>2, <1>6, <1>7, <1>8
    <3> QED
      BY <1>1, <3>1
  <2> QED
    BY <2>1, <2>2, <2>3
<1>9. ASSUME IsInjective(s), IsInjective(t), Range(s) \cap Range(t) = {}
      PROVE  IsInjective(u)
  <2> SUFFICES ASSUME NEW i \in 1..(m + n), NEW j \in 1..(m + n), u[i] = u[j]
               PROVE  i = j
    BY <1>2
  <2>1. \A k \in 1..(m + n) : \/ k \in 1..m /\ u[k] = s[k]
                              \/ k - m \in 1..n /\ u[k] = t[k - m] /\ k \in Int
    BY <1>1
  <2>2. CASE i \in 1..m /\ j \in 1..m /\ u[i] = s[i] /\ u[j] = s[j]
    BY <1>3, <1>9, <2>2
  <2>3. CASE i - m \in 1..n /\ j - m \in 1..n /\ u[i] = t[i - m] /\ u[j] = t[j - m]
    <3>1. i - m = j - m
      BY <1>4, <1>9, <2>3
    <3> QED
      BY <1>1, <3>1
  <2>4. CASE i \in 1..m /\ j - m \in 1..n /\ u[i] = s[i] /\ u[j] = t[j - m]
    BY <1>5, <1>9, <2>4
  <2>5. CASE i - m \in 1..n /\ j \in 1..m /\ u[i] = t[i - m] /\ u[j] = s[j]
    BY <1>5, <1>9, <2>5
  <2> QED
    BY <2>1, <2>2, <2>3, <2>4, <2>5
<1> QED
  BY <1>8, <1>9 DEF u

\* As many elements that all differ as there are to choose from, at most.
LEMMA InjectiveLength ==
  ASSUME NEW S, NEW s \in Seq(S), IsInjective(s), NEW T, IsFiniteSet(T), Range(s) \subseteq T
  PROVE  Len(s) <= Cardinality(T)
<1>1. s \in [1..Len(s) -> T] /\ Len(s) \in Nat
  BY LenProperties, RangeEquality
<1>2. s \in Injection(1..Len(s), T)
  BY <1>1 DEF Injection
<1>3. Cardinality(1..Len(s)) <= Cardinality(T)
  BY <1>2, FS_Injection
<1>4. Cardinality(1..Len(s)) = Len(s)
  <2> DEFINE n == Len(s)
  <2>1. n \in Nat
    BY <1>1
  <2> HIDE DEF n
  <2>2. Cardinality(1..n) = IF 1 > n THEN 0 ELSE n - 1 + 1
    BY <2>1, FS_Interval
  <2>3. Cardinality(1..n) = n
    BY <2>1, <2>2
  <2> QED
    BY <2>3 DEF n
<1> QED
  BY <1>3, <1>4

-----------------------------------------------------------------------------
(* Windows.                                                                *)

IsRing(ring, size, V) == ring \in [0..(size - 1) -> V]

Put(ring, i, v) == [ring EXCEPT ![i] = v]

\* Two rings have the same in n slots.
Agree(ring, other, size, from, n) ==
  \A k \in 0..(n - 1) : other[(from + k) % size] = ring[(from + k) % size]

\* What lies in n slots of a ring, from one position on.
Window(ring, size, from, n) == [k \in 1..n |-> ring[(from + k - 1) % size]]

LEMMA WindowType ==
  ASSUME NEW size \in Nat \ {0}, NEW from \in Int, NEW n \in Nat, NEW V, NEW ring,
         IsRing(ring, size, V)
  PROVE  /\ Window(ring, size, from, n) \in Seq(V)
         /\ Len(Window(ring, size, from, n)) = n
<1>1. \A k \in 1..n : (from + k - 1) % size \in 0..(size - 1)
  BY DivMod
<1>2. Window(ring, size, from, n) \in [1..n -> V]
  BY <1>1 DEF Window, IsRing
<1> QED
  BY <1>2

\* Only the slots in it matter.
LEMMA WindowEqual ==
  ASSUME NEW size \in Nat \ {0}, NEW from \in Int, NEW n \in Nat, NEW ring, NEW other,
         Agree(ring, other, size, from, n)
  PROVE  Window(other, size, from, n) = Window(ring, size, from, n)
<1>1. ASSUME NEW k \in 1..n
      PROVE  other[(from + k - 1) % size] = ring[(from + k - 1) % size]
  <2>1. k - 1 \in 0..(n - 1) /\ from + (k - 1) = from + k - 1
    OBVIOUS
  <2>2. other[(from + (k - 1)) % size] = ring[(from + (k - 1)) % size]
    BY <2>1 DEF Agree
  <2> QED
    BY <2>1, <2>2
<1> QED
  BY <1>1 DEF Window

\* Nor does it matter how often one has been round the ring.
LEMMA WindowRound ==
  ASSUME NEW size \in Nat \ {0}, NEW from \in Int, NEW to \in Int, from % size = to % size,
         NEW n \in Nat, NEW ring
  PROVE  Window(ring, size, to, n) = Window(ring, size, from, n)
<1>1. ASSUME NEW k \in 1..n
      PROVE  (to + k - 1) % size = (from + k - 1) % size
  <2>1. k - 1 \in Int /\ from + (k - 1) = from + k - 1 /\ to + (k - 1) = to + k - 1
    OBVIOUS
  <2>2. (to + (k - 1)) % size = (from + (k - 1)) % size
    BY <2>1, ModShift
  <2> QED
    BY <2>1, <2>2
<1> QED
  BY <1>1 DEF Window

\* A slot that a window does not reach.
Outside(slot, size, from, n) ==
  \E x \in Int : slot = x % size /\ from + n <= x /\ x < from + size

LEMMA WindowElsewhere ==
  ASSUME NEW size \in Nat \ {0}, NEW from \in Int, NEW n \in Nat, NEW slot,
         Outside(slot, size, from, n), NEW ring, NEW v
  PROVE  Window(Put(ring, slot, v), size, from, n) = Window(ring, size, from, n)
<1> DEFINE other == Put(ring, slot, v)
<1>1. PICK x \in Int : slot = x % size /\ from + n <= x /\ x < from + size
  BY DEF Outside
<1>2. ASSUME NEW k \in 0..(n - 1)
      PROVE  other[(from + k) % size] = ring[(from + k) % size]
  <2>1. from + k < x /\ x - (from + k) < size /\ from + k \in Int
    BY <1>1
  <2>2. (from + k) % size # slot
    BY <1>1, <2>1, ModDiffer
  <2> QED
    BY <2>2 DEF Put
<1> HIDE DEF other
<1>3. Agree(ring, other, size, from, n)
  BY <1>2 DEF Agree
<1>4. Window(other, size, from, n) = Window(ring, size, from, n)
  BY <1>3, WindowEqual
<1> QED
  BY <1>4 DEF other

LEMMA WindowAppend ==
  ASSUME NEW size \in Nat \ {0}, NEW from \in Int, NEW n \in Nat, n < size,
         NEW V, NEW ring, IsRing(ring, size, V), NEW v \in V
  PROVE  Window(Put(ring, (from + n) % size, v), size, from, n + 1)
           = Append(Window(ring, size, from, n), v)
<1> DEFINE other == Put(ring, (from + n) % size, v)
           w == Window(ring, size, from, n)
           u == Window(other, size, from, n + 1)
<1> HIDE DEF other
<1>1. (from + n) % size \in 0..(size - 1)
  BY DivMod
<1>2. IsRing(other, size, V) /\ other[(from + n) % size] = v
  BY <1>1 DEF IsRing, other, Put
<1>3. w \in Seq(V) /\ Len(w) = n
  BY WindowType
<1>4. Window(other, size, from, n) = w
  <2>1. PICK slot : slot = (from + n) % size
    OBVIOUS
  <2>2. Outside(slot, size, from, n)
    <3>1. PICK x \in Int : x = from + n
      OBVIOUS
    <3>2. slot = x % size /\ from + n <= x /\ x < from + size
      BY <2>1, <3>1
    <3> QED
      BY <3>1, <3>2 DEF Outside
  <2>3. Window(Put(ring, slot, v), size, from, n) = w
    BY <2>2, WindowElsewhere
  <2> QED
    BY <2>1, <2>3 DEF other
<1>5. u \in Seq(V) /\ Len(u) = n + 1
  <2> DEFINE m == n + 1
  <2>1. m \in Nat
    OBVIOUS
  <2> HIDE DEF m
  <2>2. Window(other, size, from, m) \in Seq(V) /\ Len(Window(other, size, from, m)) = m
    BY <1>2, <2>1, WindowType
  <2> QED
    BY <2>2 DEF m
<1>6. /\ Append(w, v) \in Seq(V) /\ Len(Append(w, v)) = n + 1
      /\ \A i \in 1..n : Append(w, v)[i] = w[i]
      /\ Append(w, v)[n + 1] = v
  BY <1>3, AppendProperties
<1>7. ASSUME NEW i \in 1..(n + 1)
      PROVE  u[i] = Append(w, v)[i]
  <2>1. u[i] = other[(from + i - 1) % size]
    BY DEF Window
  <2>2. CASE i \in 1..n
    <3>1. Window(other, size, from, n)[i] = other[(from + i - 1) % size]
      BY <2>2 DEF Window
    <3> QED
      BY <1>4, <1>6, <2>1, <2>2, <3>1
  <2>3. CASE i = n + 1
    <3>1. from + i - 1 = from + n
      BY <2>3
    <3> QED
      BY <1>2, <1>6, <2>1, <2>3, <3>1
  <2>4. i \in 1..n \/ i = n + 1
    OBVIOUS
  <2> HIDE DEF u, w
  <2> QED
    BY <2>2, <2>3, <2>4
<1> HIDE DEF u, w
<1>8. u = Append(w, v)
  BY <1>5, <1>6, <1>7, SeqEqual
<1> QED
  BY <1>8 DEF u, w, other

InSlot(ring, size, i) == ring[i % size]

LEMMA WindowTail ==
  ASSUME NEW size \in Nat \ {0}, NEW from \in Int, NEW n \in Nat \ {0},
         NEW V, NEW ring, IsRing(ring, size, V)
  PROVE  /\ Window(ring, size, from, n) # <<>>
         /\ Head(Window(ring, size, from, n)) = InSlot(ring, size, from)
         /\ Tail(Window(ring, size, from, n)) = Window(ring, size, from + 1, n - 1)
<1> DEFINE w == Window(ring, size, from, n)
           u == Window(ring, size, from + 1, n - 1)
<1>1. w \in Seq(V) /\ Len(w) = n
  BY WindowType
<1>2. u \in Seq(V) /\ Len(u) = n - 1
  <2>1. from + 1 \in Int /\ n - 1 \in Nat
    OBVIOUS
  <2> QED
    BY <2>1, WindowType
<1>3. w # <<>>
  BY <1>1, EmptySeq
<1>4. /\ Tail(w) \in Seq(V) /\ Len(Tail(w)) = n - 1
      /\ \A i \in 1..(n - 1) : Tail(w)[i] = w[i + 1]
      /\ Head(w) = w[1]
  BY <1>1, <1>3, HeadTailProperties
<1>5. w[1] = InSlot(ring, size, from)
  <2>1. 1 \in 1..n /\ from + 1 - 1 = from
    OBVIOUS
  <2> QED
    BY <2>1 DEF Window, InSlot
<1>6. ASSUME NEW i \in 1..(n - 1)
      PROVE  Tail(w)[i] = u[i]
  <2>1. i + 1 \in 1..n /\ from + (i + 1) - 1 = (from + 1) + i - 1
    OBVIOUS
  <2>2. w[i + 1] = ring[(from + (i + 1) - 1) % size]
    BY <2>1 DEF Window
  <2>3. u[i] = ring[((from + 1) + i - 1) % size]
    BY DEF Window
  <2> HIDE DEF w, u
  <2> QED
    BY <1>4, <2>1, <2>2, <2>3
<1> HIDE DEF u, w
<1>7. Tail(w) = u
  BY <1>2, <1>4, <1>6, SeqEqual
<1> QED
  BY <1>3, <1>4, <1>5, <1>7 DEF u, w

-----------------------------------------------------------------------------
(* Stretches: windows between two indices that run freely modulo idx, a    *)
(* multiple of the size of the ring.                                       *)

Sizes(size, idx) ==
  size \in Nat \ {0} /\ idx \in Nat \ {0} /\ idx > size /\ idx % size = 0

Step(idx, i) == (i + 1) % idx
Distance(idx, from, to) == (to - from) % idx
Stretch(ring, size, idx, from, to) == Window(ring, size, from, Distance(idx, from, to))

LEMMA ModNear ==
  ASSUME NEW idx \in Nat \ {0}, NEW a \in Int, -idx < a, a < idx
  PROVE  a % idx = IF a >= 0 THEN a ELSE a + idx
<1>1. CASE a >= 0
  <2>1. a \in 0..(idx - 1) /\ 0 \in Int /\ idx * 0 + a = a
    BY <1>1
  <2>2. (idx * 0 + a) % idx = a
    BY <2>1, ModUnique
  <2> QED
    BY <1>1, <2>1, <2>2
<1>2. CASE a < 0
  <2> DEFINE b == a + idx
  <2>1. b \in 0..(idx - 1) /\ -1 \in Int /\ idx * (-1) + b = a
    BY <1>2
  <2> HIDE DEF b
  <2>2. (idx * (-1) + b) % idx = b
    BY <2>1, ModUnique
  <2> QED
    BY <1>2, <2>1, <2>2 DEF b
<1> QED
  BY <1>1, <1>2

\* Whole rounds make no difference.
LEMMA ModRounds ==
  ASSUME NEW s \in Nat \ {0}, NEW a \in Int, NEW k \in Int, a % s = 0
  PROVE  (a + k) % s = k % s
<1>1. PICK z \in Int : z = 0
  OBVIOUS
<1>2. 0 % s = 0
  <2>1. 0 \in Int /\ -s < 0 /\ 0 < s
    OBVIOUS
  <2> QED
    BY <2>1, ModNear
<1>3. a % s = z % s
  BY <1>1, <1>2
<1>4. (a + k) % s = (z + k) % s
  BY <1>3, ModShift
<1> QED
  BY <1>1, <1>4

LEMMA ModRound ==
  ASSUME NEW size \in Nat \ {0}, NEW x \in Int
  PROVE  (x + size) % size = x % size
<1>1. PICK q \in Int : q = 1
  OBVIOUS
<1>2. PICK r \in 0..(size - 1) : r = 0
  OBVIOUS
<1>3. (size * q + r) % size = r
  BY ModUnique
<1>4. size % size = 0
  BY <1>1, <1>2, <1>3
<1>5. PICK a \in Int : a = size
  OBVIOUS
<1>6. a % size = 0
  BY <1>4, <1>5
<1>7. (a + x) % size = x % size
  BY <1>6, ModRounds
<1> QED
  BY <1>5, <1>7

LEMMA StepOf ==
  ASSUME NEW idx \in Nat \ {0}, NEW i \in 0..(idx - 1)
  PROVE  /\ Step(idx, i) \in 0..(idx - 1)
         /\ Step(idx, i) = IF i = idx - 1 THEN 0 ELSE i + 1
<1>1. CASE i = idx - 1
  <2>1. 0 \in 0..(idx - 1) /\ 1 \in Int /\ idx * 1 + 0 = i + 1
    BY <1>1
  <2>2. (idx * 1 + 0) % idx = 0
    BY <2>1, ModUnique
  <2> QED
    BY <1>1, <2>1, <2>2 DEF Step
<1>2. CASE i # idx - 1
  <2>1. i + 1 \in Int /\ -idx < i + 1 /\ i + 1 < idx /\ i + 1 >= 0
    BY <1>2
  <2>2. (i + 1) % idx = i + 1
    BY <2>1, ModNear
  <2> QED
    BY <1>2, <2>1, <2>2 DEF Step
<1> QED
  BY <1>1, <1>2

LEMMA DistanceOf ==
  ASSUME NEW idx \in Nat \ {0}, NEW from \in 0..(idx - 1), NEW to \in 0..(idx - 1)
  PROVE  /\ Distance(idx, from, to) \in 0..(idx - 1)
         /\ Distance(idx, from, to) = IF to >= from THEN to - from ELSE to - from + idx
<1>1. to - from \in Int /\ -idx < to - from /\ to - from < idx
  OBVIOUS
<1>2. (to - from) % idx = IF to - from >= 0 THEN to - from ELSE to - from + idx
  BY <1>1, ModNear
<1> QED
  BY <1>2 DEF Distance

LEMMA DistanceSteps ==
  ASSUME NEW idx \in Nat \ {0}, NEW from \in 0..(idx - 1), NEW to \in 0..(idx - 1)
  PROVE  /\ Distance(idx, from, to) = 0 <=> from = to
         /\ Distance(idx, from, to) < idx - 1
              => Distance(idx, from, Step(idx, to)) = Distance(idx, from, to) + 1
         /\ from # to
              => Distance(idx, Step(idx, from), to) = Distance(idx, from, to) - 1
<1>1. Step(idx, to) \in 0..(idx - 1) /\ Step(idx, from) \in 0..(idx - 1)
  BY StepOf
<1>2. Step(idx, to) = (IF to = idx - 1 THEN 0 ELSE to + 1)
      /\ Step(idx, from) = (IF from = idx - 1 THEN 0 ELSE from + 1)
  BY StepOf
<1>3. Distance(idx, from, to) = IF to >= from THEN to - from ELSE to - from + idx
  BY DistanceOf
<1>4. Distance(idx, from, Step(idx, to))
        = IF Step(idx, to) >= from THEN Step(idx, to) - from ELSE Step(idx, to) - from + idx
  BY <1>1, DistanceOf
<1>5. Distance(idx, Step(idx, from), to)
        = IF to >= Step(idx, from) THEN to - Step(idx, from) ELSE to - Step(idx, from) + idx
  BY <1>1, DistanceOf
<1> QED
  BY <1>2, <1>3, <1>4, <1>5

\* Where a stretch goes on when its first index is taken, and where it ends.
LEMMA StepSlot ==
  ASSUME NEW size, NEW idx, Sizes(size, idx), NEW from \in 0..(idx - 1)
  PROVE  Step(idx, from) % size = (from + 1) % size
<1>1. size \in Nat \ {0} /\ idx \in Nat \ {0} /\ idx % size = 0
  BY DEF Sizes
<1>2. PICK a \in Int : a = from + 1
  BY <1>1
<1>3. (a % idx) % size = a % size
  BY <1>1, ModMod
<1> QED
  BY <1>2, <1>3 DEF Step

LEMMA EndSlot ==
  ASSUME NEW size, NEW idx, Sizes(size, idx), NEW from \in 0..(idx - 1), NEW to \in 0..(idx - 1)
  PROVE  (from + Distance(idx, from, to)) % size = to % size
<1>1. size \in Nat \ {0} /\ idx \in Nat \ {0} /\ idx % size = 0
  BY DEF Sizes
<1>3. CASE to >= from
  <2>1. from + Distance(idx, from, to) = to
    BY <1>1, <1>3, DistanceOf
  <2> QED
    BY <2>1
<1>4. CASE to < from
  <2>1. from + Distance(idx, from, to) = idx + to
    BY <1>1, <1>4, DistanceOf
  <2>2. (idx + to) % size = to % size
    <3>1. idx \in Int /\ to \in Int
      BY <1>1
    <3> QED
      BY <1>1, <3>1, ModRounds
  <2> QED
    BY <2>1, <2>2
<1> QED
  BY <1>3, <1>4

LEMMA StretchLength ==
  ASSUME NEW size, NEW idx, NEW ring, NEW from, NEW to,
         Sizes(size, idx), from \in 0..(idx - 1), to \in 0..(idx - 1)
  PROVE  Len(Stretch(ring, size, idx, from, to)) = Distance(idx, from, to)
<1>1. idx \in Nat \ {0}
  BY DEF Sizes
<1>2. PICK n \in Nat : n = Distance(idx, from, to)
  BY <1>1, DistanceOf
<1>3. Len(Window(ring, size, from, n)) = n
  BY DEF Window
<1> QED
  BY <1>2, <1>3 DEF Stretch

LEMMA StretchType ==
  ASSUME NEW size, NEW idx, Sizes(size, idx), NEW from \in 0..(idx - 1), NEW to \in 0..(idx - 1),
         NEW V, NEW ring, IsRing(ring, size, V)
  PROVE  /\ Stretch(ring, size, idx, from, to) \in Seq(V)
         /\ Len(Stretch(ring, size, idx, from, to)) = Distance(idx, from, to)
         /\ Stretch(ring, size, idx, from, to) = <<>> <=> from = to
<1> DEFINE n == Distance(idx, from, to)
<1>1. size \in Nat \ {0} /\ idx \in Nat \ {0} /\ from \in Int
  BY DEF Sizes
<1>2. n \in Nat /\ (n = 0 <=> from = to)
  <2>1. n \in 0..(idx - 1)
    BY <1>1, DistanceOf
  <2>2. n = 0 <=> from = to
    BY <1>1, DistanceSteps
  <2> QED
    BY <1>1, <2>1, <2>2
<1> HIDE DEF n
<1>3. Window(ring, size, from, n) \in Seq(V) /\ Len(Window(ring, size, from, n)) = n
  BY <1>1, <1>2, WindowType
<1> QED
  BY <1>2, <1>3, EmptySeq DEF Stretch, n

\* One more at the end.
LEMMA StretchPut ==
  ASSUME NEW size, NEW idx, NEW V, NEW ring, NEW from, NEW to, NEW v,
         Sizes(size, idx), IsRing(ring, size, V), from \in 0..(idx - 1), to \in 0..(idx - 1),
         v \in V
  PROVE  Len(Stretch(ring, size, idx, from, to)) < size
           => Stretch(Put(ring, to % size, v), size, idx, from, Step(idx, to))
                = Append(Stretch(ring, size, idx, from, to), v)
<1> DEFINE n == Distance(idx, from, to)
<1>1. size \in Nat \ {0} /\ idx \in Nat \ {0} /\ idx > size /\ from \in Int
  BY DEF Sizes
<1>0. ASSUME NEW m \in Nat, m < size
      PROVE  Window(Put(ring, (from + m) % size, v), size, from, m + 1)
               = Append(Window(ring, size, from, m), v)
  BY <1>1, <1>0, WindowAppend
<1> SUFFICES ASSUME Len(Stretch(ring, size, idx, from, to)) < size
             PROVE  Stretch(Put(ring, to % size, v), size, idx, from, Step(idx, to))
                      = Append(Stretch(ring, size, idx, from, to), v)
  OBVIOUS
<1>2. n \in Nat /\ n < size
  <2>1. Len(Stretch(ring, size, idx, from, to)) = n
    BY StretchLength
  <2> QED
    BY <1>1, <2>1, DistanceOf
<1>3. Distance(idx, from, Step(idx, to)) = n + 1
  <2>1. n < idx - 1
    BY <1>1, <1>2
  <2> QED
    BY <1>1, <2>1, DistanceSteps
<1>4. (from + n) % size = to % size
  BY EndSlot
<1> HIDE DEF n
<1>5. Window(Put(ring, (from + n) % size, v), size, from, n + 1)
        = Append(Window(ring, size, from, n), v)
  BY <1>0, <1>2
<1> QED
  BY <1>3, <1>4, <1>5 DEF Stretch, n

\* The first is taken.
LEMMA StretchTake ==
  ASSUME NEW size, NEW idx, NEW V, NEW ring, NEW from, NEW to,
         Sizes(size, idx), IsRing(ring, size, V), from \in 0..(idx - 1), to \in 0..(idx - 1)
  PROVE  from # to =>
           /\ Stretch(ring, size, idx, from, to) # <<>>
           /\ Head(Stretch(ring, size, idx, from, to)) = ring[from % size]
           /\ Tail(Stretch(ring, size, idx, from, to))
                = Stretch(ring, size, idx, Step(idx, from), to)
<1> DEFINE n == Distance(idx, from, to)
           next == Step(idx, from)
<1>1. size \in Nat \ {0} /\ idx \in Nat \ {0} /\ from \in Int
  BY DEF Sizes
<1>0. ASSUME NEW m \in Nat \ {0}
      PROVE  /\ Window(ring, size, from, m) # <<>>
             /\ Head(Window(ring, size, from, m)) = InSlot(ring, size, from)
             /\ Tail(Window(ring, size, from, m)) = Window(ring, size, from + 1, m - 1)
  <2>1. Window(ring, size, from, m) # <<>>
    BY <1>1, WindowTail
  <2>2. Head(Window(ring, size, from, m)) = InSlot(ring, size, from)
    BY <1>1, WindowTail
  <2>3. Tail(Window(ring, size, from, m)) = Window(ring, size, from + 1, m - 1)
    BY <1>1, WindowTail
  <2> QED
    BY <2>1, <2>2, <2>3
<1>3. next \in Int /\ next % size = (from + 1) % size
  <2>1. next \in Int
    BY <1>1, StepOf
  <2>2. next % size = (from + 1) % size
    BY StepSlot
  <2> QED
    BY <2>1, <2>2
<1> SUFFICES ASSUME from # to
             PROVE  /\ Stretch(ring, size, idx, from, to) # <<>>
                    /\ Head(Stretch(ring, size, idx, from, to)) = ring[from % size]
                    /\ Tail(Stretch(ring, size, idx, from, to))
                         = Stretch(ring, size, idx, next, to)
  OBVIOUS
<1>2. n \in Nat \ {0} /\ Distance(idx, next, to) = n - 1
  <2>1. n \in 0..(idx - 1) /\ (n = 0 <=> from = to)
    BY <1>1, DistanceOf, DistanceSteps
  <2> QED
    BY <1>1, <2>1, DistanceSteps
<1> HIDE DEF n, next
<1>4. /\ Window(ring, size, from, n) # <<>>
      /\ Head(Window(ring, size, from, n)) = ring[from % size]
      /\ Tail(Window(ring, size, from, n)) = Window(ring, size, from + 1, n - 1)
  BY <1>0, <1>2 DEF InSlot
<1>5. Window(ring, size, next, n - 1) = Window(ring, size, from + 1, n - 1)
  <2>1. from + 1 \in Int /\ n - 1 \in Nat
    BY <1>1, <1>2
  <2> QED
    BY <1>1, <1>3, <2>1, WindowRound
<1> QED
  BY <1>2, <1>4, <1>5 DEF Stretch, n, next

\* The first is taken and its slot written over.
LEMMA StretchClear ==
  ASSUME NEW size, NEW idx, NEW V, NEW ring, NEW from, NEW to, NEW v,
         Sizes(size, idx), IsRing(ring, size, V), from \in 0..(idx - 1), to \in 0..(idx - 1)
  PROVE  from # to /\ Len(Stretch(ring, size, idx, from, to)) <= size
           => Stretch(Put(ring, from % size, v), size, idx, Step(idx, from), to)
                = Tail(Stretch(ring, size, idx, from, to))
<1> DEFINE n == Distance(idx, from, to)
           next == Step(idx, from)
<1>1. size \in Nat \ {0} /\ idx \in Nat \ {0} /\ from \in Int
  BY DEF Sizes
<1>3. next \in Int /\ next % size = (from + 1) % size
  <2>1. next \in Int
    BY <1>1, StepOf
  <2>2. next % size = (from + 1) % size
    BY StepSlot
  <2> QED
    BY <2>1, <2>2
<1> SUFFICES ASSUME from # to, Len(Stretch(ring, size, idx, from, to)) <= size
             PROVE  Stretch(Put(ring, from % size, v), size, idx, next, to)
                      = Tail(Stretch(ring, size, idx, from, to))
  OBVIOUS
<1>2. n \in Nat \ {0} /\ n <= size /\ Distance(idx, next, to) = n - 1
  <2>1. n \in 0..(idx - 1) /\ (n = 0 <=> from = to)
    BY <1>1, DistanceOf, DistanceSteps
  <2>2. n <= size
    BY StretchLength
  <2> QED
    BY <1>1, <2>1, <2>2, DistanceSteps
<1>4. Tail(Stretch(ring, size, idx, from, to)) = Stretch(ring, size, idx, next, to)
  BY StretchTake
<1> HIDE DEF n, next
<1>5. PICK slot : slot = from % size
  OBVIOUS
<1>6. PICK m : m = n - 1
  OBVIOUS
<1>7. m \in Nat
  BY <1>2, <1>6
<1>8. Outside(slot, size, next, m)
  <2>1. (next - 1) % size = from % size
    <3>1. (next + (-1)) % size = ((from + 1) + (-1)) % size
      <4>1. from + 1 \in Int /\ -1 \in Int
        BY <1>1
      <4> QED
        BY <1>1, <1>3, <4>1, ModShift
    <3>2. next + (-1) = next - 1 /\ (from + 1) + (-1) = from
      BY <1>1, <1>3
    <3> QED
      BY <3>1, <3>2
  <2>2. (next - 1 + size) % size = (next - 1) % size
    <3>1. next - 1 \in Int
      BY <1>1, <1>3
    <3> QED
      BY <1>1, <3>1, ModRound
  <2>3. PICK y \in Int : y = next - 1 + size
    BY <1>1, <1>3
  <2>4. slot = y % size
    BY <1>5, <2>1, <2>2, <2>3
  <2>5. next + m <= y /\ y < next + size
    BY <1>1, <1>2, <1>3, <1>6, <2>3
  <2> QED
    BY <2>4, <2>5 DEF Outside
<1>9. Window(Put(ring, slot, v), size, next, m) = Window(ring, size, next, m)
  BY <1>1, <1>3, <1>7, <1>8, WindowElsewhere
<1> QED
  BY <1>2, <1>4, <1>5, <1>6, <1>9 DEF Stretch, next, n

\* A slot behind a stretch is written over, one of those that end where it begins.
LEMMA StretchPast ==
  ASSUME NEW size, NEW idx, NEW ring, NEW from, NEW mid, NEW to, NEW v,
         Sizes(size, idx), from \in 0..(idx - 1), mid \in 0..(idx - 1), to \in 0..(idx - 1)
  PROVE  from # mid /\ Distance(idx, from, mid) + Distance(idx, mid, to) <= size
           => Stretch(Put(ring, from % size, v), size, idx, mid, to)
                = Stretch(ring, size, idx, mid, to)
<1> DEFINE d == Distance(idx, from, mid)
           n == Distance(idx, mid, to)
<1>1. size \in Nat \ {0} /\ idx \in Nat \ {0} /\ from \in Int /\ mid \in Int
  BY DEF Sizes
<1>2. d \in Nat /\ (d = 0 <=> from = mid) /\ n \in Nat
  <2>1. d \in 0..(idx - 1) /\ (d = 0 <=> from = mid)
    BY <1>1, DistanceOf, DistanceSteps
  <2>2. n \in 0..(idx - 1)
    BY <1>1, DistanceOf
  <2> QED
    BY <2>1, <2>2
<1>3. (from + d) % size = mid % size
  BY EndSlot
<1> SUFFICES ASSUME from # mid, d + n <= size
             PROVE  Stretch(Put(ring, from % size, v), size, idx, mid, to)
                      = Stretch(ring, size, idx, mid, to)
  OBVIOUS
<1> HIDE DEF d, n
<1>4. PICK y \in Int : y = mid + (size - d)
  BY <1>1, <1>2
<1>5. y % size = from % size
  <2>1. from + d \in Int /\ size - d \in Int
    BY <1>1, <1>2
  <2>2. (mid + (size - d)) % size = ((from + d) + (size - d)) % size
    BY <1>1, <1>3, <2>1, ModShift
  <2>3. (from + d) + (size - d) = from + size
    BY <1>1, <1>2
  <2>4. (from + size) % size = from % size
    BY <1>1, ModRound
  <2> QED
    BY <1>4, <2>2, <2>3, <2>4
<1>6. PICK slot : slot = from % size
  OBVIOUS
<1>7. Outside(slot, size, mid, n)
  <2>1. mid + n <= y /\ y < mid + size
    BY <1>1, <1>2, <1>4
  <2> QED
    BY <1>5, <1>6, <2>1 DEF Outside
<1>8. Window(Put(ring, slot, v), size, mid, n) = Window(ring, size, mid, n)
  BY <1>1, <1>2, <1>7, WindowElsewhere
<1> QED
  BY <1>6, <1>8 DEF Stretch, n

-----------------------------------------------------------------------------
(* Sequences that a function is applied to.                                *)

Mapped(f, s) == [k \in DOMAIN s |-> f[s[k]]]
Ends(f, V, W) == \A v \in V : f[v] \in W

LEMMA MappedType ==
  ASSUME NEW V, NEW W, NEW s, NEW f, Ends(f, V, W), s \in Seq(V)
  PROVE  /\ Mapped(f, s) \in Seq(W)
         /\ Len(Mapped(f, s)) = Len(s)
         /\ \A k \in 1..Len(s) : Mapped(f, s)[k] = f[s[k]]
<1>1. Len(s) \in Nat /\ s \in [1..Len(s) -> V] /\ DOMAIN s = 1..Len(s)
  BY LenProperties
<1>2. Mapped(f, s) \in [1..Len(s) -> W]
  BY <1>1 DEF Mapped, Ends
<1>3. \A k \in 1..Len(s) : Mapped(f, s)[k] = f[s[k]]
  BY <1>1 DEF Mapped
<1> QED
  BY <1>1, <1>2, <1>3

LEMMA MappedAppend ==
  ASSUME NEW V, NEW s, NEW f, NEW v, s \in Seq(V), v \in V
  PROVE  Mapped(f, Append(s, v)) = Append(Mapped(f, s), f[v])
<1> DEFINE n == Len(s)
<1>1. PICK W : W = {f[u] : u \in V}
  OBVIOUS
<1>2. Ends(f, V, W) /\ f[v] \in W
  BY <1>1 DEF Ends
<1>3. PICK t \in Seq(V) :
        t = Append(s, v) /\ Len(t) = n + 1 /\ (\A i \in 1..n : t[i] = s[i]) /\ t[n + 1] = v
  BY AppendProperties, LenProperties
<1>4. n \in Nat
  BY LenProperties
<1>5. PICK m : m = Mapped(f, s)
  OBVIOUS
<1>6. m \in Seq(W) /\ Len(m) = Len(s) /\ \A k \in 1..Len(s) : m[k] = f[s[k]]
  BY <1>2, <1>5, MappedType
<1>7. PICK x : x = Mapped(f, t)
  OBVIOUS
<1>8. x \in Seq(W) /\ Len(x) = Len(t) /\ \A k \in 1..Len(t) : x[k] = f[t[k]]
  BY <1>2, <1>7, MappedType
<1> HIDE DEF n
<1>9. PICK w \in W : w = f[v]
  BY <1>2
<1>10. PICK y : y = Append(m, w)
  OBVIOUS
<1>14. y \in Seq(W) /\ Len(y) = n + 1 /\ (\A k \in 1..n : y[k] = m[k]) /\ y[n + 1] = w
  <2>1. PICK q \in Seq(W) : q = m /\ Len(q) = n
    BY <1>6 DEF n
  <2>2. /\ Append(q, w) \in Seq(W) /\ Len(Append(q, w)) = Len(q) + 1
        /\ \A k \in 1..Len(q) : Append(q, w)[k] = q[k]
        /\ Append(q, w)[Len(q) + 1] = w
    BY AppendProperties
  <2> QED
    BY <1>10, <2>1, <2>2
<1>11. \A k \in 1..(n + 1) : x[k] = y[k]
  <2>1. \A k \in 1..(n + 1) : k \in 1..n \/ k = n + 1
    BY <1>4
  <2>2. n + 1 \in 1..(n + 1) /\ \A k \in 1..n : k \in 1..(n + 1)
    BY <1>4
  <2>3. ASSUME NEW k \in 1..n
        PROVE  x[k] = y[k]
    BY <1>3, <1>6, <1>8, <1>14, <2>2 DEF n
  <2>4. x[n + 1] = y[n + 1]
    BY <1>3, <1>8, <1>9, <1>14, <2>2
  <2> QED
    BY <2>1, <2>3, <2>4
<1>12. x = y
  BY <1>3, <1>8, <1>14, <1>11, SeqEqual
<1> QED
  BY <1>3, <1>5, <1>7, <1>9, <1>10, <1>12

LEMMA MappedTail ==
  ASSUME NEW V, NEW s, NEW f, s \in Seq(V), s # <<>>
  PROVE  /\ Mapped(f, s) # <<>>
         /\ Head(Mapped(f, s)) = f[Head(s)]
         /\ Mapped(f, Tail(s)) = Tail(Mapped(f, s))
<1> DEFINE n == Len(s)
<1>1. PICK W : W = {f[u] : u \in V}
  OBVIOUS
<1>2. Ends(f, V, W)
  BY <1>1 DEF Ends
<1>3. PICK t \in Seq(V) :
        t = Tail(s) /\ Len(t) = n - 1 /\ (\A i \in 1..(n - 1) : t[i] = s[i + 1])
  <2>1. PICK q \in Seq(V) : q = s /\ q # <<>>
    OBVIOUS
  <2>2. /\ Tail(q) \in Seq(V) /\ Len(Tail(q)) = Len(q) - 1
        /\ \A i \in 1..(Len(q) - 1) : Tail(q)[i] = q[i + 1]
    BY <2>1, HeadTailProperties
  <2> QED
    BY <2>1, <2>2
<1>4. n \in Nat \ {0} /\ Head(s) = s[1]
  BY HeadTailProperties, EmptySeq, LenProperties
<1>5. PICK m : m = Mapped(f, s)
  OBVIOUS
<1>6. m \in Seq(W) /\ Len(m) = Len(s) /\ \A k \in 1..Len(s) : m[k] = f[s[k]]
  BY <1>2, <1>5, MappedType
<1>7. PICK x : x = Mapped(f, t)
  OBVIOUS
<1>8. x \in Seq(W) /\ Len(x) = Len(t) /\ \A k \in 1..Len(t) : x[k] = f[t[k]]
  BY <1>2, <1>7, MappedType
<1>9. m # <<>>
  BY <1>4, <1>6, EmptySeq
<1>10. PICK y \in Seq(W) :
         y = Tail(m) /\ Len(y) = n - 1 /\ (\A k \in 1..(n - 1) : y[k] = m[k + 1])
  <2>1. PICK q \in Seq(W) : q = m /\ q # <<>> /\ Len(q) = n
    BY <1>6, <1>9
  <2>2. /\ Tail(q) \in Seq(W) /\ Len(Tail(q)) = Len(q) - 1
        /\ \A i \in 1..(Len(q) - 1) : Tail(q)[i] = q[i + 1]
    BY <2>1, HeadTailProperties
  <2> QED
    BY <2>1, <2>2
<1>11. Head(m) = m[1]
  BY <1>6, <1>9, HeadTailProperties
<1>12. x = y
  <2>1. \A k \in 1..(n - 1) : k + 1 \in 1..n
    BY <1>4
  <2>2. ASSUME NEW k \in 1..(n - 1)
        PROVE  x[k] = y[k]
    BY <1>3, <1>6, <1>8, <1>10, <2>1
  <2>3. Len(x) = Len(y) /\ \A k \in 1..Len(x) : x[k] = y[k]
    BY <1>3, <1>8, <1>10, <2>2
  <2> QED
    BY <1>8, <1>10, <2>3, SeqEqual
<1>13. Head(m) = f[Head(s)]
  BY <1>4, <1>6, <1>11
<1> QED
  BY <1>3, <1>5, <1>7, <1>9, <1>10, <1>12, <1>13

\* Only what is in the sequence matters.
LEMMA MappedSame ==
  ASSUME NEW V, NEW s \in Seq(V), NEW f, NEW g,
         \A v \in Range(s) : f[v] = g[v]
  PROVE  Mapped(f, s) = Mapped(g, s)
<1>1. \A k \in DOMAIN s : s[k] \in Range(s)
  BY DEF Range
<1> QED
  BY <1>1 DEF Mapped

LEMMA MappedRange ==
  ASSUME NEW V, NEW s \in Seq(V), NEW f, NEW v \in Range(s)
  PROVE  f[v] \in Range(Mapped(f, s))
<1>1. PICK k \in DOMAIN s : s[k] = v
  BY DEF Range
<1>2. k \in DOMAIN Mapped(f, s) /\ Mapped(f, s)[k] = f[v]
  BY <1>1 DEF Mapped
<1> QED
  BY <1>2 DEF Range

-----------------------------------------------------------------------------
(* Two sequences that hold the elements of a set between them, each once.  *)

Placed(a, b, S) ==
  /\ IsInjective(a) /\ IsInjective(b)
  /\ Range(a) \cap Range(b) = {}
  /\ Range(a) \cup Range(b) = S

LEMMA RangeEmpty == Range(<<>>) = {} /\ IsInjective(<<>>)
BY DEF Range, IsInjective

LEMMA PlacedEmpty == Placed(<<>>, <<>>, {})
BY RangeEmpty DEF Placed

LEMMA RangeConcat ==
  ASSUME NEW T, NEW a \in Seq(T), NEW b \in Seq(T)
  PROVE  Range(a \o b) = Range(a) \cup Range(b)
<1> DEFINE c == a \o b
           m == Len(a)
           n == Len(b)
<1>1. m \in Nat /\ n \in Nat
  BY LenProperties
<1>2. /\ c \in Seq(T) /\ Len(c) = m + n
      /\ \A i \in 1..(m + n) : c[i] = IF i <= m THEN a[i] ELSE b[i - m]
  BY ConcatProperties
<1> HIDE DEF c
<1>3. /\ Range(c) = {c[i] : i \in 1..(m + n)}
      /\ Range(a) = {a[i] : i \in 1..m}
      /\ Range(b) = {b[i] : i \in 1..n}
  BY <1>2, RangeEquality
<1> HIDE DEF m, n
<1>4. ASSUME NEW v \in Range(c)
      PROVE  v \in Range(a) \cup Range(b)
  <2>1. PICK i \in 1..(m + n) : v = c[i]
    BY <1>3
  <2>2. CASE i <= m
    <3>1. i \in 1..m /\ v = a[i]
      BY <1>1, <1>2, <2>1, <2>2
    <3> QED
      BY <1>3, <3>1
  <2>3. CASE ~(i <= m)
    <3>1. i - m \in 1..n /\ v = b[i - m]
      BY <1>1, <1>2, <2>1, <2>3
    <3> QED
      BY <1>3, <3>1
  <2> QED
    BY <2>2, <2>3
<1>5. ASSUME NEW i \in 1..m
      PROVE  a[i] \in Range(c)
  <2>1. i \in 1..(m + n) /\ c[i] = a[i]
    BY <1>1, <1>2
  <2> QED
    BY <1>3, <2>1
<1>6. ASSUME NEW i \in 1..n
      PROVE  b[i] \in Range(c)
  <2>1. PICK j : j = i + m
    OBVIOUS
  <2>2. j \in 1..(m + n) /\ ~(j <= m) /\ j - m = i
    BY <1>1, <2>1
  <2>3. c[j] = b[i]
    BY <1>2, <2>2
  <2> QED
    BY <1>3, <2>2, <2>3
<1>7. Range(c) = Range(a) \cup Range(b)
  BY <1>3, <1>4, <1>5, <1>6
<1> QED
  BY <1>7 DEF c

LEMMA PlacedConcat ==
  ASSUME NEW T, NEW a \in Seq(T), NEW b \in Seq(T), NEW S
  PROVE  Placed(a, b, S) <=> Range(a \o b) = S /\ IsInjective(a \o b)
<1>1. Range(a \o b) = Range(a) \cup Range(b)
  BY RangeConcat
<1>2. IsInjective(a \o b)
        <=> IsInjective(a) /\ IsInjective(b) /\ Range(a) \cap Range(b) = {}
  BY InjectiveConcat
<1> QED
  BY <1>1, <1>2 DEF Placed

LEMMA PlacedLength ==
  ASSUME NEW T, NEW a \in Seq(T), NEW b \in Seq(T), NEW S, Placed(a, b, S),
         NEW F, IsFiniteSet(F), S \subseteq F
  PROVE  Len(a) + Len(b) <= Cardinality(F)
<1>1. a \o b \in Seq(T) /\ Len(a \o b) = Len(a) + Len(b)
  BY ConcatProperties
<1>2. IsInjective(a \o b) /\ Range(a \o b) \subseteq F
  BY PlacedConcat
<1>3. Len(a \o b) <= Cardinality(F)
  BY <1>1, <1>2, InjectiveLength
<1> QED
  BY <1>1, <1>3

LEMMA PlacedOffer ==
  ASSUME NEW T, NEW a \in Seq(T), NEW b \in Seq(T), NEW S, Placed(a, b, S),
         NEW h \in T, h \notin S
  PROVE  Placed(Append(a, h), b, S \cup {h})
BY RangeAppend DEF Placed

LEMMA PlacedMove ==
  ASSUME NEW T, NEW a \in Seq(T), NEW b \in Seq(T), NEW S, Placed(a, b, S), a # <<>>
  PROVE  /\ Head(a) \in S /\ Head(a) \in T
         /\ Placed(Tail(a), Append(b, Head(a)), S)
<1>1. Head(a) \in T
  BY HeadTailProperties
<1>2. /\ Head(a) \in Range(a)
      /\ Range(a) = {Head(a)} \cup Range(Tail(a))
      /\ IsInjective(Tail(a)) /\ Head(a) \notin Range(Tail(a))
  BY RangeTail DEF Placed
<1>3. /\ Range(Append(b, Head(a))) = Range(b) \cup {Head(a)}
      /\ IsInjective(Append(b, Head(a))) <=> IsInjective(b) /\ Head(a) \notin Range(b)
  BY <1>1, RangeAppend
<1> QED
  BY <1>1, <1>2, <1>3 DEF Placed

LEMMA PlacedLose ==
  ASSUME NEW T, NEW a \in Seq(T), NEW b \in Seq(T), NEW S, Placed(a, b, S), a # <<>>
  PROVE  Placed(Tail(a), b, S \ {Head(a)})
BY RangeTail DEF Placed

LEMMA PlacedTake ==
  ASSUME NEW T, NEW a \in Seq(T), NEW b \in Seq(T), NEW S, Placed(a, b, S), b # <<>>
  PROVE  Head(b) \in S /\ Placed(a, Tail(b), S \ {Head(b)})
BY RangeTail DEF Placed

=============================================================================
