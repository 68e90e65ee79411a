----------------------------- MODULE ExecProofs -----------------------------
(***************************************************************************)
(* Theorems about Exec, for every width of registers that is a power of    *)
(* two, and every set of programs, threads and pages: arithmetic gives     *)
(* what the instruction set says, a running program has the reservation    *)
(* the hart holds, and the hart with its traps and its kernel implements   *)
(* the harts of IdealHarts.                                                *)
(*                                                                         *)
(* First what the operators of Alu and Isa compute: powers of two, bits,   *)
(* the casts, then one lemma for each operation.  The refinement needs     *)
(* none of it but the wrapping of addresses: IdealHarts and Exec use the   *)
(* same operators.                                                         *)
(***************************************************************************)
EXTENDS Exec, DataLemmas

-----------------------------------------------------------------------------
(* Powers of two.                                                          *)

LEMMA PowerOfTwo ==
  /\ Pow2[0] = 1
  /\ \A n \in Nat : Pow2[n] \in Nat \ {0} /\ Pow2[n + 1] = 2 * Pow2[n]
<1> DEFINE Doubles(f) == f = [n \in Nat |-> IF n = 0 THEN 1 ELSE 2 * f[n - 1]]
<1>1. PICK f \in [Nat -> Nat] : f[0] = 1 /\ \A n \in Nat : f[n + 1] = 2 * f[n]
  BY Doubling
<1>2. Doubles(f)
  <2>1. ASSUME NEW n \in Nat PROVE f[n] = IF n = 0 THEN 1 ELSE 2 * f[n - 1]
    <3>1. CASE n = 0 BY <1>1, <3>1
    <3>2. CASE n # 0
      <4>1. n - 1 \in Nat /\ (n - 1) + 1 = n BY <3>2
      <4>2. f[(n - 1) + 1] = 2 * f[n - 1] BY <1>1, <4>1
      <4> QED BY <3>2, <4>1, <4>2
    <3> QED BY <3>1, <3>2
  <2>2. f = [n \in Nat |-> f[n]] OBVIOUS
  <2> QED BY <2>1, <2>2
<1>3. Doubles(Pow2)
  <2>1. Pow2 = CHOOSE g : Doubles(g) BY DEF Pow2
  <2> HIDE DEF Doubles
  <2> QED BY <1>2, <2>1
<1>4. Pow2[0] = 1
  BY <1>3
<1>5. ASSUME NEW n \in Nat PROVE Pow2[n + 1] = 2 * Pow2[n]
  <2>1. n + 1 \in Nat /\ n + 1 # 0 /\ (n + 1) - 1 = n OBVIOUS
  <2> QED BY <1>3, <2>1
<1> DEFINE S == {n \in Nat : Pow2[n] \in Nat \ {0}}
<1>6. 0 \in S
  BY <1>4
<1>7. \A n \in Nat : n \in S => n + 1 \in S
  BY <1>5
<1>8. Nat \subseteq S
  <2> HIDE DEF S
  <2> QED BY <1>6, <1>7, SetInduction
<1> QED
  BY <1>4, <1>5, <1>8

LEMMA PowerSum ==
  ASSUME NEW m \in Nat, NEW n \in Nat
  PROVE  Pow2[m + n] = Pow2[m] * Pow2[n]
<1> DEFINE S == {i \in Nat : Pow2[m + i] = Pow2[m] * Pow2[i]}
<1>1. 0 \in S
  <2>1. Pow2[m + 0] = Pow2[m] * Pow2[0] BY PowerOfTwo
  <2> QED BY <2>1
<1>2. ASSUME NEW i \in Nat, i \in S PROVE i + 1 \in S
  <2>1. Pow2[m + i] = Pow2[m] * Pow2[i] BY <1>2
  <2>2. Pow2[(m + i) + 1] = 2 * Pow2[m + i] /\ Pow2[i + 1] = 2 * Pow2[i]
    <3>1. m + i \in Nat OBVIOUS
    <3> QED BY <3>1, PowerOfTwo
  <2>3. m + (i + 1) = (m + i) + 1 OBVIOUS
  <2>4. Pow2[m] \in Nat /\ Pow2[i] \in Nat BY PowerOfTwo
  <2>5. Pow2[m] * (2 * Pow2[i]) = 2 * (Pow2[m] * Pow2[i]) BY <2>4
  <2>6. Pow2[m + (i + 1)] = Pow2[m] * Pow2[i + 1] BY <2>1, <2>2, <2>3, <2>5
  <2> QED BY <2>6
<1>3. Nat \subseteq S
  <2> HIDE DEF S
  <2> QED BY <1>1, <1>2, SetInduction
<1> QED
  BY <1>3

\* A smaller power divides a larger one.
LEMMA PowerSplit ==
  ASSUME NEW m \in Nat, NEW n \in Nat, m <= n
  PROVE  Pow2[n] = Pow2[m] * Pow2[n - m] /\ n - m \in Nat
<1>1. n - m \in Nat /\ m + (n - m) = n OBVIOUS
<1> QED BY <1>1, PowerSum

LEMMA PowerLarge ==
  ASSUME NEW n \in Nat
  PROVE  n < Pow2[n]
<1> DEFINE S == {i \in Nat : i < Pow2[i]}
<1>1. 0 \in S BY PowerOfTwo
<1>2. ASSUME NEW i \in Nat, i \in S PROVE i + 1 \in S
  <2>1. Pow2[i] \in Nat /\ Pow2[i + 1] = 2 * Pow2[i] /\ i < Pow2[i] BY <1>2, PowerOfTwo
  <2>2. i + 1 < Pow2[i + 1] BY <2>1
  <2> QED BY <2>2
<1>3. Nat \subseteq S
  <2> HIDE DEF S
  <2> QED BY <1>1, <1>2, SetInduction
<1> QED BY <1>3

\* Width w: the number of its values, and half of that.
LEMMA PowerHalf ==
  ASSUME NEW w \in Nat \ {0}
  PROVE  Pow2[w] = 2 * Pow2[w - 1] /\ Pow2[w] \in Nat \ {0} /\ Pow2[w - 1] \in Nat \ {0}
<1>1. w - 1 \in Nat /\ (w - 1) + 1 = w OBVIOUS
<1> QED BY <1>1, PowerOfTwo

\* n is divisible by s when it is s times something.
LEMMA Divisible ==
  ASSUME NEW s \in Nat \ {0}, NEW k \in Int
  PROVE  (s * k) % s = 0 /\ (s * k) \div s = k
<1>1. PICK a \in Int : a = s * k OBVIOUS
<1>2. a = s * k + 0 /\ 0 \in 0..(s - 1) BY <1>1
<1>3. a \div s = k /\ a % s = 0 BY <1>2, DivUnique
<1> QED BY <1>1, <1>3

LEMMA PowerDivides ==
  ASSUME NEW m \in Nat, NEW n \in Nat, m <= n
  PROVE  Pow2[n] % Pow2[m] = 0
<1>1. PICK k \in Int : k = Pow2[n - m]
  <2>1. n - m \in Nat BY PowerSplit
  <2> QED BY <2>1, PowerOfTwo
<1>2. Pow2[m] \in Nat \ {0} /\ Pow2[n] = Pow2[m] * k
  BY <1>1, PowerSplit, PowerOfTwo
<1>3. PICK s \in Nat \ {0} : s = Pow2[m]
  BY <1>2
<1>4. (s * k) % s = 0
  BY Divisible
<1> QED BY <1>2, <1>3, <1>4

\* The width in use: XLEN or half of it.
Widths == {XLEN, WORD}

LEMMA WidthFacts ==
  /\ XLEN \in Nat /\ XLEN >= 2 /\ WORD \in Nat \ {0} /\ XLEN = 2 * WORD
  /\ Widths \subseteq Nat \ {0}
  /\ \A w \in Widths : Pow2[w] % w = 0 /\ Pow2[XLEN] % w = 0
<1>1. PICK k \in 1..XLEN : XLEN = Pow2[k] /\ XLEN \in Nat /\ XLEN >= 2
  BY AluAssumption
<1>2. k \in Nat \ {0} /\ k - 1 \in Nat BY <1>1
<1>3. XLEN = 2 * Pow2[k - 1] /\ Pow2[k - 1] \in Nat \ {0}
  BY <1>1, <1>2, PowerHalf
<1>4. WORD = Pow2[k - 1] /\ XLEN = 2 * WORD
  <2>1. PICK h \in Nat : h = Pow2[k - 1] BY <1>3
  <2>2. XLEN \div 2 = h BY <1>3, <2>1
  <2> QED BY <1>3, <2>1, <2>2 DEF WORD
<1>5. k <= XLEN /\ k - 1 <= WORD /\ k - 1 <= XLEN
  BY <1>1, <1>2, <1>3, <1>4, PowerLarge
<1>6. \A w \in Widths : Pow2[w] % w = 0 /\ Pow2[XLEN] % w = 0
  BY <1>1, <1>2, <1>3, <1>4, <1>5, PowerDivides DEF Widths
<1> QED BY <1>1, <1>3, <1>4, <1>6 DEF Widths

-----------------------------------------------------------------------------
(* Bits.                                                                   *)

LEMMA BitType ==
  ASSUME NEW n \in Int, NEW i \in Nat
  PROVE  Bit(n, i) \in {0, 1}
<1>1. Pow2[i] \in Nat \ {0} BY PowerOfTwo
<1>2. n \div Pow2[i] \in Int BY <1>1, DivMod
<1> QED BY <1>2 DEF Bit

\* A bit is not changed by multiples of a higher power of two.
LEMMA BitPlus ==
  ASSUME NEW n \in Int, NEW i \in Nat, NEW w \in Nat, i < w, NEW k \in Int
  PROVE  Bit(n + Pow2[w] * k, i) = Bit(n, i)
<1>1. w - i \in Nat \ {0} /\ Pow2[w] = Pow2[i] * Pow2[w - i]
  BY PowerSplit
<1>2. PICK h \in Nat : Pow2[w - i] = 2 * h
  BY <1>1, PowerHalf
<1>3. PICK p \in Nat \ {0} : p = Pow2[i]
  BY PowerOfTwo
<1>4. PICK j \in Int : j = h * k
  OBVIOUS
<1>5. PICK jj \in Int : jj = 2 * j
  OBVIOUS
<1>6. Pow2[w] * k = p * jj
  <2>1. Pow2[w] = p * (2 * h) BY <1>1, <1>2, <1>3
  <2>2. (p * (2 * h)) * k = p * (2 * (h * k)) OBVIOUS
  <2> QED BY <2>1, <2>2, <1>4, <1>5
<1>7. (n + p * jj) \div p = (n \div p) + jj
  BY ModPlus
<1>8. PICK q \in Int : q = n \div p
  BY DivMod
<1>9. (q + 2 * j) % 2 = q % 2
  BY ModPlus
<1> QED
  BY <1>3, <1>5, <1>6, <1>7, <1>8, <1>9 DEF Bit

LEMMA BitMod ==
  ASSUME NEW n \in Int, NEW i \in Nat, NEW w \in Nat, i < w
  PROVE  Bit(n % Pow2[w], i) = Bit(n, i)
<1>1. PICK p \in Nat \ {0} : p = Pow2[w]
  BY PowerOfTwo
<1>2. PICK r \in Int, q \in Int : r = n % p /\ q = n \div p /\ n = r + p * q
  BY DivMod
<1>3. Bit(r + Pow2[w] * q, i) = Bit(r, i)
  BY BitPlus
<1> QED
  BY <1>1, <1>2, <1>3

LEMMA BitDown ==
  ASSUME NEW n \in Int, NEW i \in Nat, NEW s \in Nat
  PROVE  Bit(n \div Pow2[s], i) = Bit(n, i + s)
<1>1. (n \div Pow2[s]) \div Pow2[i] = n \div (Pow2[s] * Pow2[i])
  BY DivDiv, PowerOfTwo
<1>2. Pow2[i + s] = Pow2[s] * Pow2[i]
  BY PowerSum, i + s = s + i
<1> QED
  BY <1>1, <1>2 DEF Bit

LEMMA BitUp ==
  ASSUME NEW n \in Int, NEW i \in Nat, NEW s \in Nat
  PROVE  Bit(n * Pow2[s], i) = IF i >= s THEN Bit(n, i - s) ELSE 0
<1>1. CASE i >= s
  <2>1. i - s \in Nat /\ (i - s) + s = i BY <1>1
  <2>2. PICK p \in Nat \ {0} : p = Pow2[s] BY PowerOfTwo
  <2>3. PICK m \in Int : m = p * n OBVIOUS
  <2>4. m \div p = n BY <2>3, Divisible
  <2>5. Bit(m \div Pow2[s], i - s) = Bit(m, (i - s) + s) BY <2>1, BitDown
  <2>6. n * Pow2[s] = m BY <2>2, <2>3
  <2> QED BY <1>1, <2>1, <2>2, <2>4, <2>5, <2>6
<1>2. CASE i < s
  <2>1. PICK p \in Nat : p = Pow2[s] BY PowerOfTwo
  <2>2. PICK z \in Int : z = 0 OBVIOUS
  <2>3. Bit(z + Pow2[s] * n, i) = Bit(z, i) BY <1>2, BitPlus
  <2>4. z + Pow2[s] * n = n * Pow2[s] BY <2>1, <2>2
  <2>5. Bit(z, i) = 0
    <3>1. PICK r \in Nat \ {0} : r = Pow2[i] BY PowerOfTwo
    <3>2. z \div r = 0 BY <2>2, ModSmall
    <3> QED BY <3>1, <3>2 DEF Bit
  <2> QED BY <1>2, <2>3, <2>4, <2>5
<1> QED
  BY <1>1, <1>2

\* The bits above the width are those of the sign.
LEMMA BitHigh ==
  ASSUME NEW w \in Nat, NEW n \in Int, -Pow2[w] <= n, n < Pow2[w], NEW i \in Nat, w <= i
  PROVE  Bit(n, i) = IF n < 0 THEN 1 ELSE 0
<1>1. PICK p \in Nat \ {0} : p = Pow2[i] BY PowerOfTwo
<1>2. Pow2[w] <= p
  <2>1. PICK c \in Nat \ {0} : c = Pow2[i - w] BY PowerSplit, PowerOfTwo
  <2>2. PICK d \in Nat \ {0} : d = Pow2[w] BY PowerOfTwo
  <2>3. p = d * c BY <1>1, <2>1, <2>2, PowerSplit
  <2>4. c >= 1 => d * c >= d BY Times
  <2> QED BY <2>1, <2>2, <2>3, <2>4
<1>3. Pow2[w] \in Nat BY PowerOfTwo
<1>4. CASE n >= 0
  <2>1. n \in 0..(p - 1) BY <1>2, <1>3, <1>4
  <2>2. n \div p = 0 BY <2>1, ModSmall
  <2> QED BY <1>1, <1>4, <2>2 DEF Bit
<1>5. CASE n < 0
  <2>1. n = p * (-1) + (n + p) /\ n + p \in 0..(p - 1) BY <1>2, <1>3, <1>5
  <2>2. PICK q \in Int : q = -1 OBVIOUS
  <2>3. PICK r \in 0..(p - 1) : r = n + p BY <2>1
  <2>4. n = p * q + r BY <2>1, <2>2, <2>3
  <2>5. n \div p = q BY <2>4, DivUnique
  <2> QED BY <1>1, <1>5, <2>2, <2>5 DEF Bit
<1> QED
  BY <1>4, <1>5

\* The number with given bits.
LEMMA FromBitsRight ==
  ASSUME NEW places
  PROVE  /\ FromBits(places) \in Values
         /\ \A i \in Places : Bit(FromBits(places), i) = 1 <=> i \in places
<1> DEFINE Term(k) == IF k \in places THEN Pow2[k] ELSE 0
           Sums(g) == g = [k \in 0..XLEN |-> IF k = 0 THEN 0 ELSE g[k - 1] + Term(k - 1)]
           b == CHOOSE g : Sums(g)
<1>1. Sums(b)
  <2> DEFINE step == [k \in 1..XLEN |-> [v \in Nat |-> v + Term(k - 1)]]
  <2>1. \A k \in Nat : Term(k) \in Nat BY PowerOfTwo
  <2>2. XLEN \in Nat BY WidthFacts
  <2>3. step \in [1..XLEN -> [Nat -> Nat]]
    <3>1. ASSUME NEW k \in 1..XLEN, NEW v \in Nat PROVE v + Term(k - 1) \in Nat
      <4>1. k - 1 \in Nat OBVIOUS
      <4>2. Term(k - 1) \in Nat BY <4>1, <2>1
      <4> HIDE DEF Term
      <4> QED BY <4>2
    <3> QED BY <3>1
  <2>4. PICK g \in [0..XLEN -> Nat] : Follows(g, XLEN, 0, step)
    <3> HIDE DEF step
    <3> QED BY <2>2, <2>3, Recursion
  <2>5. ASSUME NEW k \in 0..XLEN PROVE g[k] = IF k = 0 THEN 0 ELSE g[k - 1] + Term(k - 1)
    <3> HIDE DEF Term, step
    <3>1. CASE k = 0 BY <2>4, <3>1 DEF Follows
    <3>2. CASE k # 0
      <4>1. k \in 1..XLEN /\ k - 1 \in 0..XLEN BY <2>2, <3>2
      <4>2. g[k] = step[k][g[k - 1]] /\ g[k - 1] \in Nat BY <2>4, <3>2, <4>1 DEF Follows
      <4> QED BY <3>2, <4>1, <4>2 DEF step
    <3> QED BY <3>1, <3>2
  <2>6. g = [k \in 0..XLEN |-> g[k]] BY <2>4
  <2>7. Sums(g)
    <3> HIDE DEF Term, step
    <3> QED BY <2>5, <2>6
  <2> HIDE DEF Sums
  <2> QED BY <2>7
<1>2. FromBits(places) = b[XLEN]
  BY DEF FromBits
<1>3. b[0] = 0 /\ \A k \in 0..(XLEN - 1) : b[k + 1] = b[k] + Term(k)
  <2> HIDE DEF b, Term
  <2>1. XLEN \in Nat BY WidthFacts
  <2>2. ASSUME NEW k \in 0..(XLEN - 1) PROVE b[k + 1] = b[k] + Term(k)
    <3>1. k + 1 \in 0..XLEN /\ k + 1 # 0 /\ (k + 1) - 1 = k BY <2>1
    <3> QED BY <1>1, <3>1
  <2>3. b[0] = 0
    <3>1. 0 \in 0..XLEN BY <2>1
    <3> QED BY <1>1, <3>1
  <2> QED BY <2>2, <2>3
<1> HIDE DEF b
<1> DEFINE Good(k) == /\ b[k] \in 0..(Pow2[k] - 1)
                      /\ \A i \in 0..(k - 1) : Bit(b[k], i) = 1 <=> i \in places
           S == {k \in Nat : k <= XLEN => Good(k)}
<1>4. 0 \in S
  BY <1>3, PowerOfTwo
<1>5. ASSUME NEW k \in Nat, k \in S PROVE k + 1 \in S
  <2> SUFFICES ASSUME k + 1 <= XLEN PROVE Good(k + 1)
    OBVIOUS
  <2>1. Good(k) /\ k \in 0..(XLEN - 1) BY <1>5, WidthFacts
  <2>2. PICK p \in Nat \ {0} : p = Pow2[k] /\ Pow2[k + 1] = 2 * p BY PowerOfTwo
  <2>3. b[k + 1] = b[k] + Term(k) BY <1>3, <2>1
  <2>4. PICK c \in 0..(p - 1) : c = b[k] BY <2>1, <2>2
  <2>5. PICK t \in {0, 1} : Term(k) = p * t /\ (t = 1 <=> k \in places)
    <3>1. CASE k \in places
      <4>1. p = p * 1 OBVIOUS
      <4> QED BY <2>2, <3>1, <4>1
    <3>2. CASE k \notin places
      <4>1. 0 = p * 0 OBVIOUS
      <4> QED BY <3>2, <4>1
    <3> QED BY <3>1, <3>2
  <2>6. b[k + 1] = p * t + c BY <2>3, <2>4, <2>5
  <2>7. (p * t + c) \div p = t /\ (p * t + c) % p = c
    <3>1. PICK n \in Int : n = p * t + c OBVIOUS
    <3> QED BY <3>1, DivUnique
  <2>8. b[k + 1] \in 0..(Pow2[k + 1] - 1)
    <3>1. CASE t = 0
      <4>1. p * 0 = 0 OBVIOUS
      <4> QED BY <2>2, <2>6, <3>1, <4>1
    <3>2. CASE t = 1
      <4>1. p * 1 = p OBVIOUS
      <4> QED BY <2>2, <2>6, <3>2, <4>1
    <3> QED BY <3>1, <3>2
  <2>9. Bit(b[k + 1], k) = t
    <3>1. t % 2 = t BY <2>5
    <3> QED BY <3>1, <2>2, <2>6, <2>7 DEF Bit
  <2>10. ASSUME NEW i \in 0..(k - 1) PROVE Bit(b[k + 1], i) = Bit(b[k], i)
    <3>1. b[k + 1] \in Int BY <2>8, <2>2
    <3>2. Bit(b[k + 1] % Pow2[k], i) = Bit(b[k + 1], i) BY <3>1, BitMod
    <3> QED BY <3>2, <2>2, <2>4, <2>6, <2>7
  <2>11. ASSUME NEW i \in 0..((k + 1) - 1) PROVE Bit(b[k + 1], i) = 1 <=> i \in places
    <3>1. CASE i = k BY <2>5, <2>9, <3>1
    <3>2. CASE i # k
      <4>1. i \in 0..(k - 1) BY <3>2
      <4> QED BY <4>1, <2>10, <2>1
    <3> QED BY <3>1, <3>2
  <2> QED BY <2>8, <2>11
<1>6. Good(XLEN)
  <2>1. Nat \subseteq S
    <3> HIDE DEF S
    <3> QED BY <1>4, <1>5, SetInduction
  <2>2. XLEN \in S BY <2>1, WidthFacts
  <2> QED BY <2>2, WidthFacts
<1> QED
  BY <1>2, <1>6 DEF Values, Places

-----------------------------------------------------------------------------
(* Two's complement and the casts.                                         *)

LEMMA SignOf ==
  ASSUME NEW w \in Nat \ {0}, NEW n \in 0..(Pow2[w] - 1)
  PROVE  /\ TwosComplement(n, w) = IF n >= Pow2[w - 1] THEN n - Pow2[w] ELSE n
         /\ TwosComplement(n, w) \in -Pow2[w - 1]..(Pow2[w - 1] - 1)
         /\ TwosComplement(n, w) % Pow2[w] = n
<1>1. PICK h \in Nat \ {0} : h = Pow2[w - 1] /\ Pow2[w] = 2 * h BY PowerHalf
<1>2. Bit(n, w - 1) = IF n >= h THEN 1 ELSE 0
  <2>1. CASE n >= h
    <3>1. n = h * 1 + (n - h) /\ n - h \in 0..(h - 1) BY <1>1, <2>1
    <3>2. PICK r \in 0..(h - 1) : r = n - h BY <3>1
    <3>3. n = h * 1 + r BY <3>2
    <3>4. n \div h = 1 BY <3>3, DivUnique
    <3> QED BY <1>1, <2>1, <3>4 DEF Bit
  <2>2. CASE n < h
    <3>1. n \in 0..(h - 1) BY <1>1, <2>2
    <3>2. n \div h = 0 BY <3>1, ModSmall
    <3> QED BY <1>1, <2>2, <3>2 DEF Bit
  <2> QED BY <1>1, <2>1, <2>2
<1>3. TwosComplement(n, w) = IF n >= h THEN n - 2 * h ELSE n
  BY <1>1, <1>2 DEF TwosComplement
<1>4. TwosComplement(n, w) % (2 * h) = n
  <2>1. PICK m \in Nat \ {0} : m = 2 * h BY <1>1
  <2>2. PICK v \in Int : v = TwosComplement(n, w) BY <1>1, <1>3
  <2>3. v = m * 0 + n \/ v = m * (-1) + n BY <1>3, <2>1, <2>2
  <2>4. n \in 0..(m - 1) BY <1>1, <2>1
  <2>5. v % m = n
    <3>1. CASE v = m * 0 + n BY <3>1, <2>4, DivUnique
    <3>2. CASE v = m * (-1) + n
      <4>1. PICK q \in Int : q = -1 OBVIOUS
      <4>2. v = m * q + n BY <3>2, <4>1
      <4> QED BY <4>2, <2>4, DivUnique
    <3> QED BY <2>3, <3>1, <3>2
  <2> QED BY <2>1, <2>2, <2>5
<1> QED
  BY <1>1, <1>3, <1>4

\* The cast is the two's complement of the low bits.
LEMMA SignedIs ==
  ASSUME NEW w \in Nat \ {0}, NEW n \in Int
  PROVE  /\ n % Pow2[w] \in 0..(Pow2[w] - 1)
         /\ Signed(n, w) = TwosComplement(n % Pow2[w], w)
         /\ Signed(n, w) \in -Pow2[w - 1]..(Pow2[w - 1] - 1)
         /\ Signed(n, w) \in Int
         /\ Signed(n, w) % Pow2[w] = n % Pow2[w]
<1>1. PICK m \in Nat \ {0} : m = Pow2[w] BY PowerHalf
<1>2. PICK u \in 0..(m - 1) : u = n % m BY DivMod
<1>3. /\ TwosComplement(u, w) = IF u >= Pow2[w - 1] THEN u - Pow2[w] ELSE u
      /\ TwosComplement(u, w) \in -Pow2[w - 1]..(Pow2[w - 1] - 1)
      /\ TwosComplement(u, w) % Pow2[w] = u
  BY <1>1, SignOf
<1>4. Pow2[w - 1] \in Nat BY PowerHalf
<1>5. Signed(n, w) = TwosComplement(u, w)
  BY <1>1, <1>2, <1>3, <1>4 DEF Signed
<1> QED
  BY <1>1, <1>2, <1>3, <1>4, <1>5

\* A number within the range of the width is what its low bits stand for.
LEMMA SignedBack ==
  ASSUME NEW w \in Nat \ {0}, NEW v \in -Pow2[w - 1]..(Pow2[w - 1] - 1)
  PROVE  TwosComplement(v % Pow2[w], w) = v
<1>1. PICK h \in Nat \ {0} : h = Pow2[w - 1] /\ Pow2[w] = 2 * h BY PowerHalf
<1>2. PICK m \in Nat \ {0} : m = 2 * h BY <1>1
<1>3. v \in Int /\ -h <= v /\ v < h /\ -m < v /\ v < m BY <1>1, <1>2
<1>4. v % m = IF v >= 0 THEN v ELSE v + m BY <1>1, <1>2, <1>3, ModNear
<1>5. PICK u \in 0..(m - 1) : u = v % m BY <1>1, <1>2, <1>3, <1>4
<1>6. TwosComplement(u, w) = IF u >= h THEN u - m ELSE u BY <1>1, <1>2, SignOf
<1> QED
  BY <1>1, <1>2, <1>3, <1>4, <1>5, <1>6

\* What an assignment to a register leaves of a result of width w.
Extended(w, v) == IF w = XLEN THEN U64(v) ELSE SextW(v)

LEMMA ExtendedRight ==
  ASSUME NEW w \in Widths, NEW v \in Int
  PROVE  /\ Extended(w, v) \in Values
         /\ LowOf(Extended(w, v), w) = v % Pow2[w]
         /\ IsSignExtended(Extended(w, v), w)
<1>1. PICK m \in Nat \ {0} : m = Pow2[XLEN] BY WidthFacts, PowerOfTwo
<1>2. Extended(w, v) = Signed(v, w) % m
  <2>1. CASE w = XLEN
    BY <1>1, <2>1, SignedIs, WidthFacts DEF Extended, U64
  <2>2. CASE w = WORD
    BY <1>1, <2>2, WidthFacts DEF Extended, SextW, U64, I32
  <2> QED BY <2>1, <2>2 DEF Widths
<1>3. PICK y \in Int : y = Signed(v, w) /\ y % Pow2[w] = v % Pow2[w]
                       /\ y = TwosComplement(v % Pow2[w], w)
  BY SignedIs, WidthFacts
<1>4. Extended(w, v) \in Values
  BY <1>1, <1>2, <1>3, DivMod DEF Values
<1>5. PICK p \in Nat \ {0} : p = Pow2[w] /\ m % p = 0
  <2>1. w \in Nat /\ w <= XLEN /\ XLEN \in Nat BY WidthFacts DEF Widths
  <2>2. Pow2[w] \in Nat \ {0} /\ Pow2[XLEN] % Pow2[w] = 0 BY <2>1, PowerOfTwo, PowerDivides
  <2> QED BY <1>1, <2>2
<1>6. (y % m) % p = y % p BY <1>5, ModMod
<1>7. LowOf(Extended(w, v), w) = v % Pow2[w]
  BY <1>2, <1>3, <1>5, <1>6 DEF LowOf
<1>8. LowOf(y, XLEN) = Extended(w, v) BY <1>1, <1>2, <1>3 DEF LowOf
<1>9. IsSignExtended(Extended(w, v), w) BY <1>3, <1>7, <1>8 DEF IsSignExtended
<1> QED BY <1>4, <1>7, <1>9


-----------------------------------------------------------------------------
(* One operation at a time, at width w: the low bits of what the code      *)
(* computes are a result of the operation.                                 *)

LEMMA AddRight ==
  ASSUME NEW w \in Nat \ {0}, NEW a \in Int, NEW b \in Int
  PROVE  IsResult("add", w, a, b, (a + b) % Pow2[w])
<1>1. PICK m \in Nat \ {0} : m = Pow2[w] BY PowerHalf
<1>2. PICK n \in Int : n = a + b OBVIOUS
<1>3. PICK r \in 0..(m - 1) : r = n % m BY ModLess
<1>4. (r - n) % m = 0 BY <1>3, ModLess
<1> QED BY <1>1, <1>2, <1>3, <1>4 DEF IsResult, Congruent

LEMMA SubRight ==
  ASSUME NEW w \in Nat \ {0}, NEW a \in Int, NEW b \in Int
  PROVE  IsResult("sub", w, a, b, (a - b) % Pow2[w])
<1>1. PICK m \in Nat \ {0} : m = Pow2[w] BY PowerHalf
<1>2. PICK n \in Int : n = a - b OBVIOUS
<1>3. PICK r \in 0..(m - 1) : r = n % m BY ModLess
<1>4. (r - n) % m = 0 BY <1>3, ModLess
<1>5. (r + b) - a = r - n BY <1>2
<1>6. ((r + b) - a) % m = 0 BY <1>4, <1>5
<1> QED BY <1>1, <1>2, <1>3, <1>6 DEF IsResult, Congruent

\* Signed or not, the low half of a product is the same.
LEMMA MulRight ==
  ASSUME NEW w \in Nat \ {0}, NEW a \in Int, NEW b \in Int, NEW c \in Int, NEW d \in Int,
         c % Pow2[w] = a % Pow2[w], d % Pow2[w] = b % Pow2[w]
  PROVE  IsResult("mul", w, a, b, (c * d) % Pow2[w])
<1>1. PICK m \in Nat \ {0} : m = Pow2[w] BY PowerHalf
<1>2. (c * d) % m = (a * d) % m BY <1>1, ModTimes
<1>3. (d * a) % m = (b * a) % m BY <1>1, ModTimes
<1>4. d * a = a * d /\ b * a = a * b OBVIOUS
<1>5. PICK n \in Int : n = a * b OBVIOUS
<1>6. PICK r \in 0..(m - 1) : r = n % m BY ModLess
<1>7. (c * d) % m = r BY <1>2, <1>3, <1>4, <1>5, <1>6
<1>8. (r - n) % m = 0 BY <1>6, ModLess
<1> QED BY <1>1, <1>5, <1>7, <1>8 DEF IsResult, Congruent

\* A condition as a register holds it.
LEMMA FlagRight ==
  ASSUME NEW w \in Nat \ {0}, NEW c
  PROVE  Flag(c) % Pow2[w] = (IF c THEN 1 ELSE 0) /\ Flag(c) \in Int
<1>1. PICK h \in Nat \ {0} : Pow2[w] = 2 * h BY PowerHalf
<1>2. PICK m \in Nat \ {0} : m = 2 * h BY <1>1
<1>3. Flag(c) \in 0..(m - 1) /\ Flag(c) = (IF c THEN 1 ELSE 0) BY <1>2 DEF Flag
<1>4. Flag(c) % m = Flag(c) BY <1>3, ModSmall
<1> QED BY <1>1, <1>2, <1>3, <1>4

LEMMA LessRight ==
  ASSUME NEW w \in Nat \ {0}, NEW a \in 0..(Pow2[w] - 1), NEW b \in 0..(Pow2[w] - 1)
  PROVE  /\ IsResult("slt", w, a, b,
                     Flag(TwosComplement(a, w) < TwosComplement(b, w)) % Pow2[w])
         /\ IsResult("sltu", w, a, b, Flag(a < b) % Pow2[w])
<1>1. /\ Flag(TwosComplement(a, w) < TwosComplement(b, w)) % Pow2[w]
           = IF TwosComplement(a, w) < TwosComplement(b, w) THEN 1 ELSE 0
      /\ Flag(a < b) % Pow2[w] = IF a < b THEN 1 ELSE 0
  <2>1. /\ Flag(TRUE) % Pow2[w] = 1 /\ Flag(FALSE) % Pow2[w] = 0
    BY FlagRight
  <2>2. (a < b) \in BOOLEAN /\ (TwosComplement(a, w) < TwosComplement(b, w)) \in BOOLEAN
    <3>1. Pow2[w] \in Nat /\ Pow2[w - 1] \in Nat BY PowerHalf
    <3>2. a \in Int /\ b \in Int BY <3>1
    <3>3. TwosComplement(a, w) \in Int /\ TwosComplement(b, w) \in Int BY <3>1, SignOf
    <3> QED BY <3>2, <3>3
  <2> QED BY <2>1, <2>2
<1>2. IsResult("slt", w, a, b, Flag(TwosComplement(a, w) < TwosComplement(b, w)) % Pow2[w])
  BY <1>1 DEF IsResult
<1>3. IsResult("sltu", w, a, b, Flag(a < b) % Pow2[w])
  BY <1>1 DEF IsResult
<1> QED BY <1>2, <1>3

\* The three bitwise operations, on all of a register.
LEMMA BitwiseRight ==
  ASSUME NEW a \in Values, NEW b \in Values
  PROVE  /\ IsResult("xor", XLEN, a, b, Xor(a, b)) /\ Xor(a, b) \in Values
         /\ IsResult("or", XLEN, a, b, Or(a, b)) /\ Or(a, b) \in Values
         /\ IsResult("and", XLEN, a, b, And(a, b)) /\ And(a, b) \in Values
<1>1. a \in Int /\ b \in Int /\ \A i \in Places : i \in Nat
  BY PowerOfTwo, WidthFacts DEF Values, Places
<1>2. \A i \in Places : Bit(a, i) \in {0, 1} /\ Bit(b, i) \in {0, 1} BY <1>1, BitType
<1>3. \A i \in Places : (Bit(Xor(a, b), i) = 1) = (Bit(a, i) + Bit(b, i) = 1)
  BY <1>2, FromBitsRight DEF Xor
<1>4. \A i \in Places : (Bit(Or(a, b), i) = 1) = (Bit(a, i) + Bit(b, i) > 0)
  BY <1>2, FromBitsRight DEF Or
<1>5. \A i \in Places : (Bit(And(a, b), i) = 1) = (Bit(a, i) + Bit(b, i) = 2)
  BY <1>2, FromBitsRight DEF And
<1>6. Xor(a, b) \in Values /\ Or(a, b) \in Values /\ And(a, b) \in Values
  BY FromBitsRight DEF Xor, Or, And
<1> QED BY <1>3, <1>4, <1>5, <1>6 DEF IsResult, Places

\* Shifts, by less than the width.
LEMMA ShiftLeftRight ==
  ASSUME NEW w \in Nat \ {0}, NEW a \in Int, NEW b \in Int
  PROVE  IsResult("sll", w, a, b, (a * Pow2[b % w]) % Pow2[w])
<1>1. PICK s \in 0..(w - 1) : s = b % w BY DivMod
<1>2. PICK n \in Int : n = a * Pow2[s] BY PowerOfTwo
<1>3. ASSUME NEW i \in 0..(w - 1)
      PROVE  (Bit(n % Pow2[w], i) = 1) = (i >= s /\ Bit(a, i - s) = 1)
  <2>1. Bit(n % Pow2[w], i) = Bit(n, i) BY BitMod
  <2>2. Bit(n, i) = IF i >= s THEN Bit(a, i - s) ELSE 0 BY <1>2, BitUp
  <2> QED BY <2>1, <2>2
<1> QED BY <1>1, <1>2, <1>3 DEF IsResult

LEMMA ShiftRightRight ==
  ASSUME NEW w \in Nat \ {0}, NEW a \in 0..(Pow2[w] - 1), NEW b \in Int
  PROVE  IsResult("srl", w, a, b, (a \div Pow2[b % w]) % Pow2[w])
<1>1. PICK s \in 0..(w - 1) : s = b % w BY DivMod
<1>2. Pow2[w] \in Nat \ {0} /\ Pow2[s] \in Nat \ {0} /\ a \in Int BY PowerOfTwo
<1>3. PICK n \in Int : n = a \div Pow2[s] BY <1>2, DivMod
<1>4. ASSUME NEW i \in 0..(w - 1)
      PROVE  (Bit(n % Pow2[w], i) = 1) = (i + s < w /\ Bit(a, i + s) = 1)
  <2>1. Bit(n % Pow2[w], i) = Bit(n, i) BY BitMod
  <2>2. Bit(n, i) = Bit(a, i + s) BY <1>2, <1>3, BitDown
  <2>3. i + s >= w => Bit(a, i + s) = 0
    <3>1. -Pow2[w] <= a /\ a < Pow2[w] /\ ~(a < 0) /\ i + s \in Nat BY <1>2
    <3> QED BY <1>2, <3>1, BitHigh
  <2> QED BY <2>1, <2>2, <2>3
<1> QED BY <1>1, <1>3, <1>4 DEF IsResult

LEMMA ShiftSignedRight ==
  ASSUME NEW w \in Nat \ {0}, NEW a \in 0..(Pow2[w] - 1), NEW b \in Int
  PROVE  IsResult("sra", w, a, b, (TwosComplement(a, w) \div Pow2[b % w]) % Pow2[w])
<1>1. PICK s \in 0..(w - 1) : s = b % w BY DivMod
<1>2. Pow2[w] \in Nat \ {0} /\ Pow2[s] \in Nat \ {0} /\ Pow2[w] = 2 * Pow2[w - 1]
      /\ Pow2[w - 1] \in Nat \ {0}
  BY PowerOfTwo, PowerHalf
<1>3. PICK v \in Int : /\ v = TwosComplement(a, w) /\ v % Pow2[w] = a
                       /\ -Pow2[w] <= v /\ v < Pow2[w]
  <2>1. PICK h \in Nat \ {0} : h = Pow2[w - 1] /\ Pow2[w] = 2 * h BY <1>2
  <2>2. PICK v \in -h..(h - 1) : v = TwosComplement(a, w) /\ v % Pow2[w] = a
    BY <2>1, SignOf
  <2> QED BY <2>1, <2>2
<1>4. PICK n \in Int : n = v \div Pow2[s] BY <1>2, DivMod
<1>5. ASSUME NEW i \in 0..(w - 1)
      PROVE  (Bit(n % Pow2[w], i) = 1) = IF i + s < w THEN Bit(a, i + s) = 1 ELSE v < 0
  <2>1. Bit(n % Pow2[w], i) = Bit(n, i) BY BitMod
  <2>2. Bit(n, i) = Bit(v, i + s) BY <1>4, BitDown
  <2>3. i + s < w => Bit(v, i + s) = Bit(a, i + s) BY <1>3, BitMod
  <2>4. i + s >= w => Bit(v, i + s) = IF v < 0 THEN 1 ELSE 0 BY <1>3, BitHigh
  <2> QED BY <2>1, <2>2, <2>3, <2>4
<1> QED BY <1>1, <1>3, <1>4, <1>5 DEF IsResult

-----------------------------------------------------------------------------
(* The high half of products.                                              *)

\* Of a product cut to twice the width, the high half is the quotient's.
LEMMA HighHalf ==
  ASSUME NEW m \in Nat \ {0}, NEW n \in Int
  PROVE  /\ (n % (m * m)) \div m = (n \div m) % m
         /\ (n \div m) \in Int
         /\ (n \div m) * m <= n /\ n < ((n \div m) + 1) * m
<1>1. PICK q \in Int, r \in 0..(m - 1) : q = n \div m /\ r = n % m /\ n = m * q + r
  BY DivMod
<1>2. PICK c \in Int, d \in 0..(m - 1) : c = q \div m /\ d = q % m /\ q = m * c + d
  BY DivMod
<1>3. PICK mm \in Nat \ {0} : mm = m * m OBVIOUS
<1>4. PICK e \in Int : e = m * d + r OBVIOUS
<1>5. n = mm * c + e
  <2>1. PICK k \in Int : k = m * c OBVIOUS
  <2>2. m * (k + d) = m * k + m * d OBVIOUS
  <2>3. m * (m * c) = (m * m) * c OBVIOUS
  <2>4. m * k = mm * c BY <2>1, <2>3, <1>3
  <2>5. m * q = m * k + m * d BY <1>2, <2>1, <2>2
  <2> QED BY <1>1, <1>4, <2>4, <2>5
<1>6. e \in 0..(mm - 1)
  <2>1. m * d >= 0 /\ m * d <= m * (m - 1) BY <1>2
  <2> QED BY <2>1, <1>1, <1>3, <1>4
<1>7. n % mm = e BY <1>5, <1>6, DivUnique
<1>8. e \div m = d BY <1>4, DivUnique
<1>9. q * m <= n /\ n < (q + 1) * m
  <2>1. q * m = m * q /\ (q + 1) * m = m * q + m BY <1>1
  <2> QED BY <1>1, <2>1
<1> QED BY <1>1, <1>2, <1>3, <1>7, <1>8, <1>9

\* Bounds of a quotient from those of the number.
LEMMA QuotientRange ==
  ASSUME NEW m \in Nat \ {0}, NEW n \in Int, NEW lo \in Int, NEW hi \in Int,
         m * lo <= n, n < m * hi
  PROVE  n \div m \in lo..(hi - 1)
<1>1. PICK q \in Int, r \in 0..(m - 1) : q = n \div m /\ r = n % m /\ n = m * q + r
  BY DivMod
<1>2. q >= lo
  <2> SUFFICES ASSUME q <= lo - 1 PROVE FALSE BY <1>1
  <2>1. m * q <= m * (lo - 1) BY <1>1
  <2>2. m * (lo - 1) = m * lo - m OBVIOUS
  <2> QED BY <1>1, <2>1, <2>2
<1>3. q < hi
  <2> SUFFICES ASSUME q >= hi PROVE FALSE BY <1>1
  <2>1. m * q >= m * hi BY <1>1
  <2> QED BY <1>1, <2>1
<1> QED BY <1>1, <1>2, <1>3

LEMMA PowerSquare ==
  ASSUME NEW w \in Nat
  PROVE  Pow2[2 * w] = Pow2[w] * Pow2[w]
<1>1. 2 * w = w + w OBVIOUS
<1> QED BY <1>1, PowerSum

\* What the three instructions put into a register, as Product computes it.
LEMMA HighRight ==
  ASSUME NEW n \in Int
  PROVE  /\ (n % Pow2[2 * XLEN]) \div Pow2[XLEN] = (n \div Pow2[XLEN]) % Pow2[XLEN]
         /\ n \div Pow2[XLEN] \in Int
         /\ IsHighPart(n \div Pow2[XLEN], n, XLEN)
<1>1. PICK m \in Nat \ {0} : m = Pow2[XLEN] /\ Pow2[2 * XLEN] = m * m
  BY PowerSquare, PowerOfTwo, WidthFacts
<1>2. /\ (n % (m * m)) \div m = (n \div m) % m
      /\ (n \div m) \in Int
      /\ (n \div m) * m <= n /\ n < ((n \div m) + 1) * m
  BY HighHalf
<1> QED BY <1>1, <1>2 DEF IsHighPart

LEMMA MulHighRight ==
  ASSUME NEW a \in Values, NEW b \in Values,
         NEW sa \in Int, NEW sb \in Int,
         sa = TwosComplement(a, XLEN), sb = TwosComplement(b, XLEN)
  PROVE  /\ (sa * sb) \div Pow2[XLEN] \in Int
         /\ IsResult("mulh", XLEN, a, b, ((sa * sb) \div Pow2[XLEN]) % Pow2[XLEN])
         /\ (sa * b) \div Pow2[XLEN] \in Int
         /\ IsResult("mulhsu", XLEN, a, b, ((sa * b) \div Pow2[XLEN]) % Pow2[XLEN])
         /\ (a * b) \div Pow2[XLEN] \in Int
         /\ IsResult("mulhu", XLEN, a, b, ((a * b) \div Pow2[XLEN]) % Pow2[XLEN])
<1>1. PICK h \in Nat \ {0} : h = Pow2[XLEN - 1] /\ Pow2[XLEN] = 2 * h /\ XLEN \in Nat \ {0}
  BY PowerHalf, WidthFacts
<1>2. PICK m \in Nat \ {0} : m = 2 * h BY <1>1
<1>3. a \in 0..(m - 1) /\ b \in 0..(m - 1) BY <1>1, <1>2 DEF Values
<1>4. sa \in -h..(h - 1) /\ sb \in -h..(h - 1) BY <1>1, <1>2, <1>3, SignOf
<1>5. ASSUME NEW n \in Int, m * (-h) <= n, n < m * h
      PROVE  /\ n \div m \in Int
             /\ IsHighPart(TwosComplement((n \div m) % m, XLEN), n, XLEN)
  <2>1. PICK q \in -h..(h - 1) : q = n \div m
    <3>1. PICK lo \in Int : lo = -h OBVIOUS
    <3>2. n \div m \in lo..(h - 1) BY <1>5, <3>1, QuotientRange
    <3> QED BY <3>1, <3>2
  <2>2. TwosComplement(q % m, XLEN) = q BY <1>1, <1>2, <2>1, SignedBack
  <2> QED BY <1>1, <1>2, <2>1, <2>2, HighRight
<1>6. PICK n1 \in Int : n1 = sa * sb OBVIOUS
<1>7. PICK n2 \in Int : n2 = sa * b BY <1>3
<1>8. PICK n3 \in Int : n3 = a * b BY <1>3
<1>9. m * (-h) <= n1 /\ n1 < m * h
  <2>1. sa * sb <= h * h /\ sa * sb >= -(h * h)
    <3>1. CASE sa >= 0
      <4>1. sa * sb <= sa * h /\ sa * sb >= sa * (-h) BY <1>4, <3>1
      <4>2. sa * h <= h * h /\ sa * (-h) = -(sa * h) BY <1>4, <3>1
      <4> QED BY <4>1, <4>2
    <3>2. CASE sa < 0
      <4>1. PICK p \in Nat : p = -sa /\ p <= h BY <1>4, <3>2
      <4>2. p * sb <= p * h /\ p * sb >= p * (-h) BY <1>4, <4>1
      <4>3. p * h <= h * h /\ p * (-h) = -(p * h) BY <4>1
      <4>4. sa * sb = -(p * sb) BY <4>1
      <4> QED BY <4>2, <4>3, <4>4
    <3> QED BY <3>1, <3>2
  <2>2. m * h = h * h + h * h /\ m * (-h) = -(m * h) /\ h * h >= 1 BY <1>2
  <2> QED BY <1>6, <2>1, <2>2
<1>10. m * (-h) <= n2 /\ n2 < m * h
  <2>1. PICK hb \in Int : hb = h * b BY <1>3
  <2>2. PICK hm \in Int : hm = h * m OBVIOUS
  <2>3. n2 >= -hb /\ n2 <= hb - b
    <3>1. sa * b >= (-h) * b /\ sa * b <= (h - 1) * b BY <1>3, <1>4
    <3>2. (-h) * b = -(h * b) /\ (h - 1) * b = h * b - b BY <1>3
    <3> QED BY <1>7, <2>1, <3>1, <3>2
  <2>4. hb <= hm - h
    <3>1. h * b <= h * (m - 1) BY <1>3
    <3>2. h * (m - 1) = h * m - h OBVIOUS
    <3> QED BY <2>1, <2>2, <3>1, <3>2
  <2>5. m * h = hm /\ m * (-h) = -hm BY <2>2
  <2>6. b \in Int /\ b >= 0 /\ h >= 1 BY <1>3
  <2>7. -hm <= n2 BY <2>3, <2>4, <2>6
  <2>8. n2 < hm BY <2>3, <2>4, <2>6
  <2> QED BY <2>5, <2>7, <2>8
<1>11. n3 \div m \in 0..(m - 1)
  <2>1. a * b >= 0 /\ a * b <= (m - 1) * b BY <1>3
  <2>2. (m - 1) * b = m * b - b /\ m * b <= m * (m - 1) BY <1>3
  <2>3. m * (m - 1) < m * m /\ m * 0 = 0 OBVIOUS
  <2>4. m * 0 <= n3 /\ n3 < m * m BY <1>3, <1>8, <2>1, <2>2, <2>3
  <2> QED BY <2>4, QuotientRange
<1>12. (n3 \div m) % m = n3 \div m BY <1>11, ModSmall
<1>13. IsHighPart((n3 \div m) % m, n3, XLEN) BY <1>1, <1>2, <1>12, HighRight
<1>14. /\ n1 \div m \in Int /\ IsHighPart(TwosComplement((n1 \div m) % m, XLEN), n1, XLEN)
       /\ n2 \div m \in Int /\ IsHighPart(TwosComplement((n2 \div m) % m, XLEN), n2, XLEN)
  BY <1>5, <1>9, <1>10
<1>15. IsResult("mulh", XLEN, a, b, (n1 \div m) % m) BY <1>6, <1>14 DEF IsResult
<1>16. IsResult("mulhsu", XLEN, a, b, (n2 \div m) % m) BY <1>7, <1>14 DEF IsResult
<1>17. IsResult("mulhu", XLEN, a, b, (n3 \div m) % m) BY <1>8, <1>13 DEF IsResult
<1> QED BY <1>1, <1>2, <1>6, <1>7, <1>8, <1>11, <1>14, <1>15, <1>16, <1>17

-----------------------------------------------------------------------------
(* Division.                                                               *)

LEMMA Quotients ==
  ASSUME NEW n \in Int, NEW d \in Int, d # 0
  PROVE  /\ Quotient(n, d) \in Int /\ Remainder(n, d) \in Int
         /\ Divides(n, d, Quotient(n, d), Remainder(n, d))
         /\ Remainder(n, d) = n - Quotient(n, d) * d
         /\ -Abs(n) <= Quotient(n, d) /\ Quotient(n, d) <= Abs(n)
         /\ Quotient(n, d) = Abs(n) => ((n < 0) = (d < 0) /\ Abs(d) = 1) \/ n = 0
<1>1. PICK an \in Nat : an = Abs(n) /\ (n = an \/ n = -an) BY DEF Abs
<1>2. PICK ad \in Nat \ {0} : ad = Abs(d) /\ (d = ad \/ d = -ad) BY DEF Abs
<1>3. PICK q \in Int, r \in 0..(ad - 1) : q = an \div ad /\ an = ad * q + r BY DivMod
<1>4. q \in 0..an
  <2>1. q >= 0
    <3> SUFFICES ASSUME q <= -1 PROVE FALSE OBVIOUS
    <3>1. ad * q <= -ad BY Times
    <3> QED BY <1>3, <3>1
  <2>2. q <= an
    <3>1. q <= ad * q
      <4>1. (ad - 1) * q >= 0 BY <2>1
      <4>2. (ad - 1) * q = ad * q - q OBVIOUS
      <4> QED BY <4>1, <4>2
    <3> QED BY <1>3, <3>1
  <2> QED BY <2>1, <2>2
<1>5. PICK p \in Int : p = Quotient(n, d) /\ p = IF (n < 0) = (d < 0) THEN q ELSE -q
  BY <1>1, <1>2, <1>3 DEF Quotient
<1>6. PICK s \in Int : s = IF n < 0 THEN -r ELSE r OBVIOUS
<1>7. n - d * p = s /\ d * p = p * d /\ d * p \in Int
  <2>1. d * p = IF n < 0 THEN -(ad * q) ELSE ad * q
    <3>1. PICK k \in Int : k = ad * q OBVIOUS
    <3>2. (-ad) * q = -k /\ ad * (-q) = -k /\ (-ad) * (-q) = k BY <3>1
    <3>3. /\ n < 0 /\ d < 0 => d = -ad /\ p = q
          /\ n < 0 /\ ~(d < 0) => d = ad /\ p = -q
          /\ ~(n < 0) /\ d < 0 => d = -ad /\ p = -q
          /\ ~(n < 0) /\ ~(d < 0) => d = ad /\ p = q
      BY <1>2, <1>5
    <3> QED BY <3>1, <3>2, <3>3
  <2>2. PICK k \in Int : k = ad * q OBVIOUS
  <2>3. n = IF n < 0 THEN -an ELSE an BY <1>1
  <2>4. an = k + r BY <1>3, <2>2
  <2>5. PICK dp \in Int : dp = d * p OBVIOUS
  <2>6. n - dp = s BY <2>1, <2>2, <2>3, <2>4, <2>5, <1>6
  <2>7. d * p = p * d OBVIOUS
  <2> QED BY <2>5, <2>6, <2>7
<1>8. Remainder(n, d) = s BY <1>5, <1>7 DEF Remainder
<1>9. Divides(n, d, p, s)
  <2>1. n = p * d + s
    <3>1. PICK dp \in Int : dp = d * p BY <1>7
    <3> QED BY <1>7, <3>1
  <2>2. Magnitude(s) = r BY <1>6 DEF Magnitude
  <2>3. Magnitude(d) = ad BY <1>2 DEF Magnitude, Abs
  <2>4. s # 0 => (s < 0 <=> n < 0) BY <1>6
  <2> QED BY <2>1, <2>2, <2>3, <2>4, <1>3 DEF Divides
<1>10. q = an => ad = 1 \/ an = 0
  <2> SUFFICES ASSUME q = an, ad >= 2, an >= 1 PROVE FALSE OBVIOUS
  <2>1. ad * an >= 2 * an
    <3>1. (ad - 2) * an >= 0 BY <1>1
    <3>2. (ad - 2) * an = ad * an - 2 * an OBVIOUS
    <3> QED BY <3>1, <3>2
  <2>2. an = ad * an + r BY <1>3
  <2> QED BY <2>1, <2>2
<1>11. p = an => ((n < 0) = (d < 0) /\ ad = 1) \/ n = 0
  BY <1>1, <1>4, <1>5, <1>10
<1>12. -an <= p /\ p <= an BY <1>4, <1>5
<1> QED BY <1>1, <1>2, <1>5, <1>7, <1>8, <1>9, <1>11, <1>12

LEMMA DivSignedRight ==
  ASSUME NEW w \in Nat \ {0}, NEW a \in 0..(Pow2[w] - 1), NEW b \in 0..(Pow2[w] - 1),
         NEW sa \in Int, NEW sb \in Int,
         sa = TwosComplement(a, w), sb = TwosComplement(b, w)
  PROVE  /\ sb = 0 <=> b = 0
         /\ b = 0 => /\ IsResult("div", w, a, b, (-1) % Pow2[w])
                     /\ IsResult("rem", w, a, b, a)
         /\ sa = MinOf(w) /\ sb = -1 =>
              /\ IsResult("div", w, a, b, a)
              /\ IsResult("rem", w, a, b, 0)
         /\ b # 0 /\ ~(sa = MinOf(w) /\ sb = -1) =>
              /\ Quotient(sa, sb) \in Int /\ Remainder(sa, sb) \in Int
              /\ IsResult("div", w, a, b, Quotient(sa, sb) % Pow2[w])
              /\ IsResult("rem", w, a, b, Remainder(sa, sb) % Pow2[w])
<1>1. PICK h \in Nat \ {0} : h = Pow2[w - 1] /\ Pow2[w] = 2 * h BY PowerHalf
<1>2. PICK m \in Nat \ {0} : m = 2 * h BY <1>1
<1>3. /\ a \in 0..(m - 1) /\ b \in 0..(m - 1)
      /\ sa \in -h..(h - 1) /\ sb \in -h..(h - 1)
      /\ sa = IF a >= h THEN a - m ELSE a
      /\ sb = IF b >= h THEN b - m ELSE b
  BY <1>1, <1>2, SignOf
<1>4. sb = 0 <=> b = 0 BY <1>2, <1>3
<1>5. MinOf(w) = -h BY <1>1 DEF MinOf
<1>6. ASSUME b = 0
      PROVE  IsResult("div", w, a, b, (-1) % m) /\ IsResult("rem", w, a, b, a)
  <2>1. PICK v \in -h..(h - 1) : v = -1 OBVIOUS
  <2>2. TwosComplement(v % m, w) = v BY <1>1, <1>2, <2>1, SignedBack
  <2>3. IsResult("div", w, a, b, v % m) BY <1>6, <2>1, <2>2 DEF IsResult
  <2>4. IsResult("rem", w, a, b, a) BY <1>6 DEF IsResult
  <2> QED BY <2>1, <2>3, <2>4
<1>7. ASSUME sa = -h, sb = -1
      PROVE  IsResult("div", w, a, b, a) /\ IsResult("rem", w, a, b, 0)
  <2>1. IsResult("div", w, a, b, a) BY <1>1, <1>7 DEF IsResult
  <2>2. TwosComplement(0, w) = 0
    <3>1. PICK z \in 0..(m - 1) : z = 0 BY <1>2
    <3>2. TwosComplement(z, w) = IF z >= h THEN z - m ELSE z BY <1>1, <1>2, SignOf
    <3> QED BY <3>1, <3>2
  <2>3. b # 0 BY <1>3, <1>7
  <2>4. PICK q \in -h..h : q = h OBVIOUS
  <2>5. Divides(sa, sb, q, 0)
    <3>1. q * (-1) = -q OBVIOUS
    <3>2. sa = q * sb + 0 BY <1>7, <2>4, <3>1
    <3>3. Magnitude(0) < Magnitude(sb) BY <1>7 DEF Magnitude
    <3> QED BY <3>2, <3>3 DEF Divides
  <2>6. IsResult("rem", w, a, b, 0) BY <1>1, <2>2, <2>3, <2>5 DEF IsResult
  <2> QED BY <2>1, <2>6
<1>8. ASSUME b # 0, ~(sa = -h /\ sb = -1)
      PROVE  /\ Quotient(sa, sb) \in Int /\ Remainder(sa, sb) \in Int
             /\ IsResult("div", w, a, b, Quotient(sa, sb) % m)
             /\ IsResult("rem", w, a, b, Remainder(sa, sb) % m)
  <2>1. sb # 0 BY <1>4, <1>8
  <2>2. PICK q \in Int, r \in Int :
          /\ q = Quotient(sa, sb) /\ r = Remainder(sa, sb)
          /\ Divides(sa, sb, q, r) /\ r = sa - q * sb
          /\ -Abs(sa) <= q /\ q <= Abs(sa)
          /\ q = Abs(sa) => ((sa < 0) = (sb < 0) /\ Abs(sb) = 1) \/ sa = 0
    BY <2>1, Quotients
  <2>3. q \in -h..(h - 1)
    BY <1>3, <1>8, <2>2 DEF Abs
  <2>4. r \in -h..(h - 1)
    <3>1. Magnitude(r) < Magnitude(sb) BY <2>2 DEF Divides
    <3> QED BY <3>1, <1>3 DEF Magnitude
  <2>5. TwosComplement(q % m, w) = q /\ TwosComplement(r % m, w) = r
    BY <1>1, <1>2, <2>3, <2>4, SignedBack
  <2>6. IsResult("div", w, a, b, q % m) BY <1>8, <2>2, <2>5 DEF IsResult
  <2>7. q \in -Pow2[w - 1]..Pow2[w - 1] BY <1>1, <2>3
  <2>8. IsResult("rem", w, a, b, r % m) BY <1>8, <2>2, <2>5, <2>7 DEF IsResult
  <2> QED BY <2>2, <2>6, <2>8
<1> QED
  BY <1>1, <1>2, <1>4, <1>5, <1>6, <1>7, <1>8

LEMMA DivUnsignedRight ==
  ASSUME NEW w \in Nat \ {0}, NEW a \in 0..(Pow2[w] - 1), NEW b \in 0..(Pow2[w] - 1)
  PROVE  /\ b = 0 => /\ IsResult("divu", w, a, b, (-1) % Pow2[w])
                     /\ IsResult("remu", w, a, b, a)
         /\ b # 0 => /\ a \div b \in 0..(Pow2[w] - 1) /\ a % b \in 0..(Pow2[w] - 1)
                     /\ IsResult("divu", w, a, b, (a \div b) % Pow2[w])
                     /\ IsResult("remu", w, a, b, (a % b) % Pow2[w])
<1>1. PICK h \in Nat \ {0} : h = Pow2[w - 1] /\ Pow2[w] = 2 * h BY PowerHalf
<1>2. PICK m \in Nat \ {0} : m = 2 * h BY <1>1
<1>3. a \in 0..(m - 1) /\ b \in 0..(m - 1) BY <1>1, <1>2
<1>4. ASSUME b = 0
      PROVE  IsResult("divu", w, a, b, (-1) % m) /\ IsResult("remu", w, a, b, a)
  <2>1. PICK v \in -h..(h - 1) : v = -1 OBVIOUS
  <2>2. TwosComplement(v % m, w) = v BY <1>1, <1>2, <2>1, SignedBack
  <2>3. IsResult("divu", w, a, b, v % m) BY <1>4, <2>1, <2>2 DEF IsResult
  <2>4. IsResult("remu", w, a, b, a) BY <1>4 DEF IsResult
  <2> QED BY <2>1, <2>3, <2>4
<1>5. ASSUME b # 0
      PROVE  /\ a \div b \in 0..(m - 1) /\ a % b \in 0..(m - 1)
             /\ IsResult("divu", w, a, b, (a \div b) % m)
             /\ IsResult("remu", w, a, b, (a % b) % m)
  <2>1. PICK d \in Nat \ {0} : d = b BY <1>3, <1>5
  <2>2. PICK q \in Int, r \in 0..(d - 1) : q = a \div d /\ r = a % d /\ a = d * q + r
    <3>1. a \in Int BY <1>3
    <3>2. a \div d \in Int /\ a % d \in 0..(d - 1) /\ a = d * (a \div d) + (a % d)
      BY <3>1, DivMod
    <3> QED BY <3>2
  <2>3. q \in 0..a
    <3>1. q >= 0
      <4> SUFFICES ASSUME q <= -1 PROVE FALSE OBVIOUS
      <4>1. d * q <= -d BY Times
      <4> QED BY <1>3, <2>2, <4>1
    <3>2. q <= a
      <4>1. (d - 1) * q >= 0 /\ (d - 1) * q = d * q - q BY <3>1
      <4> QED BY <1>3, <2>2, <4>1
    <3> QED BY <1>3, <3>1, <3>2
  <2>4. q \in 0..(m - 1) /\ r \in 0..(m - 1) BY <1>3, <2>1, <2>2, <2>3
  <2>5. q % m = q /\ r % m = r BY <2>4, ModSmall
  <2>6. d * q = q * d /\ a = q * d + r /\ a - q * d = r
    <3>1. PICK k \in Int : k = d * q OBVIOUS
    <3>2. q * d = k BY <3>1
    <3> QED BY <1>3, <2>2, <3>1, <3>2
  <2>7. Divides(a, d, q, r) BY <1>3, <2>2, <2>6 DEF Divides, Magnitude
  <2>8. IsResult("divu", w, a, b, q) BY <1>5, <2>1, <2>6, <2>7 DEF IsResult
  <2>9. IsResult("remu", w, a, b, r) BY <1>5, <2>1, <2>3, <2>7 DEF IsResult
  <2> QED BY <2>1, <2>2, <2>4, <2>5, <2>8, <2>9
<1> QED BY <1>1, <1>2, <1>4, <1>5

-----------------------------------------------------------------------------
(* What Compute puts into a register.                                      *)

\* n is the result that instruction set fixes for the low w bits of a and b,
\* extended as the width asks.
Right(fn, w, a, b, n) ==
  /\ n \in Values
  /\ IsResult(fn, w, LowOf(a, w), LowOf(b, w), LowOf(n, w))
  /\ IsSignExtended(n, w)

LEMMA RightExtended ==
  ASSUME NEW fn, NEW w \in Widths, NEW a, NEW b, NEW v \in Int,
         IsResult(fn, w, LowOf(a, w), LowOf(b, w), v % Pow2[w])
  PROVE  Right(fn, w, a, b, Extended(w, v))
  BY ExtendedRight DEF Right

\* A register as it is.
LEMMA WideValue ==
  ASSUME NEW n \in Values
  PROVE  /\ n \in Int /\ LowOf(n, XLEN) = n /\ U64(n) = n /\ Extended(XLEN, n) = n
         /\ n \in 0..(Pow2[XLEN] - 1) /\ n % Pow2[XLEN] = n
<1>1. PICK m \in Nat \ {0} : m = Pow2[XLEN] BY WidthFacts, PowerOfTwo
<1>2. n \in 0..(m - 1) BY <1>1 DEF Values
<1>3. n % m = n BY <1>2, ModSmall
<1> QED BY <1>1, <1>2, <1>3 DEF LowOf, U64, Extended

LEMMA LowType ==
  ASSUME NEW n \in Int, NEW w \in Widths
  PROVE  /\ LowOf(n, w) \in 0..(Pow2[w] - 1) /\ LowOf(n, w) \in Int
         /\ Signed(n, w) = TwosComplement(LowOf(n, w), w)
         /\ Signed(n, w) \in Int
         /\ LowOf(n, w) % Pow2[w] = LowOf(n, w)
<1>1. PICK m \in Nat \ {0} : m = Pow2[w] /\ w \in Nat \ {0} BY WidthFacts, PowerOfTwo
<1>2. n % m \in 0..(m - 1) BY DivMod
<1>3. (n % m) % m = n % m BY <1>2, ModSmall
<1> QED BY <1>1, <1>2, <1>3, SignedIs DEF LowOf

\* The bits that count a shift are among the low bits.
LEMMA ShiftCount ==
  ASSUME NEW b \in Int, NEW w \in Widths
  PROVE  LowOf(b, w) % w = b % w
<1>1. PICK m \in Nat \ {0} : m = Pow2[w] /\ w \in Nat \ {0} /\ m % w = 0
  BY WidthFacts, PowerOfTwo
<1>2. (b % m) % w = b % w BY <1>1, ModMod
<1> QED BY <1>1, <1>2 DEF LowOf

LEMMA MinusOne == U64(-1) = Extended(XLEN, -1) /\ U64(-1) = Extended(WORD, -1)
<1>1. PICK v \in Int : v = -1 OBVIOUS
<1>2. WORD \in Nat \ {0} /\ XLEN # WORD BY WidthFacts
<1>3. PICK h \in Nat \ {0} : h = Pow2[WORD - 1] BY <1>2, PowerHalf
<1>4. v \in -Pow2[WORD - 1]..(Pow2[WORD - 1] - 1) BY <1>1, <1>3
<1>5. Signed(v, WORD) = v
  BY <1>2, <1>4, SignedIs, SignedBack
<1> QED BY <1>1, <1>2, <1>5 DEF Extended, SextW, I32

\* OP and OP-IMM.
LEMMA BaseRight ==
  ASSUME NEW fn \in BaseOps, NEW a \in Values, NEW b \in Values
  PROVE  Right(fn, XLEN, a, b, Base(fn, a, b))
<1>1. /\ a \in Int /\ b \in Int /\ LowOf(a, XLEN) = a /\ LowOf(b, XLEN) = b
      /\ a \in 0..(Pow2[XLEN] - 1) /\ b \in 0..(Pow2[XLEN] - 1)
      /\ XLEN \in Nat \ {0} /\ XLEN \in Widths
  BY WideValue, WidthFacts DEF Widths
<1>2. I64(a) = TwosComplement(a, XLEN) /\ I64(b) = TwosComplement(b, XLEN)
      /\ I64(a) \in Int
  BY <1>1, LowType DEF I64
<1>3. PICK s \in Nat : s = b % XLEN BY <1>1, DivMod
<1>4. Pow2[s] \in Nat \ {0} BY PowerOfTwo
<1>5. ASSUME NEW v \in Int, IsResult(fn, XLEN, a, b, v % Pow2[XLEN]),
             Base(fn, a, b) = Extended(XLEN, v)
      PROVE  Right(fn, XLEN, a, b, Base(fn, a, b))
  BY <1>1, <1>5, RightExtended
<1>6. CASE fn = "add"
  <2>1. PICK v \in Int : v = a + b BY <1>1
  <2>2. Base(fn, a, b) = Extended(XLEN, v) BY <1>6, <2>1 DEF Base, Extended
  <2>3. IsResult(fn, XLEN, a, b, v % Pow2[XLEN]) BY <1>1, <1>6, <2>1, AddRight
  <2> QED BY <1>5, <2>2, <2>3
<1>7. CASE fn = "sub"
  <2>1. PICK v \in Int : v = a - b BY <1>1
  <2>2. Base(fn, a, b) = Extended(XLEN, v) BY <1>7, <2>1 DEF Base, Extended
  <2>3. IsResult(fn, XLEN, a, b, v % Pow2[XLEN]) BY <1>1, <1>7, <2>1, SubRight
  <2> QED BY <1>5, <2>2, <2>3
<1>8. CASE fn = "sll"
  <2>1. PICK v \in Int : v = a * Pow2[s] BY <1>1, <1>4
  <2>2. Base(fn, a, b) = Extended(XLEN, v) BY <1>3, <1>8, <2>1 DEF Base, Extended
  <2>3. IsResult(fn, XLEN, a, b, v % Pow2[XLEN]) BY <1>1, <1>3, <1>8, <2>1, ShiftLeftRight
  <2> QED BY <1>5, <2>2, <2>3
<1>9. CASE fn = "slt"
  <2> DEFINE v == Flag(I64(a) < I64(b))
  <2>1. Base(fn, a, b) = v BY <1>9 DEF Base
  <2>2. v % Pow2[XLEN] = v /\ v \in Int BY <1>1, FlagRight DEF Flag
  <2>3. Base(fn, a, b) = Extended(XLEN, v) BY <2>1, <2>2 DEF Extended, U64
  <2>4. IsResult(fn, XLEN, a, b, v % Pow2[XLEN])
    BY <1>1, <1>2, <1>9, LessRight
  <2> HIDE DEF v
  <2> QED BY <1>5, <2>2, <2>3, <2>4
<1>13. CASE fn = "sltu"
  <2> DEFINE v == Flag(a < b)
  <2>1. Base(fn, a, b) = v BY <1>13 DEF Base
  <2>2. v % Pow2[XLEN] = v /\ v \in Int BY <1>1, FlagRight DEF Flag
  <2>3. Base(fn, a, b) = Extended(XLEN, v) BY <2>1, <2>2 DEF Extended, U64
  <2>4. IsResult(fn, XLEN, a, b, v % Pow2[XLEN])
    BY <1>1, <1>2, <1>13, LessRight
  <2> HIDE DEF v
  <2> QED BY <1>5, <2>2, <2>3, <2>4
<1>10. CASE fn \in {"xor", "or", "and"}
  <2>1. PICK v \in Values : v = Base(fn, a, b) /\ IsResult(fn, XLEN, a, b, v)
    BY <1>10, BitwiseRight DEF Base
  <2>2. v \in Int /\ v % Pow2[XLEN] = v /\ Extended(XLEN, v) = v BY WideValue
  <2> QED BY <1>5, <2>1, <2>2
<1>11. CASE fn = "srl"
  <2>1. PICK v \in Int : v = a \div Pow2[s] BY <1>1, <1>4, DivMod
  <2>2. v \in Values
    <3>1. PICK p \in Nat \ {0} : p = Pow2[s] BY <1>4
    <3>2. PICK m \in Nat \ {0} : m = Pow2[XLEN] BY <1>1, PowerOfTwo
    <3>3. a \in 0..(m - 1) BY <1>1, <3>2
    <3>4. PICK r \in 0..(p - 1) : a = p * v + r BY <1>1, <2>1, <3>1, DivMod
    <3>5. v >= 0
      <4> SUFFICES ASSUME v <= -1 PROVE FALSE OBVIOUS
      <4>1. p * v <= -p BY Times
      <4> QED BY <3>3, <3>4, <4>1
    <3>6. v <= p * v
      <4>1. (p - 1) * v >= 0 /\ (p - 1) * v = p * v - v BY <3>5
      <4> QED BY <4>1
    <3>7. v \in 0..(m - 1) BY <3>3, <3>4, <3>5, <3>6
    <3> QED BY <3>2, <3>7 DEF Values
  <2>3. Base(fn, a, b) = v BY <1>3, <1>11, <2>1 DEF Base
  <2>4. Base(fn, a, b) = Extended(XLEN, v) BY <2>2, <2>3, WideValue
  <2>5. IsResult(fn, XLEN, a, b, v % Pow2[XLEN]) BY <1>1, <1>3, <1>11, <2>1, ShiftRightRight
  <2> QED BY <1>5, <2>4, <2>5
<1>12. CASE fn = "sra"
  <2>1. PICK v \in Int : v = I64(a) \div Pow2[s] BY <1>2, <1>4, DivMod
  <2>2. Base(fn, a, b) = Extended(XLEN, v) BY <1>3, <1>12, <2>1 DEF Base, Extended
  <2>3. IsResult(fn, XLEN, a, b, v % Pow2[XLEN])
    BY <1>1, <1>2, <1>3, <1>12, <2>1, ShiftSignedRight
  <2> QED BY <1>5, <2>2, <2>3
<1> QED BY <1>6, <1>7, <1>8, <1>9, <1>10, <1>11, <1>12, <1>13 DEF BaseOps

LEMMA MulDivRight ==
  ASSUME NEW fn \in MulDivOps, NEW a \in Values, NEW b \in Values
  PROVE  Right(fn, XLEN, a, b, MulDiv(fn, a, b))
<1>1. /\ a \in Int /\ b \in Int /\ LowOf(a, XLEN) = a /\ LowOf(b, XLEN) = b
      /\ a \in 0..(Pow2[XLEN] - 1) /\ b \in 0..(Pow2[XLEN] - 1)
      /\ a % Pow2[XLEN] = a /\ b % Pow2[XLEN] = b
      /\ XLEN \in Nat \ {0} /\ XLEN \in Widths
  BY WideValue, WidthFacts DEF Widths
<1>2. PICK sa \in Int, sb \in Int :
        /\ I64(a) = sa /\ sa = TwosComplement(a, XLEN)
        /\ I64(b) = sb /\ sb = TwosComplement(b, XLEN)
  BY <1>1, LowType DEF I64
<1>3. ASSUME NEW v \in Int, IsResult(fn, XLEN, a, b, v % Pow2[XLEN]),
             MulDiv(fn, a, b) = Extended(XLEN, v)
      PROVE  Right(fn, XLEN, a, b, MulDiv(fn, a, b))
  BY <1>1, <1>3, RightExtended
<1>4. ASSUME NEW v \in Values, IsResult(fn, XLEN, a, b, v), MulDiv(fn, a, b) = v
      PROVE  Right(fn, XLEN, a, b, MulDiv(fn, a, b))
  BY <1>3, <1>4, WideValue
<1>5. CASE fn = "mul"
  <2>1. PICK v \in Int : v = a * b BY <1>1
  <2>2. MulDiv(fn, a, b) = Extended(XLEN, v) BY <1>5, <2>1 DEF MulDiv, Extended
  <2>3. IsResult(fn, XLEN, a, b, v % Pow2[XLEN]) BY <1>1, <1>5, <2>1, MulRight
  <2> QED BY <1>3, <2>2, <2>3
<1>6. /\ (sa * sb) \div Pow2[XLEN] \in Int
      /\ IsResult("mulh", XLEN, a, b, ((sa * sb) \div Pow2[XLEN]) % Pow2[XLEN])
      /\ (sa * b) \div Pow2[XLEN] \in Int
      /\ IsResult("mulhsu", XLEN, a, b, ((sa * b) \div Pow2[XLEN]) % Pow2[XLEN])
      /\ (a * b) \div Pow2[XLEN] \in Int
      /\ IsResult("mulhu", XLEN, a, b, ((a * b) \div Pow2[XLEN]) % Pow2[XLEN])
  BY <1>2, MulHighRight
<1>7. ASSUME NEW n \in Int
      PROVE  (n % Pow2[2 * XLEN]) \div Pow2[XLEN] = Extended(XLEN, n \div Pow2[XLEN])
  BY HighRight DEF Extended, U64
<1>8. CASE fn = "mulh"
  <2>1. PICK n \in Int : n = sa * sb OBVIOUS
  <2>2. MulDiv(fn, a, b) = (n % Pow2[2 * XLEN]) \div Pow2[XLEN]
    BY <1>2, <1>8, <2>1 DEF MulDiv, Product
  <2> QED BY <1>3, <1>6, <1>7, <1>8, <2>1, <2>2
<1>9. CASE fn = "mulhsu"
  <2>1. PICK n \in Int : n = sa * b BY <1>1
  <2>2. MulDiv(fn, a, b) = (n % Pow2[2 * XLEN]) \div Pow2[XLEN]
    BY <1>2, <1>9, <2>1 DEF MulDiv, Product
  <2> QED BY <1>3, <1>6, <1>7, <1>9, <2>1, <2>2
<1>10. CASE fn = "mulhu"
  <2>1. PICK n \in Int : n = a * b BY <1>1
  <2>2. MulDiv(fn, a, b) = (n % Pow2[2 * XLEN]) \div Pow2[XLEN]
    BY <1>2, <1>10, <2>1 DEF MulDiv, Product
  <2> QED BY <1>3, <1>6, <1>7, <1>10, <2>1, <2>2
<1>11. /\ b = 0 => /\ IsResult("div", XLEN, a, b, (-1) % Pow2[XLEN])
                   /\ IsResult("rem", XLEN, a, b, a)
       /\ sa = MinOf(XLEN) /\ sb = -1 =>
            /\ IsResult("div", XLEN, a, b, a)
            /\ IsResult("rem", XLEN, a, b, 0)
       /\ b # 0 /\ ~(sa = MinOf(XLEN) /\ sb = -1) =>
            /\ Quotient(sa, sb) \in Int /\ Remainder(sa, sb) \in Int
            /\ IsResult("div", XLEN, a, b, Quotient(sa, sb) % Pow2[XLEN])
            /\ IsResult("rem", XLEN, a, b, Remainder(sa, sb) % Pow2[XLEN])
  BY <1>1, <1>2, DivSignedRight
<1>12. U64(-1) = Extended(XLEN, -1) /\ -1 \in Int BY MinusOne
<1>13. 0 \in Values BY <1>1, PowerOfTwo DEF Values
<1>14. CASE fn = "div"
  <2>1. CASE b = 0
    <3>1. MulDiv(fn, a, b) = Extended(XLEN, -1) BY <1>12, <1>14, <2>1 DEF MulDiv
    <3> QED BY <1>3, <1>11, <1>12, <1>14, <2>1, <3>1
  <2>2. CASE b # 0 /\ sa = MinOf(XLEN) /\ sb = -1
    <3>1. MulDiv(fn, a, b) = a BY <1>2, <1>14, <2>2 DEF MulDiv
    <3> QED BY <1>4, <1>11, <1>14, <2>2, <3>1
  <2>3. CASE b # 0 /\ ~(sa = MinOf(XLEN) /\ sb = -1)
    <3>1. MulDiv(fn, a, b) = Extended(XLEN, Quotient(sa, sb))
      BY <1>2, <1>14, <2>3 DEF MulDiv, Extended
    <3> QED BY <1>3, <1>11, <1>14, <2>3, <3>1
  <2> QED BY <2>1, <2>2, <2>3
<1>15. CASE fn = "rem"
  <2>1. CASE b = 0
    <3>1. MulDiv(fn, a, b) = a BY <1>15, <2>1 DEF MulDiv
    <3> QED BY <1>4, <1>11, <1>15, <2>1, <3>1
  <2>2. CASE b # 0 /\ sa = MinOf(XLEN) /\ sb = -1
    <3>1. MulDiv(fn, a, b) = 0 BY <1>2, <1>15, <2>2 DEF MulDiv
    <3> QED BY <1>4, <1>11, <1>13, <1>15, <2>2, <3>1
  <2>3. CASE b # 0 /\ ~(sa = MinOf(XLEN) /\ sb = -1)
    <3>1. MulDiv(fn, a, b) = Extended(XLEN, Remainder(sa, sb))
      BY <1>2, <1>15, <2>3 DEF MulDiv, Extended
    <3> QED BY <1>3, <1>11, <1>15, <2>3, <3>1
  <2> QED BY <2>1, <2>2, <2>3
<1>16. /\ b = 0 => /\ IsResult("divu", XLEN, a, b, (-1) % Pow2[XLEN])
                   /\ IsResult("remu", XLEN, a, b, a)
       /\ b # 0 => /\ a \div b \in Values /\ a % b \in Values
                   /\ IsResult("divu", XLEN, a, b, (a \div b) % Pow2[XLEN])
                   /\ IsResult("remu", XLEN, a, b, (a % b) % Pow2[XLEN])
  BY <1>1, DivUnsignedRight DEF Values
<1>17. CASE fn = "divu"
  <2>1. CASE b = 0
    <3>1. MulDiv(fn, a, b) = Extended(XLEN, -1) BY <1>12, <1>17, <2>1 DEF MulDiv
    <3> QED BY <1>3, <1>12, <1>16, <1>17, <2>1, <3>1
  <2>2. CASE b # 0
    <3>1. PICK v \in Values : v = a \div b BY <1>16, <2>2
    <3>2. MulDiv(fn, a, b) = v BY <1>17, <2>2, <3>1 DEF MulDiv
    <3>3. v % Pow2[XLEN] = v BY WideValue
    <3> QED BY <1>4, <1>16, <1>17, <2>2, <3>1, <3>2, <3>3
  <2> QED BY <2>1, <2>2
<1>18. CASE fn = "remu"
  <2>1. CASE b = 0
    <3>1. MulDiv(fn, a, b) = a BY <1>18, <2>1 DEF MulDiv
    <3> QED BY <1>4, <1>16, <1>18, <2>1, <3>1
  <2>2. CASE b # 0
    <3>1. PICK v \in Values : v = a % b BY <1>16, <2>2
    <3>2. MulDiv(fn, a, b) = v BY <1>18, <2>2, <3>1 DEF MulDiv
    <3>3. v % Pow2[XLEN] = v BY WideValue
    <3> QED BY <1>4, <1>16, <1>18, <2>2, <3>1, <3>2, <3>3
  <2> QED BY <2>1, <2>2
<1> QED
  BY <1>5, <1>8, <1>9, <1>10, <1>14, <1>15, <1>17, <1>18 DEF MulDivOps

\* OP-32 and OP-IMM-32.
LEMMA WordFacts ==
  ASSUME NEW a \in Values
  PROVE  /\ WORD \in Nat \ {0} /\ WORD \in Widths /\ a \in Int
         /\ U32(a) = LowOf(a, WORD)
         /\ LowOf(a, WORD) \in 0..(Pow2[WORD] - 1) /\ LowOf(a, WORD) \in Int
         /\ I32(a) \in Int /\ I32(a) = TwosComplement(LowOf(a, WORD), WORD)
         /\ I32(a) % Pow2[WORD] = LowOf(a, WORD)
         /\ LowOf(a, WORD) % Pow2[WORD] = LowOf(a, WORD)
<1>1. WORD \in Nat \ {0} /\ WORD \in Widths /\ a \in Int
  BY WidthFacts, WideValue DEF Widths
<1>2. I32(a) % Pow2[WORD] = LowOf(a, WORD) BY <1>1, SignedIs DEF I32, LowOf
<1> QED BY <1>1, <1>2, LowType DEF I32, U32, LowOf

LEMMA WordRight ==
  ASSUME NEW fn, NEW a \in Values, NEW b \in Values, NEW v \in Int, NEW n,
         IsResult(fn, WORD, LowOf(a, WORD), LowOf(b, WORD), v % Pow2[WORD]),
         n = SextW(v)
  PROVE  Right(fn, WORD, a, b, n)
<1>1. WORD \in Widths /\ WORD # XLEN BY WidthFacts DEF Widths
<1>2. n = Extended(WORD, v) BY <1>1 DEF Extended
<1> QED BY <1>1, <1>2, RightExtended

LEMMA Base32Right ==
  ASSUME NEW fn \in BaseOps32, NEW a \in Values, NEW b \in Values
  PROVE  Right(fn, WORD, a, b, Base32(fn, a, b))
<1> DEFINE la == LowOf(a, WORD)
           lb == LowOf(b, WORD)
<1>1. /\ WORD \in Nat \ {0} /\ WORD \in Widths /\ a \in Int /\ b \in Int
      /\ U32(a) = la /\ U32(b) = lb /\ la \in Int /\ lb \in Int
      /\ la \in 0..(Pow2[WORD] - 1)
      /\ I32(a) \in Int /\ I32(a) = TwosComplement(la, WORD)
  BY WordFacts
<1>2. PICK s \in Nat : s = b % WORD /\ s = lb % WORD BY <1>1, DivMod, ShiftCount
<1>3. Pow2[s] \in Nat \ {0} BY PowerOfTwo
<1>4. ASSUME NEW v \in Int, IsResult(fn, WORD, la, lb, v % Pow2[WORD]),
             Base32(fn, a, b) = SextW(v)
      PROVE  Right(fn, WORD, a, b, Base32(fn, a, b))
  BY <1>4, WordRight
<1> HIDE DEF la, lb
<1>5. CASE fn = "add"
  <2>1. PICK v \in Int : v = la + lb BY <1>1
  <2>2. Base32(fn, a, b) = SextW(v) BY <1>1, <1>5, <2>1 DEF Base32
  <2>3. IsResult(fn, WORD, la, lb, v % Pow2[WORD]) BY <1>1, <1>5, <2>1, AddRight
  <2> QED BY <1>4, <2>2, <2>3
<1>6. CASE fn = "sub"
  <2>1. PICK v \in Int : v = la - lb BY <1>1
  <2>2. Base32(fn, a, b) = SextW(v) BY <1>1, <1>6, <2>1 DEF Base32
  <2>3. IsResult(fn, WORD, la, lb, v % Pow2[WORD]) BY <1>1, <1>6, <2>1, SubRight
  <2> QED BY <1>4, <2>2, <2>3
<1>7. CASE fn = "sll"
  <2>1. PICK v \in Int : v = la * Pow2[s] BY <1>1, <1>3
  <2>2. Base32(fn, a, b) = SextW(v) BY <1>1, <1>2, <1>7, <2>1 DEF Base32
  <2>3. IsResult(fn, WORD, la, lb, v % Pow2[WORD]) BY <1>1, <1>2, <1>7, <2>1, ShiftLeftRight
  <2> QED BY <1>4, <2>2, <2>3
<1>8. CASE fn = "srl"
  <2>1. PICK v \in Int : v = la \div Pow2[s] BY <1>1, <1>3, DivMod
  <2>2. Base32(fn, a, b) = SextW(v) BY <1>1, <1>2, <1>8, <2>1 DEF Base32
  <2>3. IsResult(fn, WORD, la, lb, v % Pow2[WORD]) BY <1>1, <1>2, <1>8, <2>1, ShiftRightRight
  <2> QED BY <1>4, <2>2, <2>3
<1>9. CASE fn = "sra"
  <2>1. PICK v \in Int : v = I32(a) \div Pow2[s] BY <1>1, <1>3, DivMod
  <2>2. Base32(fn, a, b) = SextW(v) BY <1>2, <1>9, <2>1 DEF Base32
  <2>3. IsResult(fn, WORD, la, lb, v % Pow2[WORD]) BY <1>1, <1>2, <1>9, <2>1, ShiftSignedRight
  <2> QED BY <1>4, <2>2, <2>3
<1> QED BY <1>5, <1>6, <1>7, <1>8, <1>9 DEF BaseOps32

LEMMA MulDiv32Right ==
  ASSUME NEW fn \in MulDivOps32, NEW a \in Values, NEW b \in Values
  PROVE  Right(fn, WORD, a, b, MulDiv32(fn, a, b))
<1> DEFINE la == LowOf(a, WORD)
           lb == LowOf(b, WORD)
<1>1. /\ WORD \in Nat \ {0} /\ WORD \in Widths /\ a \in Int /\ b \in Int
      /\ U32(a) = la /\ U32(b) = lb /\ la \in Int /\ lb \in Int
      /\ la \in 0..(Pow2[WORD] - 1) /\ lb \in 0..(Pow2[WORD] - 1)
      /\ la % Pow2[WORD] = la /\ lb % Pow2[WORD] = lb
      /\ a % Pow2[WORD] = la
  BY WordFacts DEF LowOf
<1>2. PICK sa \in Int, sb \in Int :
        /\ I32(a) = sa /\ sa = TwosComplement(la, WORD) /\ sa % Pow2[WORD] = la
        /\ I32(b) = sb /\ sb = TwosComplement(lb, WORD) /\ sb % Pow2[WORD] = lb
  BY WordFacts
<1>3. ASSUME NEW v \in Int, IsResult(fn, WORD, la, lb, v % Pow2[WORD]),
             MulDiv32(fn, a, b) = SextW(v)
      PROVE  Right(fn, WORD, a, b, MulDiv32(fn, a, b))
  BY <1>3, WordRight
<1> HIDE DEF la, lb
<1>4. U64(-1) = SextW(-1) /\ -1 \in Int
  BY MinusOne, WidthFacts DEF Extended
<1>5. SextW(0) = 0 /\ 0 % Pow2[WORD] = 0
  <2>1. PICK z \in Int : z = 0 OBVIOUS
  <2>2. PICK h \in Nat \ {0} : h = Pow2[WORD - 1] BY <1>1, PowerHalf
  <2>3. z \in -Pow2[WORD - 1]..(Pow2[WORD - 1] - 1) BY <2>1, <2>2
  <2>4. Signed(z, WORD) = z BY <1>1, <2>3, SignedIs, SignedBack
  <2>5. Pow2[XLEN] \in Nat \ {0} /\ Pow2[WORD] \in Nat \ {0}
    BY <1>1, PowerOfTwo, WidthFacts
  <2>6. z % Pow2[XLEN] = z /\ z % Pow2[WORD] = z BY <2>1, <2>5, ModSmall
  <2> QED BY <2>1, <2>4, <2>6 DEF SextW, U64, I32
<1>6. CASE fn = "mul"
  <2>1. PICK v \in Int : v = sa * sb OBVIOUS
  <2>2. MulDiv32(fn, a, b) = SextW(v) BY <1>2, <1>6, <2>1 DEF MulDiv32
  <2>3. IsResult(fn, WORD, la, lb, v % Pow2[WORD]) BY <1>1, <1>2, <1>6, <2>1, MulRight
  <2> QED BY <1>3, <2>2, <2>3
<1>7. /\ sb = 0 <=> lb = 0
      /\ lb = 0 => /\ IsResult("div", WORD, la, lb, (-1) % Pow2[WORD])
                   /\ IsResult("rem", WORD, la, lb, la)
      /\ sa = MinOf(WORD) /\ sb = -1 =>
           /\ IsResult("div", WORD, la, lb, la)
           /\ IsResult("rem", WORD, la, lb, 0)
      /\ lb # 0 /\ ~(sa = MinOf(WORD) /\ sb = -1) =>
           /\ Quotient(sa, sb) \in Int /\ Remainder(sa, sb) \in Int
           /\ IsResult("div", WORD, la, lb, Quotient(sa, sb) % Pow2[WORD])
           /\ IsResult("rem", WORD, la, lb, Remainder(sa, sb) % Pow2[WORD])
  BY <1>1, <1>2, DivSignedRight
<1>8. CASE fn = "div"
  <2>1. CASE sb = 0
    <3>1. MulDiv32(fn, a, b) = SextW(-1) BY <1>2, <1>4, <1>8, <2>1 DEF MulDiv32
    <3> QED BY <1>3, <1>4, <1>7, <1>8, <2>1, <3>1
  <2>2. CASE sb # 0 /\ sa = MinOf(WORD) /\ sb = -1
    <3>1. MulDiv32(fn, a, b) = SextW(a) BY <1>2, <1>8, <2>2 DEF MulDiv32
    <3> QED BY <1>1, <1>3, <1>7, <1>8, <2>2, <3>1
  <2>3. CASE sb # 0 /\ ~(sa = MinOf(WORD) /\ sb = -1)
    <3>1. MulDiv32(fn, a, b) = SextW(Quotient(sa, sb))
      BY <1>2, <1>8, <2>3 DEF MulDiv32
    <3> QED BY <1>3, <1>7, <1>8, <2>3, <3>1
  <2> QED BY <2>1, <2>2, <2>3
<1>9. CASE fn = "rem"
  <2>1. CASE sb = 0
    <3>1. MulDiv32(fn, a, b) = SextW(a) BY <1>2, <1>9, <2>1 DEF MulDiv32
    <3> QED BY <1>1, <1>3, <1>7, <1>9, <2>1, <3>1
  <2>2. CASE sb # 0 /\ sa = MinOf(WORD) /\ sb = -1
    <3>1. MulDiv32(fn, a, b) = SextW(0) BY <1>2, <1>5, <1>9, <2>2 DEF MulDiv32
    <3> QED BY <1>3, <1>5, <1>7, <1>9, <2>2, <3>1
  <2>3. CASE sb # 0 /\ ~(sa = MinOf(WORD) /\ sb = -1)
    <3>1. MulDiv32(fn, a, b) = SextW(Remainder(sa, sb))
      BY <1>2, <1>9, <2>3 DEF MulDiv32
    <3> QED BY <1>3, <1>7, <1>9, <2>3, <3>1
  <2> QED BY <2>1, <2>2, <2>3
<1>10. /\ lb = 0 => /\ IsResult("divu", WORD, la, lb, (-1) % Pow2[WORD])
                    /\ IsResult("remu", WORD, la, lb, la)
       /\ lb # 0 => /\ la \div lb \in 0..(Pow2[WORD] - 1) /\ la % lb \in 0..(Pow2[WORD] - 1)
                    /\ IsResult("divu", WORD, la, lb, (la \div lb) % Pow2[WORD])
                    /\ IsResult("remu", WORD, la, lb, (la % lb) % Pow2[WORD])
  BY <1>1, DivUnsignedRight
<1>11. CASE fn = "divu"
  <2>1. CASE lb = 0
    <3>1. MulDiv32(fn, a, b) = SextW(-1) BY <1>1, <1>4, <1>11, <2>1 DEF MulDiv32
    <3> QED BY <1>3, <1>4, <1>10, <1>11, <2>1, <3>1
  <2>2. CASE lb # 0
    <3>1. MulDiv32(fn, a, b) = SextW(la \div lb) BY <1>1, <1>11, <2>2 DEF MulDiv32
    <3>2. la \div lb \in Int BY <1>10, <2>2
    <3> QED BY <1>3, <1>10, <1>11, <2>2, <3>1, <3>2
  <2> QED BY <2>1, <2>2
<1>12. CASE fn = "remu"
  <2>1. CASE lb = 0
    <3>1. MulDiv32(fn, a, b) = SextW(a) BY <1>1, <1>12, <2>1 DEF MulDiv32
    <3> QED BY <1>1, <1>3, <1>10, <1>12, <2>1, <3>1
  <2>2. CASE lb # 0
    <3>1. MulDiv32(fn, a, b) = SextW(la % lb) BY <1>1, <1>12, <2>2 DEF MulDiv32
    <3>2. la % lb \in Int BY <1>10, <2>2
    <3> QED BY <1>3, <1>10, <1>12, <2>2, <3>1, <3>2
  <2> QED BY <2>1, <2>2
<1> QED BY <1>6, <1>8, <1>9, <1>11, <1>12 DEF MulDivOps32

\* OP, OP-IMM and their forms of 32 bits.
LEMMA ComputeRight ==
  ASSUME NEW fn, NEW a \in Values, NEW b \in Values
  PROVE  /\ fn \in BaseOps \cup MulDivOps =>
              Right(fn, XLEN, a, b, Compute("d", fn, a, b))
         /\ fn \in BaseOps32 \cup MulDivOps32 =>
              Right(fn, WORD, a, b, Compute("w", fn, a, b))
<1>1. fn \in BaseOps => Right(fn, XLEN, a, b, Base(fn, a, b)) BY BaseRight
<1>2. fn \in MulDivOps => Right(fn, XLEN, a, b, MulDiv(fn, a, b)) BY MulDivRight
<1>3. fn \in BaseOps32 => Right(fn, WORD, a, b, Base32(fn, a, b)) BY Base32Right
<1>4. fn \in MulDivOps32 => Right(fn, WORD, a, b, MulDiv32(fn, a, b)) BY MulDiv32Right
<1> QED BY <1>1, <1>2, <1>3, <1>4 DEF Compute

-----------------------------------------------------------------------------
(* AMOs, loads and stores.                                                 *)

LEMMA WordInWide ==
  ASSUME NEW w \in Widths
  PROVE  \E c \in Nat \ {0} : Pow2[XLEN] = Pow2[w] * c
<1>1. w \in Nat /\ w <= XLEN /\ XLEN \in Nat BY WidthFacts DEF Widths
<1>2. Pow2[XLEN] = Pow2[w] * Pow2[XLEN - w] /\ XLEN - w \in Nat BY <1>1, PowerSplit
<1>3. Pow2[XLEN - w] \in Nat \ {0} BY <1>2, PowerOfTwo
<1> QED BY <1>2, <1>3

\* A register holds the sign extension: the order of the low bits is kept.
LEMMA ExtensionOrder ==
  ASSUME NEW w \in Widths, NEW a \in 0..(Pow2[w] - 1), NEW b \in 0..(Pow2[w] - 1)
  PROVE  U64(TwosComplement(a, w)) < U64(TwosComplement(b, w)) <=> a < b
<1>1. PICK h \in Nat \ {0} : h = Pow2[w - 1] /\ Pow2[w] = 2 * h /\ w \in Nat \ {0}
  BY PowerHalf, WidthFacts
<1>2. PICK m \in Nat \ {0} : m = 2 * h BY <1>1
<1>3. PICK c \in Nat \ {0} : Pow2[XLEN] = m * c BY <1>1, <1>2, WordInWide
<1>4. PICK big \in Nat \ {0} : big = Pow2[XLEN] /\ big >= m
  <2>1. c >= 1 => m * c >= m BY Times
  <2> QED BY <1>3, <2>1, PowerOfTwo, WidthFacts
<1>5. ASSUME NEW n \in 0..(m - 1)
      PROVE  U64(TwosComplement(n, w)) = IF n >= h THEN n + (big - m) ELSE n
  <2>1. PICK v \in Int : v = TwosComplement(n, w) /\ v = IF n >= h THEN n - m ELSE n
    <3>1. TwosComplement(n, w) = IF n >= h THEN n - m ELSE n BY <1>1, <1>2, <1>5, SignOf
    <3>2. TwosComplement(n, w) \in Int BY <1>2, <1>5, <3>1
    <3> QED BY <3>1, <3>2
  <2>2. -big < v /\ v < big BY <1>2, <1>4, <1>5, <2>1
  <2>3. v % big = IF v >= 0 THEN v ELSE v + big BY <2>2, ModNear
  <2> QED BY <1>2, <1>4, <1>5, <2>1, <2>3 DEF U64
<1>6. a \in 0..(m - 1) /\ b \in 0..(m - 1) BY <1>1, <1>2
<1> QED BY <1>2, <1>4, <1>5, <1>6

\* The bits of the low part are those of the sign extension.
LEMMA ExtensionBits ==
  ASSUME NEW w \in Widths, NEW n \in 0..(Pow2[w] - 1), NEW i \in 0..(w - 1)
  PROVE  Bit(U64(TwosComplement(n, w)), i) = Bit(n, i)
<1>1. w \in Nat \ {0} /\ w <= XLEN /\ XLEN \in Nat BY WidthFacts DEF Widths
<1>2. PICK h \in Nat \ {0} : h = Pow2[w - 1] BY <1>1, PowerHalf
<1>3. PICK v \in Int : v = TwosComplement(n, w) /\ v % Pow2[w] = n BY <1>1, <1>2, SignOf
<1>4. i \in Nat /\ i < w /\ i < XLEN BY <1>1
<1>5. Bit(v % Pow2[XLEN], i) = Bit(v, i) BY <1>1, <1>4, BitMod
<1>6. Bit(v % Pow2[w], i) = Bit(v, i) BY <1>1, <1>4, BitMod
<1> QED BY <1>3, <1>5, <1>6 DEF U64

LEMMA AmoBitwise ==
  ASSUME NEW w \in Widths, NEW a \in 0..(Pow2[w] - 1), NEW b \in 0..(Pow2[w] - 1),
         NEW ua \in Values, NEW ub \in Values,
         ua = U64(TwosComplement(a, w)), ub = U64(TwosComplement(b, w))
  PROVE  /\ IsResult("xor", w, a, b, Xor(ua, ub) % Pow2[w])
         /\ IsResult("or", w, a, b, Or(ua, ub) % Pow2[w])
         /\ IsResult("and", w, a, b, And(ua, ub) % Pow2[w])
<1>1. w \in Nat \ {0} /\ w <= XLEN /\ XLEN \in Nat BY WidthFacts DEF Widths
<1>2. Xor(ua, ub) \in Int /\ Or(ua, ub) \in Int /\ And(ua, ub) \in Int
  BY BitwiseRight, WideValue
<1>3. ua \in Int /\ ub \in Int BY WideValue
<1>4. ASSUME NEW i \in 0..(w - 1)
      PROVE  /\ i \in Places
             /\ Bit(ua, i) \in {0, 1} /\ Bit(ub, i) \in {0, 1}
             /\ Bit(ua, i) = Bit(a, i) /\ Bit(ub, i) = Bit(b, i)
             /\ Bit(Xor(ua, ub) % Pow2[w], i) = Bit(Xor(ua, ub), i)
             /\ Bit(Or(ua, ub) % Pow2[w], i) = Bit(Or(ua, ub), i)
             /\ Bit(And(ua, ub) % Pow2[w], i) = Bit(And(ua, ub), i)
  <2>1. i \in Places /\ i \in Nat /\ i < w BY <1>1 DEF Places
  <2> QED BY <1>1, <1>2, <1>3, <2>1, BitType, BitMod, ExtensionBits
<1>5. \A i \in 0..(w - 1) :
        (Bit(Xor(ua, ub) % Pow2[w], i) = 1) = (Bit(a, i) + Bit(b, i) = 1)
  BY <1>4, FromBitsRight DEF Xor
<1>6. \A i \in 0..(w - 1) :
        (Bit(Or(ua, ub) % Pow2[w], i) = 1) = (Bit(a, i) + Bit(b, i) > 0)
  BY <1>4, FromBitsRight DEF Or
<1>7. \A i \in 0..(w - 1) :
        (Bit(And(ua, ub) % Pow2[w], i) = 1) = (Bit(a, i) + Bit(b, i) = 2)
  BY <1>4, FromBitsRight DEF And
<1> QED BY <1>5, <1>6, <1>7 DEF IsResult

\* What Amo computes from sign-extended operands, cut to the width.
LEMMA AmoRight ==
  ASSUME NEW fn \in AmoOps, NEW w \in Widths,
         NEW a \in 0..(Pow2[w] - 1), NEW b \in 0..(Pow2[w] - 1),
         NEW t \in Int, NEW s \in Int, t = TwosComplement(a, w), s = TwosComplement(b, w)
  PROVE  Amo(fn, t, s) \in Int /\ IsAmoResult(fn, w, a, b, Amo(fn, t, s) % Pow2[w])
<1>1. PICK m \in Nat \ {0} : m = Pow2[w] /\ w \in Nat \ {0} BY WidthFacts, PowerOfTwo
<1>2. t % m = a /\ s % m = b /\ a \in 0..(m - 1) /\ b \in 0..(m - 1) BY <1>1, SignOf
<1>3. a \in Int /\ b \in Int /\ a % m = a /\ b % m = b BY <1>2, ModSmall
<1>4. PICK ua \in Values, ub \in Values : ua = U64(t) /\ ub = U64(s)
  <2>1. Pow2[XLEN] \in Nat \ {0} BY WidthFacts, PowerOfTwo
  <2> QED BY <2>1, DivMod DEF U64, Values
<1>5. CASE fn = "swap"
  BY <1>1, <1>2, <1>5 DEF Amo, IsAmoResult
<1>6. CASE fn = "add"
  <2>1. (t + s) % m = (a + s) % m BY <1>2, <1>3, ModShift
  <2>2. (s + a) % m = (b + a) % m BY <1>2, <1>3, ModShift
  <2>3. s + a = a + s /\ b + a = a + b BY <1>3
  <2>4. (t + s) % m = (a + b) % m BY <2>1, <2>2, <2>3
  <2>5. IsResult("add", w, a, b, (a + b) % m) BY <1>1, <1>3, AddRight
  <2> QED BY <1>1, <1>6, <2>4, <2>5 DEF Amo, IsAmoResult
<1>7. CASE fn \in {"xor", "or", "and"}
  <2>1. Xor(ua, ub) \in Int /\ Or(ua, ub) \in Int /\ And(ua, ub) \in Int
    BY BitwiseRight, WideValue
  <2>2. /\ IsResult("xor", w, a, b, Xor(ua, ub) % Pow2[w])
        /\ IsResult("or", w, a, b, Or(ua, ub) % Pow2[w])
        /\ IsResult("and", w, a, b, And(ua, ub) % Pow2[w])
    BY <1>4, AmoBitwise
  <2>3. CASE fn = "xor" BY <1>4, <2>1, <2>2, <2>3 DEF Amo, IsAmoResult
  <2>4. CASE fn = "or" BY <1>4, <2>1, <2>2, <2>4 DEF Amo, IsAmoResult
  <2>5. CASE fn = "and" BY <1>4, <2>1, <2>2, <2>5 DEF Amo, IsAmoResult
  <2> QED BY <1>7, <2>3, <2>4, <2>5
<1>8. CASE fn = "min"
  <2>1. Amo(fn, t, s) = IF t < s THEN t ELSE s BY <1>8 DEF Amo
  <2> QED BY <1>1, <1>2, <1>8, <2>1 DEF IsAmoResult
<1>9. CASE fn = "max"
  <2>1. Amo(fn, t, s) = IF t > s THEN t ELSE s BY <1>9 DEF Amo
  <2> QED BY <1>1, <1>2, <1>9, <2>1 DEF IsAmoResult
<1>10. U64(t) < U64(s) <=> a < b BY ExtensionOrder
<1>11. U64(s) < U64(t) <=> b < a BY ExtensionOrder
<1>12. CASE fn = "minu"
  <2>1. Amo(fn, t, s) = IF U64(t) < U64(s) THEN t ELSE s BY <1>12 DEF Amo
  <2>2. Amo(fn, t, s) = IF a < b THEN t ELSE s BY <1>10, <2>1
  <2> QED BY <1>1, <1>2, <1>3, <1>12, <2>2 DEF IsAmoResult
<1>13. CASE fn = "maxu"
  <2>1. U64(t) > U64(s) <=> U64(s) < U64(t) BY <1>4, WideValue
  <2>2. Amo(fn, t, s) = IF U64(t) > U64(s) THEN t ELSE s BY <1>13 DEF Amo
  <2>3. Amo(fn, t, s) = IF b < a THEN t ELSE s BY <1>11, <2>1, <2>2
  <2> QED BY <1>1, <1>2, <1>3, <1>13, <2>3 DEF IsAmoResult
<1> QED BY <1>5, <1>6, <1>7, <1>8, <1>9, <1>12, <1>13 DEF AmoOps

\* A load gives a register its value, a store a word of memory.
LEMMA LoadedType ==
  ASSUME NEW i, NEW stored \in Values
  PROVE  Loaded(i, stored) \in Values
<1>1. U32(stored) \in Values
  <2>1. PICK m \in Nat \ {0} : m = Pow2[WORD] /\ WORD \in Widths
    BY WidthFacts, PowerOfTwo DEF Widths
  <2>2. PICK c \in Nat \ {0} : Pow2[XLEN] = m * c BY <2>1, WordInWide
  <2>3. c >= 1 => m * c >= m BY Times
  <2>4. U32(stored) \in 0..(m - 1) BY <2>1, WideValue, DivMod DEF U32
  <2>5. PICK big \in Nat : big = Pow2[XLEN] /\ big >= m
    BY <2>2, <2>3, WidthFacts, PowerOfTwo
  <2> QED BY <2>4, <2>5 DEF Values
<1>2. SextW(stored) \in Values
  BY ExtendedRight, WideValue, WidthFacts DEF Widths, Extended
<1> QED BY <1>1, <1>2 DEF Loaded

LEMMA StoredType ==
  ASSUME NEW i, NEW stored \in Values, NEW value \in Values
  PROVE  /\ Stored(i, stored, value) \in Values
         /\ i.width # "d" => LowOf(Stored(i, stored, value), WORD) = LowOf(value, WORD)
<1>1. CASE i.width = "d" BY <1>1 DEF Stored
<1>2. CASE i.width # "d"
  <2>1. PICK m \in Nat \ {0} : m = Pow2[WORD] /\ WORD \in Widths
    BY WidthFacts, PowerOfTwo DEF Widths
  <2>2. PICK c \in Nat \ {0} : Pow2[XLEN] = m * c BY <2>1, WordInWide
  <2>3. PICK q \in Int, r \in 0..(m - 1) :
          q = stored \div m /\ r = stored % m /\ stored = m * q + r
    <3>1. stored \in Int BY WideValue
    <3> QED BY <3>1, DivMod
  <2>4. PICK u \in 0..(m - 1) : u = value % m
    <3>1. value \in Int BY WideValue
    <3> QED BY <3>1, DivMod
  <2>5. PICK k \in Int : k = m * q OBVIOUS
  <2>6. Stored(i, stored, value) = k + u
    <3>1. Stored(i, stored, value) = (stored - r) + u
      BY <1>2, <2>1, <2>3, <2>4 DEF Stored, U32
    <3>2. stored = k + r BY <2>3, <2>5
    <3>3. (stored - r) + u = k + u BY <2>5, <3>2
    <3> QED BY <3>1, <3>3
  <2>7. (m * q + u) % m = u BY ModUnique
  <2>8. PICK big \in Nat \ {0} : big = Pow2[XLEN] BY WidthFacts, PowerOfTwo
  <2>9. stored \in 0..(big - 1) BY <2>8 DEF Values
  <2>10. k >= 0
    <3>1. q <= -1 => k <= -m BY <2>5, Times
    <3>2. q >= 0 => k >= 0 BY <2>5
    <3> QED BY <2>3, <2>5, <2>9, <3>1, <3>2
  <2>11. k + m <= big
    <3>1. q - c >= 0 => m * (q - c) >= 0 BY <2>3
    <3>2. m * (q - c) = k - big BY <2>2, <2>5, <2>8
    <3>3. q < c BY <2>3, <2>5, <2>9, <3>1, <3>2
    <3>4. c - q - 1 >= 0 => m * (c - q - 1) >= 0 BY <2>3
    <3>5. m * (c - q - 1) = big - k - m BY <2>2, <2>5, <2>8
    <3> QED BY <3>3, <3>4, <3>5
  <2>12. k + u \in 0..(big - 1) BY <2>10, <2>11
  <2> QED BY <2>1, <2>4, <2>5, <2>6, <2>7, <2>8, <2>12 DEF Values, LowOf
<1> QED BY <1>1, <1>2

LEMMA AmoResultRight ==
  ASSUME NEW i, i.fn \in AmoOps, i.width \in {"d", "w"},
         NEW stored \in Values, NEW s \in Values, NEW w,
         w = IF i.width = "d" THEN XLEN ELSE WORD
  PROVE  /\ AmoResult(i, stored, s) \in Values
         /\ IsAmoResult(i.fn, w, LowOf(stored, w), LowOf(s, w),
                        LowOf(AmoResult(i, stored, s), w))
<1>1. w \in Widths /\ w \in Nat \ {0} /\ stored \in Int /\ s \in Int
  BY WideValue, WidthFacts DEF Widths
<1>2. PICK t \in Int, z \in Int :
        /\ t = Operand(i, stored) /\ t = TwosComplement(LowOf(stored, w), w)
        /\ z = Operand(i, s) /\ z = TwosComplement(LowOf(s, w), w)
  <2>1. Operand(i, stored) = Signed(stored, w) /\ Operand(i, s) = Signed(s, w)
    BY DEF Operand, I32, I64
  <2> QED BY <1>1, <2>1, LowType
<1>3. PICK v \in Int :
        /\ v = Amo(i.fn, t, z)
        /\ IsAmoResult(i.fn, w, LowOf(stored, w), LowOf(s, w), v % Pow2[w])
  BY <1>1, <1>2, LowType, AmoRight
<1>4. AmoResult(i, stored, s) = Stored(i, stored, U64(v)) BY <1>2, <1>3 DEF AmoResult
<1>5. U64(v) \in Values /\ LowOf(U64(v), XLEN) = v % Pow2[XLEN]
  BY ExtendedRight DEF Extended, Widths
<1>6. LowOf(U64(v), w) = v % Pow2[w]
  <2>1. PICK p \in Nat \ {0} : p = Pow2[w] BY <1>1, PowerOfTwo
  <2>2. PICK big \in Nat \ {0} : big = Pow2[XLEN] BY WidthFacts, PowerOfTwo
  <2>3. big % p = 0
    <3>1. w <= XLEN BY <1>1, WidthFacts DEF Widths
    <3> QED BY <1>1, <2>1, <2>2, <3>1, WidthFacts, PowerDivides
  <2>4. (v % big) % p = v % p BY <2>3, ModMod
  <2> QED BY <2>1, <2>2, <2>4 DEF LowOf, U64
<1>7. AmoResult(i, stored, s) \in Values BY <1>4, <1>5, StoredType
<1>8. LowOf(AmoResult(i, stored, s), w) = v % Pow2[w]
  <2>1. CASE i.width = "d" BY <1>4, <1>6, <2>1 DEF Stored
  <2>2. CASE i.width # "d"
    <3>1. w = WORD BY <2>2
    <3> QED BY <1>4, <1>5, <1>6, <2>2, <3>1, StoredType
  <2> QED BY <2>1, <2>2
<1> QED BY <1>3, <1>7, <1>8

-----------------------------------------------------------------------------
(* Types.                                                                  *)

Calls == {"ecall", "ebreak"}

\* Besides the types: x0 is 0 in what the kernel saves, and while a call is
\* being taken sepc is at the instruction of the call.
Typed ==
  /\ ExecTypeOK
  /\ \A t \in Threads : saved[t].x[0] = 0
  /\ mode = "entry" /\ scause \in Calls => sepc \in DOMAIN Images[image].code[cur]

LEMMA WrapType ==
  ASSUME NEW n \in Int PROVE U64(n) \in Values
  BY ExtendedRight, WidthFacts DEF Extended, Widths

\* Wrapping twice, with a sum in between, is wrapping once.
LEMMA WrapSum ==
  ASSUME NEW n \in Int, NEW k \in Int PROVE U64(U64(n) + k) = U64(n + k)
<1>1. PICK m \in Nat \ {0} : m = Pow2[XLEN] BY WidthFacts, PowerOfTwo
<1>2. PICK r \in 0..(m - 1) : r = n % m BY DivMod
<1>3. r \in Int /\ r % m = n % m BY <1>2, ModSmall
<1>4. (r + k) % m = (n + k) % m BY <1>3, ModShift
<1> QED BY <1>1, <1>2, <1>4 DEF U64

LEMMA SmallValues ==
  /\ 0 \in Values /\ 1 \in Values
  /\ \A v \in Values : v \in Nat /\ v \in Int
<1>1. PICK h \in Nat \ {0} : Pow2[XLEN] = 2 * h BY WidthFacts, PowerHalf
<1> QED BY <1>1 DEF Values

\* The instruction at pc, what comes after it, and where TRAP puts pc back.
LEMMA Known ==
  ASSUME Typed, InText
  PROVE  /\ IsInstruction(Current) /\ Current.imm \in Int /\ Current.len \in {2, 4}
         /\ pc \in Values /\ pc \in Int
         /\ next = U64(pc + Current.len) /\ next \in Values
         /\ U64(next - Back(Current)) = pc
         /\ U64(next - Back(Current) + Current.imm) = U64(pc + Current.imm)
         /\ U64(next - Back(Current) - Current.len) \in Values
         /\ Current.kind = "auipc" => U64(next - 4 + Current.imm) = U64(pc + Current.imm)
<1>1. IsInstruction(Current) /\ pc \in Values /\ pc \in Int
  BY ImagesAssumption, SmallValues DEF Typed, ExecTypeOK, InText, Current
<1>2. PICK len \in {2, 4}, imm \in Int :
        /\ len = Current.len /\ imm = Current.imm
        /\ Current.kind = "auipc" => len = 4
  BY <1>1 DEF IsInstruction
<1>3. PICK n \in Int : n = pc + len BY <1>1
<1>4. next = U64(n) BY <1>2, <1>3 DEF next
<1>5. Back(Current) = len BY <1>2 DEF Back
<1>6. U64(n) \in Values /\ U64(n) \in Int BY WrapType, SmallValues
<1>7. PICK u \in Int : u = U64(n) BY <1>6
<1>8. ASSUME NEW k \in Int PROVE U64(u - len + k) = U64(pc + k)
  <2>1. U64(u + (k - len)) = U64(n + (k - len)) BY <1>7, WrapSum
  <2>2. n + (k - len) = pc + k /\ u + (k - len) = u - len + k BY <1>1, <1>3
  <2> QED BY <2>1, <2>2
<1>9. U64(u - len) = pc
  <2>1. U64(u - len + 0) = U64(pc + 0) BY <1>8
  <2>2. u - len + 0 = u - len /\ pc + 0 = pc BY <1>1
  <2> QED BY <1>1, <2>1, <2>2, WideValue
<1>10. U64(u - len - len) \in Values BY WrapType
<1>11. U64(u - len + imm) = U64(pc + imm) BY <1>8
<1> QED BY <1>1, <1>2, <1>3, <1>4, <1>5, <1>6, <1>7, <1>9, <1>10, <1>11

LEMMA AddressType ==
  ASSUME Typed, InText
  PROVE  /\ Address(Current, x) \in Values
         /\ WordAt(Address(Current, x)) \in Words
         /\ mem[WordAt(Address(Current, x))] \in Values
         /\ x[Current.rs1] \in Values /\ x[Current.rs2] \in Values /\ Current.rd \in Regs
<1>1. /\ Current.rs1 \in Regs /\ Current.rs2 \in Regs /\ Current.rd \in Regs
      /\ Current.imm \in Int
  BY Known DEF IsInstruction
<1>2. x \in RegFile /\ image \in ImageNames /\ cur \in Threads /\ mem \in [Words -> Values]
  BY DEF Typed, ExecTypeOK
<1>3. x[Current.rs1] \in Values /\ x[Current.rs2] \in Values BY <1>1, <1>2 DEF RegFile
<1>4. PICK n \in Int : n = x[Current.rs1] + Current.imm BY <1>1, <1>3, SmallValues
<1>5. Address(Current, x) \in Values BY <1>4, WrapType DEF Address
<1>6. Images[image].map[cur] \in [Values -> Words] BY <1>2, ImagesAssumption
<1>7. WordAt(Address(Current, x)) \in Words BY <1>5, <1>6 DEF WordAt
<1> QED BY <1>1, <1>2, <1>3, <1>5, <1>7

LEMMA WriteType ==
  ASSUME Typed, NEW rd \in Regs, NEW v \in Values, Write(rd, v)
  PROVE  x' \in RegFile /\ x'[0] = 0
<1>1. x \in RegFile /\ 0 \in Regs BY DEF Typed, ExecTypeOK, Regs
<1>2. x' = [x EXCEPT ![rd] = v, ![0] = 0] BY DEF Write
<1>3. 0 \in Values BY SmallValues
<1> QED BY <1>1, <1>2, <1>3 DEF RegFile

\* A word of memory written, and the reservations that are lost by it.
LEMMA WordWritten ==
  ASSUME Typed, NEW w \in Words, NEW v \in Values, WriteWord(w, v)
  PROVE  mem' \in [Words -> Values] /\ own' \in [Threads -> Words \cup {NoWord}]
  BY DEF Typed, ExecTypeOK, WriteWord

LEMMA TrapTyped ==
  ASSUME Typed, mode = "user", NEW cause \in Accesses \cup {"timer", "ecall", "ebreak"},
         NEW tval \in Values, TakeTrap(cause, tval, pc), ticks' \in Nat,
         cause \in Calls => InText
  PROVE  Typed'
<1>1. /\ sepc' = pc /\ scause' = cause /\ stval' = tval /\ pc' = STVEC /\ mode' = "entry"
      /\ UNCHANGED <<image, x, reservation_addr, reservation_valid, mem, cur, saved, granted, own>>
  BY DEF TakeTrap, reservation
<1>2. STVEC \in Values BY ImagesAssumption
<1>3. ExecTypeOK' BY <1>1, <1>2 DEF Typed, ExecTypeOK
<1>4. cause \in Calls => sepc' \in DOMAIN Images[image'].code[cur']
  BY <1>1 DEF InText
<1> QED BY <1>1, <1>3, <1>4 DEF Typed

LEMMA InstructionTraps ==
  ASSUME Typed, mode = "user", InText,
         NEW cause \in Accesses \cup {"ecall", "ebreak"}, NEW tval \in Values, TRAP(cause, tval)
  PROVE  Typed'
<1>1. TakeTrap(cause, tval, pc) /\ ticks' = ticks BY Known DEF TRAP
<1>2. ticks' \in Nat BY <1>1 DEF Typed, ExecTypeOK
<1> QED BY <1>1, <1>2, TrapTyped

\* An instruction that does not trap changes these.
LEMMA QuietTyped ==
  ASSUME Typed, mode = "user", Quiet, pc' \in Values, x' \in RegFile, x'[0] = 0,
         reservation_addr' \in Values, reservation_valid' \in BOOLEAN,
         mem' \in [Words -> Values], own' \in [Threads -> Words \cup {NoWord}]
  PROVE  Typed'
  BY DEF Typed, ExecTypeOK, Quiet, kernelVars, csrs

\* What the registers, memory and reservations are before an instruction.
LEMMA Before ==
  ASSUME Typed
  PROVE  /\ x \in RegFile /\ x[0] = 0 /\ mem \in [Words -> Values]
         /\ own \in [Threads -> Words \cup {NoWord}] /\ cur \in Threads
         /\ reservation_addr \in Values /\ reservation_valid \in BOOLEAN
  BY DEF Typed, ExecTypeOK

\* The results of arithmetic are values.
LEMMA ComputedType ==
  ASSUME Typed, InText, Current.kind \in {"op", "imm"}, NEW b \in Values
  PROVE  Compute(Current.width, Current.fn, x[Current.rs1], b) \in Values
<1>1. x[Current.rs1] \in Values BY AddressType
<1>2. Current.width \in {"d", "w"}
      /\ Current.fn \in IF Current.width = "d" THEN BaseOps \cup MulDivOps
                        ELSE BaseOps32 \cup MulDivOps32
  BY Known DEF IsInstruction
<1>3. CASE Current.width = "d" BY <1>1, <1>2, <1>3, ComputeRight DEF Right
<1>4. CASE Current.width = "w" BY <1>1, <1>2, <1>4, ComputeRight DEF Right
<1> QED BY <1>2, <1>3, <1>4

LEMMA ArithmeticTyped ==
  ASSUME Typed, Arithmetic PROVE Typed'
<1> DEFINE i == Current
<1>1. /\ mode = "user" /\ InText /\ i.kind \in {"op", "imm", "lui", "auipc"}
      /\ pc' = next /\ Quiet /\ UNCHANGED <<reservation_addr, reservation_valid, mem, own>>
  BY DEF Arithmetic, Executing, Fetched, reservation
<1>2. i.rd \in Regs /\ x[i.rs2] \in Values /\ i.imm \in Int /\ next \in Values /\ next \in Int
  BY <1>1, Known, AddressType, SmallValues
<1>3. U64(i.imm) \in Values BY <1>2, WrapType
<1>4. U64(next - 4 + i.imm) \in Values
  <2>1. next - 4 + i.imm \in Int BY <1>2
  <2> HIDE DEF i
  <2> QED BY <2>1, WrapType
<1>5. \E v \in Values : Write(i.rd, v)
  <2>1. CASE i.kind = "op"
    <3>1. Write(i.rd, Compute(i.width, i.fn, x[i.rs1], x[i.rs2])) BY <2>1 DEF Arithmetic
    <3> QED BY <1>1, <1>2, <2>1, <3>1, ComputedType
  <2>2. CASE i.kind = "imm"
    <3>1. Write(i.rd, Compute(i.width, i.fn, x[i.rs1], U64(i.imm))) BY <2>2 DEF Arithmetic
    <3> QED BY <1>1, <1>3, <2>2, <3>1, ComputedType
  <2>3. CASE i.kind = "lui"
    <3>1. Write(i.rd, U64(i.imm)) BY <2>3 DEF Arithmetic
    <3> QED BY <1>3, <3>1
  <2>4. CASE i.kind = "auipc"
    <3>1. Write(i.rd, U64(next - 4 + i.imm)) BY <2>4 DEF Arithmetic
    <3> QED BY <1>4, <3>1
  <2> QED BY <1>1, <2>1, <2>2, <2>3, <2>4
<1>6. x' \in RegFile /\ x'[0] = 0 BY <1>2, <1>5, WriteType
<1> QED BY <1>1, <1>2, <1>6, Before, QuietTyped

LEMMA BranchTyped ==
  ASSUME Typed, Branch PROVE Typed'
<1> DEFINE i == Current
<1>1. /\ mode = "user" /\ InText /\ Quiet
      /\ pc' = U64(next - Back(i) + i.imm) \/ pc' = next
      /\ UNCHANGED <<x, reservation_addr, reservation_valid, mem, own>>
  BY DEF Branch, Executing, Fetched, reservation
<1>2. PICK n \in Int : n = pc + i.imm BY <1>1, Known
<1>3. pc' \in Values BY <1>1, <1>2, Known, WrapType
<1> QED BY <1>1, <1>3, Before, QuietTyped

LEMMA JumpTyped ==
  ASSUME Typed, Jal \/ Jalr PROVE Typed'
<1> DEFINE i == Current
<1>1. /\ mode = "user" /\ InText /\ Quiet /\ Write(i.rd, next)
      /\ pc' = U64(next - Back(i) + i.imm) \/ pc' = 2 * (Address(i, x) \div 2)
      /\ UNCHANGED <<reservation_addr, reservation_valid, mem, own>>
  BY DEF Jal, Jalr, Executing, Fetched, reservation
<1>2. PICK n \in Int : n = pc + i.imm BY <1>1, Known
<1>3. U64(next - Back(i) + i.imm) \in Values BY <1>1, <1>2, Known, WrapType
<1>4. 2 * (Address(i, x) \div 2) \in Values
  <2>1. PICK a \in Values : a = Address(i, x) BY <1>1, AddressType
  <2>2. 2 * (a \div 2) \in 0..a BY SmallValues
  <2>3. PICK m \in Nat : m = Pow2[XLEN] BY WidthFacts, PowerOfTwo
  <2> QED BY <2>1, <2>2, <2>3 DEF Values
<1>5. i.rd \in Regs /\ next \in Values BY <1>1, Known, AddressType
<1>6. x' \in RegFile /\ x'[0] = 0 BY <1>1, <1>5, WriteType
<1> QED BY <1>1, <1>3, <1>4, <1>6, Before, QuietTyped

\* Load, Store, AmoStep, LoadReserved and StoreConditional.
LEMMA MemoryTyped ==
  ASSUME Typed, Load \/ Store \/ AmoStep \/ LoadReserved \/ StoreConditional
  PROVE  Typed'
<1> DEFINE i == Current
           va == Address(i, x)
           w == WordAt(va)
<1>1. mode = "user" /\ InText /\ i.kind \in {"load", "store", "amo", "lr", "sc"}
  BY DEF Load, Store, AmoStep, LoadReserved, StoreConditional, Executing, Fetched
<1>2. /\ va \in Values /\ w \in Words /\ mem[w] \in Values /\ x[i.rs2] \in Values
      /\ i.rd \in Regs /\ next \in Values
  BY <1>1, Known, AddressType
<1>3. Loaded(i, mem[w]) \in Values /\ Stored(i, mem[w], x[i.rs2]) \in Values
  BY <1>2, LoadedType, StoredType
<1>4. i.kind = "amo" => AmoResult(i, mem[w], x[i.rs2]) \in Values
  BY <1>1, <1>2, Known, AmoResultRight DEF IsInstruction
<1> HIDE DEF i, va, w
<1>5. CASE TRAP("load", va) \/ TRAP("store", va)
  BY <1>1, <1>2, <1>5, InstructionTraps DEF Accesses
<1>6. CASE ~(TRAP("load", va) \/ TRAP("store", va))
  <2>1. CASE Load
    <3>1. /\ Write(i.rd, Loaded(i, mem[w])) /\ pc' = next /\ Quiet
          /\ UNCHANGED <<reservation_addr, reservation_valid, mem, own>>
      BY <1>6, <2>1 DEF Load, reservation, i, va, w
    <3>2. x' \in RegFile /\ x'[0] = 0 BY <1>2, <1>3, <3>1, WriteType
    <3> QED BY <1>1, <1>2, <3>1, <3>2, Before, QuietTyped
  <2>2. CASE Store
    <3>1. /\ WriteWord(w, Stored(i, mem[w], x[i.rs2])) /\ pc' = next /\ Quiet
          /\ UNCHANGED <<x, reservation_addr, reservation_valid>>
      BY <1>6, <2>2 DEF Store, reservation, i, va, w
    <3>2. mem' \in [Words -> Values] /\ own' \in [Threads -> Words \cup {NoWord}]
      BY <1>2, <1>3, <3>1, WordWritten
    <3> QED BY <1>1, <1>2, <3>1, <3>2, Before, QuietTyped
  <2>3. CASE AmoStep
    <3>1. /\ WriteWord(w, AmoResult(i, mem[w], x[i.rs2]))
          /\ Write(i.rd, Loaded(i, mem[w])) /\ pc' = next /\ Quiet
          /\ UNCHANGED <<reservation_addr, reservation_valid>> /\ i.kind = "amo"
      BY <1>6, <2>3 DEF AmoStep, Executing, reservation, i, va, w
    <3>2. mem' \in [Words -> Values] /\ own' \in [Threads -> Words \cup {NoWord}]
      BY <1>2, <1>4, <3>1, WordWritten
    <3>3. x' \in RegFile /\ x'[0] = 0 BY <1>2, <1>3, <3>1, WriteType
    <3> QED BY <1>1, <1>2, <3>1, <3>2, <3>3, Before, QuietTyped
  <2>4. CASE LoadReserved
    <3>1. /\ Write(i.rd, Loaded(i, mem[w])) /\ pc' = next /\ Quiet
          /\ reservation_addr' = va /\ reservation_valid' = TRUE /\ UNCHANGED mem
          /\ own' = [own EXCEPT ![cur] = w]
      BY <1>6, <2>4 DEF LoadReserved, i, va, w
    <3>2. x' \in RegFile /\ x'[0] = 0 BY <1>2, <1>3, <3>1, WriteType
    <3>3. own' \in [Threads -> Words \cup {NoWord}] BY <1>2, <3>1, Before
    <3> QED BY <1>1, <1>2, <3>1, <3>2, <3>3, Before, QuietTyped
  <2>5. CASE StoreConditional
    <3>1. /\ pc' = next /\ Quiet /\ reservation_valid' = FALSE /\ UNCHANGED reservation_addr
          /\ \/ /\ mem' = [mem EXCEPT ![w] = Stored(i, mem[w], x[i.rs2])]
                /\ own' = [t \in Threads |-> IF own[t] = w THEN NoWord ELSE own[t]]
                /\ Write(i.rd, 0)
             \/ /\ own' = [own EXCEPT ![cur] = NoWord]
                /\ Write(i.rd, 1)
                /\ UNCHANGED mem
      BY <1>6, <2>5 DEF StoreConditional, EndReservation, i, va, w
    <3>2. x' \in RegFile /\ x'[0] = 0 BY <1>2, <3>1, SmallValues, WriteType
    <3>3. mem' \in [Words -> Values] /\ own' \in [Threads -> Words \cup {NoWord}]
      BY <1>2, <1>3, <3>1, Before
    <3> QED BY <1>1, <1>2, <3>1, <3>2, <3>3, Before, QuietTyped
  <2> QED BY <2>1, <2>2, <2>3, <2>4, <2>5
<1> QED BY <1>5, <1>6

LEMMA CpuStepTyped ==
  ASSUME Typed, CpuStep \/ TimerInterrupt PROVE Typed'
<1>1. CASE FetchFault
  <2>1. PICK tval : /\ tval = IF Permitted("exec", pc) THEN U64(pc + 2) ELSE pc
                    /\ TakeTrap("exec", tval, pc) /\ UNCHANGED ticks /\ mode = "user"
    BY <1>1 DEF FetchFault
  <2>2. pc \in Values /\ ticks' \in Nat BY <2>1 DEF Typed, ExecTypeOK
  <2>3. PICK n \in Int : n = pc + 2 BY <2>2, SmallValues
  <2>4. tval \in Values BY <2>1, <2>2, <2>3, WrapType
  <2>5. "exec" \in Accesses /\ "exec" \notin Calls BY DEF Accesses, Calls
  <2> QED BY <2>1, <2>2, <2>4, <2>5, TrapTyped
<1>2. CASE TimerInterrupt
  <2>1. TakeTrap("timer", 0, pc) /\ mode = "user" /\ ticks > 0 /\ ticks' = ticks - 1
    BY <1>2 DEF TimerInterrupt
  <2>2. ticks' \in Nat BY <2>1 DEF Typed, ExecTypeOK
  <2> QED BY <2>1, <2>2, SmallValues, TrapTyped DEF Calls
<1>3. CASE Ecall
  BY <1>3, InstructionTraps, SmallValues DEF Ecall, Executing, Fetched
<1>4. CASE Ebreak
  BY <1>4, InstructionTraps, Known DEF Ebreak, Executing, Fetched
<1> QED
  BY <1>1, <1>2, <1>3, <1>4, ArithmeticTyped, BranchTyped, JumpTyped, MemoryTyped
  DEF CpuStep

LEMMA KernelTyped ==
  ASSUME Typed, Kernel PROVE Typed'
<1>1. CASE Service
  <2> DEFINE back == IF scause \in Calls
                     THEN U64(sepc + Images[image].code[cur][sepc].len) ELSE sepc
             Give == {<<cur, Page(stval), a>> :
                        a \in IF scause = "store" THEN {"load", "store"} ELSE {scause}}
  <2>1. /\ mode = "entry" /\ mode' = "resume"
        /\ saved' = [saved EXCEPT ![cur] = [pc |-> back, x |-> x]]
        /\ UNCHANGED <<image, pc, x, sepc, scause, stval, reservation_addr,
                       reservation_valid, mem, cur, ticks, own>>
    BY <1>1 DEF Service, Calls, csrs, reservation
  <2>2. \/ scause \in Accesses /\ granted' = granted \cup Give
        \/ granted' \subseteq granted
    BY <1>1 DEF Service
  <2>3. back \in Values
    <3>1. CASE scause \in Calls
      <4>1. sepc \in DOMAIN Images[image].code[cur] /\ sepc \in Values
        BY <2>1, <3>1 DEF Typed, ExecTypeOK
      <4>2. IsInstruction(Images[image].code[cur][sepc])
        BY <4>1, ImagesAssumption DEF Typed, ExecTypeOK
      <4>3. PICK n \in Int : n = sepc + Images[image].code[cur][sepc].len
        BY <4>1, <4>2, SmallValues DEF IsInstruction
      <4> QED BY <3>1, <4>3, WrapType
    <3>2. CASE scause \notin Calls BY <3>2 DEF Typed, ExecTypeOK
    <3> QED BY <3>1, <3>2
  <2>4. granted' \subseteq Threads \X Nat \X Accesses
    <3>1. granted \subseteq Threads \X Nat \X Accesses /\ cur \in Threads /\ stval \in Nat
      BY SmallValues DEF Typed, ExecTypeOK
    <3>2. Page(stval) \in Nat
      <4>1. PICK s \in Nat \ {0} : s = PAGE_SIZE BY ImagesAssumption
      <4>2. stval \div s >= 0
        <5>1. PICK q \in Int, r \in 0..(s - 1) : q = stval \div s /\ stval = s * q + r
          BY <3>1, DivMod
        <5>2. q <= -1 => s * q <= -s BY Times
        <5> QED BY <3>1, <5>1, <5>2
      <4> QED BY <3>1, <4>1, <4>2 DEF Page
    <3>3. scause \in Accesses => Give \subseteq Threads \X Nat \X Accesses
      BY <3>1, <3>2 DEF Accesses
    <3> QED BY <2>2, <3>1, <3>3
  <2>5. saved' \in [Threads -> [pc : Values, x : RegFile]]
    BY <2>1, <2>3 DEF Typed, ExecTypeOK
  <2>6. ExecTypeOK' BY <2>1, <2>4, <2>5 DEF Typed, ExecTypeOK
  <2>7. \A t \in Threads : saved'[t].x[0] = 0
    <3>1. x[0] = 0 /\ saved \in [Threads -> [pc : Values, x : RegFile]] BY DEF Typed, ExecTypeOK
    <3> HIDE DEF back
    <3>2. \A t \in Threads : saved'[t] = IF t = cur THEN [pc |-> back, x |-> x] ELSE saved[t]
      BY <2>1, <3>1
    <3> QED BY <3>1, <3>2 DEF Typed
  <2> QED BY <2>1, <2>6, <2>7 DEF Typed
<1>2. CASE KernelLr
  <2>1. /\ reservation_addr' \in Values /\ reservation_valid' = TRUE
        /\ UNCHANGED <<image, pc, x, sepc, scause, stval, mem, mode, cur, saved,
                       granted, ticks, own>>
    BY <1>2, ImagesAssumption DEF KernelLr, csrs, kernelVars
  <2> QED BY <2>1 DEF Typed, ExecTypeOK
<1>3. CASE Resume
  <2>1. /\ cur' \in Threads /\ x' = saved[cur'].x /\ sepc' = saved[cur'].pc
        /\ mode' = "return"
        /\ UNCHANGED <<image, pc, scause, stval, reservation_addr, reservation_valid,
                       mem, saved, granted, ticks, own>>
    BY <1>3 DEF Resume, reservation, Typed, ExecTypeOK
  <2>2. saved[cur'].x \in RegFile /\ saved[cur'].pc \in Values
    BY <2>1 DEF Typed, ExecTypeOK
  <2> QED BY <2>1, <2>2 DEF Typed, ExecTypeOK
<1>4. CASE KernelSc
  <2>1. /\ reservation_valid' = FALSE /\ mode' = "sret"
        /\ UNCHANGED <<image, pc, x, sepc, scause, stval, mem, cur, saved, granted,
                       ticks, own, reservation_addr>>
    BY <1>4 DEF KernelSc, EndReservation, csrs, kernelVars
  <2> QED BY <2>1 DEF Typed, ExecTypeOK
<1>5. CASE Sret
  <2>1. /\ pc' = sepc /\ mode' = "user"
        /\ UNCHANGED <<image, x, sepc, scause, stval, mem, cur, saved, granted,
                       ticks, own, reservation_addr, reservation_valid>>
    BY <1>5 DEF Sret, csrs, kernelVars, reservation
  <2> QED BY <2>1 DEF Typed, ExecTypeOK
<1> QED BY <1>1, <1>2, <1>3, <1>4, <1>5 DEF Kernel

\* An instruction that has been executed has computed what it should.
LEMMA StepRight ==
  ASSUME Typed, CpuStep \/ TimerInterrupt, mode = "user", mode' = "user",
         NEW w, w = IF Current.width = "d" THEN XLEN ELSE WORD,
         NEW word, word = WordAt(Address(Current, x)),
         NEW b, b = IF Current.kind = "imm" THEN U64(Current.imm) ELSE x[Current.rs2]
  PROVE  /\ Current.kind \in {"op", "imm"} /\ Current.rd # 0 =>
              /\ IsResult(Current.fn, w, LowOf(x[Current.rs1], w), LowOf(b, w),
                          LowOf(x'[Current.rd], w))
              /\ IsSignExtended(x'[Current.rd], w)
         /\ Current.kind = "amo" =>
              IsAmoResult(Current.fn, w, LowOf(mem[word], w), LowOf(x[Current.rs2], w),
                          LowOf(mem'[word], w))
<1> DEFINE i == Current
<1>1. InText
  BY DEF CpuStep, FetchFault, TimerInterrupt, TakeTrap, Arithmetic, Branch, Jal, Jalr, Load,
         Store, AmoStep, LoadReserved, StoreConditional, Ecall, Ebreak, Executing
<1>2. /\ IsInstruction(i) /\ i.imm \in Int
      /\ x[i.rs1] \in Values /\ x[i.rs2] \in Values /\ i.rd \in Regs
      /\ word \in Words /\ mem[word] \in Values
      /\ x \in RegFile /\ mem \in [Words -> Values]
  BY <1>1, Known, AddressType, Before
<1>3. ASSUME i.kind \in {"op", "imm"}, i.rd # 0
      PROVE  /\ IsResult(i.fn, w, LowOf(x[i.rs1], w), LowOf(b, w), LowOf(x'[i.rd], w))
             /\ IsSignExtended(x'[i.rd], w)
  <2>1. Arithmetic
    BY <1>3 DEF CpuStep, FetchFault, TimerInterrupt, TakeTrap, Branch, Jal, Jalr, Load, Store,
                AmoStep, LoadReserved, StoreConditional, Ecall, Ebreak, Executing
  <2>2. b \in Values BY <1>2, <1>3, WrapType
  <2>3. Write(i.rd, Compute(i.width, i.fn, x[i.rs1], b)) BY <1>3, <2>1 DEF Arithmetic
  <2>4. x'[i.rd] = Compute(i.width, i.fn, x[i.rs1], b)
    BY <1>2, <1>3, <2>3 DEF Write, RegFile
  <2>5. Right(i.fn, w, x[i.rs1], b, Compute(i.width, i.fn, x[i.rs1], b))
    <3>1. CASE i.width = "d" BY <1>2, <1>3, <2>2, <3>1, ComputeRight DEF IsInstruction
    <3>2. CASE i.width = "w" BY <1>2, <1>3, <2>2, <3>2, ComputeRight DEF IsInstruction
    <3> QED BY <1>2, <3>1, <3>2 DEF IsInstruction
  <2> QED BY <2>4, <2>5 DEF Right
<1>4. ASSUME i.kind = "amo"
      PROVE  IsAmoResult(i.fn, w, LowOf(mem[word], w), LowOf(x[i.rs2], w), LowOf(mem'[word], w))
  <2>1. AmoStep
    BY <1>4 DEF CpuStep, FetchFault, TimerInterrupt, TakeTrap, Arithmetic, Branch, Jal, Jalr,
                Load, Store, LoadReserved, StoreConditional, Ecall, Ebreak, Executing
  <2>2. WriteWord(word, AmoResult(i, mem[word], x[i.rs2]))
    BY <2>1 DEF AmoStep, TRAP, TakeTrap
  <2>3. mem'[word] = AmoResult(i, mem[word], x[i.rs2]) BY <1>2, <2>2 DEF WriteWord
  <2> QED BY <1>2, <1>4, <2>3, AmoResultRight DEF IsInstruction
<1> QED BY <1>3, <1>4

LEMMA InitTyped ==
  ASSUME ExecInit PROVE Typed
<1>1. \A t \in Threads : /\ Images[image].regs[t] \in RegFile
                        /\ Images[image].regs[t][0] = 0
  BY ImagesAssumption DEF ExecInit
<1>2. saved = [t \in Threads |-> [pc |-> 0, x |-> Images[image].regs[t]]] BY DEF ExecInit
<1>3. saved \in [Threads -> [pc : Values, x : RegFile]] BY <1>1, <1>2, SmallValues
<1>4. \A t \in Threads : saved[t].x[0] = 0 BY <1>1, <1>2
<1>5. /\ Images[image].mem \in [Words -> Values] /\ Images[image].ticks \in Nat
      /\ Images[image].granted \subseteq Threads \X Nat \X Accesses
  BY ImagesAssumption DEF ExecInit
<1>6. ExecTypeOK BY <1>1, <1>3, <1>5, SmallValues DEF ExecInit, ExecTypeOK
<1> QED BY <1>4, <1>6 DEF Typed, ExecInit

LEMMA StutterTyped ==
  ASSUME Typed, UNCHANGED vars PROVE Typed'
  BY DEF Typed, ExecTypeOK, vars, csrs, kernelVars, reservation

LEMMA TypedAlways == ExecSpec => []Typed
<1>1. ExecInit => Typed BY InitTyped
<1>2. Typed /\ [ExecNext]_vars => Typed'
  BY CpuStepTyped, KernelTyped, StutterTyped DEF ExecNext
<1> QED BY <1>1, <1>2, PTL DEF ExecSpec

\* Registers, memory and the places of programs hold numbers of the width of
\* a register, x0 holds 0, whatever is executed (execute.c, compressed.c).
THEOREM Types == ExecSpec => []ExecTypeOK
<1>1. Typed => ExecTypeOK BY DEF Typed
<1> QED BY <1>1, TypedAlways, PTL

\* At every width that is a power of two, and for all operands, the casts,
\* shifts and special cases of execute.c give the results that the
\* instruction set fixes.
THEOREM Computation == ExecSpec => ArithmeticRight
<1> DEFINE Good == mode = "user" /\ mode' = "user" =>
       LET i == Current
           w == IF i.width = "d" THEN XLEN ELSE WORD
           b == IF i.kind = "imm" THEN U64(i.imm) ELSE x[i.rs2]
           word == WordAt(Address(i, x))
       IN /\ i.kind \in {"op", "imm"} /\ i.rd # 0 =>
               /\ IsResult(i.fn, w, LowOf(x[i.rs1], w), LowOf(b, w), LowOf(x'[i.rd], w))
               /\ IsSignExtended(x'[i.rd], w)
          /\ i.kind = "amo" =>
               IsAmoResult(i.fn, w, LowOf(mem[word], w), LowOf(x[i.rs2], w),
                           LowOf(mem'[word], w))
<1>1. Typed /\ [ExecNext]_vars => [Good]_vars
  <2> SUFFICES ASSUME Typed, ExecNext, mode = "user", mode' = "user" PROVE Good
    OBVIOUS
  <2>1. CpuStep \/ TimerInterrupt
    BY DEF ExecNext, Kernel, Service, KernelLr, Resume, KernelSc, Sret
  <2> QED BY <2>1, StepRight
<1>2. [][Good]_vars => ArithmeticRight
  BY DEF ArithmeticRight
<1> QED BY <1>1, <1>2, TypedAlways, PTL DEF ExecSpec

-----------------------------------------------------------------------------
(* What the refinement needs besides the types.                            *)

IsFile(regs) == regs = [r \in Regs |-> regs[r]] /\ regs[0] = 0

ExecInv ==
  /\ Typed
  /\ mode = "entry" /\ scause \in Calls =>
       Images[image].code[cur][sepc].kind \in Calls
  /\ mode \in {"return", "sret"} => x = saved[cur].x /\ sepc = saved[cur].pc
  /\ mode = "sret" => ~reservation_valid
  /\ ReservationOwned

LEMMA Shape ==
  ASSUME ExecInv
  PROVE  /\ Typed /\ image \in ImageNames /\ cur \in Threads
         /\ IsFile(x)
         /\ saved = [t \in Threads |-> [pc |-> saved[t].pc, x |-> saved[t].x]]
         /\ own = [t \in Threads |-> own[t]]
         /\ mode = "entry" /\ scause \in Calls =>
              Images[image].code[cur][sepc].kind \in Calls
         /\ mode \in {"return", "sret"} => x = saved[cur].x /\ sepc = saved[cur].pc
         /\ ReservationOwned
<1>1. /\ image \in ImageNames /\ cur \in Threads /\ x \in RegFile /\ x[0] = 0
      /\ saved \in [Threads -> [pc : Values, x : RegFile]]
      /\ own \in [Threads -> Words \cup {NoWord}]
  BY DEF ExecInv, Typed, ExecTypeOK
<1>2. IsFile(x) BY <1>1 DEF IsFile, RegFile
<1>3. \A t \in Threads : saved[t] = [pc |-> saved[t].pc, x |-> saved[t].x] BY <1>1
<1>4. saved = [t \in Threads |-> saved[t]] BY <1>1
<1>5. saved = [t \in Threads |-> [pc |-> saved[t].pc, x |-> saved[t].x]] BY <1>3, <1>4
<1>6. own = [t \in Threads |-> own[t]] BY <1>1
<1> QED BY <1>1, <1>2, <1>5, <1>6 DEF ExecInv

\* The state of the ideal harts.
At == [t \in Threads |-> PlaceOf(t)]
Reg == [t \in Threads |-> RegsOf(t)]

LEMMA FileWritten ==
  ASSUME IsFile(x), NEW rd, NEW v, Write(rd, v)
  PROVE  /\ IsFile(x')
         /\ x' = [x EXCEPT ![rd] = IF rd = 0 THEN 0 ELSE v]
<1>1. x' = [x EXCEPT ![rd] = v, ![0] = 0] BY DEF Write
<1>2. 0 \in Regs BY DEF Regs
<1>3. x = [r \in Regs |-> x[r]] /\ x[0] = 0 BY DEF IsFile
<1>4. DOMAIN x = Regs BY <1>3
<1>5. \A r \in Regs : x'[r] = [x EXCEPT ![rd] = IF rd = 0 THEN 0 ELSE v][r]
  BY <1>1, <1>2, <1>3, <1>4
<1>6. x' = [r \in Regs |-> x'[r]] /\ x'[0] = 0 BY <1>1, <1>2, <1>4
<1>7. x' = [x EXCEPT ![rd] = IF rd = 0 THEN 0 ELSE v] BY <1>4, <1>5, <1>6
<1> QED BY <1>6, <1>7 DEF IsFile

\* The thread on the hart is where the hart is.
LEMMA Here ==
  ASSUME mode = "user", cur \in Threads
  PROVE  At[cur] = pc /\ Reg[cur] = x /\ Ideal!Now(cur) = Current
  BY DEF At, Reg, PlaceOf, RegsOf, Ideal!Now, Current

LEMMA PlaceMoves ==
  ASSUME mode = "user", mode' = "user", cur \in Threads,
         UNCHANGED <<cur, saved>>
  PROVE  Ideal!GoTo(cur, pc')
  BY DEF Ideal!GoTo, PlaceOf

LEMMA RegsMove ==
  ASSUME mode = "user", mode' = "user", cur \in Threads,
         UNCHANGED <<cur, saved>>
  PROVE  /\ Reg' = [Reg EXCEPT ![cur] = x']
         /\ UNCHANGED x => Reg' = Reg
  BY DEF Reg, RegsOf

\* A trap that leaves pc at its instruction is no step of the program.
LEMMA TrapStutters ==
  ASSUME mode = "user", cur \in Threads, NEW cause, NEW tval, TakeTrap(cause, tval, pc)
  PROVE  UNCHANGED <<image, At, Reg, mem, own>>
  BY DEF TakeTrap, At, Reg, PlaceOf, RegsOf

-----------------------------------------------------------------------------
(* Steps that execute an instruction.                                      *)

Stays == /\ mode = "user" /\ UNCHANGED <<image, mode, cur, saved>>

LEMMA StaysQuiet ==
  ASSUME mode = "user", Quiet PROVE Stays
  BY DEF Quiet, Stays, kernelVars

LEMMA IdealMoves ==
  ASSUME ExecInv, Stays, InText, pc' = next
  PROVE  Ideal!GoOn(cur)
<1>1. Ideal!GoTo(cur, pc') BY PlaceMoves, Shape DEF Stays
<1>2. At[cur] = pc /\ Ideal!Now(cur) = Current BY Here, Shape DEF Stays
<1>3. pc' = U64(At[cur] + Ideal!Now(cur).len) BY <1>2, Known, Shape
<1> QED BY <1>1, <1>3 DEF Ideal!GoOn, At

LEMMA IdealSets ==
  ASSUME ExecInv, Stays, NEW rd, NEW v, Write(rd, v)
  PROVE  Ideal!Set(cur, rd, v)
<1>1. x' = [x EXCEPT ![rd] = IF rd = 0 THEN 0 ELSE v] BY FileWritten, Shape
<1>2. Reg' = [Reg EXCEPT ![cur] = x'] /\ Reg[cur] = x
  BY RegsMove, Here, Shape DEF Stays
<1> QED BY <1>1, <1>2 DEF Ideal!Set, Reg

LEMMA IdealPuts ==
  ASSUME NEW w, NEW v, WriteWord(w, v) PROVE Ideal!Put(cur, w, v)
  BY DEF WriteWord, Ideal!Put

LEMMA IdealWord ==
  ASSUME NEW va PROVE Ideal!WordOf(cur, va) = WordAt(va)
  BY DEF Ideal!WordOf, WordAt

LEMMA ArithmeticStep ==
  ASSUME ExecInv, Arithmetic PROVE Ideal!IdealStep(cur)
<1> DEFINE i == Current
<1>1. Stays /\ InText /\ pc' = next /\ i.kind \in {"op", "imm", "lui", "auipc"}
  BY StaysQuiet DEF Arithmetic, Executing, Fetched
<1>2. At[cur] = pc /\ Reg[cur] = x /\ Ideal!Now(cur) = i
  BY <1>1, Here, Shape DEF Stays
<1>3. Ideal!GoOn(cur) BY <1>1, IdealMoves
<1>4. UNCHANGED <<image, mem, own>> BY DEF Arithmetic, Quiet
<1>5. ASSUME i.kind = "op" PROVE Ideal!IdealCompute(cur)
  <2>1. Write(i.rd, Compute(i.width, i.fn, x[i.rs1], x[i.rs2])) BY <1>5 DEF Arithmetic
  <2>2. Ideal!Set(cur, i.rd, Compute(i.width, i.fn, x[i.rs1], x[i.rs2]))
    BY <1>1, <2>1, IdealSets
  <2> QED BY <1>2, <1>3, <1>4, <1>5, <2>2 DEF Ideal!IdealCompute, Reg
<1>6. ASSUME i.kind = "imm" PROVE Ideal!IdealCompute(cur)
  <2>1. Write(i.rd, Compute(i.width, i.fn, x[i.rs1], U64(i.imm))) BY <1>6 DEF Arithmetic
  <2>2. Ideal!Set(cur, i.rd, Compute(i.width, i.fn, x[i.rs1], U64(i.imm)))
    BY <1>1, <2>1, IdealSets
  <2> QED BY <1>2, <1>3, <1>4, <1>6, <2>2 DEF Ideal!IdealCompute, Reg
<1>7. ASSUME i.kind = "lui" PROVE Ideal!IdealCompute(cur)
  <2>1. Write(i.rd, U64(i.imm)) BY <1>7 DEF Arithmetic
  <2>2. Ideal!Set(cur, i.rd, U64(i.imm)) BY <1>1, <2>1, IdealSets
  <2> QED BY <1>2, <1>3, <1>4, <1>7, <2>2 DEF Ideal!IdealCompute, Reg
<1>8. ASSUME i.kind = "auipc" PROVE Ideal!IdealCompute(cur)
  <2>1. Write(i.rd, U64(next - 4 + i.imm)) BY <1>8 DEF Arithmetic
  <2>2. Ideal!Set(cur, i.rd, U64(pc + i.imm)) BY <1>1, <1>8, <2>1, IdealSets, Known, Shape
  <2> QED BY <1>2, <1>3, <1>4, <1>8, <2>2 DEF Ideal!IdealCompute, At
<1> QED BY <1>1, <1>2, <1>4, <1>5, <1>6, <1>7, <1>8 DEF Ideal!IdealStep

LEMMA BranchStep ==
  ASSUME ExecInv, Branch PROVE Ideal!IdealStep(cur)
<1> DEFINE i == Current
<1>1. Stays /\ InText /\ i.kind = "branch" /\ UNCHANGED <<image, x, mem, own>>
  BY StaysQuiet DEF Branch, Executing, Fetched, Quiet
<1>2. At[cur] = pc /\ Reg[cur] = x /\ Ideal!Now(cur) = i
  BY <1>1, Here, Shape DEF Stays
<1>3. Ideal!GoTo(cur, pc') BY <1>1, PlaceMoves, Shape DEF Stays
<1>4. pc' = U64(pc + IF Taken(i.fn, x[i.rs1], x[i.rs2]) THEN i.imm ELSE i.len)
  BY <1>1, Known, Shape DEF Branch
<1>5. Reg' = Reg BY <1>1, RegsMove, Shape DEF Stays
<1>6. Ideal!IdealJump(cur)
  BY <1>1, <1>2, <1>3, <1>4, <1>5 DEF Ideal!IdealJump, At, Reg
<1> QED BY <1>1, <1>6 DEF Ideal!IdealStep

LEMMA JalStep ==
  ASSUME ExecInv, Jal PROVE Ideal!IdealStep(cur)
<1> DEFINE i == Current
<1>1. /\ Stays /\ InText /\ i.kind = "jal" /\ UNCHANGED <<image, mem, own>>
      /\ Write(i.rd, next) /\ pc' = U64(next - Back(i) + i.imm)
  BY StaysQuiet DEF Jal, Executing, Fetched, Quiet
<1>2. At[cur] = pc /\ Ideal!Now(cur) = i BY <1>1, Here, Shape DEF Stays
<1>3. Ideal!GoTo(cur, pc') BY <1>1, PlaceMoves, Shape DEF Stays
<1>4. pc' = U64(pc + i.imm) /\ next = U64(pc + i.len) BY <1>1, Known, Shape
<1>5. Ideal!Set(cur, i.rd, next) BY <1>1, IdealSets
<1>6. Ideal!IdealJump(cur)
  BY <1>1, <1>2, <1>3, <1>4, <1>5 DEF Ideal!IdealJump, At
<1> QED BY <1>1, <1>6 DEF Ideal!IdealStep

LEMMA JalrStep ==
  ASSUME ExecInv, Jalr PROVE Ideal!IdealStep(cur)
<1> DEFINE i == Current
<1>1. /\ Stays /\ InText /\ i.kind = "jalr" /\ UNCHANGED <<image, mem, own>>
      /\ Write(i.rd, next) /\ pc' = 2 * (Address(i, x) \div 2)
  BY StaysQuiet DEF Jalr, Executing, Fetched, Quiet
<1>2. At[cur] = pc /\ Reg[cur] = x /\ Ideal!Now(cur) = i
  BY <1>1, Here, Shape DEF Stays
<1>3. Ideal!GoTo(cur, pc') BY <1>1, PlaceMoves, Shape DEF Stays
<1>4. next = U64(pc + i.len) BY Known, <1>1, Shape
<1>5. Ideal!Set(cur, i.rd, next) BY <1>1, IdealSets
<1>6. Ideal!IdealJump(cur)
  BY <1>1, <1>2, <1>3, <1>4, <1>5 DEF Ideal!IdealJump, At, Reg
<1> QED BY <1>1, <1>6 DEF Ideal!IdealStep

\* Load, Store, AmoStep and LoadReserved, when they do not fault.
LEMMA MemoryStep ==
  ASSUME ExecInv, Stays, InText, pc' = next, NEW w, w = WordAt(Address(Current, x)),
         \/ /\ Current.kind = "load"
            /\ Write(Current.rd, Loaded(Current, mem[w]))
            /\ UNCHANGED <<mem, own>>
         \/ /\ Current.kind = "store"
            /\ WriteWord(w, Stored(Current, mem[w], x[Current.rs2]))
            /\ UNCHANGED x
         \/ /\ Current.kind = "amo"
            /\ WriteWord(w, AmoResult(Current, mem[w], x[Current.rs2]))
            /\ Write(Current.rd, Loaded(Current, mem[w]))
         \/ /\ Current.kind = "lr"
            /\ Write(Current.rd, Loaded(Current, mem[w]))
            /\ own' = [own EXCEPT ![cur] = w]
            /\ UNCHANGED mem
  PROVE  Ideal!IdealStep(cur)
<1> DEFINE i == Current
<1>1. Reg[cur] = x /\ Ideal!Now(cur) = i BY Here, Shape DEF Stays
<1>2. Ideal!WordOf(cur, Address(i, x)) = w BY IdealWord
<1>3. Ideal!GoOn(cur) BY IdealMoves
<1>4. ASSUME NEW v, Write(i.rd, v) PROVE Ideal!Set(cur, i.rd, v) BY <1>4, IdealSets
<1>5. ASSUME NEW v, WriteWord(w, v) PROVE Ideal!Put(cur, w, v) BY <1>5, IdealPuts
<1>6. UNCHANGED x => Reg' = Reg BY RegsMove, Shape DEF Stays
<1>7. Ideal!IdealMemory(cur)
  <2>1. CASE i.kind = "load"
    BY <2>1, <1>1, <1>2, <1>3, <1>4 DEF Ideal!IdealMemory, Reg
  <2>2. CASE i.kind = "store"
    BY <2>2, <1>1, <1>2, <1>3, <1>5, <1>6 DEF Ideal!IdealMemory, Reg
  <2>3. CASE i.kind = "amo"
    BY <2>3, <1>1, <1>2, <1>3, <1>4, <1>5 DEF Ideal!IdealMemory, Reg
  <2>4. CASE i.kind = "lr"
    BY <2>4, <1>1, <1>2, <1>3, <1>4 DEF Ideal!IdealMemory, Reg
  <2> QED BY <2>1, <2>2, <2>3, <2>4
<1> QED BY <1>7 DEF Ideal!IdealStep, Stays

\* SC: the hart's reservation is this program's, and on this word.
LEMMA StoreConditionalStep ==
  ASSUME ExecInv, StoreConditional, mode' = "user" PROVE Ideal!IdealStep(cur)
<1> DEFINE i == Current
           va == Address(i, x)
           w == WordAt(va)
<1>1. /\ mode = "user" /\ InText /\ i.kind = "sc"
      /\ pc' = next /\ Quiet
      /\ \/ /\ Matches(va)
            /\ mem' = [mem EXCEPT ![w] = Stored(i, @, x[i.rs2])]
            /\ own' = [t \in Threads |-> IF own[t] = w THEN NoWord ELSE own[t]]
            /\ Write(i.rd, 0)
         \/ /\ own' = [own EXCEPT ![cur] = NoWord]
            /\ Write(i.rd, 1)
            /\ UNCHANGED mem
  BY DEF StoreConditional, Executing, Fetched, TRAP, TakeTrap
<1>2. Stays BY <1>1, StaysQuiet
<1>3. Reg[cur] = x /\ Ideal!Now(cur) = i /\ Ideal!WordOf(cur, va) = w
  BY <1>1, Here, IdealWord, Shape
<1>4. Ideal!GoOn(cur) BY <1>1, <1>2, IdealMoves
<1>5. CASE /\ Matches(va)
           /\ mem' = [mem EXCEPT ![w] = Stored(i, @, x[i.rs2])]
           /\ own' = [t \in Threads |-> IF own[t] = w THEN NoWord ELSE own[t]]
           /\ Write(i.rd, 0)
  <2>1. own[cur] = w BY <1>1, <1>5, Shape DEF Matches, ReservationOwned
  <2>2. Ideal!Set(cur, i.rd, 0) BY <1>2, <1>5, IdealSets
  <2> QED BY <1>1, <1>2, <1>3, <1>4, <1>5, <2>1, <2>2
          DEF Ideal!IdealScSucceeds, Ideal!IdealStep, Stays, Reg
<1>6. CASE /\ own' = [own EXCEPT ![cur] = NoWord]
           /\ Write(i.rd, 1)
           /\ UNCHANGED mem
  <2>1. Ideal!Set(cur, i.rd, 1) BY <1>2, <1>6, IdealSets
  <2> QED BY <1>1, <1>2, <1>3, <1>4, <1>6, <2>1
          DEF Ideal!IdealScFails, Ideal!IdealStep, Stays
<1> QED BY <1>1, <1>5, <1>6

-----------------------------------------------------------------------------
(* Every step of the hart and of its kernel.                               *)

\* What TRAP does from within an instruction.
LEMMA TrapAtPc ==
  ASSUME ExecInv, InText, NEW cause, NEW tval, TRAP(cause, tval)
  PROVE  TakeTrap(cause, tval, pc)
  BY Known, Shape DEF TRAP

Stutter == UNCHANGED <<image, At, Reg, mem, own>>

LEMMA CpuStepIdeal ==
  ASSUME ExecInv, CpuStep \/ TimerInterrupt
  PROVE  Ideal!IdealStep(cur) \/ Stutter
<1>1. ASSUME NEW cause, NEW tval, TRAP(cause, tval), mode = "user", InText PROVE Stutter
  BY <1>1, TrapAtPc, TrapStutters, Shape DEF Stutter
<1>2. CASE FetchFault
  BY <1>2, TrapStutters, Shape DEF FetchFault, Stutter
<1>3. CASE TimerInterrupt
  BY <1>3, TrapStutters, Shape DEF TimerInterrupt, Stutter
<1>4. CASE Arithmetic BY <1>4, ArithmeticStep
<1>5. CASE Branch BY <1>5, BranchStep
<1>6. CASE Jal BY <1>6, JalStep
<1>7. CASE Jalr BY <1>7, JalrStep
<1>8. CASE Load
  <2>1. mode = "user" /\ InText /\ Current.kind = "load"
    BY <1>8 DEF Load, Executing, Fetched
  <2>2. CASE TRAP("load", Address(Current, x)) BY <1>1, <2>1, <2>2
  <2>3. CASE ~TRAP("load", Address(Current, x))
    <3>1. /\ Quiet /\ pc' = next /\ UNCHANGED <<mem, own>>
          /\ Write(Current.rd, Loaded(Current, mem[WordAt(Address(Current, x))]))
      BY <1>8, <2>3 DEF Load
    <3> QED BY <2>1, <3>1, StaysQuiet, MemoryStep
  <2> QED BY <2>2, <2>3
<1>9. CASE Store
  <2>1. mode = "user" /\ InText /\ Current.kind = "store"
    BY <1>9 DEF Store, Executing, Fetched
  <2>2. CASE TRAP("store", Address(Current, x)) BY <1>1, <2>1, <2>2
  <2>3. CASE ~TRAP("store", Address(Current, x))
    <3> DEFINE w == WordAt(Address(Current, x))
    <3>1. /\ Quiet /\ pc' = next /\ UNCHANGED x
          /\ WriteWord(w, Stored(Current, mem[w], x[Current.rs2]))
      BY <1>9, <2>3 DEF Store
    <3> QED BY <2>1, <3>1, StaysQuiet, MemoryStep
  <2> QED BY <2>2, <2>3
<1>10. CASE AmoStep
  <2> DEFINE va == Address(Current, x) w == WordAt(va)
  <2>1. mode = "user" /\ InText /\ Current.kind = "amo"
    BY <1>10 DEF AmoStep, Executing, Fetched
  <2>2. CASE TRAP("load", va) \/ TRAP("store", va) BY <1>1, <2>1, <2>2
  <2>3. CASE ~(TRAP("load", va) \/ TRAP("store", va))
    <3>1. /\ Quiet /\ pc' = next
          /\ WriteWord(w, AmoResult(Current, mem[w], x[Current.rs2]))
          /\ Write(Current.rd, Loaded(Current, mem[w]))
      BY <1>10, <2>3 DEF AmoStep
    <3> QED BY <2>1, <3>1, StaysQuiet, MemoryStep
  <2> QED BY <2>2, <2>3
<1>11. CASE LoadReserved
  <2> DEFINE va == Address(Current, x) w == WordAt(va)
  <2>1. mode = "user" /\ InText /\ Current.kind = "lr"
    BY <1>11 DEF LoadReserved, Executing, Fetched
  <2>2. CASE TRAP("load", va) BY <1>1, <2>1, <2>2
  <2>3. CASE ~TRAP("load", va)
    <3>1. /\ Quiet /\ pc' = next /\ UNCHANGED mem
          /\ Write(Current.rd, Loaded(Current, mem[w]))
          /\ own' = [own EXCEPT ![cur] = w]
      BY <1>11, <2>3 DEF LoadReserved
    <3> QED BY <2>1, <3>1, StaysQuiet, MemoryStep
  <2> QED BY <2>2, <2>3
<1>12. CASE StoreConditional
  <2>1. mode = "user" /\ InText
    BY <1>12 DEF StoreConditional, Executing, Fetched
  <2>2. CASE TRAP("store", Address(Current, x)) BY <1>1, <2>1, <2>2
  <2>3. CASE ~TRAP("store", Address(Current, x))
    <3>1. mode' = "user" BY <1>12, <2>1, <2>3 DEF StoreConditional, Quiet
    <3> QED BY <1>12, <3>1, StoreConditionalStep
  <2> QED BY <2>2, <2>3
<1>13. CASE Ecall
  BY <1>1, <1>13 DEF Ecall, Executing, Fetched
<1>14. CASE Ebreak
  BY <1>1, <1>14 DEF Ebreak, Executing, Fetched
<1> QED BY <1>2, <1>3, <1>4, <1>5, <1>6, <1>7, <1>8, <1>9, <1>10, <1>11, <1>12,
           <1>13, <1>14 DEF CpuStep

\* The kernel moves a program from the hart to where it saves it and back; a
\* program only sees that a call is over.
LEMMA KernelIdeal ==
  ASSUME ExecInv, Kernel
  PROVE  Ideal!IdealStep(cur) \/ Stutter
<1>1. CASE Service
  <2> DEFINE i == Images[image].code[cur][sepc]
             back == IF scause \in Calls THEN U64(sepc + i.len) ELSE sepc
  <2>1. /\ mode = "entry" /\ mode' = "resume"
        /\ saved' = [saved EXCEPT ![cur] = [pc |-> back, x |-> x]]
        /\ UNCHANGED <<image, x, cur, mem, own>>
    BY <1>1 DEF Service, Calls
  <2>2. cur \in Threads /\ DOMAIN saved = Threads BY Shape
  <2>3. \A t \in Threads : PlaceOf(t)' = IF t = cur THEN back ELSE PlaceOf(t)
    BY <2>1, <2>2 DEF PlaceOf
  <2>4. \A t \in Threads : RegsOf(t)' = RegsOf(t)
    BY <2>1, <2>2 DEF RegsOf
  <2>5. Reg' = Reg BY <2>4 DEF Reg
  <2>6. PlaceOf(cur) = sepc BY <2>1 DEF PlaceOf
  <2>7. CASE scause \in Calls
    <3>1. Ideal!Now(cur) = i BY <2>2, <2>6 DEF Ideal!Now
    <3>2. i.kind \in Calls BY <2>1, <2>7, Shape
    <3>3. At' = [At EXCEPT ![cur] = U64(sepc + i.len)] BY <2>2, <2>3, <2>7 DEF At
    <3>4. Ideal!IdealCall(cur)
      BY <2>1, <2>2, <2>5, <2>6, <3>1, <3>2, <3>3
      DEF Ideal!IdealCall, Ideal!GoOn, Ideal!GoTo, At, Reg, Calls
    <3> QED BY <2>1, <3>4 DEF Ideal!IdealStep
  <2>8. CASE scause \notin Calls
    <3>1. \A t \in Threads : PlaceOf(t)' = PlaceOf(t) BY <2>3, <2>6, <2>8
    <3>2. At' = At BY <3>1 DEF At
    <3> QED BY <2>1, <2>5, <3>2 DEF Stutter
  <2> QED BY <2>7, <2>8
<1>2. CASE KernelLr
  BY <1>2 DEF KernelLr, kernelVars, csrs, Stutter, At, Reg, PlaceOf, RegsOf
<1>3. CASE Resume
  BY <1>3 DEF Resume, Stutter, At, Reg, PlaceOf, RegsOf
<1>4. CASE KernelSc
  BY <1>4 DEF KernelSc, EndReservation, kernelVars, csrs, Stutter, At, Reg, PlaceOf, RegsOf
<1>5. CASE Sret
  <2>1. /\ mode = "sret" /\ mode' = "user" /\ pc' = sepc
        /\ UNCHANGED <<image, x, mem, own, cur, saved>>
    BY <1>5 DEF Sret, kernelVars
  <2>2. x = saved[cur].x /\ sepc = saved[cur].pc BY <2>1, Shape
  <2> QED BY <2>1, <2>2 DEF Stutter, At, Reg, PlaceOf, RegsOf
<1> QED BY <1>1, <1>2, <1>3, <1>4, <1>5 DEF Kernel

LEMMA StutterIdeal ==
  ASSUME UNCHANGED vars PROVE Stutter
  BY DEF vars, csrs, kernelVars, Stutter, At, Reg, PlaceOf, RegsOf

-----------------------------------------------------------------------------
(* The invariant.                                                          *)

\* A trap keeps what is known of a trap that is being taken.
LEMMA TrapInv ==
  ASSUME ExecInv, mode = "user", NEW cause, NEW tval,
         TakeTrap(cause, tval, pc),
         cause \in Calls => Current.kind \in Calls,
         Typed'
  PROVE  ExecInv'
  BY DEF ExecInv, TakeTrap, Current, reservation, ReservationOwned, Calls

\* Instructions that leave the reservation alone.
LEMMA StaysInv ==
  ASSUME ExecInv, Quiet, mode = "user", UNCHANGED reservation, own'[cur] = own[cur],
         Typed'
  PROVE  ExecInv'
<1>1. UNCHANGED <<image, mode, cur, saved, reservation_addr, reservation_valid>>
  BY DEF Quiet, kernelVars, reservation
<1>2. ReservationOwned'
  BY <1>1 DEF ExecInv, ReservationOwned, WordAt
<1> QED BY <1>1, <1>2 DEF ExecInv

\* A write does nothing to the reservation of the thread that writes.
LEMMA OwnWritten ==
  ASSUME ExecInv, NEW w, NEW v, WriteWord(w, v)
  PROVE  own'[cur] = own[cur]
  BY Shape DEF WriteWord

LEMMA CpuStepInv ==
  ASSUME ExecInv, CpuStep \/ TimerInterrupt
  PROVE  ExecInv'
<1> DEFINE va == Address(Current, x)
           w == WordAt(va)
<1>1. Typed' BY CpuStepTyped, Shape
<1>2. ASSUME NEW cause, NEW tval, TRAP(cause, tval), mode = "user", InText,
             cause \in Calls => Current.kind \in Calls
      PROVE  ExecInv'
  BY <1>1, <1>2, TrapAtPc, TrapInv
<1>3. CASE FetchFault
  BY <1>1, <1>3, TrapInv DEF FetchFault, Calls
<1>4. CASE TimerInterrupt
  BY <1>1, <1>4, TrapInv DEF TimerInterrupt, Calls
<1>5. CASE Arithmetic
  BY <1>1, <1>5, StaysInv DEF Arithmetic, Executing, Fetched
<1>6. CASE Branch
  BY <1>1, <1>6, StaysInv DEF Branch, Executing, Fetched
<1>7. CASE Jal
  BY <1>1, <1>7, StaysInv DEF Jal, Executing, Fetched
<1>8. CASE Jalr
  BY <1>1, <1>8, StaysInv DEF Jalr, Executing, Fetched
<1>9. ASSUME Load \/ Store \/ AmoStep \/ LoadReserved \/ StoreConditional,
             TRAP("load", va) \/ TRAP("store", va)
      PROVE  ExecInv'
  <2>1. mode = "user" /\ InText
    BY <1>9 DEF Load, Store, AmoStep, LoadReserved, StoreConditional, Executing, Fetched
  <2>2. "load" \notin Calls /\ "store" \notin Calls BY DEF Calls
  <2> QED BY <1>2, <1>9, <2>1, <2>2
<1>10. CASE Load
  <2>1. mode = "user" BY <1>10 DEF Load, Executing, Fetched
  <2>2. CASE ~TRAP("load", va)
    <3>1. Quiet /\ UNCHANGED <<reservation, own>> BY <1>10, <2>2 DEF Load
    <3> QED BY <1>1, <2>1, <3>1, StaysInv
  <2> QED BY <1>9, <1>10, <2>2
<1>11. CASE Store
  <2>1. mode = "user" BY <1>11 DEF Store, Executing, Fetched
  <2>2. CASE ~TRAP("store", va)
    <3>1. /\ Quiet /\ UNCHANGED reservation
          /\ WriteWord(w, Stored(Current, mem[w], x[Current.rs2]))
      BY <1>11, <2>2 DEF Store
    <3> QED BY <1>1, <2>1, <3>1, StaysInv, OwnWritten
  <2> QED BY <1>9, <1>11, <2>2
<1>12. CASE AmoStep
  <2>1. mode = "user" BY <1>12 DEF AmoStep, Executing, Fetched
  <2>2. CASE ~(TRAP("load", va) \/ TRAP("store", va))
    <3>1. /\ Quiet /\ UNCHANGED reservation
          /\ WriteWord(w, AmoResult(Current, mem[w], x[Current.rs2]))
      BY <1>12, <2>2 DEF AmoStep
    <3> QED BY <1>1, <2>1, <3>1, StaysInv, OwnWritten
  <2> QED BY <1>9, <1>12, <2>2
<1>13. CASE LoadReserved
  <2>1. mode = "user" BY <1>13 DEF LoadReserved, Executing, Fetched
  <2>2. CASE ~TRAP("load", va)
    <3>1. /\ Quiet /\ reservation_addr' = va
          /\ own' = [own EXCEPT ![cur] = w]
      BY <1>13, <2>2 DEF LoadReserved
    <3>2. UNCHANGED <<image, mode, cur, saved>> BY <3>1 DEF Quiet, kernelVars
    <3>3. own'[cur] = w BY <3>1, Shape
    <3>4. ReservationOwned' BY <3>1, <3>2, <3>3 DEF ReservationOwned, WordAt
    <3> QED BY <1>1, <2>1, <3>2, <3>4 DEF ExecInv
  <2> QED BY <1>9, <1>13, <2>2
<1>14. CASE StoreConditional
  <2>1. mode = "user" BY <1>14 DEF StoreConditional, Executing, Fetched
  <2>2. CASE ~TRAP("store", va)
    <3>1. Quiet /\ reservation_valid' = FALSE
      BY <1>14, <2>2 DEF StoreConditional, EndReservation
    <3>2. UNCHANGED <<image, mode, cur, saved>> BY <3>1 DEF Quiet, kernelVars
    <3>3. ReservationOwned' BY <3>1 DEF ReservationOwned
    <3> QED BY <1>1, <2>1, <3>1, <3>2, <3>3 DEF ExecInv
  <2> QED BY <1>9, <1>14, <2>2
<1>15. CASE Ecall
  BY <1>2, <1>15 DEF Ecall, Executing, Fetched, Calls
<1>16. CASE Ebreak
  BY <1>2, <1>16 DEF Ebreak, Executing, Fetched, Calls
<1> QED BY <1>3, <1>4, <1>5, <1>6, <1>7, <1>8, <1>10, <1>11, <1>12, <1>13, <1>14,
           <1>15, <1>16 DEF CpuStep

LEMMA KernelInv ==
  ASSUME ExecInv, Kernel
  PROVE  ExecInv'
<1>1. Typed' BY KernelTyped, Shape
<1>2. CASE Service
  <2>1. mode' = "resume" BY <1>2 DEF Service
  <2> QED BY <1>1, <2>1 DEF ExecInv, ReservationOwned
<1>3. CASE KernelLr
  <2>1. mode' = "resume" BY <1>3 DEF KernelLr
  <2> QED BY <1>1, <2>1 DEF ExecInv, ReservationOwned
<1>4. CASE Resume
  <2>1. /\ mode' = "return" /\ x' = saved[cur'].x /\ sepc' = saved[cur'].pc
        /\ UNCHANGED saved
    BY <1>4 DEF Resume
  <2> QED BY <1>1, <2>1 DEF ExecInv, ReservationOwned
<1>5. CASE KernelSc
  <2>1. /\ mode = "return" /\ mode' = "sret" /\ reservation_valid' = FALSE
        /\ UNCHANGED <<x, sepc, cur, saved>>
    BY <1>5 DEF KernelSc, EndReservation, kernelVars, csrs
  <2> QED BY <1>1, <2>1 DEF ExecInv, ReservationOwned
<1>6. CASE Sret
  <2>1. mode = "sret" /\ mode' = "user" /\ UNCHANGED reservation_valid
    BY <1>6 DEF Sret, reservation
  <2> QED BY <1>1, <2>1 DEF ExecInv, ReservationOwned
<1> QED BY <1>2, <1>3, <1>4, <1>5, <1>6 DEF Kernel

LEMMA StutterInv ==
  ASSUME ExecInv, UNCHANGED vars PROVE ExecInv'
<1>1. UNCHANGED <<image, x, mode, cur, saved, own, scause, sepc,
                  reservation_addr, reservation_valid>>
  BY DEF vars, csrs, kernelVars, reservation
<1>2. ReservationOwned' BY <1>1 DEF ExecInv, ReservationOwned, WordAt
<1>3. Typed' BY StutterTyped, Shape
<1> QED BY <1>1, <1>2, <1>3 DEF ExecInv

LEMMA InitInv ==
  ASSUME ExecInit PROVE ExecInv
<1>1. Typed BY InitTyped
<1> QED BY <1>1 DEF ExecInit, ExecInv, ReservationOwned

-----------------------------------------------------------------------------
(* Theorems.                                                               *)

LEMMA Invariance == ExecSpec => []ExecInv
<1>1. ExecInit => ExecInv BY InitInv
<1>2. ExecInv /\ [ExecNext]_vars => ExecInv'
  BY CpuStepInv, KernelInv, StutterInv DEF ExecNext
<1> QED BY <1>1, <1>2, PTL DEF ExecSpec

\* A program never runs with a reservation that it has not made or that another
\* has broken: the SC that the kernel executes before each return is enough,
\* whatever the traps and the SCs that fault leave behind (execute.c).
THEOREM Reservations == ExecSpec => []ReservationOwned
<1>1. ExecInv => ReservationOwned BY DEF ExecInv
<1> QED BY <1>1, Invariance, PTL

LEMMA InitIdeal ==
  ASSUME ExecInit PROVE Ideal!IdealInit
<1>1. \A t \in Threads : PlaceOf(t) = 0 /\ RegsOf(t) = Images[image].regs[t]
  BY DEF ExecInit, PlaceOf, RegsOf
<1>2. \A t \in Threads : Images[image].regs[t] \in RegFile
  BY ImagesAssumption DEF ExecInit
<1>3. mem \in [Words -> Values] BY ImagesAssumption DEF ExecInit
<1>4. [t \in Threads |-> RegsOf(t)] \in [Threads -> RegFile] BY <1>1, <1>2
<1>5. [t \in Threads |-> PlaceOf(t)] \in [Threads -> Values] BY <1>1, SmallValues
<1> QED BY <1>3, <1>4, <1>5 DEF Ideal!IdealInit, ExecInit

\* The programs cannot tell the hart, its traps half way through instructions
\* and its interrupts (cpu_step, TRAP and TRAP_C) from harts that never trap.
THEOREM Refinement == ExecSpec => ImplementsIdeal
<1>1. ExecInit => Ideal!IdealInit BY InitIdeal
<1>2. ExecInv /\ [ExecNext]_vars => [Ideal!IdealNext]_(Ideal!idealVars)
  <2> SUFFICES ASSUME ExecInv, [ExecNext]_vars
               PROVE  [Ideal!IdealNext]_(Ideal!idealVars)
    OBVIOUS
  <2>1. Ideal!IdealStep(cur) \/ Stutter
    BY CpuStepIdeal, KernelIdeal, StutterIdeal DEF ExecNext
  <2>2. cur \in Threads BY Shape
  <2> QED BY <2>1, <2>2 DEF Ideal!IdealNext, Ideal!idealVars, Stutter, At, Reg
<1> QED BY <1>1, <1>2, Invariance, PTL DEF ExecSpec, ImplementsIdeal, Ideal!IdealSpec

=============================================================================
