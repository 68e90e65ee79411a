----------------------------- MODULE AluMeaning -----------------------------
(***************************************************************************)
(* What the results of arithmetic mean, said without computing them: a     *)
(* relation between operands and result that the instruction set fixes and *)
(* that no cast or shift of the code appears in.  The numbers a, b and r   *)
(* are of w bits.                                                          *)
(***************************************************************************)
EXTENDS Alu

TwosComplement(n, w) == IF Bit(n, w - 1) = 1 THEN n - Pow2[w] ELSE n

Magnitude(n) == IF n < 0 THEN -n ELSE n

Congruent(m, n, w) == (m - n) % Pow2[w] = 0

\* r is all of n but its last w bits.
IsHighPart(r, n, w) == r * Pow2[w] <= n /\ n < (r + 1) * Pow2[w]

\* q and m are quotient and remainder with the sign of the dividend.
Divides(n, d, q, m) ==
  /\ n = q * d + m
  /\ Magnitude(m) < Magnitude(d)
  /\ m # 0 => (m < 0 <=> n < 0)

IsResult(fn, w, a, b, r) ==
  LET sa == TwosComplement(a, w)
      sb == TwosComplement(b, w)
      sr == TwosComplement(r, w)
      most == Pow2[w - 1]
      by == b % w
      BitsAre(P(_)) == \A i \in 0..(w - 1) : (Bit(r, i) = 1) = P(i)
  IN CASE fn = "add"  -> Congruent(r, a + b, w)
       [] fn = "sub"  -> Congruent(r + b, a, w)
       [] fn = "mul"  -> Congruent(r, a * b, w)
       [] fn = "slt"  -> r = (IF sa < sb THEN 1 ELSE 0)
       [] fn = "sltu" -> r = (IF a < b THEN 1 ELSE 0)
       [] fn = "xor"  -> BitsAre(LAMBDA i : Bit(a, i) + Bit(b, i) = 1)
       [] fn = "or"   -> BitsAre(LAMBDA i : Bit(a, i) + Bit(b, i) > 0)
       [] fn = "and"  -> BitsAre(LAMBDA i : Bit(a, i) + Bit(b, i) = 2)
       [] fn = "sll"  -> BitsAre(LAMBDA i : i >= by /\ Bit(a, i - by) = 1)
       [] fn = "srl"  -> BitsAre(LAMBDA i : i + by < w /\ Bit(a, i + by) = 1)
       [] fn = "sra"  -> BitsAre(LAMBDA i : IF i + by < w THEN Bit(a, i + by) = 1 ELSE sa < 0)
       [] fn = "mulh"   -> IsHighPart(sr, sa * sb, w)
       [] fn = "mulhsu" -> IsHighPart(sr, sa * b, w)
       [] fn = "mulhu"  -> IsHighPart(r, a * b, w)
       [] fn = "div"  -> \/ b = 0 /\ sr = -1
                         \/ sa = -most /\ sb = -1 /\ sr = -most
                         \/ b # 0 /\ Divides(sa, sb, sr, sa - sr * sb)
       [] fn = "divu" -> \/ b = 0 /\ sr = -1
                         \/ b # 0 /\ Divides(a, b, r, a - r * b)
       [] fn = "rem"  -> \/ b = 0 /\ r = a
                         \/ b # 0 /\ \E q \in -most..most : Divides(sa, sb, q, sr)
       [] fn = "remu" -> \/ b = 0 /\ r = a
                         \/ b # 0 /\ \E q \in 0..a : Divides(a, b, q, r)

\* What an AMO leaves in memory, from what was there and the register.
IsAmoResult(fn, w, a, b, r) ==
  CASE fn = "swap" -> r = b
    [] fn \in {"add", "xor", "or", "and"} -> IsResult(fn, w, a, b, r)
    [] fn \in {"min", "max", "minu", "maxu"} ->
         LET Value(n) == IF fn \in {"min", "max"} THEN TwosComplement(n, w) ELSE n
         IN /\ r \in {a, b}
            /\ IF fn \in {"min", "minu"}
               THEN Value(r) <= Value(a) /\ Value(r) <= Value(b)
               ELSE Value(r) >= Value(a) /\ Value(r) >= Value(b)

\* The last w bits, and the rest, of a register.
LowOf(n, w) == n % Pow2[w]
IsSignExtended(n, w) == LowOf(TwosComplement(LowOf(n, w), w), XLEN) = n

=============================================================================
