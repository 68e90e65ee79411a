-------------------------------- MODULE Alu --------------------------------
(***************************************************************************)
(* Integer arithmetic of the instructions (execute.c, compressed.c), as    *)
(* operators on register values: numbers of XLEN bits, with C's casts      *)
(* between them and the numbers of half that width (u32, i32).             *)
(*                                                                         *)
(* What wraps is written with the casts of the code, and where C leaves an *)
(* overflow of a signed sum or product undefined the build wraps.          *)
(***************************************************************************)
EXTENDS Integers

CONSTANT XLEN  \* 64 in the code

Pow2[n \in Nat] == IF n = 0 THEN 1 ELSE 2 * Pow2[n - 1]

\* The width is itself a power of two, so that what counts a shift, the last
\* bits of a register, does not depend on how many bits it has.
ASSUME AluAssumption == XLEN \in Nat /\ XLEN >= 2 /\ \E k \in 1..XLEN : XLEN = Pow2[k]

WORD == XLEN \div 2

Values == 0..(Pow2[XLEN] - 1)

\* (i32) and (i64).
Signed(n, width) ==
  LET u == n % Pow2[width] IN IF u < Pow2[width - 1] THEN u ELSE u - Pow2[width]

I32(n) == Signed(n, WORD)
I64(n) == Signed(n, XLEN)

\* (u32) and (u64); the second is also what an assignment to x[rd] does.
U32(n) == n % Pow2[WORD]
U64(n) == n % Pow2[XLEN]

\* (i64)(i32), the sign extension of results of 32 bits.
SextW(n) == U64(I32(n))

\* C's / and % round towards zero.
Abs(n) == IF n < 0 THEN -n ELSE n

\* Slip: rounding goes towards minus infinity.
Quotient_Floors(a, b) ==
  IF (a < 0) = (b < 0) THEN Abs(a) \div Abs(b)
  ELSE -((Abs(a) + Abs(b) - 1) \div Abs(b))

Quotient(a, b) ==
  LET q == Abs(a) \div Abs(b) IN IF (a < 0) = (b < 0) THEN q ELSE -q

Remainder(a, b) == a - b * Quotient(a, b)

MinOf(width) == -(Pow2[width - 1])

\* Bitwise operators, from the places of the bits that are 1.
Places == 0..(XLEN - 1)

Bit(n, i) == (n \div Pow2[i]) % 2

FromBits(places) ==
  LET below[k \in 0..XLEN] ==
        IF k = 0 THEN 0
        ELSE below[k - 1] + IF k - 1 \in places THEN Pow2[k - 1] ELSE 0
  IN below[XLEN]

And(a, b) == FromBits({i \in Places : Bit(a, i) = 1 /\ Bit(b, i) = 1})
Or(a, b)  == FromBits({i \in Places : Bit(a, i) = 1 \/ Bit(b, i) = 1})
Xor(a, b) == FromBits({i \in Places : Bit(a, i) # Bit(b, i)})

Flag(condition) == IF condition THEN 1 ELSE 0

-----------------------------------------------------------------------------
(* OP and OP-IMM, without and with the M extension.                        *)

BaseOps == {"add", "sub", "sll", "slt", "sltu", "xor", "srl", "sra", "or", "and"}

Base(fn, a, b) ==
  CASE fn = "add"  -> U64(a + b)
    [] fn = "sub"  -> U64(a - b)
    [] fn = "sll"  -> U64(a * Pow2[b % XLEN])
    [] fn = "slt"  -> Flag(I64(a) < I64(b))
    [] fn = "sltu" -> Flag(a < b)
    [] fn = "xor"  -> Xor(a, b)
    [] fn = "srl"  -> a \div Pow2[b % XLEN]
    [] fn = "sra"  -> U64(I64(a) \div Pow2[b % XLEN])
    [] fn = "or"   -> Or(a, b)
    [] fn = "and"  -> And(a, b)

\* __int128: a product of twice the width, wherever it is unsigned.
Product(a, b) == (a * b) % Pow2[2 * XLEN]

MulDivOps == {"mul", "mulh", "mulhsu", "mulhu", "div", "divu", "rem", "remu"}

MulDiv(fn, a, b) ==
  CASE fn = "mul"    -> U64(a * b)
    [] fn = "mulh"   -> Product(I64(a), I64(b)) \div Pow2[XLEN]
    [] fn = "mulhsu" -> Product(I64(a), b) \div Pow2[XLEN]
    [] fn = "mulhu"  -> Product(a, b) \div Pow2[XLEN]
    [] fn = "div"    -> IF b = 0 THEN U64(-1)
                        ELSE IF I64(a) = MinOf(XLEN) /\ I64(b) = -1 THEN a
                        ELSE U64(Quotient(I64(a), I64(b)))
    [] fn = "divu"   -> IF b = 0 THEN U64(-1) ELSE a \div b
    [] fn = "rem"    -> IF b = 0 THEN a
                        ELSE IF I64(a) = MinOf(XLEN) /\ I64(b) = -1 THEN 0
                        ELSE U64(Remainder(I64(a), I64(b)))
    [] fn = "remu"   -> IF b = 0 THEN a ELSE a % b

-----------------------------------------------------------------------------
(* OP-32 and OP-IMM-32.                                                    *)

BaseOps32 == {"add", "sub", "sll", "srl", "sra"}

Base32(fn, a, b) ==
  CASE fn = "add" -> SextW(U32(a) + U32(b))
    [] fn = "sub" -> SextW(U32(a) - U32(b))
    [] fn = "sll" -> SextW(U32(a) * Pow2[b % WORD])
    [] fn = "srl" -> SextW(U32(a) \div Pow2[b % WORD])
    [] fn = "sra" -> SextW(I32(a) \div Pow2[b % WORD])

MulDivOps32 == {"mul", "div", "divu", "rem", "remu"}

MulDiv32(fn, a, b) ==
  CASE fn = "mul"  -> SextW(I32(a) * I32(b))
    [] fn = "div"  -> IF I32(b) = 0 THEN U64(-1)
                      ELSE IF I32(a) = MinOf(WORD) /\ I32(b) = -1 THEN SextW(a)
                      ELSE SextW(Quotient(I32(a), I32(b)))
    [] fn = "divu" -> IF U32(b) = 0 THEN U64(-1) ELSE SextW(U32(a) \div U32(b))
    [] fn = "rem"  -> IF I32(b) = 0 THEN SextW(a)
                      ELSE IF I32(a) = MinOf(WORD) /\ I32(b) = -1 THEN 0
                      ELSE SextW(Remainder(I32(a), I32(b)))
    [] fn = "remu" -> IF U32(b) = 0 THEN SextW(a) ELSE SextW(U32(a) % U32(b))

\* x[rd] of a computation on two registers, or on one and the immediate.
Compute(width, fn, a, b) ==
  IF width = "d"
  THEN IF fn \in BaseOps THEN Base(fn, a, b) ELSE MulDiv(fn, a, b)
  ELSE IF fn \in BaseOps32 THEN Base32(fn, a, b) ELSE MulDiv32(fn, a, b)

-----------------------------------------------------------------------------
(* AMO: what is written back, from what was read (t) and x[rs2] (s), both  *)
(* already converted to the width.                                         *)

AmoOps == {"swap", "add", "xor", "or", "and", "min", "max", "minu", "maxu"}

Amo(fn, t, s) ==
  CASE fn = "swap" -> s
    [] fn = "add"  -> t + s
    [] fn = "xor"  -> Xor(U64(t), U64(s))
    [] fn = "or"   -> Or(U64(t), U64(s))
    [] fn = "and"  -> And(U64(t), U64(s))
    [] fn = "min"  -> IF t < s THEN t ELSE s
    [] fn = "max"  -> IF t > s THEN t ELSE s
    [] fn = "minu" -> IF U64(t) < U64(s) THEN t ELSE s
    [] fn = "maxu" -> IF U64(t) > U64(s) THEN t ELSE s

=============================================================================
