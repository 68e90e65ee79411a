-------------------------------- MODULE Isa --------------------------------
(***************************************************************************)
(* Instructions as the two executors of the emulator tell them apart       *)
(* (cpu_execute and cpu_execute_compressed): a record with the kind, the   *)
(* operation (fn), the width of data ("d" or "w"), the length in bytes,    *)
(* registers and the immediate.  An instruction of 2 bytes is its 4-byte   *)
(* equivalent with another length, which is how compressed.c treats it.    *)
(*                                                                         *)
(* A program is a function from the addresses of its instructions.  Memory *)
(* is seen by doublewords; an access of width "w" is to the low half.      *)
(***************************************************************************)
EXTENDS Alu

Regs == 0..5

RegFile == [Regs -> Values]

\* What a program is made of: an operation that exists at its width, and
\* numbers that an encoding can hold.
IsInstruction(i) ==
  /\ i.len \in {2, 4} /\ i.width \in {"d", "w"}
  /\ i.rd \in Regs /\ i.rs1 \in Regs /\ i.rs2 \in Regs /\ i.imm \in Int
  /\ i.kind = "auipc" => i.len = 4
  /\ i.kind = "amo" => i.fn \in AmoOps
  /\ i.kind \in {"op", "imm"} =>
       i.fn \in IF i.width = "d" THEN BaseOps \cup MulDivOps
                ELSE BaseOps32 \cup MulDivOps32

\* The conditions of BEQ, BNE, BLT, BGE, BLTU, BGEU; C.BEQZ and C.BNEZ
\* compare with x0.
Taken(fn, a, b) ==
  CASE fn = "eq"  -> a = b
    [] fn = "ne"  -> a # b
    [] fn = "lt"  -> I64(a) < I64(b)
    [] fn = "ge"  -> I64(a) >= I64(b)
    [] fn = "ltu" -> a < b
    [] fn = "geu" -> a >= b

\* The effective address of loads and stores; AMO, LR and SC have no
\* immediate.
Address(i, regs) == U64(regs[i.rs1] + i.imm)

\* What a load puts into its register, and what a store leaves in memory.
Loaded(i, stored) ==
  IF i.width = "d" THEN stored
  ELSE IF i.fn = "unsigned" THEN U32(stored) ELSE SextW(stored)

Stored(i, stored, value) ==
  IF i.width = "d" THEN value ELSE (stored - U32(stored)) + U32(value)

\* (i64) or (i32), of the operands of an AMO.
Operand(i, n) == IF i.width = "d" THEN I64(n) ELSE I32(n)

AmoResult(i, stored, s) ==
  Stored(i, stored, U64(Amo(i.fn, Operand(i, stored), Operand(i, s))))

=============================================================================
