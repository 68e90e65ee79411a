------------------------------- MODULE MCExec -------------------------------
(***************************************************************************)
(* Programs for Exec, with registers of 8 bits and pages of 8 bytes.       *)
(* Register 4 points to the shared word at 64; 72 is a word that only p1   *)
(* uses and 80 one that only p2 uses, except where the image says so.      *)
(*                                                                         *)
(*   count   LR and SC add to the shared word; nothing is mapped at first  *)
(*   update  AMOs, loads and stores of both widths; nothing is mapped      *)
(*   alias   one address means another word in each thread, and two        *)
(*           addresses of the same thread mean the same word               *)
(*   jump    jumps, links, branches, a breakpoint                          *)
(*   alu, alu32, amo  every operation on a pair of operands                *)
(***************************************************************************)
EXTENDS Exec, Sequences, TLC

CONSTANTS p1, p2, w1, w2, w3

MCThreads == {p1, p2}
MCWords == {w1, w2, w3}

I(kind, fn, width, len, rd, rs1, rs2, imm) ==
  [kind |-> kind, fn |-> fn, width |-> width, len |-> len,
   rd |-> rd, rs1 |-> rs1, rs2 |-> rs2, imm |-> imm]

Op(fn, width, rd, rs1, rs2)  == I("op", fn, width, 4, rd, rs1, rs2, 0)
Imm(fn, width, rd, rs1, imm) == I("imm", fn, width, 4, rd, rs1, 0, imm)
Ld(fn, width, rd, imm)  == I("load", fn, width, 4, rd, 4, 0, imm)
St(width, rs2, imm)     == I("store", "", width, 4, 0, 4, rs2, imm)
AmoOp(fn, width, rd)    == I("amo", fn, width, 4, rd, 4, 2, 0)
Lr(width)               == I("lr", "", width, 4, 1, 4, 0, 0)
Sc(width)               == I("sc", "", width, 4, 3, 4, 1, 0)
Br(fn, rs1, rs2, imm)   == I("branch", fn, "d", 4, 0, rs1, rs2, imm)
J(rd, imm)              == I("jal", "", "d", 4, rd, 0, 0, imm)
Jr(rd, rs1, imm)        == I("jalr", "", "d", 4, rd, rs1, 0, imm)
EcallI                  == I("ecall", "", "d", 4, 0, 0, 0, 0)

\* The compressed form.
C(i) == [i EXCEPT !.len = 2]

\* TLC keeps the values of a function that @@ made.
Kept(f) == f @@ <<>>

\* A program from its instructions, one after the other, and at its end a
\* loop of system calls.
Layout(seq) ==
  LET whole == seq \o <<EcallI, C(J(0, -4))>>
      startOf[k \in 1..Len(whole)] ==
        IF k = 1 THEN 0 ELSE startOf[k - 1] + whole[k - 1].len
      starts == Kept(startOf)
  IN [code |-> Kept([a \in {starts[k] : k \in 1..Len(whole)} |->
                       whole[CHOOSE k \in 1..Len(whole) : starts[k] = a]]),
      end |-> starts[Len(seq) + 1]]

Idle == <<>>

ZeroRegs == [r \in Regs |-> IF r = 4 THEN 64 ELSE 0]

PagesOf(code, data) ==
  {<<t, p, "exec">> : t \in MCThreads, p \in code}
    \cup {<<t, p, a>> : t \in MCThreads, p \in data, a \in {"load", "store"}}

Everything == PagesOf(0..15, 8..10)
Few == PagesOf(0..3, 8..9)

\* p1 and p2 run the two sequences.
Image(s1, s2, regs, initial, grantedAtFirst, maxTicks, maps) ==
  LET layout == Kept([t \in MCThreads |-> Layout(IF t = p1 THEN s1 ELSE s2)])
  IN [code |-> Kept([t \in MCThreads |-> layout[t].code]),
      end |-> Kept([t \in MCThreads |-> layout[t].end]),
      map |-> maps, regs |-> regs, mem |-> initial,
      granted |-> grantedAtFirst, ticks |-> maxTicks]

MapOf(one, two, three) ==
  [va \in Values |-> IF va = 64 THEN one ELSE IF va = 72 THEN two ELSE three]

Shared == [t \in MCThreads |-> MapOf(w1, w2, w3)]
Aliased == [t \in MCThreads |-> IF t = p1 THEN MapOf(w1, w1, w2) ELSE MapOf(w2, w1, w3)]

Zeros == [w \in MCWords |-> 0]
AllRegs(regs) == [t \in MCThreads |-> regs]

\* SC is at 6, across a page; so is the call that ends the program, at 14.
Count == <<Lr("d"), C(Imm("add", "d", 1, 1, 1)), Sc("d"), C(Br("ne", 3, 0, -10)),
           C(Imm("add", "w", 5, 5, 1))>>

Update == <<Imm("add", "d", 2, 0, 3), C(AmoOp("add", "d", 1)), C(St("w", 2, 8)),
            AmoOp("swap", "w", 0), Ld("signed", "w", 5, 0), C(St("d", 1, 0))>>

Alias1 == <<Lr("d"), C(Imm("add", "d", 1, 1, 1)), St("d", 2, 8), Sc("d")>>
Alias2 == <<Lr("w"), Sc("w"), C(Ld("unsigned", "w", 5, 8))>>

Jumps == <<C(J(0, 4)), C(J(0, 14)),
           I("auipc", "", "d", 4, 1, 0, 0, 16),
           I("lui", "", "d", 4, 2, 0, 0, -16),
           C(I("ebreak", "", "d", 2, 0, 0, 0, 0)),
           C(J(0, -12)),
           Imm("add", "d", 3, 0, 29),
           Jr(3, 3, 0),
           Br("geu", 2, 1, 8),
           Br("lt", 1, 2, 4),
           Br("eq", 0, 0, 4),
           I("ebreak", "", "d", 4, 0, 0, 0, 0),
           Br("ltu", 2, 1, 4), C(Br("ge", 1, 2, 2))>>

OpsOf(fns, width) == [k \in DOMAIN fns |-> Op(fns[k], width, 3, 1, 2)]
ImmsOf(fns, width, imm) == [k \in DOMAIN fns |-> Imm(fns[k], width, 3, 1, imm)]

\* Before each AMO the word gets the first operand.
AmosOf(fns, width) ==
  [k \in 1..2 * Len(fns) |->
     IF k % 2 = 1 THEN C(St("d", 1, 0)) ELSE AmoOp(fns[k \div 2], width, 3)]

BaseSeq   == <<"add", "sub", "sll", "slt", "sltu", "xor", "srl", "sra", "or", "and">>
MulDivSeq == <<"mul", "mulh", "mulhsu", "mulhu", "div", "divu", "rem", "remu">>
Seq32     == <<"add", "sub", "sll", "srl", "sra", "mul", "div", "divu", "rem", "remu">>
ImmSeq    == <<"add", "sll", "slt", "sltu", "xor", "srl", "sra", "or", "and">>
ImmSeq32  == <<"add", "sll", "srl", "sra">>
AmoSeq    == <<"swap", "add", "xor", "or", "and", "min", "max", "minu", "maxu">>

Operands == {0, 1, 2, 7, 8, 15, 127, 128, 248, 255}

MCImageNames ==
  {<<name, 0, 0>> : name \in {"count", "update", "alias", "jump"}}
    \cup ({"alu", "alu32", "amo"} \X Operands \X Operands)

OperandRegs(a, b) == AllRegs([ZeroRegs EXCEPT ![1] = a, ![2] = b])

ImageOf(n) ==
  CASE n[1] = "count"  -> Image(Count, Count, AllRegs(ZeroRegs), Zeros, {}, 1, Shared)
    [] n[1] = "update" -> Image(Update, Update, AllRegs(ZeroRegs), Zeros, {}, 1, Shared)
    [] n[1] = "alias"  -> Image(Alias1, Alias2, AllRegs(ZeroRegs),
                                [w \in MCWords |-> IF w = w2 THEN 200 ELSE 0],
                                Few, 2, Aliased)
    [] n[1] = "jump"   -> Image(Jumps, Idle, AllRegs(ZeroRegs), Zeros, PagesOf(0..7, {}), 1, Shared)
    [] n[1] = "alu"    -> Image(OpsOf(BaseSeq \o MulDivSeq, "d"), Idle,
                                OperandRegs(n[2], n[3]), Zeros, Everything, 0, Shared)
    [] n[1] = "alu32"  -> Image(OpsOf(Seq32, "w") \o ImmsOf(ImmSeq, "d", n[3] - 128)
                                  \o ImmsOf(ImmSeq32, "w", n[3] - 128), Idle,
                                OperandRegs(n[2], n[3]), Zeros, Everything, 0, Shared)
    [] n[1] = "amo"    -> Image(AmosOf(AmoSeq, "d") \o AmosOf(AmoSeq, "w"), Idle,
                                OperandRegs(n[2], n[3]), Zeros, Everything, 0, Shared)

AllImages == Kept([n \in MCImageNames |-> ImageOf(n)])

MCImages == AllImages

=============================================================================
