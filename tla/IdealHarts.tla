----------------------------- MODULE IdealHarts -----------------------------
(***************************************************************************)
(* What a program may rely on: each thread has a hart of its own, which    *)
(* executes one whole instruction at a time and never traps.  The harts    *)
(* share memory.  A store-conditional may fail at any time; it succeeds    *)
(* only if its hart still has the reservation of the word, which every     *)
(* write by another hart takes away.                                       *)
(*                                                                         *)
(* What one instruction computes is a parameter; Isa gives it.             *)
(***************************************************************************)
EXTENDS Integers

CONSTANTS
  RegFile, Values,
  U64(_),                \* a number as a register holds it
  Compute(_, _, _, _),   \* width, operation, two operands
  Taken(_, _, _),        \* condition, two operands
  Address(_, _),         \* instruction, registers
  Loaded(_, _),          \* instruction, word read
  Stored(_, _, _),       \* instruction, word before, register
  AmoResult(_, _, _)

CONSTANTS
  Threads,
  Words,     \* doublewords of memory
  NoWord,
  Images     \* for each name: code, the program of each thread, and map, the
             \* word behind each of its data addresses

VARIABLES
  image,     \* which of the Images is loaded
  at, reg,   \* place and registers of each thread
  mem,
  own        \* the word each thread has reserved

idealVars == <<image, at, reg, mem, own>>

WordOf(t, va) == Images[image].map[t][va]

\* The next instruction of thread t.
Now(t) == Images[image].code[t][at[t]]

\* Thread t goes on at a place, with v in register rd; x0 stays 0.
Set(t, rd, v) ==
  reg' = [reg EXCEPT ![t] = [@ EXCEPT ![rd] = IF rd = 0 THEN 0 ELSE v]]

GoTo(t, place) == at' = [at EXCEPT ![t] = place]

GoOn(t) == GoTo(t, U64(at[t] + Now(t).len))

\* Thread t writes a word: the reservations of the others are gone.
Put(t, w, v) ==
  /\ mem' = [mem EXCEPT ![w] = v]
  /\ own' = [u \in Threads |-> IF u # t /\ own[u] = w THEN NoWord ELSE own[u]]

IdealCompute(t) ==
  LET i == Now(t) r == reg[t]
  IN /\ \/ i.kind = "op"    /\ Set(t, i.rd, Compute(i.width, i.fn, r[i.rs1], r[i.rs2]))
        \/ i.kind = "imm"   /\ Set(t, i.rd, Compute(i.width, i.fn, r[i.rs1], U64(i.imm)))
        \/ i.kind = "lui"   /\ Set(t, i.rd, U64(i.imm))
        \/ i.kind = "auipc" /\ Set(t, i.rd, U64(at[t] + i.imm))
     /\ GoOn(t)
     /\ UNCHANGED <<mem, own>>

IdealJump(t) ==
  LET i == Now(t) r == reg[t]
  IN /\ \/ /\ i.kind = "branch"
           /\ GoTo(t, U64(at[t] + IF Taken(i.fn, r[i.rs1], r[i.rs2]) THEN i.imm ELSE i.len))
           /\ UNCHANGED reg
        \/ /\ i.kind = "jal"
           /\ GoTo(t, U64(at[t] + i.imm))
           /\ Set(t, i.rd, U64(at[t] + i.len))
        \/ /\ i.kind = "jalr"
           /\ GoTo(t, 2 * (Address(i, r) \div 2))
           /\ Set(t, i.rd, U64(at[t] + i.len))
     /\ UNCHANGED <<mem, own>>

IdealMemory(t) ==
  LET i == Now(t)
      w == WordOf(t, Address(i, reg[t]))
  IN /\ GoOn(t)
     /\ \/ /\ i.kind = "load"
           /\ Set(t, i.rd, Loaded(i, mem[w]))
           /\ UNCHANGED <<mem, own>>
        \/ /\ i.kind = "store"
           /\ Put(t, w, Stored(i, mem[w], reg[t][i.rs2]))
           /\ UNCHANGED reg
        \/ /\ i.kind = "amo"
           /\ Put(t, w, AmoResult(i, mem[w], reg[t][i.rs2]))
           /\ Set(t, i.rd, Loaded(i, mem[w]))
        \/ /\ i.kind = "lr"
           /\ Set(t, i.rd, Loaded(i, mem[w]))
           /\ own' = [own EXCEPT ![t] = w]
           /\ UNCHANGED mem

IdealScSucceeds(t) ==
  LET i == Now(t)
      w == WordOf(t, Address(i, reg[t]))
  IN /\ i.kind = "sc"
     /\ own[t] = w
     /\ mem' = [mem EXCEPT ![w] = Stored(i, @, reg[t][i.rs2])]
     /\ own' = [u \in Threads |-> IF own[u] = w THEN NoWord ELSE own[u]]
     /\ Set(t, i.rd, 0)
     /\ GoOn(t)

IdealScFails(t) ==
  /\ Now(t).kind = "sc"
  /\ own' = [own EXCEPT ![t] = NoWord]
  /\ Set(t, Now(t).rd, 1)
  /\ GoOn(t)
  /\ UNCHANGED mem

\* A call of the system, or of the debugger, that changes nothing here.
IdealCall(t) ==
  /\ Now(t).kind \in {"ecall", "ebreak"}
  /\ GoOn(t)
  /\ UNCHANGED <<reg, mem, own>>

IdealStep(t) ==
  /\ \/ IdealCompute(t) \/ IdealJump(t) \/ IdealMemory(t)
     \/ IdealScSucceeds(t) \/ IdealScFails(t)
     \/ IdealCall(t)
  /\ UNCHANGED image

IdealNext == \E t \in Threads : IdealStep(t)

IdealInit ==
  /\ reg \in [Threads -> RegFile]
  /\ at \in [Threads -> Values]
  /\ mem \in [Words -> Values]
  /\ own = [t \in Threads |-> NoWord]

IdealSpec == IdealInit /\ [][IdealNext]_idealVars

=============================================================================
