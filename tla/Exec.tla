-------------------------------- MODULE Exec --------------------------------
(***************************************************************************)
(* The hart executing programs (cpu_step in cpu.c, execute.c,              *)
(* compressed.c): the program counter, which is moved past an instruction  *)
(* before the instruction is executed and moved back when it traps, the    *)
(* registers, the accesses that may fault half way through an instruction, *)
(* and the reservation of LR and SC, which is one virtual address for the  *)
(* whole hart.                                                             *)
(*                                                                         *)
(* The programs are threads of a guest whose kernel is not in the          *)
(* repository.  It is the usual one: it maps the page that stval names,    *)
(* skips system calls, switches threads, and, as none of the traps and     *)
(* returns of the hart touches the reservation, ends it with an SC of its  *)
(* own before each return.  Caches of translations are the matter of Mmu;  *)
(* here a page either grants an access or faults.                          *)
(***************************************************************************)
EXTENDS Isa, AluMeaning

CONSTANTS
  Threads, Words, NoWord,
  ImageNames, Images,  \* per name: code, map, what execution starts from
                       \* (regs, mem, granted, ticks) and where it ends (end)
  PAGE_SIZE,           \* in bytes (4096 in the code)
  SCRATCH,             \* where the kernel's own SC goes
  KernelTries,         \* addresses on which the kernel leaves an LR without SC
  STVEC

Accesses == {"exec", "load", "store"}

\* What is known of every image, and of the kernel.
ASSUME ImagesAssumption ==
  /\ NoWord \notin Words
  /\ PAGE_SIZE \in Nat \ {0} /\ STVEC \in Values /\ KernelTries \subseteq Values
  /\ \A n \in ImageNames :
       /\ Images[n].mem \in [Words -> Values]
       /\ Images[n].granted \subseteq Threads \X Nat \X Accesses
       /\ Images[n].ticks \in Nat
       /\ \A t \in Threads :
            /\ Images[n].map[t] \in [Values -> Words]
            /\ Images[n].regs[t] \in RegFile
            /\ Images[n].regs[t][0] = 0
            /\ \A a \in DOMAIN Images[n].code[t] :
                 a \in Values /\ IsInstruction(Images[n].code[t][a])

VARIABLES
  image, pc, x,
  sepc, scause, stval,
  reservation_addr, reservation_valid,
  mem,
  mode,      \* "user", or where the kernel is
  cur,       \* the thread the kernel has put on the hart
  saved,     \* place and registers of the threads, as the kernel saved them
  granted,   \* <<thread, page, access>> that do not fault
  ticks,     \* bound: timer interrupts left
  own        \* history: the word each thread has reserved and nobody else wrote

csrs == <<sepc, scause, stval>>
reservation == <<reservation_addr, reservation_valid>>
kernelVars == <<cur, saved, granted, ticks>>
vars == <<image, pc, x, csrs, reservation, mem, mode, kernelVars, own>>

Page(va) == va \div PAGE_SIZE

\* The model has the text of the programs and nothing else to execute.
InText == pc \in DOMAIN Images[image].code[cur]

Permitted(acc, va) == <<cur, Page(va), acc>> \in granted

WordAt(va) == Images[image].map[cur][va]

\* The instruction at pc, and pc as the executor finds it.
Current == Images[image].code[cur][pc]
next == U64(pc + Current.len)

ExecInit ==
  /\ image \in ImageNames
  /\ cur \in Threads
  /\ saved = [t \in Threads |-> [pc |-> 0, x |-> Images[image].regs[t]]]
  /\ pc = 0
  /\ x = Images[image].regs[cur]
  /\ sepc = 0 /\ scause = "none" /\ stval = 0
  /\ reservation_addr = 0
  /\ reservation_valid = FALSE
  /\ mem = Images[image].mem
  /\ mode = "user"
  /\ granted = Images[image].granted
  /\ ticks = Images[image].ticks
  /\ own = [t \in Threads |-> NoWord]

-----------------------------------------------------------------------------
(* Traps.                                                                  *)

\* cpu_take_trap with cpu->pc = place, as far as the programs see it.
TakeTrap(cause, tval, place) ==
  /\ sepc' = place
  /\ scause' = cause
  /\ stval' = tval
  /\ pc' = STVEC
  /\ mode' = "entry"
  /\ UNCHANGED <<image, x, reservation, mem, cur, saved, granted, own>>

\* Slip: a compressed instruction traps like the others.
Back_AlwaysFour(i) == 4

\* What TRAP of execute.c and TRAP_C of compressed.c take back.
Back(i) == IF i.len = 2 THEN 2 ELSE 4

TRAP(cause, tval) == TakeTrap(cause, tval, U64(next - Back(Current))) /\ UNCHANGED ticks

\* The poll after an instruction finds the timer's interrupt.
TimerInterrupt ==
  /\ mode = "user"
  /\ ticks > 0
  /\ ticks' = ticks - 1
  /\ TakeTrap("timer", 0, pc)

-----------------------------------------------------------------------------
(* Fetch.  An instruction of 4 bytes whose first half is the last of its   *)
(* page has a second translation; until both succeed pc is not moved.      *)

Crosses == Current.len = 4 /\ pc % PAGE_SIZE > PAGE_SIZE - 4

Fetched ==
  /\ mode = "user"
  /\ Permitted("exec", pc)
  /\ Crosses => Permitted("exec", U64(pc + 2))

\* Slip: the second half's fault is reported at the instruction.
FetchFault_AtStart ==
  /\ mode = "user"
  /\ ~Fetched
  /\ TakeTrap("exec", pc, pc)
  /\ UNCHANGED ticks

FetchFault ==
  /\ mode = "user"
  /\ ~Fetched
  /\ TakeTrap("exec", IF Permitted("exec", pc) THEN U64(pc + 2) ELSE pc, pc)
  /\ UNCHANGED ticks

-----------------------------------------------------------------------------
(* Execution.                                                              *)

Executing(kinds) == Fetched /\ InText /\ Current.kind \in kinds

\* What every instruction that does not trap leaves alone.
Quiet == UNCHANGED <<image, csrs, mode, kernelVars>>

\* Slip: x0 is not cleared after the instruction.
Write_KeepsX0(rd, v) == x' = [x EXCEPT ![rd] = v]

\* x[rd] = v, and the end of cpu_step, which clears x0.
Write(rd, v) == x' = [x EXCEPT ![rd] = v, ![0] = 0]

\* A word written, and what that does to the reservations of the others.
WriteWord(w, v) ==
  /\ mem' = [mem EXCEPT ![w] = v]
  /\ own' = [t \in Threads |-> IF t # cur /\ own[t] = w THEN NoWord ELSE own[t]]

Arithmetic ==
  /\ Executing({"op", "imm", "lui", "auipc"})
  /\ LET i == Current
     IN \/ i.kind = "op"    /\ Write(i.rd, Compute(i.width, i.fn, x[i.rs1], x[i.rs2]))
        \/ i.kind = "imm"   /\ Write(i.rd, Compute(i.width, i.fn, x[i.rs1], U64(i.imm)))
        \/ i.kind = "lui"   /\ Write(i.rd, U64(i.imm))
        \/ i.kind = "auipc" /\ Write(i.rd, U64(next - 4 + i.imm))
  /\ pc' = next
  /\ Quiet
  /\ UNCHANGED <<reservation, mem, own>>

Branch ==
  /\ Executing({"branch"})
  /\ LET i == Current
     IN pc' = IF Taken(i.fn, x[i.rs1], x[i.rs2]) THEN U64(next - Back(i) + i.imm) ELSE next
  /\ Quiet
  /\ UNCHANGED <<x, reservation, mem, own>>

Jal ==
  /\ Executing({"jal"})
  /\ Write(Current.rd, next)
  /\ pc' = U64(next - Back(Current) + Current.imm)
  /\ Quiet
  /\ UNCHANGED <<reservation, mem, own>>

\* Slip: the link is written before the target is read.
Jalr_LinkFirst ==
  /\ Executing({"jalr"})
  /\ Write(Current.rd, next)
  /\ pc' = 2 * (Address(Current, x') \div 2)
  /\ Quiet
  /\ UNCHANGED <<reservation, mem, own>>

\* JALR, C.JR and C.JALR: bit 0 of the target is dropped.
Jalr ==
  /\ Executing({"jalr"})
  /\ Write(Current.rd, next)
  /\ pc' = 2 * (Address(Current, x) \div 2)
  /\ Quiet
  /\ UNCHANGED <<reservation, mem, own>>

Load ==
  /\ Executing({"load"})
  /\ LET i == Current
         va == Address(i, x)
     IN IF Permitted("load", va)
        THEN /\ Write(i.rd, Loaded(i, mem[WordAt(va)]))
             /\ pc' = next
             /\ Quiet
             /\ UNCHANGED <<reservation, mem, own>>
        ELSE TRAP("load", va)

Store ==
  /\ Executing({"store"})
  /\ LET i == Current
         va == Address(i, x)
     IN IF Permitted("store", va)
        THEN /\ WriteWord(WordAt(va), Stored(i, mem[WordAt(va)], x[i.rs2]))
             /\ pc' = next
             /\ Quiet
             /\ UNCHANGED <<x, reservation>>
        ELSE TRAP("store", va)

\* An AMO reads and then writes: the write may fault after the read did not.
AmoStep ==
  /\ Executing({"amo"})
  /\ LET i == Current
         va == Address(i, x)
         w == WordAt(va)
     IN IF ~Permitted("load", va) THEN TRAP("load", va)
        ELSE IF ~Permitted("store", va) THEN TRAP("store", va)
        ELSE /\ WriteWord(w, AmoResult(i, mem[w], x[i.rs2]))
             /\ Write(i.rd, Loaded(i, mem[w]))
             /\ pc' = next
             /\ Quiet
             /\ UNCHANGED reservation

LoadReserved ==
  /\ Executing({"lr"})
  /\ LET i == Current
         va == Address(i, x)
     IN IF Permitted("load", va)
        THEN /\ Write(i.rd, Loaded(i, mem[WordAt(va)]))
             /\ reservation_addr' = va
             /\ reservation_valid' = TRUE
             /\ own' = [own EXCEPT ![cur] = WordAt(va)]
             /\ pc' = next
             /\ Quiet
             /\ UNCHANGED mem
        ELSE TRAP("load", va)

-----------------------------------------------------------------------------
(* SC: the match, and the end of the reservation whether it matched or     *)
(* not.  The kernel's SC is the same instruction.                          *)

Matches(va) == reservation_valid /\ reservation_addr = va

\* Slip: an SC that fails leaves the reservation.
EndReservation_OnMatch(va) ==
  /\ reservation_valid' = (reservation_valid /\ ~Matches(va))
  /\ UNCHANGED reservation_addr

EndReservation(va) == reservation_valid' = FALSE /\ UNCHANGED reservation_addr

\* A store that faults leaves the reservation, too.
StoreConditional ==
  /\ Executing({"sc"})
  /\ LET i == Current
         va == Address(i, x)
         w == WordAt(va)
     IN IF Matches(va) /\ ~Permitted("store", va) THEN TRAP("store", va)
        ELSE /\ IF Matches(va)
                THEN /\ mem' = [mem EXCEPT ![w] = Stored(i, @, x[i.rs2])]
                     /\ own' = [t \in Threads |-> IF own[t] = w THEN NoWord ELSE own[t]]
                     /\ Write(i.rd, 0)
                ELSE /\ own' = [own EXCEPT ![cur] = NoWord]
                     /\ Write(i.rd, 1)
                     /\ UNCHANGED mem
             /\ EndReservation(va)
             /\ pc' = next
             /\ Quiet

Ecall == Executing({"ecall"}) /\ TRAP("ecall", 0)

\* The value given to TRAP is computed after TRAP has moved pc back.
Ebreak == Executing({"ebreak"}) /\ TRAP("ebreak", U64(next - Back(Current) - Current.len))

CpuStep ==
  \/ FetchFault
  \/ Arithmetic \/ Branch \/ Jal \/ Jalr
  \/ Load \/ Store \/ AmoStep \/ LoadReserved \/ StoreConditional
  \/ Ecall \/ Ebreak

-----------------------------------------------------------------------------
(* The kernel, in supervisor mode with interrupts off.                     *)

\* Registers and place are saved; calls are skipped; the page that stval
\* names is mapped, for reading first if that is enough; on a tick some page
\* may be taken away.
Service ==
  /\ mode = "entry"
  /\ LET back == IF scause \in {"ecall", "ebreak"}
                 THEN U64(sepc + Images[image].code[cur][sepc].len) ELSE sepc
         Give(acc) == {<<cur, Page(stval), a>> :
                         a \in IF acc = "store" THEN {"load", "store"} ELSE {acc}}
     IN /\ saved' = [saved EXCEPT ![cur] = [pc |-> back, x |-> x]]
        /\ \/ scause \in Accesses /\ granted' = granted \cup Give(scause)
           \/ scause = "timer" /\ \E g \in granted : granted' = granted \ {g}
           \/ scause \notin Accesses /\ UNCHANGED granted
  /\ mode' = "resume"
  /\ UNCHANGED <<image, pc, x, csrs, reservation, mem, cur, ticks, own>>

\* An LR on a word of the user whose SC the kernel then skips.
KernelLr ==
  /\ mode = "resume"
  /\ reservation_addr' \in KernelTries
  /\ reservation_valid' = TRUE
  /\ UNCHANGED <<image, pc, x, csrs, mem, mode, kernelVars, own>>

\* A tick may put any thread on the hart, a system call puts another.
Resume ==
  /\ mode = "resume"
  /\ cur' \in (IF scause = "timer" THEN Threads
               ELSE IF scause = "ecall" /\ Threads # {cur} THEN Threads \ {cur}
               ELSE {cur})
  /\ x' = saved[cur'].x
  /\ sepc' = saved[cur'].pc
  /\ mode' = "return"
  /\ UNCHANGED <<image, pc, scause, stval, reservation, mem, saved, granted, ticks, own>>

KernelSc ==
  /\ mode = "return"
  /\ EndReservation(SCRATCH)
  /\ mode' = "sret"
  /\ UNCHANGED <<image, pc, x, csrs, mem, kernelVars, own>>

Sret ==
  /\ mode = "sret"
  /\ pc' = sepc
  /\ mode' = "user"
  /\ UNCHANGED <<image, x, csrs, reservation, mem, kernelVars, own>>

Kernel == Service \/ KernelLr \/ Resume \/ KernelSc \/ Sret

ExecNext == CpuStep \/ TimerInterrupt \/ Kernel

\* cpu_loop never stops; the kernel gets on with its work.
ExecFairness ==
  /\ WF_vars(CpuStep)
  /\ WF_vars(Service) /\ WF_vars(Resume) /\ WF_vars(KernelSc) /\ WF_vars(Sret)

ExecSpec == ExecInit /\ [][ExecNext]_vars

FairExecSpec == ExecSpec /\ ExecFairness

-----------------------------------------------------------------------------
(* Properties.                                                             *)

ExecTypeOK ==
  /\ image \in ImageNames
  /\ pc \in Values /\ sepc \in Values /\ stval \in Values
  /\ scause \in Accesses \cup {"none", "timer", "ecall", "ebreak"}
  /\ x \in RegFile /\ x[0] = 0
  /\ reservation_addr \in Values /\ reservation_valid \in BOOLEAN
  /\ mem \in [Words -> Values]
  /\ mode \in {"user", "entry", "resume", "return", "sret"}
  /\ cur \in Threads
  /\ saved \in [Threads -> [pc : Values, x : RegFile]]
  /\ granted \subseteq Threads \X Nat \X Accesses
  /\ ticks \in Nat
  /\ own \in [Threads -> Words \cup {NoWord}]

\* Whenever a program runs, a valid reservation is one that this program made
\* and that no other has broken since, although LR records a virtual address
\* that means another word in another address space, and traps, switches and
\* faulting SCs leave it in place.
ReservationOwned ==
  mode = "user" /\ reservation_valid => own[cur] = WordAt(reservation_addr)

\* Each thread's place and registers, wherever they are kept.
PlaceOf(t) ==
  IF t # cur \/ mode \notin {"user", "entry"} THEN saved[t].pc
  ELSE IF mode = "user" THEN pc ELSE sepc

RegsOf(t) ==
  IF t # cur \/ mode \notin {"user", "entry"} THEN saved[t].x ELSE x

\* Arithmetic gives what the instruction set says, for an instruction on
\* registers, on an immediate, and for an AMO in memory: overflow, division
\* by zero and of the least number by -1, shifts by more than the width,
\* results of 32 bits extended by their sign.
ArithmeticRight ==
  [][mode = "user" /\ mode' = "user" =>
       LET i == Current
           w == IF i.width = "d" THEN XLEN ELSE WORD
           b == IF i.kind = "imm" THEN U64(i.imm) ELSE x[i.rs2]
           word == WordAt(Address(i, x))
       IN /\ i.kind \in {"op", "imm"} /\ i.rd # 0 =>
               /\ IsResult(i.fn, w, LowOf(x[i.rs1], w), LowOf(b, w), LowOf(x'[i.rd], w))
               /\ IsSignExtended(x'[i.rd], w)
          /\ i.kind = "amo" =>
               IsAmoResult(i.fn, w, LowOf(mem[word], w), LowOf(x[i.rs2], w),
                           LowOf(mem'[word], w))]_vars

\* Every program gets to its end: a fault, wherever in an instruction, is
\* reported at the address that has to be mapped, so that mapping it helps,
\* and a loop of LR and SC ends.
ProgramsFinish == <>[](\A t \in Threads : PlaceOf(t) >= Images[image].end[t])

Ideal == INSTANCE IdealHarts WITH
  at <- [t \in Threads |-> PlaceOf(t)],
  reg <- [t \in Threads |-> RegsOf(t)]

\* The programs cannot tell the one hart, with its faults half way through
\* instructions, its interrupts and its kernel, from harts of their own that
\* never trap: nothing is executed twice or in part, and an SC succeeds only
\* where it may.
ImplementsIdeal == Ideal!IdealSpec

=============================================================================
