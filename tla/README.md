# Verification of AI-RV64GC

AI-RV64GC is an emulator of one RV64GC hart with an Sv39 MMU, a CLINT, a PLIC,
a 16550 serial port, virtio block, network and entropy devices, and a generated
device tree; it boots OpenSBI and Linux. This directory holds TLA+ models of
the parts where its bugs would be hard to find by testing, TLC configurations
that check them on small instances, and proofs, checked by TLAPS, that the most
important properties hold for every size.

## Inventory

| part | source | state | operations | what is hard |
|---|---|---|---|---|
| address translation | `mmu.c`, `cpu.c` | page tables in DRAM, `tlb`, `dtlb_load`, `dtlb_store`, `icache`, `mmu_state` | load, store, fetch, SFENCE.VMA, writes of satp and mstatus, traps and returns | four caches, two of which check nothing on a hit |
| hart | `cpu.c`, `execute.c` | privilege, CSRs, WFI flag, instret | traps, xRET, CSR accesses, WFI, the periodic poll | interrupts are looked at every 256th retired instruction |
| CLINT | `clint.c`, `cpu.c` | mtime, mtimecmp, msip | loads and stores | mtime has two sources: the host's clock, and a count while the hart waits |
| PLIC | `plic.c` | latches, summary, enables, priorities, thresholds | raise, claim, complete, programming | a summary kept beside the latches; level lines latched |
| serial port | `uart.c` | ring of 256, IER, LSR, two interrupt flags | input thread's push; RBR, THR, IIR, IER | two threads; interrupt flags cleared by reads |
| virtio-blk, virtio-rng | `virtio.c` | registers, `last_avail_idx`, rings in guest memory | notify, acknowledge, status | error path, reset |
| virtio-net | `virtio_net.c` | host ring of 256 packets, two virtqueues | TAP thread, poll, notify, reset | two threads and the guest's rings |
| bus, DRAM | `bus.c`, `dram.c` | memory | dispatch by address | ends of ranges |
| instructions | `cpu.c`, `execute.c`, `compressed.c` | pc, registers, LR reservation | RV64IMAFDC | faults half way through; pc is moved before execution and back on a trap; the reservation is one address for all programs |
| loader | `main.c`, `dram.c` | DRAM, ROM, a buffer for the tree | start-up | nobody compares the places of kernel, initrd and tree |
| device tree | `dtb.c` | two blocks that grow, a blob | built call by call | offsets and paddings; repeats in literals what other files define |
| terminal, scripts | `main.c`, `*.sh` | host configuration | – | – |

### How the parts interact

Three host threads run: the main loop, which steps the hart for ever
(`cpu_loop`), the serial port's input thread, and the TAP thread of virtio-net.
Everything the hart does happens in the main loop: `cpu_step` fetches, executes
one instruction with all its loads and stores (through `mmu.c` and `bus.c`, and
for a device register into that device's `*_load` or `*_store`), and, after
every 256th retired instruction or on each step of a waiting hart, polls.

- **Guest to device** is a call: a store to QueueNotify runs the whole transfer
  loop of virtio-blk or the transmit loop of virtio-net before it returns.
- **Thread to device** is shared memory under a lock: `uart.c` and
  `virtio_net.c` each have a ring with head, tail and count. Some fields are read
  by the hart without the lock (`uart_is_interrupting`, `virtio_net_poll`).
- **Device to hart** is polling only: `cpu_update_devices` asks each device for
  its flag, latches it in the PLIC, asks the PLIC per context, compares the
  clock, and rewrites MIP; `cpu_check_interrupt` then takes a trap or does not.
- **Context to caches** is a call: everything that changes privilege, mstatus or
  satp must end with `cpu_update_mmu_state`, which repacks `mmu_state` and
  empties three caches; SFENCE.VMA calls `mmu_tlb_flush`.

- **Start-up** is sequential: `main` puts the images and the tree into DRAM, sets
  `pc` and `a1`, starts the input thread and enters `cpu_loop`. What the tree says
  is then the only thing the guest knows of the devices.

The guest (OpenSBI, Linux) is not in the repository. Where a component is
meaningless without one, the model has the usual driver, restricted to what
the device registers and the generated device tree let it do.

### What makes each part correct

| part | properties |
|---|---|
| address translation | a cached translation never grants what the page tables and the context of now (or since the last fence) would refuse |
| hart | traps never lower privilege; a return restores what its trap interrupted; a handler is not interrupted by its own level; a waiting hart wakes; a machine interrupt is reached |
| PLIC | summary, poll and claim agree; the highest priority wins; a latch is lost to its claim only |
| serial port | the ring is a bounded queue; data that was signalled is read; what is to be sent is sent |
| instructions | threads that trap, fault and are switched compute what each would on a hart of its own, LR and SC included; programs end |
| loader, device tree | a kernel is started exactly when the images fit; it reads back the tree that was built; the tree announces what the bus and the interrupt lines answer, and the images where they lie |
| virtio | each chain of descriptors is in one place; what is returned is announced; packets and sectors are the right ones |

## Modules

| module | models | state | actions |
|---|---|---|---|
| `PageTable` | the walker of `mmu.c` as operators | – | – |
| `Mmu` | `mmu.c`, and what `cpu.c` and `execute.c` do to the translation context | `priv mstatus satp mmu_state tlb dtlb_load dtlb_store icache pt`, history `seen seen_exec` | `LoadFast LoadSlow StoreFast StoreSlow FetchFast FetchSlow Trap Sret Mret SfenceVma WriteSstatus WriteMstatus WriteSatp` |
| `Plic` | `plic.c` | the fields of `plic_t`, `claimed` | `Raise Claim Complete WritePriority WriteEnable WriteThreshold` |
| `ByteQueue` | what a serial receiver promises | `queue held out` | `Arrive Enqueue Lose Dequeue ReadNothing` |
| `Uart` | `uart.c`, refines `ByteQueue` | ring, `dr ier interrupting thre_ip` | `Type Push Drop ReadRbr ReadIir WriteIer WriteThr` |
| `Console` | `Uart` + `Plic` + poll + driver | `seip sie` and the driver's place | `TypeByte PushByte Poll SetUp StartSend` and the handler's steps |
| `Hart` | traps, interrupts, WFI and the poll of `cpu.c`; `clint.c` | `priv mstatus mip mie mideleg medeleg stce stimecmp wfi retired due`, `mtime mtimecmp msip`, the controller's `lines`, history `sframe mframe` | `Plain Exception FetchFault Wfi Sret Mret`, CSR writes, `WriteClint Poll Idle LinesChange` |
| `Alu` | the arithmetic of `execute.c` in words of XLEN bits, as C computes it | – | – |
| `AluMeaning` | what RISC-V says of the same operations | – | – |
| `Isa` | instructions as `execute.c` and `compressed.c` tell them apart | – | – |
| `IdealHarts` | what programs may rely on: a hart each, that never traps | `image at reg mem own` | `IdealCompute IdealJump IdealMemory IdealScSucceeds IdealScFails IdealCall` |
| `Exec` | `cpu_step`, the executors and the reservation, under a kernel; refines `IdealHarts` | `pc x sepc scause stval reservation_* mem`, the kernel's `mode cur saved granted ticks`, history `own` | fetch faults, one action per kind of instruction and per fault, timer, the kernel's steps |
| `MemoryMap` | the dispatch of `bus.c`, the lines of `cpu_update_devices` | – | – |
| `DeviceTree` | `dtb.c`: the calls, the two blocks, the blob | – | – |
| `Boot` | `main`, the generator call by call, a kernel that reads the tree | `phase files dram initrd blocks made blob hart rom reader` | `ReadKernel LoadKernel NoInitrd LoadInitrd Build Assemble Place KernelReads Ended` |
| `Virtqueue` | the two rings in guest memory, u16 indices and all | – | – |
| `VirtioIrq` | InterruptStatus, the flag, the latch, the handler | `interrupt_status interrupting latched guest isr` | `Latch TakeIrq ReadIsr AckIsr` |
| `NetPromise` | what a guest may expect of its network device | `waiting posted filled tosend sent wire` | `Arrive Post Deliver Receive Submit` ... |
| `VirtioNet` | `virtio_net.c`, refines `NetPromise` | host ring, queues, `work` | `Push Drop PollEmpty PollStart Deliver DeliverEnd PollEnd Notify Transmit TransmitEnd`, driver, `Restart` |
| `VirtioBlk` | the disk of `virtio.c` | `disk`, queue, `status`, history `shadow expected` | `Notify Serve ServeEnd Poll`, driver |

`Console` composes `Uart` and `Plic`, and its run also checks the serial port's
own properties; `VirtioNet` and `VirtioBlk` compose
`Virtqueue` and `VirtioIrq`. `Hart` has the CLINT and does not compose with the
other devices: it sees the outputs of the interrupt controller as lines that may
change at any time, which is more than the devices behind it do.
The `MC*` modules hold the constants of the runs; the `*Proofs` modules the
proofs, and `DataLemmas` what several of them need to know of numbers and sequences. Operators whose comment begins with "Slip" are variants with one
plausible mistake in them: substituted for the operator they are named after,
each breaks a property, which shows that the property looks at that line.

### How the models correspond to the code

**Granularity.** One call that holds a lock, or that the hart makes on its own
state, is one action. Where a thread can get in between, the handler is split:
the input thread between `read` and the push; the loops of virtio, one turn
each (the TAP thread's `Push` is excluded while `virtio_net_rx_deliver` holds
the lock, not while the poll peeks at the count). An instruction and the poll
behind it are two actions of `Hart`, tied by `due`; a fetch and the
instruction's effect are two actions of `Mmu`, a superset of what the code can
do, since the effect may then come without its fetch.

**Caches and history.** `tlb` holds leaves of 4 KiB pages, and a hit checks
permissions again; the data TLBs and `icache` hold host pointers, here physical
pages, and a hit checks nothing. RISC-V lets a hart use any translation that
the tables held since the last fence, so "stale" is judged by `seen`, every
leaf the table has had for a page since the last flush, and by `seen_exec`,
the same since the last flush of `icache`. The table lives in `pt` and is
changed by the walker (A, D) and by the program, through translated stores
that hit a page in `Tables`: the program can edit its table through a window
that the table maps. A page number in the data TLBs stands for `host_ptr`.
`Fillable` has the bound of `dtlb_fill`, which depends on the offset.

**Hart.** Interrupts are sets of numbers. `Driven` is the part of MIP that the
poll rewrites; SSIP, and STIP without STCE, are software's. FetchFault leaves
`retired` alone, as the code returns before counting (`cpu.c:456-458`).
`csr_write` checks no privilege, so neither do the writes. Times are numbers modulo
`TIME`, of two words of `HALF` values, as `clint_store` writes them whole or word by
word. The poll of a running hart takes any time for the host's clock; a waiting hart
reads no clock and counts its steps.

**Programs.** `Exec` has two threads under a kernel that is not in the repository
and is the usual one: it maps the page that stval names, skips system calls,
switches threads at a timer interrupt (and takes a page away, so that faults come
back), and leaves an SC of its own before it returns, since nothing in the
hart ends a reservation on a trap (`execute.c:288-318`). A fetch, the accesses and
the trap of one instruction are one action, as they are one call of `cpu_step`.
Registers have XLEN bits with words of half that, pages PAGE_SIZE bytes; an
instruction is a record, a program a function from addresses. Virtual addresses
are mapped to words per thread; the walk and the caches are the matter of `Mmu`.
`own` is the reservation as RISC-V means it: the word a thread has reserved and
nobody else has written since.

**Boot.** A text is one value that has a length; a blob is a function from byte
offsets to tokens and texts. Sizes of files and addresses are in units of 16
bytes, the numbers otherwise those of the code. `Build` is one call of
`dtb_generate`'s many. The reader follows the format of the blob, not `dtb.c`.

**Virtio.** A chain is its head, its contents are one value; addresses are left out.
In `VirtioNet` a chain also has the lengths of its descriptors, and `Walked` is the
walk along them. In `VirtioBlk` a chain has one data descriptor for each sector, and
a transfer moves sectors one at a time and stops
at the first that the host refuses, leaving what was moved, as `pread` and
`pwrite` do descriptor by descriptor. The drivers clear the slots they have
read, which keeps the state space small and shows any read of a slot that is
not current.

## Runs

| run | what it shows | bounds |
|---|---|---|
| `mmu_coherence` | a program that edits its own page table, switches between two address spaces and uses MPRV while it loads, stores and fetches, with superpages, device pages and the end of DRAM: `TypeOK`, `MmuStateFresh`, `TlbSound`, `DtlbSound`, `IcacheSound` | tables of 2 entries, one slot per cache, 2 virtual pages |
| `mmu_fence` | violation: `FetchFenced` | one address space |
| `plic` | all programmings of three sources in two words: `SummaryExact`, `PollAgreesWithClaim`, `ClaimFindsHighest`, `LatchLostOnlyByClaim` | 1 context, 2 priorities |
| `console` | the ring under two threads: `SignalsHaveData` and `ImplementsQueue`, the refinement of `ByteQueue`; what happens to a signal between flag, latch, hart and handler: `SignalsHandedOn`; liveness from typing to the driver's read: `SignalledInputDrained`, `OutputSent` | ring of 2, 2 bytes, 4 typed, 2 sent |
| `console_stuck` | violation: `AvailableInputDrained` | 1 byte in |
| `hart` | nested traps of both levels: `SavedContext`, `HandlerMasked`, `OnlyReturnsLower`, and liveness `WfiWakes` (with the machine's timer enabled a waiting hart wakes in any case), `ReachesMachine` | a poll every 2 instructions, the machine's timer, the supervisor's external line, times modulo 4 |
| `hart_sstc` | violation: `StipIsSoftware` | with STCE and the supervisor's timer line |
| `exec` | two programs that count with LR and SC, update with AMOs, share and alias words, jump, and every operation on pairs of operands: `ReservationOwned`, `ImplementsIdeal` (the refinement of `IdealHarts`), `ArithmeticRight`, `ProgramsFinish` | registers of 8 bits, pages of 8 bytes, 2 threads, 1 or 2 ticks, 10 operands |
| `boot` | every pair of files, from `main` to a kernel that has read its tree: `StartsOrExits`, `ReadsBack`, `ImagesHandedOver`, `AnnouncedAnswered` | 8 sizes of kernel and 7 of initrd, missing files included |
| `net` | thread, poll, both queues, handler, resets: `BuffersConserved`, `ReturnsAnnounced`, and `ImplementsPromise`, the refinement of `NetPromise` | ring of 2, queues of 2, indices modulo 4, 2 receive chains, 1 transmit chain, 2 packets, 2 frames, in 1 or 2 descriptors |
| `blk` | overlapping requests on a disk with a bad sector: `ChainsConserved`, `AnswersRight`, `AnswersAnnounced` | 3 sectors, 2 chains, queue of 2, indices modulo 4, 6 requests |
| `blk_error` | violation: `RequestsAnswered` | as `blk` |

### Why the bounds are enough

- **Mmu.** The walk has its three levels; tables of 2 entries make a root span 8
  pages, so one instance has a 4 KiB leaf, superpages of 2 pages, pointers, an
  invalid entry, pages that only the walker confuses, and a supervisor's window on
  a table. With one slot every fill evicts and every lookup compares. The mid table
  serves as the root of the second address space. In `mmu_coherence` DRAM ends in
  the middle of a superpage. The proofs have no such bound.
- **PLIC.** Two words are the least where a word's summary can go wrong for the
  sake of another; three sources give two in one word. One context: they share
  only the latches, two of them with the same values take 2 million
  states, and the proofs are for any set of contexts.
- **Serial port.** A ring of 2 has an empty, a partly full and a full state and
  wraps; `MAX_INPUT` and `MAX_OUTPUT` count what is typed and sent, enough to fill
  the ring twice and to overflow it. The proofs are for every size.
- **Hart.** `PERIOD = 2` has a step with a poll and a step without, as 256 has.
  `HALF = 2` makes times of 4 values in two words: before, at and behind the
  comparator, and the wrap. One value is written to each register, beside the one it
  starts with: both levels' interrupts enabled in `mie`, the external one and one
  exception delegated, a return to S-mode. No MSIP. The proofs take any values.
- **Exec.** 8 bits have every sign, carry and shift that 64 have; the operands are
  the ends of both widths and their neighbours. Pages of 8 bytes make an SC and a
  call lie across a page, so that a fetch faults in either half. One tick is enough
  to put one program between the other's LR and SC; the aliased image has two.
  Types, arithmetic, refinement and `ReservationOwned` are proved without these bounds.
- **Boot.** Sizes where something changes, and one unit more or less: empty, 128 MiB
  (the initrd's offset), what DRAM leaves behind it, DRAM, and where the tree
  starts, with an initrd and without. The tree itself depends on nothing else. The proofs
  are for files of any size.
- **virtio.** Indices modulo 4 over 2 slots wrap and tell full from empty, as
  65536 over 16 or 256 do. In `net` one of the receive chains has two descriptors, the
  other is too small for the long packet; one frame has the header in a descriptor of
  its own, the other begins behind it and is too long. The two receive chains have three
  descriptors between them, one more than a queue of 2 has in its table, which the device
  does not look at. The host ring of 2 overflows. With one
  transmit chain, two frames are never outstanding at once: that frames leave in
  order is checked for one at a time only; the proof is for any number. Resets come at any
  moment when the guest runs. In `blk` two requests overlap on a sector, in both orders of types.
- Runs state no bound as CONSTRAINT: all counters wrap or are guarded (`ticks` of
  `Exec`, `MAX_INPUT`, `MAX_OUTPUT`).

### Fairness

- `Console`: the host schedules the input thread (`PushByte`), the main loop
  polls (`Poll`) and executes the guest (`SetUp`, `Handler`). All weak: each stays
  enabled until taken. Nobody is obliged to type or to send.
- `Hart`: `Instruction \/ Poll \/ Idle`, weak, one of which is always possible, since
  `cpu_loop` never stops. That not every step is a fetch that faults is asked of the
  guest: if every handler's first fetch faulted the hart would trap for ever and
  never poll (`cpu.c:456-458`). The host's clock need not advance.
  `ReachesMachine` is about an interrupt that stays up and enabled and is not
  delegated; the hart may still be in M-mode because of another.
- `Exec`: the hart's step and the kernel's, weak, as `cpu_loop` and a kernel never
  stop; none for the timer. `ProgramsFinish` needs that the kernel maps what
  is reported and gives every thread its turn.
- `Boot`: weak for `Next`; it is one thread that stops nowhere.
- `Mmu`, `Plic`, `Uart`, `VirtioNet`, `VirtioBlk` state safety only. For virtio,
  "the driver will be told" is stated as an invariant (`ReturnsAnnounced`,
  `AnswersAnnounced`): a returned buffer always has a signal somewhere between the
  flag and a handler that is going to look; `console` and `hart` show for their
  parts that such signals move.

No run turns deadlock checking off.

## Findings

1. **SFENCE.VMA does not flush `icache`** (`mmu_fence`). `mmu_tlb_flush` clears
   three of the four caches. After a program unmaps or replaces a page it executes,
   and fences, the next fetch from that page still takes the old one, until a fetch
   from another page, a trap, a return or a write of mstatus or satp. `IcacheSound` says what does hold.
2. **Enabling the receive interrupt does not raise it** (`console_stuck`). A byte
   pushed before the driver sets IER.RDI waits for the next keystroke. Once
   signalled, input is drained: `SignalledInputDrained`.
3. **STCE is hidden but obeyed** (`hart_sstc`). Reads of menvcfg mask bit 63 "so
   Sstc probe fails"; writes store it and the poll acts on it.
4. **A failed disk transfer is never answered** (`blk_error`). The status byte is
   written, but the request skips the used ring and the interrupt.
   `ChainsConserved` says exactly which chains are lost.

## Proofs

`tlapm` checks every leaf; nothing is assumed but the named ASSUMEs on the
constants, which TLC evaluates in the runs.

| module | result | for every |
|---|---|---|
| `MmuProofs` | `TypeCorrect`, `ContextCopyFresh`, `TlbNeverStale`, `DtlbNeverExceeds`, `IcacheNeverExceeds` | fan-out, set of tables, contents, cache size, set of virtual pages, memory map, written values |
| `ConsoleProofs`, the controller | `PlicTypeCorrect`, `SummaryCorrect`, `PollIsFullScan`, `PollAgrees`, `ClaimHighest`, `LatchesSurvive` | number of sources, word size, contexts, priorities |
| `ConsoleProofs`, the serial port | `UartTypeCorrect`, `RingAgrees`, `SignalsCorrect`, `RingIsQueue` | ring size, bytes |
| `ConsoleProofs`, both with the poll and the driver | `ConsoleIsBoth`, `ConsoleSafe`, `SignalsKept` | all of these, bytes typed and sent, place of the line and of the context |
| `BootProofs` | `BootInvariant`, `BootTyped`, `TreeReadsBack`, `HandedOver` | size of kernel and initrd |
| `ExecProofs` | `Types`, `Computation`, `Reservations`, `Refinement` | programs, threads, pages, words, addresses of the kernel's own SC, operands, width that is a power of two |
| `HartProofs` | `HartTypeCorrect`, `ContextSaved`, `HandlersMasked`, `PrivilegeDrops` | period, lines, width of times, written values (the CLINT's too), causes |
| `VirtioNetProofs` | `NetTypeCorrect`, `NetConserves`, `NetAnnounces`, `NetKeepsPromise` | host ring, queue size, width of indices, chains and their descriptors, packets, frames |
| `VirtioBlkProofs` | `BlkTypeCorrect`, `BlkConserves`, `BlkAnswersRight`, `BlkAnnounces` | queue size, width of indices, disk, bad sectors, requests |
| `DataLemmas` | lemmas only: induction and recursion, remainders, rings and parts of them, sequences whose elements differ | – |

- **Mmu.** The inductive invariant is the conjunction of `TypeOK`,
  `MmuStateFresh`, `SeenCurrent`, `TlbSound`, `DtlbSound` and `IcacheSound`.
  `SeenCurrent` (the leaf of now is in the history, and the history for `icache`
  covers that for `tlb`) is the strengthening: a fill takes the leaf of now, or one
  of `tlb`, so both must be in it. `MmuStateFresh` is needed because the
  fetch path checks against `mmu_state`. The lemma that carries the weight is
  `WalkedLeaf`: the walk's own stores of A and D change the
  leaf as `Updated` says and leave the path to it alone, also when one cell is
  visited at two levels (a table that points to itself). Only then may an entry that
  was granted before the update be cached with A and D set. A change of context
  needs no argument about permissions: the caches that check nothing are empty
  afterwards, and `Flushed` says so.
- **Data.** `DataLemmas` knows nothing of the emulator. `SetInduction` is induction with a
  set in the place of a predicate, and `Recursion` says that a function given by its
  first value and a step from each number to the next exists: with these two, what a
  recursive function of a model computes is provable. A *stretch* is the part of a ring
  between two indices that run freely modulo a multiple of its size; the lemmas say what
  putting, taking and clearing do to the sequence that lies in it, wherever the indices
  wrap. `Placed` says that two sequences hold the elements of a set between them, each once.
- **Plic.** The summary is right together with the range of the latches; each step
  sets latches, or clears some with `claimed` naming the one, or leaves them
  (`StepKinds`). `BestIrq` is a recursive function over the sources: `ScanFinds` says, by
  induction over them, that behind source n it has the best of the eligible sources up to n,
  and `ClaimHighest` and `PollAgrees` follow, the latter with `SummaryCorrect` for the half
  of the poll that looks at the summary.
- **Uart.** Type, ring and signals are inductive together; under them each push is
  an append, each read a removal of the head, and the ring implements `ByteQueue`
  under the mapping `queue <- Contents`. The arithmetic is in `Wrap` and `UsedSlots`.
- **Console.** Each step of the composition is a step of the serial port, of the controller
  or of both, or leaves them alone (`ConsolePort`, `ConsoleController`): the poll and the
  driver use both only through their operations, and program only lines and contexts that
  exist. So `ConsoleSpec` implements `UartSpec` and `PlicSpec` (`ConsoleIsBoth`), and what is proved
  of each holds in the composition (`ConsoleSafe`). `SignalsKept` is the safety half of the
  two liveness properties: it needs of the driver what it has programmed by the time it is
  somewhere, and that only the serial port is ever latched (`Driver`); with the summary exact
  and the scan of the claim correct, a poll that sees the line up traps, and the claim in the
  trap finds it (`LatchEligible`).
- **Hart.** `HartInv` is `SavedContext`, `HandlerMasked` and the types. Each part
  needs of the others only the types (SPP can hold what `EnterS` puts there because
  only U and S get that far); they are proved together because each step splits the
  same way, into what it does to one level's half of mstatus and what it must leave
  of the other's. `PrivilegeDrops` follows from the types and the guard
  `priv <= PRIV_S` of delegation; MPP = 2 is allowed throughout. The only arithmetic is
  that of the CLINT's words (`Words`, `Halves`): a store to half a register leaves a time.
- **Exec.** `ExecInv` is types, `ReservationOwned`, and that the kernel's saved places are
  those of the threads. `ReservationOwned` says that a valid reservation whose owner runs names a
  word the thread still owns; it is inductive only with the kernel's places (its
  own SC lies between every other thread's write and the return) and with "at most
  the running thread has a reservation". `Refinement` maps the running thread to
  `pc` and `x`, the others to what the kernel saved; a fault, a fetch and every step
  of the kernel are stutters, a completed instruction is the same one of `IdealHarts`.
  The arithmetic cancels: both sides use the operators of `Alu`.
- **Arithmetic.** That the operators of `Alu` are what RISC-V means is `Computation`, from one
  lemma for each operation (`AddRight` to `DivUnsignedRight`) at width w, which is then a
  register or half of one. They rest on a few facts about a number and a power of two:
  `SignedIs` (a cast is two's complement), `BitUp`, `BitDown`, `BitHigh` (a shift moves every
  bit), `FromBitsRight` (a number is the sum of its bits), `HighHalf` (the product modulo
  twice the width is enough for its high part, whatever the signs), `Quotients` (truncation
  gives the quotient, the remainder has the sign of the dividend). `Pow2` and the sum of the
  bits are recursive functions, so what they compute is shown by induction (`SetInduction`). A 32-bit
  result and its extension are taken apart in `WordRight`; `AmoResultRight` adds that the
  upper half of a doubleword is left. The width has to be a power of two, as 64 is: only
  then are the low bits of a register, which count a shift, the same as those of its half. `Types`
  goes with it, for operands have to be words.
- **Programs.** `ImagesAssumption` says of an image what a loaded program has: its instructions at
  addresses of the machine, each one that exists at its width, its data on words, and a frame
  for every address a thread may form. Behind the end of its text there are no instructions to
  execute, so nothing is said of a program that runs there. Addresses wrap at the width, `pc` too.
- **Boot.** The tree is fixed but for the initrd's addresses; the proof looks at no more of it than
  it must. `IsTree` is what the reader needs: a sequence of calls, each a begin, an end or a
  property whose value fills its cells (`TreeCalls`, one lemma for each subtree). `Built` says
  that the calls made so far lie in the structure block, each at its own place with the
  offset of its name, and a call appended leaves the others where they are and every name
  where it was, shared or new (`AppendedBuilt`). `AssembledReadable` carries that into the
  blob, behind the offsets of the header. `BootInv` is, by phases: what is in DRAM and that it lies
  inside (`Within`, `Lying`), what of the initrd is announced (`Announced`), the
  calls made (`Generated`), the call the reader stands before and the path it is on
  (`Reading`), and what it has found (`Finding`). Then `BootTyped` and `TreeReadsBack` are
  immediate, and `HandedOver` adds when images overlap (`IntactTwo`, `IntactThree`). A tree too
  large for its buffer would end the emulator, which the proof allows; that this one is not
  is `StartsOrExits`. That the tree fits in DRAM, and so is placed, is proved (`TreeFits`).
- **virtio-blk.** `BlkInv` adds to the types: the copy of the avail index is current while
  the device works; the chains given away and not lost to an error lie in avail and in used,
  each once (`Placed`); those chains hold requests that end on the disk; and `Traced`, which
  carries `BlkAnswersRight`: the requests in avail, done one after the other, lead from the disk
  of now to the driver's own, `shadow`, and each finds on its way what the driver expects.
  Offering a request adds a link at the end, serving takes the first. `Serve`'s loop over
  descriptors is a recursive function; that it moves what the request says, up to the first
  bad sector, is shown by induction over its turns (`Moved`).
- **virtio-net.** `NetInv` is the types, the ring of packets (the tail is where head and count
  say, and only packets lie between), for each queue that its buffers are placed and that the
  device is in avail where it is in used (`QueueOK`), the copy of the avail index, and that
  chains given for sending hold frames. One lemma for each step of a queue (`QueueOffered`,
  `QueueReturned`, `QueueScrubbed`) says what it does to the two sequences in it; one for each
  action (`PushHolds` to `RestartHolds`) says so of the whole state. `NetKeepsPromise` follows
  step by step: the mapped variables are those sequences, with what the chains hold
  (`UsedView`, `AvailView`), so it is left to show that the chain a step writes is no other
  buffer's, which `Placed` says, and that `Walked` transfers the lesser of what there is and
  what there is room for however a chain is cut into descriptors (`WalkedAll`, by induction
  along the chain). The walk depends on `WellFormed`, the header in the first descriptor.
- **Signals of virtio.** `Announced` names the places where a signal can be: the flag, the
  latch, a handler that has read the bit or is going to. Every step hands it on or ends with
  the driver's index at the device's; `HandleKeeps` and `LatchKeeps` say so of the
  acknowledgement, which clears only what was read, and of the poll, which clears the flag
  only into the latch. For the network device the property is inductive over the types and
  the shape of the rings, for `Transmit` returns frames before it signals but the guest does
  not run in between. For the disk it is first turned into the driver's own test,
  `seen # queue.used_idx`. What the rings hold is not needed, nor which chains are where.

Both devices' proofs assume of the queues that a driver has at most QUEUE_SIZE chains,
as many as there are slots (`NetAssumption`, `BlkAssumption`).

Model-checked only, and why:

- liveness (`SignalledInputDrained`, `OutputSent`, `WfiWakes`, `ReachesMachine`,
  `ProgramsFinish`, `StartsOrExits`), which these provers do not
  reach;
- `AnnouncedAnswered`: it is about one tree that does not depend on the files but for the
  initrd, and its every number; TLC evaluates it completely.

## What no property covers

Hazards of the code that are listed in `PROJECT.json` without a property:

- an access that crosses a page goes on in the next *physical* page
  (`cpu.c:307-311`, `cpu.c:335-339`): the model has no such access;
- MRET takes MPP = 2 as it is (`execute.c:247`): the proofs of `Mmu` and `Hart`
  allow it, none forbids it;
- a reset of virtio-blk or virtio-rng leaves `last_avail_idx` (`virtio.c:112`),
  where virtio-net clears it;
- `TRAP` moves pc back before it evaluates its argument, so a breakpoint reports in
  tval the address one instruction before its own (`execute.c:229`);
- DeviceID of virtio-rng reads 0, as it has no disk (`virtio.c:62`): the tree
  announces an entropy device that every driver takes for an empty slot.

Four more that are seen in the code: `len - skip` wraps when the first descriptor of a
frame is shorter than the header (`virtio_net.c:223`), which `NetAssumption` excludes,
as no driver does that; `mtime` is counted while the hart waits (`cpu.c:440`) and
overwritten by the host's clock elsewhere (`cpu.c:524`), so a program may see time go
back, which the model allows; `sp` starts at the end of DRAM, where the tree lies
(`cpu.c:364`; OpenSBI sets its own before it pushes); and a read of the ROM that begins
in its last bytes may go past the array (`bus.c:44`).

## What is not modelled

- **Instructions**: floating point, bytes and halfwords, illegal encodings and the
  decoding of immediates, which are data; the machine's own epc, cause and tval
  (`Exec` has the supervisor's), and the skip over `vdso_init` (`cpu.c:431`).
- **Translation**: page tables outside DRAM, satp modes other than 0 and 8 (writes of
  them are ignored, which is modelled), the contents of pages that are not tables.
- **Serial port**: FCR, LCR, MCR and SCR, stored and read back without effect.
- **virtio**: virtio-rng (no driver binds to it), descriptors and buffers
  outside DRAM, feature and queue-size registers, which the devices do not use.
- **Loader**: the parsing of options, failures of `malloc` and `ftell`; the terminal
  and the scripts, which are host configuration.
- **Bus**: widths of accesses to devices, accesses across the end of a range.

## Plan

In order of importance to the system; all are done but the second half of 10.

1. `PageTable`, `Mmu`: coherence of the caches, with proofs.
2. `Plic`, with proofs.
3. `ByteQueue`, `Uart`, with the proof of refinement, and `Console`.
4. `Hart`: traps and interrupts, with proofs.
5. `Virtqueue`, `VirtioIrq`, `NetPromise`, `VirtioNet`.
6. `VirtioBlk`.
7. `Alu`, `Isa`, `IdealHarts`, `Exec`: programs that trap, with the proof of refinement.
8. `MemoryMap`, `DeviceTree`, `Boot`.
9. `Hart` with the CLINT, and its proofs.
10. `VirtioNet` with the walk along descriptors: done. `VirtioBlk` with reset and
    re-initialisation.
11. Proofs for virtio: the announcements, the conservation of buffers and chains, the
    answers of the disk, and that `VirtioNet` implements `NetPromise`: done.
12. Console: the safety half of "signalled input is drained" as a property of each
    step, with a proof, and the proofs of the parts carried over: done.
13. Proofs for the loader and the device tree: done.
