----------------------------- MODULE DeviceTree -----------------------------
(***************************************************************************)
(* The generator of the device tree (dtb.c): the calls it makes, what each *)
(* of them appends to a structure block and to a table of names, and the   *)
(* offsets at which both are put together.                                 *)
(*                                                                         *)
(* The structure block is a sequence of cells of 4 bytes: tokens, numbers, *)
(* halves of u64s, and text, whose first cell stands for all of it and     *)
(* whose other cells are "pad".  A text is a string of TLA+; lengths count *)
(* its final NUL.                                                          *)
(***************************************************************************)
EXTENDS MemoryMap

FDT_BEGIN_NODE == 1
FDT_END_NODE   == 2
FDT_PROP       == 3
FDT_END        == 9

TIMEBASE   == 10000000   \* both in Hz
UART_CLOCK == 3686400

Num(n)  == <<"num", n>>
Pad     == <<"pad", 0>>

Size(text) == Len(text) + 1

Aligned(n, to) == to * ((n + to - 1) \div to)

\* The cells of a text of n bytes, and of one or two numbers.
TextCells(text, n) ==
  <<<<"text", text>>>> \o [k \in 1..(Aligned(n, 4) \div 4 - 1) |-> Pad]
U64Cells(n) == << <<"high", n>>, <<"low", n>> >>

-----------------------------------------------------------------------------
(* Values of properties: their length in bytes and their cells.            *)

Value(len, cells) == [len |-> len, cells |-> cells]

U32(n)          == Value(4, <<Num(n)>>)
U64(n)          == Value(8, U64Cells(n))
Str(text)       == Value(Size(text), TextCells(text, Size(text)))
Empty           == Value(0, <<>>)
U32s(ns)        == Value(4 * Len(ns), [k \in DOMAIN ns |-> Num(ns[k])])
Reg(base, size) == Value(16, U64Cells(base) \o U64Cells(size))
Seed            == Value(32, [k \in 1..8 |-> <<"random", k>>])

\* The calls that dtb_generate makes.
Begin(name)       == [call |-> "begin", name |-> name, value |-> Empty]
End               == [call |-> "end", name |-> "", value |-> Empty]
Prop(name, value) == [call |-> "prop", name |-> name, value |-> value]

\* A device of virtio, and any that has a source of the PLIC.
Interrupt(irq) == Prop("interrupts-extended", U32s(<<2, irq>>))

VirtioNode(name, base, size, irq) ==
  << Begin(name), Prop("compatible", Str("virtio,mmio")),
     Prop("reg", Reg(base, size)), Interrupt(irq), End >>

\* Slip: the literals of the disk are copied and the source is not adapted.
NetNode_DiskIrq == VirtioNode("virtio_mmio@10002000", \h1000200, \h100, 1)

\* This one has literals where the others have the macros of the bus.
NetNode == VirtioNode("virtio_mmio@10002000", \h1000200, \h100, 2)

HasInitrd(initrd) == initrd.start < initrd.end

\* What the kernel is told of the initrd, or of the disk.
InitrdArgs(initrd) ==
  << Prop("linux,initrd-start", U64(initrd.start)),
     Prop("linux,initrd-end", U64(initrd.end)),
     Prop("bootargs", Str("root=/dev/ram0 rw console=ttyS0 earlycon=uart8250,mmio,0x10000000 rdinit=/bin/sh loglevel=8 nosoftlockup nowatchdog")) >>

DiskArgs ==
  << Prop("bootargs", Str("root=/dev/vda rw console=ttyS0 earlycon=uart8250,mmio,0x10000000 init=/bin/sh loglevel=8 nosoftlockup nowatchdog devtmpfs.mount=1")) >>

Chosen(initrd) ==
  << Begin("chosen") >>
  \o (IF HasInitrd(initrd) THEN InitrdArgs(initrd) ELSE DiskArgs)
  \o << Prop("rng-seed", Seed), Prop("stdout-path", Str("/soc/uart@10000000")), End >>

Cpus ==
  << Begin("cpus"),
     Prop("#address-cells", U32(1)), Prop("#size-cells", U32(0)),
     Prop("timebase-frequency", U32(TIMEBASE)),
     Begin("cpu@0"),
     Prop("device_type", Str("cpu")), Prop("reg", U32(0)), Prop("status", Str("okay")),
     Prop("compatible", Str("riscv")), Prop("riscv,isa", Str("rv64imafdc_zicsr_zifencei")),
     Prop("mmu-type", Str("riscv,sv39")),
     Begin("interrupt-controller"),
     Prop("#interrupt-cells", U32(1)), Prop("interrupt-controller", Empty),
     Prop("compatible", Str("riscv,cpu-intc")), Prop("phandle", U32(1)),
     End, End, End >>

Memory(base, size) ==
  << Begin("memory@80000000"), Prop("device_type", Str("memory")),
     Prop("reg", Reg(base, size)), End >>

Clint ==
  << Begin("clint@2000000"),
     Prop("compatible", Str("riscv,clint0")), Prop("reg", Reg(CLINT_BASE, CLINT_SIZE)),
     Prop("interrupts-extended", U32s(<<1, 3, 1, 7>>)), End >>

Plic ==
  << Begin("plic@c000000"),
     Prop("compatible", Str("sifive,plic-1.0.0")), Prop("#interrupt-cells", U32(1)),
     Prop("interrupt-controller", Empty), Prop("reg", Reg(PLIC_BASE, PLIC_SIZE)),
     Prop("riscv,ndev", U32(31)), Prop("phandle", U32(2)),
     Prop("interrupts-extended", U32s(<<1, 11, 1, 9>>)), End >>

Uart ==
  << Begin("uart@10000000"),
     Prop("compatible", Str("ns16550a")), Prop("reg", Reg(UART_BASE, UART_SIZE)),
     Prop("clock-frequency", U32(UART_CLOCK)), Interrupt(IrqOf("uart")), End >>

Test ==
  << Begin("test@100000"),
     Prop("compatible", Str("sifive,test1|sifive,test0|syscon")),
     Prop("reg", Reg(SYSCON_BASE, SYSCON_SIZE)), Prop("phandle", U32(3)), End >>

Soc ==
  << Begin("soc"),
     Prop("#address-cells", U32(2)), Prop("#size-cells", U32(2)),
     Prop("compatible", Str("simple-bus")), Prop("ranges", Empty) >>
  \o Clint \o Plic \o Uart
  \o VirtioNode("virtio_mmio@10001000", VIRTIO_BASE, VIRTIO_SIZE, IrqOf("virtio"))
  \o NetNode
  \o VirtioNode("virtio_mmio@10003000", VIRTRNG_BASE, VIRTRNG_SIZE, IrqOf("virtio_rng"))
  \o Test \o << End >>

Syscon(name, compatible, value) ==
  << Begin(name), Prop("compatible", Str(compatible)),
     Prop("regmap", U32(3)), Prop("offset", U32(0)), Prop("value", U32(value)), End >>

Root ==
  << Begin(""), Prop("#address-cells", U32(2)), Prop("#size-cells", U32(2)),
     Prop("compatible", Str("riscv-virtio")), Prop("model", Str("riscv-virtio,qemu")) >>

\* All calls, in their order.
Calls(memory, initrd) ==
  Root \o Chosen(initrd) \o Cpus \o Memory(memory.base, memory.size) \o Soc
  \o Syscon("poweroff", "syscon-poweroff", \h5555)
  \o Syscon("reboot", "syscon-reboot", \h7777)
  \o << End >>

-----------------------------------------------------------------------------
(* The blocks.  The table of names is the sequence of its strings, each    *)
(* with its offset in bytes.                                               *)

NoBlocks == [sb |-> <<>>, st |-> <<>>, strings |-> 0]

\* sb_begin_node and sb_end_node.
WithCells(blocks, cells) == [blocks EXCEPT !.sb = @ \o cells]

strtab_add(blocks, name) ==
  IF \E k \in DOMAIN blocks.st : blocks.st[k].name = name THEN blocks
  ELSE [blocks EXCEPT !.st = Append(@, [name |-> name, at |-> blocks.strings]),
                      !.strings = @ + Size(name)]

PlaceOf(blocks, name) ==
  LET k == CHOOSE k \in DOMAIN blocks.st : blocks.st[k].name = name IN blocks.st[k].at

\* Slip: the data of a property is not padded to the next cell.
PropCells_Unpadded(value, place) ==
  << Num(FDT_PROP), Num(value.len), Num(place) >>
  \o SubSeq(value.cells, 1, (value.len \div 4))

\* sb_prop: the length is that of the data, the cells are padded.
PropCells(value, place) ==
  << Num(FDT_PROP), Num(value.len), Num(place) >> \o value.cells

\* One call.
Appended(blocks, c) ==
  CASE c.call = "begin" ->
         WithCells(blocks, <<Num(FDT_BEGIN_NODE)>> \o TextCells(c.name, Size(c.name)))
    [] c.call = "end" -> WithCells(blocks, <<Num(FDT_END_NODE)>>)
    [] c.call = "prop" ->
         LET added == strtab_add(blocks, c.name)
         IN WithCells(added, PropCells(c.value, PlaceOf(added, c.name)))

\* The blob: the fields of the header that a reader uses, and what lies at the
\* offset in bytes of each cell, string and entry of the reservation map.
Assembled(blocks, initrd) ==
  LET sb == Append(blocks.sb, Num(FDT_END))
      header_size == 40
      rsv == (IF HasInitrd(initrd) THEN <<<<initrd.start, initrd.end - initrd.start>>>> ELSE <<>>)
               \o <<<<0, 0>>>>
      off_struct == Aligned(header_size + 16 * Len(rsv), 8)
      struct_size == 4 * Len(sb)
      off_strings == off_struct + struct_size
      cells == {off_struct + 4 * (k - 1) : k \in DOMAIN sb}
      names == {off_strings + blocks.st[k].at : k \in DOMAIN blocks.st}
      NameAt(o) == CHOOSE k \in DOMAIN blocks.st : off_strings + blocks.st[k].at = o
  IN [totalsize |-> Aligned(off_strings + blocks.strings, 8),
      off_dt_struct |-> off_struct,
      off_dt_strings |-> off_strings,
      size_dt_struct |-> struct_size,
      rsvmap |-> rsv,
      bytes |-> [o \in cells \cup names |->
                   IF o < off_strings THEN sb[(o - off_struct) \div 4 + 1]
                   ELSE <<"text", blocks.st[NameAt(o)].name>>]]

=============================================================================
