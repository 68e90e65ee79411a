----------------------------- MODULE BootProofs -----------------------------
(***************************************************************************)
(* Proofs about Boot, for files of any size.                               *)
(*                                                                         *)
(* First the tree as a sequence of calls: each is a begin, an end or a     *)
(* property whose value fills its cells, and only the properties of an     *)
(* initrd have those names.  Then the blocks: every call that was appended *)
(* stays where it lies and every name keeps its place in the strings,      *)
(* whether new or shared.  Then the blob: what lay in the blocks is read   *)
(* back behind the offsets of the header, padding and all.  The invariant  *)
(* of the loader joins these with what lies in DRAM; from it follow the    *)
(* types, that the kernel reads the calls that built the tree, and that    *)
(* the images are where the hart and the tree say they are.                *)
(***************************************************************************)
EXTENDS Boot, DataLemmas

-----------------------------------------------------------------------------
(* Sequences whose elements have no type in common.                        *)

IsSeq(s) == Len(s) \in Nat /\ s = [k \in 1..Len(s) |-> s[k]]

LEMMA SeqOfAnything ==
  ASSUME NEW s, IsSeq(s)
  PROVE  s \in Seq(Range(s)) /\ DOMAIN s = 1..Len(s) /\ \A k \in 1..Len(s) : s[k] \in Range(s)
<1>1. DOMAIN s = 1..Len(s)
  BY DEF IsSeq
<1>2. \A k \in 1..Len(s) : s[k] \in Range(s)
  BY <1>1 DEF Range
<1>3. s \in [1..Len(s) -> Range(s)] /\ Len(s) \in Nat
  BY <1>2 DEF IsSeq
<1> QED
  BY <1>1, <1>2, <1>3

LEMMA SeqWider ==
  ASSUME NEW S, NEW T, NEW s \in Seq(S), S \subseteq T
  PROVE  s \in Seq(T)
OBVIOUS

LEMMA SeqIs ==
  ASSUME NEW S, NEW s \in Seq(S)
  PROVE  IsSeq(s)
BY DEF IsSeq

LEMMA Concat ==
  ASSUME NEW s, NEW t, IsSeq(s), IsSeq(t)
  PROVE  /\ IsSeq(s \o t) /\ Len(s \o t) = Len(s) + Len(t)
         /\ Len(s) \in Nat /\ Len(t) \in Nat
         /\ \A k \in 1..Len(s) : (s \o t)[k] = s[k]
         /\ \A k \in 1..Len(t) : (s \o t)[Len(s) + k] = t[k]
<1> DEFINE S == Range(s) \cup Range(t)
<1>1. s \in Seq(S) /\ t \in Seq(S)
  <2>1. s \in Seq(Range(s)) /\ t \in Seq(Range(t))
    BY SeqOfAnything
  <2>2. Range(s) \subseteq S /\ Range(t) \subseteq S
    OBVIOUS
  <2> HIDE DEF S
  <2> QED
    BY <2>1, <2>2, SeqWider
<1> HIDE DEF S
<1>2. /\ s \o t \in Seq(S)
      /\ Len(s \o t) = Len(s) + Len(t)
      /\ \A i \in 1..(Len(s) + Len(t)) : (s \o t)[i] = IF i <= Len(s) THEN s[i] ELSE t[i - Len(s)]
  BY <1>1, ConcatProperties
<1>3. Len(s) \in Nat /\ Len(t) \in Nat
  BY DEF IsSeq
<1>4. IsSeq(s \o t)
  BY <1>2, SeqIs
<1>5. \A k \in 1..Len(s) : (s \o t)[k] = s[k]
  BY <1>2, <1>3
<1>6. \A k \in 1..Len(t) : (s \o t)[Len(s) + k] = t[k]
  <2> TAKE k \in 1..Len(t)
  <2>1. Len(s) + k \in 1..(Len(s) + Len(t)) /\ ~(Len(s) + k <= Len(s)) /\ Len(s) + k - Len(s) = k
    BY <1>3
  <2> QED
    BY <1>2, <2>1
<1> QED
  BY <1>2, <1>3, <1>4, <1>5, <1>6

LEMMA Appending ==
  ASSUME NEW s, NEW v, IsSeq(s)
  PROVE  /\ IsSeq(Append(s, v)) /\ Len(Append(s, v)) = Len(s) + 1
         /\ \A k \in 1..Len(s) : Append(s, v)[k] = s[k]
         /\ Append(s, v)[Len(s) + 1] = v
<1> DEFINE S == Range(s) \cup {v}
<1>1. s \in Seq(S) /\ v \in S
  <2>1. s \in Seq(Range(s))
    BY SeqOfAnything
  <2>2. Range(s) \subseteq S /\ v \in S
    OBVIOUS
  <2> HIDE DEF S
  <2> QED
    BY <2>1, <2>2, SeqWider
<1> HIDE DEF S
<1>2. /\ Append(s, v) \in Seq(S)
      /\ Len(Append(s, v)) = Len(s) + 1
      /\ \A k \in 1..Len(s) : Append(s, v)[k] = s[k]
      /\ Append(s, v)[Len(s) + 1] = v
  BY <1>1, AppendProperties
<1>3. IsSeq(Append(s, v))
  BY <1>2, SeqIs
<1> QED
  BY <1>2, <1>3

-----------------------------------------------------------------------------
(* The calls.                                                              *)

\* A text has a length, the cells of a value are its length in units of a cell.
IsText(text) == Len(text) \in Nat

IsValue(v) ==
  /\ v = Value(v.len, v.cells) /\ v.len \in Nat
  /\ IsSeq(v.cells) /\ Len(v.cells) = Aligned(v.len, 4) \div 4

IsCall(c) ==
  /\ IsText(c.name) /\ IsValue(c.value)
  /\ c = Begin(c.name) \/ c = End \/ c = Prop(c.name, c.value)

LEMMA ValueEmpty == IsValue(Empty)
BY SMT DEF Empty, Value, IsValue, IsSeq, Aligned

LEMMA ValueU32 == ASSUME NEW n PROVE IsValue(U32(n))
BY SMT DEF U32, Value, IsValue, IsSeq, Aligned, Num

LEMMA ValueU64 == ASSUME NEW n PROVE IsValue(U64(n))
BY SMT DEF U64, Value, IsValue, IsSeq, Aligned, U64Cells

LEMMA ValueReg == ASSUME NEW n, NEW m PROVE IsValue(Reg(n, m))
BY SMT DEF Reg, Value, IsValue, IsSeq, Aligned, U64Cells

LEMMA ValueSeed == IsValue(Seed)
BY SMT DEF Seed, Value, IsValue, IsSeq, Aligned

LEMMA AlignedCells ==
  ASSUME NEW n \in Nat
  PROVE  Aligned(4 * n, 4) \div 4 = n
<1>1. (4 * n + 4 - 1) \div 4 = n
  OBVIOUS
<1>2. (4 * n) \div 4 = n
  OBVIOUS
<1> QED
  BY <1>1, <1>2 DEF Aligned

LEMMA ValueU32s ==
  ASSUME NEW ns, IsSeq(ns)
  PROVE  IsValue(U32s(ns))
<1> DEFINE cells == [k \in DOMAIN ns |-> Num(ns[k])]
           len == 4 * Len(ns)
<1>1. DOMAIN ns = 1..Len(ns) /\ Len(ns) \in Nat
  BY DEF IsSeq
<1>2. IsSeq(cells) /\ Len(cells) = Len(ns)
  <2>1. cells \in Seq(Range(cells)) /\ Len(cells) = Len(ns)
    BY <1>1 DEF Range
  <2> QED
    BY <2>1, SeqIs
<1>3. len \in Nat /\ Aligned(len, 4) \div 4 = Len(ns)
  BY <1>1, AlignedCells
<1> HIDE DEF cells, len
<1> QED
  BY <1>2, <1>3 DEF IsValue, U32s, Value, cells, len

LEMMA ValueStr == ASSUME NEW text, IsText(text) PROVE IsValue(Str(text))
BY SMT DEF Str, Value, IsValue, IsSeq, Aligned, TextCells, IsText, Size

\* A part of the tree: calls, of which those that name the initrd give its extent.
Announces(c, extent) ==
  /\ c.name = "linux,initrd-start" => HasInitrd(extent) /\ c.value = U64(extent.start)
  /\ c.name = "linux,initrd-end" => HasInitrd(extent) /\ c.value = U64(extent.end)

Belongs(c, extent) == IsCall(c) /\ (c.call = "prop" => Announces(c, extent))

IsTree(s, extent) == IsSeq(s) /\ \A k \in 1..Len(s) : Belongs(s[k], extent)

Ordinary(name) == IsText(name) /\ name # "linux,initrd-start" /\ name # "linux,initrd-end"

LEMMA BelongsBegin ==
  ASSUME NEW name, NEW extent, IsText(name) PROVE Belongs(Begin(name), extent)
BY SMT, ValueEmpty DEF Belongs, IsCall, Begin

LEMMA BelongsProp ==
  ASSUME NEW name, NEW v, NEW extent, Ordinary(name), IsValue(v)
  PROVE  Belongs(Prop(name, v), extent)
<1>1. PICK c : c = Prop(name, v)
  OBVIOUS
<1>2. c.name = name /\ c.value = v
  BY <1>1 DEF Prop
<1>3. IsCall(c)
  BY <1>1, <1>2 DEF IsCall, Ordinary
<1>4. Announces(c, extent)
  BY <1>2 DEF Announces, Ordinary
<1> QED
  BY <1>1, <1>3, <1>4 DEF Belongs

\* The texts of the tree.  Of Len of a text the provers only know that it is a number.
LEMMA Texts ==
  /\ IsText("") /\ IsText("chosen") /\ IsText("cpus") /\ IsText("cpu@0")
  /\ IsText("cpu") /\ IsText("okay") /\ IsText("riscv")
  /\ IsText("rv64imafdc_zicsr_zifencei") /\ IsText("riscv,sv39")
  /\ IsText("riscv,cpu-intc") /\ IsText("memory@80000000") /\ IsText("memory")
  /\ IsText("soc") /\ IsText("simple-bus") /\ IsText("clint@2000000")
  /\ IsText("riscv,clint0") /\ IsText("plic@c000000")
  /\ IsText("sifive,plic-1.0.0") /\ IsText("uart@10000000")
  /\ IsText("ns16550a") /\ IsText("virtio_mmio@10001000")
  /\ IsText("virtio_mmio@10002000") /\ IsText("virtio_mmio@10003000")
  /\ IsText("virtio,mmio") /\ IsText("test@100000")
  /\ IsText("sifive,test1|sifive,test0|syscon") /\ IsText("poweroff")
  /\ IsText("reboot") /\ IsText("syscon-poweroff") /\ IsText("syscon-reboot")
  /\ IsText("riscv-virtio") /\ IsText("riscv-virtio,qemu")
  /\ IsText("/soc/uart@10000000")
  /\ IsText("root=/dev/ram0 rw console=ttyS0 earlycon=uart8250,mmio,0x10000000 rdinit=/bin/sh loglevel=8 nosoftlockup nowatchdog")
  /\ IsText("root=/dev/vda rw console=ttyS0 earlycon=uart8250,mmio,0x10000000 init=/bin/sh loglevel=8 nosoftlockup nowatchdog devtmpfs.mount=1")
  /\ IsText("#address-cells") /\ IsText("#size-cells") /\ IsText("compatible")
  /\ IsText("model") /\ IsText("bootargs") /\ IsText("rng-seed")
  /\ IsText("stdout-path") /\ IsText("timebase-frequency")
  /\ IsText("device_type") /\ IsText("reg") /\ IsText("status")
  /\ IsText("riscv,isa") /\ IsText("mmu-type") /\ IsText("#interrupt-cells")
  /\ IsText("interrupt-controller") /\ IsText("phandle") /\ IsText("ranges")
  /\ IsText("interrupts-extended") /\ IsText("riscv,ndev")
  /\ IsText("clock-frequency") /\ IsText("regmap") /\ IsText("offset")
  /\ IsText("value") /\ IsText("linux,initrd-start")
  /\ IsText("linux,initrd-end")
<1>1. \A text : Len(text) \in Nat
  OBVIOUS
<1> QED
  BY <1>1, Zenon DEF IsText

LEMMA Names ==
  /\ Ordinary("#address-cells") /\ Ordinary("#size-cells")
  /\ Ordinary("compatible") /\ Ordinary("model") /\ Ordinary("bootargs")
  /\ Ordinary("rng-seed") /\ Ordinary("stdout-path")
  /\ Ordinary("timebase-frequency") /\ Ordinary("device_type")
  /\ Ordinary("reg") /\ Ordinary("status") /\ Ordinary("riscv,isa")
  /\ Ordinary("mmu-type") /\ Ordinary("#interrupt-cells")
  /\ Ordinary("interrupt-controller") /\ Ordinary("phandle")
  /\ Ordinary("ranges") /\ Ordinary("interrupts-extended")
  /\ Ordinary("riscv,ndev") /\ Ordinary("clock-frequency")
  /\ Ordinary("regmap") /\ Ordinary("offset") /\ Ordinary("value")
BY Zenon, Texts DEF Ordinary

LEMMA BelongsEnd ==
  ASSUME NEW extent PROVE Belongs(End, extent)
<1>1. End.name = "" /\ End.value = Empty /\ End.call # "prop"
  BY DEF End
<1>2. IsText(End.name) /\ IsValue(End.value)
  BY <1>1, Texts, ValueEmpty
<1> QED
  BY <1>1, <1>2 DEF IsCall, Belongs

LEMMA TreeConcat ==
  ASSUME NEW s, NEW t, NEW extent, IsTree(s, extent), IsTree(t, extent)
  PROVE  IsTree(s \o t, extent)
<1>1. IsSeq(s) /\ IsSeq(t)
  BY DEF IsTree
<1>2. /\ IsSeq(s \o t) /\ Len(s \o t) = Len(s) + Len(t)
      /\ Len(s) \in Nat /\ Len(t) \in Nat
      /\ \A k \in 1..Len(s) : (s \o t)[k] = s[k]
      /\ \A k \in 1..Len(t) : (s \o t)[Len(s) + k] = t[k]
  BY <1>1, Concat
<1>3. ASSUME NEW k \in 1..Len(s \o t)
      PROVE  Belongs((s \o t)[k], extent)
  <2>1. CASE k \in 1..Len(s)
    BY <1>2, <2>1 DEF IsTree
  <2>2. CASE k - Len(s) \in 1..Len(t)
    <3>1. Len(s) + (k - Len(s)) = k
      BY <1>2
    <3>2. (s \o t)[Len(s) + (k - Len(s))] = t[k - Len(s)]
      BY <1>2, <2>2
    <3> QED
      BY <2>2, <3>1, <3>2 DEF IsTree
  <2> QED
    BY <1>2, <2>1, <2>2
<1> QED
  BY <1>2, <1>3 DEF IsTree

\* The sequence s starts with the sequence p.
Starts(s, p) == IsSeq(p) /\ Len(p) <= Len(s) /\ \A k \in 1..Len(p) : s[k] = p[k]

LEMMA TreeStarts ==
  ASSUME NEW s, NEW t, NEW p, NEW extent, IsTree(s, extent), IsTree(t, extent), Starts(s, p)
  PROVE  IsTree(s \o t, extent) /\ Starts(s \o t, p)
<1>1. IsTree(s \o t, extent)
  BY TreeConcat
<1>2. IsSeq(s) /\ IsSeq(t)
  BY DEF IsTree
<1>3. /\ Len(s \o t) = Len(s) + Len(t) /\ Len(s) \in Nat /\ Len(t) \in Nat
      /\ \A k \in 1..Len(s) : (s \o t)[k] = s[k]
  BY <1>2, Concat
<1>4. Len(p) \in Nat
  BY DEF Starts, IsSeq
<1>5. \A k \in 1..Len(p) : (s \o t)[k] = p[k]
  BY <1>3, <1>4 DEF Starts
<1> QED
  BY <1>1, <1>3, <1>4, <1>5 DEF Starts

LEMMA TreeOf1 ==
  ASSUME NEW c1,
         NEW extent,
         Belongs(c1, extent)
  PROVE  IsTree(<<c1>>, extent)
BY SMT DEF IsTree, IsSeq

LEMMA TreeOf3 ==
  ASSUME NEW c1, NEW c2, NEW c3,
         NEW extent,
         Belongs(c1, extent), Belongs(c2, extent), Belongs(c3, extent)
  PROVE  IsTree(<<c1, c2, c3>>, extent)
BY SMT DEF IsTree, IsSeq

LEMMA TreeOf4 ==
  ASSUME NEW c1, NEW c2, NEW c3, NEW c4,
         NEW extent,
         Belongs(c1, extent), Belongs(c2, extent), Belongs(c3, extent),
         Belongs(c4, extent)
  PROVE  IsTree(<<c1, c2, c3, c4>>, extent)
BY SMT DEF IsTree, IsSeq

LEMMA TreeOf5 ==
  ASSUME NEW c1, NEW c2, NEW c3, NEW c4, NEW c5,
         NEW extent,
         Belongs(c1, extent), Belongs(c2, extent), Belongs(c3, extent),
         Belongs(c4, extent), Belongs(c5, extent)
  PROVE  IsTree(<<c1, c2, c3, c4, c5>>, extent)
BY SMT DEF IsTree, IsSeq

LEMMA TreeOf6 ==
  ASSUME NEW c1, NEW c2, NEW c3, NEW c4, NEW c5, NEW c6,
         NEW extent,
         Belongs(c1, extent), Belongs(c2, extent), Belongs(c3, extent),
         Belongs(c4, extent), Belongs(c5, extent), Belongs(c6, extent)
  PROVE  IsTree(<<c1, c2, c3, c4, c5, c6>>, extent)
BY SMT DEF IsTree, IsSeq

LEMMA TreeOf9 ==
  ASSUME NEW c1, NEW c2, NEW c3, NEW c4, NEW c5, NEW c6, NEW c7, NEW
         c8, NEW c9,
         NEW extent,
         Belongs(c1, extent), Belongs(c2, extent), Belongs(c3, extent),
         Belongs(c4, extent), Belongs(c5, extent), Belongs(c6,
         extent), Belongs(c7, extent), Belongs(c8, extent),
         Belongs(c9, extent)
  PROVE  IsTree(<<c1, c2, c3, c4, c5, c6, c7, c8, c9>>, extent)
BY SMT DEF IsTree, IsSeq

LEMMA TreeOf19 ==
  ASSUME NEW c1, NEW c2, NEW c3, NEW c4, NEW c5, NEW c6, NEW c7, NEW c8,
         NEW c9, NEW c10, NEW c11, NEW c12, NEW c13, NEW c14, NEW c15,
         NEW c16, NEW c17, NEW c18, NEW c19,
         NEW extent,
         Belongs(c1, extent), Belongs(c2, extent), Belongs(c3, extent),
         Belongs(c4, extent), Belongs(c5, extent), Belongs(c6, extent),
         Belongs(c7, extent), Belongs(c8, extent), Belongs(c9, extent),
         Belongs(c10, extent), Belongs(c11, extent), Belongs(c12, extent),
         Belongs(c13, extent), Belongs(c14, extent), Belongs(c15, extent),
         Belongs(c16, extent), Belongs(c17, extent), Belongs(c18, extent),
         Belongs(c19, extent)
  PROVE  IsTree(<<c1, c2, c3, c4, c5, c6, c7, c8, c9, c10, c11, c12, c13,
                   c14, c15, c16, c17, c18, c19>>, extent)
BY SMT DEF IsTree, IsSeq

LEMMA BelongsU32s ==
  ASSUME NEW name, NEW ns, NEW extent, Ordinary(name), IsSeq(ns)
  PROVE  Belongs(Prop(name, U32s(ns)), extent)
BY BelongsProp, ValueU32s

LEMMA Cells ==
  /\ \A a, b : IsSeq(<<a, b>>)
  /\ \A a, b, c, d : IsSeq(<<a, b, c, d>>)
BY SMT DEF IsSeq

LEMMA BelongsStr ==
  ASSUME NEW name, NEW text, NEW extent, Ordinary(name), IsText(text)
  PROVE  Belongs(Prop(name, Str(text)), extent)
BY BelongsProp, ValueStr

LEMMA BelongsU32 ==
  ASSUME NEW name, NEW n, NEW extent, Ordinary(name)
  PROVE  Belongs(Prop(name, U32(n)), extent)
BY BelongsProp, ValueU32

LEMMA BelongsReg ==
  ASSUME NEW name, NEW base, NEW size, NEW extent, Ordinary(name)
  PROVE  Belongs(Prop(name, Reg(base, size)), extent)
BY BelongsProp, ValueReg

LEMMA BelongsEmpty ==
  ASSUME NEW name, NEW extent, Ordinary(name)
  PROVE  Belongs(Prop(name, Empty), extent)
BY BelongsProp, ValueEmpty

LEMMA BelongsInterrupt ==
  ASSUME NEW irq, NEW extent
  PROVE  Belongs(Interrupt(irq), extent)
BY Zenon, Names, Cells, BelongsU32s DEF Interrupt

LEMMA TreeMemory ==
  ASSUME NEW base, NEW size, NEW extent
  PROVE  IsTree(Memory(base, size), extent)
<1>1. /\ Belongs(Begin("memory@80000000"), extent)
      /\ Belongs(Prop("device_type", Str("memory")), extent)
      /\ Belongs(Prop("reg", Reg(base, size)), extent)
      /\ Belongs(End, extent)
  BY Zenon, Texts, Names, BelongsBegin, BelongsStr, BelongsReg, BelongsEnd
<1> QED
  BY <1>1, Zenon, TreeOf4 DEF Memory

LEMMA TreeCpus ==
  ASSUME NEW extent
  PROVE  IsTree(Cpus, extent)
<1>1. /\ Belongs(Begin("cpus"), extent)
      /\ Belongs(Prop("#address-cells", U32(1)), extent)
      /\ Belongs(Prop("#size-cells", U32(0)), extent)
      /\ Belongs(Prop("timebase-frequency", U32(TIMEBASE)), extent)
      /\ Belongs(Begin("cpu@0"), extent)
      /\ Belongs(Prop("device_type", Str("cpu")), extent)
      /\ Belongs(Prop("reg", U32(0)), extent)
      /\ Belongs(Prop("status", Str("okay")), extent)
      /\ Belongs(Prop("compatible", Str("riscv")), extent)
      /\ Belongs(Prop("riscv,isa", Str("rv64imafdc_zicsr_zifencei")), extent)
      /\ Belongs(Prop("mmu-type", Str("riscv,sv39")), extent)
      /\ Belongs(Begin("interrupt-controller"), extent)
      /\ Belongs(Prop("#interrupt-cells", U32(1)), extent)
      /\ Belongs(Prop("interrupt-controller", Empty), extent)
      /\ Belongs(Prop("compatible", Str("riscv,cpu-intc")), extent)
      /\ Belongs(Prop("phandle", U32(1)), extent)
      /\ Belongs(End, extent)
      /\ Belongs(End, extent)
      /\ Belongs(End, extent)
  BY Zenon, Texts, Names, BelongsBegin, BelongsStr, BelongsU32, BelongsEmpty, BelongsEnd
<1> QED
  BY <1>1, Zenon, TreeOf19 DEF Cpus

LEMMA TreeVirtio ==
  ASSUME NEW name, NEW base, NEW size, NEW irq, NEW extent, IsText(name)
  PROVE  IsTree(VirtioNode(name, base, size, irq), extent)
<1>1. /\ Belongs(Begin(name), extent)
      /\ Belongs(Prop("compatible", Str("virtio,mmio")), extent)
      /\ Belongs(Prop("reg", Reg(base, size)), extent)
      /\ Belongs(Interrupt(irq), extent)
      /\ Belongs(End, extent)
  BY Zenon, Texts, Names, BelongsBegin, BelongsStr, BelongsReg, BelongsInterrupt, BelongsEnd
<1> QED
  BY <1>1, Zenon, TreeOf5 DEF VirtioNode

LEMMA TreeSyscon ==
  ASSUME NEW name, NEW compatible, NEW value, NEW extent, IsText(name), IsText(compatible)
  PROVE  IsTree(Syscon(name, compatible, value), extent)
<1>1. /\ Belongs(Begin(name), extent)
      /\ Belongs(Prop("compatible", Str(compatible)), extent)
      /\ Belongs(Prop("regmap", U32(3)), extent)
      /\ Belongs(Prop("offset", U32(0)), extent)
      /\ Belongs(Prop("value", U32(value)), extent)
      /\ Belongs(End, extent)
  BY Zenon, Texts, Names, BelongsBegin, BelongsStr, BelongsU32, BelongsEnd
<1> QED
  BY <1>1, Zenon, TreeOf6 DEF Syscon

LEMMA TreeClint ==
  ASSUME NEW extent
  PROVE  IsTree(Clint, extent)
<1>1. PICK wires : wires = <<1, 3, 1, 7>>
  OBVIOUS
<1>2. IsSeq(wires)
  BY <1>1, Cells
<1>3. /\ Belongs(Begin("clint@2000000"), extent)
      /\ Belongs(Prop("compatible", Str("riscv,clint0")), extent)
      /\ Belongs(Prop("reg", Reg(CLINT_BASE, CLINT_SIZE)), extent)
      /\ Belongs(Prop("interrupts-extended", U32s(wires)), extent)
      /\ Belongs(End, extent)
  BY Zenon, <1>2, Texts, Names, BelongsBegin, BelongsStr, BelongsReg, BelongsU32s, BelongsEnd
<1> QED
  BY <1>1, <1>3, Zenon, TreeOf5 DEF Clint

LEMMA TreePlic ==
  ASSUME NEW extent
  PROVE  IsTree(Plic, extent)
<1>1. PICK wires : wires = <<1, 11, 1, 9>>
  OBVIOUS
<1>2. IsSeq(wires)
  BY <1>1, Cells
<1>3. /\ Belongs(Begin("plic@c000000"), extent)
      /\ Belongs(Prop("compatible", Str("sifive,plic-1.0.0")), extent)
      /\ Belongs(Prop("#interrupt-cells", U32(1)), extent)
      /\ Belongs(Prop("interrupt-controller", Empty), extent)
      /\ Belongs(Prop("reg", Reg(PLIC_BASE, PLIC_SIZE)), extent)
      /\ Belongs(Prop("riscv,ndev", U32(31)), extent)
      /\ Belongs(Prop("phandle", U32(2)), extent)
      /\ Belongs(Prop("interrupts-extended", U32s(wires)), extent)
      /\ Belongs(End, extent)
  BY Zenon, <1>2, Texts, Names, BelongsBegin, BelongsStr, BelongsU32, BelongsReg, BelongsU32s,
     BelongsEmpty, BelongsEnd
<1> QED
  BY <1>1, <1>3, Zenon, TreeOf9 DEF Plic

LEMMA TreeUart ==
  ASSUME NEW extent
  PROVE  IsTree(Uart, extent)
<1>1. /\ Belongs(Begin("uart@10000000"), extent)
      /\ Belongs(Prop("compatible", Str("ns16550a")), extent)
      /\ Belongs(Prop("reg", Reg(UART_BASE, UART_SIZE)), extent)
      /\ Belongs(Prop("clock-frequency", U32(UART_CLOCK)), extent)
      /\ Belongs(Interrupt(IrqOf("uart")), extent)
      /\ Belongs(End, extent)
  BY Zenon, Texts, Names, BelongsBegin, BelongsStr, BelongsU32, BelongsReg, BelongsInterrupt,
     BelongsEnd
<1> QED
  BY <1>1, Zenon, TreeOf6 DEF Uart

LEMMA TreeTest ==
  ASSUME NEW extent
  PROVE  IsTree(Test, extent)
<1>1. /\ Belongs(Begin("test@100000"), extent)
      /\ Belongs(Prop("compatible", Str("sifive,test1|sifive,test0|syscon")), extent)
      /\ Belongs(Prop("reg", Reg(SYSCON_BASE, SYSCON_SIZE)), extent)
      /\ Belongs(Prop("phandle", U32(3)), extent)
      /\ Belongs(End, extent)
  BY Zenon, Texts, Names, BelongsBegin, BelongsStr, BelongsU32, BelongsReg, BelongsEnd
<1> QED
  BY <1>1, Zenon, TreeOf5 DEF Test

LEMMA TreeNet ==
  ASSUME NEW extent PROVE IsTree(NetNode, extent)
<1>1. PICK base : base = \h1000200
  OBVIOUS
<1>2. PICK size : size = \h100
  OBVIOUS
<1>3. NetNode = VirtioNode("virtio_mmio@10002000", base, size, 2)
  BY <1>1, <1>2, SMT DEF NetNode
<1> QED
  BY <1>3, Zenon, TreeVirtio, Texts

LEMMA TreeSoc ==
  ASSUME NEW extent
  PROVE  IsTree(Soc, extent)
<1>1. PICK head : head = << Begin("soc"),
     Prop("#address-cells", U32(2)), Prop("#size-cells", U32(2)),
     Prop("compatible", Str("simple-bus")), Prop("ranges", Empty) >>
  OBVIOUS
<1>2. IsTree(head, extent)
  <2>1. /\ Belongs(Begin("soc"), extent)
        /\ Belongs(Prop("#address-cells", U32(2)), extent)
        /\ Belongs(Prop("#size-cells", U32(2)), extent)
        /\ Belongs(Prop("compatible", Str("simple-bus")), extent)
        /\ Belongs(Prop("ranges", Empty), extent)
    BY Zenon, Texts, Names, BelongsBegin, BelongsStr, BelongsU32, BelongsEmpty
  <2> QED
    BY <1>1, <2>1, Zenon, TreeOf5
<1>3. PICK blk : blk = VirtioNode("virtio_mmio@10001000", VIRTIO_BASE, VIRTIO_SIZE, IrqOf("virtio"))
  OBVIOUS
<1>4. PICK rng : rng = VirtioNode("virtio_mmio@10003000", VIRTRNG_BASE, VIRTRNG_SIZE, IrqOf("virtio_rng"))
  OBVIOUS
<1>5. IsTree(blk, extent) /\ IsTree(rng, extent)
  BY <1>3, <1>4, Zenon, TreeVirtio, Texts
<1>6. PICK tail : tail = << End >>
  OBVIOUS
<1>7. IsTree(tail, extent)
  BY <1>6, TreeOf1, BelongsEnd
<1>8. Soc = head \o Clint \o Plic \o Uart \o blk \o NetNode \o rng \o Test \o tail
  BY <1>1, <1>3, <1>4, <1>6, SMT DEF Soc
<1>9. IsTree(head \o Clint \o Plic \o Uart, extent)
  BY <1>2, TreeClint, TreePlic, TreeUart, TreeConcat, SMT
<1>10. IsTree(head \o Clint \o Plic \o Uart \o blk \o NetNode \o rng, extent)
  BY <1>5, <1>9, TreeNet, TreeConcat, SMT
<1> QED
  BY <1>7, <1>8, <1>10, TreeTest, TreeConcat, SMT

\* The two properties that announce the initrd do so with its extent.
LEMMA TreeInitrdArgs ==
  ASSUME NEW extent, HasInitrd(extent)
  PROVE  /\ IsTree(InitrdArgs(extent), extent) /\ Len(InitrdArgs(extent)) = 3
         /\ InitrdArgs(extent)[1] = Prop("linux,initrd-start", U64(extent.start))
         /\ InitrdArgs(extent)[2] = Prop("linux,initrd-end", U64(extent.end))
<1>1. PICK a : a = Prop("linux,initrd-start", U64(extent.start))
  BY Zenon
<1>2. PICK b : b = Prop("linux,initrd-end", U64(extent.end))
  BY Zenon
<1>3. PICK c : c = Prop("bootargs", Str("root=/dev/ram0 rw console=ttyS0 earlycon=uart8250,mmio,0x10000000 rdinit=/bin/sh loglevel=8 nosoftlockup nowatchdog"))
  BY Zenon
<1>4. Belongs(c, extent)
  BY <1>3, Zenon, Texts, Names, BelongsStr
<1>5. PICK first, second : /\ first = "linux,initrd-start" /\ second = "linux,initrd-end"
                           /\ IsText(first) /\ IsText(second)
  BY Zenon, Texts
<1>14. first # second /\ IsText(first) /\ IsText(second)
  BY <1>5, Zenon
<1>6. a = Prop(first, U64(extent.start)) /\ b = Prop(second, U64(extent.end))
  BY <1>1, <1>2, <1>5, Zenon
<1>7. /\ a.name = first /\ a.value = U64(extent.start)
      /\ b.name = second /\ b.value = U64(extent.end)
  BY <1>6, SMT DEF Prop
<1>8. IsCall(a) /\ IsCall(b)
  BY <1>6, <1>7, <1>14, ValueU64, SMT DEF IsCall
<1>9. \A d : Announces(d, extent) <=>
               /\ d.name = first => HasInitrd(extent) /\ d.value = U64(extent.start)
               /\ d.name = second => HasInitrd(extent) /\ d.value = U64(extent.end)
  BY <1>5, Zenon DEF Announces
<1>10. Belongs(a, extent) /\ Belongs(b, extent)
  BY <1>7, <1>8, <1>9, <1>14, SMT DEF Belongs
<1>11. InitrdArgs(extent) = <<a, b, c>>
  BY <1>1, <1>2, <1>3, Zenon DEF InitrdArgs
<1>12. Len(<<a, b, c>>) = 3 /\ <<a, b, c>>[1] = a /\ <<a, b, c>>[2] = b
  BY SMT
<1>13. IsTree(<<a, b, c>>, extent)
  BY <1>4, <1>10, TreeOf3
<1> QED
  BY <1>1, <1>2, <1>11, <1>12, <1>13, Zenon

LEMMA TreeDiskArgs ==
  ASSUME NEW extent PROVE IsTree(DiskArgs, extent)
<1>1. Belongs(Prop("bootargs", Str("root=/dev/vda rw console=ttyS0 earlycon=uart8250,mmio,0x10000000 init=/bin/sh loglevel=8 nosoftlockup nowatchdog devtmpfs.mount=1")), extent)
  BY Zenon, Texts, Names, BelongsStr
<1> QED
  BY <1>1, Zenon, TreeOf1 DEF DiskArgs

LEMMA TreeRoot ==
  ASSUME NEW extent
  PROVE  /\ IsTree(Root, extent) /\ Len(Root) = 5 /\ Root[1] = Begin("")
         /\ \A k \in 2..5 : Root[k].call = "prop"
<1>1. PICK a, b, c, d, e :
        /\ a = Begin("") /\ b = Prop("#address-cells", U32(2)) /\ c = Prop("#size-cells", U32(2))
        /\ d = Prop("compatible", Str("riscv-virtio"))
        /\ e = Prop("model", Str("riscv-virtio,qemu"))
  BY Zenon
<1>2. /\ Belongs(a, extent) /\ Belongs(b, extent) /\ Belongs(c, extent)
      /\ Belongs(d, extent) /\ Belongs(e, extent)
  BY <1>1, Zenon, Texts, Names, BelongsBegin, BelongsStr, BelongsU32
<1>3. \A name, v : Prop(name, v).call = "prop"
  BY SMT DEF Prop
<1>4. b.call = "prop" /\ c.call = "prop" /\ d.call = "prop" /\ e.call = "prop"
  BY <1>1, <1>3, Zenon
<1>5. Root = <<a, b, c, d, e>>
  BY <1>1, Zenon DEF Root
<1>6. PICK r : r = <<a, b, c, d, e>>
  OBVIOUS
<1>7. Len(r) = 5 /\ r[1] = a /\ \A k \in 2..5 : r[k] \in {b, c, d, e}
  BY <1>6, SMT
<1>8. IsTree(r, extent)
  BY <1>2, <1>6, TreeOf5
<1>9. \A k \in 2..5 : r[k].call = "prop"
  BY <1>4, <1>7, Zenon
<1> QED
  BY <1>1, <1>5, <1>6, <1>7, <1>8, <1>9, Zenon

LEMMA TreeChosen ==
  ASSUME NEW extent
  PROVE  /\ IsTree(Chosen(extent), extent)
         /\ HasInitrd(extent) =>
              /\ Len(Chosen(extent)) >= 3 /\ Chosen(extent)[1] = Begin("chosen")
              /\ Chosen(extent)[2] = Prop("linux,initrd-start", U64(extent.start))
              /\ Chosen(extent)[3] = Prop("linux,initrd-end", U64(extent.end))
<1>1. PICK head : head = << Begin("chosen") >>
  OBVIOUS
<1>2. PICK tail : tail = << Prop("rng-seed", Seed), Prop("stdout-path", Str("/soc/uart@10000000")), End >>
  OBVIOUS
<1>3. PICK args : args = IF HasInitrd(extent) THEN InitrdArgs(extent) ELSE DiskArgs
  OBVIOUS
<1>4. Chosen(extent) = head \o args \o tail
  BY <1>1, <1>2, <1>3, SMT DEF Chosen
<1>5. IsTree(head, extent) /\ Len(head) = 1 /\ head[1] = Begin("chosen")
  <2>1. Belongs(Begin("chosen"), extent)
    BY Zenon, Texts, BelongsBegin
  <2>2. IsTree(head, extent)
    BY <1>1, <2>1, Zenon, TreeOf1
  <2> QED
    BY <1>1, <2>2, SMT
<1>6. IsTree(tail, extent)
  <2>1. /\ Belongs(Prop("rng-seed", Seed), extent)
        /\ Belongs(Prop("stdout-path", Str("/soc/uart@10000000")), extent)
        /\ Belongs(End, extent)
    BY Zenon, Texts, Names, BelongsProp, ValueSeed, BelongsStr, BelongsEnd
  <2> QED
    BY <1>2, <2>1, Zenon, TreeOf3
<1>7. IsTree(args, extent)
  BY <1>3, TreeInitrdArgs, TreeDiskArgs, Zenon
<1>8. IsTree(head \o args, extent) /\ IsTree(head \o args \o tail, extent)
  BY <1>5, <1>6, <1>7, TreeConcat, SMT
<1>9. ASSUME HasInitrd(extent)
      PROVE  /\ Len(Chosen(extent)) >= 3 /\ Chosen(extent)[1] = Begin("chosen")
             /\ Chosen(extent)[2] = Prop("linux,initrd-start", U64(extent.start))
             /\ Chosen(extent)[3] = Prop("linux,initrd-end", U64(extent.end))
  <2>1. PICK a : a = Prop("linux,initrd-start", U64(extent.start))
    BY Zenon
  <2>2. PICK b : b = Prop("linux,initrd-end", U64(extent.end))
    BY Zenon
  <2>3. Len(args) = 3 /\ args[1] = a /\ args[2] = b
    BY <1>3, <1>9, <2>1, <2>2, TreeInitrdArgs, Zenon
  <2>4. IsSeq(head) /\ IsSeq(args) /\ IsSeq(tail)
    BY <1>5, <1>6, <1>7 DEF IsTree
  <2>5. PICK front : front = head \o args
    OBVIOUS
  <2>6. IsSeq(front) /\ Len(front) = 4 /\ front[1] = head[1] /\ front[2] = a /\ front[3] = b
    <3>1. /\ IsSeq(front) /\ Len(front) = Len(head) + Len(args)
          /\ \A k \in 1..Len(head) : front[k] = head[k]
          /\ \A k \in 1..Len(args) : front[Len(head) + k] = args[k]
      BY <2>4, <2>5, Concat, SMT
    <3>2. front[1 + 1] = args[1] /\ front[1 + 2] = args[2] /\ front[1] = head[1]
      BY <1>5, <2>3, <3>1, SMT
    <3> QED
      BY <1>5, <2>3, <3>1, <3>2, SMT
  <2>7. PICK all : all = front \o tail
    OBVIOUS
  <2>8. /\ Len(all) = Len(front) + Len(tail) /\ Len(tail) \in Nat
        /\ \A k \in 1..Len(front) : all[k] = front[k]
    <3>1. IsSeq(front) /\ IsSeq(tail)
      BY <2>4, <2>6
    <3>2. /\ Len(front \o tail) = Len(front) + Len(tail) /\ Len(tail) \in Nat
          /\ \A k \in 1..Len(front) : (front \o tail)[k] = front[k]
      BY <3>1, Concat, SMT
    <3> QED
      BY <2>7, <3>2, SMT
  <2>9. Len(all) >= 3 /\ all[1] = head[1] /\ all[2] = a /\ all[3] = b
    BY <2>6, <2>8, SMT
  <2>10. Chosen(extent) = all
    BY <1>4, <2>5, <2>7, SMT
  <2>11. Len(Chosen(extent)) >= 3
    BY <2>9, <2>10, SMT
  <2>12. Chosen(extent)[1] = Begin("chosen")
    BY <1>5, <2>9, <2>10, SMT
  <2>13. Chosen(extent)[2] = a /\ Chosen(extent)[3] = b
    BY <2>9, <2>10, SMT
  <2> QED
    BY <2>1, <2>2, <2>11, <2>12, <2>13, Zenon
<1>10. IsTree(Chosen(extent), extent)
  BY <1>4, <1>8, SMT
<1> QED
  BY <1>9, <1>10, Zenon
\* The calls are a tree whose head is known as far as the initrd's extent.
LEMMA TreeCalls ==
  ASSUME NEW memory, NEW extent
  PROVE  /\ IsTree(Calls(memory, extent), extent)
         /\ Calls(memory, extent)[1] = Begin("")
         /\ \A k \in 2..5 : Calls(memory, extent)[k].call = "prop"
         /\ HasInitrd(extent) =>
              /\ Len(Calls(memory, extent)) >= 8
              /\ Calls(memory, extent)[6] = Begin("chosen")
              /\ Calls(memory, extent)[7] = Prop("linux,initrd-start", U64(extent.start))
              /\ Calls(memory, extent)[8] = Prop("linux,initrd-end", U64(extent.end))
<1>1. PICK off : off = Syscon("poweroff", "syscon-poweroff", \h5555)
  OBVIOUS
<1>2. PICK reboot : reboot = Syscon("reboot", "syscon-reboot", \h7777)
  OBVIOUS
<1>3. PICK last : last = << End >>
  OBVIOUS
<1>4. IsTree(off, extent)
  <2>1. PICK value : value = \h5555
    OBVIOUS
  <2>2. off = Syscon("poweroff", "syscon-poweroff", value)
    BY <1>1, <2>1, SMT
  <2> QED
    BY <2>2, Zenon, Texts, TreeSyscon
<1>5. IsTree(reboot, extent)
  <2>1. PICK value : value = \h7777
    OBVIOUS
  <2>2. reboot = Syscon("reboot", "syscon-reboot", value)
    BY <1>2, <2>1, SMT
  <2> QED
    BY <2>2, Zenon, Texts, TreeSyscon
<1>6. IsTree(last, extent)
  BY <1>3, TreeOf1, BelongsEnd
<1>7. PICK chosen : chosen = Chosen(extent)
  OBVIOUS
<1>8. PICK ram : ram = Memory(memory.base, memory.size)
  OBVIOUS
<1>9. Calls(memory, extent) = Root \o chosen \o Cpus \o ram \o Soc \o off \o reboot \o last
  BY <1>1, <1>2, <1>3, <1>7, <1>8, SMT DEF Calls
<1>10. IsTree(Root, extent) /\ IsTree(chosen, extent) /\ IsTree(ram, extent)
  <2>1. IsTree(Root, extent)
    BY Zenon, TreeRoot
  <2>2. IsTree(chosen, extent)
    BY <1>7, Zenon, TreeChosen
  <2>3. IsTree(ram, extent)
    BY <1>8, Zenon, TreeMemory
  <2> QED
    BY <2>1, <2>2, <2>3
<1>11. PICK front : front = Root \o chosen
  OBVIOUS
<1>12. IsTree(front, extent) /\ Starts(front, front)
  <2>1. IsTree(front, extent)
    BY <1>10, <1>11, TreeConcat, SMT
  <2> QED
    BY <2>1 DEF IsTree, IsSeq, Starts
<1>13. PICK a : a = front \o Cpus
  OBVIOUS
<1>14. IsTree(a, extent) /\ Starts(a, front)
  BY <1>12, <1>13, TreeCpus, TreeStarts, SMT
<1>15. PICK b : b = a \o ram
  OBVIOUS
<1>16. IsTree(b, extent) /\ Starts(b, front)
  BY <1>10, <1>14, <1>15, TreeStarts, SMT
<1>17. PICK c : c = b \o Soc
  OBVIOUS
<1>18. IsTree(c, extent) /\ Starts(c, front)
  BY <1>16, <1>17, TreeSoc, TreeStarts, SMT
<1>19. PICK d : d = c \o off
  OBVIOUS
<1>20. IsTree(d, extent) /\ Starts(d, front)
  BY <1>4, <1>18, <1>19, TreeStarts, SMT
<1>21. PICK e : e = d \o reboot
  OBVIOUS
<1>22. IsTree(e, extent) /\ Starts(e, front)
  BY <1>5, <1>20, <1>21, TreeStarts, SMT
<1>23. PICK all : all = e \o last
  OBVIOUS
<1>24. IsTree(all, extent) /\ Starts(all, front)
  BY <1>6, <1>22, <1>23, TreeStarts, SMT
<1>25. Calls(memory, extent) = all
  BY <1>9, <1>11, <1>13, <1>15, <1>17, <1>19, <1>21, <1>23, SMT
<1>26. /\ Len(Root) = 5 /\ Len(chosen) \in Nat /\ Len(front) = Len(Root) + Len(chosen)
       /\ \A k \in 1..Len(Root) : front[k] = Root[k]
       /\ \A k \in 1..Len(chosen) : front[Len(Root) + k] = chosen[k]
  <2>1. IsSeq(Root) /\ IsSeq(chosen)
    BY <1>10 DEF IsTree
  <2>2. Len(Root) = 5
    BY Zenon, TreeRoot
  <2>3. /\ Len(chosen) \in Nat /\ Len(Root \o chosen) = Len(Root) + Len(chosen)
        /\ \A k \in 1..Len(Root) : (Root \o chosen)[k] = Root[k]
        /\ \A k \in 1..Len(chosen) : (Root \o chosen)[Len(Root) + k] = chosen[k]
    BY <2>1, Concat, SMT
  <2> QED
    BY <1>11, <2>2, <2>3, SMT
<1>27. /\ all[1] = Root[1] /\ \A k \in 2..5 : all[k] = Root[k]
       /\ \A k \in 1..Len(chosen) : all[5 + k] = chosen[k]
       /\ Len(all) >= 5 + Len(chosen)
  BY <1>24, <1>26, SMT DEF Starts
<1>28. all[1] = Begin("") /\ \A k \in 2..5 : all[k].call = "prop"
  <2>1. all[1] = Begin("")
    BY <1>27, TreeRoot, Zenon
  <2>2. \A k \in 2..5 : Root[k].call = "prop"
    BY TreeRoot, Zenon
  <2>3. \A k \in 2..5 : all[k].call = "prop"
    BY <1>27, <2>2, Zenon
  <2> QED
    BY <2>1, <2>3, Zenon
<1>29. ASSUME HasInitrd(extent)
       PROVE  /\ Len(all) >= 8 /\ all[6] = Begin("chosen")
              /\ all[7] = Prop("linux,initrd-start", U64(extent.start))
              /\ all[8] = Prop("linux,initrd-end", U64(extent.end))
  <2>1. /\ Len(chosen) >= 3 /\ chosen[1] = Begin("chosen")
        /\ chosen[2] = Prop("linux,initrd-start", U64(extent.start))
        /\ chosen[3] = Prop("linux,initrd-end", U64(extent.end))
    BY <1>7, <1>29, TreeChosen, Zenon
  <2>2. Len(chosen) >= 3
    BY <2>1, Zenon
  <2>3. /\ all[5 + 1] = chosen[1] /\ all[5 + 2] = chosen[2] /\ all[5 + 3] = chosen[3]
        /\ Len(all) >= 8
    BY <1>26, <1>27, <2>2, SMT
  <2>4. all[6] = chosen[1] /\ all[7] = chosen[2] /\ all[8] = chosen[3] /\ Len(all) >= 8
    BY <2>3, SMT
  <2> QED
    BY <2>1, <2>4, Zenon
<1> QED
  BY <1>24, <1>25, <1>28, <1>29, Zenon

-----------------------------------------------------------------------------
(* Where the calls lie in the structure block.                             *)

\* The cells that a call adds to the structure block.
Width(c) ==
  CASE c.call = "begin" -> 1 + Aligned(Size(c.name), 4) \div 4
    [] c.call = "end"   -> 1
    [] c.call = "prop"  -> 3 + Len(c.value.cells)

\* The number of cells that the first n calls add.
Places(calls) ==
  LET before[n \in 0..Len(calls)] ==
        IF n = 0 THEN 0 ELSE before[n - 1] + Width(calls[n])
  IN before

LEMMA TextCellsAre ==
  ASSUME NEW text, IsText(text)
  PROVE  /\ IsSeq(TextCells(text, Size(text)))
         /\ Len(TextCells(text, Size(text))) = Aligned(Size(text), 4) \div 4
         /\ TextCells(text, Size(text))[1] = <<"text", text>>
         /\ Aligned(Size(text), 4) \div 4 \in Nat \ {0}
         /\ Aligned(Size(text), 4) = 4 * (Aligned(Size(text), 4) \div 4)
<1>1. PICK n : n = Len(text) + 1
  OBVIOUS
<1>2. n \in Nat \ {0} /\ Size(text) = n
  BY <1>1 DEF IsText, Size
<1>3. PICK m : m = Aligned(n, 4) \div 4
  OBVIOUS
<1>4. m \in Nat \ {0} /\ Aligned(n, 4) = 4 * m
  BY <1>2, <1>3, SMT DEF Aligned
<1>5. PICK head : head = << <<"text", text>> >>
  OBVIOUS
<1>6. PICK pads : pads = [k \in 1..(m - 1) |-> Pad]
  OBVIOUS
<1>7. TextCells(text, n) = head \o pads
  BY <1>3, <1>5, <1>6, SMT DEF TextCells
<1>8. IsSeq(head) /\ Len(head) = 1 /\ head[1] = <<"text", text>>
  BY <1>5, SMT DEF IsSeq
<1>9. IsSeq(pads) /\ Len(pads) = m - 1
  BY <1>4, <1>6, SMT DEF IsSeq
<1>10. IsSeq(head \o pads) /\ Len(head \o pads) = m /\ (head \o pads)[1] = <<"text", text>>
  <2>1. /\ IsSeq(head \o pads) /\ Len(head \o pads) = Len(head) + Len(pads)
        /\ \A k \in 1..Len(head) : (head \o pads)[k] = head[k]
    <3>1. IsSeq(head) /\ IsSeq(pads)
      BY <1>8, <1>9
    <3> QED
      BY <3>1, Concat, SMT
  <2>2. (head \o pads)[1] = head[1]
    BY <1>8, <2>1, SMT
  <2> QED
    BY <1>4, <1>8, <1>9, <2>1, <2>2, SMT
<1> QED
  BY <1>2, <1>3, <1>4, <1>7, <1>10, SMT

LEMMA WidthOf ==
  ASSUME NEW c, IsCall(c)
  PROVE  /\ Width(c) \in Nat \ {0}
         /\ c.call \in {"begin", "end", "prop"}
         /\ c.call = "begin" =>
              /\ Width(c) = 1 + Aligned(Size(c.name), 4) \div 4 /\ Width(c) >= 2
              /\ c = Begin(c.name)
         /\ c.call = "end" => Width(c) = 1 /\ c = End
         /\ c.call = "prop" => /\ Width(c) = 3 + Len(c.value.cells) /\ Len(c.value.cells) \in Nat
                               /\ c = Prop(c.name, c.value)
<1>1. /\ Aligned(Size(c.name), 4) \div 4 \in Nat \ {0} /\ Len(c.value.cells) \in Nat
  <2>1. IsText(c.name) /\ IsSeq(c.value.cells)
    BY DEF IsCall, IsValue
  <2>2. Aligned(Size(c.name), 4) \div 4 \in Nat \ {0}
    BY <2>1, TextCellsAre
  <2> QED
    BY <2>1, <2>2 DEF IsSeq
<1>2. /\ c.call \in {"begin", "end", "prop"}
      /\ c.call = "begin" => c = Begin(c.name)
      /\ c.call = "end" => c = End
      /\ c.call = "prop" => c = Prop(c.name, c.value)
  <2>1. CASE c = Begin(c.name)
    <3>1. c.call = "begin"
      BY <2>1, SMT DEF Begin
    <3> QED
      BY <2>1, <3>1, SMT
  <2>2. CASE c = Prop(c.name, c.value)
    <3>1. c.call = "prop"
      BY <2>2, SMT DEF Prop
    <3> QED
      BY <2>2, <3>1, SMT
  <2>3. CASE c = End
    <3>1. End.call = "end"
      BY DEF End
    <3>2. c.call = "end"
      BY <2>3, <3>1, Zenon
    <3> QED
      BY <2>3, <3>2, SMT
  <2> QED
    BY <2>1, <2>2, <2>3 DEF IsCall
<1>3. c.call = "begin" => Width(c) = 1 + Aligned(Size(c.name), 4) \div 4
  BY SMT DEF Width
<1>4. c.call = "end" => Width(c) = 1
  BY SMT DEF Width
<1>5. c.call = "prop" => Width(c) = 3 + Len(c.value.cells)
  BY SMT DEF Width
<1>6. PICK a, l : a = Aligned(Size(c.name), 4) \div 4 /\ l = Len(c.value.cells)
  OBVIOUS
<1>7. Width(c) \in Nat \ {0} /\ (c.call = "begin" => Width(c) >= 2)
  BY <1>1, <1>2, <1>3, <1>4, <1>5, <1>6, SMT
<1> QED
  BY <1>1, <1>2, <1>3, <1>4, <1>5, <1>7

LEMMA PlacesOf ==
  ASSUME NEW calls, NEW extent, IsTree(calls, extent)
  PROVE  /\ Places(calls) \in [0..Len(calls) -> Nat]
         /\ Places(calls)[0] = 0
         /\ \A k \in 1..Len(calls) : Places(calls)[k] = Places(calls)[k - 1] + Width(calls[k])
<1> DEFINE N == Len(calls)
           body(f) == [n \in 0..N |-> IF n = 0 THEN 0 ELSE f[n - 1] + Width(calls[n])]
           before == CHOOSE f : f = body(f)
           step == [n \in 1..N |-> [m \in Nat |-> m + Width(calls[n])]]
<1>1. N \in Nat
  BY DEF IsTree, IsSeq
<1>2. Places(calls) = before
  BY DEF Places
<1>3. \A k \in 1..N : Width(calls[k]) \in Nat
  BY WidthOf DEF IsTree, Belongs
<1>4. \E f \in [0..N -> Nat] : f = body(f)
  <2>1. step \in [1..N -> [Nat -> Nat]]
    BY <1>3
  <2> HIDE DEF N
  <2>2. PICK g \in [0..N -> Nat] : Follows(g, N, 0, step)
    <3> HIDE DEF step
    <3> QED
      BY <1>1, <2>1, Recursion
  <2>3. ASSUME NEW i \in 0..N
        PROVE  g[i] = IF i = 0 THEN 0 ELSE g[i - 1] + Width(calls[i])
    <3>1. g[i] = IF i = 0 THEN 0 ELSE step[i][g[i - 1]]
      BY <1>1, <2>2 DEF Follows
    <3>2. CASE i # 0
      <4>1. i \in 1..N /\ i - 1 \in 0..N
        BY <1>1, <3>2
      <4>2. g[i - 1] \in Nat
        BY <2>2, <4>1
      <4> QED
        BY <3>1, <3>2, <4>1, <4>2
    <3> QED
      BY <3>1, <3>2
  <2>4. g = body(g)
    BY <1>1, <2>2, <2>3
  <2> QED
    BY <2>4
<1>5. before = body(before)
  BY <1>4
<1> HIDE DEF before
<1>6. before[0] = 0 /\ \A k \in 1..N : before[k] = before[k - 1] + Width(calls[k])
  BY <1>1, <1>5
<1>7. before \in [0..N -> Nat]
  <2> DEFINE S == {n \in Nat : n \in 0..N => before[n] \in Nat}
  <2>1. 0 \in S
    BY <1>6
  <2>2. ASSUME NEW n \in Nat, n \in S
        PROVE  n + 1 \in S
    <3> SUFFICES ASSUME n + 1 \in 0..N
                 PROVE  before[n + 1] \in Nat
      OBVIOUS
    <3>1. n \in 0..N /\ n + 1 \in 1..N /\ (n + 1) - 1 = n
      BY <1>1
    <3>2. before[n] \in Nat /\ Width(calls[n + 1]) \in Nat
      BY <1>3, <2>2, <3>1
    <3>3. before[n + 1] = before[n] + Width(calls[n + 1])
      BY <1>6, <3>1
    <3> QED
      BY <3>2, <3>3
  <2> HIDE DEF S
  <2>3. Nat \subseteq S
    BY <2>1, <2>2, SetInduction
  <2>4. \A n \in 0..N : before[n] \in Nat
    BY <1>1, <2>3 DEF S
  <2>5. before = [n \in 0..N |-> before[n]]
    BY <1>5
  <2> QED
    BY <2>4, <2>5
<1> QED
  BY <1>2, <1>6, <1>7

-----------------------------------------------------------------------------
(* What a call leaves in the blocks.                                       *)

\* A structure block and a table of names, whose names have places of their own.
Tables(b) ==
  /\ b = [sb |-> b.sb, st |-> b.st, strings |-> b.strings]
  /\ IsSeq(b.sb) /\ IsSeq(b.st) /\ b.strings \in Nat
  /\ \A j \in 1..Len(b.st) : b.st[j].at \in 0..(b.strings - 1)
  /\ \A i, j \in 1..Len(b.st) : b.st[i].at = b.st[j].at => i = j

\* A call lies in the structure block behind its first k cells.
Lies(c, k, b) ==
  /\ k + Width(c) <= Len(b.sb)
  /\ c.call = "begin" =>
       b.sb[k + 1] = Num(FDT_BEGIN_NODE) /\ b.sb[k + 2] = <<"text", c.name>>
  /\ c.call = "end" => b.sb[k + 1] = Num(FDT_END_NODE)
  /\ c.call = "prop" =>
       /\ b.sb[k + 1] = Num(FDT_PROP) /\ b.sb[k + 2] = Num(c.value.len)
       /\ \E j \in 1..Len(b.st) : b.st[j].name = c.name /\ b.sb[k + 3] = Num(b.st[j].at)
       /\ \A i \in 1..Len(c.value.cells) : b.sb[k + 3 + i] = c.value.cells[i]

\* The first n calls lie one behind the other.
Built(b, calls, n) ==
  /\ Tables(b) /\ Len(b.sb) = Places(calls)[n]
  /\ \A k \in 1..n : Lies(calls[k], Places(calls)[k - 1], b)

\* Nothing that was built changes.
Extends(b, b2) ==
  /\ Len(b.sb) <= Len(b2.sb) /\ \A k \in 1..Len(b.sb) : b2.sb[k] = b.sb[k]
  /\ Len(b.st) <= Len(b2.st) /\ \A j \in 1..Len(b.st) : b2.st[j] = b.st[j]

LEMMA LiesStill ==
  ASSUME NEW b, NEW b2, NEW c, NEW k \in Nat,
         Tables(b), Tables(b2), Extends(b, b2), IsCall(c), Lies(c, k, b)
  PROVE  Lies(c, k, b2)
<1>1. Len(b.sb) \in Nat /\ Len(b2.sb) \in Nat /\ Len(b.st) \in Nat /\ Len(b2.st) \in Nat
  BY DEF Tables, IsSeq
<1>2. Width(c) \in Nat \ {0} /\ k + Width(c) <= Len(b.sb)
  BY WidthOf DEF Lies
<1>3. Len(b.sb) <= Len(b2.sb) /\ Len(b.st) <= Len(b2.st)
  BY DEF Extends
<1>4. k + Width(c) <= Len(b2.sb)
  BY <1>1, <1>2, <1>3
<1>5. \A i \in 1..Width(c) : b2.sb[k + i] = b.sb[k + i]
  BY <1>1, <1>2 DEF Extends
<1>6. c.call = "begin" =>
        b2.sb[k + 1] = Num(FDT_BEGIN_NODE) /\ b2.sb[k + 2] = <<"text", c.name>>
  <2>1. c.call = "begin" => 1 \in 1..Width(c) /\ 2 \in 1..Width(c)
    BY <1>2, WidthOf
  <2> QED
    BY <1>5, <2>1 DEF Lies
<1>7. c.call = "end" => b2.sb[k + 1] = Num(FDT_END_NODE)
  BY <1>2, <1>5 DEF Lies
<1>8. ASSUME c.call = "prop"
      PROVE  /\ b2.sb[k + 1] = Num(FDT_PROP) /\ b2.sb[k + 2] = Num(c.value.len)
             /\ \E j \in 1..Len(b2.st) : b2.st[j].name = c.name /\ b2.sb[k + 3] = Num(b2.st[j].at)
             /\ \A i \in 1..Len(c.value.cells) : b2.sb[k + 3 + i] = c.value.cells[i]
  <2>1. Width(c) = 3 + Len(c.value.cells) /\ Len(c.value.cells) \in Nat
    BY <1>8, WidthOf
  <2>2. b2.sb[k + 1] = b.sb[k + 1] /\ b2.sb[k + 2] = b.sb[k + 2] /\ b2.sb[k + 3] = b.sb[k + 3]
    <3>1. 1 \in 1..Width(c) /\ 2 \in 1..Width(c) /\ 3 \in 1..Width(c)
      BY <2>1
    <3> QED
      BY <1>5, <3>1, Zenon
  <2>3. \A i \in 1..Len(c.value.cells) : b2.sb[k + 3 + i] = b.sb[k + 3 + i]
    <3> TAKE i \in 1..Len(c.value.cells)
    <3>1. 3 + i \in 1..Width(c) /\ k + (3 + i) = k + 3 + i
      BY <2>1
    <3> QED
      BY <1>5, <3>1
  <2>4. PICK j \in 1..Len(b.st) : b.st[j].name = c.name /\ b.sb[k + 3] = Num(b.st[j].at)
    BY <1>8 DEF Lies
  <2>5. j \in 1..Len(b2.st) /\ b2.st[j] = b.st[j]
    BY <1>1, <1>3, <2>4 DEF Extends
  <2>6. \E i \in 1..Len(b2.st) : b2.st[i].name = c.name /\ b2.sb[k + 3] = Num(b2.st[i].at)
    BY <2>2, <2>4, <2>5
  <2> QED
    BY <1>8, <2>2, <2>3, <2>6 DEF Lies
<1> QED
  BY <1>4, <1>6, <1>7, <1>8 DEF Lies

LEMMA ExtendsBoth ==
  ASSUME NEW a, NEW b, NEW c, Tables(a), Tables(b), Tables(c), Extends(a, b), Extends(b, c)
  PROVE  Extends(a, c)
<1>1. /\ Len(a.sb) \in Nat /\ Len(b.sb) \in Nat /\ Len(c.sb) \in Nat
      /\ Len(a.st) \in Nat /\ Len(b.st) \in Nat /\ Len(c.st) \in Nat
  BY DEF Tables, IsSeq
<1>2. /\ Len(a.sb) <= Len(b.sb) /\ Len(b.sb) <= Len(c.sb)
      /\ Len(a.st) <= Len(b.st) /\ Len(b.st) <= Len(c.st)
  BY DEF Extends
<1>3. \A k \in 1..Len(a.sb) : k \in 1..Len(b.sb) /\ c.sb[k] = a.sb[k]
  BY <1>1, <1>2 DEF Extends
<1>4. \A k \in 1..Len(a.st) : k \in 1..Len(b.st) /\ c.st[k] = a.st[k]
  BY <1>1, <1>2 DEF Extends
<1>5. Len(a.sb) <= Len(c.sb) /\ Len(a.st) <= Len(c.st)
  BY <1>1, <1>2
<1> QED
  BY <1>3, <1>4, <1>5 DEF Extends

LEMMA WithCellsAre ==
  ASSUME NEW b, NEW cells, NEW b2, Tables(b), IsSeq(cells), b2 = WithCells(b, cells)
  PROVE  /\ Tables(b2) /\ Extends(b, b2) /\ b2.st = b.st
         /\ Len(b2.sb) = Len(b.sb) + Len(cells)
         /\ Len(b.sb) \in Nat /\ Len(cells) \in Nat
         /\ \A k \in 1..Len(cells) : b2.sb[Len(b.sb) + k] = cells[k]
<1>1. b = [sb |-> b.sb, st |-> b.st, strings |-> b.strings]
  BY DEF Tables
<1>2. PICK sb : sb = b.sb \o cells
  OBVIOUS
<1>3. b2 = [b EXCEPT !.sb = sb]
  BY <1>2, SMT DEF WithCells
<1>4. /\ b2 = [sb |-> sb, st |-> b.st, strings |-> b.strings]
      /\ b2.sb = sb /\ b2.st = b.st /\ b2.strings = b.strings
  BY <1>1, <1>3, SMT
<1>5. /\ IsSeq(sb) /\ Len(sb) = Len(b.sb) + Len(cells)
      /\ Len(b.sb) \in Nat /\ Len(cells) \in Nat
      /\ \A k \in 1..Len(b.sb) : sb[k] = b.sb[k]
      /\ \A k \in 1..Len(cells) : sb[Len(b.sb) + k] = cells[k]
  <2>1. IsSeq(b.sb)
    BY DEF Tables
  <2> QED
    BY <1>2, <2>1, Concat, SMT
<1>6. Tables(b2)
  BY <1>4, <1>5, SMT DEF Tables
<1>7. Len(b.st) \in Nat
  BY DEF Tables, IsSeq
<1>8. Extends(b, b2)
  BY <1>4, <1>5, <1>7, SMT DEF Extends
<1> QED
  BY <1>4, <1>5, <1>6, <1>8
LEMMA Tabled ==
  ASSUME NEW b, NEW name, NEW b2, Tables(b), IsText(name), b2 = strtab_add(b, name)
  PROVE  /\ Tables(b2) /\ Extends(b, b2) /\ b2.sb = b.sb
         /\ \E j \in 1..Len(b2.st) : b2.st[j].name = name /\ PlaceOf(b2, name) = b2.st[j].at
<1>1. /\ b = [sb |-> b.sb, st |-> b.st, strings |-> b.strings]
      /\ IsSeq(b.sb) /\ IsSeq(b.st) /\ b.strings \in Nat
      /\ Len(b.sb) \in Nat /\ Len(b.st) \in Nat /\ DOMAIN b.st = 1..Len(b.st)
      /\ \A j \in 1..Len(b.st) : b.st[j].at \in 0..(b.strings - 1)
      /\ \A i, j \in 1..Len(b.st) : b.st[i].at = b.st[j].at => i = j
  BY DEF Tables, IsSeq
<1>2. Tables(b2) /\ Extends(b, b2) /\ b2.sb = b.sb /\ \E j \in 1..Len(b2.st) : b2.st[j].name = name
  <2>1. CASE \E k \in DOMAIN b.st : b.st[k].name = name
    <3>1. b2 = b
      BY <2>1 DEF strtab_add
    <3>2. Extends(b, b2)
      BY <1>1, <3>1 DEF Extends
    <3> QED
      BY <1>1, <2>1, <3>1, <3>2
  <2>2. CASE ~\E k \in DOMAIN b.st : b.st[k].name = name
    <3>1. PICK e : e = [name |-> name, at |-> b.strings]
      OBVIOUS
    <3>2. PICK st : st = Append(b.st, e)
      OBVIOUS
    <3>3. PICK n : n = b.strings + Size(name)
      OBVIOUS
    <3>4. n \in Nat /\ n > b.strings
      BY <1>1, <3>3 DEF Size, IsText
    <3>5. b2 = [b EXCEPT !.st = st, !.strings = n]
      BY <2>2, <3>1, <3>2, <3>3, SMT DEF strtab_add
    <3>6. /\ b2 = [sb |-> b.sb, st |-> st, strings |-> n]
          /\ b2.sb = b.sb /\ b2.st = st /\ b2.strings = n
      <4>1. PICK sb, oldst, old : sb = b.sb /\ oldst = b.st /\ old = b.strings
        OBVIOUS
      <4>2. b = [sb |-> sb, st |-> oldst, strings |-> old]
        BY <1>1, <4>1
      <4>3. b2 = [sb |-> sb, st |-> st, strings |-> n]
        BY <3>5, <4>2, Zenon
      <4> QED
        BY <4>1, <4>3, SMT
    <3>7. /\ IsSeq(st) /\ Len(st) = Len(b.st) + 1
          /\ \A k \in 1..Len(b.st) : st[k] = b.st[k]
          /\ st[Len(b.st) + 1] = e
      BY <1>1, <3>2, Appending
    <3>8. e.name = name /\ e.at = b.strings
      BY <3>1
    <3>9. \A j \in 1..Len(st) : j \in 1..Len(b.st) \/ j = Len(b.st) + 1
      BY <1>1, <3>7
    <3>10. \A j \in 1..Len(st) : st[j].at \in 0..(n - 1)
      BY <1>1, <3>4, <3>7, <3>8, <3>9
    <3>11. \A i, j \in 1..Len(st) : st[i].at = st[j].at => i = j
      <4> TAKE i, j \in 1..Len(st)
      <4>1. CASE i \in 1..Len(b.st) /\ j \in 1..Len(b.st)
        BY <1>1, <3>7, <4>1
      <4>2. CASE i = Len(b.st) + 1 /\ j \in 1..Len(b.st)
        <5>1. st[j].at \in 0..(b.strings - 1) /\ st[i].at = b.strings
          BY <1>1, <3>7, <3>8, <4>2
        <5> QED
          BY <1>1, <5>1
      <4>3. CASE j = Len(b.st) + 1 /\ i \in 1..Len(b.st)
        <5>1. st[i].at \in 0..(b.strings - 1) /\ st[j].at = b.strings
          BY <1>1, <3>7, <3>8, <4>3
        <5> QED
          BY <1>1, <5>1
      <4> QED
        BY <3>9, <4>1, <4>2, <4>3
    <3>12. Tables(b2)
      BY <1>1, <3>4, <3>6, <3>7, <3>10, <3>11, SMT DEF Tables
    <3>13. Extends(b, b2)
      BY <1>1, <3>6, <3>7, SMT DEF Extends
    <3>14. Len(b.st) + 1 \in 1..Len(b2.st) /\ b2.st[Len(b.st) + 1].name = name
      BY <1>1, <3>6, <3>7, <3>8
    <3> QED
      BY <3>6, <3>12, <3>13, <3>14
  <2> QED
    BY <2>1, <2>2
<1>3. DOMAIN b2.st = 1..Len(b2.st)
  BY <1>2 DEF Tables, IsSeq
<1>4. PICK j : j = CHOOSE k \in DOMAIN b2.st : b2.st[k].name = name
  OBVIOUS
<1>5. j \in 1..Len(b2.st) /\ b2.st[j].name = name
  BY <1>2, <1>3, <1>4
<1>6. PlaceOf(b2, name) = b2.st[j].at
  BY <1>4 DEF PlaceOf
<1> QED
  BY <1>2, <1>5, <1>6

\* One call more.
LEMMA AppendedLies ==
  ASSUME NEW b, NEW c, NEW b2, Tables(b), IsCall(c), b2 = Appended(b, c)
  PROVE  /\ Tables(b2) /\ Extends(b, b2)
         /\ Len(b2.sb) = Len(b.sb) + Width(c)
         /\ Lies(c, Len(b.sb), b2)
<1>1. Len(b.sb) \in Nat
  BY DEF Tables, IsSeq
<1>2. PICK at : at = Len(b.sb)
  OBVIOUS
<1>3. CASE c.call = "begin"
  <2>1. PICK text : text = TextCells(c.name, Size(c.name))
    OBVIOUS
  <2>2. /\ IsSeq(text) /\ Len(text) = Aligned(Size(c.name), 4) \div 4
        /\ Len(text) \in Nat \ {0} /\ text[1] = <<"text", c.name>>
    <3>1. IsText(c.name)
      BY DEF IsCall
    <3> QED
      BY <2>1, <3>1, TextCellsAre
  <2>3. PICK token : token = << Num(FDT_BEGIN_NODE) >>
    OBVIOUS
  <2>4. IsSeq(token) /\ Len(token) = 1 /\ token[1] = Num(FDT_BEGIN_NODE)
    BY <2>3, SMT DEF IsSeq
  <2>5. PICK cells : cells = token \o text
    OBVIOUS
  <2>6. /\ IsSeq(cells) /\ Len(cells) = 1 + Len(text)
        /\ cells[1] = Num(FDT_BEGIN_NODE) /\ cells[2] = <<"text", c.name>>
    <3>1. /\ IsSeq(token \o text) /\ Len(token \o text) = Len(token) + Len(text)
          /\ \A k \in 1..Len(token) : (token \o text)[k] = token[k]
          /\ \A k \in 1..Len(text) : (token \o text)[Len(token) + k] = text[k]
      <4>1. IsSeq(token) /\ IsSeq(text)
        BY <2>2, <2>4
      <4> QED
        BY <4>1, Concat, SMT
    <3>2. cells[1] = token[1] /\ cells[1 + 1] = text[1]
      BY <2>2, <2>4, <2>5, <3>1, SMT
    <3> QED
      BY <2>2, <2>4, <2>5, <3>1, <3>2, SMT
  <2>7. b2 = WithCells(b, cells)
    BY <1>3, <2>1, <2>3, <2>5, SMT DEF Appended
  <2>8. /\ Tables(b2) /\ Extends(b, b2) /\ Len(b2.sb) = Len(b.sb) + Len(cells)
        /\ \A k \in 1..Len(cells) : b2.sb[Len(b.sb) + k] = cells[k]
    <3>1. IsSeq(cells)
      BY <2>6
    <3> QED
      BY <2>7, <3>1, WithCellsAre
  <2>9. Width(c) = Len(cells)
    BY <1>3, <2>2, <2>6, WidthOf
  <2>10. b2.sb[Len(b.sb) + 1] = cells[1] /\ b2.sb[Len(b.sb) + 2] = cells[2]
    <3>1. 1 \in 1..Len(cells) /\ 2 \in 1..Len(cells)
      BY <2>2, <2>6
    <3> QED
      BY <2>8, <3>1
  <2>11. Lies(c, Len(b.sb), b2)
    BY <1>1, <1>3, <2>2, <2>6, <2>8, <2>9, <2>10, SMT DEF Lies
  <2> QED
    BY <2>8, <2>9, <2>11
<1>4. CASE c.call = "end"
  <2>1. PICK cells : cells = << Num(FDT_END_NODE) >>
    OBVIOUS
  <2>2. IsSeq(cells) /\ Len(cells) = 1 /\ cells[1] = Num(FDT_END_NODE)
    BY <2>1, SMT DEF IsSeq
  <2>3. b2 = WithCells(b, cells)
    BY <1>4, <2>1, SMT DEF Appended
  <2>4. /\ Tables(b2) /\ Extends(b, b2) /\ Len(b2.sb) = Len(b.sb) + Len(cells)
        /\ \A k \in 1..Len(cells) : b2.sb[Len(b.sb) + k] = cells[k]
    <3>1. IsSeq(cells)
      BY <2>2
    <3> QED
      BY <2>3, <3>1, WithCellsAre
  <2>5. Width(c) = 1
    BY <1>4, WidthOf
  <2>6. b2.sb[Len(b.sb) + 1] = cells[1]
    BY <2>2, <2>4
  <2>7. Lies(c, Len(b.sb), b2)
    BY <1>1, <1>4, <2>2, <2>4, <2>5, <2>6, SMT DEF Lies
  <2> QED
    BY <2>2, <2>4, <2>5, <2>7
<1>5. CASE c.call = "prop"
  <2>1. PICK b1 : b1 = strtab_add(b, c.name)
    OBVIOUS
  <2>2. IsText(c.name) /\ IsSeq(c.value.cells) /\ Len(c.value.cells) \in Nat
    BY DEF IsCall, IsValue, IsSeq
  <2>3. /\ Tables(b1) /\ Extends(b, b1) /\ b1.sb = b.sb
        /\ \E j \in 1..Len(b1.st) : b1.st[j].name = c.name /\ PlaceOf(b1, c.name) = b1.st[j].at
    BY <2>1, <2>2, Tabled
  <2>4. PICK place : place = PlaceOf(b1, c.name)
    OBVIOUS
  <2>5. PICK token : token = << Num(FDT_PROP), Num(c.value.len), Num(place) >>
    OBVIOUS
  <2>6. /\ IsSeq(token) /\ Len(token) = 3
        /\ token[1] = Num(FDT_PROP) /\ token[2] = Num(c.value.len) /\ token[3] = Num(place)
    BY <2>5, SMT DEF IsSeq
  <2>7. PICK value : value = c.value.cells
    OBVIOUS
  <2>8. PICK cells : cells = token \o value
    OBVIOUS
  <2>9. /\ IsSeq(cells) /\ Len(cells) = 3 + Len(value)
        /\ \A k \in 1..3 : cells[k] = token[k]
        /\ \A k \in 1..Len(value) : cells[3 + k] = value[k]
    <3>1. IsSeq(token) /\ IsSeq(value)
      BY <2>2, <2>6, <2>7
    <3>2. /\ IsSeq(token \o value) /\ Len(token \o value) = Len(token) + Len(value)
          /\ \A k \in 1..Len(token) : (token \o value)[k] = token[k]
          /\ \A k \in 1..Len(value) : (token \o value)[Len(token) + k] = value[k]
      BY <3>1, Concat, SMT
    <3> QED
      BY <2>6, <2>8, <3>2, SMT
  <2>10. b2 = WithCells(b1, cells)
    BY <1>5, <2>1, <2>4, <2>5, <2>7, <2>8, SMT DEF Appended, PropCells
  <2>11. /\ Tables(b2) /\ Extends(b1, b2) /\ Len(b2.sb) = Len(b1.sb) + Len(cells)
         /\ b2.st = b1.st
         /\ \A k \in 1..Len(cells) : b2.sb[Len(b1.sb) + k] = cells[k]
    <3>1. Tables(b1) /\ IsSeq(cells)
      BY <2>3, <2>9
    <3> QED
      BY <2>10, <3>1, WithCellsAre
  <2>12. Width(c) = Len(cells)
    BY <1>5, <2>2, <2>7, <2>9, WidthOf
  <2>13. Extends(b, b2)
    BY <2>3, <2>11, ExtendsBoth
  <2>14. \A k \in 1..(3 + Len(value)) : b2.sb[at + k] = cells[k]
    BY <1>2, <2>3, <2>9, <2>11
  <2>15. /\ b2.sb[at + 1] = Num(FDT_PROP) /\ b2.sb[at + 2] = Num(c.value.len)
         /\ b2.sb[at + 3] = Num(place)
    <3>1. Len(value) \in Nat
      BY <2>2, <2>7
    <3>2. /\ b2.sb[at + 1] = cells[1] /\ b2.sb[at + 2] = cells[2] /\ b2.sb[at + 3] = cells[3]
      BY <2>14, <3>1
    <3>3. cells[1] = token[1] /\ cells[2] = token[2] /\ cells[3] = token[3]
      BY <2>9
    <3> QED
      BY <2>6, <3>2, <3>3
  <2>16. \A i \in 1..Len(value) : b2.sb[at + 3 + i] = value[i]
    <3> TAKE i \in 1..Len(value)
    <3>1. 3 + i \in 1..(3 + Len(value)) /\ at + (3 + i) = at + 3 + i
      <4>1. at \in Nat /\ Len(value) \in Nat
        BY <1>1, <1>2, <2>2, <2>7
      <4> QED
        BY <4>1
    <3>2. b2.sb[at + (3 + i)] = cells[3 + i]
      BY <2>14, <3>1
    <3> QED
      BY <2>9, <3>1, <3>2
  <2>17. \E j \in 1..Len(b2.st) : b2.st[j].name = c.name /\ b2.sb[at + 3] = Num(b2.st[j].at)
    BY <2>3, <2>4, <2>11, <2>15
  <2>18. at + Width(c) <= Len(b2.sb) /\ Len(b2.sb) = Len(b.sb) + Width(c)
    BY <1>1, <1>2, <2>2, <2>3, <2>7, <2>9, <2>11, <2>12
  <2>19. Lies(c, at, b2)
    BY <1>5, <2>7, <2>15, <2>16, <2>17, <2>18 DEF Lies
  <2> QED
    BY <1>2, <2>11, <2>13, <2>18, <2>19
<1> QED
  BY <1>3, <1>4, <1>5, WidthOf

\* The calls before it are still there, and it follows them.
LEMMA AppendedBuilt ==
  ASSUME NEW calls, NEW extent, NEW n \in Nat, NEW b, NEW b2,
         IsTree(calls, extent), n < Len(calls), Built(b, calls, n), b2 = Appended(b, calls[n + 1])
  PROVE  Built(b2, calls, n + 1)
<1>1. Len(calls) \in Nat /\ n + 1 \in 1..Len(calls)
  BY DEF IsTree, IsSeq
<1>2. PICK c : c = calls[n + 1]
  OBVIOUS
<1>3. IsCall(c)
  BY <1>1, <1>2 DEF IsTree, Belongs
<1>4. Tables(b) /\ Len(b.sb) = Places(calls)[n]
  BY DEF Built
<1>5. /\ Tables(b2) /\ Extends(b, b2)
      /\ Len(b2.sb) = Len(b.sb) + Width(c) /\ Lies(c, Len(b.sb), b2)
  BY <1>2, <1>3, <1>4, AppendedLies
<1>6. /\ \A k \in 0..Len(calls) : Places(calls)[k] \in Nat
      /\ \A k \in 1..Len(calls) : Places(calls)[k] = Places(calls)[k - 1] + Width(calls[k])
  BY PlacesOf
<1>7. Len(b2.sb) = Places(calls)[n + 1]
  BY <1>1, <1>2, <1>4, <1>5, <1>6
<1>8. ASSUME NEW k \in 1..(n + 1)
      PROVE  Lies(calls[k], Places(calls)[k - 1], b2)
  <2>1. CASE k = n + 1
    BY <1>2, <1>4, <1>5, <2>1
  <2>2. CASE k \in 1..n
    <3>1. Lies(calls[k], Places(calls)[k - 1], b)
      BY <2>2 DEF Built
    <3>2. k \in 1..Len(calls) /\ k - 1 \in 0..Len(calls)
      BY <1>1, <2>2
    <3>3. IsCall(calls[k]) /\ Places(calls)[k - 1] \in Nat
      BY <1>6, <3>2 DEF IsTree, Belongs
    <3> QED
      BY <1>4, <1>5, <3>1, <3>3, LiesStill
  <2> QED
    BY <2>1, <2>2
<1> QED
  BY <1>5, <1>7, <1>8 DEF Built

LEMMA BuiltNothing ==
  ASSUME NEW calls, NEW extent, IsTree(calls, extent)
  PROVE  Built(NoBlocks, calls, 0)
<1>1. /\ NoBlocks = [sb |-> NoBlocks.sb, st |-> NoBlocks.st, strings |-> NoBlocks.strings]
      /\ NoBlocks.sb = <<>> /\ NoBlocks.st = <<>> /\ NoBlocks.strings = 0
  BY SMT DEF NoBlocks
<1>2. IsSeq(<<>>) /\ Len(<<>>) = 0
  BY SMT DEF IsSeq
<1>3. Tables(NoBlocks)
  BY <1>1, <1>2, SMT DEF Tables
<1>4. Places(calls)[0] = 0
  BY PlacesOf
<1> QED
  BY <1>1, <1>2, <1>3, <1>4 DEF Built

-----------------------------------------------------------------------------
(* What lies in the blob.                                                  *)

\* What a reader sees at an offset.
ByteAt(bb, o) == IF o \in DOMAIN bb.bytes THEN bb.bytes[o] ELSE <<"nothing", 0>>

\* The blob has a call from an offset on.
Carries(bb, o, c) ==
  /\ c.call = "begin" => /\ ByteAt(bb, o) = Num(FDT_BEGIN_NODE)
                         /\ ByteAt(bb, o + 4) = <<"text", c.name>>
  /\ c.call = "end" => ByteAt(bb, o) = Num(FDT_END_NODE)
  /\ c.call = "prop" =>
       /\ ByteAt(bb, o) = Num(FDT_PROP) /\ ByteAt(bb, o + 4) = Num(c.value.len)
       /\ \E place \in Nat : /\ ByteAt(bb, o + 8) = Num(place)
                             /\ ByteAt(bb, bb.off_dt_strings + place) = <<"text", c.name>>
       /\ \A i \in 1..Len(c.value.cells) : ByteAt(bb, o + 8 + 4 * i) = c.value.cells[i]

\* The blob has all calls, and its end behind them.
Readable(bb, calls) ==
  /\ bb.off_dt_struct \in Nat
  /\ \A k \in 1..Len(calls) : Carries(bb, bb.off_dt_struct + 4 * Places(calls)[k - 1], calls[k])
  /\ ByteAt(bb, bb.off_dt_struct + 4 * Places(calls)[Len(calls)]) = Num(FDT_END)
  /\ bb.size_dt_struct = 4 * (Places(calls)[Len(calls)] + 1)

\* The reservation map is that of an extent.
Reserves(rsv, extent) ==
  /\ Len(rsv) = IF HasInitrd(extent) THEN 2 ELSE 1
  /\ HasInitrd(extent) => rsv[1] = <<extent.start, extent.end - extent.start>>

LEMMA ReservesExtent ==
  ASSUME NEW extent
  PROVE  Reserves((IF HasInitrd(extent) THEN <<<<extent.start, extent.end - extent.start>>>>
                   ELSE <<>>) \o <<<<0, 0>>>>, extent)
<1>1. PICK a : a = <<extent.start, extent.end - extent.start>>
  OBVIOUS
<1>2. PICK s : s = IF HasInitrd(extent) THEN <<a>> ELSE <<>>
  OBVIOUS
<1>3. PICK t : t = <<<<0, 0>>>>
  OBVIOUS
<1>4. IsSeq(t) /\ Len(t) = 1
  BY <1>3, SMT DEF IsSeq
<1>5. /\ IsSeq(s)
      /\ HasInitrd(extent) => Len(s) = 1 /\ s[1] = a
      /\ ~HasInitrd(extent) => Len(s) = 0
  BY <1>2, SMT DEF IsSeq
<1>6. PICK rsv : rsv = s \o t
  OBVIOUS
<1>7. Len(rsv) = Len(s) + Len(t) /\ \A k \in 1..Len(s) : rsv[k] = s[k]
  <2>1. Len(s \o t) = Len(s) + Len(t) /\ \A k \in 1..Len(s) : (s \o t)[k] = s[k]
    <3>1. IsSeq(s) /\ IsSeq(t)
      BY <1>4, <1>5
    <3> QED
      BY <3>1, Concat, SMT
  <2> QED
    BY <1>6, <2>1, SMT
<1>8. Reserves(rsv, extent)
  <2>1. Len(rsv) = IF HasInitrd(extent) THEN 2 ELSE 1
    BY <1>4, <1>5, <1>7, SMT
  <2>2. HasInitrd(extent) => rsv[1] = a
    BY <1>5, <1>7, SMT
  <2> QED
    BY <1>1, <2>1, <2>2, SMT DEF Reserves
<1> QED
  BY <1>1, <1>2, <1>3, <1>6, <1>8, SMT

LEMMA BlobFields ==
  ASSUME NEW total, NEW off, NEW strings, NEW size, NEW rsv, NEW bytes, NEW a,
         a = [totalsize |-> total, off_dt_struct |-> off, off_dt_strings |-> strings,
              size_dt_struct |-> size, rsvmap |-> rsv, bytes |-> bytes]
  PROVE  /\ a.totalsize = total /\ a.off_dt_struct = off /\ a.off_dt_strings = strings
         /\ a.size_dt_struct = size /\ a.rsvmap = rsv /\ a.bytes = bytes
BY SMT

LEMMA AlignedNumber ==
  ASSUME NEW n \in Nat
  PROVE  Aligned(n, 8) \in Nat /\ Aligned(n, 8) >= n
BY SMT DEF Aligned

\* Every cell and every name lies at its offset.
LEMMA AssembledBytes ==
  ASSUME NEW b, NEW extent, NEW a, Tables(b), a = Assembled(b, extent)
  PROVE  /\ a.off_dt_struct \in Nat /\ a.totalsize \in Nat \ {0}
         /\ a.size_dt_struct = 4 * (Len(b.sb) + 1)
         /\ Reserves(a.rsvmap, extent)
         /\ \A k \in 1..Len(b.sb) : ByteAt(a, a.off_dt_struct + 4 * (k - 1)) = b.sb[k]
         /\ ByteAt(a, a.off_dt_struct + 4 * Len(b.sb)) = Num(FDT_END)
         /\ \A j \in 1..Len(b.st) :
              ByteAt(a, a.off_dt_strings + b.st[j].at) = <<"text", b.st[j].name>>
<1>1. /\ IsSeq(b.sb) /\ b.strings \in Nat /\ Len(b.sb) \in Nat /\ Len(b.st) \in Nat
      /\ DOMAIN b.st = 1..Len(b.st)
      /\ \A j \in 1..Len(b.st) : b.st[j].at \in 0..(b.strings - 1)
      /\ \A i, j \in 1..Len(b.st) : b.st[i].at = b.st[j].at => i = j
  BY SMT DEF Tables, IsSeq
<1>2. PICK rsv : rsv = (IF HasInitrd(extent) THEN <<<<extent.start, extent.end - extent.start>>>>
                        ELSE <<>>) \o <<<<0, 0>>>>
  OBVIOUS
<1>3. Reserves(rsv, extent)
  BY <1>2, ReservesExtent, SMT
<1>4. PICK sb : sb = Append(b.sb, Num(FDT_END))
  OBVIOUS
<1>5. /\ Len(sb) = Len(b.sb) + 1 /\ DOMAIN sb = 1..Len(sb)
      /\ \A k \in 1..Len(b.sb) : sb[k] = b.sb[k]
      /\ sb[Len(b.sb) + 1] = Num(FDT_END)
  <2>1. IsSeq(sb)
    BY <1>1, <1>4, Appending
  <2> QED
    BY <1>1, <1>4, <2>1, Appending DEF IsSeq
<1>6. PICK off : off = Aligned(40 + 16 * Len(rsv), 8)
  OBVIOUS
<1>7. PICK strings : strings = off + 4 * Len(sb)
  OBVIOUS
<1>8. PICK bytes :
        bytes = [o \in {off + 4 * (k - 1) : k \in DOMAIN sb}
                         \cup {strings + b.st[k].at : k \in DOMAIN b.st} |->
                   IF o < strings THEN sb[(o - off) \div 4 + 1]
                   ELSE <<"text", b.st[CHOOSE k \in DOMAIN b.st : strings + b.st[k].at = o].name>>]
  OBVIOUS
<1>9. /\ a.totalsize = Aligned(strings + b.strings, 8)
      /\ a.off_dt_struct = off /\ a.off_dt_strings = strings
      /\ a.size_dt_struct = 4 * Len(sb) /\ a.rsvmap = rsv /\ a.bytes = bytes
  <2>1. PICK total, size : total = Aligned(strings + b.strings, 8) /\ size = 4 * Len(sb)
    OBVIOUS
  <2>2. a = [totalsize |-> total, off_dt_struct |-> off, off_dt_strings |-> strings,
             size_dt_struct |-> size, rsvmap |-> rsv, bytes |-> bytes]
    BY <1>2, <1>4, <1>6, <1>7, <1>8, <2>1, SMT DEF Assembled
  <2> QED
    BY <2>1, <2>2, BlobFields, SMT
<1>10. off \in Nat /\ off > 0
  <2>1. Len(rsv) \in {1, 2}
    BY <1>3, SMT DEF Reserves
  <2> QED
    BY <1>6, <2>1, SMT DEF Aligned
<1>11. strings \in Nat /\ strings > 0 /\ strings = off + 4 * (Len(b.sb) + 1)
  BY <1>1, <1>5, <1>7, <1>10, SMT
<1>12. a.totalsize \in Nat \ {0}
  <2>1. PICK n : n = strings + b.strings
    OBVIOUS
  <2>2. n \in Nat /\ n > 0
    BY <1>1, <1>11, <2>1, SMT
  <2>3. Aligned(n, 8) \in Nat /\ Aligned(n, 8) >= n
    BY <2>2, AlignedNumber, SMT
  <2> QED
    BY <1>9, <2>1, <2>2, <2>3, SMT
<1>13. ASSUME NEW k \in 1..Len(sb)
       PROVE  ByteAt(a, off + 4 * (k - 1)) = sb[k]
  <2>1. PICK o : o = off + 4 * (k - 1)
    OBVIOUS
  <2>2. k \in Nat /\ 1 <= k /\ k <= Len(b.sb) + 1
    BY <1>1, <1>5, SMT
  <2>3. o < strings /\ (o - off) \div 4 + 1 = k
    <3>1. o < strings /\ o - off = 4 * (k - 1)
      BY <1>1, <1>10, <1>11, <2>1, <2>2, SMT
    <3>2. (4 * (k - 1)) \div 4 = k - 1
      BY <2>2, SMT
    <3> QED
      BY <2>2, <3>1, <3>2, SMT
  <2>4. o \in {off + 4 * (i - 1) : i \in DOMAIN sb}
    <3>1. k \in DOMAIN sb
      BY <1>5
    <3> QED
      BY <2>1, <3>1, Zenon
  <2>5. o \in DOMAIN bytes /\ bytes[o] = sb[k]
    BY <1>8, <2>3, <2>4, SMT
  <2> QED
    BY <1>9, <2>1, <2>5, SMT DEF ByteAt
<1>14. ASSUME NEW k \in 1..Len(b.sb)
       PROVE  ByteAt(a, a.off_dt_struct + 4 * (k - 1)) = b.sb[k]
  <2>1. k \in 1..Len(sb) /\ sb[k] = b.sb[k]
    BY <1>1, <1>5, SMT
  <2> QED
    BY <1>9, <1>13, <2>1, SMT
<1>15. ByteAt(a, a.off_dt_struct + 4 * Len(b.sb)) = Num(FDT_END)
  <2>1. PICK k : k = Len(b.sb) + 1
    OBVIOUS
  <2>2. k \in 1..Len(sb) /\ sb[k] = Num(FDT_END) /\ k - 1 = Len(b.sb)
    BY <1>1, <1>5, <2>1, SMT
  <2>3. ByteAt(a, off + 4 * (k - 1)) = sb[k]
    BY <1>13, <2>2, SMT
  <2> QED
    BY <1>9, <2>2, <2>3, SMT
<1>16. ASSUME NEW j \in 1..Len(b.st)
       PROVE  ByteAt(a, a.off_dt_strings + b.st[j].at) = <<"text", b.st[j].name>>
  <2>1. PICK o : o = strings + b.st[j].at
    OBVIOUS
  <2>2. b.st[j].at \in Nat /\ ~(o < strings)
    BY <1>1, <1>11, <2>1, SMT
  <2>3. o \in {strings + b.st[k].at : k \in DOMAIN b.st}
    BY <1>1, <2>1, SMT
  <2>4. \A i \in 1..Len(b.st) : strings + b.st[i].at = o => i = j
    <3> TAKE i \in 1..Len(b.st)
    <3>1. b.st[i].at \in Int /\ b.st[j].at \in Int
      BY <1>1, SMT
    <3>2. strings + b.st[i].at = strings + b.st[j].at => b.st[i].at = b.st[j].at
      BY <1>11, <3>1, SMT
    <3> QED
      BY <1>1, <2>1, <3>2, SMT
  <2>5. PICK i : i = CHOOSE k \in DOMAIN b.st : strings + b.st[k].at = o
    OBVIOUS
  <2>6. i = j
    BY <1>1, <2>1, <2>4, <2>5, SMT
  <2>7. o \in DOMAIN bytes /\ bytes[o] = <<"text", b.st[j].name>>
    <3>1. /\ o \in DOMAIN bytes
          /\ bytes[o] = IF o < strings THEN sb[(o - off) \div 4 + 1]
                        ELSE <<"text", b.st[CHOOSE k \in DOMAIN b.st : strings + b.st[k].at = o].name>>
      BY <1>8, <2>3, Zenon
    <3> QED
      BY <2>2, <2>5, <2>6, <3>1, Zenon
  <2> QED
    BY <1>9, <2>1, <2>7, SMT DEF ByteAt
<1>17. a.size_dt_struct = 4 * (Len(b.sb) + 1) /\ a.off_dt_struct \in Nat /\ Reserves(a.rsvmap, extent)
  BY <1>3, <1>5, <1>9, <1>10, SMT
<1> QED
  BY <1>12, <1>14, <1>15, <1>16, <1>17, Zenon

LEMMA LiesCarried ==
  ASSUME NEW b, NEW extent, NEW a, NEW c, NEW p \in Nat,
         Tables(b), a = Assembled(b, extent), IsCall(c), Lies(c, p, b)
  PROVE  Carries(a, a.off_dt_struct + 4 * p, c)
<1>1. PICK off, o, n : off = a.off_dt_struct /\ o = a.off_dt_struct + 4 * p /\ n = Len(b.sb)
  OBVIOUS
<1>2. /\ off \in Nat /\ n \in Nat
      /\ \A k \in 1..n : ByteAt(a, off + 4 * (k - 1)) = b.sb[k]
      /\ \A j \in 1..Len(b.st) : ByteAt(a, a.off_dt_strings + b.st[j].at) = <<"text", b.st[j].name>>
      /\ \A j \in 1..Len(b.st) : b.st[j].at \in Nat
  <2>1. /\ a.off_dt_struct \in Nat
        /\ \A k \in 1..Len(b.sb) : ByteAt(a, a.off_dt_struct + 4 * (k - 1)) = b.sb[k]
        /\ \A j \in 1..Len(b.st) :
             ByteAt(a, a.off_dt_strings + b.st[j].at) = <<"text", b.st[j].name>>
    BY AssembledBytes
  <2>2. n \in Nat /\ b.strings \in Nat /\ \A j \in 1..Len(b.st) : b.st[j].at \in 0..(b.strings - 1)
    BY <1>1 DEF Tables, IsSeq
  <2>3. \A j \in 1..Len(b.st) : b.st[j].at \in Nat
    BY <2>2
  <2>4. off \in Nat /\ \A k \in 1..n : ByteAt(a, off + 4 * (k - 1)) = b.sb[k]
    BY <1>1, <2>1
  <2> QED
    BY <2>1, <2>2, <2>3, <2>4, Zenon
<1>3. Width(c) \in Nat \ {0} /\ p + Width(c) <= n /\ o \in Nat /\ o = off + 4 * p
  BY <1>1, <1>2, WidthOf, SMT DEF Lies
<1>4. ASSUME NEW i \in 1..Width(c)
      PROVE  ByteAt(a, o + 4 * (i - 1)) = b.sb[p + i]
  <2>1. PICK k : k = p + i
    OBVIOUS
  <2>2. k \in 1..n /\ off + 4 * (k - 1) = o + 4 * (i - 1)
    BY <1>2, <1>3, <2>1, SMT
  <2>3. ByteAt(a, off + 4 * (k - 1)) = b.sb[k]
    BY <1>2, <2>2
  <2> QED
    BY <2>1, <2>2, <2>3, SMT
<1>5. ByteAt(a, o) = b.sb[p + 1]
  <2>1. 1 \in 1..Width(c) /\ o + 4 * (1 - 1) = o
    BY <1>3, SMT
  <2>2. PICK one : one = 1
    OBVIOUS
  <2>3. ByteAt(a, o + 4 * (one - 1)) = b.sb[p + one] /\ o + 4 * (one - 1) = o
    BY <1>4, <2>1, <2>2, SMT
  <2> QED
    BY <2>2, <2>3, SMT
<1>6. Width(c) >= 2 => ByteAt(a, o + 4) = b.sb[p + 2]
  <2>1. PICK two : two = 2
    OBVIOUS
  <2>2. Width(c) >= 2 => two \in 1..Width(c)
    BY <1>3, <2>1, SMT
  <2>3. o + 4 * (two - 1) = o + 4
    BY <1>3, <2>1, SMT
  <2>4. Width(c) >= 2 => ByteAt(a, o + 4 * (two - 1)) = b.sb[p + two]
    BY <1>4, <2>2
  <2> QED
    BY <2>1, <2>3, <2>4, SMT
<1>7. CASE c.call = "begin"
  <2>1. Width(c) >= 2
    BY <1>7, WidthOf
  <2>2. b.sb[p + 1] = Num(FDT_BEGIN_NODE) /\ b.sb[p + 2] = <<"text", c.name>>
    BY <1>7 DEF Lies
  <2>3. ByteAt(a, o) = Num(FDT_BEGIN_NODE) /\ ByteAt(a, o + 4) = <<"text", c.name>>
    BY <1>5, <1>6, <2>1, <2>2, Zenon
  <2> QED
    BY <1>1, <1>7, <2>3, SMT DEF Carries
<1>8. CASE c.call = "end"
  BY <1>1, <1>5, <1>8, SMT DEF Lies, Carries
<1>9. CASE c.call = "prop"
  <2>1. Width(c) = 3 + Len(c.value.cells) /\ Len(c.value.cells) \in Nat
    BY <1>9, WidthOf
  <2>2. ByteAt(a, o + 8) = b.sb[p + 3]
    <3>1. PICK i : i = 3
      OBVIOUS
    <3>2. i \in 1..Width(c) /\ o + 4 * (i - 1) = o + 8
      BY <1>3, <2>1, <3>1, SMT
    <3>3. ByteAt(a, o + 4 * (i - 1)) = b.sb[p + i]
      BY <1>4, <3>2
    <3> QED
      BY <3>1, <3>2, <3>3, SMT
  <2>3. ASSUME NEW i \in 1..Len(c.value.cells)
        PROVE  ByteAt(a, o + 8 + 4 * i) = c.value.cells[i]
    <3>1. PICK k : k = 3 + i
      OBVIOUS
    <3>2. k \in 1..Width(c) /\ o + 4 * (k - 1) = o + 8 + 4 * i /\ p + k = p + 3 + i
      BY <1>3, <2>1, <3>1, SMT
    <3>3. ByteAt(a, o + 4 * (k - 1)) = b.sb[p + k]
      BY <1>4, <3>2
    <3>4. b.sb[p + 3 + i] = c.value.cells[i]
      BY <1>9 DEF Lies
    <3> QED
      BY <3>2, <3>3, <3>4, SMT
  <2>4. PICK j \in 1..Len(b.st) : b.st[j].name = c.name /\ b.sb[p + 3] = Num(b.st[j].at)
    BY <1>9 DEF Lies
  <2>5. \E place \in Nat : /\ ByteAt(a, o + 8) = Num(place)
                           /\ ByteAt(a, a.off_dt_strings + place) = <<"text", c.name>>
    BY <1>2, <2>2, <2>4
  <2>6. ByteAt(a, o) = Num(FDT_PROP) /\ ByteAt(a, o + 4) = Num(c.value.len)
    <3>1. b.sb[p + 1] = Num(FDT_PROP) /\ b.sb[p + 2] = Num(c.value.len)
      BY <1>9 DEF Lies
    <3>2. Width(c) >= 2
      BY <2>1
    <3> QED
      BY <1>5, <1>6, <3>1, <3>2
  <2> QED
    BY <1>1, <1>9, <2>3, <2>5, <2>6, SMT DEF Carries
<1> QED
  BY <1>7, <1>8, <1>9, WidthOf

\* What was built can be read.
LEMMA AssembledReadable ==
  ASSUME NEW b, NEW extent, NEW calls, NEW a,
         IsTree(calls, extent), Built(b, calls, Len(calls)), a = Assembled(b, extent)
  PROVE  /\ Readable(a, calls) /\ a.totalsize \in Nat \ {0} /\ Reserves(a.rsvmap, extent)
<1>1. Tables(b) /\ Len(b.sb) = Places(calls)[Len(calls)]
  BY DEF Built
<1>2. PICK N, last : N = Len(calls) /\ last = Places(calls)[Len(calls)]
  OBVIOUS
<1>3. /\ a.off_dt_struct \in Nat /\ a.totalsize \in Nat \ {0}
      /\ a.size_dt_struct = 4 * (last + 1)
      /\ Reserves(a.rsvmap, extent)
      /\ ByteAt(a, a.off_dt_struct + 4 * last) = Num(FDT_END)
  BY <1>1, <1>2, AssembledBytes
<1>4. ASSUME NEW k \in 1..Len(calls)
      PROVE  Carries(a, a.off_dt_struct + 4 * Places(calls)[k - 1], calls[k])
  <2>1. Len(calls) \in Nat
    BY DEF IsTree, IsSeq
  <2>2. k - 1 \in 0..Len(calls)
    BY <2>1
  <2>3. Places(calls)[k - 1] \in Nat
    BY <2>2, PlacesOf
  <2>4. IsCall(calls[k])
    BY DEF IsTree, Belongs
  <2>5. Lies(calls[k], Places(calls)[k - 1], b)
    BY DEF Built
  <2> QED
    BY <1>1, <2>3, <2>4, <2>5, LiesCarried
<1> QED
  BY <1>2, <1>3, <1>4 DEF Readable

-----------------------------------------------------------------------------
(* The invariant.                                                          *)

Early == {"read", "kernel", "initrd"}
Handed == {"run", "up"}

KernelImage == Image("kernel", DRAM_BASE, files.kernel)
InitrdImage == Image("initrd", DRAM_BASE + INITRD_OFFSET, files.initrd)
TreeImage == Image("dtb", hart.a1, DRAM_BASE + DRAM_SIZE - hart.a1)
Images == IF files.initrd = Missing THEN <<KernelImage>> ELSE <<KernelImage, InitrdImage>>

Kinds ==
  /\ phase \in Early \cup {"build", "place", "exit"} \cup Handed
  /\ files.kernel \in Nat \cup {Missing} /\ files.initrd \in Nat \cup {Missing}
  /\ hart = [pc |-> hart.pc, a0 |-> 0, a1 |-> hart.a1] /\ hart.pc \in {0, DRAM_BASE}
  /\ rom \in {"zero", "dtb"}
  /\ made \in 0..Len(AllCalls)
  /\ blob.totalsize \in 0..DTB_BUF

\* Every image is one of the three, in DRAM.
Inside(image) ==
  /\ image.name \in {"kernel", "initrd", "dtb"}
  /\ DRAM_BASE <= image.from /\ image.from <= image.to /\ image.to <= DRAM_BASE + DRAM_SIZE

Within == IsSeq(dram) /\ \A k \in 1..Len(dram) : Inside(dram[k])

\* What has been put into DRAM so far.
Lying ==
  /\ phase \in {"read", "kernel"} => dram = <<>>
  /\ phase = "kernel" => files.kernel # Missing
  /\ phase \in {"initrd", "build", "place"} \cup Handed =>
       files.kernel \in 0..DRAM_SIZE /\ hart.pc = DRAM_BASE
  /\ phase = "initrd" => dram = <<KernelImage>>
  /\ phase \in {"build", "place"} => dram = Images
  /\ phase \in Handed => /\ dram = Append(Images, TreeImage)
                         /\ hart.a1 \in Nat
                         /\ DRAM_BASE <= hart.a1 /\ hart.a1 < DRAM_BASE + DRAM_SIZE

\* What will be said of the initrd.
Announced ==
  /\ phase \in Early => initrd = [start |-> 0, end |-> 0]
  /\ phase \in {"build", "place"} \cup Handed =>
       IF files.initrd = Missing THEN initrd = [start |-> 0, end |-> 0]
       ELSE /\ files.initrd <= DRAM_SIZE - INITRD_OFFSET
            /\ initrd = [start |-> InitrdImage.from, end |-> InitrdImage.to]

\* The blocks have the calls that were made, the blob has all.
Generated ==
  /\ phase \in Early => blocks = NoBlocks /\ made = 0
  /\ phase = "build" => Built(blocks, AllCalls, made)
  /\ phase \in {"place"} \cup Handed =>
       /\ made = Len(AllCalls) /\ Readable(blob, AllCalls)
       /\ blob.totalsize # 0 /\ Reserves(blob.rsvmap, initrd)

\* The reader stands behind the call that it read last.
Reading ==
  /\ reader = [at |-> reader.at, path |-> reader.path, count |-> reader.count,
               last |-> reader.last, found |-> reader.found]
  /\ reader.count \in 0..made
  /\ phase \notin Handed => reader.count = 0 /\ reader.path = <<>> /\ reader.found = {}
  /\ phase \in Handed => reader.at = blob.off_dt_struct + 4 * Places(AllCalls)[reader.count]
  /\ reader.count > 0 => reader.last = AllCalls[reader.count]
  /\ phase = "up" => reader.count = Len(AllCalls)

\* It found nothing but properties of the tree, and those of an initrd.
Start(extent) == <<ChosenPath, "linux,initrd-start", U64(extent.start)>>
Finish(extent) == <<ChosenPath, "linux,initrd-end", U64(extent.end)>>

Finding ==
  /\ \A p \in reader.found :
       \E k \in 1..reader.count : /\ AllCalls[k].call = "prop"
                                  /\ p = <<p[1], AllCalls[k].name, AllCalls[k].value>>
  /\ HasInitrd(initrd) =>
       /\ reader.count = 0 => reader.path = <<>>
       /\ reader.count \in 1..5 => reader.path = <<"">>
       /\ reader.count \in 6..8 => reader.path = ChosenPath
       /\ reader.count >= 7 => Start(initrd) \in reader.found
       /\ reader.count >= 8 => Finish(initrd) \in reader.found

BootInv == Kinds /\ Within /\ Lying /\ Announced /\ Generated /\ Reading /\ Finding

CallsFor(extent) == Calls([base |-> DRAM_BASE, size |-> DRAM_SIZE], extent)

LEMMA CallsAre ==
  ASSUME NEW extent
  PROVE  /\ IsTree(CallsFor(extent), extent) /\ Len(CallsFor(extent)) \in Nat
         /\ \A k \in 1..Len(CallsFor(extent)) : Belongs(CallsFor(extent)[k], extent)
<1>1. IsTree(CallsFor(extent), extent)
  BY TreeCalls, Zenon DEF CallsFor
<1> QED
  BY <1>1 DEF IsTree, IsSeq

LEMMA InitInv == Init => BootInv
<1> SUFFICES ASSUME Init PROVE BootInv
  OBVIOUS
<1>1. PICK calls : calls = AllCalls
  OBVIOUS
<1>2. Len(calls) \in Nat
  BY <1>1, CallsAre DEF AllCalls, CallsFor
<1>3. /\ phase = "read" /\ dram = <<>> /\ initrd = [start |-> 0, end |-> 0]
      /\ blocks = NoBlocks /\ made = 0 /\ blob = NoBlob /\ rom = "zero"
      /\ hart = [pc |-> 0, a0 |-> 0, a1 |-> 0]
      /\ reader = [at |-> 0, path |-> <<>>, count |-> 0, last |-> End, found |-> {}]
  BY DEF Init
<1>4. files.kernel \in Nat \cup {Missing} /\ files.initrd \in Nat \cup {Missing}
  BY SizesAssumption DEF Init
<1>5. /\ reader = [at |-> reader.at, path |-> reader.path, count |-> reader.count,
                   last |-> reader.last, found |-> reader.found]
      /\ reader.path = <<>> /\ reader.count = 0 /\ reader.found = {}
  BY <1>3
<1>6. Kinds
  <2>1. made \in 0..Len(AllCalls)
    BY <1>1, <1>2, <1>3
  <2>2. hart = [pc |-> hart.pc, a0 |-> 0, a1 |-> hart.a1] /\ hart.pc = 0
    BY <1>3
  <2>3. blob.totalsize \in 0..DTB_BUF
    BY <1>3, SMT DEF NoBlob, DTB_BUF
  <2> QED
    BY <1>3, <1>4, <2>1, <2>2, <2>3 DEF Kinds, Early
<1>7. Within
  BY <1>3 DEF Within, IsSeq
<1>8. Lying /\ Announced /\ Generated
  BY <1>3 DEF Lying, Announced, Generated, Early, Handed
<1>9. Reading
  BY <1>3, <1>5 DEF Reading, Handed
<1>10. Finding
  BY <1>5 DEF Finding
<1> QED
  BY <1>6, <1>7, <1>8, <1>9, <1>10 DEF BootInv

-----------------------------------------------------------------------------
(* The steps of the loader.                                                *)

LEMMA SameCalls ==
  ASSUME initrd' = initrd
  PROVE  AllCalls' = AllCalls
BY DEF AllCalls

LEMMA StepReadKernel ==
  ASSUME BootInv, ReadKernel
  PROVE  BootInv'
<1>1. /\ phase = "read"
      /\ phase' = IF files.kernel = Missing THEN "exit" ELSE "kernel"
      /\ files' = files /\ dram' = dram /\ initrd' = initrd /\ blocks' = blocks /\ made' = made
      /\ blob' = blob /\ hart' = hart /\ rom' = rom /\ reader' = reader
  BY DEF ReadKernel
<1>2. AllCalls' = AllCalls
  BY <1>1, SameCalls
<1>3. Kinds'
  BY <1>1, <1>2 DEF BootInv, Kinds, Early
<1>4. Within'
  BY <1>1 DEF BootInv, Within
<1>5. Lying'
  BY <1>1 DEF BootInv, Lying, Handed
<1>6. Announced'
  BY <1>1 DEF BootInv, Announced, Early, Handed
<1>7. Generated'
  BY <1>1 DEF BootInv, Generated, Early, Handed
<1>8. Reading'
  BY <1>1, <1>2 DEF BootInv, Reading, Handed
<1>9. Finding'
  BY <1>1, <1>2 DEF BootInv, Finding
<1> QED
  BY <1>3, <1>4, <1>5, <1>6, <1>7, <1>8, <1>9 DEF BootInv

LEMMA FitsBelow ==
  ASSUME NEW size \in Nat, NEW offset \in Nat, Fits(size, offset)
  PROVE  size <= DRAM_SIZE - offset
BY SMT DEF Fits, DRAM_SIZE

LEMMA FitsAtStart ==
  ASSUME NEW size \in Nat, Fits(size, 0)
  PROVE  size \in 0..DRAM_SIZE
BY SMT DEF Fits

LEMMA Tuples ==
  /\ \A x : Append(<<>>, x) = <<x>>
  /\ \A x, y : Append(<<x>>, y) = <<x, y>>
<1>1. \A x : Append(<<>>, x) = <<x>>
  OBVIOUS
<1>2. \A x, y : Append(<<x>>, y) = <<x, y>>
  <2> TAKE x, y
  <2>1. PICK s : s = <<x>>
    OBVIOUS
  <2>2. IsSeq(s) /\ Len(s) = 1 /\ s[1] = x
    BY <2>1, SMT DEF IsSeq
  <2>3. PICK t : t = Append(s, y)
    OBVIOUS
  <2>4. IsSeq(t) /\ Len(t) = 2 /\ t[1] = x /\ t[2] = y
    <3>1. IsSeq(t) /\ Len(t) = Len(s) + 1 /\ t[Len(s) + 1] = y /\ \A k \in 1..Len(s) : t[k] = s[k]
      BY <2>2, <2>3, Appending
    <3> QED
      BY <2>2, <3>1, SMT
  <2>5. t = <<x, y>>
    BY <2>4, SMT DEF IsSeq
  <2> QED
    BY <2>1, <2>3, <2>5
<1> QED
  BY <1>1, <1>2

LEMMA LoadedInside ==
  ASSUME NEW name \in {"kernel", "initrd", "dtb"}, NEW offset \in Nat, NEW size \in Nat,
         Fits(size, offset), NEW d, IsSeq(d), \A k \in 1..Len(d) : Inside(d[k]),
         NEW d2, d2 = Append(d, Image(name, DRAM_BASE + offset, size))
  PROVE  IsSeq(d2) /\ \A k \in 1..Len(d2) : Inside(d2[k])
<1>1. PICK e : e = Image(name, DRAM_BASE + offset, size)
  OBVIOUS
<1>2. e.name = name /\ e.from = DRAM_BASE + offset /\ e.to = DRAM_BASE + offset + size
  BY <1>1 DEF Image
<1>3. Inside(e)
  BY <1>2, SMT DEF Inside, Fits, DRAM_BASE, DRAM_SIZE
<1>4. /\ IsSeq(d2) /\ Len(d2) = Len(d) + 1 /\ d2[Len(d) + 1] = e
      /\ \A k \in 1..Len(d) : d2[k] = d[k]
  BY <1>1, Appending
<1>5. Len(d) \in Nat
  BY DEF IsSeq
<1>6. \A k \in 1..Len(d2) : k \in 1..Len(d) \/ k = Len(d) + 1
  BY <1>4, <1>5
<1> QED
  BY <1>3, <1>4, <1>6

LEMMA StepLoadKernel ==
  ASSUME BootInv, LoadKernel
  PROVE  BootInv'
<1>1. /\ phase = "kernel" /\ hart' = [hart EXCEPT !.pc = DRAM_BASE]
      /\ files' = files /\ initrd' = initrd /\ blocks' = blocks /\ made' = made
      /\ blob' = blob /\ rom' = rom /\ reader' = reader
  BY DEF LoadKernel
<1>2. AllCalls' = AllCalls
  BY <1>1, SameCalls
<1>3. dram = <<>> /\ files.kernel \in Nat
  BY <1>1 DEF BootInv, Lying, Kinds
<1>4. /\ hart' = [pc |-> hart'.pc, a0 |-> 0, a1 |-> hart'.a1] /\ hart'.pc = DRAM_BASE
      /\ hart'.a1 = hart.a1
  BY <1>1 DEF BootInv, Kinds
<1>5. PICK image : image = Image("kernel", DRAM_BASE, files.kernel)
  OBVIOUS
<1>6. \/ phase' = "initrd" /\ dram' = Append(dram, image) /\ Fits(files.kernel, 0)
      \/ phase' = "exit" /\ dram' = dram
  <2>1. DRAM_BASE + 0 = DRAM_BASE
    BY SMT DEF DRAM_BASE
  <2> QED
    BY <1>5, <2>1 DEF LoadKernel, Loaded
<1>7. Kinds'
  BY <1>1, <1>2, <1>4, <1>6 DEF BootInv, Kinds, Early
<1>8. Within'
  <2>1. IsSeq(dram) /\ \A k \in 1..Len(dram) : Inside(dram[k])
    BY DEF BootInv, Within
  <2>2. CASE dram' = Append(dram, image) /\ Fits(files.kernel, 0)
    <3>1. PICK d2 : d2 = dram'
      OBVIOUS
    <3>2. DRAM_BASE = DRAM_BASE + 0
      BY SMT DEF DRAM_BASE
    <3>3. d2 = Append(dram, Image("kernel", DRAM_BASE + 0, files.kernel))
      BY <1>5, <2>2, <3>1, <3>2
    <3>4. IsSeq(d2) /\ \A k \in 1..Len(d2) : Inside(d2[k])
      BY <1>3, <2>1, <2>2, <3>3, LoadedInside
    <3> QED
      BY <3>1, <3>4 DEF Within, Inside
  <2>3. CASE dram' = dram
    BY <2>1, <2>3 DEF Within
  <2> QED
    BY <1>6, <2>2, <2>3
<1>9. Lying'
  <2>1. CASE phase' = "initrd" /\ dram' = Append(dram, image) /\ Fits(files.kernel, 0)
    <3>1. dram' = <<image>>
      BY <1>3, <2>1
    <3>2. KernelImage' = image
      BY <1>1, <1>5 DEF KernelImage
    <3>3. files'.kernel \in 0..DRAM_SIZE
      <4>1. PICK size : size = files.kernel
        OBVIOUS
      <4>2. size \in Nat /\ Fits(size, 0)
        BY <1>3, <2>1, <4>1
      <4>3. size \in 0..DRAM_SIZE
        BY <4>2, FitsAtStart
      <4> QED
        BY <1>1, <4>1, <4>3
    <3> QED
      BY <1>4, <2>1, <3>1, <3>2, <3>3 DEF Lying, Handed
  <2>2. CASE phase' = "exit"
    BY <2>2 DEF Lying, Handed
  <2> QED
    BY <1>6, <2>1, <2>2
<1>10. Announced'
  BY <1>1, <1>6 DEF BootInv, Announced, Early, Handed
<1>11. Generated'
  BY <1>1, <1>6 DEF BootInv, Generated, Early, Handed
<1>12. Reading'
  BY <1>1, <1>2, <1>6 DEF BootInv, Reading, Handed
<1>13. Finding'
  BY <1>1, <1>2 DEF BootInv, Finding
<1> QED
  BY <1>7, <1>8, <1>9, <1>10, <1>11, <1>12, <1>13 DEF BootInv

LEMMA StepNoInitrd ==
  ASSUME BootInv, NoInitrd
  PROVE  BootInv'
<1>1. /\ phase = "initrd" /\ files.initrd = Missing /\ phase' = "build"
      /\ files' = files /\ dram' = dram /\ initrd' = initrd /\ blocks' = blocks /\ made' = made
      /\ blob' = blob /\ hart' = hart /\ rom' = rom /\ reader' = reader
  BY DEF NoInitrd
<1>2. AllCalls' = AllCalls
  BY <1>1, SameCalls
<1>3. Kinds'
  BY <1>1, <1>2 DEF BootInv, Kinds, Early
<1>4. Within'
  BY <1>1 DEF BootInv, Within
<1>5. Lying'
  <2>1. dram = <<KernelImage>> /\ files.kernel \in 0..DRAM_SIZE /\ hart.pc = DRAM_BASE
    BY <1>1 DEF BootInv, Lying
  <2>2. Images' = <<KernelImage>>
    BY <1>1 DEF Images, KernelImage
  <2> QED
    BY <1>1, <2>1, <2>2 DEF Lying, Handed
<1>6. Announced'
  BY <1>1 DEF BootInv, Announced, Early, Handed
<1>7. Generated'
  <2>1. blocks = NoBlocks /\ made = 0
    BY <1>1 DEF BootInv, Generated, Early
  <2>2. PICK calls : calls = AllCalls
    OBVIOUS
  <2>3. Built(NoBlocks, calls, 0)
    BY <2>2, CallsAre, BuiltNothing DEF AllCalls, CallsFor
  <2> QED
    BY <1>1, <1>2, <2>1, <2>2, <2>3 DEF Generated, Early, Handed
<1>8. Reading'
  BY <1>1, <1>2 DEF BootInv, Reading, Handed
<1>9. Finding'
  BY <1>1, <1>2 DEF BootInv, Finding
<1> QED
  BY <1>3, <1>4, <1>5, <1>6, <1>7, <1>8, <1>9 DEF BootInv

LEMMA StepLoadInitrd ==
  ASSUME BootInv, LoadInitrd
  PROVE  BootInv'
<1>1. /\ phase = "initrd" /\ files.initrd # Missing
      /\ files' = files /\ blocks' = blocks /\ made' = made
      /\ blob' = blob /\ hart' = hart /\ rom' = rom /\ reader' = reader
  BY DEF LoadInitrd
<1>2. /\ dram = <<KernelImage>> /\ files.kernel \in 0..DRAM_SIZE /\ hart.pc = DRAM_BASE
      /\ blocks = NoBlocks /\ made = 0 /\ initrd = [start |-> 0, end |-> 0]
      /\ files.initrd \in Nat
  BY <1>1 DEF BootInv, Kinds, Lying, Generated, Announced, Early
<1>3. /\ reader.count = 0 /\ reader.path = <<>> /\ reader.found = {}
      /\ reader = [at |-> reader.at, path |-> reader.path, count |-> reader.count,
                   last |-> reader.last, found |-> reader.found]
  BY <1>1, <1>2 DEF BootInv, Reading, Handed
<1>4. \/ /\ phase' = "build" /\ Fits(files.initrd, INITRD_OFFSET)
         /\ dram' = Append(dram, InitrdImage)
         /\ initrd' = [start |-> InitrdImage.from, end |-> InitrdImage.to]
      \/ phase' = "exit" /\ dram' = dram /\ initrd' = initrd
  <2>1. /\ InitrdImage.from = DRAM_BASE + INITRD_OFFSET
        /\ InitrdImage.to = DRAM_BASE + INITRD_OFFSET + files.initrd
    BY DEF InitrdImage, Image
  <2> QED
    BY <2>1, SMT DEF LoadInitrd, Loaded, InitrdImage
<1>5. PICK calls : calls = AllCalls'
  OBVIOUS
<1>6. PICK extent : extent = initrd'
  OBVIOUS
<1>7. IsTree(calls, extent) /\ Len(calls) \in Nat
  BY <1>5, <1>6, CallsAre DEF AllCalls, CallsFor
<1>8. Kinds'
  <2>1. made' \in 0..Len(AllCalls')
    BY <1>1, <1>2, <1>5, <1>7
  <2> QED
    BY <1>1, <1>4, <2>1 DEF BootInv, Kinds, Early
<1>9. Within'
  <2>1. IsSeq(dram) /\ \A k \in 1..Len(dram) : Inside(dram[k])
    BY DEF BootInv, Within
  <2>2. CASE dram' = Append(dram, InitrdImage) /\ Fits(files.initrd, INITRD_OFFSET)
    <3>1. PICK d2, size : d2 = dram' /\ size = files.initrd
      OBVIOUS
    <3>2. d2 = Append(dram, Image("initrd", DRAM_BASE + INITRD_OFFSET, size))
      BY <2>2, <3>1 DEF InitrdImage
    <3>3. INITRD_OFFSET \in Nat
      BY SMT DEF INITRD_OFFSET
    <3>4. Fits(size, INITRD_OFFSET) /\ size \in Nat
      BY <1>2, <2>2, <3>1
    <3>5. IsSeq(d2) /\ \A k \in 1..Len(d2) : Inside(d2[k])
      BY <2>1, <3>2, <3>3, <3>4, LoadedInside
    <3> QED
      BY <3>1, <3>5 DEF Within, Inside
  <2>3. CASE dram' = dram
    BY <2>1, <2>3 DEF Within
  <2> QED
    BY <1>4, <2>2, <2>3
<1>10. Lying'
  <2>1. CASE phase' = "build" /\ dram' = Append(dram, InitrdImage)
    <3>1. dram' = <<KernelImage, InitrdImage>>
      BY <1>2, <2>1, Tuples
    <3>2. Images' = <<KernelImage, InitrdImage>>
      BY <1>1 DEF Images, KernelImage, InitrdImage
    <3> QED
      BY <1>1, <1>2, <2>1, <3>1, <3>2 DEF Lying, Handed
  <2>2. CASE phase' = "exit"
    BY <2>2 DEF Lying, Handed
  <2> QED
    BY <1>4, <2>1, <2>2
<1>11. Announced'
  <2>1. CASE /\ phase' = "build" /\ Fits(files.initrd, INITRD_OFFSET)
             /\ initrd' = [start |-> InitrdImage.from, end |-> InitrdImage.to]
    <3>1. PICK size : size = files.initrd
      OBVIOUS
    <3>2. size <= DRAM_SIZE - INITRD_OFFSET
      <4>1. size \in Nat /\ Fits(size, INITRD_OFFSET)
        BY <1>2, <2>1, <3>1
      <4>2. INITRD_OFFSET \in Nat
        BY SMT DEF INITRD_OFFSET
      <4> QED
        BY <4>1, <4>2, FitsBelow
    <3>3. InitrdImage' = InitrdImage
      BY <1>1 DEF InitrdImage
    <3> QED
      BY <1>1, <2>1, <3>1, <3>2, <3>3 DEF Announced, Early, Handed
  <2>2. CASE phase' = "exit"
    BY <2>2 DEF Announced, Early, Handed
  <2> QED
    BY <1>4, <2>1, <2>2
<1>12. Generated'
  <2>1. Built(NoBlocks, calls, 0)
    BY <1>7, BuiltNothing
  <2> QED
    BY <1>1, <1>2, <1>4, <1>5, <2>1 DEF Generated, Early, Handed
<1>13. Reading'
  BY <1>1, <1>2, <1>3, <1>4 DEF Reading, Handed
<1>14. Finding'
  BY <1>1, <1>3 DEF Finding
<1> QED
  BY <1>8, <1>9, <1>10, <1>11, <1>12, <1>13, <1>14 DEF BootInv

LEMMA StepBuild ==
  ASSUME BootInv, Build
  PROVE  BootInv'
<1>1. /\ phase = "build" /\ made < Len(AllCalls) /\ made' = made + 1
      /\ blocks' = Appended(blocks, AllCalls[made + 1])
      /\ phase' = phase /\ files' = files /\ dram' = dram /\ initrd' = initrd
      /\ blob' = blob /\ hart' = hart /\ rom' = rom /\ reader' = reader
  BY DEF Build
<1>2. AllCalls' = AllCalls
  BY <1>1, SameCalls
<1>3. PICK calls, n : calls = AllCalls /\ n = made
  OBVIOUS
<1>4. IsTree(calls, initrd) /\ Len(calls) \in Nat
  BY <1>3, CallsAre DEF AllCalls, CallsFor
<1>5. n \in Nat /\ n < Len(calls)
  BY <1>1, <1>3, <1>4 DEF BootInv, Kinds
<1>6. Kinds'
  <2>1. made' \in 0..Len(AllCalls')
    BY <1>1, <1>2, <1>3, <1>4, <1>5
  <2> QED
    BY <1>1, <2>1 DEF BootInv, Kinds
<1>7. Within'
  BY <1>1 DEF BootInv, Within
<1>8. Lying'
  <2>1. Images' = Images
    BY <1>1 DEF Images, KernelImage, InitrdImage
  <2> QED
    BY <1>1, <2>1 DEF BootInv, Lying, Handed
<1>9. Announced'
  <2>1. InitrdImage' = InitrdImage
    BY <1>1 DEF InitrdImage
  <2> QED
    BY <1>1, <2>1 DEF BootInv, Announced, Early, Handed
<1>10. Generated'
  <2>1. Built(blocks, calls, n)
    BY <1>1, <1>3 DEF BootInv, Generated
  <2>2. PICK b2 : b2 = blocks'
    OBVIOUS
  <2>3. Built(b2, calls, n + 1)
    BY <1>1, <1>3, <1>4, <1>5, <2>1, <2>2, AppendedBuilt
  <2> QED
    BY <1>1, <1>2, <1>3, <2>2, <2>3 DEF Generated, Early, Handed
<1>11. Reading'
  <2>1. reader.count = 0 /\ reader.path = <<>> /\ reader.found = {}
    BY <1>1 DEF BootInv, Reading, Handed
  <2>2. reader'.count \in 0..made'
    BY <1>1, <1>3, <1>5, <2>1
  <2> QED
    BY <1>1, <1>2, <2>1, <2>2 DEF BootInv, Reading, Handed
<1>12. Finding'
  BY <1>1, <1>2 DEF BootInv, Finding
<1> QED
  BY <1>6, <1>7, <1>8, <1>9, <1>10, <1>11, <1>12 DEF BootInv

LEMMA StepAssemble ==
  ASSUME BootInv, Assemble
  PROVE  BootInv'
<1>1. /\ phase = "build" /\ made = Len(AllCalls) /\ blocks' = NoBlocks
      /\ files' = files /\ dram' = dram /\ initrd' = initrd /\ made' = made
      /\ hart' = hart /\ rom' = rom /\ reader' = reader
  BY DEF Assemble
<1>2. PICK b : b = Assembled(blocks, initrd)
  OBVIOUS
<1>3. \/ b.totalsize > DTB_BUF /\ phase' = "exit" /\ blob' = blob
      \/ ~(b.totalsize > DTB_BUF) /\ phase' = "place" /\ blob' = b
  BY <1>2, SMT DEF Assemble
<1>4. AllCalls' = AllCalls
  BY <1>1, SameCalls
<1>5. PICK calls : calls = AllCalls
  OBVIOUS
<1>6. IsTree(calls, initrd) /\ Len(calls) \in Nat
  BY <1>5, CallsAre DEF AllCalls, CallsFor
<1>7. Built(blocks, calls, Len(calls))
  BY <1>1, <1>5 DEF BootInv, Generated
<1>8. Readable(b, calls) /\ b.totalsize \in Nat \ {0} /\ Reserves(b.rsvmap, initrd)
  BY <1>2, <1>6, <1>7, AssembledReadable
<1>9. Kinds'
  <2>1. blob'.totalsize \in 0..DTB_BUF
    <3>1. CASE blob' = b /\ ~(b.totalsize > DTB_BUF)
      <4>1. b.totalsize \in 0..DTB_BUF
        <5>1. PICK total : total = b.totalsize
          OBVIOUS
        <5>2. total \in Nat /\ ~(total > DTB_BUF)
          BY <1>8, <3>1, <5>1
        <5>3. total \in 0..DTB_BUF
          BY <5>2, SMT DEF DTB_BUF
        <5> QED
          BY <5>1, <5>3
      <4> QED
        BY <3>1, <4>1
    <3>2. CASE blob' = blob
      BY <3>2 DEF BootInv, Kinds
    <3> QED
      BY <1>3, <3>1, <3>2
  <2> QED
    BY <1>1, <1>3, <1>4, <2>1 DEF BootInv, Kinds, Early
<1>10. Within'
  BY <1>1 DEF BootInv, Within
<1>11. Lying'
  <2>1. Images' = Images
    BY <1>1 DEF Images, KernelImage, InitrdImage
  <2> QED
    BY <1>1, <1>3, <2>1 DEF BootInv, Lying, Handed
<1>12. Announced'
  <2>1. InitrdImage' = InitrdImage
    BY <1>1 DEF InitrdImage
  <2> QED
    BY <1>1, <1>3, <2>1 DEF BootInv, Announced, Early, Handed
<1>13. Generated'
  BY <1>1, <1>3, <1>4, <1>5, <1>8 DEF Generated, Early, Handed
<1>14. Reading'
  BY <1>1, <1>3, <1>4 DEF BootInv, Reading, Handed
<1>15. Finding'
  BY <1>1, <1>4 DEF BootInv, Finding
<1> QED
  BY <1>9, <1>10, <1>11, <1>12, <1>13, <1>14, <1>15 DEF BootInv

LEMMA HartAfter ==
  ASSUME NEW pc, NEW a0, NEW a1, NEW zero, NEW v, NEW h, NEW h2,
         h = [pc |-> pc, a0 |-> a0, a1 |-> a1], h2 = [h EXCEPT !.a0 = zero, !.a1 = v]
  PROVE  h2 = [pc |-> pc, a0 |-> zero, a1 |-> v]
BY Zenon

\* The tree has its place at the end of DRAM.
LEMMA TreeFits ==
  ASSUME NEW total \in 1..DTB_BUF, NEW units, NEW offset,
         units = Aligned(total, UNIT) \div UNIT, offset = DRAM_SIZE - units
  PROVE  /\ units \in Nat \ {0} /\ offset \in Nat /\ Fits(units, offset)
         /\ DRAM_BASE + offset \in Nat
         /\ DRAM_BASE <= DRAM_BASE + offset /\ DRAM_BASE + offset < DRAM_BASE + DRAM_SIZE
         /\ DRAM_BASE + DRAM_SIZE - (DRAM_BASE + offset) = units
<1>1. units \in 1..256
  <2>1. total \in Nat /\ 1 <= total /\ total <= 4096
    BY SMT DEF DTB_BUF
  <2>2. units = (16 * ((total + 16 - 1) \div 16)) \div 16
    BY SMT DEF Aligned, UNIT
  <2> QED
    BY <2>1, <2>2, SMT
<1>2. PICK size, base : size = DRAM_SIZE /\ base = DRAM_BASE
  OBVIOUS
<1>3. size \in Nat /\ size > 256 /\ base \in Nat
  BY <1>2, SMT DEF DRAM_SIZE, DRAM_BASE
<1>4. offset = size - units /\ offset \in Nat /\ offset < size /\ offset + units <= size
  BY <1>1, <1>2, <1>3, SMT
<1>5. Fits(units, offset)
  BY <1>2, <1>4 DEF Fits
<1>6. /\ base + offset \in Nat /\ base <= base + offset /\ base + offset < base + size
      /\ base + size - (base + offset) = units
  BY <1>1, <1>3, <1>4, SMT
<1> QED
  BY <1>1, <1>2, <1>4, <1>5, <1>6

LEMMA StepPlace ==
  ASSUME BootInv, Place
  PROVE  BootInv'
<1>1. /\ phase = "place" /\ files' = files /\ initrd' = initrd /\ blocks' = blocks
      /\ made' = made /\ blob' = blob
  BY DEF Place
<1>2. AllCalls' = AllCalls
  BY <1>1, SameCalls
<1>3. PICK total, units, offset : /\ total = blob.totalsize
                                  /\ units = Aligned(total, UNIT) \div UNIT
                                  /\ offset = DRAM_SIZE - units
  OBVIOUS
<1>4. total \in 1..DTB_BUF
  <2>1. total \in 0..DTB_BUF /\ total # 0
    BY <1>1, <1>3 DEF BootInv, Kinds, Generated
  <2> QED
    BY <2>1
<1>5. /\ units \in Nat \ {0} /\ offset \in Nat /\ Fits(units, offset)
      /\ DRAM_BASE + offset \in Nat
      /\ DRAM_BASE <= DRAM_BASE + offset /\ DRAM_BASE + offset < DRAM_BASE + DRAM_SIZE
      /\ DRAM_BASE + DRAM_SIZE - (DRAM_BASE + offset) = units
  BY <1>3, <1>4, TreeFits
<1>6. PICK a1 : a1 = DRAM_BASE + offset
  OBVIOUS
<1>7. /\ dram' = Append(dram, Image("dtb", a1, units))
      /\ rom' = IF blob.totalsize <= ROM_SIZE * UNIT THEN "dtb" ELSE rom
      /\ hart' = [hart EXCEPT !.a0 = 0, !.a1 = a1]
      /\ reader' = [reader EXCEPT !.at = blob.off_dt_struct]
      /\ phase' = "run"
  <2>1. Fits(units, offset)
    BY <1>5
  <2> QED
    BY <1>3, <1>6, <2>1, SMT DEF Place, Loaded
<1>8. hart' = [pc |-> hart.pc, a0 |-> 0, a1 |-> a1]
  <2>1. hart = [pc |-> hart.pc, a0 |-> 0, a1 |-> hart.a1]
    BY DEF BootInv, Kinds
  <2>2. PICK pc, zero, old : pc = hart.pc /\ zero = 0 /\ old = hart.a1
    OBVIOUS
  <2>3. PICK h, h2 : h = hart /\ h2 = hart'
    OBVIOUS
  <2>4. h = [pc |-> pc, a0 |-> zero, a1 |-> old]
    BY <2>1, <2>2, <2>3
  <2>5. h2 = [h EXCEPT !.a0 = zero, !.a1 = a1]
    BY <1>7, <2>2, <2>3, Zenon
  <2>6. h2 = [pc |-> pc, a0 |-> zero, a1 |-> a1]
    BY <2>4, <2>5, HartAfter
  <2> QED
    BY <2>2, <2>3, <2>6
<1>9. Kinds'
  <2>1. rom' \in {"zero", "dtb"}
    BY <1>7 DEF BootInv, Kinds
  <2>2. hart' = [pc |-> hart'.pc, a0 |-> 0, a1 |-> hart'.a1] /\ hart'.pc \in {0, DRAM_BASE}
    BY <1>8 DEF BootInv, Kinds
  <2> QED
    BY <1>1, <1>2, <1>7, <2>1, <2>2 DEF BootInv, Kinds, Handed
<1>10. Within'
  <2>1. IsSeq(dram) /\ \A k \in 1..Len(dram) : Inside(dram[k])
    BY DEF BootInv, Within
  <2>2. PICK d2 : d2 = dram'
    OBVIOUS
  <2>3. d2 = Append(dram, Image("dtb", DRAM_BASE + offset, units))
    BY <1>6, <1>7, <2>2
  <2>4. IsSeq(d2) /\ \A k \in 1..Len(d2) : Inside(d2[k])
    BY <1>5, <2>1, <2>3, LoadedInside
  <2> QED
    BY <2>2, <2>4 DEF Within, Inside
<1>11. Lying'
  <2>1. dram = Images /\ files.kernel \in 0..DRAM_SIZE /\ hart.pc = DRAM_BASE
    BY <1>1 DEF BootInv, Lying
  <2>2. Images' = Images
    BY <1>1 DEF Images, KernelImage, InitrdImage
  <2>3. hart'.a1 = a1 /\ hart'.pc = DRAM_BASE
    BY <1>8, <2>1
  <2>4. TreeImage' = Image("dtb", a1, units)
    BY <1>5, <1>6, <2>3 DEF TreeImage
  <2>5. dram' = Append(Images', TreeImage')
    BY <1>7, <2>1, <2>2, <2>4
  <2> QED
    BY <1>1, <1>5, <1>6, <1>7, <2>1, <2>3, <2>5 DEF Lying, Handed
<1>12. Announced'
  <2>1. InitrdImage' = InitrdImage
    BY <1>1 DEF InitrdImage
  <2> QED
    BY <1>1, <1>7, <2>1 DEF BootInv, Announced, Early, Handed
<1>13. Generated'
  BY <1>1, <1>2, <1>7 DEF BootInv, Generated, Early, Handed
<1>14. Reading'
  <2>1. /\ reader.count = 0 /\ reader.path = <<>> /\ reader.found = {}
        /\ reader = [at |-> reader.at, path |-> reader.path, count |-> reader.count,
                     last |-> reader.last, found |-> reader.found]
        /\ reader.count \in 0..made
    BY <1>1 DEF BootInv, Reading, Handed
  <2>2. PICK off : off = blob.off_dt_struct
    OBVIOUS
  <2>3. /\ reader' = [at |-> reader'.at, path |-> reader'.path, count |-> reader'.count,
                      last |-> reader'.last, found |-> reader'.found]
        /\ reader'.at = off /\ reader'.count = 0 /\ reader'.count = reader.count
    BY <1>7, <2>1, <2>2
  <2>4. PICK place : place = Places(AllCalls)[0]
    OBVIOUS
  <2>5. place = 0
    BY <2>4, CallsAre, PlacesOf DEF AllCalls, CallsFor
  <2>6. off \in Nat
    BY <1>1, <2>2 DEF BootInv, Generated, Readable
  <2>7. off = off + 4 * place
    BY <2>5, <2>6
  <2>8. reader'.at = blob'.off_dt_struct + 4 * Places(AllCalls')[reader'.count]
    BY <1>1, <1>2, <2>2, <2>3, <2>4, <2>7
  <2>9. reader'.count \in 0..made'
    BY <1>1, <2>1, <2>3
  <2> QED
    BY <1>7, <2>3, <2>8, <2>9 DEF Reading, Handed
<1>15. Finding'
  <2>1. reader.count = 0 /\ reader.path = <<>> /\ reader.found = {}
    BY <1>1 DEF BootInv, Reading, Handed
  <2>2. reader'.count = 0 /\ reader'.path = <<>> /\ reader'.found = {}
    BY <1>7, <2>1 DEF BootInv, Reading
  <2> QED
    BY <2>2 DEF Finding
<1> QED
  BY <1>9, <1>10, <1>11, <1>12, <1>13, <1>14, <1>15 DEF BootInv

-----------------------------------------------------------------------------
(* The steps of the reader.                                                *)

LEMMA ReaderPasses ==
  ASSUME NEW a, NEW p, NEW c, NEW l, NEW f, NEW a2, NEW p2, NEW c2, NEW l2, NEW r, NEW r2,
         r = [at |-> a, path |-> p, count |-> c, last |-> l, found |-> f],
         r2 = [r EXCEPT !.at = a2, !.path = p2, !.count = c2, !.last = l2]
  PROVE  r2 = [at |-> a2, path |-> p2, count |-> c2, last |-> l2, found |-> f]
BY Zenon

LEMMA ReaderTakes ==
  ASSUME NEW a, NEW p, NEW c, NEW l, NEW f, NEW a2, NEW c2, NEW l2, NEW f2, NEW r, NEW r2,
         r = [at |-> a, path |-> p, count |-> c, last |-> l, found |-> f],
         r2 = [r EXCEPT !.at = a2, !.count = c2, !.last = l2, !.found = f2]
  PROVE  r2 = [at |-> a2, path |-> p, count |-> c2, last |-> l2, found |-> f2]
BY Zenon

LEMMA TokenAt ==
  ASSUME NEW o
  PROVE  At(o) = ByteAt(blob, o)
BY DEF At, ByteAt

LEMMA NumAt ==
  ASSUME NEW o, NEW n, NEW m, ByteAt(blob, o) = Num(n)
  PROVE  IsNum(o, m) <=> m = n
<1>1. At(o) = <<"num", n>>
  BY TokenAt DEF Num
<1> QED
  BY <1>1 DEF IsNum

LEMMA ReadsBegin ==
  ASSUME NEW a, NEW p, NEW n, NEW l, NEW f,
         reader = [at |-> a, path |-> p, count |-> n, last |-> l, found |-> f],
         NEW c, IsCall(c), c.call = "begin", Carries(blob, a, c),
         ReadBegin \/ ReadEnd \/ ReadProp \/ ReadFinish
  PROVE  /\ phase' = phase
         /\ reader' = [at |-> a + 4 * Width(c), path |-> Append(p, c.name), count |-> n + 1,
                       last |-> c, found |-> f]
<1>1. reader.at = a /\ reader.path = p /\ reader.count = n /\ reader.found = f
  OBVIOUS
<1>2. ByteAt(blob, a) = Num(FDT_BEGIN_NODE) /\ ByteAt(blob, a + 4) = <<"text", c.name>>
  BY DEF Carries
<1>3. ~IsNum(a, FDT_END_NODE) /\ ~IsNum(a, FDT_PROP) /\ ~IsNum(a, FDT_END)
  BY <1>2, NumAt DEF FDT_BEGIN_NODE, FDT_END_NODE, FDT_PROP, FDT_END
<1>4. ReadBegin
  BY <1>1, <1>3 DEF ReadEnd, ReadProp, ReadFinish
<1>5. At(reader.at + 4)[2] = c.name
  <2>1. At(reader.at + 4) = <<"text", c.name>>
    BY <1>1, <1>2, TokenAt
  <2> QED
    BY <2>1
<1>6. PICK name, size : name = c.name /\ size = 4 + Aligned(Size(c.name), 4)
  OBVIOUS
<1>7. Reads(Begin(name), size, Append(reader.path, name)) /\ phase' = phase
  BY <1>4, <1>5, <1>6 DEF ReadBegin
<1>8. PICK a2, p2, n2, l2 : a2 = a + size /\ p2 = Append(p, name) /\ n2 = n + 1 /\ l2 = Begin(name)
  OBVIOUS
<1>9. PICK r2 : r2 = reader'
  OBVIOUS
<1>10. r2 = [reader EXCEPT !.at = a2, !.path = p2, !.count = n2, !.last = l2]
  BY <1>1, <1>7, <1>8, <1>9 DEF Reads
<1>11. r2 = [at |-> a2, path |-> p2, count |-> n2, last |-> l2, found |-> f]
  BY <1>10, ReaderPasses
<1>12. l2 = c
  BY <1>6, <1>8, WidthOf
<1>13. size = 4 * Width(c)
  <2>1. PICK m : m = Aligned(Size(c.name), 4) \div 4
    OBVIOUS
  <2>2. m \in Nat /\ Aligned(Size(c.name), 4) = 4 * m
    BY <2>1, TextCellsAre DEF IsCall
  <2>3. Width(c) = 1 + m
    BY <2>1, WidthOf
  <2> QED
    BY <1>6, <2>2, <2>3
<1> QED
  BY <1>6, <1>7, <1>8, <1>9, <1>11, <1>12, <1>13

LEMMA ReadsEnd ==
  ASSUME NEW a, NEW p, NEW n, NEW l, NEW f,
         reader = [at |-> a, path |-> p, count |-> n, last |-> l, found |-> f],
         NEW c, IsCall(c), c.call = "end", Carries(blob, a, c),
         ReadBegin \/ ReadEnd \/ ReadProp \/ ReadFinish
  PROVE  /\ phase' = phase
         /\ reader' = [at |-> a + 4 * Width(c), path |-> Front(p), count |-> n + 1,
                       last |-> c, found |-> f]
<1>1. reader.at = a /\ reader.path = p /\ reader.count = n /\ reader.found = f
  OBVIOUS
<1>2. ByteAt(blob, a) = Num(FDT_END_NODE)
  BY DEF Carries
<1>3. ~IsNum(a, FDT_BEGIN_NODE) /\ ~IsNum(a, FDT_PROP) /\ ~IsNum(a, FDT_END)
  BY <1>2, NumAt DEF FDT_BEGIN_NODE, FDT_END_NODE, FDT_PROP, FDT_END
<1>4. ReadEnd
  BY <1>1, <1>3 DEF ReadBegin, ReadProp, ReadFinish
<1>5. PICK a2, p2, n2, l2 : a2 = a + 4 /\ p2 = Front(p) /\ n2 = n + 1 /\ l2 = c
  OBVIOUS
<1>6. l2 = End /\ Width(c) = 1
  BY <1>5, WidthOf
<1>7. Reads(End, 4, Front(reader.path)) /\ phase' = phase
  BY <1>4 DEF ReadEnd
<1>8. PICK r2 : r2 = reader'
  OBVIOUS
<1>9. r2 = [reader EXCEPT !.at = a2, !.path = p2, !.count = n2, !.last = l2]
  BY <1>1, <1>5, <1>6, <1>7, <1>8 DEF Reads
<1>10. r2 = [at |-> a2, path |-> p2, count |-> n2, last |-> l2, found |-> f]
  BY <1>9, ReaderPasses
<1>11. a2 = a + 4 * Width(c)
  BY <1>5, <1>6
<1> QED
  BY <1>5, <1>7, <1>8, <1>10, <1>11

LEMMA ReadsProp ==
  ASSUME NEW a, NEW p, NEW n, NEW l, NEW f,
         reader = [at |-> a, path |-> p, count |-> n, last |-> l, found |-> f],
         NEW c, IsCall(c), c.call = "prop", Carries(blob, a, c),
         ReadBegin \/ ReadEnd \/ ReadProp \/ ReadFinish, a \in Nat
  PROVE  /\ phase' = phase
         /\ reader' = [at |-> a + 4 * Width(c), path |-> p, count |-> n + 1, last |-> c,
                       found |-> f \cup {<<p, c.name, c.value>>}]
<1>1. reader.at = a /\ reader.path = p /\ reader.count = n /\ reader.found = f
  OBVIOUS
<1>2. /\ ByteAt(blob, a) = Num(FDT_PROP) /\ ByteAt(blob, a + 4) = Num(c.value.len)
      /\ \E place \in Nat : /\ ByteAt(blob, a + 8) = Num(place)
                            /\ ByteAt(blob, blob.off_dt_strings + place) = <<"text", c.name>>
      /\ \A i \in 1..Len(c.value.cells) : ByteAt(blob, a + 8 + 4 * i) = c.value.cells[i]
  BY DEF Carries
<1>3. ~IsNum(a, FDT_BEGIN_NODE) /\ ~IsNum(a, FDT_END_NODE) /\ ~IsNum(a, FDT_END)
  BY <1>2, NumAt DEF FDT_BEGIN_NODE, FDT_END_NODE, FDT_PROP, FDT_END
<1>4. ReadProp
  BY <1>1, <1>3 DEF ReadBegin, ReadEnd, ReadFinish
<1>5. PICK len : len = At(a + 4)
  OBVIOUS
<1>6. len[2] = c.value.len
  BY <1>2, <1>5, TokenAt DEF Num
<1>7. PICK name : name = At(blob.off_dt_strings + At(a + 8)[2])
  OBVIOUS
<1>8. name[2] = c.name
  <2>1. PICK place \in Nat : /\ ByteAt(blob, a + 8) = Num(place)
                            /\ ByteAt(blob, blob.off_dt_strings + place) = <<"text", c.name>>
    BY <1>2
  <2>2. At(a + 8)[2] = place
    BY <2>1, TokenAt DEF Num
  <2>3. name = <<"text", c.name>>
    BY <1>7, <2>1, <2>2, TokenAt
  <2> QED
    BY <2>3
<1>9. PICK words : words = Aligned(len[2], 4) \div 4
  OBVIOUS
<1>10. /\ words = Len(c.value.cells) /\ words \in Nat /\ IsSeq(c.value.cells)
       /\ c.value = Value(c.value.len, c.value.cells)
  BY <1>6, <1>9 DEF IsCall, IsValue, IsSeq
<1>11. PICK cells : cells = [k \in 1..words |-> At(a + 8 + 4 * k)]
  OBVIOUS
<1>12. cells = c.value.cells
  <2>1. \A k \in 1..words : At(a + 8 + 4 * k) = c.value.cells[k]
    BY <1>2, <1>10, TokenAt
  <2>2. c.value.cells = [k \in 1..words |-> c.value.cells[k]]
    BY <1>10 DEF IsSeq
  <2> QED
    BY <1>11, <2>1, <2>2, Zenon
<1>13. PICK value : value = Value(len[2], cells)
  OBVIOUS
<1>14. value = c.value
  BY <1>6, <1>10, <1>12, <1>13
<1>15. PICK a2, n2, l2, f2 : /\ a2 = a + 12 + 4 * words /\ n2 = n + 1 /\ l2 = Prop(name[2], value)
                             /\ f2 = f \cup {<<p, name[2], value>>}
  OBVIOUS
<1>16. PICK r2 : r2 = reader'
  OBVIOUS
<1>17. r2 = [reader EXCEPT !.at = a2, !.count = n2, !.last = l2, !.found = f2] /\ phase' = phase
  BY <1>1, <1>4, <1>5, <1>7, <1>9, <1>11, <1>13, <1>15, <1>16, Zenon DEF ReadProp
<1>18. r2 = [at |-> a2, path |-> p, count |-> n2, last |-> l2, found |-> f2]
  BY <1>17, ReaderTakes
<1>19. l2 = c /\ f2 = f \cup {<<p, c.name, c.value>>}
  <2>1. c = Prop(c.name, c.value)
    BY WidthOf
  <2> QED
    BY <1>8, <1>14, <1>15, <2>1
<1>20. a2 = a + 4 * Width(c)
  <2>1. Width(c) = 3 + words
    BY <1>10, WidthOf
  <2> QED
    <3>1. words \in Nat /\ a2 = a + 12 + 4 * words
      BY <1>10, <1>15
    <3> QED
      BY <2>1, <3>1
<1> QED
  BY <1>15, <1>16, <1>17, <1>18, <1>19, <1>20

\* What a call makes of the path and of the properties found.
Takes(c, p, f, p2, f2) ==
  /\ p2 = IF c.call = "begin" THEN Append(p, c.name)
          ELSE IF c.call = "end" THEN Front(p) ELSE p
  /\ f2 = IF c.call = "prop" THEN f \cup {<<p, c.name, c.value>>} ELSE f

\* The calls with which a tree announces an initrd, and how they leave the reader.
Tells(calls, none, chosen, first, second, v1, v2) ==
  /\ calls[1] = Begin(none) /\ \A k \in 2..5 : calls[k].call = "prop"
  /\ calls[6] = Begin(chosen) /\ calls[7] = Prop(first, v1) /\ calls[8] = Prop(second, v2)

Told(n, p, f, top, path, s, e) ==
  /\ n = 0 => p = <<>>
  /\ n \in 1..5 => p = top
  /\ n \in 6..8 => p = path
  /\ n >= 7 => s \in f
  /\ n >= 8 => e \in f

LEMMA Finds ==
  ASSUME NEW none, NEW chosen, NEW first, NEW second, NEW v1, NEW v2, NEW calls,
         Tells(calls, none, chosen, first, second, v1, v2),
         NEW n \in Nat, NEW p, NEW f, NEW p2, NEW f2, Takes(calls[n + 1], p, f, p2, f2),
         NEW top, NEW path, NEW s, NEW e, top = <<none>>, path = <<none, chosen>>,
         s = <<path, first, v1>>, e = <<path, second, v2>>, Told(n, p, f, top, path, s, e)
  PROVE  Told(n + 1, p2, f2, top, path, s, e)
<1> PICK c : c = calls[n + 1]
  OBVIOUS
<1>a. /\ calls[1] = Begin(none) /\ \A k \in 2..5 : calls[k].call = "prop"
      /\ calls[6] = Begin(chosen) /\ calls[7] = Prop(first, v1)
      /\ calls[8] = Prop(second, v2)
  BY DEF Tells
<1>b. Takes(c, p, f, p2, f2)
  OBVIOUS
<1>c. n + 1 # 0
  OBVIOUS
<1> USE <1>a, <1>b, <1>c DEF Takes, Told
<1>1. CASE n = 0
  <2>1. c.call = "begin" /\ c.name = none
    BY <1>1 DEF Begin
  <2>2. p2 = Append(<<>>, none)
    BY <1>1, <2>1
  <2>3. p2 = top
    BY <2>2, Tuples
  <2>4. n + 1 = 1
    BY <1>1
  <2>5. ~(n + 1 \in 6..8) /\ ~(n + 1 >= 7) /\ ~(n + 1 >= 8)
    BY <2>4
  <2> QED
    BY <2>3, <2>5, Zenon
<1>2. CASE n \in 1..4
  <2>1. c.call = "prop"
    <3>1. n + 1 \in 2..5
      BY <1>2
    <3> QED
      BY <3>1
  <2>2. p2 = p /\ p = top
    BY <1>2, <2>1
  <2> QED
    BY <1>2, <2>2
<1>3. CASE n = 5
  <2>1. c.call = "begin" /\ c.name = chosen
    BY <1>3 DEF Begin
  <2>2. p2 = Append(p, chosen) /\ p = top
    BY <1>3, <2>1
  <2>3. Append(top, chosen) = path
    BY Tuples, Zenon
  <2>4. p2 = path
    BY <2>2, <2>3, Zenon
  <2>5. n + 1 = 6
    BY <1>3
  <2>6. ~(n + 1 \in 1..5) /\ ~(n + 1 >= 7) /\ ~(n + 1 >= 8)
    BY <2>5
  <2> QED
    BY <2>4, <2>6, Zenon
<1>4. CASE n = 6
  <2>1. c.call = "prop" /\ c.name = first /\ c.value = v1
    BY <1>4 DEF Prop
  <2>2. p2 = p /\ p = path /\ f2 = f \cup {<<p, first, v1>>}
    BY <1>4, <2>1
  <2> QED
    BY <1>4, <2>2
<1>5. CASE n = 7
  <2>1. c.call = "prop" /\ c.name = second /\ c.value = v2
    BY <1>5 DEF Prop
  <2>2. p2 = p /\ p = path /\ f2 = f \cup {<<p, second, v2>>}
    BY <1>5, <2>1
  <2> QED
    BY <1>5, <2>2
<1>6. CASE n >= 8
  <2>1. f \subseteq f2
    OBVIOUS
  <2> QED
    BY <1>6, <2>1
<1> QED
  BY <1>1, <1>2, <1>3, <1>4, <1>5, <1>6

LEMMA StepKernelReads ==
  ASSUME BootInv, KernelReads
  PROVE  BootInv'
<1>1. /\ phase = "run"
      /\ (ReadBegin \/ ReadEnd \/ ReadProp \/ ReadFinish)
      /\ files' = files /\ dram' = dram /\ initrd' = initrd /\ blocks' = blocks /\ made' = made
      /\ blob' = blob /\ hart' = hart /\ rom' = rom
  BY DEF KernelReads
<1>2. AllCalls' = AllCalls
  BY <1>1, SameCalls
<1>3. PICK calls, extent, N : calls = AllCalls /\ extent = initrd /\ N = Len(AllCalls)
  OBVIOUS
<1>4. IsTree(calls, extent) /\ N \in Nat /\ \A k \in 1..N : Belongs(calls[k], extent)
  BY <1>3, CallsAre DEF AllCalls, CallsFor
<1>5. PICK a, p, n, l, f : /\ a = reader.at /\ p = reader.path /\ n = reader.count
                           /\ l = reader.last /\ f = reader.found
  OBVIOUS
<1>6. /\ reader = [at |-> a, path |-> p, count |-> n, last |-> l, found |-> f]
      /\ n \in 0..N /\ made = N
  BY <1>1, <1>3, <1>5 DEF BootInv, Reading, Generated, Handed
<1>7. Readable(blob, calls)
  BY <1>1, <1>3 DEF BootInv, Generated, Handed
<1>8. a = blob.off_dt_struct + 4 * Places(calls)[n]
  BY <1>1, <1>3, <1>5 DEF BootInv, Reading, Handed
<1>9. PICK off : off = blob.off_dt_struct
  OBVIOUS
<1>10. /\ off \in Nat /\ ByteAt(blob, off + 4 * Places(calls)[N]) = Num(FDT_END)
       /\ \A k \in 1..N : Carries(blob, off + 4 * Places(calls)[k - 1], calls[k])
  BY <1>3, <1>7, <1>9 DEF Readable
<1>11. /\ \A k \in 0..N : Places(calls)[k] \in Nat
       /\ \A k \in 1..N : Places(calls)[k] = Places(calls)[k - 1] + Width(calls[k])
  BY <1>3, <1>4, PlacesOf
<1>12. Places(calls)[n] \in Nat /\ a \in Nat
  BY <1>6, <1>8, <1>9, <1>10, <1>11
<1>13. CASE n = N
  <2>1. ByteAt(blob, a) = Num(FDT_END)
    BY <1>8, <1>9, <1>10, <1>13
  <2>2. ~IsNum(a, FDT_BEGIN_NODE) /\ ~IsNum(a, FDT_END_NODE) /\ ~IsNum(a, FDT_PROP)
    BY <2>1, NumAt DEF FDT_BEGIN_NODE, FDT_END_NODE, FDT_PROP, FDT_END
  <2>3. phase' = "up" /\ reader' = reader
    BY <1>1, <1>5, <2>2 DEF ReadBegin, ReadEnd, ReadProp, ReadFinish
  <2>4. Kinds'
    BY <1>1, <1>2, <2>3 DEF BootInv, Kinds, Handed
  <2>5. Within'
    BY <1>1 DEF BootInv, Within
  <2>6. Lying'
    <3>1. Images' = Images /\ TreeImage' = TreeImage
      BY <1>1 DEF Images, KernelImage, InitrdImage, TreeImage
    <3> QED
      BY <1>1, <2>3, <3>1 DEF BootInv, Lying, Handed
  <2>7. Announced'
    <3>1. InitrdImage' = InitrdImage
      BY <1>1 DEF InitrdImage
    <3> QED
      BY <1>1, <2>3, <3>1 DEF BootInv, Announced, Early, Handed
  <2>8. Generated'
    BY <1>1, <1>2, <2>3 DEF BootInv, Generated, Early, Handed
  <2>9. Reading'
    <3>1. reader'.count = Len(AllCalls')
      BY <1>2, <1>3, <1>5, <1>13, <2>3
    <3> QED
      BY <1>1, <1>2, <2>3, <3>1 DEF BootInv, Reading, Handed
  <2>10. Finding'
    BY <1>1, <1>2, <2>3 DEF BootInv, Finding
  <2> QED
    BY <2>4, <2>5, <2>6, <2>7, <2>8, <2>9, <2>10 DEF BootInv
<1>14. CASE n # N
  <2>1. n \in Nat /\ n + 1 \in 1..N /\ (n + 1) - 1 = n
    BY <1>4, <1>6, <1>14
  <2>2. PICK c : c = calls[n + 1]
    OBVIOUS
  <2>3. IsCall(c) /\ Belongs(c, extent)
    BY <1>4, <2>1, <2>2 DEF Belongs
  <2>4. Carries(blob, a, c)
    <3>1. Carries(blob, off + 4 * Places(calls)[(n + 1) - 1], calls[n + 1])
      BY <1>10, <2>1
    <3> QED
      BY <1>8, <1>9, <2>1, <2>2, <3>1
  <2>5. PICK a2, p2, f2 :
          /\ a2 = a + 4 * Width(c)
          /\ p2 = IF c.call = "begin" THEN Append(p, c.name)
                  ELSE IF c.call = "end" THEN Front(p) ELSE p
          /\ f2 = IF c.call = "prop" THEN f \cup {<<p, c.name, c.value>>} ELSE f
    OBVIOUS
  <2>6. /\ phase' = phase
        /\ reader' = [at |-> a2, path |-> p2, count |-> n + 1, last |-> c, found |-> f2]
    <3>1. CASE c.call = "begin"
      BY <1>1, <1>6, <2>3, <2>4, <2>5, <3>1, ReadsBegin
    <3>2. CASE c.call = "end"
      BY <1>1, <1>6, <2>3, <2>4, <2>5, <3>2, ReadsEnd
    <3>3. CASE c.call = "prop"
      BY <1>1, <1>6, <1>12, <2>3, <2>4, <2>5, <3>3, ReadsProp
    <3> QED
      BY <2>3, <3>1, <3>2, <3>3, WidthOf
  <2>7. /\ reader'.at = a2 /\ reader'.path = p2 /\ reader'.count = n + 1 /\ reader'.last = c
        /\ reader'.found = f2
        /\ reader' = [at |-> reader'.at, path |-> reader'.path, count |-> reader'.count,
                      last |-> reader'.last, found |-> reader'.found]
    BY <2>6
  <2>8. Kinds'
    BY <1>1, <1>2, <2>6 DEF BootInv, Kinds, Handed
  <2>9. Within'
    BY <1>1 DEF BootInv, Within
  <2>10. Lying'
    <3>1. Images' = Images /\ TreeImage' = TreeImage
      BY <1>1 DEF Images, KernelImage, InitrdImage, TreeImage
    <3> QED
      BY <1>1, <2>6, <3>1 DEF BootInv, Lying, Handed
  <2>11. Announced'
    <3>1. InitrdImage' = InitrdImage
      BY <1>1 DEF InitrdImage
    <3> QED
      BY <1>1, <2>6, <3>1 DEF BootInv, Announced, Early, Handed
  <2>12. Generated'
    BY <1>1, <1>2, <2>6 DEF BootInv, Generated, Early, Handed
  <2>13. Reading'
    <3>1. PICK place, next : place = Places(calls)[n] /\ next = Places(calls)[n + 1]
      OBVIOUS
    <3>2. next = place + Width(c) /\ place \in Nat /\ Width(c) \in Nat
      BY <1>11, <1>12, <2>1, <2>2, <2>3, <3>1, WidthOf
    <3>3. a2 = off + 4 * next
      BY <1>8, <1>9, <1>10, <2>5, <3>1, <3>2
    <3>4. reader'.at = blob'.off_dt_struct + 4 * Places(AllCalls')[reader'.count]
      BY <1>1, <1>2, <1>3, <1>9, <2>7, <3>1, <3>3
    <3>5. reader'.count \in 0..made'
      BY <1>1, <1>6, <2>1, <2>7
    <3>6. reader'.last = AllCalls'[reader'.count]
      BY <1>2, <1>3, <2>2, <2>7
    <3> QED
      BY <1>1, <2>6, <2>7, <3>4, <3>5, <3>6 DEF Reading, Handed
  <2>14. Finding'
    <3>1. /\ \A q \in f : \E k \in 1..n : /\ calls[k].call = "prop"
                                         /\ q = <<q[1], calls[k].name, calls[k].value>>
          /\ HasInitrd(extent) =>
               /\ n = 0 => p = <<>>
               /\ n \in 1..5 => p = <<"">>
               /\ n \in 6..8 => p = ChosenPath
               /\ n >= 7 => Start(extent) \in f
               /\ n >= 8 => Finish(extent) \in f
      BY <1>3, <1>5, Zenon DEF BootInv, Finding
    <3>2. ASSUME NEW q \in f2
          PROVE  \E k \in 1..(n + 1) : /\ calls[k].call = "prop"
                                      /\ q = <<q[1], calls[k].name, calls[k].value>>
      <4>1. CASE q \in f
        <5>1. PICK k \in 1..n : /\ calls[k].call = "prop"
                                /\ q = <<q[1], calls[k].name, calls[k].value>>
          BY <3>1, <4>1, Zenon
        <5>2. k \in 1..(n + 1)
          BY <2>1
        <5> QED
          BY <5>1, <5>2
      <4>2. CASE q \notin f
        <5>1. c.call = "prop" /\ q = <<p, c.name, c.value>>
          BY <2>5, <4>2
        <5>2. q[1] = p
          BY <5>1
        <5>3. n + 1 \in 1..(n + 1)
          BY <2>1
        <5> QED
          BY <2>2, <5>1, <5>2, <5>3
      <4> QED
        BY <4>1, <4>2
    <3>3. f \subseteq f2
      BY <2>5
    <3>4. ASSUME HasInitrd(extent)
          PROVE  /\ n + 1 \in 1..5 => p2 = <<"">>
                 /\ n + 1 \in 6..8 => p2 = ChosenPath
                 /\ n + 1 >= 7 => Start(extent) \in f2
                 /\ n + 1 >= 8 => Finish(extent) \in f2
      <4>1. /\ calls[1] = Begin("") /\ \A k \in 2..5 : calls[k].call = "prop"
            /\ calls[6] = Begin("chosen")
            /\ calls[7] = Prop("linux,initrd-start", U64(extent.start))
            /\ calls[8] = Prop("linux,initrd-end", U64(extent.end))
        BY <1>3, <3>4, TreeCalls, Zenon DEF AllCalls
      <4>2. PICK none, chosen, first, second, v1, v2 :
              /\ none = "" /\ chosen = "chosen" /\ first = "linux,initrd-start"
              /\ second = "linux,initrd-end" /\ v1 = U64(extent.start) /\ v2 = U64(extent.end)
        BY Zenon
      <4>3. PICK path, s, e : /\ path = <<none, chosen>> /\ s = <<path, first, v1>>
                              /\ e = <<path, second, v2>>
        OBVIOUS
      <4>4. path = ChosenPath /\ s = Start(extent) /\ e = Finish(extent)
        BY <4>2, <4>3, Zenon DEF ChosenPath, Start, Finish
      <4>5. Tells(calls, none, chosen, first, second, v1, v2)
        BY <4>1, <4>2, Zenon DEF Tells
      <4>6. PICK top : top = <<none>>
        OBVIOUS
      <4>7. top = <<"">>
        BY <4>2, <4>6, Zenon
      <4>8. Told(n, p, f, top, path, s, e)
        BY <3>1, <3>4, <4>4, <4>7, Zenon DEF Told
      <4>9. Told(n + 1, p2, f2, top, path, s, e)
        <5>1. n \in Nat /\ Takes(calls[n + 1], p, f, p2, f2)
          BY <2>1, <2>2, <2>5 DEF Takes
        <5>2. path = <<none, chosen>> /\ s = <<path, first, v1>> /\ e = <<path, second, v2>>
          BY <4>3
        <5> QED
          BY <4>5, <4>6, <4>8, <5>1, <5>2, Finds, Zenon
      <4> QED
        BY <4>4, <4>7, <4>9, Zenon DEF Told
    <3>5. n + 1 # 0
      BY <2>1
    <3>6. reader'.count = n + 1 /\ reader'.path = p2 /\ reader'.found = f2
      BY <2>7
    <3>7. AllCalls' = calls /\ initrd' = extent
      BY <1>1, <1>2, <1>3
    <3>8. \A q \in f2 :
            \E k \in 1..(n + 1) : /\ calls[k].call = "prop"
                                  /\ q = <<q[1], calls[k].name, calls[k].value>>
      BY <3>2
    <3>9. \A q \in reader'.found :
            \E k \in 1..reader'.count :
              /\ AllCalls'[k].call = "prop"
              /\ q = <<q[1], AllCalls'[k].name, AllCalls'[k].value>>
      BY <3>6, <3>7, <3>8, Zenon
    <3>10. HasInitrd(initrd') =>
             /\ reader'.count = 0 => reader'.path = <<>>
             /\ reader'.count \in 1..5 => reader'.path = <<"">>
             /\ reader'.count \in 6..8 => reader'.path = ChosenPath
             /\ reader'.count >= 7 => Start(initrd') \in reader'.found
             /\ reader'.count >= 8 => Finish(initrd') \in reader'.found
      BY <3>4, <3>5, <3>6, <3>7, Zenon
    <3> QED
      BY <3>9, <3>10, Zenon DEF Finding, HasInitrd, Start, Finish, ChosenPath
  <2> QED
    BY <2>8, <2>9, <2>10, <2>11, <2>12, <2>13, <2>14 DEF BootInv
<1> QED
  BY <1>13, <1>14

-----------------------------------------------------------------------------

LEMMA StepUnchanged ==
  ASSUME BootInv, UNCHANGED vars
  PROVE  BootInv'
<1>1. /\ phase' = phase /\ files' = files /\ dram' = dram /\ initrd' = initrd
      /\ blocks' = blocks /\ made' = made /\ blob' = blob /\ hart' = hart /\ rom' = rom
      /\ reader' = reader
  BY DEF vars
<1>2. AllCalls' = AllCalls
  BY <1>1, SameCalls
<1>3. Kinds'
  BY <1>1, <1>2 DEF BootInv, Kinds
<1>4. Within'
  BY <1>1 DEF BootInv, Within
<1>5. KernelImage' = KernelImage /\ InitrdImage' = InitrdImage /\ TreeImage' = TreeImage
  BY <1>1 DEF KernelImage, InitrdImage, TreeImage
<1>6. Images' = Images
  BY <1>1, <1>5 DEF Images
<1>7. Lying'
  BY <1>1, <1>5, <1>6 DEF BootInv, Lying
<1>8. Announced'
  BY <1>1, <1>5 DEF BootInv, Announced
<1>9. Generated'
  BY <1>1, <1>2 DEF BootInv, Generated
<1>10. Reading'
  BY <1>1, <1>2 DEF BootInv, Reading
<1>11. Finding'
  BY <1>1, <1>2 DEF BootInv, Finding
<1> QED
  BY <1>3, <1>4, <1>7, <1>8, <1>9, <1>10, <1>11 DEF BootInv

\* The invariant: what has been put into DRAM, what the blocks and the blob hold
\* of the calls, and how far the reader has come (main.c, dtb_generate).
THEOREM BootInvariant == BootSpec => []BootInv
<1>1. Init => BootInv
  BY InitInv
<1>2. BootInv /\ [Next]_vars => BootInv'
  <2> SUFFICES ASSUME BootInv, [Next]_vars PROVE BootInv'
    OBVIOUS
  <2>1. CASE ReadKernel
    BY <2>1, StepReadKernel
  <2>2. CASE LoadKernel
    BY <2>2, StepLoadKernel
  <2>3. CASE NoInitrd
    BY <2>3, StepNoInitrd
  <2>4. CASE LoadInitrd
    BY <2>4, StepLoadInitrd
  <2>5. CASE Build
    BY <2>5, StepBuild
  <2>6. CASE Assemble
    BY <2>6, StepAssemble
  <2>7. CASE Place
    BY <2>7, StepPlace
  <2>8. CASE KernelReads
    BY <2>8, StepKernelReads
  <2>9. CASE Ended \/ UNCHANGED vars
    BY <2>9, StepUnchanged DEF Ended
  <2> QED
    BY <2>1, <2>2, <2>3, <2>4, <2>5, <2>6, <2>7, <2>8, <2>9 DEF Next
<1> QED
  BY <1>1, <1>2, PTL DEF BootSpec

\* Every variable has its type.
THEOREM BootTyped == BootSpec => []BootTypeOK
<1>1. BootInv => BootTypeOK
  <2> SUFFICES ASSUME BootInv PROVE BootTypeOK
    OBVIOUS
  <2>1. Kinds /\ Within /\ Reading
    BY DEF BootInv
  <2>2. phase \in {"read", "kernel", "initrd", "build", "place", "run", "exit", "up"}
    BY <2>1 DEF Kinds, Early, Handed
  <2>3. DOMAIN dram = 1..Len(dram) /\ \A k \in 1..Len(dram) : Inside(dram[k])
    BY <2>1 DEF Within, IsSeq
  <2>4. \A k \in DOMAIN dram :
          /\ dram[k].name \in {"kernel", "initrd", "dtb"}
          /\ DRAM_BASE <= dram[k].from /\ dram[k].from <= dram[k].to
          /\ dram[k].to <= DRAM_BASE + DRAM_SIZE
    BY <2>3 DEF Inside
  <2>5. made \in 0..Len(AllCalls) /\ blob.totalsize \in 0..DTB_BUF /\ rom \in {"zero", "dtb"}
    BY <2>1 DEF Kinds
  <2>6. reader.count \in 0..made
    BY <2>1 DEF Reading
  <2>7. hart.pc \in {0, DRAM_BASE} /\ hart.a0 = 0
    BY <2>1 DEF Kinds
  <2> QED
    BY <2>2, <2>4, <2>5, <2>6, <2>7, Zenon DEF BootTypeOK
<1> QED
  BY <1>1, BootInvariant, PTL

\* Reading the tree gives the calls that built it, in their order and all of them.
THEOREM TreeReadsBack == BootSpec => []ReadsBack
<1>1. BootInv => ReadsBack
  BY DEF BootInv, Reading, ReadsBack
<1> QED
  BY <1>1, BootInvariant, PTL

-----------------------------------------------------------------------------
(* What the kernel finds in the tree, and where its images lie.            *)

LEMMA Constants ==
  /\ DRAM_BASE \in Nat /\ DRAM_SIZE \in Nat /\ INITRD_OFFSET \in Nat
  /\ 0 < INITRD_OFFSET /\ INITRD_OFFSET < DRAM_SIZE
BY SMT DEF DRAM_BASE, DRAM_SIZE, INITRD_OFFSET

LEMMA NumberOf ==
  ASSUME NEW path, NEW name, NEW n, \A p \in reader.found : p[2] = name => p[3] = U64(n),
         Has(path, name)
  PROVE  Number(path, name) = n
<1>1. PICK p : p = (CHOOSE q \in reader.found : q[1] = path /\ q[2] = name)
  OBVIOUS
<1>2. p \in reader.found /\ p[1] = path /\ p[2] = name
  <2>1. \E q : q \in reader.found /\ q[1] = path /\ q[2] = name
    BY DEF Has
  <2> QED
    BY <1>1, <2>1, Zenon
<1>3. Of(path, name) = U64(n)
  BY <1>1, <1>2, Zenon DEF Of
<1>4. U64(n).cells[1][2] = n
  BY DEF U64, Value, U64Cells
<1> QED
  BY <1>3, <1>4 DEF Number

\* What is found under a name that the tree gives an initrd's address.
LEMMA FoundAnnounced ==
  ASSUME BootInv, NEW p \in reader.found
  PROVE  /\ p[2] = "linux,initrd-start" => HasInitrd(initrd) /\ p[3] = U64(initrd.start)
         /\ p[2] = "linux,initrd-end" => HasInitrd(initrd) /\ p[3] = U64(initrd.end)
<1>1. PICK first, second : first = "linux,initrd-start" /\ second = "linux,initrd-end"
  BY Zenon
<1>2. PICK k \in 1..reader.count : /\ AllCalls[k].call = "prop"
                                   /\ p = <<p[1], AllCalls[k].name, AllCalls[k].value>>
  BY Zenon DEF BootInv, Finding
<1>3. k \in 1..Len(AllCalls)
  <2>1. reader.count \in 0..made /\ made \in 0..Len(AllCalls)
    BY Zenon DEF BootInv, Reading, Kinds
  <2>2. PICK n, m, l : n = reader.count /\ m = made /\ l = Len(AllCalls)
    BY Zenon
  <2>3. n \in 0..m /\ m \in 0..l /\ k \in 1..n /\ l \in Nat
    BY <2>1, <2>2, CallsAre, Zenon DEF AllCalls, CallsFor
  <2>4. k \in 1..l
    BY <2>3, SMT
  <2> QED
    BY <2>2, <2>4, Zenon
<1>4. PICK c : c = AllCalls[k]
  BY Zenon
<1>5. Announces(c, initrd)
  BY <1>2, <1>3, <1>4, CallsAre, Zenon DEF AllCalls, CallsFor, Belongs
<1>6. p[2] = c.name /\ p[3] = c.value
  <2>1. p = <<p[1], c.name, c.value>>
    BY <1>2, <1>4, Zenon
  <2>2. PICK z, a, b : z = p[1] /\ a = c.name /\ b = c.value
    OBVIOUS
  <2>3. p = <<z, a, b>>
    BY <2>1, <2>2, Zenon
  <2> QED
    BY <2>2, <2>3
<1> QED
  BY <1>5, <1>6, Zenon DEF Announces

\* An initrd is announced if there is one, at its addresses.
LEMMA InitrdAnnounced ==
  ASSUME BootInv, phase = "up"
  PROVE  /\ Has(ChosenPath, "linux,initrd-start") <=> HasInitrd(initrd)
         /\ HasInitrd(initrd) =>
              /\ Number(ChosenPath, "linux,initrd-start") = initrd.start
              /\ Number(ChosenPath, "linux,initrd-end") = initrd.end
<1>1. PICK first, second, path : /\ first = "linux,initrd-start" /\ second = "linux,initrd-end"
                                 /\ path = ChosenPath
  BY Zenon
<1>2. ASSUME HasInitrd(initrd)
      PROVE  Has(path, first) /\ Has(path, second)
  <2>1. reader.count = Len(AllCalls) /\ Len(AllCalls) >= 8 /\ Len(AllCalls) \in Nat
    <3>1. reader.count = Len(AllCalls)
      BY DEF BootInv, Reading
    <3>2. Len(AllCalls) >= 8
      BY <1>2, TreeCalls, Zenon DEF AllCalls
    <3> QED
      BY <3>1, <3>2, CallsAre, Zenon DEF AllCalls, CallsFor
  <2>2. reader.count >= 7 /\ reader.count >= 8
    BY <2>1
  <2>3. Start(initrd) \in reader.found /\ Finish(initrd) \in reader.found
    BY <1>2, <2>2, Zenon DEF BootInv, Finding
  <2>4. PICK s, e, v, w : /\ s = <<path, first, v>> /\ e = <<path, second, w>>
                          /\ s \in reader.found /\ e \in reader.found
    BY <1>1, <2>3, Zenon DEF Start, Finish
  <2>5. s[1] = path /\ s[2] = first /\ e[1] = path /\ e[2] = second
    BY <2>4
  <2> QED
    BY <2>4, <2>5, Zenon DEF Has
<1>3. ASSUME Has(path, first)
      PROVE  HasInitrd(initrd)
  BY <1>1, <1>3, FoundAnnounced, Zenon DEF Has
<1>4. \A p \in reader.found : /\ p[2] = first => p[3] = U64(initrd.start)
                              /\ p[2] = second => p[3] = U64(initrd.end)
  BY <1>1, FoundAnnounced, Zenon
<1>5. ASSUME HasInitrd(initrd)
      PROVE  Number(path, first) = initrd.start /\ Number(path, second) = initrd.end
  BY <1>2, <1>4, <1>5, NumberOf, Zenon
<1> QED
  BY <1>1, <1>2, <1>3, <1>5, Zenon

\* Two images of which the later leaves the earlier whole.
Spares(x, y) == y.to <= x.from \/ x.to <= y.from \/ y.from = y.to

LEMMA IntactTwo ==
  ASSUME NEW x, NEW y, dram = <<x, y>>, x.name # y.name
  PROVE  /\ Intact(y.name)
         /\ Intact(x.name) <=> Spares(x, y)
<1>1. dram[1] = x /\ dram[2] = y /\ DOMAIN dram = {1, 2}
  OBVIOUS
<1>2. Intact(y.name)
  BY <1>1 DEF Intact
<1>3. Intact(x.name) <=> Spares(x, y)
  BY <1>1 DEF Intact, Spares
<1> QED
  BY <1>2, <1>3

LEMMA IntactThree ==
  ASSUME NEW x, NEW y, NEW z, dram = <<x, y, z>>,
         x.name # y.name, x.name # z.name, y.name # z.name
  PROVE  /\ Intact(z.name)
         /\ Intact(y.name) <=> Spares(y, z)
         /\ Intact(x.name) <=> Spares(x, y) /\ Spares(x, z)
<1>1. dram[1] = x /\ dram[2] = y /\ dram[3] = z /\ DOMAIN dram = {1, 2, 3}
  OBVIOUS
<1>2. Intact(z.name)
  BY <1>1 DEF Intact
<1>3. Intact(y.name) <=> Spares(y, z)
  BY <1>1 DEF Intact, Spares
<1>4. Intact(x.name) <=> Spares(x, y) /\ Spares(x, z)
  BY <1>1 DEF Intact, Spares
<1> QED
  BY <1>2, <1>3, <1>4

LEMMA Triple ==
  ASSUME NEW x, NEW y, NEW z
  PROVE  Append(<<x, y>>, z) = <<x, y, z>>
<1>1. PICK s : s = <<x, y>>
  OBVIOUS
<1>2. IsSeq(s) /\ Len(s) = 2 /\ s[1] = x /\ s[2] = y
  BY <1>1, SMT DEF IsSeq
<1>3. PICK t : t = Append(s, z)
  OBVIOUS
<1>4. IsSeq(s)
  BY <1>2
<1>5. IsSeq(t) /\ Len(t) = Len(s) + 1 /\ t[Len(s) + 1] = z /\ \A k \in 1..Len(s) : t[k] = s[k]
  BY <1>3, <1>4, Appending
<1>6. IsSeq(t) /\ Len(t) = 3 /\ t[1] = x /\ t[2] = y /\ t[3] = z
  <2>1. 1 \in 1..Len(s) /\ 2 \in 1..Len(s) /\ Len(s) + 1 = 3
    BY <1>2, SMT
  <2> QED
    BY <1>2, <1>5, <2>1
<1>7. t = <<x, y, z>>
  <2>1. t = [k \in 1..3 |-> t[k]]
    BY <1>6 DEF IsSeq
  <2> QED
    BY <1>6, <2>1, SMT
<1> QED
  BY <1>1, <1>3, <1>7

\* The images of an invariant state in which the kernel is up.
LEMMA ImagesLie ==
  ASSUME BootInv, phase = "up"
  PROVE  /\ files.kernel \in 0..DRAM_SIZE /\ hart.pc = DRAM_BASE
         /\ hart.a1 \in Nat /\ DRAM_BASE <= hart.a1 /\ hart.a1 < DRAM_BASE + DRAM_SIZE
         /\ files.initrd = Missing =>
              dram = <<KernelImage, TreeImage>> /\ initrd = [start |-> 0, end |-> 0]
         /\ files.initrd # Missing =>
              /\ dram = <<KernelImage, InitrdImage, TreeImage>>
              /\ files.initrd \in Nat /\ files.initrd <= DRAM_SIZE - INITRD_OFFSET
              /\ initrd = [start |-> InitrdImage.from, end |-> InitrdImage.to]
<1>1. /\ files.kernel \in 0..DRAM_SIZE /\ hart.pc = DRAM_BASE /\ hart.a1 \in Nat
      /\ DRAM_BASE <= hart.a1 /\ hart.a1 < DRAM_BASE + DRAM_SIZE
      /\ dram = Append(Images, TreeImage)
  BY DEF BootInv, Lying, Handed
<1>2. PICK k, i, t : k = KernelImage /\ i = InitrdImage /\ t = TreeImage
  OBVIOUS
<1>3. CASE files.initrd = Missing
  <2>1. Images = <<k>>
    BY <1>2, <1>3 DEF Images
  <2>2. dram = <<k, t>>
    BY <1>1, <1>2, <2>1, Tuples
  <2>3. initrd = [start |-> 0, end |-> 0]
    BY <1>3 DEF BootInv, Announced, Handed
  <2> QED
    BY <1>1, <1>2, <1>3, <2>2, <2>3
<1>4. CASE files.initrd # Missing
  <2>1. Images = <<k, i>>
    BY <1>2, <1>4 DEF Images
  <2>2. dram = <<k, i, t>>
    BY <1>1, <1>2, <2>1, Triple
  <2>3. /\ files.initrd <= DRAM_SIZE - INITRD_OFFSET
        /\ initrd = [start |-> InitrdImage.from, end |-> InitrdImage.to]
    BY <1>4 DEF BootInv, Announced, Handed
  <2>4. files.initrd \in Nat
    BY <1>4 DEF BootInv, Kinds
  <2> QED
    BY <1>1, <1>2, <1>4, <2>2, <2>3, <2>4
<1> QED
  BY <1>3, <1>4

\* The extents of the three images, and which of them spare which.
LEMMA KernelSpared ==
  ASSUME NEW K \in Nat, NEW tree \in Nat, NEW k, NEW t,
         DRAM_BASE <= tree, tree < DRAM_BASE + DRAM_SIZE,
         k.from = DRAM_BASE, k.to = DRAM_BASE + K,
         t.from = tree, t.to = DRAM_BASE + DRAM_SIZE
  PROVE  K > 0 => (Spares(k, t) <=> DRAM_BASE + K <= tree)
<1>1. PICK B, S : B = DRAM_BASE /\ S = DRAM_SIZE
  OBVIOUS
<1>2. B \in Nat /\ S \in Nat
  BY <1>1, Constants
<1>3. K > 0 => (Spares(k, t) <=> B + K <= tree)
  BY <1>1, <1>2 DEF Spares
<1> QED
  BY <1>1, <1>3

LEMMA InitrdSpared ==
  ASSUME NEW K \in Nat, NEW tree \in Nat, NEW k, NEW t, NEW n \in Nat, NEW i,
         DRAM_BASE <= tree, tree < DRAM_BASE + DRAM_SIZE,
         k.from = DRAM_BASE, k.to = DRAM_BASE + K,
         t.from = tree, t.to = DRAM_BASE + DRAM_SIZE,
         i.from = DRAM_BASE + INITRD_OFFSET, i.to = DRAM_BASE + INITRD_OFFSET + n
  PROVE  /\ i.to - i.from = n
         /\ Spares(i, t) <=> i.to <= tree
         /\ K > 0 => (Spares(k, i) <=> (n > 0 => K <= INITRD_OFFSET))
<1>1. PICK B, S, O : B = DRAM_BASE /\ S = DRAM_SIZE /\ O = INITRD_OFFSET
  OBVIOUS
<1>2. B \in Nat /\ S \in Nat /\ O \in Nat /\ 0 < O /\ O < S
  BY <1>1, Constants
<1>3. i.to - i.from = n
  BY <1>1, <1>2
<1>4. Spares(i, t) <=> i.to <= tree
  BY <1>1, <1>2 DEF Spares
<1>5. K > 0 => (Spares(k, i) <=> (n > 0 => K <= O))
  BY <1>1, <1>2 DEF Spares
<1> QED
  BY <1>1, <1>3, <1>4, <1>5

LEMMA InitrdHanded ==
  ASSUME BootInv, phase = "up"
  PROVE  HasInitrd(initrd) <=> files.initrd > 0
<1>1. CASE files.initrd = Missing
  <2>1. initrd.start = 0 /\ initrd.end = 0
    BY <1>1, ImagesLie
  <2> QED
    BY <1>1, <2>1, SMT DEF HasInitrd, Missing
<1>2. CASE files.initrd # Missing
  <2>1. PICK n, B, O : n = files.initrd /\ B = DRAM_BASE /\ O = INITRD_OFFSET
    OBVIOUS
  <2>2. n \in Nat /\ initrd.start = B + O /\ initrd.end = B + O + n
    BY <1>2, <2>1, ImagesLie DEF InitrdImage, Image
  <2>3. B \in Nat /\ O \in Nat
    BY <2>1, Constants
  <2> QED
    BY <2>1, <2>2, <2>3 DEF HasInitrd
<1> QED
  BY <1>1, <1>2

\* The hart starts on the kernel, with the tree whole at a1; an initrd is announced
\* where all of it lies if and only if there is one, and the same addresses are
\* reserved; and each image is whole exactly as long as it ends before the next one
\* (main.c).
THEOREM HandedOver == BootSpec => []ImagesHandedOver
<1>1. ASSUME BootInv, phase = "up"
      PROVE  ImagesHandedOver
  <2>1. PICK tree, K, R, k, i, t : /\ tree = hart.a1 /\ K = files.kernel /\ R = files.initrd
                                   /\ k = KernelImage /\ i = InitrdImage /\ t = TreeImage
    OBVIOUS
  <2>2. PICK first, second, path : /\ first = "linux,initrd-start"
                                   /\ second = "linux,initrd-end" /\ path = ChosenPath
    BY Zenon
  <2>3. /\ K \in Nat /\ hart.pc = DRAM_BASE /\ tree \in Nat
        /\ DRAM_BASE <= tree /\ tree < DRAM_BASE + DRAM_SIZE
    BY <1>1, <2>1, ImagesLie
  <2>4. /\ k.name = "kernel" /\ i.name = "initrd" /\ t.name = "dtb"
        /\ k.from = DRAM_BASE /\ k.to = DRAM_BASE + K
        /\ i.from = DRAM_BASE + INITRD_OFFSET /\ i.to = DRAM_BASE + INITRD_OFFSET + R
        /\ t.from = tree /\ t.to = tree + (DRAM_BASE + DRAM_SIZE - tree)
        /\ i = [name |-> "initrd", from |-> i.from, to |-> i.to]
    BY <2>1 DEF KernelImage, InitrdImage, TreeImage, Image
  <2>5. t.to = DRAM_BASE + DRAM_SIZE
    BY <2>3, <2>4, Constants
  <2>6. HasInitrd(initrd) <=> R > 0
    BY <1>1, <2>1, InitrdHanded
  <2>7. /\ Has(path, first) <=> R > 0
        /\ R > 0 => Number(path, first) = initrd.start /\ Number(path, second) = initrd.end
    BY <1>1, <2>2, <2>6, InitrdAnnounced, Zenon
  <2>8. /\ Len(blob.rsvmap) = IF R > 0 THEN 2 ELSE 1
        /\ R > 0 => blob.rsvmap[1] = <<initrd.start, initrd.end - initrd.start>>
    BY <1>1, <2>6 DEF BootInv, Generated, Handed, Reserves
  <2>9. K > 0 => (Spares(k, t) <=> DRAM_BASE + K <= tree)
    BY <2>3, <2>4, <2>5, KernelSpared
  <2>10. CASE R = Missing
    <3>1. ~(R > 0)
      BY <2>10, SMT DEF Missing
    <3>2. dram = <<k, t>>
      BY <1>1, <2>1, <2>10, ImagesLie
    <3>3. Intact("dtb") /\ (Intact("kernel") <=> Spares(k, t))
      BY <2>4, <3>2, IntactTwo
    <3> QED
      BY <2>1, <2>2, <2>3, <2>7, <2>8, <2>9, <3>1, <3>3, Zenon DEF ImagesHandedOver
  <2>11. CASE R # Missing
    <3>1. /\ dram = <<k, i, t>> /\ R \in Nat /\ R <= DRAM_SIZE - INITRD_OFFSET
          /\ initrd.start = i.from /\ initrd.end = i.to
      BY <1>1, <2>1, <2>11, ImagesLie
    <3>2. /\ i.to - i.from = R
          /\ Spares(i, t) <=> i.to <= tree
          /\ K > 0 => (Spares(k, i) <=> (R > 0 => K <= INITRD_OFFSET))
      BY <2>3, <2>4, <2>5, <3>1, InitrdSpared
    <3>3. /\ Intact("dtb") /\ (Intact("initrd") <=> Spares(i, t))
          /\ Intact("kernel") <=> Spares(k, i) /\ Spares(k, t)
      BY <2>4, <3>1, IntactThree
    <3>4. 2 \in DOMAIN dram /\ dram[2] = i
      BY <3>1
    <3>5. \E j \in DOMAIN dram : dram[j] = [name |-> "initrd", from |-> i.from, to |-> i.to]
      BY <2>4, <3>4, Zenon
    <3>6. R > 0 => /\ Number(path, first) = i.from /\ Number(path, second) = i.to
                   /\ blob.rsvmap[1] = <<i.from, i.to - i.from>>
      BY <2>7, <2>8, <3>1
    <3>7. K > 0 => (Intact("kernel") <=> /\ DRAM_BASE + K <= tree
                                         /\ R > 0 => K <= INITRD_OFFSET)
      BY <2>9, <3>2, <3>3
    <3> QED
      BY <2>1, <2>2, <2>3, <2>7, <2>8, <3>2, <3>3, <3>5, <3>6, <3>7, Zenon DEF ImagesHandedOver
  <2> QED
    BY <2>10, <2>11
<1>2. BootInv => ImagesHandedOver
  BY <1>1, Zenon DEF ImagesHandedOver
<1> QED
  BY <1>2, BootInvariant, PTL

=============================================================================
