-------------------------------- MODULE Boot --------------------------------
(***************************************************************************)
(* The loader (main.c): the kernel and the initrd are read from files and  *)
(* put into DRAM, the device tree is built call by call, assembled and put *)
(* at the end of DRAM and into the ROM, and the hart starts with the tree's*)
(* address in a1.  Then a kernel (external) reads the tree it was handed,  *)
(* token by token.                                                         *)
(*                                                                         *)
(* Sizes of files and addresses are in units of 16 bytes, as in MemoryMap; *)
(* offsets in the blob are in bytes.                                       *)
(***************************************************************************)
EXTENDS DeviceTree, SequencesExt, FiniteSetsExt

CONSTANTS KernelSizes, InitrdSizes    \* of the files, in units

ASSUME SizesAssumption == KernelSizes \subseteq Nat /\ InitrdSizes \subseteq Nat

VARIABLES
  phase,    \* how far main has come, or how it ended
  files,    \* the two files: a size each, or Missing
  dram,     \* the images in DRAM with their extents, in the order they were put there
  initrd,   \* initrd_start and initrd_end
  blocks,   \* what the generator has built
  made,     \* the number of its calls that were made
  blob,     \* dtb_buf
  hart,     \* pc, a0, a1
  rom,      \* what the ROM holds
  reader    \* the kernel's reader of the tree

vars == <<phase, files, dram, initrd, blocks, made, blob, hart, rom, reader>>

Missing == -1

INITRD_OFFSET == \h800000   \* 128 MiB
DTB_BUF == 4096             \* bytes

NoBlob == [totalsize |-> 0]

Image(name, from, size) == [name |-> name, from |-> from, to |-> from + size]

\* Slip: the place of the image is forgotten.
Fits_SizeOnly(size, offset) == size <= DRAM_SIZE

\* dram_load_binary: the copy, when it fits.
Fits(size, offset) == offset + size <= DRAM_SIZE

Loaded(name, size, offset) == Append(dram, Image(name, DRAM_BASE + offset, size))

AllCalls == Calls([base |-> DRAM_BASE, size |-> DRAM_SIZE], initrd)

Init ==
  /\ phase = "read"
  /\ files \in [kernel : KernelSizes \cup {Missing}, initrd : InitrdSizes \cup {Missing}]
  /\ dram = <<>>
  /\ initrd = [start |-> 0, end |-> 0]
  /\ blocks = NoBlocks /\ made = 0
  /\ blob = NoBlob
  /\ hart = [pc |-> 0, a0 |-> 0, a1 |-> 0]
  /\ rom = "zero"
  /\ reader = [at |-> 0, path |-> <<>>, count |-> 0, last |-> End, found |-> {}]

-----------------------------------------------------------------------------

\* The kernel's file is read before anything else is set up.
ReadKernel ==
  /\ phase = "read"
  /\ phase' = IF files.kernel = Missing THEN "exit" ELSE "kernel"
  /\ UNCHANGED <<files, dram, initrd, blocks, made, blob, hart, rom, reader>>

\* cpu_init and cpu_load_binary.
LoadKernel ==
  /\ phase = "kernel"
  /\ hart' = [hart EXCEPT !.pc = DRAM_BASE]
  /\ IF Fits(files.kernel, 0)
     THEN phase' = "initrd" /\ dram' = Loaded("kernel", files.kernel, 0)
     ELSE phase' = "exit" /\ UNCHANGED dram
  /\ UNCHANGED <<files, initrd, blocks, made, blob, rom, reader>>

\* Without the option, or with a file that cannot be read, boot goes on.
NoInitrd ==
  /\ phase = "initrd" /\ files.initrd = Missing
  /\ phase' = "build"
  /\ UNCHANGED <<files, dram, initrd, blocks, made, blob, hart, rom, reader>>

\* Slip: the end that is announced is an offset.
LoadInitrd_EndOffset ==
  /\ phase = "initrd" /\ files.initrd # Missing
  /\ IF Fits(files.initrd, INITRD_OFFSET)
     THEN /\ dram' = Loaded("initrd", files.initrd, INITRD_OFFSET)
          /\ initrd' = [start |-> DRAM_BASE + INITRD_OFFSET, end |-> INITRD_OFFSET + files.initrd]
          /\ phase' = "build"
     ELSE phase' = "exit" /\ UNCHANGED <<dram, initrd>>
  /\ UNCHANGED <<files, blocks, made, blob, hart, rom, reader>>

LoadInitrd ==
  /\ phase = "initrd" /\ files.initrd # Missing
  /\ IF Fits(files.initrd, INITRD_OFFSET)
     THEN LET iaddr == DRAM_BASE + INITRD_OFFSET
          IN /\ dram' = Loaded("initrd", files.initrd, INITRD_OFFSET)
             /\ initrd' = [start |-> iaddr, end |-> iaddr + files.initrd]
             /\ phase' = "build"
     ELSE phase' = "exit" /\ UNCHANGED <<dram, initrd>>
  /\ UNCHANGED <<files, blocks, made, blob, hart, rom, reader>>

\* dtb_generate, one call.
Build ==
  /\ phase = "build" /\ made < Len(AllCalls)
  /\ blocks' = Appended(blocks, AllCalls[made + 1])
  /\ made' = made + 1
  /\ UNCHANGED <<phase, files, dram, initrd, blob, hart, rom, reader>>

\* dtb_generate, its end; the blocks are freed.
Assemble ==
  /\ phase = "build" /\ made = Len(AllCalls)
  /\ LET b == Assembled(blocks, initrd)
     IN IF b.totalsize > DTB_BUF
        THEN phase' = "exit" /\ UNCHANGED blob
        ELSE phase' = "place" /\ blob' = b
  /\ blocks' = NoBlocks
  /\ UNCHANGED <<files, dram, initrd, made, hart, rom, reader>>

\* Slip: the address is rounded up, and the end of the tree no longer fits.
Place_RoundsUp ==
  /\ phase = "place"
  /\ LET units == Aligned(blob.totalsize, UNIT) \div UNIT
         offset == DRAM_SIZE - blob.totalsize \div UNIT
     IN IF Fits(units, offset)
        THEN /\ dram' = Loaded("dtb", units, offset)
             /\ rom' = IF blob.totalsize <= ROM_SIZE * UNIT THEN "dtb" ELSE rom
             /\ hart' = [hart EXCEPT !.a0 = 0, !.a1 = DRAM_BASE + offset]
             /\ reader' = [reader EXCEPT !.at = blob.off_dt_struct]
             /\ phase' = "run"
        ELSE phase' = "exit" /\ UNCHANGED <<dram, rom, hart, reader>>
  /\ UNCHANGED <<files, initrd, blocks, made, blob>>

\* The tree's address is rounded down to a multiple of 16 bytes.
Place ==
  /\ phase = "place"
  /\ LET units == Aligned(blob.totalsize, UNIT) \div UNIT
         offset == DRAM_SIZE - units
     IN IF Fits(units, offset)
        THEN /\ dram' = Loaded("dtb", units, offset)
             /\ rom' = IF blob.totalsize <= ROM_SIZE * UNIT THEN "dtb" ELSE rom
             /\ hart' = [hart EXCEPT !.a0 = 0, !.a1 = DRAM_BASE + offset]
             /\ reader' = [reader EXCEPT !.at = blob.off_dt_struct]
             /\ phase' = "run"
        ELSE phase' = "exit" /\ UNCHANGED <<dram, rom, hart, reader>>
  /\ UNCHANGED <<files, initrd, blocks, made, blob>>

-----------------------------------------------------------------------------
(* The kernel's reader, by the format of the blob: tokens from             *)
(* off_dt_struct on, the names of properties from off_dt_strings on.       *)

At(o) == IF o \in DOMAIN blob.bytes THEN blob.bytes[o] ELSE <<"nothing", 0>>

IsNum(o, n) == At(o)[1] = "num" /\ At(o)[2] = n

\* The image on top at an address.
OnTop(addr) ==
  LET over == {k \in DOMAIN dram : dram[k].from <= addr /\ addr < dram[k].to}
  IN IF over = {} THEN "zero" ELSE dram[Max(over)].name

Reads(call, size, path) ==
  reader' = [reader EXCEPT !.at = @ + size, !.path = path, !.count = @ + 1, !.last = call]

ReadBegin ==
  LET name == At(reader.at + 4)[2]
  IN /\ IsNum(reader.at, FDT_BEGIN_NODE) /\ At(reader.at + 4)[1] = "text"
     /\ Reads(Begin(name), 4 + Aligned(Size(name), 4), Append(reader.path, name))
     /\ UNCHANGED phase

ReadEnd ==
  /\ IsNum(reader.at, FDT_END_NODE) /\ reader.path # <<>>
  /\ Reads(End, 4, Front(reader.path))
  /\ UNCHANGED phase

ReadProp ==
  LET len == At(reader.at + 4)
      place == At(reader.at + 8)
      name == At(blob.off_dt_strings + place[2])
      words == Aligned(len[2], 4) \div 4
      value == Value(len[2], [k \in 1..words |-> At(reader.at + 8 + 4 * k)])
  IN /\ IsNum(reader.at, FDT_PROP)
     /\ len[1] = "num" /\ place[1] = "num" /\ name[1] = "text"
     /\ reader' = [reader EXCEPT !.at = @ + 12 + 4 * words, !.count = @ + 1,
                                 !.last = Prop(name[2], value),
                                 !.found = @ \cup {<<reader.path, name[2], value>>}]
     /\ UNCHANGED phase

ReadFinish ==
  /\ IsNum(reader.at, FDT_END) /\ reader.path = <<>>
  /\ reader.at + 4 = blob.off_dt_struct + blob.size_dt_struct
  /\ phase' = "up"
  /\ UNCHANGED reader

\* What a1 points at is read; anything but a token stops the kernel.
KernelReads ==
  /\ phase = "run" /\ OnTop(hart.a1) = "dtb"
  /\ ReadBegin \/ ReadEnd \/ ReadProp \/ ReadFinish
  /\ UNCHANGED <<files, dram, initrd, blocks, made, blob, hart, rom>>

Ended == phase \in {"exit", "up"} /\ UNCHANGED vars

Next ==
  \/ ReadKernel \/ LoadKernel \/ NoInitrd \/ LoadInitrd
  \/ Build \/ Assemble \/ Place \/ KernelReads \/ Ended

BootSpec == Init /\ [][Next]_vars /\ WF_vars(Next)

-----------------------------------------------------------------------------

\* Every variable has its type: extents lie in DRAM, the blob is no larger than
\* its buffer, no more calls are read than were made (main.c).
BootTypeOK ==
  /\ phase \in {"read", "kernel", "initrd", "build", "place", "run", "exit", "up"}
  /\ \A k \in DOMAIN dram : /\ dram[k].name \in {"kernel", "initrd", "dtb"}
                            /\ DRAM_BASE <= dram[k].from /\ dram[k].from <= dram[k].to
                            /\ dram[k].to <= DRAM_BASE + DRAM_SIZE
  /\ made \in 0..Len(AllCalls) /\ reader.count \in 0..made
  /\ blob.totalsize \in 0..DTB_BUF
  /\ rom \in {"zero", "dtb"}
  /\ hart.pc \in {0, DRAM_BASE} /\ hart.a0 = 0

\* The emulator starts the kernel exactly when the kernel's file can be read and
\* fits, and the initrd's, if it can be read, fits behind its offset; the tree is
\* never the reason for an exit.  And every kernel that is started comes through
\* its tree (main.c, dram_load_binary, dtb_generate).
Startable == /\ files.kernel \in 0..DRAM_SIZE
             /\ files.initrd <= DRAM_SIZE - INITRD_OFFSET

StartsOrExits == <>[](phase = IF Startable THEN "up" ELSE "exit")

\* Reading the tree gives the calls that built it, in their order and all of
\* them: the offsets, paddings and shared names agree between the two ends
\* (sb_begin_node, sb_prop, strtab_add and the assembly of dtb_generate).
ReadsBack ==
  /\ reader.count > 0 => reader.last = AllCalls[reader.count]
  /\ phase = "up" => reader.count = Len(AllCalls)

\* The properties that the kernel found.
Has(path, name) == \E p \in reader.found : p[1] = path /\ p[2] = name
Of(path, name) == (CHOOSE p \in reader.found : p[1] = path /\ p[2] = name)[3]
Number(path, name) == Of(path, name).cells[1][2]
Paths == {p[1] : p \in reader.found}

\* What remains in DRAM of an image: all, or what later ones left of it.
Intact(name) ==
  \E k \in DOMAIN dram :
    /\ dram[k].name = name
    /\ \A j \in DOMAIN dram :
         j > k => \/ dram[j].to <= dram[k].from \/ dram[k].to <= dram[j].from
                  \/ dram[j].from = dram[j].to

ChosenPath == <<"", "chosen">>

\* The hart starts on the kernel, with the tree at a1.  An initrd is announced if
\* and only if one was loaded that is not empty; then the announced addresses are
\* where all of it lies, the same are reserved, and it is the root.  Nothing
\* checks that images are apart: the kernel is whole up to 128 MiB if there is
\* an initrd, and each is whole as long as it ends before the tree (main.c).
ImagesHandedOver ==
  phase = "up" =>
    LET tree == hart.a1
        there == files.initrd > 0
        announced == Has(ChosenPath, "linux,initrd-start")
        start == Number(ChosenPath, "linux,initrd-start")
        end == Number(ChosenPath, "linux,initrd-end")
    IN /\ Intact("dtb") /\ hart.pc = DRAM_BASE
       /\ announced <=> there
       /\ Len(blob.rsvmap) = IF there THEN 2 ELSE 1
       /\ there =>
            /\ \E k \in DOMAIN dram : dram[k] = [name |-> "initrd", from |-> start, to |-> end]
            /\ end - start = files.initrd
            /\ blob.rsvmap[1] = <<start, end - start>>
            /\ Intact("initrd") <=> end <= tree
       /\ files.kernel > 0 =>
            (Intact("kernel") <=> /\ DRAM_BASE + files.kernel <= tree
                                  /\ there => files.kernel <= INITRD_OFFSET)

\* The driver that serves each device of the bus.
DriverOf(device) ==
  CASE device = "clint"  -> "riscv,clint0"
    [] device = "plic"   -> "sifive,plic-1.0.0"
    [] device = "uart"   -> "ns16550a"
    [] device = "syscon" -> "sifive,test1|sifive,test0|syscon"
    [] device \in {"virtio", "virtio_net", "virtio_rng"} -> "virtio,mmio"
    [] OTHER -> "none"

\* Nodes with a range of addresses, and the node that has a phandle.
Ranged == {path \in Paths : Has(path, "reg") /\ Of(path, "reg").len = 16}
Base(path) == Of(path, "reg").cells[1][2]
Extent(path) == Of(path, "reg").cells[3][2]
Device(path) == BusTarget(Base(path))
Handle(n) == {path \in Paths : Has(path, "phandle") /\ Number(path, "phandle") = n}

\* The pairs of interrupts-extended: a phandle and a number.
Wires(path) ==
  LET cells == Of(path, "interrupts-extended").cells
  IN [k \in 1..(Len(cells) \div 2) |-> <<cells[2 * k - 1][2], cells[2 * k][2]>>]

\* The one node of a phandle is that of a given driver.
Leads(handle, driver) ==
  \E path \in Paths : Handle(handle) = {path} /\ Of(path, "compatible") = Str(driver)

\* What the tree announces is what the bus and the interrupt lines answer, in
\* files that share no constants for it: each range is dispatched from its first
\* to its last address to the device whose driver its node names, and no device
\* but the ROM is left out; its interrupt is the source that cpu_update_devices
\* latches for it; the PLIC's and the CLINT's outputs are the bits of MIP they
\* drive; power-off and reboot write what the SYSCON takes for them; the console
\* is a node of the tree (dtb.c, bus.c, cpu.c).
AnnouncedAnswered ==
  phase = "up" =>
    /\ {Device(path) : path \in Ranged} = {r.device : r \in Range(Regions)} \ {"rom"}
    /\ \A path \in Ranged :
         LET base == Base(path)
             device == Device(path)
             driver == DriverOf(device)
         IN /\ BusTarget(base + Extent(path) - 1) = device
            /\ BusTarget(base - 1) # device /\ BusTarget(base + Extent(path)) # device
            /\ driver # "none" => Of(path, "compatible") = Str(driver)
            /\ device = "dram" => Of(path, "device_type") = Str("memory")
            /\ IrqOf(device) # 0 =>
                 /\ Wires(path) = << <<Wires(path)[1][1], IrqOf(device)>> >>
                 /\ Leads(Wires(path)[1][1], DriverOf("plic"))
                 /\ \E plic \in Ranged : /\ Device(plic) = "plic"
                                        /\ IrqOf(device) <= Number(plic, "riscv,ndev")
    /\ \A path \in Ranged :
         Device(path) \in {"clint", "plic"} =>
           /\ \A k \in DOMAIN Wires(path) : Leads(Wires(path)[k][1], "riscv,cpu-intc")
           /\ LET drives == [k \in DOMAIN Wires(path) |-> Wires(path)[k][2]]
              IN IF Device(path) = "plic" THEN drives = ContextDrives
                 ELSE Range(drives) = ClintDrives
    /\ \A name \in {"poweroff", "reboot"} :
         /\ Leads(Number(<<"", name>>, "regmap"), DriverOf("syscon"))
         /\ Number(<<"", name>>, "offset") = 0
         /\ SysconDoes(Number(<<"", name>>, "value")) = name
    /\ \E path \in Ranged : Device(path) = "uart" /\ Of(ChosenPath, "stdout-path") =
                             Str("/" \o path[2] \o "/" \o path[3])

=============================================================================
