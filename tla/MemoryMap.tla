----------------------------- MODULE MemoryMap -----------------------------
(***************************************************************************)
(* Physical addresses (types.h, virtio_net.h), the order in which the bus  *)
(* tries the devices (bus_load and bus_store have the same), and the PLIC  *)
(* source and hart interrupt that each of them drives (cpu_update_devices).*)
(*                                                                         *)
(* Addresses and sizes are in units of 16 bytes: the hexadecimal numbers   *)
(* of the code without their last digit.                                   *)
(***************************************************************************)
EXTENDS Integers, Sequences

UNIT == 16

ROM_BASE == \h100
ROM_SIZE == \h100
SYSCON_BASE == \h10000
SYSCON_SIZE == \h100
CLINT_BASE == \h200000
CLINT_SIZE == \h1000
PLIC_BASE == \hC00000
PLIC_SIZE == \h400000
UART_BASE == \h1000000
UART_SIZE == \h10
VIRTIO_BASE == \h1000100
VIRTIO_SIZE == \h100
VIRTNET_BASE == \h1000200
VIRTNET_SIZE == \h100
VIRTRNG_BASE == \h1000300
VIRTRNG_SIZE == \h100
DRAM_BASE == \h8000000
DRAM_SIZE == \h2000000

Region(device, base, size) == [device |-> device, base |-> base, size |-> size]

Regions ==
  << Region("dram", DRAM_BASE, DRAM_SIZE),
     Region("rom", ROM_BASE, ROM_SIZE),
     Region("syscon", SYSCON_BASE, SYSCON_SIZE),
     Region("clint", CLINT_BASE, CLINT_SIZE),
     Region("plic", PLIC_BASE, PLIC_SIZE),
     Region("uart", UART_BASE, UART_SIZE),
     Region("virtio", VIRTIO_BASE, VIRTIO_SIZE),
     Region("virtio_net", VIRTNET_BASE, VIRTNET_SIZE),
     Region("virtio_rng", VIRTRNG_BASE, VIRTRNG_SIZE) >>

Covers(r, addr) == addr >= r.base /\ addr < r.base + r.size

\* The device that answers, or a fault.
BusTarget(addr) ==
  IF \E k \in 1..Len(Regions) : Covers(Regions[k], addr)
  THEN Regions[CHOOSE k \in 1..Len(Regions) :
                 /\ Covers(Regions[k], addr)
                 /\ \A j \in 1..(k - 1) : ~Covers(Regions[j], addr)].device
  ELSE "fault"

\* The PLIC source that a device's flag is latched in; 0 is none.
IrqOf(device) ==
  CASE device = "uart"       -> 10
    [] device = "virtio"     -> 1
    [] device = "virtio_net" -> 2
    [] device = "virtio_rng" -> 3
    [] OTHER                 -> 0

\* The interrupts of the hart (bits of MIP) that the CLINT drives, and the one
\* that each context of the PLIC drives.
ClintDrives == {3, 7}
ContextDrives == <<11, 9>>

\* What a store to the SYSCON does.
SysconDoes(value) ==
  CASE value = \h5555 -> "poweroff" [] value = \h7777 -> "reboot" [] OTHER -> "nothing"

=============================================================================
