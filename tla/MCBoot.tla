------------------------------- MODULE MCBoot -------------------------------
(* Files at the sizes where something changes, and one less or more: empty,   *)
(* one unit, 128 MiB (the initrd's offset), 384 MiB (what is left behind it), *)
(* 512 MiB (DRAM), and the start of a tree of 2136 bytes (134 units, without  *)
(* an initrd) or 2208 (138 units, with one).                                  *)
EXTENDS Boot

MCKernelSizes ==
  {1, INITRD_OFFSET, INITRD_OFFSET + 1, DRAM_SIZE - 134, DRAM_SIZE - 133,
   DRAM_SIZE, DRAM_SIZE + 1}

MCInitrdSizes ==
  LET room == DRAM_SIZE - INITRD_OFFSET
  IN {0, 1, room - 138, room - 137, room, room + 1}

=============================================================================
