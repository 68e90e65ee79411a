------------------------------- MODULE MCMmu -------------------------------
(***************************************************************************)
(* Small instances of Mmu for TLC.  FANOUT is 2, so a root spans 8 virtual *)
(* pages.  DRAM is pages 4 to 8 or 9, pages 0 and 1 or only 1 a device.    *)
(*                                                                         *)
(*   page 6, root:  0 -> page 5        1 -> pages 4..7, supervisor         *)
(*   page 5, mid:   0 -> page 4        1 -> pages 8..9, user               *)
(*   page 4, low:   0 -> page 7, user  1 -> page 1, the device, user       *)
(*                                                                         *)
(* Virtual page 4 is thus a supervisor's window on the low table, through  *)
(* a superpage, 0 is a user page mapped by the low table, 2 and 3 are user *)
(* pages mapped by a superpage, and 8 is an alias of 0 for the walker but  *)
(* not for tlb.                                                            *)
(***************************************************************************)
EXTENDS Mmu

Leaf4(flags, page) ==
  [v |-> TRUE, r |-> "r" \in flags, w |-> "w" \in flags, x |-> "x" \in flags,
   u |-> "u" \in flags, a |-> "a" \in flags, d |-> "d" \in flags, ppn |-> page]

MCInitialTables ==
  [c \in Cells |->
     CASE c = <<6, 0>> -> Leaf4({"a"}, 5)
       [] c = <<6, 1>> -> Leaf4({"r", "w", "a", "d"}, 4)
       [] c = <<5, 0>> -> Leaf4({"a"}, 4)
       [] c = <<5, 1>> -> Leaf4({"r", "w", "x", "u", "a"}, 8)
       [] c = <<4, 0>> -> Leaf4({"r", "x", "u"}, 7)
       [] c = <<4, 1>> -> Leaf4({"r", "w", "u", "a"}, 1)
       [] OTHER -> NoPte]

\* A user page mapped elsewhere, without X, by a program that also switches
\* address spaces.
MCRemap == {[index |-> 0, pte |-> Leaf4({"r", "w", "u", "a"}, 8)]}

\* The same, and the page taken from the user.
MCTableStores == MCRemap \cup {[index |-> 0, pte |-> Leaf4({"r", "x", "a"}, 7)]}

Plain == [sum |-> FALSE, mxr |-> FALSE, mprv |-> FALSE, mpp |-> 0, spp |-> 0,
          tvm |-> FALSE, tsr |-> FALSE]

MCMstatusWrites ==
  {[Plain EXCEPT !.mpp = 1],
   [Plain EXCEPT !.sum = TRUE, !.mprv = TRUE, !.mpp = 1]}

\* For the switches of address space: one value, since S-mode without SUM is
\* also reached by a trap from U-mode.
MCMprvWrites == {[Plain EXCEPT !.sum = TRUE, !.mprv = TRUE, !.mpp = 1]}

MCSatpWrites == {[mode |-> 8, root |-> 6]}

MCSatpSwitches == {[mode |-> 8, root |-> 6], [mode |-> 8, root |-> 5]}

=============================================================================
