----------------------------- MODULE PageTable -----------------------------
(***************************************************************************)
(* The Sv39 page table as the emulator's walker reads it (mmu.c, the slow  *)
(* path of mmu_translate), as operators without state.                     *)
(*                                                                         *)
(* Memory is seen at page granularity: a physical page is a number, a page *)
(* table is a page of FANOUT entries, and the only memory with contents is *)
(* that of the pages in Tables.  A virtual page is a number too, of any    *)
(* size: the walker uses its three lowest base-FANOUT digits and ignores   *)
(* the rest, as the code does.                                             *)
(***************************************************************************)
EXTENDS Integers

CONSTANTS
  FANOUT,  \* entries of a page table (512 in the code)
  Tables   \* the physical pages that hold page tables

ASSUME FanoutAssumption == FANOUT \in Nat \ {0, 1}
ASSUME TablesAssumption == Tables \subseteq Nat

\* Privilege levels.  2 is no level of the architecture, but MPP can hold it.
PRIV_U == 0
PRIV_S == 1
PRIV_M == 3

\* An entry: the bits V R W X U A D, and the page number.
Pte == [v : BOOLEAN, r : BOOLEAN, w : BOOLEAN, x : BOOLEAN, u : BOOLEAN,
        a : BOOLEAN, d : BOOLEAN, ppn : Nat]

\* What the walker makes of a read that is a bus exception: no entry.
NoPte == [v |-> FALSE, r |-> FALSE, w |-> FALSE, x |-> FALSE, u |-> FALSE,
          a |-> FALSE, d |-> FALSE, ppn |-> 0]

Cells == Tables \X (0..(FANOUT - 1))

Memory == [Cells -> Pte]

-----------------------------------------------------------------------------
(* One step of the walk.                                                   *)

\* Pages mapped by one leaf at a level.
Span(level) == CASE level = 0 -> 1
                 [] level = 1 -> FANOUT
                 [] level = 2 -> FANOUT * FANOUT

\* pte_addr: the cell of table t that the walk for v reads at a level.
Cell(t, v, level) == <<t, (v \div Span(level)) % FANOUT>>

\* bus_load of a cell.
Entry(m, c) == IF c \in Cells THEN m[c] ELSE NoPte

Valid(e) == e.v /\ (e.r \/ ~e.w)

IsLeaf(e) == e.r \/ e.x

\* The walk goes on to the next level only through such an entry.
Pointer(e) == Valid(e) /\ ~IsLeaf(e)

-----------------------------------------------------------------------------
(* The walk of three levels, unrolled.                                     *)

Entry2(m, root, v) == Entry(m, Cell(root, v, 2))

Entry1(m, root, v) == Entry(m, Cell(Entry2(m, root, v).ppn, v, 1))

Entry0(m, root, v) == Entry(m, Cell(Entry1(m, root, v).ppn, v, 0))

\* The level at which the walk stops.
LastLevel(m, root, v) ==
  IF ~Pointer(Entry2(m, root, v)) THEN 2
  ELSE IF ~Pointer(Entry1(m, root, v)) THEN 1
  ELSE 0

\* The cells it reads, from the root to the last.
CellAt(m, root, v, level) ==
  CASE level = 2 -> Cell(root, v, 2)
    [] level = 1 -> Cell(Entry2(m, root, v).ppn, v, 1)
    [] level = 0 -> Cell(Entry1(m, root, v).ppn, v, 0)

LastCell(m, root, v) == CellAt(m, root, v, LastLevel(m, root, v))

Visited(m, root, v) ==
  {CellAt(m, root, v, level) : level \in LastLevel(m, root, v)..2}

\* What the walk finds for v: the entry it stops at and the level of it.
Leaf(m, root, v) ==
  [pte |-> Entry(m, LastCell(m, root, v)), level |-> LastLevel(m, root, v)]

Leaves == [pte : Pte, level : 0..2]

-----------------------------------------------------------------------------
(* What a leaf permits.  acc is "load", "store" or "exec".                 *)

Accesses == {"load", "store", "exec"}

UserOk(e, acc, priv, sum) ==
  /\ priv = PRIV_S /\ e.u => acc # "exec" /\ sum
  /\ priv = PRIV_U => e.u

KindOk(e, acc, mxr) ==
  CASE acc = "exec"  -> e.x
    [] acc = "load"  -> e.r \/ (mxr /\ e.x)
    [] acc = "store" -> e.r /\ e.w

Permits(e, acc, priv, sum, mxr) == UserOk(e, acc, priv, sum) /\ KindOk(e, acc, mxr)

\* A superpage must be aligned to its size.
Aligned(leaf) == leaf.pte.ppn % Span(leaf.level) = 0

Grants(leaf, acc, priv, sum, mxr) ==
  /\ Valid(leaf.pte) /\ IsLeaf(leaf.pte)
  /\ Permits(leaf.pte, acc, priv, sum, mxr)
  /\ Aligned(leaf)

\* A grant that needs no update of the entry: A is set, and D for a store.
GrantsAsIs(leaf, acc, priv, sum, mxr) ==
  /\ Grants(leaf, acc, priv, sum, mxr)
  /\ leaf.pte.a
  /\ acc = "store" => leaf.pte.d

\* The physical page of v under a leaf.
Target(leaf, v) == leaf.pte.ppn + (v % Span(leaf.level))

-----------------------------------------------------------------------------
(* What the walk writes.                                                   *)

\* A on every valid entry it visits, whether or not the access is granted.
Touched(m, root, v) ==
  {c \in Visited(m, root, v) : Valid(Entry(m, c))}

\* D on the leaf of a store that is granted.
Dirtied(m, root, v, acc, priv, sum, mxr) ==
  {c \in {LastCell(m, root, v)} :
      acc = "store" /\ Grants(Leaf(m, root, v), acc, priv, sum, mxr)}

\* A leaf with what a granted access sets in it.
Updated(leaf, acc) ==
  [pte |-> [leaf.pte EXCEPT !.a = TRUE, !.d = @ \/ acc = "store"],
   level |-> leaf.level]

WalkMemory(m, root, v, acc, priv, sum, mxr) ==
  LET touched == Touched(m, root, v)
      dirtied == Dirtied(m, root, v, acc, priv, sum, mxr)
  IN [c \in Cells |-> [m[c] EXCEPT !.a = @ \/ c \in touched,
                                   !.d = @ \/ c \in dirtied]]

=============================================================================
