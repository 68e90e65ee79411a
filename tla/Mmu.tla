-------------------------------- MODULE Mmu --------------------------------
(***************************************************************************)
(* Address translation in the emulator: the privilege context, the page    *)
(* table in memory, and the three caches in front of it (mmu.c, and the    *)
(* parts of cpu.c and execute.c that load, store, fetch and change the     *)
(* context).  They are                                                     *)
(*                                                                         *)
(*   tlb                     leaf entries of 4 KiB pages; a hit checks the *)
(*                           permissions again                             *)
(*   dtlb_load, dtlb_store   host pointers; a hit checks nothing           *)
(*   icache                  host pointer of the page last fetched from; a *)
(*                           hit checks nothing                            *)
(*                                                                         *)
(* and mmu_state, a packed copy of the context used by the fetch path.     *)
(*                                                                         *)
(* An instruction is two actions, its Fetch and its effect.  What a hit    *)
(* may return is judged by two history variables the code does not have:   *)
(* seen[v] holds every leaf the page table has had for v since the last    *)
(* flush of tlb, and seen_exec[v] every leaf since the one that was        *)
(* current at the last flush of icache.                                    *)
(***************************************************************************)
EXTENDS PageTable

CONSTANTS
  TLB_SIZE,       \* entries of tlb, dtlb_load and dtlb_store
  VPages,         \* the virtual pages software uses
  DramFirst,      \* the physical pages of DRAM ...
  DramLast,       \* ... from the first to the last
  Mmio,           \* physical pages of ROM and devices
  TableStores,    \* entries that software stores into a page table, and where
  MstatusWrites,  \* values that software writes to mstatus and sstatus
  SatpWrites,     \* values that software writes to satp
  InitialTables   \* page tables in the image loaded at boot

Mstatus == [sum : BOOLEAN, mxr : BOOLEAN, mprv : BOOLEAN, mpp : 0..3,
            spp : 0..1, tvm : BOOLEAN, tsr : BOOLEAN]

Satp == [mode : 0..15, root : Nat]

SATP_MODE_BARE == 0
SATP_MODE_SV39 == 8

ASSUME TlbSizeAssumption == TLB_SIZE \in Nat \ {0}
ASSUME VPagesAssumption == VPages \subseteq Nat
ASSUME MemoryMapAssumption ==
  DramFirst \in Nat /\ DramLast \in Nat /\ Mmio \subseteq Nat
ASSUME WritesAssumption ==
  /\ TableStores \subseteq [index : 0..(FANOUT - 1), pte : Pte]
  /\ MstatusWrites \subseteq Mstatus
  /\ SatpWrites \subseteq Satp
  /\ InitialTables \in Memory

VARIABLES
  priv, mstatus, satp,
  mmu_state,
  tlb, dtlb_load, dtlb_store, icache,
  pt,               \* the page tables, in DRAM
  seen, seen_exec   \* history

context == <<priv, mstatus, satp>>
vars == <<priv, mstatus, satp, mmu_state, tlb, dtlb_load, dtlb_store, icache,
          pt, seen, seen_exec>>

Dram == DramFirst..DramLast

Slots == 0..(TLB_SIZE - 1)
Slot(v) == v % TLB_SIZE

\* An entry that memset or icache_valid = false leaves.
NoTlbEntry == [valid |-> FALSE, vpn |-> 0, pte |-> NoPte]
NoPage == [valid |-> FALSE, vpn |-> 0, page |-> 0]

TlbEntry == [valid : BOOLEAN, vpn : Nat, pte : Pte]
CachedPage == [valid : BOOLEAN, vpn : Nat, page : Nat]

EmptyTlb == [i \in Slots |-> NoTlbEntry]
EmptyDtlb == [i \in Slots |-> NoPage]

\* The page of a faulting access.
PAGE_FAULT == -1

\* mmu_state, unpacked.
Combine(p, s, a) == [priv |-> p, mode |-> a.mode, sum |-> s.sum, mxr |-> s.mxr,
                     mprv |-> s.mprv, mpp |-> s.mpp]

Init ==
  /\ priv = PRIV_M
  /\ mstatus = [sum |-> FALSE, mxr |-> FALSE, mprv |-> FALSE, mpp |-> 0,
                spp |-> 0, tvm |-> FALSE, tsr |-> FALSE]
  /\ satp = [mode |-> SATP_MODE_BARE, root |-> 0]
  /\ mmu_state = Combine(priv, mstatus, satp)
  /\ tlb = EmptyTlb
  /\ dtlb_load = EmptyDtlb
  /\ dtlb_store = EmptyDtlb
  /\ icache = NoPage
  /\ pt = InitialTables
  /\ seen = [v \in VPages |-> {Leaf(pt, satp.root, v)}]
  /\ seen_exec = seen

-----------------------------------------------------------------------------
(* The context an access is checked under.                                 *)

EffectivePriv(acc) ==
  IF acc # "exec" /\ mstatus.mprv THEN mstatus.mpp ELSE priv

Bypasses(acc) == EffectivePriv(acc) = PRIV_M \/ satp.mode = SATP_MODE_BARE

-----------------------------------------------------------------------------
(* Flushes, and what they let the history forget.                          *)

\* cpu_update_mmu_state with one of its flushes missing (slips, for the checks
\* that a property can fail).
UpdateMmuState_KeepsDtlb ==
  /\ mmu_state' = Combine(priv', mstatus', satp')
  /\ icache' = NoPage
  /\ UNCHANGED <<dtlb_load, dtlb_store>>

UpdateMmuState_KeepsIcache ==
  /\ mmu_state' = Combine(priv', mstatus', satp')
  /\ dtlb_load' = EmptyDtlb
  /\ dtlb_store' = EmptyDtlb
  /\ UNCHANGED icache

\* cpu_update_mmu_state: every change of the context ends with it.
UpdateMmuState ==
  /\ mmu_state' = Combine(priv', mstatus', satp')
  /\ icache' = NoPage
  /\ dtlb_load' = EmptyDtlb
  /\ dtlb_store' = EmptyDtlb

\* The table went through the memories in mems since the last step.
Remember(mems) ==
  /\ seen' = [v \in VPages |->
                seen[v] \cup {Leaf(m, satp.root, v) : m \in mems}]
  /\ seen_exec' = [v \in VPages |->
                     seen_exec[v] \cup {Leaf(m, satp.root, v) : m \in mems}]

\* The same, when icache is flushed too.
RememberFlushed(mems) ==
  /\ seen' = [v \in VPages |->
                seen[v] \cup {Leaf(m, satp.root, v) : m \in mems}]
  /\ seen_exec' = seen'

-----------------------------------------------------------------------------
(* Traps: what cpu_take_trap does to the context.  medeleg and mideleg are *)
(* left open, so a trap from U or S may be delegated or not.               *)

\* Slip: an exception in M-mode is delegated too.
TakeTrap_DelegatesFromM ==
  /\ mstatus' = [mstatus EXCEPT !.spp = priv]
  /\ priv' = PRIV_S
  /\ UNCHANGED satp
  /\ UpdateMmuState

TakeTrap ==
  /\ \/ /\ priv <= PRIV_S
        /\ mstatus' = [mstatus EXCEPT !.spp = priv]
        /\ priv' = PRIV_S
     \/ /\ mstatus' = [mstatus EXCEPT !.mpp = priv]
        /\ priv' = PRIV_M
  /\ UNCHANGED satp
  /\ UpdateMmuState

-----------------------------------------------------------------------------
(* mmu_translate, as the way it takes and what that way returns.           *)

TlbGrants(acc, v, p, s) ==
  LET e == tlb[Slot(v)]
  IN /\ e.valid /\ e.vpn = v
     /\ Permits(e.pte, acc, p, s.sum, s.mxr)
     /\ e.pte.a
     /\ acc = "store" => e.pte.d

WalkGrants(acc, v) ==
  Grants(Leaf(pt, satp.root, v), acc, EffectivePriv(acc), mstatus.sum, mstatus.mxr)

Way(acc, v) ==
  IF Bypasses(acc) THEN "bypass"
  ELSE IF TlbGrants(acc, v, EffectivePriv(acc), mstatus) THEN "tlb"
  ELSE IF WalkGrants(acc, v) THEN "walk"
  ELSE "fault"

\* mmu_translate_inline, on the fetch path: mmu_state stands for the context.
FetchWay(v) ==
  IF mmu_state.priv = PRIV_M \/ mmu_state.mode = SATP_MODE_BARE THEN "bypass"
  ELSE IF TlbGrants("exec", v, mmu_state.priv, mmu_state) THEN "tlb"
  ELSE Way("exec", v)

PageBy(way, v) ==
  CASE way = "bypass" -> v
    [] way = "tlb"    -> tlb[Slot(v)].pte.ppn
    [] way = "walk"   -> Target(Leaf(pt, satp.root, v), v)
    [] way = "fault"  -> PAGE_FAULT

MemoryBy(way, acc, v) ==
  IF way \in {"walk", "fault"}
  THEN WalkMemory(pt, satp.root, v, acc, EffectivePriv(acc), mstatus.sum, mstatus.mxr)
  ELSE pt

\* Only leaves of 4 KiB pages enter tlb, with the A and D just set.
TlbBy(way, acc, v) ==
  LET leaf == Updated(Leaf(pt, satp.root, v), acc)
  IN IF way = "walk" /\ leaf.level = 0
     THEN [tlb EXCEPT ![Slot(v)] = [valid |-> TRUE, vpn |-> v, pte |-> leaf.pte]]
     ELSE tlb

\* Slip: any page of DRAM is taken.
Fillable_AllDram(page, tail) == page \in Dram

\* dtlb_fill takes pages of DRAM, but not the last one; the one before it only
\* when the access is not in its last 8 bytes (tail).
Fillable(page, tail) ==
  page \in Dram /\ page < DramLast /\ ~(page = DramLast - 1 /\ tail)

DtlbFill(dtlb, v, page, tail) ==
  IF Fillable(page, tail)
  THEN [dtlb EXCEPT ![Slot(v)] = [valid |-> TRUE, vpn |-> v, page |-> page]]
  ELSE dtlb

-----------------------------------------------------------------------------
(* Loads and stores.  An access that does not cross a page.                *)

Backed(page) == page \in Dram \cup Mmio

DtlbHit(dtlb, v) == dtlb[Slot(v)].valid /\ dtlb[Slot(v)].vpn = v

\* The memories that a store to a page can leave.
Written(m, page) ==
  IF page \in Tables
  THEN {[m EXCEPT ![<<page, s.index>>] = s.pte] : s \in TableStores}
  ELSE {m}

LoadFast(v) ==
  /\ DtlbHit(dtlb_load, v)
  /\ UNCHANGED <<context, mmu_state, tlb, dtlb_load, dtlb_store, icache, pt,
                 seen, seen_exec>>

LoadSlow(v, tail) ==
  LET way == Way("load", v)
      page == PageBy(way, v)
  IN /\ ~DtlbHit(dtlb_load, v)
     /\ pt' = MemoryBy(way, "load", v)
     /\ tlb' = TlbBy(way, "load", v)
     /\ \/ /\ Backed(page)
           /\ dtlb_load' = DtlbFill(dtlb_load, v, page, tail)
           /\ Remember({pt'})
           /\ UNCHANGED <<context, mmu_state, dtlb_store, icache>>
        \/ /\ ~Backed(page)
           /\ TakeTrap
           /\ RememberFlushed({pt'})

StoreFast(v) ==
  LET page == dtlb_store[Slot(v)].page
  IN /\ DtlbHit(dtlb_store, v)
     /\ pt' \in Written(pt, page)
     /\ Remember({pt'})
     /\ UNCHANGED <<context, mmu_state, tlb, dtlb_load, dtlb_store, icache>>

StoreSlow(v, tail) ==
  LET way == Way("store", v)
      page == PageBy(way, v)
      walked == MemoryBy(way, "store", v)
  IN /\ ~DtlbHit(dtlb_store, v)
     /\ tlb' = TlbBy(way, "store", v)
     /\ \/ /\ Backed(page)
           /\ pt' \in Written(walked, page)
           /\ dtlb_store' = DtlbFill(dtlb_store, v, page, tail)
           /\ Remember({walked, pt'})
           /\ UNCHANGED <<context, mmu_state, dtlb_load, icache>>
        \/ /\ ~Backed(page)
           /\ pt' = walked
           /\ TakeTrap
           /\ RememberFlushed({walked})

-----------------------------------------------------------------------------
(* Instruction fetch, the first half of cpu_step.                          *)

IcacheHit(v) == icache.valid /\ icache.vpn = v

FetchFast(v) ==
  /\ IcacheHit(v)
  /\ UNCHANGED <<context, mmu_state, tlb, dtlb_load, dtlb_store, icache, pt,
                 seen, seen_exec>>

FetchSlow(v) ==
  LET way == FetchWay(v)
      page == PageBy(way, v)
  IN /\ ~IcacheHit(v)
     /\ pt' = MemoryBy(way, "exec", v)
     /\ tlb' = TlbBy(way, "exec", v)
     /\ \/ /\ Backed(page)
           /\ icache' = IF page \in Dram
                        THEN [valid |-> TRUE, vpn |-> v, page |-> page]
                        ELSE icache
           /\ Remember({pt'})
           /\ UNCHANGED <<context, mmu_state, dtlb_load, dtlb_store>>
        \/ /\ ~Backed(page)
           /\ TakeTrap
           /\ RememberFlushed({pt'})

-----------------------------------------------------------------------------
(* Instructions and events that change the context.                        *)

\* An interrupt, ECALL, EBREAK or an illegal instruction.
Trap ==
  /\ TakeTrap
  /\ RememberFlushed({})
  /\ UNCHANGED <<tlb, pt>>

Sret ==
  /\ priv >= PRIV_S
  /\ ~(priv = PRIV_S /\ mstatus.tsr)
  /\ priv' = IF mstatus.spp = 1 THEN PRIV_S ELSE PRIV_U
  /\ mstatus' = [mstatus EXCEPT !.spp = 0, !.mprv = FALSE]
  /\ UNCHANGED <<satp, tlb, pt>>
  /\ UpdateMmuState
  /\ RememberFlushed({})

Mret ==
  /\ priv = PRIV_M
  /\ priv' = mstatus.mpp
  /\ mstatus' = [mstatus EXCEPT !.mpp = PRIV_U,
                                !.mprv = @ /\ mstatus.mpp = PRIV_M]
  /\ UNCHANGED <<satp, tlb, pt>>
  /\ UpdateMmuState
  /\ RememberFlushed({})

\* Slip: the fence flushes the data TLBs but not tlb.
SfenceVma_KeepsTlb ==
  /\ priv # PRIV_U
  /\ ~(priv = PRIV_S /\ mstatus.tvm)
  /\ dtlb_load' = EmptyDtlb
  /\ dtlb_store' = EmptyDtlb
  /\ seen' = [v \in VPages |-> {Leaf(pt, satp.root, v)}]
  /\ UNCHANGED <<context, mmu_state, tlb, icache, pt, seen_exec>>

\* mmu_tlb_flush leaves icache as it is.
SfenceVma ==
  /\ priv # PRIV_U
  /\ ~(priv = PRIV_S /\ mstatus.tvm)
  /\ tlb' = EmptyTlb
  /\ dtlb_load' = EmptyDtlb
  /\ dtlb_store' = EmptyDtlb
  /\ seen' = [v \in VPages |-> {Leaf(pt, satp.root, v)}]
  /\ UNCHANGED <<context, mmu_state, icache, pt, seen_exec>>

\* Slip: a write of sstatus that forgets cpu_update_mmu_state.
WriteSstatus_NoUpdate(s) ==
  /\ mstatus' = [mstatus EXCEPT !.sum = s.sum, !.mxr = s.mxr, !.spp = s.spp]
  /\ UNCHANGED <<priv, satp, mmu_state, tlb, dtlb_load, dtlb_store, icache, pt,
                 seen, seen_exec>>

\* csr_write checks no privilege.
WriteSstatus(s) ==
  /\ mstatus' = [mstatus EXCEPT !.sum = s.sum, !.mxr = s.mxr, !.spp = s.spp]
  /\ UNCHANGED <<priv, satp, tlb, pt>>
  /\ UpdateMmuState
  /\ RememberFlushed({})

WriteMstatus(s) ==
  /\ mstatus' = s
  /\ UNCHANGED <<priv, satp, tlb, pt>>
  /\ UpdateMmuState
  /\ RememberFlushed({})

\* Slip: the new address space starts with the tlb of the old one.
WriteSatp_KeepsTlb(a) ==
  /\ a.mode \in {SATP_MODE_BARE, SATP_MODE_SV39}
  /\ satp # a
  /\ satp' = a
  /\ UNCHANGED <<priv, mstatus, tlb, pt>>
  /\ UpdateMmuState
  /\ seen' = [v \in VPages |-> {Leaf(pt, a.root, v)}]
  /\ seen_exec' = seen'

\* Slip: mmu_tlb_flush alone.
WriteSatp_NoUpdate(a) ==
  /\ a.mode \in {SATP_MODE_BARE, SATP_MODE_SV39}
  /\ satp # a
  /\ satp' = a
  /\ UNCHANGED <<priv, mstatus, mmu_state, icache, pt>>
  /\ tlb' = EmptyTlb
  /\ dtlb_load' = EmptyDtlb
  /\ dtlb_store' = EmptyDtlb
  /\ seen' = [v \in VPages |-> {Leaf(pt, a.root, v)}]
  /\ seen_exec' = seen'

\* Other modes, and the value satp already has, are ignored.
WriteSatp(a) ==
  /\ a.mode \in {SATP_MODE_BARE, SATP_MODE_SV39}
  /\ satp # a
  /\ satp' = a
  /\ UNCHANGED <<priv, mstatus, pt>>
  /\ UpdateMmuState
  /\ tlb' = EmptyTlb
  /\ seen' = [v \in VPages |-> {Leaf(pt, a.root, v)}]
  /\ seen_exec' = seen'

-----------------------------------------------------------------------------

Access(v) ==
  \/ LoadFast(v)
  \/ StoreFast(v)
  \/ FetchFast(v)
  \/ FetchSlow(v)
  \/ \E tail \in BOOLEAN : LoadSlow(v, tail) \/ StoreSlow(v, tail)

Next ==
  \/ \E v \in VPages : Access(v)
  \/ Trap
  \/ Sret
  \/ Mret
  \/ SfenceVma
  \/ \E s \in MstatusWrites : WriteSstatus(s) \/ WriteMstatus(s)
  \/ \E a \in SatpWrites : WriteSatp(a)

Spec == Init /\ [][Next]_vars

-----------------------------------------------------------------------------
(* Properties.                                                             *)

\* A leaf that was in the page table and grants the access under the context
\* of now, with nothing left to update.
SeenGrants(S, acc, v, page) ==
  \E leaf \in S[v] :
    /\ GrantsAsIs(leaf, acc, EffectivePriv(acc), mstatus.sum, mstatus.mxr)
    /\ page = Target(leaf, v)

MayHit(S, acc, v, page) ==
  IF Bypasses(acc) THEN page = v ELSE SeenGrants(S, acc, v, page)

DtlbOk(dtlb, acc) ==
  \A i \in Slots : dtlb[i].valid =>
    LET e == dtlb[i]
    IN /\ Slot(e.vpn) = i
       /\ e.vpn \in VPages
       /\ e.page \in DramFirst..(DramLast - 1)
       /\ MayHit(seen, acc, e.vpn, e.page)

\* Every variable keeps its type.  Type invariant of the module.
TypeOK ==
  /\ priv \in 0..3
  /\ mstatus \in Mstatus
  /\ satp \in Satp
  /\ mmu_state \in [priv : 0..3, mode : 0..15, sum : BOOLEAN, mxr : BOOLEAN,
                    mprv : BOOLEAN, mpp : 0..3]
  /\ tlb \in [Slots -> TlbEntry]
  /\ dtlb_load \in [Slots -> CachedPage]
  /\ dtlb_store \in [Slots -> CachedPage]
  /\ icache \in CachedPage
  /\ pt \in Memory
  /\ seen \in [VPages -> SUBSET Leaves]
  /\ seen_exec \in [VPages -> SUBSET Leaves]

\* mmu_state, which the fetch path trusts, is the context of now: no change of
\* privilege, mstatus or satp misses cpu_update_mmu_state.
MmuStateFresh == mmu_state = Combine(priv, mstatus, satp)

\* An entry of tlb is a leaf the page table has had for that page, in this
\* address space, since the last flush: SFENCE.VMA and a write of satp leave
\* nothing of what was before.
TlbSound ==
  \A i \in Slots : tlb[i].valid =>
    /\ Slot(tlb[i].vpn) = i
    /\ tlb[i].vpn \in VPages
    /\ Valid(tlb[i].pte) /\ IsLeaf(tlb[i].pte)
    /\ [pte |-> tlb[i].pte, level |-> 0] \in seen[tlb[i].vpn]

\* A hit in the data TLBs skips every check, so what it would return must be
\* what a check would grant under the context of now: a leaf seen since the
\* last flush, with A set (and D for stores), to a page wholly inside DRAM.
DtlbSound == DtlbOk(dtlb_load, "load") /\ DtlbOk(dtlb_store, "store")

\* The same for the page the next fetch takes from icache; but icache survives
\* SFENCE.VMA, so the leaf may be older than that.
IcacheSound ==
  icache.valid => /\ icache.vpn \in VPages
                  /\ icache.page \in Dram
                  /\ MayHit(seen_exec, "exec", icache.vpn, icache.page)

\* What a guest told it runs on an Sv39 hart relies on: after SFENCE.VMA no
\* fetch uses a leaf that the page table had only before it.
FetchFenced ==
  icache.valid => MayHit(seen, "exec", icache.vpn, icache.page)

=============================================================================
