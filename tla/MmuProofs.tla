----------------------------- MODULE MmuProofs -----------------------------
(***************************************************************************)
(* Proofs about Mmu: for page tables and TLBs of any size, any set of      *)
(* virtual pages and any stores into the tables, the three translation     *)
(* caches return only what a check under the context of now would grant.   *)
(***************************************************************************)
EXTENDS Mmu, TLAPS

-----------------------------------------------------------------------------
(* The operators of PageTable, for every FANOUT and every page table: their *)
(* types, and that the A and D bits the walk writes do not change where the *)
(* walk goes.                                                               *)

LEMMA SpanType == \A level \in 0..2 : Span(level) \in Nat \ {0}
BY FanoutAssumption DEF Span

LEMMA NoPteType == NoPte \in Pte
BY DEF NoPte, Pte

LEMMA EntryType ==
  ASSUME NEW m \in Memory, NEW c
  PROVE  Entry(m, c) \in Pte
BY NoPteType DEF Entry, Memory

LEMMA LastLevelType ==
  ASSUME NEW m, NEW root, NEW v
  PROVE  LastLevel(m, root, v) \in 0..2
BY DEF LastLevel

LEMMA LeafType ==
  ASSUME NEW m \in Memory, NEW root, NEW v
  PROVE  Leaf(m, root, v) \in Leaves
BY EntryType, LastLevelType DEF Leaf, Leaves

\* A grant leads to a page number.
LEMMA TargetType ==
  ASSUME NEW leaf \in Leaves, NEW v \in Nat
  PROVE  Target(leaf, v) \in Nat
<1>1. leaf.pte.ppn \in Nat
  BY DEF Leaves, Pte
<1>2. v % Span(leaf.level) \in Nat
  BY SpanType DEF Leaves
<1> QED
  BY <1>1, <1>2 DEF Target

\* The memory a walk leaves differs from the one it found in A and D only.
LEMMA WalkMemoryEntry ==
  ASSUME NEW m \in Memory, NEW root, NEW v, NEW acc, NEW p, NEW sum, NEW mxr,
         NEW c
  PROVE  LET e == Entry(m, c)
             f == Entry(WalkMemory(m, root, v, acc, p, sum, mxr), c)
         IN /\ f.v = e.v /\ f.r = e.r /\ f.w = e.w /\ f.x = e.x /\ f.u = e.u
            /\ f.ppn = e.ppn
            /\ c \in Cells => /\ f.a = (e.a \/ c \in Touched(m, root, v))
                              /\ f.d = (e.d \/ c \in Dirtied(m, root, v, acc, p, sum, mxr))
BY DEF Entry, WalkMemory, Memory, Pte

LEMMA WalkMemoryType ==
  ASSUME NEW m \in Memory, NEW root, NEW v, NEW acc, NEW p, NEW sum, NEW mxr
  PROVE  WalkMemory(m, root, v, acc, p, sum, mxr) \in Memory
<1> DEFINE T == Touched(m, root, v)
           D == Dirtied(m, root, v, acc, p, sum, mxr)
<1>1. ASSUME NEW c \in Cells
      PROVE [m[c] EXCEPT !.a = @ \/ c \in T, !.d = @ \/ c \in D] \in Pte
  <2> HIDE DEF T, D
  <2> QED
    BY <1>1 DEF Memory, Pte
<1> QED
  BY <1>1 DEF WalkMemory, Memory

\* The walk takes the same way through the memory it leaves: its cells and its
\* level are those of before.
LEMMA WalkMemoryPath ==
  ASSUME NEW m \in Memory, NEW root, NEW v, NEW acc, NEW p, NEW sum, NEW mxr
  PROVE  LET m2 == WalkMemory(m, root, v, acc, p, sum, mxr)
         IN /\ LastLevel(m2, root, v) = LastLevel(m, root, v)
            /\ LastCell(m2, root, v) = LastCell(m, root, v)
<1> DEFINE m2 == WalkMemory(m, root, v, acc, p, sum, mxr)
<1>1. \A c : /\ Entry(m2, c).ppn = Entry(m, c).ppn
             /\ Pointer(Entry(m2, c)) = Pointer(Entry(m, c))
  BY WalkMemoryEntry DEF Pointer, Valid, IsLeaf
<1> HIDE DEF m2
<1>2. /\ Entry2(m2, root, v).ppn = Entry2(m, root, v).ppn
      /\ Pointer(Entry2(m2, root, v)) = Pointer(Entry2(m, root, v))
  BY <1>1 DEF Entry2
<1>3. /\ Entry1(m2, root, v).ppn = Entry1(m, root, v).ppn
      /\ Pointer(Entry1(m2, root, v)) = Pointer(Entry1(m, root, v))
  BY <1>1, <1>2 DEF Entry1
<1>4. LastLevel(m2, root, v) = LastLevel(m, root, v)
  BY <1>2, <1>3 DEF LastLevel
<1>5. LastCell(m2, root, v) = LastCell(m, root, v)
  BY <1>2, <1>3, <1>4, LastLevelType DEF LastCell, CellAt
<1> QED
  BY <1>4, <1>5 DEF m2

\* After a walk that granted its access, the leaf grants it with nothing left
\* to set: same level, same page, A set, and D set for a store.
LEMMA WalkedLeaf ==
  ASSUME NEW m \in Memory, NEW root, NEW v, NEW acc, NEW p, NEW sum, NEW mxr,
         Grants(Leaf(m, root, v), acc, p, sum, mxr)
  PROVE  Leaf(WalkMemory(m, root, v, acc, p, sum, mxr), root, v)
           = Updated(Leaf(m, root, v), acc)
<1> DEFINE m2 == WalkMemory(m, root, v, acc, p, sum, mxr)
           c == LastCell(m, root, v)
           e == Entry(m, c)
           f == Entry(m2, c)
<1>1. Leaf(m, root, v) = [pte |-> e, level |-> LastLevel(m, root, v)]
  BY DEF Leaf
<1>2. Leaf(m2, root, v) = [pte |-> f, level |-> LastLevel(m, root, v)]
  BY WalkMemoryPath DEF Leaf
<1>3. Valid(e) /\ c \in Cells
  BY <1>1 DEF Grants, Valid, Entry, NoPte
<1>4. c \in Touched(m, root, v)
  BY <1>3, LastLevelType DEF Touched, Visited, LastCell
<1>5. (c \in Dirtied(m, root, v, acc, p, sum, mxr)) <=> (acc = "store")
  BY DEF Dirtied
<1>6. e \in Pte /\ f \in Pte
  BY EntryType, WalkMemoryType
<1>7. /\ f.v = e.v /\ f.r = e.r /\ f.w = e.w /\ f.x = e.x /\ f.u = e.u
      /\ f.ppn = e.ppn
      /\ f.a = TRUE
      /\ f.d = (e.d \/ acc = "store")
  BY <1>3, <1>4, <1>5, <1>6, WalkMemoryEntry DEF Pte
<1> HIDE DEF e, f
<1>8. f = [e EXCEPT !.a = TRUE, !.d = @ \/ acc = "store"]
  BY <1>6, <1>7 DEF Pte
<1> QED
  BY <1>1, <1>2, <1>8 DEF Updated

\* What a leaf grants does not depend on A and D.
LEMMA GrantAfterUpdate ==
  ASSUME NEW leaf \in Leaves, NEW acc, NEW p, NEW sum, NEW mxr,
         Grants(leaf, acc, p, sum, mxr)
  PROVE  /\ Updated(leaf, acc) \in Leaves
         /\ GrantsAsIs(Updated(leaf, acc), acc, p, sum, mxr)
         /\ \A v : Target(Updated(leaf, acc), v) = Target(leaf, v)
<1> DEFINE e == [leaf.pte EXCEPT !.a = TRUE, !.d = @ \/ acc = "store"]
<1>1. e \in Pte /\ leaf.level \in 0..2
  BY DEF Leaves, Pte
<1>2. /\ e.v = leaf.pte.v /\ e.r = leaf.pte.r /\ e.w = leaf.pte.w
      /\ e.x = leaf.pte.x /\ e.u = leaf.pte.u /\ e.ppn = leaf.pte.ppn
      /\ e.a = TRUE
      /\ acc = "store" => e.d
  BY DEF Leaves, Pte
<1>3. Updated(leaf, acc) = [pte |-> e, level |-> leaf.level]
  BY DEF Updated
<1>4. Updated(leaf, acc) \in Leaves
  <2> HIDE DEF e
  <2> QED
    BY <1>1, <1>3 DEF Leaves
<1> HIDE DEF e
<1> DEFINE new == Updated(leaf, acc)
<1>5. new.pte = e /\ new.level = leaf.level
  BY <1>3
<1> HIDE DEF new
<1>6. Valid(e) /\ IsLeaf(e) /\ Permits(e, acc, p, sum, mxr)
  BY <1>2 DEF Grants, Valid, IsLeaf, Permits, UserOk, KindOk
<1>7. Aligned(new) /\ \A v : Target(new, v) = Target(leaf, v)
  BY <1>2, <1>5 DEF Grants, Aligned, Target
<1>8. GrantsAsIs(new, acc, p, sum, mxr)
  BY <1>2, <1>5, <1>6, <1>7 DEF GrantsAsIs, Grants
<1> QED
  BY <1>4, <1>7, <1>8 DEF new

-----------------------------------------------------------------------------
(* The inductive invariant.                                                *)

\* The history covers the page table of now, and forgets no more for tlb than
\* for icache.
SeenCurrent ==
  \A v \in VPages : Leaf(pt, satp.root, v) \in seen[v] /\ seen[v] \subseteq seen_exec[v]

\* The inductive invariant.  The caches feed each other (dtlb and icache are
\* filled from tlb, tlb from the table), so none of the three facts about them
\* is inductive alone.
Inv ==
  /\ TypeOK
  /\ MmuStateFresh
  /\ SeenCurrent
  /\ TlbSound
  /\ DtlbSound
  /\ IcacheSound

-----------------------------------------------------------------------------
(* Small facts.                                                            *)

LEMMA SlotType == \A v \in Nat : Slot(v) \in Slots
BY TlbSizeAssumption DEF Slot, Slots

LEMMA EmptyTypes ==
  /\ EmptyTlb \in [Slots -> TlbEntry]
  /\ EmptyDtlb \in [Slots -> CachedPage]
  /\ NoPage \in CachedPage
BY NoPteType DEF EmptyTlb, EmptyDtlb, NoTlbEntry, NoPage, TlbEntry, CachedPage

LEMMA CombineType ==
  ASSUME NEW p \in 0..3, NEW s \in Mstatus, NEW a \in Satp
  PROVE  Combine(p, s, a) \in [priv : 0..3, mode : 0..15, sum : BOOLEAN,
                               mxr : BOOLEAN, mprv : BOOLEAN, mpp : 0..3]
BY DEF Combine, Mstatus, Satp

\* With mmu_state fresh, the two copies of the translation code agree.
LEMMA FetchWayIsWay ==
  ASSUME MmuStateFresh, NEW v
  PROVE  FetchWay(v) = Way("exec", v)
BY DEF MmuStateFresh, Combine, FetchWay, Way, Bypasses, EffectivePriv, TlbGrants

LEMMA EffectivePrivType ==
  ASSUME TypeOK, NEW acc
  PROVE  EffectivePriv(acc) \in 0..3
BY DEF TypeOK, EffectivePriv, Mstatus

\* A leaf of a 4 KiB page maps to its own page number.
LEMMA SmallPage ==
  ASSUME NEW pte \in Pte, NEW v \in Nat
  PROVE  /\ Target([pte |-> pte, level |-> 0], v) = pte.ppn
         /\ Aligned([pte |-> pte, level |-> 0])
<1>1. Span(0) = 1
  BY DEF Span
<1>2. pte.ppn \in Nat
  BY DEF Pte
<1>3. v % 1 = 0 /\ pte.ppn % 1 = 0
  BY <1>2
<1> QED
  BY <1>1, <1>2, <1>3 DEF Target, Aligned

-----------------------------------------------------------------------------
(* What mmu_translate returns and leaves behind.                           *)

LEMMA MemoryByType ==
  ASSUME TypeOK, NEW way, NEW acc, NEW v
  PROVE  MemoryBy(way, acc, v) \in Memory
BY WalkMemoryType DEF TypeOK, MemoryBy

LEMMA WrittenType ==
  ASSUME NEW m \in Memory, NEW page, NEW m2 \in Written(m, page)
  PROVE  m2 \in Memory
<1>1. CASE page \in Tables
  <2>1. PICK s \in TableStores : m2 = [m EXCEPT ![<<page, s.index>>] = s.pte]
    BY <1>1 DEF Written
  <2>2. s.pte \in Pte
    BY WritesAssumption
  <2> QED
    BY <2>1, <2>2 DEF Memory
<1>2. CASE page \notin Tables
  BY <1>2 DEF Written
<1> QED
  BY <1>1, <1>2

\* The leaf in the memory left by a walk that granted the access.
LEMMA WalkedGrant ==
  ASSUME TypeOK, NEW acc, NEW v \in VPages, WalkGrants(acc, v)
  PROVE  LET new == Leaf(MemoryBy("walk", acc, v), satp.root, v)
         IN /\ new = Updated(Leaf(pt, satp.root, v), acc)
            /\ new \in Leaves
            /\ GrantsAsIs(new, acc, EffectivePriv(acc), mstatus.sum, mstatus.mxr)
            /\ PageBy("walk", v) = Target(new, v)
            /\ PageBy("walk", v) \in Nat
<1> DEFINE old == Leaf(pt, satp.root, v)
           new == Leaf(MemoryBy("walk", acc, v), satp.root, v)
           p == EffectivePriv(acc)
<1>1. pt \in Memory /\ v \in Nat
  BY VPagesAssumption DEF TypeOK
<1>2. Grants(old, acc, p, mstatus.sum, mstatus.mxr)
  BY DEF WalkGrants
<1>3. old \in Leaves
  BY <1>1, LeafType
<1>4. MemoryBy("walk", acc, v) =
        WalkMemory(pt, satp.root, v, acc, p, mstatus.sum, mstatus.mxr)
  BY DEF MemoryBy
<1>5. new = Updated(old, acc)
  BY <1>1, <1>2, <1>4, WalkedLeaf
<1>6. PageBy("walk", v) = Target(old, v)
  BY DEF PageBy
<1>7. Target(old, v) \in Nat
  BY <1>1, <1>3, TargetType
<1>8. /\ new \in Leaves
      /\ GrantsAsIs(new, acc, p, mstatus.sum, mstatus.mxr)
      /\ Target(new, v) = Target(old, v)
  BY <1>2, <1>3, <1>5, GrantAfterUpdate
<1> QED
  BY <1>5, <1>6, <1>7, <1>8

\* The page of a translation that is no fault: the identity when translation
\* is off, else what a leaf grants that was in the table since the last flush
\* or is there after the walk.
LEMMA TranslatedPage ==
  ASSUME TypeOK, TlbSound, NEW acc, NEW v \in VPages, Way(acc, v) # "fault"
  PROVE  LET way == Way(acc, v)
             leaves == seen[v] \cup {Leaf(MemoryBy(way, acc, v), satp.root, v)}
         IN /\ PageBy(way, v) \in Nat
            /\ IF Bypasses(acc)
               THEN PageBy(way, v) = v
               ELSE \E leaf \in leaves :
                      /\ GrantsAsIs(leaf, acc, EffectivePriv(acc), mstatus.sum, mstatus.mxr)
                      /\ PageBy(way, v) = Target(leaf, v)
<1>0. v \in Nat
  BY VPagesAssumption
<1>1. CASE Way(acc, v) = "bypass"
  <2>1. Bypasses(acc)
    BY <1>1 DEF Way
  <2> QED
    BY <1>0, <1>1, <2>1 DEF PageBy
<1>2. CASE Way(acc, v) = "tlb"
  <2> DEFINE e == tlb[Slot(v)]
             leaf == [pte |-> e.pte, level |-> 0]
  <2>1. /\ ~Bypasses(acc)
        /\ TlbGrants(acc, v, EffectivePriv(acc), mstatus)
    BY <1>2 DEF Way
  <2>2. e \in TlbEntry /\ Slot(v) \in Slots
    BY <1>0, SlotType DEF TypeOK
  <2>3. e.pte \in Pte
    BY <2>2 DEF TlbEntry
  <2>4. /\ leaf \in seen[v]
        /\ Valid(e.pte) /\ IsLeaf(e.pte)
    BY <2>1, <2>2 DEF TlbSound, TlbGrants
  <2>5. Aligned(leaf) /\ Target(leaf, v) = e.pte.ppn
    BY <1>0, <2>3, SmallPage
  <2>6. GrantsAsIs(leaf, acc, EffectivePriv(acc), mstatus.sum, mstatus.mxr)
    BY <2>1, <2>4, <2>5 DEF GrantsAsIs, Grants, TlbGrants
  <2>7. PageBy(Way(acc, v), v) = e.pte.ppn
    BY <1>2 DEF PageBy
  <2>8. e.pte.ppn \in Nat
    BY <2>3 DEF Pte
  <2> QED
    BY <2>1, <2>4, <2>5, <2>6, <2>7, <2>8
<1>3. CASE Way(acc, v) = "walk"
  <2>1. ~Bypasses(acc) /\ WalkGrants(acc, v)
    BY <1>3 DEF Way
  <2> QED
    BY <1>3, <2>1, WalkedGrant
<1> QED
  BY <1>1, <1>2, <1>3 DEF Way

\* tlb after a translation: sound, when the history takes in the memory the
\* walk leaves.
LEMMA TranslatedTlb ==
  ASSUME TypeOK, TlbSound, NEW acc, NEW v \in VPages,
         tlb' = TlbBy(Way(acc, v), acc, v),
         \A u \in VPages : seen[u] \subseteq seen'[u],
         Leaf(MemoryBy(Way(acc, v), acc, v), satp.root, v) \in seen'[v]
  PROVE  tlb' \in [Slots -> TlbEntry] /\ TlbSound'
<1> DEFINE new == Updated(Leaf(pt, satp.root, v), acc)
           pte == new.pte
<1>0. v \in Nat /\ Slot(v) \in Slots
  BY VPagesAssumption, SlotType
<1>1. CASE tlb' = tlb
  BY <1>1 DEF TypeOK, TlbSound
<1>2. CASE Way(acc, v) = "walk" /\ new.level = 0
  <2>1. tlb' = [tlb EXCEPT ![Slot(v)] = [valid |-> TRUE, vpn |-> v, pte |-> pte]]
    BY <1>2 DEF TlbBy
  <2>2. WalkGrants(acc, v)
    BY <1>2 DEF Way
  <2>3. /\ new \in Leaves
        /\ new \in seen'[v]
        /\ GrantsAsIs(new, acc, EffectivePriv(acc), mstatus.sum, mstatus.mxr)
    BY <1>2, <2>2, WalkedGrant
  <2> HIDE DEF new
  <2>4. pte \in Pte /\ new = [pte |-> pte, level |-> 0]
    BY <1>2, <2>3 DEF Leaves
  <2>5. [pte |-> pte, level |-> 0] \in seen'[v]
    BY <2>3, <2>4
  <2>6. pte \in Pte
    BY <2>4
  <2>7. Valid(pte) /\ IsLeaf(pte)
    BY <2>3 DEF GrantsAsIs, Grants
  <2> HIDE DEF pte
  <2>8. tlb' \in [Slots -> TlbEntry]
    BY <1>0, <2>1, <2>6 DEF TypeOK, TlbEntry
  <2>9. TlbSound'
    <3> SUFFICES ASSUME NEW i \in Slots, tlb'[i].valid
                 PROVE  /\ Slot(tlb'[i].vpn) = i
                        /\ tlb'[i].vpn \in VPages
                        /\ Valid(tlb'[i].pte) /\ IsLeaf(tlb'[i].pte)
                        /\ [pte |-> tlb'[i].pte, level |-> 0] \in seen'[tlb'[i].vpn]
      BY DEF TlbSound
    <3>1. CASE i = Slot(v)
      <4>1. tlb'[i] = [valid |-> TRUE, vpn |-> v, pte |-> pte]
        BY <1>0, <2>1, <3>1 DEF TypeOK
      <4> QED
        BY <2>5, <2>7, <3>1, <4>1
    <3>2. CASE i # Slot(v)
      <4>1. tlb'[i] = tlb[i]
        BY <2>1, <3>2 DEF TypeOK
      <4> QED
        BY <4>1 DEF TlbSound
    <3> QED
      BY <3>1, <3>2
  <2> QED
    BY <2>8, <2>9
<1> QED
  BY <1>1, <1>2 DEF TlbBy

-----------------------------------------------------------------------------
(* Caches over a step that keeps the context and only adds to the history. *)

Grows == \A v \in VPages : /\ seen[v] \subseteq seen'[v]
                           /\ seen_exec[v] \subseteq seen_exec'[v]

LEMMA SeenHitKept ==
  ASSUME UNCHANGED context, Grows, NEW acc, NEW v \in VPages, NEW page,
         MayHit(seen, acc, v, page)
  PROVE  MayHit(seen, acc, v, page)'
BY DEF context, Grows, MayHit, SeenGrants, Bypasses, EffectivePriv

LEMMA ExecHitKept ==
  ASSUME UNCHANGED context, Grows, NEW v \in VPages, NEW page,
         MayHit(seen_exec, "exec", v, page)
  PROVE  MayHit(seen_exec, "exec", v, page)'
BY DEF context, Grows, MayHit, SeenGrants, Bypasses, EffectivePriv

LEMMA DtlbLoadKept ==
  ASSUME UNCHANGED context, Grows, UNCHANGED dtlb_load, DtlbOk(dtlb_load, "load")
  PROVE  DtlbOk(dtlb_load, "load")'
BY SeenHitKept DEF DtlbOk

LEMMA DtlbStoreKept ==
  ASSUME UNCHANGED context, Grows, UNCHANGED dtlb_store, DtlbOk(dtlb_store, "store")
  PROVE  DtlbOk(dtlb_store, "store")'
BY SeenHitKept DEF DtlbOk

LEMMA FillType ==
  ASSUME NEW d \in [Slots -> CachedPage], NEW v \in VPages, NEW page \in Nat, NEW tail
  PROVE  DtlbFill(d, v, page, tail) \in [Slots -> CachedPage]
BY VPagesAssumption, SlotType DEF DtlbFill, CachedPage

\* Each entry after a fill is an old one or the new one, of a page wholly in DRAM.
LEMMA FillEntries ==
  ASSUME NEW d \in [Slots -> CachedPage], NEW v \in VPages, NEW page \in Nat, NEW tail,
         NEW i \in Slots
  PROVE  LET f == DtlbFill(d, v, page, tail)[i]
         IN \/ f = d[i]
            \/ /\ f = [valid |-> TRUE, vpn |-> v, page |-> page]
               /\ Slot(v) = i
               /\ page \in DramFirst..(DramLast - 1)
<1>1. CASE Fillable(page, tail) /\ i = Slot(v)
  <2>1. DtlbFill(d, v, page, tail)[i] = [valid |-> TRUE, vpn |-> v, page |-> page]
    BY <1>1 DEF DtlbFill
  <2>2. page \in DramFirst..(DramLast - 1)
    BY <1>1, MemoryMapAssumption DEF Fillable, Dram
  <2> QED
    BY <1>1, <2>1, <2>2
<1>2. CASE ~(Fillable(page, tail) /\ i = Slot(v))
  BY <1>2 DEF DtlbFill
<1> QED
  BY <1>1, <1>2

LEMMA DtlbLoadFilled ==
  ASSUME TypeOK, UNCHANGED context, Grows, DtlbOk(dtlb_load, "load"),
         NEW v \in VPages, NEW page \in Nat, NEW tail,
         MayHit(seen, "load", v, page)',
         dtlb_load' = DtlbFill(dtlb_load, v, page, tail)
  PROVE  DtlbOk(dtlb_load, "load")'
<1> SUFFICES ASSUME NEW i \in Slots, dtlb_load'[i].valid
             PROVE  /\ Slot(dtlb_load'[i].vpn) = i
                    /\ dtlb_load'[i].vpn \in VPages
                    /\ dtlb_load'[i].page \in DramFirst..(DramLast - 1)
                    /\ MayHit(seen, "load", dtlb_load[i].vpn, dtlb_load[i].page)'
  BY DEF DtlbOk
<1>1. CASE dtlb_load'[i] = dtlb_load[i]
  BY <1>1, SeenHitKept DEF DtlbOk
<1>2. CASE dtlb_load'[i] # dtlb_load[i]
  <2>1. /\ dtlb_load'[i] = [valid |-> TRUE, vpn |-> v, page |-> page]
        /\ Slot(v) = i
        /\ page \in DramFirst..(DramLast - 1)
    BY <1>2, FillEntries DEF TypeOK
  <2> QED
    BY <2>1
<1> QED
  BY <1>1, <1>2

LEMMA DtlbStoreFilled ==
  ASSUME TypeOK, UNCHANGED context, Grows, DtlbOk(dtlb_store, "store"),
         NEW v \in VPages, NEW page \in Nat, NEW tail,
         MayHit(seen, "store", v, page)',
         dtlb_store' = DtlbFill(dtlb_store, v, page, tail)
  PROVE  DtlbOk(dtlb_store, "store")'
<1> SUFFICES ASSUME NEW i \in Slots, dtlb_store'[i].valid
             PROVE  /\ Slot(dtlb_store'[i].vpn) = i
                    /\ dtlb_store'[i].vpn \in VPages
                    /\ dtlb_store'[i].page \in DramFirst..(DramLast - 1)
                    /\ MayHit(seen, "store", dtlb_store[i].vpn, dtlb_store[i].page)'
  BY DEF DtlbOk
<1>1. CASE dtlb_store'[i] = dtlb_store[i]
  BY <1>1, SeenHitKept DEF DtlbOk
<1>2. CASE dtlb_store'[i] # dtlb_store[i]
  <2>1. /\ dtlb_store'[i] = [valid |-> TRUE, vpn |-> v, page |-> page]
        /\ Slot(v) = i
        /\ page \in DramFirst..(DramLast - 1)
    BY <1>2, FillEntries DEF TypeOK
  <2> QED
    BY <2>1
<1> QED
  BY <1>1, <1>2

LEMMA IcacheKept ==
  ASSUME UNCHANGED context, Grows, UNCHANGED icache, IcacheSound
  PROVE  IcacheSound'
BY ExecHitKept DEF IcacheSound

\* Emptied caches are sound whatever the context has become.
LEMMA Flushed ==
  ASSUME UpdateMmuState
  PROVE  /\ MmuStateFresh'
         /\ DtlbSound'
         /\ IcacheSound'
         /\ dtlb_load' \in [Slots -> CachedPage]
         /\ dtlb_store' \in [Slots -> CachedPage]
         /\ icache' \in CachedPage
BY EmptyTypes DEF UpdateMmuState, MmuStateFresh, DtlbSound, DtlbOk, IcacheSound,
                  EmptyDtlb, NoPage

LEMMA TlbKept ==
  ASSUME UNCHANGED tlb, Grows, TlbSound
  PROVE  TlbSound'
BY DEF TlbSound, Grows

-----------------------------------------------------------------------------
(* The history over a step.                                                *)

HistoryType ==
  seen \in [VPages -> SUBSET Leaves] /\ seen_exec \in [VPages -> SUBSET Leaves]

LEMMA Remembered ==
  ASSUME TypeOK, SeenCurrent, NEW mems \in SUBSET Memory, Remember(mems)
  PROVE  /\ HistoryType'
         /\ Grows
         /\ \A v \in VPages : seen'[v] \subseteq seen_exec'[v]
         /\ \A v \in VPages, m \in mems : Leaf(m, satp.root, v) \in seen'[v]
<1>1. \A v \in VPages : {Leaf(m, satp.root, v) : m \in mems} \subseteq Leaves
  BY LeafType
<1>2. HistoryType'
  BY <1>1 DEF TypeOK, Remember, HistoryType
<1>3. Grows
  BY DEF TypeOK, Remember, Grows
<1>4. \A v \in VPages : seen'[v] \subseteq seen_exec'[v]
  BY DEF TypeOK, Remember, SeenCurrent
<1>5. \A v \in VPages, m \in mems : Leaf(m, satp.root, v) \in seen'[v]
  BY DEF TypeOK, Remember
<1> QED
  BY <1>2, <1>3, <1>4, <1>5

LEMMA RememberedFlushed ==
  ASSUME TypeOK, NEW mems \in SUBSET Memory, RememberFlushed(mems)
  PROVE  /\ HistoryType'
         /\ \A v \in VPages : seen[v] \subseteq seen'[v]
         /\ \A v \in VPages : seen'[v] \subseteq seen_exec'[v]
         /\ \A v \in VPages, m \in mems : Leaf(m, satp.root, v) \in seen'[v]
<1>1. \A v \in VPages : {Leaf(m, satp.root, v) : m \in mems} \subseteq Leaves
  BY LeafType
<1>2. HistoryType'
  BY <1>1 DEF TypeOK, RememberFlushed, HistoryType
<1>3. \A v \in VPages : seen[v] \subseteq seen'[v]
  BY DEF TypeOK, RememberFlushed
<1>4. \A v \in VPages : seen'[v] \subseteq seen_exec'[v]
  BY DEF RememberFlushed
<1>5. \A v \in VPages, m \in mems : Leaf(m, satp.root, v) \in seen'[v]
  BY DEF TypeOK, RememberFlushed
<1> QED
  BY <1>2, <1>3, <1>4, <1>5

-----------------------------------------------------------------------------
(* The steps.                                                              *)

\* A trap leaves a well-formed context.
LEMMA TrapContext ==
  ASSUME TypeOK, TakeTrap
  PROVE  priv' \in 0..3 /\ mstatus' \in Mstatus /\ satp' = satp /\ satp' \in Satp
<1>1. CASE /\ priv <= PRIV_S
           /\ mstatus' = [mstatus EXCEPT !.spp = priv]
           /\ priv' = PRIV_S
  <2>1. priv \in 0..1
    BY <1>1 DEF TypeOK, PRIV_S
  <2> QED
    BY <1>1, <2>1 DEF TypeOK, TakeTrap, Mstatus, PRIV_S
<1>2. CASE /\ mstatus' = [mstatus EXCEPT !.mpp = priv]
           /\ priv' = PRIV_M
  BY <1>2 DEF TypeOK, TakeTrap, Mstatus, PRIV_M
<1> QED
  BY <1>1, <1>2 DEF TakeTrap

\* Any step that changes the context but not the address space: it ends with
\* cpu_update_mmu_state, and keeps tlb and the page table.
LEMMA SwitchStep ==
  ASSUME Inv, priv' \in 0..3, mstatus' \in Mstatus, UNCHANGED <<satp, tlb, pt>>,
         UpdateMmuState, RememberFlushed({})
  PROVE  Inv'
<1>1. /\ HistoryType'
      /\ \A v \in VPages : seen[v] \subseteq seen'[v]
      /\ \A v \in VPages : seen'[v] \subseteq seen_exec'[v]
  BY RememberedFlushed DEF Inv
<1>2. TlbSound'
  BY <1>1 DEF Inv, TlbSound
<1>3. SeenCurrent'
  BY <1>1 DEF Inv, SeenCurrent
<1>4. mmu_state' \in [priv : 0..3, mode : 0..15, sum : BOOLEAN, mxr : BOOLEAN,
                      mprv : BOOLEAN, mpp : 0..3]
  BY CombineType DEF Inv, TypeOK, UpdateMmuState
<1>5. TypeOK'
  BY <1>1, <1>4, Flushed DEF Inv, TypeOK, HistoryType
<1> QED
  BY <1>2, <1>3, <1>5, Flushed DEF Inv

\* An access that ends in a trap, whatever way its translation took.
LEMMA FaultStep ==
  ASSUME Inv, NEW acc, NEW v \in VPages,
         pt' = MemoryBy(Way(acc, v), acc, v),
         tlb' = TlbBy(Way(acc, v), acc, v),
         TakeTrap, RememberFlushed({pt'})
  PROVE  Inv'
<1>1. pt' \in Memory
  BY MemoryByType DEF Inv
<1>2. /\ HistoryType'
      /\ \A u \in VPages : seen[u] \subseteq seen'[u]
      /\ \A u \in VPages : seen'[u] \subseteq seen_exec'[u]
      /\ \A u \in VPages : Leaf(pt', satp.root, u) \in seen'[u]
  BY <1>1, RememberedFlushed DEF Inv
<1>3. tlb' \in [Slots -> TlbEntry] /\ TlbSound'
  BY <1>2, TranslatedTlb DEF Inv
<1>4. priv' \in 0..3 /\ mstatus' \in Mstatus /\ satp' = satp /\ satp' \in Satp
  BY TrapContext DEF Inv
<1>5. UpdateMmuState
  BY DEF TakeTrap
<1>6. SeenCurrent'
  BY <1>2, <1>4 DEF SeenCurrent
<1>7. mmu_state' \in [priv : 0..3, mode : 0..15, sum : BOOLEAN, mxr : BOOLEAN,
                      mprv : BOOLEAN, mpp : 0..3]
  BY <1>4, <1>5, CombineType DEF UpdateMmuState
<1>8. TypeOK'
  BY <1>1, <1>2, <1>3, <1>4, <1>5, <1>7, Flushed DEF TypeOK, HistoryType
<1> QED
  BY <1>3, <1>5, <1>6, <1>8, Flushed DEF Inv

\* A translation whose page is there: it is no fault, and the data TLB or
\* icache may keep its page.
LEMMA BackedWay ==
  ASSUME TypeOK, NEW acc, NEW v, Backed(PageBy(Way(acc, v), v))
  PROVE  Way(acc, v) # "fault"
<1>1. -1 \notin Dram \cup Mmio
  BY MemoryMapAssumption DEF Dram
<1> QED
  BY <1>1 DEF Backed, PageBy, PAGE_FAULT

LEMMA TranslatedHit ==
  ASSUME Inv, NEW acc, NEW v \in VPages, UNCHANGED context, Grows,
         NEW page, page = PageBy(Way(acc, v), v),
         Way(acc, v) # "fault",
         Leaf(MemoryBy(Way(acc, v), acc, v), satp.root, v) \in seen'[v]
  PROVE  page \in Nat /\ MayHit(seen, acc, v, page)'
<1> DEFINE walked == Leaf(MemoryBy(Way(acc, v), acc, v), satp.root, v)
<1>1. /\ page \in Nat
      /\ IF Bypasses(acc)
         THEN page = v
         ELSE \E leaf \in seen[v] \cup {walked} :
                /\ GrantsAsIs(leaf, acc, EffectivePriv(acc), mstatus.sum, mstatus.mxr)
                /\ page = Target(leaf, v)
  BY TranslatedPage DEF Inv
<1>2. seen[v] \cup {walked} \subseteq seen'[v]
  BY DEF Grows
<1>3. /\ Bypasses(acc)' = Bypasses(acc)
      /\ EffectivePriv(acc)' = EffectivePriv(acc)
      /\ mstatus' = mstatus
  BY DEF context, Bypasses, EffectivePriv
<1> HIDE DEF walked
<1>4. IF Bypasses(acc)'
      THEN page = v
      ELSE \E leaf \in seen'[v] :
             /\ GrantsAsIs(leaf, acc, EffectivePriv(acc)', mstatus'.sum, mstatus'.mxr)
             /\ page = Target(leaf, v)
  BY <1>1, <1>2, <1>3
<1> QED
  BY <1>1, <1>4 DEF MayHit, SeenGrants

-----------------------------------------------------------------------------
(* One lemma per access.                                                   *)

LEMMA LoadFastStep ==
  ASSUME Inv, NEW v \in VPages, LoadFast(v)
  PROVE  Inv'
BY DEF Inv, LoadFast, TypeOK, MmuStateFresh, SeenCurrent, TlbSound, DtlbSound,
       DtlbOk, IcacheSound, MayHit, SeenGrants, Bypasses, EffectivePriv, context

LEMMA FetchFastStep ==
  ASSUME Inv, NEW v \in VPages, FetchFast(v)
  PROVE  Inv'
BY DEF Inv, FetchFast, TypeOK, MmuStateFresh, SeenCurrent, TlbSound, DtlbSound,
       DtlbOk, IcacheSound, MayHit, SeenGrants, Bypasses, EffectivePriv, context

LEMMA LoadSlowStep ==
  ASSUME Inv, NEW v \in VPages, NEW tail \in BOOLEAN, LoadSlow(v, tail)
  PROVE  Inv'
<1> DEFINE way == Way("load", v)
           page == PageBy(way, v)
<1>1. /\ pt' = MemoryBy(way, "load", v)
      /\ tlb' = TlbBy(way, "load", v)
  BY DEF LoadSlow
<1>2. CASE ~Backed(page) /\ TakeTrap /\ RememberFlushed({pt'})
  BY <1>1, <1>2, FaultStep
<1>3. CASE /\ Backed(page)
           /\ dtlb_load' = DtlbFill(dtlb_load, v, page, tail)
           /\ Remember({pt'})
           /\ UNCHANGED <<context, mmu_state, dtlb_store, icache>>
  <2>1. way # "fault"
    BY <1>3, BackedWay DEF Inv
  <2>2. pt' \in Memory
    BY <1>1, MemoryByType DEF Inv
  <2>3. /\ HistoryType' /\ Grows
        /\ \A u \in VPages : seen'[u] \subseteq seen_exec'[u]
        /\ \A u \in VPages : Leaf(pt', satp.root, u) \in seen'[u]
    BY <1>3, <2>2, Remembered DEF Inv
  <2>4. UNCHANGED context /\ satp' = satp
    BY <1>3 DEF context
  <2>5. tlb' \in [Slots -> TlbEntry] /\ TlbSound'
    BY <1>1, <2>3, TranslatedTlb DEF Inv, Grows
  <2>6. page \in Nat /\ \A q : q = page => MayHit(seen, "load", v, q)'
    BY <1>1, <2>1, <2>3, <2>4, TranslatedHit
  <2>7. dtlb_load' \in [Slots -> CachedPage]
    BY <1>3, <2>6, FillType DEF Inv, TypeOK
  <2>8. DtlbOk(dtlb_load, "load")'
    BY <1>3, <2>3, <2>4, <2>6, DtlbLoadFilled DEF Inv, DtlbSound
  <2>9. DtlbOk(dtlb_store, "store")'
    BY <1>3, <2>3, <2>4, DtlbStoreKept DEF Inv, DtlbSound
  <2>10. IcacheSound'
    BY <1>3, <2>3, <2>4, IcacheKept DEF Inv
  <2>11. MmuStateFresh'
    BY <1>3, <2>4 DEF Inv, MmuStateFresh, context
  <2>12. TypeOK'
    BY <1>3, <2>2, <2>3, <2>4, <2>5, <2>7 DEF Inv, TypeOK, HistoryType, context
  <2>13. SeenCurrent'
    BY <2>3, <2>4 DEF SeenCurrent
  <2> QED
    BY <2>5, <2>8, <2>9, <2>10, <2>11, <2>12, <2>13 DEF Inv, DtlbSound
<1> QED
  BY <1>2, <1>3 DEF LoadSlow

LEMMA StoreFastStep ==
  ASSUME Inv, NEW v \in VPages, StoreFast(v)
  PROVE  Inv'
<1>1. /\ pt' \in Written(pt, dtlb_store[Slot(v)].page)
      /\ Remember({pt'})
      /\ UNCHANGED <<context, mmu_state, tlb, dtlb_load, dtlb_store, icache>>
  BY DEF StoreFast
<1>2. pt' \in Memory
  BY <1>1, WrittenType DEF Inv, TypeOK
<1>3. /\ HistoryType' /\ Grows
      /\ \A u \in VPages : seen'[u] \subseteq seen_exec'[u]
      /\ \A u \in VPages : Leaf(pt', satp.root, u) \in seen'[u]
  BY <1>1, <1>2, Remembered DEF Inv
<1>4. UNCHANGED context /\ satp' = satp
  BY <1>1 DEF context
<1>5. TlbSound'
  BY <1>1, <1>3, TlbKept DEF Inv
<1>6. DtlbSound'
  BY <1>1, <1>3, <1>4, DtlbLoadKept, DtlbStoreKept DEF Inv, DtlbSound
<1>7. IcacheSound'
  BY <1>1, <1>3, <1>4, IcacheKept DEF Inv
<1>8. MmuStateFresh'
  BY <1>1, <1>4 DEF Inv, MmuStateFresh, context
<1>9. TypeOK'
  BY <1>1, <1>2, <1>3, <1>4 DEF Inv, TypeOK, HistoryType, context
<1>10. SeenCurrent'
  BY <1>3, <1>4 DEF SeenCurrent
<1> QED
  BY <1>5, <1>6, <1>7, <1>8, <1>9, <1>10 DEF Inv

\* A store may overwrite the very entry it was translated by: what tlb and
\* dtlb_store keep is then a leaf of the memory in between.
LEMMA StoreSlowStep ==
  ASSUME Inv, NEW v \in VPages, NEW tail \in BOOLEAN, StoreSlow(v, tail)
  PROVE  Inv'
<1> DEFINE way == Way("store", v)
           page == PageBy(way, v)
           walked == MemoryBy(way, "store", v)
<1>1. tlb' = TlbBy(way, "store", v)
  BY DEF StoreSlow
<1>2. CASE ~Backed(page) /\ pt' = walked /\ TakeTrap /\ RememberFlushed({walked})
  BY <1>1, <1>2, FaultStep
<1>3. CASE /\ Backed(page)
           /\ pt' \in Written(walked, page)
           /\ dtlb_store' = DtlbFill(dtlb_store, v, page, tail)
           /\ Remember({walked, pt'})
           /\ UNCHANGED <<context, mmu_state, dtlb_load, icache>>
  <2>1. way # "fault"
    BY <1>3, BackedWay DEF Inv
  <2>2. walked \in Memory /\ pt' \in Memory
    BY <1>3, MemoryByType, WrittenType DEF Inv
  <2>3. /\ HistoryType' /\ Grows
        /\ \A u \in VPages : seen'[u] \subseteq seen_exec'[u]
        /\ \A u \in VPages : Leaf(pt', satp.root, u) \in seen'[u]
        /\ \A u \in VPages : Leaf(walked, satp.root, u) \in seen'[u]
    <3> HIDE DEF walked
    <3> QED
      BY <1>3, <2>2, Remembered DEF Inv
  <2>4. UNCHANGED context /\ satp' = satp
    BY <1>3 DEF context
  <2>5. tlb' \in [Slots -> TlbEntry] /\ TlbSound'
    BY <1>1, <2>3, TranslatedTlb DEF Inv, Grows
  <2>6. page \in Nat /\ \A q : q = page => MayHit(seen, "store", v, q)'
    BY <2>1, <2>3, <2>4, TranslatedHit
  <2>7. dtlb_store' \in [Slots -> CachedPage]
    BY <1>3, <2>6, FillType DEF Inv, TypeOK
  <2>8. DtlbOk(dtlb_store, "store")'
    BY <1>3, <2>3, <2>4, <2>6, DtlbStoreFilled DEF Inv, DtlbSound
  <2>9. DtlbOk(dtlb_load, "load")'
    BY <1>3, <2>3, <2>4, DtlbLoadKept DEF Inv, DtlbSound
  <2>10. IcacheSound'
    BY <1>3, <2>3, <2>4, IcacheKept DEF Inv
  <2>11. MmuStateFresh'
    BY <1>3, <2>4 DEF Inv, MmuStateFresh, context
  <2>12. TypeOK'
    BY <1>3, <2>2, <2>3, <2>4, <2>5, <2>7 DEF Inv, TypeOK, HistoryType, context
  <2>13. SeenCurrent'
    BY <2>3, <2>4 DEF SeenCurrent
  <2> QED
    BY <2>5, <2>8, <2>9, <2>10, <2>11, <2>12, <2>13 DEF Inv, DtlbSound
<1> QED
  BY <1>2, <1>3 DEF StoreSlow

LEMMA FetchSlowStep ==
  ASSUME Inv, NEW v \in VPages, FetchSlow(v)
  PROVE  Inv'
<1> DEFINE way == Way("exec", v)
           page == PageBy(way, v)
<1>0. FetchWay(v) = way
  BY FetchWayIsWay DEF Inv
<1>1. /\ pt' = MemoryBy(way, "exec", v)
      /\ tlb' = TlbBy(way, "exec", v)
  BY <1>0 DEF FetchSlow
<1>2. CASE ~Backed(page) /\ TakeTrap /\ RememberFlushed({pt'})
  BY <1>1, <1>2, FaultStep
<1>3. CASE /\ Backed(page)
           /\ icache' = IF page \in Dram
                        THEN [valid |-> TRUE, vpn |-> v, page |-> page]
                        ELSE icache
           /\ Remember({pt'})
           /\ UNCHANGED <<context, mmu_state, dtlb_load, dtlb_store>>
  <2>1. way # "fault"
    BY <1>3, BackedWay DEF Inv
  <2>2. pt' \in Memory
    BY <1>1, MemoryByType DEF Inv
  <2>3. /\ HistoryType' /\ Grows
        /\ \A u \in VPages : seen'[u] \subseteq seen_exec'[u]
        /\ \A u \in VPages : Leaf(pt', satp.root, u) \in seen'[u]
    BY <1>3, <2>2, Remembered DEF Inv
  <2>4. UNCHANGED context /\ satp' = satp
    BY <1>3 DEF context
  <2>5. tlb' \in [Slots -> TlbEntry] /\ TlbSound'
    BY <1>1, <2>3, TranslatedTlb DEF Inv, Grows
  <2>6. page \in Nat /\ \A q : q = page => MayHit(seen, "exec", v, q)'
    BY <1>1, <2>1, <2>3, <2>4, TranslatedHit
  <2>7. DtlbSound'
    BY <1>3, <2>3, <2>4, DtlbLoadKept, DtlbStoreKept DEF Inv, DtlbSound
  <2>8. icache' \in CachedPage
    BY <1>3, <2>6, VPagesAssumption DEF Inv, TypeOK, CachedPage
  <2>9. IcacheSound'
    <3>1. CASE icache' = icache
      BY <3>1, <2>3, <2>4, IcacheKept DEF Inv
    <3>2. CASE page \in Dram /\ icache' = [valid |-> TRUE, vpn |-> v, page |-> page]
      <4>1. icache'.page = page /\ icache'.vpn = v
        BY <3>2
      <4>2. \A r : r = page => MayHit(seen_exec, "exec", v, r)'
        BY <2>3, <2>6 DEF MayHit, SeenGrants
      <4> QED
        BY <3>2, <4>1, <4>2 DEF IcacheSound
    <3> QED
      BY <1>3, <3>1, <3>2
  <2>10. MmuStateFresh'
    BY <1>3, <2>4 DEF Inv, MmuStateFresh, context
  <2>11. TypeOK'
    BY <1>3, <2>2, <2>3, <2>4, <2>5, <2>8 DEF Inv, TypeOK, HistoryType, context
  <2>12. SeenCurrent'
    BY <2>3, <2>4 DEF SeenCurrent
  <2> QED
    BY <2>5, <2>7, <2>9, <2>10, <2>11, <2>12 DEF Inv
<1> QED
  BY <1>0, <1>2, <1>3 DEF FetchSlow

-----------------------------------------------------------------------------
(* One lemma per change of context or flush.                               *)

LEMMA TrapStep ==
  ASSUME Inv, Trap
  PROVE  Inv'
BY TrapContext, SwitchStep DEF Inv, Trap, TakeTrap

\* Two fields of mstatus at once.
LEMMA MstatusUpdate ==
  ASSUME NEW s \in Mstatus, NEW b \in BOOLEAN, NEW n \in 0..3
  PROVE  /\ [s EXCEPT !.spp = 0, !.mprv = b] \in Mstatus
         /\ [s EXCEPT !.mpp = n, !.mprv = b] \in Mstatus
<1>1. [s EXCEPT !.mprv = b] \in Mstatus
  BY DEF Mstatus
<1>2. [[s EXCEPT !.spp = 0] EXCEPT !.mprv = b] \in Mstatus
  <2>1. [s EXCEPT !.spp = 0] \in Mstatus
    BY DEF Mstatus
  <2> QED
    BY <2>1 DEF Mstatus
<1>3. [[s EXCEPT !.mpp = n] EXCEPT !.mprv = b] \in Mstatus
  <2>1. [s EXCEPT !.mpp = n] \in Mstatus
    BY DEF Mstatus
  <2> QED
    BY <2>1 DEF Mstatus
<1> QED
  BY <1>2, <1>3

LEMMA SretStep ==
  ASSUME Inv, Sret
  PROVE  Inv'
<1>1. priv' \in 0..3
  BY DEF Sret, PRIV_S, PRIV_U
<1>2. mstatus' \in Mstatus
  BY MstatusUpdate DEF Inv, TypeOK, Sret
<1> QED
  BY <1>1, <1>2, SwitchStep DEF Sret

LEMMA MretStep ==
  ASSUME Inv, Mret
  PROVE  Inv'
<1>1. priv' \in 0..3
  BY DEF Inv, TypeOK, Mret, Mstatus
<1>2. mstatus' \in Mstatus
  <2> DEFINE keep == mstatus.mprv /\ mstatus.mpp = PRIV_M
  <2>1. mstatus' = [mstatus EXCEPT !.mpp = PRIV_U, !.mprv = keep]
    BY DEF Mret
  <2>2. keep \in BOOLEAN /\ PRIV_U \in 0..3
    BY DEF PRIV_U
  <2> HIDE DEF keep
  <2> QED
    BY <2>1, <2>2, MstatusUpdate DEF Inv, TypeOK
<1> QED
  BY <1>1, <1>2, SwitchStep DEF Mret

LEMMA WriteSstatusStep ==
  ASSUME Inv, NEW s \in MstatusWrites, WriteSstatus(s)
  PROVE  Inv'
<1>1. s \in Mstatus
  BY WritesAssumption
<1>2. priv' \in 0..3 /\ mstatus' \in Mstatus
  BY <1>1 DEF Inv, TypeOK, WriteSstatus, Mstatus
<1> QED
  BY <1>2, SwitchStep DEF WriteSstatus

LEMMA WriteMstatusStep ==
  ASSUME Inv, NEW s \in MstatusWrites, WriteMstatus(s)
  PROVE  Inv'
<1>1. priv' \in 0..3 /\ mstatus' \in Mstatus
  BY WritesAssumption DEF Inv, TypeOK, WriteMstatus
<1> QED
  BY <1>1, SwitchStep DEF WriteMstatus

\* The fence empties tlb and both data TLBs, so their history can start anew;
\* icache stays, and keeps its own.
LEMMA SfenceVmaStep ==
  ASSUME Inv, SfenceVma
  PROVE  Inv'
<1>1. /\ tlb' = EmptyTlb /\ dtlb_load' = EmptyDtlb /\ dtlb_store' = EmptyDtlb
      /\ seen' = [v \in VPages |-> {Leaf(pt, satp.root, v)}]
      /\ UNCHANGED <<context, mmu_state, icache, pt, seen_exec>>
  BY DEF SfenceVma
<1>2. UNCHANGED context /\ UNCHANGED <<priv, mstatus, satp>>
  BY <1>1 DEF context
<1>3. TypeOK'
  BY <1>1, <1>2, LeafType, EmptyTypes DEF Inv, TypeOK
<1>4. SeenCurrent'
  BY <1>1, <1>2 DEF Inv, SeenCurrent
<1>5. TlbSound' /\ DtlbSound'
  BY <1>1 DEF TlbSound, DtlbSound, DtlbOk, EmptyTlb, EmptyDtlb, NoTlbEntry, NoPage
<1>6. IcacheSound'
  BY <1>1, <1>2 DEF Inv, IcacheSound, MayHit, SeenGrants, Bypasses, EffectivePriv
<1>7. MmuStateFresh'
  BY <1>1, <1>2 DEF Inv, MmuStateFresh
<1> QED
  BY <1>3, <1>4, <1>5, <1>6, <1>7 DEF Inv

LEMMA WriteSatpStep ==
  ASSUME Inv, NEW a \in SatpWrites, WriteSatp(a)
  PROVE  Inv'
<1>1. /\ satp' = a /\ UNCHANGED <<priv, mstatus, pt>>
      /\ UpdateMmuState
      /\ tlb' = EmptyTlb
      /\ seen' = [v \in VPages |-> {Leaf(pt, a.root, v)}]
      /\ seen_exec' = seen'
  BY DEF WriteSatp
<1>2. a \in Satp
  BY WritesAssumption
<1>3. mmu_state' \in [priv : 0..3, mode : 0..15, sum : BOOLEAN, mxr : BOOLEAN,
                      mprv : BOOLEAN, mpp : 0..3]
  BY <1>1, <1>2, CombineType DEF Inv, TypeOK, UpdateMmuState
<1>4. seen' \in [VPages -> SUBSET Leaves]
  BY <1>1, LeafType DEF Inv, TypeOK
<1>5. TypeOK'
  BY <1>1, <1>2, <1>3, <1>4, Flushed, EmptyTypes DEF Inv, TypeOK
<1>6. SeenCurrent'
  BY <1>1 DEF SeenCurrent
<1>7. TlbSound'
  BY <1>1 DEF TlbSound, EmptyTlb, NoTlbEntry
<1> QED
  BY <1>1, <1>5, <1>6, <1>7, Flushed DEF Inv

-----------------------------------------------------------------------------

LEMMA InitInv == Init => Inv
<1> SUFFICES ASSUME Init
             PROVE  Inv
  OBVIOUS
<1>1. pt \in Memory
  BY WritesAssumption DEF Init
<1>2. /\ priv \in 0..3 /\ mstatus \in Mstatus /\ satp \in Satp
      /\ mmu_state = Combine(priv, mstatus, satp)
  BY DEF Init, Mstatus, Satp, PRIV_M, SATP_MODE_BARE
<1>3. TypeOK
  BY <1>1, <1>2, CombineType, LeafType, EmptyTypes DEF Init, TypeOK
<1>4. SeenCurrent
  BY DEF Init, SeenCurrent
<1>5. TlbSound /\ DtlbSound /\ IcacheSound
  BY DEF Init, TlbSound, DtlbSound, DtlbOk, IcacheSound, EmptyTlb, EmptyDtlb,
         NoTlbEntry, NoPage
<1> QED
  BY <1>2, <1>3, <1>4, <1>5 DEF Inv, MmuStateFresh

LEMMA NextInv == Inv /\ [Next]_vars => Inv'
<1> SUFFICES ASSUME Inv, [Next]_vars
             PROVE  Inv'
  OBVIOUS
<1>1. ASSUME NEW v \in VPages, Access(v)
      PROVE  Inv'
  BY <1>1, LoadFastStep, StoreFastStep, FetchFastStep, FetchSlowStep,
     LoadSlowStep, StoreSlowStep DEF Access
<1>2. CASE Trap
  BY <1>2, TrapStep
<1>3. CASE Sret
  BY <1>3, SretStep
<1>4. CASE Mret
  BY <1>4, MretStep
<1>5. CASE SfenceVma
  BY <1>5, SfenceVmaStep
<1>6. ASSUME NEW s \in MstatusWrites, WriteSstatus(s) \/ WriteMstatus(s)
      PROVE  Inv'
  BY <1>6, WriteSstatusStep, WriteMstatusStep
<1>7. ASSUME NEW a \in SatpWrites, WriteSatp(a)
      PROVE  Inv'
  BY <1>7, WriteSatpStep
<1>8. CASE UNCHANGED vars
  BY <1>8 DEF vars, Inv, TypeOK, MmuStateFresh, SeenCurrent, TlbSound, DtlbSound,
              DtlbOk, IcacheSound, MayHit, SeenGrants, Bypasses, EffectivePriv
<1> QED
  BY <1>1, <1>2, <1>3, <1>4, <1>5, <1>6, <1>7, <1>8 DEF Next

\* The invariant of the translation machinery, from which the rest follows.
THEOREM Invariance == Spec => []Inv
BY InitInv, NextInv, PTL DEF Spec

\* The variables of the translation machinery keep their types.
THEOREM TypeCorrect == Spec => []TypeOK
<1>1. Inv => TypeOK
  BY DEF Inv
<1> QED
  BY <1>1, Invariance, PTL

\* The fetch path's packed copy of the context is never stale (cpu->mmu_state
\* against priv, mstatus and satp).
THEOREM ContextCopyFresh == Spec => []MmuStateFresh
<1>1. Inv => MmuStateFresh
  BY DEF Inv
<1> QED
  BY <1>1, Invariance, PTL

\* cpu->tlb holds only leaves the page table has had since the last SFENCE.VMA
\* or change of satp.
THEOREM TlbNeverStale == Spec => []TlbSound
<1>1. Inv => TlbSound
  BY DEF Inv
<1> QED
  BY <1>1, Invariance, PTL

\* A hit in cpu->dtlb_load or cpu->dtlb_store, which checks no permission,
\* returns what the check would grant under the privilege, SUM, MXR and MPRV of
\* now, from a leaf no older than the last fence.
THEOREM DtlbNeverExceeds == Spec => []DtlbSound
<1>1. Inv => DtlbSound
  BY DEF Inv
<1> QED
  BY <1>1, Invariance, PTL

\* A fetch that hits cpu's page cache runs code the context of now may execute.
THEOREM IcacheNeverExceeds == Spec => []IcacheSound
<1>1. Inv => IcacheSound
  BY DEF Inv
<1> QED
  BY <1>1, Invariance, PTL

=============================================================================
