--------------------------- MODULE VirtioBlkProofs ---------------------------
(***************************************************************************)
(* Proofs about VirtioBlk, for a disk, rings and requests of any size:     *)
(* every chain is in one place, an answered request did what it says and   *)
(* found what was written before it, and no answer goes unannounced.       *)
(***************************************************************************)
EXTENDS VirtioBlk, DataLemmas

-----------------------------------------------------------------------------
(* The interrupt.                                                          *)

\* The handler, and the poll, hand the signal on.
LEMMA HandleKeeps ==
  ASSUME IrqTypeOK, Handle
  PROVE  IrqTypeOK' /\ (Announced => Announced')
<1>1. CASE TakeIrq
  BY <1>1 DEF TakeIrq, IrqTypeOK, GuestPlaces, Announced, flagVars
<1>2. CASE ReadIsr
  BY <1>2 DEF ReadIsr, IrqTypeOK, GuestPlaces, Announced, flagVars
<1>3. CASE AckIsr
  BY <1>3 DEF AckIsr, Acknowledge, IrqTypeOK, GuestPlaces, Announced
<1> QED
  BY <1>1, <1>2, <1>3 DEF Handle

LEMMA LatchKeeps ==
  ASSUME IrqTypeOK, Latch, UNCHANGED <<interrupt_status, handlerVars>>
  PROVE  IrqTypeOK' /\ (Announced => Announced')
BY DEF Latch, IrqTypeOK, Announced, handlerVars

-----------------------------------------------------------------------------
(* Transfer: the loop over the data descriptors, by induction over them.   *)

\* A request that ends on the disk and, if it writes, has contents: what a
\* chain holds that the driver has given away, before and after it is served.
Runnable(r) ==
  /\ r \in BlkRequest
  /\ \A i \in DOMAIN r.data : r.sector + i - 1 \in Sectors
  /\ r.type = "out" => r.data \in Seq(Contents)

\* What a request finds on disk d.
Found(d, r) == [i \in DOMAIN r.data |-> d[r.sector + i - 1]]

LEMMA RunnableParts ==
  ASSUME NEW r, Runnable(r)
  PROVE  /\ r.type \in {"in", "out", "flush"} /\ r.sector \in Nat
         /\ Len(r.data) \in Nat /\ DOMAIN r.data = 1..Len(r.data)
         /\ r.data \in [1..Len(r.data) -> Contents \cup {Nothing}]
         /\ r.data \in Seq(Contents \cup {Nothing})
         /\ r.type = "flush" => r.data = <<>>
         /\ r.type = "out" => \A i \in 1..Len(r.data) : r.data[i] \in Contents
         /\ \A i \in 1..Len(r.data) : r.sector + i - 1 \in Sectors
<1>1. /\ r.type \in {"in", "out", "flush"} /\ r.sector \in Nat
      /\ r.data \in Seq(Contents \cup {Nothing})
      /\ r.type = "flush" => r.data = <<>>
  <2>1. CASE r \in [type : {"in", "out"}, sector : Sectors,
                    data : Seq(Contents \cup {Nothing})]
    BY <2>1, BlkAssumption
  <2>2. CASE r \in [type : {"flush"}, sector : Sectors, data : {<<>>}]
    BY <2>2, BlkAssumption, EmptySeq
  <2> QED
    BY <2>1, <2>2 DEF Runnable, BlkRequest
<1>2. /\ Len(r.data) \in Nat /\ DOMAIN r.data = 1..Len(r.data)
      /\ r.data \in [1..Len(r.data) -> Contents \cup {Nothing}]
  BY <1>1, LenProperties
<1>3. ASSUME r.type = "out", NEW i \in 1..Len(r.data)
      PROVE  r.data[i] \in Contents
  BY <1>3, LenProperties DEF Runnable
<1>4. \A i \in 1..Len(r.data) : r.sector + i - 1 \in Sectors
  BY <1>2 DEF Runnable
<1> QED
  BY <1>1, <1>2, <1>3, <1>4

\* What the loop carries from one descriptor to the next.
Carried(n) ==
  [disk : [Sectors -> Contents], data : [1..n -> Contents \cup {Nothing}], ok : BOOLEAN]

\* One turn of the loop.
Turn(r, i, b) ==
  IF ~b.ok \/ r.sector + i - 1 \in Bad THEN [b EXCEPT !.ok = FALSE]
  ELSE IF r.type = "in" THEN [b EXCEPT !.data[i] = b.disk[r.sector + i - 1]]
  ELSE [b EXCEPT !.disk[r.sector + i - 1] = r.data[i]]

\* The first i sectors of a request can be transferred.
Clear(r, i) == \A j \in 1..i : r.sector + j - 1 \notin Bad

\* What is known behind the descriptor i.
Moved(r, i, b) ==
  /\ b \in Carried(Len(r.data))
  /\ b.ok <=> Clear(r, i)
  /\ r.type = "in" =>
       /\ b.disk = disk
       /\ b.ok => \A j \in 1..i : b.data[j] = disk[r.sector + j - 1]
  /\ r.type # "in" =>
       /\ b.data = r.data
       /\ \A s \in Sectors :
            b.disk[s] = IF s - r.sector + 1 \in 1..i /\ Clear(r, s - r.sector + 1)
                        THEN r.data[s - r.sector + 1] ELSE disk[s]

LEMMA TurnType ==
  ASSUME NEW r, Runnable(r), NEW i \in 1..Len(r.data), NEW b \in Carried(Len(r.data))
  PROVE  Turn(r, i, b) \in Carried(Len(r.data))
<1> DEFINE n == Len(r.data)
           s == r.sector + i - 1
<1>1. s \in Sectors /\ r.type \in {"in", "out"}
  BY RunnableParts, EmptySeq
<1>2. r.type = "out" => r.data[i] \in Contents
  BY RunnableParts
<1>3. b.disk[s] \in Contents
  BY <1>1 DEF Carried
<1> HIDE DEF n, s
<1> QED
  BY <1>1, <1>2, <1>3 DEF Carried, Turn, n, s

LEMMA TurnIn ==
  ASSUME NEW r, Runnable(r), NEW i \in Nat, i + 1 \in 1..Len(r.data), NEW b,
         Moved(r, i, b), r.type = "in"
  PROVE  Moved(r, i + 1, Turn(r, i + 1, b))
<1> DEFINE n == Len(r.data)
           s == r.sector + (i + 1) - 1
           t == Turn(r, i + 1, b)
<1>1. t \in Carried(n)
  BY TurnType DEF Moved
<1>2. Clear(r, i + 1) <=> Clear(r, i) /\ s \notin Bad
  <2>1. \A j : j \in 1..(i + 1) <=> j \in 1..i \/ j = i + 1
    OBVIOUS
  <2> QED
    BY <2>1 DEF Clear
<1>3. b \in Carried(n) /\ (b.ok <=> Clear(r, i)) /\ b.disk = disk
      /\ (b.ok => \A j \in 1..i : b.data[j] = disk[r.sector + j - 1])
  BY DEF Moved
<1>4. CASE ~b.ok \/ s \in Bad
  <2>1. t = [b EXCEPT !.ok = FALSE]
    BY <1>4 DEF Turn
  <2>2. t.ok = FALSE /\ t.disk = b.disk
    BY <1>3, <2>1 DEF Carried
  <2> HIDE DEF t
  <2> QED
    BY <1>1, <1>2, <1>3, <1>4, <2>2 DEF Moved, t
<1>5. CASE b.ok /\ s \notin Bad
  <2>1. t = [b EXCEPT !.data[i + 1] = b.disk[s]]
    BY <1>5 DEF Turn
  <2>2. t.ok = b.ok /\ t.disk = b.disk /\ t.data = [b.data EXCEPT ![i + 1] = b.disk[s]]
    BY <1>3, <2>1 DEF Carried
  <2>3. b.data \in [1..n -> Contents \cup {Nothing}]
    BY <1>3 DEF Carried
  <2> HIDE DEF t
  <2>4. ASSUME NEW j \in 1..(i + 1)
        PROVE  t.data[j] = disk[r.sector + j - 1]
    <3>1. CASE j = i + 1
      BY <1>3, <2>2, <2>3, <3>1
    <3>2. CASE j \in 1..i
      <4>1. t.data[j] = b.data[j]
        BY <2>2, <2>3, <3>2
      <4> QED
        BY <1>3, <1>5, <3>2, <4>1
    <3> QED
      BY <3>1, <3>2
  <2> QED
    BY <1>1, <1>2, <1>3, <1>5, <2>2, <2>4 DEF Moved, t
<1> QED
  BY <1>3, <1>4, <1>5

LEMMA TurnOut ==
  ASSUME NEW r, Runnable(r), NEW i \in Nat, i + 1 \in 1..Len(r.data), NEW b,
         Moved(r, i, b), r.type # "in"
  PROVE  Moved(r, i + 1, Turn(r, i + 1, b))
<1> DEFINE n == Len(r.data)
           s == r.sector + (i + 1) - 1
           t == Turn(r, i + 1, b)
<1>1. t \in Carried(n)
  BY TurnType DEF Moved
<1>2. Clear(r, i + 1) <=> Clear(r, i) /\ s \notin Bad
  <2>1. \A j : j \in 1..(i + 1) <=> j \in 1..i \/ j = i + 1
    OBVIOUS
  <2> QED
    BY <2>1 DEF Clear
<1>3. b \in Carried(n) /\ (b.ok <=> Clear(r, i)) /\ b.data = r.data
  BY DEF Moved
<1>4. \A x \in Sectors :
        b.disk[x] = IF x - r.sector + 1 \in 1..i /\ Clear(r, x - r.sector + 1)
                    THEN r.data[x - r.sector + 1] ELSE disk[x]
  BY DEF Moved
<1>5. r.sector \in Nat /\ s \in Sectors /\ Sectors \subseteq Nat
  BY RunnableParts, BlkAssumption
<1>6. ASSUME NEW x \in Sectors
      PROVE  x - r.sector + 1 \in 1..(i + 1) <=> x - r.sector + 1 \in 1..i \/ x = s
  <2>1. PICK y \in Int : y = x
    BY <1>5
  <2>2. PICK a \in Int : a = r.sector
    BY <1>5
  <2>3. y - a + 1 \in 1..(i + 1) <=> y - a + 1 \in 1..i \/ y = a + (i + 1) - 1
    OBVIOUS
  <2> QED
    BY <2>1, <2>2, <2>3
<1>7. s - r.sector + 1 = i + 1
  BY <1>5
<1>8. CASE ~b.ok \/ s \in Bad
  <2>1. t = [b EXCEPT !.ok = FALSE]
    BY <1>8 DEF Turn
  <2>2. t.ok = FALSE /\ t.disk = b.disk /\ t.data = b.data
    BY <1>3, <2>1 DEF Carried
  <2>3. ~Clear(r, i + 1)
    BY <1>2, <1>3, <1>8
  <2> HIDE DEF t, s
  <2>4. ASSUME NEW x \in Sectors
        PROVE  t.disk[x] = IF x - r.sector + 1 \in 1..(i + 1) /\ Clear(r, x - r.sector + 1)
                           THEN r.data[x - r.sector + 1] ELSE disk[x]
    BY <1>4, <1>6, <1>7, <2>2, <2>3
  <2> QED
    BY <1>1, <1>3, <2>2, <2>3, <2>4 DEF Moved, t
<1>9. CASE b.ok /\ s \notin Bad
  <2>1. t = [b EXCEPT !.disk[s] = r.data[i + 1]]
    BY <1>9 DEF Turn
  <2>2. t.ok = b.ok /\ t.data = b.data /\ t.disk = [b.disk EXCEPT ![s] = r.data[i + 1]]
    BY <1>3, <2>1 DEF Carried
  <2>3. b.disk \in [Sectors -> Contents]
    BY <1>3 DEF Carried
  <2>4. Clear(r, i + 1)
    BY <1>2, <1>3, <1>9
  <2> HIDE DEF t, s
  <2>5. ASSUME NEW x \in Sectors
        PROVE  t.disk[x] = IF x - r.sector + 1 \in 1..(i + 1) /\ Clear(r, x - r.sector + 1)
                           THEN r.data[x - r.sector + 1] ELSE disk[x]
    <3>1. CASE x = s
      <4>1. t.disk[x] = r.data[i + 1]
        BY <1>5, <2>2, <2>3, <3>1
      <4> QED
        BY <1>6, <1>7, <2>4, <3>1, <4>1
    <3>2. CASE x # s
      <4>1. t.disk[x] = b.disk[x]
        BY <2>2, <2>3, <3>2
      <4> QED
        BY <1>4, <1>6, <3>2, <4>1
    <3> QED
      BY <3>1, <3>2
  <2> QED
    BY <1>1, <1>3, <1>9, <2>2, <2>4, <2>5 DEF Moved, t
<1> QED
  BY <1>3, <1>8, <1>9

\* What Transfer computes is the function that takes one turn after another.
LEMMA TransferTurns ==
  ASSUME NEW r, Runnable(r), disk \in [Sectors -> Contents]
  PROVE  \E after : /\ Transfer(r) = after[Len(r.data)]
                    /\ after[0] = [disk |-> disk, data |-> r.data, ok |-> TRUE]
                    /\ \A i \in 1..Len(r.data) : after[i] = Turn(r, i, after[i - 1])
<1> DEFINE n == Len(r.data)
           a == [disk |-> disk, data |-> r.data, ok |-> TRUE]
           body(f) == [i \in 0..n |-> IF i = 0 THEN a ELSE Turn(r, i, f[i - 1])]
           after == CHOOSE f : f = body(f)
           step == [i \in 1..n |-> [b \in Carried(n) |-> Turn(r, i, b)]]
<1>1. n \in Nat /\ a \in Carried(n)
  BY RunnableParts DEF Carried
<1>2. Transfer(r) = after[n]
  BY DEF Transfer, Turn
<1>3. \E f : f = body(f)
  <2>1. step \in [1..n -> [Carried(n) -> Carried(n)]]
    BY TurnType
  <2> HIDE DEF n, a
  <2>2. PICK g \in [0..n -> Carried(n)] : Follows(g, n, a, step)
    <3> HIDE DEF step
    <3> QED
      BY <1>1, <2>1, Recursion
  <2>3. ASSUME NEW i \in 0..n
        PROVE  g[i] = IF i = 0 THEN a ELSE Turn(r, i, g[i - 1])
    <3>1. g[i] = IF i = 0 THEN a ELSE step[i][g[i - 1]]
      BY <2>2 DEF Follows
    <3>2. CASE i # 0
      <4>1. i \in 1..n /\ i - 1 \in 0..n
        BY <1>1, <3>2
      <4>2. g[i - 1] \in Carried(n)
        BY <2>2, <4>1
      <4> QED
        BY <3>1, <3>2, <4>1, <4>2
    <3> QED
      BY <3>1, <3>2
  <2>4. g = body(g)
    BY <2>2, <2>3
  <2> QED
    BY <2>4
<1>4. after = body(after)
  BY <1>3
<1> HIDE DEF after
<1>5. after[0] = a /\ \A i \in 1..n : after[i] = Turn(r, i, after[i - 1])
  <2> HIDE DEF n, a
  <2>1. 0 \in 0..n /\ \A i \in 1..n : i \in 0..n /\ i # 0
    BY <1>1
  <2>2. \A i \in 0..n : after[i] = IF i = 0 THEN a ELSE Turn(r, i, after[i - 1])
    BY <1>4, Zenon
  <2> QED
    BY <2>1, <2>2
<1> QED
  BY <1>2, <1>5

LEMMA TransferMoves ==
  ASSUME NEW r, Runnable(r), disk \in [Sectors -> Contents]
  PROVE  Moved(r, Len(r.data), Transfer(r))
<1> DEFINE n == Len(r.data)
<1>1. PICK after : /\ Transfer(r) = after[n]
                   /\ after[0] = [disk |-> disk, data |-> r.data, ok |-> TRUE]
                   /\ \A i \in 1..n : after[i] = Turn(r, i, after[i - 1])
  BY TransferTurns
<1>2. n \in Nat /\ after[0] \in Carried(n) /\ r.sector \in Nat
  BY <1>1, RunnableParts DEF Carried
<1> HIDE DEF n
<1> DEFINE S == {i \in Nat : i <= n => Moved(r, i, after[i])}
<1>3. 0 \in S
  <2>1. Clear(r, 0)
    BY DEF Clear
  <2>2. \A s \in Sectors : ~(s - r.sector + 1 \in 1..0)
    OBVIOUS
  <2>3. \A j \in 1..0 : FALSE
    OBVIOUS
  <2>4. Moved(r, 0, after[0])
    BY <1>1, <1>2, <2>1, <2>2, <2>3 DEF Moved, n
  <2> QED
    BY <2>4
<1>4. ASSUME NEW i \in Nat, i \in S
      PROVE  i + 1 \in S
  <2> SUFFICES ASSUME i + 1 <= n
               PROVE  Moved(r, i + 1, after[i + 1])
    OBVIOUS
  <2>1. i + 1 \in 1..n /\ i <= n /\ (i + 1) - 1 = i
    BY <1>2
  <2>2. Moved(r, i, after[i])
    BY <1>4, <2>1
  <2>3. after[i + 1] = Turn(r, i + 1, after[i])
    BY <1>1, <2>1
  <2>4. CASE r.type = "in"
    BY <2>1, <2>2, <2>3, <2>4, TurnIn DEF n
  <2>5. CASE r.type # "in"
    BY <2>1, <2>2, <2>3, <2>5, TurnOut DEF n
  <2> QED
    BY <2>4, <2>5
<1>5. Nat \subseteq S
  <2> HIDE DEF S
  <2> QED
    BY <1>3, <1>4, SetInduction
<1> QED
  BY <1>1, <1>2, <1>5 DEF n

\* The loop does to the disk what Done says without a loop, and a read that
\* went well has found what is there.
LEMMA TransferDone ==
  ASSUME NEW r, Runnable(r), disk \in [Sectors -> Contents]
  PROVE  /\ Transfer(r).disk = Done(disk, r)
         /\ Transfer(r).disk \in [Sectors -> Contents]
         /\ Transfer(r).ok \in BOOLEAN
         /\ Runnable([r EXCEPT !.data = Transfer(r).data])
         /\ [r EXCEPT !.data = Transfer(r).data].type = r.type
         /\ UsedLen([r EXCEPT !.data = Transfer(r).data]) = UsedLen(r)
         /\ Transfer(r).ok /\ r.type = "in"
              => /\ [r EXCEPT !.data = Transfer(r).data].data = Found(disk, r)
<1> DEFINE n == Len(r.data)
           t == Transfer(r)
           q == [r EXCEPT !.data = t.data]
<1>1. Moved(r, n, t)
  BY TransferMoves
<1> HIDE DEF t
<1>2. t \in Carried(n)
  BY <1>1 DEF Moved
<1>3. t.disk \in [Sectors -> Contents] /\ t.ok \in BOOLEAN
      /\ t.data \in [1..n -> Contents \cup {Nothing}]
  BY <1>2 DEF Carried
<1>4. n \in Nat /\ r.sector \in Nat /\ DOMAIN r.data = 1..n /\ Sectors \subseteq Nat
      /\ r.type \in {"in", "out", "flush"}
  BY RunnableParts, BlkAssumption
<1>5. t.disk = Done(disk, r)
  <2>1. CASE r.type = "in"
    BY <1>1, <2>1 DEF Moved, Done
  <2>2. CASE r.type = "out"
    <3>1. ASSUME NEW s \in Sectors
          PROVE  t.disk[s] = IF s - r.sector + 1 \in Reached(r)
                             THEN r.data[s - r.sector + 1] ELSE disk[s]
      <4>1. s - r.sector + 1 \in Reached(r)
              <=> s - r.sector + 1 \in 1..n /\ Clear(r, s - r.sector + 1)
        BY <1>4 DEF Reached, Clear
      <4> QED
        BY <1>1, <2>2, <4>1 DEF Moved
    <3> QED
      BY <1>3, <2>2, <3>1 DEF Done
  <2>3. CASE r.type = "flush"
    <3>1. n = 0
      BY <2>3, RunnableParts, EmptySeq
    <3>2. \A s \in Sectors : t.disk[s] = disk[s]
      BY <1>1, <1>4, <2>3, <3>1 DEF Moved
    <3>3. t.disk = disk
      BY <1>3, <3>2
    <3> QED
      BY <2>3, <3>3 DEF Done
  <2> QED
    BY <1>4, <2>1, <2>2, <2>3
<1>6. t.data \in Seq(Contents \cup {Nothing}) /\ Len(t.data) = n /\ DOMAIN t.data = 1..n
  BY <1>3, <1>4
<1>7. q.type = r.type /\ q.sector = r.sector /\ q.data = t.data
  BY DEF Runnable, BlkRequest
<1>8. Runnable(q)
  <2>1. q \in BlkRequest
    <3>1. CASE r \in [type : {"in", "out"}, sector : Sectors,
                      data : Seq(Contents \cup {Nothing})]
      BY <1>6, <3>1 DEF BlkRequest
    <3>2. CASE r \in [type : {"flush"}, sector : Sectors, data : {<<>>}]
      <4>1. r.type # "in" /\ r.data = <<>>
        BY <3>2
      <4>2. t.data = <<>>
        BY <1>1, <4>1 DEF Moved
      <4> QED
        BY <3>2, <4>2 DEF BlkRequest
    <3> QED
      BY <3>1, <3>2 DEF Runnable, BlkRequest
  <2>2. \A i \in DOMAIN q.data : q.sector + i - 1 \in Sectors
    BY <1>4, <1>6, <1>7 DEF Runnable
  <2>3. q.type = "out" => q.data \in Seq(Contents)
    BY <1>1, <1>7 DEF Moved, Runnable
  <2> QED
    BY <2>1, <2>2, <2>3 DEF Runnable
<1>9. UsedLen(q) = UsedLen(r)
  BY <1>6, <1>7 DEF UsedLen
<1>10. ASSUME t.ok, r.type = "in"
       PROVE  q.data = Found(disk, r)
  <2>1. \A j \in 1..n : t.data[j] = disk[r.sector + j - 1]
    BY <1>1, <1>10 DEF Moved
  <2> QED
    BY <1>3, <1>4, <1>7, <2>1 DEF Found
<1> QED
  BY <1>3, <1>5, <1>7, <1>8, <1>9, <1>10 DEF t

-----------------------------------------------------------------------------
(* The queue.                                                              *)

Memory == QueueMemory(Heads, Nothing, Nat)
Entry == Heads \cup {Nothing}
Element == [head : Heads \cup {Nothing}, len : Nat]

LEMMA QueueSizes ==
  /\ Sizes(QUEUE_SIZE, IDX) /\ Indices = 0..(IDX - 1)
  /\ QUEUE_SIZE \in Nat \ {0} /\ IDX \in Nat \ {0} /\ 0 \in Indices
BY QueueAssumption DEF Sizes, Indices

LEMMA SuccStep == \A i : Succ(i) = Step(IDX, i)
BY DEF Succ, Step

LEMMA SuccKeeps == ASSUME NEW i \in Indices PROVE Succ(i) \in Indices
<1>1. Step(IDX, i) \in 0..(IDX - 1)
  BY QueueSizes, StepOf
<1> QED
  BY <1>1, QueueSizes, SuccStep

LEMMA EntriesStretch ==
  \A ring, from, to : Entries(ring, from, to) = Stretch(ring, QUEUE_SIZE, IDX, from, to)
BY DEF Entries, At, Stretch, Window, Distance

LEMMA MemoryParts ==
  ASSUME NEW q \in Memory
  PROVE  /\ IsRing(q.avail, QUEUE_SIZE, Entry)
         /\ IsRing(q.used, QUEUE_SIZE, Element)
         /\ q.avail_idx \in Indices /\ q.used_idx \in Indices
BY DEF Memory, QueueMemory, IsRing, RingSlots, Element, Entry

LEMMA ZeroedMemory == Zeroed(Nothing) \in Memory
BY QueueSizes DEF Zeroed, Memory, QueueMemory

LEMMA SlotOf == ASSUME NEW i \in Indices PROVE i % QUEUE_SIZE \in RingSlots
<1>1. i \in Int
  BY QueueSizes
<1> QED
  BY <1>1, QueueSizes, DivMod DEF RingSlots

LEMMA OfferMemory ==
  ASSUME NEW q \in Memory, NEW h \in Heads
  PROVE  /\ Offer(q, h) \in Memory
         /\ Offer(q, h).avail = Put(q.avail, q.avail_idx % QUEUE_SIZE, h)
         /\ Offer(q, h).avail_idx = Succ(q.avail_idx)
         /\ Offer(q, h).used = q.used /\ Offer(q, h).used_idx = q.used_idx
<1>1. Succ(q.avail_idx) \in Indices /\ q.avail_idx % QUEUE_SIZE \in RingSlots
  BY MemoryParts, SuccKeeps, SlotOf
<1> QED
  BY <1>1 DEF Memory, QueueMemory, Offer, Put

LEMMA ReturnMemory ==
  ASSUME NEW q \in Memory, NEW h \in Heads, NEW n \in Nat
  PROVE  /\ Return(q, h, n) \in Memory
         /\ Return(q, h, n).used
              = Put(q.used, q.used_idx % QUEUE_SIZE, [head |-> h, len |-> n])
         /\ Return(q, h, n).used_idx = Succ(q.used_idx)
         /\ Return(q, h, n).avail = q.avail /\ Return(q, h, n).avail_idx = q.avail_idx
<1>1. Succ(q.used_idx) \in Indices /\ q.used_idx % QUEUE_SIZE \in RingSlots
  BY MemoryParts, SuccKeeps, SlotOf
<1> QED
  BY <1>1 DEF Memory, QueueMemory, Return, Put

-----------------------------------------------------------------------------
(* The requests in avail, in their order, lead from the disk of now to the *)
(* one with everything offered done, and each finds what it should.        *)

Disks == [Sectors -> Contents]

Leads(ds, a, m, x) ==
  \A k \in 1..Len(a) :
    /\ ds[k] = Done(ds[k - 1], m[a[k]])
    /\ x[a[k]] = Found(ds[k - 1], m[a[k]])

Traced(a, m, x, d, e) ==
  \E ds \in [0..Len(a) -> Disks] : ds[0] = d /\ ds[Len(a)] = e /\ Leads(ds, a, m, x)

LEMMA TracedEmpty ==
  ASSUME NEW m, NEW x, NEW d \in Disks
  PROVE  Traced(<<>>, m, x, d, d)
<1> DEFINE ds == [k \in 0..0 |-> d]
<1>1. Len(<<>>) = 0
  BY EmptySeq
<1>2. ds \in [0..Len(<<>>) -> Disks] /\ ds[0] = d
  BY <1>1
<1>3. Leads(ds, <<>>, m, x)
  BY <1>1 DEF Leads
<1> QED
  BY <1>1, <1>2, <1>3 DEF Traced

LEMMA TracedSame ==
  ASSUME NEW T, NEW a \in Seq(T), NEW m, NEW x, NEW d, NEW e, Traced(a, m, x, d, e),
         NEW m2, NEW x2, \A h \in Range(a) : m2[h] = m[h] /\ x2[h] = x[h]
  PROVE  Traced(a, m2, x2, d, e)
<1>1. PICK ds \in [0..Len(a) -> Disks] : ds[0] = d /\ ds[Len(a)] = e /\ Leads(ds, a, m, x)
  BY DEF Traced
<1>2. \A k \in 1..Len(a) : a[k] \in Range(a)
  BY RangeOf
<1>3. Leads(ds, a, m2, x2)
  BY <1>1, <1>2 DEF Leads
<1> QED
  BY <1>1, <1>3 DEF Traced

LEMMA TracedTail ==
  ASSUME NEW T, NEW a \in Seq(T), a # <<>>,
         NEW m, NEW x, NEW d, NEW e, Traced(a, m, x, d, e),
         NEW m2, NEW x2, \A h \in Range(Tail(a)) : m2[h] = m[h] /\ x2[h] = x[h]
  PROVE  /\ x[Head(a)] = Found(d, m[Head(a)])
         /\ Traced(Tail(a), m2, x2, Done(d, m[Head(a)]), e)
<1> DEFINE b == Tail(a)
           n == Len(a)
<1>1. /\ b \in Seq(T) /\ Len(b) = n - 1 /\ n \in Nat \ {0}
      /\ \A i \in 1..(n - 1) : b[i] = a[i + 1]
      /\ Head(a) = a[1]
  BY HeadTailProperties, EmptySeq
<1>2. PICK ds \in [0..n -> Disks] : ds[0] = d /\ ds[n] = e /\ Leads(ds, a, m, x)
  BY DEF Traced
<1>3. \A i \in 1..Len(b) : b[i] \in Range(b)
  BY <1>1, RangeOf
<1> DEFINE es == [k \in 0..(n - 1) |-> ds[k + 1]]
<1> HIDE DEF b
<1>4. \A k \in 1..n : ds[k] = Done(ds[k - 1], m[a[k]]) /\ x[a[k]] = Found(ds[k - 1], m[a[k]])
  BY <1>2 DEF Leads
<1> HIDE DEF n
<1>5. ds[1] = Done(d, m[a[1]]) /\ x[a[1]] = Found(d, m[a[1]])
  <2>1. 1 \in 1..n /\ 1 - 1 = 0
    BY <1>1
  <2> QED
    BY <1>2, <1>4, <2>1
<1>6. es \in [0..(n - 1) -> Disks] /\ es[0] = ds[1] /\ es[n - 1] = e
  <2>1. \A k \in 0..(n - 1) : k + 1 \in 0..n
    BY <1>1
  <2>2. 0 \in 0..(n - 1) /\ n - 1 \in 0..(n - 1) /\ (n - 1) + 1 = n /\ 0 + 1 = 1
    BY <1>1
  <2> QED
    BY <1>2, <2>1, <2>2
<1>7. ASSUME NEW k \in 1..(n - 1)
      PROVE  /\ es[k] = Done(es[k - 1], m2[b[k]])
             /\ x2[b[k]] = Found(es[k - 1], m2[b[k]])
  <2>1. k + 1 \in 1..n /\ (k + 1) - 1 = k /\ k \in 0..(n - 1) /\ k - 1 \in 0..(n - 1)
        /\ (k - 1) + 1 = k
    BY <1>1
  <2>2. es[k] = ds[k + 1] /\ es[k - 1] = ds[k]
    BY <2>1
  <2>3. b[k] = a[k + 1] /\ m2[b[k]] = m[b[k]] /\ x2[b[k]] = x[b[k]]
    <3>1. k \in 1..Len(b) /\ b[k] = a[k + 1]
      BY <1>1
    <3>2. b[k] \in Range(Tail(a))
      BY <1>3, <3>1 DEF b
    <3> QED
      BY <3>1, <3>2
  <2> HIDE DEF es
  <2>4. ds[k + 1] = Done(ds[k], m[a[k + 1]]) /\ x[a[k + 1]] = Found(ds[k], m[a[k + 1]])
    BY <1>4, <2>1
  <2> QED
    BY <2>2, <2>3, <2>4
<1> HIDE DEF es
<1>8. Leads(es, b, m2, x2)
  BY <1>1, <1>7 DEF Leads
<1>9. Traced(b, m2, x2, ds[1], e)
  BY <1>1, <1>6, <1>8 DEF Traced
<1> QED
  BY <1>1, <1>5, <1>9 DEF b

LEMMA TracedAppend ==
  ASSUME NEW T, NEW a \in Seq(T), NEW h \in T,
         NEW m, NEW x, NEW d, NEW e, Traced(a, m, x, d, e),
         NEW m2, NEW x2, \A g \in Range(a) : m2[g] = m[g] /\ x2[g] = x[g],
         x2[h] = Found(e, m2[h]), Done(e, m2[h]) \in Disks
  PROVE  Traced(Append(a, h), m2, x2, d, Done(e, m2[h]))
<1> DEFINE b == Append(a, h)
           n == Len(a)
           f == Done(e, m2[h])
<1>1. /\ b \in Seq(T) /\ Len(b) = n + 1 /\ n \in Nat
      /\ \A i \in 1..n : b[i] = a[i]
      /\ b[n + 1] = h
  BY AppendProperties, LenProperties
<1>2. PICK ds \in [0..n -> Disks] : ds[0] = d /\ ds[n] = e /\ Leads(ds, a, m, x)
  BY DEF Traced
<1>3. \A i \in 1..n : a[i] \in Range(a)
  BY RangeOf
<1>4. \A k \in 1..n : ds[k] = Done(ds[k - 1], m[a[k]]) /\ x[a[k]] = Found(ds[k - 1], m[a[k]])
  BY <1>2 DEF Leads
<1>5. f \in Disks
  OBVIOUS
<1> DEFINE es == [k \in 0..(n + 1) |-> IF k = n + 1 THEN f ELSE ds[k]]
<1> HIDE DEF b, n, f
<1>6. es \in [0..(n + 1) -> Disks] /\ es[0] = d /\ es[n + 1] = f
  <2>1. \A k \in 0..(n + 1) : k = n + 1 \/ k \in 0..n
    BY <1>1
  <2>2. 0 \in 0..(n + 1) /\ n + 1 \in 0..(n + 1) /\ 0 # n + 1
    BY <1>1
  <2> QED
    BY <1>2, <1>5, <2>1, <2>2
<1>7. ASSUME NEW k \in 1..(n + 1)
      PROVE  /\ es[k] = Done(es[k - 1], m2[b[k]])
             /\ x2[b[k]] = Found(es[k - 1], m2[b[k]])
  <2>1. k - 1 \in 0..n /\ k - 1 # n + 1 /\ k \in 0..(n + 1) /\ k - 1 \in 0..(n + 1)
    BY <1>1
  <2>2. es[k - 1] = ds[k - 1]
    BY <2>1
  <2>3. CASE k = n + 1
    <3>1. es[k] = f /\ k - 1 = n
      BY <1>1, <2>1, <2>3
    <3> HIDE DEF es
    <3> QED
      BY <1>1, <1>2, <2>2, <2>3, <3>1 DEF f
  <2>4. CASE k \in 1..n
    <3>1. es[k] = ds[k]
      BY <1>1, <2>1, <2>4
    <3> HIDE DEF es
    <3>2. b[k] = a[k] /\ m2[a[k]] = m[a[k]] /\ x2[a[k]] = x[a[k]]
      BY <1>1, <1>3, <2>4
    <3> QED
      BY <1>4, <2>2, <2>4, <3>1, <3>2
  <2> QED
    BY <1>1, <2>3, <2>4
<1> HIDE DEF es
<1>8. Leads(es, b, m2, x2)
  BY <1>1, <1>7 DEF Leads
<1>9. Traced(b, m2, x2, d, f)
  BY <1>1, <1>6, <1>8 DEF Traced
<1> QED
  BY <1>9 DEF b, f

-----------------------------------------------------------------------------
(* The invariant.                                                          *)

\* The heads of used elements.
HeadOf == [e \in Element |-> e.head]

LEMMA HeadsMapped ==
  ASSUME NEW s \in Seq(Element)
  PROVE  HeadsOf(s) = Mapped(HeadOf, s)
<1>1. \A k \in DOMAIN s : s[k] \in Element
  BY LenProperties
<1> QED
  BY <1>1 DEF HeadsOf, Mapped, HeadOf

Out == Heads \ (owned \cup Abandoned)

\* An answer that a driver may believe.
Right(e) ==
  /\ status[e.head] = 0
  /\ e.len = UsedLen(mem[e.head])
  /\ mem[e.head].type = "in" => mem[e.head].data = expected[e.head]

\* The inductive invariant: what is in the rings, once each; what the chains
\* that are given away hold; what the requests in avail will do and find; what
\* those in used have found.
BlkInv ==
  /\ BlkTypeOK
  /\ work = "access" => avail_idx = queue.avail_idx
  /\ Placed(Available, HeadsOf(Answered), Out)
  /\ owned \cap Abandoned = {}
  /\ \A h \in Heads \ owned : Runnable(mem[h])
  /\ Traced(Available, mem, expected, disk, shadow)
  /\ \A e \in Range(Answered) : Right(e)

LEMMA UsedLenNat == ASSUME NEW r, Runnable(r) PROVE UsedLen(r) \in Nat
<1>1. Len(r.data) \in Nat
  BY RunnableParts
<1> QED
  BY <1>1 DEF UsedLen, SECTOR_SIZE

\* What the invariant says of the two rings.
LEMMA Rings ==
  ASSUME BlkInv
  PROVE  /\ queue \in Memory
         /\ last_avail_idx \in Indices /\ seen \in Indices
         /\ queue.avail_idx \in Indices /\ queue.used_idx \in Indices
         /\ Available
              = Stretch(queue.avail, QUEUE_SIZE, IDX, last_avail_idx, queue.avail_idx)
         /\ Answered = Stretch(queue.used, QUEUE_SIZE, IDX, seen, queue.used_idx)
         /\ Available \in Seq(Entry)
         /\ Answered \in Seq(Element)
         /\ HeadsOf(Answered) = Mapped(HeadOf, Answered)
         /\ HeadsOf(Answered) \in Seq(Entry)
         /\ Len(HeadsOf(Answered)) = Len(Answered)
<1>1. /\ queue \in Memory
      /\ last_avail_idx \in Indices /\ seen \in Indices
  BY DEF BlkInv, BlkTypeOK, Memory
<1>2. queue.avail_idx \in Indices /\ queue.used_idx \in Indices
  BY <1>1, MemoryParts
<1>3. /\ IsRing(queue.avail, QUEUE_SIZE, Entry)
      /\ IsRing(queue.used, QUEUE_SIZE, Element)
  BY <1>1, MemoryParts
<1>4. Available = Stretch(queue.avail, QUEUE_SIZE, IDX, last_avail_idx, queue.avail_idx)
  BY EntriesStretch DEF Available
<1>5. Answered = Stretch(queue.used, QUEUE_SIZE, IDX, seen, queue.used_idx)
  BY EntriesStretch DEF Answered
<1>6. Available \in Seq(Entry)
  BY <1>1, <1>2, <1>3, <1>4, QueueSizes, StretchType
<1>7. Answered \in Seq(Element)
  BY <1>1, <1>2, <1>3, <1>5, QueueSizes, StretchType
<1>8. HeadsOf(Answered) = Mapped(HeadOf, Answered)
  BY <1>7, HeadsMapped
<1>9. Ends(HeadOf, Element, Entry)
  BY DEF Ends, HeadOf, Element, Entry
<1>10. /\ Mapped(HeadOf, Answered) \in Seq(Entry)
       /\ Len(Mapped(HeadOf, Answered)) = Len(Answered)
  BY <1>7, <1>9, MappedType
<1> QED
  BY <1>1, <1>2, <1>4, <1>5, <1>6, <1>7, <1>8, <1>10

\* Neither ring overflows: there are not more chains than slots.
LEMMA RingsFit ==
  ASSUME BlkInv
  PROVE  /\ Len(Available) \in Nat /\ Len(Answered) \in Nat
         /\ Len(Available) + Len(Answered) <= QUEUE_SIZE
         /\ \A h \in owned : Len(Available) + Len(Answered) < QUEUE_SIZE
<1>1. /\ Available \in Seq(Entry)
      /\ HeadsOf(Answered) \in Seq(Entry)
      /\ Len(HeadsOf(Answered)) = Len(Answered)
      /\ Answered \in Seq(Element)
  BY Rings
<1>2. Len(Available) \in Nat /\ Len(Answered) \in Nat
  BY <1>1, LenProperties
<1>3. Placed(Available, HeadsOf(Answered), Out) /\ Out \subseteq Heads
  BY DEF BlkInv, Out
<1>4. IsFiniteSet(Heads) /\ Cardinality(Heads) <= QUEUE_SIZE /\ Cardinality(Heads) \in Nat
      /\ QUEUE_SIZE \in Nat
  BY BlkAssumption, QueueSizes, FS_CardinalityType
<1>5. Len(Available) + Len(HeadsOf(Answered)) <= Cardinality(Heads)
  BY <1>1, <1>3, <1>4, PlacedLength
<1>6. ASSUME NEW h \in owned
      PROVE  Len(Available) + Len(Answered) < QUEUE_SIZE
  <2>1. h \in Heads
    BY DEF BlkInv, BlkTypeOK
  <2>2. IsFiniteSet(Heads \ {h}) /\ Cardinality(Heads \ {h}) = Cardinality(Heads) - 1
    BY <1>4, <2>1, FS_RemoveElement
  <2>3. Out \subseteq Heads \ {h}
    BY DEF Out
  <2>4. Len(Available) + Len(HeadsOf(Answered)) <= Cardinality(Heads \ {h})
    BY <1>1, <1>3, <2>2, <2>3, PlacedLength
  <2> QED
    BY <1>1, <1>2, <1>4, <2>2, <2>4
<1> QED
  BY <1>1, <1>2, <1>4, <1>5, <1>6

\* The heads in avail and in used are out, and differ.
LEMMA HeadsOut ==
  ASSUME BlkInv
  PROVE  /\ \A h \in Range(Available) : h \in Out
         /\ \A e \in Range(Answered) : e.head \in Out /\ e.head \notin Range(Available)
         /\ \A h \in Out : h \in Heads /\ h \notin owned /\ h \notin Abandoned
<1>1. Placed(Available, HeadsOf(Answered), Out)
  BY DEF BlkInv
<1>2. ASSUME NEW e \in Range(Answered)
      PROVE  e.head \in Range(HeadsOf(Answered))
  <2>1. Answered \in Seq(Element) /\ HeadsOf(Answered) = Mapped(HeadOf, Answered)
    BY Rings
  <2>2. e \in Element
    BY <2>1, RangeOf
  <2>3. HeadOf[e] \in Range(Mapped(HeadOf, Answered))
    BY <2>1, MappedRange
  <2> QED
    BY <2>1, <2>2, <2>3 DEF HeadOf
<1> QED
  BY <1>1, <1>2 DEF Placed, Out

-----------------------------------------------------------------------------
(* The steps.                                                              *)

LEMMA InitHolds == BlkInit => BlkInv
<1> SUFFICES ASSUME BlkInit PROVE BlkInv
  OBVIOUS
<1>1. Zeroed(Nothing) \in Memory /\ 0 \in Indices
  BY ZeroedMemory, QueueSizes
<1>2. IrqTypeOK
  BY DEF BlkInit, IrqInit, IrqTypeOK, GuestPlaces
<1>3. <<>> \in Seq(Contents)
  BY EmptySeq
<1>4. BlkTypeOK
  BY <1>1, <1>2, <1>3, BlkAssumption DEF BlkInit, BlkTypeOK, Memory
<1>5. Available = <<>> /\ Answered = <<>>
  <2>1. queue.avail_idx = 0 /\ queue.used_idx = 0 /\ last_avail_idx = 0 /\ seen = 0
    BY DEF BlkInit, Zeroed
  <2>2. queue \in Memory
    BY <1>1 DEF BlkInit
  <2>3. /\ IsRing(queue.avail, QUEUE_SIZE, Entry)
        /\ IsRing(queue.used, QUEUE_SIZE, Element)
    BY <2>2, MemoryParts
  <2>4. ASSUME NEW i \in Indices
        PROVE  Stretch(queue.avail, QUEUE_SIZE, IDX, i, i) = <<>>
    BY <2>3, QueueSizes, StretchType
  <2>5. ASSUME NEW i \in Indices
        PROVE  Stretch(queue.used, QUEUE_SIZE, IDX, i, i) = <<>>
    BY <2>3, QueueSizes, StretchType
  <2> QED
    BY <1>1, <2>1, <2>4, <2>5, EntriesStretch DEF Available, Answered
<1>6. Abandoned = {} /\ owned = Heads /\ Out = {}
  BY BlkAssumption DEF BlkInit, Abandoned, Out
<1>7. HeadsOf(<<>>) = <<>>
  BY DEF HeadsOf
<1>8. Traced(<<>>, mem, expected, disk, shadow)
  BY <1>4, TracedEmpty DEF BlkInit, BlkTypeOK, Disks
<1>9. work = "idle"
  BY DEF BlkInit
<1> QED
  BY <1>4, <1>5, <1>6, <1>7, <1>8, <1>9, PlacedEmpty, RangeEmpty DEF BlkInv

\* Steps that leave the queue alone.
LEMMA Elsewhere ==
  ASSUME BlkInv, BlkTypeOK', work' = "access" => avail_idx' = queue'.avail_idx,
         UNCHANGED <<last_avail_idx, disk, memVars, driverVars, historyVars>>
  PROVE  BlkInv'
<1>1. /\ UNCHANGED <<Available, Answered, Out, Abandoned>>
      /\ UNCHANGED <<mem, expected, disk, shadow, owned, status>>
  BY DEF Available, Answered, Out, Abandoned, memVars, driverVars, historyVars
<1> QED
  BY <1>1 DEF BlkInv, Right

LEMMA QuietSteps ==
  ASSUME BlkInv,
         Notify \/ ServeEnd \/ Poll \/ SetUp \/ ReapEnd \/ HandleIrq \/ UNCHANGED vars
  PROVE  BlkInv'
<1>1. BlkTypeOK /\ queue.avail_idx \in Indices /\ 0 \in Indices
  BY Rings, QueueSizes DEF BlkInv
<1>2. CASE Notify \/ ServeEnd
  <2>1. UNCHANGED <<irqVars, queue_pfn, last_avail_idx, disk, memVars, driverVars, historyVars>>
    BY <1>2 DEF Notify, ServeEnd
  <2>2. BlkTypeOK'
    BY <1>1, <1>2, <2>1
    DEF Notify, ServeEnd, BlkTypeOK, IrqTypeOK, irqVars, flagVars, handlerVars, memVars,
        driverVars, historyVars
  <2>3. work' = "access" => avail_idx' = queue'.avail_idx
    BY <1>2, <2>1 DEF Notify, ServeEnd, memVars
  <2> QED
    BY <2>1, <2>2, <2>3, Elsewhere
<1>3. CASE Poll \/ SetUp \/ ReapEnd \/ HandleIrq \/ UNCHANGED vars
  <2>1. /\ UNCHANGED <<last_avail_idx, avail_idx, disk, work, memVars, driverVars, historyVars>>
        /\ queue_pfn' \in BOOLEAN
    BY <1>1, <1>3
    DEF Poll, SetUp, ReapEnd, HandleIrq, vars, deviceVars, BlkTypeOK
  <2>2. IrqTypeOK'
    <3>1. IrqTypeOK
      BY <1>1 DEF BlkTypeOK
    <3>2. CASE Poll
      BY <3>1, <3>2, LatchKeeps DEF Poll
    <3>3. CASE SetUp \/ ReapEnd \/ UNCHANGED vars
      BY <3>1, <3>3
      DEF SetUp, ReapEnd, vars, irqVars, flagVars, handlerVars, IrqTypeOK, GuestPlaces
    <3>4. CASE HandleIrq
      BY <3>1, <3>4, HandleKeeps DEF HandleIrq
    <3> QED
      BY <1>3, <3>2, <3>3, <3>4
  <2>3. BlkTypeOK'
    BY <1>1, <2>1, <2>2 DEF BlkTypeOK, memVars, driverVars, historyVars
  <2>4. work' = "access" => avail_idx' = queue'.avail_idx
    BY <2>1 DEF BlkInv, memVars
  <2> QED
    BY <2>1, <2>3, <2>4, Elsewhere
<1> QED
  BY <1>2, <1>3

\* Another request: it goes to the end of avail, on a disk with everything
\* before it done.
LEMMA SubmitHolds ==
  ASSUME BlkInv, NEW h \in Heads, NEW r \in Requests, Submit(h, r)
  PROVE  BlkInv'
<1>1. /\ queue' = Offer(queue, h)
      /\ owned' = owned \ {h} /\ h \in owned
      /\ mem' = [mem EXCEPT ![h] = r]
      /\ status' = [status EXCEPT ![h] = Nothing]
      /\ shadow' = Done(shadow, r)
      /\ expected' = [expected EXCEPT ![h] = Found(shadow, r)]
      /\ work = "idle"
      /\ UNCHANGED <<irqVars, deviceVars, work, seen>>
  BY DEF Submit, Found
<1>2. BlkTypeOK /\ Runnable(r)
  BY BlkAssumption DEF BlkInv, Runnable
<1>3. /\ queue' \in Memory
      /\ queue'.avail = Put(queue.avail, queue.avail_idx % QUEUE_SIZE, h)
      /\ queue'.avail_idx = Step(IDX, queue.avail_idx)
      /\ queue'.used = queue.used /\ queue'.used_idx = queue.used_idx
  BY <1>1, OfferMemory, Rings, SuccStep
<1>4. Done(shadow, r) \in Disks
  <2>1. shadow \in Disks
    BY <1>2 DEF BlkTypeOK, Disks
  <2>2. r.type = "out" => \A s \in Sectors :
          s - r.sector + 1 \in Reached(r) => r.data[s - r.sector + 1] \in Contents
    BY <1>2, RunnableParts DEF Reached
  <2> QED
    BY <2>1, <2>2 DEF Done, Disks
<1>5. Found(shadow, r) \in Seq(Contents)
  <2>1. Len(r.data) \in Nat /\ DOMAIN r.data = 1..Len(r.data)
        /\ \A i \in 1..Len(r.data) : r.sector + i - 1 \in Sectors
    BY <1>2, RunnableParts
  <2>2. Found(shadow, r) \in [1..Len(r.data) -> Contents]
    BY <1>2, <2>1 DEF Found, BlkTypeOK
  <2> QED
    BY <2>1, <2>2
<1>6. BlkTypeOK'
  BY <1>1, <1>2, <1>3, <1>4, <1>5
  DEF BlkTypeOK, IrqTypeOK, irqVars, flagVars, handlerVars, deviceVars, Memory, Disks, Runnable
<1>7. Available' = Append(Available, h)
  <2>1. Len(Available) < QUEUE_SIZE /\ h \in Entry
    BY <1>1, RingsFit, QueueSizes DEF Entry
  <2>2. /\ IsRing(queue.avail, QUEUE_SIZE, Entry)
        /\ last_avail_idx \in 0..(IDX - 1) /\ queue.avail_idx \in 0..(IDX - 1)
    BY Rings, MemoryParts, QueueSizes
  <2>3. Available = Stretch(queue.avail, QUEUE_SIZE, IDX, last_avail_idx, queue.avail_idx)
    BY Rings
  <2>4. Available' = Stretch(queue'.avail, QUEUE_SIZE, IDX, last_avail_idx, queue'.avail_idx)
    BY <1>1, EntriesStretch DEF Available, deviceVars
  <2>5. Stretch(Put(queue.avail, queue.avail_idx % QUEUE_SIZE, h), QUEUE_SIZE, IDX,
                last_avail_idx, Step(IDX, queue.avail_idx))
          = Append(Stretch(queue.avail, QUEUE_SIZE, IDX, last_avail_idx, queue.avail_idx), h)
    BY <2>1, <2>2, <2>3, QueueSizes, StretchPut
  <2> QED
    BY <1>3, <2>3, <2>4, <2>5
<1>8. Answered' = Answered
  BY <1>1, <1>3 DEF Answered
<1>9. Abandoned' = Abandoned /\ h \notin Abandoned /\ Out' = Out \cup {h} /\ h \notin Out
  <2>1. h \notin Abandoned
    BY <1>1 DEF BlkInv
  <2>2. \A g \in Heads : status'[g] = 1 <=> status[g] = 1
    BY <1>1, <1>2, <2>1, BlkAssumption DEF BlkTypeOK, Abandoned
  <2>3. Abandoned' = Abandoned
    BY <2>2 DEF Abandoned
  <2> QED
    BY <1>1, <2>1, <2>3 DEF Out
<1>10. /\ Available \in Seq(Entry)
       /\ HeadsOf(Answered) \in Seq(Entry)
       /\ Placed(Available, HeadsOf(Answered), Out)
       /\ h \in Entry
  BY Rings DEF BlkInv, Entry
<1>11. Placed(Available', HeadsOf(Answered'), Out')
  BY <1>7, <1>8, <1>9, <1>10, PlacedOffer
<1>12. \A g \in Heads : g # h => mem'[g] = mem[g] /\ expected'[g] = expected[g]
                                 /\ status'[g] = status[g]
  BY <1>1, <1>2 DEF BlkTypeOK
<1>13. mem'[h] = r /\ expected'[h] = Found(shadow, r)
  BY <1>1, <1>2 DEF BlkTypeOK
<1>14. \A g \in Out : g # h /\ g \in Heads
  BY <1>9 DEF Out
<1>15. Traced(Available', mem', expected', disk', shadow')
  <2>1. \A g \in Range(Available) : mem'[g] = mem[g] /\ expected'[g] = expected[g]
    BY <1>12, <1>14, HeadsOut
  <2>2. Traced(Available, mem, expected, disk, shadow)
    BY DEF BlkInv
  <2>3. expected'[h] = Found(shadow, mem'[h]) /\ Done(shadow, mem'[h]) \in Disks
    BY <1>4, <1>13
  <2>4. Traced(Append(Available, h), mem', expected', disk, Done(shadow, mem'[h]))
    BY <1>10, <2>1, <2>2, <2>3, TracedAppend
  <2> QED
    BY <1>1, <1>7, <1>13, <2>4 DEF deviceVars
<1>16. \A e \in Range(Answered') : Right(e)'
  BY <1>8, <1>12, <1>14, HeadsOut DEF BlkInv, Right
<1>17. \A g \in Heads \ owned' : Runnable(mem'[g])
  BY <1>1, <1>2, <1>12, <1>13 DEF BlkInv
<1>18. owned' \cap Abandoned' = {}
  BY <1>1, <1>9 DEF BlkInv
<1> QED
  BY <1>1, <1>6, <1>11, <1>15, <1>16, <1>17, <1>18 DEF BlkInv

\* The driver takes back what was answered first.
LEMMA ReapHolds ==
  ASSUME BlkInv, Reap
  PROVE  BlkInv'
<1> DEFINE h == At(queue.used, seen).head
<1>1. /\ queue' = [queue EXCEPT !.used[seen % QUEUE_SIZE] = [head |-> Nothing, len |-> 0]]
      /\ owned' = owned \cup {h}
      /\ mem' = [mem EXCEPT ![h] = Nothing]
      /\ status' = [status EXCEPT ![h] = Nothing]
      /\ expected' = [expected EXCEPT ![h] = <<>>]
      /\ seen # queue.used_idx /\ seen' = Succ(seen)
      /\ UNCHANGED <<irqVars, deviceVars, work, shadow>>
  BY DEF Reap
<1>2. BlkTypeOK
  BY DEF BlkInv
<1>3. /\ IsRing(queue.used, QUEUE_SIZE, Element)
      /\ seen \in 0..(IDX - 1) /\ queue.used_idx \in 0..(IDX - 1) /\ seen \in Indices
      /\ seen % QUEUE_SIZE \in RingSlots
  BY Rings, MemoryParts, QueueSizes, SlotOf
<1>4. Answered = Stretch(queue.used, QUEUE_SIZE, IDX, seen, queue.used_idx)
  BY Rings
<1>5. /\ Answered # <<>>
      /\ Head(Answered) = At(queue.used, seen)
  BY <1>1, <1>3, <1>4, QueueSizes, StretchTake DEF At
<1>6. /\ queue' \in Memory
      /\ queue'.used = Put(queue.used, seen % QUEUE_SIZE, [head |-> Nothing, len |-> 0])
      /\ queue'.used_idx = queue.used_idx
      /\ queue'.avail = queue.avail /\ queue'.avail_idx = queue.avail_idx
  BY <1>1, <1>3, Rings DEF Memory, QueueMemory, Put
<1>7. Answered' = Tail(Answered)
  <2>1. Len(Answered) <= QUEUE_SIZE
    BY RingsFit, QueueSizes
  <2>2. Stretch(Put(queue.used, seen % QUEUE_SIZE, [head |-> Nothing, len |-> 0]),
                QUEUE_SIZE, IDX, Step(IDX, seen), queue.used_idx)
          = Tail(Stretch(queue.used, QUEUE_SIZE, IDX, seen, queue.used_idx))
    <3>1. PICK v : v = [head |-> Nothing, len |-> 0]
      OBVIOUS
    <3>2. seen # queue.used_idx
      BY <1>1
    <3>3. Len(Stretch(queue.used, QUEUE_SIZE, IDX, seen, queue.used_idx)) <= QUEUE_SIZE
      BY <1>4, <2>1
    <3>4. Stretch(Put(queue.used, seen % QUEUE_SIZE, v), QUEUE_SIZE, IDX,
                  Step(IDX, seen), queue.used_idx)
            = Tail(Stretch(queue.used, QUEUE_SIZE, IDX, seen, queue.used_idx))
      <4>1. Sizes(QUEUE_SIZE, IDX)
        BY QueueSizes
      <4>2. /\ IsRing(queue.used, QUEUE_SIZE, Element)
            /\ seen \in 0..(IDX - 1) /\ queue.used_idx \in 0..(IDX - 1)
        BY <1>3
      <4> QED
        BY <3>2, <3>3, <4>1, <4>2, StretchClear
    <3> QED
      BY <3>1, <3>4
  <2>3. Answered' = Stretch(queue'.used, QUEUE_SIZE, IDX, seen', queue'.used_idx)
    BY EntriesStretch DEF Answered
  <2> QED
    BY <1>1, <1>4, <1>6, <2>2, <2>3, SuccStep
<1>8. Available' = Available
  BY <1>1, <1>6 DEF Available, deviceVars
<1>9. /\ Answered \in Seq(Element)
      /\ Available \in Seq(Entry)
      /\ HeadsOf(Answered) = Mapped(HeadOf, Answered)
      /\ HeadsOf(Answered) \in Seq(Entry)
      /\ Ends(HeadOf, Element, Entry)
  BY Rings DEF Ends, HeadOf, Element, Entry
<1>10. /\ HeadsOf(Answered) # <<>>
       /\ Head(HeadsOf(Answered)) = h
       /\ HeadsOf(Tail(Answered)) = Tail(HeadsOf(Answered))
  <2>1. Head(Answered) \in Element /\ Tail(Answered) \in Seq(Element)
    BY <1>5, <1>9, HeadTailProperties
  <2>2. HeadsOf(Tail(Answered)) = Mapped(HeadOf, Tail(Answered))
    BY <2>1, HeadsMapped
  <2>3. /\ Mapped(HeadOf, Answered) # <<>>
        /\ Head(Mapped(HeadOf, Answered)) = HeadOf[Head(Answered)]
        /\ Mapped(HeadOf, Tail(Answered)) = Tail(Mapped(HeadOf, Answered))
    <3> HIDE DEF h
    <3>1. Answered # <<>> /\ Answered \in Seq(Element)
      BY <1>5, <1>9
    <3>2. Ends(HeadOf, Element, Entry)
      BY <1>9
    <3>3. Mapped(HeadOf, Answered) # <<>>
      BY <3>1, <3>2, MappedTail
    <3>4. Head(Mapped(HeadOf, Answered)) = HeadOf[Head(Answered)]
      BY <3>1, <3>2, MappedTail
    <3>5. Mapped(HeadOf, Tail(Answered)) = Tail(Mapped(HeadOf, Answered))
      BY <3>1, <3>2, MappedTail
    <3> QED
      BY <3>3, <3>4, <3>5
  <2> QED
    BY <1>5, <1>9, <2>1, <2>2, <2>3 DEF HeadOf
<1>11. Placed(Available, HeadsOf(Answered), Out)
  BY DEF BlkInv
<1>12. /\ h \in Out
       /\ Placed(Available, Tail(HeadsOf(Answered)), Out \ {h})
  <2>1. HeadsOf(Answered) \in Seq(Entry) /\ HeadsOf(Answered) # <<>>
    BY <1>9, <1>10
  <2> HIDE DEF h
  <2>2. /\ Head(HeadsOf(Answered)) \in Out
        /\ Placed(Available, Tail(HeadsOf(Answered)), Out \ {Head(HeadsOf(Answered))})
    BY <1>9, <1>11, <2>1, PlacedTake
  <2> QED
    BY <1>10, <2>2
<1> HIDE DEF h
<1>13. h \in Heads /\ h \notin owned /\ h \notin Abandoned
  BY <1>12, HeadsOut
<1>14. BlkTypeOK'
  BY <1>1, <1>2, <1>3, <1>6, <1>13, SuccKeeps, EmptySeq
  DEF BlkTypeOK, IrqTypeOK, irqVars, flagVars, handlerVars, deviceVars, Memory
<1>15. \A g \in Heads : g # h => mem'[g] = mem[g] /\ expected'[g] = expected[g]
                                 /\ status'[g] = status[g]
  BY <1>1, <1>2 DEF BlkTypeOK
<1>16. Abandoned' = Abandoned
  <2>1. \A g \in Heads : status'[g] = 1 <=> status[g] = 1
    BY <1>1, <1>2, <1>13, BlkAssumption DEF BlkTypeOK, Abandoned
  <2> QED
    BY <2>1 DEF Abandoned
<1>17. Out' = Out \ {h}
  BY <1>1, <1>16 DEF Out
<1>18. Placed(Available', HeadsOf(Answered'), Out')
  BY <1>7, <1>8, <1>10, <1>12, <1>17
<1>19. \A g \in Range(Available) : g # h /\ g \in Heads
  <2>1. Head(HeadsOf(Answered)) \in Range(HeadsOf(Answered))
    BY <1>9, <1>10, RangeTail
  <2> QED
    BY <1>10, <1>11, <2>1, HeadsOut DEF Placed
<1>20. Traced(Available', mem', expected', disk', shadow')
  <2>1. Traced(Available, mem, expected, disk, shadow)
    BY DEF BlkInv
  <2>2. Traced(Available, mem', expected', disk, shadow)
    BY <1>9, <1>15, <1>19, <2>1, TracedSame
  <2> QED
    BY <1>1, <1>8, <2>2 DEF deviceVars
<1>21. \A e \in Range(Answered') : Right(e)'
  <2>1. /\ Range(Answered) = {Head(Answered)} \cup Range(Tail(Answered))
        /\ Tail(Answered) \in Seq(Element)
    BY <1>5, <1>9, RangeTail, HeadTailProperties
  <2>2. ASSUME NEW e \in Range(Tail(Answered))
        PROVE  e.head # h /\ e.head \in Heads /\ Right(e)
    <3>1. e \in Range(Answered) /\ Right(e)
      BY <2>1 DEF BlkInv
    <3>2. HeadOf[e] \in Range(Mapped(HeadOf, Tail(Answered)))
      BY <2>1, MappedRange
    <3>3. HeadOf[e] = e.head
      BY <2>1, RangeOf DEF HeadOf
    <3>4. Mapped(HeadOf, Tail(Answered)) = Tail(HeadsOf(Answered))
      BY <1>10, <2>1, HeadsMapped
    <3>5. e.head \in Out \ {h}
      BY <1>12, <3>2, <3>3, <3>4 DEF Placed
    <3> QED
      BY <3>1, <3>5 DEF Out
  <2> QED
    BY <1>7, <1>15, <2>2 DEF Right
<1>22. \A g \in Heads \ owned' : Runnable(mem'[g])
  BY <1>1, <1>15 DEF BlkInv
<1>23. owned' \cap Abandoned' = {}
  BY <1>1, <1>13, <1>16 DEF BlkInv
<1>24. work' = "access" => avail_idx' = queue'.avail_idx
  BY <1>1, <1>6 DEF BlkInv, deviceVars
<1> QED
  BY <1>14, <1>18, <1>20, <1>21, <1>22, <1>23, <1>24 DEF BlkInv

\* The device serves the first of avail: what both outcomes have in common.
LEMMA ServeCommon ==
  ASSUME BlkInv, Serve
  PROVE  LET h == Head(Available) IN
         /\ h = At(queue.avail, last_avail_idx)
         /\ Available # <<>> /\ h \in Out /\ h \in Range(Available)
         /\ Runnable(mem[h])
         /\ last_avail_idx' \in Indices
         /\ disk' = Done(disk, mem[h]) /\ disk' \in Disks
         /\ mem'[h] = [mem[h] EXCEPT !.data = Transfer(mem[h]).data]
         /\ mem' \in [Heads -> BlkRequest \cup {Nothing}]
         /\ \A g \in Heads : g # h => mem'[g] = mem[g]
         /\ \A g \in Heads \ owned : Runnable(mem'[g])
         /\ expected[h] = Found(disk, mem[h])
         /\ Traced(Tail(Available), mem', expected, disk', shadow)
         /\ queue'.avail = queue.avail /\ queue'.avail_idx = queue.avail_idx
              => Available' = Tail(Available)
<1> DEFINE h == Head(Available)
<1>1. /\ work = "access" /\ last_avail_idx # avail_idx
      /\ last_avail_idx' = Succ(last_avail_idx)
  BY DEF Serve
<1>2. /\ BlkTypeOK /\ avail_idx = queue.avail_idx
      /\ Traced(Available, mem, expected, disk, shadow)
      /\ Placed(Available, HeadsOf(Answered), Out)
  BY <1>1 DEF BlkInv
<1>3. /\ IsRing(queue.avail, QUEUE_SIZE, Entry)
      /\ last_avail_idx \in 0..(IDX - 1) /\ queue.avail_idx \in 0..(IDX - 1)
      /\ last_avail_idx \in Indices
      /\ Available = Stretch(queue.avail, QUEUE_SIZE, IDX, last_avail_idx, queue.avail_idx)
      /\ Available \in Seq(Entry)
      /\ HeadsOf(Answered) \in Seq(Entry)
  BY Rings, MemoryParts, QueueSizes
<1>4. /\ Available # <<>>
      /\ h = At(queue.avail, last_avail_idx)
      /\ Tail(Available)
           = Stretch(queue.avail, QUEUE_SIZE, IDX, Step(IDX, last_avail_idx), queue.avail_idx)
  <2> HIDE DEF h
  <2>1. last_avail_idx # queue.avail_idx
    BY <1>1, <1>2
  <2> DEFINE s == Stretch(queue.avail, QUEUE_SIZE, IDX, last_avail_idx, queue.avail_idx)
  <2>2. s # <<>>
    BY <1>3, <2>1, QueueSizes, StretchTake
  <2>3. Head(s) = queue.avail[last_avail_idx % QUEUE_SIZE]
    BY <1>3, <2>1, QueueSizes, StretchTake
  <2>4. Tail(s)
          = Stretch(queue.avail, QUEUE_SIZE, IDX, Step(IDX, last_avail_idx), queue.avail_idx)
    BY <1>3, <2>1, QueueSizes, StretchTake
  <2>5. Available = s
    BY <1>3
  <2> HIDE DEF s
  <2> QED
    BY <2>2, <2>3, <2>4, <2>5 DEF h, At
<1>5. h \in Out /\ h \in Range(Available) /\ h \notin Range(Tail(Available))
      /\ Range(Tail(Available)) \subseteq Range(Available)
  BY <1>2, <1>3, <1>4, RangeTail DEF Placed
<1>6. /\ disk' = Transfer(mem[h]).disk
      /\ mem' = [mem EXCEPT ![h].data = Transfer(mem[h]).data]
  BY <1>4 DEF Serve
<1> HIDE DEF h
<1>7. h \in Heads /\ h \notin owned
  BY <1>5 DEF Out
<1>8. Runnable(mem[h]) /\ disk \in Disks
  BY <1>2, <1>7 DEF BlkInv, BlkTypeOK, Disks
<1>9. /\ Transfer(mem[h]).disk = Done(disk, mem[h])
      /\ Transfer(mem[h]).disk \in Disks
      /\ Runnable([mem[h] EXCEPT !.data = Transfer(mem[h]).data])
  BY <1>8, TransferDone DEF Disks
<1>10. mem \in [Heads -> BlkRequest \cup {Nothing}]
  BY <1>2 DEF BlkTypeOK
<1>11. mem' = [mem EXCEPT ![h] = [mem[h] EXCEPT !.data = Transfer(mem[h]).data]]
  BY <1>6
<1>12. PICK r : r = [mem[h] EXCEPT !.data = Transfer(mem[h]).data]
  OBVIOUS
<1>13. mem' = [mem EXCEPT ![h] = r] /\ Runnable(r) /\ r \in BlkRequest
  BY <1>9, <1>11, <1>12 DEF Runnable
<1>14. /\ mem' \in [Heads -> BlkRequest \cup {Nothing}]
       /\ mem'[h] = r
       /\ \A g \in Heads : g # h => mem'[g] = mem[g]
  BY <1>7, <1>10, <1>13
<1>15. \A g \in Heads \ owned : Runnable(mem'[g])
  BY <1>13, <1>14 DEF BlkInv
<1>16. /\ expected[h] = Found(disk, mem[h])
       /\ Traced(Tail(Available), mem', expected, Done(disk, mem[h]), shadow)
  <2>1. \A g \in Range(Tail(Available)) : mem'[g] = mem[g] /\ expected[g] = expected[g]
    BY <1>5, <1>14, HeadsOut
  <2> QED
    BY <1>2, <1>3, <1>4, <2>1, TracedTail DEF h
<1>17. ASSUME queue'.avail = queue.avail /\ queue'.avail_idx = queue.avail_idx
       PROVE  Available' = Tail(Available)
  BY <1>1, <1>4, <1>17, EntriesStretch, SuccStep DEF Available
<1>18. last_avail_idx' \in Indices
  BY <1>1, <1>3, SuccKeeps
<1>19. disk' = Done(disk, mem[h]) /\ disk' \in Disks
  BY <1>6, <1>9
<1>20. mem'[h] = [mem[h] EXCEPT !.data = Transfer(mem[h]).data]
  BY <1>12, <1>14
<1>21. Traced(Tail(Available), mem', expected, disk', shadow)
  BY <1>16, <1>19
<1> QED
  BY <1>4, <1>5, <1>8, <1>14, <1>15, <1>16, <1>17, <1>18, <1>19, <1>20, <1>21 DEF h

\* A request that went well goes from the front of avail to the end of used.
LEMMA AnswerHolds ==
  ASSUME BlkInv, Serve, Transfer(mem[Head(Available)]).ok, Answer(Head(Available))
  PROVE  BlkInv'
<1> DEFINE h == Head(Available)
<1>1. /\ h = At(queue.avail, last_avail_idx)
      /\ Available # <<>> /\ h \in Out /\ h \in Range(Available)
      /\ Runnable(mem[h])
      /\ last_avail_idx' \in Indices
      /\ disk' = Done(disk, mem[h]) /\ disk' \in Disks
      /\ mem'[h] = [mem[h] EXCEPT !.data = Transfer(mem[h]).data]
      /\ mem' \in [Heads -> BlkRequest \cup {Nothing}]
      /\ \A g \in Heads : g # h => mem'[g] = mem[g]
      /\ \A g \in Heads \ owned : Runnable(mem'[g])
      /\ expected[h] = Found(disk, mem[h])
      /\ Traced(Tail(Available), mem', expected, disk', shadow)
      /\ queue'.avail = queue.avail /\ queue'.avail_idx = queue.avail_idx
           => Available' = Tail(Available)
  BY ServeCommon
<1>2. /\ queue' = Return(queue, h, UsedLen(mem[h]))
      /\ status' = [status EXCEPT ![h] = 0]
      /\ SetInterrupt
  BY DEF Answer
<1>3. Transfer(mem[h]).ok
  OBVIOUS
<1> HIDE DEF h
<1>4. /\ UNCHANGED <<latched, handlerVars, queue_pfn, avail_idx, work, owned, seen, shadow, expected>>
      /\ work = "access"
  BY DEF Serve, driverVars, historyVars
<1>5. BlkTypeOK /\ UsedLen(mem[h]) \in Nat /\ h \in Heads /\ h \notin owned /\ h \notin Abandoned
  BY <1>1, UsedLenNat DEF BlkInv, Out
<1>7. PICK e \in Element : e = [head |-> h, len |-> UsedLen(mem[h])]
  BY <1>5 DEF Element
<1>6. /\ queue' \in Memory
      /\ queue'.used = Put(queue.used, queue.used_idx % QUEUE_SIZE, e)
      /\ queue'.used_idx = Step(IDX, queue.used_idx)
      /\ queue'.avail = queue.avail /\ queue'.avail_idx = queue.avail_idx
  BY <1>2, <1>5, <1>7, ReturnMemory, Rings, SuccStep
<1>8. Available' = Tail(Available)
  BY <1>1, <1>6
<1>9. /\ Available \in Seq(Entry)
      /\ Answered \in Seq(Element)
      /\ HeadsOf(Answered) = Mapped(HeadOf, Answered)
      /\ HeadsOf(Answered) \in Seq(Entry)
      /\ Ends(HeadOf, Element, Entry)
      /\ Placed(Available, HeadsOf(Answered), Out)
  BY Rings DEF Ends, HeadOf, Element, Entry, BlkInv
<1>10. Answered' = Append(Answered, e)
  <2>1. Len(Answered) < QUEUE_SIZE
    <3>1. Len(Available) \in Nat \ {0}
      BY <1>1, <1>9, EmptySeq
    <3> QED
      BY <3>1, RingsFit, QueueSizes
  <2>2. /\ IsRing(queue.used, QUEUE_SIZE, Element)
        /\ seen \in 0..(IDX - 1) /\ queue.used_idx \in 0..(IDX - 1)
        /\ Answered = Stretch(queue.used, QUEUE_SIZE, IDX, seen, queue.used_idx)
    BY Rings, MemoryParts, QueueSizes
  <2>3. Stretch(Put(queue.used, queue.used_idx % QUEUE_SIZE, e), QUEUE_SIZE, IDX,
                seen, Step(IDX, queue.used_idx))
          = Append(Stretch(queue.used, QUEUE_SIZE, IDX, seen, queue.used_idx), e)
    BY <1>7, <2>1, <2>2, QueueSizes, StretchPut
  <2>4. Answered' = Stretch(queue'.used, QUEUE_SIZE, IDX, seen', queue'.used_idx)
    BY EntriesStretch DEF Answered
  <2> QED
    BY <1>4, <1>6, <2>2, <2>3, <2>4
<1>11. HeadsOf(Answered') = Append(HeadsOf(Answered), h)
  <2>1. Append(Answered, e) \in Seq(Element)
    BY <1>7, <1>9, AppendProperties
  <2>2. Mapped(HeadOf, Append(Answered, e)) = Append(Mapped(HeadOf, Answered), HeadOf[e])
    <3>1. Answered \in Seq(Element) /\ e \in Element
      BY <1>7, <1>9
    <3>2. Ends(HeadOf, Element, Entry)
      BY <1>9
    <3> QED
      BY <3>1, <3>2, MappedAppend
  <2>3. HeadOf[e] = h
    BY <1>7 DEF HeadOf
  <2> QED
    BY <1>9, <1>10, <2>1, <2>2, <2>3, HeadsMapped
<1>12. Abandoned' = Abandoned /\ Out' = Out
  <2>1. \A g \in Heads : status'[g] = 1 <=> status[g] = 1
    BY <1>2, <1>5 DEF BlkTypeOK, Abandoned
  <2>2. Abandoned' = Abandoned
    BY <2>1 DEF Abandoned
  <2> QED
    BY <1>4, <2>2 DEF Out
<1>13. Placed(Available', HeadsOf(Answered'), Out')
  BY <1>1, <1>8, <1>9, <1>11, <1>12, PlacedMove DEF h
<1>14. BlkTypeOK'
  BY <1>1, <1>2, <1>4, <1>5, <1>6
  DEF BlkTypeOK, IrqTypeOK, SetInterrupt, handlerVars, Memory, Disks
<1>15. Traced(Available', mem', expected', disk', shadow')
  BY <1>1, <1>4, <1>8
<1>16. \A x \in Range(Answered') : Right(x)'
  <2>1. Range(Answered') = Range(Answered) \cup {e}
    BY <1>7, <1>9, <1>10, RangeAppend
  <2>2. \A g \in Heads : g # h => status'[g] = status[g]
    BY <1>2, <1>5 DEF BlkTypeOK
  <2>3. ASSUME NEW x \in Range(Answered)
        PROVE  Right(x)'
    <3>1. x.head # h /\ x.head \in Heads /\ Right(x)
      BY <1>1, HeadsOut DEF BlkInv
    <3> QED
      BY <1>1, <1>4, <2>2, <3>1 DEF Right
  <2>4. Right(e)'
    <3>1. status'[h] = 0
      BY <1>2, <1>5 DEF BlkTypeOK
    <3>2. UsedLen(mem'[h]) = UsedLen(mem[h]) /\ mem'[h].type = mem[h].type
      BY <1>1, <1>5, TransferDone DEF BlkTypeOK
    <3>3. mem[h].type = "in" => mem'[h].data = Found(disk, mem[h])
      BY <1>1, <1>3, <1>5, TransferDone DEF BlkTypeOK
    <3> QED
      BY <1>1, <1>4, <1>7, <3>1, <3>2, <3>3 DEF Right
  <2> QED
    BY <2>1, <2>3, <2>4
<1>17. \A g \in Heads \ owned' : Runnable(mem'[g])
  BY <1>1, <1>4
<1>18. owned' \cap Abandoned' = {} /\ avail_idx' = queue'.avail_idx
  BY <1>4, <1>6, <1>12 DEF BlkInv
<1> QED
  BY <1>13, <1>14, <1>15, <1>16, <1>17, <1>18 DEF BlkInv

\* One that did not leaves avail and goes nowhere.
LEMMA AbandonHolds ==
  ASSUME BlkInv, Serve, Abandon(Head(Available))
  PROVE  BlkInv'
<1> DEFINE h == Head(Available)
<1>1. /\ h = At(queue.avail, last_avail_idx)
      /\ Available # <<>> /\ h \in Out /\ h \in Range(Available)
      /\ last_avail_idx' \in Indices
      /\ disk' \in Disks
      /\ mem' \in [Heads -> BlkRequest \cup {Nothing}]
      /\ \A g \in Heads : g # h => mem'[g] = mem[g]
      /\ \A g \in Heads \ owned : Runnable(mem'[g])
      /\ Traced(Tail(Available), mem', expected, disk', shadow)
      /\ queue'.avail = queue.avail /\ queue'.avail_idx = queue.avail_idx
           => Available' = Tail(Available)
  BY ServeCommon
<1>2. status' = [status EXCEPT ![h] = 1] /\ UNCHANGED <<queue, flagVars>>
  BY DEF Abandon
<1> HIDE DEF h
<1>4. UNCHANGED <<latched, handlerVars, queue_pfn, avail_idx, work, owned, seen, shadow, expected>>
  BY DEF Serve, driverVars, historyVars
<1>5. BlkTypeOK /\ h \in Heads /\ h \notin owned /\ h \notin Abandoned
  BY <1>1 DEF BlkInv, Out
<1>6. Available' = Tail(Available) /\ Answered' = Answered
  BY <1>1, <1>2, <1>4 DEF Answered
<1>7. Abandoned' = Abandoned \cup {h} /\ Out' = Out \ {h}
  <2>1. \A g \in Heads : status'[g] = 1 <=> status[g] = 1 \/ g = h
    BY <1>2, <1>5 DEF BlkTypeOK
  <2>2. Abandoned' = Abandoned \cup {h}
    BY <1>5, <2>1 DEF Abandoned
  <2> QED
    BY <1>4, <2>2 DEF Out
<1>8. Placed(Available', HeadsOf(Answered'), Out')
  <2>1. /\ Available \in Seq(Entry)
        /\ HeadsOf(Answered) \in Seq(Entry)
        /\ Placed(Available, HeadsOf(Answered), Out)
    BY Rings DEF BlkInv
  <2> QED
    BY <1>1, <1>6, <1>7, <2>1, PlacedLose DEF h
<1>9. BlkTypeOK'
  BY <1>1, <1>2, <1>4, <1>5
  DEF BlkTypeOK, IrqTypeOK, flagVars, handlerVars, Disks
<1>10. Traced(Available', mem', expected', disk', shadow')
  BY <1>1, <1>4, <1>6
<1>11. \A x \in Range(Answered') : Right(x)'
  <2>1. \A g \in Heads : g # h => status'[g] = status[g]
    BY <1>2, <1>5 DEF BlkTypeOK
  <2>2. ASSUME NEW x \in Range(Answered)
        PROVE  Right(x)'
    <3>1. x.head # h /\ x.head \in Heads /\ Right(x)
      BY <1>1, HeadsOut DEF BlkInv
    <3> QED
      BY <1>1, <1>4, <2>1, <3>1 DEF Right
  <2> QED
    BY <1>6, <2>2
<1>12. \A g \in Heads \ owned' : Runnable(mem'[g])
  BY <1>1, <1>4
<1>13. owned' \cap Abandoned' = {} /\ (work' = "access" => avail_idx' = queue'.avail_idx)
  BY <1>2, <1>4, <1>5, <1>7 DEF BlkInv
<1> QED
  BY <1>8, <1>9, <1>10, <1>11, <1>12, <1>13 DEF BlkInv

LEMMA ServeHolds ==
  ASSUME BlkInv, Serve
  PROVE  BlkInv'
<1>1. Head(Available) = At(queue.avail, last_avail_idx)
  BY ServeCommon
<1>2. \/ Transfer(mem[Head(Available)]).ok /\ Answer(Head(Available))
      \/ Abandon(Head(Available))
  BY <1>1 DEF Serve
<1> QED
  BY <1>2, AnswerHolds, AbandonHolds

LEMMA NextHolds == BlkInv /\ [BlkNext]_vars => BlkInv'
BY QuietSteps, SubmitHolds, ReapHolds, ServeHolds DEF BlkNext

LEMMA Invariant == BlkSpec => []BlkInv
BY InitHolds, NextHolds, PTL DEF BlkSpec

-----------------------------------------------------------------------------

\* Rings, requests, status bytes and disk keep their types; what a request
\* writes is contents, in whatever order requests overlap.
THEOREM BlkTypeCorrect == BlkSpec => []BlkTypeOK
<1>1. BlkInv => BlkTypeOK
  BY DEF BlkInv
<1> QED
  BY <1>1, Invariant, PTL

\* Every chain is with the driver, in avail, in used, or was abandoned by
\* virtio_disk_access after a failed transfer, and nowhere twice.
THEOREM BlkConserves == BlkSpec => []ChainsConserved
<1>1. BlkInv => ChainsConserved
  <2> SUFFICES ASSUME BlkInv PROVE ChainsConserved
    OBVIOUS
  <2>1. /\ Available \in Seq(Entry)
        /\ HeadsOf(Answered) \in Seq(Entry)
        /\ Placed(Available, HeadsOf(Answered), Out)
        /\ owned \cap Abandoned = {}
    BY Rings DEF BlkInv
  <2>2. /\ Range(Available \o HeadsOf(Answered)) = Out
        /\ IsInjective(Available \o HeadsOf(Answered))
    BY <2>1, PlacedConcat
  <2> QED
    BY <2>1, <2>2 DEF ChainsConserved, Out
<1> QED
  BY <1>1, Invariant, PTL

\* An answer says that the request was served in full, and a read has found
\* what the requests offered before it left on the disk.
THEOREM BlkAnswersRight == BlkSpec => []AnswersRight
<1>1. BlkInv => AnswersRight
  BY DEF BlkInv, AnswersRight, Right, Range
<1> QED
  BY <1>1, Invariant, PTL

-----------------------------------------------------------------------------
(* The announcements.  The invariant says it of the driver's own test, the *)
(* used index it has read up to.                                           *)

\* Memory of a queue, as far as the signals depend on it.
Shape(q) ==
  /\ DOMAIN q = {"avail", "avail_idx", "used", "used_idx"}
  /\ q.used_idx \in Indices

Unread == seen # queue.used_idx

SignalInv ==
  /\ IrqTypeOK
  /\ seen \in Indices
  /\ Shape(queue)
  /\ Unread => Announced

\* Neither side of the queue touches the other's half.
LEMMA OfferKeeps ==
  ASSUME NEW q, NEW h, Shape(q)
  PROVE  Shape(Offer(q, h)) /\ Offer(q, h).used_idx = q.used_idx
BY DEF Shape, Offer

LEMMA ReturnKeeps ==
  ASSUME NEW q, NEW h, NEW n, Shape(q)
  PROVE  Shape(Return(q, h, n))
<1>1. Succ(q.used_idx) \in Indices
  BY SuccKeeps DEF Shape
<1> HIDE DEF Succ
<1> QED
  BY <1>1 DEF Shape, Return

LEMMA BlkInitHolds == BlkInit => SignalInv
<1> SUFFICES ASSUME BlkInit PROVE SignalInv
  OBVIOUS
<1>1. 0 \in Indices
  BY QueueAssumption DEF Indices
<1>2. IrqTypeOK
  BY DEF BlkInit, IrqInit, IrqTypeOK, GuestPlaces
<1>3. Shape(queue) /\ queue.used_idx = 0
  BY <1>1 DEF BlkInit, Zeroed, Shape
<1> QED
  BY <1>1, <1>2, <1>3 DEF BlkInit, SignalInv, Unread

LEMMA BlkStepHolds ==
  ASSUME SignalInv, [BlkNext]_vars
  PROVE  SignalInv'
<1> USE DEF SignalInv
<1>1. CASE UNCHANGED <<irqVars, seen, queue>>
  BY <1>1 DEF irqVars, flagVars, handlerVars, IrqTypeOK, Unread, Announced, Shape
<1>2. CASE Notify \/ ServeEnd \/ UNCHANGED vars
  <2>1. UNCHANGED <<irqVars, seen, queue>>
    BY <1>2 DEF Notify, ServeEnd, vars, memVars, driverVars
  <2> QED
    BY <1>1, <2>1
<1>3. CASE Serve
  <2> DEFINE head == At(queue.avail, last_avail_idx)
  <2>1. UNCHANGED <<latched, handlerVars, seen>> /\ (Answer(head) \/ Abandon(head))
    BY <1>3 DEF Serve, driverVars
  <2> HIDE DEF head
  <2>2. CASE Answer(head)
    <3>1. Shape(queue')
      BY <2>2, ReturnKeeps DEF Answer
    <3>2. interrupt_status' /\ interrupting' /\ IrqTypeOK'
      BY <2>1, <2>2 DEF Answer, SetInterrupt, IrqTypeOK, handlerVars
    <3> QED
      BY <2>1, <3>1, <3>2 DEF Announced, Shape
  <2>3. CASE Abandon(head)
    BY <1>1, <2>1, <2>3 DEF Abandon, irqVars
  <2> QED
    BY <2>1, <2>2, <2>3
<1>4. CASE Poll
  <2>1. IrqTypeOK' /\ (Announced => Announced') /\ UNCHANGED <<seen, queue>>
    BY <1>4, LatchKeeps DEF Poll, handlerVars, driverVars, memVars
  <2> QED
    BY <2>1 DEF Unread, Shape
<1>5. CASE SetUp
  <2>1. IrqTypeOK' /\ (Announced => Announced') /\ UNCHANGED <<seen, queue>>
    BY <1>5 DEF SetUp, driverVars, memVars, IrqTypeOK, GuestPlaces, Announced, flagVars
  <2> QED
    BY <2>1 DEF Unread, Shape
<1>6. CASE Reap
  <2>1. guest' = "reap" /\ IrqTypeOK'
    BY <1>6 DEF Reap, irqVars, flagVars, handlerVars, IrqTypeOK
  <2>2. seen' \in Indices
    BY <1>6, SuccKeeps DEF Reap
  <2>3. Shape(queue')
    BY <1>6 DEF Reap, Shape
  <2> QED
    BY <2>1, <2>2, <2>3 DEF Announced, Shape
<1>7. CASE ReapEnd
  <2>1. ~Unread' /\ UNCHANGED <<seen, queue>>
    BY <1>7 DEF ReapEnd, driverVars, memVars, Unread
  <2>2. IrqTypeOK'
    BY <1>7 DEF ReapEnd, flagVars, IrqTypeOK, GuestPlaces
  <2> QED
    BY <2>1, <2>2 DEF Shape
<1>8. CASE HandleIrq
  <2>1. IrqTypeOK' /\ (Announced => Announced') /\ UNCHANGED <<seen, queue>>
    BY <1>8, HandleKeeps DEF HandleIrq, driverVars, memVars
  <2> QED
    BY <2>1 DEF Unread, Shape
<1>9. ASSUME NEW h \in Heads, NEW r \in Requests, Submit(h, r)
      PROVE  SignalInv'
  <2>1. queue' = Offer(queue, h) /\ UNCHANGED <<irqVars, seen>>
    BY <1>9 DEF Submit
  <2>2. Shape(queue') /\ queue'.used_idx = queue.used_idx
    BY <2>1, OfferKeeps
  <2> QED
    BY <2>1, <2>2 DEF irqVars, flagVars, handlerVars, IrqTypeOK, Unread, Announced, Shape
<1> QED
  BY <1>2, <1>3, <1>4, <1>5, <1>6, <1>7, <1>8, <1>9 DEF BlkNext

\* Whenever the used ring has what the driver has not read, a signal is on its
\* way to it.
THEOREM BlkAnnounces == BlkSpec => []AnswersAnnounced
<1>1. SignalInv => AnswersAnnounced
  <2> SUFFICES ASSUME SignalInv, ~Unread PROVE Answered = <<>>
    BY DEF SignalInv, AnswersAnnounced
  <2>1. (queue.used_idx - seen) % IDX = 0
    BY QueueAssumption DEF SignalInv, Unread, Indices
  <2> QED
    BY <2>1 DEF Answered, Entries
<1>2. BlkInit => SignalInv
  BY BlkInitHolds
<1>3. SignalInv /\ [BlkNext]_vars => SignalInv'
  BY BlkStepHolds
<1> QED
  BY <1>1, <1>2, <1>3, PTL DEF BlkSpec
=============================================================================
