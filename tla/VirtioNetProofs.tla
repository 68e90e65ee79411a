--------------------------- MODULE VirtioNetProofs ---------------------------
(***************************************************************************)
(* Proofs about VirtioNet, for rings, chains, packets and frames of any    *)
(* size: every buffer is in one place, the device keeps NetPromise, and no *)
(* buffer is returned without a signal that the driver gets to see.        *)
(***************************************************************************)
EXTENDS VirtioNet, DataLemmas

-----------------------------------------------------------------------------
(* The interrupt.                                                          *)

\* The handler, and the poll, hand the signal on.
LEMMA HandleKeeps ==
  ASSUME IrqTypeOK, Handle
  PROVE  IrqTypeOK' /\ (Announced => Announced')
<1>1. CASE TakeIrq
  BY <1>1 DEF TakeIrq, IrqTypeOK, GuestPlaces, Announced, flagVars
<1>2. CASE ReadIsr
  BY <1>2 DEF ReadIsr, IrqTypeOK, GuestPlaces, Announced, flagVars
<1>3. CASE AckIsr
  BY <1>3 DEF AckIsr, Acknowledge, IrqTypeOK, GuestPlaces, Announced
<1> QED
  BY <1>1, <1>2, <1>3 DEF Handle

LEMMA LatchKeeps ==
  ASSUME IrqTypeOK, Latch, UNCHANGED <<interrupt_status, handlerVars>>
  PROVE  IrqTypeOK' /\ (Announced => Announced')
BY DEF Latch, IrqTypeOK, Announced, handlerVars

-----------------------------------------------------------------------------
(* A queue: what its rings hold, and what a head offered, returned and     *)
(* read does to that.                                                      *)

Entry(H) == H \cup {Nothing}
Element(H) == [head : H \cup {Nothing}, len : Nat]
Memory(H) == QueueMemory(H, Nothing, Nat)

Offered(m, last) == Entries(m.avail, last, m.avail_idx)
Unseen(m, s) == Entries(m.used, s, m.used_idx)

\* Both rings together are no longer than one.
Fits(m, last, s) == Len(Offered(m, last)) + Len(Unseen(m, s)) <= QUEUE_SIZE

LEMMA QueueSizes ==
  /\ Sizes(QUEUE_SIZE, IDX) /\ Indices = 0..(IDX - 1)
  /\ QUEUE_SIZE \in Nat \ {0} /\ IDX \in Nat \ {0} /\ 0 \in Indices
BY QueueAssumption DEF Sizes, Indices

LEMMA SuccStep == \A i : Succ(i) = Step(IDX, i)
BY DEF Succ, Step

LEMMA SuccKeeps == ASSUME NEW i \in Indices PROVE Succ(i) \in Indices
<1>1. Step(IDX, i) \in 0..(IDX - 1)
  BY QueueSizes, StepOf
<1> QED
  BY <1>1, QueueSizes, SuccStep

LEMMA SlotOf == ASSUME NEW i \in Indices PROVE i % QUEUE_SIZE \in RingSlots
<1>1. i \in Int
  BY QueueSizes
<1> QED
  BY <1>1, QueueSizes, DivMod DEF RingSlots

LEMMA EntriesStretch ==
  \A ring, from, to : Entries(ring, from, to) = Stretch(ring, QUEUE_SIZE, IDX, from, to)
BY DEF Entries, At, Stretch, Window, Distance

LEMMA MemoryParts ==
  ASSUME NEW H, NEW m \in Memory(H)
  PROVE  /\ IsRing(m.avail, QUEUE_SIZE, Entry(H))
         /\ IsRing(m.used, QUEUE_SIZE, Element(H))
         /\ m.avail_idx \in Indices /\ m.used_idx \in Indices
         /\ m.avail_idx \in 0..(IDX - 1) /\ m.used_idx \in 0..(IDX - 1)
BY QueueSizes DEF Memory, QueueMemory, IsRing, RingSlots, Element, Entry

LEMMA HeadsMapped ==
  ASSUME NEW H, NEW s \in Seq(Element(H)), NEW f, \A e \in Element(H) : f[e] = e.head
  PROVE  HeadsOf(s) = Mapped(f, s)
<1>1. \A k \in DOMAIN s : s[k] \in Element(H)
  BY LenProperties
<1> QED
  BY <1>1 DEF HeadsOf, Mapped

\* The heads of used elements are a sequence of their own.
LEMMA HeadsFacts ==
  ASSUME NEW H, NEW s \in Seq(Element(H))
  PROVE  /\ HeadsOf(s) \in Seq(Entry(H))
         /\ Len(HeadsOf(s)) = Len(s)
         /\ \A e \in Element(H) : HeadsOf(Append(s, e)) = Append(HeadsOf(s), e.head)
         /\ s # <<>> => /\ HeadsOf(s) # <<>>
                        /\ Head(HeadsOf(s)) = Head(s).head
                        /\ HeadsOf(Tail(s)) = Tail(HeadsOf(s))
         /\ \A e \in Range(s) : e.head \in Range(HeadsOf(s))
<1>1. PICK f : f = [e \in Element(H) |-> e.head]
  OBVIOUS
<1>2. \A e \in Element(H) : f[e] = e.head
  BY <1>1
<1>3. PICK V : V = Element(H)
  OBVIOUS
<1>4. PICK W : W = Entry(H)
  OBVIOUS
<1>5. Ends(f, V, W)
  BY <1>2, <1>3, <1>4 DEF Ends, Element, Entry
<1>6. s \in Seq(V)
  BY <1>3
<1>7. \A u \in Seq(V) : HeadsOf(u) = Mapped(f, u)
  BY <1>2, <1>3, HeadsMapped
<1>8. Mapped(f, s) \in Seq(W)
  BY <1>5, <1>6, MappedType
<1>9. Len(Mapped(f, s)) = Len(s)
  BY <1>6, LenProperties DEF Mapped
<1>10. ASSUME NEW e \in V
       PROVE  HeadsOf(Append(s, e)) = Append(HeadsOf(s), e.head)
  <2>1. Append(s, e) \in Seq(V)
    BY <1>6, AppendProperties
  <2>2. Mapped(f, Append(s, e)) = Append(Mapped(f, s), f[e])
    BY <1>6, MappedAppend
  <2> QED
    BY <1>2, <1>3, <1>6, <1>7, <2>1, <2>2
<1>11. ASSUME s # <<>>
       PROVE  /\ HeadsOf(s) # <<>>
              /\ Head(HeadsOf(s)) = Head(s).head
              /\ HeadsOf(Tail(s)) = Tail(HeadsOf(s))
  <2>1. Head(s) \in V /\ Tail(s) \in Seq(V)
    BY <1>6, <1>11, HeadTailProperties
  <2>2. Mapped(f, s) # <<>>
    BY <1>6, <1>11, MappedTail
  <2>3. Head(Mapped(f, s)) = f[Head(s)]
    BY <1>6, <1>11, MappedTail
  <2>4. Mapped(f, Tail(s)) = Tail(Mapped(f, s))
    BY <1>6, <1>11, MappedTail
  <2> QED
    BY <1>2, <1>3, <1>6, <1>7, <2>1, <2>2, <2>3, <2>4
<1>12. ASSUME NEW e \in Range(s)
       PROVE  e.head \in Range(HeadsOf(s))
  <2>1. e \in V
    BY <1>6, RangeOf
  <2>2. f[e] \in Range(Mapped(f, s))
    BY <1>6, MappedRange
  <2> QED
    BY <1>2, <1>3, <1>6, <1>7, <2>1, <2>2
<1> QED
  BY <1>3, <1>4, <1>6, <1>7, <1>8, <1>9, <1>10, <1>11, <1>12

LEMMA LengthOf ==
  ASSUME NEW ring, NEW from \in 0..(IDX - 1), NEW to \in 0..(IDX - 1)
  PROVE  Len(Stretch(ring, QUEUE_SIZE, IDX, from, to)) = Distance(IDX, from, to)
<1>1. PICK n \in Nat : n = Distance(IDX, from, to)
  BY QueueSizes, DistanceOf
<1>2. Len(Window(ring, QUEUE_SIZE, from, n)) = n
  BY DEF Window
<1> QED
  BY <1>1, <1>2 DEF Stretch

\* What the rings hold, as stretches.
LEMMA QueueHolds ==
  ASSUME NEW H, NEW m \in Memory(H), NEW last \in Indices, NEW s \in Indices
  PROVE  /\ Offered(m, last) = Stretch(m.avail, QUEUE_SIZE, IDX, last, m.avail_idx)
         /\ Unseen(m, s) = Stretch(m.used, QUEUE_SIZE, IDX, s, m.used_idx)
         /\ Offered(m, last) \in Seq(Entry(H))
         /\ Unseen(m, s) \in Seq(Element(H))
         /\ Len(Offered(m, last)) = Distance(IDX, last, m.avail_idx)
         /\ Len(Unseen(m, s)) = Distance(IDX, s, m.used_idx)
         /\ Len(Offered(m, last)) \in Nat /\ Len(Unseen(m, s)) \in Nat
<1>1. Offered(m, last) = Stretch(m.avail, QUEUE_SIZE, IDX, last, m.avail_idx)
  BY EntriesStretch DEF Offered
<1>2. Unseen(m, s) = Stretch(m.used, QUEUE_SIZE, IDX, s, m.used_idx)
  BY EntriesStretch DEF Unseen
<1>3. last \in 0..(IDX - 1) /\ s \in 0..(IDX - 1) /\ Sizes(QUEUE_SIZE, IDX)
  BY QueueSizes
<1>4. PICK a : a = m.avail
  OBVIOUS
<1>5. PICK u : u = m.used
  OBVIOUS
<1>6. PICK ai \in 0..(IDX - 1) : ai = m.avail_idx
  BY MemoryParts
<1>7. PICK ui \in 0..(IDX - 1) : ui = m.used_idx
  BY MemoryParts
<1>8. PICK V : V = Entry(H)
  OBVIOUS
<1>9. PICK W : W = Element(H)
  OBVIOUS
<1>10. IsRing(a, QUEUE_SIZE, V) /\ IsRing(u, QUEUE_SIZE, W)
  BY <1>4, <1>5, <1>8, <1>9, MemoryParts
<1>11. Stretch(a, QUEUE_SIZE, IDX, last, ai) \in Seq(V)
  BY <1>3, <1>10, StretchType
<1>12. Stretch(u, QUEUE_SIZE, IDX, s, ui) \in Seq(W)
  BY <1>3, <1>10, StretchType
<1>13. Len(Stretch(a, QUEUE_SIZE, IDX, last, ai)) = Distance(IDX, last, ai)
  BY <1>3, LengthOf
<1>14. Len(Stretch(u, QUEUE_SIZE, IDX, s, ui)) = Distance(IDX, s, ui)
  BY <1>3, LengthOf
<1>15. /\ Len(Stretch(a, QUEUE_SIZE, IDX, last, ai)) \in Nat
       /\ Len(Stretch(u, QUEUE_SIZE, IDX, s, ui)) \in Nat
  BY <1>11, <1>12, LenProperties
<1> QED
  BY <1>1, <1>2, <1>4, <1>5, <1>6, <1>7, <1>8, <1>9, <1>11, <1>12, <1>13, <1>14, <1>15

\* The driver offers a head: it is the last that the device will take.
LEMMA OfferFlow ==
  ASSUME NEW H, NEW m \in Memory(H), NEW last \in Indices, NEW s \in Indices, NEW h \in H,
         Len(Offered(m, last)) < QUEUE_SIZE
  PROVE  /\ Offer(m, h) \in Memory(H)
         /\ Offer(m, h).used_idx = m.used_idx
         /\ Offered(Offer(m, h), last) = Append(Offered(m, last), h)
         /\ Unseen(Offer(m, h), s) = Unseen(m, s)
<1> DEFINE o == Offer(m, h)
<1>1. /\ o \in Memory(H)
      /\ o.avail = Put(m.avail, m.avail_idx % QUEUE_SIZE, h)
      /\ o.avail_idx = Succ(m.avail_idx)
      /\ o.used = m.used /\ o.used_idx = m.used_idx
  <2>1. Succ(m.avail_idx) \in Indices /\ m.avail_idx % QUEUE_SIZE \in RingSlots
    BY MemoryParts, SuccKeeps, SlotOf
  <2> QED
    BY <2>1 DEF Memory, QueueMemory, Offer, Put
<1> HIDE DEF o
<1>2. PICK V : V = Entry(H)
  OBVIOUS
<1>3. PICK a : a = m.avail
  OBVIOUS
<1>4. PICK ai : ai = m.avail_idx
  OBVIOUS
<1>5. /\ IsRing(a, QUEUE_SIZE, V) /\ Sizes(QUEUE_SIZE, IDX)
      /\ last \in 0..(IDX - 1) /\ ai \in 0..(IDX - 1)
      /\ h \in V
  BY <1>2, <1>3, <1>4, MemoryParts, QueueSizes DEF Entry
<1>6. Stretch(Put(a, ai % QUEUE_SIZE, h), QUEUE_SIZE, IDX, last, Step(IDX, ai))
        = Append(Stretch(a, QUEUE_SIZE, IDX, last, ai), h)
  <2>1. Len(Stretch(a, QUEUE_SIZE, IDX, last, ai)) < QUEUE_SIZE
    BY <1>3, <1>4, QueueHolds
  <2> QED
    BY <1>5, <2>1, StretchPut
<1>7. Offered(o, last) = Append(Offered(m, last), h)
  <2>1. Offered(o, last) = Stretch(o.avail, QUEUE_SIZE, IDX, last, o.avail_idx)
    BY EntriesStretch DEF Offered
  <2>2. Offered(m, last) = Stretch(m.avail, QUEUE_SIZE, IDX, last, m.avail_idx)
    BY EntriesStretch DEF Offered
  <2> QED
    BY <1>1, <1>3, <1>4, <1>6, <2>1, <2>2, SuccStep
<1>8. Unseen(o, s) = Unseen(m, s)
  BY <1>1 DEF Unseen
<1> QED
  BY <1>1, <1>7, <1>8 DEF o

\* The head that the device takes is the first.
LEMMA FirstOffered ==
  ASSUME NEW H, NEW m \in Memory(H), NEW last \in Indices, last # m.avail_idx
  PROVE  Offered(m, last) # <<>> /\ At(m.avail, last) = Head(Offered(m, last))
<1>1. PICK V : V = Entry(H)
  OBVIOUS
<1>2. PICK a : a = m.avail
  OBVIOUS
<1>3. PICK ai : ai = m.avail_idx
  OBVIOUS
<1>4. /\ IsRing(a, QUEUE_SIZE, V) /\ Sizes(QUEUE_SIZE, IDX) /\ last # ai
      /\ last \in 0..(IDX - 1) /\ ai \in 0..(IDX - 1)
  BY <1>1, <1>2, <1>3, MemoryParts, QueueSizes
<1>5. Offered(m, last) = Stretch(a, QUEUE_SIZE, IDX, last, ai)
  BY <1>2, <1>3, EntriesStretch DEF Offered
<1>6. Stretch(a, QUEUE_SIZE, IDX, last, ai) # <<>>
  BY <1>4, StretchTake
<1>7. Head(Stretch(a, QUEUE_SIZE, IDX, last, ai)) = a[last % QUEUE_SIZE]
  BY <1>4, StretchTake
<1> QED
  BY <1>2, <1>5, <1>6, <1>7 DEF At

\* The device returns the first head of avail: it moves to the end of used.
LEMMA ReturnFlow ==
  ASSUME NEW H, NEW m \in Memory(H), NEW last \in Indices, NEW s \in Indices,
         Fits(m, last, s), last # m.avail_idx, NEW n \in Nat, At(m.avail, last) \in H
  PROVE  LET h == At(m.avail, last)
             o == Return(m, h, n)
         IN /\ Offered(m, last) # <<>> /\ h = Head(Offered(m, last))
            /\ o \in Memory(H)
            /\ o.avail_idx = m.avail_idx /\ o.used_idx = Succ(m.used_idx)
            /\ [head |-> h, len |-> n] \in Element(H)
            /\ Offered(o, Succ(last)) = Tail(Offered(m, last))
            /\ Unseen(o, s) = Append(Unseen(m, s), [head |-> h, len |-> n])
<1>1. PICK h \in H : h = At(m.avail, last)
  OBVIOUS
<1>2. PICK e \in Element(H) : e = [head |-> h, len |-> n]
  BY DEF Element
<1> DEFINE o == Return(m, h, n)
<1>3. /\ o \in Memory(H)
      /\ o.used = Put(m.used, m.used_idx % QUEUE_SIZE, e)
      /\ o.used_idx = Succ(m.used_idx)
      /\ o.avail = m.avail /\ o.avail_idx = m.avail_idx
  <2>1. Succ(m.used_idx) \in Indices /\ m.used_idx % QUEUE_SIZE \in RingSlots
    BY MemoryParts, SuccKeeps, SlotOf
  <2> QED
    BY <1>2, <2>1 DEF Memory, QueueMemory, Return, Put
<1> HIDE DEF o
<1>4. PICK V : V = Entry(H)
  OBVIOUS
<1>5. PICK a : a = m.avail
  OBVIOUS
<1>6. PICK ai : ai = m.avail_idx
  OBVIOUS
<1>7. PICK W : W = Element(H)
  OBVIOUS
<1>8. PICK u : u = m.used
  OBVIOUS
<1>9. PICK ui : ui = m.used_idx
  OBVIOUS
<1>10. /\ IsRing(a, QUEUE_SIZE, V) /\ Sizes(QUEUE_SIZE, IDX)
       /\ last \in 0..(IDX - 1) /\ ai \in 0..(IDX - 1)
  BY <1>4, <1>5, <1>6, MemoryParts, QueueSizes
<1>11. /\ IsRing(u, QUEUE_SIZE, W) /\ e \in W
       /\ s \in 0..(IDX - 1) /\ ui \in 0..(IDX - 1)
  BY <1>7, <1>8, <1>9, MemoryParts, QueueSizes
<1>12. /\ Offered(m, last) = Stretch(a, QUEUE_SIZE, IDX, last, ai)
       /\ Unseen(m, s) = Stretch(u, QUEUE_SIZE, IDX, s, ui)
       /\ Len(Offered(m, last)) \in Nat /\ Len(Unseen(m, s)) \in Nat
       /\ Offered(m, last) \in Seq(Entry(H))
  BY <1>5, <1>6, <1>8, <1>9, QueueHolds
<1>13. last # ai
  BY <1>6
<1>14. Stretch(a, QUEUE_SIZE, IDX, last, ai) # <<>>
  BY <1>10, <1>13, StretchTake
<1>15. Head(Stretch(a, QUEUE_SIZE, IDX, last, ai)) = a[last % QUEUE_SIZE]
  BY <1>10, <1>13, StretchTake
<1>16. Tail(Stretch(a, QUEUE_SIZE, IDX, last, ai))
         = Stretch(a, QUEUE_SIZE, IDX, Step(IDX, last), ai)
  BY <1>10, <1>13, StretchTake, SMTT(30)
<1>17. Stretch(Put(u, ui % QUEUE_SIZE, e), QUEUE_SIZE, IDX, s, Step(IDX, ui))
         = Append(Stretch(u, QUEUE_SIZE, IDX, s, ui), e)
  <2>1. Len(Offered(m, last)) # 0
    BY <1>12, <1>14, EmptySeq
  <2>2. Len(Stretch(u, QUEUE_SIZE, IDX, s, ui)) < QUEUE_SIZE
    BY <1>12, <2>1, QueueSizes DEF Fits
  <2> QED
    BY <1>10, <1>11, <2>2, StretchPut
<1>18. Offered(o, Succ(last)) = Tail(Offered(m, last))
  <2>1. Offered(o, Succ(last)) = Stretch(o.avail, QUEUE_SIZE, IDX, Succ(last), o.avail_idx)
    BY EntriesStretch DEF Offered
  <2> QED
    BY <1>3, <1>5, <1>6, <1>12, <1>16, <2>1, SuccStep
<1>19. Unseen(o, s) = Append(Unseen(m, s), e)
  <2>1. Unseen(o, s) = Stretch(o.used, QUEUE_SIZE, IDX, s, o.used_idx)
    BY EntriesStretch DEF Unseen
  <2> QED
    BY <1>3, <1>8, <1>9, <1>12, <1>17, <2>1, SuccStep
<1>20. Offered(m, last) # <<>> /\ h = Head(Offered(m, last))
  BY <1>1, <1>5, <1>12, <1>14, <1>15 DEF At
<1> QED
  BY <1>1, <1>2, <1>3, <1>18, <1>19, <1>20 DEF o

\* The driver reads the first element of used and clears its slots, which the
\* device is through with.
LEMMA ScrubFlow ==
  ASSUME NEW H, NEW m \in Memory(H), NEW s \in Indices, Fits(m, m.used_idx, s), s # m.used_idx
  PROVE  LET o == Scrub(m, s)
         IN /\ Unseen(m, s) # <<>> /\ At(m.used, s) = Head(Unseen(m, s))
            /\ o \in Memory(H)
            /\ o.avail_idx = m.avail_idx /\ o.used_idx = m.used_idx
            /\ Offered(o, m.used_idx) = Offered(m, m.used_idx)
            /\ Unseen(o, Succ(s)) = Tail(Unseen(m, s))
<1> DEFINE o == Scrub(m, s)
<1>1. PICK v : v = [head |-> Nothing, len |-> 0]
  OBVIOUS
<1>2. /\ o \in Memory(H)
      /\ o.used = Put(m.used, s % QUEUE_SIZE, v)
      /\ o.avail = Put(m.avail, s % QUEUE_SIZE, Nothing)
      /\ o.used_idx = m.used_idx /\ o.avail_idx = m.avail_idx
  <2>1. s % QUEUE_SIZE \in RingSlots /\ v \in Element(H) /\ Nothing \in Entry(H)
    BY <1>1, SlotOf DEF Element, Entry
  <2> QED
    BY <1>1, <2>1 DEF Memory, QueueMemory, Scrub, Put, Element, Entry
<1> HIDE DEF o
<1>3. PICK V : V = Entry(H)
  OBVIOUS
<1>4. PICK a : a = m.avail
  OBVIOUS
<1>5. PICK ai : ai = m.avail_idx
  OBVIOUS
<1>6. PICK W : W = Element(H)
  OBVIOUS
<1>7. PICK u : u = m.used
  OBVIOUS
<1>8. PICK ui \in Indices : ui = m.used_idx
  BY MemoryParts
<1>9. /\ IsRing(a, QUEUE_SIZE, V) /\ Sizes(QUEUE_SIZE, IDX)
      /\ ai \in 0..(IDX - 1)
  BY <1>3, <1>4, <1>5, MemoryParts, QueueSizes
<1>10. /\ IsRing(u, QUEUE_SIZE, W)
       /\ s \in 0..(IDX - 1) /\ ui \in 0..(IDX - 1)
  BY <1>6, <1>7, <1>8, MemoryParts, QueueSizes
<1>11. /\ Offered(m, ui) = Stretch(a, QUEUE_SIZE, IDX, ui, ai)
       /\ Unseen(m, s) = Stretch(u, QUEUE_SIZE, IDX, s, ui)
       /\ Len(Offered(m, ui)) = Distance(IDX, ui, ai)
       /\ Len(Unseen(m, s)) = Distance(IDX, s, ui)
       /\ Len(Offered(m, ui)) \in Nat /\ Len(Unseen(m, s)) \in Nat
  BY <1>4, <1>5, <1>7, <1>8, QueueHolds
<1>12. s # ui
  BY <1>8
<1>13. Distance(IDX, s, ui) + Distance(IDX, ui, ai) <= QUEUE_SIZE
  BY <1>8, <1>11, QueueSizes DEF Fits
<1>14. Len(Stretch(u, QUEUE_SIZE, IDX, s, ui)) <= QUEUE_SIZE
  BY <1>8, <1>11, QueueSizes DEF Fits
<1>15. Stretch(u, QUEUE_SIZE, IDX, s, ui) # <<>>
  BY <1>9, <1>10, <1>12, StretchTake
<1>16. Head(Stretch(u, QUEUE_SIZE, IDX, s, ui)) = u[s % QUEUE_SIZE]
  BY <1>9, <1>10, <1>12, StretchTake
<1>17. Stretch(Put(u, s % QUEUE_SIZE, v), QUEUE_SIZE, IDX, Step(IDX, s), ui)
         = Tail(Stretch(u, QUEUE_SIZE, IDX, s, ui))
  <2>1. Sizes(QUEUE_SIZE, IDX)
    BY <1>9
  <2> QED
    BY <1>10, <1>12, <1>14, <2>1, StretchClear
<1>18. Stretch(Put(a, s % QUEUE_SIZE, Nothing), QUEUE_SIZE, IDX, ui, ai)
         = Stretch(a, QUEUE_SIZE, IDX, ui, ai)
  BY <1>9, <1>10, <1>12, <1>13, StretchPast
<1>19. Offered(o, ui) = Offered(m, ui)
  <2>1. Offered(o, ui) = Stretch(o.avail, QUEUE_SIZE, IDX, ui, o.avail_idx)
    BY EntriesStretch DEF Offered
  <2> QED
    BY <1>2, <1>4, <1>5, <1>11, <1>18, <2>1
<1>20. Unseen(o, Succ(s)) = Tail(Unseen(m, s))
  <2>1. Unseen(o, Succ(s)) = Stretch(o.used, QUEUE_SIZE, IDX, Succ(s), o.used_idx)
    BY EntriesStretch DEF Unseen
  <2> QED
    BY <1>2, <1>7, <1>8, <1>11, <1>17, <2>1, SuccStep
<1> QED
  BY <1>2, <1>7, <1>8, <1>11, <1>15, <1>16, <1>19, <1>20 DEF o, At

LEMMA ZeroedFlow ==
  ASSUME NEW H
  PROVE  /\ Zeroed(Nothing) \in Memory(H)
         /\ Zeroed(Nothing).avail_idx = 0 /\ Zeroed(Nothing).used_idx = 0
         /\ Offered(Zeroed(Nothing), 0) = <<>>
         /\ Unseen(Zeroed(Nothing), 0) = <<>>
<1> DEFINE z == Zeroed(Nothing)
<1>1. z \in Memory(H) /\ z.avail_idx = 0 /\ z.used_idx = 0
  BY QueueSizes DEF Zeroed, Memory, QueueMemory
<1> HIDE DEF z
<1>2. Distance(IDX, 0, 0) = 0
  <2>1. 0 \in 0..(IDX - 1)
    BY QueueSizes
  <2> QED
    BY <2>1, QueueSizes, DistanceSteps
<1>3. Len(Offered(z, 0)) = 0 /\ Len(Unseen(z, 0)) = 0
  BY <1>1, <1>2, QueueSizes, QueueHolds
<1>4. Offered(z, 0) \in Seq(Entry(H)) /\ Unseen(z, 0) \in Seq(Element(H))
  BY <1>1, QueueSizes, QueueHolds
<1>5. Offered(z, 0) = <<>> /\ Unseen(z, 0) = <<>>
  BY <1>3, <1>4, EmptySeq
<1> QED
  BY <1>1, <1>5 DEF z

-----------------------------------------------------------------------------
(* The walk: however a chain is cut into descriptors, it transfers what    *)
(* there is room for behind the header.                                    *)

\* What the descriptors up to each of them hold.
LEMMA ContentTurns ==
  ASSUME NEW lens, WellFormed(lens)
  PROVE  \E total : /\ Content(lens) = total[Len(lens)] - VIRTIO_NET_HDR_SIZE
                    /\ total[0] = 0
                    /\ \A i \in 1..Len(lens) : total[i] = total[i - 1] + lens[i]
<1> DEFINE n == Len(lens)
           body(f) == [i \in 0..n |-> IF i = 0 THEN 0 ELSE f[i - 1] + lens[i]]
           total == CHOOSE f : f = body(f)
           step == [i \in 1..n |-> [b \in Int |-> b + lens[i]]]
<1>1. n \in Nat /\ \A i \in 1..n : lens[i] \in Nat
  BY LenProperties DEF WellFormed
<1>2. Content(lens) = total[n] - VIRTIO_NET_HDR_SIZE
  BY DEF Content
<1>3. \E f : f = body(f)
  <2>1. step \in [1..n -> [Int -> Int]]
    BY <1>1
  <2> HIDE DEF n
  <2>2. PICK g \in [0..n -> Int] : Follows(g, n, 0, step)
    <3> HIDE DEF step
    <3>1. PICK z \in Int : z = 0
      OBVIOUS
    <3> QED
      BY <1>1, <2>1, <3>1, Recursion
  <2>3. ASSUME NEW i \in 0..n
        PROVE  g[i] = IF i = 0 THEN 0 ELSE g[i - 1] + lens[i]
    <3>1. g[i] = IF i = 0 THEN 0 ELSE step[i][g[i - 1]]
      BY <2>2 DEF Follows
    <3>2. CASE i # 0
      <4>1. i \in 1..n /\ i - 1 \in 0..n
        BY <1>1, <3>2
      <4>2. g[i - 1] \in Int
        BY <2>2, <4>1
      <4> QED
        BY <3>1, <3>2, <4>1, <4>2
    <3> QED
      BY <3>1, <3>2
  <2>4. g = body(g)
    BY <2>2, <2>3
  <2> QED
    BY <2>4
<1>4. total = body(total)
  BY <1>3
<1> HIDE DEF total
<1>5. total[0] = 0 /\ \A i \in 1..n : total[i] = total[i - 1] + lens[i]
  <2>1. 0 \in 0..n /\ \A i \in 1..n : i \in 0..n /\ i # 0
    BY <1>1
  <2>2. \A i \in 0..n : total[i] = IF i = 0 THEN 0 ELSE total[i - 1] + lens[i]
    BY <1>4
  <2> QED
    BY <2>1, <2>2
<1> QED
  BY <1>2, <1>5

\* What the loop has transferred after each of them.
LEMMA WalkTurns ==
  ASSUME NEW lens, WellFormed(lens), NEW limit \in Nat
  PROVE  \E after : /\ Walked(lens, limit) = after[Len(lens)]
                    /\ after[0] = 0
                    /\ \A i \in 1..Len(lens) :
                         after[i] = after[i - 1] + Least(Data(lens, i), limit - after[i - 1])
<1> DEFINE n == Len(lens)
           body(f) == [i \in 0..n |-> IF i = 0 THEN 0
                                      ELSE f[i - 1] + Least(Data(lens, i), limit - f[i - 1])]
           after == CHOOSE f : f = body(f)
           step == [i \in 1..n |-> [b \in Int |-> b + Least(Data(lens, i), limit - b)]]
<1>1. n \in Nat /\ \A i \in 1..n : Data(lens, i) \in Int
  BY LenProperties DEF WellFormed, Data, VIRTIO_NET_HDR_SIZE
<1>2. Walked(lens, limit) = after[n]
  BY DEF Walked
<1>3. \E f : f = body(f)
  <2>1. step \in [1..n -> [Int -> Int]]
    BY <1>1 DEF Least
  <2> HIDE DEF n
  <2>2. PICK g \in [0..n -> Int] : Follows(g, n, 0, step)
    <3> HIDE DEF step
    <3>1. PICK z \in Int : z = 0
      OBVIOUS
    <3> QED
      BY <1>1, <2>1, <3>1, Recursion
  <2>3. ASSUME NEW i \in 0..n
        PROVE  g[i] = IF i = 0 THEN 0 ELSE g[i - 1] + Least(Data(lens, i), limit - g[i - 1])
    <3>1. g[i] = IF i = 0 THEN 0 ELSE step[i][g[i - 1]]
      BY <2>2 DEF Follows
    <3>2. CASE i # 0
      <4>1. i \in 1..n /\ i - 1 \in 0..n
        BY <1>1, <3>2
      <4>2. g[i - 1] \in Int
        BY <2>2, <4>1
      <4> QED
        BY <3>1, <3>2, <4>1, <4>2
    <3> QED
      BY <3>1, <3>2
  <2>4. g = body(g)
    BY <2>2, <2>3
  <2> QED
    BY <2>4
<1>4. after = body(after)
  BY <1>3
<1> HIDE DEF after
<1>5. /\ after[0] = 0
      /\ \A i \in 1..n : after[i] = after[i - 1] + Least(Data(lens, i), limit - after[i - 1])
  <2>1. 0 \in 0..n /\ \A i \in 1..n : i \in 0..n /\ i # 0
    BY <1>1
  <2>2. \A i \in 0..n :
          after[i] = IF i = 0 THEN 0
                     ELSE after[i - 1] + Least(Data(lens, i), limit - after[i - 1])
    BY <1>4
  <2> QED
    BY <2>1, <2>2
<1> QED
  BY <1>2, <1>5

LEMMA WalkedAll ==
  ASSUME NEW lens, WellFormed(lens), NEW limit \in Nat
  PROVE  Content(lens) \in Nat /\ Walked(lens, limit) = Least(limit, Content(lens))
<1> DEFINE n == Len(lens)
<1>1. PICK total : /\ Content(lens) = total[n] - VIRTIO_NET_HDR_SIZE
                   /\ total[0] = 0
                   /\ \A i \in 1..n : total[i] = total[i - 1] + lens[i]
  BY ContentTurns
<1>2. PICK after : /\ Walked(lens, limit) = after[n]
                   /\ after[0] = 0
                   /\ \A i \in 1..n :
                        after[i] = after[i - 1] + Least(Data(lens, i), limit - after[i - 1])
  BY WalkTurns
<1>3. n \in Nat /\ n >= 1 /\ (\A i \in 1..n : lens[i] \in Nat) /\ lens[1] >= 10
  BY LenProperties DEF WellFormed, VIRTIO_NET_HDR_SIZE
<1> HIDE DEF n
<1> DEFINE Through(i) == /\ total[i] \in Nat /\ total[i] - 10 \in Nat
                         /\ after[i] = Least(limit, total[i] - 10)
           S == {i \in Nat : i + 1 <= n => Through(i + 1)}
<1>4. 0 \in S
  <2>1. 1 \in 1..n /\ 1 - 1 = 0
    BY <1>3
  <2>2. total[1] = lens[1]
    <3>1. total[1] = total[0] + lens[1]
      BY <1>1, <2>1
    <3> QED
      BY <1>1, <1>3, <2>1, <3>1
  <2>3. after[1] = Least(lens[1] - 10, limit)
    <3>1. after[1] = after[0] + Least(Data(lens, 1), limit - after[0])
      BY <1>2, <2>1
    <3>2. Data(lens, 1) = lens[1] - 10
      BY DEF Data, VIRTIO_NET_HDR_SIZE
    <3> QED
      BY <1>2, <1>3, <2>1, <3>1, <3>2 DEF Least
  <2>4. Through(1)
    BY <1>3, <2>1, <2>2, <2>3 DEF Least
  <2> QED
    BY <2>4
<1>5. ASSUME NEW i \in Nat, i \in S
      PROVE  i + 1 \in S
  <2> SUFFICES ASSUME i + 2 <= n
               PROVE  Through(i + 2)
    OBVIOUS
  <2>1. /\ i + 2 \in 1..n /\ (i + 2) - 1 = i + 1 /\ i + 2 # 1
        /\ i + 1 <= n
    BY <1>3
  <2>2. Through(i + 1)
    BY <1>5, <2>1
  <2>3. PICK T \in Nat : T = total[i + 1] - 10
    BY <2>2
  <2>4. PICK l \in Nat : l = lens[i + 2]
    BY <1>3, <2>1
  <2>5. total[i + 2] \in Nat /\ total[i + 2] - 10 = T + l
    <3>1. total[i + 2] = total[i + 1] + lens[i + 2]
      BY <1>1, <2>1
    <3> QED
      BY <2>2, <2>3, <2>4, <3>1
  <2>6. after[i + 2] = after[i + 1] + Least(l, limit - after[i + 1])
    <3>1. Data(lens, i + 2) = l
      BY <2>1, <2>4 DEF Data
    <3> QED
      BY <1>2, <2>1, <3>1
  <2>7. after[i + 1] = Least(limit, T)
    BY <2>2, <2>3
  <2>8. T + l \in Nat /\ after[i + 2] = Least(limit, T + l)
    BY <2>6, <2>7 DEF Least
  <2> QED
    BY <2>5, <2>8
<1>6. Nat \subseteq S
  <2> HIDE DEF S
  <2> QED
    BY <1>4, <1>5, SetInduction
<1>7. Through(n)
  <2>1. n - 1 \in S /\ (n - 1) + 1 = n
    BY <1>3, <1>6
  <2> QED
    BY <2>1
<1> QED
  BY <1>1, <1>2, <1>7 DEF VIRTIO_NET_HDR_SIZE, n
-----------------------------------------------------------------------------
(* A queue with its buffers: the heads that the driver has given away, out, *)
(* lie in avail and in used, each once, and the device is in avail where it *)
(* is in used.                                                             *)

Small(H) == IsFiniteSet(H) /\ Cardinality(H) <= QUEUE_SIZE

QueueOK(H, m, last, s, out) ==
  /\ m \in Memory(H)
  /\ last \in Indices /\ s \in Indices
  /\ last = m.used_idx
  /\ out \subseteq H
  /\ Placed(Offered(m, last), HeadsOf(Unseen(m, s)), out)

LEMMA QueueFits ==
  ASSUME NEW H, Small(H), NEW m, NEW last, NEW s, NEW out, QueueOK(H, m, last, s, out)
  PROVE  /\ Fits(m, last, s)
         /\ \A h \in H \ out : Len(Offered(m, last)) < QUEUE_SIZE
<1>1. PICK a : a = Offered(m, last)
  OBVIOUS
<1>2. PICK u : u = Unseen(m, s)
  OBVIOUS
<1>3. PICK V : V = Entry(H)
  OBVIOUS
<1>4. /\ m \in Memory(H) /\ last \in Indices /\ s \in Indices /\ out \subseteq H
      /\ Placed(a, HeadsOf(u), out)
  BY <1>1, <1>2 DEF QueueOK
<1>5. a \in Seq(V) /\ u \in Seq(Element(H)) /\ Len(a) \in Nat /\ Len(u) \in Nat
  BY <1>1, <1>2, <1>3, <1>4, QueueHolds
<1>6. HeadsOf(u) \in Seq(V) /\ Len(HeadsOf(u)) = Len(u)
  BY <1>3, <1>5, HeadsFacts
<1>7. ASSUME NEW F, IsFiniteSet(F), out \subseteq F
      PROVE  Len(a) + Len(u) <= Cardinality(F)
  BY <1>4, <1>5, <1>6, <1>7, PlacedLength
<1>8. /\ IsFiniteSet(H) /\ Cardinality(H) <= QUEUE_SIZE /\ Cardinality(H) \in Nat
      /\ QUEUE_SIZE \in Nat
  BY QueueSizes, FS_CardinalityType DEF Small
<1>9. Len(a) + Len(u) <= QUEUE_SIZE
  BY <1>4, <1>5, <1>7, <1>8
<1>10. ASSUME NEW h \in H \ out
       PROVE  Len(a) < QUEUE_SIZE
  <2>1. IsFiniteSet(H \ {h}) /\ Cardinality(H \ {h}) = Cardinality(H) - 1
    BY <1>8, FS_RemoveElement
  <2>2. out \subseteq H \ {h}
    BY <1>4
  <2>3. Len(a) + Len(u) <= Cardinality(H \ {h})
    BY <1>7, <2>1, <2>2
  <2> QED
    BY <1>5, <1>8, <2>1, <2>3
<1> QED
  BY <1>1, <1>2, <1>9, <1>10 DEF Fits

LEMMA QueueOffered ==
  ASSUME NEW H, Small(H), NEW m, NEW last, NEW s, NEW out, QueueOK(H, m, last, s, out),
         NEW h \in H \ out
  PROVE  /\ QueueOK(H, Offer(m, h), last, s, out \cup {h})
         /\ Offered(Offer(m, h), last) = Append(Offered(m, last), h)
         /\ Unseen(Offer(m, h), s) = Unseen(m, s)
<1>1. /\ m \in Memory(H) /\ last \in Indices /\ s \in Indices /\ out \subseteq H
      /\ last = m.used_idx
      /\ Placed(Offered(m, last), HeadsOf(Unseen(m, s)), out)
  BY DEF QueueOK
<1>2. Len(Offered(m, last)) < QUEUE_SIZE
  BY QueueFits
<1>3. PICK o : o = Offer(m, h)
  OBVIOUS
<1>4. /\ o \in Memory(H) /\ o.used_idx = m.used_idx
      /\ Offered(o, last) = Append(Offered(m, last), h)
      /\ Unseen(o, s) = Unseen(m, s)
  BY <1>1, <1>2, <1>3, OfferFlow
<1>5. PICK V : V = Entry(H)
  OBVIOUS
<1>6. PICK a : a = Offered(m, last)
  OBVIOUS
<1>7. PICK u : u = HeadsOf(Unseen(m, s))
  OBVIOUS
<1>8. a \in Seq(V) /\ u \in Seq(V) /\ h \in V /\ h \notin out /\ Placed(a, u, out)
  <2>1. Offered(m, last) \in Seq(Entry(H)) /\ Unseen(m, s) \in Seq(Element(H))
    BY <1>1, QueueHolds
  <2>2. HeadsOf(Unseen(m, s)) \in Seq(Entry(H))
    BY <2>1, HeadsFacts
  <2>3. h \in Entry(H)
    BY DEF Entry
  <2> QED
    BY <1>1, <1>5, <1>6, <1>7, <2>1, <2>2, <2>3
<1>9. Placed(Append(a, h), u, out \cup {h})
  BY <1>8, PlacedOffer
<1>10. out \cup {h} \subseteq H
  BY <1>1
<1> QED
  BY <1>1, <1>3, <1>4, <1>6, <1>7, <1>9, <1>10 DEF QueueOK

\* The device takes a head and returns it.
LEMMA QueueReturned ==
  ASSUME NEW H, Small(H), NEW m, NEW last, NEW s, NEW out, QueueOK(H, m, last, s, out),
         last # m.avail_idx, Nothing \notin H
  PROVE  /\ At(m.avail, last) \in out
         /\ Offered(m, last) # <<>> /\ At(m.avail, last) = Head(Offered(m, last))
         /\ \A n \in Nat :
              LET o == Return(m, At(m.avail, last), n)
                  e == [head |-> At(m.avail, last), len |-> n]
              IN /\ QueueOK(H, o, Succ(last), s, out)
                 /\ o.avail_idx = m.avail_idx
                 /\ e \in Element(H)
                 /\ Offered(o, Succ(last)) = Tail(Offered(m, last))
                 /\ Unseen(o, s) = Append(Unseen(m, s), e)
<1>1. /\ m \in Memory(H) /\ last \in Indices /\ s \in Indices /\ out \subseteq H
      /\ last = m.used_idx
      /\ Placed(Offered(m, last), HeadsOf(Unseen(m, s)), out)
  BY DEF QueueOK
<1>2. Fits(m, last, s)
  BY QueueFits
<1>3. PICK V : V = Entry(H)
  OBVIOUS
<1>4. PICK a : a = Offered(m, last)
  OBVIOUS
<1>5. PICK u : u = Unseen(m, s)
  OBVIOUS
<1>6. PICK g : g = HeadsOf(u)
  OBVIOUS
<1>7. PICK h : h = At(m.avail, last)
  OBVIOUS
<1>8. a \in Seq(V) /\ u \in Seq(Element(H)) /\ g \in Seq(V) /\ Placed(a, g, out)
  <2>1. Offered(m, last) \in Seq(Entry(H)) /\ Unseen(m, s) \in Seq(Element(H))
    BY <1>1, QueueHolds
  <2>2. HeadsOf(Unseen(m, s)) \in Seq(Entry(H))
    BY <2>1, HeadsFacts
  <2> QED
    BY <1>1, <1>3, <1>4, <1>5, <1>6, <2>1, <2>2
<1>9. a # <<>> /\ h = Head(a)
  BY <1>1, <1>4, <1>7, FirstOffered
<1>10. h \in out /\ h \in H /\ Placed(Tail(a), Append(g, h), out)
  BY <1>1, <1>8, <1>9, PlacedMove
<1>11. ASSUME NEW n \in Nat, NEW o, o = Return(m, h, n),
              NEW e, e = [head |-> h, len |-> n]
       PROVE  /\ QueueOK(H, o, Succ(last), s, out)
              /\ o.avail_idx = m.avail_idx
              /\ e \in Element(H)
              /\ Offered(o, Succ(last)) = Tail(a)
              /\ Unseen(o, s) = Append(u, e)
  <2>1. /\ o \in Memory(H)
        /\ o.avail_idx = m.avail_idx /\ o.used_idx = Succ(m.used_idx)
        /\ e \in Element(H)
        /\ Offered(o, Succ(last)) = Tail(a)
        /\ Unseen(o, s) = Append(u, e)
    BY <1>1, <1>2, <1>4, <1>5, <1>7, <1>10, <1>11, ReturnFlow
  <2>2. HeadsOf(Append(u, e)) = Append(g, e.head)
    BY <1>6, <1>8, <2>1, HeadsFacts
  <2>3. e.head = h
    BY <1>11
  <2>4. Succ(last) \in Indices
    BY <1>1, SuccKeeps
  <2> QED
    BY <1>1, <1>10, <2>1, <2>2, <2>3, <2>4 DEF QueueOK
<1> QED
  BY <1>4, <1>5, <1>7, <1>9, <1>10, <1>11

\* The driver takes a buffer back.
LEMMA QueueScrubbed ==
  ASSUME NEW H, NEW m, NEW last, NEW s, NEW out, NEW o, NEW e,
         Small(H), QueueOK(H, m, last, s, out), s # m.used_idx,
         o = Scrub(m, s), e = At(m.used, s)
  PROVE  /\ Unseen(m, s) # <<>> /\ e = Head(Unseen(m, s)) /\ e.head \in out
         /\ QueueOK(H, o, last, Succ(s), out \ {e.head})
         /\ o.avail_idx = m.avail_idx
         /\ Offered(o, last) = Offered(m, last)
         /\ Unseen(o, Succ(s)) = Tail(Unseen(m, s))
<1>1. /\ m \in Memory(H) /\ last \in Indices /\ s \in Indices /\ out \subseteq H
      /\ last = m.used_idx
      /\ Placed(Offered(m, last), HeadsOf(Unseen(m, s)), out)
  BY DEF QueueOK
<1>2. Fits(m, m.used_idx, s)
  BY <1>1, QueueFits
<1>3. PICK V : V = Entry(H)
  OBVIOUS
<1>4. PICK a : a = Offered(m, last)
  OBVIOUS
<1>5. PICK u : u = Unseen(m, s)
  OBVIOUS
<1>6. PICK g : g = HeadsOf(u)
  OBVIOUS
<1>7. a \in Seq(V) /\ u \in Seq(Element(H)) /\ g \in Seq(V) /\ Placed(a, g, out)
  <2>1. Offered(m, last) \in Seq(Entry(H)) /\ Unseen(m, s) \in Seq(Element(H))
    BY <1>1, QueueHolds
  <2>2. HeadsOf(Unseen(m, s)) \in Seq(Entry(H))
    BY <2>1, HeadsFacts
  <2> QED
    BY <1>1, <1>3, <1>4, <1>5, <1>6, <2>1, <2>2
<1>8. /\ u # <<>> /\ e = Head(u)
       /\ o \in Memory(H)
       /\ o.avail_idx = m.avail_idx /\ o.used_idx = m.used_idx
       /\ Offered(o, last) = a
       /\ Unseen(o, Succ(s)) = Tail(u)
  BY <1>1, <1>2, <1>4, <1>5, ScrubFlow
<1>9. g # <<>> /\ Head(g) = e.head /\ HeadsOf(Tail(u)) = Tail(g)
  BY <1>6, <1>7, <1>8, HeadsFacts
<1>10. Head(g) \in out /\ Placed(a, Tail(g), out \ {Head(g)})
  BY <1>7, <1>9, PlacedTake
<1>11. Succ(s) \in Indices /\ out \ {Head(g)} \subseteq H
  BY <1>1, SuccKeeps
<1>12. QueueOK(H, o, last, Succ(s), out \ {e.head})
  BY <1>1, <1>8, <1>9, <1>10, <1>11 DEF QueueOK
<1> QED
  BY <1>4, <1>5, <1>8, <1>9, <1>10, <1>12

LEMMA QueueZeroed ==
  ASSUME NEW H
  PROVE  /\ QueueOK(H, Zeroed(Nothing), 0, 0, {})
         /\ Zeroed(Nothing).avail_idx = 0
         /\ Offered(Zeroed(Nothing), 0) = <<>>
         /\ Unseen(Zeroed(Nothing), 0) = <<>>
<1>1. PICK z : z = Zeroed(Nothing)
  OBVIOUS
<1>2. /\ z \in Memory(H) /\ z.avail_idx = 0 /\ z.used_idx = 0
      /\ Offered(z, 0) = <<>> /\ Unseen(z, 0) = <<>>
  BY <1>1, ZeroedFlow
<1>3. HeadsOf(<<>>) = <<>>
  BY DEF HeadsOf
<1>4. QueueOK(H, z, 0, 0, {})
  BY <1>2, <1>3, PlacedEmpty, QueueSizes DEF QueueOK
<1> QED
  BY <1>1, <1>2, <1>4
-----------------------------------------------------------------------------
(* The ring of packets.                                                    *)

RingOK(buf, head, tail, count) ==
  /\ IsRing(buf, RING, Packets \cup {Nothing})
  /\ head \in Slots /\ tail \in Slots /\ count \in 0..RING
  /\ tail = (head + count) % RING
  /\ Window(buf, RING, head, count) \in Seq(Packets)

LEMMA WaitingWindow == Waiting = Window(rx_buf, RING, rx_head, rx_count)
BY DEF Waiting, Window

LEMMA RingSizes ==
  /\ RING \in Nat \ {0} /\ RING \in Int
  /\ Slots = 0..(RING - 1) /\ Slots \subseteq Nat /\ 0 \in Slots
  /\ \A i \in Nat : i % RING \in Slots
<1>1. RING \in Nat \ {0}
  BY NetAssumption
<1>2. ASSUME NEW i \in Nat
      PROVE  i % RING \in 0..(RING - 1)
  <2>1. i \in Int
    OBVIOUS
  <2> QED
    BY <1>1, <2>1, DivMod
<1> QED
  BY <1>1, <1>2 DEF Slots

LEMMA RingPush ==
  ASSUME NEW buf, NEW head, NEW tail, NEW count, RingOK(buf, head, tail, count),
         count < RING, NEW p \in Packets
  PROVE  /\ RingOK(Put(buf, tail, p), head, (tail + 1) % RING, count + 1)
         /\ Window(Put(buf, tail, p), RING, head, count + 1)
              = Append(Window(buf, RING, head, count), p)
<1>1. PICK V : V = Packets \cup {Nothing}
  OBVIOUS
<1>2. /\ IsRing(buf, RING, V) /\ p \in V
      /\ head \in Slots /\ tail \in Slots /\ count \in 0..RING /\ count + 1 \in 0..RING
      /\ tail = (head + count) % RING
      /\ Window(buf, RING, head, count) \in Seq(Packets)
      /\ count \in Nat /\ head \in Int /\ tail \in Nat /\ RING \in Nat \ {0}
  BY <1>1, RingSizes DEF RingOK
<1>3. PICK o : o = Put(buf, tail, p)
  OBVIOUS
<1>4. Window(Put(buf, (head + count) % RING, p), RING, head, count + 1)
        = Append(Window(buf, RING, head, count), p)
  BY <1>2, WindowAppend
<1>5. Window(o, RING, head, count + 1) = Append(Window(buf, RING, head, count), p)
  BY <1>2, <1>3, <1>4
<1>6. IsRing(o, RING, V)
  BY <1>2, <1>3 DEF IsRing, Put
<1>7. (tail + 1) % RING = (head + (count + 1)) % RING
  <2>1. PICK a \in Int : a = head + count
    BY <1>2
  <2>2. PICK t \in Int : t = tail
    BY <1>2
  <2>3. a \in Nat
    BY <1>2, <2>1, RingSizes
  <2>4. a % RING = t /\ t \in 0..(RING - 1)
    BY <1>2, <2>1, <2>2, RingSizes
  <2>5. t % RING = t
    <3>1. -RING < t /\ t < RING /\ t >= 0
      BY <1>2, <2>4
    <3> QED
      BY <1>2, <3>1, ModNear
  <2>6. t % RING = a % RING
    BY <2>4, <2>5
  <2>7. PICK k \in Int : k = 1
    OBVIOUS
  <2>8. (t + k) % RING = (a + k) % RING
    BY <1>2, <2>6, ModShift
  <2>9. a + k = head + (count + 1)
    BY <1>2, <2>1, <2>7
  <2> QED
    BY <2>2, <2>7, <2>8, <2>9
<1>8. (tail + 1) % RING \in Slots
  <2>1. PICK t \in Nat : t = tail + 1
    BY <1>2
  <2>2. t % RING \in Slots
    BY RingSizes
  <2> QED
    BY <2>1, <2>2
<1>9. Append(Window(buf, RING, head, count), p) \in Seq(Packets)
  BY <1>2, AppendProperties
<1> QED
  BY <1>1, <1>2, <1>3, <1>5, <1>6, <1>7, <1>8, <1>9 DEF RingOK

LEMMA RingPop ==
  ASSUME NEW buf, NEW head, NEW tail, NEW count, RingOK(buf, head, tail, count), count > 0
  PROVE  /\ RingOK(buf, (head + 1) % RING, tail, count - 1)
         /\ Window(buf, RING, head, count) # <<>>
         /\ buf[head] = Head(Window(buf, RING, head, count)) /\ buf[head] \in Packets
         /\ Window(buf, RING, (head + 1) % RING, count - 1)
              = Tail(Window(buf, RING, head, count))
<1>1. PICK V : V = Packets \cup {Nothing}
  OBVIOUS
<1>2. /\ IsRing(buf, RING, V)
      /\ head \in Slots /\ tail \in Slots /\ count - 1 \in 0..RING
      /\ tail = (head + count) % RING
      /\ Window(buf, RING, head, count) \in Seq(Packets)
      /\ count \in Nat \ {0} /\ head \in Int /\ head \in Nat /\ RING \in Nat \ {0}
  BY <1>1, RingSizes DEF RingOK
<1>3. PICK w : w = Window(buf, RING, head, count)
  OBVIOUS
<1>4. /\ w # <<>> /\ Head(w) = InSlot(buf, RING, head)
      /\ Tail(w) = Window(buf, RING, head + 1, count - 1)
  <2>1. IsRing(buf, RING, V) /\ count \in Nat \ {0} /\ head \in Int /\ RING \in Nat \ {0}
    BY <1>2
  <2>2. Window(buf, RING, head, count) # <<>>
    BY <2>1, WindowTail
  <2>3. Head(Window(buf, RING, head, count)) = InSlot(buf, RING, head)
    BY <2>1, WindowTail
  <2>4. Tail(Window(buf, RING, head, count)) = Window(buf, RING, head + 1, count - 1)
    BY <2>1, WindowTail
  <2> QED
    BY <1>3, <2>2, <2>3, <2>4
<1>5. head % RING = head
  <2>1. -RING < head /\ head < RING /\ head >= 0
    BY <1>2, RingSizes
  <2> QED
    BY <1>2, <2>1, ModNear
<1>6. Head(w) = buf[head]
  BY <1>4, <1>5 DEF InSlot
<1>7. w \in Seq(Packets) /\ Head(w) \in Packets /\ Tail(w) \in Seq(Packets)
  BY <1>2, <1>3, <1>4, HeadTailProperties
<1>8. PICK a \in Nat : a = head + 1
  BY <1>2
<1>9. PICK b \in Slots : b = a % RING
  BY RingSizes
<1>10. b \in Int /\ b % RING = a % RING
  <2>1. b \in Int /\ -RING < b /\ b < RING /\ b >= 0
    BY RingSizes
  <2>2. b % RING = b
    BY <1>2, <2>1, ModNear
  <2> QED
    BY <1>9, <2>1, <2>2
<1>11. PICK n \in Nat : n = count - 1
  BY <1>2
<1>12. Window(buf, RING, b, n) = Window(buf, RING, a, n)
  BY <1>2, <1>10, WindowRound
<1>13. tail = (b + n) % RING
  <2>1. (b + n) % RING = (a + n) % RING
    <3>1. b \in Int /\ a \in Int /\ n \in Int /\ RING \in Nat \ {0}
      BY <1>2, <1>10
    <3> QED
      BY <1>10, <3>1, ModShift
  <2>2. a + n = head + count
    BY <1>2, <1>8, <1>11
  <2> QED
    BY <1>2, <2>1, <2>2
<1>14. Window(buf, RING, b, n) = Tail(w)
  BY <1>4, <1>8, <1>11, <1>12
<1>15. RingOK(buf, b, tail, n)
  BY <1>1, <1>2, <1>7, <1>9, <1>11, <1>13, <1>14 DEF RingOK
<1> QED
  BY <1>3, <1>4, <1>6, <1>7, <1>8, <1>9, <1>11, <1>14, <1>15
-----------------------------------------------------------------------------
(* The invariant.                                                          *)

Chains == RxHeads \cup TxHeads
Kept == {Written(p, h) : p \in Packets, h \in RxHeads} \cup Frames \cup {Nothing}
Sent == {Gathered(f) : f \in Frames} \cup {Nothing}

\* While the device is at a queue, its copy of the avail index is current: the
\* driver waits.
DeviceOK ==
  /\ queue_pfn \in [Queues -> BOOLEAN]
  /\ avail_idx \in Indices
  /\ work \in {"idle", "deliver", "polled", "transmit"}
  /\ work = "deliver" => avail_idx = queue[RXQ].avail_idx
  /\ work = "transmit" => avail_idx = queue[TXQ].avail_idx

QueuesOK ==
  /\ DOMAIN queue = Queues
  /\ last_avail_idx \in [Queues -> Indices] /\ seen \in [Queues -> Indices]
  /\ owned \in [Queues -> SUBSET Chains]
  /\ \A q \in Queues : owned[q] \subseteq Heads[q]
  /\ \A q \in Queues :
       QueueOK(Heads[q], queue[q], last_avail_idx[q], seen[q], Heads[q] \ owned[q])

\* A chain in the transmit queue holds a frame.
ChainsOK ==
  /\ mem \in [Chains -> Kept]
  /\ \A h \in TxHeads \ owned[TXQ] : mem[h] \in Frames

NetInv ==
  /\ IrqTypeOK
  /\ DeviceOK
  /\ QueuesOK
  /\ ChainsOK
  /\ RingOK(rx_buf, rx_head, rx_tail, rx_count)
  /\ wire \in Sent

LEMMA QueueNames ==
  /\ RXQ \in Queues /\ TXQ \in Queues /\ RXQ # TXQ /\ Queues = {RXQ, TXQ}
  /\ Heads \in [Queues -> SUBSET Chains]
  /\ Heads[RXQ] = RxHeads /\ Heads[TXQ] = TxHeads
  /\ \A q \in Queues : Small(Heads[q]) /\ Heads[q] \subseteq Chains /\ Nothing \notin Heads[q]
  /\ RxHeads \cap TxHeads = {}
<1>1. Small(RxHeads) /\ Small(TxHeads)
  BY NetAssumption DEF Small
<1>2. RxHeads \cap TxHeads = {} /\ Nothing \notin RxHeads /\ Nothing \notin TxHeads
  BY NetAssumption
<1> QED
  BY <1>1, <1>2 DEF Queues, RXQ, TXQ, Heads, Chains

LEMMA NetInvTypes == NetInv => NetTypeOK
<1> SUFFICES ASSUME NetInv PROVE NetTypeOK
  OBVIOUS
<1>1. /\ rx_head \in Slots /\ rx_tail \in Slots /\ rx_count \in 0..RING
      /\ rx_buf \in [Slots -> Packets \cup {Nothing}]
  BY RingSizes DEF NetInv, RingOK, IsRing
<1>2. \A q \in Queues : queue[q] \in QueueMemory(Heads[q], Nothing, Nat)
  BY DEF NetInv, QueuesOK, QueueOK, Memory
<1> QED
  BY <1>1, <1>2 DEF NetInv, DeviceOK, QueuesOK, ChainsOK, NetTypeOK, Chains, Kept, Sent

LEMMA NetInvConserves == NetInv => BuffersConserved
<1> SUFFICES ASSUME NetInv, NEW q \in Queues
             PROVE  LET out == Available(q) \o HeadsOf(Returned(q))
                    IN Range(out) = Heads[q] \ owned[q] /\ IsInjective(out)
  BY DEF BuffersConserved
<1>1. PICK H : H = Heads[q]
  OBVIOUS
<1>2. PICK V : V = Entry(H)
  OBVIOUS
<1>3. PICK a : a = Available(q)
  OBVIOUS
<1>4. PICK u : u = HeadsOf(Returned(q))
  OBVIOUS
<1>5. /\ queue[q] \in Memory(H) /\ last_avail_idx[q] \in Indices /\ seen[q] \in Indices
      /\ Placed(Offered(queue[q], last_avail_idx[q]), HeadsOf(Unseen(queue[q], seen[q])),
                H \ owned[q])
  BY <1>1 DEF NetInv, QueuesOK, QueueOK
<1>6. a = Offered(queue[q], last_avail_idx[q]) /\ u = HeadsOf(Unseen(queue[q], seen[q]))
  BY <1>3, <1>4 DEF Available, Returned, Offered, Unseen
<1>7. a \in Seq(V)
  BY <1>2, <1>5, <1>6, QueueHolds
<1>8. u \in Seq(V)
  <2>1. Unseen(queue[q], seen[q]) \in Seq(Element(H))
    BY <1>5, QueueHolds
  <2> QED
    BY <1>2, <1>6, <2>1, HeadsFacts
<1>9. Placed(a, u, H \ owned[q])
  BY <1>5, <1>6
<1>10. Range(a \o u) = H \ owned[q] /\ IsInjective(a \o u)
  BY <1>7, <1>8, <1>9, PlacedConcat
<1> QED
  BY <1>1, <1>3, <1>4, <1>10

\* A queue goes on; the other one stays.
LEMMA OneQueue ==
  ASSUME QueuesOK, NEW q \in Queues, NEW m, NEW last, NEW s, NEW mine,
         QueueOK(Heads[q], m, last, s, Heads[q] \ mine), mine \subseteq Heads[q],
         queue' = [queue EXCEPT ![q] = m],
         last_avail_idx' = [last_avail_idx EXCEPT ![q] = last],
         seen' = [seen EXCEPT ![q] = s],
         owned' = [owned EXCEPT ![q] = mine]
  PROVE  /\ QueuesOK'
         /\ Available(q)' = Offered(m, last) /\ Returned(q)' = Unseen(m, s)
         /\ \A r \in Queues \ {q} :
              Available(r)' = Available(r) /\ Returned(r)' = Returned(r)
<1>1. /\ DOMAIN queue = Queues /\ DOMAIN last_avail_idx = Queues /\ DOMAIN seen = Queues
      /\ DOMAIN owned = Queues
  BY DEF QueuesOK
<1>2. /\ queue'[q] = m /\ last_avail_idx'[q] = last /\ seen'[q] = s /\ owned'[q] = mine
      /\ DOMAIN queue' = Queues
  BY <1>1
<1>3. \A r \in Queues \ {q} :
        /\ queue'[r] = queue[r] /\ last_avail_idx'[r] = last_avail_idx[r]
        /\ seen'[r] = seen[r] /\ owned'[r] = owned[r]
  BY <1>1
<1>4. last \in Indices /\ s \in Indices /\ mine \subseteq Chains
  BY QueueNames DEF QueueOK
<1>5. last_avail_idx' \in [Queues -> Indices] /\ seen' \in [Queues -> Indices]
  BY <1>4 DEF QueuesOK
<1>6. owned' \in [Queues -> SUBSET Chains]
  BY <1>4 DEF QueuesOK
<1>7. ASSUME NEW r \in Queues
      PROVE  /\ owned'[r] \subseteq Heads[r]
             /\ QueueOK(Heads[r], queue'[r], last_avail_idx'[r], seen'[r], Heads[r] \ owned'[r])
  <2>1. CASE r = q
    BY <1>2, <2>1
  <2>2. CASE r # q
    BY <1>3, <2>2 DEF QueuesOK
  <2> QED
    BY <2>1, <2>2
<1>8. QueuesOK'
  BY <1>2, <1>5, <1>6, <1>7 DEF QueuesOK
<1>9. Available(q)' = Offered(m, last) /\ Returned(q)' = Unseen(m, s)
  BY <1>2 DEF Available, Returned, Offered, Unseen
<1>10. ASSUME NEW r \in Queues \ {q}
       PROVE  Available(r)' = Available(r) /\ Returned(r)' = Returned(r)
  BY <1>3 DEF Available, Returned
<1> QED
  BY <1>8, <1>9, <1>10

\* The heads in one queue.
LEMMA QueueApart ==
  ASSUME NEW H, NEW m, NEW last, NEW s, NEW out, QueueOK(H, m, last, s, out)
  PROVE  /\ Offered(m, last) \in Seq(Entry(H)) /\ Unseen(m, s) \in Seq(Element(H))
         /\ \A h \in Range(Offered(m, last)) : h \in out
         /\ \A e \in Range(Unseen(m, s)) : e.head \in out /\ e.head \notin Range(Offered(m, last))
<1>1. PICK a : a = Offered(m, last)
  OBVIOUS
<1>2. PICK u : u = Unseen(m, s)
  OBVIOUS
<1>3. /\ m \in Memory(H) /\ last \in Indices /\ s \in Indices
      /\ Placed(a, HeadsOf(u), out)
  BY <1>1, <1>2 DEF QueueOK
<1>4. a \in Seq(Entry(H)) /\ u \in Seq(Element(H))
  BY <1>1, <1>2, <1>3, QueueHolds
<1>5. \A e \in Range(u) : e.head \in Range(HeadsOf(u))
  BY <1>4, HeadsFacts
<1> QED
  BY <1>1, <1>2, <1>3, <1>4, <1>5 DEF Placed

\* What the invariant says of one queue.
LEMMA QueueState ==
  ASSUME NetInv, NEW q \in Queues
  PROVE  /\ Available(q) = Offered(queue[q], last_avail_idx[q])
         /\ Returned(q) = Unseen(queue[q], seen[q])
         /\ Available(q) \in Seq(Entry(Heads[q])) /\ Returned(q) \in Seq(Element(Heads[q]))
         /\ \A h \in Range(Available(q)) : h \in Heads[q] \ owned[q]
         /\ \A e \in Range(Returned(q)) : e.head \in Heads[q] \ owned[q]
                                          /\ e.head \notin Range(Available(q))
<1>1. QueueOK(Heads[q], queue[q], last_avail_idx[q], seen[q], Heads[q] \ owned[q])
  BY DEF NetInv, QueuesOK
<1>2. PICK a : a = Offered(queue[q], last_avail_idx[q])
  OBVIOUS
<1>3. PICK u : u = Unseen(queue[q], seen[q])
  OBVIOUS
<1>4. Available(q) = a /\ Returned(q) = u
  BY <1>2, <1>3 DEF Available, Returned, Offered, Unseen
<1>5. /\ a \in Seq(Entry(Heads[q])) /\ u \in Seq(Element(Heads[q]))
      /\ \A h \in Range(a) : h \in Heads[q] \ owned[q]
      /\ \A e \in Range(u) : e.head \in Heads[q] \ owned[q] /\ e.head \notin Range(a)
  BY <1>1, <1>2, <1>3, QueueApart
<1> QED
  BY <1>2, <1>3, <1>4, <1>5
-----------------------------------------------------------------------------
(* The steps: each keeps the invariant, and this is what it does to the    *)
(* packets that wait and to the queues.                                    *)

LEMMA InitHolds == NetInit => NetInv
<1> SUFFICES ASSUME NetInit PROVE NetInv
  OBVIOUS
<1>1. IrqTypeOK
  BY DEF NetInit, IrqInit, IrqTypeOK, GuestPlaces
<1>2. \A q \in Queues : Heads[q] \ owned[q] = {} /\ queue[q] = Zeroed(Nothing)
                        /\ last_avail_idx[q] = 0 /\ seen[q] = 0
  BY DEF NetInit
<1>3. QueuesOK
  <2>1. \A q \in Queues : QueueOK(Heads[q], Zeroed(Nothing), 0, 0, {})
    BY QueueZeroed
  <2> QED
    BY <1>2, <2>1, QueueNames, QueueSizes DEF NetInit, QueuesOK
<1>4. DeviceOK
  BY QueueSizes DEF NetInit, DeviceOK
<1>5. ChainsOK /\ wire \in Sent
  BY QueueNames DEF NetInit, ChainsOK, Chains, Kept, Sent
<1>6. RingOK(rx_buf, rx_head, rx_tail, rx_count)
  <2>1. IsRing(rx_buf, RING, Packets \cup {Nothing})
    BY RingSizes DEF NetInit, IsRing
  <2>2. Window(rx_buf, RING, 0, 0) = <<>>
    BY DEF Window
  <2>3. (0 + 0) % RING = 0
    <3>1. 0 \in Int /\ -RING < 0 /\ 0 < RING /\ 0 >= 0
      BY RingSizes
    <3>2. 0 % RING = 0
      BY <3>1, RingSizes, ModNear
    <3> QED
      BY <3>2
  <2>4. 0 \in Slots /\ 0 \in 0..RING /\ <<>> \in Seq(Packets)
    BY RingSizes, EmptySeq
  <2>5. rx_head = 0 /\ rx_tail = 0 /\ rx_count = 0
    BY DEF NetInit
  <2> QED
    BY <2>1, <2>2, <2>3, <2>4, <2>5 DEF RingOK
<1> QED
  BY <1>1, <1>3, <1>4, <1>5, <1>6 DEF NetInv

LEMMA QuietKeeps ==
  ASSUME NetInv, IrqTypeOK', DeviceOK', wire' \in Sent,
         UNCHANGED <<ringVars, last_avail_idx, memVars, driverVars>>
  PROVE  /\ NetInv'
         /\ UNCHANGED <<Waiting, mem>>
         /\ \A q \in Queues : Available(q)' = Available(q) /\ Returned(q)' = Returned(q)
<1>1. UNCHANGED <<rx_buf, rx_head, rx_tail, rx_count, last_avail_idx, queue, mem, owned, seen>>
  BY DEF ringVars, memVars, driverVars
<1>2. QueuesOK' /\ ChainsOK'
  BY <1>1 DEF NetInv, QueuesOK, ChainsOK
<1>3. NetInv'
  BY <1>1, <1>2 DEF NetInv
<1>4. UNCHANGED Waiting
  BY <1>1 DEF Waiting
<1>5. \A q \in Queues : Available(q)' = Available(q) /\ Returned(q)' = Returned(q)
  BY <1>1 DEF Available, Returned
<1> QED
  BY <1>1, <1>3, <1>4, <1>5

Quiet ==
  \/ Drop \/ PollEmpty \/ PollStart \/ DeliverEnd \/ PollEnd
  \/ Notify \/ TransmitEnd \/ SetUp \/ ReapEnd \/ HandleIrq

LEMMA QuietHolds ==
  ASSUME NetInv, Quiet \/ UNCHANGED vars
  PROVE  /\ NetInv'
         /\ wire' = Nothing \/ UNCHANGED wire
         /\ UNCHANGED <<Waiting, mem>>
         /\ \A q \in Queues : Available(q)' = Available(q) /\ Returned(q)' = Returned(q)
<1>1. UNCHANGED <<ringVars, last_avail_idx, memVars, driverVars>>
  BY DEF Quiet, Drop, PollEmpty, PollStart, DeliverEnd, PollEnd, Notify, TransmitEnd, SetUp,
         ReapEnd, HandleIrq, vars, deviceVars
<1>2. wire' = Nothing \/ UNCHANGED wire
  BY DEF Quiet, Drop, PollEmpty, PollStart, DeliverEnd, PollEnd, Notify, TransmitEnd, SetUp,
         ReapEnd, HandleIrq, vars
<1>3. wire' \in Sent
  BY <1>2 DEF NetInv, Sent
<1>4. IrqTypeOK
  BY DEF NetInv
<1>5. IrqTypeOK'
  <2>1. CASE PollEmpty \/ PollEnd
    BY <1>4, <2>1, LatchKeeps DEF PollEmpty, PollEnd
  <2>2. CASE HandleIrq
    BY <1>4, <2>2, HandleKeeps DEF HandleIrq
  <2>3. CASE TransmitEnd
    BY <1>4, <2>3 DEF TransmitEnd, SetInterrupt, IrqTypeOK, handlerVars
  <2>4. CASE SetUp \/ ReapEnd
    BY <1>4, <2>4 DEF SetUp, ReapEnd, IrqTypeOK, GuestPlaces, flagVars
  <2>5. CASE Drop \/ PollStart \/ DeliverEnd \/ Notify \/ UNCHANGED vars
    BY <1>4, <2>5
    DEF Drop, PollStart, DeliverEnd, Notify, vars, irqVars, flagVars, handlerVars, IrqTypeOK
  <2> QED
    BY <2>1, <2>2, <2>3, <2>4, <2>5 DEF Quiet
<1>6. DeviceOK'
  <2>1. DeviceOK /\ UNCHANGED queue
    BY <1>1 DEF NetInv, memVars
  <2>2. queue[RXQ].avail_idx \in Indices /\ queue[TXQ].avail_idx \in Indices /\ 0 \in Indices
    BY QueueNames, QueueSizes, MemoryParts DEF NetInv, QueuesOK, QueueOK
  <2>3. CASE PollStart
    BY <2>1, <2>2, <2>3 DEF PollStart, DeviceOK
  <2>4. CASE DeliverEnd \/ TransmitEnd
    BY <2>1, <2>2, <2>4 DEF DeliverEnd, TransmitEnd, DeviceOK
  <2>5. CASE Notify
    BY <2>1, <2>2, <2>5 DEF Notify, DeviceOK
  <2>6. CASE PollEnd
    BY <2>1, <2>6 DEF PollEnd, DeviceOK, deviceVars
  <2>7. CASE SetUp
    BY <2>1, <2>7 DEF SetUp, DeviceOK
  <2>8. CASE Drop \/ PollEmpty \/ ReapEnd \/ HandleIrq \/ UNCHANGED vars
    BY <2>1, <2>8 DEF Drop, PollEmpty, ReapEnd, HandleIrq, vars, DeviceOK, deviceVars
  <2> QED
    BY <2>3, <2>4, <2>5, <2>6, <2>7, <2>8 DEF Quiet
<1> QED
  BY <1>1, <1>2, <1>3, <1>5, <1>6, QuietKeeps

\* The thread puts a packet at the end of those that wait.
LEMMA PushHolds ==
  ASSUME NetInv, NEW p \in Packets, Push(p)
  PROVE  /\ NetInv'
         /\ rx_count < RING /\ Waiting' = Append(Waiting, p)
         /\ wire' = Nothing /\ UNCHANGED mem
         /\ \A q \in Queues : Available(q)' = Available(q) /\ Returned(q)' = Returned(q)
<1>1. /\ rx_count < RING
      /\ rx_buf' = Put(rx_buf, rx_tail, p)
      /\ rx_tail' = (rx_tail + 1) % RING
      /\ rx_count' = rx_count + 1
      /\ rx_head' = rx_head
      /\ wire' = Nothing
      /\ UNCHANGED <<irqVars, queue_pfn, last_avail_idx, avail_idx, work, queue, mem, owned, seen>>
  BY DEF Push, Put, deviceVars, memVars, driverVars
<1>2. RingOK(rx_buf, rx_head, rx_tail, rx_count)
  BY DEF NetInv
<1>3. RingOK(rx_buf', rx_head', rx_tail', rx_count')
  <2>1. RingOK(Put(rx_buf, rx_tail, p), rx_head, (rx_tail + 1) % RING, rx_count + 1)
    BY <1>1, <1>2, RingPush
  <2> QED
    BY <1>1, <2>1
<1>4. Waiting' = Append(Waiting, p)
  <2>1. Window(Put(rx_buf, rx_tail, p), RING, rx_head, rx_count + 1)
          = Append(Window(rx_buf, RING, rx_head, rx_count), p)
    BY <1>1, <1>2, RingPush
  <2>2. Waiting' = Window(rx_buf', RING, rx_head', rx_count')
    BY DEF Waiting, Window
  <2> QED
    BY <1>1, <2>1, <2>2, WaitingWindow
<1>5. IrqTypeOK' /\ DeviceOK' /\ QueuesOK' /\ ChainsOK'
  BY <1>1
  DEF NetInv, IrqTypeOK, irqVars, flagVars, handlerVars, DeviceOK, QueuesOK, ChainsOK
<1>6. \A q \in Queues : Available(q)' = Available(q) /\ Returned(q)' = Returned(q)
  BY <1>1 DEF Available, Returned
<1>7. wire' \in Sent
  BY <1>1 DEF Sent
<1> QED
  BY <1>1, <1>3, <1>4, <1>5, <1>6, <1>7 DEF NetInv
LEMMA WrittenIs ==
  ASSUME NEW p \in Packets, NEW h \in RxHeads
  PROVE  /\ Written(p, h) = [p EXCEPT !.len = Least(p.len, Content(RxChains[h]))]
         /\ Written(p, h) = [id |-> p.id, len |-> Least(p.len, Content(RxChains[h]))]
         /\ Written(p, h) \in Kept /\ Written(p, h).len \in Nat
<1>1. p = [id |-> p.id, len |-> p.len] /\ p.len \in Nat
  BY NetAssumption
<1>2. WellFormed(RxChains[h])
  BY NetAssumption
<1>3. PICK l : l = Walked(RxChains[h], p.len)
  OBVIOUS
<1>4. l = Least(p.len, Content(RxChains[h])) /\ l \in Nat
  BY <1>1, <1>2, <1>3, WalkedAll DEF Least
<1>5. Written(p, h) = [p EXCEPT !.len = l]
  BY <1>3 DEF Written
<1>6. Written(p, h) = [id |-> p.id, len |-> l]
  <2>1. [p EXCEPT !.len = l] = [[id |-> p.id, len |-> p.len] EXCEPT !.len = l]
    BY <1>1
  <2> QED
    BY <1>5, <2>1
<1>7. Written(p, h).len = l
  BY <1>6
<1>8. Written(p, h) \in Kept
  BY DEF Kept
<1> QED
  BY <1>4, <1>5, <1>6, <1>7, <1>8

\* One packet, the oldest, into one buffer, the oldest.
LEMMA DeliverHolds ==
  ASSUME NetInv, Deliver
  PROVE  /\ NetInv'
         /\ wire' = Nothing
         /\ Available(TXQ)' = Available(TXQ) /\ Returned(TXQ)' = Returned(TXQ)
         /\ \E p \in Packets, h \in RxHeads :
              /\ Waiting # <<>> /\ p = Head(Waiting) /\ Waiting' = Tail(Waiting)
              /\ Available(RXQ) # <<>> /\ h = Head(Available(RXQ))
              /\ Available(RXQ)' = Tail(Available(RXQ))
              /\ Returned(RXQ)'
                   = Append(Returned(RXQ),
                            [head |-> h, len |-> VIRTIO_NET_HDR_SIZE + Written(p, h).len])
              /\ mem' = [mem EXCEPT ![h] = Written(p, h)]
<1>1. PICK m : m = queue[RXQ]
  OBVIOUS
<1>2. PICK last : last = last_avail_idx[RXQ]
  OBVIOUS
<1>3. PICK s : s = seen[RXQ]
  OBVIOUS
<1>4. PICK mine : mine = owned[RXQ]
  OBVIOUS
<1>5. PICK h : h = At(m.avail, last)
  OBVIOUS
<1>6. PICK p : p = rx_buf[rx_head]
  OBVIOUS
<1>7. PICK n : n = VIRTIO_NET_HDR_SIZE + Written(p, h).len
  OBVIOUS
<1>8. PICK o : o = Return(m, h, n)
  OBVIOUS
<1>9. /\ work = "deliver" /\ rx_count > 0 /\ last # avail_idx
      /\ mem' = [mem EXCEPT ![h] = Written(p, h)]
      /\ queue' = [queue EXCEPT ![RXQ] = o]
      /\ avail_idx' = o.avail_idx
      /\ last_avail_idx' = [last_avail_idx EXCEPT ![RXQ] = Succ(last)]
      /\ rx_head' = (rx_head + 1) % RING
      /\ rx_count' = rx_count - 1
      /\ wire' = Nothing
  BY <1>1, <1>2, <1>5, <1>6, <1>7, <1>8 DEF Deliver
<1>10. /\ SetInterrupt /\ UNCHANGED <<latched, handlerVars>>
       /\ UNCHANGED <<rx_buf, rx_tail, queue_pfn, work, owned, seen>>
  BY DEF Deliver, driverVars
<1>11. /\ RXQ \in Queues /\ TXQ \in Queues \ {RXQ} /\ Heads[RXQ] = RxHeads
       /\ Small(RxHeads) /\ Nothing \notin RxHeads
  BY QueueNames
<1>12. QueueOK(RxHeads, m, last, s, RxHeads \ mine) /\ mine \subseteq RxHeads
  BY <1>1, <1>2, <1>3, <1>4, <1>11 DEF NetInv, QueuesOK
<1>13. last # m.avail_idx
  BY <1>1, <1>9 DEF NetInv, DeviceOK
<1>14. RingOK(rx_buf, rx_head, rx_tail, rx_count)
  BY DEF NetInv
<1>15. /\ RingOK(rx_buf, (rx_head + 1) % RING, rx_tail, rx_count - 1)
       /\ Waiting # <<>> /\ p = Head(Waiting) /\ p \in Packets
  BY <1>6, <1>9, <1>14, RingPop, WaitingWindow
<1>16. Waiting' = Tail(Waiting)
  <2>1. Window(rx_buf, RING, (rx_head + 1) % RING, rx_count - 1)
          = Tail(Window(rx_buf, RING, rx_head, rx_count))
    BY <1>9, <1>14, RingPop
  <2>2. Waiting' = Window(rx_buf', RING, rx_head', rx_count')
    BY DEF Waiting, Window
  <2> QED
    BY <1>9, <1>10, <2>1, <2>2, WaitingWindow
<1>17. /\ h \in RxHeads \ mine
       /\ Offered(m, last) # <<>> /\ h = Head(Offered(m, last))
  BY <1>5, <1>11, <1>12, <1>13, QueueReturned
<1>18. n \in Nat /\ Written(p, h) \in Kept
  <2>1. Written(p, h).len \in Nat /\ Written(p, h) \in Kept
    BY <1>15, <1>17, WrittenIs
  <2> QED
    BY <1>7, <2>1 DEF VIRTIO_NET_HDR_SIZE
<1>19. /\ QueueOK(RxHeads, o, Succ(last), s, RxHeads \ mine)
       /\ o.avail_idx = m.avail_idx
       /\ Offered(o, Succ(last)) = Tail(Offered(m, last))
       /\ Unseen(o, s) = Append(Unseen(m, s), [head |-> h, len |-> n])
  BY <1>5, <1>8, <1>11, <1>12, <1>13, <1>18, QueueReturned
<1>20. seen' = [seen EXCEPT ![RXQ] = s] /\ owned' = [owned EXCEPT ![RXQ] = mine]
  BY <1>3, <1>4, <1>10 DEF NetInv, QueuesOK
<1>21. QueuesOK
  BY DEF NetInv
<1>22. /\ QueuesOK'
       /\ Available(RXQ)' = Offered(o, Succ(last)) /\ Returned(RXQ)' = Unseen(o, s)
       /\ Available(TXQ)' = Available(TXQ) /\ Returned(TXQ)' = Returned(TXQ)
  BY <1>9, <1>11, <1>12, <1>19, <1>20, <1>21, OneQueue
<1>23. Available(RXQ) = Offered(m, last) /\ Returned(RXQ) = Unseen(m, s)
  BY <1>1, <1>2, <1>3, <1>11, QueueState
<1>24. IrqTypeOK'
  BY <1>10 DEF NetInv, IrqTypeOK, SetInterrupt, handlerVars
<1>25. DeviceOK'
  <2>1. queue'[RXQ] = o /\ o.avail_idx \in Indices
    BY <1>9, <1>11, <1>19, <1>21, MemoryParts DEF QueuesOK, QueueOK
  <2> QED
    BY <1>9, <1>10, <2>1 DEF NetInv, DeviceOK
<1>26. ChainsOK'
  <2>1. mem' \in [Chains -> Kept]
    BY <1>9, <1>18 DEF NetInv, ChainsOK
  <2>2. \A g \in TxHeads : g # h /\ g \in Chains
    BY <1>17, QueueNames DEF Chains
  <2>3. \A g \in TxHeads : mem'[g] = mem[g]
    BY <1>9, <2>2 DEF NetInv, ChainsOK
  <2> QED
    BY <1>10, <2>1, <2>3 DEF NetInv, ChainsOK
<1>27. RingOK(rx_buf', rx_head', rx_tail', rx_count')
  BY <1>9, <1>10, <1>15
<1>28. wire' \in Sent
  BY <1>9 DEF Sent
<1> QED
  BY <1>7, <1>9, <1>15, <1>16, <1>17, <1>19, <1>22, <1>23, <1>24, <1>25, <1>26, <1>27, <1>28
  DEF NetInv

\* The driver gives a buffer to one of the queues.
LEMMA GiveHolds ==
  ASSUME NetInv, NEW q \in Queues, NEW h \in owned[q], work = "idle",
         queue' = [queue EXCEPT ![q] = Offer(queue[q], h)],
         owned' = [owned EXCEPT ![q] = owned[q] \ {h}],
         UNCHANGED <<last_avail_idx, seen>>
  PROVE  /\ QueuesOK' /\ h \in Heads[q]
         /\ Available(q)' = Append(Available(q), h) /\ Returned(q)' = Returned(q)
         /\ \A r \in Queues \ {q} :
              Available(r)' = Available(r) /\ Returned(r)' = Returned(r)
<1>1. PICK H : H = Heads[q]
  OBVIOUS
<1>2. PICK m : m = queue[q]
  OBVIOUS
<1>3. PICK last : last = last_avail_idx[q]
  OBVIOUS
<1>4. PICK s : s = seen[q]
  OBVIOUS
<1>5. PICK mine : mine = owned[q]
  OBVIOUS
<1>6. PICK o : o = Offer(m, h)
  OBVIOUS
<1>7. PICK out : out = H \ mine
  OBVIOUS
<1>8. /\ QueueOK(H, m, last, s, out) /\ mine \subseteq H /\ Small(H)
      /\ h \in H \ out /\ out \cup {h} = H \ (mine \ {h})
  BY <1>1, <1>2, <1>3, <1>4, <1>5, <1>7, QueueNames DEF NetInv, QueuesOK
<1>9. /\ QueueOK(H, o, last, s, out \cup {h})
      /\ Offered(o, last) = Append(Offered(m, last), h)
      /\ Unseen(o, s) = Unseen(m, s)
  BY <1>6, <1>8, QueueOffered
<1>10. /\ QueueOK(H, o, last, s, H \ (mine \ {h})) /\ mine \ {h} \subseteq H
  BY <1>8, <1>9
<1>11. /\ queue' = [queue EXCEPT ![q] = o]
       /\ last_avail_idx' = [last_avail_idx EXCEPT ![q] = last]
       /\ seen' = [seen EXCEPT ![q] = s]
       /\ owned' = [owned EXCEPT ![q] = mine \ {h}]
  BY <1>2, <1>3, <1>4, <1>5, <1>6 DEF NetInv, QueuesOK
<1>12. QueuesOK
  BY DEF NetInv
<1>13. /\ QueuesOK'
       /\ Available(q)' = Offered(o, last) /\ Returned(q)' = Unseen(o, s)
  BY <1>1, <1>10, <1>11, <1>12, OneQueue
<1>14. ASSUME NEW r \in Queues \ {q}
       PROVE  Available(r)' = Available(r) /\ Returned(r)' = Returned(r)
  <2>1. queue'[r] = queue[r] /\ last_avail_idx' = last_avail_idx /\ seen' = seen
    BY <1>12 DEF QueuesOK
  <2> QED
    BY <2>1 DEF Available, Returned
<1>15. Available(q) = Offered(m, last) /\ Returned(q) = Unseen(m, s)
  BY <1>2, <1>3, <1>4, QueueState
<1> QED
  BY <1>1, <1>8, <1>9, <1>13, <1>15, <1>14

LEMMA PostHolds ==
  ASSUME NetInv, NEW h \in RxHeads, Post(h)
  PROVE  /\ NetInv'
         /\ wire' = Nothing /\ UNCHANGED <<Waiting, mem>>
         /\ Available(RXQ)' = Append(Available(RXQ), h) /\ Returned(RXQ)' = Returned(RXQ)
         /\ Available(TXQ)' = Available(TXQ) /\ Returned(TXQ)' = Returned(TXQ)
<1>1. /\ work = "idle" /\ h \in owned[RXQ]
      /\ queue' = [queue EXCEPT ![RXQ] = Offer(queue[RXQ], h)]
      /\ owned' = [owned EXCEPT ![RXQ] = owned[RXQ] \ {h}]
      /\ wire' = Nothing
      /\ UNCHANGED <<irqVars, rx_buf, rx_head, rx_tail, rx_count>>
      /\ UNCHANGED <<queue_pfn, last_avail_idx, avail_idx, work, mem, seen>>
  BY DEF Post, Running, ringVars, deviceVars
<1>2. RXQ \in Queues /\ TXQ \in Queues \ {RXQ}
  BY QueueNames
<1>3. /\ QueuesOK'
      /\ Available(RXQ)' = Append(Available(RXQ), h) /\ Returned(RXQ)' = Returned(RXQ)
      /\ Available(TXQ)' = Available(TXQ) /\ Returned(TXQ)' = Returned(TXQ)
  BY <1>1, <1>2, GiveHolds
<1>4. IrqTypeOK' /\ DeviceOK'
  BY <1>1 DEF NetInv, IrqTypeOK, irqVars, flagVars, handlerVars, DeviceOK
<1>5. ChainsOK'
  <2>1. owned'[TXQ] = owned[TXQ]
    BY <1>1, <1>2 DEF NetInv, QueuesOK
  <2> QED
    BY <1>1, <2>1 DEF NetInv, ChainsOK
<1>6. RingOK(rx_buf, rx_head, rx_tail, rx_count)' /\ wire' \in Sent /\ UNCHANGED Waiting
  BY <1>1 DEF NetInv, Sent, Waiting
<1> QED
  BY <1>1, <1>3, <1>4, <1>5, <1>6 DEF NetInv

LEMMA SubmitHolds ==
  ASSUME NetInv, NEW h \in TxHeads, NEW f \in Frames, Submit(h, f)
  PROVE  /\ NetInv'
         /\ wire' = Nothing /\ UNCHANGED Waiting
         /\ mem' = [mem EXCEPT ![h] = f] /\ h \in owned[TXQ]
         /\ Available(TXQ)' = Append(Available(TXQ), h) /\ Returned(TXQ)' = Returned(TXQ)
         /\ Available(RXQ)' = Available(RXQ) /\ Returned(RXQ)' = Returned(RXQ)
<1>1. /\ work = "idle" /\ h \in owned[TXQ]
      /\ queue' = [queue EXCEPT ![TXQ] = Offer(queue[TXQ], h)]
      /\ owned' = [owned EXCEPT ![TXQ] = owned[TXQ] \ {h}]
      /\ mem' = [mem EXCEPT ![h] = f]
      /\ wire' = Nothing
      /\ UNCHANGED <<irqVars, rx_buf, rx_head, rx_tail, rx_count>>
      /\ UNCHANGED <<queue_pfn, last_avail_idx, avail_idx, work, seen>>
  BY DEF Submit, Running, ringVars, deviceVars
<1>2. TXQ \in Queues /\ RXQ \in Queues \ {TXQ}
  BY QueueNames
<1>3. /\ QueuesOK'
      /\ Available(TXQ)' = Append(Available(TXQ), h) /\ Returned(TXQ)' = Returned(TXQ)
      /\ Available(RXQ)' = Available(RXQ) /\ Returned(RXQ)' = Returned(RXQ)
  BY <1>1, <1>2, GiveHolds
<1>4. IrqTypeOK' /\ DeviceOK'
  BY <1>1 DEF NetInv, IrqTypeOK, irqVars, flagVars, handlerVars, DeviceOK
<1>5. ChainsOK'
  <2>1. owned'[TXQ] = owned[TXQ] \ {h}
    BY <1>1, <1>2 DEF NetInv, QueuesOK
  <2>2. mem' \in [Chains -> Kept] /\ mem'[h] = f
        /\ \A g \in Chains \ {h} : mem'[g] = mem[g]
    BY <1>1 DEF NetInv, ChainsOK, Kept, Chains
  <2>3. \A g \in TxHeads : g \in Chains
    BY DEF Chains
  <2> QED
    BY <2>1, <2>2, <2>3 DEF NetInv, ChainsOK
<1>6. RingOK(rx_buf, rx_head, rx_tail, rx_count)' /\ wire' \in Sent /\ UNCHANGED Waiting
  BY <1>1 DEF NetInv, Sent, Waiting
<1> QED
  BY <1>1, <1>3, <1>4, <1>5, <1>6 DEF NetInv

\* One frame, the oldest, onto the wire or not; the buffer goes back.
LEMMA TransmitHolds ==
  ASSUME NetInv, Transmit
  PROVE  /\ NetInv'
         /\ UNCHANGED <<Waiting, mem>>
         /\ Available(RXQ)' = Available(RXQ) /\ Returned(RXQ)' = Returned(RXQ)
         /\ \E h \in TxHeads :
              /\ mem[h] \in Frames
              /\ wire' \in {Gathered(mem[h]), Nothing}
              /\ Available(TXQ) # <<>> /\ h = Head(Available(TXQ))
              /\ Available(TXQ)' = Tail(Available(TXQ))
              /\ Returned(TXQ)' = Append(Returned(TXQ), [head |-> h, len |-> 0])
<1>1. PICK m : m = queue[TXQ]
  OBVIOUS
<1>2. PICK last : last = last_avail_idx[TXQ]
  OBVIOUS
<1>3. PICK s : s = seen[TXQ]
  OBVIOUS
<1>4. PICK mine : mine = owned[TXQ]
  OBVIOUS
<1>5. PICK h : h = At(m.avail, last)
  OBVIOUS
<1>6. PICK n \in Nat : n = 0
  OBVIOUS
<1>7. PICK o : o = Return(m, h, n)
  OBVIOUS
<1>8. /\ work = "transmit" /\ last # avail_idx
      /\ wire' \in {Gathered(mem[h]), Nothing}
      /\ queue' = [queue EXCEPT ![TXQ] = o]
      /\ last_avail_idx' = [last_avail_idx EXCEPT ![TXQ] = Succ(last)]
      /\ UNCHANGED <<irqVars, rx_buf, rx_head, rx_tail, rx_count>>
      /\ UNCHANGED <<queue_pfn, avail_idx, work, mem, owned, seen>>
  BY <1>1, <1>2, <1>5, <1>6, <1>7 DEF Transmit, ringVars, driverVars
<1>9. /\ TXQ \in Queues /\ RXQ \in Queues \ {TXQ} /\ Heads[TXQ] = TxHeads
      /\ Small(TxHeads) /\ Nothing \notin TxHeads
  BY QueueNames
<1>10. QueueOK(TxHeads, m, last, s, TxHeads \ mine) /\ mine \subseteq TxHeads
  BY <1>1, <1>2, <1>3, <1>4, <1>9 DEF NetInv, QueuesOK
<1>11. last # m.avail_idx
  BY <1>1, <1>8 DEF NetInv, DeviceOK
<1>12. /\ h \in TxHeads \ mine
       /\ Offered(m, last) # <<>> /\ h = Head(Offered(m, last))
  BY <1>5, <1>9, <1>10, <1>11, QueueReturned
<1>13. /\ QueueOK(TxHeads, o, Succ(last), s, TxHeads \ mine)
       /\ o.avail_idx = m.avail_idx
       /\ Offered(o, Succ(last)) = Tail(Offered(m, last))
       /\ Unseen(o, s) = Append(Unseen(m, s), [head |-> h, len |-> n])
  BY <1>5, <1>7, <1>9, <1>10, <1>11, QueueReturned
<1>14. seen' = [seen EXCEPT ![TXQ] = s] /\ owned' = [owned EXCEPT ![TXQ] = mine]
  BY <1>3, <1>4, <1>8 DEF NetInv, QueuesOK
<1>15. QueuesOK
  BY DEF NetInv
<1>16. /\ QueuesOK'
       /\ Available(TXQ)' = Offered(o, Succ(last)) /\ Returned(TXQ)' = Unseen(o, s)
       /\ Available(RXQ)' = Available(RXQ) /\ Returned(RXQ)' = Returned(RXQ)
  BY <1>8, <1>9, <1>10, <1>13, <1>14, <1>15, OneQueue
<1>17. Available(TXQ) = Offered(m, last) /\ Returned(TXQ) = Unseen(m, s)
  BY <1>1, <1>2, <1>3, <1>9, QueueState
<1>18. mem[h] \in Frames
  BY <1>4, <1>12 DEF NetInv, ChainsOK
<1>19. IrqTypeOK' /\ ChainsOK'
  BY <1>8 DEF NetInv, IrqTypeOK, irqVars, flagVars, handlerVars, ChainsOK
<1>20. DeviceOK'
  <2>1. queue'[TXQ].avail_idx = queue[TXQ].avail_idx
    BY <1>1, <1>8, <1>9, <1>13, <1>15 DEF QueuesOK
  <2> QED
    BY <1>8, <2>1 DEF NetInv, DeviceOK
<1>21. RingOK(rx_buf, rx_head, rx_tail, rx_count)' /\ UNCHANGED Waiting
  BY <1>8 DEF NetInv, Waiting
<1>22. wire' \in Sent
  BY <1>8, <1>18 DEF Sent
<1> QED
  BY <1>6, <1>8, <1>12, <1>13, <1>16, <1>17, <1>18, <1>19, <1>20, <1>21, <1>22 DEF NetInv

\* The driver takes the oldest buffer back.
LEMMA ReapHolds ==
  ASSUME NetInv, NEW q \in Queues, Reap(q)
  PROVE  /\ NetInv'
         /\ wire' = Nothing /\ UNCHANGED Waiting
         /\ Returned(q) # <<>> /\ Returned(q)' = Tail(Returned(q))
         /\ Available(q)' = Available(q)
         /\ \A r \in Queues \ {q} :
              Available(r)' = Available(r) /\ Returned(r)' = Returned(r)
         /\ Head(Returned(q)).head \in Heads[q] \ owned[q]
         /\ Head(Returned(q)).head \in owned'[q]
         /\ mem' = [mem EXCEPT ![Head(Returned(q)).head] = Nothing]
<1>1. PICK H : H = Heads[q]
  OBVIOUS
<1>2. PICK m : m = queue[q]
  OBVIOUS
<1>3. PICK last : last = last_avail_idx[q]
  OBVIOUS
<1>4. PICK s : s = seen[q]
  OBVIOUS
<1>5. PICK mine : mine = owned[q]
  OBVIOUS
<1>6. PICK e : e = At(m.used, s)
  OBVIOUS
<1>7. PICK o : o = Scrub(m, s)
  OBVIOUS
<1>8. PICK out : out = H \ mine
  OBVIOUS
<1>9. /\ work = "idle" /\ guest = "reap" /\ s # m.used_idx
      /\ owned' = [owned EXCEPT ![q] = mine \cup {e.head}]
      /\ mem' = [mem EXCEPT ![e.head] = Nothing]
      /\ queue' = [queue EXCEPT ![q] = o]
      /\ seen' = [seen EXCEPT ![q] = Succ(s)]
      /\ wire' = Nothing
      /\ UNCHANGED <<irqVars, rx_buf, rx_head, rx_tail, rx_count>>
      /\ UNCHANGED <<queue_pfn, last_avail_idx, avail_idx, work>>
  BY <1>2, <1>4, <1>5, <1>6, <1>7 DEF Reap, Running, Unread, ringVars, deviceVars
<1>10. QueueOK(H, m, last, s, out) /\ mine \subseteq H /\ Small(H) /\ H \subseteq Chains
  BY <1>1, <1>2, <1>3, <1>4, <1>5, <1>8, QueueNames DEF NetInv, QueuesOK
<1>11. /\ Unseen(m, s) # <<>> /\ e = Head(Unseen(m, s)) /\ e.head \in out
       /\ QueueOK(H, o, last, Succ(s), out \ {e.head})
       /\ o.avail_idx = m.avail_idx
       /\ Offered(o, last) = Offered(m, last)
       /\ Unseen(o, Succ(s)) = Tail(Unseen(m, s))
  <2>1. s # m.used_idx
    BY <1>9
  <2>2. QueueOK(H, m, last, s, out) /\ Small(H)
    BY <1>10
  <2>3. QueueOK(H, o, last, Succ(s), out \ {e.head})
    BY <1>6, <1>7, <2>1, <2>2, QueueScrubbed
  <2> QED
    BY <1>6, <1>7, <2>1, <2>2, <2>3, QueueScrubbed
<1>12. PICK given : given = mine \cup {e.head}
  OBVIOUS
<1>13. given \subseteq H /\ out \ {e.head} = H \ given
  BY <1>8, <1>10, <1>11, <1>12
<1>14. QueueOK(H, o, last, Succ(s), H \ given)
  BY <1>11, <1>13
<1>15. /\ last_avail_idx' = [last_avail_idx EXCEPT ![q] = last]
       /\ owned' = [owned EXCEPT ![q] = given]
       /\ QueuesOK
  BY <1>3, <1>9, <1>12 DEF NetInv, QueuesOK
<1>16. /\ QueuesOK'
       /\ Available(q)' = Offered(o, last) /\ Returned(q)' = Unseen(o, Succ(s))
  BY <1>1, <1>9, <1>13, <1>14, <1>15, OneQueue
<1>17. ASSUME NEW r \in Queues \ {q}
       PROVE  Available(r)' = Available(r) /\ Returned(r)' = Returned(r)
  <2>1. queue'[r] = queue[r] /\ last_avail_idx' = last_avail_idx /\ seen'[r] = seen[r]
    BY <1>9, <1>15 DEF QueuesOK
  <2> QED
    BY <2>1 DEF Available, Returned
<1>18. Available(q) = Offered(m, last) /\ Returned(q) = Unseen(m, s)
  BY <1>2, <1>3, <1>4, QueueState
<1>19. IrqTypeOK'
  BY <1>9 DEF NetInv, IrqTypeOK, irqVars, flagVars, handlerVars
<1>20. DeviceOK'
  BY <1>9 DEF NetInv, DeviceOK
<1>21. ChainsOK'
  <2>1. mem' \in [Chains -> Kept]
    <3>1. Nothing \in Kept
      BY DEF Kept
    <3>2. mem \in [Chains -> Kept] /\ mem' = [mem EXCEPT ![e.head] = Nothing]
      BY <1>9 DEF NetInv, ChainsOK
    <3> QED
      BY <3>1, <3>2
  <2>2. \A h \in Chains \ {e.head} : mem'[h] = mem[h]
    BY <1>9 DEF NetInv, ChainsOK
  <2>3. ASSUME NEW h \in TxHeads \ owned'[TXQ]
        PROVE  h # e.head /\ h \in TxHeads \ owned[TXQ]
    <3>1. CASE q = TXQ
      <4>1. owned'[TXQ] = mine \cup {e.head}
        BY <1>9, <1>15, <3>1 DEF QueuesOK
      <4> QED
        BY <1>5, <2>3, <3>1, <4>1
    <3>2. CASE q # TXQ
      <4>1. H = RxHeads
        BY <1>1, <3>2, QueueNames
      <4>2. e.head \in RxHeads
        BY <1>8, <1>11, <4>1
      <4>3. owned'[TXQ] = owned[TXQ]
        BY <1>9, <1>15, <3>2, QueueNames DEF QueuesOK
      <4> QED
        BY <2>3, <4>2, <4>3, QueueNames
    <3> QED
      BY <3>1, <3>2
  <2>4. TxHeads \subseteq Chains
    BY DEF Chains
  <2> QED
    BY <2>1, <2>2, <2>3, <2>4 DEF NetInv, ChainsOK
<1>22. RingOK(rx_buf, rx_head, rx_tail, rx_count)' /\ UNCHANGED Waiting /\ wire' \in Sent
  BY <1>9 DEF NetInv, Waiting, Sent
<1>23. e.head \in owned'[q]
  BY <1>9, <1>15 DEF QueuesOK
<1> QED
  BY <1>1, <1>5, <1>8, <1>9, <1>11, <1>16, <1>17, <1>18, <1>19, <1>20, <1>21, <1>22, <1>23
  DEF NetInv

LEMMA RestartHolds ==
  ASSUME NetInv, Restart
  PROVE  /\ NetInv'
         /\ wire' = Nothing /\ UNCHANGED Waiting
         /\ \A q \in Queues : Available(q)' = <<>> /\ Returned(q)' = <<>>
<1>1. /\ work = "idle"
      /\ queue_pfn' = [q \in Queues |-> FALSE]
      /\ last_avail_idx' = [q \in Queues |-> 0]
      /\ guest' = "down" /\ interrupt_status' = FALSE /\ interrupting' = FALSE
      /\ queue' = [q \in Queues |-> Zeroed(Nothing)]
      /\ owned' = Heads
      /\ seen' = [q \in Queues |-> 0]
      /\ mem' = [h \in Chains |-> Nothing]
      /\ wire' = Nothing
      /\ UNCHANGED <<latched, isr, rx_buf, rx_head, rx_tail, rx_count, avail_idx, work>>
  BY DEF Restart, ResetDevice, Running, ringVars, Chains
<1>2. \A q \in Queues : Heads[q] \ owned'[q] = {} /\ queue'[q] = Zeroed(Nothing)
                        /\ last_avail_idx'[q] = 0 /\ seen'[q] = 0
  BY <1>1
<1>3. QueuesOK'
  <2>1. \A q \in Queues : QueueOK(Heads[q], Zeroed(Nothing), 0, 0, {})
    BY QueueZeroed
  <2> QED
    BY <1>1, <1>2, <2>1, QueueNames, QueueSizes DEF QueuesOK
<1>4. \A q \in Queues : Available(q)' = <<>> /\ Returned(q)' = <<>>
  <2>1. Offered(Zeroed(Nothing), 0) = <<>> /\ Unseen(Zeroed(Nothing), 0) = <<>>
    BY QueueZeroed
  <2> QED
    BY <1>2, <2>1 DEF Available, Returned, Offered, Unseen
<1>5. IrqTypeOK' /\ DeviceOK'
  BY <1>1 DEF NetInv, IrqTypeOK, GuestPlaces, DeviceOK
<1>6. ChainsOK'
  BY <1>1, QueueNames DEF ChainsOK, Kept
<1>7. RingOK(rx_buf, rx_head, rx_tail, rx_count)' /\ UNCHANGED Waiting /\ wire' \in Sent
  BY <1>1 DEF NetInv, Waiting, Sent
<1> QED
  BY <1>1, <1>3, <1>4, <1>5, <1>6, <1>7 DEF NetInv

-----------------------------------------------------------------------------
LEMMA NextHolds == NetInv /\ [NetNext]_vars => NetInv'
<1> SUFFICES ASSUME NetInv, [NetNext]_vars PROVE NetInv'
  OBVIOUS
<1>1. CASE Quiet \/ UNCHANGED vars
  BY <1>1, QuietHolds
<1>2. ASSUME NEW p \in Packets, Push(p)
      PROVE  NetInv'
  BY <1>2, PushHolds
<1>3. CASE Deliver
  BY <1>3, DeliverHolds
<1>4. CASE Transmit
  BY <1>4, TransmitHolds
<1>5. CASE Restart
  BY <1>5, RestartHolds
<1>6. ASSUME NEW q \in Queues, Reap(q)
      PROVE  NetInv'
  BY <1>6, ReapHolds
<1>7. ASSUME NEW h \in RxHeads, Post(h)
      PROVE  NetInv'
  BY <1>7, PostHolds
<1>8. ASSUME NEW h \in TxHeads, NEW f \in Frames, Submit(h, f)
      PROVE  NetInv'
  BY <1>8, SubmitHolds
<1> QED
  BY <1>1, <1>2, <1>3, <1>4, <1>5, <1>6, <1>7, <1>8
  DEF NetNext, Thread, Poll, Send, Driver, Quiet

\* The types: packets and positions stay within the ring of packets, and the
\* rings of the queues hold heads of their own queue or nothing.
THEOREM NetTypeCorrect == NetSpec => []NetTypeOK
<1>1. NetInit => NetInv
  BY InitHolds
<1>2. NetInv /\ [NetNext]_vars => NetInv'
  BY NextHolds
<1>3. NetInv => NetTypeOK
  BY NetInvTypes
<1> QED
  BY <1>1, <1>2, <1>3, PTL DEF NetSpec

\* Every buffer of both queues is with the driver, in avail or in used, once:
\* at every step, at every wrap of the indices and over a reset.
THEOREM NetConserves == NetSpec => []BuffersConserved
<1>1. NetInit => NetInv
  BY InitHolds
<1>2. NetInv /\ [NetNext]_vars => NetInv'
  BY NextHolds
<1>3. NetInv => BuffersConserved
  BY NetInvConserves
<1> QED
  BY <1>1, <1>2, <1>3, PTL DEF NetSpec

-----------------------------------------------------------------------------
(* Signals.  What they need of the memory of a queue is less than the      *)
(* invariant above says of it.                                             *)

\* Memory of a queue, as far as the signals depend on it.
Shape(q) ==
  /\ DOMAIN q = {"avail", "avail_idx", "used", "used_idx"}
  /\ q.used_idx \in Indices

RingsOK ==
  /\ seen \in [Queues -> Indices]
  /\ DOMAIN queue = Queues
  /\ \A q \in Queues : Shape(queue[q])

\* The property itself is inductive over the types: Transmit returns frames
\* before it signals, and until TransmitEnd nobody else runs who could look.
SignalInv ==
  /\ IrqTypeOK
  /\ RingsOK
  /\ ReturnsAnnounced

\* What one side of a queue writes to its half leaves the other's alone.
LEMMA OfferKeeps ==
  ASSUME NEW q, NEW h, Shape(q)
  PROVE  Shape(Offer(q, h)) /\ Offer(q, h).used_idx = q.used_idx
BY DEF Shape, Offer

LEMMA ReturnKeeps ==
  ASSUME NEW q, NEW h, NEW n, Shape(q)
  PROVE  Shape(Return(q, h, n))
<1>1. Succ(q.used_idx) \in Indices
  BY SuccKeeps DEF Shape
<1> HIDE DEF Succ
<1> QED
  BY <1>1 DEF Shape, Return

LEMMA ScrubKeeps ==
  ASSUME NEW q, NEW i, Shape(q)
  PROVE  Shape(Scrub(q, i))
BY DEF Shape, Scrub

-----------------------------------------------------------------------------
(* The three ways in which a step keeps the invariant.                     *)

\* Nothing is returned, and the signal is handed on.
LEMMA HandedOn ==
  ASSUME SignalInv, IrqTypeOK', Announced => Announced',
         UNCHANGED <<queue, seen>>,
         work = "transmit" => work' = "transmit" \/ Announced'
  PROVE  SignalInv'
BY DEF SignalInv, RingsOK, ReturnsAnnounced, Unread, Shape

\* Something is returned, with a signal or before one.
LEMMA Signalled ==
  ASSUME IrqTypeOK', RingsOK', Announced' \/ work' = "transmit"
  PROVE  SignalInv'
BY DEF SignalInv, ReturnsAnnounced

\* Returning to a queue keeps the rings.
LEMMA RingsReturn ==
  ASSUME RingsOK, NEW q \in Queues, NEW h, NEW n,
         queue' = [queue EXCEPT ![q] = Return(queue[q], h, n)], seen' = seen
  PROVE  RingsOK'
<1>1. Shape(Return(queue[q], h, n))
  BY ReturnKeeps DEF RingsOK
<1> HIDE DEF Return
<1>2. \A r \in Queues : queue'[r] = IF r = q THEN Return(queue[q], h, n) ELSE queue[r]
  BY DEF RingsOK
<1>3. \A r \in Queues : Shape(queue'[r])
  BY <1>1, <1>2 DEF RingsOK
<1>4. DOMAIN queue' = Queues
  BY DEF RingsOK
<1> QED
  BY <1>3, <1>4 DEF RingsOK, Shape

-----------------------------------------------------------------------------
LEMMA NetInitHolds == NetInit => SignalInv
<1> SUFFICES ASSUME NetInit PROVE SignalInv
  OBVIOUS
<1>1. 0 \in Indices
  BY QueueAssumption DEF Indices
<1>2. IrqTypeOK
  BY DEF NetInit, IrqInit, IrqTypeOK, GuestPlaces
<1>3. Shape(Zeroed(Nothing)) /\ Zeroed(Nothing).used_idx = 0
  BY <1>1 DEF Zeroed, Shape
<1>4. RingsOK /\ \A q \in Queues : queue[q].used_idx = 0 /\ seen[q] = 0
  BY <1>1, <1>3 DEF NetInit, RingsOK
<1> QED
  BY <1>2, <1>4 DEF SignalInv, ReturnsAnnounced, Unread

LEMMA DeviceStep ==
  ASSUME SignalInv, Thread \/ Poll \/ Send
  PROVE  SignalInv'
<1> USE DEF SignalInv
<1>1. CASE Thread \/ PollStart \/ DeliverEnd \/ Notify
  <2>1. UNCHANGED <<irqVars, queue, seen>> /\ (work = "transmit" => UNCHANGED work)
    BY <1>1 DEF Thread, Push, Drop, PollStart, DeliverEnd, Notify, memVars, driverVars
  <2> QED
    BY <2>1, HandedOn DEF irqVars, flagVars, handlerVars, IrqTypeOK, Announced
<1>2. CASE PollEmpty \/ PollEnd
  <2>1. /\ Latch
        /\ UNCHANGED <<interrupt_status, handlerVars>>
        /\ UNCHANGED <<queue, seen>>
        /\ work # "transmit"
    BY <1>2 DEF PollEmpty, PollEnd, memVars, driverVars
  <2> QED
    BY <2>1, LatchKeeps, HandedOn
<1>3. CASE Deliver
  <2>1. PICK h, n : queue' = [queue EXCEPT ![RXQ] = Return(queue[RXQ], h, n)]
    BY <1>3 DEF Deliver
  <2>2. SetInterrupt /\ UNCHANGED <<latched, handlerVars, seen>>
    BY <1>3 DEF Deliver, driverVars
  <2>3. RingsOK'
    BY <2>1, <2>2, RingsReturn DEF Queues
  <2> QED
    BY <2>2, <2>3, Signalled DEF SetInterrupt, IrqTypeOK, handlerVars, Announced
<1>4. CASE Transmit
  <2>1. PICK h : queue' = [queue EXCEPT ![TXQ] = Return(queue[TXQ], h, 0)]
    BY <1>4 DEF Transmit
  <2>2. UNCHANGED <<irqVars, seen, work>> /\ work = "transmit"
    BY <1>4 DEF Transmit, driverVars
  <2>3. RingsOK'
    BY <2>1, <2>2, RingsReturn DEF Queues
  <2> QED
    BY <2>2, <2>3, Signalled DEF irqVars, flagVars, handlerVars, IrqTypeOK
<1>5. CASE TransmitEnd
  <2>1. SetInterrupt /\ UNCHANGED <<latched, handlerVars>> /\ UNCHANGED <<queue, seen>>
    BY <1>5 DEF TransmitEnd, memVars, driverVars
  <2>2. IrqTypeOK' /\ Announced'
    BY <2>1 DEF SetInterrupt, IrqTypeOK, handlerVars, Announced
  <2> QED
    BY <2>1, <2>2, HandedOn
<1> QED
  BY <1>1, <1>2, <1>3, <1>4, <1>5 DEF Poll, Send

LEMMA DriverStep ==
  ASSUME SignalInv, Driver
  PROVE  SignalInv'
<1> USE DEF SignalInv
<1>1. CASE SetUp
  <2>1. IrqTypeOK' /\ (Announced => Announced') /\ UNCHANGED <<queue, seen>> /\ work = "idle"
    BY <1>1
    DEF SetUp, Running, memVars, driverVars, IrqTypeOK, GuestPlaces, Announced, flagVars
  <2> QED
    BY <2>1, HandedOn
<1>2. CASE HandleIrq
  <2>1. Handle /\ UNCHANGED <<queue, seen>> /\ work = "idle"
    BY <1>2 DEF HandleIrq, Running, memVars, driverVars
  <2> QED
    BY <2>1, HandleKeeps, HandedOn
<1>3. CASE ReapEnd
  <2>1. UNCHANGED <<queue, seen>> /\ \A q \in Queues : ~Unread(q)
    BY <1>3 DEF ReapEnd, memVars, driverVars
  <2>2. IrqTypeOK'
    BY <1>3 DEF ReapEnd, flagVars, IrqTypeOK, GuestPlaces
  <2> QED
    BY <2>1, <2>2 DEF RingsOK, ReturnsAnnounced, Unread, Shape
<1>4. CASE Restart
  <2>1. 0 \in Indices
    BY QueueAssumption DEF Indices
  <2>2. Shape(Zeroed(Nothing)) /\ Zeroed(Nothing).used_idx = 0
    BY <2>1 DEF Zeroed, Shape
  <2>3. RingsOK' /\ \A q \in Queues : queue'[q].used_idx = 0 /\ seen'[q] = 0
    BY <1>4, <2>1, <2>2 DEF Restart, RingsOK
  <2>4. IrqTypeOK'
    BY <1>4 DEF Restart, ResetDevice, IrqTypeOK, GuestPlaces
  <2> QED
    BY <2>3, <2>4 DEF ReturnsAnnounced, Unread
<1>5. ASSUME NEW q \in Queues, Reap(q)
      PROVE  SignalInv'
  <2>1. UNCHANGED irqVars /\ guest = "reap"
    BY <1>5 DEF Reap
  <2>2. seen' \in [Queues -> Indices]
    BY <1>5, SuccKeeps DEF Reap, RingsOK
  <2>3. Shape(Scrub(queue[q], seen[q]))
    BY ScrubKeeps DEF RingsOK
  <2>4. queue' = [queue EXCEPT ![q] = Scrub(queue[q], seen[q])]
    BY <1>5 DEF Reap
  <2> HIDE DEF Scrub
  <2>5. DOMAIN queue' = Queues /\ \A r \in Queues : Shape(queue'[r])
    BY <2>3, <2>4 DEF RingsOK
  <2>6. RingsOK'
    BY <2>2, <2>5 DEF RingsOK, Shape
  <2> QED
    BY <2>1, <2>6, Signalled DEF irqVars, flagVars, handlerVars, IrqTypeOK, Announced
<1>6. ASSUME NEW q \in Queues, NEW h,
             queue' = [queue EXCEPT ![q] = Offer(queue[q], h)],
             UNCHANGED <<irqVars, work, seen>>, work = "idle"
      PROVE  SignalInv'
  <2>1. Shape(Offer(queue[q], h)) /\ Offer(queue[q], h).used_idx = queue[q].used_idx
    BY OfferKeeps DEF RingsOK
  <2>2. DOMAIN queue' = Queues
    BY <1>6 DEF RingsOK
  <2>3. \A r \in Queues : queue'[r] = IF r = q THEN Offer(queue[q], h) ELSE queue[r]
    BY <1>6 DEF RingsOK
  <2>4. \A r \in Queues : Shape(queue'[r]) /\ queue'[r].used_idx = queue[r].used_idx
    BY <2>1, <2>3 DEF RingsOK
  <2>5. RingsOK'
    BY <1>6, <2>2, <2>4 DEF RingsOK, Shape
  <2> QED
    BY <1>6, <2>4, <2>5
    DEF ReturnsAnnounced, Unread, irqVars, flagVars, handlerVars, IrqTypeOK, Announced
<1>7. ASSUME NEW h \in RxHeads, Post(h)
      PROVE  SignalInv'
  BY <1>7, <1>6 DEF Post, Running, Queues
<1>8. ASSUME NEW h \in TxHeads, NEW f \in Frames, Submit(h, f)
      PROVE  SignalInv'
  BY <1>8, <1>6 DEF Submit, Running, Queues
<1> QED
  BY <1>1, <1>2, <1>3, <1>4, <1>5, <1>7, <1>8 DEF Driver

\* Whatever the device has returned and the driver has not read, a signal for
\* it is between the device's flag and a handler that will look, or will be
\* raised before the guest runs again: at every step of thread, poll, device
\* and driver, and over a reset.
THEOREM NetAnnounces == NetSpec => []ReturnsAnnounced
<1>1. NetInit => SignalInv
  BY NetInitHolds
<1>2. SignalInv /\ [NetNext]_vars => SignalInv'
  <2> SUFFICES ASSUME SignalInv, [NetNext]_vars PROVE SignalInv'
    OBVIOUS
  <2>1. CASE UNCHANGED vars
    BY <2>1, HandedOn
    DEF vars, irqVars, flagVars, handlerVars, memVars, driverVars, SignalInv, IrqTypeOK,
        Announced
  <2> QED
    BY <2>1, DeviceStep, DriverStep DEF NetNext
<1>3. SignalInv => ReturnsAnnounced
  BY DEF SignalInv
<1> QED
  BY <1>1, <1>2, <1>3, PTL DEF NetSpec
-----------------------------------------------------------------------------
(* NetPromise.  What it says is in the queues is the flow above, with what *)
(* is in the chains.                                                       *)

InUsed(M) ==
  [e \in Element(RxHeads) |->
     [head |-> e.head, data |-> [M[e.head] EXCEPT !.len = e.len - VIRTIO_NET_HDR_SIZE]]]
InAvail(M) == [h \in Entry(TxHeads) |-> [head |-> h, data |-> Whole(M[h])]]

LEMMA UsedView ==
  ASSUME NEW M, NEW u \in Seq(Element(RxHeads))
  PROVE  [k \in DOMAIN u |->
            [head |-> u[k].head,
             data |-> [M[u[k].head] EXCEPT !.len = u[k].len - VIRTIO_NET_HDR_SIZE]]]
           = Mapped(InUsed(M), u)
<1>1. \A k \in DOMAIN u : u[k] \in Element(RxHeads)
  BY LenProperties
<1> QED
  BY <1>1 DEF Mapped, InUsed

LEMMA AvailView ==
  ASSUME NEW M, NEW a \in Seq(Entry(TxHeads))
  PROVE  [k \in DOMAIN a |-> [head |-> a[k], data |-> Whole(M[a[k]])]]
           = Mapped(InAvail(M), a)
<1>1. \A k \in DOMAIN a : a[k] \in Entry(TxHeads)
  BY LenProperties
<1> QED
  BY <1>1 DEF Mapped, InAvail

LEMMA ViewsNow ==
  ASSUME NetInv
  PROVE  /\ Returned(RXQ) \in Seq(Element(RxHeads)) /\ Available(TXQ) \in Seq(Entry(TxHeads))
         /\ Filled = Mapped(InUsed(mem), Returned(RXQ))
         /\ ToSend = Mapped(InAvail(mem), Available(TXQ))
<1>1. Returned(RXQ) \in Seq(Element(RxHeads)) /\ Available(TXQ) \in Seq(Entry(TxHeads))
  BY QueueState, QueueNames
<1>2. Filled = Mapped(InUsed(mem), Returned(RXQ))
  BY <1>1, UsedView DEF Filled, Described
<1>3. ToSend = Mapped(InAvail(mem), Available(TXQ))
  BY <1>1, AvailView DEF ToSend
<1> QED
  BY <1>1, <1>2, <1>3

LEMMA ViewsNext ==
  ASSUME NetInv'
  PROVE  /\ Filled' = Mapped(InUsed(mem'), Returned(RXQ)')
         /\ ToSend' = Mapped(InAvail(mem'), Available(TXQ)')
         /\ \A q \in Queues : \A e \in Range(Returned(q)') : e.head \in Heads[q] \ owned'[q]
<1>1. \A q \in Queues :
        /\ QueueOK(Heads[q], queue'[q], last_avail_idx'[q], seen'[q], Heads[q] \ owned'[q])
        /\ Available(q)' = Offered(queue'[q], last_avail_idx'[q])
        /\ Returned(q)' = Unseen(queue'[q], seen'[q])
  BY DEF NetInv, QueuesOK, Available, Returned, Offered, Unseen
<1>2. ASSUME NEW q \in Queues
      PROVE  /\ Available(q)' \in Seq(Entry(Heads[q])) /\ Returned(q)' \in Seq(Element(Heads[q]))
             /\ \A e \in Range(Returned(q)') : e.head \in Heads[q] \ owned'[q]
  <2>1. PICK m : m = queue'[q]
    OBVIOUS
  <2>2. PICK last : last = last_avail_idx'[q]
    OBVIOUS
  <2>3. PICK s : s = seen'[q]
    OBVIOUS
  <2>4. PICK out : out = Heads[q] \ owned'[q]
    OBVIOUS
  <2>5. PICK H : H = Heads[q]
    OBVIOUS
  <2>6. QueueOK(H, m, last, s, out)
    BY <1>1, <2>1, <2>2, <2>3, <2>4, <2>5
  <2>7. Offered(m, last) \in Seq(Entry(H)) /\ Unseen(m, s) \in Seq(Element(H))
        /\ \A e \in Range(Unseen(m, s)) : e.head \in out
    BY <2>6, QueueApart
  <2>8. Available(q)' = Offered(m, last) /\ Returned(q)' = Unseen(m, s)
    BY <1>1, <2>1, <2>2, <2>3
  <2> QED
    BY <2>4, <2>5, <2>7, <2>8
<1>3. Returned(RXQ)' \in Seq(Element(RxHeads)) /\ Available(TXQ)' \in Seq(Entry(TxHeads))
  BY <1>2, QueueNames
<1>4. Filled' = Mapped(InUsed(mem'), Returned(RXQ)')
  BY <1>3, UsedView DEF Filled, Described
<1>5. ToSend' = Mapped(InAvail(mem'), Available(TXQ)')
  BY <1>3, AvailView DEF ToSend
<1> QED
  BY <1>2, <1>4, <1>5

\* A sequence grows, or loses its first; what it is of may change elsewhere.
LEMMA MappedGrown ==
  ASSUME NEW V, NEW s, NEW v, NEW f, NEW g, s \in Seq(V), v \in V,
         \A d \in Range(s) : g[d] = f[d]
  PROVE  Mapped(g, Append(s, v)) = Append(Mapped(f, s), g[v])
<1>1. Mapped(g, s) = Mapped(f, s)
  BY MappedSame
<1>2. Mapped(g, Append(s, v)) = Append(Mapped(g, s), g[v])
  BY MappedAppend
<1> QED
  BY <1>1, <1>2

LEMMA MappedShrunk ==
  ASSUME NEW V, NEW s, NEW f, NEW g, s \in Seq(V), s # <<>>,
         \A d \in Range(Tail(s)) : g[d] = f[d]
  PROVE  Mapped(g, Tail(s)) = Tail(Mapped(f, s))
<1>1. Tail(s) \in Seq(V)
  BY HeadTailProperties
<1>2. Mapped(g, Tail(s)) = Mapped(f, Tail(s))
  BY <1>1, MappedSame
<1>3. Mapped(f, Tail(s)) = Tail(Mapped(f, s))
  BY MappedTail
<1> QED
  BY <1>2, <1>3

LEMMA InUsedSame ==
  ASSUME NEW M, NEW N, NEW e \in Element(RxHeads), M[e.head] = N[e.head]
  PROVE  InUsed(M)[e] = InUsed(N)[e]
BY DEF InUsed

LEMMA InAvailSame ==
  ASSUME NEW M, NEW N, NEW h \in Entry(TxHeads), M[h] = N[h]
  PROVE  InAvail(M)[h] = InAvail(N)[h]
BY DEF InAvail

\* A queue that stays, with its chains.
LEMMA FilledStays ==
  ASSUME NetInv, NetInv', Returned(RXQ)' = Returned(RXQ),
         \A e \in Range(Returned(RXQ)) : mem'[e.head] = mem[e.head]
  PROVE  Filled' = Filled
<1>1. PICK u : u = Returned(RXQ)
  OBVIOUS
<1>2. u \in Seq(Element(RxHeads)) /\ Filled = Mapped(InUsed(mem), u)
  BY <1>1, ViewsNow
<1>3. Filled' = Mapped(InUsed(mem'), u)
  BY <1>1, ViewsNext
<1>4. \A e \in Range(u) : InUsed(mem')[e] = InUsed(mem)[e]
  <2>1. \A e \in Range(u) : e \in Element(RxHeads)
    BY <1>2, LenProperties DEF Range
  <2> QED
    BY <1>1, <2>1, InUsedSame
<1>5. Mapped(InUsed(mem'), u) = Mapped(InUsed(mem), u)
  BY <1>2, <1>4, MappedSame
<1> QED
  BY <1>2, <1>3, <1>5

LEMMA ToSendStays ==
  ASSUME NetInv, NetInv', Available(TXQ)' = Available(TXQ),
         \A h \in Range(Available(TXQ)) : mem'[h] = mem[h]
  PROVE  ToSend' = ToSend
<1>1. PICK a : a = Available(TXQ)
  OBVIOUS
<1>2. a \in Seq(Entry(TxHeads)) /\ ToSend = Mapped(InAvail(mem), a)
  BY <1>1, ViewsNow
<1>3. ToSend' = Mapped(InAvail(mem'), a)
  BY <1>1, ViewsNext
<1>4. \A h \in Range(a) : InAvail(mem')[h] = InAvail(mem)[h]
  <2>1. \A h \in Range(a) : h \in Entry(TxHeads)
    BY <1>2, LenProperties DEF Range
  <2> QED
    BY <1>1, <2>1, InAvailSame
<1>5. Mapped(InAvail(mem'), a) = Mapped(InAvail(mem), a)
  BY <1>2, <1>4, MappedSame
<1> QED
  BY <1>2, <1>3, <1>5

\* Where the heads of the views lie.
LEMMA HeadsApart ==
  ASSUME NetInv
  PROVE  /\ \A e \in Range(Returned(RXQ)) :
              /\ e \in Element(RxHeads) /\ e.head \in RxHeads /\ e.head \in Chains
              /\ e.head \notin TxHeads /\ e.head \notin Range(Available(RXQ))
         /\ \A h \in Range(Available(TXQ)) :
              /\ h \in TxHeads /\ h \in Chains /\ h \notin RxHeads /\ h \notin owned[TXQ]
         /\ \A e \in Range(Returned(TXQ)) : e.head \notin Range(Available(TXQ))
         /\ mem \in [Chains -> Kept]
<1>1. \A e \in Range(Returned(RXQ)) :
        e.head \in RxHeads /\ e.head \notin Range(Available(RXQ))
  BY QueueState, QueueNames
<1>2. \A h \in Range(Available(TXQ)) : h \in TxHeads /\ h \notin owned[TXQ]
  BY QueueState, QueueNames
<1>3. \A e \in Range(Returned(TXQ)) : e.head \notin Range(Available(TXQ))
  BY QueueState, QueueNames
<1>4. \A e \in Range(Returned(RXQ)) : e \in Element(RxHeads)
  BY ViewsNow, LenProperties DEF Range
<1> QED
  BY <1>1, <1>2, <1>3, <1>4, QueueNames DEF Chains, NetInv, ChainsOK

LEMMA Elsewhere ==
  ASSUME NEW h, NEW x, mem \in [Chains -> Kept], mem' = [mem EXCEPT ![h] = x]
  PROVE  \A g \in Chains : g # h => mem'[g] = mem[g]
OBVIOUS

LEMMA FirstOf ==
  ASSUME NEW V, NEW s, s \in Seq(V), s # <<>>
  PROVE  Head(s) \in Range(s) /\ Head(s) \in V /\ Range(Tail(s)) \subseteq Range(s)
<1>1. Len(s) \in Nat \ {0} /\ DOMAIN s = 1..Len(s) /\ Head(s) = s[1]
  BY EmptySeq, LenProperties
<1>2. Head(s) \in Range(s)
  BY <1>1 DEF Range
<1>3. Len(Tail(s)) = Len(s) - 1 /\ DOMAIN Tail(s) = 1..(Len(s) - 1)
      /\ \A i \in 1..(Len(s) - 1) : Tail(s)[i] = s[i + 1]
  <2>1. Tail(s) \in Seq(V) /\ Len(Tail(s)) = Len(s) - 1
        /\ \A i \in 1..Len(Tail(s)) : Tail(s)[i] = s[i + 1]
    BY HeadTailProperties
  <2> QED
    BY <2>1, LenProperties
<1>4. \A i \in 1..(Len(s) - 1) : i + 1 \in 1..Len(s)
  BY <1>1
<1>5. Range(Tail(s)) \subseteq Range(s)
  BY <1>1, <1>3, <1>4 DEF Range
<1> QED
  BY <1>2, <1>5, HeadTailProperties

-----------------------------------------------------------------------------
(* Step by step.                                                           *)

LEMMA InitPromised == ASSUME NetInit PROVE Promise!Init
<1>1. NetInv
  BY InitHolds
<1>2. \A q \in Queues : Available(q) = <<>> /\ Returned(q) = <<>>
  <2>1. Offered(Zeroed(Nothing), 0) = <<>> /\ Unseen(Zeroed(Nothing), 0) = <<>>
    BY QueueZeroed
  <2>2. \A q \in Queues : queue[q] = Zeroed(Nothing) /\ last_avail_idx[q] = 0 /\ seen[q] = 0
    BY DEF NetInit
  <2> QED
    BY <2>1, <2>2 DEF Available, Returned, Offered, Unseen
<1>3. Waiting = <<>>
  BY DEF NetInit, Waiting
<1>4. Available(RXQ) = <<>> /\ Filled = <<>> /\ ToSend = <<>> /\ HeadsOf(Returned(TXQ)) = <<>>
  BY <1>2, QueueNames DEF Filled, ToSend, HeadsOf
<1> QED
  BY <1>3, <1>4 DEF NetInit, Promise!Init

LEMMA QuietPromised ==
  ASSUME NetInv, Quiet \/ UNCHANGED vars
  PROVE  Promise!Rest \/ UNCHANGED Promise!vars
<1>1. /\ NetInv'
      /\ wire' = Nothing \/ UNCHANGED wire
      /\ UNCHANGED <<Waiting, mem>>
      /\ \A q \in Queues : Available(q)' = Available(q) /\ Returned(q)' = Returned(q)
  BY QuietHolds
<1>2. UNCHANGED <<Available(RXQ), Available(TXQ), Returned(RXQ), Returned(TXQ)>>
  BY <1>1, QueueNames
<1>3. UNCHANGED <<Filled, ToSend, HeadsOf(Returned(TXQ))>>
  BY <1>1, <1>2 DEF Filled, ToSend, Described, HeadsOf
<1> QED
  BY <1>1, <1>2, <1>3 DEF Promise!Rest, Promise!vars

LEMMA PushPromised ==
  ASSUME NetInv, NEW p \in Packets, Push(p)
  PROVE  Promise!Arrive(p)
<1>1. /\ rx_count < RING /\ Waiting' = Append(Waiting, p)
      /\ wire' = Nothing /\ UNCHANGED mem
      /\ \A q \in Queues : Available(q)' = Available(q) /\ Returned(q)' = Returned(q)
  BY PushHolds
<1>2. UNCHANGED <<Available(RXQ), Available(TXQ), Returned(RXQ), Returned(TXQ)>>
  BY <1>1, QueueNames
<1>3. UNCHANGED <<Filled, ToSend, HeadsOf(Returned(TXQ))>>
  BY <1>1, <1>2 DEF Filled, ToSend, Described, HeadsOf
<1>4. Len(Waiting) < RING
  <2>1. rx_count \in Nat
    BY RingSizes DEF NetInv, RingOK
  <2>2. Len(Waiting) = rx_count
    BY <2>1 DEF Waiting
  <2> QED
    BY <1>1, <2>2
<1> QED
  BY <1>1, <1>2, <1>3, <1>4 DEF Promise!Arrive

LEMMA PostPromised ==
  ASSUME NetInv, NEW h \in RxHeads, Post(h)
  PROVE  Promise!Post(h)
<1>1. /\ wire' = Nothing /\ UNCHANGED <<Waiting, mem>>
      /\ Available(RXQ)' = Append(Available(RXQ), h) /\ Returned(RXQ)' = Returned(RXQ)
      /\ Available(TXQ)' = Available(TXQ) /\ Returned(TXQ)' = Returned(TXQ)
  BY PostHolds
<1>2. UNCHANGED <<Filled, ToSend, HeadsOf(Returned(TXQ))>>
  BY <1>1 DEF Filled, ToSend, Described, HeadsOf
<1> QED
  BY <1>1, <1>2 DEF Promise!Post

LEMMA SubmitPromised ==
  ASSUME NetInv, NEW h \in TxHeads, NEW f \in Frames, Submit(h, f)
  PROVE  Promise!Submit(h, Whole(f))
<1>1. /\ NetInv'
      /\ wire' = Nothing /\ UNCHANGED Waiting
      /\ mem' = [mem EXCEPT ![h] = f] /\ h \in owned[TXQ]
      /\ Available(TXQ)' = Append(Available(TXQ), h) /\ Returned(TXQ)' = Returned(TXQ)
      /\ Available(RXQ)' = Available(RXQ) /\ Returned(RXQ)' = Returned(RXQ)
  BY SubmitHolds
<1>2. \A g \in Chains : g # h => mem'[g] = mem[g]
  BY <1>1, HeadsApart, Elsewhere
<1>3. Filled' = Filled
  <2>1. \A e \in Range(Returned(RXQ)) : mem'[e.head] = mem[e.head]
    BY <1>2, HeadsApart
  <2> QED
    BY <1>1, <2>1, FilledStays
<1>4. ToSend' = Append(ToSend, [head |-> h, data |-> Whole(f)])
  <2>1. PICK a : a = Available(TXQ)
    OBVIOUS
  <2>2. PICK V : V = Entry(TxHeads)
    OBVIOUS
  <2>3. a \in Seq(V) /\ ToSend = Mapped(InAvail(mem), a) /\ h \in V
    BY <2>1, <2>2, ViewsNow DEF Entry
  <2>4. ToSend' = Mapped(InAvail(mem'), Append(a, h))
    BY <1>1, <2>1, ViewsNext
  <2>5. \A g \in Range(a) : InAvail(mem')[g] = InAvail(mem)[g]
    <3>1. \A g \in Range(a) : mem'[g] = mem[g] /\ g \in Entry(TxHeads)
      BY <1>1, <1>2, <2>1, HeadsApart DEF Entry
    <3> QED
      BY <3>1, InAvailSame
  <2>6. Mapped(InAvail(mem'), Append(a, h)) = Append(Mapped(InAvail(mem), a), InAvail(mem')[h])
    BY <2>3, <2>5, MappedGrown
  <2>7. InAvail(mem')[h] = [head |-> h, data |-> Whole(f)]
    <3>1. mem'[h] = f
      BY <1>1, HeadsApart DEF Chains
    <3> QED
      BY <2>2, <2>3, <3>1 DEF InAvail
  <2> QED
    BY <2>3, <2>4, <2>6, <2>7
<1>5. HeadsOf(Returned(TXQ))' = HeadsOf(Returned(TXQ))
  BY <1>1 DEF HeadsOf
<1> QED
  BY <1>1, <1>3, <1>4, <1>5 DEF Promise!Submit

LEMMA DeliverPromised ==
  ASSUME NetInv, Deliver
  PROVE  Promise!Deliver
<1>1. /\ NetInv' /\ wire' = Nothing
      /\ Available(TXQ)' = Available(TXQ) /\ Returned(TXQ)' = Returned(TXQ)
  BY DeliverHolds
<1>2. PICK p \in Packets, h \in RxHeads :
        /\ Waiting # <<>> /\ p = Head(Waiting) /\ Waiting' = Tail(Waiting)
        /\ Available(RXQ) # <<>> /\ h = Head(Available(RXQ))
        /\ Available(RXQ)' = Tail(Available(RXQ))
        /\ Returned(RXQ)'
             = Append(Returned(RXQ),
                      [head |-> h, len |-> VIRTIO_NET_HDR_SIZE + Written(p, h).len])
        /\ mem' = [mem EXCEPT ![h] = Written(p, h)]
  BY DeliverHolds
<1>3. PICK W : W = Written(p, h)
  OBVIOUS
<1>4. PICK n : n = VIRTIO_NET_HDR_SIZE + W.len
  OBVIOUS
<1>5. PICK e : e = [head |-> h, len |-> n]
  OBVIOUS
<1>6. /\ n \in Nat /\ n - VIRTIO_NET_HDR_SIZE = W.len
      /\ W = [p EXCEPT !.len = Least(p.len, Content(RxChains[h]))]
      /\ W = [id |-> p.id, len |-> Least(p.len, Content(RxChains[h]))]
  <2>1. W.len \in Nat
    BY <1>3, WrittenIs
  <2>2. W = [p EXCEPT !.len = Least(p.len, Content(RxChains[h]))]
    BY <1>3, WrittenIs
  <2>3. W = [id |-> p.id, len |-> Least(p.len, Content(RxChains[h]))]
    BY <1>3, WrittenIs
  <2>4. n \in Nat /\ n - VIRTIO_NET_HDR_SIZE = W.len
    BY <1>4, <2>1 DEF VIRTIO_NET_HDR_SIZE
  <2> QED
    BY <2>2, <2>3, <2>4
<1>7. \A g \in Chains : g # h => mem'[g] = mem[g]
  BY <1>2, HeadsApart, Elsewhere
<1>8. ToSend' = ToSend
  <2>1. \A g \in Range(Available(TXQ)) : mem'[g] = mem[g]
    BY <1>7, HeadsApart
  <2> QED
    BY <1>1, <2>1, ToSendStays
<1>9. h \in Range(Available(RXQ))
  <2>1. Available(RXQ) \in Seq(Entry(RxHeads))
    BY QueueState, QueueNames
  <2> QED
    BY <1>2, <2>1, FirstOf
<1>10. Filled' = Append(Filled, [head |-> h, data |-> W])
  <2>1. PICK u : u = Returned(RXQ)
    OBVIOUS
  <2>2. PICK V : V = Element(RxHeads)
    OBVIOUS
  <2>3. u \in Seq(V) /\ Filled = Mapped(InUsed(mem), u)
    BY <2>1, <2>2, ViewsNow
  <2>4. e \in V
    BY <1>5, <1>6, <2>2 DEF Element
  <2>5. Filled' = Mapped(InUsed(mem'), Append(u, e))
    BY <1>1, <1>2, <1>3, <1>4, <1>5, <2>1, ViewsNext
  <2>6. \A d \in Range(u) : InUsed(mem')[d] = InUsed(mem)[d]
    <3>1. \A d \in Range(u) : mem'[d.head] = mem[d.head] /\ d \in Element(RxHeads)
      BY <1>7, <1>9, <2>1, HeadsApart
    <3> QED
      BY <3>1, InUsedSame
  <2>7. Mapped(InUsed(mem'), Append(u, e)) = Append(Mapped(InUsed(mem), u), InUsed(mem')[e])
    BY <2>3, <2>4, <2>6, MappedGrown
  <2>8. InUsed(mem')[e] = [head |-> h, data |-> W]
    <3>1. mem'[h] = W
      BY <1>2, <1>3, HeadsApart DEF Chains
    <3>2. [W EXCEPT !.len = n - VIRTIO_NET_HDR_SIZE] = W
      BY <1>6
    <3>3. InUsed(mem')[e]
            = [head |-> e.head, data |-> [mem'[e.head] EXCEPT !.len = e.len - VIRTIO_NET_HDR_SIZE]]
      BY <2>2, <2>4 DEF InUsed
    <3>4. e.head = h /\ e.len = n
      BY <1>5
    <3> QED
      BY <3>1, <3>2, <3>3, <3>4
  <2> QED
    BY <2>3, <2>5, <2>7, <2>8
<1>11. W = Promise!Cut(Head(Waiting), Rooms[Head(Available(RXQ))])
  <2>1. Rooms[h] = Content(RxChains[h])
    BY DEF Rooms
  <2> QED
    BY <1>2, <1>6, <2>1 DEF Promise!Cut, Least
<1>12. HeadsOf(Returned(TXQ))' = HeadsOf(Returned(TXQ))
  BY <1>1 DEF HeadsOf
<1> QED
  BY <1>1, <1>2, <1>8, <1>10, <1>11, <1>12 DEF Promise!Deliver

LEMMA TransmitPromised ==
  ASSUME NetInv, Transmit
  PROVE  Promise!Transmit
<1>1. /\ NetInv' /\ UNCHANGED <<Waiting, mem>>
      /\ Available(RXQ)' = Available(RXQ) /\ Returned(RXQ)' = Returned(RXQ)
  BY TransmitHolds
<1>2. PICK h \in TxHeads :
        /\ mem[h] \in Frames
        /\ wire' \in {Gathered(mem[h]), Nothing}
        /\ Available(TXQ) # <<>> /\ h = Head(Available(TXQ))
        /\ Available(TXQ)' = Tail(Available(TXQ))
        /\ Returned(TXQ)' = Append(Returned(TXQ), [head |-> h, len |-> 0])
  BY TransmitHolds
<1>3. PICK f \in Frames : f = mem[h]
  BY <1>2
<1>4. Filled' = Filled
  BY <1>1 DEF Filled, Described
<1>5. /\ ToSend # <<>> /\ Head(ToSend) = [head |-> h, data |-> Whole(f)]
      /\ ToSend' = Tail(ToSend)
  <2>1. PICK a : a = Available(TXQ)
    OBVIOUS
  <2>2. PICK V : V = Entry(TxHeads)
    OBVIOUS
  <2>3. PICK g : g = InAvail(mem)
    OBVIOUS
  <2>4. a \in Seq(V) /\ a # <<>> /\ h = Head(a) /\ h \in V /\ ToSend = Mapped(g, a)
    BY <1>2, <2>1, <2>2, <2>3, ViewsNow DEF Entry
  <2>5. ToSend' = Mapped(g, Tail(a))
    BY <1>1, <1>2, <2>1, <2>3, ViewsNext
  <2>6. Mapped(g, a) # <<>>
    BY <2>4, MappedTail
  <2>7. Head(Mapped(g, a)) = g[h]
    BY <2>4, MappedTail
  <2>8. Mapped(g, Tail(a)) = Tail(Mapped(g, a))
    BY <2>4, MappedTail
  <2>9. g[h] = [head |-> h, data |-> Whole(f)]
    BY <1>3, <2>2, <2>3, <2>4 DEF InAvail
  <2> QED
    BY <2>4, <2>5, <2>6, <2>7, <2>8, <2>9
<1>6. Gathered(f) = Promise!Cut(Whole(f), MAX_PKT)
  <2>1. WellFormed(f.lens) /\ f.len = Content(f.lens) /\ MAX_PKT \in Nat
    BY NetAssumption
  <2>2. Content(f.lens) \in Nat /\ Walked(f.lens, MAX_PKT) = Least(MAX_PKT, Content(f.lens))
    BY <2>1, WalkedAll
  <2>3. f.len \in Nat /\ Walked(f.lens, MAX_PKT) = IF f.len <= MAX_PKT THEN f.len ELSE MAX_PKT
    BY <2>1, <2>2 DEF Least
  <2> QED
    BY <2>3 DEF Gathered, Whole, Promise!Cut
<1>7. HeadsOf(Returned(TXQ))' = Append(HeadsOf(Returned(TXQ)), h)
  <2>1. PICK u : u = Returned(TXQ)
    OBVIOUS
  <2>2. PICK z \in Nat : z = 0
    OBVIOUS
  <2>3. PICK e : e = [head |-> h, len |-> z]
    OBVIOUS
  <2>4. u \in Seq(Element(TxHeads)) /\ e \in Element(TxHeads)
    BY <2>1, <2>3, QueueState, QueueNames DEF Element
  <2>5. HeadsOf(Append(u, e)) = Append(HeadsOf(u), e.head)
    BY <2>4, HeadsFacts
  <2>6. HeadsOf(Returned(TXQ))' = HeadsOf(Append(u, e))
    BY <1>2, <2>1, <2>2, <2>3 DEF HeadsOf
  <2> QED
    BY <2>1, <2>3, <2>5, <2>6
<1>8. wire' \in {Promise!Cut(Head(ToSend).data, MAX_PKT), Nothing}
  BY <1>2, <1>3, <1>5, <1>6
<1>9. Head(ToSend).head = h
  BY <1>5
<1> QED
  BY <1>1, <1>4, <1>5, <1>7, <1>8, <1>9 DEF Promise!Transmit

LEMMA ReceivePromised ==
  ASSUME NetInv, Reap(RXQ)
  PROVE  Promise!Receive
<1>1. PICK u : u = Returned(RXQ)
  OBVIOUS
<1>2. PICK h : h = Head(u).head
  OBVIOUS
<1>3. /\ NetInv'
      /\ wire' = Nothing /\ UNCHANGED Waiting
      /\ u # <<>> /\ Returned(RXQ)' = Tail(u)
      /\ Available(RXQ)' = Available(RXQ)
      /\ Available(TXQ)' = Available(TXQ) /\ Returned(TXQ)' = Returned(TXQ)
      /\ h \in RxHeads /\ h \in owned'[RXQ]
      /\ mem' = [mem EXCEPT ![h] = Nothing]
  BY <1>1, <1>2, ReapHolds, QueueNames
<1>4. \A g \in Chains : g # h => mem'[g] = mem[g]
  BY <1>3, HeadsApart, Elsewhere
<1>5. ToSend' = ToSend
  <2>1. \A g \in Range(Available(TXQ)) : mem'[g] = mem[g]
    BY <1>3, <1>4, HeadsApart
  <2> QED
    BY <1>3, <2>1, ToSendStays
<1>6. Filled # <<>> /\ Filled' = Tail(Filled)
  <2>1. PICK V : V = Element(RxHeads)
    OBVIOUS
  <2>2. u \in Seq(V) /\ Filled = Mapped(InUsed(mem), u)
    BY <1>1, <2>1, ViewsNow
  <2>3. Filled' = Mapped(InUsed(mem'), Tail(u))
    BY <1>3, ViewsNext
  <2>4. \A d \in Range(Tail(u)) : InUsed(mem')[d] = InUsed(mem)[d]
    <3>1. \A d \in Range(Tail(u)) : d \in Range(u)
      BY <1>3, <2>2, FirstOf
    <3>2. \A d \in Range(Tail(u)) : d \in Element(RxHeads) /\ d.head \in Chains
      BY <1>1, <3>1, HeadsApart
    <3>3. \A d \in Range(Tail(u)) : d.head \notin owned'[RXQ]
      BY <1>3, ViewsNext, QueueNames
    <3>4. \A d \in Range(Tail(u)) : d \in Element(RxHeads) /\ mem'[d.head] = mem[d.head]
      <4>1. h \in owned'[RXQ]
        BY <1>3
      <4> QED
        BY <1>4, <3>2, <3>3, <4>1
    <3> QED
      BY <3>4, InUsedSame
  <2>5. Mapped(InUsed(mem'), Tail(u)) = Tail(Mapped(InUsed(mem), u))
    BY <1>3, <2>2, <2>4, MappedShrunk
  <2>6. Mapped(InUsed(mem), u) # <<>>
    BY <1>3, <2>2, MappedTail
  <2> QED
    BY <2>2, <2>3, <2>5, <2>6
<1>7. HeadsOf(Returned(TXQ))' = HeadsOf(Returned(TXQ))
  BY <1>3 DEF HeadsOf
<1> QED
  BY <1>3, <1>5, <1>6, <1>7 DEF Promise!Receive

LEMMA ReclaimPromised ==
  ASSUME NetInv, Reap(TXQ)
  PROVE  Promise!Reclaim
<1>1. PICK u : u = Returned(TXQ)
  OBVIOUS
<1>2. PICK h : h = Head(u).head
  OBVIOUS
<1>3. /\ NetInv'
      /\ wire' = Nothing /\ UNCHANGED Waiting
      /\ u # <<>> /\ Returned(TXQ)' = Tail(u)
      /\ Available(TXQ)' = Available(TXQ)
      /\ Available(RXQ)' = Available(RXQ) /\ Returned(RXQ)' = Returned(RXQ)
      /\ h \in TxHeads
      /\ mem' = [mem EXCEPT ![h] = Nothing]
  BY <1>1, <1>2, ReapHolds, QueueNames
<1>4. \A g \in Chains : g # h => mem'[g] = mem[g]
  BY <1>3, HeadsApart, Elsewhere
<1>5. u \in Seq(Element(TxHeads))
  BY <1>1, QueueState, QueueNames
<1>6. ToSend' = ToSend
  <2>1. Head(u) \in Range(u)
    BY <1>3, <1>5, FirstOf
  <2>2. \A g \in Range(Available(TXQ)) : g # h /\ g \in Chains
    BY <1>1, <1>2, <2>1, HeadsApart
  <2> QED
    BY <1>3, <1>4, <2>2, ToSendStays
<1>7. Filled' = Filled
  <2>1. \A e \in Range(Returned(RXQ)) : mem'[e.head] = mem[e.head]
    BY <1>3, <1>4, HeadsApart
  <2> QED
    BY <1>3, <2>1, FilledStays
<1>8. HeadsOf(u) # <<>> /\ HeadsOf(Tail(u)) = Tail(HeadsOf(u))
  BY <1>3, <1>5, HeadsFacts
<1>9. HeadsOf(Returned(TXQ))' = HeadsOf(Tail(u))
  BY <1>3 DEF HeadsOf
<1> QED
  BY <1>1, <1>3, <1>6, <1>7, <1>8, <1>9 DEF Promise!Reclaim

LEMMA RestartPromised ==
  ASSUME NetInv, Restart
  PROVE  Promise!Reset
<1>1. /\ wire' = Nothing /\ UNCHANGED Waiting
      /\ \A q \in Queues : Available(q)' = <<>> /\ Returned(q)' = <<>>
  BY RestartHolds
<1>2. Available(RXQ)' = <<>> /\ Returned(RXQ)' = <<>> /\ Available(TXQ)' = <<>>
      /\ Returned(TXQ)' = <<>>
  BY <1>1, QueueNames
<1>3. Filled' = <<>> /\ ToSend' = <<>> /\ HeadsOf(Returned(TXQ))' = <<>>
  BY <1>2 DEF Filled, ToSend, HeadsOf
<1> QED
  BY <1>1, <1>2, <1>3 DEF Promise!Reset

\* Packets in order, each to one buffer, cut to its room, lost only when the
\* ring is full; frames in order, cut to the largest there is; a reset that
\* takes the buffers and no packet.  For rings, chains, packets and frames of
\* any size, however they are spread over descriptors, and at every wrap of
\* the indices.
THEOREM NetKeepsPromise == NetSpec => ImplementsPromise
<1>1. NetInit => NetInv /\ Promise!Init
  BY InitHolds, InitPromised
<1>2. NetInv /\ [NetNext]_vars => NetInv'
  BY NextHolds
<1>3. NetInv /\ [NetNext]_vars => [Promise!Next]_(Promise!vars)
  <2> SUFFICES ASSUME NetInv, [NetNext]_vars
               PROVE  Promise!Next \/ UNCHANGED Promise!vars
    OBVIOUS
  <2>1. CASE Quiet \/ UNCHANGED vars
    BY <2>1, QuietPromised DEF Promise!Next
  <2>2. ASSUME NEW p \in Packets, Push(p)
        PROVE  Promise!Next
    BY <2>2, PushPromised DEF Promise!Next
  <2>3. CASE Deliver
    BY <2>3, DeliverPromised DEF Promise!Next
  <2>4. CASE Transmit
    BY <2>4, TransmitPromised DEF Promise!Next
  <2>5. CASE Restart
    BY <2>5, RestartPromised DEF Promise!Next
  <2>6. ASSUME NEW q \in Queues, Reap(q)
        PROVE  Promise!Next
    <3>1. Reap(RXQ) \/ Reap(TXQ)
      BY <2>6, QueueNames
    <3> QED
      BY <3>1, ReceivePromised, ReclaimPromised DEF Promise!Next
  <2>7. ASSUME NEW h \in RxHeads, Post(h)
        PROVE  Promise!Next
    BY <2>7, PostPromised DEF Promise!Next
  <2>8. ASSUME NEW h \in TxHeads, NEW f \in Frames, Submit(h, f)
        PROVE  Promise!Next
    <3>1. Whole(f) \in WholeFrames
      BY DEF WholeFrames
    <3>2. Promise!Submit(h, Whole(f))
      BY <2>8, SubmitPromised
    <3> QED
      BY <3>1, <3>2 DEF Promise!Next
  <2> QED
    BY <2>1, <2>2, <2>3, <2>4, <2>5, <2>6, <2>7, <2>8
    DEF NetNext, Thread, Poll, Send, Driver, Quiet
<1> QED
  BY <1>1, <1>2, <1>3, PTL DEF NetSpec, ImplementsPromise, Promise!Spec
=============================================================================
