------------------------------ MODULE VirtioNet ------------------------------
(***************************************************************************)
(* The network device (virtio_net.c): the thread that reads packets from   *)
(* the TAP and keeps them in a ring of RING, the poll that moves them to   *)
(* the receive queue, the transmit queue, reset, and the guest's driver,   *)
(* which is not part of the repository.                                    *)
(*                                                                         *)
(* The hart runs guest, device and poll in turn: while work is not "idle"  *)
(* the guest waits.  The thread runs at any time, but not while            *)
(* virtio_net_rx_deliver holds rx_lock.  A packet is an identity and a     *)
(* length; a chain of descriptors is its head, and their lengths, of which *)
(* the first has the header in it.  The TAP is open.                       *)
(***************************************************************************)
EXTENDS Virtqueue, VirtioIrq, FiniteSets, Functions

CONSTANTS
  RING,              \* packets kept for the guest (256 in the code)
  RxHeads, TxHeads,  \* heads of the chains of the two queues
  RxChains,          \* of each of the RxHeads, the lengths of its descriptors
  MAX_PKT,           \* VIRTNET_MAX_PKT_SIZE (1514 in the code)
  Packets,           \* what arrives
  Frames,            \* what is sent, and the lengths of its descriptors
  Nothing

VIRTIO_NET_HDR_SIZE == 10

\* Both sides put the header whole into the first descriptor of a chain, and
\* no chain is longer than the table of descriptors.
WellFormed(lens) ==
  /\ lens \in Seq(Nat)
  /\ Len(lens) \in 1..QUEUE_SIZE
  /\ lens[1] >= VIRTIO_NET_HDR_SIZE

\* What is in a chain behind the header.
Content(lens) ==
  LET total[i \in 0..Len(lens)] == IF i = 0 THEN 0 ELSE total[i - 1] + lens[i]
  IN total[Len(lens)] - VIRTIO_NET_HDR_SIZE

\* At most QUEUE_SIZE heads of a queue are out at once; no chain is in both.
ASSUME NetAssumption ==
  /\ RING \in Nat \ {0}
  /\ MAX_PKT \in Nat
  /\ \A heads \in {RxHeads, TxHeads} :
       IsFiniteSet(heads) /\ Cardinality(heads) <= QUEUE_SIZE
  /\ RxHeads \cap TxHeads = {}
  /\ \A p \in Packets : p = [id |-> p.id, len |-> p.len] /\ p.len \in 0..MAX_PKT
  /\ \A h \in RxHeads : WellFormed(RxChains[h])
  /\ \A f \in Frames : WellFormed(f.lens) /\ f.len = Content(f.lens)
  /\ Nothing \notin Packets \cup Frames \cup RxHeads \cup TxHeads

RXQ == 0
TXQ == 1
Queues == {RXQ, TXQ}
Heads == [q \in Queues |-> IF q = RXQ THEN RxHeads ELSE TxHeads]

VARIABLES
  rx_buf, rx_head, rx_tail, rx_count,
  queue_pfn,       \* set or not, for each queue
  last_avail_idx,
  work,            \* what the device is at
  avail_idx,       \* its copy of the avail index, 0 when out of scope
  queue, mem,      \* guest memory: the rings, what the chains hold
  owned, seen,     \* driver: heads it holds, used index it has read up to
  wire             \* the frame the last step wrote to the TAP, if it did

ringVars == <<rx_buf, rx_head, rx_tail, rx_count>>
deviceVars == <<queue_pfn, last_avail_idx, avail_idx>>
driverVars == <<owned, seen>>
memVars == <<queue, mem>>
vars == <<irqVars, ringVars, deviceVars, work, memVars, driverVars, wire>>

Slots == 0..(RING - 1)

NetInit ==
  /\ IrqInit
  /\ rx_buf = [s \in Slots |-> Nothing]
  /\ rx_head = 0 /\ rx_tail = 0 /\ rx_count = 0
  /\ queue_pfn = [q \in Queues |-> FALSE]
  /\ last_avail_idx = [q \in Queues |-> 0]
  /\ avail_idx = 0
  /\ work = "idle"
  /\ queue = [q \in Queues |-> Zeroed(Nothing)]
  /\ mem = [h \in RxHeads \cup TxHeads |-> Nothing]
  /\ owned = Heads
  /\ seen = [q \in Queues |-> 0]
  /\ wire = Nothing

-----------------------------------------------------------------------------
(* The thread.                                                             *)

\* Slip: the fullness test is off by one.
Push_OverFull(p) ==
  /\ work # "deliver"
  /\ rx_count <= RING
  /\ rx_buf' = [rx_buf EXCEPT ![rx_tail] = p]
  /\ rx_tail' = (rx_tail + 1) % RING
  /\ rx_count' = rx_count + 1
  /\ wire' = Nothing
  /\ UNCHANGED <<irqVars, rx_head, deviceVars, work, memVars, driverVars>>

\* rx_lock is free.  Nobody sees the packet before the thread has the lock, so
\* read() and what follows it are one step.
Push(p) ==
  /\ work # "deliver"
  /\ rx_count < RING
  /\ rx_buf' = [rx_buf EXCEPT ![rx_tail] = p]
  /\ rx_tail' = (rx_tail + 1) % RING
  /\ rx_count' = rx_count + 1
  /\ wire' = Nothing
  /\ UNCHANGED <<irqVars, rx_head, deviceVars, work, memVars, driverVars>>

\* A packet that finds the ring full is lost.
Drop ==
  /\ work # "deliver"
  /\ rx_count >= RING
  /\ wire' = Nothing
  /\ UNCHANGED <<irqVars, ringVars, deviceVars, work, memVars, driverVars>>

-----------------------------------------------------------------------------
(* The poll: cpu_update_devices, its part for this device.                 *)

\* virtio_net_poll sees no packet, without the lock.
PollEmpty ==
  /\ work = "idle"
  /\ rx_count <= 0
  /\ Latch
  /\ wire' = Nothing
  /\ UNCHANGED <<interrupt_status, handlerVars, ringVars, deviceVars, work,
                 memVars, driverVars>>

\* It sees one.  The thread only adds packets, so there still is one when the
\* lock is taken, counted and taken again.
PollStart ==
  /\ work = "idle"
  /\ rx_count > 0
  /\ work' = IF queue_pfn[RXQ] THEN "deliver" ELSE "polled"
  /\ avail_idx' = IF queue_pfn[RXQ] THEN queue[RXQ].avail_idx ELSE 0
  /\ wire' = Nothing
  /\ UNCHANGED <<irqVars, ringVars, queue_pfn, last_avail_idx, memVars,
                 driverVars>>

Least(m, n) == IF m <= n THEN m ELSE n

\* Behind the header, in descriptor i of a chain.
Data(lens, i) == lens[i] - (IF i = 1 THEN VIRTIO_NET_HDR_SIZE ELSE 0)

\* Slip: room for a header is left in every descriptor.
Walked_SkipsEach(lens, limit) ==
  LET after[i \in 0..Len(lens)] ==
        IF i = 0 THEN 0
        ELSE after[i - 1]
               + Least(lens[i] - Least(lens[i], VIRTIO_NET_HDR_SIZE), limit - after[i - 1])
  IN after[Len(lens)]

\* The walk along a chain, in both directions: how much of the data is
\* transferred, up to a limit.
Walked(lens, limit) ==
  LET after[i \in 0..Len(lens)] ==
        IF i = 0 THEN 0
        ELSE after[i - 1] + Least(Data(lens, i), limit - after[i - 1])
  IN after[Len(lens)]

Written(p, h) == [p EXCEPT !.len = Walked(RxChains[h], p.len)]

\* Slip: the used element claims the whole packet.
Deliver_ReportsWhole ==
  /\ work = "deliver"
  /\ rx_count > 0 /\ last_avail_idx[RXQ] # avail_idx
  /\ LET head == At(queue[RXQ].avail, last_avail_idx[RXQ])
         packet == rx_buf[rx_head]
         returned == Return(queue[RXQ], head, VIRTIO_NET_HDR_SIZE + packet.len)
     IN /\ mem' = [mem EXCEPT ![head] = Written(packet, head)]
        /\ queue' = [queue EXCEPT ![RXQ] = returned]
        /\ avail_idx' = returned.avail_idx
  /\ last_avail_idx' = [last_avail_idx EXCEPT ![RXQ] = Succ(last_avail_idx[RXQ])]
  /\ rx_head' = (rx_head + 1) % RING
  /\ rx_count' = rx_count - 1
  /\ SetInterrupt
  /\ wire' = Nothing
  /\ UNCHANGED <<latched, handlerVars, rx_buf, rx_tail, queue_pfn, work,
                 driverVars>>

\* virtio_net_rx_deliver, once round its loop.
Deliver ==
  /\ work = "deliver"
  /\ rx_count > 0 /\ last_avail_idx[RXQ] # avail_idx
  /\ LET head == At(queue[RXQ].avail, last_avail_idx[RXQ])
         packet == Written(rx_buf[rx_head], head)
         returned == Return(queue[RXQ], head, VIRTIO_NET_HDR_SIZE + packet.len)
     IN /\ mem' = [mem EXCEPT ![head] = packet]
        /\ queue' = [queue EXCEPT ![RXQ] = returned]
        /\ avail_idx' = returned.avail_idx
  /\ last_avail_idx' = [last_avail_idx EXCEPT ![RXQ] = Succ(last_avail_idx[RXQ])]
  /\ rx_head' = (rx_head + 1) % RING
  /\ rx_count' = rx_count - 1
  /\ SetInterrupt
  /\ wire' = Nothing
  /\ UNCHANGED <<latched, handlerVars, rx_buf, rx_tail, queue_pfn, work,
                 driverVars>>

DeliverEnd ==
  /\ work = "deliver"
  /\ rx_count = 0 \/ last_avail_idx[RXQ] = avail_idx
  /\ work' = "polled"
  /\ avail_idx' = 0
  /\ wire' = Nothing
  /\ UNCHANGED <<irqVars, ringVars, queue_pfn, last_avail_idx, memVars, driverVars>>

PollEnd ==
  /\ work = "polled"
  /\ work' = "idle"
  /\ Latch
  /\ wire' = Nothing
  /\ UNCHANGED <<interrupt_status, handlerVars, ringVars, deviceVars, memVars,
                 driverVars>>

-----------------------------------------------------------------------------
(* virtio_net_tx.                                                          *)

\* The store to QueueNotify that starts it.
Notify ==
  /\ work = "idle" /\ guest = "main"
  /\ queue_pfn[TXQ]
  /\ work' = "transmit"
  /\ avail_idx' = queue[TXQ].avail_idx
  /\ wire' = Nothing
  /\ UNCHANGED <<irqVars, ringVars, queue_pfn, last_avail_idx, memVars,
                 driverVars>>

Gathered(f) == [id |-> f.id, len |-> Walked(f.lens, MAX_PKT)]

\* Once round its loop.  The write to the TAP may fail, which is ignored; there
\* is none of an empty frame.
Transmit ==
  /\ work = "transmit"
  /\ last_avail_idx[TXQ] # avail_idx
  /\ LET head == At(queue[TXQ].avail, last_avail_idx[TXQ])
         frame == Gathered(mem[head])
     IN /\ wire' \in {Nothing} \cup (IF frame.len > 0 THEN {frame} ELSE {})
        /\ queue' = [queue EXCEPT ![TXQ] = Return(queue[TXQ], head, 0)]
  /\ last_avail_idx' = [last_avail_idx EXCEPT ![TXQ] = Succ(last_avail_idx[TXQ])]
  /\ UNCHANGED <<irqVars, ringVars, queue_pfn, avail_idx, work, mem, driverVars>>

TransmitEnd ==
  /\ work = "transmit"
  /\ last_avail_idx[TXQ] = avail_idx
  /\ work' = "idle"
  /\ avail_idx' = 0
  /\ SetInterrupt
  /\ wire' = Nothing
  /\ UNCHANGED <<latched, handlerVars, ringVars, queue_pfn, last_avail_idx,
                 memVars, driverVars>>

-----------------------------------------------------------------------------
(* The guest.                                                              *)

Running == work = "idle"

SetUp ==
  /\ Running /\ guest = "down"
  /\ \E q \in Queues :
       /\ ~queue_pfn[q]
       /\ queue_pfn' = [queue_pfn EXCEPT ![q] = TRUE]
  /\ guest' = IF \A q \in Queues : queue_pfn'[q] THEN "main" ELSE "down"
  /\ wire' = Nothing
  /\ UNCHANGED <<flagVars, latched, isr, ringVars, last_avail_idx, avail_idx, work,
                 memVars, driverVars>>

\* A buffer for a packet to come.
Post(h) ==
  /\ Running /\ guest = "main"
  /\ h \in owned[RXQ]
  /\ queue' = [queue EXCEPT ![RXQ] = Offer(queue[RXQ], h)]
  /\ owned' = [owned EXCEPT ![RXQ] = owned[RXQ] \ {h}]
  /\ wire' = Nothing
  /\ UNCHANGED <<irqVars, ringVars, deviceVars, work, mem, seen>>

\* A frame to send.
Submit(h, f) ==
  /\ Running /\ guest = "main"
  /\ h \in owned[TXQ]
  /\ queue' = [queue EXCEPT ![TXQ] = Offer(queue[TXQ], h)]
  /\ owned' = [owned EXCEPT ![TXQ] = owned[TXQ] \ {h}]
  /\ mem' = [mem EXCEPT ![h] = f]
  /\ wire' = Nothing
  /\ UNCHANGED <<irqVars, ringVars, deviceVars, work, seen>>

Unread(q) == seen[q] # queue[q].used_idx

\* The packet that a used element describes.
Described(e) ==
  [head |-> e.head, data |-> [mem[e.head] EXCEPT !.len = e.len - VIRTIO_NET_HDR_SIZE]]

\* Buffers come back in order, so a used element's slot is that of its entry in
\* avail.  The driver clears both.
Scrub(q, i) ==
  [q EXCEPT !.avail[i % QUEUE_SIZE] = Nothing,
            !.used[i % QUEUE_SIZE] = [head |-> Nothing, len |-> 0]]

Reap(q) ==
  /\ Running /\ guest = "reap"
  /\ Unread(q)
  /\ LET e == At(queue[q].used, seen[q])
     IN /\ owned' = [owned EXCEPT ![q] = owned[q] \cup {e.head}]
        /\ mem' = [mem EXCEPT ![e.head] = Nothing]
  /\ queue' = [queue EXCEPT ![q] = Scrub(queue[q], seen[q])]
  /\ seen' = [seen EXCEPT ![q] = Succ(seen[q])]
  /\ wire' = Nothing
  /\ UNCHANGED <<irqVars, ringVars, deviceVars, work>>

ReapEnd ==
  /\ Running /\ guest = "reap"
  /\ \A q \in Queues : ~Unread(q)
  /\ guest' = "main"
  /\ wire' = Nothing
  /\ UNCHANGED <<flagVars, latched, isr, ringVars, deviceVars, work, memVars,
                 driverVars>>

HandleIrq ==
  /\ Running
  /\ Handle
  /\ wire' = Nothing
  /\ UNCHANGED <<ringVars, deviceVars, work, memVars, driverVars>>

\* Slip: the device remembers how far it was.
ResetDevice_KeepsIndex ==
  /\ queue_pfn' = [q \in Queues |-> FALSE]
  /\ interrupt_status' = FALSE
  /\ interrupting' = FALSE
  /\ UNCHANGED last_avail_idx

\* A store of 0 to Status.
ResetDevice ==
  /\ queue_pfn' = [q \in Queues |-> FALSE]
  /\ last_avail_idx' = [q \in Queues |-> 0]
  /\ interrupt_status' = FALSE
  /\ interrupting' = FALSE

\* The driver gives up its queues and makes new ones.
Restart ==
  /\ Running /\ guest = "main"
  /\ ResetDevice
  /\ guest' = "down"
  /\ queue' = [q \in Queues |-> Zeroed(Nothing)]
  /\ owned' = Heads
  /\ seen' = [q \in Queues |-> 0]
  /\ mem' = [h \in RxHeads \cup TxHeads |-> Nothing]
  /\ wire' = Nothing
  /\ UNCHANGED <<latched, isr, ringVars, avail_idx, work>>

Thread == (\E p \in Packets : Push(p)) \/ Drop
Poll == PollEmpty \/ PollStart \/ Deliver \/ DeliverEnd \/ PollEnd
Send == Notify \/ Transmit \/ TransmitEnd
Driver ==
  \/ SetUp \/ HandleIrq \/ ReapEnd \/ Restart
  \/ \E q \in Queues : Reap(q)
  \/ \E h \in RxHeads : Post(h)
  \/ \E h \in TxHeads, f \in Frames : Submit(h, f)

NetNext == Thread \/ Poll \/ Send \/ Driver

NetSpec == NetInit /\ [][NetNext]_vars

-----------------------------------------------------------------------------
(* Properties.                                                             *)

\* Type invariant.
NetTypeOK ==
  /\ IrqTypeOK
  /\ rx_head \in Slots /\ rx_tail \in Slots /\ rx_count \in 0..RING
  /\ rx_buf \in [Slots -> Packets \cup {Nothing}]
  /\ queue_pfn \in [Queues -> BOOLEAN]
  /\ last_avail_idx \in [Queues -> Indices]
  /\ avail_idx \in Indices
  /\ work \in {"idle", "deliver", "polled", "transmit"}
  /\ seen \in [Queues -> Indices]
  /\ DOMAIN queue = Queues
  /\ \A q \in Queues : queue[q] \in QueueMemory(Heads[q], Nothing, Nat)
  /\ mem \in [RxHeads \cup TxHeads ->
               {Written(p, h) : p \in Packets, h \in RxHeads} \cup Frames \cup {Nothing}]
  /\ owned \in [Queues -> SUBSET (RxHeads \cup TxHeads)]
  /\ \A q \in Queues : owned[q] \subseteq Heads[q]
  /\ wire \in {Gathered(f) : f \in Frames} \cup {Nothing}

\* The heads in avail that the device has not taken, the elements of used that
\* the driver has not read.
Available(q) == Entries(queue[q].avail, last_avail_idx[q], queue[q].avail_idx)
Returned(q) == Entries(queue[q].used, seen[q], queue[q].used_idx)

\* Every buffer is in one place: with the driver, waiting in avail, or returned
\* in used, there once.  So the device never writes into a buffer that the
\* driver holds, and none is lost or returned twice, across the wrap of the
\* indices, the copy of the avail index and a reset.
BuffersConserved ==
  \A q \in Queues :
    LET out == Available(q) \o HeadsOf(Returned(q))
    IN Range(out) = Heads[q] \ owned[q] /\ IsInjective(out)

\* A buffer returned and not read by the driver has a signal on its way: the
\* acknowledgement, the poll and the claim never take the last one.
ReturnsAnnounced ==
  \A q \in Queues : Unread(q) => Announced \/ work = "transmit"

Waiting == [k \in 1..rx_count |-> rx_buf[(rx_head + k - 1) % RING]]

Whole(f) == [id |-> f.id, len |-> f.len]

\* What the rings hold, with what is in the chains.
Filled ==
  LET elements == Returned(RXQ) IN [k \in DOMAIN elements |-> Described(elements[k])]
ToSend ==
  LET heads == Available(TXQ)
  IN [k \in DOMAIN heads |-> [head |-> heads[k], data |-> Whole(mem[heads[k]])]]

Rooms == [h \in RxHeads |-> Content(RxChains[h])]
WholeFrames == {Whole(f) : f \in Frames}

Promise == INSTANCE NetPromise WITH
  Capacity <- RING,
  MaxFrame <- MAX_PKT,
  Room <- Rooms,
  Frames <- WholeFrames,
  waiting <- Waiting,
  posted <- Available(RXQ),
  filled <- Filled,
  tosend <- ToSend,
  sent <- HeadsOf(Returned(TXQ))

\* Thread, rings and driver together keep NetPromise: packets in order, each to
\* one buffer, cut to its room, lost only when RING of them wait; frames in
\* order, cut to the largest there is; a reset that takes buffers and no packet;
\* however headers, packets and frames are spread over descriptors.
ImplementsPromise == Promise!Spec
=============================================================================
