------------------------------ MODULE VirtioBlk ------------------------------
(***************************************************************************)
(* The block device (virtio.c): the requests a driver offers, the loop     *)
(* that serves them when it is notified, a host file some of whose sectors *)
(* cannot be transferred, and the guest's driver, which is not part of the *)
(* repository.                                                             *)
(*                                                                         *)
(* The device serves a request in one step, since the guest waits and      *)
(* nobody else sees the disk.  A request is a type, a first sector and one *)
(* data descriptor per sector; rings and buffers are in DRAM.              *)
(*                                                                         *)
(* shadow and expected are history: the disk with everything offered done, *)
(* and what a read should find.                                            *)
(***************************************************************************)
EXTENDS Virtqueue, VirtioIrq, FiniteSets, Functions

CONSTANTS
  Heads,     \* heads of the chains
  Sectors,   \* of the disk, an interval of Nat
  Bad,       \* those whose transfer fails on the host
  Contents,  \* of a sector
  Blank,     \* what all sectors hold at first
  Requests,  \* what the driver asks for
  Nothing

BlkRequest ==
  [type : {"in", "out"}, sector : Sectors, data : Seq(Contents \cup {Nothing})]
    \cup [type : {"flush"}, sector : Sectors, data : {<<>>}]

\* At most QUEUE_SIZE heads are out at once, since a driver has no more
\* descriptors; a request ends on the disk, and one that writes has contents.
ASSUME BlkAssumption ==
  /\ IsFiniteSet(Heads)
  /\ Cardinality(Heads) <= QUEUE_SIZE
  /\ Sectors \subseteq Nat
  /\ Bad \subseteq Sectors
  /\ Blank \in Contents
  /\ Nothing \notin Heads \cup Contents \cup {0, 1}
  /\ \A r \in Requests :
       /\ r \in BlkRequest
       /\ \A i \in DOMAIN r.data : r.sector + i - 1 \in Sectors
       /\ r.type = "out" => r.data \in Seq(Contents)

SECTOR_SIZE == 512

VARIABLES
  queue_pfn,        \* set or not
  last_avail_idx,
  work,             \* what the device is at
  avail_idx,        \* its copy of the avail index, 0 when out of scope
  disk,
  queue, mem,       \* guest memory: the rings, the requests in the chains
  status,           \* and their status bytes
  owned, seen,      \* driver: heads it holds, used index it has read up to
  shadow, expected  \* history

deviceVars == <<queue_pfn, last_avail_idx, avail_idx, disk>>
memVars == <<queue, mem, status>>
driverVars == <<owned, seen>>
historyVars == <<shadow, expected>>
vars == <<irqVars, deviceVars, work, memVars, driverVars, historyVars>>

BlkInit ==
  /\ IrqInit
  /\ queue_pfn = FALSE
  /\ last_avail_idx = 0
  /\ avail_idx = 0
  /\ work = "idle"
  /\ disk = [s \in Sectors |-> Blank]
  /\ queue = Zeroed(Nothing)
  /\ mem = [h \in Heads |-> Nothing]
  /\ status = [h \in Heads |-> Nothing]
  /\ owned = Heads
  /\ seen = 0
  /\ shadow = disk
  /\ expected = [h \in Heads |-> <<>>]

-----------------------------------------------------------------------------
(* virtio_disk_access.                                                     *)

\* Slip: the offset on the disk does not advance.
Transfer_SameSector(r) ==
  LET after[i \in 0..Len(r.data)] ==
        IF i = 0 THEN [disk |-> disk, data |-> r.data, ok |-> TRUE]
        ELSE LET before == after[i - 1]
                 s == r.sector
             IN IF ~before.ok \/ s \in Bad THEN [before EXCEPT !.ok = FALSE]
                ELSE IF r.type = "in" THEN [before EXCEPT !.data[i] = before.disk[s]]
                ELSE [before EXCEPT !.disk[s] = r.data[i]]
  IN after[Len(r.data)]

\* The data descriptors in turn; the first that fails ends the request, and
\* what was transferred before stays.
Transfer(r) ==
  LET after[i \in 0..Len(r.data)] ==
        IF i = 0 THEN [disk |-> disk, data |-> r.data, ok |-> TRUE]
        ELSE LET before == after[i - 1]
                 s == r.sector + i - 1
             IN IF ~before.ok \/ s \in Bad THEN [before EXCEPT !.ok = FALSE]
                ELSE IF r.type = "in" THEN [before EXCEPT !.data[i] = before.disk[s]]
                ELSE [before EXCEPT !.disk[s] = r.data[i]]
  IN after[Len(r.data)]

UsedLen(r) == IF r.type = "in" THEN SECTOR_SIZE * Len(r.data) + 1 ELSE 1

\* The store to QueueNotify that starts it.
Notify ==
  /\ work = "idle" /\ guest = "main"
  /\ queue_pfn
  /\ work' = "access"
  /\ avail_idx' = queue.avail_idx
  /\ UNCHANGED <<irqVars, queue_pfn, last_avail_idx, disk, memVars, driverVars,
                 historyVars>>

\* Slip: the element is returned after the index is already counted.
Answer_SkipsSlot(head) ==
  /\ LET skipped == [queue EXCEPT !.used_idx = Succ(queue.used_idx)]
     IN queue' = Return(skipped, head, UsedLen(mem[head]))
  /\ status' = [status EXCEPT ![head] = 0]
  /\ SetInterrupt

\* The end of a request that went well.
Answer(head) ==
  /\ queue' = Return(queue, head, UsedLen(mem[head]))
  /\ status' = [status EXCEPT ![head] = 0]
  /\ SetInterrupt

\* The end of one that did not: the status byte says so, but the request is
\* not put into used, and no interrupt is raised.
Abandon(head) ==
  /\ status' = [status EXCEPT ![head] = 1]
  /\ UNCHANGED <<queue, flagVars>>

\* Once round the loop.
Serve ==
  /\ work = "access"
  /\ last_avail_idx # avail_idx
  /\ LET head == At(queue.avail, last_avail_idx)
         result == Transfer(mem[head])
     IN /\ disk' = result.disk
        /\ mem' = [mem EXCEPT ![head].data = result.data]
        /\ \/ result.ok /\ Answer(head)
           \/ ~result.ok /\ Abandon(head)
  /\ last_avail_idx' = Succ(last_avail_idx)
  /\ UNCHANGED <<latched, handlerVars, queue_pfn, avail_idx, work, driverVars,
                 historyVars>>

ServeEnd ==
  /\ work = "access"
  /\ last_avail_idx = avail_idx
  /\ work' = "idle"
  /\ avail_idx' = 0
  /\ UNCHANGED <<irqVars, queue_pfn, last_avail_idx, disk, memVars, driverVars,
                 historyVars>>

\* cpu_update_devices, its part for this device.
Poll ==
  /\ work = "idle"
  /\ Latch
  /\ UNCHANGED <<interrupt_status, handlerVars, deviceVars, work, memVars,
                 driverVars, historyVars>>

-----------------------------------------------------------------------------
(* The guest.                                                              *)

SetUp ==
  /\ guest = "down"
  /\ queue_pfn' = TRUE
  /\ guest' = "main"
  /\ UNCHANGED <<flagVars, latched, isr, last_avail_idx, avail_idx, disk, work,
                 memVars, driverVars, historyVars>>

\* The disk after a request, told without the loop: up to the first sector
\* that fails.
Reached(r) ==
  {i \in DOMAIN r.data : \A j \in 1..i : r.sector + j - 1 \notin Bad}

Done(d, r) ==
  IF r.type = "out"
  THEN [s \in Sectors |-> IF s - r.sector + 1 \in Reached(r)
                          THEN r.data[s - r.sector + 1] ELSE d[s]]
  ELSE d

Submit(h, r) ==
  /\ work = "idle" /\ guest = "main"
  /\ h \in owned
  /\ queue' = Offer(queue, h)
  /\ owned' = owned \ {h}
  /\ mem' = [mem EXCEPT ![h] = r]
  /\ status' = [status EXCEPT ![h] = Nothing]
  /\ shadow' = Done(shadow, r)
  /\ expected' = [expected EXCEPT ![h] = [i \in DOMAIN r.data |-> shadow[r.sector + i - 1]]]
  /\ UNCHANGED <<irqVars, deviceVars, work, seen>>

\* A used element is read, and its slot cleared, to keep the runs small.
Reap ==
  /\ work = "idle" /\ guest = "reap"
  /\ seen # queue.used_idx
  /\ LET h == At(queue.used, seen).head
     IN /\ owned' = owned \cup {h}
        /\ mem' = [mem EXCEPT ![h] = Nothing]
        /\ status' = [status EXCEPT ![h] = Nothing]
        /\ expected' = [expected EXCEPT ![h] = <<>>]
  /\ queue' = [queue EXCEPT !.used[seen % QUEUE_SIZE] = [head |-> Nothing, len |-> 0]]
  /\ seen' = Succ(seen)
  /\ UNCHANGED <<irqVars, deviceVars, work, shadow>>

ReapEnd ==
  /\ work = "idle" /\ guest = "reap"
  /\ seen = queue.used_idx
  /\ guest' = "main"
  /\ UNCHANGED <<flagVars, latched, isr, deviceVars, work, memVars, driverVars,
                 historyVars>>

HandleIrq ==
  /\ work = "idle"
  /\ Handle
  /\ UNCHANGED <<deviceVars, work, memVars, driverVars, historyVars>>

BlkNext ==
  \/ Notify \/ Serve \/ ServeEnd \/ Poll
  \/ SetUp \/ Reap \/ ReapEnd \/ HandleIrq
  \/ \E h \in Heads, r \in Requests : Submit(h, r)

BlkSpec == BlkInit /\ [][BlkNext]_vars

-----------------------------------------------------------------------------
(* Properties.                                                             *)

\* Type invariant.
BlkTypeOK ==
  /\ IrqTypeOK
  /\ queue_pfn \in BOOLEAN
  /\ last_avail_idx \in Indices /\ avail_idx \in Indices /\ seen \in Indices
  /\ work \in {"idle", "access"}
  /\ disk \in [Sectors -> Contents] /\ shadow \in [Sectors -> Contents]
  /\ queue \in QueueMemory(Heads, Nothing, Nat)
  /\ mem \in [Heads -> BlkRequest \cup {Nothing}]
  /\ status \in [Heads -> {0, 1, Nothing}]
  /\ expected \in [Heads -> Seq(Contents)]
  /\ owned \subseteq Heads

\* Heads in avail that the device has not taken; elements of used that the
\* driver has not read; heads the device took and did not return.
Available == Entries(queue.avail, last_avail_idx, queue.avail_idx)
Answered == Entries(queue.used, seen, queue.used_idx)
Abandoned == {h \in Heads : status[h] = 1}

\* Every chain is in one place: with the driver, in avail, in used, or
\* abandoned by the device; never in two, and in none twice.
ChainsConserved ==
  LET out == Available \o HeadsOf(Answered)
  IN /\ Range(out) = Heads \ (owned \cup Abandoned)
     /\ owned \cap Abandoned = {}
     /\ IsInjective(out)

\* A request answered was served in full, and what it read is what the requests
\* offered before it wrote, in their order, up to where one of them failed:
\* through both rings, the wrap of their indices and the offsets on the disk.
AnswersRight ==
  \A k \in DOMAIN Answered :
    LET e == Answered[k]
        r == mem[e.head]
    IN /\ status[e.head] = 0
       /\ e.len = UsedLen(r)
       /\ r.type = "in" => r.data = expected[e.head]

\* A request answered has a signal on its way to the driver.
AnswersAnnounced == Answered # <<>> => Announced

\* The disk of a guest that is told of a "virtio,mmio" device (dtb.c) answers
\* each request, with an error if need be: once the device is through, every
\* chain that the driver gave away is offered still or answered.
RequestsAnswered ==
  work = "idle" =>
    Heads \ owned = Range(Available) \cup Range(HeadsOf(Answered))
=============================================================================
