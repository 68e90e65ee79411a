------------------------------ MODULE Virtqueue ------------------------------
(***************************************************************************)
(* The rings of a virtqueue in guest memory, as virtio.c and virtio_net.c  *)
(* read and write them: the driver puts heads of descriptor chains into    *)
(* avail, the device puts elements into used.  Both indices run freely     *)
(* modulo IDX (they are u16) and are reduced to a slot when used.          *)
(***************************************************************************)
EXTENDS Integers, Sequences

CONSTANTS
  QUEUE_SIZE,  \* slots of each ring: 16 for virtio.c, 256 for virtio_net.c
  IDX          \* 65536 in the code

ASSUME QueueAssumption ==
  /\ QUEUE_SIZE \in Nat \ {0}
  /\ IDX \in Nat
  /\ IDX > QUEUE_SIZE
  /\ IDX % QUEUE_SIZE = 0

RingSlots == 0..(QUEUE_SIZE - 1)
Indices == 0..(IDX - 1)

\* Slip: the index is kept in a wider integer.
Succ_Wide(i) == i + 1

Succ(i) == (i + 1) % IDX

At(ring, i) == ring[i % QUEUE_SIZE]

\* The entries from one index up to another, oldest first.
Entries(ring, from, to) ==
  [k \in 1..((to - from) % IDX) |-> At(ring, from + k - 1)]

\* The chains that used elements are about.
HeadsOf(elements) == [k \in DOMAIN elements |-> elements[k].head]

\* Fresh memory, of zeros.
Zeroed(zero) ==
  [avail |-> [s \in RingSlots |-> zero], avail_idx |-> 0,
   used |-> [s \in RingSlots |-> [head |-> zero, len |-> 0]], used_idx |-> 0]

QueueMemory(heads, zero, lengths) ==
  [avail : [RingSlots -> heads \cup {zero}], avail_idx : Indices,
   used : [RingSlots -> [head : heads \cup {zero}, len : lengths]],
   used_idx : Indices]

\* The driver: another head.
Offer(q, head) ==
  [q EXCEPT !.avail[q.avail_idx % QUEUE_SIZE] = head,
            !.avail_idx = Succ(q.avail_idx)]

\* The device: another element, and only then the index.
Return(q, head, len) ==
  [q EXCEPT !.used[q.used_idx % QUEUE_SIZE] = [head |-> head, len |-> len],
            !.used_idx = Succ(q.used_idx)]
=============================================================================
