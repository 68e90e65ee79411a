------------------------------ MODULE ByteQueue -----------------------------
(***************************************************************************)
(* What the guest may rely on from the receive side of the serial port: a  *)
(* queue of at most Capacity bytes.  Bytes come out in the order they went *)
(* in, each once; a byte is lost only on the way in, and only when the     *)
(* queue is full.                                                          *)
(***************************************************************************)
EXTENDS Naturals, Sequences

CONSTANTS Capacity, Bytes, Nothing

VARIABLES
  queue,   \* bytes waiting for the guest, oldest first
  held,    \* a byte on its way in, or Nothing
  out      \* what the guest read last, or Nothing

Init == queue = <<>> /\ held = Nothing /\ out = Nothing

Arrive(c) == held = Nothing /\ held' = c /\ UNCHANGED <<queue, out>>

Enqueue ==
  /\ held # Nothing
  /\ Len(queue) < Capacity
  /\ queue' = Append(queue, held)
  /\ held' = Nothing
  /\ UNCHANGED out

Lose ==
  /\ held # Nothing
  /\ Len(queue) = Capacity
  /\ held' = Nothing
  /\ UNCHANGED <<queue, out>>

Dequeue ==
  /\ queue # <<>>
  /\ out' = Head(queue)
  /\ queue' = Tail(queue)
  /\ UNCHANGED held

ReadNothing == queue = <<>> /\ out' = Nothing /\ UNCHANGED <<queue, held>>

Next ==
  \/ \E c \in Bytes : Arrive(c)
  \/ Enqueue
  \/ Lose
  \/ Dequeue
  \/ ReadNothing

Spec == Init /\ [][Next]_<<queue, held, out>>
=============================================================================
