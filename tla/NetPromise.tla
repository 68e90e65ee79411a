----------------------------- MODULE NetPromise ------------------------------
(***************************************************************************)
(* What a guest may rely on from its network device.  Packets that arrive  *)
(* wait in order, at most Capacity of them, and none that waits is lost.   *)
(* Each goes to one buffer, the oldest posted, cut to the room it has.     *)
(* What the driver submits is put on the wire in order, each once at most  *)
(* and cut to MaxFrame, and every buffer comes back, in order.  A reset    *)
(* takes away the buffers and leaves the packets that wait.                *)
(***************************************************************************)
EXTENDS Naturals, Sequences

CONSTANTS Capacity, Packets, Frames, MaxFrame, Nothing, RxHeads, TxHeads, Room

VARIABLES
  waiting,         \* packets without a buffer
  posted, filled,  \* buffers without a packet; with one, not yet read
  tosend, sent,    \* buffers to send; buffers sent, not yet reclaimed
  wire             \* the frame that the last step put on the wire, if any

vars == <<waiting, posted, filled, tosend, sent, wire>>

Cut(p, room) == [p EXCEPT !.len = IF p.len <= room THEN p.len ELSE room]

Init ==
  /\ waiting = <<>> /\ posted = <<>> /\ filled = <<>>
  /\ tosend = <<>> /\ sent = <<>>
  /\ wire = Nothing

Arrive(p) ==
  /\ Len(waiting) < Capacity
  /\ waiting' = Append(waiting, p)
  /\ wire' = Nothing
  /\ UNCHANGED <<posted, filled, tosend, sent>>

Post(h) ==
  /\ posted' = Append(posted, h)
  /\ wire' = Nothing
  /\ UNCHANGED <<waiting, filled, tosend, sent>>

Deliver ==
  /\ waiting # <<>> /\ posted # <<>>
  /\ filled' = Append(filled, [head |-> Head(posted),
                               data |-> Cut(Head(waiting), Room[Head(posted)])])
  /\ waiting' = Tail(waiting)
  /\ posted' = Tail(posted)
  /\ wire' = Nothing
  /\ UNCHANGED <<tosend, sent>>

Receive ==
  /\ filled # <<>>
  /\ filled' = Tail(filled)
  /\ wire' = Nothing
  /\ UNCHANGED <<waiting, posted, tosend, sent>>

Submit(h, f) ==
  /\ tosend' = Append(tosend, [head |-> h, data |-> f])
  /\ wire' = Nothing
  /\ UNCHANGED <<waiting, posted, filled, sent>>

\* The host may refuse the frame.
Transmit ==
  /\ tosend # <<>>
  /\ wire' \in {Cut(Head(tosend).data, MaxFrame), Nothing}
  /\ sent' = Append(sent, Head(tosend).head)
  /\ tosend' = Tail(tosend)
  /\ UNCHANGED <<waiting, posted, filled>>

Reclaim ==
  /\ sent # <<>>
  /\ sent' = Tail(sent)
  /\ wire' = Nothing
  /\ UNCHANGED <<waiting, posted, filled, tosend>>

Reset ==
  /\ posted' = <<>> /\ filled' = <<>> /\ tosend' = <<>> /\ sent' = <<>>
  /\ wire' = Nothing
  /\ UNCHANGED waiting

Rest == wire' = Nothing /\ UNCHANGED <<waiting, posted, filled, tosend, sent>>

Next ==
  \/ Rest
  \/ \E p \in Packets : Arrive(p)
  \/ Deliver \/ Receive \/ Transmit \/ Reclaim \/ Reset
  \/ \E h \in RxHeads : Post(h)
  \/ \E h \in TxHeads, f \in Frames : Submit(h, f)

Spec == Init /\ [][Next]_vars
=============================================================================
