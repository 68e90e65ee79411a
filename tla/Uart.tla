-------------------------------- MODULE Uart --------------------------------
(***************************************************************************)
(* The 16550 serial port (uart.c): an input thread that moves bytes from   *)
(* standard input into a ring of RX_SIZE slots, and the hart, which reads  *)
(* and writes the registers.  Each register access and each push holds the *)
(* lock, so it is one step; between read() and the push the byte is in the *)
(* thread's hands (in_hand).                                               *)
(*                                                                         *)
(* Of the registers, those without effect on the others (LCR, MCR, MSR,    *)
(* SCR, and FCR, which the code only stores) are left out.                 *)
(***************************************************************************)
EXTENDS Integers, Sequences

CONSTANTS
  RX_SIZE,    \* slots of the ring (256 in the code)
  Bytes,      \* what can be typed
  NoByte      \* the input thread holds nothing; an unused slot

ASSUME UartAssumption ==
  /\ RX_SIZE \in Nat \ {0}
  /\ NoByte \notin Bytes

VARIABLES
  rx_fifo, rx_head, rx_tail, rx_count,
  dr,            \* LSR.DR
  ier,           \* IER: RDI and THRI
  interrupting, thre_ip,
  rbr,           \* what the last read of RBR returned
  in_hand        \* the byte read() returned, not pushed yet

ringVars == <<rx_fifo, rx_head, rx_tail, rx_count, dr>>
uartVars == <<rx_fifo, rx_head, rx_tail, rx_count, dr, ier, interrupting,
              thre_ip, rbr, in_hand>>

Slots == 0..(RX_SIZE - 1)

Ier == [rdi : BOOLEAN, thri : BOOLEAN]

UartInit ==
  /\ rx_fifo \in [Slots -> {NoByte}]
  /\ rx_head = 0
  /\ rx_tail = 0
  /\ rx_count = 0
  /\ dr = FALSE
  /\ ier = [rdi |-> FALSE, thri |-> FALSE]
  /\ interrupting = FALSE
  /\ thre_ip = TRUE
  /\ rbr = NoByte
  /\ in_hand = NoByte

-----------------------------------------------------------------------------
(* The input thread.                                                       *)

Type(c) ==
  /\ in_hand = NoByte
  /\ in_hand' = c
  /\ UNCHANGED <<ringVars, ier, interrupting, thre_ip, rbr>>

\* Slip: the fullness test is off by one.
Push_OverFull ==
  /\ in_hand # NoByte
  /\ rx_count <= RX_SIZE
  /\ rx_fifo' = [rx_fifo EXCEPT ![rx_tail] = in_hand]
  /\ rx_tail' = (rx_tail + 1) % RX_SIZE
  /\ rx_count' = rx_count + 1
  /\ dr' = TRUE
  /\ interrupting' = (interrupting \/ ier.rdi)
  /\ in_hand' = NoByte
  /\ UNCHANGED <<rx_head, ier, thre_ip, rbr>>

Push ==
  /\ in_hand # NoByte
  /\ rx_count < RX_SIZE
  /\ rx_fifo' = [rx_fifo EXCEPT ![rx_tail] = in_hand]
  /\ rx_tail' = (rx_tail + 1) % RX_SIZE
  /\ rx_count' = rx_count + 1
  /\ dr' = TRUE
  /\ interrupting' = (interrupting \/ ier.rdi)
  /\ in_hand' = NoByte
  /\ UNCHANGED <<rx_head, ier, thre_ip, rbr>>

\* A byte that finds the ring full is lost.
Drop ==
  /\ in_hand # NoByte
  /\ rx_count >= RX_SIZE
  /\ in_hand' = NoByte
  /\ UNCHANGED <<ringVars, ier, interrupting, thre_ip, rbr>>

-----------------------------------------------------------------------------
(* Register accesses of the hart.                                          *)

\* Slip: the head moves before the byte is read.
ReadRbr_ReadsNext ==
  IF rx_count > 0
  THEN /\ rx_head' = (rx_head + 1) % RX_SIZE
       /\ rbr' = rx_fifo[rx_head']
       /\ rx_count' = rx_count - 1
       /\ dr' = (dr /\ rx_count > 1)
       /\ interrupting' = (interrupting /\ rx_count > 1)
       /\ UNCHANGED <<rx_fifo, rx_tail, ier, thre_ip, in_hand>>
  ELSE rbr' = NoByte /\ UNCHANGED <<ringVars, ier, interrupting, thre_ip, in_hand>>

\* Slip: the interrupt survives the read of the last byte.
ReadRbr_KeepsInterrupt ==
  IF rx_count > 0
  THEN /\ rbr' = rx_fifo[rx_head]
       /\ rx_head' = (rx_head + 1) % RX_SIZE
       /\ rx_count' = rx_count - 1
       /\ dr' = (dr /\ rx_count > 1)
       /\ UNCHANGED <<rx_fifo, rx_tail, ier, interrupting, thre_ip, in_hand>>
  ELSE rbr' = NoByte /\ UNCHANGED <<ringVars, ier, interrupting, thre_ip, in_hand>>

\* uart_load of RBR.
ReadRbr ==
  IF rx_count > 0
  THEN /\ rbr' = rx_fifo[rx_head]
       /\ rx_head' = (rx_head + 1) % RX_SIZE
       /\ rx_count' = rx_count - 1
       /\ dr' = (dr /\ rx_count > 1)
       /\ interrupting' = (interrupting /\ rx_count > 1)
       /\ UNCHANGED <<rx_fifo, rx_tail, ier, thre_ip, in_hand>>
  ELSE rbr' = NoByte /\ UNCHANGED <<ringVars, ier, interrupting, thre_ip, in_hand>>

\* uart_load of IIR: what it returns, and what the read clears.
IirValue ==
  IF ier.rdi /\ interrupting THEN "rx"
  ELSE IF ier.thri /\ thre_ip THEN "thre"
  ELSE "none"

ReadIir ==
  /\ interrupting' = (interrupting /\ IirValue # "rx")
  /\ thre_ip' = (thre_ip /\ IirValue # "thre")
  /\ UNCHANGED <<ringVars, ier, rbr, in_hand>>

\* uart_store to IER: the enables only, no interrupt is raised for what is
\* already there.
WriteIer(value) ==
  /\ ier' = value
  /\ UNCHANGED <<ringVars, interrupting, thre_ip, rbr, in_hand>>

\* Slip: the write does not make the transmitter empty again.
WriteThr_NoThre == UNCHANGED uartVars

\* uart_store to THR: the byte is written out at once.
WriteThr ==
  /\ thre_ip' = TRUE
  /\ UNCHANGED <<ringVars, ier, interrupting, rbr, in_hand>>

\* uart_is_interrupting, without the lock.
UartInterrupting ==
  \/ ier.rdi /\ interrupting
  \/ ier.thri /\ thre_ip

Input == (\E c \in Bytes : Type(c)) \/ Push \/ Drop

UartNext ==
  \/ Input
  \/ ReadRbr
  \/ ReadIir
  \/ \E value \in Ier : WriteIer(value)
  \/ WriteThr

UartSpec == UartInit /\ [][UartNext]_uartVars

-----------------------------------------------------------------------------
(* Properties.                                                             *)

\* The bytes in the ring, oldest first.
Contents == [i \in 1..rx_count |-> rx_fifo[(rx_head + i - 1) % RX_SIZE]]

\* Type invariant: the ring's indices stay in the ring and agree with its
\* count, which two threads change.
UartTypeOK ==
  /\ rx_fifo \in [Slots -> Bytes \cup {NoByte}]
  /\ rx_head \in Slots
  /\ rx_tail \in Slots
  /\ rx_count \in 0..RX_SIZE
  /\ dr \in BOOLEAN
  /\ ier \in Ier
  /\ interrupting \in BOOLEAN
  /\ thre_ip \in BOOLEAN
  /\ rbr \in Bytes \cup {NoByte}
  /\ in_hand \in Bytes \cup {NoByte}

\* The tail, which the input thread moves, is where head and count, which the
\* hart moves, say it is; and every slot between them was written.
RingConsistent ==
  /\ rx_tail = (rx_head + rx_count) % RX_SIZE
  /\ \A i \in 1..rx_count : Contents[i] \in Bytes

\* LSR.DR, kept in a register of its own, is up exactly when there is a byte,
\* and a receive interrupt is never up without one: the guest that takes the
\* interrupt, or polls LSR, finds what it was promised.
SignalsHaveData ==
  /\ dr <=> rx_count > 0
  /\ interrupting => rx_count > 0

\* The ring, filled by one thread and drained by another, is a queue that
\* loses bytes only when full: no byte is lost, repeated or reordered between
\* the push and the read of RBR.
Queue == INSTANCE ByteQueue WITH
           Capacity <- RX_SIZE, Nothing <- NoByte,
           queue <- Contents, held <- in_hand, out <- rbr

ImplementsQueue == Queue!Spec

=============================================================================
