------------------------------ MODULE VirtioIrq ------------------------------
(***************************************************************************)
(* The interrupt of a virtio device, on both sides: InterruptStatus and    *)
(* the flag interrupting of the device, which virtio.c and virtio_net.c    *)
(* have alike; the latch of the interrupt controller, which the poll sets; *)
(* and the guest's handler, which is not part of the repository: it        *)
(* claims, reads InterruptStatus, acknowledges what it read, and looks at  *)
(* the used rings if it read something.                                    *)
(***************************************************************************)

VARIABLES
  interrupt_status,  \* its bit 0: used ring updated
  interrupting,
  latched,           \* pending in the interrupt controller
  guest,             \* where the guest's driver is
  isr                \* what its handler read

flagVars == <<interrupt_status, interrupting>>
handlerVars == <<guest, isr>>
irqVars == <<flagVars, latched, handlerVars>>

GuestPlaces == {"down", "main", "isr", "ack", "reap"}

IrqTypeOK ==
  /\ interrupt_status \in BOOLEAN
  /\ interrupting \in BOOLEAN
  /\ latched \in BOOLEAN
  /\ guest \in GuestPlaces
  /\ isr \in BOOLEAN

IrqInit ==
  /\ interrupt_status = FALSE
  /\ interrupting = FALSE
  /\ latched = FALSE
  /\ guest = "down"
  /\ isr = FALSE

\* The device, after it has returned a buffer.
SetInterrupt ==
  /\ interrupt_status' = TRUE
  /\ interrupting' = TRUE

\* Slip: the latch follows the flag.
Latch_FollowsFlag ==
  /\ latched' = interrupting
  /\ interrupting' = FALSE

\* virtio_is_interrupting, virtio_net_is_interrupting, and what the poll does
\* with their answer.
Latch ==
  /\ latched' = (latched \/ interrupting)
  /\ interrupting' = FALSE

\* The guest: interrupt taken and claimed.
TakeIrq ==
  /\ guest = "main"
  /\ latched
  /\ latched' = FALSE
  /\ guest' = "isr"
  /\ UNCHANGED <<flagVars, isr>>

\* A load of InterruptStatus.
ReadIsr ==
  /\ guest = "isr"
  /\ isr' = interrupt_status
  /\ guest' = "ack"
  /\ UNCHANGED <<flagVars, latched>>

\* Slip: any store clears the bit, whatever was read before.
Acknowledge_AnyValue(bit) ==
  /\ interrupt_status' = FALSE
  /\ UNCHANGED interrupting

\* A store to InterruptACK.
Acknowledge(bit) ==
  /\ interrupt_status' = (interrupt_status /\ ~bit)
  /\ UNCHANGED interrupting

AckIsr ==
  /\ guest = "ack"
  /\ Acknowledge(isr)
  /\ guest' = IF isr THEN "reap" ELSE "main"
  /\ isr' = FALSE
  /\ UNCHANGED latched

Handle == TakeIrq \/ ReadIsr \/ AckIsr

\* A signal is on its way to a handler that will look at the used rings.
Announced ==
  \/ guest = "reap"
  \/ guest = "ack" /\ isr
  \/ interrupt_status /\ (interrupting \/ latched \/ guest = "isr")
=============================================================================
