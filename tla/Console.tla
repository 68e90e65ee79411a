------------------------------ MODULE Console -------------------------------
(***************************************************************************)
(* The whole path of a typed byte: the input thread and the serial port    *)
(* (Uart), the periodic poll of the hart (cpu_update_devices and           *)
(* cpu_check_interrupt), the interrupt controller (Plic), and the guest's  *)
(* driver, which is not part of the repository: it is the usual one, for   *)
(* the devices the generated device tree announces, and it only uses their *)
(* registers.                                                              *)
(*                                                                         *)
(* The poll runs between instructions: after every 256th retired one, and  *)
(* on every step of a waiting hart.  Here it may come between any two      *)
(* steps of the guest.                                                     *)
(***************************************************************************)
EXTENDS Uart, Plic

CONSTANTS
  UART_IRQ,     \* 10 in the code
  S,            \* the supervisor's context of the interrupt controller
  MAX_INPUT,    \* bound: bytes typed in a behaviour
  MAX_OUTPUT    \* bound: bytes the guest sends in a behaviour

ASSUME ConsoleAssumption ==
  /\ UART_IRQ \in Sources
  /\ 1 \in PriorityValues    \* the driver's; the register takes any
  /\ S \in Contexts
  /\ MAX_INPUT \in Nat
  /\ MAX_OUTPUT \in Nat

VARIABLES
  seip,       \* mip.SEIP
  sie,        \* sstatus.SIE
  guest,      \* where the guest's driver is
  iir,        \* what it read from IIR
  backlog,    \* bytes it has to send
  typed, sent \* bytes so far, for the bounds

guestVars == <<seip, sie, guest, iir, backlog, typed, sent>>
vars == <<uartVars, plicVars, guestVars>>

ConsoleInit ==
  /\ UartInit
  /\ PlicInit
  /\ seip = FALSE
  /\ sie = FALSE
  /\ guest = "priority"
  /\ iir = "none"
  /\ backlog = 0
  /\ typed = 0
  /\ sent = 0

-----------------------------------------------------------------------------
(* The input thread.                                                       *)

TypeByte ==
  /\ typed < MAX_INPUT
  /\ \E c \in Bytes : Type(c)
  /\ typed' = typed + 1
  /\ UNCHANGED <<plicVars, seip, sie, guest, iir, backlog, sent>>

PushByte == (Push \/ Drop) /\ UNCHANGED <<plicVars, guestVars>>

-----------------------------------------------------------------------------
(* The poll.                                                               *)

\* cpu_update_devices: the serial line into the controller, the controller
\* into mip.
UpdateDevices ==
  /\ IF UartInterrupting
     THEN Raise(UART_IRQ)
     ELSE UNCHANGED <<priority, enable, threshold, pending, pending_summary>> /\ claimed' = 0
  /\ seip' = Interrupting(S)'

\* cpu_check_interrupt, and the trap it takes (the interrupt is delegated):
\* SIE goes off and the guest is in its handler.
CheckInterrupt ==
  IF seip' /\ sie
  THEN sie' = FALSE /\ guest' = "claim"
  ELSE UNCHANGED <<sie, guest>>

Poll ==
  /\ UpdateDevices
  /\ CheckInterrupt
  /\ UNCHANGED <<uartVars, iir, backlog, typed, sent>>

-----------------------------------------------------------------------------
(* The guest.                                                              *)

Go(from, to) == guest = from /\ guest' = to

SetUp ==
  \/ /\ Go("priority", "enable")
     /\ WritePriority(UART_IRQ, 1)
     /\ UNCHANGED <<uartVars, seip, sie, iir, backlog, typed, sent>>
  \/ /\ Go("enable", "ier")
     /\ WriteEnable(S, Word(UART_IRQ), {UART_IRQ})
     /\ UNCHANGED <<uartVars, seip, sie, iir, backlog, typed, sent>>
  \/ /\ Go("ier", "main")
     /\ WriteIer([rdi |-> TRUE, thri |-> FALSE])
     /\ sie' = TRUE
     /\ UNCHANGED <<plicVars, seip, iir, backlog, typed, sent>>

\* Something to send: the transmit interrupt is enabled.
StartSend ==
  /\ guest = "main"
  /\ sent < MAX_OUTPUT
  /\ sent' = sent + 1
  /\ backlog' = backlog + 1
  /\ WriteIer([rdi |-> TRUE, thri |-> TRUE])
  /\ UNCHANGED <<plicVars, seip, sie, guest, iir, typed>>

ClaimIrq ==
  /\ guest = "claim"
  /\ Claim(S)
  /\ guest' = IF BestIrq(S) = UART_IRQ THEN "iir" ELSE "sret"
  /\ UNCHANGED <<uartVars, seip, sie, iir, backlog, typed, sent>>

\* The driver asks for causes until there is none, then completes the
\* interrupt and claims again.
AskCause ==
  /\ guest = "iir"
  /\ ReadIir
  /\ iir' = IirValue
  /\ guest' = IF IirValue = "none" THEN "complete" ELSE "receive"
  /\ UNCHANGED <<plicVars, seip, sie, backlog, typed, sent>>

\* LSR, and the byte if there is one.
Receive ==
  /\ guest = "receive"
  /\ IF dr
     THEN ReadRbr /\ UNCHANGED guest
     ELSE guest' = "send" /\ UNCHANGED uartVars
  /\ UNCHANGED <<plicVars, seip, sie, iir, backlog, typed, sent>>

\* The transmitter is always empty; when there is nothing left to send its
\* interrupt is disabled.
Send ==
  /\ guest = "send"
  /\ IF ier.thri /\ backlog > 0
     THEN WriteThr /\ backlog' = backlog - 1 /\ UNCHANGED guest
     ELSE WriteIer([ier EXCEPT !.thri = FALSE]) /\ guest' = "iir" /\ UNCHANGED backlog
  /\ UNCHANGED <<plicVars, seip, sie, iir, typed, sent>>

CompleteIrq ==
  /\ Go("complete", "claim")
  /\ Complete(UART_IRQ)
  /\ UNCHANGED <<uartVars, seip, sie, iir, backlog, typed, sent>>

\* Slip: the return from the handler leaves interrupts off.
Sret_KeepsSieOff ==
  /\ Go("sret", "main")
  /\ UNCHANGED <<uartVars, plicVars, seip, sie, iir, backlog, typed, sent>>

\* sret: SIE comes back.
Sret ==
  /\ Go("sret", "main")
  /\ sie' = TRUE
  /\ UNCHANGED <<uartVars, plicVars, seip, iir, backlog, typed, sent>>

Handler == ClaimIrq \/ AskCause \/ Receive \/ Send \/ CompleteIrq \/ Sret

ConsoleNext == TypeByte \/ PushByte \/ Poll \/ SetUp \/ StartSend \/ Handler

\* The host schedules the input thread, the loop of the emulator executes
\* instructions and polls; nobody has to type or to send.
ConsoleFairness ==
  /\ WF_vars(PushByte)
  /\ WF_vars(Poll)
  /\ WF_vars(SetUp)
  /\ WF_vars(Handler)

ConsoleSpec == ConsoleInit /\ [][ConsoleNext]_vars /\ ConsoleFairness

-----------------------------------------------------------------------------
(* Properties.                                                             *)

\* Once the serial port signals received bytes the guest gets them all,
\* whatever the poll, the claim, the read of IIR and the next push do in
\* between: the line may fall before it is polled, and a latch may be set
\* again by an interrupt already being handled.
SignalledInputDrained == interrupting ~> rx_count = 0

\* What the guest has to send has a signal up, or a handler that is going to
\* send it: a read of IIR clears the cause only for one that does.
OutputHeard ==
  /\ backlog > 0 => ier.thri
  /\ thre_ip \/ (backlog > 0 /\ guest \in {"receive", "send"})

\* A signal is handed on at every station between the serial port and an empty
\* ring.  The receive interrupt is cleared only for a handler that reads on, which
\* leaves the ring only when it is empty; an interrupt that is up, or was latched,
\* when the hart polls in the main program is taken; one that is latched when the
\* handler claims is found (uart_load, cpu_update_devices, plic_claim).
SignalsHandedOn ==
  /\ []OutputHeard
  /\ [][/\ interrupting /\ ~interrupting' => guest' = "receive"
        /\ guest = "receive" /\ guest' # "receive" => rx_count = 0
        /\ Poll /\ guest = "main" /\ (UartInterrupting \/ UART_IRQ \in pending)
             => guest' = "claim"
        /\ guest = "claim" /\ UART_IRQ \in pending /\ guest' # "claim"
             => guest' = "iir"]_vars

\* The transmit interrupt comes back for each byte written, also when it was
\* cleared by a read of IIR that was made for something else: what the guest
\* has to send is sent.
OutputSent == backlog > 0 ~> backlog = 0

\* With the receive interrupt enabled, data in the ring reaches the guest:
\* what IER_RDI is for ("Received Data Available Interrupt", uart.h).
AvailableInputDrained == ier.rdi /\ dr ~> rx_count = 0

=============================================================================
