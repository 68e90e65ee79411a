-------------------------------- MODULE Hart --------------------------------
(***************************************************************************)
(* Traps and interrupts of the hart (cpu.c, and the SYSTEM instructions of *)
(* execute.c): privilege, the interrupt-enable stack in mstatus, mip and   *)
(* mie, delegation, WFI, and the poll that looks at the devices after      *)
(* every PERIOD-th retired instruction and on every step of a waiting      *)
(* hart.                                                                   *)
(*                                                                         *)
(* The CLINT (clint.c) is part of it: mtime has two sources, the host's    *)
(* clock, which the poll of a running hart reads, and a count of the steps *)
(* of a waiting one, so it may go back.  The outputs of the interrupt      *)
(* controller are lines that may change at any time.                       *)
(*                                                                         *)
(* An instruction and the poll that follows it in the same cpu_step are    *)
(* two actions, with due between them.  sframe and mframe are history: the *)
(* context that the last trap to S-mode, and to M-mode, interrupted, until *)
(* software returns from it or writes mstatus.                             *)
(***************************************************************************)
EXTENDS Integers, Sequences

CONSTANTS
  PERIOD,         \* retired instructions between polls (256 in the code)
  HALF,           \* 2^32 in the code: times are numbers of twice that width
  LineIrqs,       \* the interrupts whose lines change
  MieValues, MidelegValues, MedelegValues, MipValues,
                  \* what software writes to these registers
  MenvcfgValues,  \* to menvcfg.STCE
  StimecmpValues, \* to stimecmp
  MsipValues, TimerValues,
                  \* to MSIP, MTIMECMP and MTIME of the CLINT
  MstatusValues,  \* and to mstatus and sstatus
  Causes          \* the exceptions instructions raise

PRIV_U == 0
PRIV_S == 1
PRIV_M == 3

IRQ_S_SOFT == 1
IRQ_M_SOFT == 3
IRQ_S_TIMER == 5
IRQ_M_TIMER == 7
IRQ_S_EXT == 9
IRQ_M_EXT == 11

Irqs == {IRQ_S_SOFT, IRQ_M_SOFT, IRQ_S_TIMER, IRQ_M_TIMER, IRQ_S_EXT, IRQ_M_EXT}

irq_order ==
  <<IRQ_M_EXT, IRQ_M_SOFT, IRQ_M_TIMER, IRQ_S_EXT, IRQ_S_SOFT, IRQ_S_TIMER>>

\* The views of S-mode on mie and mip.
SIE_MASK == {IRQ_S_SOFT, IRQ_S_TIMER, IRQ_S_EXT}

Mstatus == [sie : BOOLEAN, spie : BOOLEAN, spp : 0..1,
            mie : BOOLEAN, mpie : BOOLEAN, mpp : 0..3, tsr : BOOLEAN]

TIME == HALF * HALF
Times == 0..(TIME - 1)

\* What the interrupt controller drives.
PLIC_IRQS == {IRQ_S_EXT, IRQ_M_EXT}

ASSUME HartAssumption ==
  /\ PERIOD \in Nat \ {0}
  /\ HALF \in Nat \ {0}
  /\ StimecmpValues \subseteq Times
  /\ MsipValues \subseteq BOOLEAN
  /\ TimerValues \subseteq Times
  /\ LineIrqs \subseteq PLIC_IRQS
  /\ MieValues \subseteq SUBSET Irqs
  /\ MidelegValues \subseteq SUBSET Irqs
  /\ MipValues \subseteq SUBSET Irqs
  /\ MedelegValues \subseteq SUBSET Nat
  /\ MenvcfgValues \subseteq BOOLEAN
  /\ MstatusValues \subseteq Mstatus
  /\ Causes \subseteq Nat

VARIABLES
  priv, mstatus,
  mip, mie, mideleg, medeleg,
  stce,           \* menvcfg.STCE
  stimecmp,
  wfi,
  lines,
  mtime, mtimecmp, msip,
  retired,        \* instret modulo PERIOD
  due,            \* the poll of this step is still to come
  sframe, mframe  \* history

trapVars == <<priv, mstatus, sframe, mframe>>
csrVars == <<mie, mideleg, medeleg, stce, stimecmp>>
clint == <<mtime, mtimecmp, msip>>
vars == <<trapVars, csrVars, mip, wfi, lines, clint, retired, due>>

Frames == [priv : 0..3, ie : BOOLEAN]
NoFrame == [priv |-> -1, ie |-> FALSE]

Init ==
  /\ priv = PRIV_M
  /\ mstatus = [sie |-> FALSE, spie |-> FALSE, spp |-> 0,
                mie |-> FALSE, mpie |-> FALSE, mpp |-> 0, tsr |-> FALSE]
  /\ mip = {} /\ mie = {} /\ mideleg = {} /\ medeleg = {}
  /\ stce = FALSE
  /\ stimecmp = 0
  /\ wfi = FALSE
  /\ lines = {}
  /\ mtime = 0 /\ mtimecmp = 0 /\ msip = FALSE
  /\ retired = 0
  /\ due = FALSE
  /\ sframe = NoFrame
  /\ mframe = NoFrame

-----------------------------------------------------------------------------
(* cpu_take_trap.                                                          *)

EnterS ==
  /\ mstatus' = [mstatus EXCEPT !.spie = mstatus.sie, !.sie = FALSE, !.spp = priv]
  /\ priv' = PRIV_S
  /\ sframe' = [priv |-> priv, ie |-> mstatus.sie]
  /\ UNCHANGED mframe

EnterM ==
  /\ mstatus' = [mstatus EXCEPT !.mpie = mstatus.mie, !.mie = FALSE, !.mpp = priv]
  /\ priv' = PRIV_M
  /\ mframe' = [priv |-> priv, ie |-> mstatus.mie]
  /\ UNCHANGED sframe

\* Slip: a trap from M-mode is delegated too.
TakeTrap_DelegatesFromM(cause, deleg) ==
  \/ cause \in deleg /\ EnterS
  \/ cause \notin deleg /\ EnterM

TakeTrap(cause, deleg) ==
  \/ priv <= PRIV_S /\ cause \in deleg /\ EnterS
  \/ ~(priv <= PRIV_S /\ cause \in deleg) /\ EnterM

-----------------------------------------------------------------------------
(* The poll.                                                               *)

\* STIP is the timer's only with STCE, else software's.
Driven == (Irqs \ {IRQ_S_SOFT}) \ (IF stce THEN {} ELSE {IRQ_S_TIMER})

\* What drives an interrupt is up: the controller's lines, MSIP, and the
\* comparators at a time.
Up(i, time) ==
  \/ i \in lines
  \/ i = IRQ_M_SOFT /\ msip
  \/ i = IRQ_M_TIMER /\ time >= mtimecmp
  \/ i = IRQ_S_TIMER /\ time >= stimecmp

\* cpu_update_devices.
UpdateDevices ==
  /\ mip' = (mip \ Driven) \cup {i \in Driven : Up(i, mtime')}
  /\ UNCHANGED <<lines, mtimecmp, msip>>

\* Slip: MIE masks machine interrupts below M-mode too.
MEnabled_AsksMie == priv <= PRIV_M /\ mstatus.mie

MEnabled == priv < PRIV_M \/ (priv = PRIV_M /\ mstatus.mie)

SEnabled == priv < PRIV_S \/ (priv = PRIV_S /\ mstatus.sie)

\* The interrupts that may be taken now, among those that pend.
Deliverable(pend) ==
  {i \in pend : IF i \in mideleg THEN SEnabled ELSE MEnabled}

First(set) ==
  irq_order[CHOOSE k \in 1..Len(irq_order) :
              irq_order[k] \in set /\ \A j \in 1..(k - 1) : irq_order[j] \notin set]

\* Slip: a waiting hart wakes only for an interrupt it may take.
CheckInterrupt_WakesLate ==
  LET deliverable == Deliverable(mip' \cap mie)
  IN IF deliverable = {}
     THEN UNCHANGED <<trapVars, wfi>>
     ELSE wfi' = FALSE /\ TakeTrap(First(deliverable), mideleg)

\* cpu_check_interrupt.
CheckInterrupt ==
  LET pend == mip' \cap mie
      deliverable == Deliverable(pend)
  IN /\ wfi' = (wfi /\ pend = {})
     /\ IF deliverable = {}
        THEN UNCHANGED trapVars
        ELSE TakeTrap(First(deliverable), mideleg)

-----------------------------------------------------------------------------
(* cpu_step.                                                               *)

\* A waiting hart executes again when mip, as the last poll left it, has an
\* enabled interrupt.
Executing == ~due /\ (wfi => mip \cap mie # {})

\* The end of an instruction.
Retire ==
  /\ retired' = (retired + 1) % PERIOD
  /\ due' = (retired' = 0)

\* An instruction that leaves WFI behind and does not write mip.
Step ==
  /\ Executing
  /\ Retire
  /\ wfi' = FALSE
  /\ UNCHANGED <<mip, lines, clint>>

\* The time is what the host's clock says, which may be anything.
Poll ==
  /\ due
  /\ due' = FALSE
  /\ mtime' \in Times
  /\ UpdateDevices
  /\ CheckInterrupt
  /\ UNCHANGED <<csrVars, retired>>

\* Slip: time stands still while the hart waits.
Idle_NoTime ==
  /\ ~due
  /\ wfi /\ mip \cap mie = {}
  /\ UNCHANGED mtime
  /\ UpdateDevices
  /\ CheckInterrupt
  /\ UNCHANGED <<csrVars, retired, due>>

\* A step of a waiting hart.
Idle ==
  /\ ~due
  /\ wfi /\ mip \cap mie = {}
  /\ mtime' = (mtime + 1) % TIME
  /\ UpdateDevices
  /\ CheckInterrupt
  /\ UNCHANGED <<csrVars, retired, due>>

\* A fetch that faults is no instruction: nothing retires and no poll comes.
FetchFault ==
  /\ Executing
  /\ wfi' = FALSE
  /\ \E cause \in Causes : TakeTrap(cause, medeleg)
  /\ UNCHANGED <<csrVars, mip, lines, clint, retired, due>>

\* An instruction of no interest here.
Plain == Step /\ UNCHANGED <<trapVars, csrVars>>

Exception ==
  /\ Step
  /\ \E cause \in Causes : TakeTrap(cause, medeleg)
  /\ UNCHANGED csrVars

Wfi ==
  /\ Executing
  /\ Retire
  /\ wfi' = TRUE
  /\ UNCHANGED <<trapVars, csrVars, mip, lines, clint>>

Sret ==
  /\ Step
  /\ priv >= PRIV_S
  /\ ~(priv = PRIV_S /\ mstatus.tsr)
  /\ priv' = IF mstatus.spp = 1 THEN PRIV_S ELSE PRIV_U
  /\ mstatus' = [mstatus EXCEPT !.sie = mstatus.spie, !.spie = TRUE, !.spp = 0]
  /\ sframe' = NoFrame
  /\ UNCHANGED <<csrVars, mframe>>

\* Slip: M-mode's return turns on S-mode's interrupts, not its own.
Mret_SetsSie ==
  /\ Step
  /\ priv = PRIV_M
  /\ priv' = mstatus.mpp
  /\ mstatus' = [mstatus EXCEPT !.sie = mstatus.mpie, !.mpie = TRUE, !.mpp = PRIV_U]
  /\ mframe' = NoFrame
  /\ UNCHANGED <<csrVars, sframe>>

Mret ==
  /\ Step
  /\ priv = PRIV_M
  /\ priv' = mstatus.mpp
  /\ mstatus' = [mstatus EXCEPT !.mie = mstatus.mpie, !.mpie = TRUE, !.mpp = PRIV_U]
  /\ mframe' = NoFrame
  /\ UNCHANGED <<csrVars, sframe>>

-----------------------------------------------------------------------------
(* csr_write, which checks no privilege.                                   *)

WriteMstatus(s) ==
  /\ Step
  /\ mstatus' = s
  /\ sframe' = NoFrame
  /\ mframe' = NoFrame
  /\ UNCHANGED <<csrVars, priv>>

\* Slip: sstatus is not a view but the whole register.
WriteSstatus_Unmasked(s) ==
  /\ Step
  /\ mstatus' = s
  /\ sframe' = NoFrame
  /\ UNCHANGED <<csrVars, priv, mframe>>

WriteSstatus(s) ==
  /\ Step
  /\ mstatus' = [mstatus EXCEPT !.sie = s.sie, !.spie = s.spie, !.spp = s.spp]
  /\ sframe' = NoFrame
  /\ UNCHANGED <<csrVars, priv, mframe>>

WriteMie(set) ==
  /\ Step
  /\ mie' = set
  /\ UNCHANGED <<trapVars, mideleg, medeleg, stce, stimecmp>>

WriteSie(set) ==
  /\ Step
  /\ mie' = (mie \ SIE_MASK) \cup (set \cap SIE_MASK)
  /\ UNCHANGED <<trapVars, mideleg, medeleg, stce, stimecmp>>

WriteMip(set) ==
  /\ Executing
  /\ Retire
  /\ wfi' = FALSE
  /\ mip' = set
  /\ UNCHANGED <<trapVars, csrVars, lines, clint>>

\* Of sip only SSIP can be written.
WriteSip(set) ==
  /\ Executing
  /\ Retire
  /\ wfi' = FALSE
  /\ mip' = (mip \ {IRQ_S_SOFT}) \cup (set \cap {IRQ_S_SOFT})
  /\ UNCHANGED <<trapVars, csrVars, lines, clint>>

WriteDelegation(mi, me) ==
  /\ Step
  /\ \/ mideleg' = mi /\ UNCHANGED medeleg
     \/ medeleg' = me /\ UNCHANGED mideleg
  /\ UNCHANGED <<trapVars, mie, stce, stimecmp>>

\* menvcfg: STCE is stored as written; a read shows it clear.
WriteMenvcfg(bit) ==
  /\ Step
  /\ stce' = bit
  /\ UNCHANGED <<trapVars, mie, mideleg, medeleg, stimecmp>>

WriteStimecmp(t) ==
  /\ Step
  /\ stimecmp' = t
  /\ UNCHANGED <<trapVars, mie, mideleg, medeleg, stce>>

-----------------------------------------------------------------------------
(* clint_store.                                                            *)

\* A register of two words after a store of the whole, or to one of them.
Stores(old, t) ==
  {t, HALF * (old \div HALF) + (t % HALF), HALF * (t % HALF) + (old % HALF)}

WriteClint ==
  /\ Executing
  /\ Retire
  /\ wfi' = FALSE
  /\ \/ msip' \in MsipValues /\ UNCHANGED <<mtime, mtimecmp>>
     \/ \E t \in TimerValues : mtimecmp' \in Stores(mtimecmp, t) /\ UNCHANGED <<mtime, msip>>
     \/ \E t \in TimerValues : mtime' \in Stores(mtime, t) /\ UNCHANGED <<mtimecmp, msip>>
  /\ UNCHANGED <<trapVars, csrVars, mip, lines>>

-----------------------------------------------------------------------------

\* The interrupt controller, with the devices behind it.
LinesChange ==
  /\ \E i \in LineIrqs : lines' = (lines \ {i}) \cup ({i} \ lines)
  /\ UNCHANGED <<trapVars, csrVars, mip, wfi, clint, retired, due>>

CsrWrite ==
  \/ \E s \in MstatusValues : WriteMstatus(s) \/ WriteSstatus(s)
  \/ \E set \in MieValues : WriteMie(set) \/ WriteSie(set)
  \/ \E set \in MipValues : WriteMip(set) \/ WriteSip(set)
  \/ \E mi \in MidelegValues, me \in MedelegValues : WriteDelegation(mi, me)
  \/ \E bit \in MenvcfgValues : WriteMenvcfg(bit)
  \/ \E t \in StimecmpValues : WriteStimecmp(t)

Instruction == Plain \/ Exception \/ Wfi \/ Sret \/ Mret \/ CsrWrite \/ WriteClint

Next == Instruction \/ FetchFault \/ Poll \/ Idle \/ LinesChange

\* cpu_loop steps the hart for ever; one of the three is always possible.  That
\* not every step is a fetch that faults is asked of the guest: its trap handlers
\* can be fetched.
Fairness == WF_vars(Instruction \/ Poll \/ Idle)

Spec == Init /\ [][Next]_vars

FairSpec == Spec /\ Fairness

-----------------------------------------------------------------------------
(* Properties.                                                             *)

\* Type invariant.
HartTypeOK ==
  /\ priv \in 0..3
  /\ mstatus \in Mstatus
  /\ mip \subseteq Irqs /\ mie \subseteq Irqs /\ mideleg \subseteq Irqs
  /\ medeleg \subseteq Nat
  /\ stce \in BOOLEAN /\ wfi \in BOOLEAN /\ due \in BOOLEAN
  /\ stimecmp \in Times
  /\ lines \subseteq PLIC_IRQS
  /\ mtime \in Times /\ mtimecmp \in Times /\ msip \in BOOLEAN
  /\ retired \in 0..(PERIOD - 1)
  /\ sframe \in Frames \cup {NoFrame}
  /\ mframe \in Frames \cup {NoFrame}

\* What a return would restore is what the trap interrupted, for each of the
\* two handlers, whatever traps to the other level, their returns and accesses
\* to the other level's registers come in between: they share mstatus.
SavedContext ==
  /\ sframe # NoFrame => mstatus.spp = sframe.priv /\ mstatus.spie = sframe.ie
  /\ mframe # NoFrame => mstatus.mpp = mframe.priv /\ mstatus.mpie = mframe.ie

\* A handler that has not written mstatus runs with the interrupts of its level
\* off, so no interrupt destroys the context it has not saved yet.
HandlerMasked ==
  /\ sframe # NoFrame => ~mstatus.sie
  /\ mframe # NoFrame => ~mstatus.mie

\* Only a return lowers the privilege: no trap or interrupt, delegated or not,
\* takes the hart from M-mode to S-mode, whatever mideleg and medeleg say.
OnlyReturnsLower == [][priv' < priv => Sret \/ Mret]_vars

\* A waiting hart wakes when enabled lines are up, also when interrupts are off.
\* With the machine's timer enabled it wakes in any case, though no clock is
\* read while it waits: the count of its steps reaches the comparator.
ToWake == wfi /\ (lines \cap mie # {} \/ IRQ_M_TIMER \in mie)
WfiWakes == ToWake ~> ~ToWake

Wanted(i) == priv < PRIV_M /\ i \in mie \ mideleg /\ Up(i, mtime)

\* A machine interrupt that stays up and enabled brings a hart in U- or S-mode
\* to M-mode.
ReachesMachine ==
  \A i \in (LineIrqs \ {IRQ_S_EXT}) \cup {IRQ_M_TIMER} :
    Wanted(i) ~> priv = PRIV_M \/ ~Wanted(i)

\* "menvcfg: mask off STCE bit (63) so Sstc probe fails" (cpu.c): to software
\* there is no Sstc, so STIP changes only when software writes mip.
StipIsSoftware ==
  [][(IRQ_S_TIMER \in mip <=> IRQ_S_TIMER \in mip')
       \/ \E set \in MipValues : WriteMip(set)]_vars

=============================================================================
