----------------------------- MODULE HartProofs -----------------------------
(***************************************************************************)
(* Proofs about Hart.  The inductive invariant is its type invariant with  *)
(* SavedContext and HandlerMasked: what a handler would return to is safe  *)
(* only because its interrupts are off, and they are off only because the  *)
(* context it would return to is still the interrupted one.  It has a part *)
(* about the trap state, which each way to change mstatus must keep, and a *)
(* part about the rest.                                                    *)
(***************************************************************************)
EXTENDS Hart, TLAPS

TrapTypeOK ==
  /\ priv \in 0..3
  /\ mstatus \in Mstatus
  /\ sframe \in Frames \cup {NoFrame}
  /\ mframe \in Frames \cup {NoFrame}

TrapInv == TrapTypeOK /\ SavedContext /\ HandlerMasked

RestTypeOK ==
  /\ mip \subseteq Irqs /\ mie \subseteq Irqs /\ mideleg \subseteq Irqs
  /\ medeleg \subseteq Nat
  /\ stce \in BOOLEAN /\ wfi \in BOOLEAN /\ due \in BOOLEAN
  /\ stimecmp \in Times
  /\ lines \subseteq PLIC_IRQS
  /\ mtime \in Times /\ mtimecmp \in Times /\ msip \in BOOLEAN
  /\ retired \in 0..(PERIOD - 1)

HartInv == TrapInv /\ RestTypeOK

-----------------------------------------------------------------------------
(* The trap state.                                                         *)

\* A trap to S-mode saves the context it interrupts.
LEMMA EnterSKeeps ==
  ASSUME TrapInv, priv <= PRIV_S, EnterS
  PROVE  TrapInv' /\ priv' >= priv
<1> USE DEF TrapInv, TrapTypeOK, EnterS, PRIV_S
<1>1. priv \in 0..1 /\ priv' = 1
  OBVIOUS
<1>2. mstatus' \in Mstatus
  BY <1>1 DEF Mstatus
<1>3. sframe' \in Frames /\ sframe' # NoFrame
  BY <1>1 DEF Frames, NoFrame, Mstatus
<1>4. SavedContext'
  BY <1>1 DEF SavedContext, Mstatus
<1>5. HandlerMasked'
  BY DEF HandlerMasked, Mstatus
<1> QED
  BY <1>1, <1>2, <1>3, <1>4, <1>5

\* The same for M-mode.
LEMMA EnterMKeeps ==
  ASSUME TrapInv, EnterM
  PROVE  TrapInv' /\ priv' >= priv
<1> USE DEF TrapInv, TrapTypeOK, EnterM, PRIV_M
<1>1. priv' = 3
  OBVIOUS
<1>2. mstatus' \in Mstatus
  BY DEF Mstatus
<1>3. mframe' \in Frames
  BY DEF Frames, Mstatus
<1>4. SavedContext'
  BY DEF SavedContext, Mstatus
<1>5. HandlerMasked'
  BY DEF HandlerMasked, Mstatus
<1> QED
  BY <1>1, <1>2, <1>3, <1>4, <1>5

\* cpu_take_trap, for any cause and any delegation.
LEMMA TrapKeeps ==
  ASSUME TrapInv, NEW cause, NEW deleg, TakeTrap(cause, deleg)
  PROVE  TrapInv' /\ priv' >= priv
BY EnterSKeeps, EnterMKeeps DEF TakeTrap

\* Traps that do not come.
LEMMA NoTrapKeeps ==
  ASSUME TrapInv, UNCHANGED trapVars
  PROVE  TrapInv' /\ priv' = priv
BY DEF TrapInv, TrapTypeOK, SavedContext, HandlerMasked, trapVars

\* cpu_check_interrupt.
LEMMA CheckKeeps ==
  ASSUME TrapInv, RestTypeOK, CheckInterrupt
  PROVE  TrapInv' /\ wfi' \in BOOLEAN /\ (priv' >= priv)
<1>1. wfi' \in BOOLEAN
  BY DEF CheckInterrupt, RestTypeOK
<1>2. CASE UNCHANGED trapVars
  <2>1. TrapInv' /\ priv' = priv
    BY <1>2, NoTrapKeeps
  <2> QED
    BY <1>1, <2>1 DEF TrapInv, TrapTypeOK
<1>3. CASE ~ UNCHANGED trapVars
  <2>1. TakeTrap(First(Deliverable(mip' \cap mie)), mideleg)
    BY <1>3 DEF CheckInterrupt
  <2> QED
    BY <1>1, <2>1, TrapKeeps
<1> QED
  BY <1>2, <1>3

\* One field of mstatus changed.
LEMMA FieldUpdates ==
  ASSUME NEW s \in Mstatus, NEW b \in BOOLEAN
  PROVE  /\ [s EXCEPT !.sie = b] \in Mstatus
         /\ [s EXCEPT !.spie = b] \in Mstatus
         /\ [s EXCEPT !.spp = 0] \in Mstatus
         /\ [s EXCEPT !.mie = b] \in Mstatus
         /\ [s EXCEPT !.mpie = b] \in Mstatus
         /\ [s EXCEPT !.mpp = 0] \in Mstatus
<1> USE DEF Mstatus
<1>1. [s EXCEPT !.sie = b] \in Mstatus
  OBVIOUS
<1>2. [s EXCEPT !.spie = b] \in Mstatus
  OBVIOUS
<1>3. [s EXCEPT !.spp = 0] \in Mstatus
  OBVIOUS
<1>4. [s EXCEPT !.mie = b] \in Mstatus
  OBVIOUS
<1>5. [s EXCEPT !.mpie = b] \in Mstatus
  OBVIOUS
<1>6. [s EXCEPT !.mpp = 0] \in Mstatus
  OBVIOUS
<1> QED
  BY <1>1, <1>2, <1>3, <1>4, <1>5, <1>6

\* The mstatus that a return leaves.
LEMMA ReturnUpdates ==
  ASSUME NEW s \in Mstatus, NEW b \in BOOLEAN
  PROVE  /\ [s EXCEPT !.sie = b, !.spie = TRUE, !.spp = 0] \in Mstatus
         /\ [s EXCEPT !.mie = b, !.mpie = TRUE, !.mpp = 0] \in Mstatus
<1>1. [[[s EXCEPT !.sie = b] EXCEPT !.spie = TRUE] EXCEPT !.spp = 0] \in Mstatus
  <2>1. [s EXCEPT !.sie = b] \in Mstatus
    BY FieldUpdates
  <2>2. [[s EXCEPT !.sie = b] EXCEPT !.spie = TRUE] \in Mstatus
    BY <2>1, FieldUpdates
  <2> QED
    BY <2>2, FieldUpdates
<1>2. [[[s EXCEPT !.mie = b] EXCEPT !.mpie = TRUE] EXCEPT !.mpp = 0] \in Mstatus
  <2>1. [s EXCEPT !.mie = b] \in Mstatus
    BY FieldUpdates
  <2>2. [[s EXCEPT !.mie = b] EXCEPT !.mpie = TRUE] \in Mstatus
    BY <2>1, FieldUpdates
  <2> QED
    BY <2>2, FieldUpdates
<1> QED
  BY <1>1, <1>2

\* The returns.
LEMMA SretKeeps ==
  ASSUME TrapInv, Sret
  PROVE  TrapInv'
<1> USE DEF TrapInv, TrapTypeOK, Sret, PRIV_S, PRIV_U, PRIV_M
<1>1. priv' \in 0..3
  BY DEF Mstatus
<1>2. mstatus' \in Mstatus
  <2>1. mstatus' = [mstatus EXCEPT !.sie = mstatus.spie, !.spie = TRUE, !.spp = 0]
    OBVIOUS
  <2>2. mstatus \in Mstatus /\ mstatus.spie \in BOOLEAN
    BY DEF Mstatus
  <2> QED
    BY <2>1, <2>2, ReturnUpdates
<1>3. sframe' = NoFrame
  OBVIOUS
<1>4. SavedContext'
  BY <1>3 DEF SavedContext, Mstatus
<1>5. HandlerMasked'
  BY <1>3 DEF HandlerMasked, Mstatus
<1> QED
  BY <1>1, <1>2, <1>3, <1>4, <1>5

LEMMA MretKeeps ==
  ASSUME TrapInv, Mret
  PROVE  TrapInv'
<1> USE DEF TrapInv, TrapTypeOK, Mret, PRIV_S, PRIV_U, PRIV_M
<1>1. priv' \in 0..3
  BY DEF Mstatus
<1>2. mstatus' \in Mstatus
  <2>1. mstatus' = [mstatus EXCEPT !.mie = mstatus.mpie, !.mpie = TRUE, !.mpp = 0]
    OBVIOUS
  <2>2. mstatus \in Mstatus /\ mstatus.mpie \in BOOLEAN
    BY DEF Mstatus
  <2> QED
    BY <2>1, <2>2, ReturnUpdates
<1>3. mframe' = NoFrame
  OBVIOUS
<1>4. SavedContext'
  BY <1>3 DEF SavedContext, Mstatus
<1>5. HandlerMasked'
  BY <1>3 DEF HandlerMasked, Mstatus
<1> QED
  BY <1>1, <1>2, <1>3, <1>4, <1>5

\* Software's writes of mstatus and of its S-mode view.
LEMMA WritesKeep ==
  ASSUME TrapInv, NEW s \in MstatusValues, WriteMstatus(s) \/ WriteSstatus(s)
  PROVE  TrapInv' /\ priv' = priv
<1>1. s \in Mstatus
  BY HartAssumption
<1>2. CASE WriteMstatus(s)
  BY <1>1, <1>2 DEF TrapInv, TrapTypeOK, SavedContext, HandlerMasked, WriteMstatus, NoFrame
<1>3. CASE WriteSstatus(s)
  BY <1>1, <1>3 DEF TrapInv, TrapTypeOK, SavedContext, HandlerMasked, WriteSstatus,
                    NoFrame, Mstatus
<1> QED
  BY <1>2, <1>3

-----------------------------------------------------------------------------
(* The rest of the state.                                                  *)

\* Two words below n make a number below its square.
LEMMA Words ==
  ASSUME NEW n \in Nat \ {0}, NEW h \in 0..(n - 1), NEW l \in 0..(n - 1)
  PROVE  n * h + l \in 0..(n * n - 1)
<1>1. n * h \in Nat /\ n * n \in Nat
  BY SMT
<1>2. n * h <= n * (n - 1)
  BY SMT
<1>3. n * (n - 1) = n * n - n
  BY SMT
<1> QED
  BY <1>1, <1>2, <1>3

\* And such a number is made of two such words.
LEMMA Halves ==
  ASSUME NEW n \in Nat \ {0}, NEW t \in 0..(n * n - 1)
  PROVE  t \div n \in 0..(n - 1) /\ t % n \in 0..(n - 1)
<1>1. t % n \in 0..(n - 1)
  BY SMT
<1>2. t \div n \in Nat /\ t = n * (t \div n) + (t % n)
  BY SMT
<1>3. t \div n < n
  <2> DEFINE q == t \div n
  <2>1. SUFFICES ASSUME q >= n PROVE FALSE
    BY <1>2
  <2>2. q \in Nat /\ t >= n * q
    BY <1>1, <1>2
  <2> HIDE DEF q
  <2>3. n * q >= n * n
    BY <2>1, <2>2
  <2> QED
    BY <2>2, <2>3
<1> QED
  BY <1>1, <1>2, <1>3

\* A store to a register of the CLINT, or to a word of it, leaves a time.
LEMMA StoresKeep ==
  ASSUME NEW old \in Times, NEW t \in Times
  PROVE  Stores(old, t) \subseteq Times
<1>1. HALF \in Nat \ {0}
  BY HartAssumption
<1>2. old \in 0..(HALF * HALF - 1) /\ t \in 0..(HALF * HALF - 1)
  BY DEF Times, TIME
<1> DEFINE high == old \div HALF
           low == old % HALF
           word == t % HALF
<1>3. high \in 0..(HALF - 1) /\ low \in 0..(HALF - 1) /\ word \in 0..(HALF - 1)
  BY <1>1, <1>2, Halves
<1>4. Stores(old, t) = {t, HALF * high + word, HALF * word + low}
  BY DEF Stores
<1> HIDE DEF high, low, word
<1>5. HALF * high + word \in Times
  BY <1>1, <1>3, Words DEF Times, TIME
<1>6. HALF * word + low \in Times
  BY <1>1, <1>3, Words DEF Times, TIME
<1> QED
  BY <1>4, <1>5, <1>6

\* The count of a waiting hart's steps stays a time.
LEMMA TickKeeps ==
  ASSUME mtime \in Times
  PROVE  (mtime + 1) % TIME \in Times
<1>1. TIME \in Nat \ {0}
  BY HartAssumption DEF TIME
<1>2. mtime + 1 \in Nat
  BY <1>1 DEF Times
<1> HIDE DEF TIME
<1> QED
  BY <1>1, <1>2 DEF Times

\* The end of an instruction keeps its counter.
LEMMA RetireKeeps ==
  ASSUME RestTypeOK, Retire
  PROVE  retired' \in 0..(PERIOD - 1) /\ due' \in BOOLEAN
BY HartAssumption DEF RestTypeOK, Retire

\* An instruction that writes no CSR but mstatus.
LEMMA StepKeeps ==
  ASSUME RestTypeOK, Step, UNCHANGED csrVars
  PROVE  RestTypeOK'
<1>1. Retire
  BY DEF Step
<1>2. retired' \in 0..(PERIOD - 1) /\ due' \in BOOLEAN
  BY <1>1, RetireKeeps
<1> QED
  BY <1>2 DEF RestTypeOK, Step, csrVars, clint

\* Stores to the CLINT.
LEMMA ClintKeeps ==
  ASSUME RestTypeOK, WriteClint
  PROVE  RestTypeOK'
<1>1. retired' \in 0..(PERIOD - 1) /\ due' \in BOOLEAN
  BY RetireKeeps DEF WriteClint
<1>2. mtime' \in Times /\ mtimecmp' \in Times /\ msip' \in BOOLEAN
  <2>1. mtime \in Times /\ mtimecmp \in Times /\ msip \in BOOLEAN
    BY DEF RestTypeOK
  <2>2. CASE msip' \in MsipValues /\ UNCHANGED <<mtime, mtimecmp>>
    BY <2>1, <2>2, HartAssumption
  <2>3. ASSUME NEW t \in TimerValues,
               mtimecmp' \in Stores(mtimecmp, t) /\ UNCHANGED <<mtime, msip>>
        PROVE  mtime' \in Times /\ mtimecmp' \in Times /\ msip' \in BOOLEAN
    <3>1. t \in Times
      BY HartAssumption
    <3> QED
      BY <2>1, <2>3, <3>1, StoresKeep
  <2>4. ASSUME NEW t \in TimerValues,
               mtime' \in Stores(mtime, t) /\ UNCHANGED <<mtimecmp, msip>>
        PROVE  mtime' \in Times /\ mtimecmp' \in Times /\ msip' \in BOOLEAN
    <3>1. t \in Times
      BY HartAssumption
    <3> QED
      BY <2>1, <2>4, <3>1, StoresKeep
  <2> QED
    BY <2>2, <2>3, <2>4 DEF WriteClint
<1> QED
  BY <1>1, <1>2 DEF RestTypeOK, WriteClint, csrVars

\* Writes of the other CSRs.
LEMMA CsrKeeps ==
  ASSUME RestTypeOK, CsrWrite
  PROVE  RestTypeOK'
<1>1. Retire
  BY DEF CsrWrite, WriteMstatus, WriteSstatus, WriteMie, WriteSie, WriteMip, WriteSip,
         WriteDelegation, WriteMenvcfg, WriteStimecmp, Step
<1>2. retired' \in 0..(PERIOD - 1) /\ due' \in BOOLEAN
  BY <1>1, RetireKeeps
<1>3. ASSUME NEW s \in MstatusValues, WriteMstatus(s) \/ WriteSstatus(s)
      PROVE  RestTypeOK'
  <2>1. Step /\ UNCHANGED csrVars
    BY <1>3 DEF WriteMstatus, WriteSstatus
  <2> QED
    BY <2>1, StepKeeps
<1>4. ASSUME NEW set \in MieValues, WriteMie(set) \/ WriteSie(set)
      PROVE  RestTypeOK'
  <2>1. set \subseteq Irqs
    BY HartAssumption
  <2>2. mie' \subseteq Irqs
    BY <1>4, <2>1 DEF WriteMie, WriteSie, RestTypeOK
  <2> QED
    BY <1>2, <1>4, <2>2 DEF WriteMie, WriteSie, Step, RestTypeOK, clint
<1>5. ASSUME NEW set \in MipValues, WriteMip(set) \/ WriteSip(set)
      PROVE  RestTypeOK'
  <2>1. set \subseteq Irqs
    BY HartAssumption
  <2>2. mip' \subseteq Irqs
    BY <1>5, <2>1 DEF WriteMip, WriteSip, RestTypeOK
  <2> QED
    BY <1>2, <1>5, <2>2 DEF WriteMip, WriteSip, RestTypeOK, csrVars, clint
<1>6. ASSUME NEW mi \in MidelegValues, NEW me \in MedelegValues, WriteDelegation(mi, me)
      PROVE  RestTypeOK'
  <2>1. mi \subseteq Irqs /\ me \subseteq Nat
    BY HartAssumption
  <2>2. mideleg' \subseteq Irqs /\ medeleg' \subseteq Nat
    BY <1>6, <2>1 DEF WriteDelegation, RestTypeOK
  <2> QED
    BY <1>2, <1>6, <2>2 DEF WriteDelegation, Step, RestTypeOK, clint
<1>7. ASSUME NEW bit \in MenvcfgValues, WriteMenvcfg(bit)
      PROVE  RestTypeOK'
  <2>1. bit \in BOOLEAN
    BY HartAssumption
  <2> QED
    BY <1>2, <1>7, <2>1 DEF WriteMenvcfg, Step, RestTypeOK, clint
<1>8. ASSUME NEW t \in StimecmpValues, WriteStimecmp(t)
      PROVE  RestTypeOK'
  <2>1. t \in Times
    BY HartAssumption
  <2> QED
    BY <1>2, <1>8, <2>1 DEF WriteStimecmp, Step, RestTypeOK, clint
<1> QED
  BY <1>3, <1>4, <1>5, <1>6, <1>7, <1>8 DEF CsrWrite

\* The poll brings into mip only what the devices can drive.
LEMMA UpdateKeeps ==
  ASSUME RestTypeOK, UpdateDevices
  PROVE  mip' \subseteq Irqs
BY DEF RestTypeOK, UpdateDevices, Driven

-----------------------------------------------------------------------------

LEMMA InitHolds == Init => HartInv
<1> SUFFICES ASSUME Init PROVE HartInv
  OBVIOUS
<1>1. TrapInv
  BY DEF Init, TrapInv, TrapTypeOK, SavedContext, HandlerMasked, Mstatus, PRIV_M, NoFrame
<1>2. RestTypeOK
  <2>1. 0 \in 0..(PERIOD - 1)
    BY HartAssumption
  <2>2. 0 \in Times
    <3>1. TIME \in Nat \ {0}
      BY HartAssumption DEF TIME
    <3> HIDE DEF TIME
    <3> QED
      BY <3>1 DEF Times
  <2> QED
    BY <2>1, <2>2 DEF Init, RestTypeOK
<1> QED
  BY <1>1, <1>2 DEF HartInv

\* Every step keeps the invariant, and only the returns lower the privilege.
LEMMA StepHolds ==
  ASSUME HartInv, [Next]_vars
  PROVE  HartInv' /\ (priv' < priv => Sret \/ Mret)
<1>0. TrapInv /\ RestTypeOK /\ priv \in Int
  BY DEF HartInv, TrapInv, TrapTypeOK
<1>1. CASE Plain
  <2>1. Step /\ UNCHANGED csrVars /\ UNCHANGED trapVars
    BY <1>1 DEF Plain
  <2>2. TrapInv' /\ RestTypeOK' /\ priv' = priv
    BY <1>0, <2>1, NoTrapKeeps, StepKeeps
  <2> QED
    BY <1>0, <2>2 DEF HartInv
<1>2. CASE Exception
  <2>1. PICK cause \in Causes : TakeTrap(cause, medeleg)
    BY <1>2 DEF Exception
  <2>2. Step /\ UNCHANGED csrVars
    BY <1>2 DEF Exception
  <2>3. TrapInv' /\ RestTypeOK' /\ priv' >= priv
    BY <1>0, <2>1, <2>2, TrapKeeps, StepKeeps
  <2>4. priv' \in Int
    BY <2>3 DEF TrapInv, TrapTypeOK
  <2> QED
    BY <1>0, <2>3, <2>4 DEF HartInv
<1>3. CASE Wfi
  <2>1. UNCHANGED trapVars /\ Retire
    BY <1>3 DEF Wfi
  <2>2. TrapInv' /\ priv' = priv
    BY <1>0, <2>1, NoTrapKeeps
  <2>3. RestTypeOK'
    BY <1>0, <1>3, <2>1, RetireKeeps DEF Wfi, RestTypeOK, csrVars, clint
  <2> QED
    BY <1>0, <2>2, <2>3 DEF HartInv
<1>4. CASE Sret
  <2>1. Step /\ UNCHANGED csrVars
    BY <1>4 DEF Sret
  <2> QED
    BY <1>0, <1>4, <2>1, SretKeeps, StepKeeps DEF HartInv
<1>5. CASE Mret
  <2>1. Step /\ UNCHANGED csrVars
    BY <1>5 DEF Mret
  <2> QED
    BY <1>0, <1>5, <2>1, MretKeeps, StepKeeps DEF HartInv
<1>6. CASE CsrWrite
  <2>1. RestTypeOK'
    BY <1>0, <1>6, CsrKeeps
  <2>2. CASE \E s \in MstatusValues : WriteMstatus(s) \/ WriteSstatus(s)
    <3>1. TrapInv' /\ priv' = priv
      BY <1>0, <2>2, WritesKeep
    <3> QED
      BY <1>0, <2>1, <3>1 DEF HartInv
  <2>3. CASE ~ \E s \in MstatusValues : WriteMstatus(s) \/ WriteSstatus(s)
    <3>1. UNCHANGED trapVars
      BY <1>6, <2>3 DEF CsrWrite, WriteMie, WriteSie, WriteMip, WriteSip,
                        WriteDelegation, WriteMenvcfg, WriteStimecmp
    <3>2. TrapInv' /\ priv' = priv
      BY <1>0, <3>1, NoTrapKeeps
    <3> QED
      BY <1>0, <2>1, <3>2 DEF HartInv
  <2> QED
    BY <2>2, <2>3
<1>7. CASE FetchFault
  <2>1. PICK cause \in Causes : TakeTrap(cause, medeleg)
    BY <1>7 DEF FetchFault
  <2>2. TrapInv' /\ priv' >= priv
    BY <1>0, <2>1, TrapKeeps
  <2>3. RestTypeOK'
    BY <1>0, <1>7 DEF FetchFault, RestTypeOK, csrVars, clint
  <2>4. priv' \in Int
    BY <2>2 DEF TrapInv, TrapTypeOK
  <2> QED
    BY <1>0, <2>2, <2>3, <2>4 DEF HartInv
<1>8. CASE Poll \/ Idle
  <2>1. UpdateDevices /\ CheckInterrupt /\ UNCHANGED csrVars
    BY <1>8 DEF Poll, Idle
  <2>2. TrapInv' /\ wfi' \in BOOLEAN /\ priv' >= priv
    BY <1>0, <2>1, CheckKeeps
  <2>3. mtime' \in Times
    BY <1>0, <1>8, TickKeeps DEF Poll, Idle, RestTypeOK
  <2>4. mip' \subseteq Irqs /\ UNCHANGED <<lines, mtimecmp, msip>>
    BY <1>0, <2>1, UpdateKeeps DEF UpdateDevices
  <2>5. RestTypeOK'
    BY <1>0, <1>8, <2>1, <2>2, <2>3, <2>4 DEF Poll, Idle, RestTypeOK, csrVars
  <2>6. priv' \in Int
    BY <2>2 DEF TrapInv, TrapTypeOK
  <2> QED
    BY <1>0, <2>2, <2>5, <2>6 DEF HartInv
<1>9. CASE LinesChange
  <2>1. UNCHANGED trapVars
    BY <1>9 DEF LinesChange
  <2>2. TrapInv' /\ priv' = priv
    BY <1>0, <2>1, NoTrapKeeps
  <2>3. lines' \subseteq PLIC_IRQS
    BY <1>0, <1>9, HartAssumption DEF LinesChange, RestTypeOK
  <2>4. RestTypeOK'
    BY <1>0, <1>9, <2>3 DEF LinesChange, RestTypeOK, csrVars, clint
  <2> QED
    BY <1>0, <2>2, <2>4 DEF HartInv
<1>10. CASE UNCHANGED vars
  <2>1. UNCHANGED trapVars
    BY <1>10 DEF vars
  <2>2. TrapInv' /\ priv' = priv
    BY <1>0, <2>1, NoTrapKeeps
  <2>3. RestTypeOK'
    BY <1>0, <1>10 DEF vars, csrVars, clint, RestTypeOK
  <2> QED
    BY <1>0, <2>2, <2>3 DEF HartInv
<1>11. CASE WriteClint
  <2>1. UNCHANGED trapVars
    BY <1>11 DEF WriteClint
  <2>2. TrapInv' /\ priv' = priv
    BY <1>0, <2>1, NoTrapKeeps
  <2>3. RestTypeOK'
    BY <1>0, <1>11, ClintKeeps
  <2> QED
    BY <1>0, <2>2, <2>3 DEF HartInv
<1> QED
  BY <1>1, <1>2, <1>3, <1>4, <1>5, <1>6, <1>7, <1>8, <1>9, <1>10, <1>11 DEF Next, Instruction

\* The inductive invariant holds.
THEOREM HartInvariance == Spec => []HartInv
<1>1. Init => HartInv
  BY InitHolds
<1>2. HartInv /\ [Next]_vars => HartInv'
  BY StepHolds
<1> QED
  BY <1>1, <1>2, PTL DEF Spec

\* Every variable of Hart keeps its type.
THEOREM HartTypeCorrect == Spec => []HartTypeOK
<1>1. HartInv => HartTypeOK
  BY DEF HartInv, TrapInv, TrapTypeOK, RestTypeOK, HartTypeOK
<1> QED
  BY <1>1, HartInvariance, PTL

\* A trap, a return or a register access at one level never damages the context
\* that the other level's handler would return to.
THEOREM ContextSaved == Spec => []SavedContext
<1>1. HartInv => SavedContext
  BY DEF HartInv, TrapInv
<1> QED
  BY <1>1, HartInvariance, PTL

\* The interrupts of a level are off while its handler has not saved its context.
THEOREM HandlersMasked == Spec => []HandlerMasked
<1>1. HartInv => HandlerMasked
  BY DEF HartInv, TrapInv
<1> QED
  BY <1>1, HartInvariance, PTL

\* Whatever the delegation registers hold, only SRET and MRET lower the
\* privilege.
THEOREM PrivilegeDrops == Spec => OnlyReturnsLower
<1>1. HartInv /\ [Next]_vars => [priv' < priv => Sret \/ Mret]_vars
  BY StepHolds
<1> QED
  BY <1>1, HartInvariance, PTL DEF Spec, OnlyReturnsLower
=============================================================================
