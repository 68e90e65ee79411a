-------------------------------- MODULE Plic --------------------------------
(***************************************************************************)
(* The interrupt controller (plic.c): sources 1 to PLIC_MAX_SOURCE - 1,    *)
(* one latch (pending) per source, and contexts that enable sources, mask  *)
(* them by a threshold and claim them.                                     *)
(*                                                                         *)
(* The code keeps the latches in words of WORD bits, with a summary of the *)
(* words that are not zero so that the periodic poll need not scan them.   *)
(* Here a set of latches is a set of sources, and the summary a set of     *)
(* word numbers.                                                           *)
(***************************************************************************)
EXTENDS Integers, FiniteSets

CONSTANTS
  PLIC_MAX_SOURCE,  \* 1024 in the code
  WORD,             \* 32 in the code
  Contexts,         \* {0, 1} in the code: M-mode and S-mode of the hart
  PriorityValues    \* what software writes as priority or threshold

ASSUME PlicAssumption ==
  /\ PLIC_MAX_SOURCE \in Nat \ {0}
  /\ WORD \in Nat \ {0}
  /\ PriorityValues \subseteq Nat

VARIABLES
  priority, pending, enable, threshold, pending_summary,
  claimed  \* what the last read of the claim register returned, if it was
           \* the last step (0 when it was not, or when nothing was there)

plicVars == <<priority, pending, enable, threshold, pending_summary, claimed>>

AllSources == 0..(PLIC_MAX_SOURCE - 1)
Sources == AllSources \ {0}

Word(i) == i \div WORD
Words == {Word(i) : i \in AllSources}

\* The sources latched in one word of the pending array.
PendingIn(w) == {i \in pending : Word(i) = w}

PlicInit ==
  /\ priority = [i \in AllSources |-> 0]
  /\ pending = {}
  /\ enable = [c \in Contexts |-> {}]
  /\ threshold = [c \in Contexts |-> 0]
  /\ pending_summary = {}
  /\ claimed = 0

-----------------------------------------------------------------------------
(* The scans.                                                              *)

Eligible(c, i) ==
  /\ i \in pending
  /\ i \in enable[c]
  /\ priority[i] > threshold[c]

\* plic_is_interrupting: the summary first, then the latches.
Interrupting(c) ==
  /\ pending_summary # {}
  /\ \E i \in Sources : Eligible(c, i)

\* Slip: a later source of the same priority wins.
BestIrq_LastOfEqual(c) ==
  LET best[i \in AllSources] ==
        IF i = 0 THEN 0
        ELSE IF /\ Eligible(c, i)
                /\ priority[i] >= IF best[i - 1] = 0 THEN 0 ELSE priority[best[i - 1]]
             THEN i
             ELSE best[i - 1]
  IN best[PLIC_MAX_SOURCE - 1]

\* The loop of plic_claim, upwards from source 1: a later source wins only
\* with a higher priority.
BestIrq(c) ==
  LET best[i \in AllSources] ==
        IF i = 0 THEN 0
        ELSE IF /\ Eligible(c, i)
                /\ priority[i] > IF best[i - 1] = 0 THEN 0 ELSE priority[best[i - 1]]
             THEN i
             ELSE best[i - 1]
  IN best[PLIC_MAX_SOURCE - 1]

-----------------------------------------------------------------------------
(* Operations.                                                             *)

\* Slip: bits numbered from 1.
SetPending_NextBit(irq) ==
  /\ pending' = pending \cup {irq + 1}
  /\ pending_summary' = pending_summary \cup {Word(irq + 1)}

\* Slip: the summary is looked at only when the latch was set before.
SetPending_SummaryByBit(irq) ==
  IF irq \in Sources
  THEN /\ pending' = pending \cup {irq}
       /\ pending_summary' = IF irq \in pending
                             THEN pending_summary \cup {Word(irq)}
                             ELSE pending_summary
  ELSE UNCHANGED <<pending, pending_summary>>

\* plic_set_pending.
SetPending(irq) ==
  IF irq \in Sources
  THEN /\ pending' = pending \cup {irq}
       /\ pending_summary' = IF PendingIn(Word(irq)) = {}
                             THEN pending_summary \cup {Word(irq)}
                             ELSE pending_summary
  ELSE UNCHANGED <<pending, pending_summary>>

\* Slip: the summary bit goes with any latch of its word.
ClearPending_WholeWord(irq) ==
  IF irq \in Sources
  THEN /\ pending' = pending \ {irq}
       /\ pending_summary' = pending_summary \ {Word(irq)}
  ELSE UNCHANGED <<pending, pending_summary>>

\* plic_clear_pending.
ClearPending(irq) ==
  IF irq \in Sources
  THEN /\ pending' = pending \ {irq}
       /\ pending_summary' = IF PendingIn(Word(irq)) \ {irq} = {}
                             THEN pending_summary \ {Word(irq)}
                             ELSE pending_summary
  ELSE UNCHANGED <<pending, pending_summary>>

\* A device line polled by the hart: the latch is set, again and again while
\* the line is up.
Raise(irq) ==
  /\ SetPending(irq)
  /\ claimed' = 0
  /\ UNCHANGED <<priority, enable, threshold>>

\* A read of the claim register.
Claim(c) ==
  /\ claimed' = BestIrq(c)
  /\ ClearPending(BestIrq(c))
  /\ UNCHANGED <<priority, enable, threshold>>

\* Slip: completion takes the latch away.
Complete_ClearsPending(irq) ==
  /\ ClearPending(irq)
  /\ claimed' = 0
  /\ UNCHANGED <<priority, enable, threshold>>

\* A write of the claim register: nothing happens.
Complete(irq) ==
  /\ claimed' = 0
  /\ UNCHANGED <<priority, pending, enable, threshold, pending_summary>>

WritePriority(i, value) ==
  /\ priority' = [priority EXCEPT ![i] = value]
  /\ claimed' = 0
  /\ UNCHANGED <<pending, enable, threshold, pending_summary>>

\* One word of the enable bits of a context.
WriteEnable(c, w, bits) ==
  /\ enable' = [enable EXCEPT ![c] = {i \in @ : Word(i) # w} \cup bits]
  /\ claimed' = 0
  /\ UNCHANGED <<priority, pending, threshold, pending_summary>>

WriteThreshold(c, value) ==
  /\ threshold' = [threshold EXCEPT ![c] = value]
  /\ claimed' = 0
  /\ UNCHANGED <<priority, pending, enable, pending_summary>>

PlicNext ==
  \/ \E irq \in Sources : Raise(irq) \/ Complete(irq)
  \/ \E c \in Contexts : Claim(c)
  \/ \E i \in AllSources, value \in PriorityValues : WritePriority(i, value)
  \/ \E c \in Contexts, w \in Words, bits \in SUBSET AllSources :
       (\A i \in bits : Word(i) = w) /\ WriteEnable(c, w, bits)
  \/ \E c \in Contexts, value \in PriorityValues : WriteThreshold(c, value)

PlicSpec == PlicInit /\ [][PlicNext]_plicVars

-----------------------------------------------------------------------------
(* Properties.                                                             *)

\* Every variable keeps its type; source 0, which means "none", is never
\* latched.  Type invariant of the module.
PlicTypeOK ==
  /\ priority \in [AllSources -> Nat]
  /\ pending \subseteq Sources
  /\ enable \in [Contexts -> SUBSET AllSources]
  /\ threshold \in [Contexts -> Nat]
  /\ pending_summary \subseteq Words
  /\ claimed \in AllSources

\* "bit w set iff pending[w] != 0" (plic.h): set and cleared by halves in two
\* functions, each looking at the other latches of the word.
SummaryExact == pending_summary = {Word(i) : i \in pending}

\* The poll that raises MEIP and SEIP and the claim that the handler makes are
\* two scans, one behind the summary: they agree, so an interrupt taken finds
\* something to claim and nothing claimable is left without an interrupt.
PollAgreesWithClaim == \A c \in Contexts : Interrupting(c) <=> BestIrq(c) # 0

\* The claim finds the highest priority above the threshold, and among equals
\* the lowest source.
ClaimFindsHighest ==
  \A c \in Contexts : BestIrq(c) # 0 =>
    /\ Eligible(c, BestIrq(c))
    /\ \A i \in Sources : Eligible(c, i) =>
         \/ priority[i] < priority[BestIrq(c)]
         \/ priority[i] = priority[BestIrq(c)] /\ i >= BestIrq(c)

\* A latched interrupt is lost in one way only: a claim returned it.  Writes of
\* the claim register must not touch it, since it may be a new one that came
\* while the handler ran.
LatchLostOnlyByClaim ==
  [][\A i \in pending \ pending' : claimed' = i]_plicVars

=============================================================================
