--------------------------- MODULE ConsoleProofs ---------------------------
(***************************************************************************)
(* Proofs about Plic, Uart and Console.                                    *)
(*                                                                         *)
(* For any number of sources, contexts and priorities and any word size,   *)
(* the summary says which words have a latch set, so the poll that trusts  *)
(* it misses no interrupt, and only a claim takes a latch away; and the    *)
(* scan of a claim, by induction over the sources, finds the source that   *)
(* the poll promised, of the highest priority.                             *)
(*                                                                         *)
(* For a ring of any size and any bytes, the indices, the count and the    *)
(* status bit that the two threads change agree, and the ring is a bounded *)
(* queue that loses bytes only when full.                                  *)
(*                                                                         *)
(* The composition with the poll and the guest's driver is at once a       *)
(* behaviour of the port and one of the controller, so all of this holds   *)
(* on the whole path of a byte.                                            *)
(***************************************************************************)
EXTENDS Console, DataLemmas

(* The interrupt controller.                                               *)

\* Source 0 is never latched: the test of both halves.
LatchesInRange == pending \subseteq Sources

LEMMA WordOfSource == \A i \in Sources : Word(i) \in Words
BY DEF Sources, Words

-----------------------------------------------------------------------------
(* The scan of a claim.                                                    *)

\* Source i is a worse choice than source b.
Worse(i, b) ==
  \/ priority[i] < priority[b]
  \/ priority[i] = priority[b] /\ i >= b

\* What the scan of context c has found behind source n.
Found(c, n, b) ==
  /\ b \in 0..n
  /\ b # 0 => Eligible(c, b)
  /\ \A i \in 1..n : Eligible(c, i) => b # 0 /\ Worse(i, b)

\* One turn of the loop: source i against b, the best before it.
Turn(c, i, b) ==
  IF /\ Eligible(c, i)
     /\ priority[i] > IF b = 0 THEN 0 ELSE priority[b]
  THEN i
  ELSE b

LEMMA TurnFinds ==
  ASSUME PlicTypeOK, NEW c \in Contexts, NEW n \in Nat, n + 1 \in AllSources,
         NEW b, Found(c, n, b)
  PROVE  Found(c, n + 1, Turn(c, n + 1, b))
<1> DEFINE t == Turn(c, n + 1, b)
<1>1. b \in 0..n /\ b \in AllSources
  BY PlicAssumption DEF Found, AllSources
<1>2. \A i \in AllSources : priority[i] \in Nat
  BY DEF PlicTypeOK
<1>3. threshold[c] \in Nat
  BY DEF PlicTypeOK
<1>4. CASE t = n + 1 /\ Eligible(c, n + 1) /\ priority[n + 1] > IF b = 0 THEN 0 ELSE priority[b]
  <2>1. ASSUME NEW i \in 1..n, Eligible(c, i)
        PROVE  Worse(i, n + 1)
    <3>1. b # 0 /\ Worse(i, b)
      BY <2>1 DEF Found
    <3>2. priority[i] \in Nat /\ priority[b] \in Nat /\ priority[n + 1] \in Nat
      BY <1>1, <1>2, PlicAssumption DEF AllSources
    <3> QED
      BY <1>4, <3>1, <3>2 DEF Worse
  <2>2. Worse(n + 1, n + 1)
    BY DEF Worse
  <2>3. \A i \in 1..(n + 1) : Eligible(c, i) => Worse(i, n + 1)
    <3>1. \A i \in 1..(n + 1) : i = n + 1 \/ i \in 1..n
      OBVIOUS
    <3> QED
      BY <2>1, <2>2, <3>1
  <2>4. n + 1 \in 0..(n + 1) /\ n + 1 # 0
    OBVIOUS
  <2> QED
    BY <1>4, <2>3, <2>4 DEF Found
<1>5. CASE /\ t = b
           /\ ~(Eligible(c, n + 1) /\ priority[n + 1] > IF b = 0 THEN 0 ELSE priority[b])
  <2>1. ASSUME Eligible(c, n + 1)
        PROVE  b # 0 /\ Worse(n + 1, b)
    <3>1. priority[n + 1] > threshold[c] /\ priority[n + 1] \in Nat
      BY <1>2, <2>1 DEF Eligible
    <3>2. b # 0
      BY <1>3, <1>5, <2>1, <3>1
    <3>3. priority[b] \in Nat
      BY <1>1, <1>2
    <3>4. n + 1 >= b
      BY <1>1
    <3> QED
      BY <1>5, <2>1, <3>1, <3>2, <3>3, <3>4 DEF Worse
  <2>2. \A i \in 1..n : Eligible(c, i) => b # 0 /\ Worse(i, b)
    BY DEF Found
  <2>3. \A i \in 1..(n + 1) : i = n + 1 \/ i \in 1..n
    OBVIOUS
  <2>4. \A i \in 1..(n + 1) : Eligible(c, i) => b # 0 /\ Worse(i, b)
    BY <2>1, <2>2, <2>3
  <2>5. b \in 0..(n + 1) /\ (b # 0 => Eligible(c, b))
    BY <1>1 DEF Found
  <2> QED
    BY <1>5, <2>4, <2>5 DEF Found
<1> QED
  BY <1>4, <1>5 DEF Turn

\* What the loop computes is the function that takes one turn after another.
LEMMA ScanTurns ==
  ASSUME PlicTypeOK, NEW c \in Contexts
  PROVE  \E best : /\ BestIrq(c) = best[PLIC_MAX_SOURCE - 1]
                   /\ best[0] = 0
                   /\ \A i \in AllSources \ {0} : best[i] = Turn(c, i, best[i - 1])
<1> DEFINE N == PLIC_MAX_SOURCE - 1
           body(f) == [i \in AllSources |-> IF i = 0 THEN 0 ELSE Turn(c, i, f[i - 1])]
           best == CHOOSE f : f = body(f)
           step == [i \in 1..N |-> [b \in AllSources |-> Turn(c, i, b)]]
<1>1. N \in Nat /\ AllSources = 0..N /\ 0 \in AllSources
  BY PlicAssumption DEF AllSources
<1>2. BestIrq(c) = best[N]
  BY DEF BestIrq, Turn
<1>3. \E f : f = body(f)
  <2>1. step \in [1..N -> [AllSources -> AllSources]]
    BY <1>1 DEF Turn
  <2> HIDE DEF N
  <2>2. PICK g \in [0..N -> AllSources] : Follows(g, N, 0, step)
    <3> HIDE DEF step
    <3> QED
      BY <1>1, <2>1, Recursion
  <2>3. ASSUME NEW i \in AllSources
        PROVE  g[i] = IF i = 0 THEN 0 ELSE Turn(c, i, g[i - 1])
    <3>1. g[i] = IF i = 0 THEN 0 ELSE step[i][g[i - 1]]
      BY <1>1, <2>2 DEF Follows
    <3>2. CASE i # 0
      <4>1. i \in 1..N /\ i - 1 \in 0..N
        BY <1>1, <3>2
      <4>2. g[i - 1] \in AllSources
        BY <2>2, <4>1
      <4> QED
        BY <3>1, <3>2, <4>1, <4>2
    <3> QED
      BY <3>1, <3>2
  <2>4. g = body(g)
    BY <1>1, <2>2, <2>3
  <2> QED
    BY <2>4
<1>4. best = body(best)
  BY <1>3
<1> HIDE DEF best
<1>5. best[0] = 0 /\ \A i \in AllSources \ {0} : best[i] = Turn(c, i, best[i - 1])
  BY <1>1, <1>4
<1> QED
  BY <1>2, <1>5

\* Induction over the sources.
LEMMA ScanFinds ==
  ASSUME PlicTypeOK, NEW c \in Contexts
  PROVE  Found(c, PLIC_MAX_SOURCE - 1, BestIrq(c))
<1>1. PICK best : /\ BestIrq(c) = best[PLIC_MAX_SOURCE - 1]
                  /\ best[0] = 0
                  /\ \A i \in AllSources \ {0} : best[i] = Turn(c, i, best[i - 1])
  BY ScanTurns
<1> DEFINE Good == {n \in Nat : n \in AllSources => Found(c, n, best[n])}
<1>2. 0 \in Good
  BY <1>1 DEF Found
<1>3. ASSUME NEW n \in Nat, n \in Good
      PROVE  n + 1 \in Good
  <2> SUFFICES ASSUME n + 1 \in AllSources
               PROVE  Found(c, n + 1, best[n + 1])
    OBVIOUS
  <2>1. n \in AllSources /\ n + 1 # 0 /\ (n + 1) - 1 = n
    BY PlicAssumption DEF AllSources
  <2>2. Found(c, n, best[n])
    BY <1>3, <2>1
  <2>3. best[n + 1] = Turn(c, n + 1, best[n])
    BY <1>1, <2>1
  <2> QED
    BY <2>2, <2>3, TurnFinds
<1>4. Nat \subseteq Good
  <2> HIDE DEF Good
  <2> QED
    BY <1>2, <1>3, SetInduction
<1>5. PLIC_MAX_SOURCE - 1 \in Nat /\ PLIC_MAX_SOURCE - 1 \in AllSources
  BY PlicAssumption DEF AllSources
<1> QED
  BY <1>1, <1>4, <1>5

\* The same in the words of the module.
LEMMA BestIrqIs ==
  ASSUME PlicTypeOK, NEW c \in Contexts
  PROVE  /\ BestIrq(c) \in AllSources
         /\ BestIrq(c) # 0 => Eligible(c, BestIrq(c))
         /\ \A i \in Sources : Eligible(c, i) => BestIrq(c) # 0 /\ Worse(i, BestIrq(c))
<1>1. AllSources = 0..(PLIC_MAX_SOURCE - 1) /\ Sources = 1..(PLIC_MAX_SOURCE - 1)
  BY PlicAssumption DEF AllSources, Sources
<1> QED
  BY <1>1, ScanFinds DEF Found

-----------------------------------------------------------------------------
(* The two halves.                                                         *)

LEMMA SetPendingStep ==
  ASSUME LatchesInRange, SummaryExact, NEW irq, SetPending(irq)
  PROVE  LatchesInRange' /\ SummaryExact'
<1>1. CASE irq \notin Sources
  BY <1>1 DEF SetPending, LatchesInRange, SummaryExact
<1>2. CASE irq \in Sources
  <2>1. pending' = pending \cup {irq}
    BY <1>2 DEF SetPending
  <2>2. {Word(i) : i \in pending'} = {Word(i) : i \in pending} \cup {Word(irq)}
    BY <2>1
  <2>3. CASE PendingIn(Word(irq)) = {}
    BY <1>2, <2>1, <2>2, <2>3 DEF SetPending, LatchesInRange, SummaryExact
  <2>4. CASE PendingIn(Word(irq)) # {}
    <3>1. Word(irq) \in {Word(i) : i \in pending}
      BY <2>4 DEF PendingIn
    <3> QED
      BY <1>2, <2>1, <2>2, <2>4, <3>1 DEF SetPending, LatchesInRange, SummaryExact
  <2> QED
    BY <2>3, <2>4
<1> QED
  BY <1>1, <1>2

LEMMA ClearPendingStep ==
  ASSUME LatchesInRange, SummaryExact, NEW irq, ClearPending(irq)
  PROVE  /\ LatchesInRange' /\ SummaryExact'
         /\ \A i \in pending \ pending' : i = irq
<1>1. CASE irq \notin Sources
  BY <1>1 DEF ClearPending, LatchesInRange, SummaryExact
<1>2. CASE irq \in Sources
  <2>1. pending' = pending \ {irq}
    BY <1>2 DEF ClearPending
  <2>2. CASE PendingIn(Word(irq)) \ {irq} = {}
    <3>1. {Word(i) : i \in pending'} = {Word(i) : i \in pending} \ {Word(irq)}
      BY <2>1, <2>2 DEF PendingIn
    <3> QED
      BY <1>2, <2>1, <2>2, <3>1 DEF ClearPending, LatchesInRange, SummaryExact
  <2>3. CASE PendingIn(Word(irq)) \ {irq} # {}
    <3>1. {Word(i) : i \in pending'} = {Word(i) : i \in pending}
      BY <2>1, <2>3 DEF PendingIn
    <3> QED
      BY <1>2, <2>1, <2>3, <3>1 DEF ClearPending, LatchesInRange, SummaryExact
  <2> QED
    BY <2>2, <2>3
<1> QED
  BY <1>1, <1>2

\* What a step of the controller does to the latches: keeps them, sets one, or
\* clears the one it claims.
LEMMA StepKinds ==
  ASSUME [PlicNext]_plicVars
  PROVE  \/ UNCHANGED <<pending, pending_summary>>
         \/ \E irq \in Sources : SetPending(irq)
         \/ ClearPending(claimed')
<1>1. ASSUME NEW irq \in Sources, Raise(irq)
      PROVE  SetPending(irq)
  BY <1>1 DEF Raise
<1>2. ASSUME NEW c \in Contexts, Claim(c)
      PROVE  ClearPending(claimed')
  BY <1>2 DEF Claim
<1>3. ASSUME \/ \E irq \in Sources : Complete(irq)
             \/ \E i \in AllSources, value \in PriorityValues : WritePriority(i, value)
             \/ \E c \in Contexts, w \in Words, bits \in SUBSET AllSources : WriteEnable(c, w, bits)
             \/ \E c \in Contexts, value \in PriorityValues : WriteThreshold(c, value)
             \/ UNCHANGED plicVars
      PROVE  UNCHANGED <<pending, pending_summary>>
  BY <1>3 DEF Complete, WritePriority, WriteEnable, WriteThreshold, plicVars
<1> QED
  BY <1>1, <1>2, <1>3 DEF PlicNext

LEMMA PlicInitInv == PlicInit => LatchesInRange /\ SummaryExact
BY DEF PlicInit, LatchesInRange, SummaryExact

LEMMA PlicNextInv ==
  LatchesInRange /\ SummaryExact /\ [PlicNext]_plicVars
    => (LatchesInRange /\ SummaryExact)'
<1> SUFFICES ASSUME LatchesInRange, SummaryExact, [PlicNext]_plicVars
             PROVE  (LatchesInRange /\ SummaryExact)'
  OBVIOUS
<1>1. CASE UNCHANGED <<pending, pending_summary>>
  BY <1>1 DEF LatchesInRange, SummaryExact
<1>2. CASE \E irq \in Sources : SetPending(irq)
  BY <1>2, SetPendingStep
<1>3. CASE ClearPending(claimed')
  BY <1>3, ClearPendingStep
<1> QED
  BY <1>1, <1>2, <1>3, StepKinds

-----------------------------------------------------------------------------

\* plic->pending_summary has bit w set exactly when word w of the latches is
\* not zero, for every PLIC_MAX_SOURCE and word size.
THEOREM SummaryCorrect == PlicSpec => []SummaryExact
<1>1. PlicSpec => [](LatchesInRange /\ SummaryExact)
  BY PlicInitInv, PlicNextInv, PTL DEF PlicSpec
<1> QED
  BY <1>1, PTL

\* So the early return of plic_is_interrupting changes nothing: the poll is
\* the full scan.
THEOREM PollIsFullScan ==
  PlicSpec => [](\A c \in Contexts : Interrupting(c) <=> \E i \in Sources : Eligible(c, i))
<1>1. SummaryExact => \A c \in Contexts : Interrupting(c) <=> \E i \in Sources : Eligible(c, i)
  BY DEF SummaryExact, Interrupting, Eligible
<1> QED
  BY <1>1, SummaryCorrect, PTL

\* No operation but a claim that returns it takes a latch away.
THEOREM LatchesSurvive == PlicSpec => LatchLostOnlyByClaim
<1>1. ASSUME LatchesInRange, SummaryExact, [PlicNext]_plicVars
      PROVE  \A i \in pending \ pending' : claimed' = i
  <2>1. CASE UNCHANGED <<pending, pending_summary>>
    BY <2>1
  <2>2. CASE \E irq \in Sources : SetPending(irq)
    BY <2>2 DEF SetPending
  <2>3. CASE ClearPending(claimed')
    BY <1>1, <2>3, ClearPendingStep
  <2> QED
    BY <1>1, <2>1, <2>2, <2>3, StepKinds
<1>2. PlicSpec => [](LatchesInRange /\ SummaryExact)
  BY PlicInitInv, PlicNextInv, PTL DEF PlicSpec
<1> QED
  BY <1>1, <1>2, PTL DEF PlicSpec, LatchLostOnlyByClaim

-----------------------------------------------------------------------------
(* Types.                                                                  *)

LEMMA TypesInit == PlicInit => PlicTypeOK
<1>1. 0 \in AllSources
  BY PlicAssumption DEF AllSources
<1> QED
  BY <1>1 DEF PlicInit, PlicTypeOK

LEMMA TypesNext == PlicTypeOK /\ [PlicNext]_plicVars => PlicTypeOK'
<1> SUFFICES ASSUME PlicTypeOK, [PlicNext]_plicVars
             PROVE  PlicTypeOK'
  OBVIOUS
<1> USE DEF PlicTypeOK
<1>1. 0 \in AllSources
  BY PlicAssumption DEF AllSources
<1>2. ASSUME NEW irq \in Sources, Raise(irq)
      PROVE  PlicTypeOK'
  BY <1>1, <1>2, WordOfSource DEF Raise, SetPending
<1>3. ASSUME NEW irq \in Sources, Complete(irq)
      PROVE  PlicTypeOK'
  BY <1>1, <1>3 DEF Complete
<1>4. ASSUME NEW c \in Contexts, Claim(c)
      PROVE  PlicTypeOK'
  <2>1. BestIrq(c) \in AllSources
    BY BestIrqIs
  <2>2. pending' \subseteq pending /\ pending_summary' \subseteq pending_summary
    BY <1>4 DEF Claim, ClearPending
  <2> QED
    BY <1>4, <2>1, <2>2 DEF Claim
<1>5. ASSUME NEW i \in AllSources, NEW value \in PriorityValues, WritePriority(i, value)
      PROVE  PlicTypeOK'
  BY <1>1, <1>5, PlicAssumption DEF WritePriority
<1>6. ASSUME NEW c \in Contexts, NEW w \in Words, NEW bits \in SUBSET AllSources,
             WriteEnable(c, w, bits)
      PROVE  PlicTypeOK'
  BY <1>1, <1>6 DEF WriteEnable
<1>7. ASSUME NEW c \in Contexts, NEW value \in PriorityValues, WriteThreshold(c, value)
      PROVE  PlicTypeOK'
  BY <1>1, <1>7, PlicAssumption DEF WriteThreshold
<1>8. CASE UNCHANGED plicVars
  BY <1>8 DEF plicVars
<1> QED
  BY <1>2, <1>3, <1>4, <1>5, <1>6, <1>7, <1>8 DEF PlicNext

\* Sources, words and values stay in their ranges; the number that a claim
\* returns, an index into the words of the latches, is one of a source.
THEOREM PlicTypeCorrect == PlicSpec => []PlicTypeOK
BY TypesInit, TypesNext, PTL DEF PlicSpec

\* plic_claim takes the eligible source of the highest priority, the lowest
\* number among equals, for every number of sources.
THEOREM ClaimHighest == PlicSpec => []ClaimFindsHighest
<1>1. PlicTypeOK => ClaimFindsHighest
  BY BestIrqIs DEF ClaimFindsHighest, Worse
<1> QED
  BY <1>1, PlicTypeCorrect, PTL

\* The interrupt is up exactly when a claim finds something: the scan behind
\* the summary and the scan of the claim agree.
THEOREM PollAgrees == PlicSpec => []PollAgreesWithClaim
<1>1. ASSUME PlicTypeOK,
             \A c \in Contexts : Interrupting(c) <=> \E i \in Sources : Eligible(c, i)
      PROVE  PollAgreesWithClaim
  <2>1. ASSUME NEW c \in Contexts
        PROVE  (\E i \in Sources : Eligible(c, i)) <=> BestIrq(c) # 0
    BY <1>1, BestIrqIs DEF PlicTypeOK, Eligible
  <2> QED
    BY <1>1, <2>1 DEF PollAgreesWithClaim
<1> QED
  BY <1>1, PlicTypeCorrect, PollIsFullScan, PTL

-----------------------------------------------------------------------------
(* The serial port.                                                        *)

UartInv == UartTypeOK /\ RingConsistent /\ SignalsHaveData

-----------------------------------------------------------------------------
(* Arithmetic of the ring.                                                 *)

LEMMA Wrap ==
  ASSUME NEW x \in Nat, x < 2 * RX_SIZE
  PROVE  /\ x < RX_SIZE => x % RX_SIZE = x
         /\ ~(x < RX_SIZE) => x % RX_SIZE = x - RX_SIZE
BY UartAssumption

LEMMA SlotBound == \A x : x \in Slots <=> x \in Nat /\ x < RX_SIZE
BY UartAssumption DEF Slots

\* The slot of each byte in the ring is a slot, and none is the tail's while
\* there is room.
LEMMA UsedSlots ==
  ASSUME NEW h \in Slots, NEW n \in 0..RX_SIZE, NEW i \in 1..n
  PROVE  /\ (h + i - 1) % RX_SIZE \in Slots
         /\ n < RX_SIZE => (h + i - 1) % RX_SIZE # (h + n) % RX_SIZE
<1>1. RX_SIZE \in Nat \ {0} /\ h \in Nat /\ h < RX_SIZE
  BY UartAssumption, SlotBound
<1> DEFINE x == h + i - 1
           y == h + n
<1>2. x \in Nat /\ x < 2 * RX_SIZE
  BY <1>1
<1>3. n < RX_SIZE => y \in Nat /\ y < 2 * RX_SIZE /\ x < y /\ y - x <= RX_SIZE
  BY <1>1
<1> HIDE DEF x, y
<1>4. /\ x < RX_SIZE => x % RX_SIZE = x
      /\ ~(x < RX_SIZE) => x % RX_SIZE = x - RX_SIZE
  BY <1>2, Wrap
<1>5. x % RX_SIZE \in Slots
  BY <1>1, <1>2, <1>4, SlotBound
<1>6. ASSUME n < RX_SIZE
      PROVE  x % RX_SIZE # y % RX_SIZE
  <2>1. /\ y < RX_SIZE => y % RX_SIZE = y
        /\ ~(y < RX_SIZE) => y % RX_SIZE = y - RX_SIZE
    BY <1>3, <1>6, Wrap
  <2>2. y - x # RX_SIZE
    BY <1>1, <1>6 DEF x, y
  <2> QED
    BY <1>1, <1>2, <1>3, <1>4, <1>6, <2>1, <2>2
<1> QED
  BY <1>5, <1>6 DEF x, y

-----------------------------------------------------------------------------
(* The two steps that change the ring.                                     *)

LEMMA ContentsType ==
  ASSUME UartTypeOK, RingConsistent
  PROVE  Contents \in Seq(Bytes) /\ Len(Contents) = rx_count
<1>1. rx_count \in Nat
  BY UartAssumption DEF UartTypeOK
<1>2. Contents \in [1..rx_count -> Bytes]
  BY DEF Contents, RingConsistent
<1> QED
  BY <1>1, <1>2

LEMMA PushStep ==
  ASSUME UartInv, Push
  PROVE  /\ UartInv'
         /\ Contents' = Append(Contents, in_hand)
<1>1. /\ RX_SIZE \in Nat \ {0} /\ rx_count \in Nat /\ rx_count < RX_SIZE
      /\ rx_head \in Slots /\ rx_head \in Nat /\ rx_head < RX_SIZE
      /\ rx_tail \in Slots /\ rx_tail \in Nat /\ rx_tail < RX_SIZE
      /\ in_hand \in Bytes
  BY UartAssumption, SlotBound DEF UartInv, UartTypeOK, Push
<1>2. rx_count' = rx_count + 1 /\ rx_count' \in 0..RX_SIZE /\ rx_head' = rx_head
  BY <1>1 DEF Push
<1>3. rx_tail = (rx_head + rx_count) % RX_SIZE
  BY DEF UartInv, RingConsistent
<1>4. rx_tail' = (rx_head' + rx_count') % RX_SIZE /\ rx_tail' \in Slots
  <2>1. rx_tail' = (rx_tail + 1) % RX_SIZE
    BY DEF Push
  <2>2. rx_tail = IF rx_head + rx_count < RX_SIZE THEN rx_head + rx_count
                  ELSE rx_head + rx_count - RX_SIZE
    BY <1>1, <1>3, Wrap
  <2>3. rx_tail' = IF rx_tail + 1 < RX_SIZE THEN rx_tail + 1 ELSE rx_tail + 1 - RX_SIZE
    BY <1>1, <2>1, Wrap
  <2>4. CASE rx_head + rx_count' < 2 * RX_SIZE
    <3> DEFINE n == rx_head + rx_count'
    <3>1. n \in Nat /\ n < 2 * RX_SIZE
      BY <1>1, <1>2, <2>4
    <3> HIDE DEF n
    <3>2. /\ n < RX_SIZE => n % RX_SIZE = n
          /\ ~(n < RX_SIZE) => n % RX_SIZE = n - RX_SIZE
      BY <3>1, Wrap
    <3> USE DEF n
    <3> QED
      BY <1>1, <1>2, <2>2, <2>3, <3>2, SlotBound
  <2> QED
    BY <1>1, <1>2, <2>4
<1>5. \A i \in 1..rx_count : (rx_head + i - 1) % RX_SIZE \in Slots \ {rx_tail}
  <2>1. rx_count \in 0..RX_SIZE
    BY <1>1
  <2> QED
    BY <1>1, <1>3, <2>1, UsedSlots, Zenon
<1>6. rx_fifo' = [rx_fifo EXCEPT ![rx_tail] = in_hand] /\ rx_fifo \in [Slots -> Bytes \cup {NoByte}]
  BY DEF Push, UartInv, UartTypeOK
<1>7. \A i \in 1..rx_count : rx_fifo'[(rx_head + i - 1) % RX_SIZE] = Contents[i]
  BY <1>5, <1>6 DEF Contents
<1>8. rx_fifo'[(rx_head + rx_count' - 1) % RX_SIZE] = in_hand
  BY <1>1, <1>2, <1>3, <1>6
<1>9. \A i \in 1..rx_count' :
        Contents'[i] = IF i <= rx_count THEN Contents[i] ELSE in_hand
  <2>1. SUFFICES ASSUME NEW i \in 1..rx_count'
                 PROVE  Contents'[i] = IF i <= rx_count THEN Contents[i] ELSE in_hand
    OBVIOUS
  <2>2. Contents'[i] = rx_fifo'[(rx_head + i - 1) % RX_SIZE]
    BY <1>2 DEF Contents
  <2>3. CASE i <= rx_count
    <3>1. i \in 1..rx_count
      BY <1>1, <2>3
    <3> QED
      BY <1>7, <2>2, <2>3, <3>1, Zenon
  <2>4. CASE i = rx_count'
    <3>1. ~(i <= rx_count)
      BY <1>1, <1>2, <2>4
    <3> QED
      BY <1>8, <2>2, <2>4, <3>1, Zenon
  <2> QED
    BY <1>1, <1>2, <2>3, <2>4
<1>10. Contents' = Append(Contents, in_hand)
  <2>1. Contents \in Seq(Bytes) /\ Len(Contents) = rx_count
    BY ContentsType DEF UartInv
  <2>2. Contents' \in Seq(Bytes) /\ Len(Contents') = rx_count'
    <3>1. \A i \in 1..rx_count' : Contents'[i] \in Bytes
      BY <1>1, <1>2, <1>9 DEF UartInv, RingConsistent
    <3>2. Contents' \in [1..rx_count' -> Bytes]
      BY <3>1 DEF Contents
    <3> QED
      BY <1>1, <1>2, <3>2
  <2>3. /\ Append(Contents, in_hand) \in Seq(Bytes)
        /\ Len(Append(Contents, in_hand)) = rx_count'
        /\ \A i \in 1..rx_count : Append(Contents, in_hand)[i] = Contents[i]
        /\ Append(Contents, in_hand)[rx_count'] = in_hand
    BY <1>1, <1>2, <2>1, AppendProperties
  <2>4. \A i \in 1..rx_count' : Contents'[i] = Append(Contents, in_hand)[i]
    BY <1>1, <1>2, <1>9, <2>3
  <2> QED
    BY <2>2, <2>3, <2>4, SeqEqual
<1>11. UartTypeOK'
  BY <1>1, <1>2, <1>4, <1>6 DEF UartInv, UartTypeOK, Push
<1>12. RingConsistent'
  <2>1. \A i \in 1..rx_count : Contents[i] \in Bytes
    BY DEF UartInv, RingConsistent
  <2>2. \A i \in 1..rx_count' : Contents'[i] \in Bytes
    BY <1>1, <1>2, <1>9, <2>1
  <2> QED
    BY <1>4, <2>2 DEF RingConsistent
<1>13. SignalsHaveData'
  BY <1>1, <1>2 DEF Push, SignalsHaveData
<1> QED
  BY <1>10, <1>11, <1>12, <1>13 DEF UartInv

LEMMA ReadRbrStep ==
  ASSUME UartInv, ReadRbr
  PROVE  /\ UartInv'
         /\ rx_count > 0 => /\ Contents # <<>>
                            /\ rbr' = Head(Contents)
                            /\ Contents' = Tail(Contents)
         /\ rx_count = 0 => Contents = <<>> /\ rbr' = NoByte /\ Contents' = Contents
<1>1. /\ RX_SIZE \in Nat \ {0} /\ rx_count \in Nat /\ rx_count <= RX_SIZE
      /\ rx_head \in Slots /\ rx_head \in Nat /\ rx_head < RX_SIZE
  BY UartAssumption, SlotBound DEF UartInv, UartTypeOK
<1>2. Contents \in Seq(Bytes) /\ Len(Contents) = rx_count
  BY ContentsType DEF UartInv
<1>3. CASE rx_count = 0
  <2>1. UNCHANGED <<ringVars, ier, interrupting, thre_ip, in_hand>> /\ rbr' = NoByte
    BY <1>3 DEF ReadRbr
  <2>2. Contents' = Contents
    BY <2>1 DEF Contents, ringVars
  <2> QED
    BY <1>2, <1>3, <2>1, <2>2
    DEF UartInv, UartTypeOK, RingConsistent, SignalsHaveData, ringVars
<1>4. CASE rx_count > 0
  <2>1. /\ rbr' = rx_fifo[rx_head] /\ rx_head' = (rx_head + 1) % RX_SIZE
        /\ rx_count' = rx_count - 1 /\ rx_fifo' = rx_fifo /\ rx_tail' = rx_tail
    BY <1>4 DEF ReadRbr
  <2>2. rx_head' = IF rx_head + 1 < RX_SIZE THEN rx_head + 1 ELSE 0
    BY <1>1, <2>1, Wrap
  <2>3. rx_head' \in Slots
    BY <1>1, <2>2, SlotBound
  <2>4. \A k \in 0..(RX_SIZE - 1) : (rx_head' + k) % RX_SIZE = (rx_head + 1 + k) % RX_SIZE
    <3>1. SUFFICES ASSUME NEW k \in 0..(RX_SIZE - 1)
                   PROVE  (rx_head' + k) % RX_SIZE = (rx_head + 1 + k) % RX_SIZE
      OBVIOUS
    <3>2. CASE rx_head + 1 < RX_SIZE
      BY <1>1, <2>2, <3>2
    <3>3. CASE rx_head + 1 = RX_SIZE
      <4>1. k \in Nat /\ k < 2 * RX_SIZE /\ rx_head + 1 + k < 2 * RX_SIZE /\ rx_head + 1 + k \in Nat
        BY <1>1, <3>3
      <4>2. k % RX_SIZE = k
        BY <1>1, <3>1, <4>1, Wrap
      <4>3. (rx_head + 1 + k) % RX_SIZE = k
        BY <1>1, <3>3, <4>1, Wrap
      <4> QED
        BY <1>1, <2>2, <3>3, <4>2, <4>3
    <3> QED
      BY <1>1, <3>2, <3>3
  <2>5. rbr' = Contents[1] /\ Contents[1] \in Bytes
    <3>1. rx_head % RX_SIZE = rx_head
      BY <1>1, Wrap
    <3>2. 1 \in 1..rx_count /\ rx_head + 1 - 1 = rx_head
      BY <1>1, <1>4
    <3>3. Contents[1] = rx_fifo[(rx_head + 1 - 1) % RX_SIZE]
      BY <3>2 DEF Contents
    <3>4. Contents[1] \in Bytes
      BY <3>2 DEF UartInv, RingConsistent
    <3> QED
      BY <2>1, <3>1, <3>2, <3>3, <3>4
  <2>6. \A i \in 1..rx_count' : Contents'[i] = Contents[i + 1]
    <3>1. SUFFICES ASSUME NEW i \in 1..rx_count'
                   PROVE  Contents'[i] = Contents[i + 1]
      OBVIOUS
    <3>2. i - 1 \in 0..(RX_SIZE - 1) /\ i + 1 \in 1..rx_count
      BY <1>1, <2>1
    <3>3. (rx_head' + (i - 1)) % RX_SIZE = (rx_head + 1 + (i - 1)) % RX_SIZE
      BY <2>4, <3>2
    <3>4. rx_head' + (i - 1) = rx_head' + i - 1 /\ rx_head + 1 + (i - 1) = rx_head + (i + 1) - 1
      BY <1>1, <2>3, <3>2, SlotBound
    <3> QED
      BY <2>1, <3>2, <3>3, <3>4 DEF Contents
  <2>7. Contents' = Tail(Contents)
    <3>1. rx_count' \in Nat /\ \A i \in 1..rx_count' : i + 1 \in 1..rx_count
      BY <1>1, <1>4, <2>1
    <3>2. \A i \in 1..rx_count' : Contents'[i] \in Bytes
      BY <2>6, <3>1 DEF UartInv, RingConsistent
    <3>3. Contents' \in [1..rx_count' -> Bytes]
      BY <3>2 DEF Contents
    <3>4. Contents' \in Seq(Bytes) /\ Len(Contents') = rx_count'
      BY <3>1, <3>3
    <3>5. Contents # <<>>
      BY <1>2, <1>4
    <3>6. /\ Tail(Contents) \in Seq(Bytes)
          /\ Len(Tail(Contents)) = rx_count'
          /\ \A i \in 1..rx_count' : Tail(Contents)[i] = Contents[i + 1]
      BY <1>2, <2>1, <3>5, HeadTailProperties
    <3> QED
      BY <2>6, <3>4, <3>6, SeqEqual
  <2>8. UartTypeOK'
    BY <1>1, <1>4, <2>1, <2>3, <2>5 DEF UartInv, UartTypeOK, ReadRbr
  <2>9. RingConsistent'
    <3>1. rx_tail' = (rx_head' + rx_count') % RX_SIZE
      <4>1. rx_count - 1 \in 0..(RX_SIZE - 1)
        BY <1>1, <1>4
      <4>2. (rx_head' + (rx_count - 1)) % RX_SIZE = (rx_head + 1 + (rx_count - 1)) % RX_SIZE
        BY <2>4, <4>1
      <4>3. rx_head + 1 + (rx_count - 1) = rx_head + rx_count
        BY <1>1
      <4> QED
        BY <2>1, <4>2, <4>3 DEF UartInv, RingConsistent
    <3>2. \A i \in 1..rx_count' : i + 1 \in 1..rx_count
      BY <1>1, <1>4, <2>1
    <3> QED
      BY <2>6, <3>1, <3>2 DEF UartInv, RingConsistent
  <2>10. SignalsHaveData'
    <3>1. rx_count' > 0 <=> rx_count > 1
      BY <1>1, <1>4, <2>1
    <3>2. dr /\ (interrupting => rx_count > 0)
      BY <1>4 DEF UartInv, SignalsHaveData
    <3>3. dr' = (dr /\ rx_count > 1) /\ interrupting' = (interrupting /\ rx_count > 1)
      BY <1>4 DEF ReadRbr
    <3> QED
      BY <3>1, <3>2, <3>3, Zenon DEF SignalsHaveData
  <2> QED
    BY <1>2, <1>4, <2>5, <2>7, <2>8, <2>9, <2>10 DEF UartInv
<1> QED
  BY <1>1, <1>3, <1>4

\* Every other step leaves the ring alone.
LEMMA OtherStep ==
  ASSUME UartInv,
         \/ \E c \in Bytes : Type(c)
         \/ Drop
         \/ ReadIir
         \/ \E value \in Ier : WriteIer(value)
         \/ WriteThr
         \/ UNCHANGED uartVars
  PROVE  UartInv' /\ Contents' = Contents /\ rbr' = rbr
<1>1. UNCHANGED <<ringVars, rbr>>
  BY DEF Type, Drop, ReadIir, WriteIer, WriteThr, uartVars, ringVars
<1>2. Contents' = Contents
  BY <1>1 DEF Contents, ringVars
<1>3. UartTypeOK'
  BY <1>1 DEF UartInv, UartTypeOK, Type, Drop, ReadIir, WriteIer, WriteThr, uartVars, ringVars
<1>4. SignalsHaveData'
  <2>1. rx_count' = rx_count /\ dr' = dr
    BY <1>1 DEF ringVars
  <2>2. interrupting' => interrupting
    BY DEF Type, Drop, ReadIir, WriteIer, WriteThr, uartVars
  <2> QED
    BY <2>1, <2>2, Zenon DEF UartInv, SignalsHaveData
<1> QED
  BY <1>1, <1>2, <1>3, <1>4 DEF UartInv, RingConsistent, ringVars

-----------------------------------------------------------------------------

LEMMA UartInitInv == UartInit => UartInv
<1> SUFFICES ASSUME UartInit
             PROVE  UartInv
  OBVIOUS
<1>1. RX_SIZE \in Nat \ {0} /\ 0 \in Slots /\ 0 % RX_SIZE = 0
  BY UartAssumption, SlotBound, Wrap
<1> QED
  <2>1. UartTypeOK
    <3>1. 0 \in 0..RX_SIZE
      BY <1>1
    <3>2. ier \in Ier /\ rx_fifo \in [Slots -> Bytes \cup {NoByte}]
      BY DEF UartInit, Ier
    <3> QED
      BY <1>1, <3>1, <3>2, Zenon DEF UartInit, UartTypeOK
  <2>2. RingConsistent
    BY <1>1 DEF UartInit, RingConsistent
  <2>3. SignalsHaveData
    BY DEF UartInit, SignalsHaveData
  <2> QED
    BY <2>1, <2>2, <2>3 DEF UartInv

LEMMA UartNextInv == UartInv /\ [UartNext]_uartVars => UartInv'
BY PushStep, ReadRbrStep, OtherStep DEF UartNext, Input

THEOREM UartInvariance == UartSpec => []UartInv
BY UartInitInv, UartNextInv, PTL DEF UartSpec

\* The variables of the serial port keep their types: the count and the
\* indices stay within the ring.
THEOREM UartTypeCorrect == UartSpec => []UartTypeOK
<1>1. UartInv => UartTypeOK
  BY DEF UartInv
<1> QED
  BY <1>1, UartInvariance, PTL

\* Head, tail and count, moved by two threads, agree.
THEOREM RingAgrees == UartSpec => []RingConsistent
<1>1. UartInv => RingConsistent
  BY DEF UartInv
<1> QED
  BY <1>1, UartInvariance, PTL

\* LSR.DR is exact, and a receive interrupt is never up without data.
THEOREM SignalsCorrect == UartSpec => []SignalsHaveData
<1>1. UartInv => SignalsHaveData
  BY DEF UartInv
<1> QED
  BY <1>1, UartInvariance, PTL

\* The ring implements a bounded queue.
THEOREM RingIsQueue == UartSpec => ImplementsQueue
<1>1. UartInit => Queue!Init
  BY DEF UartInit, Queue!Init, Contents
<1>2. UartInv /\ [UartNext]_uartVars => [Queue!Next]_<<Contents, in_hand, rbr>>
  <2> SUFFICES ASSUME UartInv, [UartNext]_uartVars
               PROVE  [Queue!Next]_<<Contents, in_hand, rbr>>
    OBVIOUS
  <2>0. rx_count \in Nat /\ Contents \in Seq(Bytes) /\ Len(Contents) = rx_count /\ rx_count <= RX_SIZE
    BY ContentsType, UartAssumption DEF UartInv, UartTypeOK
  <2>1. ASSUME NEW c \in Bytes, Type(c)
        PROVE  Queue!Arrive(c)
    BY <2>1, OtherStep DEF Type, Queue!Arrive
  <2>2. CASE Push
    BY <2>0, <2>2, PushStep DEF Push, Queue!Enqueue, Queue!Next
  <2>3. CASE Drop
    BY <2>0, <2>3, OtherStep, UartAssumption DEF Drop, Queue!Lose, Queue!Next
  <2>4. CASE ReadRbr
    <3>1. in_hand' = in_hand
      BY <2>4 DEF ReadRbr
    <3>2. CASE rx_count > 0
      BY <2>4, <3>1, <3>2, ReadRbrStep DEF Queue!Dequeue, Queue!Next
    <3>3. CASE rx_count = 0
      BY <2>4, <3>1, <3>3, ReadRbrStep DEF Queue!ReadNothing, Queue!Next
    <3> QED
      BY <2>0, <3>2, <3>3
  <2>5. ASSUME \/ ReadIir
               \/ \E value \in Ier : WriteIer(value)
               \/ WriteThr
               \/ UNCHANGED uartVars
        PROVE  UNCHANGED <<Contents, in_hand, rbr>>
    <3>1. in_hand' = in_hand
      BY <2>5 DEF ReadIir, WriteIer, WriteThr, uartVars
    <3> QED
      BY <2>5, <3>1, OtherStep
  <2> QED
    BY <2>1, <2>2, <2>3, <2>4, <2>5 DEF UartNext, Input, Queue!Next
<1> QED
  BY <1>1, <1>2, UartInvariance, PTL DEF UartSpec, ImplementsQueue, Queue!Spec

-----------------------------------------------------------------------------
(* The composition.                                                        *)

\* A step of any of the actors is one register access, one push or one poll of
\* the port, or does not touch it.
LEMMA ConsolePort == UartInv /\ [ConsoleNext]_vars => [UartNext]_uartVars
<1> SUFFICES ASSUME UartInv, [ConsoleNext]_vars
             PROVE  UartNext \/ UNCHANGED uartVars
  OBVIOUS
<1>1. CASE TypeByte
  BY <1>1 DEF TypeByte, UartNext, Input
<1>2. CASE PushByte
  BY <1>2 DEF PushByte, UartNext, Input
<1>3. CASE Poll
  BY <1>3 DEF Poll
<1>4. CASE SetUp
  <2>1. [rdi |-> TRUE, thri |-> FALSE] \in Ier
    BY DEF Ier
  <2> QED
    BY <1>4, <2>1 DEF SetUp, UartNext
<1>5. CASE StartSend
  <2>1. [rdi |-> TRUE, thri |-> TRUE] \in Ier
    BY DEF Ier
  <2> QED
    BY <1>5, <2>1 DEF StartSend, UartNext
<1>6. CASE ClaimIrq \/ CompleteIrq \/ Sret
  BY <1>6 DEF ClaimIrq, CompleteIrq, Sret
<1>7. CASE AskCause
  BY <1>7 DEF AskCause, UartNext
<1>8. CASE Receive
  BY <1>8 DEF Receive, UartNext
<1>9. CASE Send
  <2>1. [ier EXCEPT !.thri = FALSE] \in Ier
    BY DEF UartInv, UartTypeOK, Ier
  <2> QED
    BY <1>9, <2>1 DEF Send, UartNext
<1>10. CASE UNCHANGED vars
  BY <1>10 DEF vars
<1> QED
  BY <1>1, <1>2, <1>3, <1>4, <1>5, <1>6, <1>7, <1>8, <1>9, <1>10 DEF ConsoleNext, Handler

\* The same of the controller.
LEMMA ConsoleController == [ConsoleNext]_vars => [PlicNext]_plicVars
<1> SUFFICES ASSUME [ConsoleNext]_vars
             PROVE  PlicNext \/ UNCHANGED plicVars
  OBVIOUS
<1> UART_IRQ \in Sources /\ S \in Contexts /\ 1 \in PriorityValues
  BY ConsoleAssumption
<1>1. CASE TypeByte \/ PushByte \/ StartSend \/ AskCause \/ Receive \/ Send \/ Sret
  BY <1>1 DEF TypeByte, PushByte, StartSend, AskCause, Receive, Send, Sret
<1>2. CASE Poll
  <2>1. CASE UartInterrupting
    BY <1>2, <2>1 DEF Poll, UpdateDevices, PlicNext
  <2>2. CASE ~UartInterrupting
    <3>1. Complete(UART_IRQ)
      BY <1>2, <2>2 DEF Poll, UpdateDevices, Complete
    <3> QED
      BY <3>1 DEF PlicNext
  <2> QED
    BY <2>1, <2>2
<1>3. CASE SetUp
  <2>1. CASE WritePriority(UART_IRQ, 1)
    <3>1. UART_IRQ \in AllSources
      BY DEF Sources
    <3> QED
      BY <2>1, <3>1 DEF PlicNext
  <2>2. CASE WriteEnable(S, Word(UART_IRQ), {UART_IRQ})
    <3>1. Word(UART_IRQ) \in Words /\ {UART_IRQ} \in SUBSET AllSources
      BY DEF Words, Sources
    <3> QED
      BY <2>2, <3>1 DEF PlicNext
  <2>3. CASE UNCHANGED plicVars
    BY <2>3
  <2> QED
    BY <1>3, <2>1, <2>2, <2>3 DEF SetUp
<1>4. CASE ClaimIrq
  BY <1>4 DEF ClaimIrq, PlicNext
<1>5. CASE CompleteIrq
  BY <1>5 DEF CompleteIrq, PlicNext
<1>6. CASE UNCHANGED vars
  BY <1>6 DEF vars
<1> QED
  BY <1>1, <1>2, <1>3, <1>4, <1>5, <1>6 DEF ConsoleNext, Handler

\* Polled by the hart and driven by a guest, the port and the controller are what
\* each is alone: a behaviour of the console is one of both.
THEOREM ConsoleIsBoth == ConsoleSpec => UartSpec /\ PlicSpec
<1>1. ConsoleInit => UartInit /\ PlicInit
  BY DEF ConsoleInit
<1>2. UartInit => UartInv
  BY UartInitInv
<1>3. UartInv /\ [UartNext]_uartVars => UartInv'
  BY UartNextInv
<1> QED
  BY <1>1, <1>2, <1>3, ConsolePort, ConsoleController, PTL DEF ConsoleSpec, UartSpec, PlicSpec

\* On the whole path, for any ring, any number of bytes and any sources: the ring
\* agrees and is a queue, no receive interrupt is up without data, the hart's poll
\* and the guest's claim agree, and a latch is lost only by a claim.
THEOREM ConsoleSafe ==
  ConsoleSpec => /\ []UartTypeOK /\ []RingConsistent /\ []SignalsHaveData /\ ImplementsQueue
                 /\ []PlicTypeOK /\ []SummaryExact /\ []PollAgreesWithClaim
                 /\ []ClaimFindsHighest /\ LatchLostOnlyByClaim
BY ConsoleIsBoth, UartTypeCorrect, RingAgrees, SignalsCorrect, RingIsQueue, PlicTypeCorrect,
   SummaryCorrect, PollAgrees, ClaimHighest, LatchesSurvive, PTL

-----------------------------------------------------------------------------
(* A signal on its way.                                                    *)

SettingUp == {"priority", "enable", "ier"}
Serving == {"claim", "iir", "receive", "send", "complete", "sret"}

\* What the driver has programmed by the time it is somewhere: interrupts are
\* open in the main program only, the receive interrupt stays enabled, and the
\* transmit interrupt is enabled only for something to send.
Driver ==
  /\ guest \in SettingUp \cup {"main"} \cup Serving
  /\ sie <=> guest = "main"
  /\ pending \subseteq {UART_IRQ}
  /\ threshold[S] = 0
  /\ guest # "priority" => priority[UART_IRQ] = 1
  /\ guest \notin {"priority", "enable"} => UART_IRQ \in enable[S]
  /\ ier.rdi <=> guest \notin SettingUp
  /\ interrupting => ier.rdi
  /\ ier.thri => guest \notin SettingUp
  /\ ier.thri => backlog > 0 \/ guest = "send"
  /\ backlog \in Nat

SignalInv == UartInv /\ PlicTypeOK /\ SummaryExact /\ Driver /\ OutputHeard

\* The driver has set up the line: a latch is eligible, and nothing else is.
LEMMA LatchEligible ==
  ASSUME PlicTypeOK, SummaryExact, Driver, guest \notin SettingUp
  PROVE  /\ \A i \in Sources : Eligible(S, i) <=> i = UART_IRQ /\ UART_IRQ \in pending
         /\ Interrupting(S) <=> UART_IRQ \in pending
         /\ UART_IRQ \in pending => BestIrq(S) = UART_IRQ
<1> UART_IRQ \in Sources /\ S \in Contexts
  BY ConsoleAssumption
<1>1. \A i \in Sources : Eligible(S, i) <=> i = UART_IRQ /\ UART_IRQ \in pending
  BY DEF Driver, Eligible, SettingUp
<1>2. Interrupting(S) <=> UART_IRQ \in pending
  BY <1>1 DEF Interrupting, SummaryExact
<1>3. ASSUME UART_IRQ \in pending
      PROVE  BestIrq(S) = UART_IRQ
  <2>1. BestIrq(S) \in AllSources /\ BestIrq(S) # 0 /\ Eligible(S, BestIrq(S))
    BY <1>1, <1>3, BestIrqIs
  <2>2. BestIrq(S) \in Sources
    BY <2>1 DEF Sources
  <2> QED
    BY <1>1, <2>1, <2>2
<1> QED
  BY <1>1, <1>2, <1>3

LEMMA SignalInit == ConsoleInit => SignalInv
<1> SUFFICES ASSUME ConsoleInit
             PROVE  SignalInv
  OBVIOUS
<1>1. UartInv /\ PlicTypeOK /\ SummaryExact
  BY UartInitInv, TypesInit, PlicInitInv DEF ConsoleInit
<1>2. threshold[S] = 0
  BY ConsoleAssumption DEF ConsoleInit, PlicInit
<1>3. ier.rdi = FALSE /\ ier.thri = FALSE /\ interrupting = FALSE /\ thre_ip = TRUE
  BY DEF ConsoleInit, UartInit
<1>4. guest = "priority" /\ sie = FALSE /\ pending = {} /\ backlog = 0
  BY DEF ConsoleInit, PlicInit
<1>5. Driver
  BY <1>2, <1>3, <1>4 DEF Driver, SettingUp, Serving
<1>6. OutputHeard
  BY <1>3, <1>4 DEF OutputHeard
<1> QED
  BY <1>1, <1>5, <1>6 DEF SignalInv

\* The two components keep what is theirs.
LEMMA PartsKeep ==
  ASSUME SignalInv, [ConsoleNext]_vars
  PROVE  UartInv' /\ PlicTypeOK' /\ SummaryExact'
<1>1. [UartNext]_uartVars /\ [PlicNext]_plicVars
  BY ConsolePort, ConsoleController DEF SignalInv
<1>2. LatchesInRange
  BY DEF SignalInv, PlicTypeOK, LatchesInRange
<1> QED
  BY <1>1, <1>2, UartNextInv, TypesNext, PlicNextInv DEF SignalInv

\* Bytes arrive: only the receive interrupt can change, and only when enabled.
LEMMA InputKeeps ==
  ASSUME SignalInv, TypeByte \/ PushByte
  PROVE  /\ Driver' /\ OutputHeard'
         /\ guest' = guest /\ (interrupting => interrupting')
<1>1. UNCHANGED <<plicVars, seip, sie, guest, iir, backlog, ier, thre_ip>>
  BY DEF TypeByte, PushByte, Type, Push, Drop, guestVars
<1>2. interrupting' = interrupting \/ interrupting' = (interrupting \/ ier.rdi)
  BY DEF TypeByte, PushByte, Type, Push, Drop
<1>3. UNCHANGED <<priority, enable, threshold, pending, sie>>
  BY DEF TypeByte, PushByte, plicVars, guestVars
<1>4. interrupting' => interrupting \/ ier.rdi
  BY <1>2
<1>5. Driver'
  BY <1>1, <1>3, <1>4 DEF SignalInv, Driver
<1>6. OutputHeard'
  BY <1>1 DEF SignalInv, OutputHeard
<1>7. interrupting => interrupting'
  BY <1>2
<1> QED
  BY <1>1, <1>5, <1>6, <1>7

\* The poll latches a line that is up, and a latch traps a hart that lets it.
LEMMA PollKeeps ==
  ASSUME SignalInv, Poll, PlicTypeOK', SummaryExact'
  PROVE  /\ Driver' /\ OutputHeard'
         /\ interrupting' = interrupting /\ (guest' # guest => guest = "main")
         /\ guest = "main" /\ (UartInterrupting \/ UART_IRQ \in pending) => guest' = "claim"
<1> UART_IRQ \in Sources /\ S \in Contexts
  BY ConsoleAssumption
<1>1. UNCHANGED <<priority, enable, threshold, ier, interrupting, thre_ip, backlog>>
  BY DEF Poll, UpdateDevices, Raise, uartVars
<1>2. pending' = IF UartInterrupting THEN pending \cup {UART_IRQ} ELSE pending
  BY DEF Poll, UpdateDevices, Raise, SetPending
<1>3. \/ seip' /\ sie /\ sie' = FALSE /\ guest' = "claim"
      \/ ~(seip' /\ sie) /\ sie' = sie /\ guest' = guest
  BY DEF Poll, CheckInterrupt
<1>4. sie => guest = "main"
  BY DEF SignalInv, Driver
<1>5. Driver'
  BY <1>1, <1>2, <1>3, <1>4 DEF SignalInv, Driver, SettingUp, Serving
<1>6. OutputHeard'
  BY <1>1, <1>3, <1>4 DEF SignalInv, OutputHeard
<1>7. ASSUME guest = "main", UartInterrupting \/ UART_IRQ \in pending
      PROVE  guest' = "claim"
  <2>1. UART_IRQ \in pending'
    BY <1>2, <1>7
  <2>2. \A i \in pending' : i = UART_IRQ
    BY <1>5 DEF Driver
  <2>3. UART_IRQ \in enable'[S] /\ priority'[UART_IRQ] > threshold'[S]
    BY <1>1, <1>7 DEF SignalInv, Driver
  <2>4. pending_summary' # {}
    BY <2>1 DEF SummaryExact
  <2>5. Interrupting(S)'
    BY <2>1, <2>3, <2>4 DEF Interrupting, Eligible
  <2>6. seip' /\ sie
    BY <2>5, <1>7 DEF Poll, UpdateDevices, SignalInv, Driver
  <2> QED
    BY <1>3, <2>6
<1> QED
  BY <1>1, <1>3, <1>4, <1>5, <1>6, <1>7

LEMMA SetUpKeeps ==
  ASSUME SignalInv, SetUp
  PROVE  /\ Driver' /\ OutputHeard'
         /\ interrupting' = interrupting /\ guest \in SettingUp
<1> UART_IRQ \in Sources /\ UART_IRQ \in AllSources /\ S \in Contexts
  BY ConsoleAssumption DEF Sources
<1> USE DEF Go, SettingUp, Serving
<1>1. CASE guest = "priority" /\ WritePriority(UART_IRQ, 1)
  <2>1. priority' = [priority EXCEPT ![UART_IRQ] = 1] /\ priority \in [AllSources -> Nat]
    BY <1>1 DEF WritePriority, SignalInv, PlicTypeOK
  <2>2. priority'[UART_IRQ] = 1
    BY <2>1
  <2>3. UNCHANGED <<pending, enable, threshold, ier, interrupting, thre_ip, backlog, sie>> /\ guest' = "enable"
    BY <1>1 DEF SetUp, WritePriority, WriteEnable, uartVars
  <2> QED
    BY <1>1, <2>2, <2>3 DEF SignalInv, Driver, OutputHeard
<1>2. CASE guest = "enable" /\ WriteEnable(S, Word(UART_IRQ), {UART_IRQ})
  <2>1. /\ enable' = [enable EXCEPT ![S] = {i \in @ : Word(i) # Word(UART_IRQ)} \cup {UART_IRQ}]
        /\ enable \in [Contexts -> SUBSET AllSources]
    BY <1>2 DEF WriteEnable, SignalInv, PlicTypeOK
  <2>2. UART_IRQ \in enable'[S]
    BY <2>1
  <2>3. UNCHANGED <<pending, priority, threshold, ier, interrupting, thre_ip, backlog, sie>> /\ guest' = "ier"
    BY <1>2 DEF SetUp, WritePriority, WriteEnable, uartVars
  <2> QED
    BY <1>2, <2>2, <2>3 DEF SignalInv, Driver, OutputHeard
<1>3. CASE guest = "ier" /\ WriteIer([rdi |-> TRUE, thri |-> FALSE]) /\ sie' = TRUE
  <2>1. ier'.rdi = TRUE /\ ier'.thri = FALSE /\ guest' = "main"
    BY <1>3 DEF SetUp, WriteIer
  <2>2. UNCHANGED <<pending, enable, priority, threshold, interrupting, thre_ip, backlog>>
    BY <1>3 DEF SetUp, WriteIer, plicVars
  <2> QED
    BY <1>3, <2>1, <2>2 DEF SignalInv, Driver, OutputHeard
<1> QED
  BY <1>1, <1>2, <1>3 DEF SetUp

LEMMA StartSendKeeps ==
  ASSUME SignalInv, StartSend
  PROVE  /\ Driver' /\ OutputHeard'
         /\ interrupting' = interrupting /\ guest' = guest
<1>1. ier'.rdi = TRUE /\ ier'.thri = TRUE /\ guest = "main" /\ guest' = guest /\ backlog' = backlog + 1
  BY DEF StartSend, WriteIer
<1>2. UNCHANGED <<pending, enable, priority, threshold, interrupting, thre_ip, sie>>
  BY DEF StartSend, WriteIer, plicVars
<1> QED
  BY <1>1, <1>2 DEF SignalInv, Driver, OutputHeard, SettingUp, Serving

\* The handler: the controller's part.
LEMMA ControllerKeeps ==
  ASSUME SignalInv, ClaimIrq \/ CompleteIrq \/ Sret
  PROVE  /\ Driver' /\ OutputHeard'
         /\ interrupting' = interrupting /\ guest # "receive" /\ guest # "main"
         /\ guest = "claim" /\ UART_IRQ \in pending => guest' = "iir"
<1> USE DEF SettingUp, Serving, Go
<1>1. UNCHANGED <<priority, enable, threshold, ier, interrupting, thre_ip, backlog>>
  BY DEF ClaimIrq, CompleteIrq, Sret, Claim, Complete, uartVars, plicVars
<1>2. pending' \subseteq pending
  BY DEF ClaimIrq, CompleteIrq, Sret, Claim, Complete, ClearPending, plicVars
<1>3. \/ guest = "claim" /\ guest' \in {"iir", "sret"} /\ sie' = sie
      \/ guest = "complete" /\ guest' = "claim" /\ sie' = sie
      \/ guest = "sret" /\ guest' = "main" /\ sie' = TRUE
  BY DEF ClaimIrq, CompleteIrq, Sret
<1>4. ASSUME guest = "claim", UART_IRQ \in pending
      PROVE  guest' = "iir"
  <2>1. BestIrq(S) = UART_IRQ
    BY <1>4, LatchEligible DEF SignalInv
  <2> QED
    BY <1>4, <2>1 DEF ClaimIrq, CompleteIrq, Sret
<1>5. Driver'
  BY <1>1, <1>2, <1>3 DEF SignalInv, Driver
<1>6. OutputHeard'
  BY <1>1, <1>3 DEF SignalInv, OutputHeard
<1> QED
  BY <1>1, <1>3, <1>4, <1>5, <1>6

\* The handler: the serial port's part.
LEMMA PortKeeps ==
  ASSUME SignalInv, AskCause \/ Receive \/ Send
  PROVE  /\ Driver' /\ OutputHeard'
         /\ interrupting /\ ~interrupting' => guest' = "receive"
         /\ guest = "receive" /\ guest' # "receive" => rx_count = 0
         /\ guest \notin {"main", "claim"}
<1> USE DEF SettingUp, Serving
<1>1. UNCHANGED <<priority, enable, threshold, pending, sie>>
  BY DEF AskCause, Receive, Send, plicVars
<1>2. ier \in Ier /\ rx_count \in Nat /\ (dr <=> rx_count > 0)
  BY UartAssumption DEF SignalInv, UartInv, UartTypeOK, SignalsHaveData
<1>3. CASE AskCause
  <2>1. /\ guest = "iir" /\ UNCHANGED <<ier, backlog>>
        /\ interrupting' = (interrupting /\ IirValue # "rx")
        /\ thre_ip' = (thre_ip /\ IirValue # "thre")
        /\ guest' = IF IirValue = "none" THEN "complete" ELSE "receive"
    BY <1>3 DEF AskCause, ReadIir
  <2>2. IirValue = "thre" => ier.thri
    BY DEF IirValue
  <2> QED
    BY <1>1, <2>1, <2>2 DEF SignalInv, Driver, OutputHeard
<1>4. CASE Receive
  <2>1. guest = "receive" /\ UNCHANGED <<ier, backlog, thre_ip>>
    BY <1>4 DEF Receive, ReadRbr, uartVars
  <2>2. \/ guest' = "receive" /\ (interrupting' = interrupting \/ interrupting' = (interrupting /\ rx_count > 1))
        \/ guest' = "send" /\ ~dr /\ interrupting' = interrupting
    BY <1>4 DEF Receive, ReadRbr, uartVars
  <2> QED
    BY <1>1, <1>2, <2>1, <2>2 DEF SignalInv, Driver, OutputHeard
<1>5. CASE Send
  <2>1. guest = "send" /\ interrupting' = interrupting
    BY <1>5 DEF Send, WriteThr, WriteIer
  <2>2. CASE ier.thri /\ backlog > 0
    <3>1. thre_ip' = TRUE /\ backlog' = backlog - 1 /\ guest' = guest /\ ier' = ier
      BY <1>5, <2>2 DEF Send, WriteThr
    <3> QED
      BY <1>1, <2>1, <2>2, <3>1 DEF SignalInv, Driver, OutputHeard
  <2>3. CASE ~(ier.thri /\ backlog > 0)
    <3>1. /\ ier' = [ier EXCEPT !.thri = FALSE] /\ guest' = "iir"
          /\ backlog' = backlog /\ thre_ip' = thre_ip
      BY <1>5, <2>3 DEF Send, WriteIer
    <3>2. ier'.rdi = ier.rdi /\ ier'.thri = FALSE
      BY <1>2, <3>1 DEF Ier
    <3> QED
      BY <1>1, <2>1, <2>3, <3>1, <3>2 DEF SignalInv, Driver, OutputHeard
  <2> QED
    BY <2>2, <2>3
<1> QED
  BY <1>3, <1>4, <1>5

\* One step of the console.
HandsOn ==
  /\ interrupting /\ ~interrupting' => guest' = "receive"
  /\ guest = "receive" /\ guest' # "receive" => rx_count = 0
  /\ Poll /\ guest = "main" /\ (UartInterrupting \/ UART_IRQ \in pending) => guest' = "claim"
  /\ guest = "claim" /\ UART_IRQ \in pending /\ guest' # "claim" => guest' = "iir"

LEMMA SignalNext ==
  ASSUME SignalInv, [ConsoleNext]_vars
  PROVE  SignalInv' /\ (HandsOn \/ UNCHANGED vars)
<1>0. UartInv' /\ PlicTypeOK' /\ SummaryExact'
  BY PartsKeep
<1> SUFFICES Driver' /\ OutputHeard' /\ (HandsOn \/ UNCHANGED vars)
  BY <1>0 DEF SignalInv
<1>1. ASSUME Poll
      PROVE  guest = "main" /\ (UartInterrupting \/ UART_IRQ \in pending) => guest' = "claim"
  BY <1>0, <1>1, PollKeeps
<1>2. CASE TypeByte \/ PushByte
  BY <1>1, <1>2, InputKeeps DEF HandsOn
<1>3. CASE Poll
  BY <1>0, <1>3, PollKeeps DEF HandsOn
<1>4. CASE SetUp
  BY <1>1, <1>4, SetUpKeeps DEF HandsOn, SettingUp
<1>5. CASE StartSend
  BY <1>1, <1>5, StartSendKeeps DEF HandsOn
<1>6. CASE ClaimIrq \/ CompleteIrq \/ Sret
  BY <1>1, <1>6, ControllerKeeps DEF HandsOn
<1>7. CASE AskCause \/ Receive \/ Send
  BY <1>1, <1>7, PortKeeps DEF HandsOn
<1>8. CASE UNCHANGED vars
  <2>1. UNCHANGED <<priority, enable, threshold, pending, ier, interrupting, thre_ip, backlog, sie, guest>>
    BY <1>8 DEF vars, uartVars, plicVars, guestVars
  <2> QED
    BY <1>8, <2>1 DEF SignalInv, Driver, OutputHeard
<1> QED
  BY <1>2, <1>3, <1>4, <1>5, <1>6, <1>7, <1>8 DEF ConsoleNext, Handler

\* A signal of the serial port is never lost on its way, for any ring, sources and
\* numbers of bytes: what is to be sent has a signal or a handler, and what clears the
\* receive interrupt, the poll, the claim and the handler hand it on until the ring is
\* empty.
THEOREM SignalsKept == ConsoleSpec => SignalsHandedOn
<1>1. SignalInv => OutputHeard
  BY DEF SignalInv
<1>2. SignalInv /\ [ConsoleNext]_vars => SignalInv' /\ [HandsOn]_vars
  BY SignalNext
<1> QED
  BY <1>1, <1>2, SignalInit, PTL DEF ConsoleSpec, SignalsHandedOn, HandsOn

=============================================================================
