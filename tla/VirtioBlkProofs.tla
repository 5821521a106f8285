--------------------------- MODULE VirtioBlkProofs --------------------------
(***************************************************************************)
(* Proofs about the block device and its driver, for every queue size N,   *)
(* every index modulus W and all kinds of requests.                        *)
(***************************************************************************)
EXTENDS VirtioBlkSys, NatLemmas, FiniteSetTheorems, SequenceTheorems, TLAPS

\* Ring indices stay below W and slots below N.
LEMMA IndexInRange ==
    /\ \A x \in Nat : x % W \in 0 .. W - 1
    /\ \A x \in Nat : x % N \in Heads
BY BlkAssumption, SMT DEF Heads

\* CompletionSignalled and NoSpuriousIrq are not inductive: a claim clears the
\* pending bit and leaves it to INTERRUPT_STATUS to tell the handler that there
\* is something to collect, and a suppressed interrupt relies on the handler
\* looking again.
SignalInv ==
    /\ CompletionSignalled
    /\ NoSpuriousIrq
    /\ drv \in {"idle", "ack"} /\ last_used # used_idx => interrupt_status = 1
    /\ no_interrupt => drv = "collect"

\* The invariant holds initially.
LEMMA InitInv == Init => SysTypeOK /\ SignalInv
<1> SUFFICES ASSUME Init PROVE SysTypeOK /\ SignalInv
  OBVIOUS
<1>1. 0 \in 0 .. W - 1 /\ 0 \in Heads /\ 0 \in 0 .. MaxRuns
  BY BlkAssumption DEF Heads, MaxRuns
<1>2. BlkTypeOK
  BY <1>1 DEF Init, BlkInit, BlkTypeOK
<1>3. SysTypeOK
  BY <1>1, <1>2 DEF Init, BlkInit, SysTypeOK
<1>4. SignalInv
  BY DEF Init, BlkInit, SignalInv, CompletionSignalled, NoSpuriousIrq
<1> QED
  BY <1>3, <1>4

\* Every step keeps the state well typed: indices wrap, heads read from the
\* rings are heads, the loop of process_queue runs only on a queue that is set up.
LEMMA TypeStep ==
    ASSUME SysTypeOK, [Next]_vars
    PROVE  SysTypeOK'
<1> USE DEF SysTypeOK, BlkTypeOK, memVars, regVars, drvVars, blkVars
<1>0. 0 \in 0 .. W - 1
  BY BlkAssumption
<1>1. CASE SetNum
  BY <1>1 DEF SetNum, WriteQueueNum
<1>2. CASE SetPfn
  BY <1>0, <1>2 DEF SetPfn, WriteQueuePfn
<1>3. CASE Kick
  BY <1>3 DEF Kick, Notify
<1>4. CASE Serve /\ UNCHANGED drvVars
  <2>1. cur % N \in Heads /\ (cur + 1) % W \in 0 .. W - 1
    <3>1. cur \in Nat /\ cur + 1 \in Nat
      BY BlkAssumption
    <3> QED
      BY <3>1, IndexInRange, Zenon
  <2>2. head_desc_idx \in Heads
    BY <2>1 DEF head_desc_idx
  <2>3. status' \in [Heads -> {"unset", "ok", "ioerr"}]
    BY <1>4, <2>2 DEF Serve
  <2>4. runs' \in [Heads -> 0 .. MaxRuns]
    BY <1>4, <2>2 DEF Serve, RunOnce, MaxRuns
  <2>5. used_ring' \in [Heads -> Heads]
    BY <1>4, <2>1, <2>2 DEF Serve
  <2> QED
    BY <1>4, <2>1, <2>3, <2>4, <2>5 DEF Serve
<1>5. CASE ServeBad /\ UNCHANGED drvVars
  <2>1. runs' \in [Heads -> 0 .. MaxRuns]
    BY <1>5 DEF ServeBad, RunOnce, MaxRuns
  <2> QED
    BY <1>5, <2>1 DEF ServeBad
<1>6. CASE Publish /\ UNCHANGED drvVars
  BY <1>6 DEF Publish
<1>7. CASE TakeIrq
  BY <1>7 DEF TakeIrq
<1>8. CASE Ack
  BY <1>8 DEF Ack, WriteAck
<1>9. CASE Disable
  BY <1>9 DEF Disable
<1>10. CASE Collect
  <2>1. last_used % N \in Heads /\ (last_used + 1) % W \in 0 .. W - 1
    <3>1. last_used \in Nat /\ last_used + 1 \in Nat
      BY BlkAssumption
    <3> QED
      BY <3>1, IndexInRange, Zenon
  <2> QED
    BY <1>10, <2>1 DEF Collect
<1>11. CASE Enable
  BY <1>11 DEF Enable
<1>12. CASE Recheck
  BY <1>12 DEF Recheck
<1>13. CASE Reset
  BY <1>0, <1>13 DEF Reset, WriteStatusReset
<1>14. ASSUME NEW h \in Heads, NEW kind \in Kinds, Submit(h, kind)
       PROVE  SysTypeOK'
  <2>1. avail_idx % N \in Heads /\ (avail_idx + 1) % W \in 0 .. W - 1
    <3>1. avail_idx \in Nat /\ avail_idx + 1 \in Nat
      BY BlkAssumption
    <3> QED
      BY <3>1, IndexInRange, Zenon
  <2>2. avail_ring' \in [Heads -> Heads] /\ request' \in [Heads -> {"ok", "ioerr", "bad"}]
    BY <1>14, <2>1, BlkAssumption DEF Submit
  <2>3. status' \in [Heads -> {"unset", "ok", "ioerr"}] /\ runs' \in [Heads -> 0 .. MaxRuns]
    BY <1>14 DEF Submit, MaxRuns
  <2> QED
    BY <1>14, <2>1, <2>2, <2>3 DEF Submit
<1>15. CASE UNCHANGED vars
  BY <1>15 DEF vars
<1> QED
  BY <1>1, <1>2, <1>3, <1>4, <1>5, <1>6, <1>7, <1>8, <1>9, <1>10, <1>11, <1>12, <1>13,
     <1>14, <1>15 DEF Next, Device, Handler

\* Every step keeps completions signalled.
LEMMA SignalStep ==
    ASSUME SysTypeOK, SignalInv, [Next]_vars
    PROVE  SignalInv'
<1> USE DEF SignalInv, CompletionSignalled, NoSpuriousIrq, memVars, regVars, drvVars, blkVars
<1>0. interrupt_status \in {0, 1} /\ irq_pending \in BOOLEAN /\ no_interrupt \in BOOLEAN
      /\ stale \in BOOLEAN
  BY DEF SysTypeOK, BlkTypeOK
<1>1. CASE SetNum
  BY <1>1 DEF SetNum, WriteQueueNum
<1>2. CASE SetPfn
  BY <1>2 DEF SetPfn, WriteQueuePfn
<1>3. CASE Kick
  BY <1>3 DEF Kick, Notify
<1>4. CASE Serve /\ UNCHANGED drvVars
  BY <1>4 DEF Serve
<1>5. CASE ServeBad /\ UNCHANGED drvVars
  BY <1>5 DEF ServeBad
<1>6. CASE Publish /\ UNCHANGED drvVars
  BY <1>0, <1>6 DEF Publish
<1>7. CASE TakeIrq
  BY <1>0, <1>7 DEF TakeIrq
<1>8. CASE Ack
  BY <1>0, <1>8 DEF Ack, WriteAck
<1>9. CASE Disable
  BY <1>9 DEF Disable
<1>10. CASE Collect
  BY <1>10 DEF Collect
<1>11. CASE Enable
  BY <1>11 DEF Enable
<1>12. CASE Recheck
  BY <1>12 DEF Recheck
<1>13. CASE Reset
  BY <1>13 DEF Reset, WriteStatusReset
<1>14. CASE \E h \in Heads, kind \in Kinds : Submit(h, kind)
  BY <1>14 DEF Submit
<1>15. CASE UNCHANGED vars
  BY <1>15 DEF vars
<1> QED
  BY <1>1, <1>2, <1>3, <1>4, <1>5, <1>6, <1>7, <1>8, <1>9, <1>10, <1>11, <1>12, <1>13,
     <1>14, <1>15 DEF Next, Device, Handler

\* The inductive invariant holds in every reachable state.
THEOREM BlkInvariant == Spec => [](SysTypeOK /\ SignalInv)
<1>1. Init => SysTypeOK /\ SignalInv
  BY InitInv
<1>2. SysTypeOK /\ SignalInv /\ [Next]_vars => SysTypeOK' /\ SignalInv'
  BY TypeStep, SignalStep
<1> QED
  BY <1>1, <1>2, PTL DEF Spec

\* Type correctness of the device and its driver; process_queue never runs with
\* a queue size of zero, which would be a division by zero.
THEOREM TypeCorrect == Spec => []SysTypeOK
BY BlkInvariant, PTL

\* No completion is left without an interrupt, for every queue size.
THEOREM Signalled == Spec => []CompletionSignalled
<1>1. SignalInv => CompletionSignalled
  BY DEF SignalInv
<1> QED
  BY <1>1, BlkInvariant, PTL

\* A spurious interrupt of the block device comes from a reset only.
THEOREM SpuriousFromReset == Spec => []NoSpuriousIrq
<1>1. SignalInv => NoSpuriousIrq
  BY DEF SignalInv
<1> QED
  BY <1>1, BlkInvariant, PTL

-----------------------------------------------------------------------------
(* The rings.  Positions count from the driver's index: position k is in   *)
(* slot Slot(k) of both rings.                                             *)

Idx == 0 .. W - 1

\* Distances between indices, across their wrap-around.
LEMMA BehindIs ==
    ASSUME NEW a \in Idx, NEW b \in Idx
    PROVE  /\ Behind(a, b) = IF a <= b THEN b - a ELSE b + W - a
           /\ Behind(a, b) \in 0 .. W - 1
<1>1. W \in Nat /\ W > 0 /\ a \in Nat /\ b \in Nat /\ a < W /\ b < W
  BY BlkAssumption DEF Idx
<1>2. CASE a <= b
  <2>1. (1 * W + (b - a)) % W = b - a
    BY <1>1, <1>2, HalvesUnique
  <2>2. b + W - a = 1 * W + (b - a)
    BY <1>1
  <2> QED BY <1>1, <1>2, <2>1, <2>2 DEF Behind
<1>3. CASE ~(a <= b)
  <2>1. b + W - a \in Nat /\ b + W - a < W
    BY <1>1, <1>3
  <2>2. (b + W - a) % W = b + W - a
    BY <1>1, <2>1, SmallMod
  <2> QED BY <1>1, <1>3, <2>1, <2>2 DEF Behind
<1> QED BY <1>2, <1>3

\* The successor of an index.
LEMMA SuccIs ==
    ASSUME NEW a \in Idx
    PROVE  (a + 1) % W = IF a = W - 1 THEN 0 ELSE a + 1
<1>1. W \in Nat /\ W > 0 /\ a \in Nat /\ a < W
  BY BlkAssumption DEF Idx
<1>2. CASE a = W - 1
  <2>1. (1 * W + 0) % W = 0
    BY <1>1, HalvesUnique
  <2> QED BY <1>1, <1>2, <2>1
<1>3. CASE a # W - 1
  BY <1>1, <1>3, SmallMod
<1> QED BY <1>2, <1>3

\* N divides W: an index that wraps stays at the same slot.
LEMMA SlotWraps ==
    ASSUME NEW x \in Nat
    PROVE  (x + W) % N = x % N
<1>1. W \in Nat /\ N \in Nat /\ N > 0 /\ W % N = 0
  BY BlkAssumption
<1> DEFINE c == W \div N
           q == x \div N
           r == x % N
<1>2. W = c * N /\ c \in Nat
  BY <1>1, Halves
<1>3. x = q * N + r /\ q \in Nat /\ r \in 0 .. N - 1
  BY <1>1, Halves
<1> HIDE DEF c, q, r
<1>4. x + W = (q + c) * N + r /\ q + c \in Nat
  BY <1>1, <1>2, <1>3
<1>5. ((q + c) * N + r) % N = r
  BY <1>1, <1>3, <1>4, HalvesUnique
<1> QED BY <1>4, <1>5 DEF r

\* Positions less than N apart are in different slots.
LEMMA SlotsDiffer ==
    ASSUME NEW x \in Nat, NEW j \in Nat, NEW k \in Nat, j < k, k < j + N
    PROVE  (x + j) % N # (x + k) % N
<1> SUFFICES ASSUME (x + j) % N = (x + k) % N PROVE FALSE
  OBVIOUS
<1>1. N \in Nat /\ N > 0
  BY BlkAssumption
<1> DEFINE a == (x + j) \div N
           b == (x + k) \div N
           r == (x + j) % N
<1>2. x + j = a * N + r /\ x + k = b * N + r /\ a \in Nat /\ b \in Nat /\ r \in Nat
  BY <1>1, Halves
<1> HIDE DEF a, b, r
<1>3. a * N \in Nat /\ b * N \in Nat /\ a * N < b * N /\ b * N < a * N + N
  BY <1>1, <1>2
<1>4. CASE b <= a
  <2>1. b * N <= a * N
    BY <1>1, <1>2, <1>4, TimesMonotone
  <2> QED BY <1>3, <2>1
<1>5. CASE a + 1 <= b
  <2>1. (a + 1) * N <= b * N
    BY <1>1, <1>2, <1>5, TimesMonotone
  <2>2. (a + 1) * N = a * N + N
    BY <1>1, <1>2
  <2> QED BY <1>1, <1>3, <2>1, <2>2
<1> QED BY <1>2, <1>4, <1>5

-----------------------------------------------------------------------------
NComp == Behind(last_used, used_idx)                             \* completed, not collected
NAll  == Behind(last_used, avail_idx)                            \* all in the rings
NCur  == IF running THEN Behind(last_used, cur) ELSE NComp       \* served by this call

Slot(k)  == (last_used + k) % N
Entry(k) == IF k < NComp THEN used_ring[Slot(k)] ELSE avail_ring[Slot(k)]

\* The rings hold every head that is not free, each once; the entries that the
\* running call of process_queue has put into the used ring are those of the
\* requests that it served, in their order.
RingInv ==
    /\ NComp <= NCur /\ NCur <= NAll
    /\ running => NComp < NAll
    /\ NAll + Cardinality(free) = N
    /\ \A k \in 0 .. NAll - 1 : Entry(k) \notin free
    /\ \A j, k \in 0 .. NAll - 1 : j # k => Entry(j) # Entry(k)
    /\ \A k \in NComp .. NCur - 1 : used_ring[Slot(k)] = Entry(k)
    /\ ~queue_pfn => free = Heads

NoBad == \A k \in NComp .. NAll - 1 : request[Entry(k)] # "bad"

\* What is completed ran once.  What is not completed did not run before this
\* call, unless a malformed request holds the queue up.
RunsInv ==
    /\ \A k \in 0 .. NComp - 1 : runs[Entry(k)] = 1
    /\ \A k \in 0 .. NCur - 1 : status[Entry(k)] = request[Entry(k)]
    /\ NoBad => /\ \A k \in NComp .. NCur - 1 : runs[Entry(k)] = 1
                /\ \A k \in NCur .. NAll - 1 : runs[Entry(k)] = 0

\* Types of the counts, slots and entries.
LEMMA RingTypes ==
    ASSUME SysTypeOK
    PROVE  /\ N \in Nat /\ N > 0 /\ W \in Nat /\ W > N
           /\ last_used \in Idx /\ used_idx \in Idx /\ avail_idx \in Idx /\ cur \in Idx
           /\ last_used \in Nat
           /\ NComp \in Nat /\ NAll \in Nat /\ NCur \in Nat
           /\ NComp < W /\ NAll < W /\ NCur < W
           /\ \A k \in Nat : Slot(k) \in Heads /\ Entry(k) \in Heads
<1>1. /\ N \in Nat /\ N > 0 /\ W \in Nat /\ W > N
      /\ last_used \in Idx /\ used_idx \in Idx /\ avail_idx \in Idx /\ cur \in Idx
      /\ last_used \in Nat
  BY BlkAssumption DEF SysTypeOK, BlkTypeOK, Idx
<1>2. /\ NComp \in Nat /\ NAll \in Nat /\ NCur \in Nat
      /\ NComp < W /\ NAll < W /\ NCur < W
  BY <1>1, BehindIs DEF NComp, NAll, NCur
<1>3. \A k \in Nat : Slot(k) \in Heads
  BY <1>1, IndexInRange DEF Slot
<1>4. \A k \in Nat : Entry(k) \in Heads
  BY <1>3 DEF Entry, SysTypeOK, BlkTypeOK
<1> QED BY <1>1, <1>2, <1>3, <1>4

\* Where the indices point: the slots of used_idx, avail_idx and cur.
LEMMA SlotOf ==
    ASSUME SysTypeOK, NEW x \in Idx, NEW k \in Nat
    PROVE  (x + k) % N = Slot(Behind(last_used, x) + k)
<1>1. /\ N \in Nat /\ N > 0 /\ W \in Nat /\ last_used \in Idx /\ last_used \in Nat /\ x \in Nat
      /\ x < W /\ last_used < W
  BY RingTypes DEF Idx
<1>2. CASE last_used <= x
  <2>1. last_used + (Behind(last_used, x) + k) = x + k
    BY <1>1, <1>2, BehindIs
  <2> QED BY <2>1 DEF Slot
<1>3. CASE ~(last_used <= x)
  <2>1. last_used + (Behind(last_used, x) + k) = x + k + W
    BY <1>1, <1>3, BehindIs
  <2>2. (x + k + W) % N = (x + k) % N
    BY <1>1, SlotWraps
  <2> QED BY <2>1, <2>2 DEF Slot
<1> QED BY <1>2, <1>3

\* Distances when an index advances, and when there is none.
LEMMA BehindSteps ==
    ASSUME NEW a \in Idx, NEW b \in Idx
    PROVE  /\ Behind(a, b) < W - 1 => Behind(a, (b + 1) % W) = Behind(a, b) + 1
           /\ Behind(a, b) > 0 => Behind((a + 1) % W, b) = Behind(a, b) - 1
           /\ Behind(a, b) = 0 <=> a = b
           /\ (a + 1) % W \in Idx
<1>1. W \in Nat /\ W > 0 /\ a \in Nat /\ b \in Nat /\ a < W /\ b < W
  BY BlkAssumption DEF Idx
<1> DEFINE a1 == (a + 1) % W
           b1 == (b + 1) % W
<1>2. /\ a1 = IF a = W - 1 THEN 0 ELSE a + 1
      /\ b1 = IF b = W - 1 THEN 0 ELSE b + 1
  BY SuccIs
<1>3. a1 \in Idx /\ b1 \in Idx
  BY <1>1, <1>2 DEF Idx
<1>4. /\ Behind(a, b) = IF a <= b THEN b - a ELSE b + W - a
      /\ Behind(a, b1) = IF a <= b1 THEN b1 - a ELSE b1 + W - a
      /\ Behind(a1, b) = IF a1 <= b THEN b - a1 ELSE b + W - a1
  BY <1>3, BehindIs
<1> HIDE DEF a1, b1
<1>5. Behind(a, b) < W - 1 => Behind(a, b1) = Behind(a, b) + 1
  BY <1>1, <1>2, <1>4
<1>6. Behind(a, b) > 0 => Behind(a1, b) = Behind(a, b) - 1
  BY <1>1, <1>2, <1>4
<1>7. Behind(a, b) = 0 <=> a = b
  BY <1>1, <1>4
<1> QED BY <1>3, <1>5, <1>6, <1>7 DEF a1, b1

\* Distances from the same index tell indices apart.
LEMMA BehindSame ==
    ASSUME NEW a \in Idx, NEW b \in Idx, NEW c \in Idx
    PROVE  Behind(a, b) = Behind(a, c) <=> b = c
<1>1. W \in Nat /\ W > 0 /\ a \in Nat /\ b \in Nat /\ c \in Nat /\ a < W /\ b < W /\ c < W
  BY BlkAssumption DEF Idx
<1>2. /\ Behind(a, b) = IF a <= b THEN b - a ELSE b + W - a
      /\ Behind(a, c) = IF a <= c THEN c - a ELSE c + W - a
  BY BehindIs
<1> QED BY <1>1, <1>2

\* No two positions in the rings share a slot.
LEMMA SlotsApart ==
    ASSUME SysTypeOK, NEW j \in 0 .. N - 1, NEW k \in 0 .. N - 1, j # k
    PROVE  Slot(j) # Slot(k)
<1>1. N \in Nat /\ last_used \in Nat /\ j \in Nat /\ k \in Nat
  BY RingTypes
<1>0. j < k + N /\ k < j + N
  BY <1>1
<1>2. CASE j < k
  <2>1. (last_used + j) % N # (last_used + k) % N
    BY <1>0, <1>1, <1>2, SlotsDiffer
  <2> QED BY <2>1 DEF Slot
<1>3. CASE k < j
  <2>1. (last_used + k) % N # (last_used + j) % N
    BY <1>0, <1>1, <1>3, SlotsDiffer
  <2> QED BY <2>1 DEF Slot
<1> QED BY <1>1, <1>2, <1>3

\* The free heads are finitely many, and the rings hold no more than N entries.
LEMMA FreeFinite ==
    ASSUME SysTypeOK, RingInv
    PROVE  IsFiniteSet(free) /\ Cardinality(free) \in Nat /\ NAll <= N
<1>1. IsFiniteSet(Heads)
  BY RingTypes, FS_Interval DEF Heads
<1>2. IsFiniteSet(free)
  BY <1>1, FS_Subset DEF SysTypeOK
<1>3. Cardinality(free) \in Nat
  BY <1>2, FS_CardinalityType
<1> QED BY <1>2, <1>3, RingTypes DEF RingInv

-----------------------------------------------------------------------------
(* What each action does to the counts and entries.                        *)

\* The actions that leave the indices and the rings alone, a notification that
\* finds nothing and a call that fails included.
Quiet == SetNum \/ Kick \/ (ServeBad /\ UNCHANGED drvVars) \/ TakeIrq \/ Ack \/ Disable
         \/ Enable \/ Recheck \/ UNCHANGED vars

LEMMA QuietView ==
    ASSUME SysTypeOK, RingInv, Quiet
    PROVE  /\ NComp' = NComp /\ NAll' = NAll /\ NCur' \in {NComp, NCur}
           /\ (NCur' = NCur /\ runs' = runs) \/ (ServeBad /\ NCur' = NComp)
           /\ running' => NComp < NAll
           /\ \A k : Entry(k)' = Entry(k) /\ Slot(k)' = Slot(k)
           /\ UNCHANGED <<avail_ring, used_ring, request, status, free>>
           /\ ~queue_pfn' => ~queue_pfn
<1> USE DEF vars, blkVars, memVars, regVars, drvVars
<1>1. /\ UNCHANGED <<avail_ring, avail_idx, used_ring, used_idx, request, status, free, last_used>>
      /\ ~queue_pfn' => ~queue_pfn
  BY DEF Quiet, SetNum, WriteQueueNum, Kick, Notify, ServeBad, TakeIrq, Ack, WriteAck, Disable,
         Enable, Recheck
<1>2. NComp' = NComp /\ NAll' = NAll
  BY <1>1 DEF NComp, NAll, Behind
<1>3. \A k : Entry(k)' = Entry(k) /\ Slot(k)' = Slot(k)
  BY <1>1, <1>2 DEF Entry, Slot
<1>4. /\ NCur' \in {NComp, NCur} /\ (running' => NComp < NAll)
      /\ (NCur' = NCur /\ runs' = runs) \/ (ServeBad /\ NCur' = NComp)
  <2>1. CASE Kick
    <3>1. running' => avail_idx # used_idx
      BY <2>1 DEF Kick, Notify
    <3>2. NCur' = NComp /\ NCur = NComp /\ runs' = runs
      BY <1>1, <1>2, <2>1 DEF Kick, Notify, NCur, NComp, Behind
    <3>3. running' => NComp # NAll
      BY <3>1, RingTypes, BehindSame DEF NComp, NAll
    <3>4. NComp <= NAll
      BY RingTypes DEF RingInv
    <3> QED BY <3>2, <3>3, <3>4, RingTypes
  <2>2. CASE ServeBad /\ UNCHANGED drvVars
    BY <1>2, <2>2 DEF ServeBad, NCur
  <2>3. CASE ~Kick /\ ~(ServeBad /\ UNCHANGED drvVars)
    <3>1. running' = running /\ cur' = cur /\ runs' = runs
      BY <2>3 DEF Quiet, SetNum, WriteQueueNum, TakeIrq, Ack, WriteAck, Disable, Enable, Recheck
    <3> QED BY <1>1, <1>2, <3>1 DEF NCur, Behind, RingInv
  <2> QED BY <2>1, <2>2, <2>3
<1> QED BY <1>1, <1>2, <1>3, <1>4

\* A request is offered behind all others, in a slot that no other uses.
LEMMA SubmitView ==
    ASSUME SysTypeOK, RingInv, NEW h \in Heads, NEW kind \in Kinds, Submit(h, kind)
    PROVE  /\ NComp' = NComp /\ NAll' = NAll + 1 /\ NCur' = NComp /\ NCur = NComp /\ NAll < N
           /\ \A k \in 0 .. NAll : Entry(k)' = IF k = NAll THEN h ELSE Entry(k)
           /\ Cardinality(free') = Cardinality(free) - 1
<1>1. IsFiniteSet(free)
  BY FreeFinite
<1>2. /\ h \in free /\ free' = free \ {h} /\ ~running /\ ~running'
      /\ avail_ring' = [avail_ring EXCEPT ![avail_idx % N] = h]
      /\ avail_idx' = (avail_idx + 1) % W
      /\ UNCHANGED <<used_idx, used_ring, last_used>>
  BY DEF Submit
<1>3. Cardinality(free') = Cardinality(free) - 1 /\ Cardinality(free) \in Nat /\ Cardinality(free') \in Nat
  <2>1. IsFiniteSet(free') /\ Cardinality(free') = Cardinality(free) - 1
    BY <1>1, <1>2, FS_RemoveElement
  <2> QED BY <1>1, <2>1, FS_CardinalityType
<1>4. NAll < N
  BY <1>3, RingTypes DEF RingInv
<1>5. NComp' = NComp /\ NCur' = NComp /\ NCur = NComp
  BY <1>2 DEF NComp, NCur, Behind
<1>6. NAll' = NAll + 1
  <2>1. Behind(last_used, avail_idx) < W - 1
    BY <1>4, RingTypes DEF NAll
  <2> QED BY <1>2, <2>1, RingTypes, BehindSteps DEF NAll, Behind
<1>7. avail_idx % N = Slot(NAll)
  <2>1. (avail_idx + 0) % N = Slot(Behind(last_used, avail_idx) + 0)
    BY RingTypes, SlotOf
  <2> QED BY <2>1, RingTypes DEF NAll, Idx
<1>8. ASSUME NEW k \in 0 .. NAll PROVE Entry(k)' = IF k = NAll THEN h ELSE Entry(k)
  <2>1. k # NAll => Slot(k) # Slot(NAll)
    BY <1>4, RingTypes, SlotsApart
  <2>2. Slot(k)' = Slot(k) /\ Slot(k) \in Heads
    BY <1>2, RingTypes DEF Slot
  <2>3. Entry(k)' = IF k < NComp THEN used_ring[Slot(k)] ELSE avail_ring'[Slot(k)]
    BY <1>2, <1>5, <2>2 DEF Entry
  <2>4. avail_ring'[Slot(k)] = IF k = NAll THEN h ELSE avail_ring[Slot(k)]
    BY <1>2, <1>7, <2>1, <2>2 DEF SysTypeOK, BlkTypeOK
  <2>5. NComp <= NAll
    BY RingTypes DEF RingInv
  <2> QED BY <2>3, <2>4, <2>5, RingTypes DEF Entry
<1> QED BY <1>3, <1>4, <1>5, <1>6, <1>8

\* process_queue serves the oldest request that this call has not served; its
\* used entry goes to the slot of its position and to no other's.
LEMMA ServeView ==
    ASSUME SysTypeOK, RingInv, Serve, UNCHANGED drvVars
    PROVE  /\ NComp' = NComp /\ NAll' = NAll /\ NCur' = NCur + 1 /\ NCur < NAll
           /\ head_desc_idx = Entry(NCur)
           /\ \A k \in 0 .. NAll - 1 :
                /\ Entry(k)' = Entry(k)
                /\ used_ring'[Slot(k)'] = IF k = NCur THEN Entry(k) ELSE used_ring[Slot(k)]
<1>1. /\ running /\ running' /\ cur # avail_idx /\ cur' = (cur + 1) % W
      /\ used_ring' = [used_ring EXCEPT ![cur % N] = head_desc_idx]
      /\ UNCHANGED <<avail_idx, used_idx, avail_ring, last_used>>
  BY DEF Serve, drvVars
<1>2. NCur = Behind(last_used, cur)
  BY <1>1 DEF NCur
<1>3. NCur < NAll /\ NComp <= NCur /\ NAll <= N
  <2>1. NCur # NAll
    BY <1>1, <1>2, RingTypes, BehindSame DEF NAll
  <2> QED BY <2>1, RingTypes, FreeFinite DEF RingInv
<1>4. NComp' = NComp /\ NAll' = NAll
  BY <1>1 DEF NComp, NAll, Behind
<1>5. NCur' = NCur + 1
  <2>1. Behind(last_used, cur) < W - 1
    BY <1>2, <1>3, RingTypes
  <2>2. Behind(last_used, (cur + 1) % W) = Behind(last_used, cur) + 1
    BY <2>1, RingTypes, BehindSteps
  <2> QED BY <1>1, <1>2, <2>2 DEF NCur, Behind
<1>6. cur % N = Slot(NCur)
  <2>1. (cur + 0) % N = Slot(Behind(last_used, cur) + 0)
    BY RingTypes, SlotOf
  <2> QED BY <1>2, <2>1, RingTypes DEF Idx
<1>7. head_desc_idx = Entry(NCur)
  BY <1>3, <1>6, RingTypes DEF head_desc_idx, Entry
<1>8. ASSUME NEW k \in 0 .. NAll - 1
      PROVE  /\ Entry(k)' = Entry(k)
             /\ used_ring'[Slot(k)'] = IF k = NCur THEN Entry(k) ELSE used_ring[Slot(k)]
  <2>1. Slot(k)' = Slot(k) /\ Slot(k) \in Heads
    BY <1>1, RingTypes DEF Slot
  <2>2. k # NCur => Slot(k) # Slot(NCur)
    BY <1>3, RingTypes, SlotsApart
  <2>3. used_ring'[Slot(k)] = IF k = NCur THEN Entry(k) ELSE used_ring[Slot(k)]
    BY <1>1, <1>6, <1>7, <2>1, <2>2 DEF SysTypeOK, BlkTypeOK
  <2>4. Entry(k)' = IF k < NComp THEN used_ring'[Slot(k)] ELSE avail_ring[Slot(k)]
    BY <1>1, <1>4, <2>1 DEF Entry
  <2>5. k < NComp => k # NCur
    BY <1>3, RingTypes
  <2>6. Entry(k)' = Entry(k)
    BY <2>3, <2>4, <2>5 DEF Entry
  <2> QED BY <2>1, <2>3, <2>6
<1> QED BY <1>3, <1>4, <1>5, <1>7, <1>8

\* The used index is published when every available request was served.
LEMMA PublishView ==
    ASSUME SysTypeOK, RingInv, Publish, UNCHANGED drvVars
    PROVE  /\ NCur = NAll /\ NComp < NAll
           /\ NComp' = NAll /\ NAll' = NAll /\ NCur' = NAll
           /\ \A k \in 0 .. NAll - 1 : Entry(k)' = Entry(k)
<1>1. /\ running /\ ~running' /\ cur = avail_idx /\ used_idx' = cur
      /\ UNCHANGED <<avail_idx, avail_ring, used_ring, last_used>>
  BY DEF Publish, drvVars
<1>2. NCur = NAll /\ NComp < NAll
  BY <1>1 DEF NCur, NAll, RingInv
<1>3. NComp' = NAll /\ NAll' = NAll /\ NCur' = NAll
  BY <1>1 DEF NComp, NCur, NAll, Behind
<1>4. ASSUME NEW k \in 0 .. NAll - 1 PROVE Entry(k)' = Entry(k)
  <2>1. Slot(k)' = Slot(k)
    BY <1>1 DEF Slot
  <2>2. Entry(k)' = used_ring[Slot(k)]
    BY <1>1, <1>3, <2>1, RingTypes DEF Entry
  <2>3. CASE k < NComp
    BY <2>2, <2>3 DEF Entry
  <2>4. CASE ~(k < NComp)
    <3>1. k \in NComp .. NCur - 1
      BY <1>2, <2>4, RingTypes
    <3> QED BY <2>2, <3>1 DEF RingInv
  <2> QED BY <2>3, <2>4
<1> QED BY <1>2, <1>3, <1>4

\* The driver takes the oldest completion; every other moves up.
LEMMA CollectView ==
    ASSUME SysTypeOK, RingInv, Collect
    PROVE  /\ NComp > 0 /\ NAll >= NComp /\ NCur = NComp
           /\ NComp' = NComp - 1 /\ NAll' = NAll - 1 /\ NCur' = NComp - 1
           /\ \A k \in Nat : Slot(k)' = Slot(k + 1) /\ Entry(k)' = Entry(k + 1)
           /\ free' = free \cup {Entry(0)}
<1>1. /\ ~running /\ ~running' /\ last_used # used_idx /\ last_used' = (last_used + 1) % W
      /\ free' = free \cup {used_ring[last_used % N]}
      /\ UNCHANGED <<avail_idx, used_idx, avail_ring, used_ring>>
  BY DEF Collect, blkVars, memVars
<1>2. NCur = NComp /\ NAll >= NComp
  BY <1>1, RingTypes DEF NCur, RingInv
<1>3. NComp > 0
  BY <1>1, RingTypes, BehindSteps DEF NComp
<1>4. NComp' = NComp - 1
  <2>1. Behind((last_used + 1) % W, used_idx) = Behind(last_used, used_idx) - 1
    BY <1>3, RingTypes, BehindSteps DEF NComp
  <2> QED BY <1>1, <2>1 DEF NComp, Behind
<1>5. NAll' = NAll - 1
  <2>1. Behind(last_used, avail_idx) > 0
    BY <1>2, <1>3, RingTypes DEF NAll
  <2>2. Behind((last_used + 1) % W, avail_idx) = Behind(last_used, avail_idx) - 1
    BY <2>1, RingTypes, BehindSteps
  <2> QED BY <1>1, <2>2 DEF NAll, Behind
<1>6. NCur' = NComp - 1
  BY <1>1, <1>4 DEF NCur
<1>7. \A k \in Nat : Slot(k)' = Slot(k + 1)
  <2> SUFFICES ASSUME NEW k \in Nat PROVE Slot(k)' = Slot(k + 1)
    OBVIOUS
  <2> DEFINE x == (last_used + 1) % W
  <2>1. x \in Idx
    BY RingTypes, BehindSteps
  <2>2. Behind(last_used, last_used) = 0
    BY RingTypes, BehindSteps
  <2>3. Behind(last_used, x) = 1
    <3>1. Behind(last_used, last_used) < W - 1
      BY <2>2, RingTypes
    <3> QED BY <2>2, <3>1, RingTypes, BehindSteps
  <2> HIDE DEF x
  <2>4. (x + k) % N = Slot(Behind(last_used, x) + k)
    BY <2>1, SlotOf
  <2>5. Slot(k)' = (x + k) % N
    BY <1>1 DEF Slot, x
  <2>6. 1 + k = k + 1
    OBVIOUS
  <2> QED BY <2>3, <2>4, <2>5, <2>6
<1>8. \A k \in Nat : Entry(k)' = Entry(k + 1)
  <2> SUFFICES ASSUME NEW k \in Nat PROVE Entry(k)' = Entry(k + 1)
    OBVIOUS
  <2>1. k < NComp - 1 <=> k + 1 < NComp
    BY RingTypes
  <2> QED BY <1>1, <1>4, <1>7, <2>1 DEF Entry
<1>9. used_ring[last_used % N] = Entry(0)
  <2>1. Slot(0) = last_used % N
    BY RingTypes DEF Slot
  <2> QED BY <1>3, <2>1 DEF Entry
<1> QED BY <1>1, <1>2, <1>3, <1>4, <1>5, <1>6, <1>7, <1>8, <1>9

\* A queue that is set up, or a device that is reset, has empty rings.
LEMMA EmptyView ==
    ASSUME SysTypeOK, RingInv, SetPfn \/ Reset
    PROVE  NComp' = 0 /\ NAll' = 0 /\ NCur' = 0 /\ free' = Heads /\ ~running'
<1>1. /\ last_used' = 0 /\ avail_idx' = 0 /\ used_idx' = 0 /\ ~running' /\ free' = Heads
  <2>1. CASE SetPfn
    BY <2>1 DEF SetPfn, RingInv
  <2>2. CASE Reset
    BY <2>2 DEF Reset
  <2> QED BY <2>1, <2>2
<1>2. Behind(0, 0) = 0
  <2>1. 0 \in Idx
    BY RingTypes DEF Idx
  <2> QED BY <2>1, BehindSteps
<1> QED BY <1>1, <1>2 DEF NComp, NAll, NCur, Behind

-----------------------------------------------------------------------------
\* The driver starts with empty rings.
LEMMA RingInit == Init => RingInv /\ RunsInv
<1> SUFFICES ASSUME Init PROVE RingInv /\ RunsInv
  OBVIOUS
<1>1. SysTypeOK
  BY InitInv
<1>2. NComp = 0 /\ NAll = 0 /\ NCur = 0
  <2>1. last_used = 0 /\ used_idx = 0 /\ avail_idx = 0 /\ ~running
    BY DEF Init, BlkInit
  <2>2. Behind(0, 0) = 0
    BY <1>1, <2>1, RingTypes, BehindSteps
  <2> QED BY <2>1, <2>2 DEF NComp, NAll, NCur
<1>3. Cardinality(Heads) = N
  BY <1>1, RingTypes, FS_Interval DEF Heads
<1>4. free = Heads /\ ~running
  BY DEF Init, BlkInit
<1>5. RingInv
  BY <1>2, <1>3, <1>4, <1>1, RingTypes DEF RingInv
<1>6. RunsInv
  BY <1>2 DEF RunsInv
<1> QED BY <1>5, <1>6

\* Every step keeps the rings in order.
LEMMA RingStep ==
    ASSUME SysTypeOK, RingInv, [Next]_vars
    PROVE  RingInv'
<1>0. /\ N \in Nat /\ NComp \in Nat /\ NAll \in Nat /\ NCur \in Nat
      /\ Cardinality(free) \in Nat /\ IsFiniteSet(free)
      /\ \A k \in Nat : Entry(k) \in Heads
  BY RingTypes, FreeFinite
<1>1. CASE Quiet
  BY <1>0, <1>1, QuietView DEF RingInv
<1>2. ASSUME NEW h \in Heads, NEW kind \in Kinds, Submit(h, kind)
      PROVE  RingInv'
  <2>1. h \in free /\ free' = free \ {h} /\ ~running' /\ queue_pfn'
    BY <1>2 DEF Submit, regVars
  <2>2. /\ NComp' = NComp /\ NAll' = NAll + 1 /\ NCur' = NComp /\ NCur = NComp
        /\ \A k \in 0 .. NAll : Entry(k)' = IF k = NAll THEN h ELSE Entry(k)
        /\ Cardinality(free') = Cardinality(free) - 1
    BY <1>2, SubmitView
  <2>3. NComp' <= NCur' /\ NCur' <= NAll' /\ NAll' + Cardinality(free)' = N
    BY <1>0, <2>2 DEF RingInv
  <2>4. \A k \in 0 .. NAll' - 1 : Entry(k)' \notin free'
    BY <1>0, <2>1, <2>2 DEF RingInv
  <2>5. \A j, k \in 0 .. NAll' - 1 : j # k => Entry(j)' # Entry(k)'
    BY <1>0, <2>1, <2>2 DEF RingInv
  <2> QED BY <1>0, <2>1, <2>2, <2>3, <2>4, <2>5 DEF RingInv
<1>3. CASE Serve /\ UNCHANGED drvVars
  <2>1. free' = free /\ queue_pfn' = queue_pfn /\ running
    BY <1>3 DEF Serve, drvVars, regVars
  <2>2. /\ NComp' = NComp /\ NAll' = NAll /\ NCur' = NCur + 1 /\ NCur < NAll
        /\ \A k \in 0 .. NAll - 1 :
                /\ Entry(k)' = Entry(k)
                /\ used_ring'[Slot(k)'] = IF k = NCur THEN Entry(k) ELSE used_ring[Slot(k)]
    BY <1>3, ServeView
  <2>3. \A k \in NComp' .. NCur' - 1 : used_ring'[Slot(k)'] = Entry(k)'
    BY <1>0, <2>2 DEF RingInv
  <2> QED BY <1>0, <2>1, <2>2, <2>3 DEF RingInv
<1>4. CASE Publish /\ UNCHANGED drvVars
  <2>1. free' = free /\ queue_pfn' = queue_pfn /\ ~running'
    BY <1>4 DEF Publish, drvVars
  <2> QED BY <1>0, <1>4, <2>1, PublishView DEF RingInv
<1>5. CASE Collect
  <2>1. ~running' /\ queue_pfn' = queue_pfn
    BY <1>5 DEF Collect, blkVars, regVars
  <2>2. /\ NComp > 0 /\ NAll >= NComp /\ NCur = NComp
        /\ NComp' = NComp - 1 /\ NAll' = NAll - 1 /\ NCur' = NComp - 1
        /\ \A k \in Nat : Slot(k)' = Slot(k + 1) /\ Entry(k)' = Entry(k + 1)
        /\ free' = free \cup {Entry(0)}
    BY <1>5, CollectView
  <2>3. Entry(0) \notin free /\ Entry(0) \in Heads
    BY <1>0, <2>2 DEF RingInv
  <2>4. Cardinality(free') = Cardinality(free) + 1
    BY <1>0, <2>2, <2>3, FS_AddElement
  <2>5. \A k \in 0 .. NAll' - 1 : Entry(k)' \notin free'
    <3> SUFFICES ASSUME NEW k \in 0 .. NAll' - 1 PROVE Entry(k)' \notin free'
      OBVIOUS
    <3>1. k \in Nat /\ k + 1 \in 0 .. NAll - 1 /\ 0 \in 0 .. NAll - 1 /\ k + 1 # 0
      BY <1>0, <2>2
    <3>2. Entry(k + 1) \notin free /\ Entry(k + 1) # Entry(0)
      BY <3>1 DEF RingInv
    <3> QED BY <2>2, <3>1, <3>2
  <2>6. \A j, k \in 0 .. NAll' - 1 : j # k => Entry(j)' # Entry(k)'
    <3> SUFFICES ASSUME NEW j \in 0 .. NAll' - 1, NEW k \in 0 .. NAll' - 1, j # k
                 PROVE  Entry(j)' # Entry(k)'
      OBVIOUS
    <3>1. /\ j \in Nat /\ j + 1 \in 0 .. NAll - 1
          /\ k \in Nat /\ k + 1 \in 0 .. NAll - 1 /\ j + 1 # k + 1
      BY <1>0, <2>2
    <3>2. Entry(j + 1) # Entry(k + 1)
      BY <3>1 DEF RingInv
    <3> QED BY <2>2, <3>1, <3>2
  <2> QED BY <1>0, <2>1, <2>2, <2>3, <2>4, <2>5, <2>6 DEF RingInv
<1>6. CASE SetPfn \/ Reset
  <2>1. Cardinality(Heads) = N
    BY <1>0, RingTypes, FS_Interval DEF Heads
  <2>2. NComp' = 0 /\ NAll' = 0 /\ NCur' = 0 /\ free' = Heads /\ ~running'
    BY <1>6, EmptyView
  <2> QED BY <1>0, <2>1, <2>2 DEF RingInv
<1> QED BY <1>1, <1>2, <1>3, <1>4, <1>5, <1>6 DEF Next, Device, Handler, Quiet

\* Every step keeps what is completed executed once.
LEMMA RunsStep ==
    ASSUME SysTypeOK, RingInv, RunsInv, [Next]_vars
    PROVE  RunsInv'
<1>0. /\ N \in Nat /\ NComp \in Nat /\ NAll \in Nat /\ NCur \in Nat
      /\ NComp <= NCur /\ NCur <= NAll
      /\ \A k \in Nat : Entry(k) \in Heads
      /\ runs \in [Heads -> 0 .. MaxRuns] /\ status \in [Heads -> {"unset", "ok", "ioerr"}]
      /\ request \in [Heads -> {"ok", "ioerr", "bad"}]
      /\ \A j, k \in 0 .. NAll - 1 : j # k => Entry(j) # Entry(k)
  BY RingTypes DEF SysTypeOK, BlkTypeOK, RingInv
<1>1. CASE Quiet
  <2>1. /\ NComp' = NComp /\ NAll' = NAll /\ NCur' \in {NComp, NCur}
        /\ (NCur' = NCur /\ runs' = runs) \/ (ServeBad /\ NCur' = NComp)
        /\ \A k : Entry(k)' = Entry(k)
        /\ request' = request /\ status' = status
    BY <1>1, QuietView
  <2>2. CASE NCur' = NCur /\ runs' = runs
    <3>1. NoBad' <=> NoBad
      BY <2>1 DEF NoBad
    <3> QED BY <1>0, <2>1, <2>2, <3>1 DEF RunsInv
  <2>3. CASE ServeBad /\ NCur' = NComp
    <3>1. head_desc_idx = Entry(NCur) /\ NCur < NAll
      <4>1. running /\ cur # avail_idx
        BY <2>3 DEF ServeBad
      <4>2. NCur = Behind(last_used, cur)
        BY <4>1 DEF NCur
      <4>3. NCur # NAll
        BY <4>1, <4>2, RingTypes, BehindSame DEF NAll
      <4>4. (cur + 0) % N = Slot(Behind(last_used, cur) + 0)
        BY RingTypes, SlotOf
      <4>5. cur % N = Slot(NCur)
        BY <4>2, <4>4, RingTypes DEF Idx
      <4> QED BY <1>0, <4>3, <4>5 DEF head_desc_idx, Entry
    <3>2. request[Entry(NCur)] = "bad" /\ runs' \in {runs, RunOnce(Entry(NCur))}
      BY <2>3, <3>1 DEF ServeBad
    <3>3. ~NoBad'
      BY <1>0, <2>1, <3>1, <3>2 DEF NoBad
    <3>4. \A k \in 0 .. NComp - 1 : runs'[Entry(k)] = runs[Entry(k)]
      <4> SUFFICES ASSUME NEW k \in 0 .. NComp - 1 PROVE runs'[Entry(k)] = runs[Entry(k)]
        OBVIOUS
      <4>1. Entry(k) # Entry(NCur) /\ Entry(k) \in Heads
        BY <1>0, <3>1
      <4> QED BY <1>0, <3>2, <4>1 DEF RunOnce
    <3> QED BY <1>0, <2>1, <2>3, <3>3, <3>4 DEF RunsInv
  <2> QED BY <2>1, <2>2, <2>3
<1>2. ASSUME NEW h \in Heads, NEW kind \in Kinds, Submit(h, kind)
      PROVE  RunsInv'
  <2>1. /\ h \in free
        /\ request' = [request EXCEPT ![h] = kind]
        /\ status' = [status EXCEPT ![h] = "unset"]
        /\ runs' = [runs EXCEPT ![h] = 0]
    BY <1>2 DEF Submit
  <2>2. /\ NComp' = NComp /\ NAll' = NAll + 1 /\ NCur' = NComp /\ NCur = NComp
        /\ \A k \in 0 .. NAll : Entry(k)' = IF k = NAll THEN h ELSE Entry(k)
    BY <1>2, SubmitView
  <2>3. \A k \in 0 .. NAll - 1 :
           /\ Entry(k)' = Entry(k)
           /\ request'[Entry(k)'] = request[Entry(k)]
           /\ status'[Entry(k)'] = status[Entry(k)]
           /\ runs'[Entry(k)'] = runs[Entry(k)]
    <3> SUFFICES ASSUME NEW k \in 0 .. NAll - 1
                 PROVE  /\ Entry(k)' = Entry(k)
                        /\ request'[Entry(k)'] = request[Entry(k)]
                        /\ status'[Entry(k)'] = status[Entry(k)]
                        /\ runs'[Entry(k)'] = runs[Entry(k)]
      OBVIOUS
    <3>1. Entry(k)' = Entry(k) /\ Entry(k) # h /\ Entry(k) \in Heads
      BY <1>0, <2>1, <2>2 DEF RingInv
    <3> QED BY <1>0, <2>1, <3>1
  <2>5. \A k \in 0 .. NAll : k = NAll => runs'[Entry(k)'] = 0
    BY <1>0, <2>1, <2>2
  <2>6. NoBad' => NoBad
    BY <1>0, <2>2, <2>3 DEF NoBad
  <2> QED BY <1>0, <2>2, <2>3, <2>5, <2>6 DEF RunsInv
<1>3. CASE Serve /\ UNCHANGED drvVars
  <2>1. /\ NComp' = NComp /\ NAll' = NAll /\ NCur' = NCur + 1 /\ NCur < NAll
        /\ head_desc_idx = Entry(NCur)
        /\ \A k \in 0 .. NAll - 1 : Entry(k)' = Entry(k)
    BY <1>3, ServeView
  <2>2. /\ request' = request
        /\ request[Entry(NCur)] # "bad"
        /\ status' = [status EXCEPT ![Entry(NCur)] = request[Entry(NCur)]]
        /\ runs' = RunOnce(Entry(NCur))
    BY <1>3, <2>1 DEF Serve
  <2>3. \A k \in 0 .. NAll - 1 : k # NCur =>
           status'[Entry(k)'] = status[Entry(k)] /\ runs'[Entry(k)'] = runs[Entry(k)]
    <3> SUFFICES ASSUME NEW k \in 0 .. NAll - 1, k # NCur
                 PROVE  status'[Entry(k)'] = status[Entry(k)] /\ runs'[Entry(k)'] = runs[Entry(k)]
      OBVIOUS
    <3>1. Entry(k)' = Entry(k) /\ Entry(k) # Entry(NCur) /\ Entry(k) \in Heads
      BY <1>0, <2>1
    <3> QED BY <1>0, <2>2, <3>1 DEF RunOnce
  <2>4. \A k \in 0 .. NAll - 1 : k = NCur =>
           /\ status'[Entry(k)'] = request[Entry(k)]
           /\ runs[Entry(k)] = 0 => runs'[Entry(k)'] = 1
    <3> SUFFICES ASSUME NEW k \in 0 .. NAll - 1, k = NCur
                 PROVE  /\ status'[Entry(k)'] = request[Entry(k)]
                        /\ runs[Entry(k)] = 0 => runs'[Entry(k)'] = 1
      OBVIOUS
    <3>1. Entry(k)' = Entry(k) /\ Entry(k) = Entry(NCur) /\ Entry(k) \in Heads
      BY <1>0, <2>1
    <3> QED BY <1>0, <2>2, <3>1 DEF RunOnce, MaxRuns
  <2>5. NoBad' <=> NoBad
    BY <1>0, <2>1, <2>2 DEF NoBad
  <2>6. \A k \in 0 .. NAll - 1 : request'[Entry(k)'] = request[Entry(k)]
    BY <2>1, <2>2
  <2> QED BY <1>0, <2>1, <2>3, <2>4, <2>5, <2>6 DEF RunsInv
<1>4. CASE Publish /\ UNCHANGED drvVars
  <2>1. /\ NCur = NAll /\ NComp < NAll
        /\ NComp' = NAll /\ NAll' = NAll /\ NCur' = NAll
        /\ \A k \in 0 .. NAll - 1 : Entry(k)' = Entry(k)
    BY <1>4, PublishView
  <2>2. request' = request /\ status' = status /\ runs' = runs
    BY <1>4 DEF Publish
  <2>3. NoBad
    BY <1>0, <2>1 DEF RunsInv, NoBad
  <2> QED BY <1>0, <2>1, <2>2, <2>3 DEF RunsInv
<1>5. CASE Collect
  <2>1. /\ NComp > 0 /\ NAll >= NComp /\ NCur = NComp
        /\ NComp' = NComp - 1 /\ NAll' = NAll - 1 /\ NCur' = NComp - 1
        /\ \A k \in Nat : Entry(k)' = Entry(k + 1)
    BY <1>5, CollectView
  <2>2. request' = request /\ status' = status /\ runs' = runs
    BY <1>5 DEF Collect, blkVars, memVars
  <2>4. NoBad' => NoBad
    <3> SUFFICES ASSUME NoBad', NEW k \in NComp .. NAll - 1 PROVE request[Entry(k)] # "bad"
      BY DEF NoBad
    <3>1. k - 1 \in Nat /\ k - 1 \in NComp' .. NAll' - 1 /\ (k - 1) + 1 = k
      BY <1>0, <2>1
    <3>2. Entry(k - 1)' = Entry(k)
      BY <2>1, <3>1
    <3> QED BY <2>2, <3>1, <3>2 DEF NoBad
  <2>5. \A k \in 0 .. NComp' - 1 : runs'[Entry(k)'] = 1
    BY <1>0, <2>1, <2>2 DEF RunsInv
  <2>6. \A k \in 0 .. NCur' - 1 : status'[Entry(k)'] = request'[Entry(k)']
    BY <1>0, <2>1, <2>2 DEF RunsInv
  <2>7. NoBad => \A k \in NCur' .. NAll' - 1 : runs'[Entry(k)'] = 0
    BY <1>0, <2>1, <2>2 DEF RunsInv
  <2> QED BY <1>0, <2>1, <2>4, <2>5, <2>6, <2>7 DEF RunsInv
<1>6. CASE SetPfn \/ Reset
  <2>1. NComp' = 0 /\ NAll' = 0 /\ NCur' = 0
    BY <1>6, EmptyView
  <2> QED BY <2>1 DEF RunsInv
<1> QED BY <1>1, <1>2, <1>3, <1>4, <1>5, <1>6 DEF Next, Device, Handler, Quiet

\* The rings in every reachable state: every head is free or in exactly one
\* place of the rings, and what process_queue staged in the used ring is what
\* it served.
THEOREM RingInvariant == Spec => [](RingInv /\ RunsInv)
<1>1. Init => RingInv /\ RunsInv
  BY RingInit
<1>2. SysTypeOK /\ RingInv /\ RunsInv /\ [Next]_vars => RingInv' /\ RunsInv'
  BY RingStep, RunsStep
<1> QED BY <1>1, <1>2, BlkInvariant, PTL DEF Spec

\* Every completion that the driver sees is of a request executed exactly once
\* since it was offered, with its own status, for every queue size and across
\* the wrap-around of the indices.
THEOREM CompletedOnce == Spec => []ExactlyOnce
<1>1. SysTypeOK /\ RingInv /\ RunsInv => ExactlyOnce
  <2> SUFFICES ASSUME SysTypeOK, RingInv, RunsInv, NEW h \in Visible
               PROVE  runs[h] = 1 /\ status[h] = request[h]
    BY DEF ExactlyOnce
  <2>1. NComp \in Nat /\ NCur \in Nat /\ NComp <= NCur
    BY RingTypes DEF RingInv
  <2>2. PICK i \in 0 .. NComp - 1 : h = used_ring[(last_used + i) % N]
    BY DEF Visible, NComp
  <2>3. h = Entry(i)
    BY <2>1, <2>2 DEF Entry, Slot
  <2> QED BY <2>1, <2>2, <2>3 DEF RunsInv
<1> QED BY <1>1, BlkInvariant, RingInvariant, PTL

-----------------------------------------------------------------------------
(* The refinement.  The two parts of the rings, as the sequences of heads  *)
(* that the virtqueue of VirtioQueue holds.                                *)
Inflight  == RingPart(avail_ring, used_idx, avail_idx)
Completed == RingPart(used_ring, last_used, used_idx)

\* A part of a ring is a sequence.
LEMMA PartIsSeq ==
    ASSUME NEW ring \in [Heads -> Heads], NEW a \in Idx, NEW b \in Idx
    PROVE  /\ RingPart(ring, a, b) \in Seq(Heads)
           /\ Len(RingPart(ring, a, b)) = Behind(a, b)
           /\ \A i \in 1 .. Behind(a, b) : RingPart(ring, a, b)[i] = ring[(a + i - 1) % N]
<1>1. Behind(a, b) \in Nat /\ a \in Nat
  BY BehindIs, BlkAssumption DEF Idx
<1>2. \A i \in 1 .. Behind(a, b) : ring[(a + i - 1) % N] \in Heads
  <2> SUFFICES ASSUME NEW i \in 1 .. Behind(a, b) PROVE ring[(a + i - 1) % N] \in Heads
    OBVIOUS
  <2>1. a + i - 1 \in Nat
    BY <1>1
  <2> QED BY <2>1, IndexInRange
<1> DEFINE n == Behind(a, b)
           e(i) == ring[(a + i - 1) % N]
<1>3. RingPart(ring, a, b) = [i \in 1 .. n |-> e(i)]
  BY DEF RingPart
<1>4. \A i \in 1 .. n : e(i) \in Heads
  BY <1>2
<1>5. n \in Nat
  BY <1>1
<1> HIDE DEF n, e
<1>6. [i \in 1 .. n |-> e(i)] \in Seq(Heads) /\ Len([i \in 1 .. n |-> e(i)]) = n
  BY <1>4, <1>5
<1>7. \A i \in 1 .. n : [j \in 1 .. n |-> e(j)][i] = e(i)
  OBVIOUS
<1> QED BY <1>3, <1>6, <1>7 DEF n, e

\* The two parts in terms of positions.
Parts ==
    /\ NComp \in Nat /\ NAll \in Nat /\ NComp <= NAll
    /\ Inflight \in Seq(Heads) /\ Len(Inflight) = NAll - NComp
    /\ \A i \in 1 .. NAll - NComp : Inflight[i] = Entry(NComp + i - 1)
    /\ Completed \in Seq(Heads) /\ Len(Completed) = NComp
    /\ \A i \in 1 .. NComp : Completed[i] = Entry(i - 1)

LEMMA PartsAre == SysTypeOK /\ RingInv => Parts
<1> SUFFICES ASSUME SysTypeOK, RingInv PROVE Parts
  OBVIOUS
<1>0. /\ N \in Nat /\ NComp \in Nat /\ NAll \in Nat /\ NComp <= NAll
      /\ last_used \in Idx /\ used_idx \in Idx /\ avail_idx \in Idx
      /\ last_used \in Nat /\ used_idx \in Nat /\ W \in Nat
      /\ avail_ring \in [Heads -> Heads] /\ used_ring \in [Heads -> Heads]
  BY RingTypes DEF RingInv, SysTypeOK, BlkTypeOK, Idx
<1>1. Behind(used_idx, avail_idx) = NAll - NComp
  <2>1. /\ NComp = IF last_used <= used_idx THEN used_idx - last_used ELSE used_idx + W - last_used
        /\ NAll = IF last_used <= avail_idx THEN avail_idx - last_used ELSE avail_idx + W - last_used
        /\ Behind(used_idx, avail_idx) = IF used_idx <= avail_idx THEN avail_idx - used_idx
                                                                ELSE avail_idx + W - used_idx
    BY <1>0, BehindIs DEF NComp, NAll
  <2> QED BY <1>0, <2>1 DEF Idx
<1>2. ASSUME NEW i \in 1 .. NAll - NComp PROVE Inflight[i] = Entry(NComp + i - 1)
  <2>0. \A j \in 1 .. Behind(used_idx, avail_idx) : Inflight[j] = avail_ring[(used_idx + j - 1) % N]
    BY <1>0, PartIsSeq DEF Inflight
  <2>1. Inflight[i] = avail_ring[(used_idx + i - 1) % N]
    BY <1>1, <2>0
  <2>2. (used_idx + (i - 1)) % N = Slot(NComp + (i - 1))
    BY <1>0, SlotOf DEF NComp
  <2>3. NComp + i - 1 = NComp + (i - 1) /\ used_idx + i - 1 = used_idx + (i - 1)
        /\ ~(NComp + i - 1 < NComp)
    BY <1>0
  <2> QED BY <2>1, <2>2, <2>3 DEF Entry
<1>3. ASSUME NEW i \in 1 .. NComp PROVE Completed[i] = Entry(i - 1)
  <2>1. Completed[i] = used_ring[(last_used + i - 1) % N]
    BY <1>0, PartIsSeq DEF Completed, NComp
  <2>2. last_used + i - 1 = last_used + (i - 1) /\ i - 1 < NComp
    BY <1>0
  <2> QED BY <2>1, <2>2 DEF Entry, Slot
<1>4. Inflight \in Seq(Heads) /\ Len(Inflight) = NAll - NComp
  BY <1>0, <1>1, PartIsSeq DEF Inflight
<1>5. Completed \in Seq(Heads) /\ Len(Completed) = NComp
  BY <1>0, PartIsSeq DEF Completed, NComp
<1> QED BY <1>0, <1>2, <1>3, <1>4, <1>5 DEF Parts

\* Every step is a step of the virtqueue, or leaves it alone.
LEMMA QueueStep ==
    ASSUME SysTypeOK, RingInv, Parts, Parts', [Next]_vars
    PROVE  Queue!QNext \/ UNCHANGED Queue!qvars
<1> DEFINE Same(s, t) == Len(s) = Len(t) /\ \A i \in 1 .. Len(s) : s[i] = t[i]
<1>0. \A s, t \in Seq(Heads) : Same(s, t) => s = t
  BY SeqEqual
<1>1. \A s \in Seq(Heads) : Len(s) = 0 => s = << >>
  BY EmptySeq
<1> HIDE DEF Same
<1>2. CASE Quiet
  <2>1. /\ NComp' = NComp /\ NAll' = NAll /\ free' = free
        /\ \A k : Entry(k)' = Entry(k)
    BY <1>2, QuietView
  <2>2. Same(Inflight, Inflight') /\ Same(Completed, Completed')
    BY <2>1 DEF Same, Parts
  <2>3. Inflight' = Inflight /\ Completed' = Completed
    BY <1>0, <2>2 DEF Parts
  <2> QED BY <2>1, <2>3 DEF Queue!qvars, Inflight, Completed
<1>3. ASSUME NEW h \in Heads, NEW kind \in Kinds, Submit(h, kind)
      PROVE  Queue!Offer(h)
  <2>1. h \in free /\ free' = free \ {h}
    BY <1>3 DEF Submit
  <2>2. /\ NComp' = NComp /\ NAll' = NAll + 1
        /\ \A k \in 0 .. NAll : Entry(k)' = IF k = NAll THEN h ELSE Entry(k)
    BY <1>3, SubmitView
  <2>3. Same(Completed, Completed')
    BY <2>2 DEF Same, Parts
  <2> DEFINE app == Append(Inflight, h)
  <2>4. /\ app \in Seq(Heads) /\ Len(app) = NAll - NComp + 1
        /\ \A i \in 1 .. NAll - NComp : app[i] = Inflight[i]
        /\ app[NAll - NComp + 1] = h
    BY AppendProperties DEF Parts
  <2> HIDE DEF app
  <2>5. Same(Inflight', app)
    <3>1. ASSUME NEW i \in 1 .. NAll' - NComp' PROVE Inflight'[i] = app[i]
      <4>1. NComp + i - 1 \in 0 .. NAll
        BY <2>2 DEF Parts
      <4>2. Inflight'[i] = Entry(NComp + i - 1)'
        BY <2>2 DEF Parts
      <4>3. Entry(NComp + i - 1)' = IF NComp + i - 1 = NAll THEN h ELSE Entry(NComp + i - 1)
        BY <2>2, <4>1
      <4>4. CASE i = NAll - NComp + 1
        BY <2>2, <2>4, <4>2, <4>3, <4>4 DEF Parts
      <4>5. CASE i # NAll - NComp + 1
        BY <2>2, <2>4, <4>2, <4>3, <4>5 DEF Parts
      <4> QED BY <4>4, <4>5
    <3> QED BY <2>2, <2>4, <3>1 DEF Same, Parts
  <2>6. Inflight' = app /\ Completed' = Completed
    BY <1>0, <2>3, <2>4, <2>5 DEF Parts
  <2> QED BY <2>1, <2>6 DEF Queue!Offer, Inflight, Completed, app
<1>4. CASE Serve /\ UNCHANGED drvVars
  <2>1. /\ NComp' = NComp /\ NAll' = NAll
        /\ \A k \in 0 .. NAll - 1 : Entry(k)' = Entry(k)
    BY <1>4, ServeView
  <2>2. free' = free
    BY <1>4 DEF drvVars
  <2>3. Same(Inflight, Inflight')
    BY <2>1 DEF Same, Parts
  <2>4. Same(Completed, Completed')
    BY <2>1 DEF Same, Parts
  <2>5. Inflight' = Inflight /\ Completed' = Completed
    BY <1>0, <2>3, <2>4 DEF Parts
  <2> QED BY <2>2, <2>5 DEF Queue!qvars, Inflight, Completed
<1>5. CASE Publish /\ UNCHANGED drvVars
  <2>1. /\ NComp < NAll /\ NComp' = NAll /\ NAll' = NAll
        /\ \A k \in 0 .. NAll - 1 : Entry(k)' = Entry(k)
    BY <1>5, PublishView
  <2>2. free' = free
    BY <1>5 DEF drvVars
  <2>3. Inflight' = << >> /\ Inflight # << >>
    BY <1>1, <2>1 DEF Parts
  <2> DEFINE con == Completed \o Inflight
  <2>4. /\ con \in Seq(Heads) /\ Len(con) = NAll
        /\ \A i \in 1 .. NAll : con[i] = IF i <= NComp THEN Completed[i] ELSE Inflight[i - NComp]
    <3>1. con \in Seq(Heads) /\ Len(con) = Len(Completed) + Len(Inflight)
      BY ConcatProperties DEF Parts
    <3>2. \A i \in 1 .. Len(Completed) + Len(Inflight) :
             con[i] = IF i <= Len(Completed) THEN Completed[i] ELSE Inflight[i - Len(Completed)]
      BY ConcatProperties DEF Parts
    <3>3. Len(Completed) = NComp /\ Len(Completed) + Len(Inflight) = NAll
      BY DEF Parts
    <3> HIDE DEF con
    <3> QED BY <3>1, <3>2, <3>3
  <2> HIDE DEF con
  <2>5. Same(Completed', con)
    <3>1. ASSUME NEW i \in 1 .. NAll PROVE Completed'[i] = con[i]
      <4>1. Completed'[i] = Entry(i - 1)
        BY <2>1 DEF Parts
      <4>2. CASE i <= NComp
        BY <2>4, <4>1, <4>2 DEF Parts
      <4>3. CASE ~(i <= NComp)
        <5>1. i - NComp \in 1 .. NAll - NComp /\ NComp + (i - NComp) - 1 = i - 1
          BY <4>3 DEF Parts
        <5>2. Inflight[i - NComp] = Entry(NComp + (i - NComp) - 1)
          BY <5>1 DEF Parts
        <5> QED BY <2>4, <4>1, <4>3, <5>1, <5>2
      <4> QED BY <4>2, <4>3
    <3> QED BY <2>1, <2>4, <3>1 DEF Same, Parts
  <2>6. Completed' = con
    BY <1>0, <2>4, <2>5 DEF Parts
  <2>7. Queue!CompleteAll
    BY <2>2, <2>3, <2>6 DEF Queue!CompleteAll, Inflight, Completed, con
  <2> QED BY <2>7 DEF Queue!QNext
<1>6. CASE Collect
  <2>1. /\ NComp > 0 /\ NAll >= NComp
        /\ NComp' = NComp - 1 /\ NAll' = NAll - 1
        /\ \A k \in Nat : Entry(k)' = Entry(k + 1)
        /\ free' = free \cup {Entry(0)}
    BY <1>6, CollectView
  <2>2. Same(Inflight, Inflight')
    <3>1. NAll' - NComp' = NAll - NComp
      BY <2>1 DEF Parts
    <3>2. ASSUME NEW i \in 1 .. NAll - NComp PROVE Inflight[i] = Inflight'[i]
      <4>1. Inflight'[i] = Entry(NComp + i - 1)'
        BY <3>1 DEF Parts
      <4>2. NComp' + i - 1 \in Nat /\ (NComp' + i - 1) + 1 = NComp + i - 1
        BY <2>1 DEF Parts
      <4>3. Inflight[i] = Entry(NComp + i - 1)
        BY DEF Parts
      <4> QED BY <2>1, <4>1, <4>2, <4>3
    <3>3. Len(Inflight) = NAll - NComp /\ Len(Inflight') = NAll - NComp
      BY <3>1 DEF Parts
    <3> QED BY <3>2, <3>3 DEF Same
  <2>3. Completed # << >> /\ Completed \in Seq(Heads)
    BY <2>1, EmptySeq DEF Parts
  <2> DEFINE rest == Tail(Completed)
  <2>4. /\ rest \in Seq(Heads) /\ Len(rest) = NComp - 1
        /\ \A i \in 1 .. NComp - 1 : rest[i] = Completed[i + 1]
    <3>1. /\ rest \in Seq(Heads) /\ Len(rest) = Len(Completed) - 1
          /\ \A i \in 1 .. Len(rest) : rest[i] = Completed[i + 1]
      BY <2>3, HeadTailProperties
    <3>2. Len(Completed) = NComp
      BY DEF Parts
    <3> HIDE DEF rest
    <3> QED BY <3>1, <3>2
  <2>5. Head(Completed) = Entry(0)
    <3>1. Head(Completed) = Completed[1]
      BY <2>3
    <3>2. Completed[1] = Entry(1 - 1) /\ 1 - 1 = 0
      BY <2>1 DEF Parts
    <3> QED BY <3>1, <3>2
  <2> HIDE DEF rest
  <2>6. Same(Completed', rest)
    <3>1. ASSUME NEW i \in 1 .. NComp - 1 PROVE Completed'[i] = rest[i]
      <4>1. Completed'[i] = Entry(i - 1)' /\ i - 1 \in Nat /\ (i - 1) + 1 = i /\ (i + 1) - 1 = i
        BY <2>1 DEF Parts
      <4>2. Completed[i + 1] = Entry((i + 1) - 1)
        BY DEF Parts
      <4> QED BY <2>1, <2>4, <4>1, <4>2
    <3> QED BY <2>1, <2>4, <3>1 DEF Same, Parts
  <2>7. Inflight' = Inflight /\ Completed' = rest
    BY <1>0, <2>2, <2>4, <2>6 DEF Parts
  <2>8. Queue!Collect
    BY <2>1, <2>3, <2>5, <2>7 DEF Queue!Collect, Inflight, Completed, rest
  <2> QED BY <2>8 DEF Queue!QNext
<1>7. CASE SetPfn \/ Reset
  <2>1. NComp' = 0 /\ NAll' = 0 /\ free' = Heads
    BY <1>7, EmptyView
  <2>2. Inflight' = << >> /\ Completed' = << >>
    BY <1>1, <2>1 DEF Parts
  <2>3. Queue!Cancel
    BY <2>1, <2>2 DEF Queue!Cancel, Inflight, Completed
  <2> QED BY <2>3 DEF Queue!QNext
<1>8. CASE \E h \in Heads, kind \in Kinds : Submit(h, kind)
  BY <1>3, <1>8 DEF Queue!QNext
<1> QED BY <1>2, <1>4, <1>5, <1>6, <1>7, <1>8 DEF Next, Device, Handler, Quiet

\* The device with its rings implements the virtqueue: requests are completed
\* in order, each once, and collected in that order, for every queue size.
THEOREM BlkImplementsQueue == Spec => ImplementsQueue
<1>1. Init => Queue!QInit
  <2> SUFFICES ASSUME Init PROVE Queue!QInit
    OBVIOUS
  <2>1. SysTypeOK /\ RingInv
    BY InitInv, RingInit
  <2>2. Parts
    BY <2>1, PartsAre
  <2>3. free = Heads /\ used_idx = 0 /\ avail_idx = 0 /\ last_used = 0
    BY DEF Init, BlkInit
  <2>4. NComp = 0 /\ NAll = 0
    BY <2>1, <2>3, RingTypes, BehindSteps DEF NComp, NAll
  <2>5. Inflight = << >> /\ Completed = << >>
    BY <2>2, <2>4, EmptySeq DEF Parts
  <2> QED BY <2>3, <2>5 DEF Queue!QInit, Inflight, Completed
<1>2. SysTypeOK /\ RingInv /\ Parts /\ Parts' /\ [Next]_vars => [Queue!QNext]_(Queue!qvars)
  BY QueueStep
<1> QED BY <1>1, <1>2, PartsAre, BlkInvariant, RingInvariant, PTL
           DEF Spec, ImplementsQueue, Queue!QSpec
=============================================================================
