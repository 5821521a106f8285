--------------------------- MODULE UartIrqProofs ---------------------------
(***************************************************************************)
(* Proofs about PlicSpec, UartIrq and UartDriver, for every number of IRQs *)
(* and contexts (for the UART: the two contexts of one hart), every        *)
(* register width, every number of priority levels, every length of the    *)
(* input buffer and any number of characters typed and sent.               *)
(***************************************************************************)
EXTENDS UartDriver, PlicSpec, NatLemmas

-----------------------------------------------------------------------------
(* The PLIC.  Its claim scan is a recursive function; what it computes is  *)
(* proved by the least counterexample: a set of rounds in which a claim    *)
(* fails has a first element, and the round before it refutes it.          *)

NoneFound == [irq |-> 0, prio |-> 0]
Found == [irq : IrqIds, prio : PrioVals]

\* f holds the results of the rounds of the scan up to round n.
Rounds(c, n, f) ==
    /\ f \in [0 .. n -> Found]
    /\ \A i \in 0 .. n : f[i] = Keep(c, IF i = 0 THEN NoneFound ELSE f[i - 1], i)

\* One round keeps the type of the best IRQ.
LEMMA KeepType ==
  ASSUME PlicTypeOK, NEW c \in Contexts, NEW best \in Found, NEW n \in IrqIds
  PROVE  Keep(c, best, n) \in Found
  BY DEF PlicTypeOK, Found, Keep

\* The rounds exist.
LEMMA RoundsExist ==
  ASSUME PlicTypeOK, NEW c \in Contexts
  PROVE  \A n \in IrqIds : \E f : Rounds(c, n, f)
<1> DEFINE Bad == {n \in IrqIds : ~ \E f : Rounds(c, n, f)}
<1> SUFFICES ASSUME Bad # {} PROVE FALSE
  OBVIOUS
<1>1. IrqIds \subseteq Nat /\ NoneFound \in Found
  BY PlicAssumption DEF IrqIds, NoneFound, Found, PrioVals
<1>2. PICK n \in Bad : \A m \in Bad : n <= m
  BY <1>1, LeastNat
<1>3. n \in IrqIds /\ n \in Nat
  BY <1>1
<1>4. CASE n = 0
  <2> DEFINE f == [i \in 0 .. 0 |-> Keep(c, NoneFound, 0)]
  <2>1. Keep(c, NoneFound, 0) \in Found
    BY <1>1, <1>3, <1>4, KeepType
  <2>2. Rounds(c, 0, f)
    BY <2>1 DEF Rounds
  <2> QED BY <1>4, <2>2
<1>5. CASE n # 0
  <2>1. n - 1 \in IrqIds /\ n - 1 \notin Bad
    BY <1>1, <1>2, <1>3, <1>5, PlicAssumption DEF IrqIds
  <2>2. PICK g : Rounds(c, n - 1, g)
    BY <2>1
  <2> DEFINE new == Keep(c, g[n - 1], n)
             f == [i \in 0 .. n |-> IF i = n THEN new ELSE g[i]]
  <2>3. g \in [0 .. n - 1 -> Found] /\ g[n - 1] \in Found
    BY <1>3, <1>5, <2>2 DEF Rounds
  <2>4. new \in Found
    BY <1>3, <2>3, KeepType
  <2> HIDE DEF new
  <2>5. f \in [0 .. n -> Found]
    BY <1>3, <1>5, <2>3, <2>4
  <2>6. ASSUME NEW i \in 0 .. n
        PROVE  f[i] = Keep(c, IF i = 0 THEN NoneFound ELSE f[i - 1], i)
    <3>1. CASE i = n
      BY <1>3, <1>5, <3>1 DEF new
    <3>2. CASE i # n
      <4>1. i \in 0 .. n - 1 /\ f[i] = g[i] /\ (i # 0 => f[i - 1] = g[i - 1])
        BY <1>3, <3>2
      <4> QED BY <2>2, <4>1 DEF Rounds
    <3> QED BY <3>1, <3>2
  <2>7. Rounds(c, n, f)
    BY <2>5, <2>6 DEF Rounds
  <2> QED BY <2>7
<1> QED BY <1>4, <1>5

\* The recursive definition of the scan defines what it says.
LEMMA ScanRounds ==
  ASSUME PlicTypeOK, NEW c \in Contexts
  PROVE  \A n \in IrqIds : Scan(c)[n] = Keep(c, IF n = 0 THEN NoneFound ELSE Scan(c)[n - 1], n)
<1> DEFINE P(f) == f = [n \in IrqIds |-> Keep(c, IF n = 0 THEN NoneFound ELSE f[n - 1], n)]
<1>1. Scan(c) = CHOOSE f : P(f)
  BY DEF Scan, NoneFound
<1>2. MaxIrqs - 1 \in IrqIds /\ IrqIds = 0 .. MaxIrqs - 1
  BY PlicAssumption DEF IrqIds
<1>3. PICK f : Rounds(c, MaxIrqs - 1, f)
  BY <1>2, RoundsExist
<1>4. P(f)
  BY <1>2, <1>3 DEF Rounds
<1>5. P(Scan(c))
  BY <1>1, <1>4
<1>6. Scan(c) = [n \in IrqIds |-> Keep(c, IF n = 0 THEN NoneFound ELSE Scan(c)[n - 1], n)]
  BY <1>5
<1> HIDE DEF P
<1> QED BY <1>6, Zenon

\* b is the most urgent candidate up to IRQ n.
BestUpTo(c, n, b) ==
    IF \A m \in Candidates(c) : m > n THEN b = NoneFound
    ELSE /\ b.irq \in Candidates(c) /\ b.irq <= n /\ b.prio = priority[b.irq]
         /\ \A m \in Candidates(c) : m <= n => Before(b.irq, m)

\* Candidates are real IRQs with a priority above 0.
LEMMA CandidateType ==
  ASSUME PlicTypeOK, NEW c \in Contexts
  PROVE  \A n \in Candidates(c) :
            n \in Nat /\ n > 0 /\ n < MaxIrqs /\ n \in IrqIds /\ priority[n] \in Nat /\ priority[n] > 0
  BY PlicAssumption DEF PlicTypeOK, Candidates, IrqIds, PrioVals

\* A round extends the best by one IRQ.
LEMMA KeepBest ==
  ASSUME PlicTypeOK, NEW c \in Contexts, NEW n \in IrqIds, n # 0, NEW b, BestUpTo(c, n - 1, b)
  PROVE  BestUpTo(c, n, Keep(c, b, n))
<1>1. n \in Nat
  BY PlicAssumption DEF IrqIds
<1>2. CASE \A m \in Candidates(c) : m > n - 1
  <2>1. b = NoneFound
    BY <1>2 DEF BestUpTo
  <2>2. CASE n \in Candidates(c)
    <3>1. Keep(c, b, n) = [irq |-> n, prio |-> priority[n]]
      BY <2>1, <2>2, CandidateType DEF Keep, NoneFound
    <3> QED BY <1>1, <1>2, <2>2, <3>1, CandidateType DEF BestUpTo, Before
  <2>3. CASE n \notin Candidates(c)
    <3>1. Keep(c, b, n) = NoneFound
      BY <2>1, <2>3 DEF Keep
    <3>2. \A m \in Candidates(c) : m > n
      BY <1>1, <1>2, <2>3, CandidateType
    <3> QED BY <3>1, <3>2 DEF BestUpTo
  <2> QED BY <2>2, <2>3
<1>3. CASE ~ \A m \in Candidates(c) : m > n - 1
  <2>1. /\ b.irq \in Candidates(c) /\ b.irq <= n - 1 /\ b.prio = priority[b.irq]
        /\ \A m \in Candidates(c) : m <= n - 1 => Before(b.irq, m)
    BY <1>3 DEF BestUpTo
  <2>2. ~ \A m \in Candidates(c) : m > n
    BY <1>1, <2>1, CandidateType
  <2>3. \A m \in Candidates(c) : m <= n => m <= n - 1 \/ m = n
    BY <1>1, CandidateType
  <2>4. CASE n \in Candidates(c) /\ priority[n] > b.prio
    <3>1. Keep(c, b, n) = [irq |-> n, prio |-> priority[n]]
      BY <2>4 DEF Keep
    <3>2. ASSUME NEW m \in Candidates(c), m <= n PROVE Before(n, m)
      <4>1. CASE m = n
        BY <1>1, <4>1 DEF Before
      <4>2. CASE m <= n - 1
        <5>1. Before(b.irq, m)
          BY <2>1, <4>2
        <5>2. priority[b.irq] >= priority[m] /\ priority[n] > priority[b.irq]
          BY <2>1, <2>4, <5>1, CandidateType DEF Before
        <5> QED BY <2>1, <2>4, <5>2, CandidateType DEF Before
      <4> QED BY <2>3, <3>2, <4>1, <4>2
    <3> QED BY <1>1, <2>2, <2>4, <3>1, <3>2 DEF BestUpTo
  <2>5. CASE ~(n \in Candidates(c) /\ priority[n] > b.prio)
    <3>1. Keep(c, b, n) = b
      BY <2>5 DEF Keep
    <3>2. ASSUME NEW m \in Candidates(c), m <= n PROVE Before(b.irq, m)
      BY <1>1, <2>1, <2>3, <2>5, <3>2, CandidateType DEF Before
    <3>3. b.irq <= n
      BY <1>1, <2>1, CandidateType
    <3> QED BY <2>1, <2>2, <3>1, <3>2, <3>3 DEF BestUpTo
  <2> QED BY <2>4, <2>5
<1> QED BY <1>2, <1>3

\* After round n the scan holds the most urgent candidate up to IRQ n.
LEMMA ScanBest ==
  ASSUME PlicTypeOK, NEW c \in Contexts
  PROVE  \A n \in IrqIds : BestUpTo(c, n, Scan(c)[n])
<1> DEFINE Bad == {n \in IrqIds : ~ BestUpTo(c, n, Scan(c)[n])}
<1> SUFFICES ASSUME Bad # {} PROVE FALSE
  OBVIOUS
<1>1. IrqIds \subseteq Nat
  BY PlicAssumption DEF IrqIds
<1>2. PICK n \in Bad : \A m \in Bad : n <= m
  BY <1>1, LeastNat
<1>3. n \in IrqIds /\ n \in Nat
  BY <1>1
<1>4. CASE n = 0
  <2>1. \A m \in Candidates(c) : m > n
    BY <1>4, CandidateType
  <2>2. Scan(c)[n] = Keep(c, NoneFound, n)
    BY <1>3, <1>4, ScanRounds
  <2>3. Scan(c)[n] = NoneFound
    BY <1>4, <2>1, <2>2 DEF Keep, Candidates
  <2> QED BY <2>1, <2>3 DEF BestUpTo
<1>5. CASE n # 0
  <2>1. n - 1 \in IrqIds /\ n - 1 \notin Bad
    BY <1>1, <1>2, <1>3, <1>5, PlicAssumption DEF IrqIds
  <2>2. BestUpTo(c, n - 1, Scan(c)[n - 1])
    BY <2>1
  <2>3. Scan(c)[n] = Keep(c, Scan(c)[n - 1], n)
    BY <1>3, <1>5, ScanRounds
  <2>4. BestUpTo(c, n, Scan(c)[n])
    BY <1>3, <1>5, <2>2, <2>3, KeepBest
  <2> QED BY <2>4
<1> QED BY <1>4, <1>5

\* claim_interrupt finds a candidate that comes before all others, and 0 only
\* when there is none.
LEMMA ClaimBest ==
  ASSUME PlicTypeOK, NEW c \in Contexts
  PROVE  /\ Candidates(c) = {} => ScanClaim(c) = 0
         /\ Candidates(c) # {} => /\ ScanClaim(c) \in Candidates(c)
                                  /\ \A m \in Candidates(c) : Before(ScanClaim(c), m)
<1> DEFINE b == Scan(c)[MaxIrqs - 1]
<1>1. MaxIrqs - 1 \in IrqIds
  BY PlicAssumption DEF IrqIds
<1>2. BestUpTo(c, MaxIrqs - 1, b) /\ ScanClaim(c) = b.irq
  BY <1>1, ScanBest DEF ScanClaim
<1>3. \A m \in Candidates(c) : m <= MaxIrqs - 1 /\ ~(m > MaxIrqs - 1)
  BY CandidateType, PlicAssumption
<1> HIDE DEF b
<1>4. Candidates(c) = {} => ScanClaim(c) = 0
  BY <1>2 DEF BestUpTo, NoneFound
<1>5. Candidates(c) # {} => /\ ScanClaim(c) \in Candidates(c)
                            /\ \A m \in Candidates(c) : Before(ScanClaim(c), m)
  BY <1>2, <1>3 DEF BestUpTo
<1> QED BY <1>4, <1>5

\* The same for every context, as a fact about all states.
LEMMA ClaimFinds ==
  PlicTypeOK => \A c \in Contexts : ScanClaim(c) \in Candidates(c) \cup {0}
<1> SUFFICES ASSUME PlicTypeOK, NEW c \in Contexts PROVE ScanClaim(c) \in Candidates(c) \cup {0}
  OBVIOUS
<1> QED BY ClaimBest

\* The scan returns what the PLIC promises.
LEMMA ClaimIsMostUrgent ==
  ASSUME PlicTypeOK, NEW c \in Contexts
  PROVE  ScanClaim(c) = MostUrgent(c)
<1>1. CASE Candidates(c) = {}
  BY <1>1, ClaimBest DEF MostUrgent
<1>2. CASE Candidates(c) # {}
  <2> DEFINE Q(n) == \A m \in Candidates(c) : Before(n, m)
             u == CHOOSE n \in Candidates(c) : Q(n)
  <2>1. ScanClaim(c) \in Candidates(c) /\ Q(ScanClaim(c))
    BY <1>2, ClaimBest
  <2>2. u \in Candidates(c) /\ Q(u)
    BY <2>1
  <2>3. MostUrgent(c) = u
    BY <1>2 DEF MostUrgent
  <2>4. Before(u, ScanClaim(c)) /\ Before(ScanClaim(c), u)
    BY <2>1, <2>2
  <2> HIDE DEF u, Q
  <2>5. u = ScanClaim(c)
    BY <2>1, <2>2, <2>4, CandidateType DEF Before
  <2> QED BY <2>3, <2>5
<1> QED BY <1>1, <1>2

-----------------------------------------------------------------------------
\* Register stores keep the register file well formed, whatever the value.
LEMMA WriteType ==
  ASSUME PlicTypeOK, NEW values \in SUBSET Nat, PlicWrite(values)
  PROVE  PlicTypeOK'
<1> USE PlicAssumption DEF PlicTypeOK
<1>1. \A v \in Nat : v % PrioLevels \in PrioVals
  BY DEF PrioVals
<1>2. ASSUME NEW irq \in IrqIds, NEW v \in values, WritePriority(irq, v) PROVE PlicTypeOK'
  BY <1>1, <1>2 DEF WritePriority
<1>3. ASSUME NEW w \in Words, NEW ones \in SUBSET WordIrqs(w), WritePending(w, ones) PROVE PlicTypeOK'
  BY <1>3 DEF WritePending
<1>4. ASSUME NEW c \in Contexts, NEW w \in Words, NEW ones \in SUBSET WordIrqs(w),
             WriteEnable(c, w, ones)
      PROVE  PlicTypeOK'
  BY <1>4 DEF WriteEnable, WordIrqs
<1>5. ASSUME NEW c \in Contexts, NEW v \in values, WriteThreshold(c, v) PROVE PlicTypeOK'
  BY <1>1, <1>5 DEF WriteThreshold
<1>6. ASSUME NEW c \in Contexts, NEW irq \in IrqIds, complete_interrupt(c, irq) PROVE PlicTypeOK'
  BY <1>6 DEF complete_interrupt, plicVars
<1> QED BY <1>2, <1>3, <1>4, <1>5, <1>6 DEF PlicWrite

\* The calls of the devices and claims keep it well formed too.
LEMMA CallType ==
  ASSUME PlicTypeOK
  PROVE  /\ \A irq \in IrqIds : set_pending(irq) \/ clear_pending(irq) => PlicTypeOK'
         /\ \A c \in Contexts : claim_interrupt(c) => PlicTypeOK'
  BY DEF PlicTypeOK, set_pending, clear_pending, claim_interrupt, WithPending, WithoutPending

\* The registers of the PLIC keep their ranges.
THEOREM PlicTypeCorrect == PlicSystem => []PlicTypeOK
<1>1. PlicInit => PlicTypeOK
  BY PlicAssumption DEF PlicInit, PlicTypeOK, PrioVals
<1>2. PlicTypeOK /\ [PlicNext]_plicVars => PlicTypeOK'
  <2> SUFFICES ASSUME PlicTypeOK, [PlicNext]_plicVars PROVE PlicTypeOK'
    OBVIOUS
  <2>1. CASE UNCHANGED plicVars
    BY <2>1 DEF plicVars, PlicTypeOK
  <2>2. CASE PlicWrite(WriteValues)
    BY <2>2, WriteType, WriteValuesAssumption
  <2> QED BY <2>1, <2>2, CallType DEF PlicNext
<1> QED BY <1>1, <1>2, PTL DEF PlicSystem

\* In every reachable register state the claim scan returns the most urgent
\* candidate, finds one exactly when has_pending_interrupt reports one, and
\* finds none above the largest threshold.
THEOREM ScanIsBest == PlicSystem => []ScanFindsBest
<1>1. ASSUME PlicTypeOK, NEW c \in Contexts
      PROVE  /\ ScanClaim(c) = MostUrgent(c)
             /\ (ScanClaim(c) # 0) <=> has_pending_interrupt(c)
             /\ priority_threshold[c] = PrioLevels - 1 => ScanClaim(c) = 0
  <2>1. ScanClaim(c) = MostUrgent(c)
    BY <1>1, ClaimIsMostUrgent
  <2>2. (ScanClaim(c) # 0) <=> has_pending_interrupt(c)
    BY <1>1, ClaimBest DEF has_pending_interrupt, Candidates
  <2>3. ASSUME priority_threshold[c] = PrioLevels - 1 PROVE Candidates(c) = {}
    BY <1>1, <2>3, PlicAssumption DEF Candidates, PlicTypeOK, PrioVals
  <2> QED BY <1>1, <2>1, <2>2, <2>3, ClaimBest
<1>2. PlicTypeOK => ScanFindsBest
  BY <1>1 DEF ScanFindsBest
<1> QED BY <1>2, PlicTypeCorrect, PTL

\* A claim takes away exactly the IRQ it returns, from both contexts.
THEOREM ClaimIsExclusive == PlicSystem => ClaimTakesOne
<1> DEFINE A == \A c \in Contexts :
                  claim_interrupt(c) /\ has_pending_interrupt(c) =>
                      /\ pending = pending' \cup {MostUrgent(c)}
                      /\ \A d \in Contexts : ScanClaim(d)' # MostUrgent(c)
<1>0. (PlicTypeOK => \A c \in Contexts : ScanClaim(c) \in Candidates(c) \cup {0})'
  BY ClaimFinds, PTL
<1>1. PlicTypeOK /\ PlicTypeOK' => A
  <2> SUFFICES ASSUME PlicTypeOK, PlicTypeOK', NEW c \in Contexts,
                      claim_interrupt(c), has_pending_interrupt(c)
               PROVE  /\ pending = pending' \cup {MostUrgent(c)}
                      /\ \A d \in Contexts : ScanClaim(d)' # MostUrgent(c)
    OBVIOUS
  <2>1. ScanClaim(c) = MostUrgent(c) /\ ScanClaim(c) \in Candidates(c)
    BY ClaimIsMostUrgent, ClaimBest DEF has_pending_interrupt
  <2>2. MostUrgent(c) \in pending /\ MostUrgent(c) > 0
    BY <2>1, CandidateType DEF Candidates
  <2>3. pending' = pending \ {MostUrgent(c)}
    BY <2>1, <2>2 DEF claim_interrupt
  <2>4. ASSUME NEW d \in Contexts PROVE ScanClaim(d)' # MostUrgent(c)
    <3>1. ScanClaim(d)' \in Candidates(d)' \cup {0}
      BY <1>0
    <3>2. Candidates(d)' \subseteq pending'
      BY DEF Candidates
    <3> QED BY <2>2, <2>3, <3>1, <3>2
  <2> QED BY <2>2, <2>3, <2>4
<1>2. PlicTypeOK /\ PlicTypeOK' => [A]_plicVars
  BY <1>1
<1> QED BY <1>2, PlicTypeCorrect, PTL DEF ClaimTakesOne

-----------------------------------------------------------------------------
(* The UART. *)

Synced == cpu \in {"checkSync", "mmioSync"}

\* The input thread owns the buffer only with a character in it.
LockInv == input = "raise" => input_len > 0

\* Between the sample and the update of the PLIC the sample may miss a newly
\* typed character but nothing else, and never invents an interrupt.
LineInv ==
    Synced => /\ line => uart_has_pending_interrupt
              /\ TxActive => line

\* What check_interrupt has been told so far is still pending.
MipInv ==
    /\ cpu \in {"queryS", "exec"} /\ meip => has_pending_interrupt(0)
    /\ cpu = "exec" /\ seip => has_pending_interrupt(1)

UartInv ==
    /\ UartTypeOK
    /\ LockInv
    /\ LineInv
    /\ SpuriousOnlyWithInput
    /\ ThreNeverMissed
    /\ MipInv

-----------------------------------------------------------------------------

\* The register file of the PLIC stays well formed under every guest store.
LEMMA PlicWriteType ==
    ASSUME UartTypeOK, PlicWrite(PrioVals)
    PROVE  PlicTypeOK'
<1>1. PrioVals \in SUBSET Nat /\ PlicTypeOK
  BY PlicAssumption DEF PrioVals, UartTypeOK
<1> QED BY <1>1, WriteType

\* The calls that change the pending bits keep the register file well formed;
\* only clear_pending(UART_IRQ) and a claim take anything away.
LEMMA PendingCalls ==
    ASSUME UartTypeOK
    PROVE  /\ set_pending(UART_IRQ) => PlicTypeOK' /\ pending' = pending \cup {UART_IRQ}
           /\ clear_pending(UART_IRQ) => PlicTypeOK' /\ pending' = pending \ {UART_IRQ}
           /\ \A c \in Contexts : claim_interrupt(c) => PlicTypeOK'
<1> USE UartAssumption, PlicAssumption DEF UartTypeOK, PlicTypeOK, IrqIds
<1>1. ASSUME set_pending(UART_IRQ)
      PROVE  PlicTypeOK' /\ pending' = pending \cup {UART_IRQ}
  BY <1>1 DEF set_pending, WithPending
<1>2. ASSUME clear_pending(UART_IRQ)
      PROVE  PlicTypeOK' /\ pending' = pending \ {UART_IRQ}
  BY <1>2 DEF clear_pending, WithoutPending
<1>3. ASSUME NEW c \in Contexts, claim_interrupt(c)
      PROVE  PlicTypeOK'
  BY <1>3 DEF claim_interrupt
<1> QED BY <1>1, <1>2, <1>3

\* A context that has something to report still has it after set_pending.
LEMMA SetPendingKeeps ==
    ASSUME UartTypeOK, set_pending(UART_IRQ), NEW c \in Contexts, has_pending_interrupt(c)
    PROVE  has_pending_interrupt(c)'
BY PendingCalls DEF has_pending_interrupt, Candidates, set_pending

-----------------------------------------------------------------------------

\* Initially the CPU is at its first check and nothing is typed or pending.
LEMMA InitInv == UartInit => UartInv
<1> SUFFICES ASSUME UartInit PROVE UartInv
  OBVIOUS
<1> USE UartAssumption, PlicAssumption DEF UartInit
<1>1. PlicTypeOK
  BY DEF PlicInit, PlicTypeOK, PrioVals
<1>2. UartTypeOK
  <2>1. thr_ipending \in BOOLEAN /\ line \in BOOLEAN /\ meip \in BOOLEAN /\ seip \in BOOLEAN
    BY Zenon
  <2>2. ier \in SUBSET IerBits /\ input_len \in 0 .. MaxInput /\ cpu \in CpuLocs
    BY DEF CpuLocs
  <2> QED BY <1>1, <2>1, <2>2 DEF UartTypeOK
<1>3. LockInv /\ LineInv /\ SpuriousOnlyWithInput /\ ThreNeverMissed /\ MipInv
  BY DEF LockInv, LineInv, Synced, SpuriousOnlyWithInput, ThreNeverMissed, AtQuery, MipInv
<1> QED BY <1>2, <1>3 DEF UartInv

\* The two steps of the input thread preserve the invariant.
LEMMA InputStepInv == UartInv /\ (InputPush \/ InputRaise) => UartInv'
<1> SUFFICES ASSUME UartInv, InputPush \/ InputRaise PROVE UartInv'
  OBVIOUS
<1> USE UartAssumption DEF UartInv, LockInv
<1>1. CASE InputPush
  <2> USE <1>1 DEF InputPush, plicVars, mipVars
  <2>1. UartTypeOK' BY DEF UartTypeOK, PlicTypeOK
  <2>2. LockInv' BY DEF UartTypeOK
  <2>3. LineInv' /\ SpuriousOnlyWithInput' /\ ThreNeverMissed'
    BY DEF LineInv, Synced, SpuriousOnlyWithInput, ThreNeverMissed, AtQuery,
           uart_has_pending_interrupt, RxActive, TxActive, UartTypeOK
  <2>4. MipInv'
    BY DEF MipInv, has_pending_interrupt, Candidates
  <2> QED BY <2>1, <2>2, <2>3, <2>4
<1>2. CASE InputRaise
  <2> USE <1>2 DEF InputRaise, uartVars, mipVars
  <2>1. UartTypeOK' BY PendingCalls DEF UartTypeOK
  <2>2. LineInv'
    BY DEF LineInv, Synced, uart_has_pending_interrupt, RxActive, TxActive
  <2>3. SpuriousOnlyWithInput'
    \* The lock: the character pushed before the IRQ is raised is still there.
    BY DEF SpuriousOnlyWithInput
  <2>4. ThreNeverMissed'
    BY PendingCalls DEF ThreNeverMissed, AtQuery, TxActive
  <2>5. MipInv'
    BY SetPendingKeeps DEF MipInv
  <2> QED BY <2>1, <2>2, <2>3, <2>4, <2>5
<1> QED BY <1>1, <1>2

\* Sampling and synchronising the interrupt line preserve the invariant.
LEMMA SyncStepInv ==
    UartInv /\ (CheckSample \/ CheckSync \/ MmioSample \/ MmioSync) => UartInv'
<1> SUFFICES ASSUME UartInv, CheckSample \/ CheckSync \/ MmioSample \/ MmioSync
             PROVE  UartInv'
  OBVIOUS
<1> USE UartAssumption DEF UartInv, LockInv
<1>1. CASE CheckSample \/ MmioSample
  <2> USE <1>1 DEF CheckSample, MmioSample, Sample, plicVars, uartVars, mipVars
  <2>1. UartTypeOK'
    BY DEF UartTypeOK, PlicTypeOK, CpuLocs, uart_has_pending_interrupt, RxActive, TxActive
  <2>2. LineInv'
    BY DEF LineInv, Synced, uart_has_pending_interrupt, RxActive, TxActive
  <2>3. SpuriousOnlyWithInput' /\ ThreNeverMissed' /\ MipInv'
    BY DEF SpuriousOnlyWithInput, ThreNeverMissed, MipInv, AtQuery
  <2> QED BY <2>1, <2>2, <2>3
<1>2. CASE CheckSync \/ MmioSync
  <2> USE <1>2 DEF CheckSync, MmioSync, Sync, uartVars, mipVars
  <2>1. UartTypeOK' BY PendingCalls DEF UartTypeOK, CpuLocs
  <2>2. LineInv' BY DEF LineInv, Synced
  <2>3. SpuriousOnlyWithInput'
    BY PendingCalls DEF SpuriousOnlyWithInput, AtQuery, LineInv, Synced,
       uart_has_pending_interrupt, RxActive, TxActive
  <2>4. ThreNeverMissed'
    BY PendingCalls DEF ThreNeverMissed, AtQuery, LineInv, Synced, TxActive
  <2>5. MipInv' BY DEF MipInv
  <2> QED BY <2>1, <2>2, <2>3, <2>4, <2>5
<1> QED BY <1>1, <1>2

\* Asking the PLIC for the two contexts preserves the invariant.
LEMMA QueryStepInv == UartInv /\ (QueryM \/ QueryS) => UartInv'
<1> SUFFICES ASSUME UartInv, QueryM \/ QueryS PROVE UartInv'
  OBVIOUS
<1> USE UartAssumption DEF UartInv, LockInv, QueryM, QueryS, plicVars, uartVars
<1>1. UartTypeOK'
  BY DEF UartTypeOK, PlicTypeOK, CpuLocs, has_pending_interrupt
<1>2. LineInv' /\ SpuriousOnlyWithInput' /\ ThreNeverMissed'
  BY DEF LineInv, Synced, SpuriousOnlyWithInput, ThreNeverMissed, AtQuery,
         uart_has_pending_interrupt, RxActive, TxActive
<1>3. MipInv'
  <2>1. has_pending_interrupt(0)' = has_pending_interrupt(0)
    BY DEF has_pending_interrupt, Candidates
  <2>2. has_pending_interrupt(1)' = has_pending_interrupt(1)
    BY DEF has_pending_interrupt, Candidates
  <2>3. CASE QueryM
    BY <2>1, <2>3, cpu' # "exec" DEF MipInv
  <2>4. CASE QueryS
    BY <2>1, <2>2, <2>4 DEF MipInv
  <2> QED BY <2>3, <2>4
<1> QED BY <1>1, <1>2, <1>3

\* An instruction of the guest leaves "exec" for a location in which the
\* invariant claims nothing of the PLIC.
LEMMA InstructionInv == UartInv /\ Instruction => UartInv'
<1> SUFFICES ASSUME UartInv, Instruction PROVE UartInv'
  OBVIOUS
<1> USE UartAssumption DEF UartInv
<1>1. UartTypeOK' /\ cpu' \in {"mmio", "check"} /\ LockInv'
  <2> USE DEF plicVars, uartVars, mipVars, UartTypeOK, CpuLocs, LockInv
  <2>1. CASE ReadRHR
    BY <2>1 DEF ReadRHR, PlicTypeOK, BufferUnlocked
  <2>2. CASE ReadISR \/ WriteTHR
    <3>1. thr_ipending' \in BOOLEAN
      BY <2>2, Zenon DEF ReadISR, WriteTHR
    <3> QED BY <2>2, <3>1 DEF ReadISR, WriteTHR, PlicTypeOK
  <2>3. CASE AccessOther \/ OtherStep
    BY <2>3 DEF AccessOther, OtherStep, PlicTypeOK
  <2>4. CASE StorePlic
    BY <2>4, PlicWriteType DEF StorePlic
  <2>5. CASE \E value \in SUBSET IerBits : WriteIER(value)
    BY <2>5 DEF WriteIER, PlicTypeOK
  <2>6. CASE \E c \in Contexts : LoadClaim(c)
    BY <2>6, PendingCalls DEF LoadClaim
  <2> QED BY <2>1, <2>2, <2>3, <2>4, <2>5, <2>6 DEF Instruction
<1>2. LineInv' /\ SpuriousOnlyWithInput' /\ ThreNeverMissed' /\ MipInv'
  BY <1>1 DEF LineInv, Synced, SpuriousOnlyWithInput, ThreNeverMissed, AtQuery, MipInv
<1> QED BY <1>1, <1>2

\* Every step of the two threads preserves the conjunction of the parts.
LEMMA StepInv == UartInv /\ [Next]_vars => UartInv'
<1> SUFFICES ASSUME UartInv, [Next]_vars PROVE UartInv'
  OBVIOUS
<1>1. CASE Next
  BY <1>1, InputStepInv, SyncStepInv, QueryStepInv, InstructionInv DEF Next, CpuStep
<1>2. CASE UNCHANGED vars
  BY <1>2 DEF vars, plicVars, uartVars, mipVars, UartInv, UartTypeOK, PlicTypeOK,
       LockInv, LineInv, Synced, SpuriousOnlyWithInput, ThreNeverMissed, AtQuery, MipInv,
       uart_has_pending_interrupt, RxActive, TxActive, has_pending_interrupt, Candidates
<1> QED BY <1>1, <1>2

\* The conjunction of the parts is an invariant of the two threads.
THEOREM UartInvariant == Spec => []UartInv
  BY InitInv, StepInv, PTL DEF Spec

\* The registers of the PLIC and the UART keep their ranges whatever the guest
\* and the input thread do.
THEOREM TypeCorrect == Spec => []UartTypeOK
BY UartInvariant, PTL DEF UartInv

\* A UART IRQ that check_interrupt finds without an active UART interrupt is
\* always the trace of a character that is still in the buffer.
THEOREM SpuriousBounded == Spec => []SpuriousOnlyWithInput
BY UartInvariant, PTL DEF UartInv

\* check_interrupt never misses a due THR-empty interrupt.
THEOREM ThreDelivered == Spec => []ThreNeverMissed
BY UartInvariant, PTL DEF UartInv

\* The external interrupts that check_interrupt reports are there to be claimed.
THEOREM ReportedIsClaimable == Spec => []ReportedStillPending
<1>1. UartInv => ReportedStillPending
  BY DEF UartInv, MipInv, ReportedStillPending
<1> QED BY <1>1, UartInvariant, PTL

-----------------------------------------------------------------------------
(* The serial driver is one of the guests of UartIrq. *)

\* A store by the driver is a store of the guest.
LEMMA StoreIsStep ==
  ASSUME cpu = "exec", cpu' = "mmio", UNCHANGED <<uartVars, input, line, mipVars>>,
         PlicWrite(PrioVals)
  PROVE  Next
  BY DEF Next, CpuStep, Instruction, StorePlic

\* Every step of the machine with the driver is a step of UartIrq.
LEMMA DrvStepIsStep == UartTypeOK /\ DrvNext => Next
<1> SUFFICES ASSUME UartTypeOK, DrvNext PROVE Next
  OBVIOUS
<1> USE UartAssumption, PlicAssumption
<1>0. UART_IRQ \in IrqIds /\ 0 \in Contexts /\ 1 \in Contexts /\ 0 \in PrioVals
  BY DEF IrqIds, PrioVals
<1>1. CASE SetUp
  <2>1. CASE drv = "setIer" /\ WriteIER({"ERBFI"})
    BY <2>1 DEF Next, CpuStep, Instruction, IerBits
  <2>2. CASE /\ cpu = "exec" /\ WritePriority(UART_IRQ, 1)
             /\ cpu' = "mmio" /\ UNCHANGED <<uartVars, input, line, mipVars>>
    <3>1. 1 % PrioLevels = IF PrioLevels = 1 THEN 0 % PrioLevels ELSE 1 % PrioLevels
      OBVIOUS
    <3>2. PrioLevels # 1 => 1 \in PrioVals
      BY DEF PrioVals
    <3>3. \E v \in PrioVals : WritePriority(UART_IRQ, v)
      BY <1>0, <2>2, <3>1, <3>2 DEF WritePriority
    <3> QED BY <1>0, <2>2, <3>3, StoreIsStep DEF PlicWrite
  <2>3. CASE /\ cpu = "exec" /\ WriteEnable(1, UART_IRQ \div WordBits, {UART_IRQ})
             /\ cpu' = "mmio" /\ UNCHANGED <<uartVars, input, line, mipVars>>
    <3> DEFINE w == UART_IRQ \div WordBits
    <3>1. w \in Words /\ {UART_IRQ} \in SUBSET WordIrqs(w)
      BY <1>0 DEF Words, WordIrqs
    <3> QED BY <1>0, <2>3, <3>1, StoreIsStep DEF PlicWrite
  <2> QED BY <1>1, <2>1, <2>2, <2>3 DEF SetUp
<1>2. CASE Idle
  BY <1>2 DEF Idle, Next, CpuStep, Instruction, IerBits, UartTypeOK
<1>3. CASE Handler
  <2>1. CASE cpu = "exec" /\ complete_interrupt(1, UART_IRQ) /\ cpu' = "mmio"
             /\ UNCHANGED <<uartVars, input, line, mipVars>>
    BY <1>0, <2>1, StoreIsStep DEF PlicWrite
  <2>2. CASE WriteIER(ier \ {"ETBEI"})
    BY <2>2 DEF Next, CpuStep, Instruction, UartTypeOK
  <2> QED BY <1>0, <1>3, <2>1, <2>2 DEF Handler, Next, CpuStep, Instruction
<1> QED BY <1>1, <1>2, <1>3 DEF DrvNext, DrvCpuStep, Type, Raise, Next, CpuStep

\* So what holds of every guest holds with the driver.
THEOREM DriverIsGuest == DrvSpec => []UartInv
<1>1. DrvInit => UartInv
  BY InitInv DEF DrvInit
<1>2. UartInv /\ [DrvNext]_drvVars => UartInv'
  BY DrvStepIsStep, StepInv DEF UartInv, drvVars
<1> QED BY <1>1, <1>2, PTL DEF DrvSpec

DrvLocs == {"free", "setIer", "setPriority", "setEnable", "idle", "firstClaim", "claim", "isr",
            "lsr", "rhr", "tx", "complete"}

\* The driver listens to the UART alone, with the receive interrupt on.
DrvSetting ==
    /\ drv \in DrvLocs
    /\ drv # "free" => enable[1] \subseteq {UART_IRQ}
    /\ drv \notin {"free", "setIer"} => "ERBFI" \in ier

\* Until the next instruction, a pending UART_IRQ has its reason in the UART.
PendingHasReason ==
    cpu \in {"queryM", "queryS", "exec"} /\ UART_IRQ \in pending =>
        uart_has_pending_interrupt \/ input_len > 0

\* Between the trap and the first claim the UART has an active interrupt, so
\* that update_uart_irq raises the IRQ again and does not clear it.
FirstClaimInv ==
    drv = "firstClaim" =>
        /\ uart_has_pending_interrupt
        /\ UART_IRQ \in enable[1] /\ priority[UART_IRQ] > priority_threshold[1]
        /\ cpu \notin {"mmio", "mmioSync"}
        /\ cpu = "checkSync" => line
        /\ cpu \in {"queryM", "queryS", "exec"} => UART_IRQ \in pending

DrvInv == DrvSetting /\ PendingHasReason /\ FirstClaimInv

\* Steps of the input thread.
LEMMA DrvInputInv == ASSUME UartInv, DrvInv, Type \/ Raise PROVE DrvInv'
<1>1. CASE Type
  BY <1>1 DEF UartInv, UartTypeOK, DrvInv, DrvSetting, PendingHasReason, FirstClaimInv, Type,
     InputPush, plicVars, uart_has_pending_interrupt, RxActive, TxActive
<1>2. CASE Raise
  <2>1. pending' = pending \cup {UART_IRQ} /\ input_len > 0
    BY <1>2, PendingCalls DEF UartInv, Raise, InputRaise, LockInv
  <2> QED BY <1>2, <2>1 DEF DrvInv, DrvSetting, PendingHasReason, FirstClaimInv, Raise,
         InputRaise, set_pending, uartVars, uart_has_pending_interrupt, RxActive, TxActive
<1> QED BY <1>1, <1>2

\* Steps of the CPU thread between two instructions.
LEMMA DrvCheckInv ==
  ASSUME UartInv, DrvInv, UNCHANGED drv,
         CheckSample \/ CheckSync \/ QueryM \/ QueryS \/ MmioSample \/ MmioSync
  PROVE  DrvInv'
<1>1. CASE CheckSample \/ MmioSample
  BY <1>1 DEF DrvInv, DrvSetting, PendingHasReason, FirstClaimInv, CheckSample, MmioSample, Sample,
     plicVars, uartVars, uart_has_pending_interrupt, RxActive, TxActive
<1>2. CASE CheckSync \/ MmioSync
  <2>1. pending' = IF line THEN pending \cup {UART_IRQ} ELSE pending \ {UART_IRQ}
    BY <1>2, PendingCalls DEF UartInv, CheckSync, MmioSync, Sync
  <2>2. line => uart_has_pending_interrupt
    BY <1>2 DEF UartInv, LineInv, Synced, CheckSync, MmioSync
  <2>3. UNCHANGED <<enable, priority, priority_threshold, ier, thr_ipending, input_len, drv>>
    BY <1>2 DEF CheckSync, MmioSync, Sync, uartVars, set_pending, clear_pending
  <2> QED BY <1>2, <2>1, <2>2, <2>3 DEF DrvInv, DrvSetting, PendingHasReason, FirstClaimInv,
         CheckSync, MmioSync, uart_has_pending_interrupt, RxActive, TxActive
<1>3. CASE QueryM \/ QueryS
  BY <1>3 DEF DrvInv, DrvSetting, PendingHasReason, FirstClaimInv, QueryM, QueryS,
     plicVars, uartVars, uart_has_pending_interrupt, RxActive, TxActive
<1> QED BY <1>1, <1>2, <1>3

\* An instruction that does not start the handler needs only the setting: the
\* rest of the invariant says nothing of the states it leads to.
LEMMA DrvLeaveInv ==
  ASSUME DrvSetting', drv' # "firstClaim", cpu' \notin {"queryM", "queryS", "exec"}
  PROVE  DrvInv'
  BY DEF DrvInv, PendingHasReason, FirstClaimInv

\* The trap for the external interrupt: the IRQ that check_interrupt found is
\* the UART's, and has its reason.
LEMMA DrvTrapInv ==
  ASSUME UartInv, DrvInv, drv = "idle", seip, OtherStep, drv' = "firstClaim"
  PROVE  DrvInv'
<1>1. cpu = "exec" /\ cpu' = "check" /\ UNCHANGED <<plicVars, uartVars>>
  BY DEF OtherStep
<1>2. PICK n \in Candidates(1) : TRUE
  BY <1>1 DEF UartInv, MipInv, has_pending_interrupt
<1>3. n = UART_IRQ /\ "ERBFI" \in ier
  BY DEF DrvInv, DrvSetting, Candidates
<1>4. UART_IRQ \in pending /\ UART_IRQ \in enable[1] /\ priority[UART_IRQ] > priority_threshold[1]
  BY <1>2, <1>3 DEF Candidates
<1>5. uart_has_pending_interrupt
  BY <1>1, <1>3, <1>4 DEF DrvInv, PendingHasReason, uart_has_pending_interrupt, RxActive
<1> QED BY <1>1, <1>3, <1>4, <1>5 DEF DrvInv, DrvSetting, DrvLocs, PendingHasReason, FirstClaimInv,
       plicVars, uartVars, uart_has_pending_interrupt, RxActive, TxActive

\* Instructions of the driver and of any other guest.
LEMMA DrvInstructionInv ==
  ASSUME UartInv, DrvInv,
         SetUp \/ Idle \/ Handler \/ (drv = "free" /\ Instruction /\ Goto("free"))
  PROVE  DrvInv'
<1> USE UartAssumption DEF Goto
<1>1. CASE SetUp
  <2>1. CASE drv = "setIer" /\ WriteIER({"ERBFI"}) /\ Goto("setPriority")
    <3>1. DrvSetting' /\ cpu' = "mmio" /\ drv' = "setPriority"
      BY <2>1 DEF DrvInv, DrvSetting, DrvLocs, WriteIER, plicVars
    <3> QED BY <3>1, DrvLeaveInv
  <2>2. CASE drv = "setPriority" /\ cpu' = "mmio" /\ WritePriority(UART_IRQ, 1)
             /\ UNCHANGED uartVars /\ Goto("setEnable")
    <3>1. DrvSetting' /\ drv' = "setEnable"
      BY <2>2 DEF DrvInv, DrvSetting, DrvLocs, WritePriority, uartVars
    <3> QED BY <2>2, <3>1, DrvLeaveInv
  <2>3. CASE drv = "setEnable" /\ cpu' = "mmio" /\ UNCHANGED uartVars /\ Goto("idle")
             /\ WriteEnable(1, UART_IRQ \div WordBits, {UART_IRQ})
    <3>1. enable'[1] \subseteq enable[1] \cup {UART_IRQ}
      BY <2>3 DEF UartInv, UartTypeOK, PlicTypeOK, WriteEnable
    <3>2. DrvSetting' /\ drv' = "idle"
      BY <2>3, <3>1 DEF DrvInv, DrvSetting, DrvLocs, uartVars
    <3> QED BY <2>3, <3>2, DrvLeaveInv
  <2> QED BY <1>1, <2>1, <2>2, <2>3 DEF SetUp
<1>2. CASE Idle
  <2>1. CASE seip /\ OtherStep /\ Goto("firstClaim")
    BY <1>2, <2>1, DrvTrapInv DEF Idle
  <2>2. CASE OtherStep /\ Goto("idle")
    <3>1. DrvSetting' /\ cpu' = "check" /\ drv' = "idle"
      BY <1>2, <2>2 DEF Idle, DrvInv, DrvSetting, OtherStep, plicVars, uartVars
    <3> QED BY <3>1, DrvLeaveInv
  <2>3. CASE WriteIER(ier \cup {"ETBEI"}) /\ Goto("idle")
    <3>1. DrvSetting' /\ cpu' = "mmio" /\ drv' = "idle"
      BY <1>2, <2>3 DEF Idle, DrvInv, DrvSetting, WriteIER, plicVars
    <3> QED BY <3>1, DrvLeaveInv
  <2> QED BY <1>2, <2>1, <2>2, <2>3 DEF Idle
<1>3. CASE Handler
  <2>1. /\ cpu' \in {"mmio", "check"} /\ drv' \in DrvLocs \ {"firstClaim", "free", "setIer"}
        /\ drv \notin {"free", "setIer"} /\ enable' = enable
    BY <1>3 DEF Handler, DrvLocs, LoadClaim, claim_interrupt, ReadISR, AccessOther, ReadRHR, WriteTHR,
       WriteIER, complete_interrupt, plicVars
  <2>2. ier' \in {ier, ier \ {"ETBEI"}}
    BY <1>3 DEF Handler, LoadClaim, ReadISR, AccessOther, ReadRHR, WriteTHR, WriteIER, uartVars
  <2>3. DrvSetting'
    BY <2>1, <2>2 DEF DrvInv, DrvSetting
  <2> QED BY <2>1, <2>3, DrvLeaveInv
<1>4. CASE drv = "free" /\ Instruction /\ Goto("free")
  <2>1. cpu' \in {"mmio", "check"}
    BY <1>4 DEF Instruction, ReadRHR, ReadISR, WriteTHR, AccessOther, StorePlic, OtherStep, WriteIER,
       LoadClaim
  <2>2. DrvSetting' /\ drv' = "free"
    BY <1>4 DEF DrvInv, DrvSetting
  <2> QED BY <2>1, <2>2, DrvLeaveInv
<1> QED BY <1>1, <1>2, <1>3, <1>4

\* A trap for an external interrupt always finds the UART's IRQ to claim.
THEOREM TrapFindsWork == DrvSpec => []TrapHasWork
<1>1. DrvInit => DrvInv
  BY UartAssumption DEF DrvInit, UartInit, PlicInit, DrvInv, DrvSetting, DrvLocs, PendingHasReason, FirstClaimInv
<1>2. UartInv /\ DrvInv /\ [DrvNext]_drvVars => DrvInv'
  <2> SUFFICES ASSUME UartInv, DrvInv, [DrvNext]_drvVars PROVE DrvInv'
    OBVIOUS
  <2>1. CASE UNCHANGED drvVars
    BY <2>1 DEF drvVars, vars, plicVars, uartVars, DrvInv, DrvSetting, PendingHasReason,
       FirstClaimInv, uart_has_pending_interrupt, RxActive, TxActive
  <2> QED BY <2>1, DrvInputInv, DrvCheckInv, DrvInstructionInv DEF DrvNext, DrvCpuStep
<1>3. UartInv /\ DrvInv => TrapHasWork
  <2> SUFFICES ASSUME UartInv, DrvInv, cpu = "exec", drv = "firstClaim"
               PROVE  ScanClaim(1) = UART_IRQ
    BY DEF TrapHasWork
  <2>1. PlicTypeOK /\ 1 \in Contexts
    BY UartAssumption DEF UartInv, UartTypeOK
  <2>2. UART_IRQ \in Candidates(1) /\ \A n \in Candidates(1) : n = UART_IRQ
    BY UartAssumption DEF DrvInv, DrvSetting, FirstClaimInv, Candidates
  <2> QED BY <2>1, <2>2, ClaimBest
<1> QED BY <1>1, <1>2, <1>3, DriverIsGuest, PTL DEF DrvSpec
=============================================================================
