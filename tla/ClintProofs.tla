---------------------------- MODULE ClintProofs -----------------------------
(***************************************************************************)
(* Proofs about Clint, for any width of a half register, any tick interval *)
(* and step, any deadlines and any bound on the clock.                     *)
(***************************************************************************)
EXTENDS Clint, NatLemmas, TLAPS

\* The part of the type that the timing arguments need: stimecmp and its copy
\* play no role in them.
TimeTypeOK ==
    /\ mtime \in 0 .. MaxTime /\ mtimecmp \in Nat
    /\ arm \in [next : {"none", "hi", "lo"}, target : Nat, old : Nat]
    /\ read \in [next : {"hi", "lo", "again", "done"}, hi : Nat, lo : Nat, since : 0 .. MaxTime]

\* While mtimecmp is replaced, it is not below the old deadline and then not
\* below the new one, because the low half stays at all ones in between.
ArmInv ==
    /\ arm.next = "hi" => mtimecmp >= arm.old /\ mtimecmp % Half = Half - 1
    /\ arm.next = "lo" => mtimecmp >= arm.target

\* While mtime is read: the low half is that of a time t since the start, and
\* the high half read before is not larger than that of t.
ReadInv ==
    /\ read.since <= mtime
    /\ read.next = "lo" => read.hi <= mtime \div Half
    /\ read.next = "again" =>
          \E t \in Nat : /\ read.since <= t /\ t <= mtime
                         /\ read.lo = t % Half /\ read.hi <= t \div Half
    /\ read.next = "done" =>
          \E t \in Nat : /\ read.since <= t /\ t <= mtime
                         /\ t = read.hi * Half + read.lo

ClintInv == TimeTypeOK /\ StimecmpCoherent /\ ArmInv /\ ReadInv

-----------------------------------------------------------------------------
\* At reset no update and no read is under way.
LEMMA InitInv == Init => ClintInv
<1> SUFFICES ASSUME Init PROVE ClintInv
  OBVIOUS
<1>1. FirstCmp \in Nat /\ MaxTime \in Nat
  BY ClintAssumption DEF Regs
<1> QED BY <1>1 DEF Init, NoArm, NoRead, ClintInv, TimeTypeOK, StimecmpCoherent, ArmInv, ReadInv

\* The clock never goes back before its bound.
LEMMA ClockGoesOn ==
  ASSUME TimeTypeOK, tick_timer_by
  PROVE  mtime' \in 0 .. MaxTime /\ mtime <= mtime'
<1>1. /\ Half * Half - 1 + 1 \in Nat /\ mtime \in Nat /\ mtime <= MaxTime
      /\ TickStep \in Nat /\ MaxTime \in Nat /\ MaxTime + TickStep <= U64Max /\ U64Max \in Nat
  BY ClintAssumption DEF TimeTypeOK, U64Max
<1>2. (mtime + TickStep) % (U64Max + 1) = mtime + TickStep
  <2>1. mtime + TickStep < U64Max + 1
    BY <1>1
  <2> QED BY <1>1, <2>1, SmallMod
<1> QED BY <1>1, <1>2 DEF tick_timer_by

\* Replacing the low half by all ones does not move a deadline forward.
LEMMA LowOnes ==
  ASSUME NEW x \in Nat
  PROVE  /\ (x \div Half) * Half + (Half - 1) \in Nat
         /\ (x \div Half) * Half + (Half - 1) >= x
         /\ ((x \div Half) * Half + (Half - 1)) % Half = Half - 1
<1>1. Half \in Nat /\ Half > 0 /\ Half - 1 \in 0 .. Half - 1
  BY ClintAssumption
<1> DEFINE q == x \div Half
           r == x % Half
<1>2. x = q * Half + r /\ q \in Nat /\ r \in 0 .. Half - 1
  BY <1>1, Halves
<1> HIDE DEF q, r
<1>3. q * Half \in Nat
  BY <1>1, <1>2
<1>4. q * Half + (Half - 1) \in Nat /\ q * Half + (Half - 1) >= x
  BY <1>1, <1>2, <1>3
<1>5. (q * Half + (Half - 1)) % Half = Half - 1
  BY <1>1, <1>2, HalvesUnique
<1> QED BY <1>4, <1>5 DEF q

\* The update of mtimecmp keeps ArmInv, the clock running or not.
LEMMA ArmStepInv ==
  ASSUME ClintInv,
         \/ ArmHigh \/ ArmLow
         \/ \E v \in Operands : WriteCmp(v) \/ ArmStart(v)
         \/ UNCHANGED <<mtimecmp, arm>>
  PROVE  mtimecmp' \in Nat /\ arm' \in [next : {"none", "hi", "lo"}, target : Nat, old : Nat] /\ ArmInv'
<1>1. Half \in Nat /\ Half > 0 /\ Operands \subseteq Nat
  BY ClintAssumption DEF Regs
<1>2. ASSUME NEW x \in Nat
      PROVE  x = (x \div Half) * Half + (x % Half) /\ x \div Half \in Nat /\ x % Half \in 0 .. Half - 1
  BY <1>1, Halves
<1>3. mtimecmp \in Nat /\ arm \in [next : {"none", "hi", "lo"}, target : Nat, old : Nat] /\ ArmInv
  BY DEF ClintInv, TimeTypeOK
<1>4. CASE ArmHigh
  <2>1. mtimecmp' = (arm.target \div Half) * Half + (Half - 1) /\ arm.target \in Nat
    BY <1>3, <1>4 DEF ArmHigh, ArmInv, HighReplaced
  <2>2. mtimecmp' \in Nat /\ mtimecmp' >= arm.target
    BY <2>1, LowOnes
  <2>3. arm' = [arm EXCEPT !.next = "lo"]
    BY <1>4 DEF ArmHigh
  <2> QED BY <1>3, <2>2, <2>3 DEF ArmInv
<1>5. CASE ArmLow
  <2>1. mtimecmp' = (mtimecmp \div Half) * Half + (arm.target % Half) /\ arm' = NoArm
    BY <1>5 DEF ArmLow, LowReplaced
  <2>2. mtimecmp \div Half \in Nat /\ arm.target % Half \in Nat
    BY <1>1, <1>2, <1>3
  <2>3. mtimecmp' \in Nat
    BY <1>1, <2>1, <2>2
  <2> QED BY <2>1, <2>3 DEF ArmInv, NoArm
<1>6. ASSUME NEW v \in Operands, WriteCmp(v)
      PROVE  mtimecmp' \in Nat /\ arm' \in [next : {"none", "hi", "lo"}, target : Nat, old : Nat] /\ ArmInv'
  BY <1>1, <1>6 DEF WriteCmp, NoArm, ArmInv
<1>7. ASSUME NEW v \in Operands, ArmStart(v)
      PROVE  mtimecmp' \in Nat /\ arm' \in [next : {"none", "hi", "lo"}, target : Nat, old : Nat] /\ ArmInv'
  <2>1. /\ mtimecmp' = (mtimecmp \div Half) * Half + (Half - 1)
        /\ arm' = [next |-> "hi", target |-> v, old |-> mtimecmp]
    BY <1>7 DEF ArmStart, LowReplaced
  <2>2. mtimecmp' \in Nat /\ mtimecmp' >= mtimecmp /\ mtimecmp' % Half = Half - 1
    BY <1>3, <2>1, LowOnes
  <2> QED BY <1>1, <1>3, <2>1, <2>2 DEF ArmInv
<1>8. CASE UNCHANGED <<mtimecmp, arm>>
  BY <1>3, <1>8 DEF ArmInv
<1> QED BY <1>4, <1>5, <1>6, <1>7, <1>8

\* A read by halves keeps ReadInv while the clock goes on.
LEMMA ReadStepInv ==
  ASSUME ClintInv, mtime' \in 0 .. MaxTime, mtime <= mtime',
         ReadHigh \/ ReadLow \/ ReadAgain \/ UNCHANGED read
  PROVE  /\ read' \in [next : {"hi", "lo", "again", "done"}, hi : Nat, lo : Nat, since : 0 .. MaxTime]
         /\ ReadInv'
<1>1. Half \in Nat /\ Half > 0 /\ MaxTime \in Nat
  BY ClintAssumption
<1>2. ASSUME NEW x \in Nat
      PROVE  x = (x \div Half) * Half + (x % Half) /\ x \div Half \in Nat /\ x % Half \in Nat
  BY <1>1, Halves
<1>3. /\ read \in [next : {"hi", "lo", "again", "done"}, hi : Nat, lo : Nat, since : 0 .. MaxTime]
      /\ ReadInv /\ mtime \in Nat /\ mtime \in 0 .. MaxTime /\ mtime' \in Nat
  BY <1>1 DEF ClintInv, TimeTypeOK
<1>4. mtime \div Half <= mtime' \div Half
  BY <1>1, <1>3, HighMonotone
<1>5. mtime \div Half \in Nat /\ mtime % Half \in Nat /\ mtime' \div Half \in Nat
  BY <1>1, <1>2, <1>3
<1>6. CASE ReadHigh
  <2>1. read' = [next |-> "lo", hi |-> mtime \div Half, lo |-> 0, since |-> mtime]
    BY <1>6 DEF ReadHigh, mtime_high
  <2> QED BY <1>3, <1>4, <1>5, <2>1 DEF ReadInv
<1>7. CASE ReadLow
  <2>1. read' = [read EXCEPT !.next = "again", !.lo = mtime % Half] /\ read.next = "lo"
    BY <1>7 DEF ReadLow, mtime_low
  <2>2. /\ read'.next = "again" /\ read'.lo = mtime % Half /\ read'.hi = read.hi
        /\ read'.since = read.since
    BY <1>3, <2>1
  <2>3. read.since <= mtime /\ read.hi <= mtime \div Half
    BY <1>3, <2>1 DEF ReadInv
  <2>4. \E t \in Nat : /\ read'.since <= t /\ t <= mtime'
                       /\ read'.lo = t % Half /\ read'.hi <= t \div Half
    BY <1>3, <2>2, <2>3
  <2>5. read'.since <= mtime'
    BY <1>3, <2>2, <2>3
  <2> QED BY <1>3, <1>5, <2>1, <2>2, <2>4, <2>5 DEF ReadInv
<1>8. CASE ReadAgain
  <2>1. PICK t \in Nat : /\ read.since <= t /\ t <= mtime
                         /\ read.lo = t % Half /\ read.hi <= t \div Half
    BY <1>3, <1>8 DEF ReadInv, ReadAgain
  <2>2. read.since <= mtime /\ read.since <= mtime' /\ read.since \in Nat
    BY <1>3, <2>1
  <2>3. CASE mtime \div Half = read.hi
    <3>1. read' = [read EXCEPT !.next = "done"]
      BY <1>8, <2>3 DEF ReadAgain, mtime_high
    <3>2. t \div Half <= mtime \div Half /\ t \div Half \in Nat
      BY <1>1, <1>2, <1>3, <2>1, HighMonotone
    <3>3. t \div Half = read.hi
      BY <1>3, <1>5, <2>1, <2>3, <3>2
    <3>4. t = read.hi * Half + read.lo
      BY <1>2, <2>1, <3>3
    <3>5. \E u \in Nat : read.since <= u /\ u <= mtime' /\ u = read.hi * Half + read.lo
      BY <1>3, <2>1, <3>4
    <3> QED BY <1>3, <2>2, <3>1, <3>5 DEF ReadInv
  <2>4. CASE mtime \div Half # read.hi
    <3>1. read' = [read EXCEPT !.next = "lo", !.hi = mtime \div Half]
      BY <1>8, <2>4 DEF ReadAgain, mtime_high
    <3> QED BY <1>3, <1>4, <1>5, <2>2, <3>1 DEF ReadInv
  <2> QED BY <2>3, <2>4
<1>9. CASE UNCHANGED read
  <2>1. read.since <= mtime' /\ (read.next = "lo" => read.hi <= mtime' \div Half)
    BY <1>3, <1>4, <1>5, <1>9 DEF ReadInv
  <2>2. ASSUME NEW t \in Nat, t <= mtime PROVE t <= mtime'
    BY <1>3, <2>2
  <2> QED BY <1>3, <1>9, <2>1, <2>2 DEF ReadInv
<1> QED BY <1>6, <1>7, <1>8, <1>9

\* Every CSR instruction writes both copies of stimecmp.
LEMMA CopiesStepInv == ASSUME StimecmpCoherent, Instruction PROVE StimecmpCoherent'
<1>1. CASE \E v \in Operands : csrrw(v) \/ csrrs(v) \/ csrrc(v)
  BY <1>1 DEF csrrw, csrrs, csrrc, Synced, StimecmpCoherent
<1>2. CASE ~ \E v \in Operands : csrrw(v) \/ csrrs(v) \/ csrrc(v)
  BY <1>2 DEF Instruction, ArmHigh, ArmLow, ReadHigh, ReadLow, ReadAgain, OtherInstruction, WriteCmp,
     ArmStart, WriteMsip, regVars, StimecmpCoherent
<1> QED BY <1>1, <1>2

\* Each instruction is one of the cases of ArmStepInv and of ReadStepInv.
LEMMA InstructionParts ==
  ASSUME Instruction
  PROVE  /\ \/ ArmHigh \/ ArmLow
            \/ \E v \in Operands : WriteCmp(v) \/ ArmStart(v)
            \/ UNCHANGED <<mtimecmp, arm>>
         /\ ReadHigh \/ ReadLow \/ ReadAgain \/ UNCHANGED read
  BY DEF Instruction, ArmHigh, ArmLow, ReadHigh, ReadLow, ReadAgain, OtherInstruction, WriteCmp,
     ArmStart, WriteMsip, csrrw, csrrs, csrrc, Synced, regVars

\* Timers, updates and reads under way are consistent in every reachable state.
THEOREM ClintInvariant == Spec => []ClintInv
<1>1. ClintInv /\ [Next]_vars => ClintInv'
  <2> SUFFICES ASSUME ClintInv, [Next]_vars PROVE ClintInv'
    OBVIOUS
  <2>1. CASE Next
    <3>1. mtime' \in 0 .. MaxTime /\ mtime <= mtime'
      BY <2>1, ClockGoesOn DEF ClintInv, Next
    <3> QED BY <2>1, <3>1, InstructionParts, ArmStepInv, ReadStepInv, CopiesStepInv
            DEF ClintInv, TimeTypeOK, Next
  <2>2. CASE UNCHANGED vars
    BY <2>2 DEF vars, regVars, ClintInv, TimeTypeOK, StimecmpCoherent, ArmInv, ReadInv
  <2> QED BY <2>1, <2>2
<1> QED BY InitInv, <1>1, PTL DEF Spec

\* The bus and the CSR file never disagree about stimecmp.
THEOREM CopiesAgree == Spec => []StimecmpCoherent
  BY ClintInvariant, PTL DEF ClintInv

\* Replacing mtimecmp by halves raises no timer interrupt that neither the old
\* nor the new deadline justifies, for any width of the halves and any tick.
THEOREM ArmingIsSafe == Spec => []NoFalseAlarm
<1>1. ClintInv => NoFalseAlarm
  BY ClintAssumption DEF ClintInv, TimeTypeOK, ArmInv, NoFalseAlarm, has_timer_interrupt
<1> QED BY <1>1, ClintInvariant, PTL

\* mtime read by halves is a time between the start of the read and now.
THEOREM ReadsAreTimely == Spec => []HalfReadsTimely
<1>1. ClintInv => HalfReadsTimely
  BY DEF ClintInv, ReadInv, HalfReadsTimely
<1> QED BY <1>1, ClintInvariant, PTL
=============================================================================
