------------------------------- MODULE Clint --------------------------------
(***************************************************************************)
(* The timers: mtime, mtimecmp and msip of the CLINT, and stimecmp (Sstc), *)
(* which the code keeps twice, in the bus and in the CSR file.             *)
(*                                                                         *)
(* One action is one iteration of the main loop: one instruction, then     *)
(* mtime advances when the instruction count is a multiple of the interval.*)
(* A 64-bit register is two halves of Half values each.  The guest is      *)
(* arbitrary, except that it changes mtimecmp by halves, and reads mtime   *)
(* by halves, as the privileged architecture manual asks.                  *)
(***************************************************************************)
EXTENDS Naturals

CONSTANTS
    Half,       \* values of half a register: 2^32 in the code
    Interval,   \* TIMER_TICK_INTERVAL
    TickStep,   \* TIMER_TICK_STEP
    FirstCmp,   \* mtimecmp at reset: 10000 in the code
    MaxTime,    \* bound on mtime: the clock stops there
    Operands    \* values that the guest writes

U64Max == Half * Half - 1
Regs   == 0 .. U64Max

ASSUME ClintAssumption ==
    /\ Half \in Nat /\ Half > 1 /\ Interval \in Nat \ {0} /\ TickStep \in Nat \ {0}
    /\ MaxTime \in Nat /\ MaxTime + TickStep <= U64Max     \* stops before it would wrap
    /\ FirstCmp \in Regs /\ Operands \subseteq Regs

VARIABLES
    mtime, mtimecmp, msip,
    stimecmp,       \* Bus.stimecmp, which the interrupt logic looks at
    csr_stimecmp,   \* CSR 0x14D, which the guest reads back
    inst_count,     \* modulo Interval
    arm,            \* the guest's mtimecmp update by halves: its next step,
                    \* the deadline to set and the one before
    read            \* the guest's read of mtime by halves: its next step, the
                    \* parts read, and mtime at the start

regVars == <<mtimecmp, msip, stimecmp, csr_stimecmp>>
vars    == <<mtime, regVars, inst_count, arm, read>>

NoArm  == [next |-> "none", target |-> 0, old |-> 0]
NoRead == [next |-> "hi", hi |-> 0, lo |-> 0, since |-> 0]

ClintTypeOK ==
    /\ mtime \in 0 .. MaxTime /\ mtimecmp \in Regs /\ msip \in {0, 1}
    /\ stimecmp \in Regs /\ csr_stimecmp \in Regs
    /\ inst_count \in 0 .. Interval - 1
    /\ arm \in [next : {"none", "hi", "lo"}, target : Regs, old : Regs]
    /\ read \in [next : {"hi", "lo", "again", "done"}, hi : 0 .. Half - 1,
                 lo : 0 .. Half - 1, since : 0 .. MaxTime]

Init ==
    /\ mtime = 0 /\ mtimecmp = FirstCmp /\ msip = 0
    /\ stimecmp = U64Max /\ csr_stimecmp = U64Max
    /\ inst_count = 0
    /\ arm = NoArm /\ read = NoRead

-----------------------------------------------------------------------------
\* What check_interrupt sees.
has_timer_interrupt    == mtime >= mtimecmp
has_s_timer_interrupt  == stimecmp # U64Max /\ mtime >= stimecmp
has_software_interrupt == msip = 1

\* The end of the main loop's iteration; the bound takes the place of the wrap
\* at 2^64.
Ticks == inst_count = Interval - 1
tick_timer_by ==
    /\ inst_count' = (inst_count + 1) % Interval
    /\ mtime' = IF Ticks THEN (mtime + TickStep) % (U64Max + 1) ELSE mtime
    /\ mtime' <= MaxTime

-----------------------------------------------------------------------------
(* Stores to the CLINT. *)

\* 64-bit; not in the middle of an update by halves
WriteCmp(v) ==
    /\ arm.next = "none"
    /\ mtimecmp' = v
    /\ arm' = NoArm
    /\ UNCHANGED <<msip, stimecmp, csr_stimecmp, read>>

\* mtimecmp with its low or high half replaced by h
LowReplaced(h) == (mtimecmp \div Half) * Half + h

\* Mutant of HighReplaced: the low half is lost.
HighReplaced_zeroes(h) == h * Half
HighReplaced(h) == h * Half + (mtimecmp % Half)

\* The update by halves: low half to all ones, high half, low half.
ArmStart(t) ==
    /\ arm.next = "none"
    /\ arm' = [next |-> "hi", target |-> t, old |-> mtimecmp]
    /\ mtimecmp' = LowReplaced(Half - 1)
    /\ UNCHANGED <<msip, stimecmp, csr_stimecmp, read>>
ArmHigh ==
    /\ arm.next = "hi"
    /\ arm' = [arm EXCEPT !.next = "lo"]
    /\ mtimecmp' = HighReplaced(arm.target \div Half)
    /\ UNCHANGED <<msip, stimecmp, csr_stimecmp, read>>
ArmLow ==
    /\ arm.next = "lo"
    /\ arm' = NoArm
    /\ mtimecmp' = LowReplaced(arm.target % Half)
    /\ UNCHANGED <<msip, stimecmp, csr_stimecmp, read>>

WriteMsip(v) ==
    /\ msip' = v % 2
    /\ UNCHANGED <<mtimecmp, stimecmp, csr_stimecmp, arm, read>>

-----------------------------------------------------------------------------
(* Loads of mtime by halves: high, low, high again until the highs agree. *)

\* Mutant of mtime_high: without the shift.
mtime_high_unshifted == mtime % Half
mtime_high     == mtime \div Half
mtime_low      == mtime % Half

ReadHigh ==
    /\ read.next \in {"hi", "done"}
    /\ read' = [next |-> "lo", hi |-> mtime_high, lo |-> 0, since |-> mtime]
    /\ UNCHANGED <<regVars, arm>>
ReadLow ==
    /\ read.next = "lo"
    /\ read' = [read EXCEPT !.next = "again", !.lo = mtime_low]
    /\ UNCHANGED <<regVars, arm>>
ReadAgain ==
    /\ read.next = "again"
    /\ read' = IF mtime_high = read.hi THEN [read EXCEPT !.next = "done"]
               ELSE [read EXCEPT !.next = "lo", !.hi = mtime_high]
    /\ UNCHANGED <<regVars, arm>>

-----------------------------------------------------------------------------
(* CSR instructions on stimecmp, register and immediate forms. *)

\* a & b; then a | b is Or(a, b) and a & !b is Less(a, b).
And[a, b \in Nat] ==
    IF a = 0 \/ b = 0 THEN 0 ELSE 2 * And[a \div 2, b \div 2] + (a % 2) * (b % 2)
Or(a, b)   == a + b - And[a, b]
Less(a, b) == a - And[a, b]

\* CSRRW, CSRRWI
csrrw(v) ==
    /\ stimecmp' = v /\ csr_stimecmp' = v
    /\ UNCHANGED <<mtimecmp, msip, arm, read>>

\* CSRRS, CSRRSI and CSRRC, CSRRCI: the CSR file is written when the mask is
\* not 0, the bus copy is then read back from it.
Synced(new) ==
    /\ csr_stimecmp' = new /\ stimecmp' = new
    /\ UNCHANGED <<mtimecmp, msip, arm, read>>

csrrs(mask) == Synced(IF mask # 0 THEN Or(csr_stimecmp, mask) ELSE csr_stimecmp)

\* Mutant of csrrc: the bus copy is not updated.
csrrc_busKept(mask) ==
    /\ csr_stimecmp' = IF mask # 0 THEN Less(csr_stimecmp, mask) ELSE csr_stimecmp
    /\ UNCHANGED <<mtimecmp, msip, stimecmp, arm, read>>
csrrc(mask) == Synced(IF mask # 0 THEN Less(csr_stimecmp, mask) ELSE csr_stimecmp)

OtherInstruction == UNCHANGED <<regVars, arm, read>>

Instruction ==
    \/ ArmHigh \/ ArmLow \/ ReadHigh \/ ReadLow \/ ReadAgain \/ OtherInstruction
    \/ \E v \in Operands : WriteCmp(v) \/ ArmStart(v) \/ WriteMsip(v)
    \/ \E v \in Operands : csrrw(v) \/ csrrs(v) \/ csrrc(v)

Next == Instruction /\ tick_timer_by

\* The main loop goes on until the bound on mtime.
Spec == Init /\ [][Next]_vars /\ WF_vars(Next)

-----------------------------------------------------------------------------
\* The two copies of stimecmp never differ, whichever of the six CSR
\* instructions wrote it: the guest reads back what the timer uses.
StimecmpCoherent == stimecmp = csr_stimecmp

\* While mtimecmp is replaced half by half, with the clock running in between,
\* the timer does not fire unless the old or the new deadline has passed.
NoFalseAlarm ==
    arm.next # "none" /\ has_timer_interrupt => mtime >= arm.old \/ mtime >= arm.target

\* mtime read by halves is a time between the start of the read and now, also
\* when a carry into the high half comes between the loads.
HalfReadsTimely ==
    read.next = "done" => read.since <= read.hi * Half + read.lo
                          /\ read.hi * Half + read.lo <= mtime

\* A deadline that the guest has set in stimecmp, and leaves there, raises the
\* supervisor timer interrupt.
DeadlineFires ==
    \A d \in {v \in Operands : v <= MaxTime} :
        csr_stimecmp = d ~> (has_s_timer_interrupt \/ csr_stimecmp # d)
=============================================================================
