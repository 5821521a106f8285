-------------------------------- MODULE Plic --------------------------------
(***************************************************************************)
(* The platform-level interrupt controller of src/plic.rs.                 *)
(*                                                                         *)
(* The code keeps `pending' and `enable' as arrays of 32-bit words with    *)
(* IRQ n in bit n % 32 of word n / 32; here each is the set of the IRQs    *)
(* whose bit is 1, and a register write carries the set of the IRQs of     *)
(* that word whose bit is 1 in the value.  The field claim_complete of     *)
(* the struct is never read or written and is left out.  `complete' does   *)
(* nothing in the code (complete_interrupt has an empty body).             *)
(***************************************************************************)
EXTENDS Naturals

CONSTANTS
    MaxIrqs,    \* MAX_IRQS: IRQ numbers are 0 .. MaxIrqs - 1, 0 is reserved
    WordBits,   \* the width of one pending or enable register
    Contexts,   \* PLIC contexts: 0 is M-mode, 1 is S-mode of hart 0
    PrioLevels  \* a priority keeps `value & 0x7': PrioLevels values

ASSUME PlicAssumption ==
    /\ MaxIrqs \in Nat \ {0}
    /\ WordBits \in Nat \ {0}
    /\ Contexts \subseteq Nat
    /\ PrioLevels \in Nat \ {0}

VARIABLES
    priority,            \* priority[irq]
    priority_threshold,  \* priority_threshold[context]
    pending,             \* the IRQs whose pending bit is 1
    enable               \* enable[context]: the IRQs whose enable bit is 1

plicVars == <<priority, priority_threshold, pending, enable>>

IrqIds   == 0 .. MaxIrqs - 1
PrioVals == 0 .. PrioLevels - 1

\* The registers of the pending and enable arrays, and the IRQs of one of them.
Words       == {n \div WordBits : n \in IrqIds}
WordIrqs(w) == {n \in IrqIds : n \div WordBits = w}

PlicTypeOK ==
    /\ priority \in [IrqIds -> PrioVals]
    /\ priority_threshold \in [Contexts -> PrioVals]
    /\ pending \in SUBSET IrqIds
    /\ enable \in [Contexts -> SUBSET IrqIds]

PlicInit ==
    /\ priority = [n \in IrqIds |-> 0]
    /\ priority_threshold = [c \in Contexts |-> 0]
    /\ pending = {}
    /\ enable = [c \in Contexts |-> {}]

-----------------------------------------------------------------------------
(* What a context sees. *)

\* IRQs that the loops of has_pending_interrupt and claim_interrupt consider:
\* pending, enabled, not the reserved IRQ 0, and above the threshold.
Candidates(c) ==
    {n \in pending \cap enable[c] : n # 0 /\ priority[n] > priority_threshold[c]}

has_pending_interrupt(c) == Candidates(c) # {}

\* Mutant of Keep: a later IRQ of the same priority replaces the best.
Keep_lastOfTie(c, best, n) ==
    IF n \in Candidates(c) /\ priority[n] >= best.prio THEN [irq |-> n, prio |-> priority[n]] ELSE best

\* One round of the loop of claim_interrupt, for IRQ n: it replaces the best so
\* far when the priority is strictly larger.
Keep(c, best, n) ==
    IF n \in Candidates(c) /\ priority[n] > best.prio THEN [irq |-> n, prio |-> priority[n]] ELSE best

\* best_irq and best_priority after each round of the loop.
Scan(c) ==
    LET scan[n \in IrqIds] ==
            Keep(c, IF n = 0 THEN [irq |-> 0, prio |-> 0] ELSE scan[n - 1], n)
    IN  scan

\* The IRQ that claim_interrupt returns, 0 when there is none.
ScanClaim(c) == Scan(c)[MaxIrqs - 1].irq

-----------------------------------------------------------------------------
(* Calls from the devices. *)

WithPending(irq)    == IF irq > 0 /\ irq < MaxIrqs THEN pending \cup {irq} ELSE pending
WithoutPending(irq) == IF irq > 0 /\ irq < MaxIrqs THEN pending \ {irq} ELSE pending

set_pending(irq) ==
    /\ pending' = WithPending(irq)
    /\ UNCHANGED <<priority, priority_threshold, enable>>

clear_pending(irq) ==
    /\ pending' = WithoutPending(irq)
    /\ UNCHANGED <<priority, priority_threshold, enable>>

(* Register reads and writes by the guest.  Only the claim read has an effect. *)

\* Mutant of claim_interrupt: clears everything the context could have claimed.
claim_interrupt_all(c) ==
    /\ pending' = pending \ Candidates(c)
    /\ UNCHANGED <<priority, priority_threshold, enable>>

\* The claimed IRQ stops being pending.
claim_interrupt(c) ==
    /\ pending' = pending \ {n \in {ScanClaim(c)} : n > 0}
    /\ UNCHANGED <<priority, priority_threshold, enable>>

complete_interrupt(c, irq) == UNCHANGED plicVars

WritePriority(irq, value) ==
    /\ priority' = [priority EXCEPT ![irq] = value % PrioLevels]
    /\ UNCHANGED <<priority_threshold, pending, enable>>

\* The pending registers are write-1-to-clear.
WritePending(w, ones) ==
    /\ pending' = pending \ (ones \cap WordIrqs(w))
    /\ UNCHANGED <<priority, priority_threshold, enable>>

WriteEnable(c, w, ones) ==
    /\ enable' = [enable EXCEPT ![c] = (@ \ WordIrqs(w)) \cup (ones \cap WordIrqs(w))]
    /\ UNCHANGED <<priority, priority_threshold, pending>>

WriteThreshold(c, value) ==
    /\ priority_threshold' = [priority_threshold EXCEPT ![c] = value % PrioLevels]
    /\ UNCHANGED <<priority, pending, enable>>

\* A guest access to a PLIC register by a 32-bit store, Plic::write32.  Stores
\* to the remaining offsets change nothing, like complete_interrupt.
PlicWrite(values) ==
    \/ \E irq \in IrqIds, v \in values : WritePriority(irq, v)
    \/ \E w \in Words : \E ones \in SUBSET WordIrqs(w) : WritePending(w, ones)
    \/ \E c \in Contexts, w \in Words : \E ones \in SUBSET WordIrqs(w) : WriteEnable(c, w, ones)
    \/ \E c \in Contexts, v \in values : WriteThreshold(c, v)
    \/ \E c \in Contexts, irq \in IrqIds : complete_interrupt(c, irq)
=============================================================================
