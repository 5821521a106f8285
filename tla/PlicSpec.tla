------------------------------ MODULE PlicSpec ------------------------------
(***************************************************************************)
(* The PLIC on its own: devices raise and lower IRQs and the guest reads   *)
(* and writes the registers in any order.                                  *)
(***************************************************************************)
EXTENDS Plic

CONSTANT WriteValues  \* values the guest stores into priority and threshold registers

ASSUME WriteValuesAssumption == WriteValues \subseteq Nat

PlicNext ==
    \/ \E irq \in IrqIds : set_pending(irq)
    \/ \E irq \in IrqIds : clear_pending(irq)
    \/ \E c \in Contexts : claim_interrupt(c)
    \/ PlicWrite(WriteValues)

PlicSystem == PlicInit /\ [][PlicNext]_plicVars

-----------------------------------------------------------------------------

\* n is served before m: a larger priority, or the lower number of a tie.
Before(n, m) == priority[n] > priority[m] \/ (priority[n] = priority[m] /\ n <= m)

\* What the PLIC promises a claim: the most urgent candidate, 0 without one.
MostUrgent(c) ==
    IF Candidates(c) = {} THEN 0
    ELSE CHOOSE n \in Candidates(c) : \A m \in Candidates(c) : Before(n, m)

\* The upward scan of claim_interrupt with its strict comparison returns, in
\* every reachable register state, the enabled pending IRQ of the largest
\* priority above the threshold and the lowest number among equals; so it
\* returns 0 exactly when has_pending_interrupt told the hart there is nothing.
\* A threshold of 7 masks a context completely: write32 cuts priorities and
\* thresholds to three bits, so no IRQ is above the largest threshold.
ScanFindsBest ==
    \A c \in Contexts :
        /\ ScanClaim(c) = MostUrgent(c)
        /\ (ScanClaim(c) # 0) <=> has_pending_interrupt(c)
        /\ priority_threshold[c] = PrioLevels - 1 => ScanClaim(c) = 0

\* Claims partition the pending IRQs among the two contexts: a claim takes
\* away the one IRQ it returns, so neither context can receive it again before
\* a device raises it anew, and nothing else that was pending is lost.
ClaimTakesOne ==
    [][\A c \in Contexts :
         claim_interrupt(c) /\ has_pending_interrupt(c) =>
             /\ pending = pending' \cup {MostUrgent(c)}
             /\ \A d \in Contexts : ScanClaim(d)' # MostUrgent(c)]_plicVars
=============================================================================
