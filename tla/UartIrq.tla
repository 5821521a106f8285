------------------------------ MODULE UartIrq ------------------------------
(***************************************************************************)
(* How UART interrupts reach the hart: src/uart.rs, the interrupt line     *)
(* synchronisation of src/bus.rs, the stdin thread of src/main.rs and the  *)
(* part of check_interrupt (src/cpu.rs) that looks at the PLIC.            *)
(*                                                                         *)
(* Two threads share the input buffer and the PLIC, each behind a mutex.   *)
(* Every critical section of the CPU thread takes one mutex only and is    *)
(* one step here.  The input thread takes the PLIC mutex while it holds    *)
(* the buffer's, so it owns the buffer between its two steps.              *)
(*                                                                         *)
(* Characters are not told apart: the buffer is its length.  The registers *)
(* LCR, MCR, SCR and FCR and the panic detection of THR writes have no     *)
(* effect on interrupts; accesses to them are AccessOther.  The guest is   *)
(* arbitrary: it executes any access at any time.                          *)
(***************************************************************************)
EXTENDS Plic

CONSTANTS
    UART_IRQ,  \* 10 in the code
    MaxInput   \* bound on the length of the input buffer

ASSUME UartAssumption ==
    /\ UART_IRQ \in Nat \ {0} /\ UART_IRQ < MaxIrqs
    /\ MaxInput \in Nat
    /\ Contexts = {0, 1}

VARIABLES
    ier,           \* the interrupt enable bits that are 1
    thr_ipending,  \* a THR-empty interrupt is due
    input_len,     \* length of input_buffer
    input,         \* where the input thread is: "read" or "raise"
    cpu,           \* where the CPU thread is in step()
    line,          \* the result of the last has_pending_interrupt of the UART
    meip, seip     \* bits 11 and 9 of the mip that check_interrupt computes

uartVars == <<ier, thr_ipending, input_len>>
mipVars  == <<meip, seip>>
vars     == <<plicVars, uartVars, input, cpu, line, mipVars>>

IerBits == {"ERBFI", "ETBEI"}

CpuLocs ==
    {"check",      \* about to sample the UART in check_interrupt
     "checkSync",  \* sampled, PLIC not updated yet
     "queryM",     \* about to ask the PLIC for context 0
     "queryS",     \* about to ask the PLIC for context 1
     "exec",       \* mip is known: trap, or execute one instruction
     "mmio",       \* accessed a UART or PLIC register, about to sample
     "mmioSync"}

UartTypeOK ==
    /\ PlicTypeOK
    /\ ier \in SUBSET IerBits
    /\ thr_ipending \in BOOLEAN
    /\ input_len \in 0 .. MaxInput
    /\ input \in {"read", "raise"}
    /\ cpu \in CpuLocs
    /\ line \in BOOLEAN
    /\ meip \in BOOLEAN /\ seip \in BOOLEAN

UartInit ==
    /\ PlicInit
    /\ ier = {}
    /\ thr_ipending = TRUE
    /\ input_len = 0
    /\ input = "read"
    /\ cpu = "check"
    /\ line = FALSE
    /\ meip = FALSE /\ seip = FALSE

\* Mutant of BufferUnlocked: push releases the buffer before the IRQ is raised.
BufferUnlocked_early == TRUE

\* The mutex of input_buffer is free.
BufferUnlocked == input = "read"

RxActive == "ERBFI" \in ier /\ input_len > 0
TxActive == "ETBEI" \in ier /\ thr_ipending

\* Mutant of uart_has_pending_interrupt: the transmitter is forgotten.
uart_has_pending_interrupt_rxOnly == RxActive

\* Uart::has_pending_interrupt
uart_has_pending_interrupt == RxActive \/ TxActive

-----------------------------------------------------------------------------
(* The input thread: push under the buffer lock, then raise the IRQ. *)

InputPush ==
    /\ input = "read" /\ input_len < MaxInput
    /\ input_len' = input_len + 1
    /\ input' = "raise"
    /\ UNCHANGED <<plicVars, ier, thr_ipending, cpu, line, mipVars>>

InputRaise ==
    /\ input = "raise"
    /\ set_pending(UART_IRQ)
    /\ input' = "read"
    /\ UNCHANGED <<uartVars, cpu, line, mipVars>>

-----------------------------------------------------------------------------
(* The CPU thread: update_uart_irq, in two critical sections. *)

Sample ==
    /\ BufferUnlocked
    /\ line' = uart_has_pending_interrupt
    /\ UNCHANGED <<plicVars, uartVars, input, mipVars>>

Sync ==
    /\ IF line THEN set_pending(UART_IRQ) ELSE clear_pending(UART_IRQ)
    /\ UNCHANGED <<uartVars, input, line, mipVars>>

\* Mutant of CheckSample: check_interrupt does not synchronise, so the PLIC is
\* updated by register accesses only.
CheckSample_skip ==
    /\ cpu = "check" /\ cpu' = "queryM"
    /\ UNCHANGED <<plicVars, uartVars, input, line, mipVars>>

CheckSample == cpu = "check"     /\ Sample /\ cpu' = "checkSync"
CheckSync   == cpu = "checkSync" /\ Sync   /\ cpu' = "queryM"
MmioSample  == cpu = "mmio"      /\ Sample /\ cpu' = "mmioSync"
MmioSync    == cpu = "mmioSync"  /\ Sync   /\ cpu' = "check"

(* check_interrupt asks the PLIC for each context under a lock of its own. *)

\* Mutant of QueryM: the query claims the interrupt it finds.
QueryM_claims ==
    /\ cpu = "queryM"
    /\ meip' = has_pending_interrupt(0)
    /\ claim_interrupt(0)
    /\ cpu' = "queryS"
    /\ UNCHANGED <<uartVars, input, line, seip>>

QueryM ==
    /\ cpu = "queryM"
    /\ meip' = has_pending_interrupt(0)
    /\ cpu' = "queryS"
    /\ UNCHANGED <<plicVars, uartVars, input, line, seip>>

QueryS ==
    /\ cpu = "queryS"
    /\ seip' = has_pending_interrupt(1)
    /\ cpu' = "exec"
    /\ UNCHANGED <<plicVars, uartVars, input, line, meip>>

-----------------------------------------------------------------------------
(* One instruction of the guest.  UART accesses and PLIC stores are followed *)
(* by update_uart_irq; PLIC loads are not.                                   *)

\* Mutant of ReadRHR: pops from an empty buffer.
ReadRHR_unchecked ==
    /\ cpu = "exec" /\ BufferUnlocked
    /\ input_len' = input_len - 1
    /\ cpu' = "mmio"
    /\ UNCHANGED <<plicVars, ier, thr_ipending, input, line, mipVars>>

\* pop_front, or 0 from an empty buffer
ReadRHR ==
    /\ cpu = "exec" /\ BufferUnlocked
    /\ input_len' = IF input_len > 0 THEN input_len - 1 ELSE 0
    /\ cpu' = "mmio"
    /\ UNCHANGED <<plicVars, ier, thr_ipending, input, line, mipVars>>

\* The interrupt identification that an ISR read returns.
IsrValue ==
    IF RxActive THEN "rx" ELSE IF TxActive THEN "thre" ELSE "none"

\* Reporting the THR-empty interrupt resets it.
ReadISR ==
    /\ cpu = "exec" /\ BufferUnlocked
    /\ thr_ipending' = (thr_ipending /\ IsrValue # "thre")
    /\ cpu' = "mmio"
    /\ UNCHANGED <<plicVars, ier, input_len, input, line, mipVars>>

\* Mutant of WriteTHR: the THR-empty interrupt is not re-armed.
WriteTHR_noRearm ==
    /\ cpu = "exec"
    /\ cpu' = "mmio"
    /\ UNCHANGED <<plicVars, uartVars, input, line, mipVars>>

\* The character is on stdout at once: the THR is empty again.
WriteTHR ==
    /\ cpu = "exec"
    /\ thr_ipending' = TRUE
    /\ cpu' = "mmio"
    /\ UNCHANGED <<plicVars, ier, input_len, input, line, mipVars>>

WriteIER(value) ==
    /\ cpu = "exec"
    /\ ier' = value
    /\ thr_ipending' = (thr_ipending \/ ("ETBEI" \notin ier /\ "ETBEI" \in value))
    /\ cpu' = "mmio"
    /\ UNCHANGED <<plicVars, input_len, input, line, mipVars>>

AccessOther ==
    /\ cpu = "exec"
    /\ cpu' = "mmio"
    /\ UNCHANGED <<plicVars, uartVars, input, line, mipVars>>

StorePlic ==
    /\ cpu = "exec"
    /\ PlicWrite(PrioVals)
    /\ cpu' = "mmio"
    /\ UNCHANGED <<uartVars, input, line, mipVars>>

LoadClaim(c) ==
    /\ cpu = "exec"
    /\ claim_interrupt(c)
    /\ cpu' = "check"
    /\ UNCHANGED <<uartVars, input, line, mipVars>>

\* A trap, or an instruction that touches neither device.
OtherStep ==
    /\ cpu = "exec"
    /\ cpu' = "check"
    /\ UNCHANGED <<plicVars, uartVars, input, line, mipVars>>

Instruction ==
    \/ ReadRHR \/ ReadISR \/ WriteTHR \/ AccessOther \/ StorePlic \/ OtherStep
    \/ \E value \in SUBSET IerBits : WriteIER(value)
    \/ \E c \in Contexts : LoadClaim(c)

CpuStep ==
    \/ CheckSample \/ CheckSync \/ QueryM \/ QueryS
    \/ Instruction \/ MmioSample \/ MmioSync

Next == InputPush \/ InputRaise \/ CpuStep

Spec == UartInit /\ [][Next]_vars

-----------------------------------------------------------------------------
AtQuery == cpu \in {"queryM", "queryS"}

\* When check_interrupt asks the PLIC, UART_IRQ can be pending without an
\* active UART interrupt only because a character is waiting: set_pending by
\* the input thread is unconditional, but the buffer lock it still holds keeps
\* the guest from taking the character away before the IRQ is raised.
SpuriousOnlyWithInput ==
    AtQuery /\ UART_IRQ \in pending => uart_has_pending_interrupt \/ input_len > 0

\* A due THR-empty interrupt is never missed by check_interrupt: whatever the
\* input thread does between the sample and the update of the PLIC, UART_IRQ
\* is pending when the contexts are asked.
ThreNeverMissed == AtQuery /\ TxActive => UART_IRQ \in pending

\* The external interrupt that check_interrupt found is still there for a claim
\* when the trap is taken: asking does not consume it and the input thread can
\* only add to what is pending.
ReportedStillPending ==
    cpu = "exec" => /\ meip => has_pending_interrupt(0)
                    /\ seip => has_pending_interrupt(1)

\* The clear_pending of update_uart_irq can wipe out the set_pending of a
\* character that arrived after the sample.  The next synchronisation repairs
\* this: an enabled receive interrupt always becomes pending in the PLIC.
RxRaised == RxActive ~> (UART_IRQ \in pending \/ ~RxActive)
=============================================================================
