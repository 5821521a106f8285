----------------------------- MODULE UartDriver -----------------------------
(***************************************************************************)
(* The machine of UartIrq running an interrupt-driven serial driver.       *)
(*                                                                         *)
(* The driver is not part of the repository.  It is modelled on what the   *)
(* comments in src/uart.rs say of the guest it serves, the Linux 8250      *)
(* driver on PLIC context 1: start_tx enables ETBEI, the handler claims,   *)
(* reads the ISR until it reports nothing, takes characters while the LSR  *)
(* says data ready, sends one character for each THR-empty interrupt,      *)
(* disables ETBEI when nothing is left to send, completes the IRQ and      *)
(* claims again until the PLIC returns 0.  With drv = "free" the machine   *)
(* runs any guest instead: the behaviours of UartIrq.                      *)
(***************************************************************************)
EXTENDS UartIrq

CONSTANTS
    MaxTyped,  \* characters the user types
    MaxSent    \* characters the driver is asked to send

ASSUME DriverAssumption == MaxTyped \in Nat /\ MaxSent \in Nat

VARIABLES
    drv,      \* what the driver does next, "idle" outside the handler;
              \* "free" if the guest is not the driver
    tx_left,  \* characters still to send
    typed     \* characters typed so far

drvVars == <<vars, drv, tx_left, typed>>

DrvInit == UartInit /\ drv \in {"free", "setIer"} /\ tx_left = MaxSent /\ typed = 0

Goto(loc) == drv' = loc /\ UNCHANGED <<tx_left, typed>>

(* Set-up, with interrupts of S-mode still off. *)
SetUp ==
    \/ drv = "setIer" /\ WriteIER({"ERBFI"}) /\ Goto("setPriority")
    \/ /\ drv = "setPriority" /\ cpu = "exec"
       /\ WritePriority(UART_IRQ, 1)
       /\ cpu' = "mmio" /\ UNCHANGED <<uartVars, input, line, mipVars>>
       /\ Goto("setEnable")
    \/ /\ drv = "setEnable" /\ cpu = "exec"
       /\ WriteEnable(1, UART_IRQ \div WordBits, {UART_IRQ})
       /\ cpu' = "mmio" /\ UNCHANGED <<uartVars, input, line, mipVars>>
       /\ Goto("idle")

(* Outside the handler: a pending S-mode external interrupt traps. *)
Idle ==
    /\ drv = "idle"
    /\ \/ seip /\ OtherStep /\ Goto("firstClaim")
       \/ ~seip /\ OtherStep /\ Goto("idle")
       \/ ~seip /\ tx_left > 0 /\ "ETBEI" \notin ier
          /\ WriteIER(ier \cup {"ETBEI"}) /\ Goto("idle")

(* The handler; S-mode interrupts are off until it returns. *)
Handler ==
    \/ drv \in {"firstClaim", "claim"} /\ LoadClaim(1)
       /\ Goto(IF ScanClaim(1) = UART_IRQ THEN "isr" ELSE "idle")
    \/ drv = "isr" /\ ReadISR /\ Goto(IF IsrValue = "none" THEN "complete" ELSE "lsr")
    \/ drv = "lsr" /\ BufferUnlocked /\ AccessOther
       /\ Goto(IF input_len > 0 THEN "rhr" ELSE IF "ETBEI" \in ier THEN "tx" ELSE "isr")
    \/ drv = "rhr" /\ ReadRHR /\ Goto("lsr")
    \/ drv = "tx" /\ tx_left > 0 /\ WriteTHR
       /\ drv' = "isr" /\ tx_left' = tx_left - 1 /\ UNCHANGED typed
    \/ drv = "tx" /\ tx_left = 0 /\ WriteIER(ier \ {"ETBEI"}) /\ Goto("isr")
    \/ /\ drv = "complete" /\ cpu = "exec"
       /\ complete_interrupt(1, UART_IRQ)
       /\ cpu' = "mmio" /\ UNCHANGED <<uartVars, input, line, mipVars>>
       /\ Goto("claim")

DrvCpuStep ==
    \/ SetUp \/ Idle \/ Handler
    \/ drv = "free" /\ Instruction /\ Goto("free")
    \/ (CheckSample \/ CheckSync \/ QueryM \/ QueryS \/ MmioSample \/ MmioSync)
       /\ UNCHANGED <<drv, tx_left, typed>>

Type ==
    /\ InputPush
    /\ drv # "free" => typed < MaxTyped
    /\ typed' = IF drv = "free" THEN typed ELSE typed + 1
    /\ UNCHANGED <<drv, tx_left>>

Raise == InputRaise /\ UNCHANGED <<drv, tx_left, typed>>

DrvNext == Type \/ Raise \/ DrvCpuStep

\* The CPU loop never stops and a pushed character is always followed by its
\* set_pending; nobody has to type.
DrvSpec ==
    /\ DrvInit /\ [][DrvNext]_drvVars
    /\ WF_drvVars(DrvCpuStep) /\ WF_drvVars(Raise)

-----------------------------------------------------------------------------

\* Every character that reaches the input buffer is eventually read by the
\* guest, whenever it is typed: before the receive interrupt is enabled, while
\* the handler runs, or between the sample and the clear_pending of
\* update_uart_irq.
InputDrains == drv # "free" /\ input_len > 0 ~> input_len = 0

\* Interrupt-driven transmission never stalls once start_tx has enabled ETBEI:
\* THR writes and the ETBEI edge re-arm the THR-empty interrupt that an ISR
\* read has reset, so every character is sent.
TxDrains == drv # "free" /\ "ETBEI" \in ier ~> tx_left = 0

\* A trap for an external interrupt is never for nothing: the first claim of
\* the handler returns the UART's IRQ, although update_uart_irq runs between
\* the trap and the claim and may clear it.
TrapHasWork ==
    cpu = "exec" /\ drv = "firstClaim" => ScanClaim(1) = UART_IRQ
=============================================================================
