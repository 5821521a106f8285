-------------------------------- MODULE Hart --------------------------------
(***************************************************************************)
(* Privilege modes, traps and interrupts of the hart: check_interrupt,     *)
(* handle_trap, take_s_trap, take_trap, MRET, SRET and the CSR             *)
(* instructions of src/cpu.rs.                                             *)
(*                                                                         *)
(* One action is one call of Cpu::step: check_interrupt and then the trap  *)
(* or one instruction.  The interrupt lines (PLIC contexts, the timer      *)
(* comparisons, msip) are the variable lines and change at any time        *)
(* between steps.  The guest is arbitrary.  Addresses and cause registers  *)
(* are left out; the reservation that traps and returns clear belongs to   *)
(* the atomics.                                                            *)
(***************************************************************************)
EXTENDS Csr

CONSTANT Operands   \* register contents that CSR instructions use

User == 0
Supervisor == 1
Hypervisor == 2
Machine == 3
Modes == {User, Supervisor, Hypervisor, Machine}

HwInts == Ints \ {1}   \* SSIP alone is not driven by a line

VARIABLES
    mode,   \* current privilege mode
    lines   \* interrupts whose line is high

hartVars == <<csr, mode, lines>>

HartTypeOK == CsrTypeOK /\ mode \in Modes /\ lines \subseteq HwInts

HartInit == CsrInit /\ mode = Machine /\ lines = {}

-----------------------------------------------------------------------------
(* check_interrupt *)

\* The local mip: the lines, and SSIP as software left it.
mip == lines \cup (csr.mip \cap {1})

\* The write-back of the local mip goes through Csr::write.
MipWrittenBack == Written(csr, "mip", mip)

None == 0

First(order, set) ==
    IF order[1] \in set THEN order[1]
    ELSE IF order[2] \in set THEN order[2]
    ELSE IF order[3] \in set THEN order[3] ELSE None

MOrder == <<11, 3, 7>>
SOrder == <<9, 1, 5>>

\* The interrupt that check_interrupt returns as a trap, None if it returns Ok.
\* In M-mode only M interrupts are looked at; in S-mode with SIE the delegated S
\* interrupts come before the M interrupts, in U-mode after them.
TakenInterrupt ==
    LET pending == mip \cap csr.mie
        m == First(MOrder, pending)
        s == First(SOrder, pending \cap csr.mideleg)
    IN  CASE mode = Machine    -> IF MIE \in csr.mstatus THEN m ELSE None
          [] mode = Supervisor -> IF SIE \in csr.mstatus /\ s # None THEN s ELSE m
          [] mode = User       -> IF m # None THEN m ELSE s
          [] OTHER             -> m

-----------------------------------------------------------------------------
(* Traps and returns, as functions of the CSR file c at that point. *)

\* Mutant of SavedS: SIE stays as it is.
SavedS_keepsSie(status, from) ==
    (status \ {SPIE, SPP})
        \cup (IF SIE \in status THEN {SPIE} ELSE {})
        \cup (IF from % 2 = 1 THEN {SPP} ELSE {})

\* SPIE <- SIE, SIE <- 0, SPP <- the low bit of the interrupted mode
SavedS(status, from) ==
    (status \ {SPIE, SIE, SPP})
        \cup (IF SIE \in status THEN {SPIE} ELSE {})
        \cup (IF from % 2 = 1 THEN {SPP} ELSE {})

\* Mutant of SavedM: SPP is cleared along with MPP.
SavedM_clearsSpp(status, from) ==
    (status \ ({MPIE, MIE, SPP} \cup MPP))
        \cup (IF MIE \in status THEN {MPIE} ELSE {})
        \cup MppBits(from)

\* MPIE <- MIE, MIE <- 0, MPP <- the interrupted mode
SavedM(status, from) ==
    (status \ ({MPIE, MIE} \cup MPP))
        \cup (IF MIE \in status THEN {MPIE} ELSE {})
        \cup MppBits(from)

take_s_trap(c) ==
    /\ csr' = [c EXCEPT !.mstatus = SavedS(@, mode)]
    /\ mode' = Supervisor

take_trap(c) ==
    /\ csr' = [c EXCEPT !.mstatus = SavedM(@, mode)]
    /\ mode' = Machine

\* code is delegated by the register deleg of the CSR file c
Delegated(c, deleg, code) == code \in c[deleg] /\ mode # Machine

handle_trap(c, deleg, code) ==
    IF Delegated(c, deleg, code) THEN take_s_trap(c) ELSE take_trap(c)

\* Mutant of MRET: MPP keeps the mode it held.
MRET_keepsMpp(c) ==
    /\ csr' = [c EXCEPT !.mstatus = (@ \ {MIE}) \cup {MPIE} \cup (IF MPIE \in @ THEN {MIE} ELSE {})]
    /\ mode' = MppOf(c.mstatus)

\* MRET does not look at the current mode.
MRET(c) ==
    /\ csr' = [c EXCEPT !.mstatus =
                  (@ \ ({MIE} \cup MPP)) \cup {MPIE} \cup (IF MPIE \in @ THEN {MIE} ELSE {})]
    /\ mode' = MppOf(c.mstatus)

SRET(c) ==
    /\ csr' = [c EXCEPT !.mstatus =
                  (@ \ {SIE, SPP}) \cup {SPIE} \cup (IF SPIE \in @ THEN {SIE} ELSE {})]
    /\ mode' = IF SPP \in c.mstatus THEN Supervisor ELSE User

-----------------------------------------------------------------------------
(* Cpu::step *)

StepInterrupt ==
    /\ TakenInterrupt # None
    /\ handle_trap(MipWrittenBack, "mideleg", TakenInterrupt)
    /\ UNCHANGED lines

\* The environment-call code of the current mode.
EcallCode == CASE mode = User -> 8 [] mode = Supervisor -> 9 [] OTHER -> 11

StepException(code) ==
    /\ TakenInterrupt = None
    /\ code \in {8, 9, 11} => code = EcallCode
    /\ handle_trap(MipWrittenBack, "medeleg", code)
    /\ UNCHANGED lines

StepMRET == TakenInterrupt = None /\ MRET(MipWrittenBack) /\ UNCHANGED lines
StepSRET == TakenInterrupt = None /\ SRET(MipWrittenBack) /\ UNCHANGED lines

\* A CSR instruction; without the privilege it is an illegal instruction.
StepCsr(op, a, v) ==
    /\ TakenInterrupt = None
    /\ IF check_csr_privilege(a, mode)
       THEN csr' = AfterOp(MipWrittenBack, op, a, v) /\ mode' = mode
       ELSE handle_trap(MipWrittenBack, "medeleg", IllegalInstruction)
    /\ UNCHANGED lines

\* WFI is a no-op like every instruction that touches nothing modelled here.
StepOther ==
    /\ TakenInterrupt = None
    /\ csr' = MipWrittenBack
    /\ UNCHANGED <<mode, lines>>

Step ==
    \/ StepInterrupt \/ StepMRET \/ StepSRET \/ StepOther
    \/ \E code \in Causes : StepException(code)
    \/ \E op \in CsrOps, a \in CsrNames, v \in Operands : StepCsr(op, a, v)

\* A line changes: a device, the timer or a store of an earlier instruction.
LineChange ==
    /\ \E i \in HwInts : lines' = IF i \in lines THEN lines \ {i} ELSE lines \cup {i}
    /\ UNCHANGED <<csr, mode>>
=============================================================================
