----------------------------- MODULE HartTraps -----------------------------
(***************************************************************************)
(* The hart of Hart with history variables: what the last trap of each     *)
(* level interrupted, for how many steps an M interrupt had to wait, and   *)
(* by which instruction M-mode was left.                                   *)
(***************************************************************************)
EXTENDS Hart

VARIABLES
    mframe,   \* what the last trap into M-mode interrupted, or NoFrame
    sframe,   \* the same for S-mode
    deferred, \* steps since an enabled M interrupt has been passed over
    leftBy    \* the return that left M-mode last, "MRET" while in M-mode

vars == <<hartVars, mframe, sframe, deferred, leftBy>>

NoFrame == [valid |-> FALSE, mode |-> User, ie |-> FALSE]
Frame(ieBit) == [valid |-> TRUE, mode |-> mode, ie |-> ieBit \in csr.mstatus]
Frames == [valid : BOOLEAN, mode : Modes, ie : BOOLEAN]

TypeOK ==
    /\ HartTypeOK
    /\ mframe \in Frames /\ sframe \in Frames
    /\ deferred \in 0 .. 2
    /\ leftBy \in {"MRET", "SRET"}

Init ==
    /\ HartInit
    /\ mframe = NoFrame /\ sframe = NoFrame /\ deferred = 0 /\ leftBy = "MRET"

\* The trap that this step takes goes to the mode it ends in.
RecordTrap ==
    IF mode' = Machine THEN mframe' = Frame(MIE) /\ UNCHANGED sframe
                       ELSE sframe' = Frame(SIE) /\ UNCHANGED mframe

\* Software writes to mstatus give up both frames, writes to sstatus the S one.
RecordCsr(a) ==
    IF ~check_csr_privilege(a, mode) THEN RecordTrap
    ELSE /\ mframe' = IF a = "mstatus" THEN NoFrame ELSE mframe
         /\ sframe' = IF a \in {"mstatus", "sstatus"} THEN NoFrame ELSE sframe

\* An M interrupt is pending and enabled although the hart runs below M-mode.
MWaiting == mode # Machine /\ mip \cap csr.mie \cap MInts # {}

CountDeferred ==
    deferred' = IF MWaiting /\ TakenInterrupt \notin MInts
                THEN IF deferred < 2 THEN deferred + 1 ELSE 2
                ELSE 0

\* Only the returns leave M-mode.
RecordLeft(by) ==
    leftBy' = IF mode' = Machine THEN "MRET" ELSE IF mode = Machine THEN by ELSE leftBy

TStep ==
    /\ CountDeferred
    /\ \/ /\ \/ StepInterrupt /\ RecordTrap
             \/ \E code \in Causes : StepException(code) /\ RecordTrap
             \/ StepMRET /\ mframe' = NoFrame /\ UNCHANGED sframe
             \/ \E op \in CsrOps, a \in CsrNames, v \in Operands :
                    StepCsr(op, a, v) /\ RecordCsr(a)
             \/ StepOther /\ UNCHANGED <<mframe, sframe>>
          /\ RecordLeft("MRET")
       \/ StepSRET /\ sframe' = NoFrame /\ UNCHANGED mframe /\ RecordLeft("SRET")

Next ==
    \/ TStep
    \/ LineChange /\ UNCHANGED <<mframe, sframe, deferred, leftBy>>

Spec == Init /\ [][Next]_vars

-----------------------------------------------------------------------------

\* An M interrupt that is enabled in mie cannot be kept waiting: below M-mode at
\* most one other interrupt is taken before it, whatever the guest and the
\* lines do.  This rests on take_s_trap clearing SIE, because check_interrupt
\* looks at the delegated S interrupts first.
MDeferredOnce == deferred <= 1

ReturnStep ==
    /\ StepMRET /\ mframe.valid =>
          mode' = mframe.mode /\ (MIE \in csr'.mstatus <=> mframe.ie)
    /\ StepSRET /\ sframe.valid /\ sframe.mode # Hypervisor =>
          mode' = sframe.mode /\ (SIE \in csr'.mstatus <=> sframe.ie)

\* MRET returns to the mode and the MIE that the last trap into M-mode
\* interrupted, SRET to those of the last trap into S-mode, with any traps and
\* returns of the other level, and writes through the S views, in between.
\* Hypervisor mode is excepted for SRET: SPP has one bit and records it as U.
ReturnRestores == [][ReturnStep]_vars

\* The three ways in which a step may treat the M status bits: it leaves them
\* alone and M-mode is not entered, it stacks them for a trap into M-mode, or it
\* unstacks them, which MRET does in every mode.
Kept == mode' # Machine /\ csr'.mstatus \ SSTATUS_MASK = csr.mstatus \ SSTATUS_MASK
Pushed ==
    /\ mode' = Machine /\ MppOf(csr'.mstatus) = mode
    /\ MIE \notin csr'.mstatus /\ (MPIE \in csr'.mstatus <=> MIE \in csr.mstatus)
Popped ==
    /\ mode' = MppOf(csr.mstatus) /\ MppOf(csr'.mstatus) = User
    /\ MPIE \in csr'.mstatus /\ (MIE \in csr'.mstatus <=> MPIE \in csr.mstatus)

ProtectedStep ==
    mode # Machine =>
        /\ csr'.mie \cap MInts = csr.mie \cap MInts
        /\ csr'.mideleg = csr.mideleg /\ csr'.medeleg = csr.medeleg
        /\ Kept \/ Pushed \/ Popped

\* Below M-mode nothing changes the M interrupt enables or the delegation: the
\* views sie, sip and sstatus are masked and the M registers are refused.  The
\* M status bits change in two ways only, by the stacking of a trap into M-mode
\* and by the unstacking of MRET, which the code lets every mode execute: S and
\* U code can set MIE to MPIE, MPIE to 1 and MPP to U, and go to the mode in MPP.
MachineStateProtected == [][ProtectedStep]_vars

MretStep == StepMRET /\ mode # Machine /\ leftBy = "MRET" => mode' = User

\* MRET has no privilege check, yet it gives code below M-mode no privilege as
\* long as M-mode itself is left by MRET: then MPP is U until the next trap into
\* M-mode, and the MRET ends in U-mode.  Firmware that leaves M-mode by SRET
\* with another MPP opens M-mode to the code that it starts.
MretGainsNothing == [][MretStep]_vars
=============================================================================
