----------------------------- MODULE HartProofs -----------------------------
(***************************************************************************)
(* Proofs about the hart: about HartTraps, for all six interrupts, every   *)
(* set of exception codes and every operand of the CSR instructions, and   *)
(* about LrSc, for any words, counters, tasks and bound.                   *)
(***************************************************************************)
EXTENDS HartTraps, LrSc, TLAPS

\* Right after an M interrupt has been passed over, the hart is in the S-mode
\* trap entry, with SIE clear.
DeferInv ==
    /\ deferred <= 1
    /\ deferred = 1 => mode = Supervisor /\ SIE \notin csr.mstatus

HartInv == TypeOK /\ DeferInv

-----------------------------------------------------------------------------
(* Lemmas about the operators. *)

\* A write to a register leaves a well-formed CSR file.
LEMMA WrittenType ==
    ASSUME NEW c \in CsrFiles, NEW a \in CsrNames, NEW v
    PROVE  Written(c, a, v) \in CsrFiles
<1> USE DEF CsrFiles, Merge
<1>1. CASE a = "sstatus"
  BY <1>1 DEF Written, SSTATUS_MASK, StatusBits
<1>2. CASE a = "sie"
  BY <1>2 DEF Written
<1>3. CASE a = "sip"
  BY <1>3 DEF Written
<1>4. CASE a = "mip"
  BY <1>4 DEF Written
<1>5. CASE a \in {"mstatus", "mie", "mideleg", "medeleg"}
  BY <1>5 DEF Written, Width
<1> QED BY <1>1, <1>2, <1>3, <1>4, <1>5 DEF CsrNames, StoredCsrs

\* The write-back of mip in check_interrupt touches nothing but mip.
LEMMA WriteBackFrame ==
    ASSUME HartTypeOK
    PROVE  /\ MipWrittenBack \in CsrFiles
           /\ MipWrittenBack.mstatus = csr.mstatus
           /\ MipWrittenBack.mie = csr.mie
           /\ MipWrittenBack.mideleg = csr.mideleg
           /\ MipWrittenBack.medeleg = csr.medeleg
BY WrittenType DEF HartTypeOK, CsrTypeOK, MipWrittenBack, CsrNames, StoredCsrs, Written, CsrFiles

\* A CSR instruction leaves a well-formed CSR file.
LEMMA AfterOpType ==
    ASSUME NEW c \in CsrFiles, NEW op \in CsrOps, NEW a \in CsrNames, NEW v
    PROVE  AfterOp(c, op, a, v) \in CsrFiles
BY WrittenType DEF AfterOp, CsrOps

\* A trap ends in M-mode, with the M status bits stacked, or in S-mode with SIE
\* clear; it changes mode and mstatus only.
LEMMA TrapEffect ==
    ASSUME HartTypeOK, NEW deleg, NEW code, handle_trap(MipWrittenBack, deleg, code)
    PROVE  /\ csr' \in CsrFiles
           /\ mode' \in {Supervisor, Machine}
           /\ mode' = Supervisor => /\ mode # Machine
                                    /\ SIE \notin csr'.mstatus
                                    /\ csr'.mstatus \ SSTATUS_MASK = csr.mstatus \ SSTATUS_MASK
           /\ mode' = Machine => Pushed
           /\ csr'.mie = csr.mie
           /\ csr'.mideleg = csr.mideleg /\ csr'.medeleg = csr.medeleg
<1> DEFINE c == MipWrittenBack
<1>1. /\ c \in CsrFiles /\ c.mstatus = csr.mstatus /\ c.mie = csr.mie
      /\ c.mideleg = csr.mideleg /\ c.medeleg = csr.medeleg
  BY WriteBackFrame
<1> HIDE DEF c
<1>2. CASE take_s_trap(c) /\ mode # Machine
  BY <1>1, <1>2 DEF take_s_trap, SavedS, CsrFiles, StatusBits, SSTATUS_MASK, SIE, SPIE, SPP,
     MIE, MPIE, MPP, Supervisor, Machine
<1>3. CASE take_trap(c)
  <2>1. csr'.mstatus = SavedM(csr.mstatus, mode) /\ mode' = Machine
    BY <1>1, <1>3 DEF take_trap, CsrFiles
  <2>2. MppOf(csr'.mstatus) = mode
    BY <2>1 DEF SavedM, MppOf, MppBits, MPP, MIE, MPIE, HartTypeOK, Modes,
       User, Supervisor, Hypervisor, Machine
  <2>3. MIE \notin csr'.mstatus /\ (MPIE \in csr'.mstatus <=> MIE \in csr.mstatus)
    BY <2>1 DEF SavedM, MppBits, MPP, MIE, MPIE
  <2>4. csr' \in CsrFiles /\ mode' = Machine /\ csr'.mie = csr.mie
        /\ csr'.mideleg = csr.mideleg /\ csr'.medeleg = csr.medeleg
    BY <1>1, <1>3 DEF take_trap, SavedM, MppBits, CsrFiles, StatusBits
  <2> QED BY <2>2, <2>3, <2>4 DEF Pushed, Supervisor, Machine
<1> QED BY <1>2, <1>3 DEF handle_trap, Delegated, c

\* check_interrupt never passes over an enabled M interrupt below M-mode,
\* except for an S interrupt in S-mode with SIE.
LEMMA Decision ==
    ASSUME HartTypeOK, MWaiting, TakenInterrupt \notin MInts
    PROVE  mode = Supervisor /\ SIE \in csr.mstatus /\ TakenInterrupt # None
<1> DEFINE m == First(MOrder, mip \cap csr.mie)
           s == First(SOrder, mip \cap csr.mie \cap csr.mideleg)
<1>1. m \in MInts
  BY DEF MWaiting, First, MOrder, MInts
<1>2. m # None
  BY <1>1 DEF MInts, None
<1> HIDE DEF m, s
<1>3. mode \in {User, Supervisor, Hypervisor}
  BY DEF HartTypeOK, Modes, MWaiting
<1>4. TakenInterrupt =
        CASE mode = Machine    -> IF MIE \in csr.mstatus THEN m ELSE None
          [] mode = Supervisor -> IF SIE \in csr.mstatus /\ s # None THEN s ELSE m
          [] mode = User       -> IF m # None THEN m ELSE s
          [] OTHER             -> m
  BY DEF TakenInterrupt, m, s
<1> QED
  BY <1>1, <1>2, <1>3, <1>4 DEF MWaiting, User, Supervisor, Hypervisor, Machine, None

-----------------------------------------------------------------------------
(* The invariant. *)

\* Every step of the hart keeps the CSR file and the mode well formed.
LEMMA StepType ==
    ASSUME HartTypeOK, Step
    PROVE  HartTypeOK'
<1> USE CsrAssumption DEF HartTypeOK, CsrTypeOK
<1>1. ASSUME NEW deleg, NEW code, handle_trap(MipWrittenBack, deleg, code), UNCHANGED lines
      PROVE  HartTypeOK'
  BY <1>1, TrapEffect DEF Modes, HwInts
<1>2. CASE StepInterrupt
  BY <1>1, <1>2 DEF StepInterrupt
<1>3. CASE \E code \in Causes : StepException(code)
  BY <1>1, <1>3 DEF StepException
<1>4. CASE StepMRET
  BY <1>4, WriteBackFrame DEF StepMRET, MRET, MppOf, CsrFiles, StatusBits, Modes, User,
     Supervisor, Hypervisor, Machine, HwInts
<1>5. CASE StepSRET
  BY <1>5, WriteBackFrame DEF StepSRET, SRET, CsrFiles, StatusBits, Modes, HwInts
<1>6. CASE StepOther
  BY <1>6, WriteBackFrame DEF StepOther, HwInts
<1>7. ASSUME NEW op \in CsrOps, NEW a \in CsrNames, NEW v \in Operands, StepCsr(op, a, v)
      PROVE  HartTypeOK'
  BY <1>1, <1>7, WriteBackFrame, AfterOpType DEF StepCsr, HwInts
<1> QED BY <1>2, <1>3, <1>4, <1>5, <1>6, <1>7 DEF Step

\* A step with its history is a step of the hart.
LEMMA TStepIsStep == TStep => Step
BY DEF TStep, Step

\* The frames of the history stay well formed.
LEMMA FrameType ==
    ASSUME TypeOK, TStep
    PROVE  mframe' \in Frames /\ sframe' \in Frames
<1>1. \A ieBit : Frame(ieBit) \in Frames
  BY DEF TypeOK, HartTypeOK, Frame, Frames
<1>2. NoFrame \in Frames
  BY DEF NoFrame, Frames, Modes
<1>3. RecordTrap => mframe' \in Frames /\ sframe' \in Frames
  BY <1>1 DEF RecordTrap, TypeOK
<1>4. \A a : RecordCsr(a) => mframe' \in Frames /\ sframe' \in Frames
  BY <1>2, <1>3 DEF RecordCsr, TypeOK
<1> QED BY <1>2, <1>3, <1>4 DEF TStep, TypeOK

\* So does the record of the return that left M-mode.
LEMMA LeftType ==
    ASSUME TypeOK, TStep
    PROVE  leftBy' \in {"MRET", "SRET"}
BY DEF TStep, RecordLeft, TypeOK

\* The invariant holds initially.
LEMMA InitInv == Init => HartInv
BY CsrAssumption DEF Init, HartInit, CsrInit, HartInv, TypeOK, HartTypeOK, CsrTypeOK, CsrFiles,
   Modes, Machine, Frames, NoFrame, User, DeferInv, StatusBits

\* A step of the hart preserves the invariant.
LEMMA TStepInv ==
    ASSUME HartInv, TStep
    PROVE  HartInv'
<1>1. HartTypeOK'
  BY TStepIsStep, StepType DEF HartInv, TypeOK
<1>2. deferred' \in 0 .. 2
  BY DEF TStep, CountDeferred, HartInv, TypeOK
<1>3. CASE MWaiting /\ TakenInterrupt \notin MInts
  <2>1. mode = Supervisor /\ SIE \in csr.mstatus /\ TakenInterrupt # None
    BY <1>3, Decision DEF HartInv, TypeOK
  <2>2. deferred = 0
    BY <2>1 DEF HartInv, DeferInv, TypeOK
  <2>3. StepInterrupt
    BY <2>1 DEF TStep, StepException, StepMRET, StepSRET, StepCsr, StepOther
  <2>4. TakenInterrupt \in csr.mideleg
    <3> DEFINE s == First(SOrder, mip \cap csr.mie \cap csr.mideleg)
               m == First(MOrder, mip \cap csr.mie)
    <3>1. s # None => s \in csr.mideleg
      BY DEF First, SOrder, None
    <3>2. m \in MInts \cup {None}
      BY DEF First, MOrder, MInts
    <3>3. TakenInterrupt = IF SIE \in csr.mstatus /\ s # None THEN s ELSE m
      BY <2>1 DEF TakenInterrupt, Supervisor, Machine, User
    <3> HIDE DEF s, m
    <3> QED BY <1>3, <2>1, <3>1, <3>2, <3>3
  <2>5. take_s_trap(MipWrittenBack)
    BY <2>1, <2>3, <2>4, WriteBackFrame
       DEF StepInterrupt, handle_trap, Delegated, HartInv, TypeOK, Supervisor, Machine
  <2>6. mode' = Supervisor /\ SIE \notin csr'.mstatus
    BY <2>3, <2>5, TrapEffect DEF StepInterrupt, take_s_trap, HartInv, TypeOK
  <2>7. deferred' = 1
    BY <1>3, <2>2 DEF TStep, CountDeferred
  <2> QED BY <1>1, <1>2, <2>6, <2>7, FrameType, LeftType DEF HartInv, DeferInv, TypeOK
<1>4. CASE ~(MWaiting /\ TakenInterrupt \notin MInts)
  <2>1. deferred' = 0
    BY <1>4 DEF TStep, CountDeferred
  <2> QED BY <1>1, <1>2, <2>1, FrameType, LeftType DEF HartInv, DeferInv, TypeOK
<1> QED BY <1>3, <1>4

\* HartInv is an invariant.
THEOREM HartInvariant == Spec => []HartInv
<1>1. HartInv /\ [Next]_vars => HartInv'
  <2> SUFFICES ASSUME HartInv, [Next]_vars PROVE HartInv'
    OBVIOUS
  <2>1. CASE TStep
    BY <2>1, TStepInv
  <2>2. CASE LineChange /\ UNCHANGED <<mframe, sframe, deferred, leftBy>>
    BY <2>2 DEF LineChange, HartInv, TypeOK, HartTypeOK, CsrTypeOK, DeferInv
  <2>3. CASE UNCHANGED vars
    BY <2>3 DEF vars, hartVars, HartInv, TypeOK, HartTypeOK, CsrTypeOK, DeferInv
  <2> QED BY <2>1, <2>2, <2>3 DEF Next
<1> QED BY InitInv, <1>1, PTL DEF Spec

\* The CSR file, the mode and the lines keep their types.
THEOREM TypeCorrect == Spec => []TypeOK
BY HartInvariant, PTL DEF HartInv

\* An enabled M interrupt waits for at most one S trap.
THEOREM MInterruptSoon == Spec => []MDeferredOnce
<1>1. HartInv => MDeferredOnce
  BY DEF HartInv, DeferInv, MDeferredOnce
<1> QED BY <1>1, HartInvariant, PTL

-----------------------------------------------------------------------------
(* The action properties. *)

\* A CSR instruction on a view changes the bits of the view only.
LEMMA ViewWrite ==
    ASSUME NEW c \in CsrFiles, NEW op \in CsrOps, NEW a \in {"sstatus", "sie", "sip"}, NEW v
    PROVE  LET d == AfterOp(c, op, a, v) IN
           /\ d.mie \cap MInts = c.mie \cap MInts
           /\ d.mideleg = c.mideleg /\ d.medeleg = c.medeleg
           /\ d.mstatus \ SSTATUS_MASK = c.mstatus \ SSTATUS_MASK
           /\ a # "sstatus" => d.mstatus = c.mstatus
<1>1. ASSUME NEW u
      PROVE  LET d == Written(c, a, u) IN
             /\ d.mie \cap MInts = c.mie \cap MInts
             /\ d.mideleg = c.mideleg /\ d.medeleg = c.medeleg
             /\ d.mstatus \ SSTATUS_MASK = c.mstatus \ SSTATUS_MASK
             /\ a # "sstatus" => d.mstatus = c.mstatus
  <2>1. CASE a = "sstatus"
    BY <2>1 DEF Written, Merge, CsrFiles
  <2>2. CASE a = "sie"
    BY <2>2 DEF Written, Merge, CsrFiles, MInts, SInts
  <2>3. CASE a = "sip"
    BY <2>3 DEF Written, Merge, CsrFiles
  <2> QED BY <2>1, <2>2, <2>3
<1> QED BY <1>1 DEF AfterOp, CsrOps

\* MRET unstacks the M status bits, in every mode.
LEMMA MretPops ==
    ASSUME HartTypeOK, StepMRET
    PROVE  Popped
<1> DEFINE status == csr.mstatus
<1>1. /\ csr'.mstatus = (status \ ({MIE} \cup MPP)) \cup {MPIE} \cup (IF MPIE \in status THEN {MIE} ELSE {})
      /\ mode' = MppOf(status)
  BY WriteBackFrame DEF StepMRET, MRET, CsrFiles
<1> HIDE DEF status
<1>2. MPIE \in csr'.mstatus /\ (MIE \in csr'.mstatus <=> MPIE \in status)
  BY <1>1 DEF MPP, MIE, MPIE
<1>3. MppOf(csr'.mstatus) = User
  BY <1>1 DEF MppOf, MPP, MIE, MPIE, User
<1> QED BY <1>1, <1>2, <1>3 DEF Popped, status

\* One step below M-mode respects the M-level state.
LEMMA ProtectedByStep ==
    ASSUME HartTypeOK, Step, mode # Machine
    PROVE  ProtectedStep
<1>1. ASSUME NEW deleg, NEW code, handle_trap(MipWrittenBack, deleg, code)
      PROVE  ProtectedStep
  BY <1>1, TrapEffect DEF ProtectedStep, Kept, Supervisor, Machine
<1>2. CASE StepInterrupt
  BY <1>1, <1>2 DEF StepInterrupt
<1>3. CASE \E code \in Causes : StepException(code)
  BY <1>1, <1>3 DEF StepException
<1>4. CASE StepMRET
  <2>1. /\ csr'.mie = csr.mie /\ csr'.mideleg = csr.mideleg /\ csr'.medeleg = csr.medeleg
    BY <1>4, WriteBackFrame DEF StepMRET, MRET, CsrFiles
  <2> QED BY <1>4, <2>1, MretPops DEF ProtectedStep
<1>5. CASE StepSRET
  BY <1>5, WriteBackFrame DEF StepSRET, SRET, ProtectedStep, Kept, CsrFiles, SSTATUS_MASK,
     User, Supervisor, Machine
<1>6. CASE StepOther
  BY <1>6, WriteBackFrame DEF StepOther, ProtectedStep, Kept
<1>7. ASSUME NEW op \in CsrOps, NEW a \in CsrNames, NEW v \in Operands, StepCsr(op, a, v)
      PROVE  ProtectedStep
  <2>1. CASE ~check_csr_privilege(a, mode)
    BY <1>1, <1>7, <2>1 DEF StepCsr
  <2>2. CASE check_csr_privilege(a, mode)
    <3>1. a \in {"sstatus", "sie", "sip"}
      BY <2>2 DEF check_csr_privilege, get_csr_privilege, CsrNames, HartTypeOK, Modes,
         User, Supervisor, Hypervisor, Machine
    <3> QED BY <1>7, <2>2, <3>1, ViewWrite, WriteBackFrame DEF StepCsr, ProtectedStep, Kept
  <2> QED BY <2>1, <2>2
<1> QED BY <1>2, <1>3, <1>4, <1>5, <1>6, <1>7 DEF Step

\* Code below M-mode cannot mask M interrupts or change delegation; it changes
\* the M status bits by the stacking of a trap and the unstacking of MRET only.
THEOREM MachineProtected == Spec => MachineStateProtected
<1>1. HartInv /\ [Next]_vars => [ProtectedStep]_vars
  <2> SUFFICES ASSUME HartInv, Next PROVE ProtectedStep
    OBVIOUS
  <2>1. CASE TStep
    BY <2>1, TStepIsStep, ProtectedByStep DEF HartInv, TypeOK, ProtectedStep
  <2>2. CASE LineChange
    BY <2>2 DEF LineChange, ProtectedStep, Kept
  <2> QED BY <2>1, <2>2 DEF Next
<1> QED BY <1>1, HartInvariant, PTL DEF Spec, MachineStateProtected

\* After M-mode has been left by MRET, MPP is U until M-mode is entered again.
LeftInv == mode # Machine /\ leftBy = "MRET" => MppOf(csr.mstatus) = User

\* A step of the hart preserves it: into M-mode there is nothing to show, and
\* below it MPP is changed by MRET only.
LEMMA LeftStep ==
    ASSUME TypeOK, LeftInv, TStep
    PROVE  LeftInv'
<1> SUFFICES ASSUME mode' # Machine, leftBy' = "MRET" PROVE MppOf(csr'.mstatus) = User
  BY DEF LeftInv
<1>0. HartTypeOK
  BY DEF TypeOK
<1>1. CASE StepMRET
  BY <1>0, <1>1, MretPops DEF Popped
<1>2. CASE ~StepMRET /\ mode # Machine
  <2>1. MppOf(csr.mstatus) = User
    BY <1>2 DEF LeftInv, TStep, RecordLeft
  <2>2. ProtectedStep
    BY <1>0, <1>2, TStepIsStep, ProtectedByStep
  <2>3. CASE Kept
    BY <2>1, <2>3 DEF Kept, MppOf, SSTATUS_MASK, SIE, SPIE, SPP
  <2>4. CASE Popped
    BY <2>4 DEF Popped
  <2> QED BY <1>2, <2>2, <2>3, <2>4 DEF ProtectedStep, Pushed
<1>3. CASE ~StepMRET /\ mode = Machine
  <2>1. ASSUME NEW deleg, NEW code, handle_trap(MipWrittenBack, deleg, code) PROVE FALSE
    BY <1>0, <1>3, <2>1, TrapEffect
  <2>2. ~StepInterrupt /\ ~\E code \in Causes : StepException(code)
    BY <2>1 DEF StepInterrupt, StepException
  <2>3. \A op, a, v : ~StepCsr(op, a, v)
    BY <1>3, <2>1 DEF StepCsr
  <2>4. ~StepOther
    BY <1>3 DEF StepOther
  <2>5. leftBy' = "SRET"
    BY <1>3, <2>2, <2>3, <2>4 DEF TStep, RecordLeft
  <2> QED BY <2>5
<1> QED BY <1>1, <1>2, <1>3

\* MRET below M-mode ends in U-mode, unless M-mode was left by SRET: the missing
\* privilege check of MRET gives no privilege away otherwise.
THEOREM MretIsHarmless == Spec => MretGainsNothing
<1>1. Init => LeftInv
  BY DEF Init, HartInit, LeftInv
<1>2. HartInv /\ LeftInv /\ [Next]_vars => LeftInv'
  <2> SUFFICES ASSUME HartInv, LeftInv, [Next]_vars PROVE LeftInv'
    OBVIOUS
  <2>1. CASE TStep
    BY <2>1, LeftStep DEF HartInv
  <2>2. CASE LineChange /\ UNCHANGED <<mframe, sframe, deferred, leftBy>>
    BY <2>2 DEF LineChange, LeftInv
  <2>3. CASE UNCHANGED vars
    BY <2>3 DEF vars, hartVars, LeftInv
  <2> QED BY <2>1, <2>2, <2>3 DEF Next
<1>3. HartInv /\ LeftInv => MretStep
  <2> SUFFICES ASSUME HartInv, LeftInv, StepMRET, mode # Machine, leftBy = "MRET"
               PROVE  mode' = User
    BY DEF MretStep
  <2> QED BY MretPops DEF HartInv, TypeOK, Popped, LeftInv
<1> QED BY <1>1, <1>2, <1>3, HartInvariant, PTL DEF Spec, MretGainsNothing

-----------------------------------------------------------------------------
(* Traps and returns. *)

\* What a frame records is what the status register still holds.
FrameInv ==
    /\ mframe.valid => /\ MppOf(csr.mstatus) = mframe.mode
                       /\ MPIE \in csr.mstatus <=> mframe.ie
    /\ sframe.valid => /\ sframe.mode # Machine
                       /\ SPP \in csr.mstatus <=> sframe.mode = Supervisor
                       /\ SPIE \in csr.mstatus <=> sframe.ie

\* Frames survive a step that leaves their status bits alone.
LEMMA FrameKept ==
    ASSUME FrameInv,
           mframe'.valid => mframe' = mframe /\ csr'.mstatus \ SSTATUS_MASK = csr.mstatus \ SSTATUS_MASK,
           sframe'.valid => /\ sframe' = sframe
                            /\ SPP \in csr'.mstatus <=> SPP \in csr.mstatus
                            /\ SPIE \in csr'.mstatus <=> SPIE \in csr.mstatus
    PROVE  FrameInv'
<1>1. mframe'.valid => (MPIE \in csr'.mstatus <=> MPIE \in csr.mstatus)
  BY DEF SSTATUS_MASK, MPIE, SIE, SPIE, SPP
<1>2. mframe'.valid => MppOf(csr'.mstatus) = MppOf(csr.mstatus)
  BY DEF SSTATUS_MASK, MppOf, SIE, SPIE, SPP
<1> QED BY <1>1, <1>2 DEF FrameInv

\* A trap records what it interrupts; the frame of the other level is kept.
LEMMA TrapFrames ==
    ASSUME TypeOK, FrameInv, NEW deleg, NEW code,
           handle_trap(MipWrittenBack, deleg, code), RecordTrap
    PROVE  FrameInv'
<1> DEFINE c == MipWrittenBack
<1>1. c \in CsrFiles /\ c.mstatus = csr.mstatus
  BY WriteBackFrame DEF TypeOK
<1> HIDE DEF c
<1>2. CASE take_s_trap(c) /\ mode # Machine
  <2>1. csr'.mstatus = SavedS(csr.mstatus, mode) /\ mode' = Supervisor
    BY <1>1, <1>2 DEF take_s_trap, CsrFiles
  <2>2. sframe' = Frame(SIE) /\ mframe' = mframe
    BY <2>1 DEF RecordTrap, Supervisor, Machine
  <2>3. /\ SPP \in csr'.mstatus <=> mode = Supervisor
        /\ SPIE \in csr'.mstatus <=> SIE \in csr.mstatus
        /\ csr'.mstatus \ SSTATUS_MASK = csr.mstatus \ SSTATUS_MASK
    BY <1>2, <2>1 DEF SavedS, SSTATUS_MASK, SIE, SPIE, SPP, TypeOK, HartTypeOK, Modes,
       User, Supervisor, Hypervisor, Machine
  <2>4. MPIE \in csr'.mstatus <=> MPIE \in csr.mstatus
    BY <2>3 DEF SSTATUS_MASK, MPIE, SIE, SPIE, SPP
  <2>5. MppOf(csr'.mstatus) = MppOf(csr.mstatus)
    BY <2>3 DEF SSTATUS_MASK, MppOf, SIE, SPIE, SPP
  <2> QED BY <1>2, <2>2, <2>3, <2>4, <2>5 DEF FrameInv, Frame
<1>3. CASE take_trap(c)
  <2>1. csr'.mstatus = SavedM(csr.mstatus, mode) /\ mode' = Machine
    BY <1>1, <1>3 DEF take_trap, CsrFiles
  <2>2. mframe' = Frame(MIE) /\ sframe' = sframe
    BY <2>1 DEF RecordTrap
  <2>3. MppOf(csr'.mstatus) = mode
    BY <2>1 DEF SavedM, MppOf, MppBits, MPP, MIE, MPIE, TypeOK, HartTypeOK, Modes,
       User, Supervisor, Hypervisor, Machine
  <2>4. /\ MPIE \in csr'.mstatus <=> MIE \in csr.mstatus
        /\ SPP \in csr'.mstatus <=> SPP \in csr.mstatus
        /\ SPIE \in csr'.mstatus <=> SPIE \in csr.mstatus
    BY <2>1 DEF SavedM, MppBits, MPP, MIE, MPIE, SPP, SPIE
  <2> QED BY <2>2, <2>3, <2>4 DEF FrameInv, Frame
<1> QED BY <1>2, <1>3 DEF handle_trap, Delegated, c

\* A write to a register other than mstatus and sstatus leaves mstatus alone.
LEMMA StatusFrame ==
    ASSUME NEW c \in CsrFiles, NEW op \in CsrOps,
           NEW a \in CsrNames \ {"mstatus", "sstatus"}, NEW v
    PROVE  AfterOp(c, op, a, v).mstatus = c.mstatus
<1>1. ASSUME NEW u PROVE Written(c, a, u).mstatus = c.mstatus
  BY DEF Written, Merge, CsrFiles, CsrNames, StoredCsrs
<1> QED BY <1>1 DEF AfterOp, CsrOps

\* Every step keeps the frames in agreement with the status register.
LEMMA FrameStep ==
    ASSUME TypeOK, FrameInv, TStep
    PROVE  FrameInv'
<1> USE DEF TypeOK
<1>1. CASE StepInterrupt /\ RecordTrap
  BY <1>1, TrapFrames DEF StepInterrupt
<1>2. CASE \E code \in Causes : StepException(code) /\ RecordTrap
  BY <1>2, TrapFrames DEF StepException
<1>3. CASE StepMRET /\ mframe' = NoFrame /\ UNCHANGED sframe
  <2>1. /\ SPP \in csr'.mstatus <=> SPP \in csr.mstatus
        /\ SPIE \in csr'.mstatus <=> SPIE \in csr.mstatus
    BY <1>3, WriteBackFrame DEF StepMRET, MRET, CsrFiles, MPP, MIE, MPIE, SPP, SPIE
  <2> QED BY <1>3, <2>1, FrameKept DEF NoFrame
<1>4. CASE StepSRET /\ sframe' = NoFrame /\ UNCHANGED mframe
  <2>1. csr'.mstatus \ SSTATUS_MASK = csr.mstatus \ SSTATUS_MASK
    BY <1>4, WriteBackFrame DEF StepSRET, SRET, CsrFiles, SSTATUS_MASK
  <2> QED BY <1>4, <2>1, FrameKept DEF NoFrame
<1>5. ASSUME NEW op \in CsrOps, NEW a \in CsrNames, NEW v \in Operands,
             StepCsr(op, a, v), RecordCsr(a)
      PROVE  FrameInv'
  <2>1. CASE ~check_csr_privilege(a, mode)
    BY <1>5, <2>1, TrapFrames DEF StepCsr, RecordCsr
  <2>2. CASE check_csr_privilege(a, mode) /\ a = "mstatus"
    BY <1>5, <2>2, FrameKept DEF RecordCsr, NoFrame
  <2>3. CASE check_csr_privilege(a, mode) /\ a = "sstatus"
    <3>1. csr'.mstatus \ SSTATUS_MASK = csr.mstatus \ SSTATUS_MASK
      BY <1>5, <2>3, ViewWrite, WriteBackFrame DEF StepCsr
    <3> QED BY <1>5, <2>3, <3>1, FrameKept DEF RecordCsr, NoFrame
  <2>4. CASE check_csr_privilege(a, mode) /\ a \notin {"mstatus", "sstatus"}
    <3>1. csr'.mstatus = csr.mstatus
      BY <1>5, <2>4, StatusFrame, WriteBackFrame DEF StepCsr
    <3> QED BY <1>5, <2>4, <3>1, FrameKept DEF RecordCsr
  <2> QED BY <2>1, <2>2, <2>3, <2>4
<1>6. CASE StepOther /\ UNCHANGED <<mframe, sframe>>
  BY <1>6, FrameKept, WriteBackFrame DEF StepOther
<1> QED BY <1>1, <1>2, <1>3, <1>4, <1>5, <1>6 DEF TStep

\* MRET and SRET undo the trap they belong to, whatever happened in between.
THEOREM ReturnUndoesTrap == Spec => ReturnRestores
<1>1. Init => FrameInv
  BY DEF Init, NoFrame, FrameInv
<1>2. HartInv /\ FrameInv /\ [Next]_vars => FrameInv'
  <2> SUFFICES ASSUME HartInv, FrameInv, [Next]_vars PROVE FrameInv'
    OBVIOUS
  <2>1. CASE TStep
    BY <2>1, FrameStep DEF HartInv
  <2>2. CASE LineChange /\ UNCHANGED <<mframe, sframe, deferred, leftBy>>
    BY <2>2 DEF LineChange, FrameInv
  <2>3. CASE UNCHANGED vars
    BY <2>3 DEF vars, hartVars, FrameInv
  <2> QED BY <2>1, <2>2, <2>3 DEF Next
<1>3. HartInv /\ FrameInv => ReturnStep
  <2> SUFFICES ASSUME HartInv, FrameInv PROVE ReturnStep
    OBVIOUS
  <2>1. ASSUME StepMRET, mframe.valid
        PROVE  mode' = mframe.mode /\ (MIE \in csr'.mstatus <=> mframe.ie)
    BY <2>1, WriteBackFrame
       DEF StepMRET, MRET, FrameInv, HartInv, TypeOK, CsrFiles, MPP, MIE, MPIE
  <2>2. ASSUME StepSRET, sframe.valid, sframe.mode # Hypervisor
        PROVE  mode' = sframe.mode /\ (SIE \in csr'.mstatus <=> sframe.ie)
    <3>1. sframe.mode \in {User, Supervisor}
      BY <2>2 DEF FrameInv, HartInv, TypeOK, Frames, Modes
    <3> QED
      BY <2>2, <3>1, WriteBackFrame
         DEF StepSRET, SRET, FrameInv, HartInv, TypeOK, CsrFiles, SIE, SPIE, SPP,
             User, Supervisor
  <2> QED BY <2>1, <2>2 DEF ReturnStep
<1> QED BY <1>1, <1>2, <1>3, HartInvariant, PTL DEF Spec, ReturnRestores

-----------------------------------------------------------------------------
(* The reservation.                                                        *)

LrScInv == LrScTypeOK /\ ReservationHolds /\ CountersExact /\ ReservationOwned

\* Initially nothing is reserved.
LEMMA LrScInitInv == LrScInit => LrScInv
<1> SUFFICES ASSUME LrScInit PROVE LrScInv
  OBVIOUS
<1>1. mem \in [Counters -> 0 .. MaxAdds] /\ mem = adds
  BY LrScAssumption DEF LrScInit
<1>2. LrScTypeOK
  BY <1>1 DEF LrScInit, LrScTypeOK
<1>3. ReservationHolds /\ ReservationOwned
  BY DEF LrScInit, ReservationHolds, ReservationOwned
<1> QED BY <1>1, <1>2, <1>3 DEF LrScInv, CountersExact

\* LR of cpu.rs reserves for the running task and records the current value.
LEMMA LRInv ==
  ASSUME LrScInv, NEW w \in Words, ~handler, LR(w)
  PROVE  LrScInv'
<1> DEFINE l == [at |-> w, value |-> IF w \in Counters THEN mem[w] ELSE 0]
<1>1. l \in Loads /\ l.at = w /\ (w \in Counters => l.value = mem[w])
  BY LrScAssumption DEF LrScInv, LrScTypeOK, Loads
<1>2. loaded' = [loaded EXCEPT ![task] = {l}]
  BY DEF LR
<1> HIDE DEF l
<1>3. LrScTypeOK'
  BY <1>1, <1>2 DEF LrScInv, LrScTypeOK, LR, set_reservation, DWords
<1>4. ReservationHolds' /\ CountersExact'
  BY DEF LrScInv, LR, ReservationHolds, CountersExact
<1>5. loaded'[task'] = {l} /\ reservation' = {DW(l.at)} /\ ~handler' /\ mem' = mem
  BY <1>1, <1>2 DEF LrScInv, LrScTypeOK, LR, set_reservation
<1>6. ReservationOwned'
  BY <1>1, <1>5 DEF ReservationOwned
<1> QED BY <1>3, <1>4, <1>6 DEF LrScInv

\* An addition keeps the type of the counters.
LEMMA AddedType ==
  ASSUME NEW f \in [Counters -> 0 .. MaxAdds], NEW w \in Words,
         w \in Counters => f[w] < MaxAdds
  PROVE  Added(f, w) \in [Counters -> 0 .. MaxAdds]
  BY LrScAssumption DEF Added

\* SC of cpu.rs: it stores only while the loaded value is still the current one,
\* and clears the reservation in any case.
LEMMA SCInv ==
  ASSUME LrScInv, NEW l \in Loads, ~handler, SC(l)
  PROVE  LrScInv'
<1>1. reservation' = {}
  BY DEF SC, clear_reservation
<1>2. mem' = adds' /\ mem' \in [Counters -> 0 .. MaxAdds]
  <2>1. CASE check_reservation(l.at) /\ l.at \in Counters
    <3>1. PICK k \in Loads : loaded[task] = {k} /\ (k.at \in Counters => k.value = mem[k.at])
      BY <2>1 DEF LrScInv, ReservationOwned, check_reservation
    <3>2. k = l /\ l.value = mem[l.at]
      BY <2>1, <3>1 DEF SC
    <3>3. mem' = Added(mem, l.at) /\ adds' = Added(adds, l.at)
      BY <2>1, <3>2 DEF SC, Added
    <3>4. l.at \in Words
      BY DEF Loads
    <3>5. Added(mem, l.at) \in [Counters -> 0 .. MaxAdds]
      BY <2>1, <3>4, AddedType DEF LrScInv, LrScTypeOK, SC, Room
    <3> QED BY <3>3, <3>5 DEF LrScInv, CountersExact
  <2>2. CASE check_reservation(l.at) /\ l.at \notin Counters
    BY <2>2 DEF SC, Added, LrScInv, LrScTypeOK, CountersExact
  <2>3. CASE ~check_reservation(l.at)
    BY <2>3 DEF SC, LrScInv, LrScTypeOK, CountersExact
  <2> QED BY <2>1, <2>2, <2>3
<1>3. LrScTypeOK'
  BY <1>1, <1>2 DEF LrScInv, LrScTypeOK, SC
<1> QED BY <1>1, <1>2, <1>3 DEF LrScInv, ReservationHolds, CountersExact, ReservationOwned

\* AMO of cpu.rs adds on its own and clears the reservation.
LEMMA AMOInv ==
  ASSUME LrScInv, NEW w \in Words, AMO(w)
  PROVE  LrScInv'
<1>1. reservation' = {} /\ mem' = adds'
  BY DEF AMO, clear_reservation, LrScInv, CountersExact
<1>2. mem' \in [Counters -> 0 .. MaxAdds]
  BY AddedType DEF AMO, Room, LrScInv, LrScTypeOK
<1>3. LrScTypeOK'
  BY <1>1, <1>2 DEF LrScInv, LrScTypeOK, AMO, Wrote
<1> QED BY <1>1, <1>3 DEF LrScInv, ReservationHolds, CountersExact, ReservationOwned

\* A step that clears the reservation and leaves counters and loads alone:
\* stores, traps and returns of cpu.rs.
LEMMA ClearInv ==
  ASSUME LrScInv, reservation' = {}, UNCHANGED <<mem, loaded, adds>>,
         handler' \in BOOLEAN, task' \in Tasks,
         since' \subseteq {"store", "amo", "cbo", "ad", "trap", "return"}
  PROVE  LrScInv'
  BY DEF LrScInv, LrScTypeOK, ReservationHolds, CountersExact, ReservationOwned

\* cbo.zero and the page walker write without clearing the reservation.
LEMMA SilentInv ==
  ASSUME LrScInv, UNCHANGED <<reservation, mem, handler, guestVars>>,
         since' \in {since, since \cup {"cbo"}, since \cup {"ad"}}
  PROVE  LrScInv'
<1>1. LrScTypeOK' /\ ReservationHolds' /\ CountersExact'
  BY DEF LrScInv, LrScTypeOK, ReservationHolds, CountersExact, guestVars
<1>2. ReservationOwned'
  BY DEF LrScInv, ReservationOwned, guestVars
<1> QED BY <1>1, <1>2 DEF LrScInv

\* The whole invariant holds for every guest: a reservation belongs to the
\* running task, whose loaded value is current.
THEOREM LrScInvariant == LrScSpec => []LrScInv
<1>1. LrScInv /\ [LrScNext]_lrscVars => LrScInv'
  <2> SUFFICES ASSUME LrScInv, [LrScNext]_lrscVars PROVE LrScInv'
    OBVIOUS
  <2>1. ASSUME NEW w \in Words, ~handler, LR(w) PROVE LrScInv'
    BY <2>1, LRInv
  <2>2. ASSUME NEW l \in Loads, ~handler, SC(l) PROVE LrScInv'
    BY <2>2, SCInv
  <2>3. ASSUME NEW w \in Words, AMO(w) PROVE LrScInv'
    BY <2>3, AMOInv
  <2>4. ASSUME NEW set \in SUBSET Others, Store(set) PROVE LrScInv'
    BY <2>4, ClearInv DEF Store, clear_reservation, Wrote, guestVars, LrScInv, LrScTypeOK
  <2>5. ASSUME NEW set \in SUBSET Others, CboZero(set) PROVE LrScInv'
    BY <2>5, SilentInv DEF CboZero, Wrote
  <2>6. ASSUME NEW d \in Others, AdUpdate(d) PROVE LrScInv'
    BY <2>6, SilentInv DEF AdUpdate, Wrote
  <2>7. ASSUME NEW t \in Tasks, Return(t) PROVE LrScInv'
    BY <2>7, ClearInv DEF Return, clear_reservation, LrScInv, LrScTypeOK
  <2>8. CASE Trap
    BY <2>8, ClearInv DEF Trap, clear_reservation, guestVars, LrScInv, LrScTypeOK
  <2>9. CASE UNCHANGED lrscVars
    BY <2>9, SilentInv DEF lrscVars
  <2> QED BY <2>1, <2>2, <2>3, <2>4, <2>5, <2>6, <2>7, <2>8, <2>9 DEF LrScNext, Instruction
<1> QED BY LrScInitInv, <1>1, PTL DEF LrScSpec

\* The state of the reservation machinery of cpu.rs keeps its type.
THEOREM LrScTypeCorrect == LrScSpec => []LrScTypeOK
  BY LrScInvariant, PTL DEF LrScInv

\* A held reservation has seen no store, AMO, SC, trap or return since its LR.
THEOREM ReservationSound == LrScSpec => []ReservationHolds
  BY LrScInvariant, PTL DEF LrScInv

\* LR/SC additions of any number of preempted tasks lose no update.
THEOREM NoLostAddition == LrScSpec => []CountersExact
  BY LrScInvariant, PTL DEF LrScInv

\* An SC can only succeed on the LR of the task that runs: a valid reservation
\* is for the word that this task has loaded, with the value still in memory.
THEOREM ReservationBelongs == LrScSpec => []ReservationOwned
  BY LrScInvariant, PTL DEF LrScInv
=============================================================================
