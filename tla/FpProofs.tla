------------------------------ MODULE FpProofs ------------------------------
(***************************************************************************)
(* Proofs about FpTasks, for any registers and tasks.                      *)
(***************************************************************************)
EXTENDS FpTasks, TLAPS

StatusFs == {Off, Clean, Dirty}
KnownSet == [fmt : {"S"}, v : Word] \cup [fmt : {"D"}, v : Content]

FpTypeOK ==
    /\ f_regs \in [FReg -> Content] /\ fs \in StatusFs /\ fcsr \in Fcsr
    /\ mode \in {"user", "illegal", "interrupt"}
    /\ cur \in Task
    /\ status \in [Task -> [fs : StatusFs, sd : BOOLEAN]]
    /\ mem \in [Task -> Context]
    /\ own \in [Task -> [f : [FReg -> KnownSet], c : Fcsr]]

\* The registers f are those that the history k tells of.
RegsMatch(f, k) == \A r \in FReg : Holds(f[r], k[r])

\* The state of the unit as the current task left it.
LiveFs == IF mode = "user" THEN fs ELSE status[cur].fs

\* The current task: the unit holds its context as soon as FS is on, and while
\* FS is Clean the saved registers still are the task's, so that not saving
\* them at a switch loses nothing.
CurrentKept ==
    /\ LiveFs # Off => RegsMatch(f_regs, own[cur].f) /\ fcsr = own[cur].c
    /\ LiveFs = Clean => RegsMatch(mem[cur].f, own[cur].f)
    /\ LiveFs = Off => mem[cur] = Fresh
    /\ mode # "user" /\ status[cur].fs = Dirty => status[cur].sd

\* The other tasks: nobody is left Dirty, and what is saved is the task's.
OthersKept ==
    \A t \in Task \ {cur} :
        /\ status[t].fs # Dirty
        /\ status[t].fs = Off => mem[t] = Fresh
        /\ status[t].fs = Clean => RegsMatch(mem[t].f, own[t].f) /\ mem[t].c = own[t].c

FpInv == FpTypeOK /\ CurrentKept /\ OthersKept

-----------------------------------------------------------------------------
\* An OP-FP or fused instruction that writes f has a format, and the widening
\* FCVT.D.S writes a double.
LEMMA EffectFormat ==
  ASSUME NEW e \in Effects, e.dst = "f"
  PROVE  e.fmt \in {"S", "D"} /\ (e.src = "single" => e.fmt = "D")
<1> DEFINE P(x) == x.dst = "f" => x.fmt \in {"S", "D"} /\ (x.src = "single" => x.fmt = "D")
<1>1. ASSUME NEW field PROVE P(Fused(field))
  BY DEF Fused, Effect, Undefined
<1>2. ASSUME NEW fmt \in {"S", "D"}, NEW funct3, NEW rs2
      PROVE  /\ P(FArith(fmt)) /\ P(FSqrt(fmt, rs2)) /\ P(FSgnj(fmt, funct3)) /\ P(FMinMax(fmt, funct3))
             /\ P(FCompare(fmt, funct3)) /\ P(FCvtToX(fmt, rs2)) /\ P(FCvtFromX(fmt, rs2))
             /\ P(FCvt(fmt, rs2)) /\ P(FMvOrClass(fmt, funct3, rs2)) /\ P(FMvFromX(fmt, funct3, rs2))
             /\ P(Undefined)
  BY DEF FArith, FSqrt, FSgnj, FMinMax, FCompare, FCvtToX, FCvtFromX, FCvt, FMvOrClass, FMvFromX,
         When, Effect, Undefined, Bits
<1>3. ASSUME NEW funct7, NEW funct3, NEW rs2 PROVE P(OpFp(funct7, funct3, rs2))
  <2>1. Format(funct7) \in {"S", "D"}
    BY DEF Format
  <2> HIDE DEF P
  <2> QED BY <1>2, <2>1 DEF OpFp
<1> HIDE DEF P
<1>4. \/ \E funct7 \in 0 .. 127, funct3 \in 0 .. 7, rs2 \in 0 .. 31 : e = OpFp(funct7, funct3, rs2)
      \/ \E field \in 0 .. 3 : e = Fused(field)
  BY DEF Effects
<1>5. P(e)
  BY <1>1, <1>3, <1>4
<1> QED BY <1>5 DEF P

\* Every single that an instruction produces is boxed.
LEMMA OutcomesBoxed ==
  ASSUME NEW e \in Effects, e.dst = "f", NEW a \in Content, NEW b \in Content,
         NEW c \in Outcomes(e, a, b)
  PROVE  c \in Results(e.fmt) /\ e.fmt \in {"S", "D"}
<1>1. e.fmt \in {"S", "D"} /\ (e.src = "single" => e.fmt = "D")
  BY EffectFormat
<1>2. a.lo \in Word /\ unbox_f32(a) \in Word /\ unbox_f32(b) \in Word
  BY DEF Content, unbox_f32, Word, NaN
<1> DEFINE words == {unbox_f32(a), unbox_f32(b)}
<1>3. words \subseteq Word
  BY <1>2
<1>4. CASE e.src = "f" /\ e.fmt = "S"
  <2>1. c \in {box_f32(w) : w \in IF NaN \in words THEN {NaN} ELSE Word}
    BY <1>4 DEF Outcomes
  <2> QED BY <1>4, <2>1 DEF Results, Word
<1>5. CASE e.src = "minmax" /\ e.fmt = "S"
  <2>1. c \in {box_f32(w) : w \in IF words = {NaN} THEN {NaN} ELSE words \ {NaN}}
    BY <1>5 DEF Outcomes
  <2> QED BY <1>3, <1>5, <2>1 DEF Results, Word
<1>6. CASE e.src = "raw"
  <2>1. c = box_f32(a.lo)
    BY <1>6 DEF Outcomes
  <2> QED BY <1>1, <1>2, <2>1 DEF Results, Content, box_f32
<1>7. CASE e.src = "single"
  <2>1. c = [boxed |-> FALSE, lo |-> "num"]
    BY <1>1, <1>7 DEF Outcomes
  <2> QED BY <1>1, <1>7, <2>1 DEF Results, Content, Word
<1>8. CASE e.src \notin {"raw", "single"} /\ ~(e.src \in {"f", "minmax"} /\ e.fmt = "S")
  BY <1>1, <1>8 DEF Outcomes
<1> QED BY <1>1, <1>4, <1>5, <1>6, <1>7, <1>8

\* What an instruction writes is what the task reads back.
LEMMA WrittenHolds ==
  ASSUME NEW fmt \in {"S", "D"}, NEW c \in Results(fmt)
  PROVE  c \in Content /\ Known(fmt, c) \in KnownSet /\ Holds(c, Known(fmt, c))
<1>1. CASE fmt = "S"
  <2>1. PICK w \in Word : c = [boxed |-> TRUE, lo |-> w]
    BY <1>1 DEF Results, box_f32
  <2> QED BY <1>1, <2>1 DEF Known, KnownSet, Holds, unbox_f32, Content
<1>2. CASE fmt = "D"
  BY <1>2 DEF Results, Known, KnownSet, Holds
<1> QED BY <1>1, <1>2

\* A fresh context is what a new program knows of the unit.
LEMMA FreshMatches ==
  /\ Fresh \in Context /\ RegsMatch(Fresh.f, Blank.f) /\ Fresh.c = Blank.c
  /\ Blank \in [f : [FReg -> KnownSet], c : Fcsr]
<1>1. Fresh \in Context
  BY DEF Fresh, Context, Content, Word, Fcsr
<1>2. ASSUME NEW r \in FReg
      PROVE  Known("D", Fresh.f[r]) \in KnownSet /\ Holds(Fresh.f[r], Known("D", Fresh.f[r]))
  BY <1>1, WrittenHolds DEF Results, Context
<1> QED BY <1>1, <1>2 DEF RegsMatch, Blank, Context

-----------------------------------------------------------------------------
\* At reset nobody has used the unit.
LEMMA InitInv == Init => FpInv
<1> SUFFICES ASSUME Init PROVE FpInv
  OBVIOUS
<1>1. FpTypeOK
  BY FreshMatches DEF Init, FpInit, FpTypeOK, StatusFs, Content, Word, Fcsr
<1>2. CurrentKept /\ OthersKept
  BY DEF Init, FpInit, CurrentKept, OthersKept, LiveFs, Off, Clean, Dirty
<1> QED BY <1>1, <1>2 DEF FpInv

\* An instruction of the current task leaves what the others have alone.
LEMMA OthersAlone ==
  ASSUME FpInv, UNCHANGED <<cur, status, mem>>,
         \A t \in Task \ {cur} : own'[t] = own[t]
  PROVE  OthersKept'
  BY DEF FpInv, OthersKept, RegsMatch

\* A write of a register by an instruction of the current task, all other
\* registers being those the task knows.
LEMMA WriteKept ==
  ASSUME FpInv, mode = "user", NEW rd \in FReg, NEW fmt \in {"S", "D"}, NEW c \in Results(fmt),
         LoadFp(rd, c), fs # Off, Wrote(rd, fmt, c), UNCHANGED <<mode, cur, status, mem>>
  PROVE  FpInv'
<1>1. c \in Content /\ Known(fmt, c) \in KnownSet /\ Holds(c, Known(fmt, c))
  BY WrittenHolds
<1> DEFINE k == Known(fmt, c)
<1>2. own' = [own EXCEPT ![cur].f[rd] = k] /\ k \in KnownSet
  BY <1>1 DEF Wrote
<1> HIDE DEF k
<1>3. FpTypeOK'
  BY <1>1, <1>2 DEF FpInv, FpTypeOK, LoadFp, set_fs_dirty, StatusFs
<1>4. /\ own'[cur].f = [own[cur].f EXCEPT ![rd] = k] /\ own'[cur].c = own[cur].c
      /\ \A t \in Task \ {cur} : own'[t] = own[t]
  BY <1>2 DEF FpInv, FpTypeOK
<1>5. OthersKept'
  BY <1>4, OthersAlone
<1>6. RegsMatch(f_regs', own'[cur].f)
  BY <1>1, <1>4 DEF FpInv, FpTypeOK, CurrentKept, LiveFs, RegsMatch, LoadFp, k
<1>7. CurrentKept'
  BY <1>4, <1>6 DEF FpInv, CurrentKept, LiveFs, LoadFp, set_fs_dirty, Off, Clean, Dirty
<1> QED BY <1>3, <1>5, <1>7 DEF FpInv

\* OP-FP and the fused operations.
LEMMA UserComputeInv == ASSUME FpInv, UserCompute PROVE FpInv'
<1>1. PICK e \in Effects, rd \in FReg, a \in FReg, b \in FReg :
        /\ mode = "user" /\ UNCHANGED <<mode, cur, status, mem>>
        /\ \E c \in Outcomes(e, f_regs[a], f_regs[b]) : Compute(e, rd, c) /\ Wrote(rd, e.fmt, c)
  BY DEF UserCompute
<1>2. PICK c \in Outcomes(e, f_regs[a], f_regs[b]) : Compute(e, rd, c) /\ Wrote(rd, e.fmt, c)
  BY <1>1
<1>3. f_regs[a] \in Content /\ f_regs[b] \in Content /\ e.dst = "f"
  BY <1>2 DEF FpInv, FpTypeOK, Compute
<1>4. c \in Results(e.fmt) /\ e.fmt \in {"S", "D"}
  BY <1>3, OutcomesBoxed
<1>5. LoadFp(rd, c) /\ fs # Off
  BY <1>2 DEF Compute, LoadFp, Traps
<1> QED BY <1>1, <1>2, <1>4, <1>5, WriteKept

\* Loads, of which those into a unit that is Off adopt the registers.
LEMMA UserLoadInv == ASSUME FpInv, UserLoad PROVE FpInv'
<1>1. PICK rd \in FReg, fmt \in {"S", "D"} :
        /\ mode = "user" /\ UNCHANGED <<mode, cur, status, mem>>
        /\ \E c \in Results(fmt) :
              /\ LoadFp(rd, c)
              /\ IF fs # Off THEN Wrote(rd, fmt, c)
                 ELSE own' = [own EXCEPT ![cur] =
                                 [f |-> [[r \in FReg |-> Known("D", f_regs[r])]
                                         EXCEPT ![rd] = Known(fmt, c)],
                                  c |-> fcsr]]
  BY DEF UserLoad
<1>2. PICK c \in Results(fmt) :
              /\ LoadFp(rd, c)
              /\ IF fs # Off THEN Wrote(rd, fmt, c)
                 ELSE own' = [own EXCEPT ![cur] =
                                 [f |-> [[r \in FReg |-> Known("D", f_regs[r])]
                                         EXCEPT ![rd] = Known(fmt, c)],
                                  c |-> fcsr]]
  BY <1>1
<1>3. CASE fs # Off
  BY <1>1, <1>2, <1>3, WriteKept
<1>4. CASE fs = Off
  <2> DEFINE known == [[r \in FReg |-> Known("D", f_regs[r])] EXCEPT ![rd] = Known(fmt, c)]
  <2>1. own' = [own EXCEPT ![cur] = [f |-> known, c |-> fcsr]]
    BY <1>2, <1>4
  <2>2. c \in Content /\ Known(fmt, c) \in KnownSet /\ Holds(c, Known(fmt, c))
    BY WrittenHolds
  <2>3. \A r \in FReg : Known("D", f_regs[r]) \in KnownSet /\ Holds(f_regs[r], Known("D", f_regs[r]))
    BY WrittenHolds DEF FpInv, FpTypeOK, Results
  <2>4. known \in [FReg -> KnownSet]
    BY <2>2, <2>3
  <2>5. RegsMatch(f_regs', known)
    BY <1>2, <2>2, <2>3 DEF FpInv, FpTypeOK, RegsMatch, LoadFp
  <2> HIDE DEF known
  <2>6. FpTypeOK'
    BY <1>1, <1>2, <2>1, <2>2, <2>4 DEF FpInv, FpTypeOK, LoadFp, set_fs_dirty, StatusFs
  <2>7. own'[cur] = [f |-> known, c |-> fcsr] /\ \A t \in Task \ {cur} : own'[t] = own[t]
    BY <2>1 DEF FpInv, FpTypeOK
  <2>8. OthersKept'
    BY <1>1, <2>7, OthersAlone
  <2>9. CurrentKept'
    BY <1>1, <1>2, <2>5, <2>7 DEF CurrentKept, LiveFs, LoadFp, set_fs_dirty, Off, Clean, Dirty
  <2> QED BY <2>6, <2>8, <2>9 DEF FpInv
<1> QED BY <1>3, <1>4

\* A CSR write of fcsr or of one of its fields.
LEMMA UserWritesFcsrInv == ASSUME FpInv, UserWritesFcsr PROVE FpInv'
<1>1. PICK field \in {"fflags", "frm", "fcsr"}, v \in Fcsr :
        /\ mode = "user" /\ WriteFcsr(field, v) /\ UNCHANGED <<mode, cur, status, mem>>
        /\ own' = IF fs = Off THEN own ELSE
                  CASE field = "fflags" -> [own EXCEPT ![cur].c.flags = v.flags]
                    [] field = "frm" -> [own EXCEPT ![cur].c.rm = v.rm]
                    [] field = "fcsr" -> [own EXCEPT ![cur].c = v]
  BY DEF UserWritesFcsr
<1>2. fcsr' \in Fcsr /\ UNCHANGED <<f_regs, fs>>
  BY <1>1 DEF FpInv, FpTypeOK, WriteFcsr, Fcsr
<1>3. CASE fs = Off
  <2>1. UNCHANGED own
    BY <1>1, <1>3
  <2>2. FpTypeOK'
    BY <1>1, <1>2, <2>1 DEF FpInv, FpTypeOK
  <2>3. OthersKept'
    BY <1>1, <2>1, OthersAlone
  <2>4. CurrentKept'
    BY <1>1, <1>2, <1>3 DEF FpInv, CurrentKept, LiveFs, Off, Clean
  <2> QED BY <2>2, <2>3, <2>4 DEF FpInv
<1>4. CASE fs # Off
  <2>1. own' = [own EXCEPT ![cur].c = fcsr']
    <3>1. fcsr = own[cur].c
      BY <1>1, <1>4 DEF FpInv, CurrentKept, LiveFs
    <3> QED BY <1>1, <1>4, <3>1 DEF FpInv, FpTypeOK, WriteFcsr
  <2>2. FpTypeOK'
    BY <1>1, <1>2, <2>1 DEF FpInv, FpTypeOK
  <2>3. /\ own'[cur].f = own[cur].f /\ own'[cur].c = fcsr'
        /\ \A t \in Task \ {cur} : own'[t] = own[t]
    BY <2>1 DEF FpInv, FpTypeOK
  <2>4. OthersKept'
    BY <1>1, <2>3, OthersAlone
  <2>5. CurrentKept'
    BY <1>1, <1>2, <1>4, <2>3 DEF FpInv, CurrentKept, LiveFs, RegsMatch
  <2> QED BY <2>2, <2>4, <2>5 DEF FpInv
<1> QED BY <1>3, <1>4

\* Entry of the kernel: the saved sstatus tells what FS was, with SD in step.
LEMMA EnterInv ==
  ASSUME FpInv, NEW cause \in {"illegal", "interrupt"}, Enter(cause)
  PROVE  FpInv'
<1>1. FpTypeOK'
  BY DEF FpInv, FpTypeOK, Enter, ReadStatus, WriteStatus, StatusFs, Off
<1>2. /\ status'[cur].fs = fs /\ (status'[cur].fs = Dirty => status'[cur].sd)
      /\ \A t \in Task \ {cur} : status'[t] = status[t]
  BY DEF FpInv, FpTypeOK, Enter, ReadStatus
<1>3. CurrentKept'
  BY <1>2 DEF FpInv, CurrentKept, LiveFs, RegsMatch, Enter
<1>4. OthersKept'
  BY <1>2 DEF FpInv, OthersKept, RegsMatch, Enter
<1> QED BY <1>1, <1>3, <1>4 DEF FpInv

\* The kernel gives a task that has FS Off a fresh context.
LEMMA EnableInv == ASSUME FpInv, Enable PROVE FpInv'
<1>1. mem[cur] = Fresh
  BY DEF FpInv, CurrentKept, LiveFs, Enable
<1>2. FpTypeOK'
  BY FreshMatches DEF FpInv, FpTypeOK, Enable, StatusFs, Context
<1>3. /\ status'[cur].fs = Clean /\ own'[cur] = Blank
      /\ \A t \in Task \ {cur} : status'[t] = status[t] /\ own'[t] = own[t]
  BY DEF FpInv, FpTypeOK, Enable
<1>4. CurrentKept'
  BY <1>1, <1>3, FreshMatches DEF CurrentKept, LiveFs, Enable, Off, Clean, Dirty
<1>5. OthersKept'
  BY <1>3 DEF FpInv, OthersKept, RegsMatch, Enable
<1> QED BY <1>2, <1>4, <1>5 DEF FpInv

\* A new program starts with FS Off and a fresh context.
LEMMA ExecInv == ASSUME FpInv, Exec PROVE FpInv'
<1>1. FpTypeOK'
  BY FreshMatches DEF FpInv, FpTypeOK, Exec, StatusFs
<1>2. /\ status'[cur].fs = Off /\ mem'[cur] = Fresh
      /\ \A t \in Task \ {cur} : status'[t] = status[t] /\ own'[t] = own[t] /\ mem'[t] = mem[t]
  BY DEF FpInv, FpTypeOK, Exec
<1>3. CurrentKept'
  BY <1>2 DEF CurrentKept, LiveFs, Exec, Off, Clean, Dirty
<1>4. OthersKept'
  BY <1>2 DEF FpInv, OthersKept, RegsMatch, Exec
<1> QED BY <1>1, <1>3, <1>4 DEF FpInv

\* Return to the task writes the saved sstatus back.
LEMMA ReturnInv == ASSUME FpInv, Return PROVE FpInv'
<1>1. FpTypeOK'
  BY DEF FpInv, FpTypeOK, Return, WriteStatus, StatusFs
<1>2. CurrentKept' /\ OthersKept'
  BY DEF FpInv, CurrentKept, OthersKept, LiveFs, RegsMatch, Return, WriteStatus
<1> QED BY <1>1, <1>2 DEF FpInv

\* A switch saves what is Dirty; what it does not save is still in memory.
LEMMA SwitchInv == ASSUME FpInv, NEW t \in Task, Switch(t) PROVE FpInv'
<1> DEFINE saves == status[cur].sd /\ status[cur].fs = Dirty
<1>1. /\ mode = "interrupt" /\ t # cur /\ cur' = t /\ cur \in Task
      /\ UNCHANGED <<fs, mode>>
  BY DEF Switch, FpInv, FpTypeOK
<1>2. status[cur].fs \in StatusFs /\ (saves <=> status[cur].fs = Dirty)
  BY <1>1 DEF FpInv, FpTypeOK, CurrentKept
<1>3. Now \in Context /\ status[t].fs \in {Off, Clean}
  BY <1>1 DEF FpInv, FpTypeOK, Now, Context, OthersKept, StatusFs
<1>4. /\ mem' = IF saves THEN [mem EXCEPT ![cur] = Now] ELSE mem
      /\ own' = IF saves \/ status[cur].fs = Off THEN own ELSE [own EXCEPT ![cur].c = mem[cur].c]
      /\ status' = [u \in Task |->
                      IF (u = cur /\ saves) \/ (u = t /\ status[t].fs # Off)
                      THEN [status[u] EXCEPT !.fs = Clean] ELSE status[u]]
  BY DEF Switch
<1>5. IF status[t].fs # Off THEN f_regs' = mem[t].f /\ fcsr' = mem[t].c
      ELSE UNCHANGED <<f_regs, fcsr>>
  BY DEF Switch
<1> HIDE DEF saves
<1>6. FpTypeOK'
  <2>1. mem' \in [Task -> Context]
    BY <1>3, <1>4 DEF FpInv, FpTypeOK
  <2>2. own' \in [Task -> [f : [FReg -> KnownSet], c : Fcsr]]
    BY <1>4 DEF FpInv, FpTypeOK, Context
  <2>3. status' \in [Task -> [fs : StatusFs, sd : BOOLEAN]]
    BY <1>4 DEF FpInv, FpTypeOK, StatusFs
  <2>4. f_regs' \in [FReg -> Content] /\ fcsr' \in Fcsr
    BY <1>5 DEF FpInv, FpTypeOK, Context
  <2> QED BY <1>1, <2>1, <2>2, <2>3, <2>4 DEF FpInv, FpTypeOK
<1>7. /\ status'[t].fs = status[t].fs /\ mem'[t] = mem[t] /\ own'[t] = own[t]
      /\ \A u \in Task \ {t, cur} : status'[u] = status[u] /\ mem'[u] = mem[u] /\ own'[u] = own[u]
  BY <1>1, <1>3, <1>4 DEF FpInv, FpTypeOK
<1>8. CurrentKept'
  BY <1>1, <1>3, <1>5, <1>7 DEF FpInv, CurrentKept, OthersKept, LiveFs, RegsMatch, Off, Clean, Dirty
<1>9. /\ status'[cur].fs # Dirty
      /\ status'[cur].fs = Off => mem'[cur] = Fresh
      /\ status'[cur].fs = Clean => RegsMatch(mem'[cur].f, own'[cur].f) /\ mem'[cur].c = own'[cur].c
  <2>1. CASE saves
    <3>1. mem'[cur] = Now /\ own'[cur] = own[cur] /\ status'[cur].fs = Clean
      BY <1>1, <1>4, <2>1 DEF FpInv, FpTypeOK
    <3> QED BY <1>1, <1>2, <2>1, <3>1 DEF FpInv, CurrentKept, LiveFs, RegsMatch, Now, Off, Clean, Dirty
  <2>2. CASE status[cur].fs = Off
    <3>1. mem'[cur] = mem[cur] /\ status'[cur] = status[cur]
      BY <1>1, <1>2, <1>4, <2>2 DEF FpInv, FpTypeOK, Off, Dirty
    <3> QED BY <1>1, <2>2, <3>1 DEF FpInv, CurrentKept, LiveFs, Off, Clean, Dirty
  <2>3. CASE status[cur].fs = Clean
    <3>1. /\ mem'[cur] = mem[cur] /\ status'[cur] = status[cur]
          /\ own'[cur].f = own[cur].f /\ own'[cur].c = mem[cur].c
      BY <1>1, <1>2, <1>4, <2>3 DEF FpInv, FpTypeOK, Off, Clean, Dirty
    <3> QED BY <1>1, <2>3, <3>1 DEF FpInv, CurrentKept, LiveFs, RegsMatch, Off, Clean, Dirty
  <2> QED BY <1>2, <2>1, <2>2, <2>3 DEF StatusFs
<1>10. OthersKept'
  BY <1>1, <1>7, <1>9 DEF FpInv, OthersKept, RegsMatch
<1> QED BY <1>6, <1>8, <1>10 DEF FpInv

\* The contexts of all tasks are kept by every step of the hart and the kernel.
THEOREM FpInvariant == Spec => []FpInv
<1>1. FpInv /\ [Next]_vars => FpInv'
  <2> SUFFICES ASSUME FpInv, [Next]_vars PROVE FpInv'
    OBVIOUS
  <2>1. CASE UserCompute
    BY <2>1, UserComputeInv
  <2>2. CASE UserReadsOut \/ UserStore \/ UNCHANGED vars
    <3>1. UNCHANGED vars
      BY <2>2 DEF UserReadsOut, UserStore, ToInteger, StoreFp, fpVars, vars
    <3> QED BY <3>1 DEF vars, FpInv, FpTypeOK, CurrentKept, OthersKept, LiveFs, RegsMatch
  <2>3. CASE UserLoad
    BY <2>3, UserLoadInv
  <2>4. CASE UserWritesFcsr
    BY <2>4, UserWritesFcsrInv
  <2>5. CASE IllegalInstruction \/ Interrupt
    BY <2>5, EnterInv DEF IllegalInstruction, Interrupt
  <2>6. CASE Enable
    BY <2>6, EnableInv
  <2>7. CASE Exec
    BY <2>7, ExecInv
  <2>8. CASE Return
    BY <2>8, ReturnInv
  <2>9. ASSUME NEW t \in Task, Switch(t) PROVE FpInv'
    BY <2>9, SwitchInv
  <2> QED BY <2>1, <2>2, <2>3, <2>4, <2>5, <2>6, <2>7, <2>8, <2>9 DEF Next
<1> QED BY InitInv, <1>1, PTL DEF Spec

\* A task that runs with the unit on finds in every register what its last
\* instruction wrote there, and in fcsr what it wrote there, whatever other
\* tasks did in between.
THEOREM ContextIsKept == Spec => []ContextKept
<1>1. FpInv => ContextKept
  BY DEF FpInv, CurrentKept, ContextKept, LiveFs, RegsMatch
<1> QED BY <1>1, FpInvariant, PTL
=============================================================================
