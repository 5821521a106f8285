------------------------------- MODULE FpUnit -------------------------------
(***************************************************************************)
(* The floating-point state of the hart: f_regs, mstatus.FS and fcsr, and  *)
(* the instructions of src/cpu.rs that touch it.  An instruction is known  *)
(* by what it reads, what it writes and in which format; the arithmetic is *)
(* Rust's own, so a result is any value that its operands allow.           *)
(***************************************************************************)
EXTENDS Naturals

CONSTANT FReg      \* floating-point registers

VARIABLES f_regs,  \* register contents
          fs,      \* mstatus.FS
          fcsr     \* the rounding mode and the flags

fpVars == <<f_regs, fs, fcsr>>

Off == 0           \* 1 is Initial
Clean == 2
Dirty == 3

NaN == "nan"
Word == {"num", NaN}                             \* low halves: numbers and NaNs
Content == [boxed : BOOLEAN, lo : Word]          \* boxed: the high half is all ones
Fcsr == [rm : 0 .. 1, flags : 0 .. 1]

box_f32(w) == [boxed |-> TRUE, lo |-> w]
unbox_f32(c) == IF c.boxed THEN c.lo ELSE NaN

\* The contents that an instruction of a format can produce.
Results(fmt) == IF fmt = "S" THEN {box_f32(w) : w \in Word} ELSE Content

-----------------------------------------------------------------------------
(* OP-FP (0x53): what funct7, funct3 and rs2 select.  src and dst are the  *)
(* register files, "raw" a single operand that is not checked for boxing.  *)
Effect(src, dst, fmt) == [src |-> src, dst |-> dst, fmt |-> fmt]
Undefined == Effect("none", "none", "none")

When(legal, effect) == IF legal THEN effect ELSE Undefined

\* The format is the lowest bit of funct7, the operation the bits above.
Format(funct7) == IF funct7 % 2 = 0 THEN "S" ELSE "D"
Bits(fmt) == IF fmt = "S" THEN "raw" ELSE "f"

FArith(fmt) == Effect("f", "f", fmt)                                \* FADD, FSUB, FMUL, FDIV
FSqrt(fmt, rs2) == When(rs2 = 0, Effect("f", "f", fmt))
FSgnj(fmt, funct3) == When(funct3 < 3, Effect(Bits(fmt), "f", fmt))
FMinMax(fmt, funct3) == When(funct3 < 2, Effect("minmax", "f", fmt))
FCompare(fmt, funct3) == When(funct3 < 3, Effect("f", "x", fmt))
FCvtToX(fmt, rs2) == When(rs2 < 4, Effect("f", "x", fmt))
FCvtFromX(fmt, rs2) == When(rs2 < 4, Effect("x", "f", fmt))
FCvt(fmt, rs2) ==
    IF fmt = "S" THEN When(rs2 = 1, Effect("double", "f", "S"))     \* FCVT.S.D
    ELSE When(rs2 = 0, Effect("single", "f", "D"))                  \* FCVT.D.S
FMvOrClass(fmt, funct3, rs2) ==
    IF rs2 = 0 /\ funct3 = 0 THEN Effect(Bits(fmt), "x", fmt)       \* FMV.X
    ELSE When(rs2 = 0 /\ funct3 = 1, Effect("f", "x", fmt))         \* FCLASS
FMvFromX(fmt, funct3, rs2) == When(rs2 = 0 /\ funct3 = 0, Effect("x", "f", fmt))

OpFp(funct7, funct3, rs2) ==
    LET fmt == Format(funct7)
        op == funct7 \div 2
    IN  CASE op \in {0, 2, 4, 6} -> FArith(fmt)
          [] op = 22 -> FSqrt(fmt, rs2)
          [] op = 8 -> FSgnj(fmt, funct3)
          [] op = 10 -> FMinMax(fmt, funct3)
          [] op = 40 -> FCompare(fmt, funct3)
          [] op = 48 -> FCvtToX(fmt, rs2)
          [] op = 52 -> FCvtFromX(fmt, rs2)
          [] op = 16 -> FCvt(fmt, rs2)
          [] op = 56 -> FMvOrClass(fmt, funct3, rs2)
          [] op = 60 -> FMvFromX(fmt, funct3, rs2)
          [] OTHER -> Undefined

\* 0x43, 0x47, 0x4B, 0x4F by the fmt field
Fused(field) ==
    CASE field = 0 -> Effect("f", "f", "S")
      [] field = 1 -> Effect("f", "f", "D")
      [] OTHER -> Undefined

Effects ==
    {OpFp(funct7, funct3, rs2) : funct7 \in 0 .. 127, funct3 \in 0 .. 7, rs2 \in 0 .. 31}
    \cup {Fused(field) : field \in 0 .. 3}

\* What can come out when the operands are the contents a and b.
Outcomes(e, a, b) ==
    LET words == {unbox_f32(a), unbox_f32(b)}
    IN  CASE e.src = "f" /\ e.fmt = "S" -> {box_f32(w) : w \in IF NaN \in words THEN {NaN} ELSE Word}
          [] e.src = "minmax" /\ e.fmt = "S" ->
                {box_f32(w) : w \in IF words = {NaN} THEN {NaN} ELSE words \ {NaN}}
          [] e.src = "raw" -> {box_f32(a.lo)}
          [] e.src = "single" -> {[boxed |-> FALSE, lo |-> "num"]}
          [] OTHER -> Results(e.fmt)

-----------------------------------------------------------------------------
FpInit ==
    /\ f_regs = [r \in FReg |-> [boxed |-> FALSE, lo |-> "num"]]
    /\ fs = Off
    /\ fcsr = [rm |-> 0, flags |-> 0]

\* Mutant of set_fs_dirty: a write to restored registers goes unnoticed.
set_fs_dirty_initial == fs' = IF fs = Clean THEN fs ELSE Dirty
set_fs_dirty == fs' = Dirty

\* OP-FP and the fused operations refuse to run when FS is Off or the
\* encoding is undefined; results in f make FS Dirty, results in x do not.
Traps(e) == fs = Off \/ e.dst = "none"

Compute(e, rd, result) ==
    /\ ~Traps(e) /\ e.dst = "f"
    /\ f_regs' = [f_regs EXCEPT ![rd] = result]
    /\ set_fs_dirty
    /\ UNCHANGED fcsr

ToInteger(e) == ~Traps(e) /\ e.dst = "x" /\ UNCHANGED fpVars

\* FLW, FLD, C.FLD and C.FLDSP do not look at FS.
LoadFp(rd, content) ==
    /\ f_regs' = [f_regs EXCEPT ![rd] = content]
    /\ set_fs_dirty
    /\ UNCHANGED fcsr

\* FSW, FSD, C.FSD and C.FSDSP do not either.
StoreFp == UNCHANGED fpVars

\* A CSR instruction on FCSR, FRM or FFLAGS: the last two are fields of the
\* first.  None of them makes FS Dirty.
WriteFcsr(field, v) ==
    /\ fcsr' = CASE field = "fflags" -> [fcsr EXCEPT !.flags = v.flags]
                 [] field = "frm" -> [fcsr EXCEPT !.rm = v.rm]
                 [] field = "fcsr" -> v
    /\ UNCHANGED <<f_regs, fs>>

\* sstatus: SD is computed when it is read and ignored when it is written.
ReadStatus == [fs |-> fs, sd |-> fs = Dirty]
WriteStatus(v) == fs' = v.fs
=============================================================================
