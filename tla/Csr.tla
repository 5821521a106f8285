-------------------------------- MODULE Csr --------------------------------
(***************************************************************************)
(* The CSR file of src/csr.rs, as far as privilege, interrupt enabling and *)
(* delegation depend on it.  A register is the set of the numbers of its   *)
(* bits that are 1.                                                        *)
(*                                                                         *)
(* Kept: the fields SIE, MIE, SPIE, MPIE, SPP and MPP of mstatus, the      *)
(* interrupt bits Ints of mie, mip and mideleg, the exception bits Causes  *)
(* of medeleg, and the views sstatus, sie and sip.  The other bits and     *)
(* registers (FS, SUM, SXL, the forced mideleg bits 0x1444, ...) are left  *)
(* out: no decision modelled here looks at them.                           *)
(***************************************************************************)
EXTENDS Integers

CONSTANTS
    Ints,    \* the interrupt numbers of the instance
    Causes   \* the exception codes of the instance

MInts == {3, 7, 11}  \* MSI, MTI, MEI
SInts == {1, 5, 9}   \* SSI, STI, SEI

IllegalInstruction == 2

ASSUME CsrAssumption ==
    /\ Ints \subseteq MInts \cup SInts
    /\ Causes \subseteq Nat /\ IllegalInstruction \in Causes

VARIABLE csr   \* the registers that are stored

\* Bits of mstatus; MPP is the two-bit number in bits 12:11.
SIE == 1
MIE == 3
SPIE == 5
MPIE == 7
SPP == 8
MPP == {11, 12}
StatusBits  == {SIE, MIE, SPIE, MPIE, SPP} \cup MPP
SSTATUS_MASK == {SIE, SPIE, SPP}

MppOf(status) ==
    (IF 11 \in status THEN 1 ELSE 0) + (IF 12 \in status THEN 2 ELSE 0)
MppBits(mode) ==
    {b \in MPP : (b = 11 /\ mode % 2 = 1) \/ (b = 12 /\ mode >= 2)}

\* Which bits of a stored register the instance has.
Width == [mstatus |-> StatusBits, mie |-> Ints, mip |-> Ints,
          mideleg |-> Ints, medeleg |-> Causes]

StoredCsrs == {"mstatus", "mie", "mip", "mideleg", "medeleg"}
CsrNames   == StoredCsrs \cup {"sstatus", "sie", "sip"}

CsrFiles ==
    [mstatus : SUBSET StatusBits, mie : SUBSET Ints, mip : SUBSET Ints,
     mideleg : SUBSET Ints, medeleg : SUBSET Causes]

CsrTypeOK == csr \in CsrFiles

\* Csr::new.  medeleg starts as 0xf4b509, mideleg as 0x1666.  The value 0x80
\* written to mip has no writable bit.
CsrInit ==
    csr = [mstatus |-> {}, mie |-> {}, mip |-> {},
           mideleg |-> Ints \cap SInts,
           medeleg |-> Causes \cap {0, 3, 8, 12, 13, 15}]

-----------------------------------------------------------------------------

\* Csr::get_csr_privilege: bits 9:8 of the address.
get_csr_privilege(a) == IF a \in StoredCsrs THEN 3 ELSE 1

\* Csr::check_csr_privilege; none of these registers is read-only.
check_csr_privilege(a, mode) == mode >= get_csr_privilege(a)

\* Csr::read of register a of the CSR file c: sstatus, sie and sip are views.
Read(c, a) ==
    CASE a = "sstatus" -> c.mstatus \cap SSTATUS_MASK
      [] a = "sie"     -> c.mie \cap SInts
      [] a = "sip"     -> c.mip \cap SInts
      [] OTHER         -> c[a]

\* v in the bits of mask, the old value elsewhere
Merge(old, v, mask) == (old \ mask) \cup (v \cap mask)

\* Mutant of Written: a write to the view sie replaces all of mie.
Written_sieUnmasked(c, a, v) ==
    CASE a = "sstatus" -> [c EXCEPT !.mstatus = Merge(@, v, SSTATUS_MASK)]
      [] a = "sie"     -> [c EXCEPT !.mie = v \cap Ints]
      [] a = "sip"     -> [c EXCEPT !.mip = Merge(@, v, {1} \cap Ints)]
      [] a = "mip"     -> [c EXCEPT !.mip = Merge(@, v, SInts \cap Ints)]
      [] OTHER         -> [c EXCEPT ![a] = v \cap Width[a]]

\* Mutant of Written: mip takes every bit of the value.
Written_mipUnmasked(c, a, v) ==
    CASE a = "sstatus" -> [c EXCEPT !.mstatus = Merge(@, v, SSTATUS_MASK)]
      [] a = "sie"     -> [c EXCEPT !.mie = Merge(@, v, SInts \cap Ints)]
      [] a = "sip"     -> [c EXCEPT !.mip = Merge(@, v, {1} \cap Ints)]
      [] a = "mip"     -> [c EXCEPT !.mip = v]
      [] OTHER         -> [c EXCEPT ![a] = v \cap Width[a]]

\* Csr::write of v to register a of the CSR file c.  mip keeps its read-only
\* bits MSIP, MTIP and MEIP, sip all but SSIP.
Written(c, a, v) ==
    CASE a = "sstatus" -> [c EXCEPT !.mstatus = Merge(@, v, SSTATUS_MASK)]
      [] a = "sie"     -> [c EXCEPT !.mie = Merge(@, v, SInts \cap Ints)]
      [] a = "sip"     -> [c EXCEPT !.mip = Merge(@, v, {1} \cap Ints)]
      [] a = "mip"     -> [c EXCEPT !.mip = Merge(@, v, SInts \cap Ints)]
      [] OTHER         -> [c EXCEPT ![a] = v \cap Width[a]]

\* csrrw, csrrs and csrrc; the last two write nothing for an empty mask.
CsrOps == {"w", "s", "c"}

AfterOp(c, op, a, v) ==
    CASE op = "w" -> Written(c, a, v)
      [] op = "s" -> IF v = {} THEN c ELSE Written(c, a, Read(c, a) \cup v)
      [] op = "c" -> IF v = {} THEN c ELSE Written(c, a, Read(c, a) \ v)
=============================================================================
