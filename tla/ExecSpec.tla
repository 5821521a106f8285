------------------------------ MODULE ExecSpec ------------------------------
(***************************************************************************)
(* Every compressed instruction, and every 32-bit instruction with an      *)
(* immediate operand, executed once and compared with the instruction set  *)
(* manual: the expansion of the former, the operation of the latter.       *)
(***************************************************************************)
EXTENDS ExecBase, SequencesExt

CONSTANTS
    Compressed,  \* 16-bit encodings to execute
    Immediates   \* 12-bit immediates of the OP-IMM and OP-IMM-32 encodings

VARIABLES inst, out

vars == <<inst, out>>

Fetched == Trapped("fetched")

-----------------------------------------------------------------------------
(* The encodings of the manual: fields from the most significant bit on.   *)
Digits(n, w) == [k \in 1 .. w |-> (n \div 2^(w - k)) % 2]
Number(bits) == FoldLeft(LAMBDA n, b : 2 * n + b, 0, bits)
Word(fields) ==
    LET bits == FlattenSeq([k \in DOMAIN fields |-> Digits(fields[k][1], fields[k][2])])
    IN  [hi |-> Number(SubSeq(bits, 1, 16)), lo |-> Number(SubSeq(bits, 17, 32))]

Part(n, hi, lo) == <<Bits(n, hi, lo), hi - lo + 1>>

RType(f7, b, a, f3, d, op) == Word(<<<<f7, 7>>, <<b, 5>>, <<a, 5>>, <<f3, 3>>, <<d, 5>>, <<op, 7>>>>)
IType(n, a, f3, d, op) == Word(<<Part(n, 11, 0), <<a, 5>>, <<f3, 3>>, <<d, 5>>, <<op, 7>>>>)
SType(n, b, a, f3, op) ==
    Word(<<Part(n, 11, 5), <<b, 5>>, <<a, 5>>, <<f3, 3>>, Part(n, 4, 0), <<op, 7>>>>)
BType(n, b, a, f3, op) ==
    Word(<<Part(n, 12, 12), Part(n, 10, 5), <<b, 5>>, <<a, 5>>, <<f3, 3>>,
           Part(n, 4, 1), Part(n, 11, 11), <<op, 7>>>>)
UType(n, d, op) == Word(<<Part(n, 19, 0), <<d, 5>>, <<op, 7>>>>)
JType(n, d, op) ==
    Word(<<Part(n, 20, 20), Part(n, 10, 1), Part(n, 11, 11), Part(n, 19, 12), <<d, 5>>, <<op, 7>>>>)

\* A compressed immediate: the bits of i from hi downwards go to the given
\* positions, as the manual prints its layouts.
Gather(i, hi, layout) ==
    FoldLeft(+, 0, [k \in DOMAIN layout |-> Bits(i, hi - k + 1, hi - k + 1) * 2^layout[k]])

UImmW(i) == Gather(i, 12, <<5, 4, 3>>) + Gather(i, 6, <<2, 6>>)
UImmD(i) == Gather(i, 12, <<5, 4, 3>>) + Gather(i, 6, <<7, 6>>)
NzImm(i) == Signed(Gather(i, 12, <<5>>) + Gather(i, 6, <<4, 3, 2, 1, 0>>), 6)
UImm(i) == Gather(i, 12, <<5>>) + Gather(i, 6, <<4, 3, 2, 1, 0>>)
Imm16Sp(i) == Signed(Gather(i, 12, <<9>>) + Gather(i, 6, <<4, 6, 8, 7, 5>>), 10)
Imm4Spn(i) == Gather(i, 12, <<5, 4, 9, 8, 7, 6, 2, 3>>)
JOffset(i) == Signed(Gather(i, 12, <<11, 4, 9, 8, 10, 6, 7, 3, 2, 1, 5>>), 12)
BOffset(i) == Signed(Gather(i, 12, <<8, 4, 3>>) + Gather(i, 6, <<7, 6, 2, 1, 5>>), 9)
LwSp(i) == Gather(i, 12, <<5>>) + Gather(i, 6, <<4, 3, 2, 7, 6>>)
LdSp(i) == Gather(i, 12, <<5>>) + Gather(i, 6, <<4, 3, 8, 7, 6>>)
SwSp(i) == Gather(i, 12, <<5, 4, 3, 2, 7, 6>>)
SdSp(i) == Gather(i, 12, <<5, 4, 3, 8, 7, 6>>)

\* The expansion of each compressed instruction, by quadrant and funct3.
Expansion0(i) ==
    LET d == 8 + Bits(i, 4, 2)
        a == 8 + Bits(i, 9, 7)
        f3 == Bits(i, 15, 13)
    IN  CASE f3 = 0 -> IType(Imm4Spn(i), 2, 0, d, 19)
          [] f3 = 1 -> IType(UImmD(i), a, 3, d, 7)
          [] f3 = 2 -> IType(UImmW(i), a, 2, d, 3)
          [] f3 = 3 -> IType(UImmD(i), a, 3, d, 3)
          [] f3 = 5 -> SType(UImmD(i), d, a, 3, 39)
          [] f3 = 6 -> SType(UImmW(i), d, a, 2, 35)
          [] f3 = 7 -> SType(UImmD(i), d, a, 3, 35)

ExpansionArith(i) ==
    LET d == 8 + Bits(i, 9, 7)
        b == 8 + Bits(i, 4, 2)
        k == Bits(i, 11, 10)
        f == Bits(i, 12, 12) * 4 + Bits(i, 6, 5)
    IN  CASE k = 0 -> IType(UImm(i), d, 5, d, 19)
          [] k = 1 -> IType(1024 + UImm(i), d, 5, d, 19)
          [] k = 2 -> IType(NzImm(i), d, 7, d, 19)
          [] k = 3 /\ f = 0 -> RType(32, b, d, 0, d, 51)
          [] k = 3 /\ f = 1 -> RType(0, b, d, 4, d, 51)
          [] k = 3 /\ f = 2 -> RType(0, b, d, 6, d, 51)
          [] k = 3 /\ f = 3 -> RType(0, b, d, 7, d, 51)
          [] k = 3 /\ f = 4 -> RType(32, b, d, 0, d, 59)
          [] k = 3 /\ f = 5 -> RType(0, b, d, 0, d, 59)

Expansion1(i) ==
    LET d == Bits(i, 11, 7)
        a == 8 + Bits(i, 9, 7)
        f3 == Bits(i, 15, 13)
    IN  CASE f3 = 0 -> IType(NzImm(i), d, 0, d, 19)
          [] f3 = 1 -> IType(NzImm(i), d, 0, d, 27)
          [] f3 = 2 -> IType(NzImm(i), 0, 0, d, 19)
          [] f3 = 3 /\ d = 2 -> IType(Imm16Sp(i), 2, 0, 2, 19)
          [] f3 = 3 /\ d # 2 -> UType(NzImm(i), d, 55)
          [] f3 = 4 -> ExpansionArith(i)
          [] f3 = 5 -> JType(JOffset(i), 0, 111)
          [] f3 = 6 -> BType(BOffset(i), 0, a, 0, 99)
          [] f3 = 7 -> BType(BOffset(i), 0, a, 1, 99)

Expansion2(i) ==
    LET d == Bits(i, 11, 7)
        b == Bits(i, 6, 2)
        f3 == Bits(i, 15, 13)
        f4 == Bits(i, 12, 12)
    IN  CASE f3 = 0 -> IType(UImm(i), d, 1, d, 19)
          [] f3 = 1 -> IType(LdSp(i), 2, 3, d, 7)
          [] f3 = 2 -> IType(LwSp(i), 2, 2, d, 3)
          [] f3 = 3 -> IType(LdSp(i), 2, 3, d, 3)
          [] f3 = 4 /\ b # 0 -> RType(0, b, IF f4 = 0 THEN 0 ELSE d, 0, d, 51)
          [] f3 = 4 /\ b = 0 /\ f4 = 1 /\ d = 0 -> IType(1, 0, 0, 0, 115)
          [] f3 = 4 /\ b = 0 /\ (f4 = 0 \/ d # 0) -> IType(0, d, 0, f4, 103)
          [] f3 = 5 -> SType(SdSp(i), b, 2, 3, 39)
          [] f3 = 6 -> SType(SwSp(i), b, 2, 2, 35)
          [] f3 = 7 -> SType(SdSp(i), b, 2, 3, 35)

Expansion(i) ==
    CASE Bits(i, 1, 0) = 0 -> Expansion0(i)
      [] Bits(i, 1, 0) = 1 -> Expansion1(i)
      [] Bits(i, 1, 0) = 2 -> Expansion2(i)

\* Encodings without a meaning.
Reserved(i) ==
    LET q == Bits(i, 1, 0)
        f3 == Bits(i, 15, 13)
        d == Bits(i, 11, 7)
    IN  \/ q = 0 /\ f3 = 4
        \/ q = 0 /\ f3 = 0 /\ Imm4Spn(i) = 0
        \/ q = 1 /\ f3 = 1 /\ d = 0
        \/ q = 1 /\ f3 = 3 /\ UImm(i) = 0
        \/ q = 1 /\ f3 = 4 /\ Bits(i, 12, 10) = 7 /\ Bits(i, 6, 6) = 1
        \/ q = 2 /\ f3 \in {2, 3} /\ d = 0
        \/ q = 2 /\ f3 = 4 /\ Bits(i, 12, 12) = 0 /\ Bits(i, 6, 2) = 0 /\ d = 0

-----------------------------------------------------------------------------
IsCompressed == inst.lo % 4 # 3

Init ==
    /\ \/ \E i \in Compressed : i % 4 # 3 /\ inst = [hi |-> 0, lo |-> i]
       \/ \E n \in Immediates, f3 \in 0 .. 7, op \in {19, 27} : inst = IType(n, 6, f3, 5, op)
    /\ out = Fetched

\* The length of an instruction decides which decoder runs.
Execute ==
    /\ out = Fetched
    /\ out' = IF IsCompressed THEN execute_compressed(inst.lo) ELSE execute(inst, 4)
    /\ UNCHANGED inst

\* The program comes back to the instruction; its registers have other values.
Again == out # Fetched /\ out' = Fetched /\ UNCHANGED inst

Next == Execute \/ Again

Spec == Init /\ [][Next]_vars

-----------------------------------------------------------------------------
\* Without the clearing of bit 0 of a jump target.
AnyTarget(o) == IF o.pc[1] = "even" THEN [o EXCEPT !.pc = @[2]] ELSE o

CJalrRa == 36994    \* c.jalr ra, 0x9082

\* A compressed instruction does what its expansion does, two bytes long: the
\* same registers, immediate, access and successor for each of the encodings,
\* and only reserved encodings are refused.  Known differences are c.jalr ra,
\* which links before it reads its target, and bit 0 of the target of c.jr and
\* c.jalr, which is not cleared.
RvcExpands ==
    out # Fetched /\ IsCompressed =>
        /\ out.trap = "illegal instruction" => Reserved(inst.lo)
        /\ ~Reserved(inst.lo) /\ inst.lo # CJalrRa =>
              out = AnyTarget(execute(Expansion(inst.lo), 2))

\* The shifts and unary operations with an immediate: opcode, funct3, bits of
\* the operand, the bits above it, and the operation.
ShiftCodes ==
    {<<19, 1, 6, 0, "sll">>, <<19, 1, 6, 10, "bset">>, <<19, 1, 6, 18, "bclr">>,
     <<19, 1, 6, 26, "binv">>, <<19, 5, 6, 0, "srl">>, <<19, 5, 6, 16, "sra">>,
     <<19, 5, 6, 18, "bext">>, <<19, 5, 6, 24, "ror">>,
     <<27, 1, 5, 0, "sll">>, <<27, 5, 5, 0, "srl">>, <<27, 5, 5, 32, "sra">>,
     <<27, 5, 5, 48, "ror">>}
UnaryCodes ==
    {<<19, 1, 1536, <<"clz", x(6)>>>>, <<19, 1, 1537, <<"ctz", x(6)>>>>, <<19, 1, 1538, <<"cpop", x(6)>>>>,
     <<19, 1, 1540, <<"sext", 1, x(6)>>>>, <<19, 1, 1541, <<"sext", 2, x(6)>>>>,
     <<19, 5, 647, <<"orc.b", x(6)>>>>, <<19, 5, 1720, <<"rev8", x(6)>>>>,
     <<27, 1, 1536, W(<<"clz", x(6)>>)>>, <<27, 1, 1537, W(<<"ctz", x(6)>>)>>,
     <<27, 1, 1538, W(<<"cpop", x(6)>>)>>}
PlainCodes == {<<2, "slt">>, <<3, "sltu">>, <<4, "xor">>, <<6, "or">>, <<7, "and">>}

\* The value that the manual gives an instruction, {} when it is reserved.
Meaning(op, f3, n) ==
    {c[4] : c \in {c \in UnaryCodes : c[1] = op /\ c[2] = f3 /\ c[3] = n}}
    \cup {LET term == <<c[5], x(6), Imm(n % 2^c[3])>> IN IF op = 27 THEN W(term) ELSE term :
             c \in {c \in ShiftCodes : c[1] = op /\ c[2] = f3 /\ c[4] = n \div 2^c[3]}}
    \cup {<<c[2], x(6), Imm(Signed(n, 12))>> : c \in {c \in PlainCodes : op = 19 /\ c[1] = f3}}
    \cup {IF op = 27 THEN W(Add(x(6), Imm(Signed(n, 12)))) ELSE Add(x(6), Imm(Signed(n, 12))) :
             c \in {c \in {0} : f3 = 0}}
    \cup {<<"sll", <<"zext", 4, x(6)>>, Imm(n % 64)>> : c \in {c \in {2} : op = 27 /\ f3 = 1 /\ n \div 64 = c}}

\* Instructions that the code is known to decode differently: single-bit and
\* rotate operations with a shift amount from 32 on, slli.uw likewise, every
\* roriw, and xori with the immediate 0x287.
Misdecoded(op, f3, n) ==
    \/ op = 19 /\ f3 = 1 /\ n \div 64 \in {10, 18, 26} /\ n % 64 >= 32
    \/ op = 19 /\ f3 = 5 /\ n \div 64 \in {18, 24} /\ n % 64 >= 32
    \/ op = 27 /\ f3 = 1 /\ n \div 64 = 2 /\ n % 64 >= 32
    \/ op = 27 /\ f3 = 5 /\ n \div 32 = 48
    \/ op = 19 /\ f3 = 4 /\ n = 647

\* Every OP-IMM and OP-IMM-32 instruction that is not reserved computes what
\* the manual says from the right operand, up to the known exceptions: single
\* encodings take precedence over the shifts whose immediates they are part
\* of, and shift amounts have six bits, or five for words.
ImmediatesDecode ==
    out # Fetched /\ ~IsCompressed /\ ~Misdecoded(opcode(inst), funct3(inst), imm12(inst)) =>
        \A term \in Meaning(opcode(inst), funct3(inst), imm12(inst)) :
            out = Sets(4, 5, term)
=============================================================================
