------------------------------ MODULE ExecBase ------------------------------
(***************************************************************************)
(* The 32-bit instructions of Cpu::execute without SYSTEM, atomics and     *)
(* floating-point arithmetic, which Hart, LrSc and FpUnit model.  len is   *)
(* the length of the instruction: 4 in the code; with 2 the definitions    *)
(* say what the expansion of a compressed instruction does.                *)
(***************************************************************************)
EXTENDS Exec

opcode(i) == Field(i, 6, 0)
funct3(i) == Field(i, 14, 12)
funct7(i) == Field(i, 31, 25)
Rd(i) == Field(i, 11, 7)
Rs1(i) == Field(i, 19, 15)
Rs2(i) == Field(i, 24, 20)

imm12(i) == Field(i, 31, 20)
imm_i(i) == Signed(imm12(i), 12)
imm_s(i) == Signed(Field(i, 31, 25) * 32 + Field(i, 11, 7), 12)
imm_b(i) == Signed(Field(i, 31, 31) * 4096 + Field(i, 7, 7) * 2048 + Field(i, 30, 25) * 32
                   + Field(i, 11, 8) * 2, 13)
imm_j(i) == Signed(Field(i, 31, 31) * 1048576 + Field(i, 19, 12) * 4096
                   + Field(i, 20, 20) * 2048 + Field(i, 30, 21) * 2, 21)
\* in units of 4096
imm_u(i) == Signed(Field(i, 31, 12), 20)

-----------------------------------------------------------------------------
shamt(i) == Imm(imm12(i) % 64)
shamt5(i) == Imm(imm12(i) % 32)
funct7_like(i) == imm12(i) \div 32

\* 0x13 with funct3 1 and 5: the single encodings first, then the upper seven
\* bits of the immediate, the lowest of which belongs to the shift amount.
ShiftLeft(i) ==
    LET a == x(Rs1(i))
    IN  CASE imm12(i) = 1536 -> <<"clz", a>>
          [] imm12(i) = 1537 -> <<"ctz", a>>
          [] imm12(i) = 1538 -> <<"cpop", a>>
          [] imm12(i) = 1540 -> <<"sext", 1, a>>
          [] imm12(i) = 1541 -> <<"sext", 2, a>>
          [] funct7_like(i) = 36 -> <<"bclr", a, shamt(i)>>
          [] funct7_like(i) = 52 -> <<"binv", a, shamt(i)>>
          [] funct7_like(i) = 20 -> <<"bset", a, shamt(i)>>
          [] OTHER -> <<"sll", a, shamt(i)>>

\* Mutant of ShiftRight: REV8 with its 32-bit encoding.
ShiftRight_rev8(i) ==
    LET a == x(Rs1(i))
    IN  CASE imm12(i) = 647 -> <<"orc.b", a>>
          [] imm12(i) = 1688 -> <<"rev8", a>>
          [] funct7_like(i) = 36 -> <<"bext", a, shamt(i)>>
          [] funct7_like(i) = 48 -> <<"ror", a, shamt(i)>>
          [] OTHER -> <<IF Field(i, 30, 30) = 0 THEN "srl" ELSE "sra", a, shamt(i)>>
ShiftRight(i) ==
    LET a == x(Rs1(i))
    IN  CASE imm12(i) = 647 -> <<"orc.b", a>>
          [] imm12(i) = 1720 -> <<"rev8", a>>
          [] funct7_like(i) = 36 -> <<"bext", a, shamt(i)>>
          [] funct7_like(i) = 48 -> <<"ror", a, shamt(i)>>
          [] OTHER -> <<IF Field(i, 30, 30) = 0 THEN "srl" ELSE "sra", a, shamt(i)>>

OpImm(i, len) ==
    LET a == x(Rs1(i))
        b == Imm(imm_i(i))
        f3 == funct3(i)
    IN  Sets(len, Rd(i),
             CASE f3 = 0 -> Add(a, b)
               [] f3 = 1 -> ShiftLeft(i)
               [] f3 = 2 -> <<"slt", a, b>>
               [] f3 = 3 -> <<"sltu", a, b>>
               [] f3 = 4 -> IF imm12(i) = 647 THEN <<"zext", 2, a>> ELSE <<"xor", a, b>>
               [] f3 = 5 -> ShiftRight(i)
               [] f3 = 6 -> <<"or", a, b>>
               [] f3 = 7 -> <<"and", a, b>>)

\* 0x33: the operation for funct7 and funct3.
OpTable ==
    <<0, 0>> :> "add" @@ <<32, 0>> :> "sub" @@ <<0, 1>> :> "sll" @@ <<0, 2>> :> "slt" @@
    <<0, 3>> :> "sltu" @@ <<0, 4>> :> "xor" @@ <<0, 5>> :> "srl" @@ <<32, 5>> :> "sra" @@
    <<0, 6>> :> "or" @@ <<0, 7>> :> "and" @@
    <<1, 0>> :> "mul" @@ <<1, 1>> :> "mulh" @@ <<1, 2>> :> "mulhsu" @@ <<1, 3>> :> "mulhu" @@
    <<1, 4>> :> "div" @@ <<1, 5>> :> "divu" @@ <<1, 6>> :> "rem" @@ <<1, 7>> :> "remu" @@
    <<32, 4>> :> "xnor" @@ <<32, 6>> :> "orn" @@ <<32, 7>> :> "andn" @@
    <<5, 4>> :> "min" @@ <<5, 5>> :> "minu" @@ <<5, 6>> :> "max" @@ <<5, 7>> :> "maxu" @@
    <<48, 1>> :> "rol" @@ <<48, 5>> :> "ror" @@
    <<16, 2>> :> "sh1add" @@ <<16, 4>> :> "sh2add" @@ <<16, 6>> :> "sh3add" @@
    <<36, 1>> :> "bclr" @@ <<36, 5>> :> "bext" @@ <<52, 1>> :> "binv" @@ <<20, 1>> :> "bset" @@
    <<5, 1>> :> "clmul" @@ <<5, 3>> :> "clmulh" @@ <<5, 2>> :> "clmulr"

\* 0x3B: on the low words, sign-extended; the second table is on a zero-
\* extended first and a full second operand.
OpWTable ==
    <<0, 0>> :> "add" @@ <<32, 0>> :> "sub" @@ <<0, 1>> :> "sll" @@ <<0, 5>> :> "srl" @@
    <<32, 5>> :> "sra" @@ <<1, 0>> :> "mul" @@ <<1, 4>> :> "div" @@ <<1, 5>> :> "divu" @@
    <<1, 6>> :> "rem" @@ <<1, 7>> :> "remu" @@ <<48, 1>> :> "rol" @@ <<48, 5>> :> "ror"
OpUwTable ==
    <<4, 0>> :> "add" @@ <<16, 2>> :> "sh1add" @@ <<16, 4>> :> "sh2add" @@ <<16, 6>> :> "sh3add"

\* a + b is the only operation that the compressed instructions share.
Apply(op, a, b) == IF op = "add" THEN Add(a, b) ELSE <<op, a, b>>

Op(i, len) ==
    LET key == <<funct7(i), funct3(i)>>
    IN  IF key \in DOMAIN OpTable
        THEN Sets(len, Rd(i), Apply(OpTable[key], x(Rs1(i)), x(Rs2(i))))
        ELSE Illegal

OpW(i, len) ==
    LET key == <<funct7(i), funct3(i)>>
        a == x(Rs1(i))
        b == x(Rs2(i))
    IN  IF key \in DOMAIN OpWTable
        THEN Sets(len, Rd(i), W(Apply(OpWTable[key], a, b)))
        ELSE IF key \in DOMAIN OpUwTable
        THEN Sets(len, Rd(i), Apply(OpUwTable[key], <<"zext", 4, a>>, b))
        ELSE Illegal

\* 0x1B
OpImmW(i, len) ==
    LET a == x(Rs1(i))
        Word(term) == Sets(len, Rd(i), W(term))
    IN  CASE funct3(i) = 0 -> Word(Add(a, Imm(imm_i(i))))
          [] funct3(i) = 1 /\ imm12(i) = 1536 -> Word(<<"clz", a>>)
          [] funct3(i) = 1 /\ imm12(i) = 1537 -> Word(<<"ctz", a>>)
          [] funct3(i) = 1 /\ imm12(i) = 1538 -> Word(<<"cpop", a>>)
          [] funct3(i) = 1 /\ imm12(i) \notin {1536, 1537, 1538} ->
                IF funct7_like(i) = 4 THEN Sets(len, Rd(i), <<"sll", <<"zext", 4, a>>, shamt(i)>>)
                ELSE Word(<<"sll", a, shamt5(i)>>)
          [] funct3(i) = 5 /\ imm12(i) \in {1540, 1541} -> Illegal
          [] funct3(i) = 5 /\ imm12(i) = 1688 -> Word(<<"ror", a, shamt5(i)>>)
          [] funct3(i) = 5 /\ imm12(i) \notin {1540, 1541, 1688} ->
                Word(<<IF Field(i, 30, 30) = 0 THEN "srl" ELSE "sra", a, shamt5(i)>>)
          [] OTHER -> Illegal

-----------------------------------------------------------------------------
LoadSize(f3) == 2^(f3 % 4)

\* 0x03: LB, LH, LW, LD, LBU, LHU, LWU
LoadOp(i, len) ==
    IF funct3(i) = 7 THEN Illegal
    ELSE LoadX(len, Rd(i), At(Rs1(i), imm_i(i)), LoadSize(funct3(i)), funct3(i) < 4)

\* 0x23
StoreOp(i, len) ==
    IF funct3(i) > 3 THEN Illegal
    ELSE StoreX(len, At(Rs1(i), imm_s(i)), LoadSize(funct3(i)), Rs2(i))

\* 0x07 and 0x27: words and doublewords
LoadFpOp(i, len) ==
    IF funct3(i) \notin {2, 3} THEN Illegal
    ELSE LoadF(len, Rd(i), At(Rs1(i), imm_i(i)), LoadSize(funct3(i)))
StoreFpOp(i, len) ==
    IF funct3(i) \notin {2, 3} THEN Illegal
    ELSE StoreF(len, At(Rs1(i), imm_s(i)), LoadSize(funct3(i)), Rs2(i))

Conditions == 0 :> "beq" @@ 1 :> "bne" @@ 4 :> "blt" @@ 5 :> "bge" @@ 6 :> "bltu" @@ 7 :> "bgeu"

BranchOp(i, len) ==
    IF funct3(i) \notin DOMAIN Conditions THEN Illegal
    ELSE Jump(Nothing(len), <<Conditions[funct3(i)], x(Rs1(i)), x(Rs2(i)), Pc(imm_b(i)), Pc(len)>>)

\* JALR computes its target before it links, and makes it even.
Jalr(i, len) ==
    Jump(Sets(len, Rd(i), Pc(len)), <<"even", At(Rs1(i), imm_i(i))>>)

\* FENCE, AMO, the fused operations, OP-FP and the rest of SYSTEM
Elsewhere == {15, 47, 67, 71, 75, 79, 83, 115}

execute(i, len) ==
    CASE opcode(i) = 55 -> Sets(len, Rd(i), Imm(imm_u(i) * 4096))          \* LUI
      [] opcode(i) = 23 -> Sets(len, Rd(i), Pc(imm_u(i) * 4096))           \* AUIPC
      [] opcode(i) = 111 -> Jump(Sets(len, Rd(i), Pc(len)), Pc(imm_j(i)))  \* JAL
      [] opcode(i) = 103 -> Jalr(i, len)
      [] opcode(i) = 99 -> BranchOp(i, len)
      [] opcode(i) = 3 -> LoadOp(i, len)
      [] opcode(i) = 7 -> LoadFpOp(i, len)
      [] opcode(i) = 35 -> StoreOp(i, len)
      [] opcode(i) = 39 -> StoreFpOp(i, len)
      [] opcode(i) = 19 -> OpImm(i, len)
      [] opcode(i) = 51 -> Op(i, len)
      [] opcode(i) = 27 -> OpImmW(i, len)
      [] opcode(i) = 59 -> OpW(i, len)
      [] opcode(i) = 115 /\ imm12(i) = 1 /\ funct3(i) = 0 -> Trapped("breakpoint")  \* EBREAK
      [] opcode(i) \in Elsewhere -> Trapped("elsewhere")
      [] OTHER -> Illegal
=============================================================================
