-------------------------------- MODULE Exec --------------------------------
(***************************************************************************)
(* The decoder and the effect of one integer, load, store, jump or         *)
(* compressed instruction: Cpu::execute and Cpu::execute_compressed of     *)
(* src/cpu.rs, at the real widths of 32 and 16 bits.                       *)
(*                                                                         *)
(* Values are symbolic: a term names how a value is computed from the      *)
(* registers, the pc and immediates, so that two instructions do the same  *)
(* when they produce the same terms.  The arithmetic of 64-bit words is    *)
(* Rust's own and stays inside the terms.  Faults of the memory access are *)
(* the subject of VmAccess.                                                *)
(*                                                                         *)
(* A 32-bit instruction is a pair of halves; TLC's integers are signed.    *)
(***************************************************************************)
EXTENDS Integers, Sequences, TLC

\* Terms.  A sum with 0 is its other part.
Imm(n) == <<"imm", n>>
Pc(k) == <<"pc", k>>
Zero == Imm(0)
Add(a, b) == IF a = Zero THEN b ELSE IF b = Zero THEN a ELSE <<"add", a, b>>
Mem == <<"mem">>

\* Bits hi .. lo of a 16-bit number, and of an instruction [hi, lo].
Bits(n, hi, lo) == (n \div 2^lo) % 2^(hi - lo + 1)
Field(i, hi, lo) ==
    IF hi < 16 THEN Bits(i.lo, hi, lo)
    ELSE IF lo >= 16 THEN Bits(i.hi, hi - 16, lo - 16)
    ELSE Bits(i.lo, 15, lo) + Bits(i.hi, hi - 16, 0) * 2^(16 - lo)

\* The low w bits of n as a signed number.
Signed(n, w) == IF n >= 2^(w - 1) THEN n - 2^w ELSE n

-----------------------------------------------------------------------------
(* What an instruction does: new register terms, the pc, the memory access *)
(* that it makes, whether it clears the reservation, and its trap.         *)
Nothing(len) ==
    [trap |-> "none", x |-> << >>, f |-> << >>, pc |-> Pc(len), access |-> << >>, clears |-> FALSE]

Trapped(t) == [Nothing(0) EXCEPT !.trap = t]
Illegal == Trapped("illegal instruction")

read_reg(o, r) ==
    IF r = 0 THEN Zero ELSE IF r \in DOMAIN o.x THEN o.x[r] ELSE <<"x", r>>

\* x0 stays 0
write_reg(o, r, term) == IF r = 0 THEN o ELSE [o EXCEPT !.x = (r :> term) @@ @]

Jump(o, target) == [o EXCEPT !.pc = target]
Store(o, addr, size, data) ==
    [o EXCEPT !.access = <<"store", addr, size, data>>, !.clears = TRUE]
Load(o, addr, size) == [o EXCEPT !.access = <<"load", addr, size>>]

x(r) == read_reg(Nothing(0), r)

\* An instruction that writes one register.
Sets(len, r, term) == write_reg(Nothing(len), r, term)

\* load_va and the extension of what it returns: W sign-extended words.
LoadX(len, r, addr, size, signed) ==
    write_reg(Load(Nothing(len), addr, size), r,
              IF signed /\ size < 8 THEN <<"sext", size, Mem>> ELSE Mem)
LoadF(len, r, addr, size) ==
    [Load(Nothing(len), addr, size) EXCEPT
        !.f = r :> IF size = 4 THEN <<"boxed", Mem>> ELSE Mem]
StoreX(len, addr, size, r) == Store(Nothing(len), addr, size, x(r))
StoreF(len, addr, size, r) == Store(Nothing(len), addr, size, <<"f", r>>)

W(term) == <<"sext", 4, term>>     \* the result of a 32-bit operation

-----------------------------------------------------------------------------
(* Compressed instructions. *)

rd_p(i) == Bits(i, 4, 2) + 8
rs1_p(i) == Bits(i, 9, 7) + 8
rd(i) == Bits(i, 11, 7)
rs2(i) == Bits(i, 6, 2)
imm6(i) == Bits(i, 12, 12) * 32 + Bits(i, 6, 2)
simm6(i) == Imm(Signed(imm6(i), 6))

immW(i) == Bits(i, 12, 10) * 8 + Bits(i, 6, 6) * 4 + Bits(i, 5, 5) * 64
immD(i) == Bits(i, 12, 10) * 8 + Bits(i, 6, 5) * 64
immWsp(i) == Bits(i, 12, 12) * 32 + Bits(i, 6, 4) * 4 + Bits(i, 3, 2) * 64
immDsp(i) == Bits(i, 12, 12) * 32 + Bits(i, 6, 5) * 8 + Bits(i, 4, 2) * 64
immSWsp(i) == Bits(i, 12, 9) * 4 + Bits(i, 8, 7) * 64
immSDsp(i) == Bits(i, 12, 10) * 8 + Bits(i, 9, 7) * 64
imm4spn(i) == Bits(i, 12, 11) * 16 + Bits(i, 10, 7) * 64 + Bits(i, 6, 6) * 4 + Bits(i, 5, 5) * 8
imm16sp(i) == Signed(Bits(i, 12, 12) * 512 + Bits(i, 6, 6) * 16 + Bits(i, 5, 5) * 64
                     + Bits(i, 4, 3) * 128 + Bits(i, 2, 2) * 32, 10)

\* Mutant of immJ: two groups of bits are swapped.
immJ_swapped(i) ==
    Signed(Bits(i, 12, 12) * 2048 + Bits(i, 11, 11) * 16 + Bits(i, 10, 9) * 256
           + Bits(i, 8, 8) * 1024 + Bits(i, 7, 7) * 128 + Bits(i, 6, 6) * 64
           + Bits(i, 5, 3) * 2 + Bits(i, 2, 2) * 32, 12)
immJ(i) ==
    Signed(Bits(i, 12, 12) * 2048 + Bits(i, 11, 11) * 16 + Bits(i, 10, 9) * 256
           + Bits(i, 8, 8) * 1024 + Bits(i, 7, 7) * 64 + Bits(i, 6, 6) * 128
           + Bits(i, 5, 3) * 2 + Bits(i, 2, 2) * 32, 12)
immB(i) ==
    Signed(Bits(i, 12, 12) * 256 + Bits(i, 11, 10) * 8 + Bits(i, 6, 5) * 64
           + Bits(i, 4, 3) * 2 + Bits(i, 2, 2) * 32, 9)

Branch(i, op) == Jump(Nothing(2), <<op, x(rs1_p(i)), Zero, Pc(immB(i)), Pc(2)>>)
At(r, imm) == Add(x(r), Imm(imm))

Quadrant0(i) ==
    LET f3 == Bits(i, 15, 13)
    IN  CASE f3 = 0 -> IF imm4spn(i) = 0 THEN Illegal
                       ELSE Sets(2, rd_p(i), At(2, imm4spn(i)))
          [] f3 = 1 -> LoadF(2, rd_p(i), At(rs1_p(i), immD(i)), 8)
          [] f3 = 2 -> LoadX(2, rd_p(i), At(rs1_p(i), immW(i)), 4, TRUE)
          [] f3 = 3 -> LoadX(2, rd_p(i), At(rs1_p(i), immD(i)), 8, TRUE)
          [] f3 = 5 -> StoreF(2, At(rs1_p(i), immD(i)), 8, rd_p(i))
          [] f3 = 6 -> StoreX(2, At(rs1_p(i), immW(i)), 4, rd_p(i))
          [] f3 = 7 -> StoreX(2, At(rs1_p(i), immD(i)), 8, rd_p(i))
          [] OTHER  -> Illegal

\* C.SRLI to C.ADDW
Arith(i) ==
    LET d == rs1_p(i)
        s == rd_p(i)
        Op(name) == Sets(2, d, <<name, x(d), x(s)>>)
        f == <<Bits(i, 12, 12), Bits(i, 6, 5)>>
    IN  CASE Bits(i, 11, 10) = 0 -> Sets(2, d, <<"srl", x(d), Imm(imm6(i))>>)
          [] Bits(i, 11, 10) = 1 -> Sets(2, d, <<"sra", x(d), Imm(imm6(i))>>)
          [] Bits(i, 11, 10) = 2 -> Sets(2, d, <<"and", x(d), simm6(i)>>)
          [] f = <<0, 0>> -> Op("sub")
          [] f = <<0, 1>> -> Op("xor")
          [] f = <<0, 2>> -> Op("or")
          [] f = <<0, 3>> -> Op("and")
          [] f = <<1, 0>> -> Sets(2, d, W(<<"sub", x(d), x(s)>>))
          [] f = <<1, 1>> -> Sets(2, d, W(Add(x(d), x(s))))
          [] OTHER -> Illegal

Quadrant1(i) ==
    LET f3 == Bits(i, 15, 13)
    IN  CASE f3 = 0 -> IF rd(i) = 0 THEN Nothing(2) ELSE Sets(2, rd(i), Add(x(rd(i)), simm6(i)))
          [] f3 = 1 -> Sets(2, rd(i), W(Add(x(rd(i)), simm6(i))))
          [] f3 = 2 -> Sets(2, rd(i), simm6(i))
          [] f3 = 3 -> IF rd(i) = 2 THEN Sets(2, 2, At(2, imm16sp(i)))
                       ELSE Sets(2, rd(i), Imm(Signed(imm6(i), 6) * 4096))
          [] f3 = 4 -> Arith(i)
          [] f3 = 5 -> Jump(Nothing(2), Pc(immJ(i)))
          [] f3 = 6 -> Branch(i, "beq")
          [] OTHER  -> Branch(i, "bne")

\* C.JR, C.MV, C.EBREAK, C.JALR and C.ADD.  C.JALR writes x1 before it reads
\* rs1.
JumpOrMove(i) ==
    LET linked == Sets(2, 1, Pc(2))
        zero2 == rs2(i) = 0
    IN  IF Bits(i, 12, 12) = 0
        THEN IF zero2 THEN Jump(Nothing(2), x(rd(i))) ELSE Sets(2, rd(i), x(rs2(i)))
        ELSE IF ~zero2 THEN Sets(2, rd(i), Add(x(rd(i)), x(rs2(i))))
        ELSE IF rd(i) = 0 THEN Trapped("breakpoint")
        ELSE Jump(linked, read_reg(linked, rd(i)))

Quadrant2(i) ==
    LET f3 == Bits(i, 15, 13)
    IN  CASE f3 = 0 -> Sets(2, rd(i), <<"sll", x(rd(i)), Imm(imm6(i))>>)
          [] f3 = 1 -> LoadF(2, rd(i), At(2, immDsp(i)), 8)
          [] f3 = 2 -> IF rd(i) = 0 THEN Illegal ELSE LoadX(2, rd(i), At(2, immWsp(i)), 4, TRUE)
          [] f3 = 3 -> IF rd(i) = 0 THEN Illegal ELSE LoadX(2, rd(i), At(2, immDsp(i)), 8, TRUE)
          [] f3 = 4 -> JumpOrMove(i)
          [] f3 = 5 -> StoreF(2, At(2, immSDsp(i)), 8, rs2(i))
          [] f3 = 6 -> StoreX(2, At(2, immSWsp(i)), 4, rs2(i))
          [] OTHER  -> StoreX(2, At(2, immSDsp(i)), 8, rs2(i))

execute_compressed(i) ==
    CASE Bits(i, 1, 0) = 0 -> Quadrant0(i)
      [] Bits(i, 1, 0) = 1 -> Quadrant1(i)
      [] OTHER -> Quadrant2(i)
=============================================================================
