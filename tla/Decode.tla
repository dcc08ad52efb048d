------------------------------- MODULE Decode -------------------------------
(* How the interpreter takes its instructions apart: the compressed ones, the jumps,
   branches, loads, stores and AMOs, and the floating-point ones.

   The compressed instructions: what the three C_QUADRANT cases of the interpreter do
   with a 16-bit encoding, as the base instruction whose effect they have.

   A result is a record of the operation, its destination, its sources and its
   immediate.  fs is the floating-point state field: 0 makes the floating-point loads
   and stores illegal. *)
EXTENDS IntOps

Field(v, pos, n) == (v \div 2^pos) % 2^n

\* get_field1 takes the bits of val from src_pos on into dst_pos .. dst_pos_max.
get_field1(val, src_pos, dst_pos, dst_pos_max) ==
    Field(val, src_pos, dst_pos_max - dst_pos + 1) * 2^dst_pos
SignExt(val, n) == IF val >= 2^(n - 1) THEN val - 2^n ELSE val

Insn(op, rd, rs1, rs2, imm) ==
    [op |-> op, rd |-> rd, rs1 |-> rs1, rs2 |-> rs2, imm |-> imm]
IllegalInsn == Insn("illegal", 0, 0, 0, 0)
NopInsn == Insn("nop", 0, 0, 0, 0)

Rd(insn) == Field(insn, 7, 5)
Rs2(insn) == Field(insn, 2, 5)
RdShort(insn) == 8 + Field(insn, 2, 3)
Rs1Short(insn) == 8 + Field(insn, 7, 3)

-----------------------------------------------------------------------------
(* Quadrant 0 *)

Addi4spnImm(insn) ==
    get_field1(insn, 11, 4, 5) + get_field1(insn, 7, 6, 9) + get_field1(insn, 6, 2, 2)
    + get_field1(insn, 5, 3, 3)

\* Mutant: bits 2 and 6 of the offset are swapped.
WordOffset_Swapped(insn) ==
    get_field1(insn, 10, 3, 5) + get_field1(insn, 6, 6, 6) + get_field1(insn, 5, 2, 2)

WordOffset(insn) ==
    get_field1(insn, 10, 3, 5) + get_field1(insn, 6, 2, 2) + get_field1(insn, 5, 6, 6)
DoubleOffset(insn) == get_field1(insn, 10, 3, 5) + get_field1(insn, 5, 6, 7)

Quadrant0(insn, fs) ==
    LET rd == RdShort(insn)
        rs1 == Rs1Short(insn)
        f3 == Field(insn, 13, 3)
    IN  CASE f3 = 0 -> IF Addi4spnImm(insn) = 0 THEN IllegalInsn
                       ELSE Insn("addi", rd, 2, 0, Addi4spnImm(insn))
          [] f3 = 1 -> IF fs = 0 THEN IllegalInsn
                       ELSE Insn("fld", rd, rs1, 0, DoubleOffset(insn))
          [] f3 = 2 -> Insn("lw", rd, rs1, 0, WordOffset(insn))
          [] f3 = 3 -> Insn("ld", rd, rs1, 0, DoubleOffset(insn))
          [] f3 = 5 -> IF fs = 0 THEN IllegalInsn
                       ELSE Insn("fsd", 0, rs1, rd, DoubleOffset(insn))
          [] f3 = 6 -> Insn("sw", 0, rs1, rd, WordOffset(insn))
          [] f3 = 7 -> Insn("sd", 0, rs1, rd, DoubleOffset(insn))
          [] OTHER -> IllegalInsn

-----------------------------------------------------------------------------
(* Quadrant 1 *)

Imm6(insn) == get_field1(insn, 12, 5, 5) + get_field1(insn, 2, 0, 4)
LuiImm(insn) == SignExt(get_field1(insn, 12, 17, 17) + get_field1(insn, 2, 12, 16), 18)
Addi16spImm(insn) ==
    SignExt(get_field1(insn, 12, 9, 9) + get_field1(insn, 6, 4, 4)
            + get_field1(insn, 5, 6, 6) + get_field1(insn, 3, 7, 8)
            + get_field1(insn, 2, 5, 5), 10)
JumpImm(insn) ==
    SignExt(get_field1(insn, 12, 11, 11) + get_field1(insn, 11, 4, 4)
            + get_field1(insn, 9, 8, 9) + get_field1(insn, 8, 10, 10)
            + get_field1(insn, 7, 6, 6) + get_field1(insn, 6, 7, 7)
            + get_field1(insn, 3, 1, 3) + get_field1(insn, 2, 5, 5), 12)
BranchImm(insn) ==
    SignExt(get_field1(insn, 12, 8, 8) + get_field1(insn, 10, 3, 4)
            + get_field1(insn, 5, 6, 7) + get_field1(insn, 3, 1, 2)
            + get_field1(insn, 2, 5, 5), 9)

\* funct3 = 3: c.addi16sp and c.lui; rd = 0 is a hint unless the immediate is zero.
LuiOrSp(insn) ==
    LET rd == Rd(insn)
    IN  IF rd = 2 THEN IF Addi16spImm(insn) = 0 THEN IllegalInsn
                       ELSE Insn("addi", 2, 2, 0, Addi16spImm(insn))
        ELSE IF LuiImm(insn) = 0 THEN IllegalInsn
        ELSE IF rd # 0 THEN Insn("lui", rd, 0, 0, LuiImm(insn)) ELSE NopInsn

\* funct3 = 4: the shifts, c.andi and the operations on two of the short registers.
ShortArith(insn) ==
    LET rd == Rs1Short(insn)
        f2 == Field(insn, 10, 2)
        op == Field(insn, 5, 2) + 4 * Field(insn, 12, 1)
        names == <<"sub", "xor", "or", "and", "subw", "addw">>
    IN  CASE f2 = 0 -> Insn("srli", rd, rd, 0, Imm6(insn))
          [] f2 = 1 -> Insn("srai", rd, rd, 0, Imm6(insn))
          [] f2 = 2 -> Insn("andi", rd, rd, 0, SignExt(Imm6(insn), 6))
          [] f2 = 3 -> IF op > 5 THEN IllegalInsn
                       ELSE Insn(names[op + 1], rd, rd, RdShort(insn), 0)

Quadrant1(insn) ==
    LET rd == Rd(insn)
        rs1 == Rs1Short(insn)
        imm == SignExt(Imm6(insn), 6)
        f3 == Field(insn, 13, 3)
    IN  CASE f3 = 0 -> IF rd # 0 THEN Insn("addi", rd, rd, 0, imm) ELSE NopInsn
          [] f3 = 1 -> IF rd = 0 THEN IllegalInsn ELSE Insn("addiw", rd, rd, 0, imm)
          [] f3 = 2 -> IF rd # 0 THEN Insn("addi", rd, 0, 0, imm) ELSE NopInsn
          [] f3 = 3 -> LuiOrSp(insn)
          [] f3 = 4 -> ShortArith(insn)
          [] f3 = 5 -> Insn("jal", 0, 0, 0, JumpImm(insn))
          [] f3 = 6 -> Insn("beq", 0, rs1, 0, BranchImm(insn))
          [] f3 = 7 -> Insn("bne", 0, rs1, 0, BranchImm(insn))

-----------------------------------------------------------------------------
(* Quadrant 2 *)

\* rs2 & (7 << 2) and rs2 & (3 << 3): the field is masked in place.
WordSpLoad(insn) ==
    get_field1(insn, 12, 5, 5) + 4 * Field(Rs2(insn), 2, 3) + get_field1(insn, 2, 6, 7)
DoubleSpLoad(insn) ==
    get_field1(insn, 12, 5, 5) + 8 * Field(Rs2(insn), 3, 2) + get_field1(insn, 2, 6, 8)
WordSpStore(insn) == get_field1(insn, 9, 2, 5) + get_field1(insn, 7, 6, 7)
DoubleSpStore(insn) == get_field1(insn, 10, 3, 5) + get_field1(insn, 7, 6, 8)

\* funct3 = 4: c.jr, c.mv, c.ebreak, c.jalr and c.add.
JumpOrMove(insn) ==
    LET rd == Rd(insn)
        rs2 == Rs2(insn)
    IN  IF Field(insn, 12, 1) = 0
        THEN IF rs2 = 0 THEN IF rd = 0 THEN IllegalInsn ELSE Insn("jalr", 0, rd, 0, 0)
             ELSE IF rd # 0 THEN Insn("add", rd, 0, rs2, 0) ELSE NopInsn
        ELSE IF rs2 = 0 THEN IF rd = 0 THEN Insn("ebreak", 0, 0, 0, 0)
                             ELSE Insn("jalr", 1, rd, 0, 0)
             ELSE IF rd # 0 THEN Insn("add", rd, rd, rs2, 0) ELSE NopInsn

Quadrant2(insn, fs) ==
    LET rd == Rd(insn)
        rs2 == Rs2(insn)
        f3 == Field(insn, 13, 3)
    IN  CASE f3 = 0 -> IF rd # 0 THEN Insn("slli", rd, rd, 0, Imm6(insn)) ELSE NopInsn
          [] f3 = 1 -> IF fs = 0 THEN IllegalInsn
                       ELSE Insn("fld", rd, 2, 0, DoubleSpLoad(insn))
          [] f3 = 2 -> IF rd = 0 THEN IllegalInsn
                       ELSE Insn("lw", rd, 2, 0, WordSpLoad(insn))
          [] f3 = 3 -> IF rd = 0 THEN IllegalInsn
                       ELSE Insn("ld", rd, 2, 0, DoubleSpLoad(insn))
          [] f3 = 4 -> JumpOrMove(insn)
          [] f3 = 5 -> IF fs = 0 THEN IllegalInsn
                       ELSE Insn("fsd", 0, 2, rs2, DoubleSpStore(insn))
          [] f3 = 6 -> Insn("sw", 0, 2, rs2, WordSpStore(insn))
          [] f3 = 7 -> Insn("sd", 0, 2, rs2, DoubleSpStore(insn))

Expand(insn, fs) ==
    CASE insn % 4 = 0 -> Quadrant0(insn, fs)
      [] insn % 4 = 1 -> Quadrant1(insn)
      [] insn % 4 = 2 -> Quadrant2(insn, fs)

-----------------------------------------------------------------------------
(* The instructions that leave the straight path or touch memory, as far as they
   compute: the immediates of the U, J, I, B and S formats, the branch conditions and the
   targets of the jumps, the return-address hints, the extension of loaded values and
   the operations of the AMOs.

   An instruction word is given by its fields: hi is the word from bit 12 on, f7 from
   bit 25 on. *)

UpperImm(hi) == SignExt(hi, 20) * 2^12

JalImm(hi) ==
    SignExt(get_field1(hi, 19, 20, 20) + get_field1(hi, 9, 1, 10) + get_field1(hi, 8, 11, 11)
            + get_field1(hi, 0, 12, 19), 21)
BImm(f7, rd) ==
    SignExt(get_field1(f7, 6, 12, 12) + get_field1(f7, 0, 5, 10) + get_field1(rd, 1, 1, 4)
            + get_field1(rd, 0, 11, 11), 13)
SImm(f7, rd) == SignExt(get_field1(f7, 0, 5, 11) + rd, 12)

-----------------------------------------------------------------------------
(* Jumps and branches.  A jump gives the next pc and what the link register gets, or
   a misaligned-fetch exception when the C extension is off. *)

Jump(target, pc, compressed) ==
    IF ~compressed /\ target % 4 # 0 THEN [ok |-> FALSE, pc |-> pc, link |-> 0]
    ELSE [ok |-> TRUE, pc |-> target, link |-> U(pc + 4)]

Jal(pc, imm, compressed) == Jump(U(pc + imm), pc, compressed)
Jalr(pc, val1, imm, compressed) ==
    LET sum == U(val1 + imm) IN Jump(sum - (sum % 2), pc, compressed)

BranchLegal(f3) == f3 \div 2 \in {0, 2, 3}
BranchCond(f3, val1, val2) ==
    LET cond == CASE f3 \div 2 = 0 -> val1 = val2
                  [] f3 \div 2 = 2 -> Signed(val1, XLEN) < Signed(val2, XLEN)
                  [] f3 \div 2 = 3 -> val1 < val2
    IN  cond # (f3 % 2 = 1)

\* The kind of a jump through a register: ctf_taken_jalr plus 2 for a link register as
\* destination and 1 for one as source.
\* Mutant: a jump with the same link register twice pops before it pushes.
ctf_compute_hint_Twice(rd, rs1) == 2 * Truth(rd \in {1, 5}) + Truth(rs1 \in {1, 5})

ctf_compute_hint(rd, rs1) ==
    LET k == 2 * Truth(rd \in {1, 5}) + Truth(rs1 \in {1, 5})
    IN  IF k = 3 /\ rs1 = rd THEN 2 ELSE k

-----------------------------------------------------------------------------
(* Memory.  n is the width of the access: b, h, w and d are BLEN, HLEN, WLEN, XLEN. *)

LoadWidth(f3) == <<BLEN, HLEN, WLEN, XLEN>>[(f3 % 4) + 1]
LoadLegal(f3) == f3 # 7
LoadVal(f3, raw) ==
    IF f3 \in 0 .. 3 THEN U(Signed(raw, LoadWidth(f3))) ELSE Cut(raw, LoadWidth(f3))
StoreLegal(f3) == f3 \in 0 .. 3

\* What an AMO of n bits writes back, from the value read and the register; rd gets
\* the value read, sign-extended.
AmoFuncts == {1, 0, 4, 12, 8, 16, 20, 24, 28}

\* Mutant: the unsigned comparisons are made on the signed words.
AmoUnsigned_Signed(v, n) == Signed(v, n)

\* The operands of amominu and amomaxu.
AmoUnsigned(v, n) == Cut(v, n)

AmoVal(f5, rval, val2, n) ==
    LET val == U(Signed(rval, n))
        pick(less) == IF less THEN val ELSE val2
        out == CASE f5 = 1 -> val2
                 [] f5 = 0 -> val + val2
                 [] f5 = 4 -> Xor(val, val2)
                 [] f5 = 12 -> And(val, val2)
                 [] f5 = 8 -> Or(val, val2)
                 [] f5 = 16 -> pick(Signed(val, n) < Signed(val2, n))
                 [] f5 = 20 -> pick(Signed(val, n) > Signed(val2, n))
                 [] f5 = 24 -> pick(AmoUnsigned(val, n) < AmoUnsigned(val2, n))
                 [] f5 = 28 -> pick(AmoUnsigned(val, n) > AmoUnsigned(val2, n))
    IN  Cut(out, n)

-----------------------------------------------------------------------------
(* How the interpreter decodes a floating-point instruction, and what it does around
   the call into the library: which operands are checked for a NaN box, which format
   the result has, what becomes of the floating-point state field.

   f7, rs2 and f3 are the fields of the encoding, frm the dynamic rounding mode, fs the
   state field.  The formats are 0 (single), 1 (double), 2 (half) and 3 (quad). *)

NoMode == 8

\* Mutant: the dynamic mode is used without the test for a reserved one.
get_insn_rm_Unchecked(rm, frm) == IF rm = 7 THEN frm ELSE IF rm >= 5 THEN NoMode ELSE rm

get_insn_rm(rm, frm) ==
    LET m == IF rm = 7 THEN frm ELSE rm IN IF m >= 5 THEN NoMode ELSE m

\* op on operands of the format from ("x" is an integer register), checked for the box
\* of that format if unbox, into a result of the format to, boxed; dirty: fs becomes 3.
FpDone(op, rm, from, unbox, to, dirty) ==
    [op |-> op, rm |-> rm, from |-> from, unbox |-> unbox, to |-> to, dirty |-> dirty]
FpIllegal == FpDone("illegal", 0, "x", FALSE, "x", FALSE)

\* The instructions of Zfa are recognized and do nothing.
Captured == FpDone("captured", 0, "x", FALSE, "x", FALSE)

Format == <<"s", "d", "h", "q">>

Zfa(f7, rs2, f3) ==
    LET f5 == f7 \div 4
    IN  \/ f5 = 20 /\ f3 \in {4, 5}
        \/ f5 = 5 /\ f3 \in {2, 3}
        \/ f5 = 8 /\ rs2 \in {4, 5}
        \/ f5 = 30 /\ rs2 = 1 /\ f3 = 0
        \/ f7 = 97 /\ rs2 = 8 /\ f3 = 1
\* Those of the quad format are illegal.
ZfaIllegal(f7) == f7 % 4 = 3

\* The cases of majordomo_fp_template.h, included for the single and the double format.
FpTemplate(f7, rs2, f3, frm) ==
    LET f5 == f7 \div 4
        fmt == Format[(f7 % 4) + 1]
        rm == get_insn_rm(f3, frm)
        Rounded(op, from, to) ==
            IF rm = NoMode THEN FpIllegal ELSE FpDone(op, rm, from, TRUE, to, TRUE)
        Plain(ops, to) ==
            IF f3 + 1 \in DOMAIN ops THEN FpDone(ops[f3 + 1], 0, fmt, TRUE, to, TRUE)
            ELSE FpIllegal
    IN  CASE f5 = 0 -> Rounded("add", fmt, fmt)
          [] f5 = 1 -> Rounded("sub", fmt, fmt)
          [] f5 = 2 -> Rounded("mul", fmt, fmt)
          [] f5 = 3 -> Rounded("div", fmt, fmt)
          [] f5 = 11 -> IF rs2 # 0 THEN FpIllegal ELSE Rounded("sqrt", fmt, fmt)
          [] f5 = 4 -> Plain(<<"sgnj", "sgnjn", "sgnjx">>, fmt)
          [] f5 = 5 -> Plain(<<"min", "max">>, fmt)
          [] f5 = 20 -> Plain(<<"le", "lt", "eq">>, "x")
          [] f5 = 24 -> IF rs2 > 3 THEN FpIllegal
                        ELSE Rounded(<<"cvt.w", "cvt.wu", "cvt.l", "cvt.lu">>[rs2 + 1], fmt, "x")
          [] f5 = 26 -> IF rs2 > 3 THEN FpIllegal
                        ELSE Rounded(<<"cvt.w", "cvt.wu", "cvt.l", "cvt.lu">>[rs2 + 1], "x", fmt)
          [] f5 = 8 -> IF <<fmt, rs2>> = <<"s", 1>> THEN Rounded("cvt", "d", "s")
                       ELSE IF <<fmt, rs2>> = <<"d", 0>> THEN Rounded("cvt", "s", "d")
                       ELSE FpIllegal
          [] f5 = 28 -> IF rs2 # 0 \/ f3 > 1 THEN FpIllegal
                        ELSE IF f3 = 0 THEN FpDone("mv", 0, fmt, FALSE, "x", FALSE)
                        ELSE FpDone("class", 0, fmt, TRUE, "x", FALSE)
          [] f5 = 30 -> IF rs2 # 0 \/ f3 # 0 THEN FpIllegal
                        ELSE FpDone("mv", 0, "x", TRUE, fmt, TRUE)
          [] OTHER -> FpIllegal

\* Opcode 0x53.
FpExec(f7, rs2, f3, frm, fs) ==
    IF fs = 0 THEN FpIllegal
    ELSE IF Zfa(f7, rs2, f3) THEN IF ZfaIllegal(f7) THEN FpIllegal ELSE Captured
    ELSE IF f7 % 4 > 1 THEN FpIllegal
    ELSE FpTemplate(f7, rs2, f3, frm)

\* Opcodes 0x43, 0x47, 0x4b and 0x4f (fused = 0 .. 3): the signs of the product and of
\* the addend are turned before the call.
FmaOps == <<"madd", "msub", "nmsub", "nmadd">>
FmaNegates(fused) == [product |-> fused \in {2, 3}, addend |-> fused \in {1, 3}]
FmaExec(fused, fmt, f3, frm, fs) ==
    LET rm == get_insn_rm(f3, frm)
    IN  IF fs = 0 \/ rm = NoMode \/ fmt > 1 THEN FpIllegal
        ELSE FpDone(FmaOps[fused + 1], rm, Format[fmt + 1], TRUE, Format[fmt + 1], TRUE)

\* Opcodes 0x07 and 0x27 with funct3 2 and 3: a load boxes, a store takes the register.
FpLoad(f3, fs) ==
    IF fs = 0 THEN FpIllegal
    ELSE FpDone("load", 0, "x", FALSE, Format[f3 - 1], TRUE)
FpStore(f3, fs) ==
    IF fs = 0 THEN FpIllegal
    ELSE FpDone("store", 0, Format[f3 - 1], FALSE, "x", FALSE)
=============================================================================
