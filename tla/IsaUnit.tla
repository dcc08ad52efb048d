------------------------------ MODULE IsaUnit ------------------------------
(* The instructions of the interpreter that only compute, as calls: an action takes the
   fields of an encoding and the values of its operands, and records what the code makes
   of them.  Before that, what the instruction-set manual says of the instructions IntOps
   and Decode execute: the encodings as a table, the operations on integers and on bit
   positions, and the layout of the immediates as the manual prints it. *)
EXTENDS Decode, Sequences, SequencesExt

-----------------------------------------------------------------------------
\* The manual

\* <<mnemonic, opcode, funct3, funct7>> of the instructions with two source registers.
RefTwoRegs ==
    {<<"add", "OP", 0, 0>>, <<"sub", "OP", 0, 32>>, <<"sll", "OP", 1, 0>>,
     <<"slt", "OP", 2, 0>>, <<"sltu", "OP", 3, 0>>, <<"xor", "OP", 4, 0>>,
     <<"srl", "OP", 5, 0>>, <<"sra", "OP", 5, 32>>, <<"or", "OP", 6, 0>>,
     <<"and", "OP", 7, 0>>, <<"mul", "OP", 0, 1>>, <<"mulh", "OP", 1, 1>>,
     <<"mulhsu", "OP", 2, 1>>, <<"mulhu", "OP", 3, 1>>, <<"div", "OP", 4, 1>>,
     <<"divu", "OP", 5, 1>>, <<"rem", "OP", 6, 1>>, <<"remu", "OP", 7, 1>>,
     <<"sh1add", "OP", 2, 16>>, <<"sh2add", "OP", 4, 16>>, <<"sh3add", "OP", 6, 16>>,
     <<"min", "OP", 4, 5>>, <<"minu", "OP", 5, 5>>, <<"max", "OP", 6, 5>>,
     <<"maxu", "OP", 7, 5>>, <<"xnor", "OP", 4, 32>>, <<"orn", "OP", 6, 32>>,
     <<"andn", "OP", 7, 32>>, <<"rol", "OP", 1, 48>>, <<"ror", "OP", 5, 48>>,
     <<"clmul", "OP", 1, 5>>, <<"clmulr", "OP", 2, 5>>, <<"clmulh", "OP", 3, 5>>,
     <<"bset", "OP", 1, 20>>, <<"bclr", "OP", 1, 36>>, <<"bext", "OP", 5, 36>>,
     <<"binv", "OP", 1, 52>>, <<"czero.eqz", "OP", 5, 7>>, <<"czero.nez", "OP", 7, 7>>,
     <<"addw", "OP-32", 0, 0>>, <<"subw", "OP-32", 0, 32>>, <<"sllw", "OP-32", 1, 0>>,
     <<"srlw", "OP-32", 5, 0>>, <<"sraw", "OP-32", 5, 32>>, <<"mulw", "OP-32", 0, 1>>,
     <<"divw", "OP-32", 4, 1>>, <<"divuw", "OP-32", 5, 1>>, <<"remw", "OP-32", 6, 1>>,
     <<"remuw", "OP-32", 7, 1>>, <<"add.uw", "OP-32", 0, 4>>,
     <<"sh1add.uw", "OP-32", 2, 16>>, <<"sh2add.uw", "OP-32", 4, 16>>,
     <<"sh3add.uw", "OP-32", 6, 16>>, <<"rolw", "OP-32", 1, 48>>,
     <<"rorw", "OP-32", 5, 48>>}

\* <<mnemonic, opcode, funct3, funct12>> of the instructions with one source register.
RefOneReg ==
    {<<"ctz", "OP-IMM", 1, 1537>>, <<"clz", "OP-IMM", 1, 1536>>,
     <<"cpop", "OP-IMM", 1, 1538>>, <<"sext.b", "OP-IMM", 1, 1540>>,
     <<"sext.h", "OP-IMM", 1, 1541>>, <<"orc.b", "OP-IMM", 5, 647>>,
     <<"rev8", "OP-IMM", 5, 1720>>, <<"ctzw", "OP-IMM-32", 1, 1537>>,
     <<"clzw", "OP-IMM-32", 1, 1536>>, <<"cpopw", "OP-IMM-32", 1, 1538>>,
     <<"zext.h", "OP-32", 4, 128>>}

\* <<mnemonic, opcode, funct3, funct6>> and <<..., funct7>> of the shifts and of the
\* single-bit operations by an immediate.
RefShamt6 ==
    {<<"sll", "OP-IMM", 1, 0>>, <<"srl", "OP-IMM", 5, 0>>, <<"sra", "OP-IMM", 5, 16>>,
     <<"ror", "OP-IMM", 5, 24>>, <<"bset", "OP-IMM", 1, 10>>, <<"bclr", "OP-IMM", 1, 18>>,
     <<"binv", "OP-IMM", 1, 26>>, <<"bext", "OP-IMM", 5, 18>>,
     <<"slli.uw", "OP-IMM-32", 1, 2>>}
RefShamt5 ==
    {<<"sllw", "OP-IMM-32", 1, 0>>, <<"srlw", "OP-IMM-32", 5, 0>>,
     <<"sraw", "OP-IMM-32", 5, 32>>, <<"rorw", "OP-IMM-32", 5, 48>>}
\* <<mnemonic, opcode, funct3>> of the operations by a twelve-bit immediate.
RefImm12 ==
    {<<"add", "OP-IMM", 0>>, <<"slt", "OP-IMM", 2>>, <<"sltu", "OP-IMM", 3>>,
     <<"xor", "OP-IMM", 4>>, <<"or", "OP-IMM", 6>>, <<"and", "OP-IMM", 7>>,
     <<"addw", "OP-IMM-32", 0>>}

\* The mnemonic of an encoding and its second operand: the register b, the shift amount
\* or the immediate.
RefDecode(opc, f3, f12, b) ==
    LET In(t, f) == t[2] = opc /\ t[3] = f3 /\ t[4] = f
        two == {<<t[1], b>> : t \in {t \in RefTwoRegs : In(t, f12 \div 32)}}
        one == {<<t[1], b>> : t \in {t \in RefOneReg : In(t, f12)}}
        by6 == {<<t[1], f12 % 64>> : t \in {t \in RefShamt6 : In(t, f12 \div 64)}}
        by5 == {<<t[1], f12 % 32>> : t \in {t \in RefShamt5 : In(t, f12 \div 32)}}
        imm == {<<t[1], U(Signed(f12, 12))>> :
                  t \in {t \in RefImm12 : t[2] = opc /\ t[3] = f3}}
    IN  IF one # {} THEN one ELSE two \cup by6 \cup by5 \cup imm

-----------------------------------------------------------------------------
(* The operations *)

RefSum(S) == MapThenSumSet(LAMBDA i : 2^i, S)
RefMap(n, P(_)) == RefSum({i \in 0 .. n - 1 : P(i)})
HasBit(v, i) == (v \div 2^i) % 2 = 1
S(v) == Signed(v, XLEN)
SW(v) == Signed(v, WLEN)
W(v) == v % 2^WLEN
Sext(v) == U(SW(v))

\* Bit i of the polynomial product of a and b.
ProductBit(a, b, i) ==
    Cardinality({j \in 0 .. XLEN - 1 : HasBit(a, j) /\ i - j \in 0 .. XLEN - 1
                                       /\ HasBit(b, i - j)}) % 2 = 1

RefDiv(x, y, low) ==
    IF y = 0 THEN -1 ELSE IF x = low /\ y = -1 THEN low
    ELSE (IF (x < 0) = (y < 0) THEN 1 ELSE -1) * (Magnitude(x) \div Magnitude(y))
RefRem(x, y) ==
    IF y = 0 THEN x ELSE (IF x < 0 THEN -1 ELSE 1) * (Magnitude(x) % Magnitude(y))

RefBitwise(m, a, b) ==
    CASE m = "xor" -> RefMap(XLEN, LAMBDA i : HasBit(a, i) # HasBit(b, i))
      [] m = "or" -> RefMap(XLEN, LAMBDA i : HasBit(a, i) \/ HasBit(b, i))
      [] m = "and" -> RefMap(XLEN, LAMBDA i : HasBit(a, i) /\ HasBit(b, i))
      [] m = "xnor" -> RefMap(XLEN, LAMBDA i : HasBit(a, i) = HasBit(b, i))
      [] m = "orn" -> RefMap(XLEN, LAMBDA i : HasBit(a, i) \/ ~HasBit(b, i))
      [] m = "andn" -> RefMap(XLEN, LAMBDA i : HasBit(a, i) /\ ~HasBit(b, i))
      [] m = "rol" -> RefMap(XLEN, LAMBDA i : HasBit(a, (i - b) % XLEN))
      [] m = "ror" -> RefMap(XLEN, LAMBDA i : HasBit(a, (i + b) % XLEN))
      [] m = "rolw" -> Sext(RefMap(WLEN, LAMBDA i : HasBit(a, (i - b) % WLEN)))
      [] m = "rorw" -> Sext(RefMap(WLEN, LAMBDA i : HasBit(a, (i + b) % WLEN)))
      [] m = "clmul" -> RefMap(XLEN, LAMBDA i : ProductBit(a, b, i))
      [] m = "clmulh" -> RefMap(XLEN, LAMBDA i : ProductBit(a, b, i + XLEN))
      [] m = "clmulr" -> RefMap(XLEN, LAMBDA i : ProductBit(a, b, i + XLEN - 1))
      [] m = "bset" -> RefMap(XLEN, LAMBDA i : HasBit(a, i) \/ i = b % XLEN)
      [] m = "bclr" -> RefMap(XLEN, LAMBDA i : HasBit(a, i) /\ i # b % XLEN)
      [] m = "binv" -> RefMap(XLEN, LAMBDA i : HasBit(a, i) # (i = b % XLEN))
      [] m = "bext" -> Truth(HasBit(a, b % XLEN))
      [] m = "orc.b" -> RefMap(XLEN, LAMBDA i : Byte(a, i \div BLEN) # 0)
      [] m = "rev8" ->
            RefMap(XLEN, LAMBDA i : HasBit(a, XLEN - BLEN - (i - (i % BLEN)) + (i % BLEN)))
      [] m \in {"ctz", "ctzw"} ->
            LET n == IF m = "ctz" THEN XLEN ELSE WLEN
            IN  CHOOSE k \in 0 .. n : (k = n \/ HasBit(a, k)) /\ a % 2^k = 0
      [] m \in {"clz", "clzw"} ->
            LET n == IF m = "clz" THEN XLEN ELSE WLEN
            IN  CHOOSE k \in 0 .. n : (k = n \/ HasBit(a, n - 1 - k))
                                      /\ (a % 2^n) < 2^(n - k)
      [] m = "cpop" -> Cardinality({i \in 0 .. XLEN - 1 : HasBit(a, i)})
      [] m = "cpopw" -> Cardinality({i \in 0 .. WLEN - 1 : HasBit(a, i)})

RefArith(m, a, b) ==
    CASE m = "add" -> U(a + b)
      [] m = "sub" -> U(a - b)
      [] m = "slt" -> Truth(S(a) < S(b))
      [] m = "sltu" -> Truth(a < b)
      [] m = "sll" -> U(a * 2^(b % XLEN))
      [] m = "srl" -> a \div 2^(b % XLEN)
      [] m = "sra" -> U(S(a) \div 2^(b % XLEN))
      [] m = "mul" -> U(a * b)
      [] m = "mulh" -> U((S(a) * S(b)) \div 2^XLEN)
      [] m = "mulhsu" -> U((S(a) * b) \div 2^XLEN)
      [] m = "mulhu" -> (a * b) \div 2^XLEN
      [] m = "div" -> U(RefDiv(S(a), S(b), -(2^(XLEN - 1))))
      [] m = "divu" -> IF b = 0 THEN 2^XLEN - 1 ELSE a \div b
      [] m = "rem" -> U(RefRem(S(a), S(b)))
      [] m = "remu" -> IF b = 0 THEN a ELSE a % b
      [] m = "sh1add" -> U(2 * a + b)
      [] m = "sh2add" -> U(4 * a + b)
      [] m = "sh3add" -> U(8 * a + b)
      [] m = "min" -> U(IF S(a) < S(b) THEN S(a) ELSE S(b))
      [] m = "max" -> U(IF S(a) > S(b) THEN S(a) ELSE S(b))
      [] m = "minu" -> Min({a, b})
      [] m = "maxu" -> Max({a, b})
      [] m = "czero.eqz" -> IF b = 0 THEN 0 ELSE a
      [] m = "czero.nez" -> IF b = 0 THEN a ELSE 0
      [] m = "sext.b" -> U(Signed(a, BLEN))
      [] m = "sext.h" -> U(Signed(a, HLEN))
      [] m = "zext.h" -> a % 2^HLEN
      [] m = "addw" -> Sext(a + b)
      [] m = "subw" -> Sext(a - b)
      [] m = "sllw" -> Sext(a * 2^(b % WLEN))
      [] m = "srlw" -> Sext(W(a) \div 2^(b % WLEN))
      [] m = "sraw" -> U(SW(a) \div 2^(b % WLEN))
      [] m = "mulw" -> Sext(a * b)
      [] m = "divw" -> Sext(RefDiv(SW(a), SW(b), -(2^(WLEN - 1))))
      [] m = "divuw" -> IF W(b) = 0 THEN 2^XLEN - 1 ELSE Sext(W(a) \div W(b))
      [] m = "remw" -> Sext(RefRem(SW(a), SW(b)))
      [] m = "remuw" -> Sext(IF W(b) = 0 THEN a ELSE W(a) % W(b))
      [] m = "add.uw" -> U(W(a) + b)
      [] m = "sh1add.uw" -> U(2 * W(a) + b)
      [] m = "sh2add.uw" -> U(4 * W(a) + b)
      [] m = "sh3add.uw" -> U(8 * W(a) + b)
      [] m = "slli.uw" -> U(W(a) * 2^b)

BitOps ==
    {"xor", "or", "and", "xnor", "orn", "andn", "rol", "ror", "rolw", "rorw", "clmul",
     "clmulh", "clmulr", "bset", "bclr", "binv", "bext", "orc.b", "rev8", "ctz", "ctzw",
     "clz", "clzw", "cpop", "cpopw"}

\* The value the manual gives an instruction, or no instruction.
RefExec(opc, f3, f12, a, b) ==
    LET d == RefDecode(opc, f3, f12, b)
    IN  IF d = {} THEN Illegal
        ELSE LET i == CHOOSE x \in d : TRUE
             IN  Val(IF i[1] \in BitOps THEN RefBitwise(i[1], a, i[2])
                     ELSE RefArith(i[1], a, i[2]))

-----------------------------------------------------------------------------
(* The compressed instructions.  Layout puts the bits of insn from position hi down to
   the positions of the sequence. *)

Layout(insn, hi, to) ==
    MapThenSumSet(LAMBDA k : IF HasBit(insn, hi + 1 - k) THEN 2^to[k] ELSE 0, 1 .. Len(to))
Layout2(insn, hi, to, hi2, to2) == Layout(insn, hi, to) + Layout(insn, hi2, to2)

\* <<condition, instruction>>: the rows of the tables of the manual.
RefRvcRows(insn, fs) ==
    LET q == insn % 4
        f3 == (insn \div 8192) % 8
        bit12 == HasBit(insn, 12)
        f2 == (insn \div 1024) % 4
        g2 == (insn \div 32) % 4
        rd == (insn \div 128) % 32
        rs2 == (insn \div 4) % 32
        rdp == 8 + (rd % 8)
        rs2p == 8 + (rs2 % 8)
        fp == fs # 0
        ci == Layout2(insn, 12, <<5>>, 6, <<4, 3, 2, 1, 0>>)
        cis == SignExt(ci, 6)
        spn == Layout(insn, 12, <<5, 4, 9, 8, 7, 6, 2, 3>>)
        lw == Layout2(insn, 12, <<5, 4, 3>>, 6, <<2, 6>>)
        ld == Layout2(insn, 12, <<5, 4, 3>>, 6, <<7, 6>>)
        sp16 == SignExt(Layout2(insn, 12, <<9>>, 6, <<4, 6, 8, 7, 5>>), 10)
        lui == SignExt(Layout2(insn, 12, <<17>>, 6, <<16, 15, 14, 13, 12>>), 18)
        cj == SignExt(Layout(insn, 12, <<11, 4, 9, 8, 10, 6, 7, 3, 2, 1, 5>>), 12)
        cb == SignExt(Layout2(insn, 12, <<8, 4, 3>>, 6, <<7, 6, 2, 1, 5>>), 9)
        lwsp == Layout2(insn, 12, <<5>>, 6, <<4, 3, 2, 7, 6>>)
        ldsp == Layout2(insn, 12, <<5>>, 6, <<4, 3, 8, 7, 6>>)
        swsp == Layout(insn, 12, <<5, 4, 3, 2, 7, 6>>)
        sdsp == Layout(insn, 12, <<5, 4, 3, 8, 7, 6>>)
        alu == q = 1 /\ f3 = 4 /\ f2 = 3
    IN  {<<q = 0 /\ f3 = 0 /\ spn # 0, Insn("addi", rs2p, 2, 0, spn)>>,
         <<q = 0 /\ f3 = 1 /\ fp, Insn("fld", rs2p, rdp, 0, ld)>>,
         <<q = 0 /\ f3 = 2, Insn("lw", rs2p, rdp, 0, lw)>>,
         <<q = 0 /\ f3 = 3, Insn("ld", rs2p, rdp, 0, ld)>>,
         <<q = 0 /\ f3 = 5 /\ fp, Insn("fsd", 0, rdp, rs2p, ld)>>,
         <<q = 0 /\ f3 = 6, Insn("sw", 0, rdp, rs2p, lw)>>,
         <<q = 0 /\ f3 = 7, Insn("sd", 0, rdp, rs2p, ld)>>,
         <<q = 1 /\ f3 = 0 /\ rd = 0, NopInsn>>,
         <<q = 1 /\ f3 = 0 /\ rd # 0, Insn("addi", rd, rd, 0, cis)>>,
         <<q = 1 /\ f3 = 1 /\ rd # 0, Insn("addiw", rd, rd, 0, cis)>>,
         <<q = 1 /\ f3 = 2 /\ rd = 0, NopInsn>>,
         <<q = 1 /\ f3 = 2 /\ rd # 0, Insn("addi", rd, 0, 0, cis)>>,
         <<q = 1 /\ f3 = 3 /\ rd = 2 /\ sp16 # 0, Insn("addi", 2, 2, 0, sp16)>>,
         <<q = 1 /\ f3 = 3 /\ rd = 0 /\ lui # 0, NopInsn>>,
         <<q = 1 /\ f3 = 3 /\ rd \notin {0, 2} /\ lui # 0, Insn("lui", rd, 0, 0, lui)>>,
         <<q = 1 /\ f3 = 4 /\ f2 = 0, Insn("srli", rdp, rdp, 0, ci)>>,
         <<q = 1 /\ f3 = 4 /\ f2 = 1, Insn("srai", rdp, rdp, 0, ci)>>,
         <<q = 1 /\ f3 = 4 /\ f2 = 2, Insn("andi", rdp, rdp, 0, cis)>>,
         <<alu /\ ~bit12 /\ g2 = 0, Insn("sub", rdp, rdp, rs2p, 0)>>,
         <<alu /\ ~bit12 /\ g2 = 1, Insn("xor", rdp, rdp, rs2p, 0)>>,
         <<alu /\ ~bit12 /\ g2 = 2, Insn("or", rdp, rdp, rs2p, 0)>>,
         <<alu /\ ~bit12 /\ g2 = 3, Insn("and", rdp, rdp, rs2p, 0)>>,
         <<alu /\ bit12 /\ g2 = 0, Insn("subw", rdp, rdp, rs2p, 0)>>,
         <<alu /\ bit12 /\ g2 = 1, Insn("addw", rdp, rdp, rs2p, 0)>>,
         <<q = 1 /\ f3 = 5, Insn("jal", 0, 0, 0, cj)>>,
         <<q = 1 /\ f3 = 6, Insn("beq", 0, rdp, 0, cb)>>,
         <<q = 1 /\ f3 = 7, Insn("bne", 0, rdp, 0, cb)>>,
         <<q = 2 /\ f3 = 0 /\ rd = 0, NopInsn>>,
         <<q = 2 /\ f3 = 0 /\ rd # 0, Insn("slli", rd, rd, 0, ci)>>,
         <<q = 2 /\ f3 = 1 /\ fp, Insn("fld", rd, 2, 0, ldsp)>>,
         <<q = 2 /\ f3 = 2 /\ rd # 0, Insn("lw", rd, 2, 0, lwsp)>>,
         <<q = 2 /\ f3 = 3 /\ rd # 0, Insn("ld", rd, 2, 0, ldsp)>>,
         <<q = 2 /\ f3 = 4 /\ ~bit12 /\ rs2 = 0 /\ rd # 0, Insn("jalr", 0, rd, 0, 0)>>,
         <<q = 2 /\ f3 = 4 /\ ~bit12 /\ rs2 # 0 /\ rd # 0, Insn("add", rd, 0, rs2, 0)>>,
         <<q = 2 /\ f3 = 4 /\ bit12 /\ rs2 = 0 /\ rd = 0, Insn("ebreak", 0, 0, 0, 0)>>,
         <<q = 2 /\ f3 = 4 /\ bit12 /\ rs2 = 0 /\ rd # 0, Insn("jalr", 1, rd, 0, 0)>>,
         <<q = 2 /\ f3 = 4 /\ bit12 /\ rs2 # 0 /\ rd # 0, Insn("add", rd, rd, rs2, 0)>>,
         <<q = 2 /\ f3 = 4 /\ rs2 # 0 /\ rd = 0, NopInsn>>,
         <<q = 2 /\ f3 = 5 /\ fp, Insn("fsd", 0, 2, rs2, sdsp)>>,
         <<q = 2 /\ f3 = 6, Insn("sw", 0, 2, rs2, swsp)>>,
         <<q = 2 /\ f3 = 7, Insn("sd", 0, 2, rs2, sdsp)>>}

RefExpand(insn, fs) ==
    LET rows == {r \in RefRvcRows(insn, fs) : r[1]}
    IN  IF rows = {} THEN IllegalInsn ELSE (CHOOSE r \in rows : TRUE)[2]

-----------------------------------------------------------------------------
(* Control transfer and memory *)

\* The manual's columns for the immediates of 32-bit instructions.
RefJal(hi) ==
    SignExt(Layout(hi, 19, <<20, 10, 9, 8, 7, 6, 5, 4, 3, 2, 1, 11, 19, 18, 17, 16, 15, 14,
                             13, 12>>), 21)
RefB(f7, rd) ==
    SignExt(Layout(f7, 6, <<12, 10, 9, 8, 7, 6, 5>>) + Layout(rd, 4, <<4, 3, 2, 1, 11>>), 13)
RefS(f7, rd) ==
    SignExt(Layout(f7, 6, <<11, 10, 9, 8, 7, 6, 5>>) + Layout(rd, 4, <<4, 3, 2, 1, 0>>), 12)

\* The table of return-address stack hints: what a jump through rs1 that links to rd
\* does, as ctf_taken_jalr, _pop, _push and _pop_push.
RefHint(rd, rs1) ==
    CASE rd \notin {1, 5} /\ rs1 \notin {1, 5} -> 0
      [] rd \notin {1, 5} /\ rs1 \in {1, 5} -> 1
      [] rd \in {1, 5} /\ rs1 \notin {1, 5} -> 2
      [] rd \in {1, 5} /\ rs1 \in {1, 5} /\ rd # rs1 -> 3
      [] rd \in {1, 5} /\ rs1 = rd -> 2

RefBranches == <<"beq", "bne", "none", "none", "blt", "bge", "bltu", "bgeu">>
RefTaken(name, a, b) ==
    CASE name = "beq" -> a = b
      [] name = "bne" -> a # b
      [] name = "blt" -> S(a) < S(b)
      [] name = "bge" -> S(a) >= S(b)
      [] name = "bltu" -> a < b
      [] name = "bgeu" -> a >= b

\* <<funct5, operation>>; the unsigned ones compare the words as naturals.
RefAmo(f5, old, new, n) ==
    LET x == old % 2^n
        y == new % 2^n
    IN  CASE f5 = 0 -> (x + y) % 2^n
          [] f5 = 1 -> y
          [] f5 = 4 -> RefMap(n, LAMBDA i : HasBit(x, i) # HasBit(y, i))
          [] f5 = 8 -> RefMap(n, LAMBDA i : HasBit(x, i) \/ HasBit(y, i))
          [] f5 = 12 -> RefMap(n, LAMBDA i : HasBit(x, i) /\ HasBit(y, i))
          [] f5 = 16 -> Min({Signed(x, n), Signed(y, n)}) % 2^n
          [] f5 = 20 -> Max({Signed(x, n), Signed(y, n)}) % 2^n
          [] f5 = 24 -> Min({x, y})
          [] f5 = 28 -> Max({x, y})

-----------------------------------------------------------------------------
(* The floating-point instructions of F and D: <<operation, funct7 without the format,
   rs2 field, funct3 field, source, result>>; -1 stands for any register or for a
   rounding mode, "f" for the format of the encoding. *)
RefFpRows ==
    {<<"add", 0, -1, -1, "f", "f">>, <<"sub", 1, -1, -1, "f", "f">>,
     <<"mul", 2, -1, -1, "f", "f">>, <<"div", 3, -1, -1, "f", "f">>,
     <<"sqrt", 11, 0, -1, "f", "f">>, <<"sgnj", 4, -1, 0, "f", "f">>,
     <<"sgnjn", 4, -1, 1, "f", "f">>, <<"sgnjx", 4, -1, 2, "f", "f">>,
     <<"min", 5, -1, 0, "f", "f">>, <<"max", 5, -1, 1, "f", "f">>,
     <<"le", 20, -1, 0, "f", "x">>, <<"lt", 20, -1, 1, "f", "x">>,
     <<"eq", 20, -1, 2, "f", "x">>, <<"cvt.w", 24, 0, -1, "f", "x">>,
     <<"cvt.wu", 24, 1, -1, "f", "x">>, <<"cvt.l", 24, 2, -1, "f", "x">>,
     <<"cvt.lu", 24, 3, -1, "f", "x">>, <<"cvt.w", 26, 0, -1, "x", "f">>,
     <<"cvt.wu", 26, 1, -1, "x", "f">>, <<"cvt.l", 26, 2, -1, "x", "f">>,
     <<"cvt.lu", 26, 3, -1, "x", "f">>, <<"cvt", 8, 1, -1, "d", "s">>,
     <<"cvt", 8, 0, -1, "s", "d">>, <<"mv", 28, 0, 0, "f", "x">>,
     <<"class", 28, 0, 1, "f", "x">>, <<"mv", 30, 0, 0, "x", "f">>}

RefFp(f7, rs2, f3, frm) ==
    LET fmt == <<"s", "d", "h", "q">>[(f7 % 4) + 1]
        is(x) == IF x = "f" THEN fmt ELSE x
        mode == IF f3 = 7 THEN frm ELSE f3
        rows == {r \in RefFpRows :
                   /\ r[2] = f7 \div 4 /\ fmt \in {"s", "d"}
                   /\ r[3] \in {-1, rs2} /\ r[4] \in {-1, f3}
                   /\ r[4] = -1 => mode < 5
                   /\ r[1] = "cvt" => fmt = r[6]}
    IN  {<<r[1], IF r[4] = -1 THEN mode ELSE 0, is(r[5]), is(r[6])>> : r \in rows}

(* The instructions of Zfa in the formats single, double and half: <<operation, funct7
   without the format, rs2 field, funct3 field>>.  The emulator retires them without an
   effect. *)
RefZfaRows ==
    {<<"fli", 30, 1, 0>>, <<"fminm", 5, -1, 2>>, <<"fmaxm", 5, -1, 3>>,
     <<"fround", 8, 4, -1>>, <<"froundnx", 8, 5, -1>>, <<"fcvtmod.w.d", 24, 8, 1>>,
     <<"fleq", 20, -1, 4>>, <<"fltq", 20, -1, 5>>}

RefZfa(f7, rs2, f3) ==
    \E r \in RefZfaRows : /\ r[2] = f7 \div 4 /\ r[3] \in {-1, rs2} /\ r[4] \in {-1, f3}
                          /\ f7 % 4 # 3
                          /\ r[1] = "fcvtmod.w.d" => f7 % 4 = 1

-----------------------------------------------------------------------------
\* The calls

CONSTANTS Operand,      \* values of registers where an instruction reads two
          OneOperand,   \* values of registers where it reads one
          Immediate,    \* immediates of OP-IMM, as the twelve bits of the field
          Word20,       \* the upper 20 bits of an instruction word
          FpMode        \* pairs of an rm field (or funct3) and a value of frm

ASSUME IsaUnitAssumption == Operand \subseteq Reg /\ OneOperand \subseteq Reg

VARIABLES call, ret
isaVars == <<call, ret>>

Idle == [op |-> "idle"]
IsaInit == call = Idle /\ ret = 0
Call(c, r) == call' = c /\ ret' = r

IntCall(opc, f3, f12, a, b, u) ==
    [op |-> "int", opc |-> opc, f3 |-> f3, f12 |-> f12, a |-> a, b |-> b, u |-> u]

\* A shift amount is below the width it shifts.
ShiftFits(f3, f12, mask, width) ==
    IF f3 \in {1, 5} THEN f12 % mask < width ELSE f12 \in Immediate

\* The values of funct7 some instruction has; one pair of operands is enough for others.
Funct7 == {0, 1, 4, 5, 7, 16, 20, 32, 36, 48, 52}
Operands(f7) == IF f7 \in Funct7 THEN Operand ELSE {1}

ExecOp(f3, f7, a, b) == Call(IntCall("OP", f3, f7 * 32, a, b, 0), Op(f3, f7, a, b))
ExecOp32(f3, f12, a, b) == Call(IntCall("OP-32", f3, f12, a, b, 0), Op32(f3, f12, a, b))
ExecOpImm(f3, f12, a) ==
    /\ ShiftFits(f3, f12, 64, XLEN) \/ (f3 = 5 /\ f12 = 1720)
    /\ Call(IntCall("OP-IMM", f3, f12, a, 0, 0), OpImm(f3, f12, 0, a))
ExecOpImm32(f3, f12, a, u) ==
    /\ IF f3 = 1 /\ F6(f12) = 2 THEN Shamt6(f12) < XLEN ELSE ShiftFits(f3, f12, 32, WLEN)
    /\ Call(IntCall("OP-IMM-32", f3, f12, a, 0, u), OpImm32(f3, f12, a, u))

ExecCompressed(insn, fs) ==
    /\ insn % 4 # 3
    /\ Call([op |-> "compressed", insn |-> insn, fs |-> fs], Expand(insn, fs))

ExecJal(hi) == Call([op |-> "jal", hi |-> hi], <<UpperImm(hi), JalImm(hi)>>)
ExecSplit(f7, rd) == Call([op |-> "split", f7 |-> f7, rd |-> rd], <<BImm(f7, rd), SImm(f7, rd)>>)
ExecHint(rd, rs1) == Call([op |-> "hint", rd |-> rd, rs1 |-> rs1], ctf_compute_hint(rd, rs1))
ExecJalr(pc, a, imm, c) ==
    Call([op |-> "jalr", pc |-> pc, a |-> a, imm |-> imm, c |-> c],
         <<Jalr(pc, a, imm, c), Jal(pc, imm, c)>>)
ExecBranch(f3, a, b) ==
    Call([op |-> "branch", f3 |-> f3, a |-> a, b |-> b],
         IF BranchLegal(f3) THEN Val(BranchCond(f3, a, b)) ELSE Illegal)
ExecLoad(f3, raw) ==
    Call([op |-> "load", f3 |-> f3, raw |-> raw],
         IF LoadLegal(f3) THEN Val(LoadVal(f3, raw)) ELSE Illegal)
ExecAmo(f5, n, a, b) ==
    Call([op |-> "amo", f5 |-> f5, n |-> n, a |-> a, b |-> b], AmoVal(f5, Cut(a, n), b, n))

ExecFp(f7, rs2, f3, frm, fs) ==
    Call([op |-> "fp", f7 |-> f7, rs2 |-> rs2, f3 |-> f3, frm |-> frm, fs |-> fs],
         FpExec(f7, rs2, f3, frm, fs))
ExecFma(fused, fmt, f3, frm, fs) ==
    Call([op |-> "fma", fused |-> fused, fmt |-> fmt, f3 |-> f3, frm |-> frm, fs |-> fs],
         FmaExec(fused, fmt, f3, frm, fs))
ExecFpMem(f3, fs) ==
    Call([op |-> "fpmem", f3 |-> f3, fs |-> fs], <<FpLoad(f3, fs), FpStore(f3, fs)>>)

Return == call # Idle /\ call' = Idle /\ ret' = 0

Integer ==
    \/ \E f3 \in 0 .. 7, f7 \in 0 .. 127 :
          \E a, b \in Operands(f7) : ExecOp(f3, f7, a, b)
    \/ \E f3 \in 0 .. 7, f7 \in 0 .. 127, rs2 \in {0, 1} :
          \E a, b \in Operands(f7) : ExecOp32(f3, f7 * 32 + rs2, a, b)
    \/ \E f3 \in 0 .. 7, f12 \in 0 .. 4095, a \in OneOperand : ExecOpImm(f3, f12, a)
    \/ \E f3 \in 0 .. 7, f12 \in 0 .. 4095, a \in OneOperand, u \in CtzOfZero :
          ExecOpImm32(f3, f12, a, u)

Control ==
    \/ \E insn \in 0 .. 65535, fs \in {0, 3} : ExecCompressed(insn, fs)
    \/ \E hi \in Word20 : ExecJal(hi)
    \/ \E f7 \in 0 .. 127, rd \in 0 .. 31 : ExecSplit(f7, rd)
    \/ \E rd, rs1 \in 0 .. 31 : ExecHint(rd, rs1)
    \/ \E pc, a \in Operand, imm \in -4 .. 4, c \in BOOLEAN :
          pc % (IF c THEN 2 ELSE 4) = 0 /\ ExecJalr(pc, a, imm, c)
    \/ \E f3 \in 0 .. 7, a, b \in Operand : ExecBranch(f3, a, b)
    \/ \E f3 \in 0 .. 7, raw \in Reg : ExecLoad(f3, raw)
    \/ \E f5 \in AmoFuncts, n \in {WLEN, XLEN}, a, b \in Operand : ExecAmo(f5, n, a, b)

FloatingPoint ==
    \/ \E f7 \in 0 .. 127, rs2 \in 0 .. 31, mode \in FpMode, fs \in {0, 1} :
          ExecFp(f7, rs2, mode[1], mode[2], fs)
    \/ \E fused, fmt \in 0 .. 3, mode \in FpMode, fs \in {0, 1} :
          ExecFma(fused, fmt, mode[1], mode[2], fs)
    \/ \E f3 \in {2, 3}, fs \in {0, 1} : ExecFpMem(f3, fs)

IsaNext == (call = Idle /\ (Integer \/ Control \/ FloatingPoint)) \/ Return

IsaSpec == IsaInit /\ [][IsaNext]_isaVars

-----------------------------------------------------------------------------
\* OP, OP-IMM, OP-32 and OP-IMM-32 accept exactly the encodings the manual lists and
\* compute what it says, at the ends of the range, for divisions by zero, overflowing
\* quotients and rotations by nothing.  Two encodings are left out where the code
\* differs: roriw of a register with bits above the word, and ctzw of a register whose
\* word alone is empty.
ArithmeticAsSpecified ==
    call.op = "int" =>
       LET upper == call.a >= 2^WLEN
           skip == call.opc = "OP-IMM-32" /\ upper
                   /\ \/ call.f3 = 5 /\ F7(call.f12) = 48
                      \/ call.f3 = 1 /\ call.f12 = 1537 /\ Uint32(call.a) = 0
       IN  skip \/ ret = RefExec(call.opc, call.f3, call.f12, call.a, call.b)

\* A load extends by sign or by zero as its name says, and an AMO writes back what the
\* manual says at its own width, whatever the register holds above it.
MemoryAsSpecified ==
    /\ call.op = "load" =>
          LET n == <<BLEN, HLEN, WLEN, XLEN, BLEN, HLEN, WLEN>>[call.f3 + 1]
          IN  IF call.f3 = 7 THEN ret = Illegal
              ELSE ret = Val(IF call.f3 <= 3 THEN U(Signed(call.raw, n)) ELSE call.raw % 2^n)
    /\ call.op = "amo" => ret = RefAmo(call.f5, call.a, call.b, call.n)

\* Every 16-bit encoding has the effect of the base instruction the manual expands it
\* to, or is illegal where the manual reserves it.
CompressedAsSpecified ==
    call.op = "compressed" => ret = RefExpand(call.insn, call.fs)

\* Jumps, branches and hints: the immediates are put together from the manual's columns,
\* a target is a multiple of four unless the C extension is on, a jump whose target is
\* not traps and leaves the link register alone, and the kind reported for a jump
\* through a register is the one of the return-address stack table.
TransferAsSpecified ==
    /\ call.op = "jal" => ret[2] = RefJal(call.hi)
    /\ call.op = "split" => ret = <<RefB(call.f7, call.rd), RefS(call.f7, call.rd)>>
    /\ call.op = "hint" => ret = RefHint(call.rd, call.rs1)
    /\ call.op = "jalr" =>
          \A j \in {1, 2} :
             LET to == IF j = 2 THEN U(call.pc + call.imm)
                       ELSE 2 * (U(call.a + call.imm) \div 2)
             IN  IF to % 4 = 0 \/ call.c
                 THEN ret[j] = [ok |-> TRUE, pc |-> to, link |-> U(call.pc + 4)]
                 ELSE ret[j] = [ok |-> FALSE, pc |-> call.pc, link |-> 0]
    /\ call.op = "branch" =>
          LET name == RefBranches[call.f3 + 1]
          IN  IF name = "none" THEN ret = Illegal ELSE ret = Val(RefTaken(name, call.a, call.b))

\* A floating-point encoding is executed exactly if the F or D extension defines it and
\* its rounding mode, the dynamic one included, is not reserved; a single-precision
\* operand is always checked for its NaN box before the library sees it, and whenever a
\* floating-point register or the flags may have changed the state field says dirty.  The
\* one gap is Zfa (majordomo_template.h:2408-2493): with the unit on, its encodings and no
\* others retire without doing what the manual says, and disturb nothing.
FpAsSpecified ==
    LET sound(r) ==
            /\ r.from = "s" /\ r.op \notin {"mv", "store"} => r.unbox
            /\ r.dirty = (r.to # "x" \/ r.op \notin {"mv", "class", "store", "illegal"})
    IN  /\ call.op = "fp" =>
              LET ref == RefFp(call.f7, call.rs2, call.f3, call.frm)
              IN  IF call.fs # 0 /\ RefZfa(call.f7, call.rs2, call.f3)
                  THEN ret = Captured
                  ELSE /\ sound(ret)
                       /\ IF call.fs = 0 \/ ref = {} THEN ret = FpIllegal
                          ELSE ref = {<<ret.op, ret.rm, ret.from, ret.to>>}
        /\ call.op = "fma" =>
              LET mode == IF call.f3 = 7 THEN call.frm ELSE call.f3
                  name == FmaOps[call.fused + 1]
              IN  /\ sound(ret)
                  /\ (ret.op # "illegal") = (call.fs # 0 /\ call.fmt < 2 /\ mode < 5)
                  /\ ret.op # "illegal" => ret.rm = mode /\ ret.to = <<"s", "d">>[call.fmt + 1]
                  /\ FmaNegates(call.fused) =
                        [product |-> name \in {"nmsub", "nmadd"}, addend |-> name \in {"msub", "nmadd"}]
        /\ call.op = "fpmem" => sound(ret[1]) /\ sound(ret[2])

\* Every encoding the interpreter tells apart, of 16 or 32 bits, has the effect the manual
\* gives it, or is illegal where the manual reserves it: integer arithmetic, loads and
\* AMOs, jumps and branches, compressed instructions, and the decoding of the
\* floating-point opcodes, where the instructions of Zfa are known not to be executed.
InsnAsSpecified ==
    /\ ArithmeticAsSpecified /\ MemoryAsSpecified /\ TransferAsSpecified
    /\ CompressedAsSpecified /\ FpAsSpecified
=============================================================================
