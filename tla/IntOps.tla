------------------------------- MODULE IntOps -------------------------------
(* The integer computations of the interpreter: the helper functions at the top of
   majordomo_template.h and the opcodes OP, OP-IMM, OP-32 and OP-IMM-32 with the M,
   Zba, Zbb, Zbc, Zbs and Zicond extensions.

   A register is a natural number below 2^XLEN.  The widths are constants: XLEN is 64,
   WLEN 32, HLEN 16 and BLEN 8 in the build.  The fields of an encoding keep the widths
   they have in an instruction word, so a shift amount is taken below XLEN. *)
EXTENDS Integers, FiniteSets, FiniteSetsExt

CONSTANTS XLEN, WLEN, HLEN, BLEN,
          CtzOfZero     \* what __builtin_ctz(0), which is undefined, may return

ASSUME IntOpsAssumption ==
    /\ XLEN = 2 * WLEN /\ WLEN \in Nat \ {0}
    /\ HLEN \in 1 .. XLEN /\ BLEN \in 1 .. XLEN /\ XLEN % BLEN = 0

Reg == 0 .. 2^XLEN - 1

-----------------------------------------------------------------------------
(* Words and their bits *)

Cut(v, n) == v % 2^n
BitsOf(v, n) == {i \in 0 .. n - 1 : (v \div 2^i) % 2 = 1}
OfBits(S) == MapThenSumSet(LAMBDA i : 2^i, S)
Signed(v, n) == IF Cut(v, n) >= 2^(n - 1) THEN Cut(v, n) - 2^n ELSE Cut(v, n)
U(v) == Cut(v, XLEN)

And(a, b) == OfBits(BitsOf(a, XLEN) \cap BitsOf(b, XLEN))
Or(a, b) == OfBits(BitsOf(a, XLEN) \cup BitsOf(b, XLEN))
Not(a) == 2^XLEN - 1 - a
Xor(a, b) == Or(And(a, Not(b)), And(Not(a), b))
Shl(a, n) == U(Cut(a, XLEN - n) * 2^n)
Shr(a, n) == a \div 2^n
Sra(a, n) == U(Signed(a, XLEN) \div 2^n)

\* A cast to int32_t, widened to a register, and one to uint32_t.
Int32(v) == U(Signed(v, WLEN))
Uint32(v) == Cut(v, WLEN)
Truth(b) == IF b THEN 1 ELSE 0

-----------------------------------------------------------------------------
(* The helper functions *)

orc_b(rs) ==
    OfBits({i \in 0 .. XLEN - 1 :
              \E j \in BitsOf(rs, XLEN) : j \div BLEN = i \div BLEN})

Byte(v, i) == (v \div 2^(i * BLEN)) % 2^BLEN
rev8(rs) ==
    LET n == XLEN \div BLEN
    IN  MapThenSumSet(LAMBDA i : Byte(rs, i) * 2^((n - 1 - i) * BLEN), 0 .. n - 1)

\* With an amount of 0 the code shifts right by XLEN, which C leaves undefined.  A build
\* shifts by 0 or gives 0; either way the disjunction with the left shift is rs1.
rol(rs1, rs2) ==
    LET shift == rs2 % XLEN IN Or(Shl(rs1, shift), Shr(rs1, (XLEN - shift) % XLEN))

ror(rs1, rs2) ==
    LET shamt == rs2 % XLEN IN Or(Shr(rs1, shamt), Shl(rs1, (XLEN - shamt) % XLEN))

\* rori keeps rd when the amount is too large.
rori(rd, rs1, shamt) == IF shamt > XLEN - 1 THEN rd ELSE ror(rs1, shamt)

Shl32(v, n) == Uint32(v * 2^n)
rolw64(rs1, rs2) ==
    LET shamt == rs2 % WLEN
        v1 == Uint32(rs1)
    IN  Int32(Or(Shl32(v1, shamt), Shr(v1, (WLEN - shamt) % WLEN)))
rorw(rs1, rs2) ==
    LET shamt == rs2 % WLEN
        v1 == Uint32(rs1)
    IN  Int32(Or(Shr(v1, shamt), Shl32(v1, (WLEN - shamt) % WLEN)))

\* roriw shifts the whole register and cuts the result to a word.
roriw(rs1, shamt5) ==
    Int32(Or(Shr(rs1, shamt5), Shl(rs1, (WLEN - shamt5) % WLEN)))

\* C++ division truncates towards zero.
Magnitude(x) == IF x < 0 THEN -x ELSE x
Quot(x, y) == IF (x < 0) = (y < 0) THEN Magnitude(x) \div Magnitude(y) ELSE -(Magnitude(x) \div Magnitude(y))

\* div32/div64, divu, rem and remu, on n-bit operands.
div(a, b, n) ==
    LET x == Signed(a, n)
        y == Signed(b, n)
    IN  IF y = 0 THEN -1 ELSE IF x = -(2^(n - 1)) /\ y = -1 THEN x ELSE Quot(x, y)
divu(a, b, n) == IF Cut(b, n) = 0 THEN -1 ELSE Cut(a, n) \div Cut(b, n)

\* Mutant: the remainder of a division by zero is zero.
rem_Zero(a, b, n) ==
    LET x == Signed(a, n)
        y == Signed(b, n)
    IN  IF y = 0 THEN 0 ELSE x - y * Quot(x, y)

rem(a, b, n) ==
    LET x == Signed(a, n)
        y == Signed(b, n)
    IN  IF y = 0 THEN x
        ELSE IF x = -(2^(n - 1)) /\ y = -1 THEN 0 ELSE x - y * Quot(x, y)
remu(a, b, n) == IF Cut(b, n) = 0 THEN Cut(a, n) ELSE Cut(a, n) % Cut(b, n)

\* The carry-less products: the shifted copies of v1 for the bits of v2, xored.
XorAll(S, copy(_)) ==
    OfBits({i \in 0 .. XLEN - 1 :
              Cardinality({j \in S : i \in BitsOf(copy(j), XLEN)}) % 2 = 1})
clmul(v1, v2) == XorAll(BitsOf(v2, XLEN), LAMBDA i : Shl(v1, i))
clmulh(v1, v2) == XorAll(BitsOf(v2, XLEN) \ {0}, LAMBDA i : Shr(v1, XLEN - i))
clmulr(v1, v2) == XorAll(BitsOf(v2, XLEN), LAMBDA i : Shr(v1, XLEN - i - 1))

cpop(v, n) == Cardinality(BitsOf(v, n))
ctz(v) == IF v = 0 THEN XLEN ELSE Min(BitsOf(v, XLEN))

\* ctzw tests the register and counts in the word: u is what the count of an
\* empty word returns.
ctzw(v, u) ==
    IF v = 0 THEN WLEN ELSE IF Uint32(v) = 0 THEN u ELSE Min(BitsOf(v, WLEN))
clz(v, n) == IF Cut(v, n) = 0 THEN n ELSE n - 1 - Max(BitsOf(v, n))
sext(v, n) == U(Signed(v, n))

\* mulh, mulhsu and mulhu take the upper half of a product of 2 * XLEN bits.
mulh(a, b) == U((Signed(a, XLEN) * Signed(b, XLEN)) \div 2^XLEN)
mulhsu(a, b) == U((Signed(a, XLEN) * b) \div 2^XLEN)
mulhu(a, b) == (a * b) \div 2^XLEN

-----------------------------------------------------------------------------
(* The opcodes.  f3, f7 and f12 are the fields of the encoding; f12 is f6 and a shift
   amount of six bits, or f7 and one of five.  An operator returns the value for rd, or
   Illegal where the code leaves for illegal_insn. *)

Val(v) == [ok |-> TRUE, val |-> v]
Illegal == [ok |-> FALSE, val |-> 0]

F6(f12) == f12 \div 64
F7(f12) == f12 \div 32
Shamt6(f12) == f12 % 64
Shamt5(f12) == f12 % 32
Imm(f12) == U(Signed(f12, 12))
OneAt(n) == Shl(1, n % XLEN)

\* funct3 = 1 of OP-IMM: the unary Zbb operations, the single-bit ones, and slli.
OpImmLeft(f12, val1) ==
    CASE f12 = 1537 -> Val(ctz(val1))
      [] f12 = 1536 -> Val(clz(val1, XLEN))
      [] f12 = 1538 -> Val(cpop(val1, XLEN))
      [] f12 = 1541 -> Val(sext(val1, HLEN))
      [] f12 = 1540 -> Val(sext(val1, BLEN))
      [] F6(f12) = 10 -> Val(Or(val1, OneAt(Shamt6(f12))))
      [] F6(f12) = 18 -> Val(And(val1, Not(OneAt(Shamt6(f12)))))
      [] F6(f12) = 26 -> Val(Xor(val1, OneAt(Shamt6(f12))))
      [] F6(f12) = 0 -> Val(Shl(val1, Shamt6(f12) % XLEN))
      [] OTHER -> Illegal

\* funct3 = 5: orc.b, rev8, bexti, rori, and the right shifts.
OpImmRight(f12, vald, val1) ==
    CASE f12 = 647 -> Val(orc_b(val1))
      [] f12 = 1720 -> Val(rev8(val1))
      [] F6(f12) = 18 -> Val(Shr(val1, Shamt6(f12) % XLEN) % 2)
      [] F6(f12) = 24 -> Val(rori(vald, val1, Shamt6(f12)))
      [] F6(f12) = 16 -> Val(Sra(val1, Shamt6(f12) % XLEN))
      [] F6(f12) = 0 -> Val(Shr(val1, Shamt6(f12) % XLEN))
      [] OTHER -> Illegal

OpImm(f3, f12, vald, val1) ==
    CASE f3 = 0 -> Val(U(val1 + Imm(f12)))
      [] f3 = 1 -> OpImmLeft(f12, val1)
      [] f3 = 2 -> Val(Truth(Signed(val1, XLEN) < Signed(f12, 12)))
      [] f3 = 3 -> Val(Truth(val1 < Imm(f12)))
      [] f3 = 4 -> Val(Xor(val1, Imm(f12)))
      [] f3 = 5 -> OpImmRight(f12, vald, val1)
      [] f3 = 6 -> Val(Or(val1, Imm(f12)))
      [] f3 = 7 -> Val(And(val1, Imm(f12)))

OpImm32(f3, f12, val1, u) ==
    CASE f3 = 0 -> Val(Int32(val1 + Imm(f12)))
      [] f3 = 1 /\ F6(f12) = 2 -> Val(Shl(Uint32(val1), Shamt6(f12)))
      [] f3 = 1 /\ f12 = 1537 -> Val(ctzw(val1, u))
      [] f3 = 1 /\ f12 = 1538 -> Val(cpop(val1, WLEN))
      [] f3 = 1 /\ f12 = 1536 -> Val(clz(val1, WLEN))
      [] f3 = 1 /\ F7(f12) = 0 -> Val(Int32(Shl(val1, Shamt5(f12))))
      [] f3 = 5 /\ F7(f12) = 48 -> Val(roriw(val1, Shamt5(f12)))
      [] f3 = 5 /\ F7(f12) = 32 -> Val(U(Signed(val1, WLEN) \div 2^Shamt5(f12)))
      [] f3 = 5 /\ F7(f12) = 0 -> Val(Int32(Shr(Uint32(val1), Shamt5(f12))))
      [] OTHER -> Illegal

\* The extensions OP tries first; what none of them takes is left to OpBase.
OpExtensions(f3, f7, val1, val2) ==
    LET less == Signed(val1, XLEN) < Signed(val2, XLEN)
        one == OneAt(val2 % XLEN)
    IN  CASE f7 = 16 /\ f3 \in {2, 4, 6} -> Val(U(Shl(val1, f3 \div 2) + val2))
          [] f7 = 16 /\ f3 \notin {2, 4, 6} -> Illegal
          [] f7 = 5 /\ f3 = 4 -> Val(IF less THEN val1 ELSE val2)
          [] f7 = 5 /\ f3 = 5 -> Val(IF val1 < val2 THEN val1 ELSE val2)
          [] f7 = 5 /\ f3 = 6 -> Val(IF less THEN val2 ELSE val1)
          [] f7 = 5 /\ f3 = 7 -> Val(IF val1 < val2 THEN val2 ELSE val1)
          [] f7 = 32 /\ f3 = 4 -> Val(Not(Xor(val1, val2)))
          [] f7 = 32 /\ f3 = 6 -> Val(Or(val1, Not(val2)))
          [] f7 = 32 /\ f3 = 7 -> Val(And(val1, Not(val2)))
          [] f7 = 48 /\ f3 = 1 -> Val(rol(val1, val2))
          [] f7 = 48 /\ f3 = 5 -> Val(ror(val1, val2))
          [] f7 = 5 /\ f3 = 1 -> Val(clmul(val1, val2))
          [] f7 = 5 /\ f3 = 2 -> Val(clmulr(val1, val2))
          [] f7 = 5 /\ f3 = 3 -> Val(clmulh(val1, val2))
          [] f7 = 20 /\ f3 = 1 -> Val(Or(val1, one))
          [] f7 = 36 /\ f3 = 1 -> Val(And(val1, Not(one)))
          [] f7 = 36 /\ f3 = 5 -> Val(Shr(val1, val2 % XLEN) % 2)
          [] f7 = 52 /\ f3 = 1 -> Val(Xor(val1, one))
          [] f7 = 7 /\ f3 = 5 -> Val(IF val2 = 0 THEN 0 ELSE val1)
          [] f7 = 7 /\ f3 = 7 -> Val(IF val2 # 0 THEN 0 ELSE val1)

OpMulDiv(f3, val1, val2) ==
    CASE f3 = 0 -> U(Signed(val1, XLEN) * Signed(val2, XLEN))
      [] f3 = 1 -> mulh(val1, val2)
      [] f3 = 2 -> mulhsu(val1, val2)
      [] f3 = 3 -> mulhu(val1, val2)
      [] f3 = 4 -> U(div(val1, val2, XLEN))
      [] f3 = 5 -> U(divu(val1, val2, XLEN))
      [] f3 = 6 -> U(rem(val1, val2, XLEN))
      [] f3 = 7 -> remu(val1, val2, XLEN)

\* The base operations: bit 5 of funct7 tells sub from add and sra from srl.
OpBase(f3, f7, val1, val2) ==
    CASE f7 \notin {0, 32} -> Illegal
      [] f3 = 0 /\ f7 = 0 -> Val(U(val1 + val2))
      [] f3 = 0 /\ f7 = 32 -> Val(U(val1 - val2))
      [] f3 = 1 /\ f7 = 0 -> Val(Shl(val1, val2 % XLEN))
      [] f3 = 2 /\ f7 = 0 -> Val(Truth(Signed(val1, XLEN) < Signed(val2, XLEN)))
      [] f3 = 3 /\ f7 = 0 -> Val(Truth(val1 < val2))
      [] f3 = 4 /\ f7 = 0 -> Val(Xor(val1, val2))
      [] f3 = 5 /\ f7 = 0 -> Val(Shr(val1, val2 % XLEN))
      [] f3 = 5 /\ f7 = 32 -> Val(Sra(val1, val2 % XLEN))
      [] f3 = 6 /\ f7 = 0 -> Val(Or(val1, val2))
      [] f3 = 7 /\ f7 = 0 -> Val(And(val1, val2))
      [] OTHER -> Illegal

Extended(f3, f7) ==
    \/ f7 = 16
    \/ f7 = 5 /\ f3 # 0
    \/ f7 = 32 /\ f3 \in {4, 6, 7}
    \/ f7 = 48 /\ f3 \in {1, 5}
    \/ f7 \in {20, 52} /\ f3 = 1
    \/ f7 = 36 /\ f3 \in {1, 5}
    \/ f7 = 7 /\ f3 \in {5, 7}

Op(f3, f7, val1, val2) ==
    IF Extended(f3, f7) THEN OpExtensions(f3, f7, val1, val2)
    ELSE IF f7 = 1 THEN Val(OpMulDiv(f3, val1, val2))
    ELSE OpBase(f3, f7, val1, val2)

\* OP-32; zext.h is told by the whole of funct12.
Op32(f3, f12, val1, val2) ==
    LET f7 == F7(f12)
        w1 == Uint32(val1)
    IN  CASE f7 = 16 /\ f3 \in {2, 4, 6} -> Val(U(Shl(w1, f3 \div 2) + val2))
          [] f7 = 4 /\ f3 = 0 -> Val(U(w1 + val2))
          [] f12 = 128 /\ f3 = 4 -> Val(Cut(val1, HLEN))
          [] f7 = 48 /\ f3 = 1 -> Val(rolw64(val1, val2))
          [] f7 = 48 /\ f3 = 5 -> Val(rorw(val1, val2))
          [] f7 = 1 /\ f3 = 0 -> Val(Int32(Signed(val1, WLEN) * Signed(val2, WLEN)))
          [] f7 = 1 /\ f3 = 4 -> Val(U(div(val1, val2, WLEN)))
          [] f7 = 1 /\ f3 = 5 -> Val(Int32(divu(val1, val2, WLEN)))
          [] f7 = 1 /\ f3 = 6 -> Val(U(rem(val1, val2, WLEN)))
          [] f7 = 1 /\ f3 = 7 -> Val(Int32(remu(val1, val2, WLEN)))
          [] f7 = 0 /\ f3 = 0 -> Val(Int32(val1 + val2))
          [] f7 = 32 /\ f3 = 0 -> Val(Int32(val1 - val2))
          [] f7 = 0 /\ f3 = 1 -> Val(Int32(w1 * 2^(val2 % WLEN)))
          [] f7 = 0 /\ f3 = 5 -> Val(Int32(Shr(w1, val2 % WLEN)))
          [] f7 = 32 /\ f3 = 5 -> Val(U(Signed(val1, WLEN) \div 2^(val2 % WLEN)))
          [] OTHER -> Illegal

=============================================================================
