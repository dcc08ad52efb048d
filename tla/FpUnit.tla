------------------------------- MODULE FpUnit -------------------------------
(* The calls the interpreter makes into the floating-point library, one action per
   exported function.  A call records its arguments and what the library returned;
   the two formats of the conversions are the one of this module and a wider one. *)
EXTENDS SoftFp

(* What IEEE 754 asks of a result: the exact value rounded once.  The magnitude of
   a finite float is n * 2^(e - Bias - MANT_SIZE), and an exact value is a fraction
   n/d with such an exponent e. *)

Bias == EXP_MASK \div 2

Num(a) == [s |-> Sign(a), n |-> IF Exp(a) = 0 THEN Mant(a) ELSE Mant(a) + 2^MANT_SIZE,
           e |-> IF Exp(a) = 0 THEN 1 ELSE Exp(a)]

\* n/d * 2^by as a whole number and the place of the rest, in halves: 0 is exact, 2 is
\* one half, 1 and 3 lie below and above.  A divisor beyond the largest number TLC knows
\* is cut to it: the quotient is below one half either way.
Whole(n, d, by) ==
    LET cap  == 31 - BitLen(d)
        num  == IF by >= 0 THEN n * 2^by ELSE n
        den  == IF by >= 0 THEN d ELSE d * 2^(IF -by > cap THEN cap ELSE -by)
        rest == num % den
    IN  [k |-> num \div den,
         rest |-> IF rest = 0 THEN 0
                  ELSE IF rest < den - rest THEN 1 ELSE IF rest = den - rest THEN 2 ELSE 3]

\* The whole number the mode chooses.
Choose(s, w, rm) ==
    w.k + Bit(CASE rm = "RNE" -> w.rest = 3 \/ (w.rest = 2 /\ w.k % 2 = 1)
                [] rm = "RMM" -> w.rest >= 2
                [] rm = "RTZ" -> FALSE
                [] rm = "RDN" -> w.rest # 0 /\ s = 1
                [] rm = "RUP" -> w.rest # 0 /\ s = 0)

TowardsZero(s, rm) == rm = "RTZ" \/ (rm = "RDN" /\ s = 0) \/ (rm = "RUP" /\ s = 1)

\* The float nearest to n/d in the direction of rm, n # 0, with its flags: underflow
\* when the value rounded with an unbounded exponent is below the normal numbers.
Round(s, n, d, e, rm) ==
    LET top   == IF d = 1 THEN BitLen(n) - 1 ELSE BitLen((4096 * n) \div d) - 13
        free  == top + e - MANT_SIZE
        q     == IF free < 1 THEN 1 ELSE free
        w     == Whole(n, d, e - q)
        k     == Choose(s, w, rm)
        carry == k = 2^(MANT_SIZE + 1)
        wide  == Choose(s, Whole(n, d, e - free), rm)
        tiny  == free < 1 /\ ~(free = 0 /\ wide = 2^(MANT_SIZE + 1))
        exp   == IF carry THEN q + 1 ELSE q
    IN  IF exp >= EXP_MASK /\ k >= 2^MANT_SIZE
        THEN Result(IF TowardsZero(s, rm) THEN pack_sf(s, EXP_MASK - 1, MANT_MASK)
                                          ELSE pack_sf(s, EXP_MASK, 0),
                    {"OVERFLOW", "INEXACT"})
        ELSE Result(IF k < 2^MANT_SIZE THEN pack_sf(s, 0, k)
                    ELSE pack_sf(s, exp, IF carry THEN 0 ELSE k),
                    Flag("INEXACT", w.rest # 0) \cup Flag("UNDERFLOW", tiny /\ w.rest # 0))

\* The exact sum of x and y, a signed multiple of 2^e.  An operand too small to reach
\* any rounding boundary beside the other one only lends its sign.
Sum(x, y) ==
    LET hi    == IF y.n = 0 \/ (x.n # 0 /\ x.e >= y.e) THEN x ELSE y
        lo    == IF hi = x THEN y ELSE x
        guard == IF BitLen(hi.n) < MANT_SIZE + 3 THEN MANT_SIZE + 3 - BitLen(hi.n) ELSE 0
        dist  == IF lo.n = 0 \/ hi.e <= lo.e THEN 0 ELSE hi.e - lo.e
        far   == dist >= BitLen(lo.n) + guard /\ dist > guard
        by    == IF far THEN guard + 1 ELSE dist
        Signed(s, n) == IF s = 1 THEN -n ELSE n
    IN  [v |-> Signed(hi.s, hi.n * 2^by) + Signed(lo.s, IF far THEN 1 ELSE lo.n),
         e |-> hi.e - by]

IeeeSum(x, y, rm) ==
    LET z == Sum(x, y) IN
    IF z.v = 0 THEN Exact(pack_sf(IF x.s = y.s THEN x.s ELSE Bit(rm = "RDN"), 0, 0))
    ELSE Round(Bit(z.v < 0), IF z.v < 0 THEN -z.v ELSE z.v, 1, z.e, rm)

Times(x, y) == [s |-> SignXor(x.s, y.s), n |-> x.n * y.n, e |-> x.e + y.e - Bias - MANT_SIZE]

Inf(a) == Special(a) /\ Mant(a) = 0
Infinity(s) == Exact(pack_sf(s, EXP_MASK, 0))
Zero(s) == Exact(pack_sf(s, 0, 0))

RefAdd(a, b, rm) ==
    IF isnan_sf(a) \/ isnan_sf(b) THEN QuietNan({a, b})
    ELSE IF Inf(a) /\ Inf(b) /\ Sign(a) # Sign(b) THEN Invalid
    ELSE IF Inf(a) THEN Exact(a) ELSE IF Inf(b) THEN Exact(b)
    ELSE IeeeSum(Num(a), Num(b), rm)

RefMul(a, b, rm) ==
    LET p == Times(Num(a), Num(b)) IN
    IF isnan_sf(a) \/ isnan_sf(b) THEN QuietNan({a, b})
    ELSE IF ZeroTimesInf(a, b) THEN Invalid
    ELSE IF Inf(a) \/ Inf(b) THEN Infinity(p.s)
    ELSE IF p.n = 0 THEN Zero(p.s) ELSE Round(p.s, p.n, 1, p.e, rm)

\* Infinity times zero is invalid whatever the addend is.
RefFma(a, b, c, rm) ==
    LET p == Times(Num(a), Num(b)) IN
    IF ~isnan_sf(a) /\ ~isnan_sf(b) /\ ZeroTimesInf(a, b) THEN Invalid
    ELSE IF isnan_sf(a) \/ isnan_sf(b) \/ isnan_sf(c) THEN QuietNan({a, b, c})
    ELSE IF Inf(a) \/ Inf(b)
    THEN IF Inf(c) /\ Sign(c) # p.s THEN Invalid ELSE Infinity(p.s)
    ELSE IF Inf(c) THEN Exact(c)
    ELSE IeeeSum(p, Num(c), rm)

IeeeDiv(a, b, rm) ==
    LET x == Num(a)
        y == Num(b)
        s == SignXor(x.s, y.s)
    IN  IF isnan_sf(a) \/ isnan_sf(b) THEN QuietNan({a, b})
        ELSE IF (Inf(a) /\ Inf(b)) \/ BothZero(a, b) THEN Invalid
        ELSE IF Inf(a) THEN Infinity(s)
        ELSE IF IsZero(b) THEN Result(pack_sf(s, EXP_MASK, 0), {"DIVIDE_ZERO"})
        ELSE IF Inf(b) \/ IsZero(a) THEN Zero(s)
        ELSE Round(s, x.n, y.n, x.e - y.e + Bias + MANT_SIZE, rm)

\* The root is taken of n * 2^j, of 23 or 24 bits and with an even exponent; one that
\* is not whole is put half way between two whole numbers, apart from any boundary.
RefSqrt(a, rm) ==
    LET x == Num(a)
        t == x.e - Bias - MANT_SIZE
        b == 24 - BitLen(x.n)
        j == b - ((t - b) % 2)
        n == x.n * 2^j
        k == CHOOSE r \in 2048 .. 4095 : r * r <= n /\ n < (r + 1) * (r + 1)
        e == (t - j) \div 2 + Bias + MANT_SIZE
    IN  IF isnan_sf(a) THEN QuietNan({a})
        ELSE IF IsZero(a) THEN Exact(a)
        ELSE IF Sign(a) = 1 THEN Invalid
        ELSE IF Inf(a) THEN Exact(a)
        ELSE IF k * k = n THEN Round(0, k, 1, e, rm) ELSE Round(0, 2 * k + 1, 2, e, rm)

-----------------------------------------------------------------------------
(* The library and its calls *)

CONSTANTS WIDE_EXP, WIDE_MANT,  \* the field widths of the wider format
          FpVal,                \* operands of the functions of two floats
          UnaryVal,             \* operands of the functions of one float
          FmaVal,               \* operands of fma_sf
          WideVal,              \* operands in the wider format
          Word,                 \* operands of divrem_u
          IntSize,              \* the sizes of integers
          IntVal(_)             \* the integers of a size, as their bits

WIDE_SIZE == 1 + WIDE_EXP + WIDE_MANT
WIDE_MASK == 2^WIDE_EXP - 1
WideBias == WIDE_MASK \div 2

\* Wide enough that every narrow float is a normal number of the wider format, and
\* every subnormal of the wider one is far below the narrow ones.
ASSUME FpUnitAssumption ==
    /\ WIDE_MANT >= F_SIZE - 2
    /\ WideBias > Bias + F_SIZE
    /\ FpVal \subseteq Float /\ UnaryVal \subseteq Float /\ FmaVal \subseteq Float
    /\ WideVal \subseteq 0 .. 2^WIDE_SIZE - 1

VARIABLES fpCall, fpRet
fpVars == <<fpCall, fpRet>>

FpIdle == [op |-> "idle"]
NoResult == Exact(0)

-----------------------------------------------------------------------------
(* Conversions between the formats *)

WideSign(a) == a \div 2^(WIDE_SIZE - 1)
WideExp(a) == (a \div 2^WIDE_MANT) % 2^WIDE_EXP
WideMant(a) == a % 2^WIDE_MANT
WidePack(s, e, m) == s * 2^(WIDE_SIZE - 1) + e * 2^WIDE_MANT + (m % 2^WIDE_MANT)
WideNan(a) == WideExp(a) = WIDE_MASK /\ WideMant(a) # 0
WideQuiet(a) == WideMant(a) >= 2^(WIDE_MANT - 1)

cvt_sf32_sf(a) ==
    LET z == IF Exp(a) = 0 THEN normalize_subnormal_sf(Mant(a))
             ELSE [e |-> Exp(a), m |-> Mant(a)]
    IN  IF isnan_sf(a)
        THEN Result(WidePack(0, WIDE_MASK, 2^(WIDE_MANT - 1)), QuietNan({a}).fl)
        ELSE IF Special(a) THEN Exact(WidePack(Sign(a), WIDE_MASK, 0))
        ELSE IF IsZero(a) THEN Exact(WidePack(Sign(a), 0, 0))
        ELSE Exact(WidePack(Sign(a), z.e - Bias + WideBias,
                            z.m * 2^(WIDE_MANT - MANT_SIZE)))

\* The shift of the wider mantissa to the top of a narrow word.
\* Mutant: the bits that do not fit are cut off.
CutMant_Lossy(m) == m \div 2^(WIDE_MANT - (F_SIZE - 2))

CutMant(m) ==
    LET d == WIDE_MANT - (F_SIZE - 2) IN Sticky(m \div 2^d, m % 2^d # 0)

\* The exponent of a subnormal is normalized, its mantissa stays as it is.
cvt_sf_sf32(a, rm) ==
    LET s == WideSign(a)
        m == WideMant(a) + (IF WideExp(a) = 0 THEN 0 ELSE 2^WIDE_MANT)
        e == IF WideExp(a) = 0 THEN 1 - (WIDE_MANT + 1 - BitLen(m)) ELSE WideExp(a)
    IN  IF WideNan(a) THEN Result(F_QNAN, Flag("INVALID_OP", ~WideQuiet(a)))
        ELSE IF WideExp(a) = WIDE_MASK THEN Exact(pack_sf(s, EXP_MASK, 0))
        ELSE IF m = 0 THEN Exact(pack_sf(s, 0, 0))
        ELSE normalize_sf(s, e - WideBias + Bias, CutMant(m), rm)

-----------------------------------------------------------------------------
FpInit == fpCall = FpIdle /\ fpRet = NoResult

FpCall(c, r) == fpCall' = c /\ fpRet' = r

Two(op, a, b, rm) == [op |-> op, a |-> a, b |-> b, rm |-> rm]

FpAdd(a, b, rm) == FpCall(Two("add", a, b, rm), add_sf(a, b, rm))
Sub(a, b, rm) == FpCall(Two("sub", a, b, rm), sub_sf(a, b, rm))
Mul(a, b, rm) == FpCall(Two("mul", a, b, rm), mul_sf(a, b, rm))
Div(a, b, rm) == FpCall(Two("div", a, b, rm), div_sf(a, b, rm))
Sqrt(a, rm) == FpCall(Two("sqrt", a, a, rm), sqrt_sf(a, rm))
Fma(a, b, c, rm) ==
    FpCall([op |-> "fma", a |-> a, b |-> b, c |-> c, rm |-> rm], fma_sf(a, b, c, rm))

Compare(op, a, b) ==
    FpCall([op |-> op, a |-> a, b |-> b],
           CASE op = "min" -> min_sf(a, b)
             [] op = "max" -> max_sf(a, b)
             [] op = "eq" -> eq_quiet_sf(a, b)
             [] op = "le" -> le_sf(a, b)
             [] op = "lt" -> lt_sf(a, b))

Classify(a) == FpCall([op |-> "class", a |-> a], fclass_sf(a))

ToInt(a, rm, size, unsigned) ==
    FpCall([op |-> "to_int", a |-> a, rm |-> rm, size |-> size, unsigned |-> unsigned],
           internal_cvt_sf_i(a, rm, size, unsigned))
FromInt(i, rm, size, unsigned) ==
    FpCall([op |-> "from_int", i |-> i, rm |-> rm, size |-> size, unsigned |-> unsigned],
           internal_cvt_i_sf(i, rm, size, unsigned))
Widen(a) == FpCall([op |-> "widen", a |-> a], cvt_sf32_sf(a))
Narrow(a, rm) == FpCall([op |-> "narrow", a |-> a, rm |-> rm], cvt_sf_sf32(a, rm))

\* divrem_u is called with a1 < b; sqrtrem_u with a low word of zero and a high word
\* below a quarter of the range (sqrt_sf).
MulWords(a, b) == FpCall([op |-> "mul_u", a |-> a, b |-> b], mul_words(a, b))
DivWords(a1, a0, b) ==
    /\ a1 < b
    /\ FpCall([op |-> "divrem_u", a1 |-> a1, a0 |-> a0, b |-> b], divrem_u(a1, a0, b))
SqrtWords(a1) == FpCall([op |-> "sqrtrem_u", a1 |-> a1], sqrtrem_words(a1, 0))

\* The caller has taken the result.
FpReturn == fpCall # FpIdle /\ fpCall' = FpIdle /\ fpRet' = NoResult

Arithmetic ==
    \/ \E a, b \in FpVal, rm \in RoundingModeEnum :
          FpAdd(a, b, rm) \/ Sub(a, b, rm) \/ Mul(a, b, rm) \/ Div(a, b, rm)
    \/ \E a \in UnaryVal, rm \in RoundingModeEnum : Sqrt(a, rm)
    \/ \E a, b, c \in FmaVal, rm \in RoundingModeEnum : Fma(a, b, c, rm)
    \/ \E a, b \in FpVal, op \in {"min", "max", "eq", "le", "lt"} : Compare(op, a, b)
    \/ \E a \in UnaryVal : Classify(a)

Convert ==
    \/ \E a \in UnaryVal, rm \in RoundingModeEnum, size \in IntSize, u \in BOOLEAN :
          ToInt(a, rm, size, u)
    \/ \E rm \in RoundingModeEnum, size \in IntSize, u \in BOOLEAN :
          \E i \in IntVal(size) : FromInt(i, rm, size, u)
    \/ \E a \in UnaryVal : Widen(a)
    \/ \E a \in WideVal, rm \in RoundingModeEnum : Narrow(a, rm)

Words ==
    \/ \E a, b \in 0 .. 2^WORD_SIZE - 1 : MulWords(a, b)
    \/ \E a1 \in 0 .. 2^(WORD_SIZE - 2) - 1 : SqrtWords(a1)
    \/ \E a1, a0, b \in Word : DivWords(a1, a0, b)

\* The library is called from one thread: a call ends before the next one begins.
FpNext == (fpCall = FpIdle /\ (Arithmetic \/ Convert \/ Words)) \/ FpReturn

FpSpec == FpInit /\ [][FpNext]_fpVars

-----------------------------------------------------------------------------
\* add_sf, sub_sf, mul_sf, div_sf and sqrt_sf return the exact result rounded once in
\* the mode of the call, with exactly the flags IEEE 754 asks for: through guard bits
\* and sticky bits, subnormal operands and results, overflow, signed zeros, infinities
\* and quiet and signalling NaNs.
OperationsRound ==
    LET a == fpCall.a
        b == fpCall.b
        rm == fpCall.rm
    IN  /\ fpCall.op = "add" => fpRet = RefAdd(a, b, rm)
        /\ fpCall.op = "sub" => fpRet = RefAdd(a, (b + SIGN_MASK) % 2^F_SIZE, rm)
        /\ fpCall.op = "mul" => fpRet = RefMul(a, b, rm)
        /\ fpCall.op = "div" => fpRet = IeeeDiv(a, b, rm)
        /\ fpCall.op = "sqrt" => fpRet = RefSqrt(a, rm)

\* fma_sf rounds a * b + c once: nothing of the two-word product or of the shifted
\* addend that decides the rounding is lost, at any distance of the two.
FusedRoundsOnce ==
    fpCall.op = "fma" => fpRet = RefFma(fpCall.a, fpCall.b, fpCall.c, fpCall.rm)

\* The comparisons and the choice of min_sf and max_sf agree with the values of their
\* operands, minus zero counting below plus zero only for min_sf and max_sf.
ComparesValues ==
    fpCall.op \in {"min", "max", "eq", "le", "lt"} =>
    LET a == fpCall.a
        b == fpCall.b
        Order(x) == IF Inf(x) THEN (IF Sign(x) = 1 THEN -1 ELSE 1) ELSE 0
        less(x, y) == \/ Order(x) < Order(y)
                      \/ /\ Order(x) = 0 /\ Order(y) = 0
                         /\ Sum(Num(x), [Num(y) EXCEPT !.s = 1 - @]).v < 0
        nan == isnan_sf(a) \/ isnan_sf(b)
        signal == issignan_sf(a) \/ issignan_sf(b)
        below(x, y) == less(x, y) \/ (BothZero(x, y) /\ Sign(x) > Sign(y))
    IN  /\ fpRet.fl = Flag("INVALID_OP", signal \/ (nan /\ fpCall.op \in {"le", "lt"}))
        /\ fpCall.op = "lt" => (fpRet.v = 1) = (~nan /\ less(a, b))
        /\ fpCall.op = "le" => (fpRet.v = 1) = (~nan /\ ~less(b, a))
        /\ fpCall.op = "eq" => (fpRet.v = 1) = (~nan /\ ~less(a, b) /\ ~less(b, a))
        /\ fpCall.op = "min" /\ ~nan => fpRet.v \in {a, b} /\ ~below(a, fpRet.v) /\ ~below(b, fpRet.v)
        /\ fpCall.op = "max" /\ ~nan => fpRet.v \in {a, b} /\ ~below(fpRet.v, a) /\ ~below(fpRet.v, b)
        /\ fpCall.op \in {"min", "max"} /\ nan =>
              fpRet.v = IF isnan_sf(a) /\ isnan_sf(b) THEN F_QNAN
                      ELSE IF isnan_sf(a) THEN b ELSE a

\* fclass_sf gives the class of the value: one bit, and the bits of the numbers in the
\* order of their values, each sign's subnormals between its zero and its normals.
ClassifiesValues ==
    fpCall.op = "class" =>
    LET x     == Num(fpCall.a)
        away  == IF Inf(fpCall.a) THEN 3 ELSE IF x.n = 0 THEN 0
                 ELSE IF x.n < 2^MANT_SIZE THEN 1 ELSE 2
        class == IF isnan_sf(fpCall.a) THEN 8 + Bit(~issignan_sf(fpCall.a))
                 ELSE IF x.s = 1 THEN 3 - away ELSE 4 + away
    IN  fpRet = Exact(2^class)

\* A conversion to an integer rounds in the mode of the call when the rounded value is
\* an integer of the target, and otherwise saturates at the end on its side (NaN at the
\* upper end) with the invalid flag alone; the conversion back rounds once.
IntegersRound ==
    /\ fpCall.op = "to_int" =>
       LET x   == Num(fpCall.a)
           w   == Whole(x.n, 1, x.e - Bias - MANT_SIZE)
           k   == Choose(x.s, w, fpCall.rm)
           i   == IF x.s = 1 THEN -k ELSE k
           min == IF fpCall.unsigned THEN 0 ELSE -(2^(fpCall.size - 1))
           max == IF fpCall.unsigned THEN 2^fpCall.size - 1 ELSE 2^(fpCall.size - 1) - 1
           high == isnan_sf(fpCall.a) \/ x.s = 0
       IN  fpRet = IF Special(fpCall.a) \/ i < min \/ i > max
                 THEN Result((IF high THEN max ELSE min) % 2^fpCall.size, {"INVALID_OP"})
                 ELSE Result(i % 2^fpCall.size, Flag("INEXACT", w.rest # 0))
    /\ fpCall.op = "from_int" =>
       LET i == IF fpCall.unsigned \/ fpCall.i < 2^(fpCall.size - 1) THEN fpCall.i
                ELSE fpCall.i - 2^fpCall.size
       IN  fpRet = IF i = 0 THEN Zero(0)
                 ELSE Round(Bit(i < 0), IF i < 0 THEN -i ELSE i, 1, Bias + MANT_SIZE, fpCall.rm)

\* Narrowing rounds the wider value once, subnormals of either format included, and
\* widening loses nothing: the wide float narrows back to the one it came from, in
\* every mode and without a flag.
FormatsRound ==
    /\ fpCall.op = "narrow" /\ WideExp(fpCall.a) # WIDE_MASK =>
       LET s == WideSign(fpCall.a)
           n == WideMant(fpCall.a) + (IF WideExp(fpCall.a) = 0 THEN 0 ELSE 2^WIDE_MANT)
           e == (IF WideExp(fpCall.a) = 0 THEN 1 ELSE WideExp(fpCall.a)) - WideBias - WIDE_MANT
       IN  fpRet = IF n = 0 THEN Zero(s) ELSE Round(s, n, 1, e + Bias + MANT_SIZE, fpCall.rm)
    /\ fpCall.op = "widen" =>
       \A rm \in RoundingModeEnum :
          IF isnan_sf(fpCall.a)
          THEN cvt_sf_sf32(fpRet.v, rm) = Exact(F_QNAN) /\ fpRet.fl = QuietNan({fpCall.a}).fl
          ELSE fpRet.fl = {} /\ cvt_sf_sf32(fpRet.v, rm) = Exact(fpCall.a)

\* The functions on words compute with two words what the others compute with one of
\* twice the size, to the last bit: no carry between halves is lost, the division keeps
\* the bit it shifts out, and the root is the largest that fits.
WordsExact ==
    /\ fpCall.op = "mul_u" => fpRet[1] * 2^WORD_SIZE + fpRet[2] = fpCall.a * fpCall.b
    /\ fpCall.op = "divrem_u" =>
       /\ fpRet[1] < fpCall.b
       /\ fpRet[2] * fpCall.b + fpRet[1] = fpCall.a1 * 2^WORD_SIZE + fpCall.a0
    /\ fpCall.op = "sqrtrem_u" =>
       LET n == fpCall.a1 * 2^WORD_SIZE IN
       /\ fpRet[1] * fpRet[1] <= n /\ n < (fpRet[1] + 1) * (fpRet[1] + 1)
       /\ fpRet[2] = (fpRet[1] * fpRet[1] # n)

\* Every function the interpreter calls in the floating-point library returns what IEEE
\* 754 and the manual ask for, value and flags: arithmetic, fused multiply-add and the
\* conversions round the exact result once, comparisons agree with the values, and the
\* arithmetic on pairs of words that they rest on is exact.
FloatAsSpecified ==
    /\ OperationsRound /\ FusedRoundsOnce /\ IntegersRound /\ FormatsRound
    /\ ComparesValues /\ ClassifiesValues /\ WordsExact
=============================================================================
