------------------------------- MODULE SoftFp -------------------------------
(* The floating-point library: IEEE arithmetic on integers, for one format.  A
   float is the natural number of its F_SIZE bits, a result the number and the set
   of flags the function adds to fflags.  The library is instantiated for 32, 64
   and 128 bits from one template; here its two field widths are constants, and so is the
   size of the words its largest format is computed with. *)
EXTENDS Integers

CONSTANTS EXP_SIZE, MANT_SIZE

\* add_sf keeps three bits and a carry above the mantissa: F_SIZE - 1 >= MANT_SIZE + 5.
ASSUME SoftFpAssumption == EXP_SIZE \in Nat /\ EXP_SIZE >= 5 /\ MANT_SIZE \in Nat \ {0}

F_SIZE == 1 + EXP_SIZE + MANT_SIZE
RND_SIZE == EXP_SIZE - 1
EXP_MASK == 2^EXP_SIZE - 1
MANT_MASK == 2^MANT_SIZE - 1
SIGN_MASK == 2^(F_SIZE - 1)
F_QNAN == EXP_MASK * 2^MANT_SIZE + 2^(MANT_SIZE - 1)
Float == 0 .. 2^F_SIZE - 1

RoundingModeEnum == {"RNE", "RTZ", "RDN", "RUP", "RMM"}

-----------------------------------------------------------------------------
\* unpack_sf and pack_sf
Sign(a) == a \div SIGN_MASK
Exp(a) == (a \div 2^MANT_SIZE) % 2^EXP_SIZE
Mant(a) == a % 2^MANT_SIZE
pack_sf(s, e, m) == s * SIGN_MASK + e * 2^MANT_SIZE + (m % 2^MANT_SIZE)

Special(a) == Exp(a) = EXP_MASK
IsZero(a) == Exp(a) = 0 /\ Mant(a) = 0
isnan_sf(a) == Special(a) /\ Mant(a) # 0
issignan_sf(a) == isnan_sf(a) /\ Mant(a) < 2^(MANT_SIZE - 1)

Bit(b) == IF b THEN 1 ELSE 0
SignXor(s, t) == (s + t) % 2
Result(v, fl) == [v |-> v, fl |-> fl]
Exact(v) == Result(v, {})
Invalid == Result(F_QNAN, {"INVALID_OP"})
Flag(f, cond) == IF cond THEN {f} ELSE {}
QuietNan(args) == Result(F_QNAN, Flag("INVALID_OP", \E a \in args : issignan_sf(a)))

\* The number of bits of x, and the leading zeros of a word (0 has F_SIZE of them).
BitLen(x) == CHOOSE l \in 0 .. 31 : (l < 31 => x < 2^l) /\ (l > 0 => 2^(l - 1) <= x)
clz32(x) == F_SIZE - BitLen(x)

\* x | (b ? 1 : 0)
Sticky(x, b) == IF b /\ x % 2 = 0 THEN x + 1 ELSE x

rshift_rnd(a, d) ==
    IF d >= F_SIZE THEN Bit(a # 0) ELSE Sticky(a \div 2^d, a % 2^d # 0)

\* What rounding adds to the bits that are cut off.
Addend(s, rm) ==
    CASE rm \in {"RNE", "RMM"} -> 2^(RND_SIZE - 1)
      [] rm = "RTZ" -> 0
      [] OTHER -> IF (s = 1) # (rm = "RUP") THEN 2^RND_SIZE - 1 ELSE 0

RoundBits(m, s, rm) ==
    LET r == (m + Addend(s, rm)) \div 2^RND_SIZE IN
    IF rm = "RNE" /\ m % 2^RND_SIZE = 2^(RND_SIZE - 1) THEN r - (r % 2) ELSE r

\* The mantissa has its top bit at position F_SIZE - 2.
round_pack_sf(s, e, m, rm) ==
    LET low     == e <= 0
        tiny    == low /\ (e < 0 \/ m + Addend(s, rm) < SIGN_MASK)
        shifted == IF low THEN rshift_rnd(m, 1 - e) ELSE m
        inexact == shifted % 2^RND_SIZE # 0
        r       == RoundBits(shifted, s, rm)
        exp     == (IF low THEN 1 ELSE e) + r \div 2^(MANT_SIZE + 1)
        fl      == Flag("INEXACT", inexact) \cup Flag("UNDERFLOW", tiny /\ inexact)
    IN  IF r <= MANT_MASK THEN Result(pack_sf(s, 0, r), fl)
        ELSE IF exp >= EXP_MASK
        THEN Result(IF Addend(s, rm) = 0 THEN pack_sf(s, EXP_MASK - 1, MANT_MASK)
                                         ELSE pack_sf(s, EXP_MASK, 0),
                    fl \cup {"OVERFLOW", "INEXACT"})
        ELSE Result(pack_sf(s, exp, r), fl)

normalize_sf(s, e, m, rm) ==
    LET shift == clz32(m) - 1 IN round_pack_sf(s, e - shift, m * 2^shift, rm)

\* The same with a mantissa of two words.
normalize2_sf(s, e, m1, m0, rm) ==
    LET shift == (IF m1 = 0 THEN F_SIZE + clz32(m0) ELSE clz32(m1)) - 1
        low   == (m0 * 2^shift) % 2^F_SIZE
    IN  round_pack_sf(s, e - shift,
            IF shift < F_SIZE
            THEN Sticky(m1 * 2^shift + m0 \div 2^(F_SIZE - shift), low # 0)
            ELSE m0 * 2^(shift - F_SIZE), rm)

\* A subnormal mantissa moved up to the place of the implicit bit.
normalize_subnormal_sf(m) ==
    LET shift == MANT_SIZE - (F_SIZE - 1 - clz32(m)) IN [e |-> 1 - shift, m |-> m * 2^shift]

\* Exponent and mantissa with the implicit bit of a number other than zero.
Significand(a) ==
    IF Exp(a) = 0 THEN normalize_subnormal_sf(Mant(a))
    ELSE [e |-> Exp(a), m |-> Mant(a) + 2^MANT_SIZE]

-----------------------------------------------------------------------------
(* Arithmetic *)

\* The mantissa of a sum, with three more bits, and the exponent 1 for subnormals.
AddExp(a) == IF Exp(a) = 0 THEN 1 ELSE Exp(a)
AddMant(a) == 8 * (Mant(a) + (IF Exp(a) = 0 THEN 0 ELSE 2^MANT_SIZE))

\* Mutant: the bits shifted out are forgotten.
AlignedMant_Lossy(a, b) == AddMant(b) \div 2^(AddExp(a) - AddExp(b))

\* The mantissa of the smaller operand b, moved to the exponent of a.
AlignedMant(a, b) == rshift_rnd(AddMant(b), AddExp(a) - AddExp(b))

add_sf(x, y, rm) ==
    LET swap == x % SIGN_MASK < y % SIGN_MASK
        a    == IF swap THEN y ELSE x
        b    == IF swap THEN x ELSE y
        bm   == AlignedMant(a, b)
        m    == IF Sign(a) = Sign(b) THEN AddMant(a) + bm ELSE AddMant(a) - bm
        s    == IF Sign(a) # Sign(b) /\ m = 0 THEN Bit(rm = "RDN") ELSE Sign(a)
    IN  IF isnan_sf(a) THEN QuietNan({a, b})
        ELSE IF Special(a)
        THEN IF Special(b) /\ Sign(a) # Sign(b) THEN Invalid ELSE Exact(a)
        ELSE normalize_sf(s, AddExp(a) + RND_SIZE - 3, m, rm)

sub_sf(a, b, rm) == add_sf(a, (b + SIGN_MASK) % 2^F_SIZE, rm)

ZeroTimesInf(a, b) == (IsZero(a) /\ Special(b)) \/ (IsZero(b) /\ Special(a))

mul_sf(a, b, rm) ==
    LET s == SignXor(Sign(a), Sign(b))
        x == Significand(a)
        y == Significand(b)
        p == (x.m * 2^RND_SIZE) * (y.m * 2^(RND_SIZE + 1))
    IN  IF isnan_sf(a) \/ isnan_sf(b) THEN QuietNan({a, b})
        ELSE IF ZeroTimesInf(a, b) THEN Invalid
        ELSE IF Special(a) \/ Special(b) THEN Exact(pack_sf(s, EXP_MASK, 0))
        ELSE IF IsZero(a) \/ IsZero(b) THEN Exact(pack_sf(s, 0, 0))
        ELSE normalize_sf(s, x.e + y.e - 2^(EXP_SIZE - 1) + 2,
                          Sticky(p \div 2^F_SIZE, p % 2^F_SIZE # 0), rm)

\* The product of fma_sf as two words, with its top bit at F_SIZE - 3.
Product(a, b) ==
    LET x == Significand(a)
        y == Significand(b)
        p == (x.m * 2^RND_SIZE) * (y.m * 2^RND_SIZE)
        e == x.e + y.e - 2^(EXP_SIZE - 1) + 3
        q == IF p \div 2^F_SIZE < 2^(F_SIZE - 3) THEN 2 * p ELSE p
    IN  [s |-> SignXor(Sign(a), Sign(b)), e |-> IF q = p THEN e ELSE e - 1,
         m1 |-> q \div 2^F_SIZE, m0 |-> q % 2^F_SIZE]

Addendum(c) ==
    LET z == Significand(c) IN
    [s |-> Sign(c), e |-> z.e + 1, m1 |-> z.m * 2^(RND_SIZE - 1), m0 |-> 0]

\* Mutant: a shift within the two words loses the bits it pushes out.
ShiftWords_Lossy(x, shift) ==
    IF shift >= 2 * F_SIZE THEN <<0, Bit(x.m0 # 0 \/ x.m1 # 0)>>
    ELSE IF shift > F_SIZE THEN <<0, rshift_rnd(x.m1, shift - F_SIZE)>>
    ELSE LET n == (x.m1 * 2^F_SIZE + x.m0) \div 2^shift
         IN  <<n \div 2^F_SIZE, n % 2^F_SIZE>>

\* Two words shifted right.  The second case drops m0; m1 is not zero there.
ShiftWords(x, shift) ==
    IF shift >= 2 * F_SIZE THEN <<0, Bit(x.m0 # 0 \/ x.m1 # 0)>>
    ELSE IF shift > F_SIZE THEN <<0, rshift_rnd(x.m1, shift - F_SIZE)>>
    ELSE IF shift = F_SIZE THEN <<0, Sticky(x.m1, x.m0 # 0)>>
    ELSE IF shift = 0 THEN <<x.m1, x.m0>>
    ELSE <<x.m1 \div 2^shift,
           Sticky(((x.m1 * 2^(F_SIZE - shift)) % 2^F_SIZE) + x.m0 \div 2^shift,
                  x.m0 % 2^shift # 0)>>

\* Add or subtract the smaller of two two-word numbers; no carry leaves the words.
AddWords(x, y, rm) ==
    LET less == ~(x.e > y.e \/ (x.e = y.e /\ x.m1 >= y.m1))
        r    == IF less THEN y ELSE x
        c    == IF less THEN x ELSE y
        cw   == ShiftWords(c, r.e - c.e)
        rw   == r.m1 * 2^F_SIZE + r.m0
        cn   == cw[1] * 2^F_SIZE + cw[2]
        sum  == IF r.s = c.s THEN rw + cn ELSE rw - cn
        s    == IF r.s # c.s /\ sum = 0 THEN Bit(rm = "RDN") ELSE r.s
    IN  normalize2_sf(s, r.e, sum \div 2^F_SIZE, sum % 2^F_SIZE, rm)

fma_sf(a, b, c, rm) ==
    LET s == SignXor(Sign(a), Sign(b))
        p == Product(a, b)
    IN  IF \E z \in {<<a, b>>, <<b, a>>} :
              IsZero(z[1]) /\ Special(z[2]) /\ Mant(z[2]) = 0 THEN Invalid
        ELSE IF isnan_sf(a) \/ isnan_sf(b) \/ isnan_sf(c) THEN QuietNan({a, b, c})
        ELSE IF Special(a) \/ Special(b)
        THEN IF Special(c) /\ Sign(c) # s THEN Invalid ELSE Exact(pack_sf(s, EXP_MASK, 0))
        ELSE IF Special(c) THEN Exact(pack_sf(Sign(c), EXP_MASK, 0))
        ELSE IF IsZero(a) \/ IsZero(b)
        THEN IF ~IsZero(c) THEN Exact(c)
             ELSE Exact(pack_sf(IF Sign(c) # s THEN Bit(rm = "RDN") ELSE s, 0, 0))
        ELSE IF IsZero(c) THEN normalize_sf(s, p.e, Sticky(p.m1, p.m0 # 0), rm)
        ELSE AddWords(p, Addendum(c), rm)

div_sf(a, b, rm) ==
    LET s == SignXor(Sign(a), Sign(b))
        x == Significand(a)
        y == Significand(b)
        n == x.m * 2^F_SIZE
        d == y.m * 4
    IN  IF isnan_sf(a) \/ isnan_sf(b) THEN QuietNan({a, b})
        ELSE IF Special(a)
        THEN IF Special(b) THEN Invalid ELSE Exact(pack_sf(s, EXP_MASK, 0))
        ELSE IF Special(b) THEN Exact(pack_sf(s, 0, 0))
        ELSE IF IsZero(b)
        THEN IF IsZero(a) THEN Invalid ELSE Result(pack_sf(s, EXP_MASK, 0), {"DIVIDE_ZERO"})
        ELSE IF IsZero(a) THEN Exact(pack_sf(s, 0, 0))
        ELSE normalize_sf(s, x.e - y.e + 2^(EXP_SIZE - 1) - 1,
                          Sticky(n \div d, n % d # 0), rm)

\* Newton's iteration from a power of two that is at least the root of a.
Newton(a, start) ==
    LET root[s \in Nat] == LET u == (a \div s + s) \div 2 IN IF u >= s THEN s ELSE root[u]
    IN  root[start]

\* The root of the two words (ah, 0), ah # 0.
sqrtrem_u(ah) == Newton(ah * 2^F_SIZE, 2^((2 * F_SIZE - clz32(ah - 1) + 1) \div 2))

sqrt_sf(a, rm) ==
    LET x    == Significand(a)
        e    == x.e - EXP_MASK \div 2
        m    == x.m * 2^(e % 2) * 2^(F_SIZE - 4 - MANT_SIZE)
        root == sqrtrem_u(m)
    IN  IF isnan_sf(a) THEN QuietNan({a})
        ELSE IF IsZero(a) THEN Exact(a)
        ELSE IF Sign(a) = 1 THEN Invalid
        ELSE IF Special(a) THEN Exact(a)
        ELSE normalize_sf(0, e \div 2 + EXP_MASK \div 2,
                          Sticky(root, root * root # m * 2^F_SIZE), rm)

-----------------------------------------------------------------------------
(* Comparisons *)

BothZero(a, b) == IsZero(a) /\ IsZero(b)

\* min_sf and max_sf on numbers: does a come before b?
Before(a, b) ==
    IF Sign(a) # Sign(b) THEN Sign(a) = 1 ELSE (a < b) # (Sign(a) = 1)

MinMax(a, b, pick) ==
    Result(IF isnan_sf(a) THEN (IF isnan_sf(b) THEN F_QNAN ELSE b)
           ELSE IF isnan_sf(b) THEN a ELSE pick,
           Flag("INVALID_OP", issignan_sf(a) \/ issignan_sf(b)))

min_sf(a, b) == MinMax(a, b, IF Before(a, b) THEN a ELSE b)
max_sf(a, b) == MinMax(a, b, IF Before(a, b) THEN b ELSE a)

eq_quiet_sf(a, b) ==
    IF isnan_sf(a) \/ isnan_sf(b) THEN Result(0, QuietNan({a, b}).fl)
    ELSE Exact(Bit(BothZero(a, b) \/ a = b))

Ordered(a, b, holds) ==
    IF isnan_sf(a) \/ isnan_sf(b) THEN Result(0, {"INVALID_OP"}) ELSE Exact(Bit(holds))

le_sf(a, b) ==
    Ordered(a, b, IF Sign(a) # Sign(b) THEN Sign(a) = 1 \/ BothZero(a, b)
                  ELSE IF Sign(a) = 1 THEN a >= b ELSE a <= b)

\* Mutant: minus zero is less than plus zero.
lt_sf_Zero(a, b) ==
    Ordered(a, b, IF Sign(a) # Sign(b) THEN Sign(a) = 1
                  ELSE IF Sign(a) = 1 THEN a > b ELSE a < b)

lt_sf(a, b) ==
    Ordered(a, b, IF Sign(a) # Sign(b) THEN Sign(a) = 1 /\ ~BothZero(a, b)
                  ELSE IF Sign(a) = 1 THEN a > b ELSE a < b)

\* The class of a number, the FCLASS_ bits counted from minus infinity up, then the NaNs.
fclass_sf(a) ==
    LET Class(negative, positive) == Exact(2^(IF Sign(a) = 1 THEN negative ELSE positive))
    IN  CASE Special(a) /\ Mant(a) # 0 -> Exact(2^(IF issignan_sf(a) THEN 8 ELSE 9))
          [] Special(a) /\ Mant(a) = 0 -> Class(0, 7)
          [] IsZero(a) -> Class(3, 4)
          [] Exp(a) = 0 /\ Mant(a) # 0 -> Class(2, 5)
          [] Exp(a) \notin {0, EXP_MASK} -> Class(1, 6)

-----------------------------------------------------------------------------
(* Conversions to and from integers of `size` bits, given as their bits *)

\* r_max: the largest magnitude of a result of this sign.
IntMax(s, size, unsigned) ==
    IF unsigned THEN (IF s = 1 THEN 0 ELSE 2^size - 1)
    ELSE 2^(size - 1) - (1 - s)

internal_cvt_sf_i(a, rm, size, unsigned) ==
    LET s       == IF isnan_sf(a) THEN 0 ELSE Sign(a)
        m       == Mant(a) + (IF Exp(a) = 0 THEN 0 ELSE 2^MANT_SIZE)
        e       == (IF Exp(a) = 0 THEN 1 ELSE Exp(a)) - EXP_MASK \div 2 - MANT_SIZE
        r_max   == IntMax(s, size, unsigned)
        cut     == rshift_rnd(m * 2^RND_SIZE, -e)
        r       == IF e >= 0 THEN m * 2^e ELSE RoundBits(cut, s, rm)
        inexact == e < 0 /\ cut % 2^RND_SIZE # 0
    IN  IF e > size - 1 - MANT_SIZE /\ e >= 0 THEN Result(r_max, {"INVALID_OP"})
        ELSE IF r > r_max THEN Result(r_max, {"INVALID_OP"})
        ELSE Result((IF s = 1 THEN -r ELSE r) % 2^size, Flag("INEXACT", inexact))

internal_cvt_i_sf(i, rm, size, unsigned) ==
    LET s == Bit(~unsigned /\ i >= 2^(size - 1))
        r == IF s = 1 THEN 2^size - i ELSE i
        l == BitLen(r) - (F_SIZE - 1)
        e == EXP_MASK \div 2 + F_SIZE - 2
    IN  IF l > 0 THEN normalize_sf(s, e + l, Sticky(r \div 2^l, r % 2^l # 0), rm)
        ELSE normalize_sf(s, e, r, rm)

-----------------------------------------------------------------------------
(* The arithmetic on pairs of words that the floating-point library uses where no
   type of twice the size of a float exists, as for its largest format: the second
   variants of mul_u, divrem_u and sqrtrem_u. *)

CONSTANT WORD_SIZE

ASSUME WordAssumption == WORD_SIZE \in Nat \ {0} /\ WORD_SIZE % 2 = 0

HalfBase == 2^(WORD_SIZE \div 2)
Low(x) == x % HalfBase
High(x) == x \div HalfBase

\* The product as <<high word, low word>>, from four products of halves.
mul_words(a, b) ==
    LET r00 == Low(a) * Low(b)
        r01 == Low(a) * High(b)
        r10 == High(a) * Low(b)
        r11 == High(a) * High(b)
        c1  == High(r00) + Low(r01) + Low(r10)
        c2  == High(c1) + High(r01) + High(r10) + Low(r11)
        r3  == High(c2) + High(r11)
    IN  <<Low(r3) * HalfBase + Low(c2), Low(c1) * HalfBase + Low(r00)>>

\* Mutant: the bit shifted out of the rest is not looked at.
DivStep_NoCarry(p, b) ==
    LET x == (2 * p[1] + p[2] \div 2^(WORD_SIZE - 1)) % 2^WORD_SIZE
    IN  IF x >= b THEN <<x - b, (2 * p[2] + 1) % 2^WORD_SIZE>> ELSE <<x, (2 * p[2]) % 2^WORD_SIZE>>

\* One bit of the quotient: rest and quotient are shifted left together.
DivStep(p, b) ==
    LET x == 2 * p[1] + p[2] \div 2^(WORD_SIZE - 1)
    IN  IF x >= b THEN <<(x - b) % 2^WORD_SIZE, (2 * p[2] + 1) % 2^WORD_SIZE>>
        ELSE <<x, (2 * p[2]) % 2^WORD_SIZE>>

\* <<rest, quotient>> of (a1, a0) by b, a1 < b.
divrem_u(a1, a0, b) ==
    LET loop[i \in 0 .. WORD_SIZE] == IF i = 0 THEN <<a1, a0>> ELSE DivStep(loop[i - 1], b)
    IN  loop[WORD_SIZE]

WordLen(x) == CHOOSE n \in 0 .. WORD_SIZE : x < 2^n /\ (n > 0 => 2^(n - 1) <= x)

\* The root of (a1, a0) and whether it is inexact.
sqrtrem_words(a1, a0) ==
    LET l == IF a1 # 0 THEN WORD_SIZE + WordLen(a1 - 1) ELSE WordLen(a0 - 1)
        root[s \in Nat] == LET u == (divrem_u(a1, a0, s)[2] + s) \div 2
                           IN  IF u >= s THEN s ELSE root[u]
        r == root[2^((l + 1) \div 2)]
    IN  IF a1 = 0 /\ a0 = 0 THEN <<0, FALSE>> ELSE <<r, mul_words(r, r) # <<a1, a0>>>>
=============================================================================
