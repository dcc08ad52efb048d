------------------------------- MODULE MCInsn -------------------------------
(* What single instructions compute, in one run: the reservations of LR and SC, the
   calls into the floating-point library, the integer and control instructions and the
   decoding of the floating-point ones, and the vector instructions.  They share no
   state here, so every behaviour is one of the four parts.

   Floats have 15 bits (5 of exponent, 9 of mantissa), and 21 (6 and 14) for the
   conversions; words of the library 8.  The mantissa is long enough that the product
   of a fused operation can be pushed out of its two words.  The exponents are those
   where something happens: zero and subnormal, the lowest normal, the largest,
   infinity and NaN, and around one pairs whose distance puts the smaller operand at
   the rounding position of the larger. *)
EXTENDS LrSc, FpUnit, IsaUnit, Vector

VARIABLE part

\* Two harts and one DMA writer over one RAM word at 0, one at 8 and a device register at
\* 16.  Two stores are enough for a hart to lose its reservation, to reserve and to lose it
\* again.
MCRam == {0, 8}
MCMmio == {16}
MCNoAddr == -1

MCOf(exps, mants) ==
    {s * SIGN_MASK + e * 2^MANT_SIZE + m : s \in {0, 1}, e \in exps, m \in mants}

MCVal == MCOf({0, 1, 5, 15, 26, 30, 31}, {0, 1, 257, 511})
MCUnaryVal ==
    MCOf({0, 1, 13, 14, 15, 16, 21, 22, 23, 29, 30, 31},
         {0, 1, 2, 128, 255, 256, 257, 384, 508, 509, 510, 511})
\* 962 * 545 is 2^19 + 2, a product with a last bit far below its first.
MCFmaVal ==
    MCOf({0}, {0, 450, 33}) \cup MCOf({10, 15, 21}, {450, 33}) \cup MCOf({1}, {33}) \cup MCOf({30}, {511})
    \cup {31 * 512, 31 * 512 + 1, 31 * 512 + 256}
MCWideVal ==
    {s * 2^(WIDE_SIZE - 1) + e * 2^WIDE_MANT + m :
        s \in {0, 1}, e \in {0, 1, 6, 7, 8, 12, 16, 17, 31, 46, 47, 63},
        m \in {0, 1, 15, 16, 17, 31, 32, 47, 48, 49, 8191, 8192, 8193, 16367, 16368, 16383}}
MCWord == {0, 1, 2, 3, 7, 15, 16, 17, 31, 32, 63, 100, 127, 128, 129, 171, 240, 254, 255}

\* Every integer of 8 bits; of 16 those around the powers of two of either sign.
MCIntVal(size) ==
    IF size = 8 THEN 0 .. 255
    ELSE UNION {{2^p + d, 65536 - 2^p + d} : p \in 2 .. 15, d \in {-3, -1, 0, 1}} \cup {0, 1}

(* Integer registers of 8 bits, words of 4, half words of 3 and bytes of 2.  The
   operands are the ends of the signed and unsigned ranges of registers and words and
   patterns of bits; every 16-bit encoding is expanded. *)
MCOperand ==
    {0, 1, 3, 8, 15, 16, 85, 127, 128, 240, 255}
MCOneOperand ==
    MCOperand \cup {2, 4, 6, 10, 48, 64, 136, 192}
MCImmediate == {0, 1, 2, 7, 8, 63, 64, 127, 3968, 3969, 4032, 4088, 4094, 4095}
MCWord20 == {2^i : i \in 0 .. 19} \cup {2^i + 2^j : i, j \in 0 .. 18} \cup {0, 2^20 - 1}

\* frm decides only for rm = 7; every other rm meets a reserved frm, which must not matter.
MCFpMode == {<<f3, 5>> : f3 \in 0 .. 7} \cup {<<7, 4>>, <<7, 7>>}

(* Vector registers of four bytes of four bits, groups of one and two registers and of
   half of one; pages of four bytes, so that most accesses meet several. *)
MCConfigs ==
    {[op |-> "vset", form |-> form, vtype |-> Vtype(sew, lmul), avl |-> avl] :
        form \in {"vsetvli", "vsetvl"}, sew \in {1, 2}, lmul \in {4, 8, 16}, avl \in {1, 3, 6, ToMax}}
    \cup {[op |-> "vset", form |-> "vsetvl_x0", vtype |-> Vtype(1, 8), avl |-> Keep]}

Mem(op, mode, eew, rs2, vs2, vm, nf) ==
    {[op |-> op, mode |-> mode, eew |-> eew, rd |-> rd, rs1 |-> 8, rs2 |-> rs2, vs2 |-> vs2,
      vm |-> vm, nf |-> nf] : rd \in {2, 5}}

MCMemInsns ==
    UNION {Mem(op, mode, eew, 0, 0, vm, nf) :
              op \in {"load", "store"}, mode \in {"unit", "first", "whole", "mask"},
              eew \in {1, 2}, vm \in BOOLEAN, nf \in {1, 2}}
    \cup UNION {Mem(op, "strided", eew, rs2, 0, vm, 1) :
              op \in {"load", "store"}, eew \in {1, 2}, rs2 \in {-2, 0, 4}, vm \in BOOLEAN}
    \cup UNION {Mem(op, "indexed", 1, 0, vs2, vm, nf) :
              op \in {"load", "store"}, vs2 \in {4, 6}, vm \in BOOLEAN, nf \in {1, 2}}

MCAddInsns ==
    {[op |-> op, vv |-> vv, vd |-> vd, vs2 |-> 4, vs1 |-> vs1, vm |-> vm, nf |-> 1] :
        op \in {"vadd", "vwadd", "vwaddu", "vwadd.w", "vwaddu.w"}, vv, vm \in BOOLEAN,
        vd \in {0, 2, 4}, vs1 \in {2, 7}}

\* The vector unit is left out of the other parts.
NoVector == unit = <<>> /\ issued = <<>> /\ insn = [op |-> "none"] /\ phase = "idle"

MCInit ==
    /\ Init /\ FpInit /\ IsaInit
    /\ part \in {"reservation", "float", "integer", "vector"}
    /\ IF part = "vector" THEN VecInit ELSE NoVector

MCNext ==
    \/ part = "reservation" /\ Next /\ UNCHANGED <<part, fpVars, isaVars, vecVars>>
    \/ part = "float" /\ FpNext /\ UNCHANGED <<part, vars, isaVars, vecVars>>
    \/ part = "integer" /\ IsaNext /\ UNCHANGED <<part, vars, fpVars, vecVars>>
    \/ part = "vector" /\ VecNext /\ UNCHANGED <<part, vars, fpVars, isaVars>>

MCSpec == MCInit /\ [][MCNext]_<<part, vars, fpVars, isaVars, vecVars>> /\ Fairness

\* The reservations alone.
MCReservation == MCInit /\ part = "reservation" /\ [][MCNext]_<<part, vars, fpVars, isaVars, vecVars>>
=============================================================================
