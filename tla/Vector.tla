------------------------------- MODULE Vector -------------------------------
(* The vector unit: configuration, loads and stores in all addressing modes, and
   addition.  An instruction is a loop over elements that a page fault can leave in the
   middle; vstart then says where the next execution of the same instruction goes on.
   Sizes are in bytes, and a byte has ByteBits bits. *)
EXTENDS Integers, Sequences, FiniteSets, FiniteSetsExt, TLC

CONSTANTS VLENB,        \* bytes of a register, VLEN / 8
          VREGS,        \* registers, 32 in the code
          ByteBits,     \* 8 in the code
          PageSize, Pages, Resident,    \* the pages, and sets of them that are present at first
          MemInsns, AddInsns, Configs   \* what software executes

ASSUME VectorAssumption ==
    /\ VLENB \in {4, 8, 16} /\ VREGS \in Nat /\ ByteBits \in Nat \ {0} /\ PageSize \in Nat \ {0}
    /\ Pages \subseteq Nat /\ Resident \subseteq SUBSET Pages

VARIABLES unit,     \* the unit, the memory and the pages that are present
          insn,     \* the instruction being executed
          issued,   \* the unit when it was first issued
          phase     \* "idle", or how the last execution ended
vecVars == <<unit, insn, issued, phase>>

Radix == 2 ^ ByteBits
VecAddr == {PageSize * p + i : p \in Pages, i \in 0 .. PageSize - 1}
VReg == 0 .. VREGS - 1
Page(a) == a \div PageSize

\* Elements of n bytes, the lowest byte first.
Bytes(v, n) == [b \in 0 .. n - 1 |-> (v \div Radix ^ b) % Radix]
Value(f, at, n) == MapThenSumSet(LAMBDA b : f[at + b] * Radix ^ b, 0 .. n - 1)
Put(f, at, v, n) == [b \in DOMAIN f |-> IF b \in at .. at + n - 1 THEN Bytes(v, n)[b - at] ELSE f[b]]
VecSigned(v, n) == IF 2 * v >= Radix ^ n THEN v - Radix ^ n ELSE v

-----------------------------------------------------------------------------
(* vtype: vill, sew in bytes and lmul, a power of two scaled up by 8 *)

VILL == [vill |-> TRUE, sew |-> 1, lmul |-> 8]
Vtype(sew, lmul) == [vill |-> FALSE, sew |-> sew, lmul |-> lmul]

get_vlmax(t) == (VLENB * t.lmul) \div (8 * t.sew)

\* One v0 bit for each element, counted by vstart.
MaskBit(v0, e) == (v0[e \div ByteBits] \div 2 ^ (e % ByteBits)) % 2 = 1
v0_mask(s) == MaskBit(s.v[0], s.vstart)

Scaled(emul) == IF emul < 8 THEN 1 ELSE emul \div 8

\* Out of range, too many registers, past the last one, or not aligned to the group.
BadGroup(rd, emul, nf) ==
    \/ emul = 0 \/ emul > 64 \/ emul * nf > 64
    \/ rd + ((nf * emul) \div 8) > VREGS \/ rd + nf > VREGS
    \/ emul >= 8 /\ (rd * 8) % emul # 0

-----------------------------------------------------------------------------
(* Loads and stores.  c has op, mode, eew (bytes), rd, rs1 and rs2 (values of the
   base and the stride), vs2 (the register of indices), vm and nf. *)

Ld(c) == c.op = "load"

Emul(s, c) == (8 * get_vlmax(s.vtype) * c.eew) \div VLENB

\* Segments loaded through indices must not overwrite the indices.
Overlap(s, c) ==
    LET vs2_emul == Scaled(Emul(s, c))
        emul == Scaled(s.vtype.lmul)
        last == c.rd + (c.nf - 1) * emul
        end == c.vs2 + (c.nf - 1) * vs2_emul
    IN  Ld(c) /\ c.nf > 1 /\ (c.rd \in c.vs2 .. end \/ last \in c.vs2 .. end)

VecIllegal(s, c) ==
    \/ c.mode # "whole" /\ s.vtype.vill
    \/ c.mode = "whole" /\ ((~Ld(c) /\ c.eew # 1) \/ ~c.vm \/ c.nf \notin {1, 2, 4, 8})
    \/ c.mode = "first" /\ ~Ld(c)
    \/ c.mode = "indexed" /\ (BadGroup(c.vs2, Emul(s, c), c.nf) \/ Overlap(s, c))

\* The parameters of the loop: element size, elements of a register, registers, fields,
\* distance in memory and the number of elements vl asks for.
Loop(s, c) ==
    LET indexed == c.mode = "indexed"
        w == IF indexed THEN s.vtype.sew ELSE c.eew
        emul == CASE c.mode = "whole" -> 8 * c.nf
                  [] c.mode = "mask" -> 8
                  [] indexed -> s.vtype.lmul
                  [] OTHER -> Emul(s, c)
        vl == IF c.mode = "mask" THEN (IF s.vl < ByteBits THEN 1 ELSE s.vl \div ByteBits) ELSE s.vl
        size == IF c.mode = "mask" THEN 1 ELSE w
    IN  [w |-> w, size |-> size, emul |-> emul, regs |-> Scaled(emul),
         n |-> IF VLENB \div w > vl THEN vl ELSE VLENB \div w,
         nf |-> IF c.mode = "whole" THEN 1 ELSE c.nf,
         advance |-> IF c.mode = "strided" THEN c.rs2 ELSE c.eew]

\* One element: vector registers change by a load, memory by a store; a page that is not
\* there is an exception, and nothing changes.
v_op(s, ld, a, n, r, b) ==
    IF Page(a) \notin s.present THEN [s EXCEPT !.fault = Page(a)]
    ELSE IF ld THEN [s EXCEPT !.v[r] = Put(@, b, Value(s.mem, a, n), n)]
    ELSE [s EXCEPT !.mem = Put(@, a, Value(s.v[r], b, n), n)]

NoFault == -1

\* The address and register of field k of element e of register i, of a loop that
\* came to the register with its first element e0.
FieldAddr(s, c, p, i, e0, e, k) ==
    IF c.mode = "indexed"
    THEN LET at == c.vs2 * (VLENB \div c.eew) + s.vstart
             per == VLENB \div c.eew
         IN  c.rs1 + Value(s.v[at \div per], (at % per) * c.eew, c.eew) + k * p.w
    ELSE c.rs1 + e0 * p.advance + p.nf * i * VLENB + ((e - e0) * p.nf + k) * p.advance

FieldReg(c, p, i, k) ==
    c.rd + i + (IF c.mode = "indexed" THEN k * p.regs ELSE k * (p.nf - 1))

RECURSIVE Fields(_, _, _, _, _, _, _)
Fields(s, c, p, i, e0, e, k) ==
    LET t == IF c.vm \/ v0_mask(s)
             THEN v_op(s, Ld(c), FieldAddr(s, c, p, i, e0, e, k), p.size, FieldReg(c, p, i, k), e * p.w)
             ELSE s
    IN  IF k = p.nf \/ s.fault # NoFault THEN s ELSE Fields(t, c, p, i, e0, e, k + 1)

\* Mutant: the register of a resumed access is entered at its first element.
ElmStart_First(s, p, i) == IF s.vstart < p.n * (i + 1) THEN 0 ELSE s.vstart - p.n * i

ElmStart(s, p, i) == s.vstart - p.n * i

\* Elements e .. n - 1 of register i, then the registers after it.
RECURSIVE Elements(_, _, _, _, _, _)
Elements(s, c, p, i, e0, e) ==
    IF i = p.regs THEN s
    ELSE IF e >= p.n
    THEN LET start == ElmStart(s, p, i + 1) IN Elements(s, c, p, i + 1, start, start)
    ELSE LET t == Fields(s, c, p, i, e0, e, 0)
         IN  IF t.fault # NoFault THEN t
             ELSE Elements([t EXCEPT !.vstart = @ + 1], c, p, i, e0, e + 1)

\* Mutant: vl is left as it was.
FaultFirst_KeepVl(s) == [s EXCEPT !.vstart = 0, !.fault = NoFault]

\* A fault after the first element shortens the vector instead.
FaultFirst(s) == [s EXCEPT !.vl = s.vstart, !.vstart = 0, !.fault = NoFault]

\* Registers an instruction reports as written.
Prepared(c, p) == {c.rd + i + p.regs * j : i \in 0 .. p.regs - 1, j \in 0 .. p.nf - 1}

\* Mutant: an instruction that faulted starts over.
AtFault_Restart(s) == [s EXCEPT !.vstart = 0, !.end = "fault"]

AtFault(s) == [s EXCEPT !.end = "fault"]

\* The outcome in field end: "done", "fault" or "illegal".
vmem_op(s, c) ==
    LET p == Loop(s, c)
        first == c.mode = "first"
        tried == IF first /\ s.vstart = 0 /\ Page(c.rs1) \notin s.present
                 THEN [s EXCEPT !.fault = Page(c.rs1)] ELSE s
        begun == IF Ld(c) THEN [tried EXCEPT !.written = @ \cup Prepared(c, p)] ELSE tried
        start == ElmStart(s, p, 0)
        t == Elements(begun, c, p, 0, start, start)
    IN  IF VecIllegal(s, c) \/ BadGroup(c.rd, p.emul, p.nf)
        THEN [s EXCEPT !.vtype = VILL, !.end = "illegal"]
        ELSE IF tried.fault # NoFault THEN AtFault(tried)
        ELSE IF t.fault # NoFault /\ first THEN [FaultFirst(t) EXCEPT !.end = "done"]
        ELSE IF t.fault # NoFault THEN AtFault(t)
        ELSE [t EXCEPT !.vstart = 0, !.end = "done"]

-----------------------------------------------------------------------------
(* Addition: c has op ("vadd", "vwadd", "vwaddu", "vwadd.w", "vwaddu.w"), vv, vd, vs2,
   vs1 (a register, or the value of a scalar) and vm. *)

Widens(op) == op \in {"vwadd", "vwaddu", "vwadd.w", "vwaddu.w"}
WideVs2(op) == op \in {"vwadd.w", "vwaddu.w"}
IsSigned(op) == op \in {"vwadd", "vwadd.w"}

BadArithmetic(s, c) ==
    LET lmul == s.vtype.lmul \div 8
    IN  \/ s.vtype.vill \/ (Widens(c.op) /\ s.vtype.sew = 8)
        \/ lmul # 0 /\ \/ c.vv /\ c.vs1 % lmul # 0
                       \/ ~Widens(c.op) /\ (c.vd % lmul # 0 \/ c.vs2 % lmul # 0)
                       \/ Widens(c.op) /\ c.vd % (2 * lmul) # 0
                       \/ WideVs2(c.op) /\ c.vs2 % (2 * lmul) # 0

\* Where a source is read for byte j of register i of the destination.
SourceReg(r, narrow, i) == IF narrow THEN r + (i \div 2) ELSE r + i

\* Mutant: both halves of a wide pair come from the lower half.
SourceByte_Lower(narrow, i, j) == IF narrow THEN j \div 2 ELSE j

SourceByte(narrow, i, j) == IF narrow THEN (j \div 2) + (IF i % 2 = 1 THEN VLENB \div 2 ELSE 0) ELSE j

VecSum(op, a, an, b, bn) == IF IsSigned(op) THEN VecSigned(a, an) + VecSigned(b, bn) ELSE a + b

\* C adds two elements of four bytes in four bytes, and only then widens.
VecAdd(op, a, an, b, bn, n) ==
    LET sum == VecSum(op, a, an, b, bn)
        int == sum % Radix ^ 4
    IN  (IF an = 4 /\ bn = 4 /\ n = 8 THEN (IF IsSigned(op) THEN VecSigned(int, 4) ELSE int) ELSE sum)
        % Radix ^ n

DestSize(s, c) == IF Widens(c.op) THEN 2 * s.vtype.sew ELSE s.vtype.sew

ElementResult(s, c, i, j) ==
    LET sew == s.vtype.sew
        n2 == IF WideVs2(c.op) THEN 2 * sew ELSE sew
        narrow2 == Widens(c.op) /\ ~WideVs2(c.op)
        a == Value(s.v[SourceReg(c.vs2, narrow2, i)], SourceByte(narrow2, i, j), n2)
        b == IF c.vv THEN Value(s.v[SourceReg(c.vs1, Widens(c.op), i)], SourceByte(Widens(c.op), i, j), sew)
             ELSE c.vs1 % Radix ^ sew
    IN  VecAdd(c.op, a, n2, b, sew, DestSize(s, c))

\* All elements of the group, whatever vl says, one after the other.
RECURSIVE AddAll(_, _, _, _)
AddAll(s, c, i, j) ==
    LET n == DestSize(s, c)
        t == IF c.vm \/ v0_mask(s)
             THEN [s EXCEPT !.v[c.vd + i] = Put(@, j, ElementResult(s, c, i, j), n)] ELSE s
    IN  IF i = Scaled(s.vtype.lmul) * (IF Widens(c.op) THEN 2 ELSE 1) THEN s
        ELSE IF j >= VLENB THEN AddAll(s, c, i + 1, s.vstart * n - VLENB * (i + 1))
        ELSE AddAll([t EXCEPT !.vstart = @ + 1, !.written = @ \cup {c.vd + i}], c, i, j + n)

vectorize_arithmetic(s, c) ==
    IF BadArithmetic(s, c) THEN [s EXCEPT !.end = "illegal"]
    ELSE [AddAll(s, c, 0, s.vstart * DestSize(s, c)) EXCEPT !.vstart = 0, !.end = "done"]

-----------------------------------------------------------------------------
(* Configuration *)

\* vsetvl takes its type from a register, unless that is x0, and refuses the reserved
\* bits, with them every fraction; the immediates of the other two are taken as they are.
NewVtype(s, form, t) ==
    CASE form = "vsetvl_x0" -> s.vtype
      [] form = "vsetvl" /\ t.lmul < 8 -> VILL
      [] OTHER -> t

Clipped(avl, t) == IF avl <= get_vlmax(t) THEN avl ELSE get_vlmax(t)

ToMax == -1
Keep == -2

\* A type with one element is refused.
vset(s, c) ==
    LET new == NewVtype(s, c.form, c.vtype)
        want == CASE new.vill -> 0
                  [] ~new.vill /\ c.avl = ToMax -> 8 * VLENB
                  [] ~new.vill /\ c.avl = Keep -> s.vl
                  [] OTHER -> c.avl
        short == 8 * new.sew >= VLENB * new.lmul
    IN  [s EXCEPT !.vtype = IF short THEN VILL ELSE new,
                  !.vl = IF short THEN 0 ELSE Clipped(want, new), !.end = "done"]

-----------------------------------------------------------------------------
(* Execution.  The trap handler makes a missing page present, at the cost of others. *)

VecInit ==
    /\ \E mask \in {5, 14}, present \in Resident, vs \in {0, 1} :
          unit = [v |-> [r \in VReg |-> [b \in 0 .. VLENB - 1 |->
                            IF r = 0 THEN mask ELSE (r + 2 * b) % Radix]],
                  mem |-> [a \in VecAddr |-> (3 * a + 1) % Radix],
                  vtype |-> Vtype(1, 8), vl |-> 0, vstart |-> 0, vs |-> vs, written |-> {},
                  present |-> present, fault |-> NoFault, end |-> "done"]
    /\ insn = [op |-> "none"] /\ issued = unit /\ phase = "idle"

Execute(c, s) ==
    LET start == [s EXCEPT !.written = {}, !.fault = NoFault]
    IN  CASE s.vs = 0 -> [start EXCEPT !.end = "illegal"]
          [] s.vs # 0 /\ c.op = "vset" -> vset([start EXCEPT !.vs = 3], c)
          [] s.vs # 0 /\ c.op \in {"load", "store"} -> vmem_op(start, c)
          [] OTHER -> vectorize_arithmetic([start EXCEPT !.vs = 3], c)

Configure ==
    /\ phase = "idle"
    /\ \E c \in Configs : unit' = Execute(c, unit) /\ insn' = c
    /\ issued' = unit /\ phase' = IF unit'.end = "done" THEN "configured" ELSE unit'.end

\* Widening is followed for whole groups only: for a fraction of a register the code
\* does not double the width.
Issue ==
    /\ phase = "configured"
    /\ \E c \in MemInsns \cup AddInsns :
          /\ Widens(c.op) => unit.vtype.lmul >= 8
          /\ unit' = Execute(c, unit)
          /\ insn' = c
    /\ issued' = unit /\ phase' = unit'.end

Handler ==
    /\ phase = "fault" /\ unit.fault # NoFault
    /\ \E kept \in {unit.present, {}} :
          unit' = [unit EXCEPT !.present = kept \cup {unit.fault}, !.fault = NoFault]
    /\ UNCHANGED <<insn, issued, phase>>

Retry ==
    /\ phase = "fault" /\ unit.fault = NoFault
    /\ unit' = Execute(insn, unit)
    /\ phase' = unit'.end
    /\ UNCHANGED <<insn, issued>>

VecNext == Configure \/ Issue \/ Handler \/ Retry

\* Weak fairness of the handler and of the return to the instruction, one of which can
\* be taken whenever the hart is in a fault.
Fairness == []<>(phase # "fault") \/ []<><<phase = "fault">>_vecVars
VecSpec == VecInit /\ [][VecNext]_vecVars /\ Fairness

-----------------------------------------------------------------------------
(* What the instructions are to do, element by element *)

Active(c, s, e) == c.vm \/ MaskBit(s.v[0], e)

\* Elements are where the manual puts them if the group is one register, or vl fills it
\* and the access is not strided; nf fields of more than one register are not claimed.
Straight(s, c) ==
    LET p == Loop(s, c)
        per == VLENB \div p.w
        group == {c.rd + i : i \in 0 .. p.regs - 1}
    IN  /\ c.op \in {"load", "store"} /\ c.nf = 1 /\ c.mode \in {"unit", "first", "strided", "indexed"}
        /\ p.regs = 1 \/ (s.vl = p.regs * per /\ c.mode # "strided")
        /\ c.vm \/ 0 \notin group
        /\ c.mode = "indexed" => group \cap (c.vs2 .. c.vs2 + Scaled(Emul(s, c)) - 1) = {}

ElementAddr(s, c, e) ==
    LET per == VLENB \div c.eew
    IN  c.rs1 + CASE c.mode = "strided" -> e * c.rs2
                  [] c.mode = "indexed" -> Value(s.v[c.vs2 + (e \div per)], (e % per) * c.eew, c.eew)
                  [] OTHER -> e * c.eew

\* A fault-only-first load stops at a missing page.
Missing(s, c) == {e \in 0 .. s.vl - 1 : Active(c, s, e) /\ Page(ElementAddr(s, c, e)) \notin s.present}
Length(s, c) == IF c.mode = "first" /\ Missing(s, c) # {} THEN Min(Missing(s, c)) ELSE s.vl
Transferred(s, c) == {e \in 0 .. Length(s, c) - 1 : Active(c, s, e)}

LoadedRegs(s, c) ==
    LET w == Loop(s, c).w
        per == VLENB \div w
    IN  [r \in VReg |-> [b \in 0 .. VLENB - 1 |->
            LET e == (r - c.rd) * per + (b \div w)
            IN  IF r >= c.rd /\ e \in Transferred(s, c)
                THEN s.mem[ElementAddr(s, c, e) + (b % w)] ELSE s.v[r][b]]]

\* Of stores to one place the last counts.
StoredMem(s, c) ==
    LET w == Loop(s, c).w
        per == VLENB \div w
        to(a) == {e \in Transferred(s, c) : a \in ElementAddr(s, c, e) .. ElementAddr(s, c, e) + w - 1}
    IN  [a \in VecAddr |->
            IF to(a) = {} THEN s.mem[a]
            ELSE LET e == Max(to(a))
                 IN  s.v[c.rd + (e \div per)][(e % per) * w + (a - ElementAddr(s, c, e))]]

\* A vector load or store, however often vmem_op was left at a page fault and entered
\* again through vstart, transfers the active elements below vl, each once and to its
\* place, and nothing else; a fault-only-first load shortens vl to what it has loaded.
AccessesAsSpecified ==
    LET s == [issued EXCEPT !.present = unit.present]
    IN  phase = "done" /\ insn.op \in {"load", "store"} /\ Straight(s, insn) =>
            /\ unit.v = IF Ld(insn) THEN LoadedRegs(s, insn) ELSE s.v
            /\ unit.mem = IF Ld(insn) THEN s.mem ELSE StoredMem(s, insn)
            /\ unit.vstart = 0 /\ unit.vl = Length(s, insn)

\* Whatever vmem_op does with a group of registers, a fault does not change it: the
\* access that was interrupted ends as one to memory that is all present.
ResumedIsWhole ==
    phase = "done" /\ insn.op \in {"load", "store"} /\ insn.nf = 1 /\ insn.mode # "first" =>
        LET whole == Execute(insn, [issued EXCEPT !.present = Pages])
        IN  unit.v = whole.v /\ unit.mem = whole.mem /\ unit.vl = whole.vl

\* The elements below vl of an addition, of single or double width, are the sums of
\* the elements of the same number, unless the destination overlaps a source; elements
\* of at most two bytes are claimed, as four lose the carry.
SumsAsSpecified ==
    LET s == issued
        sew == s.vtype.sew
        n == DestSize(s, insn)
        elm(r, w, e) == Value(s.v[r + ((e * w) \div VLENB)], (e * w) % VLENB, w)
        n2 == IF WideVs2(insn.op) THEN n ELSE sew
        group(r, w) == r .. r + Scaled((w \div sew) * s.vtype.lmul) - 1
    IN  phase = "done" /\ insn.op \in {"vadd", "vwadd", "vwaddu", "vwadd.w", "vwaddu.w"}
          /\ (/\ group(insn.vd, n) \cap group(insn.vs2, n2) = {}
              /\ insn.vv => group(insn.vd, n) \cap group(insn.vs1, sew) = {}
              /\ insn.vm \/ insn.vd # 0)
          => \A e \in 0 .. s.vl - 1 :
                LET b == IF insn.vv THEN elm(insn.vs1, sew, e) ELSE insn.vs1 % Radix ^ sew
                    got == Value(unit.v[insn.vd + ((e * n) \div VLENB)], (e * n) % VLENB, n)
                IN  got = IF Active(insn, s, e) THEN VecSum(insn.op, elm(insn.vs2, n2, e), n2, b, sew) % Radix ^ n
                          ELSE elm(insn.vd, n, e)

\* What the elements of registers and memory are after an instruction is what the
\* manual says, for the accesses and the additions claimed above.
ElementsAsSpecified == AccessesAsSpecified /\ SumsAsSpecified

\* An access is finished however little of it is present at a time: elements already
\* transferred are not needed again.
Completes == phase = "fault" /\ insn.nf = 1 ~> phase # "fault"
=============================================================================
