----------------------------- MODULE Checkpoint -----------------------------
(* Checkpoints: riscv_cpu_serialize saves a hart as a boot ROM, a program that is run
   in debug mode by a fresh hart and ends with a jump to where the hart was.  The
   ROM is generated word by word, code and data growing side by side, and run
   instruction by instruction through the CSR file of Csr.  Software before the
   checkpoint is any sequence of CSR, floating-point and vector instructions. *)
EXTENDS Csr, Sequences, SequencesExt

CONSTANTS Xs, Fs,           \* general and floating-point registers, by number
          Value,            \* what software writes
          Pc,               \* where it can be
          RTC_FREQ_DIV,
          MaxInsns,         \* instructions of the software
          MaxBeforeSave     \* of them, before a checkpoint

ASSUME CheckpointAssumption ==
    /\ {1, 2, 3, 10} \subseteq Xs /\ Xs \subseteq 1 .. 31 /\ Fs \subseteq Xs
    /\ Value \subseteq SUBSET Bit /\ Pc \subseteq SUBSET (1 .. 63)
    /\ RTC_FREQ_DIV \in Nat \ {0} /\ MaxInsns \in Nat /\ MaxBeforeSave \in Nat

VARIABLES hart,         \* csr, x, f, v (a vector register), pc and timecmp
          phase,        \* how far the checkpoint has come, or how it ended
          saved,        \* the hart the checkpoint was taken of
          rom,
          insns

vars == <<hart, phase, saved, rom, insns>>

-----------------------------------------------------------------------------
(* The words of the ROM.  Positions count words of four bytes. *)

ROM_BASE_ADDR == 65536
BOOT_BASE_ADDR == 65536
ROM_SIZE == 8192
DataStart == 704        \* 0xB00 bytes

AddrBits(n) == {b \in 0 .. 30 : (n \div 2 ^ b) % 2 = 1}
Less(v, w) == v # w /\ Max((v \cup w) \ (v \cap w)) \in w

\* A pc-relative address in two parts, the lower one signed.
Upper(off) == (IF (off \div 2048) % 2 = 1 THEN off + 2048 ELSE off) \div 4096
SignedLow(off) == IF off % 4096 >= 2048 THEN (off % 4096) - 4096 ELSE off % 4096

create_auipc(off) == 4096 * Upper(off)
create_addi(off) == SignedLow(off)

\* addi from x0: twelve bits, sign-extended.
create_seti(val) == (val \cap (0 .. 11)) \cup (IF 11 \in val THEN 12 .. 63 ELSE {})

EmptyRom == [code |-> <<>>, data |-> <<>>, code_pos |-> (BOOT_BASE_ADDR - ROM_BASE_ADDR) \div 4,
             data_pos |-> DataStart]

Insn(g, i) == [g EXCEPT !.code = Append(@, [i EXCEPT !.at = g.code_pos]), !.code_pos = @ + 1]

\* auipc, addi and ld or fld: the address register, a register and its data.
Fetches(g, op, base, rd, val) ==
    LET off == 4 * (g.data_pos - g.code_pos)
    IN  [code |-> Append(g.code, [at |-> g.code_pos, op |-> op, base |-> base, rd |-> rd,
                                  auipc |-> create_auipc(off), addi |-> create_addi(off)]),
         data |-> Append(g.data, val),
         code_pos |-> g.code_pos + 3, data_pos |-> g.data_pos + 2]

create_csrrw(g, rs, csr) == Insn(g, [op |-> "csrrw", at |-> 0, rs |-> rs, csr |-> csr])
create_csrrs(g, rd, csr) == Insn(g, [op |-> "csrrs", at |-> 0, rd |-> rd, csr |-> csr])
create_csr64_recovery(g, csr, val) == create_csrrw(Fetches(g, "ld", 1, 1, val), 1, csr)
create_reg_recovery(g, rn, val) == Fetches(g, "ld", rn, rn, val)

create_csr12_recovery(g, csr, val) ==
    create_csrrw(Insn(g, [op |-> "seti", at |-> 0, rd |-> 1, val |-> create_seti(val)]), 1, csr)

create_io64_recovery(g, addr, val) ==
    Insn(Fetches(Fetches(g, "ld", 1, 1, addr), "ld", 2, 2, val), [op |-> "sd", at |-> 0])

\* csrr a0, mhartid and a branch over two words that park the other harts.
create_hang_nonzero_hart(g) ==
    LET started == Insn(g, [op |-> "hartid", at |-> 0])
    IN  [started EXCEPT !.code_pos = @ + 3]

-----------------------------------------------------------------------------
(* create_boot_rom: what is recovered, in order *)

Csr64(csr, val) == [kind |-> "csr64", csr |-> csr, val |-> val]
Csr12(csr, val) == [kind |-> "csr12", csr |-> csr, val |-> val]
Reg(i, val) == [kind |-> "reg", reg |-> i, val |-> val]
Io64(addr, val) == [kind |-> "io64", addr |-> addr, val |-> val]

Clint(offset) == AddrBits(33554432 + offset)
InOrder(S) == [k \in 1 .. Cardinality(S) |-> CHOOSE n \in S : Cardinality({i \in S : i < n}) = k - 1]
ForEach(order, Op(_)) == FlattenSeq([k \in DOMAIN order |-> Op(order[k])])
XOrder == InOrder(Xs \ {1, 2})
FOrder == InOrder(Fs)
HpmOrder == InOrder(Hpms)
PmpOrder == InOrder(Pmps)

\* The upper half of a floating-point register is taken from the general register of
\* the same number.
FpData(h, i) == (h.f[i] \cap (0 .. 31)) \cup (h.x[i] \cap (32 .. 63))

FloatCsrs(s) == <<Csr12(1, s.fflags), Csr12(2, s.frm), Csr12(3, s.fflags \cup Shl(s.frm, 5))>>

\* Mutant: the flags and registers of a unit that is off are recovered too.
FloatPart_Always(h) ==
    FloatCsrs(h.csr)
    \o ForEach(FOrder, LAMBDA i : <<[kind |-> "freg", reg |-> i, val |-> FpData(h, i)]>>)

FloatPart(h) ==
    IF h.csr.fs = {} THEN <<>>
    ELSE FloatCsrs(h.csr)
         \o ForEach(FOrder, LAMBDA i : <<[kind |-> "freg", reg |-> i, val |-> FpData(h, i)]>>)

\* Mutant: the configurations, and with them the locks, come first.
PmpPart_CfgFirst(s) ==
    <<Csr64(\h3A0, s.csr_pmpcfg), Csr64(\h3A2, {})>>
    \o ForEach(PmpOrder, LAMBDA i : <<Csr64(\h3B0 + i, s.csr_pmpaddr[i])>>)

PmpPart(s) ==
    ForEach(PmpOrder, LAMBDA i : <<Csr64(\h3B0 + i, s.csr_pmpaddr[i])>>)
    \o <<Csr64(\h3A0, s.csr_pmpcfg), Csr64(\h3A2, {})>>

CsrPart(s) ==
    ForEach(HpmOrder, LAMBDA i : <<Csr12(\hB00 + i, {}), Csr64(\h320 + i, s.mhpmevent[i])>>)
    \o <<Csr64(\h7A0, s.tselect), Csr64(\h302, s.medeleg), Csr64(\h303, s.mideleg),
         Csr64(\h304, s.mie), Csr64(\h305, s.mtvec), Csr64(\h105, s.stvec),
         Csr12(\h320, s.mcountinhibit), Csr12(\h306, s.mcounteren), Csr12(\h106, s.scounteren)>>
    \o PmpPart(s)
    \o <<Csr64(\h340, s.mscratch), Csr64(\h341, s.mepc), Csr64(\h342, s.mcause),
         Csr64(\h343, s.mtval), Csr64(\h140, s.sscratch), Csr64(\h141, s.sepc),
         Csr64(\h142, s.scause), Csr64(\h143, s.stval), Csr64(\h344, s.mip)>>

\* x1 and x2 carry the other values and are recovered after them.
LastPart(h) ==
    LET s == h.csr
    IN  <<Io64(Clint(16384), BitsOf(h.timecmp)), Csr64(\hB02, BitsOf(s.minstret)),
          Csr64(\hB00, BitsOf(s.mcycle)),
          Io64(Clint(49144), BitsOf(s.mcycle \div RTC_FREQ_DIV)),
          Reg(1, h.x[1]), Reg(2, h.x[2]),
          [kind |-> "csrrw", csr |-> \h7B2], Csr64(\h180, s.satp),
          [kind |-> "csrrs", csr |-> \h7B2], [kind |-> "dret"]>>

Recoveries(h) ==
    <<[kind |-> "hang"], Csr64(\h7B1, h.pc), Csr12(\h7B0, {9, 10} \cup AddrBits(h.csr.priv)),
      Csr64(\h300, get_mstatus(h.csr, Bit)), Csr64(\h301, misa \cup {63})>>
    \o FloatPart(h) \o CsrPart(h.csr)
    \o ForEach(XOrder, LAMBDA i : <<Reg(i, h.x[i])>>)
    \o LastPart(h)

Emit(g, r) ==
    CASE r.kind = "hang" -> create_hang_nonzero_hart(g)
      [] r.kind = "csr64" -> create_csr64_recovery(g, r.csr, r.val)
      [] r.kind = "csr12" -> create_csr12_recovery(g, r.csr, r.val)
      [] r.kind = "reg" -> create_reg_recovery(g, r.reg, r.val)
      [] r.kind = "freg" -> Fetches(g, "fld", 1, r.reg, r.val)
      [] r.kind = "io64" -> create_io64_recovery(g, r.addr, r.val)
      [] r.kind = "csrrw" -> create_csrrw(g, 1, r.csr)
      [] r.kind = "csrrs" -> create_csrrs(g, 1, r.csr)
      [] r.kind = "dret" -> Insn(g, [op |-> "dret", at |-> 0])

\* Code that runs into the data, or data beyond the ROM, stops the emulator.
Fits(g) == g.code_pos < DataStart /\ g.data_pos < ROM_SIZE \div 4

\* The entries lo .. hi of todo, by halves.
RECURSIVE EmitAll(_, _, _, _)
EmitAll(g, todo, lo, hi) ==
    IF ~Fits(g) THEN g
    ELSE IF lo = hi THEN Emit(g, todo[lo])
    ELSE LET mid == (lo + hi) \div 2
         IN  EmitAll(EmitAll(g, todo, lo, mid), todo, mid + 1, hi)

create_boot_rom(h) == LET todo == Recoveries(h) IN EmitAll(EmptyRom, todo, 1, Len(todo))

-----------------------------------------------------------------------------
(* Running the ROM, on a hart in machine mode with neither translation nor timer.
   m holds the hart, the instructions run in this call of the interpreter and how
   the run ended. *)

\* Loads are checked with the privilege mstatus.MPRV gives them; entries are active
\* when their address mode is not OFF, and blocked says whether those that do not
\* grant the access come first.
LoadPriv(s) == IF MPRV \in s.mstatus THEN Two(Shr(s.mstatus \cap MPP, 11)) ELSE s.priv

Active(s) == {i \in Pmps : i < PMP_N /\ PmpField(s.csr_pmpcfg, i) \cap {3, 4} # {}}

Faults(s, perm, blocked) ==
    LET granting == {i \in Active(s) : perm \in PmpField(s.csr_pmpcfg, i)}
    IN  \/ LoadPriv(s) < PRV_M /\ (blocked \/ granting = {})
        \/ blocked /\ \E i \in Active(s) \ granting : PmpLocked(s.csr_pmpcfg, i)

\* Code is fetched at the level of the hart itself.
FetchFaults(s, blocked) ==
    blocked /\ \E i \in Active(s) : PmpLocked(s.csr_pmpcfg, i) /\ 2 \notin PmpField(s.csr_pmpcfg, i)

RomData(g, addr) == LET word == (addr \div 4) - DataStart
                    IN  IF 1 + (word \div 2) \in DOMAIN g.data THEN g.data[1 + (word \div 2)] ELSE {}

Ends(m, how) == [m EXCEPT !.end = how]
Ran(m, h, n) == [m EXCEPT !.hart = h, !.ran = @ + n]

\* In single steps each instruction is a call of its own.
Delta(m, alone) == IF alone THEN 0 ELSE m.ran
AtEnd(s, alone) == IF alone THEN Counted(s, 1) ELSE s

\* Interrupts are looked for where the code is looked up anew.
Interrupted(s) == MIE \in s.mstatus /\ (s.mip \cap s.mie) \ s.mideleg # {}

\* 64-bit stores to the CLINT: the comparator of hart 0 and the clock.
Store(h, addr, val) ==
    IF addr = Clint(16384)
    THEN [h EXCEPT !.timecmp = Number(val), !.csr.mip = @ \ {MTIP}]
    ELSE IF addr = Clint(49144) THEN [h EXCEPT !.csr.mcycle = Counter(Number(val) * RTC_FREQ_DIV)]
    ELSE h

Exec(g, m, i, blocked, alone) ==
    LET h == m.hart
        s == h.csr
        addr == 4 * i.at + i.auipc + i.addi
        c == AtEnd(s, alone)
    IN  IF alone /\ FetchFaults(s, blocked) THEN Ends(m, "trapped")
        ELSE
        CASE i.op = "hartid" -> Ran(m, [h EXCEPT !.x[10] = {}, !.csr = c], 2)
          [] i.op \in {"ld", "fld"} ->
                IF Faults(s, 0, blocked) \/ (i.op = "fld" /\ s.fs = {}) THEN Ends(m, "trapped")
                ELSE IF i.op = "ld" THEN Ran(m, [h EXCEPT !.x[i.rd] = RomData(g, addr), !.csr = c], 3)
                ELSE Ran(m, [h EXCEPT !.x[1] = AddrBits(ROM_BASE_ADDR + addr),
                                      !.f[i.rd] = RomData(g, addr),
                                      !.csr = [c EXCEPT !.fs = Dirty]], 3)
          [] i.op = "seti" -> Ran(m, [h EXCEPT !.x[1] = i.val, !.csr = c], 1)
          [] i.op = "csrrw" ->
                LET n == Csrr(s, "csrrw", i.csr, h.x[i.rs], FALSE, Delta(m, alone))
                IN  IF ~Readable(s, i.csr, TRUE) THEN Ends(m, "trapped")
                    ELSE IF i.csr = \h180 /\ ~alone /\ Interrupted(n) THEN Ends(m, "interrupted")
                    ELSE IF i.csr = \h180 /\ FetchFaults(n, blocked) THEN Ends(m, "trapped")
                    ELSE Ran(m, [h EXCEPT !.csr = AtEnd(n, alone)], 1)
          [] i.op = "csrrs" ->
                LET n == Csrr(s, "csrrs", i.csr, {}, TRUE, Delta(m, alone))
                IN  Ran(m, [h EXCEPT !.csr = AtEnd(n, alone), !.x[i.rd] = csr_read(n, i.csr)], 1)
          [] i.op = "sd" ->
                IF Faults(s, 1, blocked) THEN Ends(m, "trapped")
                ELSE LET n == Store(h, h.x[1], h.x[2])
                     IN  Ran(m, [n EXCEPT !.csr = AtEnd(n.csr, alone)], 1)
          [] i.op = "dret" ->
                LET n == handle_dret(s)
                IN  Ends(Ran(m, [h EXCEPT !.csr = Counted(n, Delta(m, alone) + 1), !.pc = s.dpc], 1),
                         "restored")

Fresh == [csr |-> [riscv_cpu_init EXCEPT !.debug_mode = TRUE], x |-> [i \in Xs |-> {}],
          f |-> [i \in Fs |-> {}], v |-> {}, pc |-> AddrBits(BOOT_BASE_ADDR), timecmp |-> 0]

RECURSIVE ExecAll(_, _, _, _, _, _)
ExecAll(g, m, lo, hi, blocked, alone) ==
    IF m.end # "no" THEN m
    ELSE IF lo = hi THEN Exec(g, m, g.code[lo], blocked, alone)
    ELSE LET mid == (lo + hi) \div 2
         IN  ExecAll(g, ExecAll(g, m, lo, mid, blocked, alone), mid + 1, hi, blocked, alone)

Boots(g, blocked, alone) ==
    ExecAll(g, [hart |-> Fresh, ran |-> 0, end |-> "no"], 1, Len(g.code), blocked, alone)

-----------------------------------------------------------------------------
(* Software: machine mode has written one value to every register it can, the PMP's
   configuration last as it may lock, configured the vector unit if that turned it on,
   chosen a level to return to and returned; then come CSR, floating-point and vector
   instructions and interrupts.  Integer results go to x0. *)

VILL == {63}
VSet(s, vl, vtype) == [s EXCEPT !.vl = vl, !.vtype = vtype, !.vs = Dirty]

SetupOrder == InOrder(Addresses \ {Simpoint, \h300, \h3A0}) \o <<\h3A0>>

RECURSIVE WriteAll(_, _, _, _)
WriteAll(s, val, lo, hi) ==
    IF s.priv = PRV_M /\ lo = hi
    THEN IF Readable(s, SetupOrder[lo], TRUE) THEN csr_write(s, SetupOrder[lo], val) ELSE s
    ELSE LET mid == (lo + hi) \div 2
         IN  WriteAll(WriteAll(s, val, lo, mid), val, mid + 1, hi)

Setup(val, priv) ==
    LET s == WriteAll(riscv_cpu_init, val, 1, Len(SetupOrder))
    IN  handle_mret(set_mstatus(IF s.vs = {} THEN s ELSE VSet(s, {1}, {}),
                            (val \ (MPP \cup {MPRV})) \cup Shl(AddrBits(priv), 11)))

Init ==
    /\ \E val \in Value, priv \in {PRV_U, PRV_S, PRV_M} :
          hart = [csr |-> Setup(val, priv), x |-> [i \in Xs |-> {i, 40 + i}],
                  f |-> [i \in Fs |-> {i + 1, 50 + i}], v |-> {7}, pc |-> {31}, timecmp |-> 3]
    /\ phase = "run" /\ saved = hart /\ rom = EmptyRom /\ insns = 0

Retire(h) ==
    /\ hart' = [h EXCEPT !.csr = Counted(@, 1)]
    /\ insns' = insns + 1
    /\ UNCHANGED <<phase, saved, rom>>

CanRun == phase = "run" /\ insns < MaxInsns

CsrInsn(funct3, csr, val, x0) ==
    /\ CanRun
    /\ Readable(hart.csr, csr, WillWrite(funct3, x0))
    /\ Retire([hart EXCEPT !.csr = Csrr(@, funct3, csr, val, x0, 0)])

\* Floating-point loads, moves and arithmetic: a register and any flags.
FpInsn(i, val, flags) ==
    /\ CanRun /\ hart.csr.fs # {}
    /\ Retire([hart EXCEPT !.f[i] = val, !.csr.fflags = @ \cup flags, !.csr.fs = Dirty])

\* Comparisons and conversions to integers.
\* Mutant: only what writes a floating-point register marks the state.
FpToInt_Clean(flags) ==
    /\ CanRun /\ hart.csr.fs # {}
    /\ Retire([hart EXCEPT !.csr.fflags = @ \cup flags])

FpToInt(flags) ==
    /\ CanRun /\ hart.csr.fs # {}
    /\ Retire([hart EXCEPT !.csr.fflags = @ \cup flags, !.csr.fs = Dirty])

\* Opcode 0x57: additions, and the choice of a configuration, which clears vl if it is
\* refused.
VectorArith(val) ==
    /\ CanRun /\ hart.csr.vs # {} /\ hart.csr.vtype # VILL
    /\ Retire([hart EXCEPT !.v = val, !.csr.vstart = {}, !.csr.vs = Dirty])

VectorConfig(vl, vtype) ==
    /\ CanRun /\ hart.csr.vs # {}
    /\ vtype = VILL => vl = {}
    /\ Retire([hart EXCEPT !.csr = VSet(@, vl, vtype)])

\* Vector loads and stores leave vs as it is.  A fault-only-first load may end early and
\* then shortens vl.  Under VILL only whole registers are moved, as far as vl: not at all.
VectorLoad(val, vl) ==
    /\ CanRun /\ hart.csr.vs # {}
    /\ vl = hart.csr.vl \/ (vl # {} /\ Less(vl, hart.csr.vl))
    /\ Retire([hart EXCEPT !.v = IF hart.csr.vl = {} THEN @ ELSE val,
                            !.csr.vl = vl, !.csr.vstart = {}])

VectorStore ==
    /\ CanRun /\ hart.csr.vs # {}
    /\ Retire([hart EXCEPT !.csr.vstart = {}])

Mret == CanRun /\ hart.csr.priv = PRV_M /\ Retire([hart EXCEPT !.csr = handle_mret(@)])

\* A device raises or drops a line.
SetMip(bits) ==
    /\ phase = "run"
    /\ hart' = [hart EXCEPT !.csr.mip = bits]
    /\ UNCHANGED <<phase, saved, rom, insns>>

\* A hart in machine mode inside the ROM has no state worth a new one.
riscv_cpu_serialize(pc) ==
    LET h == [hart EXCEPT !.pc = pc]
        made == h.csr.priv # PRV_M \/ Less(AddrBits(ROM_BASE_ADDR + ROM_SIZE), pc)
    IN  /\ phase = "run" /\ insns <= MaxBeforeSave
        /\ hart' = h /\ saved' = h
        /\ rom' = IF made /\ h.csr.priv # 2 THEN create_boot_rom(h) ELSE rom
        /\ phase' = IF made /\ h.csr.priv # 2 /\ Fits(rom') THEN "saved"
                    ELSE IF ~made /\ pc = AddrBits(BOOT_BASE_ADDR) THEN "default" ELSE "exit"
        /\ UNCHANGED insns

\* The emulator is started anew with the ROM; main memory is loaded as it was.
riscv_cpu_deserialize(blocked, alone) ==
    /\ phase = "saved"
    /\ LET m == Boots(rom, blocked, alone)
       IN  hart' = m.hart /\ phase' = m.end
    /\ UNCHANGED <<saved, rom, insns>>

VectorAccess ==
    \/ \E val \in Value, vl \in {hart.csr.vl, {0}} : VectorLoad(val, vl)
    \/ VectorStore

Next ==
    \/ CanRun /\ \E csr \in Addresses, val \in Value, funct3 \in {"csrrw", "csrrs", "csrrc"} :
                    CsrInsn(funct3, csr, val, FALSE)
    \/ CanRun /\ \E csr \in Addresses : CsrInsn("csrrs", csr, {}, TRUE)
    \/ CanRun /\ \E i \in Fs, val \in Value, flags \in {{}, {4}} : FpInsn(i, val, flags)
    \/ CanRun /\ FpToInt({4})
    \/ CanRun /\ \E val \in Value : VectorArith(val)
    \/ CanRun /\ \E vl \in {{}, {1}}, vtype \in {{}, VILL} : VectorConfig(vl, vtype)
    \/ VectorAccess
    \/ Mret
    \/ CanRun /\ \E bits \in {{}, {MTIP}, {MEIP, MSIP}} : SetMip(bits)
    \/ phase = "run" /\ \E pc \in Pc : riscv_cpu_serialize(pc)
    \/ phase = "saved" /\ \E blocked, alone \in BOOLEAN : riscv_cpu_deserialize(blocked, alone)

Spec == Init /\ [][Next]_vars

-----------------------------------------------------------------------------
(* Properties of the CSR file *)

MachineState(s) ==
    <<s.mstatus \ SSTATUS_MASK, s.mie \ s.mideleg, s.mip \ s.mideleg, s.medeleg, s.mideleg,
      s.mtvec, s.mcounteren, s.mcountinhibit, s.mscratch, s.mepc, s.mcause, s.mtval,
      s.mhpmevent, s.csr_pmpcfg, s.csr_pmpaddr, s.tdata1, s.tdata2, s.dcsr, s.dpc, s.dscratch>>

\* Software below machine mode, writing any CSR it may (sstatus, sie and sip are windows on
\* registers it shares with machine mode), changes nothing machine mode owns: no other bit
\* of mstatus, no interrupt that is not delegated, no machine, PMP or trigger register.
BelowMachineConfined ==
    [][phase' = "run" /\ insns' # insns /\ hart.csr.priv # PRV_M
         => MachineState(hart'.csr) = MachineState(hart.csr)]_vars

FloatState(h) == <<h.f, h.csr.fflags, h.csr.frm>>
VectorState(h) == <<h.v, h.csr.vl, h.csr.vtype, h.csr.vstart, h.csr.vxsat, h.csr.vxrm>>

\* An operating system that saves the floating-point or vector state of a task only when
\* FS or VS says dirty: no instruction changes the state of a unit that is off, and each
\* one that changes it marks it dirty, CSR writes and instructions that only raise a flag
\* included.  Vector loads and stores (majordomo_template.h:2158, 2209) are the exception:
\* they change v, vl and vstart and leave VS as it was.
UnitsTracked ==
    [][phase' = "run" =>
         /\ FloatState(hart') # FloatState(hart) => hart.csr.fs # {} /\ hart'.csr.fs = Dirty
         /\ VectorState(hart') # VectorState(hart)
              => hart.csr.vs # {} /\ (hart'.csr.vs = Dirty \/ VectorAccess)]_vars

-----------------------------------------------------------------------------
(* Properties of checkpoints *)

Recovered == {"priv", "mstatus", "vs", "stvec", "sscratch", "sepc", "scause", "stval", "satp",
              "medeleg", "mideleg", "mie", "mtvec", "mscratch", "mepc", "mcause", "mtval",
              "tselect", "mhpmevent", "csr_pmpcfg", "csr_pmpaddr"}

\* The timer bit follows from the clock and the comparator before the next batch.
SoftPending(s) == s.mip \cap {SSIP, STIP, SEIP}

\* The hart that has run the boot code of a checkpoint is where the saved one was, at its
\* privilege level, with its general registers, its comparator, and the CSRs the
\* code carries: through debug CSRs, x1 and x2 as carriers, masks and locks, and the order
\* they impose.  Counters enabled beyond the twelfth are lost, a floating-point unit in use
\* comes back dirty and with half of each register, a unit that is off without its flags.
StateRestored ==
    phase = "restored" =>
        LET s == hart.csr
            t == saved.csr
        IN  /\ hart.pc = saved.pc \ {0} /\ hart.x = saved.x /\ hart.timecmp = saved.timecmp
            /\ \A name \in Recovered : s[name] = t[name]
            /\ \A name \in {"mcounteren", "scounteren", "mcountinhibit"} :
                  s[name] \cap (0 .. 11) = t[name] \cap (0 .. 11)
            /\ SoftPending(s) = SoftPending(t)
            /\ s.fs = IF t.fs = {} THEN {} ELSE Dirty
            /\ t.fs # {} => /\ s.fflags = t.fflags /\ s.frm = t.frm
                            /\ \A i \in Fs : hart.f[i] \cap (0 .. 31) = saved.f[i] \cap (0 .. 31)
            /\ ~s.debug_mode /\ ~s.stop_the_counter

\* The boot code is not diverted, unless the saved state itself forbids machine mode to
\* read memory (MPRV with a lower previous level, a locked PMP entry) or has an interrupt
\* that machine mode would take at once.
BootNotDiverted ==
    /\ phase = "trapped" =>
          \/ MPRV \in saved.csr.mstatus /\ ~(MPP \subseteq saved.csr.mstatus)
          \/ \E i \in Active(saved.csr) : PmpLocked(saved.csr.csr_pmpcfg, i)
    /\ phase = "interrupted" => Interrupted(saved.csr)

\* A checkpoint restores: its boot code, generated by create_boot_rom and run by a fresh
\* hart, reaches its end unless the saved state itself forbids it, and leaves the state
\* that was saved.
CheckpointRestores == StateRestored /\ BootNotDiverted
=============================================================================
