-------------------------------- MODULE Csr --------------------------------
(* The control and status registers of a hart: csr_read and csr_write, address by
   address, the instructions that call them and the state they share with mstatus,
   the FPU, the vector unit, the debug mode and the simulator.  A value is the set
   of its bits, so that masks are sets and every register has its full width; the
   counters alone are numbers, of CounterBits bits. *)
EXTENDS Integers, FiniteSets, FiniteSetsExt, TLC

CONSTANTS CounterBits,
          Hpms, Pmps,       \* counters and PMP entries, by number
          simpoint_en_bbv

ASSUME CsrAssumption ==
    /\ CounterBits \in 1 .. 30 /\ simpoint_en_bbv \in BOOLEAN
    /\ Hpms \subseteq 3 .. 31 /\ Pmps \subseteq 0 .. 15

Bit == 0 .. 63
PRV_U == 0
PRV_S == 1
PRV_M == 3

Shl(v, n) == {b + n : b \in v} \cap Bit
Shr(v, n) == {b - n : b \in v} \cap Bit
Masked(old, val, mask) == (old \ mask) \cup (val \cap mask)

Number(v) == MapThenSumSet(LAMBDA b : 2 ^ b, v \cap (0 .. CounterBits - 1))
BitsOf(n) == {b \in 0 .. CounterBits - 1 : (n \div 2 ^ b) % 2 = 1}
Counter(n) == n % 2 ^ CounterBits

\* Two bits as a number.
Two(v) == (IF 0 \in v THEN 1 ELSE 0) + (IF 1 \in v THEN 2 ELSE 0)
Dirty == {0, 1}

SIE == 1
MIE == 3
SPIE == 5
MPIE == 7
SPP == 8
VS == {9, 10}
MPP == {11, 12}
FS == {13, 14}
XS == {15, 16}
MPRV == 17
SUM == 18
MXR == 19
TVM == 20
TW == 21
TSR == 22
UXL == {32, 33}
SXL == {34, 35}
SD == 63

SSTATUS_MASK == {SIE, SPIE, SPP, SUM, MXR} \cup VS \cup FS \cup UXL
MSTATUS_MASK == SSTATUS_MASK \cup {MIE, MPIE, MPRV, TVM, TW, TSR} \cup MPP \cup SXL

SSIP == 1
MSIP == 3
STIP == 5
MTIP == 7
SEIP == 9
MEIP == 11
MCIP == 18

\* Letters of misa.
misa == {0, 2, 3, 5, 8, 12, 18, 20, 21}
DMODE == 59
MatchTrigger == {61, 55}

\* A register of at most 48 bits and a sign.
CANONICAL_S49(v) == (v \cap (0 .. 48)) \cup (IF 48 \in v THEN 49 .. 63 ELSE {})

riscv_cpu_init ==
    [priv |-> PRV_M, mstatus |-> {33, 35} \cup MPP, fs |-> {}, vs |-> {},
     fflags |-> {}, frm |-> {}, vstart |-> {}, vxsat |-> {}, vxrm |-> {}, vl |-> {}, vtype |-> {},
     stvec |-> {}, scounteren |-> {}, sscratch |-> {}, sepc |-> {}, scause |-> {}, stval |-> {},
     satp |-> {}, medeleg |-> {}, mideleg |-> {}, mie |-> {}, mtvec |-> {}, mcounteren |-> {},
     mcountinhibit |-> {}, mscratch |-> {}, mepc |-> {}, mcause |-> {}, mtval |-> {}, mip |-> {},
     tselect |-> {}, tdata1 |-> MatchTrigger, tdata2 |-> Bit, debug_mode |-> FALSE,
     dcsr |-> {30, 0, 1}, dpc |-> {}, dscratch |-> {}, stop_the_counter |-> FALSE,
     mcycle |-> 0, minstret |-> 0, mhpmevent |-> [i \in Hpms |-> {}],
     csr_pmpcfg |-> {}, csr_pmpaddr |-> [i \in Pmps |-> {}],
     maxinsns |-> {}, terminate_simulation |-> FALSE, simpoint_roi |-> FALSE]

-----------------------------------------------------------------------------
(* Addresses *)

Float == {1, 2, 3}
Vector == {8, 9, \hA, \hF, \hC20, \hC21, \hC22}
Debug == {\h7B0, \h7B1, \h7B2}
HpmEvent == {\h320 + i : i \in Hpms}
HpmCounter == {\hB00 + i : i \in Hpms} \cup {\hC00 + i : i \in Hpms}
Counters == {\hB00, \hC00, \hB02, \hC02} \cup HpmCounter
PmpAddr == {\h3B0 + i : i \in Pmps}
Simpoint == \h8C2
mcontext == \h744

\* The identity registers: vendor, architecture, implementation, hart.
Ids == \hF11 :> {0, 2, 5, 6, 7, 8, 10} @@ \hF12 :> {1, 63} @@ \hF13 :> {0} @@ \hF14 :> {}

\* Registers that are read as they are kept.
Kept == 1 :> "fflags" @@ 2 :> "frm" @@ 8 :> "vstart" @@ 9 :> "vxsat" @@ \hA :> "vxrm"
     @@ \h105 :> "stvec" @@ \h106 :> "scounteren" @@ \h140 :> "sscratch" @@ \h141 :> "sepc"
     @@ \h142 :> "scause" @@ \h143 :> "stval" @@ \h180 :> "satp" @@ \h302 :> "medeleg"
     @@ \h303 :> "mideleg" @@ \h304 :> "mie" @@ \h305 :> "mtvec" @@ \h306 :> "mcounteren"
     @@ \h320 :> "mcountinhibit" @@ \h340 :> "mscratch" @@ \h341 :> "mepc" @@ \h342 :> "mcause"
     @@ \h343 :> "mtval" @@ \h344 :> "mip" @@ \h7A0 :> "tselect" @@ \h7A1 :> "tdata1"
     @@ \h7A2 :> "tdata2" @@ \h7B0 :> "dcsr" @@ \h7B1 :> "dpc" @@ \h7B2 :> "dscratch"
     @@ \hC20 :> "vl" @@ \hC21 :> "vtype" @@ \h3A0 :> "csr_pmpcfg"

Addresses == DOMAIN Kept \cup {3, \hF, \h100, \h104, \h144, \h300, \h301, \hC22, \h3A2, mcontext,
              Simpoint} \cup DOMAIN Ids \cup HpmEvent \cup Counters \cup PmpAddr

-----------------------------------------------------------------------------
(* Reading *)

\* mstatus is kept without FS and VS; SD sums them up.
get_mstatus(s, mask) ==
    LET val == (s.mstatus \cup Shl(s.fs, 13) \cup Shl(s.vs, 9)) \cap mask
    IN  IF VS \subseteq val \/ FS \subseteq val \/ XS \subseteq val THEN val \cup {SD} ELSE val

counter_access_ok(s, csr) ==
    s.priv = PRV_M \/ csr % 32 \in (IF s.priv = PRV_U THEN s.scounteren ELSE s.mcounteren)

FloatOff(s, csr) == csr \in Float /\ s.fs = {}

VectorOff(s, csr) == csr \in Vector /\ s.vs = {}

Readable(s, csr, will_write) ==
    /\ csr \in Addresses
    /\ ~(will_write /\ (csr \div 1024) % 4 = 3)
    /\ s.priv >= (csr \div 256) % 4
    /\ ~FloatOff(s, csr) /\ ~VectorOff(s, csr)
    /\ ~(csr = \h180 /\ s.priv = PRV_S /\ TVM \in s.mstatus)
    /\ csr \in Debug => s.debug_mode
    /\ csr \in Counters => counter_access_ok(s, csr)

\* The value of a readable register.
csr_read(s, csr) ==
    CASE csr \in DOMAIN Kept -> s[Kept[csr]]
      [] csr = 3 -> s.fflags \cup Shl(s.frm, 5)
      [] csr = \hF -> s.vxsat \cup Shl(s.vxrm, 1)
      [] csr = \h100 -> get_mstatus(s, SSTATUS_MASK)
      [] csr = \h104 -> s.mie \cap s.mideleg
      [] csr = \h144 -> s.mip \cap s.mideleg
      [] csr = \h300 -> get_mstatus(s, Bit)
      [] csr = \h301 -> misa \cup {63}
      [] csr \in {\hB00, \hC00} -> BitsOf(s.mcycle)
      [] csr \in {\hB02, \hC02} -> BitsOf(s.minstret)
      [] csr \in HpmEvent -> s.mhpmevent[csr % 32]
      [] csr \in PmpAddr -> s.csr_pmpaddr[csr - \h3B0]
      [] csr \in DOMAIN Ids -> Ids[csr]
      [] csr = \hC22 -> {4}
      [] csr \in HpmCounter \cup {\h3A2, mcontext, Simpoint} -> {}

-----------------------------------------------------------------------------
(* Writing.  Each operator answers with the new state. *)

\* FS and VS are kept apart; XLEN is fixed.
set_mstatus(s, val) ==
    [s EXCEPT !.fs = Shr(val \cap FS, 13), !.vs = Shr(val \cap VS, 9),
              !.mstatus = Masked(@, val, MSTATUS_MASK \ (FS \cup VS \cup UXL \cup SXL))]

\* Mutant: the value is not masked.
WriteSstatus_All(s, val) == set_mstatus(s, (s.mstatus \ SSTATUS_MASK) \cup val)

WriteSstatus(s, val) == set_mstatus(s, Masked(s.mstatus, val, SSTATUS_MASK))

\* Mutant: the flags change and FS does not.
WriteFloat_Clean(s, csr, val) ==
    IF csr = 1 THEN [s EXCEPT !.fflags = val \cap (0 .. 4)]
    ELSE IF csr = 2 THEN [s EXCEPT !.frm = val \cap (0 .. 2)]
    ELSE [s EXCEPT !.fflags = val \cap (0 .. 4), !.frm = Shr(val, 5) \cap (0 .. 2)]

WriteFloat(s, csr, val) ==
    IF csr = 1 THEN [s EXCEPT !.fflags = val \cap (0 .. 4), !.fs = Dirty]
    ELSE IF csr = 2 THEN [s EXCEPT !.frm = val \cap (0 .. 2), !.fs = Dirty]
    ELSE [s EXCEPT !.fflags = val \cap (0 .. 4), !.frm = Shr(val, 5) \cap (0 .. 2), !.fs = Dirty]

WriteVector(s, csr, val) ==
    IF csr = 8 THEN [s EXCEPT !.vstart = val \cap (0 .. 6), !.vs = Dirty]
    ELSE IF csr = 9 THEN [s EXCEPT !.vxsat = val \cap {0}, !.vs = Dirty]
    ELSE IF csr = \hA THEN [s EXCEPT !.vxrm = val \cap {0, 1}, !.vs = Dirty]
    ELSE [s EXCEPT !.vxsat = val \cap {0}, !.vxrm = Shr(val \cap {1, 2}, 1), !.vs = Dirty]

\* A vectored handler is aligned to 256 bytes; bit 1 is never set.
Tvec(val) == (IF 0 \in val THEN val \ (1 .. 7) ELSE val) \ {1}
Epc(val) == CANONICAL_S49(val \ {0})
PHYSICAL_ADDR_LEN == 40

WriteSupervisor(s, csr, val) ==
    CASE csr = \h104 -> [s EXCEPT !.mie = Masked(@, val, s.mideleg)]
      [] csr = \h105 -> [s EXCEPT !.stvec = Tvec(val)]
      [] csr = \h106 -> [s EXCEPT !.scounteren = val \cap (0 .. 31)]
      [] csr = \h140 -> [s EXCEPT !.sscratch = val]
      [] csr = \h141 -> [s EXCEPT !.sepc = Epc(val)]
      [] csr = \h142 -> [s EXCEPT !.scause = val \cap ((0 .. 4) \cup {63})]
      [] csr = \h143 -> [s EXCEPT !.stval = CANONICAL_S49(val)]
      [] csr = \h144 -> [s EXCEPT !.mip = Masked(@, val, s.mideleg)]

\* Only bare, Sv39 and Sv48 are modes; there are no address-space identifiers.
WriteSatp(s, val) ==
    IF Shr(val, 60) \in {{}, {3}, {0, 3}}
    THEN [s EXCEPT !.satp = val \cap ((0 .. 43) \cup (60 .. 63))]
    ELSE s

WriteMachine(s, csr, val) ==
    CASE csr = \h302 -> [s EXCEPT !.medeleg = Masked(@, val, {0, 3, 8, 12, 13, 15})]
      [] csr = \h303 -> [s EXCEPT !.mideleg = Masked(@, val, {SSIP, STIP, SEIP})]
      [] csr = \h304 -> [s EXCEPT !.mie =
                            Masked(@, val, {MCIP, MEIP, SEIP, MTIP, STIP, MSIP, SSIP})]
      [] csr = \h305 -> [s EXCEPT !.mtvec = Tvec(val) \cap (0 .. PHYSICAL_ADDR_LEN - 1)]
      [] csr = \h306 -> [s EXCEPT !.mcounteren = val \cap (0 .. 31)]
      [] csr = \h320 -> [s EXCEPT !.mcountinhibit = (val \ {1}) \cap (0 .. 31)]
      [] csr = \h340 -> [s EXCEPT !.mscratch = val]
      [] csr = \h341 -> [s EXCEPT !.mepc = Epc(val)]
      [] csr = \h342 -> [s EXCEPT !.mcause = val \cap ((0 .. 7) \cup {63})]
      [] csr = \h343 -> [s EXCEPT !.mtval = CANONICAL_S49(val)]
      [] csr = \h344 -> [s EXCEPT !.mip = Masked(@, val, {SSIP, STIP, SEIP})]

\* There is one trigger.  Outside debug mode neither DMODE nor what it guards changes.
WriteTrigger(s, csr, val) ==
    LET mask == (0 .. 4) \cup (6 .. 8) \cup {12, 55, 61} \cup (IF s.debug_mode THEN {DMODE} ELSE {})
        guarded == DMODE \in s.tdata1 /\ ~s.debug_mode
    IN  IF csr = \h7A0 THEN [s EXCEPT !.tselect = {}]
        ELSE IF guarded THEN s
        ELSE IF csr = \h7A1 THEN [s EXCEPT !.tdata1 = Masked(@, val \cup MatchTrigger, mask)]
        ELSE [s EXCEPT !.tdata2 = val]

\* The test of the two stop bits binds less tightly than the comparison with 0, so
\* that the low bit of the privilege level decides.
WriteDebug(s, csr, val) ==
    IF csr = \h7B0
    THEN LET dcsr == Masked(s.dcsr, val, {0, 1, 9, 10})
         IN  [s EXCEPT !.dcsr = dcsr, !.stop_the_counter = 0 \in dcsr]
    ELSE IF csr = \h7B1 THEN [s EXCEPT !.dpc = val \ {0}]
    ELSE [s EXCEPT !.dscratch = val]

WriteHpmEvent(s, csr, val) == [s EXCEPT !.mhpmevent[csr % 32] = val \cap ((0 .. 2) \cup (8 .. 31))]

\* Eight entries are implemented; a locked one keeps its configuration and address,
\* and so does the address below a locked top-of-range entry.
PMP_N == 8
PmpField(cfg, i) == {b \in 0 .. 7 : 8 * i + b \in cfg}
PmpLocked(cfg, i) == 7 \in PmpField(cfg, i)

WritePmpCfg(s, val) ==
    LET field(i) == (IF PmpLocked(s.csr_pmpcfg, i) THEN PmpField(s.csr_pmpcfg, i)
                     ELSE PmpField(val, i)) \ {5, 6}
    IN  [s EXCEPT !.csr_pmpcfg = UNION {Shl(field(i), 8 * i) : i \in 0 .. 7}]

WritePmpAddr(s, i, val) ==
    IF \/ PMP_N <= i
       \/ PmpLocked(s.csr_pmpcfg, i)
       \/ PmpLocked(s.csr_pmpcfg, i + 1) /\ PmpField(s.csr_pmpcfg, i + 1) \cap {3, 4} = {3}
    THEN s
    ELSE [s EXCEPT !.csr_pmpaddr[i] = val \cap (0 .. 37)]

\* The register a benchmark talks to the simulator with.
WriteSimpoint(s, val) ==
    IF {0, 1} \subseteq val THEN [s EXCEPT !.maxinsns = Shr(val, 2)]
    ELSE IF 1 \in val THEN [s EXCEPT !.terminate_simulation = TRUE]
    ELSE IF 0 \in val THEN [s EXCEPT !.simpoint_roi = @ \/ simpoint_en_bbv]
    ELSE [s EXCEPT !.simpoint_roi = FALSE]

\* Of a register that was readable: nothing else can refuse the write.
csr_write(s, csr, val) ==
    CASE csr \in Float -> WriteFloat(s, csr, val)
      [] csr \in {8, 9, \hA, \hF} -> WriteVector(s, csr, val)
      [] csr = \h100 -> WriteSstatus(s, val)
      [] csr \in {\h104, \h105, \h106} \cup (\h140 .. \h144) -> WriteSupervisor(s, csr, val)
      [] csr = \h180 -> WriteSatp(s, val)
      [] csr = \h300 -> set_mstatus(s, val)
      [] csr \in (\h302 .. \h306) \cup {\h320} \cup (\h340 .. \h344) -> WriteMachine(s, csr, val)
      [] csr \in \h7A0 .. \h7A2 -> WriteTrigger(s, csr, val)
      [] csr \in Debug -> WriteDebug(s, csr, val)
      [] csr \in HpmEvent -> WriteHpmEvent(s, csr, val)
      [] csr = \h3A0 -> WritePmpCfg(s, val)
      [] csr \in PmpAddr -> WritePmpAddr(s, csr - \h3B0, val)
      [] csr = \hB00 -> [s EXCEPT !.mcycle = Number(val)]
      [] csr = \hB02 -> [s EXCEPT !.minstret = Number(val)]
      [] csr = Simpoint -> WriteSimpoint(s, val)
      [] OTHER -> s

-----------------------------------------------------------------------------
(* The instructions *)

\* Counting stops in debug mode only.
Counted(s, delta) ==
    IF s.stop_the_counter THEN s
    ELSE [s EXCEPT !.mcycle = Counter(@ + delta), !.minstret = Counter(@ + delta)]

\* csrrw, csrrs and csrrc; a set or clear from x0 does not write.
WillWrite(funct3, x0) == funct3 = "csrrw" \/ ~x0

Csrr(s0, funct3, csr, val, x0, delta) ==
    LET s == Counted(s0, delta)
        old == csr_read(s, csr)
        new == CASE funct3 = "csrrw" -> val
                 [] funct3 = "csrrs" -> old \cup val
                 [] funct3 = "csrrc" -> old \ val
    IN  IF WillWrite(funct3, x0) THEN csr_write(s, csr, new) ELSE s

handle_mret(s) ==
    [s EXCEPT !.mstatus = ((@ \ ({MIE} \cup MPP)) \cup {MPIE})
                          \cup (IF MPIE \in @ THEN {MIE} ELSE {}),
              !.priv = Two(Shr(s.mstatus \cap MPP, 11))]

handle_dret(s) ==
    [s EXCEPT !.stop_the_counter = FALSE, !.debug_mode = FALSE, !.priv = Two(s.dcsr)]
=============================================================================
