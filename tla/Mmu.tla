--------------------------------- MODULE Mmu ---------------------------------
(* Address translation of one hart: the walk, the three software TLBs (read,
   write, code), the window of code the interpreter executes without looking at
   the TLB, and everything that changes what a translation depends on.

   Two levels of page tables stand for the three and four of Sv39 and Sv48: a PTE of
   the upper level is a superpage or points to a table of the lower one.  A table lies
   in one physical page.  A page has PageSize granules (the unit of PMP); word w of
   page p is p * PageSize + w. *)
EXTENDS Pmp

CONSTANTS PageSize,     \* granules in a page
          TLB_SIZE,
          Fanout,       \* PTEs in a table
          VPage,        \* virtual pages that satp's mode has room for
          Page,         \* physical pages
          RamPage,      \* the physical pages that are RAM
          Root,         \* the physical pages used as page tables
          Pte,          \* the PTEs software writes
          MstatusVal    \* the values software writes to mstatus and sstatus

PRV_U == 0
PRV_S == 1
PRV_M == 3
Priv == 0 .. 3

Bare == -1      \* satp.MODE = 0
Fault == -2
NoPte == [v |-> FALSE]
NoEntry == [v |-> -1]

Mstatus == [mprv : BOOLEAN, mpp : Priv, spp : {PRV_U, PRV_S}, sum : BOOLEAN,
            mxr : BOOLEAN, tvm : BOOLEAN, tsr : BOOLEAN]

\* A valid PTE, which without permissions is a pointer; v distinguishes it from NoPte.
ValidPte == [v : {TRUE}, p : Page, perm : SUBSET {"R", "W", "X"}, u : BOOLEAN,
             a : BOOLEAN, d : BOOLEAN]
PteIdx == 0 .. Fanout - 1

\* g is not in the code: the granule for which PMP was asked when e was filled.
TlbEntry == [v : VPage, p : Page, g : 0 .. PageSize - 1]

ASSUME MmuAssumption ==
    /\ PageSize \in Nat \ {0} /\ TLB_SIZE \in Nat \ {0} /\ Fanout \in Nat \ {0}
    /\ VPage \subseteq 0 .. Fanout * Fanout - 1 /\ Page \subseteq Nat
    /\ RamPage \subseteq Page /\ Root \subseteq RamPage
    /\ Pte \subseteq ValidPte \cup {NoPte}
    /\ MstatusVal \subseteq Mstatus

VARIABLES priv, mstatus, satp,
          pt,           \* the page tables in memory
          tlb,          \* tlb_read, tlb_write, tlb_code
          win,          \* code_ptr .. code_end: the page it lies in
          ptDirty,      \* history: page tables written since the last flush
          csrFlush      \* history: a CSR write flushed the TLBs under the window

mmuVars == <<priv, mstatus, satp, pt, tlb, win, ptDirty, csrFlush>>
allVars == <<mmuVars, pmpVars>>

Slot == 0 .. TLB_SIZE - 1
Idx(v) == v % TLB_SIZE

MmuTypeOK ==
    /\ PmpTypeOK
    /\ priv \in Priv /\ mstatus \in Mstatus
    /\ satp \in Root \cup {Bare}
    /\ pt \in [Root -> [PteIdx -> ValidPte \cup {NoPte}]]
    /\ tlb \in [{"R", "W", "X"} -> [Slot -> TlbEntry \cup {NoEntry}]]
    /\ win \in TlbEntry \cup {NoEntry}
    /\ ptDirty \in BOOLEAN /\ csrFlush \in BOOLEAN

EmptyTlb == [acc \in {"R", "W", "X"} |-> [i \in Slot |-> NoEntry]]

MmuInit ==
    /\ PmpInit
    /\ priv = PRV_M
    /\ mstatus = [mprv |-> FALSE, mpp |-> PRV_M, spp |-> PRV_U, sum |-> FALSE,
                  mxr |-> FALSE, tvm |-> FALSE, tsr |-> FALSE]
    /\ satp = Bare
    /\ pt = [r \in Root |-> [i \in PteIdx |-> NoPte]]
    /\ tlb = EmptyTlb
    /\ win = NoEntry /\ ptDirty = FALSE /\ csrFlush = FALSE

-----------------------------------------------------------------------------
(* The walk *)

\* The privilege of an access, PTE reads included: MPRV applies to all but fetches.
EffPriv(acc) == IF mstatus.mprv /\ acc # "X" THEN mstatus.mpp ELSE priv

PmpOk(acc, start, size) ==
    PmpAccessOk(csr_pmpcfg, csr_pmpaddr, EffPriv(acc) = PRV_M, start, size, acc)

PteWord(r, i) == r * PageSize + (i % PageSize)

\* PTE i of the table in page r.  A read that PMP or the bus refuses fails the walk like
\* an invalid PTE.
ReadPte(r, i) == IF r \in Root /\ PmpOk("R", PteWord(r, i), 1) THEN pt[r][i] ELSE NoPte

\* A leaf with j levels below it, of whose page number the code wants j bits to be zero.
LeafOk(pte, acc, j) ==
    /\ pte.v
    /\ IF EffPriv(acc) = PRV_S THEN pte.u => mstatus.sum ELSE pte.u
    /\ "W" \in pte.perm => "R" \in pte.perm
    /\ acc \in pte.perm \/ (acc = "R" /\ mstatus.mxr /\ "X" \in pte.perm)
    /\ pte.p % 2^j = 0
    /\ pte.a /\ (acc = "W" => pte.d)

\* riscv_cpu_get_phys_addr: the physical page, or Fault.
Translate(acc, v) ==
    IF EffPriv(acc) = PRV_M \/ satp = Bare THEN v
    ELSE LET top == ReadPte(satp, v \div Fanout)
             low == ReadPte(top.p, v % Fanout)
         IN  IF LeafOk(top, acc, 1) THEN top.p - (top.p % Fanout) + (v % Fanout)
             ELSE IF top.v /\ top.perm = {} /\ LeafOk(low, acc, 0) THEN low.p
             ELSE Fault

\* The walk and the PMP check of the granule that is accessed.
Permitted(acc, v, g) ==
    /\ Translate(acc, v) # Fault
    /\ PmpOk(acc, Translate(acc, v) * PageSize + g, 1)

-----------------------------------------------------------------------------
(* TLBs, privilege changes and traps *)

Hit(acc, v) == tlb[acc][Idx(v)].v = v

Fill(acc, v, g) ==
    tlb' = [tlb EXCEPT ![acc][Idx(v)] = [v |-> v, p |-> Translate(acc, v), g |-> g]]

tlb_flush_all == tlb' = EmptyTlb /\ ptDirty' = FALSE

LeaveWindow == win' = NoEntry /\ csrFlush' = FALSE

\* Mutant: the TLBs survive a change of privilege.
set_priv_NoFlush(p) == priv' = p /\ UNCHANGED <<tlb, ptDirty>>

set_priv(p) ==
    /\ priv' = p
    /\ IF p # priv THEN tlb_flush_all ELSE UNCHANGED <<tlb, ptDirty>>

(* raise_exception2, for a cause that is delegated or not; the interpreter
   returns after it. *)
RaiseException(deleg) ==
    /\ deleg => priv <= PRV_S
    /\ mstatus' = IF deleg THEN [mstatus EXCEPT !.spp = priv]
                           ELSE [mstatus EXCEPT !.mpp = priv]
    /\ set_priv(IF deleg THEN PRV_S ELSE PRV_M)
    /\ LeaveWindow

Trap ==
    /\ \E deleg \in BOOLEAN : RaiseException(deleg)
    /\ UNCHANGED <<satp, pt, pmpVars>>

handle_mret ==
    /\ priv = PRV_M
    /\ mstatus' = [mstatus EXCEPT !.mpp = PRV_U]
    /\ set_priv(mstatus.mpp)
    /\ LeaveWindow
    /\ UNCHANGED <<satp, pt, pmpVars>>

handle_sret ==
    /\ priv >= PRV_S /\ ~(priv = PRV_S /\ mstatus.tsr)
    /\ mstatus' = [mstatus EXCEPT !.spp = PRV_U]
    /\ set_priv(mstatus.spp)
    /\ LeaveWindow
    /\ UNCHANGED <<satp, pt, pmpVars>>

\* dcsr.prv and debug mode are not modelled: any privilege may come back.
handle_dret(prv) ==
    /\ priv = PRV_M
    /\ set_priv(prv)
    /\ LeaveWindow
    /\ UNCHANGED <<mstatus, satp, pt, pmpVars>>

-----------------------------------------------------------------------------
(* Loads, stores and fetches *)

\* target_read / target_write and the slow paths behind them.
DataAccess(acc, v, g) ==
    /\ UNCHANGED <<satp, pt, pmpVars>>
    /\ \/ /\ Hit(acc, v)
          /\ UNCHANGED mmuVars
       \/ /\ ~Hit(acc, v) /\ Permitted(acc, v, g)
          /\ IF Translate(acc, v) \in RamPage THEN Fill(acc, v, g) ELSE UNCHANGED tlb
          /\ UNCHANGED <<priv, mstatus, win, ptDirty, csrFlush>>
       \/ /\ ~Hit(acc, v) /\ ~Permitted(acc, v, g)
          /\ \E deleg \in BOOLEAN : RaiseException(deleg)

DataLoad(v, g) == DataAccess("R", v, g)
DataStore(v, g) == DataAccess("W", v, g)

\* target_read_insn_slow fills the TLB if PMP lets all of the page be executed.
FillCode(v, g) ==
    IF PmpOk("X", Translate("X", v) * PageSize, PageSize)
    THEN Fill("X", v, g) ELSE UNCHANGED tlb

Executable(v, g) == Permitted("X", v, g) /\ Translate("X", v) \in RamPage

\* The top of the interpreter loop outside a window.
Fetch(v, g) ==
    /\ win = NoEntry
    /\ UNCHANGED <<satp, pt, pmpVars>>
    /\ \/ /\ Hit("X", v)
          /\ win' = tlb["X"][Idx(v)]
          /\ UNCHANGED <<priv, mstatus, tlb, ptDirty, csrFlush>>
       \/ /\ ~Hit("X", v) /\ Executable(v, g)
          /\ FillCode(v, g)
          /\ UNCHANGED <<priv, mstatus, win, ptDirty, csrFlush>>
       \/ /\ ~Hit("X", v) /\ ~Executable(v, g)
          /\ \E deleg \in BOOLEAN : RaiseException(deleg)

\* A jump, the end of the page, or the end of the batch of instructions.
Jump ==
    /\ win # NoEntry /\ LeaveWindow
    /\ UNCHANGED <<priv, mstatus, satp, pt, tlb, ptDirty, pmpVars>>

\* riscv_read_insn, called between batches: the slow path, with faults ignored.
riscv_read_insn(v, g) ==
    /\ win = NoEntry
    /\ IF Executable(v, g) THEN FillCode(v, g) ELSE UNCHANGED tlb
    /\ UNCHANGED <<priv, mstatus, satp, pt, win, ptDirty, csrFlush, pmpVars>>

-----------------------------------------------------------------------------
(* Writes of what translations depend on *)

\* A CSR write that flushes the TLBs but does not make the interpreter jump.
FlushInWindow ==
    /\ tlb_flush_all
    /\ csrFlush' = (win # NoEntry)
    /\ UNCHANGED win

\* Mutant: a change of SUM or MXR does not flush.
ConfigChanged_MprvOnly(new) ==
    new.mprv # mstatus.mprv \/ (mstatus.mprv /\ new.mpp # mstatus.mpp)

ConfigChanged(new) ==
    \/ new.mprv # mstatus.mprv \/ new.sum # mstatus.sum \/ new.mxr # mstatus.mxr
    \/ mstatus.mprv /\ new.mpp # mstatus.mpp

set_mstatus(new) ==
    /\ mstatus' = new
    /\ IF ConfigChanged(new) THEN FlushInWindow
       ELSE UNCHANGED <<tlb, ptDirty, win, csrFlush>>
    /\ UNCHANGED <<priv, satp, pt, pmpVars>>

WriteMstatus(new) == priv = PRV_M /\ set_mstatus(new)

WriteSstatus(new) ==
    /\ priv >= PRV_S
    /\ set_mstatus([mstatus EXCEPT !.spp = new.spp, !.sum = new.sum, !.mxr = new.mxr])

\* satp writes and sfence.vma are illegal in S mode under TVM.
MayFence == priv >= PRV_S /\ ~(priv = PRV_S /\ mstatus.tvm)

\* Mutant: a write of satp does not end the window.
WriteSatp_KeepsWindow(new) ==
    /\ MayFence
    /\ satp' = new
    /\ tlb_flush_all
    /\ UNCHANGED <<priv, mstatus, pt, win, csrFlush, pmpVars>>

WriteSatp(new) ==
    /\ MayFence
    /\ satp' = new
    /\ tlb_flush_all /\ LeaveWindow
    /\ UNCHANGED <<priv, mstatus, pt, pmpVars>>

SfenceVma ==
    /\ MayFence
    /\ tlb_flush_all /\ LeaveWindow
    /\ UNCHANGED <<priv, mstatus, satp, pt, pmpVars>>

\* csr_write of a PMP register: unpack_pmpaddrs flushes unless the write is ignored.
WritePmp ==
    /\ priv = PRV_M
    /\ \/ /\ \E new \in [Entry -> CfgVal] : WritePmpCfg(new)
          /\ FlushInWindow
       \/ \E i \in Entry, val \in AddrVal :
             /\ WritePmpAddr(i, val)
             /\ IF PmpAddrLocked(i) THEN UNCHANGED <<tlb, ptDirty, win, csrFlush>>
                ELSE FlushInWindow
    /\ UNCHANGED <<priv, mstatus, satp, pt>>

\* Page tables are written in memory, by any hart or device.
PtWrite(r, i, pte) ==
    /\ pt' = [pt EXCEPT ![r][i] = pte]
    /\ ptDirty' = TRUE
    /\ UNCHANGED <<priv, mstatus, satp, tlb, win, csrFlush, pmpVars>>

\* riscv_cpu_flush_tlb_write_range_ram, called when RAM pages are made clean.
FlushTlbWriteRange(p) ==
    /\ tlb' = [tlb EXCEPT !["W"] = [i \in Slot |->
                  IF @[i] # NoEntry /\ @[i].p = p THEN NoEntry ELSE @[i]]]
    /\ UNCHANGED <<priv, mstatus, satp, pt, win, ptDirty, csrFlush, pmpVars>>

MmuNext ==
    \/ \E v \in VPage, g \in 0 .. PageSize - 1 :
          DataLoad(v, g) \/ DataStore(v, g) \/ Fetch(v, g) \/ riscv_read_insn(v, g)
    \/ \E p \in RamPage : FlushTlbWriteRange(p)
    \/ Jump
    \/ Trap \/ handle_mret \/ handle_sret
    \/ \E prv \in Priv : handle_dret(prv)
    \/ \E new \in MstatusVal : WriteMstatus(new) \/ WriteSstatus(new)
    \/ \E new \in Root \cup {Bare} : WriteSatp(new)
    \/ SfenceVma
    \/ WritePmp
    \/ \E r \in Root, i \in PteIdx, pte \in Pte : PtWrite(r, i, pte)

MmuSpec == MmuInit /\ [][MmuNext]_allVars

-----------------------------------------------------------------------------
(* An entry is coherent if the access it was filled for would be translated in
   the same way and permitted by PMP now. *)
Coherent(acc, e) ==
    /\ Translate(acc, e.v) = e.p
    /\ e.p \in RamPage
    /\ PmpOk(acc, e.p * PageSize + e.g, 1)

TlbCoherent(acc) == \A i \in Slot : tlb[acc][i] # NoEntry => Coherent(acc, tlb[acc][i])

(* No operation that changes what a translation depends on, except a write of a
   page table that no sfence.vma followed, leaves a code TLB entry behind that a
   walk would not give now: entries carry no privilege, satp or PMP tag, so only
   the flushes make a hit right (tlb_flush_all and its callers). *)
CodeTlbCoherent == ~ptDirty => TlbCoherent("X")

\* The same of the read and write TLBs, as long as MPRV is clear.
DataTlbCoherent ==
    ~ptDirty /\ ~mstatus.mprv => TlbCoherent("R") /\ TlbCoherent("W")

(* Instructions executed in a window (code_ptr < code_end, no TLB look-up) come
   from the page a fetch would give, except after a CSR write that flushed the
   TLBs without ending the window. *)
WindowCoherent ==
    win # NoEntry /\ ~ptDirty /\ ~csrFlush => Coherent("X", win)

(* Both together: a hit in any of the three TLBs is what a walk would give now. *)
TlbsCoherent == CodeTlbCoherent /\ DataTlbCoherent
==============================================================================
