------------------------------ MODULE MmuProofs ------------------------------
(* Memory as a hart sees it.  Locking of PMP entries, for any number of entries and any
   register values.  The flushes keep the TLBs and the code window coherent, for any page
   size, number of TLB entries, page tables and PMP settings.  Reservations, for any set
   of harts, any memory map, any number of other writers of memory and any number of
   stores up to MaxSeq. *)
EXTENDS Mmu, LrSc, TLAPS

-----------------------------------------------------------------------------
\* Physical memory protection

LEMMA EntryFacts == /\ Entry \subseteq Nat
                    /\ \A i \in Entry : 0 .. i - 1 \subseteq Entry
  BY PmpAssumption DEF Entry

\* Zero is a value of every register.
LEMMA PmpStart == PmpInit => PmpTypeOK
<1> SUFFICES ASSUME PmpInit PROVE PmpTypeOK
  OBVIOUS
<1>1. [a |-> "OFF", perm |-> {}, l |-> FALSE] \in PmpCfg
  BY DEF PmpCfg, Mode
<1>2. 0 \in 0 .. 2^AddrBits - 1
  BY PmpAssumption
<1> QED BY <1>1, <1>2, Zenon DEF PmpInit, PmpTypeOK

\* The registers keep their types: pmpaddr never exceeds its width.
THEOREM PmpTypeCorrect == PmpSpec => []PmpTypeOK
<1> USE PmpAssumption DEF PmpTypeOK
<1>1. PmpInit => PmpTypeOK
  BY PmpStart
<1>2. PmpTypeOK /\ [PmpNext]_pmpVars => PmpTypeOK'
  <2> SUFFICES ASSUME PmpTypeOK, [PmpNext]_pmpVars PROVE PmpTypeOK'
    OBVIOUS
  <2>1. ASSUME NEW new \in [Entry -> CfgVal], WritePmpCfg(new) PROVE PmpTypeOK'
    BY <2>1 DEF WritePmpCfg
  <2>2. ASSUME NEW i \in Entry, NEW val \in AddrVal, WritePmpAddr(i, val) PROVE PmpTypeOK'
    <3>1. val % 2^AddrBits \in 0 .. 2^AddrBits - 1
      OBVIOUS
    <3> QED BY <2>2, <3>1 DEF WritePmpAddr
  <2>3. CASE UNCHANGED pmpVars
    BY <2>3 DEF pmpVars
  <2> QED BY <2>1, <2>2, <2>3 DEF PmpNext
<1> QED BY <1>1, <1>2, PTL DEF PmpSpec

(* One step: a locked entry keeps its configuration and its region. *)
LEMMA LockedStep ==
  ASSUME PmpTypeOK, PmpNext, NEW i \in Entry, csr_pmpcfg[i].l
  PROVE  /\ csr_pmpcfg'[i] = csr_pmpcfg[i]
         /\ csr_pmpcfg[i].a # "OFF" =>
               Region(csr_pmpcfg', csr_pmpaddr', i) = Region(csr_pmpcfg, csr_pmpaddr, i)
<1> USE DEF PmpTypeOK
<1>1. csr_pmpcfg'[i] = csr_pmpcfg[i]
  BY DEF PmpNext, WritePmpCfg, WritePmpAddr
<1>2. csr_pmpaddr'[i] = csr_pmpaddr[i]
  BY DEF PmpNext, WritePmpCfg, WritePmpAddr, PmpAddrLocked
<1>3. ASSUME csr_pmpcfg[i].a = "TOR", i # 0 PROVE csr_pmpaddr'[i - 1] = csr_pmpaddr[i - 1]
  <2>1. i - 1 \in Entry /\ (i - 1) + 1 = i
    BY <1>3, EntryFacts DEF Entry
  <2> QED BY <1>3, <2>1 DEF PmpNext, WritePmpCfg, WritePmpAddr, PmpAddrLocked
<1>4. ASSUME csr_pmpcfg[i].a # "OFF"
      PROVE  Region(csr_pmpcfg', csr_pmpaddr', i) = Region(csr_pmpcfg, csr_pmpaddr, i)
  <2>1. csr_pmpcfg[i].a \in {"TOR", "NA4", "NAPOT"}
    BY <1>4 DEF PmpCfg, Mode
  <2> QED BY <2>1, <1>1, <1>2, <1>3 DEF Region
<1> QED BY <1>1, <1>4

\* No CSR write moves or relaxes a locked entry.
THEOREM LockTheorem == PmpSpec => LockedStaysPut
<1>1. PmpTypeOK /\ [PmpNext]_pmpVars =>
        [\A i \in Locked(csr_pmpcfg) :
          /\ csr_pmpcfg'[i] = csr_pmpcfg[i]
          /\ csr_pmpcfg[i].a # "OFF" =>
                Region(csr_pmpcfg', csr_pmpaddr', i) = Region(csr_pmpcfg, csr_pmpaddr, i)]_pmpVars
  BY LockedStep DEF Locked
<1> QED BY <1>1, PmpTypeCorrect, PTL DEF PmpSpec, LockedStaysPut

(* The entry that denies a word is the one the access check picks. *)
LEMMA DenialDecides ==
  ASSUME NEW cfg \in [Entry -> PmpCfg], NEW addr, NEW w, NEW perm, NEW i \in Entry,
         i \in Overlapping(cfg, addr, w, 1), cfg[i].l, perm \notin cfg[i].perm,
         \A k \in 0 .. i - 1 : k \notin Overlapping(cfg, addr, w, 1)
  PROVE  ~PmpAccessOk(cfg, addr, TRUE, w, 1, perm)
<1> DEFINE hit == Overlapping(cfg, addr, w, 1)
<1>1. hit \subseteq Entry /\ i \in hit
  BY DEF Overlapping
<1>2. \A m \in hit : i <= m
  BY <1>1, EntryFacts
<1>3. (CHOOSE k \in hit : \A m \in hit : k <= m) = i
  <2> HIDE DEF hit
  <2>1. \A k \in hit : (\A m \in hit : k <= m) => k = i
    BY <1>1, <1>2, EntryFacts
  <2> QED BY <1>1, <1>2, <2>1
<1> QED BY <1>1, <1>3, Zenon DEF PmpAccessOk

\* A locked entry that does not change keeps the words it covers.
LEMMA LockedOverlap ==
  ASSUME PmpTypeOK, PmpNext, NEW i \in Entry, csr_pmpcfg[i].l, NEW w
  PROVE  i \in Overlapping(csr_pmpcfg, csr_pmpaddr, w, 1)
            <=> i \in Overlapping(csr_pmpcfg', csr_pmpaddr', w, 1)
  BY LockedStep DEF Overlapping

\* What locked entries deny to machine mode stays denied until reset.
THEOREM DenialTheorem == PmpSpec => MachineDenialIsForever
<1>1. ASSUME PmpTypeOK, PmpNext, NEW i \in Locked(csr_pmpcfg), NEW w \in AddrVal,
             NEW perm \in {"R", "W", "X"},
             DeniedBy(csr_pmpcfg, csr_pmpaddr, i, w, perm)
      PROVE  /\ ~PmpAccessOk(csr_pmpcfg, csr_pmpaddr, TRUE, w, 1, perm)
             /\ i \in Locked(csr_pmpcfg')
             /\ DeniedBy(csr_pmpcfg', csr_pmpaddr', i, w, perm)
  <2>1. /\ i \in Entry
        /\ i \in Overlapping(csr_pmpcfg, csr_pmpaddr, w, 1)
        /\ csr_pmpcfg[i].l /\ perm \notin csr_pmpcfg[i].perm
        /\ \A k \in 0 .. i - 1 :
              csr_pmpcfg[k].l /\ k \notin Overlapping(csr_pmpcfg, csr_pmpaddr, w, 1)
    BY <1>1 DEF DeniedBy, Locked
  <2>2. ~PmpAccessOk(csr_pmpcfg, csr_pmpaddr, TRUE, w, 1, perm)
    BY <1>1, <2>1, DenialDecides, Zenon DEF PmpTypeOK
  <2>3. \A k \in 0 .. i : /\ k \in Entry
                          /\ csr_pmpcfg'[k] = csr_pmpcfg[k]
                          /\ k \in Overlapping(csr_pmpcfg, csr_pmpaddr, w, 1)
                               <=> k \in Overlapping(csr_pmpcfg', csr_pmpaddr', w, 1)
    <3> SUFFICES ASSUME NEW k \in 0 .. i
                 PROVE  /\ k \in Entry
                        /\ csr_pmpcfg'[k] = csr_pmpcfg[k]
                        /\ k \in Overlapping(csr_pmpcfg, csr_pmpaddr, w, 1)
                             <=> k \in Overlapping(csr_pmpcfg', csr_pmpaddr', w, 1)
      OBVIOUS
    <3>1. k \in Entry /\ csr_pmpcfg[k].l
      BY <2>1, EntryFacts
    <3> QED BY <1>1, <3>1, LockedStep, LockedOverlap
  <2>4. i \in 0 .. i /\ 0 .. i - 1 \subseteq 0 .. i
    BY <2>1, EntryFacts
  <2>5. DeniedBy(csr_pmpcfg', csr_pmpaddr', i, w, perm)
    BY <2>1, <2>3, <2>4 DEF DeniedBy
  <2>6. i \in Locked(csr_pmpcfg')
    BY <2>1, <2>3, <2>4 DEF Locked
  <2> QED BY <2>2, <2>5, <2>6, Zenon
<1>2. PmpTypeOK /\ [PmpNext]_pmpVars =>
        [\A i \in Locked(csr_pmpcfg), w \in AddrVal, perm \in {"R", "W", "X"} :
          DeniedBy(csr_pmpcfg, csr_pmpaddr, i, w, perm)
             => /\ ~PmpAccessOk(csr_pmpcfg, csr_pmpaddr, TRUE, w, 1, perm)
                /\ i \in Locked(csr_pmpcfg')
                /\ DeniedBy(csr_pmpcfg', csr_pmpaddr', i, w, perm)]_pmpVars
  BY <1>1, Zenon
<1> QED BY <1>2, PmpTypeCorrect, PTL DEF PmpSpec, MachineDenialIsForever

-----------------------------------------------------------------------------
\* Load-reserved and store-conditional

LEMMA InitIInv == Init => IInv
  BY ConstantAssumption
     DEF Init, IInv, TypeOK, Outcome, ScAtomicAmongHarts, ScUsesOwnLr

\* Each step preserves the inductive invariant.
LEMMA NextIInv == IInv /\ [Next]_vars => IInv'
<1> SUFFICES ASSUME IInv, [Next]_vars PROVE IInv'
  OBVIOUS
<1> USE ConstantAssumption DEF IInv, TypeOK, Outcome, Addr, ScAtomicAmongHarts, ScUsesOwnLr
<1>1. ASSUME NEW h \in Hart, NEW a \in Addr, LoadReserved(h, a) PROVE IInv'
  BY <1>1 DEF LoadReserved
<1>2. ASSUME NEW h \in Hart, NEW a \in Addr, Store(h, a) PROVE IInv'
  <2>1. CASE a \in Ram
    BY <1>2, <2>1 DEF Store, SeqAfterWrite, Written
  <2>2. CASE a \notin Ram
    BY <1>2, <2>2 DEF Store, SeqAfterWrite
  <2> QED BY <2>1, <2>2
<1>3. ASSUME NEW h \in Hart, NEW a \in Addr, StoreConditional(h, a) PROVE IInv'
  <2> load_res[h] = a /\ load_res_memseqno[h] = memseqno /\ a # NoAddr
    BY <1>3 DEF StoreConditional, Reserved
  <2>1. since[h] \cap Hart \subseteq {h}
    <3>1. ~(load_res_memseqno[h] < memseqno)
      OBVIOUS
    <3> QED BY <3>1, Zenon
  <2>2. a = lr[h] \/ a = 0
    BY Zenon
  <2>3. won' \in [Hart -> Outcome] /\ ScAtomicAmongHarts' /\ ScUsesOwnLr'
    BY <1>3, <2>1, <2>2 DEF StoreConditional
  <2>4. /\ memseqno' \in 0 .. MaxSeq /\ memseqno' >= memseqno
        /\ a \in Ram => memseqno' > memseqno
    BY <1>3 DEF StoreConditional, SeqAfterWrite
  <2>5. /\ since' \in [Hart -> SUBSET (Hart \cup Agent)]
        /\ a \notin Ram => since' = since
    BY <1>3 DEF StoreConditional, Written
  <2>6. /\ load_res' = [load_res EXCEPT ![h] = NoAddr]
        /\ load_res_memseqno' = [load_res_memseqno EXCEPT ![h] = 0]
        /\ lr' = [lr EXCEPT ![h] = NoAddr]
    BY <1>3 DEF StoreConditional
  <2>7. ASSUME NEW g \in Hart
        PROVE  /\ load_res_memseqno'[g] <= memseqno'
               /\ load_res'[g] # NoAddr /\ ~(since'[g] \cap Hart \subseteq {g})
                     => load_res_memseqno'[g] < memseqno'
               /\ load_res'[g] # NoAddr => load_res'[g] = lr'[g] \/ load_res'[g] = 0
    <3>1. CASE g = h
      BY <2>4, <2>6, <3>1
    <3>2. CASE g # h
      BY <2>4, <2>5, <2>6, <3>2
    <3> QED BY <3>1, <3>2
  <2> QED BY <2>3, <2>4, <2>5, <2>6, <2>7
<1>4. ASSUME NEW w \in Agent, AgentWrite(w) PROVE IInv'
  BY <1>4 DEF AgentWrite, Written
<1>5. CASE UNCHANGED vars
  BY <1>5 DEF vars
<1> QED BY <1>1, <1>2, <1>3, <1>4, <1>5 DEF Next

\* The invariant holds throughout.
THEOREM Invariance == Spec => []IInv
  BY InitIInv, NextIInv, PTL DEF Spec

(* A store-conditional never succeeds across a store of another hart: the test
   of load_res_memseqno against memseqno is enough. *)
THEOREM ScAtomic == Spec => []ScAtomicAmongHarts
<1>1. IInv => ScAtomicAmongHarts
  BY DEF IInv
<1> QED BY <1>1, Invariance, PTL

\* A store-conditional succeeds at most once per load-reserved.
THEOREM ScOwnLr == Spec => []ScUsesOwnLr
<1>1. IInv => ScUsesOwnLr
  BY DEF IInv
<1> QED BY <1>1, Invariance, PTL

(* The counters implement reservations: every step of the machine is a step of
   the specification in which a store takes the reservation of all other harts
   away, or leaves all reservations alone. *)
THEOREM Refinement == Spec => ImplementsReservation
<1> DEFINE resv == [h \in Hart |-> IF load_res_memseqno[h] = memseqno
                                   THEN load_res[h] ELSE NoAddr]
<1>1. Init => Abs!Init
  BY DEF Init, Abs!Init
<1>2. IInv /\ [Next]_vars => [Abs!Next]_resv
  <2> SUFFICES ASSUME IInv, [Next]_vars PROVE Abs!Next \/ resv' = resv
    OBVIOUS
  <2> USE ConstantAssumption DEF IInv, TypeOK, Addr, Abs!Addr
  <2>1. ASSUME NEW h \in Hart, NEW a \in Addr, LoadReserved(h, a)
        PROVE  Abs!LoadReserved(h, a)
    BY <2>1, Zenon DEF LoadReserved, Abs!LoadReserved
  <2>2. ASSUME NEW h \in Hart, NEW a \in Addr, Store(h, a)
        PROVE  Abs!Store(h, a) \/ resv' = resv
    <3>1. CASE a \in Ram
      BY <2>2, <3>1 DEF Store, SeqAfterWrite, Abs!Store
    <3>2. CASE a \notin Ram
      BY <2>2, <3>2 DEF Store, SeqAfterWrite
    <3> QED BY <3>1, <3>2
  <2>3. ASSUME NEW h \in Hart, NEW a \in Addr, StoreConditional(h, a)
        PROVE  Abs!StoreConditional(h, a)
    <3>1. CASE a \in Ram
      BY <2>3, <3>1 DEF StoreConditional, Reserved, SeqAfterWrite, Abs!StoreConditional
    <3>2. CASE a \notin Ram
      BY <2>3, <3>2 DEF StoreConditional, Reserved, SeqAfterWrite, Abs!StoreConditional
    <3> QED BY <3>1, <3>2
  <2>4. ASSUME NEW w \in Agent, AgentWrite(w) PROVE resv' = resv
    BY <2>4 DEF AgentWrite
  <2>5. CASE UNCHANGED vars
    BY <2>5 DEF vars
  <2> QED BY <2>1, <2>2, <2>3, <2>4, <2>5 DEF Next, Abs!Next
<1> QED BY <1>1, <1>2, Invariance, PTL DEF Spec, ImplementsReservation, Abs!Spec

-----------------------------------------------------------------------------
\* Translation: the TLBs and the code window

Acc == {"R", "W", "X"}

(* What the translation of accesses of kind acc depends on stays the same in a
   step.  In machine mode neither page tables nor SUM, MXR and the privilege of
   PTE reads matter. *)
SameCtx(acc) ==
    /\ UNCHANGED <<satp, pt, csr_pmpcfg, csr_pmpaddr>>
    /\ EffPriv(acc)' = EffPriv(acc)
    /\ EffPriv(acc) # PRV_M => /\ EffPriv("R")' = EffPriv("R")
                               /\ mstatus'.sum = mstatus.sum
                               /\ mstatus'.mxr = mstatus.mxr

LEMMA IdxInSlot == \A v \in VPage : Idx(v) \in Slot
  BY MmuAssumption DEF Idx, Slot

\* In a step that keeps the context, PMP and the walk give the same answers.
LEMMA CtxPmp ==
  ASSUME NEW acc \in Acc, SameCtx(acc), NEW w, NEW n
  PROVE  PmpOk(acc, w, n)' <=> PmpOk(acc, w, n)
  BY DEF SameCtx, PmpOk

LEMMA CtxTranslate ==
  ASSUME NEW acc \in Acc, SameCtx(acc), NEW v
  PROVE  Translate(acc, v)' = Translate(acc, v)
<1>1. CASE EffPriv(acc) = PRV_M
  BY <1>1 DEF SameCtx, Translate
<1>2. CASE EffPriv(acc) # PRV_M
  <2>1. ASSUME NEW r, NEW i PROVE ReadPte(r, i)' = ReadPte(r, i)
    BY <1>2 DEF SameCtx, ReadPte, PmpOk, PteWord
  <2>2. ASSUME NEW pte, NEW j PROVE LeafOk(pte, acc, j)' <=> LeafOk(pte, acc, j)
    BY <1>2 DEF SameCtx, LeafOk
  <2> QED BY <1>2, <2>1, <2>2 DEF SameCtx, Translate
<1> QED BY <1>1, <1>2

LEMMA CtxCoherent ==
  ASSUME NEW acc \in Acc, SameCtx(acc), NEW e, Coherent(acc, e)
  PROVE  Coherent(acc, e)'
  BY CtxPmp, CtxTranslate DEF Coherent

LEMMA CtxTlb ==
  ASSUME NEW acc \in Acc, SameCtx(acc), tlb'[acc] = tlb[acc], TlbCoherent(acc)
  PROVE  TlbCoherent(acc)'
<1> SUFFICES ASSUME NEW i \in Slot, tlb'[acc][i] # NoEntry
             PROVE  Coherent(acc, tlb[acc][i])'
  BY DEF TlbCoherent
<1>1. PICK e : e = tlb[acc][i] /\ e = tlb'[acc][i]
  OBVIOUS
<1>2. Coherent(acc, e)
  BY <1>1 DEF TlbCoherent
<1>3. Coherent(acc, e)'
  BY <1>2, CtxCoherent
<1> QED BY <1>1, <1>3 DEF Coherent

LEMMA CtxWindow ==
  ASSUME SameCtx("X"), win' = win, Coherent("X", win)
  PROVE  Coherent("X", win)'
  BY CtxCoherent DEF Acc, Coherent

-----------------------------------------------------------------------------
LEMMA EmptyTlbType ==
  EmptyTlb \in [{"R", "W", "X"} -> [Slot -> TlbEntry \cup {NoEntry}]]
  BY DEF EmptyTlb

LEMMA FillType ==
  ASSUME MmuTypeOK, NEW acc \in Acc, NEW v \in VPage, NEW g \in 0 .. PageSize - 1,
         Translate(acc, v) \in RamPage, Fill(acc, v, g)
  PROVE  tlb' \in [{"R", "W", "X"} -> [Slot -> TlbEntry \cup {NoEntry}]]
<1>1. [v |-> v, p |-> Translate(acc, v), g |-> g] \in TlbEntry
  BY MmuAssumption, Zenon DEF TlbEntry
<1> QED BY <1>1, IdxInSlot DEF MmuTypeOK, Fill, Acc

LEMMA SetPrivType ==
  ASSUME MmuTypeOK, NEW p \in Priv, set_priv(p)
  PROVE  /\ priv' \in Priv /\ ptDirty' \in BOOLEAN
         /\ tlb' \in [{"R", "W", "X"} -> [Slot -> TlbEntry \cup {NoEntry}]]
  BY EmptyTlbType, Zenon DEF MmuTypeOK, set_priv, tlb_flush_all

LEMMA RaiseType ==
  ASSUME MmuTypeOK, NEW deleg \in BOOLEAN, RaiseException(deleg),
         UNCHANGED <<satp, pt, pmpVars>>
  PROVE  MmuTypeOK'
<1>1. mstatus' \in Mstatus
  BY DEF MmuTypeOK, RaiseException, Mstatus, Priv, PRV_S, PRV_U
<1>2. /\ priv' \in Priv /\ ptDirty' \in BOOLEAN
      /\ tlb' \in [{"R", "W", "X"} -> [Slot -> TlbEntry \cup {NoEntry}]]
  BY SetPrivType DEF RaiseException, Priv, PRV_S, PRV_M
<1> QED BY <1>1, <1>2, Zenon DEF MmuTypeOK, RaiseException, LeaveWindow, pmpVars, PmpTypeOK

LEMMA FlushInWindowType ==
  ASSUME MmuTypeOK, FlushInWindow
  PROVE  /\ tlb' \in [{"R", "W", "X"} -> [Slot -> TlbEntry \cup {NoEntry}]]
         /\ win' \in TlbEntry \cup {NoEntry}
         /\ ptDirty' \in BOOLEAN /\ csrFlush' \in BOOLEAN
  BY EmptyTlbType, Zenon DEF MmuTypeOK, FlushInWindow, tlb_flush_all

LEMMA SetMstatusType ==
  ASSUME MmuTypeOK, NEW new \in Mstatus, set_mstatus(new)
  PROVE  MmuTypeOK'
<1>1. CASE ConfigChanged(new)
  BY <1>1, FlushInWindowType DEF set_mstatus, MmuTypeOK, pmpVars, PmpTypeOK
<1>2. CASE ~ConfigChanged(new)
  BY <1>2 DEF set_mstatus, MmuTypeOK, pmpVars, PmpTypeOK
<1> QED BY <1>1, <1>2

\* The PMP part of a write of a PMP register is a step of Pmp.
LEMMA WritePmpType ==
  ASSUME PmpTypeOK, WritePmp
  PROVE  PmpTypeOK'
<1>1. ASSUME NEW new \in [Entry -> CfgVal], WritePmpCfg(new) PROVE PmpTypeOK'
  BY <1>1, PmpAssumption DEF PmpTypeOK, WritePmpCfg
<1>2. ASSUME NEW i \in Entry, NEW val \in AddrVal, WritePmpAddr(i, val) PROVE PmpTypeOK'
  <2>1. val % 2^AddrBits \in 0 .. 2^AddrBits - 1
    BY PmpAssumption
  <2> QED BY <1>2, <2>1 DEF PmpTypeOK, WritePmpAddr
<1> QED BY <1>1, <1>2 DEF WritePmp

LEMMA TypeStep ==
  ASSUME MmuTypeOK, [MmuNext]_allVars
  PROVE  MmuTypeOK'
<1> USE DEF MmuTypeOK, pmpVars, PmpTypeOK
<1>1. ASSUME NEW acc \in {"R", "W"}, NEW v \in VPage, NEW g \in 0 .. PageSize - 1,
             DataAccess(acc, v, g)
      PROVE  MmuTypeOK'
  <2>1. acc \in Acc
    BY DEF Acc
  <2>2. CASE UNCHANGED mmuVars
    BY <2>2, <1>1 DEF DataAccess, mmuVars
  <2>3. CASE /\ IF Translate(acc, v) \in RamPage THEN Fill(acc, v, g) ELSE UNCHANGED tlb
             /\ UNCHANGED <<priv, mstatus, win, ptDirty, csrFlush>>
    <3>1. tlb' \in [{"R", "W", "X"} -> [Slot -> TlbEntry \cup {NoEntry}]]
      BY <2>1, <2>3, FillType
    <3> QED BY <3>1, <2>3, <1>1 DEF DataAccess
  <2>4. ASSUME NEW deleg \in BOOLEAN, RaiseException(deleg) PROVE MmuTypeOK'
    BY <2>4, <1>1, RaiseType DEF DataAccess
  <2> QED BY <1>1, <2>2, <2>3, <2>4 DEF DataAccess
<1>2. ASSUME NEW p \in RamPage, FlushTlbWriteRange(p) PROVE MmuTypeOK'
  BY <1>2 DEF FlushTlbWriteRange
<1>3. ASSUME NEW v \in VPage, NEW g \in 0 .. PageSize - 1, Executable(v, g), FillCode(v, g)
      PROVE  tlb' \in [{"R", "W", "X"} -> [Slot -> TlbEntry \cup {NoEntry}]]
  BY <1>3, FillType DEF FillCode, Executable, Acc
<1>4. ASSUME NEW v \in VPage, NEW g \in 0 .. PageSize - 1, Fetch(v, g) PROVE MmuTypeOK'
  <2>1. CASE /\ Hit("X", v) /\ win' = tlb["X"][Idx(v)]
             /\ UNCHANGED <<priv, mstatus, tlb, ptDirty, csrFlush>>
    BY <2>1, <1>4, IdxInSlot DEF Fetch
  <2>2. CASE /\ Executable(v, g) /\ FillCode(v, g)
             /\ UNCHANGED <<priv, mstatus, win, ptDirty, csrFlush>>
    BY <2>2, <1>3, <1>4 DEF Fetch
  <2>3. ASSUME NEW deleg \in BOOLEAN, RaiseException(deleg) PROVE MmuTypeOK'
    BY <2>3, <1>4, RaiseType DEF Fetch
  <2> QED BY <1>4, <2>1, <2>2, <2>3 DEF Fetch
<1>5. ASSUME NEW v \in VPage, NEW g \in 0 .. PageSize - 1, riscv_read_insn(v, g)
      PROVE  MmuTypeOK'
  BY <1>3, <1>5 DEF riscv_read_insn
<1>6. CASE Jump
  BY <1>6, Zenon DEF Jump, LeaveWindow
<1>7. CASE Trap
  BY <1>7, RaiseType DEF Trap
<1>8. CASE handle_mret
  <2>1. mstatus.mpp \in Priv /\ mstatus' \in Mstatus
    BY <1>8 DEF handle_mret, Mstatus, Priv, PRV_U
  <2> QED BY <1>8, <2>1, SetPrivType, Zenon DEF handle_mret, LeaveWindow
<1>9. CASE handle_sret
  <2>1. mstatus.spp \in Priv /\ mstatus' \in Mstatus
    BY <1>9 DEF handle_sret, Mstatus, Priv, PRV_U, PRV_S
  <2> QED BY <1>9, <2>1, SetPrivType, Zenon DEF handle_sret, LeaveWindow
<1>10. ASSUME NEW prv \in Priv, handle_dret(prv) PROVE MmuTypeOK'
  BY <1>10, SetPrivType, Zenon DEF handle_dret, LeaveWindow
<1>11. ASSUME NEW new \in MstatusVal, WriteMstatus(new) PROVE MmuTypeOK'
  BY <1>11, SetMstatusType, MmuAssumption DEF WriteMstatus
<1>12. ASSUME NEW new \in MstatusVal, WriteSstatus(new) PROVE MmuTypeOK'
  <2>1. [mstatus EXCEPT !.spp = new.spp, !.sum = new.sum, !.mxr = new.mxr] \in Mstatus
    BY MmuAssumption, Zenon DEF Mstatus
  <2> QED BY <1>12, <2>1, SetMstatusType DEF WriteSstatus
<1>13. ASSUME NEW new \in Root \cup {Bare}, WriteSatp(new) PROVE MmuTypeOK'
  BY <1>13, EmptyTlbType, Zenon DEF WriteSatp, tlb_flush_all, LeaveWindow
<1>14. CASE SfenceVma
  BY <1>14, EmptyTlbType, Zenon DEF SfenceVma, tlb_flush_all, LeaveWindow
<1>15. CASE WritePmp
  BY <1>15, WritePmpType, FlushInWindowType DEF WritePmp
<1>16. ASSUME NEW r \in Root, NEW i \in PteIdx, NEW pte \in Pte, PtWrite(r, i, pte)
       PROVE  MmuTypeOK'
  BY <1>16, MmuAssumption DEF PtWrite
<1>17. CASE UNCHANGED allVars
  BY <1>17 DEF allVars, mmuVars
<1> QED BY <1>1, <1>2, <1>4, <1>5, <1>6, <1>7, <1>8, <1>9, <1>10, <1>11, <1>12, Zenon,
           <1>13, <1>14, <1>15, <1>16, <1>17 DEF MmuNext, DataLoad, DataStore

LEMMA TypeInit == MmuInit => MmuTypeOK
<1> SUFFICES ASSUME MmuInit PROVE MmuTypeOK
  OBVIOUS
<1>1. PmpTypeOK
  BY PmpStart, Zenon DEF MmuInit
<1>2. mstatus \in Mstatus /\ priv \in Priv
  BY DEF MmuInit, Mstatus, Priv, PRV_U, PRV_S, PRV_M
<1>3. tlb \in [{"R", "W", "X"} -> [Slot -> TlbEntry \cup {NoEntry}]]
  BY EmptyTlbType DEF MmuInit
<1> QED BY <1>1, <1>2, <1>3, Zenon DEF MmuInit, MmuTypeOK

\* Every register, TLB entry and page table stays in its type.
THEOREM MmuTypeCorrect == MmuSpec => []MmuTypeOK
  BY TypeInit, TypeStep, PTL DEF MmuSpec

-----------------------------------------------------------------------------
(* The inductive invariant: the three coherence properties, one on the other. *)
MmuInv ==
    /\ MmuTypeOK
    /\ CodeTlbCoherent
    /\ DataTlbCoherent
    /\ WindowCoherent

LEMMA FlushedTlb ==
  ASSUME NEW acc \in Acc, tlb' = EmptyTlb
  PROVE  TlbCoherent(acc)'
  BY DEF TlbCoherent, EmptyTlb, Acc

\* A step after which the TLBs are empty, with the window left or overtaken by it.
LEMMA FlushStep ==
  ASSUME tlb' = EmptyTlb, win' = NoEntry \/ csrFlush'
  PROVE  CodeTlbCoherent' /\ DataTlbCoherent' /\ WindowCoherent'
  BY FlushedTlb DEF CodeTlbCoherent, DataTlbCoherent, WindowCoherent, Acc

(* A step that keeps the TLBs and the context of code accesses and, unless MPRV
   is set, of data accesses. *)
LEMMA KeepStep ==
  ASSUME MmuInv, tlb' = tlb, ptDirty' = ptDirty, SameCtx("X"),
         mstatus'.mprv = mstatus.mprv,
         ~mstatus.mprv => SameCtx("R") /\ SameCtx("W"),
         win' = NoEntry \/ (win' = win /\ csrFlush' = csrFlush)
  PROVE  CodeTlbCoherent' /\ DataTlbCoherent' /\ WindowCoherent'
<1>1. CodeTlbCoherent'
  BY CtxTlb DEF MmuInv, CodeTlbCoherent, Acc
<1>2. DataTlbCoherent'
  BY CtxTlb DEF MmuInv, DataTlbCoherent, Acc
<1>3. WindowCoherent'
  BY CtxWindow DEF MmuInv, WindowCoherent
<1> QED BY <1>1, <1>2, <1>3

\* Nothing a translation depends on changes.
LEMMA SameRegs ==
  ASSUME UNCHANGED <<priv, satp, pt, csr_pmpcfg, csr_pmpaddr>>,
         mstatus'.mprv = mstatus.mprv, mstatus.mprv => mstatus'.mpp = mstatus.mpp,
         mstatus'.sum = mstatus.sum, mstatus'.mxr = mstatus.mxr
  PROVE  \A acc \in Acc : SameCtx(acc)
  BY DEF SameCtx, EffPriv

\* set_priv: either the TLBs are empty afterwards or the privilege is the same.
LEMMA SetPrivStep ==
  ASSUME MmuInv, NEW p, set_priv(p), LeaveWindow, UNCHANGED <<satp, pt, csr_pmpcfg, csr_pmpaddr>>,
         mstatus'.mprv = mstatus.mprv, mstatus'.sum = mstatus.sum,
         mstatus'.mxr = mstatus.mxr,
         p = priv => mstatus'.mpp = mstatus.mpp \/ p = PRV_M
  PROVE  CodeTlbCoherent' /\ DataTlbCoherent' /\ WindowCoherent'
<1>1. CASE p # priv
  BY <1>1, FlushStep DEF set_priv, tlb_flush_all, LeaveWindow
<1>2. CASE p = priv
  <2>1. SameCtx("X")
    BY <1>2 DEF set_priv, SameCtx, EffPriv
  <2>2. ~mstatus.mprv => SameCtx("R") /\ SameCtx("W")
    BY <1>2 DEF set_priv, SameCtx, EffPriv
  <2> QED BY <1>2, <2>1, <2>2, KeepStep DEF set_priv, LeaveWindow
<1> QED BY <1>1, <1>2

LEMMA RaiseStep ==
  ASSUME MmuInv, NEW deleg \in BOOLEAN, RaiseException(deleg), UNCHANGED <<satp, pt, pmpVars>>
  PROVE  CodeTlbCoherent' /\ DataTlbCoherent' /\ WindowCoherent'
<1>1. /\ mstatus'.mprv = mstatus.mprv /\ mstatus'.sum = mstatus.sum
      /\ mstatus'.mxr = mstatus.mxr
      /\ deleg => mstatus'.mpp = mstatus.mpp
  BY DEF RaiseException, MmuInv, MmuTypeOK, Mstatus
<1>2. CASE deleg
  BY <1>1, <1>2, SetPrivStep DEF RaiseException, pmpVars
<1>3. CASE ~deleg
  BY <1>1, <1>3, SetPrivStep DEF RaiseException, pmpVars
<1> QED BY <1>2, <1>3

\* A fill puts in a coherent entry: the walk and the PMP check were just made.
LEMMA FillStep ==
  ASSUME MmuInv, NEW acc \in Acc, NEW v \in VPage, NEW g \in 0 .. PageSize - 1,
         Permitted(acc, v, g), Translate(acc, v) \in RamPage, Fill(acc, v, g),
         UNCHANGED <<priv, mstatus, satp, pt, win, ptDirty, csrFlush, pmpVars>>
  PROVE  CodeTlbCoherent' /\ DataTlbCoherent' /\ WindowCoherent'
<1>1. \A k \in Acc : SameCtx(k)
  BY SameRegs DEF pmpVars
<1> DEFINE new == [v |-> v, p |-> Translate(acc, v), g |-> g]
<1>2. Coherent(acc, new)
  BY DEF Coherent, Permitted
<1>3. ASSUME NEW k \in Acc, TlbCoherent(k) PROVE TlbCoherent(k)'
  <2> SUFFICES ASSUME NEW i \in Slot, tlb'[k][i] # NoEntry
               PROVE  Coherent(k, tlb[k][i])'
    BY DEF TlbCoherent
  <2>1. PICK e : e = tlb'[k][i]
    OBVIOUS
  <2>2. \/ e = tlb[k][i]
        \/ k = acc /\ e = new
    BY <2>1, IdxInSlot DEF Fill, MmuInv, MmuTypeOK, Acc
  <2>3. Coherent(k, e)
    BY <1>2, <1>3, <2>1, <2>2, Zenon DEF TlbCoherent
  <2>4. Coherent(k, e)'
    BY <1>1, <2>3, CtxCoherent
  <2> QED BY <2>1, <2>4 DEF Coherent
<1>4. CodeTlbCoherent' /\ DataTlbCoherent'
  BY <1>3 DEF CodeTlbCoherent, DataTlbCoherent, MmuInv, Acc
<1>5. WindowCoherent'
  BY <1>1, CtxWindow DEF WindowCoherent, MmuInv, Acc
<1> QED BY <1>4, <1>5

LEMMA SetMstatusStep ==
  ASSUME MmuInv, NEW new \in Mstatus, set_mstatus(new)
  PROVE  CodeTlbCoherent' /\ DataTlbCoherent' /\ WindowCoherent'
<1>1. CASE ConfigChanged(new)
  BY <1>1, FlushStep, Zenon DEF set_mstatus, FlushInWindow, tlb_flush_all
<1>2. CASE ~ConfigChanged(new)
  <2>1. \A acc \in Acc : SameCtx(acc)
    BY <1>2, SameRegs DEF set_mstatus, ConfigChanged, pmpVars
  <2> QED BY <1>2, <2>1, KeepStep DEF set_mstatus, ConfigChanged, Acc
<1> QED BY <1>1, <1>2

LEMMA MmuInvStep ==
  ASSUME MmuInv, [MmuNext]_allVars
  PROVE  MmuInv'
<1>1. MmuTypeOK'
  BY TypeStep DEF MmuInv
<1> DEFINE Goal == CodeTlbCoherent' /\ DataTlbCoherent' /\ WindowCoherent'
<1> SUFFICES Goal
  BY <1>1 DEF MmuInv
<1> USE DEF MmuInv
<1>2. ASSUME NEW acc \in {"R", "W"}, NEW v \in VPage, NEW g \in 0 .. PageSize - 1,
             DataAccess(acc, v, g)
      PROVE  Goal
  <2>1. acc \in Acc
    BY DEF Acc
  <2>2. CASE UNCHANGED <<priv, mstatus, win, ptDirty, csrFlush, tlb>>
    <3>1. \A k \in Acc : SameCtx(k)
      BY <1>2, <2>2, SameRegs DEF DataAccess, pmpVars
    <3> QED BY <2>2, <3>1, KeepStep DEF Acc
  <2>3. CASE /\ Permitted(acc, v, g) /\ Translate(acc, v) \in RamPage /\ Fill(acc, v, g)
             /\ UNCHANGED <<priv, mstatus, win, ptDirty, csrFlush>>
    BY <1>2, <2>1, <2>3, FillStep DEF DataAccess
  <2>4. ASSUME NEW deleg \in BOOLEAN, RaiseException(deleg) PROVE Goal
    BY <2>4, <1>2, RaiseStep DEF DataAccess
  <2> QED BY <1>2, <2>2, <2>3, <2>4 DEF DataAccess, mmuVars
<1>3. ASSUME NEW p \in RamPage, FlushTlbWriteRange(p) PROVE Goal
  <2>1. \A k \in Acc : SameCtx(k)
    BY <1>3, SameRegs DEF FlushTlbWriteRange, pmpVars
  <2>2. tlb'["X"] = tlb["X"] /\ tlb'["R"] = tlb["R"]
    BY <1>3 DEF FlushTlbWriteRange, MmuTypeOK
  <2>3. CodeTlbCoherent' /\ (~ptDirty' /\ ~mstatus'.mprv => TlbCoherent("R")')
    BY <1>3, <2>1, <2>2, CtxTlb
       DEF FlushTlbWriteRange, CodeTlbCoherent, DataTlbCoherent, Acc
  <2>4. ASSUME TlbCoherent("W") PROVE TlbCoherent("W")'
    <3> SUFFICES ASSUME NEW i \in Slot, tlb'["W"][i] # NoEntry
                 PROVE  Coherent("W", tlb["W"][i])'
      BY DEF TlbCoherent
    <3>1. PICK e : e = tlb'["W"][i] /\ e = tlb["W"][i]
      BY <1>3 DEF FlushTlbWriteRange, MmuTypeOK
    <3>2. Coherent("W", e)
      BY <2>4, <3>1 DEF TlbCoherent
    <3>3. Coherent("W", e)'
      BY <2>1, <3>2, CtxCoherent DEF Acc
    <3> QED BY <3>1, <3>3 DEF Coherent
  <2>5. WindowCoherent'
    BY <1>3, <2>1, CtxWindow DEF FlushTlbWriteRange, WindowCoherent, Acc
  <2> QED BY <1>3, <2>3, <2>4, <2>5 DEF FlushTlbWriteRange, DataTlbCoherent
<1>4. ASSUME NEW v \in VPage, NEW g \in 0 .. PageSize - 1, Executable(v, g), FillCode(v, g),
             UNCHANGED <<priv, mstatus, satp, pt, win, ptDirty, csrFlush, pmpVars>>
      PROVE  Goal
  <2>1. CASE Fill("X", v, g)
    BY <1>4, <2>1, FillStep DEF Executable, Acc
  <2>2. CASE UNCHANGED tlb
    <3>1. \A k \in Acc : SameCtx(k)
      BY <1>4, SameRegs DEF pmpVars
    <3> QED BY <1>4, <2>2, <3>1, KeepStep DEF Acc
  <2> QED BY <1>4, <2>1, <2>2 DEF FillCode
<1>5. ASSUME NEW v \in VPage, NEW g \in 0 .. PageSize - 1, Fetch(v, g) PROVE Goal
  <2>1. CASE /\ Hit("X", v) /\ win' = tlb["X"][Idx(v)]
             /\ UNCHANGED <<priv, mstatus, tlb, ptDirty, csrFlush>>
    <3>1. \A k \in Acc : SameCtx(k)
      BY <1>5, <2>1, SameRegs DEF Fetch, pmpVars
    <3>2. CodeTlbCoherent' /\ DataTlbCoherent'
      BY <2>1, <3>1, CtxTlb DEF CodeTlbCoherent, DataTlbCoherent, Acc
    <3>3. PICK e : e = win' /\ e = tlb["X"][Idx(v)]
      BY <2>1
    <3>4. ~ptDirty /\ e # NoEntry => Coherent("X", e)'
      BY <3>1, <3>3, IdxInSlot, CtxCoherent DEF CodeTlbCoherent, TlbCoherent, Acc
    <3>5. WindowCoherent'
      BY <2>1, <3>3, <3>4 DEF WindowCoherent, Coherent
    <3> QED BY <3>2, <3>5
  <2>2. CASE /\ Executable(v, g) /\ FillCode(v, g)
             /\ UNCHANGED <<priv, mstatus, win, ptDirty, csrFlush>>
    BY <2>2, <1>4, <1>5 DEF Fetch
  <2>3. ASSUME NEW deleg \in BOOLEAN, RaiseException(deleg) PROVE Goal
    BY <2>3, <1>5, RaiseStep DEF Fetch
  <2> QED BY <1>5, <2>1, <2>2, <2>3 DEF Fetch
<1>6. ASSUME NEW v \in VPage, NEW g \in 0 .. PageSize - 1, riscv_read_insn(v, g) PROVE Goal
  <2>1. CASE Executable(v, g)
    BY <1>4, <1>6, <2>1 DEF riscv_read_insn
  <2>2. CASE ~Executable(v, g)
    <3>1. \A k \in Acc : SameCtx(k)
      BY <1>6, SameRegs DEF riscv_read_insn, pmpVars
    <3> QED BY <1>6, <2>2, <3>1, KeepStep DEF riscv_read_insn, Acc
  <2> QED BY <2>1, <2>2
<1>7. CASE Jump
  <2>1. \A k \in Acc : SameCtx(k)
    BY <1>7, SameRegs DEF Jump, pmpVars
  <2> QED BY <1>7, <2>1, KeepStep DEF Jump, LeaveWindow, Acc
<1>8. CASE Trap
  BY <1>8, RaiseStep DEF Trap
<1>9. CASE handle_mret
  <2>1. /\ mstatus'.mprv = mstatus.mprv /\ mstatus'.sum = mstatus.sum
        /\ mstatus'.mxr = mstatus.mxr
    BY <1>9 DEF handle_mret, MmuTypeOK, Mstatus
  <2> QED BY <1>9, <2>1, SetPrivStep DEF handle_mret, pmpVars
<1>10. CASE handle_sret
  <2>1. /\ mstatus'.mprv = mstatus.mprv /\ mstatus'.sum = mstatus.sum
        /\ mstatus'.mxr = mstatus.mxr /\ mstatus'.mpp = mstatus.mpp
    BY <1>10 DEF handle_sret, MmuTypeOK, Mstatus
  <2> QED BY <1>10, <2>1, SetPrivStep DEF handle_sret, pmpVars
<1>11. ASSUME NEW prv \in Priv, handle_dret(prv) PROVE Goal
  BY <1>11, SetPrivStep DEF handle_dret, pmpVars
<1>12. ASSUME NEW new \in MstatusVal, WriteMstatus(new) PROVE Goal
  BY <1>12, SetMstatusStep, MmuAssumption DEF WriteMstatus
<1>13. ASSUME NEW new \in MstatusVal, WriteSstatus(new) PROVE Goal
  <2>1. [mstatus EXCEPT !.spp = new.spp, !.sum = new.sum, !.mxr = new.mxr] \in Mstatus
    BY MmuAssumption, Zenon DEF Mstatus, MmuTypeOK
  <2> QED BY <1>13, <2>1, SetMstatusStep DEF WriteSstatus
<1>14. ASSUME NEW new \in Root \cup {Bare}, WriteSatp(new) PROVE Goal
  BY <1>14, FlushStep DEF WriteSatp, tlb_flush_all, LeaveWindow
<1>15. CASE SfenceVma
  BY <1>15, FlushStep DEF SfenceVma, tlb_flush_all, LeaveWindow
<1>16. CASE WritePmp
  <2>1. CASE FlushInWindow
    BY <2>1, FlushStep, Zenon DEF FlushInWindow, tlb_flush_all
  <2>2. ASSUME NEW i \in Entry, NEW val \in AddrVal, WritePmpAddr(i, val),
               PmpAddrLocked(i), UNCHANGED <<tlb, ptDirty, win, csrFlush>>
        PROVE  Goal
    <3>1. \A k \in Acc : SameCtx(k)
      BY <1>16, <2>2, SameRegs DEF WritePmp, WritePmpAddr
    <3> QED BY <1>16, <2>2, <3>1, KeepStep DEF WritePmp, Acc
  <2> QED BY <1>16, <2>1, <2>2 DEF WritePmp
<1>17. ASSUME NEW r \in Root, NEW i \in PteIdx, NEW pte \in Pte, PtWrite(r, i, pte)
       PROVE  Goal
  BY <1>17 DEF PtWrite, CodeTlbCoherent, DataTlbCoherent, WindowCoherent
<1>18. CASE UNCHANGED allVars
  <2>1. \A k \in Acc : SameCtx(k)
    BY <1>18, SameRegs DEF allVars, mmuVars, pmpVars
  <2> QED BY <1>18, <2>1, KeepStep DEF allVars, mmuVars, Acc
<1> QED BY <1>2, <1>3, <1>5, <1>6, <1>7, <1>8, <1>9, <1>10, <1>11, <1>12, <1>13,
           <1>14, <1>15, <1>16, <1>17, <1>18 DEF MmuNext, DataLoad, DataStore

LEMMA MmuInvInit == MmuInit => MmuInv
<1> SUFFICES ASSUME MmuInit PROVE MmuInv
  OBVIOUS
<1>1. \A acc \in Acc : TlbCoherent(acc)
  BY DEF MmuInit, EmptyTlb, TlbCoherent, Acc
<1> QED BY <1>1, TypeInit
        DEF MmuInv, MmuInit, CodeTlbCoherent, DataTlbCoherent, WindowCoherent, Acc

LEMMA MmuInvAlways == MmuSpec => []MmuInv
  BY MmuInvInit, MmuInvStep, PTL DEF MmuSpec

\* Every hit in the code TLB, and with MPRV clear in the read and write TLBs, is what a
\* walk would give.
THEOREM TlbCoherence == MmuSpec => []TlbsCoherent
<1>1. MmuInv => TlbsCoherent  BY DEF MmuInv, TlbsCoherent
<1> QED  BY <1>1, MmuInvAlways, PTL

\* The code window follows the code TLB, CSR writes that flush it apart.
THEOREM WindowCoherence == MmuSpec => []WindowCoherent
  BY MmuInvAlways, PTL DEF MmuInv
=============================================================================
