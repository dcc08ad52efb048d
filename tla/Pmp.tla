--------------------------------- MODULE Pmp ---------------------------------
(* Physical memory protection of one hart: the pmpcfg / pmpaddr registers, what
   a CSR write may change in them, the regions they describe and the check made
   on a physical access.  Addresses are in units of 4 bytes, the granule of PMP:
   pmpaddr registers hold them as they are. *)
EXTENDS Integers

CONSTANTS PMP_N,       \* number of entries
          AddrBits,    \* width of a pmpaddr register
          CfgVal,      \* the pmpcfg bytes software writes
          AddrVal      \* the pmpaddr values software writes

Entry == 0 .. PMP_N - 1

Mode == {"OFF", "TOR", "NA4", "NAPOT"}

\* A pmpcfg byte without its reserved bits (masked by PMPCFG_RES).
PmpCfg == [a : Mode, perm : SUBSET {"R", "W", "X"}, l : BOOLEAN]

ASSUME PmpAssumption ==
    /\ PMP_N \in Nat \ {0}
    /\ AddrBits \in Nat
    /\ 2^AddrBits \in Nat \ {0}
    /\ CfgVal \subseteq PmpCfg
    /\ AddrVal \subseteq Nat

VARIABLES csr_pmpcfg,   \* [Entry -> PmpCfg]
          csr_pmpaddr   \* [Entry -> Nat]

pmpVars == <<csr_pmpcfg, csr_pmpaddr>>

PmpTypeOK ==
    /\ csr_pmpcfg \in [Entry -> PmpCfg]
    /\ csr_pmpaddr \in [Entry -> 0 .. 2^AddrBits - 1]

\* riscv_cpu_init leaves all registers zero.
PmpInit ==
    /\ csr_pmpcfg = [i \in Entry |-> [a |-> "OFF", perm |-> {}, l |-> FALSE]]
    /\ csr_pmpaddr = [i \in Entry |-> 0]

-----------------------------------------------------------------------------
(* unpack_pmpaddrs: the region of each entry that is not OFF, as [lo, hi). *)

\* Position of the lowest zero bit.
TrailingOnes(x) ==
    CHOOSE j \in 0 .. AddrBits : x % 2^j = 2^j - 1 /\ (x \div 2^j) % 2 = 0

Region(cfg, addr, i) ==
    CASE cfg[i].a = "TOR" -> [lo |-> IF i = 0 THEN 0 ELSE addr[i - 1], hi |-> addr[i]]
      [] cfg[i].a = "NA4" -> [lo |-> addr[i], hi |-> addr[i] + 1]
      [] cfg[i].a = "NAPOT" ->
            LET size == 2 ^ (TrailingOnes(addr[i]) + 1)
                lo   == (addr[i] \div size) * size
            IN  [lo |-> lo, hi |-> lo + size]

\* Entries with a byte in [start, start + size).
Overlapping(cfg, addr, start, size) ==
    {i \in Entry : /\ cfg[i].a # "OFF"
                   /\ Region(cfg, addr, i).lo <= start + size - 1
                   /\ start < Region(cfg, addr, i).hi}

(* riscv_cpu_pmp_access_ok for an access of effective privilege machine / not
   machine: the lowest-numbered overlapping entry decides, and decides for
   machine mode only if it is locked. *)
PmpAccessOk(cfg, addr, machine, start, size, perm) ==
    LET hit == Overlapping(cfg, addr, start, size)
        i   == CHOOSE k \in hit : \A m \in hit : k <= m
    IN  IF hit = {} THEN machine
        ELSE (machine /\ ~cfg[i].l) \/ perm \in cfg[i].perm

-----------------------------------------------------------------------------
(* csr_write of pmpcfg0 (all eight entries at once) and of a pmpaddr. *)

\* Mutant: a write of pmpcfg changes locked entries too.
WritePmpCfg_IgnoresLock(new) ==
    csr_pmpcfg' = [i \in Entry |-> new[i]] /\ UNCHANGED csr_pmpaddr

WritePmpCfg(new) ==
    /\ csr_pmpcfg' = [i \in Entry |-> IF csr_pmpcfg[i].l THEN csr_pmpcfg[i] ELSE new[i]]
    /\ UNCHANGED csr_pmpaddr

\* Mutant: the bottom of a locked TOR region can be moved.
PmpAddrLocked_OwnOnly(i) == csr_pmpcfg[i].l

\* Entry i is locked, or is the bottom of a locked TOR region.
PmpAddrLocked(i) ==
    \/ csr_pmpcfg[i].l
    \/ (i + 1) \in Entry /\ csr_pmpcfg[i + 1].a = "TOR" /\ csr_pmpcfg[i + 1].l

WritePmpAddr(i, val) ==
    /\ csr_pmpaddr' = IF PmpAddrLocked(i) THEN csr_pmpaddr
                      ELSE [csr_pmpaddr EXCEPT ![i] = val % 2^AddrBits]
    /\ UNCHANGED csr_pmpcfg

PmpNext ==
    \/ \E new \in [Entry -> CfgVal] : WritePmpCfg(new)
    \/ \E i \in Entry, val \in AddrVal : WritePmpAddr(i, val)

PmpSpec == PmpInit /\ [][PmpNext]_pmpVars

-----------------------------------------------------------------------------
Locked(cfg) == {i \in Entry : cfg[i].l}

(* A locked entry keeps its permissions and its region until reset, although
   the region of a TOR entry depends on the pmpaddr of the entry below: "the PMP
   registers themselves are locked, so that even M-mode software cannot change
   them without a system reset" (src/riscv_cpu.cpp:240). *)
LockedStaysPut ==
    [][\A i \in Locked(csr_pmpcfg) :
          /\ csr_pmpcfg'[i] = csr_pmpcfg[i]
          /\ csr_pmpcfg[i].a # "OFF" =>
                Region(csr_pmpcfg', csr_pmpaddr', i) = Region(csr_pmpcfg, csr_pmpaddr, i)
      ]_pmpVars

\* Entry i denies word w to machine mode, and only locked ones come before it.
DeniedBy(cfg, addr, i, w, perm) ==
    /\ perm \notin cfg[i].perm
    /\ i \in Overlapping(cfg, addr, w, 1)
    /\ \A k \in 0 .. i - 1 : cfg[k].l /\ k \notin Overlapping(cfg, addr, w, 1)

(* What machine mode may do never grows: a word that a locked entry denies to it,
   with no unlocked entry of higher priority, stays denied by that entry.  (An
   unlocked entry of higher priority can always be put over a locked one.) *)
MachineDenialIsForever ==
    [][\A i \in Locked(csr_pmpcfg), w \in AddrVal, perm \in {"R", "W", "X"} :
          DeniedBy(csr_pmpcfg, csr_pmpaddr, i, w, perm)
             => /\ ~PmpAccessOk(csr_pmpcfg, csr_pmpaddr, TRUE, w, 1, perm)
                /\ i \in Locked(csr_pmpcfg')
                /\ DeniedBy(csr_pmpcfg', csr_pmpaddr', i, w, perm)
      ]_pmpVars
==============================================================================
