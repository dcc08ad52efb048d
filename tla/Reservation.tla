----------------------------- MODULE Reservation -----------------------------
(* What load-reserved / store-conditional promises to the harts of a machine,
   said without sequence numbers: a hart holds a reservation or it does not; a
   store to memory by another hart takes it away; a store of its own does not;
   a successful SC uses it up, a failed one leaves it alone.  The comment at
   include/riscv_cpu.h:302 is the requirement; LrSc is the implementation. *)

CONSTANTS Hart,    \* the harts of the machine
          Ram,     \* the addresses backed by memory
          Mmio,    \* the addresses that are not (devices, holes)
          NoAddr   \* no reservation

VARIABLES resv     \* resv[h]: the address hart h has reserved, or NoAddr

Addr == Ram \cup Mmio

\* A machine starts with every field of a hart zeroed (calloc): address 0 counts
\* as reserved.
Init == resv = [h \in Hart |-> 0]

LoadReserved(h, a) == resv' = [resv EXCEPT ![h] = a]

\* A store reaches memory: every other hart loses its reservation.
Store(h, a) ==
    /\ a \in Ram
    /\ resv' = [g \in Hart |-> IF g = h THEN resv[g] ELSE NoAddr]

StoreConditional(h, a) ==
    /\ resv[h] = a
    /\ resv' = [g \in Hart |-> IF g = h \/ a \in Ram THEN NoAddr ELSE resv[g]]

Next == \E h \in Hart, a \in Addr :
            LoadReserved(h, a) \/ Store(h, a) \/ StoreConditional(h, a)

Spec == Init /\ [][Next]_resv
==============================================================================
