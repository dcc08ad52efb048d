-------------------------------- MODULE LrSc --------------------------------
(* Load-reserved / store-conditional of the emulator, with several harts, the
   devices of the machine and the cosimulation interface all writing the same
   memory.  The code keeps one sequence number for the memory of the machine
   and one per hart; a reservation is good while the two agree. *)
EXTENDS Integers

CONSTANTS Hart,     \* the harts (RISCVMachine::cpu_state)
          Ram,      \* addresses of RAM ranges
          Mmio,     \* addresses of device ranges, or of no range
          NoAddr,   \* the value ~0 of load_res
          Agent,    \* writers of RAM that are not harts: virtio, cosim
          MaxSeq    \* the largest value of memseqno (2^64 - 1 in the code)

Addr == Ram \cup Mmio

ASSUME ConstantAssumption ==
    /\ Ram \cap Mmio = {}
    /\ NoAddr \notin Addr
    /\ Hart \cap Agent = {}
    /\ 0 \in Addr
    /\ MaxSeq \in Nat

VARIABLES
    memseqno,           \* RISCVMachine::memseqno
    load_res,           \* [Hart -> address], RISCVCPUState::load_res
    load_res_memseqno,  \* [Hart -> Nat]
    (* History, not in the code: *)
    since,              \* since[h]: who wrote RAM since the last LR of h
    lr,                 \* lr[h]: address of an LR of h not used up by an SC
    won                 \* won[h]: what held when the last SC of h succeeded

vars == <<memseqno, load_res, load_res_memseqno, since, lr, won>>

Outcome == [addr : Addr \cup {NoAddr}, writers : SUBSET (Hart \cup Agent),
            lr : Addr \cup {NoAddr}]

TypeOK ==
    /\ memseqno \in 0..MaxSeq
    /\ load_res \in [Hart -> Addr \cup {NoAddr}]
    /\ load_res_memseqno \in [Hart -> Nat]
    /\ since \in [Hart -> SUBSET (Hart \cup Agent)]
    /\ lr \in [Hart -> Addr \cup {NoAddr}]
    /\ won \in [Hart -> Outcome]

\* riscv_cpu_init and virt_machine_init allocate zeroed structures.
Init ==
    /\ memseqno = 0
    /\ load_res = [h \in Hart |-> 0]
    /\ load_res_memseqno = [h \in Hart |-> 0]
    /\ since = [h \in Hart |-> {}]
    /\ lr = [h \in Hart |-> NoAddr]
    /\ won = [h \in Hart |-> [addr |-> NoAddr, writers |-> {}, lr |-> NoAddr]]

\* History of a write of RAM by w.
Written(w) == since' = [g \in Hart |-> since[g] \cup {w}]

\* Mutant: a store forgets to advance the number of the memory.
SeqAfterWrite_NoGlobal(h, a) ==
    [mem |-> memseqno, own |-> load_res_memseqno[h]]

\* Mutant: a store advances the number of the memory only.
SeqAfterWrite_GlobalOnly(h, a) ==
    [mem |-> IF a \in Ram THEN memseqno + 1 ELSE memseqno, own |-> load_res_memseqno[h]]

(* The sequence numbers after target_write by h to a: both the TLB hit and the
   RAM branch of riscv_cpu_write_memory advance the memory's number and the
   number of the storing hart; a device or a hole advances neither. *)
SeqAfterWrite(h, a) ==
    IF a \in Ram
    THEN [mem |-> memseqno + 1, own |-> load_res_memseqno[h] + 1]
    ELSE [mem |-> memseqno, own |-> load_res_memseqno[h]]

\* lr.w / lr.d whose load does not trap.  A trapping load changes nothing here.
LoadReserved(h, a) ==
    /\ load_res' = [load_res EXCEPT ![h] = a]
    /\ load_res_memseqno' = [load_res_memseqno EXCEPT ![h] = memseqno]
    /\ since' = [since EXCEPT ![h] = {}]
    /\ lr' = [lr EXCEPT ![h] = a]
    /\ UNCHANGED <<memseqno, won>>

\* A store or the store of an AMO that does not trap.
Store(h, a) ==
    /\ a \in Ram => memseqno < MaxSeq
    /\ memseqno' = SeqAfterWrite(h, a).mem
    /\ load_res_memseqno' = [load_res_memseqno EXCEPT ![h] = SeqAfterWrite(h, a).own]
    /\ IF a \in Ram THEN Written(h) ELSE UNCHANGED since
    /\ UNCHANGED <<load_res, lr, won>>

\* The test of sc.w / sc.d.
Reserved(h, a) == load_res[h] = a /\ load_res_memseqno[h] = memseqno

(* sc.w / sc.d that finds its reservation and whose store does not trap.  When
   the test fails, when the store traps, and when the cosimulated DUT failed the
   SC, the code changes none of this state. *)
StoreConditional(h, a) ==
    /\ Reserved(h, a)
    /\ a \in Ram => memseqno < MaxSeq
    /\ memseqno' = SeqAfterWrite(h, a).mem
    /\ load_res' = [load_res EXCEPT ![h] = NoAddr]
    /\ load_res_memseqno' = [load_res_memseqno EXCEPT ![h] = 0]
    /\ IF a \in Ram THEN Written(h) ELSE UNCHANGED since
    /\ won' = [won EXCEPT ![h] = [addr |-> a, writers |-> since[h], lr |-> lr[h]]]
    /\ lr' = [lr EXCEPT ![h] = NoAddr]

(* A write of RAM that is not an instruction of a hart: virtio_memcpy_to_ram,
   virtio_write16/32, majordomo_cosim_override_mem.  None of
   them touches the sequence number. *)
AgentWrite(w) ==
    /\ Written(w)
    /\ UNCHANGED <<memseqno, load_res, load_res_memseqno, lr, won>>

Next ==
    \/ \E h \in Hart, a \in Addr :
           LoadReserved(h, a) \/ Store(h, a) \/ StoreConditional(h, a)
    \/ \E w \in Agent : AgentWrite(w)

Spec == Init /\ [][Next]_vars

-----------------------------------------------------------------------------
(* SC succeeds only if no other hart stored to memory since the LR (or since
   reset): "As long as the reservation tracks the global number, we know no
   other hart has written memory" (include/riscv_cpu.h:308). *)
ScAtomicAmongHarts == \A h \in Hart : won[h].writers \cap Hart \subseteq {h}

(* A successful SC follows an LR of the same hart to the same address that no
   earlier SC used up, except at address 0, which the zeroed structure makes
   reserved at reset. *)
ScUsesOwnLr == \A h \in Hart : won[h].addr = won[h].lr \/ won[h].addr = 0

(* An SC paired with an LR succeeds only if nothing but the hart itself wrote
   memory between the two:
   "enable SC to invalidate a load reservation if memory has been written by an
   external agent (including another hart)" (include/riscv_machine.h:93). *)
ScSeesExternalAgents ==
    \A h \in Hart : won[h].lr # NoAddr => won[h].writers \subseteq {h}

(* The reservations the sequence numbers stand for, and the specification of
   reservations they implement: storing harts invalidate all others at once. *)
Abs == INSTANCE Reservation
       WITH resv <- [h \in Hart |-> IF load_res_memseqno[h] = memseqno
                                    THEN load_res[h] ELSE NoAddr]
ImplementsReservation == Abs!Spec

(* Inductive strengthening: no reservation is ahead of memory, a hart with a
   foreign store since its LR is strictly behind, and an armed load_res is the
   address of an unused LR or the zero of reset. *)
IInv ==
    /\ TypeOK
    /\ \A h \in Hart :
        /\ load_res_memseqno[h] <= memseqno
        /\ load_res[h] # NoAddr /\ ~(since[h] \cap Hart \subseteq {h})
              => load_res_memseqno[h] < memseqno
        /\ load_res[h] # NoAddr => load_res[h] = lr[h] \/ load_res[h] = 0
    /\ ScAtomicAmongHarts
    /\ ScUsesOwnLr
=============================================================================
