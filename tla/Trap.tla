-------------------------------- MODULE Trap --------------------------------
(* Traps, interrupts and returns of one hart: the privilege, the stack of
   privileges and interrupt enables in mstatus, delegation, and WFI.  The hart is
   not cosimulated.  mip, mie and mideleg are sets of interrupt numbers. *)
EXTENDS Integers, FiniteSetsExt

CONSTANTS Irq,          \* interrupts that occur
          Pc,           \* code addresses
          Tvec,         \* the address mtvec and stvec hold
          MstatusVal    \* the values software writes to mstatus and sstatus

PRV_U == 0
PRV_S == 1
PRV_M == 3
Priv == 0 .. 3

Mstatus == [sie : BOOLEAN, mie : BOOLEAN, spie : BOOLEAN, mpie : BOOLEAN,
            spp : {PRV_U, PRV_S}, mpp : Priv]

\* The interrupts of supervisor level: SSIP, STIP, SEIP.
SupervisorIrq == {1, 5, 9} \cap Irq

ASSUME TrapAssumption ==
    /\ Irq \subseteq 0 .. 31 /\ Tvec \in Pc
    /\ MstatusVal \subseteq Mstatus

VARIABLES priv, pc, mstatus,
          mip, mie, mideleg,
          medeleg,      \* exceptions are delegated
          mepc, sepc,
          debug_mode, power_down,
          saved,        \* history: what the last trap to a level interrupted
          open          \* history: software enabled a level's interrupts since

hist == <<saved, open>>
trapVars == <<priv, pc, mstatus, mip, mie, mideleg, medeleg, mepc, sepc, debug_mode,
              power_down, hist>>

Level == {PRV_S, PRV_M}
Context == [priv : Priv, pc : Pc, ie : BOOLEAN]
NoContext == [priv |-> -1]

TrapTypeOK ==
    /\ priv \in Priv /\ pc \in Pc /\ mstatus \in Mstatus
    /\ mip \subseteq Irq /\ mie \subseteq Irq /\ mideleg \subseteq SupervisorIrq
    /\ medeleg \in BOOLEAN
    /\ mepc \in Pc /\ sepc \in Pc
    /\ debug_mode \in BOOLEAN /\ power_down \in BOOLEAN
    /\ saved \in [Level -> Context \cup {NoContext}]
    /\ open \in [Level -> BOOLEAN]

\* riscv_cpu_init; debug_mode is set by the loader when it starts from a boot ROM.
TrapInit ==
    /\ priv = PRV_M /\ pc \in Pc
    /\ mstatus = [sie |-> FALSE, mie |-> FALSE, spie |-> FALSE, mpie |-> FALSE,
                  spp |-> PRV_U, mpp |-> PRV_M]
    /\ mip = {} /\ mie = {} /\ mideleg = {} /\ medeleg = FALSE
    /\ mepc = Tvec /\ sepc = Tvec
    /\ debug_mode \in BOOLEAN /\ power_down = FALSE
    /\ saved = [x \in Level |-> NoContext]
    /\ open = [x \in Level |-> TRUE]

-----------------------------------------------------------------------------
(* Traps *)

\* Mutant: the interrupt enable is cleared before it is saved.
EnterM_Swapped == [mstatus EXCEPT !.mpie = FALSE, !.mpp = priv, !.mie = FALSE]

EnterM == [mstatus EXCEPT !.mpie = mstatus.mie, !.mpp = priv, !.mie = FALSE]

\* Mutant: a trap to supervisor mode leaves its interrupts enabled.
EnterS_KeepsSie == [mstatus EXCEPT !.spie = mstatus.sie, !.spp = priv]

EnterS == [mstatus EXCEPT !.spie = mstatus.sie, !.spp = priv, !.sie = FALSE]

Delegated(bit) == priv <= PRV_S /\ bit

\* raise_exception2 for a cause whose bit in medeleg / mideleg is given.
raise_exception2(bit) ==
    LET deleg == Delegated(bit)
        x     == IF deleg THEN PRV_S ELSE PRV_M
    IN  /\ mstatus' = IF deleg THEN EnterS ELSE EnterM
        /\ sepc' = IF deleg THEN pc ELSE sepc
        /\ mepc' = IF deleg THEN mepc ELSE pc
        /\ priv' = x
        /\ pc' = Tvec
        /\ saved' = [saved EXCEPT ![x] = [priv |-> priv, pc |-> pc,
                        ie |-> IF deleg THEN mstatus.sie ELSE mstatus.mie]]
        /\ open' = [open EXCEPT ![x] = FALSE]

Exception ==
    /\ raise_exception2(medeleg)
    /\ UNCHANGED <<mip, mie, mideleg, medeleg, debug_mode, power_down>>

\* get_pending_irq_mask
PendingMask ==
    LET pending == mip \cap mie IN
    IF priv = PRV_M THEN IF mstatus.mie THEN pending \ mideleg ELSE {}
    ELSE IF priv = PRV_S /\ ~mstatus.sie THEN pending \ mideleg
    ELSE pending

\* get_irq_num: local interrupts from the top, then the fixed order.
Order == <<11, 3, 7, 10, 2, 6, 9, 1, 5, 8, 0, 4>>

get_irq_num(mask) ==
    IF \E i \in mask : i >= 12 THEN Max(mask)
    ELSE Order[Min({n \in DOMAIN Order : Order[n] \in mask})]

\* raise_interrupt, at the start of a batch or at a fetch outside a window.
raise_interrupt ==
    /\ PendingMask # {}
    /\ raise_exception2(get_irq_num(PendingMask) \in mideleg)
    /\ UNCHANGED <<mip, mie, mideleg, medeleg, debug_mode, power_down>>

-----------------------------------------------------------------------------
(* Returns *)

handle_mret ==
    /\ priv = PRV_M
    /\ mstatus' = [mstatus EXCEPT !.mie = mstatus.mpie, !.mpie = TRUE, !.mpp = PRV_U]
    /\ priv' = mstatus.mpp
    /\ pc' = mepc
    /\ saved' = [saved EXCEPT ![PRV_M] = NoContext]
    /\ open' = [open EXCEPT ![PRV_M] = TRUE]
    /\ UNCHANGED <<mip, mie, mideleg, medeleg, mepc, sepc, debug_mode, power_down>>

\* TSR is left out: with it sret in S mode is an illegal instruction.
handle_sret ==
    /\ priv >= PRV_S
    /\ mstatus' = [mstatus EXCEPT !.sie = mstatus.spie, !.spie = TRUE, !.spp = PRV_U]
    /\ priv' = mstatus.spp
    /\ pc' = sepc
    /\ saved' = [saved EXCEPT ![PRV_S] = NoContext]
    /\ open' = [open EXCEPT ![PRV_S] = TRUE]
    /\ UNCHANGED <<mip, mie, mideleg, medeleg, mepc, sepc, debug_mode, power_down>>

\* dcsr.prv and dpc are whatever debug software wrote.
handle_dret(prv, dpc) ==
    /\ debug_mode /\ priv = PRV_M
    /\ debug_mode' = FALSE
    /\ priv' = prv /\ pc' = dpc
    /\ UNCHANGED <<mstatus, mip, mie, mideleg, medeleg, mepc, sepc, power_down, hist>>

\* check_triggers with a debug action: the batch ends without a trap, and the
\* pc it set to 0x800 is overwritten with GET_PC() at the label exception.
EnterDebug ==
    /\ ~debug_mode
    /\ debug_mode' = TRUE
    /\ UNCHANGED <<priv, pc, mstatus, mip, mie, mideleg, medeleg, mepc, sepc, power_down, hist>>

-----------------------------------------------------------------------------
(* CSR writes, devices, WFI *)

\* Contexts whose mstatus fields software changes are no longer the trap's.
SetMstatus(new) ==
    /\ mstatus' = new
    /\ saved' = [x \in Level |->
          IF x = PRV_M /\ (new.mpp # mstatus.mpp \/ new.mpie # mstatus.mpie) THEN NoContext
          ELSE IF x = PRV_S /\ (new.spp # mstatus.spp \/ new.spie # mstatus.spie)
               THEN NoContext ELSE saved[x]]
    /\ open' = [x \in Level |-> open[x] \/ IF x = PRV_M THEN new.mie ELSE new.sie]
    /\ UNCHANGED <<priv, pc, mip, mie, mideleg, medeleg, mepc, sepc, debug_mode, power_down>>

WriteMstatus(new) == priv = PRV_M /\ SetMstatus(new)

WriteSstatus(new) ==
    /\ priv >= PRV_S
    /\ SetMstatus([mstatus EXCEPT !.sie = new.sie, !.spie = new.spie, !.spp = new.spp])

WriteEpc(x, p) ==
    /\ priv >= x
    /\ mepc' = IF x = PRV_M THEN p ELSE mepc
    /\ sepc' = IF x = PRV_S THEN p ELSE sepc
    /\ saved' = [saved EXCEPT ![x] = NoContext]
    /\ UNCHANGED <<priv, pc, mstatus, mip, mie, mideleg, medeleg, debug_mode, power_down, open>>

Masked(old, new, mask) == (old \ mask) \cup (new \cap mask)

WriteMie(val) ==
    /\ \/ priv = PRV_M /\ mie' = val
       \/ priv >= PRV_S /\ mie' = Masked(mie, val, mideleg)
    /\ UNCHANGED <<priv, pc, mstatus, mip, mideleg, medeleg, mepc, sepc, debug_mode,
                   power_down, hist>>

\* CSR writes of mip and sip do not end power down.
WriteMip(val) ==
    /\ \/ priv = PRV_M /\ mip' = Masked(mip, val, SupervisorIrq)
       \/ priv >= PRV_S /\ mip' = Masked(mip, val, mideleg)
    /\ UNCHANGED <<priv, pc, mstatus, mie, mideleg, medeleg, mepc, sepc, debug_mode,
                   power_down, hist>>

WriteDeleg(val, e) ==
    /\ priv = PRV_M
    /\ mideleg' = val \cap SupervisorIrq
    /\ medeleg' = e
    /\ UNCHANGED <<priv, pc, mstatus, mip, mie, mepc, sepc, debug_mode, power_down, hist>>

riscv_cpu_set_mip(i) ==
    /\ mip' = mip \cup {i}
    /\ power_down' = (power_down /\ mip' \cap mie = {})
    /\ UNCHANGED <<priv, pc, mstatus, mie, mideleg, medeleg, mepc, sepc, debug_mode, hist>>

riscv_cpu_reset_mip(i) ==
    /\ mip' = mip \ {i}
    /\ UNCHANGED <<priv, pc, mstatus, mie, mideleg, medeleg, mepc, sepc, debug_mode,
                   power_down, hist>>

\* The test is (nothing pending && no injected interrupt) || !cosim.
Wfi(next) ==
    /\ priv # PRV_U
    /\ power_down' = TRUE
    /\ pc' = next
    /\ UNCHANGED <<priv, mstatus, mip, mie, mideleg, medeleg, mepc, sepc, debug_mode, hist>>

\* virt_machine_run runs the interpreter whatever power_down says.
Instruction(next) ==
    /\ pc' = next
    /\ UNCHANGED <<priv, mstatus, mip, mie, mideleg, medeleg, mepc, sepc, debug_mode,
                   power_down, hist>>

TrapNext ==
    \/ Exception \/ raise_interrupt
    \/ handle_mret \/ handle_sret
    \/ \E prv \in Priv, p \in Pc : handle_dret(prv, p)
    \/ EnterDebug
    \/ \E new \in MstatusVal : WriteMstatus(new) \/ WriteSstatus(new)
    \/ \E x \in Level, p \in Pc : WriteEpc(x, p)
    \/ \E val \in SUBSET Irq : \/ WriteMie(val) \/ WriteMip(val)
                               \/ \E e \in BOOLEAN : WriteDeleg(val, e)
    \/ \E i \in Irq : riscv_cpu_set_mip(i) \/ riscv_cpu_reset_mip(i)
    \/ \E p \in Pc : Wfi(p) \/ Instruction(p)

TrapSpec == TrapInit /\ [][TrapNext]_trapVars

-----------------------------------------------------------------------------
(* mret and sret restore what the last trap to their level interrupted: its
   privilege, its pc and the level's interrupt enable, whatever traps to the
   other level came between, unless software wrote the saved fields. *)
ReturnRestores ==
    [][/\ handle_mret /\ saved[PRV_M] # NoContext =>
              /\ priv' = saved[PRV_M].priv /\ pc' = saved[PRV_M].pc
              /\ mstatus'.mie = saved[PRV_M].ie
       /\ handle_sret /\ saved[PRV_S] # NoContext =>
              /\ priv' = saved[PRV_S].priv /\ pc' = saved[PRV_S].pc
              /\ mstatus'.sie = saved[PRV_S].ie]_trapVars

(* A handler is not interrupted by an interrupt of its own level before software
   enables the level again or returns: raise_exception2 clears the enable that
   get_pending_irq_mask looks at. *)
NoNestedInterrupt ==
    /\ priv = PRV_M /\ PendingMask # {} => open[PRV_M]
    /\ priv = PRV_S /\ PendingMask \cap mideleg # {} => open[PRV_S]
==============================================================================
