-------------------------------- MODULE Cosim --------------------------------
(* Co-simulation: a device under test (DUT) runs the program and reports its traps
   (majordomo_cosim_raise_trap) and the instructions it retires
   (majordomo_cosim_step); the emulator follows, copies what it cannot know and
   compares the rest.  The DUT is external and correct: it takes interrupts when it
   likes, its device reads and counters return anything, its SC may fail.  It may
   also make one mistake: a wrong result, or a wrong cause of an exception.  As in
   majordomo_cosim_test every step is checked and an ECALL is not reported as a
   trap.

   Addresses 0 .. UserSize - 1 hold a user program that runs in a circle; exceptions
   go to a supervisor handler, interrupts to a machine handler. *)
EXTENDS Integers, Sequences

CONSTANTS UserSize,
          UserInsn,     \* the kinds of instructions of user programs
          Irq           \* the interrupts the DUT takes

UserKind == {"base", "load", "csr", "lr", "sc", "ecall", "fault"}

ASSUME CosimAssumption ==
    UserSize \in Nat \ {0} /\ UserInsn \subseteq UserKind /\ Irq \subseteq {7, 11}

None == -1
MTIP == 7
MEIP == 11
Ram == 0                \* what the base register can point to
Dev == 1
ILLEGAL == 2            \* the exception of a "fault"
BREAKPOINT == 3         \* another one
USER_ECALL == 8

SHandler == UserSize
MHandler == UserSize + 2

\* The handlers: skip the instruction and return; quiet the timer and return.
Code(user) ==
    [a \in 0 .. UserSize + 3 |->
        IF a < UserSize THEN user[a] ELSE <<"skip", "sret", "ack", "mret">>[a - UserSize + 1]]

VARIABLES
    prog,
    dut, emu,           \* the architectural states
    mip,                \* of the emulator
    pending_interrupt, pending_exception,
    call,               \* the arguments of the running majordomo_cosim_step, or Idle
    verdict,            \* "ok" or "mismatch": the step's exit code
    wrong               \* history: the DUT's mistake: "no", "value" or "cause"

vars == <<prog, dut, emu, mip, pending_interrupt, pending_exception, call, verdict, wrong>>

Idle == [busy |-> FALSE]
Bit == {0, 1}

Init ==
    /\ prog \in {Code(user) : user \in [0 .. UserSize - 1 -> UserInsn]}
    /\ dut = [pc |-> 0, priv |-> "U", base |-> Ram, x |-> 0, mem |-> 0, resv |-> FALSE,
              sepc |-> 0, mepc |-> 0, mpp |-> "U", scause |-> None, mcause |-> None]
    /\ emu = dut
    /\ mip = {} /\ pending_interrupt = None /\ pending_exception = None
    /\ call = Idle /\ verdict = "ok" /\ wrong = "no"

-----------------------------------------------------------------------------
(* What an instruction does: v is what a device or a counter returns, and ok
   whether an SC succeeds. *)

NextPc(a) == IF a = UserSize - 1 THEN 0 ELSE a + 1

Step(s, insn, v, ok) ==
    LET next == [s EXCEPT !.pc = NextPc(@)]
        loaded == IF s.base = Ram THEN s.mem ELSE v
    IN  CASE insn = "base"  -> [next EXCEPT !.base = 1 - @]
          [] insn = "load"  -> [next EXCEPT !.x = loaded]
          [] insn = "csr"   -> [next EXCEPT !.x = v]
          [] insn = "lr"    -> [next EXCEPT !.x = s.mem, !.resv = TRUE]
          [] insn = "sc"    -> IF ok THEN [next EXCEPT !.x = 0, !.mem = 1 - @, !.resv = FALSE]
                                     ELSE [next EXCEPT !.x = 1]
          [] insn = "ecall" -> [s EXCEPT !.pc = SHandler, !.priv = "S",
                                         !.sepc = s.pc, !.scause = USER_ECALL]
          [] insn = "skip"  -> [next EXCEPT !.sepc = NextPc(@)]
          [] insn = "sret"  -> [s EXCEPT !.pc = s.sepc, !.priv = "U"]
          [] insn = "ack"   -> next
          [] insn = "mret"  -> [s EXCEPT !.pc = s.mepc, !.priv = s.mpp, !.mpp = "U"]

\* The register an instruction writes, None for those that write none.
Written(s, insn) ==
    CASE insn = "base" -> s.base
      [] insn \in {"load", "csr", "lr", "sc"} -> s.x
      [] OTHER -> None

EnterException(s) ==
    [s EXCEPT !.pc = SHandler, !.priv = "S", !.sepc = s.pc, !.scause = ILLEGAL]

EnterInterrupt(s, irq) ==
    [s EXCEPT !.pc = MHandler, !.priv = "M", !.mpp = s.priv, !.mepc = s.pc, !.mcause = irq]

Interruptible(s) == s.priv # "M"

-----------------------------------------------------------------------------
(* The DUT and majordomo_cosim_raise_trap *)

DutInterrupt(irq) ==
    /\ verdict = "ok" /\ call = Idle /\ Interruptible(dut)
    /\ dut' = EnterInterrupt(dut, irq)
    /\ pending_interrupt' = irq
    /\ UNCHANGED <<prog, emu, mip, pending_exception, call, verdict, wrong>>

\* The DUT may also report the wrong cause.
DutException(cause) ==
    /\ verdict = "ok" /\ call = Idle /\ prog[dut.pc] = "fault"
    /\ cause # ILLEGAL => wrong = "no"
    /\ dut' = EnterException(dut)
    /\ pending_exception' = cause
    /\ wrong' = IF cause # ILLEGAL THEN "cause" ELSE wrong
    /\ UNCHANGED <<prog, emu, mip, pending_interrupt, call, verdict>>

Call(pc, insn, wdata) == call' = [busy |-> TRUE, pc |-> pc, insn |-> insn, wdata |-> wdata]

\* Register-less instructions report 0.
Data(s, insn) == IF Written(s, insn) = None THEN 0 ELSE Written(s, insn)

DutRetire(v, ok) ==
    LET insn == prog[dut.pc] IN
    /\ verdict = "ok" /\ call = Idle /\ insn # "fault"
    /\ ok => insn = "sc" /\ dut.resv
    \* An SC ends the reservation whether it succeeds or not.
    /\ dut' = [Step(dut, insn, v, ok) EXCEPT !.resv = @ /\ insn # "sc"]
    /\ Call(dut.pc, insn, Data(dut', insn))
    /\ UNCHANGED <<prog, emu, mip, pending_interrupt, pending_exception, verdict, wrong>>

\* The DUT computes a wrong value where the emulator knows the right one.
DutMistake ==
    LET insn == prog[dut.pc] IN
    /\ verdict = "ok" /\ call = Idle /\ wrong = "no"
    /\ insn \in {"base", "lr"} \/ (insn = "load" /\ dut.base = Ram)
    /\ dut' = Step(dut, insn, 0, FALSE)
    /\ Call(dut.pc, insn, 1 - Data(dut', insn))
    /\ wrong' = "value"
    /\ UNCHANGED <<prog, emu, mip, pending_interrupt, pending_exception, verdict>>

-----------------------------------------------------------------------------
(* majordomo_cosim_step *)

\* get_irq_num, for the interrupts of the model.
Highest(irqs) == CHOOSE i \in irqs : \A j \in irqs : i >= j

\* riscv_cpu_interp64(s, 1), with the interrupts ip: the new state, and whether an
\* instruction was executed.
Interp(s, ip) ==
    LET insn == prog[s.pc] IN
    IF ip # {} /\ pending_interrupt # None /\ Interruptible(s)
    THEN [state |-> EnterInterrupt(s, Highest(ip)), executed |-> FALSE]
    ELSE IF insn = "fault"
    THEN [state |-> EnterException(s), executed |-> FALSE]
    ELSE [state |-> Step(s, insn, 0, s.resv), executed |-> TRUE]

ScFailed(insn) ==
    emu.pc = call.pc /\ insn = call.insn /\ insn = "sc" /\ call.wdata # 0

\* Mutant: counters are not copied from the DUT.
handle_dut_overrides_NoCsr(s, insn) ==
    IF insn = "load" /\ emu.base = Dev THEN [s EXCEPT !.x = call.wdata] ELSE s

\* Integer loads from devices and reads of counters, with the base register as it
\* was before the instruction (riscv_get_reg_previous).
handle_dut_overrides(s, insn) ==
    IF insn = "csr" \/ (insn = "load" /\ emu.base = Dev)
    THEN [s EXCEPT !.x = call.wdata] ELSE s

\* Mutant: the data is not compared.
Matches_NoData(s, insn) == emu.pc = call.pc /\ insn = call.insn

Matches(s, insn) ==
    /\ emu.pc = call.pc /\ insn = call.insn
    /\ Written(s, insn) # None => Written(s, insn) = call.wdata

\* The step ends with the emulator in state s: overrides, comparison.
Finish(s, insn) ==
    LET t == handle_dut_overrides(s, insn) IN
    /\ emu' = t
    /\ verdict' = IF Matches(t, insn) THEN "ok" ELSE "mismatch"
    /\ call' = Idle

\* A store to the timer comparator lowers MTIP, nothing lowers MEIP.
Ack(insn, ip) == IF insn = "ack" THEN ip \ {MTIP} ELSE ip

Forget == pending_exception' = None /\ pending_interrupt' = None

\* The DUT's interrupt came right after an exception: go into the exception first.
Racing == pending_interrupt # None /\ pending_exception # None
Raced == IF Racing THEN Interp(emu, mip).state ELSE emu
RaceLost == Racing /\ (IF Raced.priv = "S" THEN Raced.scause ELSE Raced.mcause) # pending_exception

RaisedMip == IF pending_interrupt = None THEN mip ELSE mip \cup {pending_interrupt}

\* Mutant: the emulator executes the SC as well.
FailedSc_Stores == [emu EXCEPT !.x = call.wdata, !.pc = NextPc(@), !.mem = 1 - @]

FailedSc == [emu EXCEPT !.x = call.wdata, !.pc = NextPc(@)]

\* One turn of the loop in majordomo_cosim_step.
CopyScFailure ==
    LET insn == prog[emu.pc] IN
    /\ call # Idle /\ ScFailed(insn)
    /\ Finish(FailedSc, insn)
    /\ UNCHANGED <<prog, dut, mip, pending_interrupt, pending_exception, wrong>>

GiveUp ==
    /\ call # Idle /\ ~ScFailed(prog[emu.pc]) /\ RaceLost
    /\ emu' = Raced /\ verdict' = "mismatch" /\ call' = Idle
    /\ UNCHANGED <<prog, dut, mip, pending_interrupt, pending_exception, wrong>>

Execute ==
    LET insn == prog[emu.pc]
        r == Interp(Raced, RaisedMip)
    IN
    /\ call # Idle /\ ~ScFailed(insn) /\ ~RaceLost
    /\ r.executed
    /\ Finish(r.state, insn)
    /\ mip' = Ack(prog[Raced.pc], RaisedMip)
    /\ UNCHANGED <<prog, dut, pending_interrupt, pending_exception, wrong>>

TakeTrap ==
    LET r == Interp(Raced, RaisedMip) IN
    /\ call # Idle /\ ~ScFailed(prog[emu.pc]) /\ ~RaceLost
    /\ ~r.executed
    /\ emu' = r.state /\ mip' = RaisedMip
    /\ Forget
    /\ UNCHANGED <<prog, dut, call, verdict, wrong>>

Next ==
    \/ \E irq \in Irq : DutInterrupt(irq)
    \/ \E cause \in {ILLEGAL, BREAKPOINT} : DutException(cause)
    \/ DutMistake
    \/ \E v \in Bit, ok \in BOOLEAN : DutRetire(v, ok)
    \/ CopyScFailure \/ GiveUp \/ Execute \/ TakeTrap

Spec == Init /\ [][Next]_vars

-----------------------------------------------------------------------------
(* A DUT that makes no mistake is never reported, whenever it takes its timer
   interrupt, whatever its devices and counters return and whichever of its SCs
   fail (exit_code of majordomo_cosim_step); and between steps, with no trap
   outstanding, the emulator is in the state of the DUT: registers, memory, privilege,
   trap registers, and a reservation wherever the DUT holds one.  For two kinds of
   interrupt it fails, with InterruptFollowed. *)
FollowsDut ==
    wrong = "no" =>
        /\ verdict = "ok"
        /\ call = Idle /\ pending_interrupt = None /\ pending_exception = None =>
              /\ [emu EXCEPT !.resv = dut.resv] = dut
              /\ dut.resv => emu.resv

(* A wrong result is reported by the step that retires it: none of the overrides
   hides it (handle_dut_overrides, the final comparison). *)
MistakeReported == wrong = "value" /\ call = Idle => verdict = "mismatch"

(* "There are a number of situations where the model cannot match the DUT, such as
   loads from IO devices, interrupts, and CSRs cycle, time, and instret.  For all
   these cases the model will override with the expected values."  For interrupts:
   in the handler the emulator has the cause the DUT has. *)
InterruptFollowed ==
    wrong = "no" /\ call = Idle /\ pending_interrupt = None => emu.mcause = dut.mcause
==============================================================================
