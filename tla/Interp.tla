------------------------------- MODULE Interp -------------------------------
(* riscv_cpu_interp64: one call runs up to n_cycles instructions and keeps the counters.

   An instruction is its kind, a program a sequence of kinds; every instruction has the
   width of one position.  Traps are taken in machine mode, where the
   handler is one mret.  What
   an instruction computes is left to the modules IntOps, IsaUnit and FpUnit. *)
EXTENDS Integers, Sequences

CONSTANTS Progs,       \* the programs: sequences of kinds
          Handler,     \* the position of the handler
          CodePage,    \* positions of a page of code
          Tags         \* values of bits 4 to 19 of satp

\* "csrflush" writes satp; "drop" is an mret of the program itself, on to its next position.
Kind == {"op", "jump", "csr", "csrflush", "csrexit", "load", "amo", "ecall", "shutdown",
         "illegal", "wfi", "sfence", "drop", "start", "stop"}
None == "none"

PRV_U == 0
PRV_S == 1
PRV_M == 3

\* A program ends with a jump to its start, and the handler does not directly follow it.
ASSUME InterpAssumption ==
    /\ CodePage \in Nat \ {0} /\ Handler \in Nat /\ 0 \in Tags
    /\ \A p \in Progs : p \in Seq(Kind) /\ p # <<>> /\ p[Len(p)] = "jump" /\ Len(p) + 1 < Handler

VARIABLES prog,          \* the program
          pc, mepc,      \* s->pc and where mret goes
          priv, mpp,     \* the privilege, and the one mret goes to
          satp,          \* its bits 4 to 19
          irq,           \* an enabled interrupt is pending
          trapped,       \* interrupts are off: a handler runs
          exc,           \* s->pending_exception
          info,          \* s->info: "nop", or "taken" after a jump
          insn_counter, minstret,
          terminate,     \* s->terminate_simulation
          call,          \* the locals of the call in progress, or NoCall
          done           \* history: the retired instructions, each with its position, the
                         \* privilege it ran in and the satp it left

NoCall == [busy |-> FALSE, n |-> 0, addend |-> 0, start |-> 0, executed |-> 0, window |-> FALSE]

cpuVars == <<prog, pc, mepc, priv, mpp, satp, irq, trapped, exc, info, insn_counter, minstret,
             terminate, call, done>>

Insn(p) == IF p = Handler THEN "mret" ELSE prog[p]
After(p) == p + 1
SamePage(p, q) == p \div CodePage = q \div CodePage

InterpInit ==
    /\ prog \in Progs
    /\ pc = 1 /\ mepc = 1 /\ priv = PRV_M /\ mpp = PRV_U /\ satp = 0
    /\ irq = FALSE /\ trapped = FALSE
    /\ exc = None /\ info = "nop"
    /\ insn_counter = 0 /\ minstret = 0
    /\ terminate = FALSE /\ call = NoCall /\ done = <<>>

\* GET_INSN_COUNTER with n_cycles at its value where the call ends.
CounterAt(addend, n) == addend - n

\* the_end: the counters are brought up to date and the call returns.
TheEnd(addend, n) ==
    /\ insn_counter' = CounterAt(addend, n)
    /\ minstret' = minstret + insn_counter' - call.start
    /\ call' = NoCall

\* raise_interrupt and raise_exception2: on to the handler, interrupts off.
EnterHandler(from) ==
    /\ pc' = Handler /\ mepc' = from /\ trapped' = TRUE
    /\ priv' = PRV_M /\ mpp' = priv

\* The instruction at pc is complete.
Retire == done' = Append(done, [pc |-> pc, priv |-> priv, satp |-> satp'])

-----------------------------------------------------------------------------
(* Entry *)

\* With no cycles to run the call returns at once.
Enter(n) ==
    /\ ~call.busy
    /\ info' = "nop"
    /\ call' = IF n = 0 THEN NoCall
               ELSE [busy |-> TRUE, n |-> n, addend |-> insn_counter + n,
                     start |-> insn_counter, executed |-> -1, window |-> FALSE]
    /\ UNCHANGED <<prog, pc, mepc, priv, mpp, satp, irq, trapped, exc, insn_counter, minstret, done>>

\* The check for interrupts before the loop; executed is -1 until it has been made.
\* One taken here leaves pending_exception as the call before left it.
EntryCheck ==
    /\ call.busy /\ call.executed = -1
    /\ IF irq /\ ~trapped
       THEN /\ EnterHandler(pc)
            /\ TheEnd(call.addend - 1, call.n - 1)
            /\ UNCHANGED exc
       ELSE /\ exc' = None
            /\ call' = [call EXCEPT !.n = @ + 1, !.executed = 0]
            /\ UNCHANGED <<pc, mepc, priv, mpp, trapped, insn_counter, minstret>>
    /\ UNCHANGED <<prog, satp, irq, info, terminate, done>>

InLoop == call.busy /\ call.executed >= 0

-----------------------------------------------------------------------------
(* The loop.  n and executed are their values once the head has counted. *)

OutOfCycles ==
    /\ InLoop /\ call.n = 1
    /\ TheEnd(call.addend, 0)
    /\ UNCHANGED <<prog, pc, mepc, priv, mpp, satp, irq, trapped, exc, info, terminate, done>>

Ready == InLoop /\ call.n > 1
Left == call.n - 1

\* A new page or a jump: the code window is looked up again, after a second check for
\* interrupts.  The head has counted the instruction, and the result is not put right.
LoopInterrupt ==
    /\ Ready /\ ~call.window /\ irq /\ ~trapped
    /\ EnterHandler(pc)
    /\ TheEnd(call.addend, Left)
    /\ UNCHANGED <<prog, satp, irq, exc, info, terminate, done>>

Fetched == Ready /\ (call.window \/ ~irq \/ trapped)

\* Mutant: a cancelled instruction stays counted.
Cancelled_Counted(cause) == 0

\* An exception other than ecall takes the instruction back from the counters.
Cancelled(cause) == IF cause = "ecall" THEN 0 ELSE 1

Exception(cause) ==
    /\ exc' = cause
    /\ EnterHandler(pc)
    /\ TheEnd(call.addend - Cancelled(cause), Left - 1)
    /\ UNCHANGED <<prog, satp, irq, info>>
    /\ IF cause = "ecall" THEN Retire ELSE UNCHANGED done

\* goto done_interp with the instruction complete.
DoneInterp(to) ==
    /\ pc' = to
    /\ TheEnd(call.addend, Left - 1)
    /\ UNCHANGED <<prog, mepc, satp, exc, info, terminate>>
    /\ Retire

\* NEXT_INSN, and JUMP_INSN, which closes the window.  The trace trigger runs at
\* jump_insn: leave returns from there without touching the counters.
Continue(to, jumped, kind, leave) ==
    /\ pc' = to
    /\ info' = IF jumped THEN kind ELSE info
    /\ Retire
    /\ call' = IF leave THEN NoCall
               ELSE [call EXCEPT !.n = Left, !.executed = @ + 1,
                                 !.window = ~jumped /\ SamePage(pc, to)]
    /\ UNCHANGED <<prog, mepc, priv, mpp, irq, trapped, exc>>

\* check_triggers comes first, before the second check for interrupts.
Breakpoint == Ready /\ Exception("breakpoint") /\ UNCHANGED terminate

\* An access faults: the fetch, the read of a load or of an amo, or the amo's write.
FaultCauses(insn) ==
    {"fetch"} \cup (IF insn \in {"load", "amo"} THEN {"load"} ELSE {})
             \cup (IF insn = "amo" THEN {"store"} ELSE {})

AccessFault ==
    /\ Fetched
    /\ \E cause \in FaultCauses(Insn(pc)) : Exception(cause)
    /\ UNCHANGED terminate

\* An instruction that is none, or that the privilege forbids (with mstatus.TW and TVM clear).
Forbidden ==
    \/ Insn(pc) = "illegal"
    \/ Insn(pc) \in {"mret", "drop"} /\ priv < PRV_M
    \/ Insn(pc) \in {"wfi", "sfence"} /\ priv = PRV_U

\* An ecall in machine mode may ask for the end of the simulation.
TrapInsn ==
    /\ Fetched /\ (Insn(pc) \in {"ecall", "shutdown"} \/ Forbidden)
    /\ Exception(IF Forbidden THEN "illegal" ELSE "ecall")
    /\ terminate' = (terminate \/ (Insn(pc) = "shutdown" /\ priv = PRV_M))

\* The instructions that end at the foot of the loop.
Straight(leave) ==
    /\ Fetched /\ ~Forbidden
    /\ UNCHANGED <<satp, insn_counter, minstret>>
    /\ Insn(pc) \in {"op", "load", "amo", "start", "stop", "jump", "sfence"}
    /\ IF Insn(pc) = "jump" THEN Continue(1, TRUE, "taken", leave)
       ELSE Continue(After(pc), Insn(pc) = "sfence", "nop", leave)

\* A CSR instruction brings the counters up to date first: what the call has counted so
\* far is added to minstret here and once more at its end.
CsrCounters ==
    /\ insn_counter' = CounterAt(call.addend, Left)
    /\ minstret' = minstret + insn_counter' - call.start

\* A write to satp, for which user mode lacks the privilege, may change it.
Csr(leave) ==
    /\ Fetched /\ Insn(pc) \in {"csr", "csrflush"}
    /\ IF Insn(pc) = "csrflush" THEN priv >= PRV_S /\ satp' \in Tags ELSE UNCHANGED satp
    /\ CsrCounters
    /\ Continue(After(pc), Insn(pc) = "csrflush", "nop", leave)

\* A write that csr_write answers with 1 leaves the loop.
CsrExit ==
    /\ Fetched /\ Insn(pc) = "csrexit"
    /\ pc' = After(pc)
    /\ insn_counter' = CounterAt(call.addend, Left - 1)
    /\ minstret' = minstret + (CounterAt(call.addend, Left) - call.start)
                   + (insn_counter' - call.start)
    /\ call' = NoCall
    /\ UNCHANGED <<prog, mepc, priv, mpp, satp, irq, trapped, exc, info, terminate>>
    /\ Retire

\* An access the CSR file refuses is an illegal instruction after the counters.
CsrIllegal ==
    /\ Fetched /\ Insn(pc) \in {"csr", "csrflush", "csrexit"}
    /\ exc' = "illegal"
    /\ EnterHandler(pc)
    /\ insn_counter' = CounterAt(call.addend - 1, Left - 1)
    /\ minstret' = minstret + (CounterAt(call.addend, Left) - call.start)
                   + (insn_counter' - call.start)
    /\ call' = NoCall
    /\ UNCHANGED <<prog, satp, irq, info, terminate, done>>

\* The machine is not in co-simulation: wfi always powers down and goes on after it.
Wfi ==
    /\ Fetched /\ Insn(pc) = "wfi" /\ ~Forbidden
    /\ DoneInterp(After(pc))
    /\ UNCHANGED <<priv, mpp, irq, trapped>>

\* handle_mret, of the handler, which has served the interrupt,
Mret ==
    /\ Fetched /\ Insn(pc) = "mret" /\ ~Forbidden
    /\ DoneInterp(mepc)
    /\ priv' = mpp /\ mpp' = PRV_U
    /\ trapped' = FALSE /\ irq' = FALSE

\* and of the program, which has set up where to go and in which privilege.
Drop ==
    /\ Fetched /\ Insn(pc) = "drop" /\ ~Forbidden
    /\ DoneInterp(After(pc))
    /\ priv' \in {PRV_U, PRV_S} /\ mpp' = PRV_U
    /\ UNCHANGED <<irq, trapped>>

\* A device raises its line, within an instruction or between calls.
Raise ==
    /\ ~irq /\ irq' = TRUE
    /\ UNCHANGED <<prog, pc, mepc, priv, mpp, satp, trapped, exc, info, insn_counter, minstret,
                   terminate, call, done>>

=============================================================================
