----------------------------- MODULE Simulation -----------------------------
(* The main loop around the interpreter: iterate_core with its limits, the two ways to
   switch the instruction trace (STF) on and off, the trace itself, and the ways the
   simulation ends.  One hart, no co-simulation. *)
EXTENDS Interp

CONSTANTS Request,      \* n_cycles_request
          MaxInsns,     \* --maxinsns
          ExeTrace,     \* --exe_trace: instructions before the log begins
          StfModes,     \* of "off", "macro" (opcodes) and "number" (instruction numbers)
          StfStart, StfLength,
          StfPrivs,     \* of 0 .. 3: the highest privilege that --stf_priv_modes includes
          HtifExit      \* a store to tohost may end the program

ASSUME SimulationAssumption ==
    /\ Request \in Nat \ {0} /\ MaxInsns \in Nat /\ ExeTrace \in Nat
    /\ StfModes \subseteq {"off", "macro", "number"} /\ StfStart \in Nat /\ StfLength \in Nat
    /\ StfPrivs \subseteq 0 .. 3
    /\ HtifExit \in BOOLEAN

VARIABLES mode,         \* how the trace is switched: stf_trace, stf_insn_num_tracing
          exit_on_stop, \* stf_exit_on_stop_opc
          phase,        \* "top", "running" or "halt"
          last_pc,      \* of iterate_core
          turn_priv,    \* its priv: the privilege when the turn began
          highest,      \* stf_highest_priv_mode
          prog_asid,    \* stf_prog_asid: bits 4 to 19 of satp when the trace was opened
          maxinsns, exe_trace, num_executed,
          active,       \* stf_macro_tracing_active or stf_insn_tracing_active
          is_start, is_stop,
          num_traced, exit_pending,
          mem,          \* stf_mem_reads and stf_mem_writes: by which attempt
          trace         \* the records: position, accesses, and how many had retired

simVars == <<mode, exit_on_stop, phase, last_pc, turn_priv, highest, prog_asid, maxinsns, exe_trace, num_executed, active,
             is_start, is_stop, num_traced, exit_pending, mem, trace>>
simulation == <<cpuVars, simVars>>

SimInit ==
    /\ mode \in StfModes /\ exit_on_stop \in BOOLEAN
    /\ phase = "top" /\ last_pc = 1 /\ turn_priv = PRV_M
    /\ highest \in StfPrivs /\ prog_asid = 0
    /\ maxinsns = MaxInsns /\ exe_trace = ExeTrace /\ num_executed = 0
    /\ active = FALSE /\ is_start = FALSE /\ is_stop = FALSE
    /\ num_traced = 0 /\ exit_pending = FALSE /\ mem = {} /\ trace = <<>>

SimulationInit == InterpInit /\ SimInit

-----------------------------------------------------------------------------
(* iterate_core, up to the call *)

\* stf_trace_trigger_insn, with stf_trace_open.
InsnTrigger ==
    LET start == mode = "number" /\ ~active /\ num_executed = StfStart
        stop == mode = "number" /\ active /\ num_traced = StfLength
    IN  /\ active' = ((active \/ start) /\ ~stop)
        /\ prog_asid' = IF start THEN satp ELSE prog_asid
        /\ exit_pending' = (exit_pending \/ (stop /\ exit_on_stop))
        /\ terminate' = (terminate \/ (stop /\ exit_on_stop))

Throttled(tracing) == IF tracing THEN 1 ELSE Request

\* Mutant: the turn that meets the end of the silent stretch runs what is left of it.
CyclesFor_Rest(m) == IF exe_trace < m THEN exe_trace ELSE m

\* One instruction at a time once the log is on.
CyclesFor(m) == IF exe_trace < m THEN 1 ELSE m

\* Mutant: a turn is charged as one instruction.
Charge_Turn(m) == 1

Charge(m) == m

IterateCore ==
    /\ phase = "top"
    /\ InsnTrigger
    /\ last_pc' = pc /\ turn_priv' = priv
    /\ LET m == CyclesFor(Throttled(active'))
       IN  /\ exe_trace' = IF exe_trace < Throttled(active') THEN exe_trace ELSE exe_trace - m
           /\ num_executed' = num_executed + m
           /\ maxinsns' = IF maxinsns < m THEN 0 ELSE maxinsns - Charge(m)
           /\ IF maxinsns' = 0
              THEN /\ phase' = "halt"
                   /\ UNCHANGED <<prog, pc, mepc, priv, mpp, satp, irq, trapped, exc, info,
                                  insn_counter, minstret, call, done>>
              ELSE phase' = "running" /\ Enter(m)
    /\ UNCHANGED <<mode, exit_on_stop, highest, is_start, is_stop, num_traced, mem, trace>>

-----------------------------------------------------------------------------
(* The call, with the trigger at the foot of its loop *)

\* stf_trace_trigger for the instruction just executed, with stf_trace_open.
MacroTrigger(insn) ==
    LET start == ~active /\ insn = "start"
        stop == active /\ insn = "stop"
    IN  IF mode # "macro"
        THEN UNCHANGED <<active, prog_asid, is_start, is_stop, exit_pending, terminate>>
        ELSE /\ is_start' = (insn = "start")
             /\ is_stop' = (insn = "stop")
             /\ active' = ((active \/ start) /\ ~stop)
             /\ prog_asid' = IF start THEN satp ELSE prog_asid
             /\ exit_pending' = (exit_pending \/ (stop /\ exit_on_stop))
             /\ terminate' = (terminate \/ (stop /\ exit_on_stop))

\* With the trace on the interpreter returns after the instruction.
Leaves == mode = "macro" /\ active'

\* track_dread and track_write.
Track(accesses) ==
    mem' = IF accesses /\ mode = "macro" /\ active /\ priv <= highest
           THEN mem \cup {[pc |-> pc, at |-> Len(done)]} ELSE mem

Unmoved == UNCHANGED <<mode, exit_on_stop, phase, last_pc, turn_priv, highest, maxinsns, exe_trace,
                       num_executed, num_traced, trace>>

Foot ==
    /\ phase = "running" /\ Fetched
    /\ MacroTrigger(Insn(pc))
    /\ Straight(Leaves) \/ Csr(Leaves)
    /\ Track(Insn(pc) \in {"load", "amo"})
    /\ Unmoved

\* An amo whose write faults has done its read.
Faults == phase = "running" /\ AccessFault /\ Track(exc' = "store")

Ends ==
    /\ phase = "running"
    /\ \/ EntryCheck \/ OutOfCycles \/ LoopInterrupt \/ Breakpoint \/ TrapInsn \/ CsrExit
       \/ CsrIllegal \/ Wfi \/ Mret \/ Drop
    /\ UNCHANGED mem

Elsewhere ==
    /\ Faults \/ Ends
    /\ UNCHANGED <<active, prog_asid, is_start, is_stop, exit_pending>>
    /\ Unmoved

-----------------------------------------------------------------------------
(* After the call: virt_machine_run's verdict, the trace record, the next turn *)

\* Mutant: the test for an instruction that was not executed is left out.
Skipped_Never == FALSE

\* Mutant: a jump is taken for an instruction that was not executed.
Skipped_Jumps == pc # After(last_pc)

\* An instruction that neither jumped nor fell through leaves no record.
Skipped == info = "nop" /\ pc # After(last_pc)

\* Mutant: the accesses of an instruction without a record are kept.
MemAfter_Kept == IF Skipped THEN mem ELSE {}

MemAfter == {}

stf_emit_memory_records == mem

\* Mutant: the privilege is the one the instruction has left.
Traceable_After == priv <= highest /\ exc = None /\ prog_asid = satp

\* The privilege is the one the turn began in, satp the one it has left.
Traceable == turn_priv <= highest /\ exc = None /\ prog_asid = satp

stf_trace_element ==
    IF active /\ (mode = "number" \/ (~is_start /\ ~is_stop))
    THEN /\ num_traced' = IF Traceable THEN num_traced + 1 ELSE num_traced
         /\ trace' = IF Traceable /\ ~Skipped
                     THEN Append(trace, [pc |-> last_pc, mem |-> stf_emit_memory_records, n |-> Len(done)])
                     ELSE trace
         /\ mem' = MemAfter
    ELSE UNCHANGED <<num_traced, trace, mem>>

\* The value of virt_machine_run: whether to keep going.
KeepGoing(tohost) == ~tohost /\ ~terminate /\ maxinsns > 0

EndOfTurn ==
    /\ phase = "running" /\ ~call.busy
    /\ stf_trace_element
    /\ \E tohost \in IF HtifExit THEN BOOLEAN ELSE {FALSE} :
          phase' = IF KeepGoing(tohost) /\ ~exit_pending THEN "top" ELSE "halt"
    /\ UNCHANGED <<cpuVars, mode, exit_on_stop, last_pc, turn_priv, highest, prog_asid, maxinsns, exe_trace,
                   num_executed, active, is_start, is_stop, exit_pending>>

DeviceRaises == phase # "halt" /\ Raise /\ UNCHANGED simVars

Halted == phase = "halt" /\ UNCHANGED simulation

SimulationNext == IterateCore \/ Foot \/ Elsewhere \/ EndOfTurn \/ DeviceRaises \/ Halted

Fairness == WF_simulation(IterateCore \/ Foot \/ Elsewhere \/ EndOfTurn)

SimulationSpec == SimulationInit /\ [][SimulationNext]_simulation /\ Fairness

-----------------------------------------------------------------------------
(* Properties *)

\* Between calls insn_counter is the number of instructions retired, whatever ended the
\* calls: cycles used up, an interrupt at either check, a cancelled instruction, an ecall.
\* (A call the opcode trace returns from leaves the counters as they were.)
CounterExact == (~call.busy /\ mode # "macro") => insn_counter = Len(done)

\* Every record of the trace is an instruction that retired, each one once and in the
\* order of execution, in a privilege that the trace includes: an instruction that an
\* interrupt or a fault stopped has none.
RecordsAreRetired ==
    /\ \A i \in DOMAIN trace : /\ trace[i].n \in DOMAIN done
                               /\ done[trace[i].n].pc = trace[i].pc
                               /\ done[trace[i].n].priv <= highest
    /\ \A i \in 2 .. Len(trace) : trace[i - 1].n < trace[i].n

\* Between the start opcode and p only instructions that leave the loop before its foot.
AfterStart(p) ==
    \E s \in 1 .. p - 1 : /\ Insn(s) = "start"
                          /\ \A q \in s + 1 .. p - 1 : Insn(q) \in {"wfi", "csrexit", "drop"}

\* The memory accesses of a record are those of its instruction, and of the attempt that
\* completed.  One case is excepted, which the code does not handle: an amo whose write
\* faults, and which is the first after the start opcode to come to the foot of the loop;
\* stf_is_start_opc is stale, and the read joins a later record.
AccessesAreOwn ==
    \A i \in DOMAIN trace : \A x \in trace[i].mem :
       x.at + 1 = trace[i].n \/ (Insn(x.pc) = "amo" /\ AfterStart(x.pc))

\* From its first record to its last, a trace by instruction numbers leaves out only
\* ecalls, returns from a handler, what ran in a higher privilege than the trace includes,
\* and what left another satp than the one the trace was opened with.
NothingLeftOut ==
    (mode = "number" /\ trace # <<>>) =>
        \A k \in trace[1].n .. trace[Len(trace)].n :
            \/ \E i \in DOMAIN trace : trace[i].n = k
            \/ Insn(done[k].pc) \in {"ecall", "shutdown", "mret"}
            \/ done[k].priv > highest \/ done[k].satp # prog_asid

\* The trace is the execution, for every way to switch it on and off: its records are
\* retired instructions with their own accesses, and none is left out of a trace by numbers
\* but an ecall, a return, and what its two filters exclude, the privilege and the bits of
\* satp it takes for the address space (stf_trace_element).
TraceIsExecution == RecordsAreRetired /\ AccessesAreOwn /\ NothingLeftOut

\* No more instructions retire than --maxinsns allows, in turns of one or of many.
BudgetRespected == Len(done) <= MaxInsns /\ Len(done) <= num_executed

\* The simulation ends: every turn uses up part of the budget, one that retires nothing
\* included.
Terminates == <>(phase = "halt")

=============================================================================
