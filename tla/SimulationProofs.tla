-------------------------- MODULE SimulationProofs --------------------------
(* The main loop around the interpreter, for any programs, any number of cycles asked for
   in a turn, any limits and any way to switch the trace.

   What a step of a call does is first reduced to six outcomes: the check at entry passes,
   the cycles are used up, the hart is diverted to the handler, an ecall or another
   instruction leaves the loop, or an instruction comes to its foot.  The counters, the
   budget and the trace follow from these. *)
EXTENDS Simulation, TLAPS

Place == 1 .. Len(prog) \cup {Handler}
Call == [busy : BOOLEAN, n : Int, addend : Int, start : Int, executed : Int, window : BOOLEAN]
Access == [pc : Int, at : Int]
Entry == [pc : Int, priv : Int, satp : Tags]
Record == [pc : Int, mem : SUBSET Access, n : Int]

PrivShape == priv \in Int /\ mpp \in Int /\ satp \in Tags

\* What the variables range over.
SimShape ==
    /\ prog \in Progs /\ pc \in Place /\ mepc \in Place /\ last_pc \in Place
    /\ PrivShape /\ turn_priv \in Int /\ highest \in Int
    /\ call \in Call /\ insn_counter \in Int /\ done \in Seq(Entry)
    /\ call.busy => call.n >= 1 /\ call.executed >= -1
    /\ maxinsns \in Nat /\ num_executed \in Nat /\ exe_trace \in Nat
    /\ mem \subseteq Access /\ trace \in Seq(Record)

\* The instructions that the call in progress may still retire.
Rest == IF ~call.busy THEN 0 ELSE IF call.executed = -1 THEN call.n ELSE call.n - 1

\* The ways in which a step of the interpreter ends.
Returns(k) == call' = NoCall /\ call.busy /\ insn_counter' = call.addend - Rest + k

\* The check at entry finds nothing to do.
Checked ==
    /\ call.busy /\ call.executed = -1
    /\ call' \in Call /\ call'.busy /\ call'.n = call.n + 1 /\ call'.executed = 0
    /\ call'.addend = call.addend
    /\ exc' = None
    /\ UNCHANGED <<pc, mepc, priv, mpp, satp, info, done, insn_counter, mem>>

\* The cycles are used up.
Over ==
    /\ Rest = 0 /\ Returns(0)
    /\ UNCHANGED <<pc, mepc, priv, mpp, satp, info, exc, done, mem>>

\* On to the handler, before an instruction or because of it.
Diverted ==
    /\ Rest >= 1 /\ Returns(0) /\ pc' = Handler /\ mepc' = pc /\ priv' = PRV_M /\ mpp' = priv
    /\ UNCHANGED <<satp, info, done>>
    /\ \/ UNCHANGED <<exc, mem>>
       \/ exc' # None /\ Track(Insn(pc) = "amo" /\ exc' = "store")

\* An ecall counts as retired.
Called ==
    /\ Rest >= 1 /\ Returns(1) /\ Retire /\ pc' = Handler /\ mepc' = pc
    /\ priv' = PRV_M /\ mpp' = priv
    /\ Insn(pc) \in {"ecall", "shutdown"} /\ exc' # None
    /\ UNCHANGED <<satp, info, mem>>

\* An instruction that leaves the loop before its foot.
Finished ==
    /\ Rest >= 1 /\ call.executed >= 0 /\ Returns(1) /\ Retire
    /\ \/ pc' = After(pc) /\ Insn(pc) \in {"wfi", "csrexit", "drop"}
       \/ pc' = mepc /\ Insn(pc) = "mret"
    /\ priv' \in {priv, mpp, PRV_U, PRV_S} /\ mpp' \in {mpp, PRV_U}
    /\ UNCHANGED <<mepc, satp, info, exc, mem>>

\* The steps of a call that do not come to the foot of the loop.
CallStep == Checked \/ Over \/ Diverted \/ Called \/ Finished

\* An instruction that comes to the foot of the loop.
Went ==
    /\ Rest >= 1 /\ call.busy /\ call.executed >= 0 /\ Retire
    /\ IF Leaves THEN call' = NoCall
       ELSE /\ call' \in Call /\ call'.busy /\ call'.n = call.n - 1
            /\ call'.executed = call.executed + 1 /\ call'.addend = call.addend
    /\ \/ pc' = 1 /\ info' = "taken" /\ Insn(pc) = "jump"
       \/ pc' = After(pc) /\ Insn(pc) # "jump" /\ (info' = info \/ info' = "nop")
    /\ Insn(pc) \notin {"mret", "wfi", "csrexit", "ecall", "shutdown"}
    /\ insn_counter' \in Int /\ satp' \in Tags
    /\ UNCHANGED <<mepc, priv, mpp, exc>>
    /\ MacroTrigger(Insn(pc)) /\ Track(Insn(pc) \in {"load", "amo"})

\* A program goes on after an instruction that is not a jump.
LEMMA Onward ==
    ASSUME prog \in Progs, NEW p \in Place, Insn(p) \notin {"mret", "jump"}
    PROVE  p \in 1 .. Len(prog) /\ After(p) \in 1 .. Len(prog)
<1>1. prog \in Seq(Kind) /\ prog # <<>> /\ prog[Len(prog)] = "jump"
  BY InterpAssumption, Zenon
<1>2. p # Handler /\ p \in 1 .. Len(prog)
  BY Zenon DEF Insn, Place
<1>3. p # Len(prog)
  BY <1>1, <1>2, Zenon DEF Insn
<1> QED BY <1>1, <1>2, <1>3 DEF After

\* Position 1 and the handler are places.
LEMMA Places ==
    ASSUME prog \in Progs
    PROVE  /\ 1 \in Place /\ Handler \in Place /\ Place \subseteq Int
           /\ Len(prog) \in Nat /\ Len(prog) + 1 < Handler
<1>1. prog \in Seq(Kind) /\ prog # <<>> /\ Len(prog) + 1 < Handler /\ Handler \in Nat
  BY InterpAssumption, Zenon
<1> QED BY <1>1 DEF Place

\* In the loop one instruction fewer than n may still retire.
LEMMA Looping ==
    ASSUME SimShape, InLoop
    PROVE  /\ call.busy /\ call.executed >= 0 /\ call.n \in Int /\ call.addend \in Int
           /\ Rest = call.n - 1 /\ Rest \in Int
  BY DEF SimShape, Call, InLoop, Rest

\* What the counter shows if the call ends here with none, or one, more retired.
LEMMA ReadyIs ==
    ASSUME SimShape, Ready
    PROVE  /\ InLoop /\ Rest = Left /\ Rest >= 1
           /\ call.addend - Left = call.addend - Rest + 0
           /\ call.addend - 1 - (Left - 1) = call.addend - Rest + 0
           /\ call.addend - (Left - 1) = call.addend - Rest + 1
<1>1. InLoop /\ call.n > 1
  BY Zenon DEF Ready
<1>2. call.n \in Int /\ call.addend \in Int /\ Rest = call.n - 1
  BY <1>1, Looping, Zenon
<1> QED BY <1>1, <1>2 DEF Left

\* Every step that does not come to the foot of the loop ends in one of these ways.
LEMMA ElsewhereIs == ASSUME SimShape, Elsewhere PROVE CallStep
<1>1. CASE EntryCheck /\ UNCHANGED mem
  <2>1. /\ call \in Call /\ call.busy /\ call.executed = -1 /\ call.n >= 1 /\ Rest = call.n
        /\ call.n \in Int /\ call.addend \in Int
    BY <1>1, Zenon DEF SimShape, EntryCheck, Rest, Call
  <2>2. CASE irq /\ ~trapped
    <3>1. call' = NoCall /\ insn_counter' = (call.addend - 1) - (call.n - 1)
      BY <1>1, <2>2, Zenon DEF EntryCheck, TheEnd, CounterAt
    <3>2. (call.addend - 1) - (call.n - 1) = call.addend - Rest + 0
      BY <2>1
    <3>3. Returns(0)
      BY <2>1, <3>1, <3>2, Zenon DEF Returns
    <3>4. /\ pc' = Handler /\ mepc' = pc /\ priv' = PRV_M /\ mpp' = priv
          /\ UNCHANGED <<satp, info, done, exc, mem>>
      BY <1>1, <2>2, Zenon DEF EntryCheck, EnterHandler
    <3> QED BY <2>1, <3>3, <3>4, Zenon DEF Diverted, CallStep
  <2>3. CASE ~(irq /\ ~trapped)
    <3>1. call' = [call EXCEPT !.n = @ + 1, !.executed = 0] /\ exc' = None
          /\ UNCHANGED <<pc, mepc, priv, mpp, satp, insn_counter, info, done, mem>>
      BY <1>1, <2>3, Zenon DEF EntryCheck
    <3>2. call \in Call /\ call.busy
      BY <2>1, Zenon
    <3>3. PICK k \in Int, e \in Int : k = call.n + 1 /\ e = 0
      BY <2>1
    <3>4. call' = [call EXCEPT !.n = k, !.executed = e]
      BY <3>1, <3>3, Zenon
    <3>5. /\ call' \in Call /\ call'.n = k /\ call'.executed = e
          /\ call'.busy /\ call'.addend = call.addend
      BY <3>2, <3>4, Zenon DEF Call
    <3> QED BY <2>1, <3>1, <3>3, <3>5, Zenon DEF Checked, CallStep
  <2> QED BY <2>2, <2>3, Zenon
<1>2. CASE OutOfCycles /\ UNCHANGED mem
  <2>1. /\ InLoop /\ call.n = 1 /\ call' = NoCall /\ insn_counter' = call.addend - 0
        /\ UNCHANGED <<pc, mepc, priv, mpp, satp, info, exc, done, mem>>
    BY <1>2, Zenon DEF OutOfCycles, TheEnd, CounterAt
  <2>2. Rest = 0 /\ call.busy /\ call.addend \in Int
    BY <2>1, Looping
  <2> QED BY <2>1, <2>2 DEF CallStep, Over, Returns
<1>3. CASE LoopInterrupt /\ UNCHANGED mem
  <2>1. /\ Ready /\ pc' = Handler /\ mepc' = pc /\ call' = NoCall
        /\ priv' = PRV_M /\ mpp' = priv
        /\ insn_counter' = call.addend - Left /\ UNCHANGED <<satp, info, done, exc, mem>>
    BY <1>3, Zenon DEF LoopInterrupt, EnterHandler, TheEnd, CounterAt
  <2> QED BY <2>1, ReadyIs, Looping, Zenon DEF CallStep, Diverted, Returns
<1>4. ASSUME NEW cause, cause # None, cause # "ecall", Ready, Exception(cause),
             Track(Insn(pc) = "amo" /\ exc' = "store")
      PROVE  CallStep
  <2>1. /\ exc' # None /\ pc' = Handler /\ mepc' = pc /\ call' = NoCall
        /\ priv' = PRV_M /\ mpp' = priv
        /\ insn_counter' = call.addend - 1 - (Left - 1) /\ UNCHANGED <<satp, info, done>>
    BY <1>4, Zenon DEF Exception, EnterHandler, TheEnd, CounterAt, Cancelled
  <2> QED BY <1>4, <2>1, ReadyIs, Looping, Zenon DEF CallStep, Diverted, Returns
<1>5. CASE Breakpoint /\ UNCHANGED mem
  <2>1. Ready /\ Exception("breakpoint") /\ exc' = "breakpoint"
    BY <1>5, Zenon DEF Breakpoint, Exception
  <2>2. Track(Insn(pc) = "amo" /\ exc' = "store")
    BY <1>5, <2>1, Zenon DEF Track
  <2> QED BY <1>4, <2>1, <2>2, Zenon DEF None
<1>6. CASE TrapInsn /\ UNCHANGED mem
  <2>1. Ready
    BY <1>6, Zenon DEF TrapInsn, Fetched
  <2>2. CASE Forbidden
    <3>1. Exception("illegal") /\ exc' = "illegal"
      BY <1>6, <2>2, Zenon DEF TrapInsn, Exception
    <3>2. Track(Insn(pc) = "amo" /\ exc' = "store")
      BY <1>6, <3>1, Zenon DEF Track
    <3> QED BY <1>4, <2>1, <3>1, <3>2, Zenon DEF None
  <2>3. CASE Insn(pc) \in {"ecall", "shutdown"} /\ ~Forbidden
    <3>1. Exception("ecall")
      BY <1>6, <2>3, Zenon DEF TrapInsn
    <3>2. /\ exc' = "ecall" /\ pc' = Handler /\ mepc' = pc /\ call' = NoCall /\ Retire
          /\ priv' = PRV_M /\ mpp' = priv
          /\ insn_counter' = call.addend - 0 - (Left - 1) /\ UNCHANGED <<satp, info, mem>>
      BY <1>6, <3>1, Zenon DEF Exception, EnterHandler, TheEnd, CounterAt, Cancelled, Retire
    <3>3. Returns(1) /\ Rest >= 1
      BY <2>1, <3>2, ReadyIs, Looping DEF Returns
    <3> QED BY <2>3, <3>2, <3>3, Zenon DEF CallStep, Called, None
  <2> QED BY <1>6, <2>2, <2>3, Zenon DEF TrapInsn
<1>7. CASE CsrExit /\ UNCHANGED mem
  <2>1. /\ Ready /\ Insn(pc) = "csrexit" /\ pc' = After(pc) /\ call' = NoCall /\ Retire
        /\ insn_counter' = call.addend - (Left - 1)
        /\ UNCHANGED <<mepc, priv, mpp, satp, exc, info, mem>>
    BY <1>7, Zenon DEF CsrExit, Fetched, CounterAt, Retire
  <2> QED BY <2>1, ReadyIs, Looping, Zenon DEF CallStep, Finished, Returns
<1>8. CASE CsrIllegal /\ UNCHANGED mem
  <2>1. /\ Ready /\ exc' = "illegal" /\ pc' = Handler /\ mepc' = pc /\ call' = NoCall
        /\ priv' = PRV_M /\ mpp' = priv
        /\ insn_counter' = call.addend - 1 - (Left - 1) /\ UNCHANGED <<satp, info, done, mem>>
    BY <1>8, Zenon DEF CsrIllegal, Fetched, CounterAt, EnterHandler
  <2>2. Track(Insn(pc) = "amo" /\ exc' = "store")
    BY <2>1, Zenon DEF Track
  <2> QED BY <2>1, <2>2, ReadyIs, Looping, Zenon DEF CallStep, Diverted, Returns, None
<1>9. CASE Wfi /\ UNCHANGED mem
  <2>1. /\ Ready /\ Insn(pc) = "wfi" /\ pc' = After(pc) /\ call' = NoCall /\ Retire
        /\ insn_counter' = call.addend - (Left - 1)
        /\ UNCHANGED <<mepc, priv, mpp, satp, exc, info, mem>>
    BY <1>9, Zenon DEF Wfi, DoneInterp, TheEnd, Fetched, CounterAt, Retire
  <2> QED BY <2>1, ReadyIs, Looping, Zenon DEF CallStep, Finished, Returns
<1>10. CASE Mret /\ UNCHANGED mem
  <2>1. /\ Ready /\ Insn(pc) = "mret" /\ pc' = mepc /\ call' = NoCall /\ Retire
        /\ priv' = mpp /\ mpp' = PRV_U
        /\ insn_counter' = call.addend - (Left - 1) /\ UNCHANGED <<mepc, satp, exc, info, mem>>
    BY <1>10, Zenon DEF Mret, DoneInterp, TheEnd, Fetched, CounterAt, Retire
  <2> QED BY <2>1, ReadyIs, Looping, Zenon DEF CallStep, Finished, Returns
<1>12. CASE Drop /\ UNCHANGED mem
  <2>1. /\ Ready /\ Insn(pc) = "drop" /\ pc' = After(pc) /\ call' = NoCall /\ Retire
        /\ priv' \in {PRV_U, PRV_S} /\ mpp' = PRV_U
        /\ insn_counter' = call.addend - (Left - 1) /\ UNCHANGED <<mepc, satp, exc, info, mem>>
    BY <1>12, Zenon DEF Drop, DoneInterp, TheEnd, Fetched, CounterAt, Retire
  <2> QED BY <2>1, ReadyIs, Looping, Zenon DEF CallStep, Finished, Returns
<1>11. CASE AccessFault /\ Track(exc' = "store")
  <2>1. PICK cause \in FaultCauses(Insn(pc)) : Exception(cause)
    BY <1>11, Zenon DEF AccessFault
  <2>2. /\ cause # None /\ cause # "ecall" /\ exc' = cause
        /\ cause = "store" => Insn(pc) = "amo"
    BY <2>1, Zenon DEF FaultCauses, None, Exception
  <2>3. Ready /\ Track(Insn(pc) = "amo" /\ exc' = "store")
    BY <1>11, <2>2, Zenon DEF AccessFault, Fetched, Track
  <2> QED BY <1>4, <2>1, <2>2, <2>3, Zenon
<1> QED BY <1>1, <1>2, <1>3, <1>5, <1>6, <1>7, <1>8, <1>9, <1>10, <1>11, <1>12, Zenon
        DEF Elsewhere, Faults, Ends

\* And every step that does, in this one.
LEMMA FootIs == ASSUME SimShape, Foot PROVE Went
<1>1. Fetched /\ Ready /\ MacroTrigger(Insn(pc)) /\ Track(Insn(pc) \in {"load", "amo"})
  BY Zenon DEF Foot, Fetched
<1>2. /\ InLoop /\ Rest >= 1 /\ call.busy /\ call.executed >= 0 /\ call.n \in Int
      /\ call.addend \in Int
  BY <1>1, ReadyIs, Looping, Zenon
<1>3. ASSUME NEW to, NEW jumped \in BOOLEAN, NEW kind, Continue(to, jumped, kind, Leaves)
      PROVE  /\ Retire /\ pc' = to /\ info' = (IF jumped THEN kind ELSE info)
             /\ UNCHANGED <<mepc, priv, mpp, exc>>
             /\ IF Leaves THEN call' = NoCall
                ELSE /\ call' \in Call /\ call'.busy /\ call'.n = call.n - 1
                     /\ call'.executed = call.executed + 1 /\ call'.addend = call.addend
  <2>1. /\ Retire /\ pc' = to /\ info' = (IF jumped THEN kind ELSE info)
        /\ UNCHANGED <<mepc, priv, mpp, exc>>
    BY <1>3, Zenon DEF Continue, Retire
  <2>2. CASE Leaves
    BY <1>3, <2>1, <2>2, Zenon DEF Continue
  <2>3. CASE ~Leaves
    <3>1. PICK w \in BOOLEAN : call' = [call EXCEPT !.n = Left, !.executed = @ + 1, !.window = w]
      BY <1>3, <2>3, Zenon DEF Continue, SamePage
    <3>2. call \in Call
      BY Zenon DEF SimShape
    <3>3. Left \in Int /\ call.executed + 1 \in Int
      BY <1>2, <3>2 DEF Left, Call
    <3>4. /\ call' \in Call /\ call'.busy /\ call'.n = Left
          /\ call'.executed = call.executed + 1 /\ call'.addend = call.addend
      BY <1>2, <3>1, <3>2, <3>3, Zenon DEF Call
    <3> QED BY <2>1, <2>3, <3>4, Zenon DEF Left
  <2> QED BY <2>2, <2>3, Zenon
<1>4. CASE Straight(Leaves)
  <2>1. /\ insn_counter' \in Int /\ satp' \in Tags
        /\ Insn(pc) \notin {"mret", "wfi", "csrexit", "ecall", "shutdown"}
    BY <1>4, Zenon DEF Straight, SimShape, PrivShape
  <2>2. CASE Insn(pc) = "jump"
    <3>1. Continue(1, TRUE, "taken", Leaves)
      BY <1>4, <2>2, Zenon DEF Straight
    <3> QED BY <1>1, <1>2, <1>3, <2>1, <2>2, <3>1, Zenon DEF Went
  <2>3. CASE Insn(pc) # "jump"
    <3>1. Continue(After(pc), Insn(pc) = "sfence", "nop", Leaves)
      BY <1>4, <2>3, Zenon DEF Straight
    <3> QED BY <1>1, <1>2, <1>3, <2>1, <2>3, <3>1, Zenon DEF Went
  <2> QED BY <2>2, <2>3, Zenon
<1>5. CASE Csr(Leaves)
  <2>1. /\ insn_counter' \in Int
        /\ Insn(pc) \notin {"mret", "wfi", "csrexit", "ecall", "shutdown", "jump"}
        /\ Continue(After(pc), Insn(pc) = "csrflush", "nop", Leaves)
    BY <1>2, <1>5 DEF Csr, CsrCounters, CounterAt, Left
  <2>2. satp' \in Tags
    BY <1>5, Zenon DEF Csr, SimShape, PrivShape
  <2> QED BY <1>1, <1>2, <1>3, <2>1, <2>2, Zenon DEF Went
<1> QED BY <1>4, <1>5, Zenon DEF Foot

\* The program and the way to trace stay the same.
LEMMA SameProgram == ASSUME [SimulationNext]_simulation PROVE prog' = prog /\ mode' = mode /\ highest' = highest
<1>1. CASE IterateCore
  BY <1>1, Zenon DEF IterateCore, Enter
<1>2. CASE Foot
  <2>1. mode' = mode /\ highest' = highest
    BY <1>2, Zenon DEF Foot, Unmoved
  <2>2. CASE Straight(Leaves)
    BY <2>1, <2>2, Zenon DEF Straight, Continue
  <2>3. CASE Csr(Leaves)
    BY <2>1, <2>3, Zenon DEF Csr, Continue
  <2> QED BY <1>2, <2>2, <2>3, Zenon DEF Foot
<1>3. CASE Elsewhere
  <2>1. mode' = mode /\ highest' = highest
    BY <1>3, Zenon DEF Elsewhere, Unmoved
  <2>2. CASE Faults
    BY <2>1, <2>2, Zenon DEF Faults, AccessFault, Exception
  <2>3. CASE Ends
    BY <2>1, <2>3, Zenon
       DEF Ends, EntryCheck, OutOfCycles, LoopInterrupt, Breakpoint, TrapInsn, Exception,
           CsrExit, CsrIllegal, Wfi, DoneInterp, Mret, Drop
  <2> QED BY <1>3, <2>2, <2>3, Zenon DEF Elsewhere
<1>4. CASE EndOfTurn
  BY <1>4, Zenon DEF EndOfTurn, cpuVars
<1>5. CASE DeviceRaises
  BY <1>5, Zenon DEF DeviceRaises, Raise, simVars
<1>6. CASE UNCHANGED simulation
  BY <1>6, Zenon DEF simulation, cpuVars, simVars
<1> QED BY <1>1, <1>2, <1>3, <1>4, <1>5, <1>6, Zenon DEF SimulationNext, Halted

-----------------------------------------------------------------------------
(* The counters *)

\* What the counter will show if nothing more retires is what has retired.
CounterInv ==
    mode # "macro" => IF call.busy THEN call.addend - Rest = Len(done) ELSE insn_counter = Len(done)

\* What may still retire is paid for.
BudgetInv ==
    /\ phase # "halt" => num_executed + maxinsns = MaxInsns
    /\ Len(done) + Rest <= num_executed /\ Len(done) + Rest <= MaxInsns

\* A step of the call retires d instructions.
Runs(d) ==
    /\ call.busy /\ call' \in Call /\ (call'.busy => call'.n >= 1 /\ call'.executed >= -1)
    /\ insn_counter' \in Int /\ done' \in Seq(Entry) /\ Len(done') = Len(done) + d
    /\ Rest' + d <= Rest
    /\ pc' \in Place /\ mepc' \in Place
    /\ mode # "macro" =>
          IF call'.busy THEN call'.addend - Rest' = call.addend - Rest + d
          ELSE insn_counter' = call.addend - Rest + d

\* The call has returned.
LEMMA Returned ==
    ASSUME SimShape, NEW d \in {0, 1}, Returns(d), Rest >= d, pc' \in Place, mepc' \in Place,
           done' \in Seq(Entry), Len(done') = Len(done) + d
    PROVE  Runs(d)
<1>1. call' = NoCall /\ call.busy /\ insn_counter' = call.addend - Rest + d
  BY Zenon DEF Returns
<1>2. NoCall \in Call /\ ~NoCall.busy
  BY DEF NoCall, Call
<1>3. Rest' = 0 /\ ~call'.busy /\ call' \in Call
  BY <1>1, <1>2, Zenon DEF Rest
<1>4. Rest \in Int /\ call.addend \in Int
  BY DEF SimShape, Rest, Call
<1> QED BY <1>1, <1>3, <1>4 DEF Runs

\* A step of the call keeps the privilege one.
LEMMA PrivStep == ASSUME SimShape, Elsewhere \/ Foot PROVE PrivShape'
<1>1. PrivShape /\ (CallStep \/ Went)
  BY ElsewhereIs, FootIs, Zenon DEF SimShape
<1>2. PRV_M \in Int /\ PRV_S \in Int /\ PRV_U \in Int
  BY DEF PRV_M, PRV_S, PRV_U
<1>3. CASE Checked \/ Over \/ Went
  BY <1>1, <1>3, Zenon DEF Checked, Over, Went, PrivShape
<1>4. CASE Diverted \/ Called
  BY <1>1, <1>2, <1>4, Zenon DEF Diverted, Called, PrivShape
<1>5. CASE Finished
  BY <1>1, <1>2, <1>5, Zenon DEF Finished, PrivShape
<1> QED BY <1>1, <1>3, <1>4, <1>5, Zenon DEF CallStep

\* What a retired instruction leaves behind.
LEMMA RetireIs ==
    ASSUME SimShape, Retire, PrivShape'
    PROVE  \E e \in Entry : /\ e.pc = pc /\ e.priv = priv /\ e.satp = satp'
                            /\ done' = Append(done, e)
                            /\ done' \in Seq(Entry) /\ Len(done') = Len(done) + 1
                            /\ done'[Len(done')] = e /\ Len(done) \in Nat
<1>1. done \in Seq(Entry) /\ pc \in Int /\ priv \in Int /\ satp' \in Tags
  BY Places, Zenon DEF SimShape, PrivShape
<1>2. PICK e : e = [pc |-> pc, priv |-> priv, satp |-> satp']
  BY Zenon
<1>3. e \in Entry /\ e.pc = pc /\ e.priv = priv /\ e.satp = satp'
  BY <1>1, <1>2, Zenon DEF Entry
<1>4. done' = Append(done, e)
  BY <1>2, Zenon DEF Retire
<1>5. /\ done' \in Seq(Entry) /\ Len(done') = Len(done) + 1
      /\ done'[Len(done')] = e /\ Len(done) \in Nat
  BY <1>1, <1>3, <1>4
<1> QED BY <1>3, <1>4, <1>5, Zenon

\* A step of the call retires one instruction or none.
LEMMA RunIs == ASSUME SimShape, Elsewhere \/ Foot PROVE Runs(0) \/ Runs(1)
<1>1. /\ prog \in Progs /\ pc \in Place /\ mepc \in Place /\ done \in Seq(Entry) /\ call \in Call
      /\ call.busy => call.n >= 1 /\ call.executed >= -1
  BY Zenon DEF SimShape
<1>2. pc \in Int /\ Handler \in Place /\ 1 \in Place
  BY <1>1, Places, Zenon
<1>3. /\ Len(done) \in Nat
      /\ Retire => done' \in Seq(Entry) /\ Len(done') = Len(done) + 1
  <2>1. Len(done) \in Nat
    BY <1>1
  <2> QED BY <2>1, RetireIs, PrivStep, Zenon
<1>4. Insn(pc) \notin {"mret", "jump"} => After(pc) \in Place
  BY <1>1, Onward, Zenon DEF Place
<1>5. CASE Checked
  <2>1. Rest = call.n /\ Rest' = call'.n - 1 /\ call'.n = call.n + 1 /\ call.n \in Int
    BY <1>1, <1>5 DEF Checked, Rest, Call
  <2>2. call.addend \in Int /\ Rest' = Rest /\ call'.n >= 1 /\ call'.executed >= -1
    BY <1>1, <1>5, <2>1 DEF Checked, Call
  <2>3. insn_counter \in Int
    BY Zenon DEF SimShape
  <2> QED BY <1>1, <1>3, <1>5, <2>1, <2>2, <2>3 DEF Checked, Runs
<1>6. CASE Over
  <2>1. Len(done') = Len(done) + 0 /\ done' \in Seq(Entry) /\ pc' \in Place /\ mepc' \in Place
    BY <1>1, <1>3, <1>6 DEF Over
  <2> QED BY <1>6, <2>1, Returned DEF Over
<1>7. CASE Diverted
  <2>1. Len(done') = Len(done) + 0 /\ done' \in Seq(Entry) /\ pc' \in Place /\ mepc' \in Place
    BY <1>1, <1>2, <1>3, <1>7 DEF Diverted
  <2>2. Rest >= 0
    BY <1>1, <1>7 DEF Diverted, Rest, Call
  <2> QED BY <1>7, <2>1, <2>2, Returned, Zenon DEF Diverted
<1>8. CASE Called
  <2>1. Len(done') = Len(done) + 1 /\ done' \in Seq(Entry) /\ pc' \in Place /\ mepc' \in Place
    BY <1>1, <1>2, <1>3, <1>8, Zenon DEF Called
  <2> QED BY <1>8, <2>1, Returned, Zenon DEF Called
<1>9. CASE Finished
  <2>1. Len(done') = Len(done) + 1 /\ done' \in Seq(Entry) /\ pc' \in Place /\ mepc' \in Place
    BY <1>1, <1>2, <1>3, <1>4, <1>9, Zenon DEF Finished
  <2> QED BY <1>9, <2>1, Returned, Zenon DEF Finished
<1>10. CASE Went
  <2>1. Len(done') = Len(done) + 1 /\ done' \in Seq(Entry) /\ pc' \in Place /\ mepc' \in Place
    BY <1>1, <1>2, <1>3, <1>4, <1>10, Zenon DEF Went
  <2>2. Rest = call.n - 1 /\ call.n \in Int /\ Rest >= 1 /\ call.executed >= 0
    BY <1>1, <1>10 DEF Went, Rest, Call
  <2>3. CASE Leaves
    <3>1. call' = NoCall /\ NoCall \in Call /\ ~NoCall.busy /\ mode = "macro"
      BY <1>10, <2>3 DEF Went, NoCall, Call, Leaves
    <3>2. Rest' = 0
      BY <3>1, Zenon DEF Rest
    <3> QED BY <1>10, <2>1, <2>2, <3>1, <3>2 DEF Went, Runs
  <2>4. CASE ~Leaves
    <3>1. /\ call' \in Call /\ call'.busy /\ call'.n = call.n - 1
          /\ call'.executed = call.executed + 1 /\ call'.addend = call.addend
      BY <1>10, <2>4, Zenon DEF Went
    <3>2. call.executed \in Int /\ call.addend \in Int
      BY <1>1, Zenon DEF Call
    <3>3. Rest' = Rest - 1 /\ call'.n >= 1 /\ call'.executed >= -1
      BY <2>2, <3>1, <3>2 DEF Rest
    <3>4. call'.addend - Rest' = call.addend - Rest + 1 /\ Rest' + 1 <= Rest
      BY <2>2, <3>1, <3>2, <3>3
    <3> QED BY <1>10, <2>1, <3>1, <3>3, <3>4, Zenon DEF Went, Runs
  <2> QED BY <2>3, <2>4, Zenon
<1> QED BY <1>5, <1>6, <1>7, <1>8, <1>9, <1>10, ElsewhereIs, FootIs, Zenon DEF CallStep

CpuStays == UNCHANGED <<prog, pc, mepc, priv, mpp, satp, exc, info, insn_counter, call, done>>

\* iterate_core: a turn of m instructions, at least one.
LEMMA TurnIs ==
    ASSUME SimShape, IterateCore
    PROVE  \E m \in Nat \ {0} :
              /\ num_executed' = num_executed + m /\ exe_trace' \in Nat
              /\ maxinsns' = (IF maxinsns < m THEN 0 ELSE maxinsns - m)
              /\ m = 1 \/ ~active'
              /\ \/ phase' = "halt" /\ CpuStays
                 \/ phase' = "running" /\ maxinsns' # 0 /\ Enter(m)
<1>1. exe_trace \in Nat /\ Request \in Nat \ {0}
  BY SimulationAssumption, Zenon DEF SimShape
<1>2. PICK t : t = Throttled(active')
  BY Zenon
<1>3. t \in Nat \ {0} /\ (t = 1 \/ ~active')
  BY <1>1, <1>2 DEF Throttled
<1>4. PICK m : m = CyclesFor(t)
  BY Zenon
<1>5. /\ m \in Nat \ {0} /\ (m = 1 \/ ~active')
      /\ (IF exe_trace < t THEN exe_trace ELSE exe_trace - m) \in Nat
  BY <1>1, <1>3, <1>4 DEF CyclesFor
<1>6. /\ num_executed' = num_executed + m /\ maxinsns' = (IF maxinsns < m THEN 0 ELSE maxinsns - m)
      /\ exe_trace' = (IF exe_trace < t THEN exe_trace ELSE exe_trace - m)
      /\ IF maxinsns' = 0
         THEN phase' = "halt" /\ CpuStays
         ELSE phase' = "running" /\ Enter(m)
  BY <1>2, <1>4, Zenon DEF IterateCore, Charge, CpuStays
<1> QED BY <1>5, <1>6, Zenon

\* The types.
LEMMA ShapeStep == ASSUME SimShape, [SimulationNext]_simulation PROVE SimShape'
<1>1. prog' = prog /\ Place' = Place /\ highest' = highest
  BY SameProgram, Zenon DEF Place
<1>2. CASE IterateCore
  <2>1. PICK m \in Nat \ {0} :
              /\ num_executed' = num_executed + m /\ exe_trace' \in Nat
              /\ maxinsns' = (IF maxinsns < m THEN 0 ELSE maxinsns - m)
              /\ \/ phase' = "halt" /\ CpuStays
                 \/ phase' = "running" /\ maxinsns' # 0 /\ Enter(m)
    BY <1>2, TurnIs, Zenon
  <2>2. num_executed' \in Nat /\ maxinsns' \in Nat
    BY <2>1 DEF SimShape
  <2>3. last_pc' = pc /\ turn_priv' = priv /\ trace' = trace /\ mem' = mem
    BY <1>2, Zenon DEF IterateCore
  <2>4. UNCHANGED <<pc, mepc, priv, mpp, satp, insn_counter, done>>
    BY <2>1, Zenon DEF Enter, CpuStays
  <2>5. call' \in Call /\ (call'.busy => call'.n >= 1 /\ call'.executed >= -1)
    <3>1. CASE UNCHANGED call
      BY <3>1, Zenon DEF SimShape
    <3>2. CASE Enter(m)
      <4>1. call' = [busy |-> TRUE, n |-> m, addend |-> insn_counter + m,
                     start |-> insn_counter, executed |-> -1, window |-> FALSE]
        BY <3>2, Zenon DEF Enter
      <4>2. insn_counter \in Int
        BY Zenon DEF SimShape
      <4> QED BY <4>1, <4>2 DEF Call
    <3> QED BY <2>1, <3>1, <3>2, Zenon DEF CpuStays
  <2> QED BY <1>1, <2>1, <2>2, <2>3, <2>4, <2>5, Zenon DEF SimShape, PrivShape
<1>3. CASE Elsewhere \/ Foot
  <2>1. UNCHANGED <<last_pc, turn_priv, maxinsns, num_executed, exe_trace, trace>>
    BY <1>3, Zenon DEF Elsewhere, Foot, Unmoved
  <2>2. /\ call' \in Call /\ (call'.busy => call'.n >= 1 /\ call'.executed >= -1)
        /\ insn_counter' \in Int /\ done' \in Seq(Entry) /\ pc' \in Place /\ mepc' \in Place
    BY <1>3, RunIs, Zenon DEF Runs
  <2>3. mem' = mem \/ mem' = mem \cup {[pc |-> pc, at |-> Len(done)]}
    BY <1>3, Zenon DEF Elsewhere, Faults, Ends, Foot, Track
  <2>4. [pc |-> pc, at |-> Len(done)] \in Access
    BY Places DEF SimShape, Access
  <2>5. mem' \subseteq Access
    BY <2>3, <2>4, Zenon DEF SimShape
  <2>6. PrivShape'
    BY <1>3, PrivStep, Zenon
  <2> QED BY <1>1, <2>1, <2>2, <2>5, <2>6, Zenon DEF SimShape
<1>4. CASE EndOfTurn
  <2>1. /\ UNCHANGED <<prog, pc, mepc, call, insn_counter, done, last_pc, turn_priv, maxinsns,
                       num_executed, exe_trace>>
        /\ PrivShape'
    BY <1>4, Zenon DEF EndOfTurn, cpuVars, SimShape, PrivShape
  <2>2. mem' \subseteq Access
    BY <1>4, Zenon DEF EndOfTurn, stf_trace_element, MemAfter, SimShape
  <2>3. CASE trace' = trace
    BY <1>1, <2>1, <2>2, <2>3, Zenon DEF SimShape
  <2>4. CASE trace' # trace
    <3>1. trace' = Append(trace, [pc |-> last_pc, mem |-> mem, n |-> Len(done)])
      BY <1>4, <2>4, Zenon DEF EndOfTurn, stf_trace_element, stf_emit_memory_records
    <3>2. [pc |-> last_pc, mem |-> mem, n |-> Len(done)] \in Record
      BY Places DEF SimShape, Record
    <3> QED BY <1>1, <2>1, <2>2, <3>1, <3>2 DEF SimShape
  <2> QED BY <2>3, <2>4, Zenon
<1>5. CASE DeviceRaises
  BY <1>1, <1>5, Zenon DEF DeviceRaises, Raise, simVars, SimShape, PrivShape
<1>6. CASE UNCHANGED simulation
  BY <1>1, <1>6, Zenon DEF simulation, cpuVars, simVars, SimShape, PrivShape
<1> QED BY <1>2, <1>3, <1>4, <1>5, <1>6, Zenon DEF SimulationNext, Halted

\* What retires is taken from what may still retire.
LEMMA Balance ==
    ASSUME NEW a \in Int, NEW b, NEW r \in Int, NEW q \in Int, NEW d \in Int, b = a + d, q + d <= r
    PROVE  b + q <= a + r /\ b + q \in Int
  OBVIOUS

\* Counter and budget, step by step.
LEMMA CountStep ==
    ASSUME SimShape, CounterInv, BudgetInv, [SimulationNext]_simulation
    PROVE  CounterInv' /\ BudgetInv'
<1>1. /\ Len(done) \in Nat /\ insn_counter \in Int /\ call \in Call
      /\ maxinsns \in Nat /\ num_executed \in Nat /\ MaxInsns \in Nat
  BY SimulationAssumption DEF SimShape
<1>2. mode' = mode
  BY SameProgram, Zenon
<1>3. CASE IterateCore
  <2>1. PICK m \in Nat \ {0} :
              /\ num_executed' = num_executed + m /\ exe_trace' \in Nat
              /\ maxinsns' = (IF maxinsns < m THEN 0 ELSE maxinsns - m)
              /\ \/ phase' = "halt" /\ CpuStays
                 \/ phase' = "running" /\ maxinsns' # 0 /\ Enter(m)
    BY <1>3, TurnIs, Zenon
  <2>2. CASE phase' = "halt" /\ UNCHANGED <<insn_counter, call, done>>
    <3>1. Rest' = Rest /\ Rest \in Int
      BY <1>1, <2>2 DEF Rest, Call
    <3> QED BY <1>1, <1>2, <2>1, <2>2, <3>1 DEF CounterInv, BudgetInv
  <2>3. CASE maxinsns' # 0 /\ Enter(m)
    <3>1. /\ call' = [busy |-> TRUE, n |-> m, addend |-> insn_counter + m,
                      start |-> insn_counter, executed |-> -1, window |-> FALSE]
          /\ ~call.busy /\ done' = done
      BY <2>3, Zenon DEF Enter
    <3>2. Rest' = m /\ Rest = 0 /\ call'.busy /\ call'.addend = insn_counter + m
      BY <3>1, Zenon DEF Rest
    <3>3. mode # "macro" => insn_counter = Len(done)
      BY <3>1, Zenon DEF CounterInv
    <3>4. CounterInv'
      BY <1>1, <1>2, <3>1, <3>2, <3>3 DEF CounterInv
    <3>5. phase = "top" /\ num_executed + maxinsns = MaxInsns /\ Len(done) <= num_executed
      BY <1>1, <1>3, <3>2 DEF IterateCore, BudgetInv
    <3>6. maxinsns' = maxinsns - m /\ maxinsns' >= 0
      BY <1>1, <2>1, <2>3
    <3> QED BY <1>1, <2>1, <3>1, <3>2, <3>4, <3>5, <3>6 DEF BudgetInv
  <2> QED BY <2>1, <2>2, <2>3, Zenon DEF CpuStays
<1>4. CASE Elsewhere \/ Foot
  <2>1. UNCHANGED <<phase, maxinsns, num_executed>>
    BY <1>4, Zenon DEF Elsewhere, Foot, Unmoved
  <2>2. PICK d \in {0, 1} : Runs(d)
    BY <1>4, RunIs, Zenon
  <2>3. /\ call.busy /\ call' \in Call /\ Len(done') = Len(done) + d /\ Rest' + d <= Rest
        /\ insn_counter' \in Int
        /\ mode # "macro" =>
              IF call'.busy THEN call'.addend - Rest' = call.addend - Rest + d
              ELSE insn_counter' = call.addend - Rest + d
    BY <2>2, Zenon DEF Runs
  <2>4. Rest \in Int /\ Rest' \in Int /\ call.addend \in Int
    <3>1. \A c \in Call : c.n \in Int /\ c.addend \in Int
      BY DEF Call
    <3>2. call \in Call /\ call' \in Call
      BY <1>1, <2>3, Zenon
    <3> QED BY <3>1, <3>2 DEF Rest
  <2>5. CounterInv'
    BY <1>1, <1>2, <2>3, <2>4, Zenon DEF CounterInv
  <2>6. d \in Int /\ Len(done) \in Int /\ Len(done') = Len(done) + d /\ Rest' + d <= Rest
    BY <1>1, <2>2 DEF Runs
  <2>7. Len(done') + Rest' <= Len(done) + Rest /\ Len(done') + Rest' \in Int
    BY <2>4, <2>6, Balance, Zenon
  <2> QED BY <1>1, <2>1, <2>4, <2>5, <2>7 DEF BudgetInv
<1>5. ASSUME UNCHANGED <<call, insn_counter, done, maxinsns, num_executed>>,
             phase = "halt" => phase' = "halt"
      PROVE  CounterInv' /\ BudgetInv'
  BY <1>2, <1>5, Zenon DEF CounterInv, BudgetInv, Rest
<1>6. CASE EndOfTurn
  BY <1>5, <1>6, Zenon DEF EndOfTurn, cpuVars
<1>7. CASE DeviceRaises
  BY <1>5, <1>7, Zenon DEF DeviceRaises, Raise, simVars
<1>8. CASE UNCHANGED simulation
  BY <1>5, <1>8, Zenon DEF simulation, cpuVars, simVars
<1> QED BY <1>3, <1>4, <1>6, <1>7, <1>8, Zenon DEF SimulationNext, Halted

LEMMA SimulationStart == SimulationInit => SimShape /\ CounterInv /\ BudgetInv
<1> SUFFICES ASSUME SimulationInit PROVE SimShape /\ CounterInv /\ BudgetInv
  BY Zenon
<1>1. /\ prog \in Progs /\ pc = 1 /\ mepc = 1 /\ last_pc = 1 /\ insn_counter = 0 /\ call = NoCall
      /\ done = <<>> /\ maxinsns = MaxInsns /\ exe_trace = ExeTrace /\ num_executed = 0
      /\ mem = {} /\ trace = <<>> /\ priv = PRV_M /\ mpp = PRV_U /\ satp = 0 /\ turn_priv = PRV_M
      /\ highest \in StfPrivs
  BY Zenon DEF SimulationInit, InterpInit, SimInit
<1>2. 1 \in Place
  BY <1>1, Places, Zenon
<1>3. call \in Call /\ ~call.busy /\ Rest = 0
  BY <1>1 DEF NoCall, Call, Rest
<1>4. PrivShape /\ turn_priv \in Int /\ highest \in Int
  BY <1>1, InterpAssumption, SimulationAssumption DEF PrivShape, PRV_M, PRV_U
<1>5. SimShape
  BY <1>1, <1>2, <1>3, <1>4, SimulationAssumption DEF SimShape
<1> QED BY <1>1, <1>3, <1>5, SimulationAssumption DEF CounterInv, BudgetInv

\* Whatever ends the calls of the interpreter, insn_counter is the number of retired
\* instructions between two of them (riscv_cpu_interp, the_end).
THEOREM CounterTheorem == SimulationSpec => []CounterExact
<1>1. SimShape /\ CounterInv /\ BudgetInv /\ [SimulationNext]_simulation
        => (SimShape /\ CounterInv /\ BudgetInv)'
  BY ShapeStep, CountStep, Zenon
<1>2. CounterInv => CounterExact
  BY Zenon DEF CounterInv, CounterExact
<1> QED BY <1>1, <1>2, SimulationStart, PTL DEF SimulationSpec

\* No more instructions retire than --maxinsns allows, for turns of any length (iterate_core).
THEOREM BudgetTheorem == SimulationSpec => []BudgetRespected
<1>1. SimShape /\ CounterInv /\ BudgetInv /\ [SimulationNext]_simulation
        => (SimShape /\ CounterInv /\ BudgetInv)'
  BY ShapeStep, CountStep, Zenon
<1>2. SimShape /\ BudgetInv => BudgetRespected
  <2>1. SimShape => Len(done) \in Nat /\ Rest \in Int /\ Rest >= 0 /\ num_executed \in Nat
    BY DEF SimShape, Rest, Call
  <2> QED BY <2>1, SimulationAssumption DEF BudgetInv, BudgetRespected
<1> QED BY <1>1, <1>2, SimulationStart, PTL DEF SimulationSpec

-----------------------------------------------------------------------------
(* The trace.  First what it says of a program g, for records t, retired instructions d,
   a set S of those that leave no record and the highest privilege h. *)

InsnIn(g, p) == IF p = Handler THEN "mret" ELSE g[p]

Trailing(g, p) ==
    \E s \in 1 .. p - 1 : /\ InsnIn(g, s) = "start"
                          /\ \A q \in s + 1 .. p - 1 : InsnIn(g, q) \in {"wfi", "csrexit", "drop"}

\* The read of an amo that faulted while stf_is_start_opc was stale.
Stale(g, x) == InsnIn(g, x.pc) = "amo" /\ Trailing(g, x.pc)

\* The records reach up to k without a gap.
Covered(t, d, S, k) ==
    t # <<>> => \A j \in t[1].n .. k : (\E i \in DOMAIN t : t[i].n = j) \/ d[j] \in S

\* A record r of the instruction e.
Fits(r, e, h) == e.pc = r.pc /\ e.priv <= h

Ordered(t, d, h) ==
    /\ \A i \in DOMAIN t : t[i].n \in 1 .. Len(d) /\ Fits(t[i], d[t[i].n], h)
    /\ \A i \in 2 .. Len(t) : t[i - 1].n < t[i].n

Owns(t, g) == \A i \in DOMAIN t : \A x \in t[i].mem : x.at + 1 = t[i].n \/ Stale(g, x)

\* An instruction retires.
LEMMA LongerDone ==
    ASSUME NEW t \in Seq(Record), NEW d \in Seq(Entry), NEW p \in Entry, NEW h,
           Ordered(t, d, h), NEW e, e = Append(d, p)
    PROVE  /\ Ordered(t, e, h)
           /\ \A S, k : k \in 0 .. Len(d) /\ Covered(t, d, S, k) => Covered(t, e, S, k)
<1>1. Len(e) = Len(d) + 1 /\ Len(d) \in Nat /\ \A j \in 1 .. Len(d) : e[j] = d[j]
  OBVIOUS
<1>2. \A i \in DOMAIN t : t[i].n \in 1 .. Len(d) /\ Fits(t[i], d[t[i].n], h)
  BY Zenon DEF Ordered
<1>3. \A i \in DOMAIN t : t[i].n \in 1 .. Len(e) /\ Fits(t[i], e[t[i].n], h)
  BY <1>1, <1>2
<1>4. Ordered(t, e, h)
  BY <1>3, Zenon DEF Ordered
<1>5. ASSUME NEW S, NEW k \in 0 .. Len(d), Covered(t, d, S, k) PROVE Covered(t, e, S, k)
  <2>1. SUFFICES ASSUME t # <<>>, NEW j \in t[1].n .. k
                 PROVE  (\E i \in DOMAIN t : t[i].n = j) \/ e[j] \in S
    BY Zenon DEF Covered
  <2>2. 1 \in DOMAIN t
    BY <2>1
  <2>3. j \in 1 .. Len(d)
    BY <1>1, <1>2, <2>1, <2>2
  <2>4. e[j] = d[j]
    BY <1>1, <2>3, Zenon
  <2> QED BY <1>5, <2>1, <2>4, Zenon DEF Covered
<1> QED BY <1>4, <1>5, Zenon

\* u is the trace t with a record for what retired last.
Extends(u, t, d, h, m) ==
    /\ u # <<>> /\ u[Len(u)].n = Len(d) /\ Ordered(u, d, h)
    /\ \A S : Covered(t, d, S, Len(d) - 1) => Covered(u, d, S, Len(d))
    /\ \A g : Owns(t, g) /\ (\A x \in m : x.at + 1 = Len(d) \/ Stale(g, x)) => Owns(u, g)

\* The last instruction that retired is recorded.
LEMMA LongerTrace ==
    ASSUME NEW t \in Seq(Record), NEW d \in Seq(Entry), NEW h, Ordered(t, d, h), Len(d) >= 1,
           \A i \in DOMAIN t : t[i].n < Len(d),
           NEW m \in SUBSET Access, NEW p, p = d[Len(d)].pc, d[Len(d)].priv <= h,
           NEW u, u = Append(t, [pc |-> p, mem |-> m, n |-> Len(d)])
    PROVE  Extends(u, t, d, h, m)
<1>1. PICK r : r = [pc |-> p, mem |-> m, n |-> Len(d)]
  BY Zenon
<1>2. /\ r \in Record /\ Fits(r, d[Len(d)], h) /\ r.mem = m /\ r.n = Len(d) /\ Len(d) \in Nat
  <2>1. Len(d) \in Nat /\ d[Len(d)] \in Entry
    OBVIOUS
  <2>2. p \in Int
    BY <2>1, Zenon DEF Entry
  <2> QED BY <1>1, <2>1, <2>2 DEF Record, Fits
<1>3. PICK k : k = Len(t) /\ k \in Nat
  OBVIOUS
<1>4. /\ u \in Seq(Record) /\ Len(u) = k + 1 /\ u[k + 1] = r /\ DOMAIN u = 1 .. k + 1
      /\ \A i \in 1 .. k : u[i] = t[i]
      /\ DOMAIN t = 1 .. k
  BY <1>1, <1>2, <1>3
<1>5. u # <<>> /\ u[Len(u)].n = Len(d)
  BY <1>2, <1>3, <1>4
<1>6. Ordered(u, d, h)
  <2>1. ASSUME NEW i \in 1 .. k + 1 PROVE u[i].n \in 1 .. Len(d) /\ Fits(u[i], d[u[i].n], h)
    <3>1. CASE i \in 1 .. k
      <4>1. u[i] = t[i] /\ i \in DOMAIN t
        BY <1>4, <3>1, Zenon
      <4> QED BY <4>1, Zenon DEF Ordered
    <3>2. CASE i = k + 1
      BY <1>2, <1>4, <3>2
    <3>3. i \in 1 .. k \/ i = k + 1
      BY <1>3
    <3> QED BY <3>1, <3>2, <3>3, Zenon
  <2>2. ASSUME NEW i \in 2 .. k + 1 PROVE u[i - 1].n < u[i].n
    <3>1. i - 1 \in 1 .. k /\ u[i - 1] = t[i - 1]
      BY <1>3, <1>4
    <3>2. CASE i \in 2 .. k
      <4>1. u[i] = t[i] /\ t[i - 1].n < t[i].n
        BY <1>3, <1>4, <3>2 DEF Ordered
      <4> QED BY <3>1, <4>1, Zenon
    <3>3. CASE i = k + 1
      <4>1. t[i - 1].n < Len(d)
        BY <1>4, <3>1, Zenon
      <4> QED BY <1>2, <1>4, <3>1, <3>3, <4>1, Zenon
    <3>4. i \in 2 .. k \/ i = k + 1
      BY <1>3
    <3> QED BY <3>2, <3>3, <3>4, Zenon
  <2> QED BY <1>4, <2>1, <2>2, Zenon DEF Ordered
<1>7. ASSUME NEW S, Covered(t, d, S, Len(d) - 1) PROVE Covered(u, d, S, Len(d))
  <2>1. SUFFICES ASSUME NEW j \in u[1].n .. Len(d)
                 PROVE  (\E i \in 1 .. k + 1 : u[i].n = j) \/ d[j] \in S
    BY <1>4, Zenon DEF Covered
  <2>2. CASE j = Len(d)
    BY <1>2, <1>3, <1>4, <2>2
  <2>3. CASE j # Len(d)
    <3>1. k # 0
      BY <1>2, <1>4, <2>1, <2>3
    <3>2. 1 \in 1 .. k /\ u[1] = t[1] /\ t # <<>>
      BY <1>3, <1>4, <3>1
    <3>3. u[1].n \in Int
      <4>1. t[1] \in Record
        BY <3>2, <1>4
      <4> QED BY <3>2, <4>1, Zenon DEF Record
    <3>4. j \in t[1].n .. Len(d) - 1
      BY <1>2, <2>1, <2>3, <3>2, <3>3
    <3>5. (\E i \in DOMAIN t : t[i].n = j) \/ d[j] \in S
      BY <1>7, <3>2, <3>4, Zenon DEF Covered
    <3>6. ASSUME NEW i \in DOMAIN t, t[i].n = j PROVE \E l \in 1 .. k + 1 : u[l].n = j
      BY <1>3, <1>4, <3>6
    <3> QED BY <3>5, <3>6, Zenon
  <2> QED BY <2>2, <2>3, Zenon
<1>8. ASSUME NEW g, Owns(t, g), \A x \in m : x.at + 1 = Len(d) \/ Stale(g, x) PROVE Owns(u, g)
  <2>1. SUFFICES ASSUME NEW i \in 1 .. k + 1, NEW x \in u[i].mem
                 PROVE  x.at + 1 = u[i].n \/ Stale(g, x)
    BY <1>4, Zenon DEF Owns
  <2>2. CASE i \in 1 .. k
    BY <1>4, <1>8, <2>1, <2>2, Zenon DEF Owns
  <2>3. CASE i = k + 1
    BY <1>2, <1>4, <1>8, <2>1, <2>3, Zenon
  <2> QED BY <1>3, <2>2, <2>3
<1> QED BY <1>5, <1>6, <1>7, <1>8, Zenon DEF Extends

\* What leaves no record leaves no gap.
LEMMA SilentCovers ==
    ASSUME NEW t, NEW d, NEW S, NEW k \in Nat, Covered(t, d, S, k - 1), d[k] \in S
    PROVE  Covered(t, d, S, k)
  BY DEF Covered

\* The trail of a start opcode goes on over instructions that leave the loop.
LEMMA TrailGoesOn ==
    ASSUME NEW g, NEW p \in Nat \ {0}
    PROVE  /\ InsnIn(g, p) = "start" => Trailing(g, p + 1)
           /\ Trailing(g, p) /\ InsnIn(g, p) \in {"wfi", "csrexit", "drop"} => Trailing(g, p + 1)
<1>1. (p + 1) - 1 = p
  OBVIOUS
<1>2. ASSUME InsnIn(g, p) = "start" PROVE Trailing(g, p + 1)
  <2>1. p \in 1 .. p /\ \A q \in p + 1 .. p : FALSE
    OBVIOUS
  <2> QED BY <1>1, <1>2, <2>1, Zenon DEF Trailing
<1>3. ASSUME Trailing(g, p), InsnIn(g, p) \in {"wfi", "csrexit", "drop"} PROVE Trailing(g, p + 1)
  <2>1. PICK s \in 1 .. p - 1 : /\ InsnIn(g, s) = "start"
                                /\ \A q \in s + 1 .. p - 1 : InsnIn(g, q) \in {"wfi", "csrexit", "drop"}
    BY <1>3, Zenon DEF Trailing
  <2>2. s \in 1 .. p /\ \A q \in s + 1 .. p : InsnIn(g, q) \in {"wfi", "csrexit", "drop"}
    BY <1>3, <2>1
  <2> QED BY <1>1, <2>1, <2>2, Zenon DEF Trailing
<1> QED BY <1>2, <1>3, Zenon

-----------------------------------------------------------------------------
(* The trace of this program *)

\* The instructions that leave no record.
Quiet == {e \in Entry : \/ InsnIn(prog, e.pc) \in {"ecall", "shutdown", "mret"}
                        \/ e.priv > highest \/ e.satp # prog_asid}

\* A turn of one instruction: before the instruction,
Before ==
    /\ call.busy /\ Rest = 1 /\ pc = last_pc /\ priv = turn_priv /\ info = "nop"
    /\ call.executed = -1 \/ exc = None
    /\ mode = "number" => Covered(trace, done, Quiet, Len(done))

\* after it,
Through ==
    /\ Rest = 0 /\ Len(done) >= 1
    /\ done[Len(done)].pc = last_pc /\ done[Len(done)].priv = turn_priv
    /\ done[Len(done)].satp = satp
    /\ \A i \in DOMAIN trace : trace[i].n < Len(done)
    /\ \A x \in mem : x.at + 1 = Len(done) \/ Stale(prog, x)
    /\ done[Len(done)] \in Quiet \/ (exc = None /\ (info # "nop" \/ pc = After(last_pc)))
    /\ mode = "number" => Covered(trace, done, Quiet, Len(done) - 1)

\* or with the instruction not executed.
Aside ==
    /\ ~call.busy /\ info = "nop" /\ pc = Handler
    /\ mode = "number" => Covered(trace, done, Quiet, Len(done))

\* The program is where the start opcode left it, but for instructions that do not come to
\* the foot of the loop.
OnTrail == IF pc # Handler THEN Trailing(prog, pc) ELSE mepc = Handler \/ Trailing(prog, mepc)

\* How the trace is switched.
SwitchInv ==
    /\ mode = "off" => ~active
    /\ mode = "macro" => (is_stop => ~active) /\ (is_start => OnTrail)
    /\ mode = "number" =>
          /\ active \/ trace # <<>> => num_executed > StfStart
          /\ phase = "top" /\ active => Covered(trace, done, Quiet, Len(done))

TurnInv ==
    phase = "running" /\ active /\ (mode = "macro" /\ is_start => call.busy)
        => Before \/ Through \/ Aside

\* Accesses that wait for a record belong to the instruction at hand.
MemInv ==
    \A x \in mem : \/ Stale(prog, x)
                   \/ /\ phase = "running" /\ ~call.busy
                      /\ mode = "macro" /\ active /\ ~is_start /\ ~is_stop

RecordInv ==
    /\ Ordered(trace, done, highest) /\ Owns(trace, prog)
    /\ mode = "number" /\ trace # <<>> => Covered(trace, done, Quiet, trace[Len(trace)].n)

TraceInv == SwitchInv /\ TurnInv /\ MemInv /\ RecordInv

\* The invariant says that the trace is the execution.
LEMMA TraceIs == ASSUME SimShape, RecordInv PROVE TraceIsExecution
<1>1. \A p : InsnIn(prog, p) = Insn(p)
  BY Zenon DEF InsnIn, Insn
<1>2. \A p : Trailing(prog, p) <=> AfterStart(p)
  BY <1>1, Zenon DEF Trailing, AfterStart
<1>3. AccessesAreOwn
  BY <1>1, <1>2, Zenon DEF AccessesAreOwn, RecordInv, Owns, Stale
<1>4. NothingLeftOut
  BY <1>1, Zenon DEF NothingLeftOut, RecordInv, Covered, Quiet
<1>5. DOMAIN done = 1 .. Len(done)
  <2>1. done \in Seq(Entry)
    BY Zenon DEF SimShape
  <2> QED BY <2>1
<1>6. RecordsAreRetired
  BY <1>5, Zenon DEF RecordsAreRetired, RecordInv, Ordered, Fits
<1> QED BY <1>3, <1>4, <1>6, Zenon DEF TraceIsExecution

\* The records stand while instructions retire.
LEMMA RecordsStand ==
    ASSUME SimShape, RecordInv, UNCHANGED <<trace, prog, mode, highest>>, PrivShape',
           mode = "number" => prog_asid' = prog_asid, done' = done \/ Retire
    PROVE  /\ RecordInv'
           /\ \A k \in 0 .. Len(done) :
                 Covered(trace, done, Quiet, k) => Covered(trace, done', Quiet, k)
<1>0. mode = "number" => Quiet' = Quiet
  BY Zenon DEF Quiet
<1>1. CASE done' = done
  BY <1>0, <1>1, Zenon DEF RecordInv
<1>2. CASE Retire
  <2>1. PICK e \in Entry : done' = Append(done, e)
    BY <1>2, RetireIs, Zenon
  <2>4. trace \in Seq(Record) /\ done \in Seq(Entry) /\ Ordered(trace, done, highest)
    BY Zenon DEF SimShape, RecordInv
  <2>2. /\ Ordered(trace, done', highest)
        /\ \A S, k : k \in 0 .. Len(done) /\ Covered(trace, done, S, k)
                       => Covered(trace, done', S, k)
    BY <2>1, <2>4, LongerDone, Zenon
  <2>3. ASSUME mode = "number", trace # <<>> PROVE Covered(trace, done', Quiet, trace[Len(trace)].n)
    <3>1. Len(trace) \in DOMAIN trace
      BY <2>3, <2>4
    <3>2. trace[Len(trace)].n \in 0 .. Len(done)
      BY <2>4, <3>1 DEF Ordered
    <3> QED BY <2>2, <2>3, <3>2, Zenon DEF RecordInv
  <2> QED BY <1>0, <2>2, <2>3, Zenon DEF RecordInv
<1> QED BY <1>1, <1>2, Zenon

\* The start opcode's trail, over a step that does not come to the foot of the loop.
LEMMA TrailStep == ASSUME SimShape, OnTrail, CallStep, prog' = prog PROVE OnTrail'
<1>1. prog \in Progs /\ pc \in Place /\ mepc \in Place
  BY Zenon DEF SimShape
<1>2. Len(prog) \in Nat /\ Len(prog) + 1 < Handler /\ Handler \in Nat
  BY <1>1, Places, InterpAssumption, Zenon
<1>3. CASE Checked \/ Over
  BY <1>3, Zenon DEF Checked, Over, OnTrail
<1>4. CASE Diverted \/ Called
  BY <1>4, Zenon DEF Diverted, Called, OnTrail
<1>5. CASE Finished /\ pc' = After(pc) /\ Insn(pc) \in {"wfi", "csrexit", "drop"}
  <2>1. pc \in 1 .. Len(prog) /\ After(pc) \in 1 .. Len(prog)
    BY <1>1, <1>5, Onward, Zenon
  <2>2. pc \in Nat \ {0} /\ pc # Handler /\ After(pc) # Handler /\ After(pc) = pc + 1
    BY <1>2, <2>1 DEF After
  <2>3. Trailing(prog, pc) /\ InsnIn(prog, pc) \in {"wfi", "csrexit", "drop"}
    BY <1>5, <2>2, Zenon DEF OnTrail, Insn, InsnIn
  <2>4. Trailing(prog, pc + 1)
    BY <2>2, <2>3, TrailGoesOn, Zenon
  <2> QED BY <1>5, <2>2, <2>4, Zenon DEF OnTrail
<1>6. CASE Finished /\ pc' = mepc /\ Insn(pc) = "mret"
  <2>1. pc = Handler
    <3>1. prog \in Seq(Kind)
      BY <1>1, InterpAssumption, Zenon
    <3>2. pc \in 1 .. Len(prog) => prog[pc] \in Kind
      BY <3>1
    <3>3. "mret" \notin Kind
      BY Zenon DEF Kind
    <3> QED BY <1>1, <1>6, <3>2, <3>3, Zenon DEF Insn, Place
  <2> QED BY <1>6, <2>1, Zenon DEF OnTrail, Finished
<1> QED BY <1>3, <1>4, <1>5, <1>6, Zenon DEF CallStep, Finished

\* While the call goes on only stale accesses wait, and a turn that is traced stands before
\* its instruction or has it behind it.
LEMMA Amid ==
    ASSUME SimShape, TraceInv, call.busy
    PROVE  /\ \A x \in mem : Stale(prog, x)
           /\ phase = "running" /\ active => Before \/ Through
           /\ phase = "running" /\ active /\ Rest >= 1 => Before
           /\ phase = "running" /\ active /\ Rest = 0 => Through
<1>1. \A x \in mem : Stale(prog, x)
  BY Zenon DEF TraceInv, MemInv
<1>2. phase = "running" /\ active => Before \/ Through
  BY Zenon DEF TraceInv, TurnInv, Aside
<1>3. ~(Before /\ Rest = 0) /\ ~(Through /\ Rest >= 1)
  BY DEF Before, Through
<1> QED BY <1>1, <1>2, <1>3, Zenon

\* The instruction before which the turn stood retires.
LEMMA GetsThrough ==
    ASSUME SimShape, TraceInv, Before, Retire, PrivShape', Rest' = 0,
           UNCHANGED <<trace, prog, mode, highest, last_pc, turn_priv>>,
           mode = "number" => prog_asid' = prog_asid,
           \A x \in mem' : x \in mem \/ x.at = Len(done),
           Insn(pc) \in {"ecall", "shutdown", "mret"}
             \/ (exc' = None /\ (info' # "nop" \/ pc' = After(pc)))
    PROVE  Through'
<1>1. /\ pc = last_pc /\ priv = turn_priv /\ call.busy
      /\ mode = "number" => Covered(trace, done, Quiet, Len(done))
  BY Zenon DEF Before
<1>0. PICK e \in Entry : /\ e.pc = pc /\ e.priv = priv /\ e.satp = satp'
                         /\ Len(done') = Len(done) + 1
                         /\ done'[Len(done')] = e /\ Len(done) \in Nat
  BY RetireIs, Zenon
<1>2. /\ Len(done') = Len(done) + 1 /\ Len(done) \in Nat
      /\ done'[Len(done')].pc = last_pc /\ done'[Len(done')].priv = turn_priv
      /\ done'[Len(done')].satp = satp'
  BY <1>0, <1>1, Zenon
<1>3. ASSUME NEW i \in DOMAIN trace PROVE trace[i].n < Len(done')
  <2>1. trace[i].n \in 1 .. Len(done)
    BY Zenon DEF TraceInv, RecordInv, Ordered
  <2> QED BY <1>2, <2>1
<1>4. \A x \in mem' : x.at + 1 = Len(done') \/ Stale(prog, x)
  BY <1>1, <1>2, Amid, Zenon
<1>5. mode = "number" => Covered(trace, done', Quiet, Len(done') - 1)
  <2>1. Len(done) \in 0 .. Len(done) /\ Len(done') - 1 = Len(done)
    BY <1>1, <1>2
  <2> QED BY <1>1, <2>1, RecordsStand, Zenon DEF TraceInv
<1>6. Len(done') >= 1
  BY <1>2
<1>7. Insn(pc) \in {"ecall", "shutdown", "mret"} => done'[Len(done')] \in Quiet'
  <2>1. InsnIn(prog', e.pc) = Insn(pc)
    BY <1>0, Zenon DEF InsnIn, Insn
  <2> QED BY <1>0, <2>1, Zenon DEF Quiet
<1>8. mode = "number" => Quiet' = Quiet
  BY Zenon DEF Quiet
<1> QED BY <1>1, <1>2, <1>3, <1>4, <1>5, <1>6, <1>7, <1>8, Zenon DEF Through

\* A step of the call that does not come to the foot of the loop,
LEMMA TraceElsewhere == ASSUME SimShape, TraceInv, Elsewhere, prog' = prog PROVE TraceInv'
<1>1. /\ UNCHANGED <<prog, mode, phase, last_pc, turn_priv, highest, prog_asid, active, is_start,
                      is_stop, trace, num_executed>>
      /\ phase = "running" /\ Quiet' = Quiet
  BY Zenon DEF Elsewhere, Unmoved, Faults, Ends, Quiet
<1>0. PrivShape'
  BY PrivStep, Zenon
<1>2. CallStep
  BY ElsewhereIs, Zenon
<1>3. call.busy
  BY <1>2, Zenon DEF CallStep, Checked, Over, Diverted, Called, Finished, Returns
<1>4. done' = done \/ Retire
  BY <1>2, Zenon DEF CallStep, Checked, Over, Diverted, Called, Finished
<1>5. /\ RecordInv'
      /\ \A k \in 0 .. Len(done) : Covered(trace, done, Quiet, k) => Covered(trace, done', Quiet, k)
  BY <1>0, <1>1, <1>4, RecordsStand, Zenon DEF TraceInv
<1>6. SwitchInv'
  <2>1. OnTrail => OnTrail'
    BY <1>1, <1>2, TrailStep, Zenon
  <2> QED BY <1>1, <2>1, Zenon DEF TraceInv, SwitchInv
<1>7. call' = NoCall => ~call'.busy /\ Rest' = 0
  BY DEF NoCall, Rest
<1>8. MemInv'
  <2>1. CASE mem' = mem
    BY <1>1, <1>3, <2>1, Amid, Zenon DEF MemInv
  <2>2. CASE mem' # mem
    <3>1. /\ Diverted /\ Insn(pc) = "amo" /\ mode = "macro" /\ active /\ ~call'.busy
          /\ mem' = mem \cup {[pc |-> pc, at |-> Len(done)]}
      BY <1>2, <1>7, <2>2, Zenon
         DEF CallStep, Checked, Over, Diverted, Called, Finished, Track, Returns
    <3>2. is_start => Stale(prog, [pc |-> pc, at |-> Len(done)])
      BY <3>1, Zenon DEF TraceInv, SwitchInv, OnTrail, Stale, Insn, InsnIn
    <3>3. ~is_stop
      BY <3>1, Zenon DEF TraceInv, SwitchInv
    <3> QED BY <1>1, <1>3, <3>1, <3>2, <3>3, Amid, Zenon DEF MemInv
  <2> QED BY <2>1, <2>2, Zenon
<1>9. TurnInv'
  <2>1. SUFFICES ASSUME active PROVE (Before \/ Through \/ Aside)'
    BY <1>1, Zenon DEF TurnInv
  <2>2. CASE Checked
    <3>1. Rest = call.n /\ Rest' = Rest /\ Rest >= 1
      BY <2>2 DEF Checked, Rest, SimShape, Call
    <3>2. Before
      BY <1>1, <1>3, <2>1, <3>1, Amid, Zenon
    <3> QED BY <1>1, <2>2, <3>1, <3>2, Zenon DEF Before, Checked
  <2>3. CASE Over
    <3>1. Through
      BY <1>1, <1>3, <2>1, <2>3, Amid, Zenon DEF Over
    <3>2. Rest' = 0
      BY <1>7, <2>3, Zenon DEF Over, Returns
    <3> QED BY <1>1, <2>3, <3>1, <3>2, Zenon DEF Through, Over
  <2>4. CASE Diverted
    <3>1. Before
      BY <1>1, <1>3, <2>1, <2>4, Amid, Zenon DEF Diverted
    <3> QED BY <1>1, <1>7, <2>4, <3>1, Zenon DEF Before, Diverted, Aside, Returns
  <2>5. CASE Called
    <3>1. Before
      BY <1>1, <1>3, <2>1, <2>5, Amid, Zenon DEF Called
    <3>2. Insn(pc) \in {"ecall", "shutdown", "mret"} /\ Retire /\ Rest' = 0 /\ mem' = mem
      BY <1>7, <2>5, Zenon DEF Called, Returns
    <3> QED BY <1>0, <1>1, <3>1, <3>2, GetsThrough, Zenon
  <2>6. CASE Finished
    <3>1. Before
      BY <1>1, <1>3, <2>1, <2>6, Amid, Zenon DEF Finished
    <3>2. Retire /\ Rest' = 0 /\ mem' = mem
      BY <1>7, <2>6, Zenon DEF Finished, Returns
    <3>3. exc' = None
      BY <2>6, <3>1 DEF Finished, Before, SimShape, Call
    <3>4. Insn(pc) \in {"ecall", "shutdown", "mret"}
            \/ (exc' = None /\ (info' # "nop" \/ pc' = After(pc)))
      BY <2>6, <3>3, Zenon DEF Finished
    <3> QED BY <1>0, <1>1, <3>1, <3>2, <3>4, GetsThrough, Zenon
  <2> QED BY <1>2, <2>2, <2>3, <2>4, <2>5, <2>6, Zenon DEF CallStep
<1> QED BY <1>5, <1>6, <1>8, <1>9, Zenon DEF TraceInv

\* one that does,
LEMMA TraceFoot == ASSUME SimShape, TraceInv, Foot, prog' = prog PROVE TraceInv'
<1>1. /\ UNCHANGED <<prog, mode, phase, last_pc, turn_priv, highest, trace, num_executed>>
      /\ phase = "running"
  BY Zenon DEF Foot, Unmoved
<1>0. PrivShape' /\ (mode = "number" => prog_asid' = prog_asid /\ Quiet' = Quiet)
  <2>1. PrivShape'
    BY PrivStep, Zenon
  <2>2. mode = "number" => prog_asid' = prog_asid
    BY Zenon DEF Foot, MacroTrigger
  <2> QED BY <1>1, <2>1, <2>2, Zenon DEF Quiet
<1>2. Went
  BY FootIs, Zenon
<1>3. Retire /\ Rest >= 1 /\ call.busy /\ call.executed >= 0
  BY <1>2, Zenon DEF Went
<1>4. RecordInv'
  BY <1>0, <1>1, <1>3, RecordsStand, Zenon DEF TraceInv
<1>5. /\ mode # "macro" => UNCHANGED <<active, is_start, is_stop>>
      /\ mode = "macro" => /\ is_start' <=> Insn(pc) = "start"
                           /\ is_stop' <=> Insn(pc) = "stop"
                           /\ active' <=> /\ active \/ Insn(pc) = "start"
                                          /\ ~(active /\ Insn(pc) = "stop")
  BY <1>2, Zenon DEF Went, MacroTrigger
<1>6. SwitchInv'
  <2>1. ASSUME Insn(pc) = "start" PROVE OnTrail'
    <3>1. pc' = After(pc)
      BY <1>2, <2>1, Zenon DEF Went
    <3>2. prog \in Progs /\ pc \in Place /\ Insn(pc) \notin {"mret", "jump"}
      BY <2>1, Zenon DEF SimShape
    <3>3. pc \in 1 .. Len(prog) /\ After(pc) \in 1 .. Len(prog)
      BY <3>2, Onward, Zenon
    <3>4. Len(prog) \in Nat /\ Len(prog) + 1 < Handler
      BY <3>2, Places, Zenon
    <3>5. pc \in Nat \ {0} /\ pc # Handler /\ After(pc) # Handler /\ After(pc) = pc + 1
      BY <3>3, <3>4, InterpAssumption DEF After
    <3>6. Trailing(prog, pc + 1)
      BY <2>1, <3>5, TrailGoesOn, Zenon DEF Insn, InsnIn
    <3> QED BY <1>1, <3>1, <3>5, <3>6, Zenon DEF OnTrail
  <2>2. mode = "macro" => (is_stop' => ~active') /\ (is_start' => OnTrail')
    BY <1>5, <2>1, Zenon
  <2>3. mode # "macro" => SwitchInv'
    BY <1>0, <1>1, <1>5, Zenon DEF TraceInv, SwitchInv
  <2> QED BY <1>1, <2>2, <2>3, Zenon DEF SwitchInv
<1>7. call' = NoCall => ~call'.busy /\ Rest' = 0
  BY DEF NoCall, Rest
<1>8. /\ mem' = mem \/ mem' = mem \cup {[pc |-> pc, at |-> Len(done)]}
      /\ mem' # mem => Insn(pc) \in {"load", "amo"} /\ mode = "macro" /\ active
  BY <1>2, Zenon DEF Went, Track
<1>9. MemInv'
  <2>1. CASE mem' = mem
    BY <1>1, <1>3, <2>1, Amid, Zenon DEF MemInv
  <2>2. CASE mem' # mem
    <3>1. mode = "macro" /\ active' /\ ~is_start' /\ ~is_stop'
      BY <1>5, <1>8, <2>2, Zenon
    <3>2. ~call'.busy
      BY <1>2, <1>7, <3>1, Zenon DEF Went, Leaves
    <3> QED BY <1>1, <3>1, <3>2, Zenon DEF MemInv
  <2> QED BY <2>1, <2>2, Zenon
<1>10. TurnInv'
  <2>1. SUFFICES ASSUME active', mode = "macro" /\ is_start' => call'.busy PROVE Through'
    BY <1>1, Zenon DEF TurnInv
  <2>2. active
    <3>1. CASE mode # "macro"
      BY <1>5, <2>1, <3>1, Zenon
    <3>2. CASE mode = "macro"
      <4>1. ~call'.busy
        BY <1>2, <1>7, <2>1, <3>2, Zenon DEF Went, Leaves
      <4> QED BY <1>5, <2>1, <3>2, <4>1, Zenon
    <3> QED BY <3>1, <3>2, Zenon
  <2>3. Before
    BY <1>1, <1>3, <2>2, Amid, Zenon
  <2>4. Rest' = 0
    <3>1. CASE Leaves
      BY <1>2, <1>7, <3>1, Zenon DEF Went
    <3>2. CASE ~Leaves
      <4>1. call'.busy /\ call'.n = call.n - 1 /\ call'.executed = call.executed + 1
        BY <1>2, <3>2, Zenon DEF Went
      <4>2. call.n \in Int /\ call.executed \in Int /\ Rest = 1
        BY <2>3, Zenon DEF SimShape, Call, Before
      <4>3. call.n - 1 = 1
        BY <1>3, <4>2 DEF Rest
      <4> QED BY <1>3, <4>1, <4>2, <4>3 DEF Rest
    <3> QED BY <3>1, <3>2, Zenon
  <2>5. exc' = None
    <3>1. call.executed \in Int /\ call.executed # -1
      BY <1>3 DEF SimShape, Call
    <3> QED BY <1>2, <2>3, <3>1, Zenon DEF Went, Before
  <2>6. info' # "nop" \/ pc' = After(pc)
    BY <1>2, Zenon DEF Went
  <2>7. \A x \in mem' : x \in mem \/ x.at = Len(done)
    BY <1>8
  <2> QED BY <1>0, <1>1, <1>3, <2>3, <2>4, <2>5, <2>6, <2>7, GetsThrough, Zenon
<1> QED BY <1>4, <1>6, <1>9, <1>10, Zenon DEF TraceInv

\* the turn that begins,
LEMMA TraceTurn == ASSUME SimShape, TraceInv, IterateCore, prog' = prog PROVE TraceInv'
<1>1. /\ UNCHANGED <<prog, mode, highest, trace, is_start, is_stop, mem>>
      /\ last_pc' = pc /\ turn_priv' = priv /\ phase = "top"
  BY Zenon DEF IterateCore
<1>2. PICK m \in Nat \ {0} :
              /\ num_executed' = num_executed + m
              /\ m = 1 \/ ~active'
              /\ \/ phase' = "halt" /\ CpuStays
                 \/ phase' = "running" /\ maxinsns' # 0 /\ Enter(m)
  BY TurnIs, Zenon
<1>3. UNCHANGED <<pc, mepc, priv, done>> /\ phase' # "top"
  BY <1>2, Zenon DEF Enter, CpuStays
<1>4. /\ mode # "number" => (active' <=> active)
      /\ active' => active \/ (mode = "number" /\ num_executed = StfStart)
  BY Zenon DEF IterateCore, InsnTrigger
<1>7. num_executed \in Nat /\ StfStart \in Nat
  BY SimulationAssumption, Zenon DEF SimShape
<1>10. mode = "number" /\ (active \/ trace # <<>>) => Quiet' = Quiet
  <2>1. num_executed # StfStart \/ active => prog_asid' = prog_asid
    BY Zenon DEF IterateCore, InsnTrigger
  <2>2. mode = "number" /\ trace # <<>> => num_executed # StfStart
    BY <1>7 DEF TraceInv, SwitchInv
  <2> QED BY <1>1, <2>1, <2>2, Zenon DEF Quiet
<1>5. RecordInv'
  BY <1>1, <1>3, <1>10, Zenon DEF TraceInv, RecordInv
<1>6. MemInv'
  BY <1>1, Zenon DEF TraceInv, MemInv
<1>8. SwitchInv'
  <2>1. mode = "number" => (active' \/ trace # <<>> => num_executed' > StfStart)
    BY <1>2, <1>4, <1>7 DEF TraceInv, SwitchInv
  <2>2. OnTrail' <=> OnTrail
    BY <1>1, <1>3, Zenon DEF OnTrail
  <2> QED BY <1>1, <1>3, <1>4, <2>1, <2>2, Zenon DEF TraceInv, SwitchInv
<1>9. TurnInv'
  <2>1. SUFFICES ASSUME phase' = "running", active' PROVE Before'
    BY Zenon DEF TurnInv
  <2>2. Enter(1)
    BY <1>2, <2>1, Zenon
  <2>3. /\ call' = [busy |-> TRUE, n |-> 1, addend |-> insn_counter + 1,
                      start |-> insn_counter, executed |-> -1, window |-> FALSE]
        /\ info' = "nop"
    BY <2>2 DEF Enter
  <2>4. call'.busy /\ Rest' = 1 /\ call'.executed = -1
    BY <2>3, Zenon DEF Rest
  <2>5. mode = "number" => Covered(trace, done, Quiet', Len(done))
    <3>1. CASE active
      BY <1>1, <1>10, <3>1, Zenon DEF TraceInv, SwitchInv
    <3>2. CASE num_executed = StfStart
      BY <1>7, <3>2 DEF TraceInv, SwitchInv, Covered
    <3> QED BY <1>4, <2>1, <3>1, <3>2, Zenon
  <2> QED BY <1>1, <1>3, <2>3, <2>4, <2>5, Zenon DEF Before
<1> QED BY <1>5, <1>6, <1>8, <1>9, Zenon DEF TraceInv

\* and the record at its end.
LEMMA TraceEnd == ASSUME SimShape, TraceInv, EndOfTurn, prog' = prog PROVE TraceInv'
<1>1. /\ UNCHANGED <<pc, mepc, exc, info, call, done, mode, last_pc, highest, prog_asid,
                      num_executed, active, is_start, is_stop>>
      /\ phase = "running" /\ ~call.busy /\ phase' # "running" /\ stf_trace_element
      /\ Quiet' = Quiet
  BY Zenon DEF EndOfTurn, cpuVars, Quiet
<1>2. TurnInv'
  BY <1>1, Zenon DEF TurnInv
<1>3. OnTrail' <=> OnTrail
  BY <1>1, Zenon DEF OnTrail
<1>4. CASE ~(active /\ (mode = "number" \/ (~is_start /\ ~is_stop)))
  <2>1. trace' = trace /\ mem' = mem
    BY <1>1, <1>4, Zenon DEF stf_trace_element
  <2>2. MemInv'
    BY <1>1, <1>4, <2>1, Zenon DEF TraceInv, MemInv
  <2>3. RecordInv'
    BY <1>1, <2>1, Zenon DEF TraceInv, RecordInv
  <2>4. SwitchInv'
    BY <1>1, <1>3, <1>4, <2>1, Zenon DEF TraceInv, SwitchInv
  <2> QED BY <1>2, <2>2, <2>3, <2>4, Zenon DEF TraceInv
<1>5. CASE active /\ (mode = "number" \/ (~is_start /\ ~is_stop))
  <2>1. /\ mem' = {}
        /\ trace' = IF Traceable /\ ~Skipped
                    THEN Append(trace, [pc |-> last_pc, mem |-> mem, n |-> Len(done)])
                    ELSE trace
    BY <1>1, <1>5, Zenon DEF stf_trace_element, stf_emit_memory_records, MemAfter
  <2>2. MemInv'
    BY <2>1, Zenon DEF MemInv
  <2>3. Through \/ Aside
    BY <1>1, <1>5, Zenon DEF TraceInv, TurnInv, Before
  <2>4. SUFFICES /\ RecordInv'
                 /\ mode = "number" => Covered(trace', done, Quiet, Len(done))
    <3>1. mode = "number" => num_executed > StfStart
      BY <1>5, Zenon DEF TraceInv, SwitchInv
    <3>2. ASSUME RecordInv', mode = "number" => Covered(trace', done, Quiet, Len(done))
          PROVE  SwitchInv'
      BY <1>1, <1>3, <3>1, <3>2, Zenon DEF TraceInv, SwitchInv
    <3> QED BY <1>2, <2>2, <3>2, Zenon DEF TraceInv
  <2>5. CASE trace' = trace /\ Aside
    BY <1>1, <2>5, Zenon DEF TraceInv, RecordInv, Aside
  <2>6. CASE Aside
    <3>1. After(last_pc) # Handler
      <4>1. last_pc \in Place /\ Len(prog) \in Nat /\ Len(prog) + 1 < Handler
        BY Places, Zenon DEF SimShape
      <4> QED BY <4>1, InterpAssumption DEF Place, After
    <3>2. Skipped
      BY <2>6, <3>1, Zenon DEF Aside, Skipped
    <3> QED BY <2>1, <2>5, <2>6, <3>2, Zenon
  <2>7. CASE Through /\ ~(Traceable /\ ~Skipped)
    <3>1. trace' = trace
      BY <2>1, <2>7, Zenon
    <3>2. done[Len(done)] \in Quiet
      <4>1. done \in Seq(Entry) /\ Len(done) >= 1 /\ turn_priv \in Int /\ highest \in Int
        BY <2>7, Zenon DEF SimShape, Through
      <4>2. PICK e : e = done[Len(done)]
        BY Zenon
      <4>3. e \in Entry /\ e.priv = turn_priv /\ e.satp = satp
        BY <2>7, <4>1, <4>2 DEF Through
      <4>4. CASE exc = None /\ ~Skipped
        <5>1. ~(turn_priv <= highest /\ prog_asid = satp)
          BY <2>7, <4>4, Zenon DEF Traceable
        <5>2. turn_priv > highest \/ satp # prog_asid
          BY <4>1, <5>1
        <5> QED BY <4>2, <4>3, <5>2, Zenon DEF Quiet
      <4>5. CASE ~(exc = None /\ ~Skipped)
        BY <2>7, <4>5, Zenon DEF Through, Skipped
      <4> QED BY <4>4, <4>5, Zenon
    <3>3. RecordInv'
      BY <1>1, <3>1, Zenon DEF TraceInv, RecordInv
    <3>4. Len(done) \in Nat
      BY DEF SimShape
    <3>5. mode = "number" => Covered(trace, done, Quiet, Len(done))
      BY <2>7, <3>2, <3>4, SilentCovers, Zenon DEF Through
    <3> QED BY <3>1, <3>3, <3>5, Zenon
  <2>8. CASE Through /\ Traceable /\ ~Skipped
    <3>1. /\ trace \in Seq(Record) /\ done \in Seq(Entry) /\ mem \in SUBSET Access
          /\ Ordered(trace, done, highest) /\ Owns(trace, prog)
      BY Zenon DEF SimShape, TraceInv, RecordInv
    <3>2. /\ Len(done) >= 1 /\ \A i \in DOMAIN trace : trace[i].n < Len(done)
          /\ last_pc = done[Len(done)].pc /\ done[Len(done)].priv <= highest
          /\ \A x \in mem : x.at + 1 = Len(done) \/ Stale(prog, x)
          /\ mode = "number" => Covered(trace, done, Quiet, Len(done) - 1)
      BY <2>8, Zenon DEF Through, Traceable
    <3>3. trace' = Append(trace, [pc |-> last_pc, mem |-> mem, n |-> Len(done)])
      BY <2>1, <2>8, Zenon
    <3>4. Extends(trace', trace, done, highest, mem)
      BY <3>1, <3>2, <3>3, LongerTrace, Zenon
    <3>5. Owns(trace', prog) /\ (mode = "number" => Covered(trace', done, Quiet, Len(done)))
      BY <3>1, <3>2, <3>4, Zenon DEF Extends
    <3> QED BY <1>1, <3>4, <3>5, Zenon DEF RecordInv, Extends
  <2> QED BY <2>3, <2>6, <2>7, <2>8, Zenon
<1> QED BY <1>4, <1>5, Zenon

LEMMA TraceStep == ASSUME SimShape, TraceInv, [SimulationNext]_simulation PROVE TraceInv'
<1>1. prog' = prog
  BY SameProgram, Zenon
<1>2. CASE DeviceRaises \/ UNCHANGED simulation
  <2>1. UNCHANGED <<prog, pc, mepc, priv, satp, exc, info, call, done, simVars>>
    BY <1>2, Zenon DEF DeviceRaises, Raise, simulation, cpuVars
  <2>2. Quiet' = Quiet
    BY <2>1, Zenon DEF Quiet, simVars
  <2> QED BY <2>1, <2>2 DEF TraceInv, SwitchInv, TurnInv, MemInv, RecordInv, OnTrail, Before, Through,
                           Aside, Rest, simVars
<1> QED BY <1>1, <1>2, TraceElsewhere, TraceFoot, TraceTurn, TraceEnd, Zenon
        DEF SimulationNext, Halted

\* The trace is the execution: its records are instructions that retired, in their order
\* and each one once, in a privilege that --stf_priv_modes includes and with the accesses of
\* the attempt that completed, and a trace by numbers leaves out only ecalls, returns and
\* what the filters of privilege and satp exclude (stf_trace_element, for every program,
\* request, limit and choice of privileges).
THEOREM TraceTheorem == SimulationSpec => []TraceIsExecution
<1>1. SimulationInit => TraceInv
  <2> SUFFICES ASSUME SimulationInit PROVE TraceInv
    BY Zenon
  <2>1. phase = "top" /\ ~active /\ ~is_start /\ ~is_stop /\ mem = {} /\ trace = <<>>
    BY Zenon DEF SimulationInit, SimInit
  <2>2. DOMAIN trace = {} /\ Len(trace) = 0
    BY <2>1
  <2>3. SwitchInv /\ TurnInv /\ MemInv
    BY <2>1, Zenon DEF SwitchInv, TurnInv, MemInv
  <2>4. RecordInv
    <3>1. Ordered(trace, done, highest) /\ Owns(trace, prog)
      BY <2>1, <2>2 DEF Ordered, Owns
    <3> QED BY <2>1, <3>1, Zenon DEF RecordInv
  <2> QED BY <2>3, <2>4, Zenon DEF TraceInv
<1>2. SimShape /\ TraceInv => TraceIsExecution
  BY TraceIs, Zenon DEF TraceInv
<1> QED BY <1>1, <1>2, SimulationStart, ShapeStep, TraceStep, PTL DEF SimulationSpec
=============================================================================
