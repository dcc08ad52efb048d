----------------------------- MODULE CosimProofs -----------------------------
(* The emulator follows every correct DUT whose only interrupt is the timer's, and
   reports every wrong result.

   FollowsDut speaks of the moments when no trap is outstanding.  What holds at every
   moment is that the DUT is where the emulator will be once it has taken the traps it
   was told of (Ahead), up to a reservation that the DUT has lost; and, while a step
   is running, that the DUT is one instruction further. *)
EXTENDS Cosim, TLAPS

Field == {"pc", "priv", "base", "x", "mem", "resv", "sepc", "mepc", "mpp", "scause", "mcause"}

GoodState(s) ==
    /\ DOMAIN s = Field /\ s = [f \in DOMAIN s |-> s[f]]
    /\ s.pc \in 0 .. UserSize + 3 /\ s.mepc \in 0 .. UserSize + 3
    /\ s.sepc \in 0 .. UserSize - 1
    /\ s.base \in Bit /\ s.x \in Bit /\ s.mem \in Bit
    /\ s.resv \in BOOLEAN

GoodProg ==
    /\ \A a \in 0 .. UserSize - 1 : prog[a] \in UserKind
    /\ prog[UserSize] = "skip" /\ prog[UserSize + 1] = "sret"
    /\ prog[UserSize + 2] = "ack" /\ prog[UserSize + 3] = "mret"

\* Where the emulator will be after the traps it was told of.
AfterException == IF pending_exception = None THEN emu ELSE EnterException(emu)
Ahead ==
    IF pending_interrupt = None THEN AfterException
                                ELSE EnterInterrupt(AfterException, pending_interrupt)

\* A trap that was reported can be taken, and the emulator's timer interrupt is raised
\* only at the first instruction of its handler.
TrapsDue ==
    /\ pending_exception # None => pending_exception = ILLEGAL /\ prog[emu.pc] = "fault"
    /\ pending_interrupt # None => pending_interrupt = MTIP /\ Interruptible(AfterException)
    /\ mip \subseteq {MTIP}
    /\ mip # {} => emu.pc = MHandler /\ emu.priv = "M"

\* The DUT has retired the instruction at s.pc, and the running step was told so.
Retired(s, v, ok) ==
    LET insn == prog[s.pc] IN
    /\ insn # "fault"
    /\ ok => insn = "sc" /\ s.resv
    /\ dut = [Step(s, insn, v, ok) EXCEPT !.resv = @ /\ insn # "sc"]
    /\ call = [busy |-> TRUE, pc |-> s.pc, insn |-> insn, wdata |-> Data(dut, insn)]

Following(s) ==
    \/ call = Idle /\ dut = s
    \/ \E v \in Bit, ok \in BOOLEAN : Retired(s, v, ok)

\* The running step was told a wrong value of a register the emulator knows.
Mistaken ==
    LET insn == prog[emu.pc]
        right == IF insn = "base" THEN 1 - emu.base ELSE emu.mem
    IN
    /\ pending_exception = None /\ pending_interrupt = None
    /\ insn \in {"base", "lr", "load"} /\ (insn = "load" => emu.base = Ram)
    /\ call = [busy |-> TRUE, pc |-> emu.pc, insn |-> insn, wdata |-> 1 - right]

CosimInv ==
    /\ GoodProg
    /\ wrong \in {"no", "value", "cause"}
    /\ wrong # "cause" => GoodState(emu)
    /\ wrong = "no" =>
          /\ verdict = "ok" /\ TrapsDue
          /\ \E r \in BOOLEAN : (r => emu.resv) /\ Following([Ahead EXCEPT !.resv = r])
    /\ wrong = "value" => (call = Idle /\ verdict = "mismatch") \/ Mistaken

-----------------------------------------------------------------------------
\* Programs and traps

LEMMA ProgramGood ==
    ASSUME NEW user \in [0 .. UserSize - 1 -> UserInsn], prog = Code(user)
    PROVE  GoodProg
<1>1. ASSUME NEW a \in 0 .. UserSize - 1 PROVE prog[a] \in UserKind
  BY CosimAssumption DEF Code
<1>2. prog[UserSize] = "skip" /\ prog[UserSize + 1] = "sret"
  BY CosimAssumption DEF Code
<1>3. prog[UserSize + 2] = "ack" /\ prog[UserSize + 3] = "mret"
  BY CosimAssumption DEF Code
<1> QED BY <1>1, <1>2, <1>3 DEF GoodProg

\* Only user code faults, and only it has an ECALL.
LEMMA UserInsns ==
    ASSUME GoodProg, NEW a \in 0 .. UserSize + 3
    PROVE  /\ prog[a] \in UserKind \cup {"skip", "sret", "ack", "mret"}
           /\ prog[a] \in UserKind => a \in 0 .. UserSize - 1
           /\ prog[a] = "mret" => a = UserSize + 3
           /\ prog[a] # "mret" => a \in 0 .. UserSize + 2
<1> USE CosimAssumption DEF GoodProg, UserKind
<1>1. CASE a \in 0 .. UserSize - 1
  BY <1>1
<1>2. CASE a = UserSize
  BY <1>2
<1>3. CASE a = UserSize + 1
  BY <1>3
<1>4. CASE a = UserSize + 2
  BY <1>4
<1>5. CASE a = UserSize + 3
  BY <1>5
<1> QED BY <1>1, <1>2, <1>3, <1>4, <1>5

LEMMA ExceptionGood ==
    ASSUME NEW s, GoodState(s), s.pc \in 0 .. UserSize - 1
    PROVE  LET e == EnterException(s) IN
           /\ GoodState(e)
           /\ e.pc = SHandler /\ e.priv = "S" /\ e.scause = ILLEGAL /\ e.resv = s.resv
<1> DEFINE e == EnterException(s)
<1> USE CosimAssumption DEF GoodState, EnterException, Field, SHandler
<1>1. DOMAIN e = Field
  OBVIOUS
<1>2. e = [f \in DOMAIN e |-> e[f]]
  OBVIOUS
<1>3. /\ e.pc \in 0 .. UserSize + 3 /\ e.mepc \in 0 .. UserSize + 3
      /\ e.sepc \in 0 .. UserSize - 1
      /\ e.base \in Bit /\ e.x \in Bit /\ e.mem \in Bit
      /\ e.resv \in BOOLEAN
  OBVIOUS
<1>4. e.pc = SHandler /\ e.priv = "S" /\ e.scause = ILLEGAL /\ e.resv = s.resv
  OBVIOUS
<1> QED BY <1>1, <1>2, <1>3, <1>4

LEMMA InterruptGood ==
    ASSUME NEW s, GoodState(s), NEW irq
    PROVE  LET e == EnterInterrupt(s, irq) IN
           /\ GoodState(e)
           /\ e.pc = MHandler /\ e.priv = "M" /\ e.resv = s.resv
<1> DEFINE e == EnterInterrupt(s, irq)
<1> USE CosimAssumption DEF GoodState, EnterInterrupt, Field, MHandler
<1>1. DOMAIN e = Field
  OBVIOUS
<1>2. e = [f \in DOMAIN e |-> e[f]]
  OBVIOUS
<1>3. /\ e.pc \in 0 .. UserSize + 3 /\ e.mepc \in 0 .. UserSize + 3
      /\ e.sepc \in 0 .. UserSize - 1
      /\ e.base \in Bit /\ e.x \in Bit /\ e.mem \in Bit
      /\ e.resv \in BOOLEAN
  OBVIOUS
<1>4. e.pc = MHandler /\ e.priv = "M" /\ e.resv = s.resv
  OBVIOUS
<1> QED BY <1>1, <1>2, <1>3, <1>4

LEMMA ReservationGood ==
    ASSUME NEW s, GoodState(s), NEW r \in BOOLEAN
    PROVE  LET e == [s EXCEPT !.resv = r] IN
           GoodState(e) /\ e.resv = r /\ e.pc = s.pc /\ e.priv = s.priv
<1> DEFINE e == [s EXCEPT !.resv = r]
<1> USE CosimAssumption DEF GoodState, Field
<1>1. DOMAIN e = Field
  OBVIOUS
<1>2. e = [f \in DOMAIN e |-> e[f]]
  OBVIOUS
<1>3. /\ e.pc \in 0 .. UserSize + 3 /\ e.mepc \in 0 .. UserSize + 3
      /\ e.sepc \in 0 .. UserSize - 1
      /\ e.base \in Bit /\ e.x \in Bit /\ e.mem \in Bit
      /\ e.resv \in BOOLEAN
  OBVIOUS
<1> QED BY <1>1, <1>2, <1>3

-----------------------------------------------------------------------------
\* Instructions


LEMMA StepGood ==
    ASSUME GoodProg, NEW s, GoodState(s), NEW v \in Bit, NEW ok \in BOOLEAN,
           prog[s.pc] # "fault"
    PROVE  GoodState(Step(s, prog[s.pc], v, ok))
<1> DEFINE insn == prog[s.pc]
           next == [s EXCEPT !.pc = NextPc(@)]
<1> SUFFICES GoodState(Step(s, insn, v, ok))
  OBVIOUS
<1>1. /\ insn \in (UserKind \ {"fault"}) \cup {"skip", "sret", "ack", "mret"}
      /\ insn \in UserKind => s.pc \in 0 .. UserSize - 1
      /\ insn # "mret" => s.pc \in 0 .. UserSize + 2
  BY UserInsns DEF GoodState
<1> HIDE DEF insn
<1>2. CASE insn = "base"
  <2> DEFINE e == [next EXCEPT !.base = 1 - @]
  <2>1. DOMAIN e = Field /\ e = [f \in DOMAIN e |-> e[f]]
    BY DEF GoodState, Field
  <2>2. /\ e.pc \in 0 .. UserSize + 3 /\ e.mepc \in 0 .. UserSize + 3
        /\ e.sepc \in 0 .. UserSize - 1
    BY <1>1, <1>2, CosimAssumption DEF GoodState, Field, NextPc, SHandler, UserKind
  <2>3. e.base \in Bit /\ e.x \in Bit /\ e.mem \in Bit /\ e.resv \in BOOLEAN
    BY DEF GoodState, Field, Bit
  <2>4. GoodState(e)
    BY <2>1, <2>2, <2>3 DEF GoodState
  <2>5. Step(s, insn, v, ok) = e
    BY <1>2 DEF Step
  <2> HIDE DEF e
  <2> QED BY <2>4, <2>5
<1>3. CASE insn = "load"
  <2> DEFINE e == [next EXCEPT !.x = IF s.base = Ram THEN s.mem ELSE v]
  <2>1. DOMAIN e = Field /\ e = [f \in DOMAIN e |-> e[f]]
    BY DEF GoodState, Field
  <2>2. /\ e.pc \in 0 .. UserSize + 3 /\ e.mepc \in 0 .. UserSize + 3
        /\ e.sepc \in 0 .. UserSize - 1
    BY <1>1, <1>3, CosimAssumption DEF GoodState, Field, NextPc, SHandler, UserKind
  <2>3. e.base \in Bit /\ e.x \in Bit /\ e.mem \in Bit /\ e.resv \in BOOLEAN
    BY DEF GoodState, Field, Bit
  <2>4. GoodState(e)
    BY <2>1, <2>2, <2>3 DEF GoodState
  <2>5. Step(s, insn, v, ok) = e
    BY <1>3 DEF Step
  <2> HIDE DEF e
  <2> QED BY <2>4, <2>5
<1>4. CASE insn = "csr"
  <2> DEFINE e == [next EXCEPT !.x = v]
  <2>1. DOMAIN e = Field /\ e = [f \in DOMAIN e |-> e[f]]
    BY DEF GoodState, Field
  <2>2. /\ e.pc \in 0 .. UserSize + 3 /\ e.mepc \in 0 .. UserSize + 3
        /\ e.sepc \in 0 .. UserSize - 1
    BY <1>1, <1>4, CosimAssumption DEF GoodState, Field, NextPc, SHandler, UserKind
  <2>3. e.base \in Bit /\ e.x \in Bit /\ e.mem \in Bit /\ e.resv \in BOOLEAN
    BY DEF GoodState, Field, Bit
  <2>4. GoodState(e)
    BY <2>1, <2>2, <2>3 DEF GoodState
  <2>5. Step(s, insn, v, ok) = e
    BY <1>4 DEF Step
  <2> HIDE DEF e
  <2> QED BY <2>4, <2>5
<1>5. CASE insn = "lr"
  <2> DEFINE e == [next EXCEPT !.x = s.mem, !.resv = TRUE]
  <2>1. DOMAIN e = Field /\ e = [f \in DOMAIN e |-> e[f]]
    BY DEF GoodState, Field
  <2>2. /\ e.pc \in 0 .. UserSize + 3 /\ e.mepc \in 0 .. UserSize + 3
        /\ e.sepc \in 0 .. UserSize - 1
    BY <1>1, <1>5, CosimAssumption DEF GoodState, Field, NextPc, SHandler, UserKind
  <2>3. e.base \in Bit /\ e.x \in Bit /\ e.mem \in Bit /\ e.resv \in BOOLEAN
    BY DEF GoodState, Field, Bit
  <2>4. GoodState(e)
    BY <2>1, <2>2, <2>3 DEF GoodState
  <2>5. Step(s, insn, v, ok) = e
    BY <1>5 DEF Step
  <2> HIDE DEF e
  <2> QED BY <2>4, <2>5
<1>6. CASE insn = "sc" /\ ok
  <2> DEFINE e == [next EXCEPT !.x = 0, !.mem = 1 - @, !.resv = FALSE]
  <2>1. DOMAIN e = Field /\ e = [f \in DOMAIN e |-> e[f]]
    BY DEF GoodState, Field
  <2>2. /\ e.pc \in 0 .. UserSize + 3 /\ e.mepc \in 0 .. UserSize + 3
        /\ e.sepc \in 0 .. UserSize - 1
    BY <1>1, <1>6, CosimAssumption DEF GoodState, Field, NextPc, SHandler, UserKind
  <2>3. e.base \in Bit /\ e.x \in Bit /\ e.mem \in Bit /\ e.resv \in BOOLEAN
    BY DEF GoodState, Field, Bit
  <2>4. GoodState(e)
    BY <2>1, <2>2, <2>3 DEF GoodState
  <2>5. Step(s, insn, v, ok) = e
    BY <1>6 DEF Step
  <2> HIDE DEF e
  <2> QED BY <2>4, <2>5
<1>7. CASE insn = "sc" /\ ~ok
  <2> DEFINE e == [next EXCEPT !.x = 1]
  <2>1. DOMAIN e = Field /\ e = [f \in DOMAIN e |-> e[f]]
    BY DEF GoodState, Field
  <2>2. /\ e.pc \in 0 .. UserSize + 3 /\ e.mepc \in 0 .. UserSize + 3
        /\ e.sepc \in 0 .. UserSize - 1
    BY <1>1, <1>7, CosimAssumption DEF GoodState, Field, NextPc, SHandler, UserKind
  <2>3. e.base \in Bit /\ e.x \in Bit /\ e.mem \in Bit /\ e.resv \in BOOLEAN
    BY DEF GoodState, Field, Bit
  <2>4. GoodState(e)
    BY <2>1, <2>2, <2>3 DEF GoodState
  <2>5. Step(s, insn, v, ok) = e
    BY <1>7 DEF Step
  <2> HIDE DEF e
  <2> QED BY <2>4, <2>5
<1>8. CASE insn = "ecall"
  <2> DEFINE e == [s EXCEPT !.pc = SHandler, !.priv = "S", !.sepc = s.pc, !.scause = USER_ECALL]
  <2>1. DOMAIN e = Field /\ e = [f \in DOMAIN e |-> e[f]]
    BY DEF GoodState, Field
  <2>2. /\ e.pc \in 0 .. UserSize + 3 /\ e.mepc \in 0 .. UserSize + 3
        /\ e.sepc \in 0 .. UserSize - 1
    BY <1>1, <1>8, CosimAssumption DEF GoodState, Field, NextPc, SHandler, UserKind
  <2>3. e.base \in Bit /\ e.x \in Bit /\ e.mem \in Bit /\ e.resv \in BOOLEAN
    BY DEF GoodState, Field, Bit
  <2>4. GoodState(e)
    BY <2>1, <2>2, <2>3 DEF GoodState
  <2>5. Step(s, insn, v, ok) = e
    BY <1>8 DEF Step
  <2> HIDE DEF e
  <2> QED BY <2>4, <2>5
<1>9. CASE insn = "skip"
  <2> DEFINE e == [next EXCEPT !.sepc = NextPc(@)]
  <2>1. DOMAIN e = Field /\ e = [f \in DOMAIN e |-> e[f]]
    BY DEF GoodState, Field
  <2>2. /\ e.pc \in 0 .. UserSize + 3 /\ e.mepc \in 0 .. UserSize + 3
        /\ e.sepc \in 0 .. UserSize - 1
    BY <1>1, <1>9, CosimAssumption DEF GoodState, Field, NextPc, SHandler, UserKind
  <2>3. e.base \in Bit /\ e.x \in Bit /\ e.mem \in Bit /\ e.resv \in BOOLEAN
    BY DEF GoodState, Field, Bit
  <2>4. GoodState(e)
    BY <2>1, <2>2, <2>3 DEF GoodState
  <2>5. Step(s, insn, v, ok) = e
    BY <1>9 DEF Step
  <2> HIDE DEF e
  <2> QED BY <2>4, <2>5
<1>10. CASE insn = "sret"
  <2> DEFINE e == [s EXCEPT !.pc = s.sepc, !.priv = "U"]
  <2>1. DOMAIN e = Field /\ e = [f \in DOMAIN e |-> e[f]]
    BY DEF GoodState, Field
  <2>2. /\ e.pc \in 0 .. UserSize + 3 /\ e.mepc \in 0 .. UserSize + 3
        /\ e.sepc \in 0 .. UserSize - 1
    BY <1>1, <1>10, CosimAssumption DEF GoodState, Field, NextPc, SHandler, UserKind
  <2>3. e.base \in Bit /\ e.x \in Bit /\ e.mem \in Bit /\ e.resv \in BOOLEAN
    BY DEF GoodState, Field, Bit
  <2>4. GoodState(e)
    BY <2>1, <2>2, <2>3 DEF GoodState
  <2>5. Step(s, insn, v, ok) = e
    BY <1>10 DEF Step
  <2> HIDE DEF e
  <2> QED BY <2>4, <2>5
<1>11. CASE insn = "ack"
  <2> DEFINE e == next
  <2>1. DOMAIN e = Field /\ e = [f \in DOMAIN e |-> e[f]]
    BY DEF GoodState, Field
  <2>2. /\ e.pc \in 0 .. UserSize + 3 /\ e.mepc \in 0 .. UserSize + 3
        /\ e.sepc \in 0 .. UserSize - 1
    BY <1>1, <1>11, CosimAssumption DEF GoodState, Field, NextPc, SHandler, UserKind
  <2>3. e.base \in Bit /\ e.x \in Bit /\ e.mem \in Bit /\ e.resv \in BOOLEAN
    BY DEF GoodState, Field, Bit
  <2>4. GoodState(e)
    BY <2>1, <2>2, <2>3 DEF GoodState
  <2>5. Step(s, insn, v, ok) = e
    BY <1>11 DEF Step
  <2> HIDE DEF e
  <2> QED BY <2>4, <2>5
<1>12. CASE insn = "mret"
  <2> DEFINE e == [s EXCEPT !.pc = s.mepc, !.priv = s.mpp, !.mpp = "U"]
  <2>1. DOMAIN e = Field /\ e = [f \in DOMAIN e |-> e[f]]
    BY DEF GoodState, Field
  <2>2. /\ e.pc \in 0 .. UserSize + 3 /\ e.mepc \in 0 .. UserSize + 3
        /\ e.sepc \in 0 .. UserSize - 1
    BY <1>1, <1>12, CosimAssumption DEF GoodState, Field, NextPc, SHandler, UserKind
  <2>3. e.base \in Bit /\ e.x \in Bit /\ e.mem \in Bit /\ e.resv \in BOOLEAN
    BY DEF GoodState, Field, Bit
  <2>4. GoodState(e)
    BY <2>1, <2>2, <2>3 DEF GoodState
  <2>5. Step(s, insn, v, ok) = e
    BY <1>12 DEF Step
  <2> HIDE DEF e
  <2> QED BY <2>4, <2>5
<1> QED BY <1>1, <1>2, <1>3, <1>4, <1>5, <1>6, <1>7, <1>8, <1>9, <1>10, <1>11, <1>12 DEF UserKind

\* What one instruction of the emulator leaves, after the overrides.
Emulated(insn) ==
    handle_dut_overrides(IF ScFailed(insn) THEN FailedSc ELSE Step(emu, insn, 0, emu.resv), insn)

LEMMA InstructionFollowed ==
    ASSUME GoodProg, GoodState(emu), NEW r \in BOOLEAN, r => emu.resv,
           NEW v \in Bit, NEW ok \in BOOLEAN, Retired([emu EXCEPT !.resv = r], v, ok)
    PROVE  \E b \in BOOLEAN : (dut.resv => b) /\ Emulated(prog[emu.pc]) = [dut EXCEPT !.resv = b]
<1> DEFINE insn == prog[emu.pc]
           s == [emu EXCEPT !.resv = r]
           t == Emulated(insn)
<1>1. /\ insn # "fault" /\ (ok => insn = "sc" /\ r)
      /\ dut = [Step(s, insn, v, ok) EXCEPT !.resv = @ /\ insn # "sc"]
      /\ call.pc = emu.pc /\ call.insn = insn /\ call.wdata = Data(dut, insn)
  BY DEF Retired, GoodState, Field
<1>2. insn \in (UserKind \ {"fault"}) \cup {"skip", "sret", "ack", "mret"}
  BY <1>1, UserInsns DEF GoodState
<1> SUFFICES \E b \in BOOLEAN : (dut.resv => b) /\ t = [dut EXCEPT !.resv = b]
  OBVIOUS
<1> HIDE DEF insn
<1>3. CASE insn = "base"
  <2> DEFINE d(q) == [emu EXCEPT !.pc = NextPc(@), !.base = 1 - @, !.resv = q]
  <2>1. dut = d(r)
    BY <1>1, <1>3 DEF GoodState, Field, Step
  <2>2. ~ScFailed(insn)
    BY <1>1, <1>3 DEF ScFailed
  <2>3. t = d(emu.resv)
    <3>1. t = Step(emu, insn, 0, emu.resv)
      BY <1>3, <2>2 DEF Emulated, handle_dut_overrides
    <3>2. Step(emu, insn, 0, emu.resv) = d(emu.resv)
      BY <1>1, <1>3 DEF GoodState, Field, Step
    <3> QED BY <3>1, <3>2
  <2>4. d(emu.resv) = [d(r) EXCEPT !.resv = emu.resv]
    BY DEF GoodState, Field
  <2>5. dut.resv = r /\ emu.resv \in BOOLEAN
    BY <2>1 DEF GoodState, Field
  <2> HIDE DEF d
  <2> QED BY <2>1, <2>3, <2>4, <2>5
<1>4. CASE insn = "load"
  <2> DEFINE d(q) == [emu EXCEPT !.pc = NextPc(@), !.resv = q,
                                 !.x = IF emu.base = Ram THEN emu.mem ELSE v]
  <2>1. dut = d(r)
    BY <1>1, <1>4 DEF GoodState, Field, Step
  <2>2. dut.x = (IF emu.base = Ram THEN emu.mem ELSE v)
    BY <2>1 DEF GoodState, Field
  <2>3. call.wdata = (IF emu.base = Ram THEN emu.mem ELSE v)
    BY <1>1, <1>4, <2>2 DEF Data, Written, Bit, None, GoodState
  <2>4. ~ScFailed(insn)
    BY <1>1, <1>4 DEF ScFailed
  <2>5. t = d(emu.resv)
    <3>1. CASE emu.base = Ram
      <4>1. t = Step(emu, insn, 0, emu.resv)
        BY <1>4, <2>4, <3>1 DEF Emulated, handle_dut_overrides, Ram, Dev
      <4>2. Step(emu, insn, 0, emu.resv) = d(emu.resv)
        BY <1>4, <3>1 DEF GoodState, Field, Step
      <4> QED BY <4>1, <4>2
    <3>2. CASE emu.base # Ram
      <4>1. emu.base = Dev /\ call.wdata = v
        BY <2>3, <3>2 DEF GoodState, Bit, Ram, Dev
      <4>2. t = [Step(emu, insn, 0, emu.resv) EXCEPT !.x = v]
        BY <1>4, <2>4, <4>1 DEF Emulated, handle_dut_overrides
      <4>3. [Step(emu, insn, 0, emu.resv) EXCEPT !.x = v] = d(emu.resv)
        BY <1>4, <3>2 DEF GoodState, Field, Step
      <4> QED BY <4>2, <4>3
    <3> QED BY <3>1, <3>2
  <2>6. d(emu.resv) = [d(r) EXCEPT !.resv = emu.resv]
    BY DEF GoodState, Field
  <2>7. dut.resv = r /\ emu.resv \in BOOLEAN
    BY <2>1 DEF GoodState, Field
  <2> HIDE DEF d
  <2> QED BY <2>1, <2>5, <2>6, <2>7
<1>5. CASE insn = "csr"
  <2> DEFINE d(q) == [emu EXCEPT !.pc = NextPc(@), !.x = v, !.resv = q]
  <2>1. dut = d(r)
    BY <1>1, <1>5 DEF GoodState, Field, Step
  <2>2. dut.x = v
    BY <2>1 DEF GoodState, Field
  <2>3. call.wdata = v
    BY <1>1, <1>5, <2>2 DEF Data, Written, Bit, None, GoodState
  <2>4. ~ScFailed(insn)
    BY <1>1, <1>5 DEF ScFailed
  <2>5. t = d(emu.resv)
    <3>1. t = [Step(emu, insn, 0, emu.resv) EXCEPT !.x = v]
      BY <1>5, <2>3, <2>4 DEF Emulated, handle_dut_overrides
    <3>2. [Step(emu, insn, 0, emu.resv) EXCEPT !.x = v] = d(emu.resv)
      BY <1>5 DEF GoodState, Field, Step
    <3> QED BY <3>1, <3>2
  <2>6. d(emu.resv) = [d(r) EXCEPT !.resv = emu.resv]
    BY DEF GoodState, Field
  <2>7. dut.resv = r /\ emu.resv \in BOOLEAN
    BY <2>1 DEF GoodState, Field
  <2> HIDE DEF d
  <2> QED BY <2>1, <2>5, <2>6, <2>7
<1>6. CASE insn = "lr"
  <2> DEFINE d(q) == [emu EXCEPT !.pc = NextPc(@), !.x = emu.mem, !.resv = q]
  <2>1. dut = d(TRUE)
    BY <1>1, <1>6 DEF GoodState, Field, Step
  <2>2. ~ScFailed(insn)
    BY <1>1, <1>6 DEF ScFailed
  <2>3. t = d(TRUE)
    <3>1. t = Step(emu, insn, 0, emu.resv)
      BY <1>6, <2>2 DEF Emulated, handle_dut_overrides
    <3>2. Step(emu, insn, 0, emu.resv) = d(TRUE)
      BY <1>1, <1>6 DEF GoodState, Field, Step
    <3> QED BY <3>1, <3>2
  <2>4. d(TRUE) = [d(TRUE) EXCEPT !.resv = TRUE]
    BY DEF GoodState, Field
  <2>5. dut.resv = TRUE /\ TRUE \in BOOLEAN
    BY <2>1 DEF GoodState, Field
  <2> HIDE DEF d
  <2> QED BY <2>1, <2>3, <2>4, <2>5
<1>7. CASE insn = "sc" /\ ok
  <2> DEFINE d(q) == [emu EXCEPT !.pc = NextPc(@), !.x = 0, !.mem = 1 - @, !.resv = q]
  <2>1. dut = d(FALSE)
    BY <1>1, <1>7 DEF GoodState, Field, Step
  <2>2. dut.x = 0
    BY <2>1 DEF GoodState, Field
  <2>3. call.wdata = 0
    BY <1>1, <1>7, <2>2 DEF Data, Written, Bit, None, GoodState
  <2>4. ~ScFailed(insn)
    BY <1>1, <1>7, <2>3 DEF ScFailed
  <2>5. t = d(FALSE)
    <3>1. t = Step(emu, insn, 0, emu.resv)
      BY <1>7, <2>4 DEF Emulated, handle_dut_overrides
    <3>2. Step(emu, insn, 0, emu.resv) = d(FALSE)
      BY <1>1, <1>7 DEF GoodState, Field, Step
    <3> QED BY <3>1, <3>2
  <2>6. d(FALSE) = [d(FALSE) EXCEPT !.resv = FALSE]
    BY DEF GoodState, Field
  <2>7. dut.resv = FALSE /\ FALSE \in BOOLEAN
    BY <2>1 DEF GoodState, Field
  <2> HIDE DEF d
  <2> QED BY <2>1, <2>5, <2>6, <2>7
<1>8. CASE insn = "sc" /\ ~ok
  <2> DEFINE d(q) == [emu EXCEPT !.pc = NextPc(@), !.x = 1, !.resv = q]
  <2>1. dut = d(FALSE)
    BY <1>1, <1>8 DEF GoodState, Field, Step
  <2>2. dut.x = 1
    BY <2>1 DEF GoodState, Field
  <2>3. call.wdata = 1
    BY <1>1, <1>8, <2>2 DEF Data, Written, Bit, None, GoodState
  <2>4. ScFailed(insn)
    BY <1>1, <1>8, <2>3 DEF ScFailed
  <2>5. t = d(emu.resv)
    <3>1. t = [emu EXCEPT !.x = 1, !.pc = NextPc(@)]
      BY <1>8, <2>3, <2>4 DEF Emulated, handle_dut_overrides, FailedSc
    <3>2. [emu EXCEPT !.x = 1, !.pc = NextPc(@)] = d(emu.resv)
      BY DEF GoodState, Field
    <3> QED BY <3>1, <3>2
  <2>6. d(emu.resv) = [d(FALSE) EXCEPT !.resv = emu.resv]
    BY DEF GoodState, Field
  <2>7. dut.resv = FALSE /\ emu.resv \in BOOLEAN
    BY <2>1 DEF GoodState, Field
  <2> HIDE DEF d
  <2> QED BY <2>1, <2>5, <2>6, <2>7
<1>9. CASE insn = "ecall"
  <2> DEFINE d(q) == [emu EXCEPT !.pc = SHandler, !.priv = "S", !.sepc = emu.pc,
                                 !.scause = USER_ECALL, !.resv = q]
  <2>1. dut = d(r)
    BY <1>1, <1>9 DEF GoodState, Field, Step
  <2>2. ~ScFailed(insn)
    BY <1>1, <1>9 DEF ScFailed
  <2>3. t = d(emu.resv)
    <3>1. t = Step(emu, insn, 0, emu.resv)
      BY <1>9, <2>2 DEF Emulated, handle_dut_overrides
    <3>2. Step(emu, insn, 0, emu.resv) = d(emu.resv)
      BY <1>1, <1>9 DEF GoodState, Field, Step
    <3> QED BY <3>1, <3>2
  <2>4. d(emu.resv) = [d(r) EXCEPT !.resv = emu.resv]
    BY DEF GoodState, Field
  <2>5. dut.resv = r /\ emu.resv \in BOOLEAN
    BY <2>1 DEF GoodState, Field
  <2> HIDE DEF d
  <2> QED BY <2>1, <2>3, <2>4, <2>5
<1>10. CASE insn = "skip"
  <2> DEFINE d(q) == [emu EXCEPT !.pc = NextPc(@), !.sepc = NextPc(@), !.resv = q]
  <2>1. dut = d(r)
    BY <1>1, <1>10 DEF GoodState, Field, Step
  <2>2. ~ScFailed(insn)
    BY <1>1, <1>10 DEF ScFailed
  <2>3. t = d(emu.resv)
    <3>1. t = Step(emu, insn, 0, emu.resv)
      BY <1>10, <2>2 DEF Emulated, handle_dut_overrides
    <3>2. Step(emu, insn, 0, emu.resv) = d(emu.resv)
      BY <1>1, <1>10 DEF GoodState, Field, Step
    <3> QED BY <3>1, <3>2
  <2>4. d(emu.resv) = [d(r) EXCEPT !.resv = emu.resv]
    BY DEF GoodState, Field
  <2>5. dut.resv = r /\ emu.resv \in BOOLEAN
    BY <2>1 DEF GoodState, Field
  <2> HIDE DEF d
  <2> QED BY <2>1, <2>3, <2>4, <2>5
<1>11. CASE insn = "sret"
  <2> DEFINE d(q) == [emu EXCEPT !.pc = emu.sepc, !.priv = "U", !.resv = q]
  <2>1. dut = d(r)
    BY <1>1, <1>11 DEF GoodState, Field, Step
  <2>2. ~ScFailed(insn)
    BY <1>1, <1>11 DEF ScFailed
  <2>3. t = d(emu.resv)
    <3>1. t = Step(emu, insn, 0, emu.resv)
      BY <1>11, <2>2 DEF Emulated, handle_dut_overrides
    <3>2. Step(emu, insn, 0, emu.resv) = d(emu.resv)
      BY <1>1, <1>11 DEF GoodState, Field, Step
    <3> QED BY <3>1, <3>2
  <2>4. d(emu.resv) = [d(r) EXCEPT !.resv = emu.resv]
    BY DEF GoodState, Field
  <2>5. dut.resv = r /\ emu.resv \in BOOLEAN
    BY <2>1 DEF GoodState, Field
  <2> HIDE DEF d
  <2> QED BY <2>1, <2>3, <2>4, <2>5
<1>12. CASE insn = "ack"
  <2> DEFINE d(q) == [emu EXCEPT !.pc = NextPc(@), !.resv = q]
  <2>1. dut = d(r)
    BY <1>1, <1>12 DEF GoodState, Field, Step
  <2>2. ~ScFailed(insn)
    BY <1>1, <1>12 DEF ScFailed
  <2>3. t = d(emu.resv)
    <3>1. t = Step(emu, insn, 0, emu.resv)
      BY <1>12, <2>2 DEF Emulated, handle_dut_overrides
    <3>2. Step(emu, insn, 0, emu.resv) = d(emu.resv)
      BY <1>1, <1>12 DEF GoodState, Field, Step
    <3> QED BY <3>1, <3>2
  <2>4. d(emu.resv) = [d(r) EXCEPT !.resv = emu.resv]
    BY DEF GoodState, Field
  <2>5. dut.resv = r /\ emu.resv \in BOOLEAN
    BY <2>1 DEF GoodState, Field
  <2> HIDE DEF d
  <2> QED BY <2>1, <2>3, <2>4, <2>5
<1>13. CASE insn = "mret"
  <2> DEFINE d(q) == [emu EXCEPT !.pc = emu.mepc, !.priv = emu.mpp, !.mpp = "U", !.resv = q]
  <2>1. dut = d(r)
    BY <1>1, <1>13 DEF GoodState, Field, Step
  <2>2. ~ScFailed(insn)
    BY <1>1, <1>13 DEF ScFailed
  <2>3. t = d(emu.resv)
    <3>1. t = Step(emu, insn, 0, emu.resv)
      BY <1>13, <2>2 DEF Emulated, handle_dut_overrides
    <3>2. Step(emu, insn, 0, emu.resv) = d(emu.resv)
      BY <1>1, <1>13 DEF GoodState, Field, Step
    <3> QED BY <3>1, <3>2
  <2>4. d(emu.resv) = [d(r) EXCEPT !.resv = emu.resv]
    BY DEF GoodState, Field
  <2>5. dut.resv = r /\ emu.resv \in BOOLEAN
    BY <2>1 DEF GoodState, Field
  <2> HIDE DEF d
  <2> QED BY <2>1, <2>3, <2>4, <2>5
<1> QED BY <1>2, <1>3, <1>4, <1>5, <1>6, <1>7, <1>8, <1>9, <1>10, <1>11, <1>12, <1>13 DEF UserKind

LEMMA RetiredGood ==
    ASSUME GoodProg, NEW s, GoodState(s), NEW v \in Bit, NEW ok \in BOOLEAN, Retired(s, v, ok)
    PROVE  GoodState(dut) /\ call # Idle /\ call.pc = s.pc /\ call.insn = prog[s.pc]
<1>1. call # Idle /\ call.pc = s.pc /\ call.insn = prog[s.pc]
  BY DEF Retired, Idle
<1> DEFINE insn == prog[s.pc]
           next == Step(s, insn, v, ok)
           held == next.resv /\ insn # "sc"
<1>2. GoodState(next)
  BY StepGood DEF Retired
<1>3. dut = [next EXCEPT !.resv = held]
  BY DEF Retired
<1>4. held \in BOOLEAN
  OBVIOUS
<1> HIDE DEF next, held
<1> QED BY <1>1, <1>2, <1>3, <1>4, ReservationGood

\* The step ends with the emulator where the DUT is, and nothing to report.
LEMMA StepEnds ==
    ASSUME GoodProg, GoodState(emu), NEW r \in BOOLEAN, r => emu.resv,
           NEW v \in Bit, NEW ok \in BOOLEAN, Retired([emu EXCEPT !.resv = r], v, ok),
           NEW t, t = Emulated(prog[emu.pc])
    PROVE  /\ GoodState(t) /\ Matches(t, prog[emu.pc])
           /\ \E q \in BOOLEAN : (q => t.resv) /\ dut = [t EXCEPT !.resv = q]
<1> DEFINE insn == prog[emu.pc]
<1>1. PICK b \in BOOLEAN : (dut.resv => b) /\ t = [dut EXCEPT !.resv = b]
  BY InstructionFollowed
<1>2. GoodState([emu EXCEPT !.resv = r]) /\ [emu EXCEPT !.resv = r].pc = emu.pc
  BY ReservationGood
<1>3. GoodState(dut)
  BY <1>2, RetiredGood
<1>4. GoodState(t) /\ t.resv = b
  BY <1>1, <1>3, ReservationGood
<1>5. dut = [t EXCEPT !.resv = dut.resv]
  BY <1>1, <1>3 DEF GoodState, Field
<1>6. dut.resv \in BOOLEAN /\ (dut.resv => t.resv)
  BY <1>1, <1>3, <1>4 DEF GoodState
<1>7. t.base = dut.base /\ t.x = dut.x
  BY <1>1, <1>3 DEF GoodState, Field
<1>8. Written(t, insn) = Written(dut, insn)
  BY <1>7 DEF Written
<1>9. call.pc = emu.pc /\ call.insn = insn /\ call.wdata = Data(dut, insn)
  BY <1>2 DEF Retired
<1>10. Matches(t, insn)
  BY <1>8, <1>9 DEF Matches, Data
<1> QED BY <1>4, <1>5, <1>6, <1>10

-----------------------------------------------------------------------------
\* Traps

LEMMA AheadGood ==
    ASSUME GoodProg, GoodState(emu), TrapsDue
    PROVE  /\ GoodState(AfterException) /\ GoodState(Ahead)
           /\ AfterException.resv = emu.resv /\ Ahead.resv = emu.resv
           /\ pending_interrupt # None => prog[Ahead.pc] = "ack" /\ Ahead.priv = "M"
           /\ pending_interrupt = None => Ahead = AfterException
           /\ pending_exception # None =>
                 AfterException.pc = SHandler /\ prog[AfterException.pc] = "skip"
           /\ pending_exception = None => AfterException = emu
           /\ pending_exception # None \/ pending_interrupt # None => mip = {}
<1>1. emu.pc \in 0 .. UserSize + 3
  BY DEF GoodState
<1>2. pending_exception # None => emu.pc \in 0 .. UserSize - 1
  BY <1>1, UserInsns DEF TrapsDue, UserKind
<1>3. /\ GoodState(AfterException) /\ AfterException.resv = emu.resv
      /\ pending_exception # None =>
            AfterException.pc = SHandler /\ prog[AfterException.pc] = "skip"
  BY <1>2, ExceptionGood DEF AfterException, GoodProg, SHandler
<1>4. /\ GoodState(Ahead) /\ Ahead.resv = emu.resv
      /\ pending_interrupt # None => prog[Ahead.pc] = "ack" /\ Ahead.priv = "M"
  BY <1>3, InterruptGood DEF Ahead, GoodProg, MHandler
<1>5. pending_exception # None => mip = {}
  BY <1>2, CosimAssumption DEF TrapsDue, MHandler
<1>6. pending_exception = None /\ pending_interrupt # None => mip = {}
  BY DEF TrapsDue, AfterException, Interruptible
<1> QED BY <1>3, <1>4, <1>5, <1>6 DEF Ahead, AfterException

\* The race of an exception and an interrupt is won: the exception's cause is right.
LEMMA RaceWon ==
    ASSUME GoodProg, GoodState(emu), TrapsDue
    PROVE  ~RaceLost /\ Raced = IF Racing THEN AfterException ELSE emu
<1>1. CASE ~Racing
  BY <1>1 DEF RaceLost, Raced
<1>2. CASE Racing
  <2>1. mip = {} /\ prog[emu.pc] = "fault" /\ pending_exception = ILLEGAL
    BY <1>2, AheadGood DEF Racing, TrapsDue
  <2>2. Interp(emu, mip).state = EnterException(emu)
    BY <2>1 DEF Interp
  <2>3. emu.pc \in 0 .. UserSize - 1
    BY <2>1, UserInsns DEF GoodState, UserKind
  <2>4. EnterException(emu).priv = "S" /\ EnterException(emu).scause = ILLEGAL
    BY <2>3, ExceptionGood
  <2>5. Raced = EnterException(emu)
    BY <1>2, <2>2 DEF Raced
  <2> QED BY <1>2, <2>1, <2>4, <2>5 DEF RaceLost, AfterException, Racing
<1> QED BY <1>1, <1>2

\* While traps are outstanding the emulator takes them, and all of them.
LEMMA TrapsTaken ==
    ASSUME GoodProg, GoodState(emu), TrapsDue,
           pending_exception # None \/ pending_interrupt # None
    PROVE  LET r == Interp(Raced, RaisedMip) IN ~r.executed /\ r.state = Ahead
<1>1. mip = {}
  BY AheadGood
<1>2. CASE pending_interrupt = None
  <2>1. Raced = emu /\ RaisedMip = {} /\ prog[emu.pc] = "fault" /\ Ahead = EnterException(emu)
    BY <1>1, <1>2, RaceWon DEF Racing, RaisedMip, TrapsDue, Ahead, AfterException
  <2> QED BY <2>1 DEF Interp
<1>3. CASE pending_interrupt # None
  <2>1. pending_interrupt = MTIP /\ RaisedMip = {MTIP} /\ Interruptible(AfterException)
    BY <1>1, <1>3 DEF TrapsDue, RaisedMip
  <2>2. Raced = AfterException
    BY <1>3, RaceWon DEF Racing, AfterException
  <2>3. Highest({MTIP}) = MTIP
    BY DEF Highest, MTIP
  <2>4. Ahead = EnterInterrupt(AfterException, MTIP)
    BY <1>3, <2>1 DEF Ahead
  <2> QED BY <1>3, <2>1, <2>2, <2>3, <2>4 DEF Interp
<1> QED BY <1>2, <1>3

\* Which instructions the DUT can be at while traps are outstanding.
LEMMA NothingDue ==
    ASSUME GoodProg, GoodState(emu), TrapsDue, NEW r \in BOOLEAN,
           prog[[Ahead EXCEPT !.resv = r].pc] \notin {"skip", "ack"}
    PROVE  pending_exception = None /\ pending_interrupt = None /\ Ahead = emu
<1>1. [Ahead EXCEPT !.resv = r].pc = Ahead.pc
  BY AheadGood, ReservationGood
<1> QED BY <1>1, AheadGood

-----------------------------------------------------------------------------
\* The invariant is preserved.

TimerOnly == Irq \subseteq {MTIP}

\* Between steps, with nothing reported.
LEMMA Ready ==
    ASSUME CosimInv, verdict = "ok", call = Idle
    PROVE  /\ wrong \in {"no", "cause"}
           /\ wrong = "no" => \E r \in BOOLEAN : (r => emu.resv) /\ dut = [Ahead EXCEPT !.resv = r]
<1>1. wrong # "value"
  <2>1. ~Mistaken
    BY DEF Mistaken, Idle
  <2> QED BY <2>1 DEF CosimInv
<1>2. ASSUME wrong = "no"
      PROVE  \E r \in BOOLEAN : (r => emu.resv) /\ dut = [Ahead EXCEPT !.resv = r]
  <2>1. PICK r \in BOOLEAN : (r => emu.resv) /\ Following([Ahead EXCEPT !.resv = r])
    BY <1>2 DEF CosimInv
  <2>2. GoodProg /\ GoodState(emu) /\ TrapsDue
    BY <1>2 DEF CosimInv
  <2>3. GoodState([Ahead EXCEPT !.resv = r])
    BY <2>2, AheadGood, ReservationGood
  <2>4. dut = [Ahead EXCEPT !.resv = r]
    BY <2>1, <2>2, <2>3, RetiredGood DEF Following
  <2> QED BY <2>1, <2>4
<1> QED BY <1>1, <1>2 DEF CosimInv

LEMMA InterruptKeeps ==
    ASSUME CosimInv, TimerOnly, NEW irq \in Irq, DutInterrupt(irq)
    PROVE  CosimInv'
<1> USE DEF DutInterrupt
<1>1. wrong' = wrong /\ prog' = prog /\ wrong \in {"no", "cause"} /\ GoodProg'
  BY Ready DEF CosimInv, GoodProg
<1>2. CASE wrong = "no"
  <2>1. PICK r \in BOOLEAN : (r => emu.resv) /\ dut = [Ahead EXCEPT !.resv = r]
    BY <1>2, Ready
  <2>2. GoodProg /\ GoodState(emu) /\ TrapsDue
    BY <1>2 DEF CosimInv
  <2>3. irq = MTIP /\ MTIP # None
    BY DEF TimerOnly, MTIP, None
  <2>4. GoodState(Ahead) /\ dut.priv = Ahead.priv
    BY <2>1, <2>2, AheadGood, ReservationGood
  <2>5. pending_interrupt = None /\ Ahead = AfterException /\ Interruptible(AfterException)
    BY <2>2, <2>4, AheadGood DEF Interruptible
  <2>6. AfterException' = AfterException /\ Ahead' = EnterInterrupt(Ahead, MTIP)
    BY <2>3, <2>5 DEF AfterException, Ahead
  <2>7. EnterInterrupt([Ahead EXCEPT !.resv = r], MTIP) =
           [EnterInterrupt(Ahead, MTIP) EXCEPT !.resv = r]
    BY <2>4 DEF EnterInterrupt, GoodState, Field
  <2>8. dut' = [Ahead' EXCEPT !.resv = r]
    BY <2>1, <2>3, <2>6, <2>7
  <2>9. Following([Ahead EXCEPT !.resv = r])'
    BY <2>8 DEF Following
  <2>10. TrapsDue'
    BY <2>2, <2>3, <2>5, <2>6 DEF TrapsDue, Interruptible
  <2>11. GoodState(emu')
    BY <2>2
  <2> QED BY <1>1, <1>2, <2>1, <2>9, <2>10, <2>11 DEF CosimInv
<1> QED BY <1>1, <1>2 DEF CosimInv

LEMMA ExceptionKeeps ==
    ASSUME CosimInv, NEW cause \in {ILLEGAL, BREAKPOINT}, DutException(cause)
    PROVE  CosimInv'
<1> USE DEF DutException
<1>1. prog' = prog /\ wrong \in {"no", "cause"} /\ GoodProg'
  BY Ready DEF CosimInv, GoodProg
<1>2. CASE wrong = "no" /\ cause = ILLEGAL
  <2>1. PICK r \in BOOLEAN : (r => emu.resv) /\ dut = [Ahead EXCEPT !.resv = r]
    BY <1>2, Ready
  <2>2. GoodProg /\ GoodState(emu) /\ TrapsDue
    BY <1>2 DEF CosimInv
  <2>3. pending_exception = None /\ pending_interrupt = None /\ Ahead = emu
    BY <2>1, <2>2, NothingDue
  <2>4. emu.pc = dut.pc
    BY <2>1, <2>2, <2>3, ReservationGood
  <2>5. emu.pc \in 0 .. UserSize - 1
    BY <2>2, <2>4, UserInsns DEF GoodState, UserKind
  <2>6. AfterException' = EnterException(emu) /\ Ahead' = EnterException(emu)
    BY <1>2, <2>3 DEF AfterException, Ahead, ILLEGAL, None
  <2>7. EnterException([emu EXCEPT !.resv = r]) = [EnterException(emu) EXCEPT !.resv = r]
    BY <2>2 DEF EnterException, GoodState, Field
  <2>8. dut' = [Ahead' EXCEPT !.resv = r]
    BY <2>1, <2>3, <2>6, <2>7
  <2>9. Following([Ahead EXCEPT !.resv = r])'
    BY <2>8 DEF Following
  <2>10. TrapsDue'
    BY <1>2, <2>2, <2>3, <2>4 DEF TrapsDue
  <2>11. GoodState(emu') /\ wrong' = "no" /\ verdict' = "ok"
    BY <1>2, <2>2
  <2> QED BY <1>1, <2>1, <2>9, <2>10, <2>11 DEF CosimInv
<1>3. CASE wrong = "cause" \/ cause # ILLEGAL
  <2>1. wrong' = "cause"
    BY <1>1, <1>3
  <2> QED BY <1>1, <2>1 DEF CosimInv
<1> QED BY <1>1, <1>2, <1>3

LEMMA RetireKeeps ==
    ASSUME CosimInv, NEW v \in Bit, NEW ok \in BOOLEAN, DutRetire(v, ok)
    PROVE  CosimInv'
<1> USE DEF DutRetire
<1>1. wrong' = wrong /\ prog' = prog /\ wrong \in {"no", "cause"} /\ GoodProg'
  BY Ready DEF CosimInv, GoodProg
<1>2. CASE wrong = "no"
  <2>1. PICK r \in BOOLEAN : (r => emu.resv) /\ dut = [Ahead EXCEPT !.resv = r]
    BY <1>2, Ready
  <2>2. Ahead' = Ahead /\ TrapsDue'
    BY <1>2 DEF CosimInv, Ahead, AfterException, TrapsDue
  <2>3. ASSUME NEW s, s = dut PROVE Retired(s, v, ok)'
    BY <1>1, <2>3 DEF Retired, Call
  <2>4. Following([Ahead EXCEPT !.resv = r])'
    BY <2>1, <2>2, <2>3 DEF Following
  <2>5. GoodState(emu') /\ verdict' = "ok"
    BY <1>2 DEF CosimInv
  <2> QED BY <1>1, <1>2, <2>1, <2>2, <2>4, <2>5 DEF CosimInv
<1> QED BY <1>1, <1>2 DEF CosimInv

LEMMA MistakeKeeps ==
    ASSUME CosimInv, DutMistake
    PROVE  CosimInv'
<1> USE DEF DutMistake
<1>1. prog' = prog /\ wrong = "no" /\ wrong' = "value" /\ GoodProg' /\ emu' = emu
  BY DEF CosimInv, GoodProg
<1>2. PICK r \in BOOLEAN : (r => emu.resv) /\ dut = [Ahead EXCEPT !.resv = r]
  BY Ready
<1>3. GoodProg /\ GoodState(emu) /\ TrapsDue
  BY <1>1 DEF CosimInv
<1>4. pending_exception = None /\ pending_interrupt = None /\ Ahead = emu
  BY <1>2, <1>3, NothingDue
<1> DEFINE insn == prog[emu.pc]
           s == [emu EXCEPT !.resv = r]
<1>5. s.pc = emu.pc /\ s.base = emu.base /\ s.mem = emu.mem /\ dut = s
  BY <1>2, <1>3, <1>4 DEF GoodState, Field
<1> DEFINE right == IF insn = "base" THEN 1 - emu.base ELSE emu.mem
<1>6. /\ insn \in {"base", "lr", "load"} /\ (insn = "load" => emu.base = Ram)
      /\ dut' = Step(s, insn, 0, FALSE)
      /\ call' = [busy |-> TRUE, pc |-> emu.pc, insn |-> insn, wdata |-> 1 - Data(dut', insn)]
  BY <1>5 DEF Call
<1>7. Data(dut', insn) = right
  <2>1. CASE insn = "base"
    <3>1. dut'.base = 1 - emu.base
      BY <1>3, <1>6, <2>1 DEF Step, GoodState, Field
    <3>2. Written(dut', insn) = right
      BY <2>1, <3>1 DEF Written
    <3>3. right # None
      BY <1>3, <2>1 DEF GoodState, Bit, None
    <3> QED BY <3>2, <3>3 DEF Data
  <2>2. CASE insn \in {"lr", "load"}
    <3>1. dut'.x = emu.mem
      BY <1>3, <1>6, <2>2 DEF Step, GoodState, Field
    <3>2. Written(dut', insn) = right
      BY <2>2, <3>1 DEF Written
    <3>3. right # None
      BY <1>3, <2>2 DEF GoodState, Bit, None
    <3> QED BY <3>2, <3>3 DEF Data
  <2> QED BY <1>6, <2>1, <2>2
<1>8. Mistaken'
  BY <1>1, <1>4, <1>6, <1>7 DEF Mistaken
<1> QED BY <1>1, <1>3, <1>8 DEF CosimInv

\* A running step of a DUT without mistakes, and what it was called for.
LEMMA Running ==
    ASSUME CosimInv, call # Idle, wrong = "no"
    PROVE  \E r \in BOOLEAN, v \in Bit, ok \in BOOLEAN :
              (r => emu.resv) /\ Retired([Ahead EXCEPT !.resv = r], v, ok)
<1>1. PICK r \in BOOLEAN : (r => emu.resv) /\ Following([Ahead EXCEPT !.resv = r])
  BY DEF CosimInv
<1> QED BY <1>1 DEF Following

\* The end of a step that executed an instruction.
LEMMA FinishKeeps ==
    ASSUME CosimInv, wrong = "no", call # Idle, prog' = prog, wrong' = wrong, dut' = dut,
           pending_exception = None, pending_interrupt = None,
           pending_exception' = None, pending_interrupt' = None,
           emu' = Emulated(prog[emu.pc]), call' = Idle, mip' = {},
           Matches(emu', prog[emu.pc]) => verdict' = "ok"
    PROVE  CosimInv'
<1>1. Ahead = emu /\ GoodProg /\ GoodState(emu) /\ GoodProg'
  BY DEF Ahead, AfterException, CosimInv, GoodProg
<1>2. PICK r \in BOOLEAN, v \in Bit, ok \in BOOLEAN :
         (r => emu.resv) /\ Retired([emu EXCEPT !.resv = r], v, ok)
  BY <1>1, Running
<1>3. PICK t : t = emu'
  OBVIOUS
<1>4. /\ GoodState(t) /\ Matches(t, prog[emu.pc])
      /\ \E q \in BOOLEAN : (q => t.resv) /\ dut = [t EXCEPT !.resv = q]
  BY <1>1, <1>2, <1>3, StepEnds
<1>5. PICK q \in BOOLEAN : (q => emu'.resv) /\ dut' = [emu' EXCEPT !.resv = q]
  BY <1>3, <1>4
<1>6. Ahead' = emu'
  BY DEF Ahead, AfterException
<1>7. Following([Ahead EXCEPT !.resv = q])'
  BY <1>5, <1>6 DEF Following
<1>8. TrapsDue'
  BY DEF TrapsDue
<1>9. GoodState(emu') /\ verdict' = "ok"
  BY <1>3, <1>4
<1> QED BY <1>1, <1>5, <1>7, <1>8, <1>9 DEF CosimInv

LEMMA ScFailureKeeps ==
    ASSUME CosimInv, CopyScFailure
    PROVE  CosimInv'
<1> USE DEF CopyScFailure
<1>1. prog' = prog /\ wrong' = wrong /\ GoodProg /\ GoodProg' /\ call' = Idle
  BY DEF CosimInv, GoodProg, Finish
<1>2. prog[emu.pc] = "sc" /\ call.pc = emu.pc
  BY DEF ScFailed
<1>3. CASE wrong = "no"
  <2>1. GoodState(emu) /\ TrapsDue
    BY <1>3 DEF CosimInv
  <2>2. PICK r \in BOOLEAN, v \in Bit, ok \in BOOLEAN :
           (r => emu.resv) /\ Retired([Ahead EXCEPT !.resv = r], v, ok)
    BY <1>3, Running
  <2>3. GoodState([Ahead EXCEPT !.resv = r])
    BY <1>1, <2>1, AheadGood, ReservationGood
  <2>4. call.pc = [Ahead EXCEPT !.resv = r].pc
    BY <1>1, <2>2, <2>3, RetiredGood
  <2>5. pending_exception = None /\ pending_interrupt = None
    BY <1>1, <1>2, <2>1, <2>4, NothingDue
  <2>6. mip = {}
    BY <1>1, <1>2, <2>1 DEF TrapsDue, MHandler, GoodProg
  <2>7. emu' = Emulated(prog[emu.pc])
    BY DEF Finish, Emulated
  <2>8. Matches(emu', prog[emu.pc]) => verdict' = "ok"
    BY DEF Finish
  <2> QED BY <1>1, <1>3, <2>5, <2>6, <2>7, <2>8, FinishKeeps
<1>4. CASE wrong = "value"
  BY <1>2, <1>4 DEF CosimInv, Mistaken
<1> QED BY <1>1, <1>3, <1>4 DEF CosimInv

\* With no trap outstanding the emulator executes the instruction at its pc.
LEMMA Executes ==
    ASSUME pending_exception = None, pending_interrupt = None, prog[emu.pc] # "fault"
    PROVE  /\ Raced = emu /\ ~RaceLost /\ RaisedMip = mip
           /\ Interp(Raced, RaisedMip) =
                 [state |-> Step(emu, prog[emu.pc], 0, emu.resv), executed |-> TRUE]
  BY DEF Raced, RaceLost, Racing, RaisedMip, Interp

LEMMA GiveUpKeeps ==
    ASSUME CosimInv, GiveUp
    PROVE  CosimInv'
<1> USE DEF GiveUp
<1>1. wrong # "no"
  BY RaceWon DEF CosimInv
<1>2. wrong # "value"
  <2>1. SUFFICES ASSUME Mistaken PROVE FALSE
    BY DEF CosimInv
  <2> QED BY <2>1, Executes DEF Mistaken
<1> QED BY <1>1, <1>2 DEF CosimInv, GoodProg

LEMMA TrapKeeps ==
    ASSUME CosimInv, TakeTrap
    PROVE  CosimInv'
<1> USE DEF TakeTrap, Forget
<1>1. prog' = prog /\ wrong' = wrong /\ GoodProg /\ GoodProg'
  BY DEF CosimInv, GoodProg
<1>2. CASE wrong = "no"
  <2>1. GoodState(emu) /\ TrapsDue /\ verdict = "ok"
    BY <1>2 DEF CosimInv
  <2>2. PICK r \in BOOLEAN, v \in Bit, ok \in BOOLEAN :
           (r => emu.resv) /\ Retired([Ahead EXCEPT !.resv = r], v, ok)
    BY <1>2, Running
  <2>3. pending_exception # None \/ pending_interrupt # None
    <3>1. SUFFICES ASSUME pending_exception = None, pending_interrupt = None PROVE FALSE
      OBVIOUS
    <3>2. Ahead = emu /\ [Ahead EXCEPT !.resv = r].pc = emu.pc
      BY <1>1, <2>1, <3>1, AheadGood, ReservationGood
    <3>3. prog[emu.pc] # "fault"
      BY <2>2, <3>2 DEF Retired
    <3> QED BY <3>1, <3>3, Executes
  <2>4. emu' = Ahead /\ Ahead' = Ahead
    BY <1>1, <2>1, <2>3, TrapsTaken DEF Ahead, AfterException
  <2>5. GoodState(emu') /\ (r => emu'.resv)
    BY <1>1, <2>1, <2>2, <2>4, AheadGood
  <2>6. PICK s : s = [Ahead EXCEPT !.resv = r]
    OBVIOUS
  <2>7. Retired(s, v, ok)'
    BY <1>1, <2>2, <2>6 DEF Retired
  <2>8. Following([Ahead EXCEPT !.resv = r])'
    BY <2>4, <2>6, <2>7 DEF Following
  <2>9. TrapsDue'
    <3>1. mip = {}
      BY <1>1, <2>1, <2>3, AheadGood
    <3>2. CASE pending_interrupt = None
      BY <3>1, <3>2 DEF TrapsDue, RaisedMip
    <3>3. CASE pending_interrupt # None
      <4>1. mip' = {MTIP} /\ emu' = EnterInterrupt(AfterException, pending_interrupt)
        BY <2>1, <2>4, <3>1, <3>3 DEF TrapsDue, RaisedMip, Ahead
      <4>2. emu'.pc = MHandler /\ emu'.priv = "M"
        BY <1>1, <2>1, <4>1, AheadGood, InterruptGood
      <4> QED BY <4>1, <4>2 DEF TrapsDue
    <3> QED BY <3>2, <3>3
  <2> QED BY <1>1, <1>2, <2>1, <2>5, <2>8, <2>9 DEF CosimInv
<1>3. CASE wrong = "value"
  <2>1. Mistaken
    BY <1>3 DEF CosimInv
  <2> QED BY <2>1, Executes DEF Mistaken
<1> QED BY <1>1, <1>2, <1>3 DEF CosimInv

\* The comparison finds a wrong value.
LEMMA MistakeFound ==
    ASSUME GoodState(emu), Mistaken,
           NEW t, t = handle_dut_overrides(Step(emu, prog[emu.pc], 0, emu.resv), prog[emu.pc])
    PROVE  ~Matches(t, prog[emu.pc])
<1> DEFINE insn == prog[emu.pc]
           right == IF insn = "base" THEN 1 - emu.base ELSE emu.mem
<1>1. /\ insn \in {"base", "lr", "load"} /\ (insn = "load" => emu.base = Ram)
      /\ call.wdata = 1 - right
  BY DEF Mistaken
<1>2. right \in {0, 1}
  BY DEF GoodState, Bit
<1>3. t = Step(emu, insn, 0, emu.resv)
  BY <1>1 DEF handle_dut_overrides, Ram, Dev
<1>4. Written(t, insn) = right
  <2>1. CASE insn = "base"
    <3>1. t.base = 1 - emu.base
      BY <1>3, <2>1 DEF Step, GoodState, Field
    <3> QED BY <2>1, <3>1 DEF Written
  <2>2. CASE insn \in {"lr", "load"}
    <3>1. t.x = emu.mem
      BY <1>1, <1>3, <2>2 DEF Step, GoodState, Field
    <3> QED BY <2>2, <3>1 DEF Written
  <2> QED BY <1>1, <2>1, <2>2
<1> HIDE DEF right
<1> QED BY <1>1, <1>2, <1>4 DEF Matches, None

LEMMA ExecuteKeeps ==
    ASSUME CosimInv, Execute
    PROVE  CosimInv'
<1> USE DEF Execute
<1>1. prog' = prog /\ wrong' = wrong /\ GoodProg /\ GoodProg' /\ call' = Idle
  BY DEF CosimInv, GoodProg, Finish
<1>2. CASE wrong = "no"
  <2>1. GoodState(emu) /\ TrapsDue
    BY <1>2 DEF CosimInv
  <2>2. PICK r \in BOOLEAN, v \in Bit, ok \in BOOLEAN :
           (r => emu.resv) /\ Retired([Ahead EXCEPT !.resv = r], v, ok)
    BY <1>2, Running
  <2>3. pending_exception = None /\ pending_interrupt = None
    BY <1>1, <2>1, TrapsTaken
  <2>4. [Ahead EXCEPT !.resv = r].pc = emu.pc
    BY <1>1, <2>1, <2>3, AheadGood, ReservationGood
  <2>5. prog[emu.pc] # "fault"
    BY <2>2, <2>4 DEF Retired
  <2>6. Raced = emu /\ RaisedMip = mip
        /\ Interp(Raced, RaisedMip).state = Step(emu, prog[emu.pc], 0, emu.resv)
    BY <2>3, <2>5, Executes
  <2>7. mip' = {}
    BY <1>1, <2>1, <2>6 DEF Ack, TrapsDue, GoodProg, MHandler
  <2>8. emu' = Emulated(prog[emu.pc])
    BY <2>6 DEF Finish, Emulated
  <2>9. Matches(emu', prog[emu.pc]) => verdict' = "ok"
    BY DEF Finish
  <2> QED BY <1>1, <1>2, <2>3, <2>7, <2>8, <2>9, FinishKeeps
<1>3. CASE wrong = "value"
  <2>1. Mistaken /\ GoodState(emu)
    BY <1>3 DEF CosimInv
  <2>2. Interp(Raced, RaisedMip).state = Step(emu, prog[emu.pc], 0, emu.resv)
    BY <2>1, Executes DEF Mistaken
  <2>3. PICK t : t = handle_dut_overrides(Step(emu, prog[emu.pc], 0, emu.resv), prog[emu.pc])
    OBVIOUS
  <2>4. ~Matches(t, prog[emu.pc])
    BY <2>1, <2>3, MistakeFound
  <2>5. emu' = t /\ verdict' = "mismatch"
    BY <2>2, <2>3, <2>4 DEF Finish
  <2>6. GoodState(emu')
    <3>1. PICK s : s = Step(emu, prog[emu.pc], 0, emu.resv)
      OBVIOUS
    <3>2. prog[emu.pc] # "fault" /\ emu.resv \in BOOLEAN /\ 0 \in Bit
      BY <2>1 DEF Mistaken, GoodState, Bit
    <3>3. GoodState(s)
      BY <1>1, <2>1, <3>1, <3>2, StepGood
    <3>4. t = s
      BY <2>1, <2>3, <3>1 DEF handle_dut_overrides, Mistaken, Ram, Dev
    <3> QED BY <2>5, <3>3, <3>4
  <2> QED BY <1>1, <1>3, <2>5, <2>6 DEF CosimInv
<1> QED BY <1>1, <1>2, <1>3 DEF CosimInv

-----------------------------------------------------------------------------
\* The theorems

LEMMA CosimInitial == Init => CosimInv
<1> SUFFICES ASSUME Init PROVE CosimInv
  OBVIOUS
<1>1. GoodProg
  BY ProgramGood DEF Init
<1>2. Ahead = emu /\ dut = emu
  BY DEF Init, Ahead, AfterException
<1> DEFINE s == [pc |-> 0, priv |-> "U", base |-> Ram, x |-> 0, mem |-> 0, resv |-> FALSE,
                 sepc |-> 0, mepc |-> 0, mpp |-> "U", scause |-> None, mcause |-> None]
<1>3. GoodState(s)
  <2>1. DOMAIN s = Field /\ s = [f \in DOMAIN s |-> s[f]]
    BY DEF Field
  <2>2. /\ s.pc \in 0 .. UserSize + 3 /\ s.mepc \in 0 .. UserSize + 3
        /\ s.sepc \in 0 .. UserSize - 1
        /\ s.base \in Bit /\ s.x \in Bit /\ s.mem \in Bit
        /\ s.resv \in BOOLEAN
    BY CosimAssumption DEF Bit, Ram
  <2> QED BY <2>1, <2>2 DEF GoodState
<1>4. emu = s /\ s.resv = FALSE
  BY DEF Init
<1> HIDE DEF s
<1>5. emu = [emu EXCEPT !.resv = FALSE]
  BY <1>3, <1>4 DEF GoodState, Field
<1>6. TrapsDue
  BY DEF Init, TrapsDue
<1>7. Following([Ahead EXCEPT !.resv = FALSE])
  BY <1>2, <1>5 DEF Following, Init
<1> QED BY <1>1, <1>3, <1>4, <1>6, <1>7 DEF CosimInv, Init

LEMMA CosimInductive == ASSUME TimerOnly PROVE CosimInv /\ [Next]_vars => CosimInv'
<1> SUFFICES ASSUME CosimInv, [Next]_vars PROVE CosimInv'
  OBVIOUS
<1>1. ASSUME NEW irq \in Irq, DutInterrupt(irq) PROVE CosimInv'
  BY <1>1, InterruptKeeps
<1>2. ASSUME NEW cause \in {ILLEGAL, BREAKPOINT}, DutException(cause) PROVE CosimInv'
  BY <1>2, ExceptionKeeps
<1>3. ASSUME DutMistake PROVE CosimInv'
  BY <1>3, MistakeKeeps
<1>4. ASSUME NEW v \in Bit, NEW ok \in BOOLEAN, DutRetire(v, ok) PROVE CosimInv'
  BY <1>4, RetireKeeps
<1>5. ASSUME CopyScFailure PROVE CosimInv'
  BY <1>5, ScFailureKeeps
<1>6. ASSUME GiveUp PROVE CosimInv'
  BY <1>6, GiveUpKeeps
<1>7. ASSUME Execute PROVE CosimInv'
  BY <1>7, ExecuteKeeps
<1>8. ASSUME TakeTrap PROVE CosimInv'
  BY <1>8, TrapKeeps
<1>9. ASSUME UNCHANGED vars PROVE CosimInv'
  <2>1. GoodProg' <=> GoodProg
    BY <1>9 DEF vars, GoodProg
  <2>2. Ahead' = Ahead /\ (TrapsDue' <=> TrapsDue)
    BY <1>9 DEF vars, Ahead, AfterException, TrapsDue
  <2>3. Mistaken' <=> Mistaken
    BY <1>9 DEF vars, Mistaken
  <2>4. ASSUME NEW s PROVE Following(s)' <=> Following(s)
    <3>1. ASSUME NEW v \in Bit, NEW ok \in BOOLEAN PROVE Retired(s, v, ok)' <=> Retired(s, v, ok)
      BY <1>9 DEF vars, Retired
    <3> QED BY <1>9, <3>1 DEF vars, Following
  <2>5. ASSUME NEW r \in BOOLEAN, Following([Ahead EXCEPT !.resv = r])
        PROVE  Following([Ahead EXCEPT !.resv = r])'
    BY <2>2, <2>4, <2>5
  <2> QED BY <1>9, <2>1, <2>2, <2>3, <2>5 DEF vars, CosimInv
<1> QED BY <1>1, <1>2, <1>3, <1>4, <1>5, <1>6, <1>7, <1>8, <1>9 DEF Next

LEMMA CosimInvImplies == CosimInv => FollowsDut /\ MistakeReported
<1> SUFFICES ASSUME CosimInv PROVE FollowsDut /\ MistakeReported
  OBVIOUS
<1>1. MistakeReported
  BY DEF CosimInv, MistakeReported, Mistaken, Idle
<1>2. FollowsDut
  <2>1. SUFFICES ASSUME wrong = "no", call = Idle,
                        pending_interrupt = None, pending_exception = None
                 PROVE  [emu EXCEPT !.resv = dut.resv] = dut /\ (dut.resv => emu.resv)
    BY DEF CosimInv, FollowsDut
  <2>2. Ahead = emu /\ GoodState(emu) /\ verdict = "ok"
    BY <2>1 DEF CosimInv, Ahead, AfterException
  <2>3. PICK r \in BOOLEAN : (r => emu.resv) /\ dut = [emu EXCEPT !.resv = r]
    BY <2>1, <2>2, Ready
  <2>4. dut.resv = r
    BY <2>2, <2>3, ReservationGood
  <2> QED BY <2>3, <2>4
<1> QED BY <1>1, <1>2

(* Whatever program it runs, a DUT whose only interrupt is the timer's and that makes
   no mistake is never reported, and the emulator is in its state whenever no trap is
   outstanding (majordomo_cosim_raise_trap, majordomo_cosim_step): for programs of
   every length. *)
THEOREM FollowsTheorem == ASSUME TimerOnly PROVE Spec => []FollowsDut
<1>1. Init => CosimInv
  BY CosimInitial
<1>2. CosimInv /\ [Next]_vars => CosimInv'
  BY CosimInductive
<1>3. CosimInv => FollowsDut
  BY CosimInvImplies
<1> QED BY <1>1, <1>2, <1>3, PTL DEF Spec

(* The step that retires a wrong result of a register the emulator knows reports it
   (the comparison of majordomo_cosim_step after handle_dut_overrides). *)
THEOREM MistakeTheorem == ASSUME TimerOnly PROVE Spec => []MistakeReported
<1>1. Init => CosimInv
  BY CosimInitial
<1>2. CosimInv /\ [Next]_vars => CosimInv'
  BY CosimInductive
<1>3. CosimInv => MistakeReported
  BY CosimInvImplies
<1> QED BY <1>1, <1>2, <1>3, PTL DEF Spec
==============================================================================
