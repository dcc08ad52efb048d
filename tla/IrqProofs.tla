------------------------------ MODULE IrqProofs ------------------------------
(* For any harts and sources: no source is lost or handed out twice, and the
   external interrupt bits are late or stale only for the reasons Plic records.  For
   registers of any width, the timer's bit is never early.  For any serial ports, no
   character is lost and the PLIC knows of their causes.  For any set of interrupts,
   addresses and mstatus values, traps keep the types, the returns restore what the traps
   saved, and no handler is interrupted at its own level before it allows it. *)
EXTENDS MCIrq, Trap, TLAPS

-----------------------------------------------------------------------------
\* Sequences of characters

LEMMA Joined == ASSUME NEW S, NEW s \in Seq(S) PROVE s \o <<>> = s /\ <<>> \o s = s
OBVIOUS

LEMMA Added ==
    ASSUME NEW S, NEW s \in Seq(S), NEW e \in S
    PROVE  Append(s, e) \in Seq(S) /\ Append(s, e) = s \o <<e>>
OBVIOUS

LEMMA Split ==
    ASSUME NEW S, NEW s \in Seq(S), s # <<>> PROVE Head(s) \in S /\ Tail(s) \in Seq(S)
OBVIOUS

-----------------------------------------------------------------------------
\* The PLIC

PlicInv ==
    /\ PlicTypeOK
    /\ NotLost
    /\ handling \subseteq plic_served_irq
    /\ SignalNotMissing
    /\ SignalNotSpurious

(* A claim finds a source: every non-empty set of sources has a least one. *)
LEMMA LeastSource ==
    ASSUME NEW mask, mask \subseteq Source, mask # {}
    PROVE  Min(mask) \in mask
<1>1. PICK x : x \in mask /\ \A y \in mask : x <= y
  <2>1. mask \subseteq 1 .. 31  BY PlicAssumption
  <2> QED  BY <2>1, SMTT(30)
<1> QED  BY <1>1 DEF Min

(* The machine starts with the invariant. *)
LEMMA PlicInit == Init => PlicInv
BY DEF Init, PlicInv, PlicTypeOK, NotLost, SignalNotMissing, SignalNotSpurious, Signal

(* Raising and lowering a source brings every hart's bits up to date. *)
LEMMA SetIrqStep ==
    ASSUME PlicInv, NEW i \in Source, NEW state \in BOOLEAN, plic_set_irq(i, state)
    PROVE  PlicInv'
<1>1. PlicTypeOK' /\ NotLost' /\ (handling \subseteq plic_served_irq)'
  BY DEF PlicInv, PlicTypeOK, NotLost, plic_set_irq, plic_update_mip, Signal
<1>2. \A h \in Hart : eip'[h] = Signal(h, plic_pending_irq, plic_served_irq)'
  BY DEF plic_set_irq, plic_update_mip, Signal
<1> QED  BY <1>1, <1>2 DEF PlicInv, SignalNotMissing, SignalNotSpurious

(* A claim moves one source from pending to served, and can only shrink the
   signal of every hart. *)
LEMMA ClaimStep ==
    ASSUME PlicInv, NEW h \in Hart, Claim(h)
    PROVE  PlicInv' /\ handling' # handling
<1> DEFINE mask == plic_pending_irq \ plic_served_irq
<1>1. PICK i \in mask : i = Min(mask)
  BY LeastSource, Zenon DEF PlicInv, PlicTypeOK, Claim
<1>2. /\ plic_pending_irq' = plic_pending_irq \ {i}
      /\ plic_served_irq' = plic_served_irq \cup {i}
      /\ eip' = [eip EXCEPT ![h] = Signal(h, plic_pending_irq', plic_served_irq')]
      /\ late' = late \ {h} /\ stale' = Hart \ {h}
      /\ asking' = asking \ {i} /\ handling' = handling \cup {i}
      /\ plic_enable_irq' = plic_enable_irq
  BY <1>1 DEF Claim, Taken, Served, ClaimMip
<1>3. PlicTypeOK' /\ NotLost' /\ (handling \subseteq plic_served_irq)'
  BY <1>1, <1>2, Zenon DEF PlicInv, PlicTypeOK, NotLost, Signal
<1>4. eip'[h] = Signal(h, plic_pending_irq, plic_served_irq)'
  BY <1>2 DEF PlicInv, PlicTypeOK, Signal
<1>5. SignalNotMissing'
  <2> SUFFICES ASSUME NEW g \in Hart \ late'
               PROVE  Signal(g, plic_pending_irq, plic_served_irq)' \subseteq eip'[g]
    BY DEF SignalNotMissing
  <2>1. CASE g = h  BY <1>4, <2>1
  <2>2. CASE g # h
    <3>1. Signal(g, plic_pending_irq, plic_served_irq)'
             \subseteq Signal(g, plic_pending_irq, plic_served_irq)
      BY <1>2 DEF Signal
    <3>2. g \notin late /\ eip'[g] = eip[g]
      BY <1>2, <2>2 DEF PlicInv, PlicTypeOK
    <3> QED  BY <3>1, <3>2 DEF PlicInv, SignalNotMissing
  <2> QED  BY <2>1, <2>2
<1>6. SignalNotSpurious'
  BY <1>2, <1>4 DEF SignalNotSpurious
<1>7. i \notin handling
  BY <1>1 DEF PlicInv
<1> QED  BY <1>2, <1>3, <1>5, <1>6, <1>7 DEF PlicInv

(* A completion changes a signal only if the source is pending again. *)
LEMMA CompleteStep ==
    ASSUME PlicInv, NEW i \in Source, Complete(i)
    PROVE  PlicInv'
<1>1. PlicTypeOK' /\ NotLost' /\ (handling \subseteq plic_served_irq)'
  BY DEF PlicInv, PlicTypeOK, NotLost, Complete
<1>2. SignalNotMissing'
  BY DEF PlicInv, SignalNotMissing, Complete, Signal
<1>3. SignalNotSpurious'
  BY DEF PlicInv, SignalNotSpurious, Complete, Signal
<1> QED  BY <1>1, <1>2, <1>3 DEF PlicInv

(* Writes of an enable word, or of SEIP, touch one hart, which is then marked. *)
LEMMA WriteStep ==
    ASSUME PlicInv, NEW h \in Hart,
           \/ \E c \in Ctx, val \in SUBSET Source : Enable(h, c, val)
           \/ \E val \in SUBSET {SEIP} : WriteSeip(h, val)
    PROVE  PlicInv'
<1>1. CASE \E c \in Ctx, val \in SUBSET Source : Enable(h, c, val)
  <2>1. PICK c \in Ctx, val \in SUBSET Source : Enable(h, c, val)  BY <1>1
  <2>2. PlicTypeOK' /\ NotLost' /\ (handling \subseteq plic_served_irq)'
    BY <2>1 DEF PlicInv, PlicTypeOK, NotLost, Enable
  <2>3. SignalNotMissing' /\ SignalNotSpurious'
    BY <2>1 DEF PlicInv, PlicTypeOK, SignalNotMissing, SignalNotSpurious, Enable, Signal
  <2> QED  BY <2>2, <2>3 DEF PlicInv
<1>2. CASE \E val \in SUBSET {SEIP} : WriteSeip(h, val)
  <2>1. PICK val \in SUBSET {SEIP} : WriteSeip(h, val)  BY <1>2
  <2>2. PlicTypeOK' /\ NotLost' /\ (handling \subseteq plic_served_irq)'
    BY <2>1, Zenon DEF PlicInv, PlicTypeOK, NotLost, WriteSeip, Ctx
  <2>3. SignalNotMissing' /\ SignalNotSpurious'
    BY <2>1 DEF PlicInv, PlicTypeOK, SignalNotMissing, SignalNotSpurious, WriteSeip, Signal
  <2> QED  BY <2>2, <2>3 DEF PlicInv
<1> QED  BY <1>1, <1>2

(* Every step keeps the invariant. *)
LEMMA PlicNext == PlicInv /\ [Next]_vars => PlicInv'
<1> SUFFICES ASSUME PlicInv, [Next]_vars PROVE PlicInv'  OBVIOUS
<1>1. CASE UNCHANGED vars
  BY <1>1 DEF PlicInv, PlicTypeOK, NotLost, SignalNotMissing, SignalNotSpurious, Signal, vars
<1> QED  BY <1>1, SetIrqStep, ClaimStep, CompleteStep, WriteStep DEF Next

(* The invariant holds in every reachable state. *)
LEMMA PlicInvariance == Spec => []PlicInv
BY PlicInit, PlicNext, PTL DEF Spec

(* Type correctness of the controller's words and of mip. *)
THEOREM PlicTypeCorrect == Spec => []PlicTypeOK
<1>1. PlicInv => PlicTypeOK  BY DEF PlicInv
<1> QED  BY <1>1, PlicInvariance, PTL

(* No claim and no completion loses a source that asks. *)
THEOREM NoSourceLost == Spec => []NotLost
<1>1. PlicInv => NotLost  BY DEF PlicInv
<1> QED  BY <1>1, PlicInvariance, PTL

(* The bits of mip lack a signalled source, and are set without one, only for the
   recorded reasons. *)
THEOREM SignalTheorem == Spec => []SignalExact
<1>1. PlicInv => SignalExact  BY DEF PlicInv, SignalExact
<1> QED  BY <1>1, PlicInvariance, PTL

(* Each claim hands out a source that nobody is handling. *)
THEOREM SingleClaim == Spec => NoDoubleClaim
<1>1. PlicInv => [\A h \in Hart : Claim(h) => handling' # handling]_vars
  BY ClaimStep
<1> QED  BY <1>1, PlicInvariance, PTL DEF NoDoubleClaim

-----------------------------------------------------------------------------
(* The CLINT *)

(* The clock divided by RTC_FREQ_DIV is a word, and never goes back while mcycle does
   not. *)
LEMMA DividedClock ==
    ASSUME NEW a \in Nat, NEW b \in Nat, a <= b, NEW d \in Nat \ {0}
    PROVE  /\ a \div d \in Nat /\ a \div d <= a
           /\ a \div d <= b \div d
<1> DEFINE p == a \div d
           q == b \div d
<1>1. /\ p \in Int /\ a = d * p + (a % d) /\ a % d \in 0 .. d - 1
      /\ q \in Int /\ b = d * q + (b % d) /\ b % d \in 0 .. d - 1
  OBVIOUS
<1> HIDE DEF p, q
<1>2. p >= 0
  <2>1. p <= -1 => d * p <= -d  BY <1>1
  <2> QED  BY <1>1, <2>1
<1>3. p <= a
  <2>1. p <= d * p  BY <1>1, <1>2
  <2> QED  BY <1>1, <2>1
<1>4. p <= q
  <2>1. q + 1 <= p => d * q + d <= d * p
    <3>1. SUFFICES ASSUME q + 1 <= p PROVE d * q + d <= d * p  OBVIOUS
    <3>2. d * (q + 1) <= d * p  BY <1>1, <3>1
    <3> QED  BY <1>1, <3>2
  <2> QED  BY <1>1, <2>1
<1> QED  BY <1>1, <1>2, <1>3, <1>4 DEF p, q

(* A word is a natural number below the modulus, which is at least one half word. *)
LEMMA WordRange ==
    /\ Modulus \in Nat /\ Half \in Nat /\ 1 <= Half /\ Half <= Modulus
    /\ \A w : w \in Word <=> w \in Nat /\ w < Modulus
    /\ \A w : w \in HalfWord <=> w \in Nat /\ w < Half
<1>1. Half \in Nat /\ Half >= 1  BY ClintAssumption
<1>2. Modulus \in Nat /\ Modulus >= Half  BY <1>1 DEF Modulus
<1> QED  BY <1>1, <1>2 DEF Word, HalfWord

(* Words and half words put together are words. *)
LEMMA WordArithmetic ==
    /\ \A v \in HalfWord : v \in Word
    /\ \A w \in Nat, v \in HalfWord : (w % Half) + v * Half \in Word
    /\ \A w \in Word : w % Half \in HalfWord /\ w \div Half \in HalfWord
<1>1. Half \in Nat /\ Half >= 1  BY ClintAssumption
<1>2. Modulus = Half * Half /\ Modulus \in Nat /\ Modulus >= Half
  BY <1>1 DEF Modulus
<1>3. ASSUME NEW w \in Nat, NEW v \in HalfWord
      PROVE  (w % Half) + v * Half \in Word
  <2>1. w % Half \in 0 .. Half - 1  BY <1>1
  <2>2. v \in Nat /\ v <= Half - 1  BY <1>1 DEF HalfWord
  <2>3. v * Half <= (Half - 1) * Half  BY <1>1, <2>2
  <2>4. v * Half \in Nat  BY <1>1, <2>2
  <2>5. (Half - 1) * Half = Half * Half - Half  BY <1>1
  <2> QED  BY <1>1, <1>2, <2>1, <2>3, <2>4, <2>5 DEF Word
<1>4. ASSUME NEW w \in Word PROVE w % Half \in HalfWord /\ w \div Half \in HalfWord
  <2>1. w \in Nat /\ w < Half * Half  BY <1>2 DEF Word
  <2> DEFINE q == w \div Half
  <2>2. q \in Int /\ w = Half * q + (w % Half) /\ w % Half \in 0 .. Half - 1
    BY <1>1, <2>1
  <2> HIDE DEF q
  <2>3. q >= 0
    <3>1. q <= -1 => Half * q <= -Half  BY <1>1, <2>2
    <3> QED  BY <1>1, <2>1, <2>2, <3>1
  <2>4. q < Half
    <3>1. q >= Half => Half * q >= Half * Half  BY <1>1, <2>2
    <3> QED  BY <1>1, <2>1, <2>2, <3>1
  <2> QED  BY <1>1, <2>2, <2>3, <2>4 DEF q, HalfWord
<1> QED  BY <1>1, <1>2, <1>3, <1>4 DEF HalfWord, Word

ClintInv == ClintTypeOK /\ TimerNotEarly

(* Time is a word. *)
LEMMA TimeIsWord ==
    ASSUME ClintTypeOK
    PROVE  rtc_get_time \in Word
<1>1. mcycle \in Nat /\ mcycle < Modulus  BY WordRange DEF ClintTypeOK
<1>2. rtc_get_time \in Nat /\ rtc_get_time <= mcycle
  BY <1>1, DividedClock, ClintAssumption DEF rtc_get_time
<1> QED  BY <1>1, <1>2, WordRange

(* The comparison sets the timer bit only at or after the comparator's time, or half
   a range before it. *)
LEMMA SleepStep ==
    ASSUME ClintInv, NEW h \in ClintHart, virt_machine_get_sleep_duration(h)
    PROVE  ClintInv'
<1> DEFINE t == rtc_get_time
           c == timecmp[h]
<1>1. t \in Word /\ c \in Word  BY TimeIsWord DEF ClintInv, ClintTypeOK
<1>2. rtc_get_time' = t  BY DEF virt_machine_get_sleep_duration, rtc_get_time
<1>3. ClintTypeOK'
  BY <1>1 DEF ClintInv, ClintTypeOK, virt_machine_get_sleep_duration
<1>4. c <= t \/ c - t >= Modulus \div 2
  <2>1. Signed(c - t) <= 0  BY DEF virt_machine_get_sleep_duration, Expired
  <2>2. t \in Nat /\ c \in Nat /\ c < Modulus  BY <1>1, WordRange
  <2> SUFFICES ASSUME c > t, c - t < Modulus \div 2 PROVE FALSE
    <3>1. Modulus \div 2 \in Int  BY WordRange
    <3> QED  BY <2>2, <3>1
  <2>3. (c - t) % Modulus = c - t
    <3> HIDE DEF t, c
    <3>1. c - t \in 0 .. Modulus - 1  BY <2>2, WordRange
    <3> QED  BY <2>2, <3>1, WordRange
  <2> QED  BY <2>1, <2>2, <2>3 DEF Signed
<1> HIDE DEF t
<1>5. TimerNotEarly'
  BY <1>2, <1>4, Zenon DEF ClintInv, ClintTypeOK, TimerNotEarly, virt_machine_get_sleep_duration, t
<1> QED  BY <1>3, <1>5 DEF ClintInv

(* A new value of mcycle either sets the clock back, which is recorded, or moves time
   on, away from no comparator. *)
LEMMA McycleStep ==
    ASSUME ClintInv, NEW c \in Int, SetMcycle(c)
    PROVE  ClintInv'
<1>1. c % Modulus \in Word  BY WordRange
<1>2. ClintTypeOK'  BY <1>1 DEF ClintInv, ClintTypeOK, SetMcycle
<1>3. mcycle \in Nat /\ mcycle' \in Nat
  BY <1>2, WordRange DEF ClintInv, ClintTypeOK
<1>4. mcycle <= mcycle' => rtc_get_time <= rtc_get_time'
  BY <1>3, DividedClock, ClintAssumption, Zenon DEF rtc_get_time
<1>5. rtc_get_time \in Int /\ rtc_get_time' \in Int /\ \A h \in ClintHart : timecmp[h] \in Int
  BY <1>2, TimeIsWord, WordRange, ClintAssumption, <1>3
     DEF ClintInv, ClintTypeOK, rtc_get_time
<1>6. TimerNotEarly'
  BY <1>3, <1>4, <1>5 DEF ClintInv, ClintTypeOK, TimerNotEarly, SetMcycle
<1> QED  BY <1>2, <1>6 DEF ClintInv

(* A write of a comparator withdraws the bit of its hart. *)
LEMMA TimecmpStep ==
    ASSUME ClintInv, NEW h \in ClintHart, NEW w \in Word, SetTimecmp(h, w)
    PROVE  ClintInv'
BY DEF ClintInv, ClintTypeOK, TimerNotEarly, SetTimecmp, rtc_get_time

(* Every step keeps the types and the timer bits on time. *)
LEMMA ClintStep == ClintInv /\ [ClintNext]_clint => ClintInv'
<1> SUFFICES ASSUME ClintInv, [ClintNext]_clint PROVE ClintInv'  OBVIOUS
<1> USE DEF ClintInv
<1>1. mcycle \in Nat /\ rtc_get_time \in Nat /\ RTC_FREQ_DIV \in Nat /\ Half \in Nat \ {0}
  BY TimeIsWord, WordRange, ClintAssumption DEF ClintTypeOK
<1>2. ASSUME NEW h \in ClintHart, virt_machine_get_sleep_duration(h) PROVE ClintInv'
  BY <1>2, SleepStep
<1>3. ASSUME NEW h \in ClintHart, NEW val \in HalfWord,
             WriteTimecmpLo(h, val) \/ WriteTimecmpHi(h, val)
      PROVE  ClintInv'
  <2>1. val \in Word /\ WithHi(timecmp[h], val) \in Word
    BY WordArithmetic, WordRange DEF ClintTypeOK, WithHi
  <2> QED  BY <1>3, <2>1, TimecmpStep DEF WriteTimecmpLo, WriteTimecmpHi, WithLo
<1>4. ASSUME NEW h \in ClintHart, NEW val \in Word, WriteTimecmp(h, val) PROVE ClintInv'
  <2>1. Split64(timecmp[h], val) \in Word
    BY WordArithmetic, WordRange DEF Split64, WithHi, WithLo
  <2> QED  BY <1>4, <2>1, TimecmpStep DEF WriteTimecmp
<1>5. ASSUME NEW h \in ClintHart, NEW val \in HalfWord, WriteMsip(h, val) PROVE ClintInv'
  BY <1>5 DEF WriteMsip, ClintTypeOK, TimerNotEarly, rtc_get_time
<1>6. ASSUME Batch PROVE ClintInv'  BY <1>1, <1>6, McycleStep DEF Batch
<1>7. ASSUME NEW c \in Word, WriteMcycle(c) PROVE ClintInv'
  BY <1>7, McycleStep DEF WriteMcycle, Word
<1>8. ASSUME NEW val \in HalfWord, WriteMtimeLo(val) \/ WriteMtimeHi(val) PROVE ClintInv'
  <2>1. val \in Int  BY DEF HalfWord
  <2>2. /\ ((rtc_get_time \div Half) * Half + val) * RTC_FREQ_DIV \in Int
        /\ ((rtc_get_time % Half) + val * Half) * RTC_FREQ_DIV \in Int
    BY <1>1, <2>1
  <2> QED  BY <1>8, <2>2, McycleStep DEF WriteMtimeLo, WriteMtimeHi
<1>9. CASE UNCHANGED clint
  BY <1>9 DEF ClintTypeOK, TimerNotEarly, rtc_get_time, clint
<1> QED  BY <1>2, <1>3, <1>4, <1>5, <1>6, <1>7, <1>8, <1>9 DEF ClintNext

(* All timer bits are clear at the start. *)
LEMMA ClintStart == ClintInit => ClintInv
BY WordRange DEF ClintInit, ClintInv, ClintTypeOK, TimerNotEarly

(* For any width of the registers, any divider and any number of harts the timer bit
   is set only at or after the comparator's time, unless the clock was set back or the
   comparator was half a range ahead. *)
THEOREM TimerTheorem == ClintSpec => []TimerNotEarly
<1>1. ClintInv => TimerNotEarly  BY DEF ClintInv
<1> QED  BY <1>1, ClintStart, ClintStep, PTL DEF ClintSpec

-----------------------------------------------------------------------------
(* The serial ports *)

(* The line is up exactly while there is a cause: update_isr keeps the two together, and
   nothing changes a cause without it. *)
LineKnown == \A u \in Dw : dw[u].last_irq_level <=> Cause(dw[u])

PortInv == UartTypeOK /\ NothingOverwritten /\ LineKnown /\ LineFollowsCause

(* The status is even exactly when there is a cause. *)
LEMMA NibbleIsCause ==
    ASSUME NEW d
    PROVE  IsrNibble(d) \in 0 .. 4 /\ (IsrNibble(d) % 2 = 0 <=> Cause(d))
BY DEF IsrNibble, Cause

(* The status and the line are registers of the port. *)
LEMMA PortRegisters ==
    ASSUME NEW d \in Port, NEW isr \in 0 .. 4, NEW level \in BOOLEAN
    PROVE  [d EXCEPT !.isr = isr, !.last_irq_level = level] \in Port
<1>1. [d EXCEPT !.isr = isr] \in Port  BY DEF Port
<1>2. PICK e \in Port : e = [d EXCEPT !.isr = isr]  BY <1>1, Zenon
<1>3. [e EXCEPT !.last_irq_level = level] \in Port  BY DEF Port
<1> QED  BY <1>2, <1>3, Zenon

(* After update_isr the port's registers are the ones given, its line is right, and the
   PLIC has the source pending unless it is claimed. *)
LEMMA UpdateIsr ==
    ASSUME PortInv, NEW u \in Dw, NEW d \in Port,
           d.last_irq_level = dw[u].last_irq_level, update_isr(u, d)
    PROVE  /\ dw' \in [Dw -> Port] /\ LineKnown' /\ LineFollowsCause'
           /\ dw'[u].lsr = d.lsr /\ dw'[u].rhr = d.rhr
           /\ \A v \in Dw \ {u} : dw'[v] = dw[v]
<1> DEFINE isr == IsrNibble(d)
           level == isr % 2 = 0
           new == [d EXCEPT !.isr = isr, !.last_irq_level = level]
<1>1. dw' = [dw EXCEPT ![u] = new]  BY DEF update_isr
<1>2. isr \in 0 .. 4 /\ level \in BOOLEAN /\ (level <=> Cause(d))
  BY NibbleIsCause
<1> HIDE DEF isr, level
<1>3. /\ new \in Port /\ (Cause(new) <=> Cause(d))
      /\ new.last_irq_level = level /\ new.lsr = d.lsr /\ new.rhr = d.rhr
  <2>1. new \in Port  BY <1>2, PortRegisters, Zenon
  <2>2. /\ new.ier = d.ier /\ new.lsr = d.lsr /\ new.rhr = d.rhr
        /\ new.last_irq_level = level
    BY DEF Port
  <2> QED  BY <2>1, <2>2 DEF Cause
<1> HIDE DEF new
<1>4. dw \in [Dw -> Port]  BY DEF PortInv, UartTypeOK
<1>5. dw' \in [Dw -> Port] /\ dw'[u] = new /\ \A v \in Dw \ {u} : dw'[v] = dw[v]
  BY <1>1, <1>3, <1>4
<1>6. LineKnown'
  <2>1. ASSUME NEW v \in Dw \ {u} PROVE dw'[v].last_irq_level <=> Cause(dw'[v])
    BY <1>5 DEF PortInv, LineKnown
  <2>2. dw'[u].last_irq_level <=> Cause(dw'[u])  BY <1>2, <1>3, <1>5
  <2>3. \A v \in Dw : dw'[v].last_irq_level <=> Cause(dw'[v])  BY <2>1, <2>2
  <2> QED  BY <2>3 DEF LineKnown, Cause
<1>7. LineFollowsCause'
  <2>1. d.last_irq_level <=> Cause(dw[u])  BY DEF PortInv, LineKnown
  <2>2. Cause(dw'[u]) <=> level  BY <1>2, <1>3, <1>5
  <2>3. CASE level # d.last_irq_level
    <3>1. /\ plic_pending_irq' = IF level THEN plic_pending_irq \cup {u} ELSE plic_pending_irq \ {u}
          /\ claimed' = claimed \ {u}
      BY <2>3 DEF update_isr, plic_set_irq, level, isr
    <3>2. ASSUME NEW v \in Dw \ {u}
          PROVE  /\ Cause(dw'[v]) => v \in plic_pending_irq' \cup claimed'
                 /\ v \in plic_pending_irq' => Cause(dw'[v])
      BY <1>5, <3>1 DEF PortInv, LineFollowsCause
    <3>3. /\ Cause(dw'[u]) => u \in plic_pending_irq' \cup claimed'
          /\ u \in plic_pending_irq' => Cause(dw'[u])
      BY <2>2, <3>1
    <3> QED  BY <3>2, <3>3 DEF LineFollowsCause, Cause
  <2>4. CASE level = d.last_irq_level
    <3>1. plic_pending_irq' = plic_pending_irq /\ claimed' = claimed
      BY <2>4 DEF update_isr, level, isr, plic, vars
    <3>2. \A v \in Dw : Cause(dw'[v]) <=> Cause(dw[v])  BY <1>5, <2>1, <2>2, <2>4
    <3> QED  BY <3>1, <3>2 DEF PortInv, LineFollowsCause, Cause
  <2> QED  BY <2>3, <2>4
<1> QED  BY <1>3, <1>5, <1>6, <1>7

Chars == Seq(Char \cup {"nul"})

(* What a port took and what was read from it stay apart by what it holds, if that is so
   for the one port a step is about. *)
LEMMA OnePort ==
    ASSUME PortInv, NEW u \in Dw, NEW d \in Port,
           d.last_irq_level = dw[u].last_irq_level, update_isr(u, d),
           terminal' \in Seq(Char),
           taken' \in [Dw -> Chars], given' \in [Dw -> Chars],
           \A v \in Dw \ {u} : taken'[v] = taken[v] /\ given'[v] = given[v],
           taken'[u] = given'[u] \o Held(d)
    PROVE  PortInv'
<1>1. /\ dw' \in [Dw -> Port] /\ LineKnown' /\ LineFollowsCause'
      /\ dw'[u].lsr = d.lsr /\ dw'[u].rhr = d.rhr
      /\ \A v \in Dw \ {u} : dw'[v] = dw[v]
  BY UpdateIsr
<1>2. Held(dw'[u]) = Held(d)  BY <1>1 DEF Held
<1>3. ASSUME NEW v \in Dw PROVE taken'[v] = given'[v] \o Held(dw'[v])
  <2>1. CASE v = u  BY <1>2, <2>1, Zenon
  <2>2. CASE v # u
    <3>1. taken[v] = given[v] \o Held(dw[v])  BY Zenon DEF PortInv, NothingOverwritten
    <3>2. v \in Dw \ {u}  BY <2>2
    <3>3. dw'[v] = dw[v] /\ taken'[v] = taken[v] /\ given'[v] = given[v]  BY <1>1, <3>2, Zenon
    <3> QED  BY <3>1, <3>3, Zenon
  <2> QED  BY <2>1, <2>2
<1>4. NothingOverwritten'  BY <1>3 DEF NothingOverwritten, Held
<1> QED  BY <1>1, <1>4 DEF PortInv, UartTypeOK, Chars

(* The invariant is about the ports and what the PLIC knows of them. *)
LEMMA PortsKept ==
    ASSUME PortInv, terminal' \in Seq(Char), UNCHANGED <<dw, taken, given>>,
           plic_pending_irq' \cup claimed' = plic_pending_irq \cup claimed,
           plic_pending_irq' \subseteq plic_pending_irq
    PROVE  PortInv'
<1>1. UartTypeOK'  BY DEF PortInv, UartTypeOK
<1>2. NothingOverwritten'  BY Zenon DEF PortInv, NothingOverwritten, Held
<1>3. LineKnown'  BY DEF PortInv, LineKnown, Cause
<1>4. LineFollowsCause'  BY DEF PortInv, LineFollowsCause, Cause
<1> QED  BY <1>1, <1>2, <1>3, <1>4 DEF PortInv

(* What console_read leaves of the terminal. *)
LEMMA Console ==
    ASSUME UartTypeOK, ConsoleTaken \/ ConsoleLeft
    PROVE  terminal' \in Seq(Char)
<1>1. CASE terminal = <<>>  BY <1>1, Zenon DEF UartTypeOK, ConsoleTaken, ConsoleLeft
<1>2. CASE terminal # <<>>
  <2>1. Tail(terminal) \in Seq(Char)  BY <1>2, Split DEF UartTypeOK
  <2> QED  BY <1>2, <2>1, Zenon DEF UartTypeOK, ConsoleTaken, ConsoleLeft
<1> QED  BY <1>1, <1>2

(* Polling a port takes a character only into an empty holding register. *)
LEMMA PollStep ==
    ASSUME PortInv, NEW u \in Dw, NEW d \in Port,
           d.last_irq_level = dw[u].last_irq_level, Held(d) = Held(dw[u]),
           Poll(u, d), UNCHANGED given
    PROVE  PortInv'
<1>1. UartTypeOK  BY DEF PortInv
<1>2. /\ taken \in [Dw -> Chars] /\ given \in [Dw -> Chars] /\ taken[u] = given[u] \o Held(d)
      /\ taken[u] \in Chars /\ given[u] \in Chars
  BY <1>1, Zenon DEF PortInv, UartTypeOK, Chars, NothingOverwritten
<1>3. terminal' \in Seq(Char)  BY <1>1, Console DEF Poll
<1>4. CASE ~CanTake(d)
  <2>1. update_isr(u, d) /\ taken' = taken  BY <1>4 DEF Poll
  <2> QED  BY <1>2, <1>3, <2>1, OnePort
<1>5. CASE CanTake(d)
  <2> DEFINE r == console_read(d.rhr)
             l == IF r.data THEN d.lsr \cup {"rxrdy"} ELSE d.lsr
             e == [d EXCEPT !.rhr = r.ch, !.lsr = l]
  <2>1. /\ update_isr(u, e)
        /\ taken' = IF r.data THEN [taken EXCEPT ![u] = Append(@, r.ch)] ELSE taken
    BY <1>5 DEF Poll
  <2>2. r.ch \in Char \cup {"nul"}
    <3>1. CASE terminal = <<>>  BY <3>1 DEF console_read, Port
    <3>2. CASE terminal # <<>>
      <4>1. Head(terminal) \in Char  BY <1>1, <3>2, Split DEF UartTypeOK
      <4> QED  BY <3>2, <4>1 DEF console_read
    <3> QED  BY <3>1, <3>2
  <2>3. l \in SUBSET {"rxrdy", "threempty", "txempty"}  BY DEF Port
  <2>4. taken[u] = given[u] /\ "rxrdy" \notin d.lsr
    <3>1. Held(d) = <<>> /\ "rxrdy" \notin d.lsr  BY <1>5 DEF CanTake, Held
    <3> QED  BY <1>2, <3>1, Joined DEF Chars
  <2>5. r.data => l = d.lsr \cup {"rxrdy"}  OBVIOUS
  <2>6. ~r.data => l = d.lsr  OBVIOUS
  <2> HIDE DEF r, l
  <2>7. e \in Port /\ e.rhr = r.ch /\ e.lsr = l /\ e.last_irq_level = d.last_irq_level
    <3>1. PICK ch \in Char \cup {"nul"} : ch = r.ch  BY <2>2, Zenon
    <3>2. PICK lsr \in SUBSET {"rxrdy", "threempty", "txempty"} : lsr = l  BY <2>3, Zenon
    <3> DEFINE f == [d EXCEPT !.rhr = ch]
    <3>3. f \in Port /\ f.rhr = ch /\ f.last_irq_level = d.last_irq_level  BY DEF Port
    <3>4. e = [f EXCEPT !.lsr = lsr]  BY <3>1, <3>2, Zenon
    <3> HIDE DEF e, f
    <3>5. e \in Port /\ e.rhr = f.rhr /\ e.lsr = lsr /\ e.last_irq_level = f.last_irq_level
      BY <3>3, <3>4 DEF Port
    <3> QED  BY <3>1, <3>2, <3>3, <3>5, Zenon
  <2> HIDE DEF e
  <2>8. CASE r.data
    <3>1. Held(e) = <<r.ch>>  BY <2>5, <2>7, <2>8 DEF Held
    <3>2. Append(taken[u], r.ch) \in Chars /\ Append(taken[u], r.ch) = given[u] \o <<r.ch>>
      <4>1. PICK ch \in Char \cup {"nul"} : ch = r.ch  BY <2>2, Zenon
      <4>2. PICK t \in Seq(Char \cup {"nul"}) : t = taken[u]  BY <1>2, Zenon DEF Chars
      <4>3. Append(t, ch) \in Seq(Char \cup {"nul"})  BY Added, Zenon
      <4>4. Append(t, ch) = t \o <<ch>>  BY Added, Zenon
      <4> QED  BY <2>4, <4>1, <4>2, <4>3, <4>4, Zenon DEF Chars
    <3>3. taken' = [taken EXCEPT ![u] = Append(taken[u], r.ch)]  BY <2>1, <2>8
    <3>4. /\ taken' \in [Dw -> Chars] /\ taken'[u] = Append(taken[u], r.ch)
          /\ \A v \in Dw \ {u} : taken'[v] = taken[v]
      BY <1>2, <3>2, <3>3
    <3>5. /\ given' = given /\ \A v \in Dw \ {u} : given'[v] = given[v]
          /\ taken'[u] = given'[u] \o Held(e)
      BY <3>1, <3>2, <3>4, Zenon
    <3> QED  BY <1>2, <1>3, <2>1, <2>7, <3>4, <3>5, OnePort, Zenon
  <2>9. CASE ~r.data
    <3>1. Held(e) = Held(d)  BY <2>4, <2>6, <2>7, <2>9 DEF Held
    <3>2. taken' = taken  BY <2>1, <2>9
    <3> QED  BY <1>2, <1>3, <2>1, <2>7, <3>1, <3>2, OnePort, Zenon
  <2> QED  BY <2>8, <2>9
<1> QED  BY <1>4, <1>5

(* An update of the interrupt status alone. *)
LEMMA StatusStep ==
    ASSUME PortInv, NEW u \in Dw, NEW d \in Port,
           d.last_irq_level = dw[u].last_irq_level, Held(d) = Held(dw[u]),
           update_isr(u, d), ConsoleLeft, UNCHANGED <<taken, given>>
    PROVE  PortInv'
<1>1. UartTypeOK  BY DEF PortInv
<1>2. taken' \in [Dw -> Chars] /\ given' \in [Dw -> Chars] /\ taken'[u] = given'[u] \o Held(d)
  BY <1>1, Zenon DEF PortInv, UartTypeOK, Chars, NothingOverwritten
<1>3. terminal' \in Seq(Char)  BY <1>1, Console
<1>4. \A v \in Dw \ {u} : taken'[v] = taken[v] /\ given'[v] = given[v]  BY Zenon
<1> QED  BY <1>2, <1>3, <1>4, OnePort, Zenon

(* A read of the holding register hands its character to the guest once. *)
LEMMA ReadStep ==
    ASSUME PortInv, NEW u \in Dw, read_rhr(u)
    PROVE  PortInv'
<1>1. UartTypeOK /\ dw[u] \in Port  BY DEF PortInv, UartTypeOK
<1>2. CASE dw[u].dlab
  <2>1. UNCHANGED <<terminal, dw, taken, given, claimed, plic_pending_irq>>
    BY <1>2, Zenon DEF read_rhr, uart, plic, vars
  <2> QED  BY <1>1, <2>1, PortsKept DEF UartTypeOK
<1>3. CASE ~dw[u].dlab
  <2> DEFINE d == [dw[u] EXCEPT !.lsr = @ \ {"rxrdy"}]
  <2>1. update_isr(u, d) /\ ConsoleLeft /\ taken' = taken  BY <1>3, Zenon DEF read_rhr
  <2>2. /\ d \in Port /\ d.last_irq_level = dw[u].last_irq_level
        /\ d.lsr = dw[u].lsr \ {"rxrdy"}
    BY <1>1 DEF Port
  <2>3. given' = IF "rxrdy" \in dw[u].lsr THEN [given EXCEPT ![u] = Append(@, dw[u].rhr)]
                 ELSE given
    BY <1>3, Zenon DEF read_rhr
  <2> HIDE DEF d
  <2>4. Held(d) = <<>>  BY <2>2 DEF Held
  <2>5. /\ taken \in [Dw -> Chars] /\ given \in [Dw -> Chars]
        /\ taken[u] \in Chars /\ given[u] \in Chars
        /\ taken[u] = given[u] \o Held(dw[u])
    BY <1>1, Zenon DEF PortInv, UartTypeOK, Chars, NothingOverwritten
  <2>6. /\ given' \in [Dw -> Chars] /\ given'[u] = taken[u]
        /\ \A v \in Dw \ {u} : given'[v] = given[v]
    <3>1. CASE "rxrdy" \in dw[u].lsr
      <4>1. dw[u].rhr \in Char \cup {"nul"}  BY <1>1 DEF UartTypeOK, Port
      <4>2. PICK ch \in Char \cup {"nul"} : ch = dw[u].rhr  BY <4>1, Zenon
      <4>3. PICK g \in Seq(Char \cup {"nul"}) : g = given[u]  BY <2>5, Zenon DEF Chars
      <4>4. Append(g, ch) = g \o <<ch>>  BY Added, Zenon
      <4>5. Held(dw[u]) = <<ch>>  BY <3>1, <4>2, Zenon DEF Held
      <4>6. taken[u] = Append(given[u], dw[u].rhr)  BY <2>5, <4>2, <4>3, <4>4, <4>5, Zenon
      <4>7. given' = [given EXCEPT ![u] = taken[u]]  BY <2>3, <3>1, <4>6, Zenon
      <4> QED  BY <2>5, <4>7
    <3>2. CASE "rxrdy" \notin dw[u].lsr
      <4>1. Held(dw[u]) = <<>>  BY <3>2 DEF Held
      <4>2. taken[u] = given[u]  BY <2>5, <4>1, Joined DEF Chars
      <4> QED  BY <2>3, <2>5, <3>2, <4>2, Zenon
    <3> QED  BY <3>1, <3>2
  <2>7. taken'[u] = given'[u] \o Held(d)
    <3>1. taken[u] = taken[u] \o <<>>  BY <2>5, Joined DEF Chars
    <3> QED  BY <2>1, <2>4, <2>6, <3>1, Zenon
  <2>8. terminal' \in Seq(Char) /\ taken' \in [Dw -> Chars]
    BY <1>1, <2>1, <2>5, Console
  <2>9. \A v \in Dw \ {u} : taken'[v] = taken[v] /\ given'[v] = given[v]
    BY <2>1, <2>6, Zenon
  <2> QED  BY <2>1, <2>2, <2>6, <2>7, <2>8, <2>9, OnePort, Zenon
<1> QED  BY <1>2, <1>3

(* Every access of the guest to a port keeps the invariant. *)
LEMMA AccessStep ==
    ASSUME PortInv, NEW u \in Dw,
           \/ read_rhr(u) \/ write_thr(u) \/ read_lsr(u) \/ read_msr(u)
           \/ \E val \in IerVal : write_ier(u, val)
           \/ \E dlab \in BOOLEAN : write_lcr(u, dlab)
    PROVE  PortInv'
<1>1. UartTypeOK /\ dw[u] \in Port  BY DEF PortInv, UartTypeOK
<1>2. ASSUME UNCHANGED <<uart, plic>> PROVE PortInv'
  <2>1. UNCHANGED <<terminal, dw, taken, given, claimed, plic_pending_irq>>
    BY <1>2, Zenon DEF uart, plic, vars
  <2> QED  BY <1>1, <2>1, PortsKept DEF UartTypeOK
<1>3. CASE write_thr(u)
  <2>1. UNCHANGED <<uart, plic>> \/ (Poll(u, dw[u]) /\ UNCHANGED given)
    BY <1>3, Zenon DEF write_thr
  <2> QED  BY <1>1, <1>2, <2>1, PollStep
<1>4. CASE read_lsr(u)
  <2> DEFINE d == [dw[u] EXCEPT !.lsr = @ \cup {"threempty", "txempty"}]
  <2>1. Poll(u, d) /\ UNCHANGED given  BY <1>4, Zenon DEF read_lsr
  <2>2. /\ d \in Port /\ d.last_irq_level = dw[u].last_irq_level /\ d.rhr = dw[u].rhr
        /\ d.lsr = dw[u].lsr \cup {"threempty", "txempty"}
    BY <1>1 DEF Port
  <2> HIDE DEF d
  <2>3. Held(d) = Held(dw[u])  BY <2>2 DEF Held
  <2> QED  BY <2>1, <2>2, <2>3, PollStep
<1>5. CASE read_msr(u)
  BY <1>1, <1>5, StatusStep DEF read_msr
<1>6. ASSUME NEW val \in IerVal, write_ier(u, val) PROVE PortInv'
  <2> DEFINE d == [dw[u] EXCEPT !.ier = val]
  <2>1. UNCHANGED <<uart, plic>>
        \/ (update_isr(u, d) /\ ConsoleLeft /\ UNCHANGED <<taken, given>>)
    BY <1>6, Zenon DEF write_ier
  <2>2. /\ d \in Port /\ d.last_irq_level = dw[u].last_irq_level /\ d.rhr = dw[u].rhr
        /\ d.lsr = dw[u].lsr
    BY <1>1 DEF Port
  <2> HIDE DEF d
  <2>3. Held(d) = Held(dw[u])  BY <2>2, Zenon DEF Held
  <2> QED  BY <1>2, <2>1, <2>2, <2>3, StatusStep
<1>7. ASSUME NEW dlab \in BOOLEAN, write_lcr(u, dlab) PROVE PortInv'
  <2> DEFINE d == [dw[u] EXCEPT !.dlab = dlab]
  <2>1. /\ dw' = [dw EXCEPT ![u] = d]
        /\ UNCHANGED <<terminal, taken, given, claimed, plic_pending_irq>>
    BY <1>7 DEF write_lcr, plic, vars
  <2>2. /\ d \in Port /\ d.rhr = dw[u].rhr /\ d.lsr = dw[u].lsr /\ d.ier = dw[u].ier
        /\ d.last_irq_level = dw[u].last_irq_level
    BY <1>1 DEF Port
  <2> HIDE DEF d
  <2>3. /\ dw' \in [Dw -> Port]
        /\ \A v \in Dw : /\ dw'[v].rhr = dw[v].rhr /\ dw'[v].lsr = dw[v].lsr
                         /\ dw'[v].ier = dw[v].ier
                         /\ dw'[v].last_irq_level = dw[v].last_irq_level
    BY <1>1, <2>1, <2>2 DEF UartTypeOK
  <2>4. \A v \in Dw : Held(dw'[v]) = Held(dw[v]) /\ (Cause(dw'[v]) <=> Cause(dw[v]))
    BY <2>3 DEF Held, Cause
  <2>5. UartTypeOK'  BY <1>1, <2>1, <2>3 DEF UartTypeOK
  <2>6. NothingOverwritten'
    <3>1. \A v \in Dw : taken'[v] = given'[v] \o Held(dw'[v])
      BY <2>1, <2>4, Zenon DEF PortInv, NothingOverwritten
    <3> QED  BY <3>1, Zenon DEF NothingOverwritten, Held
  <2>7. LineKnown' /\ LineFollowsCause'
    <3>1. \A v \in Dw : /\ dw'[v].last_irq_level <=> Cause(dw'[v])
                        /\ Cause(dw'[v]) => v \in plic_pending_irq' \cup claimed'
                        /\ v \in plic_pending_irq' => Cause(dw'[v])
      BY <2>1, <2>3, <2>4 DEF PortInv, LineKnown, LineFollowsCause
    <3> QED  BY <3>1, Zenon DEF LineKnown, LineFollowsCause, Cause
  <2> QED  BY <2>5, <2>6, <2>7 DEF PortInv
<1> QED  BY <1>3, <1>4, <1>5, <1>6, <1>7, ReadStep

(* Every step of the ports, the terminal and the driver keeps the invariant. *)
LEMMA UartStep ==
    ASSUME NEW H, NEW C, PortInv, [UartNext(H, C)]_<<plic, uart>>
    PROVE  PortInv'
<1>1. UartTypeOK  BY DEF PortInv
<1>2. ASSUME UNCHANGED <<terminal, dw, taken, given, claimed, plic_pending_irq>>
      PROVE  PortInv'
  BY <1>1, <1>2, PortsKept DEF UartTypeOK
<1>3. ASSUME NEW ch \in Char, Type(ch) PROVE PortInv'
  <2>1. Append(terminal, ch) \in Seq(Char)  BY <1>1, Added DEF UartTypeOK
  <2>2. /\ terminal' = Append(terminal, ch)
        /\ UNCHANGED <<dw, taken, given, claimed, plic_pending_irq>>
    BY <1>3, Zenon DEF Type, plic, vars
  <2> QED  BY <2>1, <2>2, PortsKept
<1>4. CASE uart_read
  <2>1. UNCHANGED <<dw, taken, given, claimed, plic_pending_irq>> /\ ConsoleTaken
    BY <1>4, Zenon DEF uart_read, plic, vars
  <2> QED  BY <1>1, <2>1, Console, PortsKept
<1>5. ASSUME NEW h \in H, UartClaim(h) PROVE PortInv'
  <2>1. /\ UNCHANGED <<terminal, dw, taken, given>>
        /\ claimed' = claimed \cup (plic_pending_irq \ plic_pending_irq')
        /\ plic_pending_irq' \subseteq plic_pending_irq
    BY <1>5 DEF UartClaim, Claim
  <2> QED  BY <1>1, <2>1, PortsKept DEF UartTypeOK
<1>6. ASSUME NEW u \in Dw, Complete(u) /\ UNCHANGED uart PROVE PortInv'
  BY <1>2, <1>6, Zenon DEF Complete, uart
<1>7. ASSUME NEW h \in H, NEW c \in C, NEW val \in SUBSET Dw,
             Enable(h, c, val) /\ UNCHANGED uart
      PROVE  PortInv'
  BY <1>2, <1>7, Zenon DEF Enable, uart
<1>8. CASE UNCHANGED <<plic, uart>>
  BY <1>2, <1>8, Zenon DEF plic, vars, uart
<1> QED  BY <1>3, <1>4, <1>5, <1>6, <1>7, <1>8, AccessStep DEF UartNext

(* The ports start empty, with no cause and no line. *)
LEMMA UartStart == Init /\ UartInit => PortInv
<1> SUFFICES ASSUME Init, UartInit PROVE PortInv  OBVIOUS
<1>1. UartTypeOK
  <2>1. <<>> \in Seq(Char) /\ <<>> \in Chars  BY DEF Chars
  <2>2. dw \in [Dw -> Port]
    <3>1. [rhr |-> "nul", ier |-> {}, isr |-> 0, dlab |-> FALSE, lsr |-> {},
           last_irq_level |-> FALSE] \in Port
      BY DEF Port
    <3> QED  BY <3>1, Zenon DEF UartInit
  <2>3. terminal = <<>> /\ taken = [u \in Dw |-> <<>>] /\ given = [u \in Dw |-> <<>>]
    BY Zenon DEF UartInit
  <2> QED  BY <2>1, <2>2, <2>3 DEF UartTypeOK, Chars
<1>2. \A u \in Dw : dw[u].lsr = {} /\ dw[u].ier = {} /\ ~dw[u].last_irq_level
  BY DEF UartInit
<1>3. NothingOverwritten
  <2>1. <<>> \o <<>> = <<>>  BY Joined
  <2>2. ASSUME NEW u \in Dw PROVE taken[u] = given[u] \o Held(dw[u])
    <3>1. Held(dw[u]) = <<>>  BY <1>2 DEF Held
    <3>2. taken[u] = <<>> /\ given[u] = <<>>  BY DEF UartInit
    <3> QED  BY <2>1, <3>1, <3>2, Zenon
  <2> QED  BY <2>2, Zenon DEF NothingOverwritten
<1>4. LineKnown /\ LineFollowsCause
  BY <1>2 DEF LineKnown, LineFollowsCause, Cause, Init
<1> QED  BY <1>1, <1>3, <1>4 DEF PortInv

(* For any ports, harts and contexts, no character is lost or doubled between the terminal
   and the guest, and the PLIC knows of every cause that nobody claimed and of no other. *)
THEOREM SerialTheorem ==
    ASSUME NEW CONSTANT H, NEW CONSTANT C
    PROVE  UartSpec(H, C) => [](NothingOverwritten /\ LineFollowsCause)
<1>1. PortInv => NothingOverwritten /\ LineFollowsCause  BY DEF PortInv
<1>2. PortInv /\ [UartNext(H, C)]_<<plic, uart>> => PortInv'  BY UartStep
<1> QED  BY <1>1, <1>2, UartStart, PTL DEF UartSpec

(* The same for the driver on one hart in machine mode, beside the behaviours of the CLINT
   and of the PLIC with other devices. *)
THEOREM PortTheorem == MCSpec => []PortKeepsUp
<1> DEFINE I == /\ UartTypeOK /\ NothingOverwritten
                /\ part = "uart" => PortInv
<1>1. MCInit => I  BY UartStart DEF MCInit, PortInv
<1>2. I /\ [MCNext]_all => I'
  <2> SUFFICES ASSUME I, [MCNext]_all PROVE I'  OBVIOUS
  <2>1. CASE UNCHANGED uart /\ UNCHANGED part /\ part # "uart"
    BY <2>1, Zenon DEF UartTypeOK, NothingOverwritten, Held, uart
  <2>2. CASE part = "uart" /\ [UartNext(Driver, {MEIP})]_<<plic, uart>> /\ UNCHANGED part
    BY <2>2, UartStep DEF PortInv
  <2> QED  BY <2>1, <2>2 DEF MCNext, all
<1>3. I => PortKeepsUp  BY DEF PortKeepsUp, PortInv
<1> QED  BY <1>1, <1>2, <1>3, PTL DEF MCSpec

-----------------------------------------------------------------------------
\* Traps

\* A context that is still the trap's is what the CSRs of its level hold.
ContextKept ==
    /\ saved[PRV_M] # NoContext =>
           saved[PRV_M] = [priv |-> mstatus.mpp, pc |-> mepc, ie |-> mstatus.mpie]
    /\ saved[PRV_S] # NoContext =>
           saved[PRV_S] = [priv |-> mstatus.spp, pc |-> sepc, ie |-> mstatus.spie]

\* A level's interrupts are enabled only when software allowed it.
EnabledIsOpen == (mstatus.mie => open[PRV_M]) /\ (mstatus.sie => open[PRV_S])

TrapInv == TrapTypeOK /\ ContextKept /\ EnabledIsOpen

USE DEF PRV_U, PRV_S, PRV_M, Priv, Level

(* Every initial state of the hart satisfies the invariant. *)
LEMMA InitEstablishes == TrapInit => TrapInv
<1> SUFFICES ASSUME TrapInit PROVE TrapInv  OBVIOUS
<1>1. TrapTypeOK
  <2>1. mstatus \in Mstatus  BY DEF TrapInit, Mstatus
  <2>2. saved \in [Level -> Context \cup {NoContext}]  BY DEF TrapInit
  <2>3. open \in [Level -> BOOLEAN]  BY DEF TrapInit
  <2>4. priv \in Priv /\ pc \in Pc /\ mepc \in Pc /\ sepc \in Pc
    BY TrapAssumption DEF TrapInit
  <2>5. /\ mip \subseteq Irq /\ mie \subseteq Irq /\ mideleg \subseteq SupervisorIrq
        /\ medeleg \in BOOLEAN /\ debug_mode \in BOOLEAN /\ power_down \in BOOLEAN
    BY Zenon DEF TrapInit
  <2> QED  BY <2>1, <2>2, <2>3, <2>4, <2>5 DEF TrapTypeOK
<1>2. ContextKept /\ EnabledIsOpen
  BY Zenon DEF TrapInit, ContextKept, EnabledIsOpen, NoContext
<1> QED  BY <1>1, <1>2 DEF TrapInv

(* raise_exception2 keeps the invariant, whatever the cause. *)
LEMMA TrapStep ==
    ASSUME TrapInv, NEW bit \in BOOLEAN, raise_exception2(bit),
           UNCHANGED <<mip, mie, mideleg, medeleg, debug_mode, power_down>>
    PROVE  TrapInv'
<1>1. CASE priv <= PRV_S /\ bit
  <2>1. /\ mstatus' = [mstatus EXCEPT !.spie = mstatus.sie, !.spp = priv, !.sie = FALSE]
        /\ sepc' = pc /\ mepc' = mepc /\ priv' = PRV_S /\ pc' = Tvec
        /\ saved' = [saved EXCEPT ![PRV_S] =
                        [priv |-> priv, pc |-> pc, ie |-> mstatus.sie]]
        /\ open' = [open EXCEPT ![PRV_S] = FALSE]
    BY <1>1 DEF raise_exception2, Delegated, EnterS
  <2>2. TrapTypeOK'
    <3>1. mstatus' \in Mstatus
      <4>1. priv \in {PRV_U, PRV_S} /\ mstatus \in Mstatus
        BY <1>1 DEF TrapInv, TrapTypeOK
      <4>2. mstatus.sie \in BOOLEAN  BY <4>1 DEF Mstatus
      <4> QED  BY <2>1, <4>1, <4>2, Zenon DEF Mstatus
    <3>2. saved' \in [Level -> Context \cup {NoContext}]
      BY <1>1, <2>1 DEF TrapInv, TrapTypeOK, Context, Mstatus
    <3>3. open' \in [Level -> BOOLEAN]
      BY <1>1, <2>1 DEF TrapInv, TrapTypeOK
    <3> QED
      BY <1>1, <2>1, <3>1, <3>2, <3>3, TrapAssumption DEF TrapInv, TrapTypeOK
  <2>3. ContextKept' /\ EnabledIsOpen'
    BY <2>1 DEF TrapInv, TrapTypeOK, ContextKept, EnabledIsOpen, Mstatus
  <2> QED  BY <2>2, <2>3 DEF TrapInv
<1>2. CASE ~(priv <= PRV_S /\ bit)
  <2>1. /\ mstatus' = [mstatus EXCEPT !.mpie = mstatus.mie, !.mpp = priv, !.mie = FALSE]
        /\ sepc' = sepc /\ mepc' = pc /\ priv' = PRV_M /\ pc' = Tvec
        /\ saved' = [saved EXCEPT ![PRV_M] =
                        [priv |-> priv, pc |-> pc, ie |-> mstatus.mie]]
        /\ open' = [open EXCEPT ![PRV_M] = FALSE]
    BY <1>2, Zenon DEF raise_exception2, Delegated, EnterM
  <2>2. TrapTypeOK'
    <3>1. mstatus' \in Mstatus
      BY <2>1, Zenon DEF TrapInv, TrapTypeOK, Mstatus
    <3>2. saved' \in [Level -> Context \cup {NoContext}]
      BY <2>1 DEF TrapInv, TrapTypeOK, Context, Mstatus
    <3>3. open' \in [Level -> BOOLEAN]
      BY <2>1 DEF TrapInv, TrapTypeOK
    <3> QED
      BY <2>1, <3>1, <3>2, <3>3, TrapAssumption DEF TrapInv, TrapTypeOK
  <2>3. ContextKept' /\ EnabledIsOpen'
    BY <2>1 DEF TrapInv, TrapTypeOK, ContextKept, EnabledIsOpen, Mstatus
  <2> QED  BY <2>2, <2>3 DEF TrapInv
<1> QED  BY <1>1, <1>2

(* mret, sret and dret keep the invariant. *)
LEMMA ReturnStep ==
    ASSUME TrapInv,
           \/ handle_mret \/ handle_sret
           \/ \E prv \in Priv, p \in Pc : handle_dret(prv, p)
    PROVE  TrapInv'
<1>1. CASE handle_mret
  <2>1. TrapTypeOK'
    <3>1. mstatus' \in Mstatus
      <4>1. mstatus \in Mstatus  BY DEF TrapInv, TrapTypeOK
      <4>2. mstatus.mpie \in BOOLEAN  BY <4>1 DEF Mstatus
      <4>3. mstatus' = [mstatus EXCEPT !.mie = mstatus.mpie, !.mpie = TRUE, !.mpp = PRV_U]
        BY <1>1 DEF handle_mret
      <4>4. /\ DOMAIN mstatus' = DOMAIN mstatus
            /\ mstatus'.mie \in BOOLEAN /\ mstatus'.mpie \in BOOLEAN /\ mstatus'.mpp \in Priv
            /\ mstatus'.sie \in BOOLEAN /\ mstatus'.spie \in BOOLEAN
            /\ mstatus'.spp \in {PRV_U, PRV_S}
        BY <4>1, <4>2, <4>3 DEF Mstatus
      <4> QED  BY <4>1, <4>3, <4>4, Zenon DEF Mstatus
    <3>2. saved' \in [Level -> Context \cup {NoContext}]
      BY <1>1 DEF TrapInv, TrapTypeOK, Context, Mstatus, handle_mret
    <3>3. open' \in [Level -> BOOLEAN]
      BY <1>1 DEF TrapInv, TrapTypeOK, handle_mret
    <3>4. mstatus.mpp \in Priv
      BY DEF TrapInv, TrapTypeOK, Mstatus
    <3> QED
      BY <1>1, <3>1, <3>2, <3>3, <3>4 DEF TrapInv, TrapTypeOK, handle_mret
  <2>2. ContextKept' /\ EnabledIsOpen'
    BY <1>1 DEF TrapInv, TrapTypeOK, ContextKept, EnabledIsOpen, handle_mret, Mstatus
  <2> QED  BY <2>1, <2>2 DEF TrapInv
<1>2. CASE handle_sret
  <2>1. TrapTypeOK'
    <3>1. mstatus' \in Mstatus
      <4>1. mstatus \in Mstatus  BY DEF TrapInv, TrapTypeOK
      <4>2. mstatus.spie \in BOOLEAN  BY <4>1 DEF Mstatus
      <4> QED  BY <1>2, <4>1, <4>2, Zenon DEF handle_sret, Mstatus
    <3>2. saved' \in [Level -> Context \cup {NoContext}]
      BY <1>2 DEF TrapInv, TrapTypeOK, Context, Mstatus, handle_sret
    <3>3. open' \in [Level -> BOOLEAN]
      BY <1>2 DEF TrapInv, TrapTypeOK, handle_sret
    <3>4. mstatus.spp \in {PRV_U, PRV_S}
      BY DEF TrapInv, TrapTypeOK, Mstatus
    <3> QED
      BY <1>2, <3>1, <3>2, <3>3, <3>4 DEF TrapInv, TrapTypeOK, handle_sret
  <2>2. ContextKept' /\ EnabledIsOpen'
    BY <1>2 DEF TrapInv, TrapTypeOK, ContextKept, EnabledIsOpen, handle_sret, Mstatus
  <2> QED  BY <2>1, <2>2 DEF TrapInv
<1>3. CASE \E prv \in Priv, p \in Pc : handle_dret(prv, p)
  BY <1>3, Zenon DEF TrapInv, TrapTypeOK, ContextKept, EnabledIsOpen, handle_dret, hist
<1> QED  BY <1>1, <1>2, <1>3

(* A write of mstatus keeps the invariant: it ends the contexts it changes. *)
LEMMA MstatusStep ==
    ASSUME TrapInv, NEW new \in Mstatus, SetMstatus(new)
    PROVE  TrapInv'
<1>1. TrapTypeOK'
  BY DEF TrapInv, TrapTypeOK, SetMstatus, Mstatus
<1>2. ContextKept'
  BY Zenon DEF TrapInv, TrapTypeOK, ContextKept, SetMstatus, Mstatus
<1>3. EnabledIsOpen'
  BY DEF TrapInv, TrapTypeOK, EnabledIsOpen, SetMstatus, Mstatus
<1> QED  BY <1>1, <1>2, <1>3 DEF TrapInv

(* The other CSR writes, the devices, WFI and instructions keep the invariant. *)
LEMMA OtherStep ==
    ASSUME TrapInv,
           \/ EnterDebug
           \/ \E x \in Level, p \in Pc : WriteEpc(x, p)
           \/ \E val \in SUBSET Irq : \/ WriteMie(val) \/ WriteMip(val)
                                      \/ \E e \in BOOLEAN : WriteDeleg(val, e)
           \/ \E i \in Irq : riscv_cpu_set_mip(i) \/ riscv_cpu_reset_mip(i)
           \/ \E p \in Pc : Wfi(p) \/ Instruction(p)
    PROVE  TrapInv'
<1> USE DEF TrapInv, TrapTypeOK, ContextKept, EnabledIsOpen, hist
<1>1. CASE EnterDebug  BY <1>1, Zenon DEF EnterDebug
<1>2. ASSUME NEW x \in Level, NEW p \in Pc, WriteEpc(x, p) PROVE TrapInv'
  <2>1. CASE x = PRV_M  BY <1>2, <2>1, Zenon DEF WriteEpc
  <2>2. CASE x = PRV_S  BY <1>2, <2>2, Zenon DEF WriteEpc
  <2> QED  BY <2>1, <2>2, Zenon
<1>3. ASSUME NEW val \in SUBSET Irq, WriteMie(val) PROVE TrapInv'
  BY <1>3, Zenon DEF WriteMie, Masked
<1>4. ASSUME NEW val \in SUBSET Irq, WriteMip(val) PROVE TrapInv'
  BY <1>4, Zenon DEF WriteMip, Masked
<1>5. ASSUME NEW val \in SUBSET Irq, NEW e \in BOOLEAN, WriteDeleg(val, e) PROVE TrapInv'
  BY <1>5, Zenon DEF WriteDeleg
<1>6. ASSUME NEW i \in Irq, riscv_cpu_set_mip(i) PROVE TrapInv'
  <2>1. power_down' \in BOOLEAN  BY <1>6, Zenon DEF riscv_cpu_set_mip
  <2> QED  BY <1>6, <2>1, Zenon DEF riscv_cpu_set_mip
<1>7. ASSUME NEW i \in Irq, riscv_cpu_reset_mip(i) PROVE TrapInv'
  BY <1>7, Zenon DEF riscv_cpu_reset_mip
<1>8. ASSUME NEW p \in Pc, Wfi(p) PROVE TrapInv'  BY <1>8, Zenon DEF Wfi
<1>9. ASSUME NEW p \in Pc, Instruction(p) PROVE TrapInv'  BY <1>9, Zenon DEF Instruction
<1> QED  BY <1>1, <1>2, <1>3, <1>4, <1>5, <1>6, <1>7, <1>8, <1>9, Zenon

(* Every step of the hart keeps the invariant. *)
LEMMA NextPreserves == TrapInv /\ [TrapNext]_trapVars => TrapInv'
<1> SUFFICES ASSUME TrapInv, [TrapNext]_trapVars PROVE TrapInv'  OBVIOUS
<1>1. CASE Exception
  <2>1. medeleg \in BOOLEAN  BY DEF TrapInv, TrapTypeOK
  <2> QED  BY <1>1, <2>1, TrapStep DEF Exception
<1>2. CASE raise_interrupt
  <2>1. (get_irq_num(PendingMask) \in mideleg) \in BOOLEAN  OBVIOUS
  <2> QED  BY <1>2, <2>1, TrapStep, Zenon DEF raise_interrupt
<1>3. CASE \/ handle_mret \/ handle_sret
           \/ \E prv \in Priv, p \in Pc : handle_dret(prv, p)
  BY <1>3, ReturnStep
<1>4. ASSUME NEW new \in MstatusVal, WriteMstatus(new) \/ WriteSstatus(new) PROVE TrapInv'
  <2>1. /\ new \in Mstatus
        /\ [mstatus EXCEPT !.sie = new.sie, !.spie = new.spie, !.spp = new.spp] \in Mstatus
    BY TrapAssumption, Zenon DEF TrapInv, TrapTypeOK, Mstatus
  <2> QED  BY <1>4, <2>1, MstatusStep DEF WriteMstatus, WriteSstatus
<1>5. CASE \/ EnterDebug
           \/ \E x \in Level, p \in Pc : WriteEpc(x, p)
           \/ \E val \in SUBSET Irq : \/ WriteMie(val) \/ WriteMip(val)
                                      \/ \E e \in BOOLEAN : WriteDeleg(val, e)
           \/ \E i \in Irq : riscv_cpu_set_mip(i) \/ riscv_cpu_reset_mip(i)
           \/ \E p \in Pc : Wfi(p) \/ Instruction(p)
  BY <1>5, OtherStep
<1>6. CASE UNCHANGED trapVars
  BY <1>6 DEF trapVars, hist, TrapInv, TrapTypeOK, ContextKept, EnabledIsOpen
<1> QED  BY <1>1, <1>2, <1>3, <1>4, <1>5, <1>6 DEF TrapNext

(* The invariant holds in every reachable state. *)
LEMMA TrapInvariance == TrapSpec => []TrapInv
BY InitEstablishes, NextPreserves, PTL DEF TrapSpec

(* Type correctness; in particular machine interrupts are never delegated. *)
THEOREM TrapTypeCorrect == TrapSpec => []TrapTypeOK
<1>1. TrapInv => TrapTypeOK  BY DEF TrapInv
<1> QED  BY <1>1, TrapInvariance, PTL

(* A handler is interrupted at its own level only after software allowed it. *)
THEOREM NoNesting == TrapSpec => []NoNestedInterrupt
<1>1. TrapInv => NoNestedInterrupt
  BY DEF TrapInv, EnabledIsOpen, NoNestedInterrupt, PendingMask
<1> QED  BY <1>1, TrapInvariance, PTL

(* mret and sret restore what the last trap to their level interrupted. *)
THEOREM ReturnTheorem == TrapSpec => ReturnRestores
<1>1. ASSUME TrapInv
      PROVE  /\ handle_mret /\ saved[PRV_M] # NoContext =>
                    /\ priv' = saved[PRV_M].priv /\ pc' = saved[PRV_M].pc
                    /\ mstatus'.mie = saved[PRV_M].ie
             /\ handle_sret /\ saved[PRV_S] # NoContext =>
                    /\ priv' = saved[PRV_S].priv /\ pc' = saved[PRV_S].pc
                    /\ mstatus'.sie = saved[PRV_S].ie
  <2>1. ASSUME handle_mret, saved[PRV_M] # NoContext
        PROVE  /\ priv' = saved[PRV_M].priv /\ pc' = saved[PRV_M].pc
               /\ mstatus'.mie = saved[PRV_M].ie
    BY <1>1, <2>1 DEF TrapInv, TrapTypeOK, ContextKept, handle_mret, Mstatus
  <2>2. ASSUME handle_sret, saved[PRV_S] # NoContext
        PROVE  /\ priv' = saved[PRV_S].priv /\ pc' = saved[PRV_S].pc
               /\ mstatus'.sie = saved[PRV_S].ie
    BY <1>1, <2>2 DEF TrapInv, TrapTypeOK, ContextKept, handle_sret, Mstatus
  <2> QED  BY <2>1, <2>2
<1> QED  BY <1>1, TrapInvariance, PTL DEF ReturnRestores
=============================================================================
