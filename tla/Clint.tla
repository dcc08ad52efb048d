------------------------------- MODULE Clint -------------------------------
(* The CLINT: the clock mtime, which is hart 0's mcycle divided by RTC_FREQ_DIV, a
   comparator per hart, and the timer and software interrupt bits of mip.  The
   timer bit is set only between batches of instructions, by
   virt_machine_get_sleep_duration.  Words have two halves of Half values. *)
EXTENDS Integers

CONSTANTS ClintHart,    \* the harts
          Half,         \* 2^32 in the code
          RTC_FREQ_DIV

ASSUME ClintAssumption ==
    /\ Half \in Nat \ {0} /\ RTC_FREQ_DIV \in Nat \ {0}
    /\ 0 \in ClintHart

Modulus == Half * Half
HalfWord == 0 .. Half - 1
Word == 0 .. Modulus - 1

VARIABLES mcycle,       \* of hart 0
          timecmp,
          mtip, msip,   \* bits of mip
          rewound,      \* history: mtime went back since the bit was set
          far           \* history: the bit was set half a range before timecmp

clint == <<mcycle, timecmp, mtip, msip, rewound, far>>

ClintTypeOK ==
    /\ mcycle \in Word /\ timecmp \in [ClintHart -> Word]
    /\ mtip \in [ClintHart -> BOOLEAN] /\ msip \in [ClintHart -> BOOLEAN]
    /\ rewound \in [ClintHart -> BOOLEAN] /\ far \in [ClintHart -> BOOLEAN]

ClintInit ==
    /\ mcycle = 0
    /\ timecmp = [h \in ClintHart |-> 0]
    /\ mtip = [h \in ClintHart |-> FALSE] /\ msip = [h \in ClintHart |-> FALSE]
    /\ rewound = [h \in ClintHart |-> FALSE] /\ far = [h \in ClintHart |-> FALSE]

rtc_get_time == mcycle \div RTC_FREQ_DIV

\* An unsigned difference converted to int64_t.
Signed(d) == LET u == d % Modulus IN IF u < Modulus \div 2 THEN u ELSE u - Modulus

-----------------------------------------------------------------------------

\* Mutant: the comparator must be passed, not reached.
Expired_Strict(h) == Signed(timecmp[h] - rtc_get_time) < 0

Expired(h) == Signed(timecmp[h] - rtc_get_time) <= 0

\* Before each batch; the sleep time it computes is not used by the main loop.
virt_machine_get_sleep_duration(h) ==
    /\ ~mtip[h] /\ rtc_get_time > 0
    /\ Expired(h)
    /\ mtip' = [mtip EXCEPT ![h] = TRUE]
    /\ rewound' = [rewound EXCEPT ![h] = FALSE]
    /\ far' = [far EXCEPT ![h] = timecmp[h] - rtc_get_time >= Modulus \div 2]
    /\ UNCHANGED <<mcycle, timecmp, msip>>

\* A new value of mcycle: by a batch, by a CSR write, through mtime.
SetMcycle(c) ==
    /\ mcycle' = c % Modulus
    /\ rewound' = [h \in ClintHart |-> rewound[h] \/ mcycle' < mcycle]
    /\ UNCHANGED <<timecmp, mtip, msip, far>>

\* The end of riscv_cpu_interp on hart 0.
Batch == SetMcycle(mcycle + 1)

WriteMcycle(c) == SetMcycle(c)

\* 0xbff8 and 0xbffc: both go through the divided clock.
WriteMtimeLo(val) == SetMcycle(((rtc_get_time \div Half) * Half + val) * RTC_FREQ_DIV)

WriteMtimeHi(val) == SetMcycle(((rtc_get_time % Half) + val * Half) * RTC_FREQ_DIV)

\* 0xffffffff is a 32-bit unsigned constant, so ~0xffffffff is 0 and the mask
\* clears the upper half as well.
WithLo(w, val) == val

WithHi(w, val) == (w % Half) + val * Half

\* Mutant: only a write of the upper half withdraws the interrupt.
SetTimecmp_KeepsMtip(h, w) ==
    /\ timecmp' = [timecmp EXCEPT ![h] = w]
    /\ mtip' = IF w < Half THEN mtip ELSE [mtip EXCEPT ![h] = FALSE]
    /\ UNCHANGED <<mcycle, msip, rewound, far>>

SetTimecmp(h, w) ==
    /\ timecmp' = [timecmp EXCEPT ![h] = w]
    /\ mtip' = [mtip EXCEPT ![h] = FALSE]
    /\ UNCHANGED <<mcycle, msip, rewound, far>>

WriteTimecmpLo(h, val) == SetTimecmp(h, WithLo(timecmp[h], val))

WriteTimecmpHi(h, val) == SetTimecmp(h, WithHi(timecmp[h], val))

\* A 64-bit store to a device of 32-bit registers: the lower half, then the upper.
Split64(w, val) == WithHi(WithLo(w, val % Half), val \div Half)

WriteTimecmp(h, val) == SetTimecmp(h, Split64(timecmp[h], val))

WriteMsip(h, val) ==
    /\ msip' = [msip EXCEPT ![h] = val % 2 = 1]
    /\ UNCHANGED <<mcycle, timecmp, mtip, rewound, far>>

ClintNext ==
    \/ \E h \in ClintHart :
          \/ virt_machine_get_sleep_duration(h)
          \/ \E val \in HalfWord : \/ WriteTimecmpLo(h, val) \/ WriteTimecmpHi(h, val)
                                   \/ WriteMsip(h, val)
          \/ \E val \in Word : WriteTimecmp(h, val)
    \/ Batch
    \/ \E c \in Word : WriteMcycle(c)
    \/ \E val \in HalfWord : WriteMtimeLo(val) \/ WriteMtimeHi(val)

\* The main loop gives every hart its batch again and again.
ClintFairness == \A h \in ClintHart : WF_clint(virt_machine_get_sleep_duration(h))

ClintSpec == ClintInit /\ [][ClintNext]_clint /\ ClintFairness

-----------------------------------------------------------------------------
(* The timer bit is set only at or after the comparator's time, seen from any
   later moment and after any writes of the halves, unless the clock was set back
   or the comparator was more than half the range ahead (the comparison in
   virt_machine_get_sleep_duration is signed). *)
TimerNotEarly ==
    \A h \in ClintHart : mtip[h] => timecmp[h] <= rtc_get_time \/ rewound[h] \/ far[h]

(* A timer that has run out interrupts, or software moves the clock or the
   comparator: a pending deadline is not missed between two batches. *)
TimerFires ==
    \A h \in ClintHart : (rtc_get_time > 0 /\ timecmp[h] <= rtc_get_time)
                        ~> (mtip[h] \/ timecmp[h] > rtc_get_time \/ rtc_get_time = 0)
==============================================================================
