-------------------------------- MODULE Plic --------------------------------
(* The PLIC: sources raised and lowered by devices, one set of pending and one of
   served sources for the machine, two enable words per hart, and the external
   interrupt bits of mip.  Sets of sources stand for the 32-bit words.  Claims go
   through the contexts of existing harts: the context number is used as a hart
   number there, and a larger one is outside cpu_state. *)
EXTENDS Integers, FiniteSetsExt

CONSTANTS Hart,
          Source        \* sources: numbers from 1, as 0 answers an empty claim

ASSUME PlicAssumption == Source \subseteq 1 .. 31

\* The enable words of a hart and the bits of mip they lead to.
SEIP == 0
MEIP == 1
Ctx == {SEIP, MEIP}

VARIABLES plic_pending_irq, plic_served_irq,
          plic_enable_irq,      \* [Hart -> [Ctx -> SUBSET Source]]
          eip,                  \* the external interrupt bits of mip: [Hart -> SUBSET Ctx]
          asking,               \* history: raised, not lowered and not claimed since
          handling,             \* history: claimed and not completed since
          late,                 \* history: harts whose mip may lack a bit
          stale                 \* history: harts whose mip may have a bit too many

vars == <<plic_pending_irq, plic_served_irq, plic_enable_irq, eip, asking, handling,
          late, stale>>

PlicTypeOK ==
    /\ plic_pending_irq \subseteq Source /\ plic_served_irq \subseteq Source
    /\ plic_enable_irq \in [Hart -> [Ctx -> SUBSET Source]]
    /\ eip \in [Hart -> SUBSET Ctx]
    /\ asking \subseteq Source /\ handling \subseteq Source
    /\ late \subseteq Hart /\ stale \subseteq Hart

Init ==
    /\ plic_pending_irq = {} /\ plic_served_irq = {}
    /\ plic_enable_irq = [h \in Hart |-> [c \in Ctx |-> {}]]
    /\ eip = [h \in Hart |-> {}]
    /\ asking = {} /\ handling = {}
    /\ late = {} /\ stale = {}

-----------------------------------------------------------------------------

\* What mip should hold for a hart when pending and served are as given.
Signal(h, pending, served) ==
    {c \in Ctx : (pending \ served) \cap plic_enable_irq[h][c] # {}}

\* Mutant: only the first hart is updated.
plic_update_mip_First(pending, served) ==
    eip' = [eip EXCEPT ![Min(Hart)] = Signal(Min(Hart), pending, served)]

\* plic_update_mip of every hart
plic_update_mip(pending, served) == eip' = [h \in Hart |-> Signal(h, pending, served)]

plic_set_irq(i, state) ==
    /\ plic_pending_irq' = IF state THEN plic_pending_irq \cup {i} ELSE plic_pending_irq \ {i}
    /\ plic_update_mip(plic_pending_irq', plic_served_irq)
    /\ late' = {} /\ stale' = {}
    /\ asking' = IF state THEN asking \cup {i} ELSE asking \ {i}
    /\ UNCHANGED <<plic_served_irq, plic_enable_irq, handling>>

\* Mutant: a claim takes every pending source.
Taken_All(mask) == mask

\* The lowest source that is pending and not served.
Taken(mask) == {Min(mask)}

\* Mutant: the claimed source is not marked.
Served_Unmarked(taken) == plic_served_irq

Served(taken) == plic_served_irq \cup taken

\* Mutant: a claim leaves mip alone.
ClaimMip_Kept(h, pending, served) == eip

ClaimMip(h, pending, served) == [eip EXCEPT ![h] = Signal(h, pending, served)]

\* A read of the claim register of context h: mip of the other harts is left.
Claim(h) ==
    LET mask == plic_pending_irq \ plic_served_irq IN
    /\ mask # {}
    /\ plic_pending_irq' = plic_pending_irq \ Taken(mask)
    /\ plic_served_irq' = Served(Taken(mask))
    /\ eip' = ClaimMip(h, plic_pending_irq', plic_served_irq')
    /\ late' = late \ {h}
    /\ stale' = Hart \ {h}
    /\ asking' = asking \ {Min(mask)}
    /\ handling' = handling \cup {Min(mask)}
    /\ UNCHANGED plic_enable_irq

\* A write of the claim register: mip is not updated.
Complete(i) ==
    /\ plic_served_irq' = plic_served_irq \ {i}
    /\ handling' = handling \ {i}
    /\ late' = IF i \in plic_pending_irq THEN Hart ELSE late
    /\ UNCHANGED <<plic_pending_irq, plic_enable_irq, eip, asking, stale>>

\* Neither is it by a write of an enable word.
Enable(h, c, val) ==
    /\ plic_enable_irq' = [plic_enable_irq EXCEPT ![h][c] = val]
    /\ late' = late \cup {h} /\ stale' = stale \cup {h}
    /\ UNCHANGED <<plic_pending_irq, plic_served_irq, eip, asking, handling>>

\* SEIP is writable through mip and sip.
WriteSeip(h, val) ==
    /\ eip' = [eip EXCEPT ![h] = (@ \ {SEIP}) \cup val]
    /\ late' = late \cup {h} /\ stale' = stale \cup {h}
    /\ UNCHANGED <<plic_pending_irq, plic_served_irq, plic_enable_irq, asking, handling>>

Next ==
    \/ \E i \in Source, state \in BOOLEAN : plic_set_irq(i, state)
    \/ \E h \in Hart : Claim(h)
    \/ \E i \in Source : Complete(i)
    \/ \E h \in Hart, c \in Ctx, val \in SUBSET Source : Enable(h, c, val)
    \/ \E h \in Hart, val \in SUBSET {SEIP} : WriteSeip(h, val)

Spec == Init /\ [][Next]_vars

-----------------------------------------------------------------------------
(* A source that asks is pending: no claim, of any hart for any source, and no
   completion loses it. *)
NotLost == asking \subseteq plic_pending_irq

(* Each claim hands out a source nobody is handling, although a device may raise
   a source again while it is handled. *)
NoDoubleClaim == [][\A h \in Hart : Claim(h) => handling' # handling]_vars

(* A hart's external interrupt bits lack a source that is pending, not served and
   enabled only when a completion, an enable write or a CSR write left them behind,
   which lasts until the next plic_set_irq or the hart's own claim.  No claim of
   another hart hides an interrupt. *)
SignalNotMissing ==
    \A h \in Hart \ late : Signal(h, plic_pending_irq, plic_served_irq) \subseteq eip[h]

(* The bits are set without such a source only after a claim through another
   context, an enable write or a CSR write. *)
SignalNotSpurious ==
    \A h \in Hart \ stale : eip[h] \subseteq Signal(h, plic_pending_irq, plic_served_irq)

(* The external interrupt bits of mip agree with the pending, enabled and unserved
   sources except for the reasons above, whatever the harts and devices do. *)
SignalExact == SignalNotMissing /\ SignalNotSpurious
==============================================================================
