------------------------------- MODULE Virtio -------------------------------
(* What all virtio devices share: the available and used rings in guest memory,
   notification and interrupts, with a driver that keeps to its side of the protocol.
   A chain of descriptors is named by its head.  Ring indices have 16 bits in the code
   (IdxMod here).  The guest does not run while the device works, so queue_notify is a
   loop of steps between which only the device acts. *)
EXTENDS Integers, Sequences

CONSTANTS Queue, Chain,
          Num,          \* entries of a ring: a power of two
          IdxMod,       \* 2^16
          Kind          \* what a chain can hold

ASSUME VirtioAssumption ==
    /\ Num \in Nat \ {0} /\ IdxMod \in Nat \ {0}
    /\ Num < IdxMod /\ IdxMod % Num = 0

Nobody == -1
NoKind == "none"        \* of a chain the driver has not filled
NoChain == "none"       \* in a ring entry never written
VringInt == 1           \* bits of int_status
ConfigInt == 2

VARIABLES
    queue,              \* [Queue -> [ready, last_avail_idx]]
    avail, used,        \* the rings: [Queue -> [idx, ring]]
    int_status, irq,
    notifying,          \* the queue whose queue_notify loop runs
    kind,               \* what the driver put into a chain
    seen,               \* the driver's index into the used ring
    free,               \* the chains the driver may offer
    offered,            \* history: chains offered and neither returned nor dropped
    news                \* history: interrupt causes since the driver acknowledged

ring == <<queue, avail, used>>
hist == <<offered, news>>
driver == <<kind, seen, free>>
common == <<ring, int_status, irq, notifying, driver, hist>>

EmptyRing == [idx |-> 0, ring |-> [i \in 0 .. Num - 1 |-> NoChain]]
ResetQueue == [ready |-> FALSE, last_avail_idx |-> 0]

CommonInit ==
    /\ queue = [q \in Queue |-> ResetQueue]
    /\ avail = [q \in Queue |-> EmptyRing] /\ used = [q \in Queue |-> EmptyRing]
    /\ int_status = {} /\ irq = FALSE /\ notifying = Nobody
    /\ kind = [c \in Chain |-> NoKind] /\ seen = [q \in Queue |-> 0] /\ free = Chain
    /\ offered = [q \in Queue |-> <<>>] /\ news = {}

Succ(i) == (i + 1) % IdxMod

-----------------------------------------------------------------------------
(* The device *)

Pending(q) == queue[q].last_avail_idx # avail[q].idx
NextChain(q) == avail[q].ring[queue[q].last_avail_idx % Num]

\* Mutant: the entry goes one slot too far.
UsedRing_Shifted(q, c) ==
    [idx |-> Succ(used[q].idx), ring |-> [used[q].ring EXCEPT ![Succ(used[q].idx) % Num] = c]]

UsedRing(q, c) ==
    [idx |-> Succ(used[q].idx), ring |-> [used[q].ring EXCEPT ![used[q].idx % Num] = c]]

\* The chains of s without c, which is in s once.
Without(s, c) ==
    LET place == CHOOSE i \in DOMAIN s : s[i] = c
    IN  [i \in 1 .. Len(s) - 1 |-> IF i < place THEN s[i] ELSE s[i + 1]]

virtio_consume_desc(q, c) ==
    \* After a reset used_addr is 0, where there is no memory.
    /\ used' = IF queue[q].ready THEN [used EXCEPT ![q] = UsedRing(q, c)] ELSE used
    /\ int_status' = int_status \cup {VringInt}
    /\ irq' = TRUE
    /\ offered' = [offered EXCEPT ![q] = Without(@, c)]
    /\ news' = news \cup {VringInt}

\* A chain that is taken from the available ring and never returned.
Drop(q, c) ==
    /\ offered' = [offered EXCEPT ![q] = Without(@, c)]
    /\ UNCHANGED <<used, int_status, irq, news>>

Advance(q) == queue' = [queue EXCEPT ![q].last_avail_idx = Succ(@)]

\* The loop of queue_notify ends.
NotifyDone(q) ==
    /\ notifying = q /\ ~Pending(q)
    /\ notifying' = Nobody
    /\ UNCHANGED <<ring, int_status, irq, driver, hist>>

virtio_config_change_notify ==
    /\ notifying = Nobody
    /\ int_status' = int_status \cup {ConfigInt}
    /\ irq' = TRUE
    /\ news' = news \cup {ConfigInt}
    /\ UNCHANGED <<ring, notifying, driver, offered>>

-----------------------------------------------------------------------------
(* The driver *)

Post(q, c, k) ==
    /\ notifying = Nobody
    /\ queue[q].ready /\ c \in free
    /\ (avail[q].idx - seen[q]) % IdxMod < Num
    /\ avail' = [avail EXCEPT ![q] = [idx  |-> Succ(@.idx),
                                      ring |-> [@.ring EXCEPT ![avail[q].idx % Num] = c]]]
    /\ kind' = [kind EXCEPT ![c] = k]
    /\ free' = free \ {c}
    /\ offered' = [offered EXCEPT ![q] = Append(@, c)]
    /\ UNCHANGED <<queue, used, int_status, irq, notifying, seen, news>>

\* The write of QUEUE_NOTIFY; a queue received manually ignores it.
Notify(q) ==
    /\ notifying = Nobody
    /\ notifying' = q
    /\ UNCHANGED <<ring, int_status, irq, driver, hist>>

Collect(q) ==
    /\ notifying = Nobody
    /\ seen[q] # used[q].idx
    /\ seen' = [seen EXCEPT ![q] = Succ(@)]
    /\ free' = free \cup {used[q].ring[seen[q] % Num]}
    /\ kind' = [kind EXCEPT ![used[q].ring[seen[q] % Num]] = NoKind]
    /\ UNCHANGED <<ring, int_status, irq, notifying, offered, news>>

\* Mutant: any acknowledgement lowers the interrupt.
AckIrq_Always(left) == FALSE

AckIrq(left) == irq /\ left # {}

\* INTERRUPT_ACK
Ack(val) ==
    /\ notifying = Nobody
    /\ int_status' = int_status \ val
    /\ irq' = AckIrq(int_status')
    /\ news' = news \ val
    /\ UNCHANGED <<ring, notifying, driver, offered>>

\* The driver sets up the rings of a queue that is not ready, and enables it: the
\* register writes of VirtioTransport in one step.
Enable(q) ==
    /\ notifying = Nobody
    /\ ~queue[q].ready
    /\ queue' = [queue EXCEPT ![q].ready = TRUE]
    /\ UNCHANGED <<avail, used, int_status, irq, notifying, driver, hist>>

\* STATUS = 0: set_irq and virtio_reset; the driver starts over with empty rings.
Reset ==
    /\ notifying = Nobody
    /\ queue' = [q \in Queue |-> ResetQueue]
    /\ int_status' = {} /\ irq' = FALSE
    /\ avail' = [q \in Queue |-> EmptyRing] /\ used' = [q \in Queue |-> EmptyRing]
    /\ seen' = [q \in Queue |-> 0] /\ free' = Chain
    /\ offered' = [q \in Queue |-> <<>>] /\ news' = {}
    /\ kind' = [c \in Chain |-> NoKind]
    /\ UNCHANGED notifying

DriverNext ==
    \/ \E q \in Queue : Enable(q)
    \/ \E q \in Queue, c \in Chain, k \in Kind : Post(q, c, k)
    \/ \E val \in SUBSET {VringInt, ConfigInt} : Ack(val)

-----------------------------------------------------------------------------
(* What the device did since the driver last acknowledged it is still signalled:
   an acknowledgement of one cause does not hide another (int_status and the
   level of the interrupt line). *)
NewsSignalled == news # {} => irq /\ news \subseteq int_status

(* A step that returns a chain returns the oldest one outstanding in its queue. *)
ReturnsOldest ==
    \A q \in Queue :
        queue'[q].ready /\ used'[q].idx = Succ(used[q].idx) =>
            /\ offered[q] # <<>>
            /\ used'[q].ring[used[q].idx % Num] = Head(offered[q])
==============================================================================
