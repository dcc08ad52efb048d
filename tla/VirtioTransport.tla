-------------------------- MODULE VirtioTransport ---------------------------
(* What every virtio device has below its queues: the registers by which a driver sets
   them up, and the copies through the chains of descriptors on them. *)
EXTENDS Integers, Sequences, FiniteSets

(* The MMIO registers by which a driver sets up the queues of a virtio device: a queue
   is selected, and its size, ring addresses (by halves) and ready bit go to the queue
   selected.  Only 32-bit accesses reach the registers. *)

CONSTANTS MAX_QUEUE, MAX_QUEUE_NUM,
          HalfRange,    \* 2^32
          Ring,         \* the addresses of a queue: desc, avail and used
          NumVal,       \* values written to QUEUE_NUM
          SelVal        \* values written to QUEUE_SEL

HalfVal == 0 .. HalfRange - 1
QueueIdx == 0 .. MAX_QUEUE - 1

VARIABLES status, queue_sel, device_features_sel,
          regs,         \* the queues: [QueueIdx -> [ready, num, addr]]
          meant         \* history: what the driver wrote for each queue since the reset

registers == <<status, queue_sel, device_features_sel, regs, meant>>

ResetRegs == [ready |-> FALSE, num |-> MAX_QUEUE_NUM, addr |-> [r \in Ring |-> 0]]
NothingMeant == [num |-> MAX_QUEUE_NUM, half |-> [r \in Ring |-> [low |-> 0, high |-> 0]]]

RegsInit ==
    /\ status = 0 /\ queue_sel = 0 /\ device_features_sel = 0
    /\ regs = [q \in QueueIdx |-> ResetRegs] /\ meant = [q \in QueueIdx |-> NothingMeant]

-----------------------------------------------------------------------------

\* Mutant: the mask is as narrow as the half, so the other half is cleared.
set_low32_Narrow(addr, val) == val

set_low32(addr, val) == (addr \div HalfRange) * HalfRange + val

set_high32(addr, val) == (addr % HalfRange) + val * HalfRange

PowersOfTwo == {2 ^ i : i \in 0 .. 15}

WriteQueueSel(val) ==
    /\ queue_sel' = IF val < MAX_QUEUE THEN val ELSE queue_sel
    /\ UNCHANGED <<status, device_features_sel, regs, meant>>

WriteQueueNum(val) ==
    /\ regs' = IF val \in PowersOfTwo THEN [regs EXCEPT ![queue_sel].num = val] ELSE regs
    /\ meant' = IF val \in PowersOfTwo THEN [meant EXCEPT ![queue_sel].num = val] ELSE meant
    /\ UNCHANGED <<status, queue_sel, device_features_sel>>

WriteAddrLow(r, val) ==
    /\ regs' = [regs EXCEPT ![queue_sel].addr[r] = set_low32(@, val)]
    /\ meant' = [meant EXCEPT ![queue_sel].half[r].low = val]
    /\ UNCHANGED <<status, queue_sel, device_features_sel>>

WriteAddrHigh(r, val) ==
    /\ regs' = [regs EXCEPT ![queue_sel].addr[r] = set_high32(@, val)]
    /\ meant' = [meant EXCEPT ![queue_sel].half[r].high = val]
    /\ UNCHANGED <<status, queue_sel, device_features_sel>>

WriteQueueReady(val) ==
    /\ regs' = [regs EXCEPT ![queue_sel].ready = (val % 2 = 1)]
    /\ UNCHANGED <<status, queue_sel, device_features_sel, meant>>

WriteFeaturesSel(val) ==
    /\ device_features_sel' = val
    /\ UNCHANGED <<status, queue_sel, regs, meant>>

\* A status of 0 resets the device.
WriteStatus(val) ==
    /\ status' = val
    /\ IF val # 0 THEN UNCHANGED <<queue_sel, device_features_sel, regs, meant>>
       ELSE /\ queue_sel' = 0 /\ device_features_sel' = 0
            /\ regs' = [q \in QueueIdx |-> ResetRegs] /\ meant' = [q \in QueueIdx |-> NothingMeant]

\* What the driver reads: the halves, size and ready bit of the selected queue.
virtio_mmio_read ==
    [num  |-> regs[queue_sel].num,
     half |-> [r \in Ring |-> [low  |-> regs[queue_sel].addr[r] % HalfRange,
                               high |-> regs[queue_sel].addr[r] \div HalfRange]]]

RegsNext ==
    \/ \E val \in SelVal : WriteQueueSel(val)
    \/ \E val \in NumVal : WriteQueueNum(val)
    \/ \E r \in Ring, val \in HalfVal : WriteAddrLow(r, val) \/ WriteAddrHigh(r, val)
    \/ \E val \in {0, 1} : WriteQueueReady(val) \/ WriteFeaturesSel(val) \/ WriteStatus(val)

-----------------------------------------------------------------------------
(* The queue the driver has selected reads back as the driver set it up, whatever it
   wrote to other queues meanwhile and in whatever order it wrote the halves; no write
   of another queue, nor a selection of one that does not exist, disturbs it, and the
   size is a power of two, as the masks of queue_notify and virtio_consume_desc need. *)
SetUpAsMeant ==
    /\ queue_sel \in QueueIdx
    /\ virtio_mmio_read = meant[queue_sel]
    /\ \A q \in QueueIdx : regs[q].num \in PowersOfTwo

-----------------------------------------------------------------------------
(* Copies between a device and the buffers of a chain of descriptors in guest memory.
   What a copy does is the sequence of its moves: pairs of a position in the device's
   buffer and a guest address.  Copies go page by page; an address outside RAM ends the
   copying of its buffer, which memcpy_to_from_queue does not notice. *)

CONSTANTS DescIdx,          \* positions of the descriptor table, from 0
          Addr, Ram,        \* guest addresses, and those that are RAM
          PageSize,         \* VIRTIO_PAGE_SIZE
          MaxLen            \* bound: bytes of a buffer

VARIABLES table,            \* [DescIdx -> [addr, len, write, next]], next < 0 for the last
          made              \* descriptors the driver has filled

copying == <<table, made>>

Blank == [addr |-> 0, len |-> 0, write |-> FALSE, next |-> -1]

CopyInit == table = [i \in DescIdx |-> Blank] /\ made = 0

\* The driver adds a descriptor to the chain that starts at 0.
AddDesc(a, len, write) ==
    /\ made \in DescIdx
    /\ a .. a + len - 1 \subseteq Addr
    /\ table' = [i \in DescIdx |->
                    CASE i = made -> [addr |-> a, len |-> len, write |-> write, next |-> -1]
                      [] i = made - 1 -> [table[i] EXCEPT !.next = made]
                      [] OTHER -> table[i]]
    /\ made' = made + 1

-----------------------------------------------------------------------------

\* The bytes up to the end of the page.
InPage(a, count) == LET left == PageSize - (a % PageSize) IN IF count < left THEN count ELSE left

\* virtio_memcpy_from_ram and virtio_memcpy_to_ram: the moves for count bytes at a.
RECURSIVE virtio_memcpy(_, _, _)
virtio_memcpy(a, pos, count) ==
    LET l == InPage(a, count) IN
    IF count <= 0 \/ a \notin Ram THEN <<>>
    ELSE [i \in 1 .. l |-> <<pos + i - 1, a + i - 1>>] \o virtio_memcpy(a + l, pos + l, count - l)

\* [read, write] sizes, or "bad" for a readable buffer after a writable one.
RECURSIVE RwSize(_, _, _)
RwSize(i, read, write) ==
    LET d == table[i] IN
    IF write >= 0 /\ ~d.write THEN [bad |-> TRUE, read |-> 0, write |-> 0]
    ELSE LET r == IF d.write THEN read ELSE read + d.len
             w == IF d.write THEN (IF write < 0 THEN 0 ELSE write) + d.len ELSE write
         IN  IF d.next < 0 THEN [bad |-> FALSE, read |-> r, write |-> IF w < 0 THEN 0 ELSE w]
             ELSE RwSize(d.next, r, w)

get_desc_rw_size == RwSize(0, 0, -1)

\* The first writable descriptor, or -1.
RECURSIVE FirstWritable(_)
FirstWritable(i) == IF i < 0 \/ table[i].write THEN i ELSE FirstWritable(table[i].next)

\* Mutant: the offset is not reduced by the buffers passed.
Skipped_Whole(offset, d) == offset

\* What is left of the offset after the buffer of d.
Skipped(offset, d) == offset - d.len

\* The descriptor that holds the offset, and the offset in it; idx is -1 when there is none.
RECURSIVE Locate(_, _, _)
Locate(i, offset, to) ==
    IF i < 0 \/ table[i].write # to THEN [idx |-> -1, offset |-> 0]
    ELSE IF offset < table[i].len THEN [idx |-> i, offset |-> offset]
    ELSE Locate(table[i].next, Skipped(offset, table[i]), to)

\* The copying loop, at the descriptor i.
RECURSIVE Move(_, _, _, _, _)
Move(i, offset, pos, count, to) ==
    LET d == table[i]
        l == IF count < d.len - offset THEN count ELSE d.len - offset
        moves == virtio_memcpy(d.addr + offset, pos, l)
    IN  IF count = l THEN [ret |-> 0, moves |-> moves]
        ELSE IF d.next < 0 \/ table[d.next].write # to THEN [ret |-> -1, moves |-> moves]
        ELSE LET rest == Move(d.next, 0, pos + l, count - l, to)
             IN  [rest EXCEPT !.moves = moves \o @]

memcpy_to_from_queue(offset, count, to) ==
    IF count = 0 THEN [ret |-> 0, moves |-> <<>>]
    ELSE LET at == Locate(IF to THEN FirstWritable(0) ELSE 0, offset, to) IN
         IF at.idx < 0 THEN [ret |-> -1, moves |-> <<>>]
         ELSE Move(at.idx, at.offset, 0, count, to)

\* The driver takes the chain back and begins another one.
NewChain == made > 0 /\ table' = [i \in DescIdx |-> Blank] /\ made' = 0

CopyNext ==
    \/ \E a \in Addr, len \in 0 .. MaxLen, write \in BOOLEAN : AddDesc(a, len, write)
    \/ NewChain

-----------------------------------------------------------------------------

\* The addresses of the buffers of one direction, in order.
RECURSIVE Buffers(_, _)
Buffers(i, to) ==
    IF i < 0 THEN <<>>
    ELSE (IF table[i].write = to THEN [k \in 1 .. table[i].len |-> table[i].addr + k - 1] ELSE <<>>)
         \o Buffers(table[i].next, to)

\* A driver's chain: readable buffers first, all of them in RAM.
WellFormed ==
    /\ \A i \in DescIdx : i + 1 \in DescIdx /\ i + 1 < made => (table[i].write => table[i + 1].write)
    /\ \A i \in DescIdx : i < made => table[i].addr .. table[i].addr + table[i].len - 1 \subseteq Ram

(* The size queue_notify hands to the device is that of the buffers, and a copy of any
   part of it moves exactly those bytes, wherever buffers and pages end and however many
   buffers are empty; a copy that reaches beyond them moves what there is and fails. *)
CopiesSlice ==
    made > 0 /\ WellFormed =>
        /\ get_desc_rw_size = [bad |-> FALSE, read |-> Len(Buffers(0, FALSE)),
                               write |-> Len(Buffers(0, TRUE))]
        /\ \A to \in BOOLEAN, offset, count \in 0 .. MaxLen + 1 :
              LET b == Buffers(0, to)
                  copy == memcpy_to_from_queue(offset, count, to)
                  there == {k \in 1 .. count : offset + k <= Len(b)}
              IN  /\ copy.moves = [k \in 1 .. Cardinality(there) |-> <<k - 1, b[offset + k]>>]
                  /\ copy.ret = IF Cardinality(there) = count THEN 0 ELSE -1
=============================================================================
