----------------------------- MODULE BlockProofs -----------------------------
(* The block device, for any number of queues and chains and rings of any size: it
   returns chains in the order in which they were offered, with the status the back end
   gave, and reads back what was written. *)
EXTENDS MCVirtioBlock, RingProofs

\* The block device

\* The request the device remembers is the one the back end works on.
BlockInv ==
    /\ RingInv
    /\ free \subseteq Chain
    /\ req_in_progress => req.queue_idx \in Queue
    /\ working = IF req_in_progress THEN {req.desc_idx} ELSE {}
    /\ status = result

LEMMA BlockInit == Init => BlockInv
<1> SUFFICES ASSUME Init PROVE BlockInv
  BY Zenon
<1>1. CommonInit /\ ~req_in_progress /\ working = {} /\ status = result
  BY Zenon DEF Init
<1>2. RingInv
  BY <1>1, FreshRings, Zenon DEF CommonInit, Fresh
<1>3. free \subseteq Chain
  BY <1>1, Zenon DEF CommonInit
<1> QED BY <1>1, <1>2, <1>3, Zenon DEF BlockInv

\* What the device does with a chain it drops.
LEMMA SkipStep == ASSUME BlockInv, NEW u \in Queue, Skip(u) PROVE BlockInv'
<1>1. PICK c : c = NextChain(u)
  BY Zenon
<1>2. /\ Pending(u) /\ Advance(u) /\ Removed(u, NextChain(u))
      /\ UNCHANGED <<avail, used, seen, free, req_in_progress, working, status, result>>
  BY Zenon DEF Skip, Drop, Removed, driver
<1>3. req_in_progress => req' = req
  <2>1. SUFFICES ASSUME req_in_progress PROVE req' = req
    BY Zenon
  <2>2. /\ kind[c] = "malformed"
        /\ req' = IF kind[c] = "other" THEN [queue_idx |-> u, desc_idx |-> c] ELSE req
    BY <1>1, <2>1, Zenon DEF Skip, Busy
  <2> QED BY <2>2, Zenon
<1>4. RingInv'
  BY <1>2, <1>3, DropStep, Zenon DEF BlockInv
<1>5. working' = IF req_in_progress' THEN {req'.desc_idx} ELSE {}
  BY <1>2, <1>3, Zenon DEF BlockInv
<1> QED BY <1>2, <1>3, <1>4, <1>5, Zenon DEF BlockInv

LEMMA RequestStep ==
    ASSUME BlockInv, NEW u \in Queue, NEW ret \in Ret, virtio_block_recv_request(u, ret)
    PROVE  BlockInv'
<1>1. PICK c : c = NextChain(u)
  BY Zenon
<1>2. /\ Pending(u) /\ Advance(u) /\ ~req_in_progress
      /\ req' = [queue_idx |-> u, desc_idx |-> c] /\ UNCHANGED <<avail, seen, free>>
  BY <1>1, Zenon DEF virtio_block_recv_request, driver, Busy
<1>3. working = {} /\ RingInv
  BY <1>2, Zenon DEF BlockInv
<1>4. CASE /\ req_in_progress' = TRUE /\ working' = working \cup {c}
           /\ UNCHANGED <<used, offered, status, result>>
  <2>1. RingInv'
    BY <1>1, <1>2, <1>3, <1>4, TakeStep, Zenon
  <2>2. req'.queue_idx = u /\ req'.desc_idx = c
    BY <1>2, Zenon
  <2>3. working' = {c} /\ status' = result'
    BY <1>3, <1>4, Zenon DEF BlockInv
  <2> QED BY <1>2, <1>4, <2>1, <2>2, <2>3, Zenon DEF BlockInv
<1>5. CASE /\ virtio_block_req_end(u, c, ret) /\ result' = [result EXCEPT ![c] = Verdict(ret)]
           /\ UNCHANGED <<req_in_progress, working>>
  <2>1. queue[u].ready
    <3>1. PICK A, B, C : Counts(A, B, C)
      BY <1>3, Zenon DEF RingInv, Counts
    <3> QED BY <1>2, <3>1, NextIs, Zenon
  <2>2. Returned(u, NextChain(u))
    BY <1>1, <1>5, <2>1, Zenon DEF virtio_block_req_end, virtio_consume_desc, Returned, Removed
  <2>3. RingInv'
    BY <1>2, <1>3, <1>5, <2>2, SyncStep, Zenon
  <2>4. status' = result'
    BY <1>5, Zenon DEF virtio_block_req_end, BlockInv
  <2> QED BY <1>2, <1>3, <1>5, <2>3, <2>4, Zenon DEF BlockInv
<1> QED BY <1>1, <1>4, <1>5, Zenon DEF virtio_block_recv_request

LEMMA AnswerStep ==
    ASSUME BlockInv, NEW c \in working, NEW ret \in Ret, virtio_block_req_cb(c, ret)
    PROVE  BlockInv'
<1>1. req_in_progress /\ c = req.desc_idx /\ working = {c} /\ req.queue_idx \in Queue
  BY Zenon DEF BlockInv
<1>2. PICK u \in Queue : u = req.queue_idx
  BY <1>1, Zenon
<1>3. /\ working' = working \ {c} /\ result' = [result EXCEPT ![c] = Verdict(ret)]
      /\ virtio_block_req_end(u, c, ret) /\ req_in_progress' = FALSE
      /\ UNCHANGED <<queue, avail, seen, free>>
  BY <1>1, <1>2, Zenon DEF virtio_block_req_cb, driver
<1>4. queue[u].ready => Returned(u, c)
  BY <1>3, Zenon DEF virtio_block_req_end, virtio_consume_desc, Returned, Removed
<1>5. RingInv'
  <2>1. /\ Serving(u) = 1 /\ \A q \in Queue \ {u} : Serving(q) = 0
        /\ \A q \in Queue : Serving(q)' = 0
    BY <1>1, <1>2, <1>3, Zenon DEF Serving
  <2>2. AnswersOne(u, c)
    BY <1>1, <1>3, <1>4, <2>1, Zenon DEF AnswersOne
  <2> QED BY <2>2, CallbackStep, Zenon DEF BlockInv
<1>6. status' = result'
  BY <1>3, Zenon DEF virtio_block_req_end, BlockInv
<1> QED BY <1>1, <1>3, <1>5, <1>6, Zenon DEF BlockInv

LEMMA TakenBackStep == ASSUME BlockInv, NEW u \in Queue, CollectBlock(u) PROVE BlockInv'
<1>1. RingInv /\ Collect(u) /\ UNCHANGED <<req_in_progress, req, working>>
  BY Zenon DEF BlockInv, CollectBlock
<1>2. RingInv'
  BY <1>1, CollectStep, Zenon
<1>3. status' = result'
  BY Zenon DEF CollectBlock, BlockInv
<1>4. used[u].ring[seen[u] % Num] \in Chain
  <2>1. PICK A, B, C : Counts(A, B, C)
    BY <1>1, Zenon DEF RingInv, Counts
  <2>2. Indices(A, B, C, u) /\ A[u] \in Nat /\ seen[u] \in Nat /\ Size(A, u) \in Nat
    BY <2>1, SizeNat, Zenon DEF Counts
  <2>3. seen[u] % IdxMod = seen[u] /\ seen[u] + 0 = seen[u]
    BY <2>2, ModSmall DEF Indices
  <2>4. A[u] # 0
    BY <1>1, <2>2, <2>3, Zenon DEF Indices, Collect
  <2>5. Len(offered[u]) \in Nat
    BY <2>1 DEF Counts, Offers
  <2>6. 0 < A[u] /\ 0 \in 0 .. Size(A, u) - 1
    BY <2>2, <2>4, <2>5 DEF Size
  <2>7. Line(A, u, 0) \in Chain
    BY <2>1, <2>6, Zenon DEF Counts, Once
  <2> QED BY <2>3, <2>6, <2>7, Zenon DEF Line, Slot
<1>5. free' \subseteq Chain
  BY <1>1, <1>4, Zenon DEF Collect, BlockInv
<1> QED BY <1>1, <1>2, <1>3, <1>5, Zenon DEF BlockInv

LEMMA ResetStep == ASSUME BlockInv, ResetBlock PROVE BlockInv'
<1>1. Reset /\ ~req_in_progress /\ UNCHANGED <<req_in_progress, req, working>> /\ status' = result'
  BY Zenon DEF ResetBlock
<1>2. /\ queue' = [q \in Queue |-> ResetQueue] /\ avail' = [q \in Queue |-> EmptyRing]
      /\ used' = [q \in Queue |-> EmptyRing] /\ seen' = [q \in Queue |-> 0]
      /\ offered' = [q \in Queue |-> <<>>] /\ free' = Chain
  BY <1>1, Zenon DEF Reset
<1>3. RingInv'
  <2>1. Fresh'
    BY <1>1, <1>2, Zenon DEF Fresh
  <2> QED BY <2>1, FreshRings, PTL
<1> QED BY <1>1, <1>2, <1>3, Zenon DEF BlockInv

LEMMA BlockStep == BlockInv /\ [Next]_vars => BlockInv'
<1> SUFFICES ASSUME BlockInv, [Next]_vars PROVE BlockInv'
  BY Zenon
<1>1. ASSUME RingsKept, UNCHANGED <<working, status, result>> PROVE BlockInv'
  BY <1>1, KeptStep, Zenon DEF BlockInv, RingsKept
<1>2. ASSUME NEW q \in Queue, NotifyDone(q), UNCHANGED block PROVE BlockInv'
  BY <1>1, <1>2, Zenon DEF NotifyDone, RingsKept, block, ring, driver, hist
<1>3. ASSUME NEW q \in Queue, Stop(q) PROVE BlockInv'
  BY <1>1, <1>3, Zenon DEF Stop, RingsKept, block, ring, driver, hist
<1>4. CASE DeviceStep
  BY <1>2, <1>3, <1>4, SkipStep, RequestStep, Zenon DEF DeviceStep
<1>5. CASE Callback
  BY <1>5, AnswerStep, Zenon DEF Callback
<1>6. ASSUME NEW q \in Queue, NotifyBlock(q) PROVE BlockInv'
  BY <1>1, <1>6, Zenon DEF NotifyBlock, Notify, RingsKept, ring, driver, hist
<1>7. CASE DriverNext /\ UNCHANGED block
  <2>1. UNCHANGED <<req_in_progress, req, working, status, result>>
    BY <1>7, Zenon DEF block
  <2>2. ASSUME NEW q \in Queue, Enable(q) PROVE BlockInv'
    <3>1. RingInv'
      BY <1>7, <2>2, EnableStep, Zenon DEF BlockInv
    <3>2. free' = free
      BY <2>2, Zenon DEF Enable, driver
    <3> QED BY <2>1, <3>1, <3>2, Zenon DEF BlockInv
  <2>3. ASSUME NEW q \in Queue, NEW c \in Chain, NEW k \in Kind, Post(q, c, k) PROVE BlockInv'
    <3>1. RingInv'
      BY <2>1, <2>3, PostStep, Zenon DEF BlockInv
    <3>2. free' \subseteq Chain
      BY <2>3, Zenon DEF Post, BlockInv
    <3> QED BY <2>1, <3>1, <3>2, Zenon DEF BlockInv
  <2>4. ASSUME NEW val, Ack(val) PROVE BlockInv'
    BY <1>1, <2>1, <2>4, Zenon DEF Ack, RingsKept, ring, driver
  <2> QED BY <1>7, <2>2, <2>3, <2>4, Zenon DEF DriverNext
<1>8. CASE UNCHANGED vars
  BY <1>1, <1>8, Zenon DEF vars, common, block, ring, driver, hist, RingsKept
<1> QED BY <1>4, <1>5, <1>6, <1>7, <1>8, ResetStep, TakenBackStep DEF Next

-----------------------------------------------------------------------------
\* Chains come back in order.

LEMMA SuccDiffers == ASSUME NEW x \in 0 .. IdxMod - 1 PROVE Succ(x) # x
<1>1. IdxMod \in Nat /\ IdxMod >= 2
  BY Sizes
<1>2. CASE x + 1 < IdxMod
  <2>1. x + 1 \in 0 .. IdxMod - 1
    BY <1>1, <1>2
  <2>2. (x + 1) % IdxMod = x + 1
    BY <2>1, ModSmall, Zenon
  <2> QED BY <1>1, <2>2 DEF Succ
<1>3. CASE x + 1 = IdxMod
  <2>1. PICK a, z : a = x + 1 /\ z = 0
    BY Zenon
  <2>2. a \in Int /\ z \in 0 .. IdxMod - 1 /\ a = (IdxMod * 1) + z
    BY <1>1, <1>3, <2>1
  <2>3. a % IdxMod = z
    BY <1>1, <2>2, Remainder
  <2> QED BY <1>1, <1>3, <2>1, <2>3 DEF Succ
<1> QED BY <1>1, <1>2, <1>3

LEMMA UsedKept == ASSUME BlockInv, used' = used PROVE ReturnsOldest
<1>1. SUFFICES ASSUME NEW q \in Queue PROVE used'[q].idx # Succ(used[q].idx)
  BY Zenon DEF ReturnsOldest
<1>2. PICK x : x = used[q].idx
  BY Zenon
<1>3. x \in 0 .. IdxMod - 1
  BY <1>2, Zenon DEF BlockInv, RingInv, Shape, Ring
<1> QED BY <1>2, <1>3, SuccDiffers, Zenon

\* A step that returns the first chain of queue u.
LEMMA FirstReturned ==
    ASSUME BlockInv, NEW u \in Queue, NEW c, 1 \in 1 .. Len(offered[u]), c = offered[u][1],
           used' = [used EXCEPT ![u] = UsedRing(u, c)]
    PROVE  ReturnsOldest
<1>1. offered[u] \in Seq(Chain) /\ used \in [Queue -> Ring] /\ Num \in Nat /\ 1 <= Num
  BY Sizes, Zenon DEF BlockInv, RingInv, Shape
<1>2. offered[u] # <<>> /\ c = Head(offered[u])
  BY <1>1
<1>3. used[u].idx \in Nat /\ used[u].ring \in [0 .. Num - 1 -> Chain \cup {NoChain}]
  BY <1>1 DEF Ring
<1>4. used[u].idx % Num \in 0 .. Num - 1
  BY <1>1, <1>3
<1>5. used'[u] = UsedRing(u, c) /\ \A q \in Queue \ {u} : used'[q] = used[q]
  BY <1>1, Zenon
<1>6. used'[u].ring[used[u].idx % Num] = c
  <2>1. PICK i, t : i = used[u].idx % Num /\ t = [used[u].ring EXCEPT ![i] = c]
    BY Zenon
  <2>2. t[i] = c
    BY <1>3, <1>4, <2>1, Zenon
  <2>3. UsedRing(u, c).ring = t
    BY <2>1, Zenon DEF UsedRing
  <2> QED BY <1>5, <2>1, <2>2, <2>3, Zenon
<1>7. ASSUME NEW q \in Queue \ {u} PROVE used'[q].idx # Succ(used[q].idx)
  <2>1. PICK x : x = used[q].idx
    BY Zenon
  <2>2. x \in 0 .. IdxMod - 1
    BY <1>1, <2>1, Zenon DEF Ring
  <2> QED BY <1>5, <2>1, <2>2, SuccDiffers, Zenon
<1> QED BY <1>2, <1>6, <1>7, Zenon DEF ReturnsOldest

LEMMA OrderStep == BlockInv /\ [Next]_vars => [ReturnsOldest]_vars
<1> SUFFICES ASSUME BlockInv, Next PROVE ReturnsOldest
  BY Zenon
<1>1. PICK A, B, C : Counts(A, B, C)
  BY Zenon DEF BlockInv, RingInv, Counts
<1>2. ASSUME NEW q \in Queue, NEW ret \in Ret, virtio_block_recv_request(q, ret)
      PROVE  ReturnsOldest
  <2>1. CASE used' = used
    BY <2>1, UsedKept, Zenon
  <2>2. CASE used' # used
    <3>1. PICK c : c = NextChain(q)
      BY Zenon
    <3>2. Pending(q) /\ ~req_in_progress /\ virtio_block_req_end(q, c, ret)
      BY <1>2, <2>2, <3>1, Zenon DEF virtio_block_recv_request, Busy
    <3>3. Serving(q) + 1 = 1
      BY <3>2 DEF Serving
    <3>4. queue[q].ready /\ 1 \in 1 .. Len(offered[q]) /\ c = offered[q][1]
      BY <1>1, <3>1, <3>2, <3>3, NextIs, Zenon
    <3>5. used' = [used EXCEPT ![q] = UsedRing(q, c)]
      BY <3>2, <3>4, Zenon DEF virtio_block_req_end, virtio_consume_desc
    <3> QED BY <3>4, <3>5, FirstReturned, Zenon
  <2> QED BY <2>1, <2>2, Zenon
<1>3. ASSUME NEW c \in working, NEW ret \in Ret, virtio_block_req_cb(c, ret)
      PROVE  ReturnsOldest
  <2>1. CASE used' = used
    BY <2>1, UsedKept, Zenon
  <2>2. CASE used' # used
    <3>1. req_in_progress /\ c = req.desc_idx /\ req.queue_idx \in Queue
      BY Zenon DEF BlockInv
    <3>2. PICK u \in Queue : u = req.queue_idx
      BY <3>1, Zenon
    <3>3. used' = [used EXCEPT ![u] = UsedRing(u, c)]
      BY <1>3, <2>2, <3>1, <3>2, Zenon DEF virtio_block_req_cb, virtio_block_req_end, virtio_consume_desc
    <3>4. Offers(A, B, C, u) /\ C[u] \in Nat /\ Serving(u) = 1
      BY <1>1, <3>1, <3>2, SizeNat, Zenon DEF Counts, Serving
    <3>5. Len(offered[u]) = 1 + C[u] /\ c = offered[u][1]
      BY <3>1, <3>4, Zenon DEF Offers
    <3>6. 1 \in 1 .. Len(offered[u])
      BY <3>4, <3>5
    <3> QED BY <3>3, <3>5, <3>6, FirstReturned, Zenon
  <2> QED BY <2>1, <2>2, Zenon
<1>4. CASE DeviceStep
  <2>1. ASSUME NEW q \in Queue, NotifyDone(q) \/ Stop(q) \/ Skip(q) PROVE used' = used
    BY <2>1, Zenon DEF NotifyDone, Stop, Skip, Drop, ring
  <2> QED BY <1>2, <1>4, <2>1, UsedKept, Zenon DEF DeviceStep
<1>5. CASE Callback
  BY <1>3, <1>5, Zenon DEF Callback
<1>6. CASE ResetBlock
  <2>1. \A q \in Queue : ~queue'[q].ready
    BY <1>6, Zenon DEF ResetBlock, Reset, ResetQueue
  <2> QED BY <2>1, Zenon DEF ReturnsOldest
<1>7. ASSUME NEW q \in Queue, NotifyBlock(q) \/ CollectBlock(q) PROVE used' = used
  BY <1>7, Zenon DEF NotifyBlock, CollectBlock, Notify, Collect, ring
<1>8. CASE DriverNext
  <2>1. used' = used
    BY <1>8 DEF DriverNext, Enable, Post, Ack, ring
  <2> QED BY <2>1, UsedKept, Zenon
<1> QED BY <1>4, <1>5, <1>6, <1>7, <1>8, UsedKept, Zenon DEF Next

(* Chains come back in the order in which they were offered, however the indices wrap
   around and whenever the back end answers (virtio_consume_desc, virtio_block_req_cb). *)
THEOREM OrderTheorem == Spec => InOrder
<1>1. Init => BlockInv
  BY BlockInit, Zenon
<1>2. BlockInv /\ [Next]_vars => BlockInv'
  BY BlockStep, Zenon
<1>3. BlockInv /\ [Next]_vars => [ReturnsOldest]_vars
  BY OrderStep, Zenon
<1> QED BY <1>1, <1>2, <1>3, PTL DEF Spec, InOrder

-----------------------------------------------------------------------------
\* Interrupts

LEMMA ConsumeSignals ==
    ASSUME NEW q, NEW c, virtio_consume_desc(q, c), NewsSignalled PROVE NewsSignalled'
  BY Zenon DEF virtio_consume_desc, NewsSignalled

(* What the block device did and the driver did not acknowledge stays signalled
   (virtio_consume_desc, and INTERRUPT_ACK, which lowers the line only when no cause is
   left). *)
THEOREM NewsTheorem == Spec => []NewsSignalled
<1>1. Init => NewsSignalled
  BY Zenon DEF Init, CommonInit, NewsSignalled
<1>2. NewsSignalled /\ [Next]_vars => NewsSignalled'
  <2> SUFFICES ASSUME NewsSignalled, [Next]_vars PROVE NewsSignalled'
    BY Zenon
  <2>1. ASSUME UNCHANGED <<int_status, irq, news>> PROVE NewsSignalled'
    BY <2>1, Zenon DEF NewsSignalled
  <2>2. ASSUME NEW q \in Queue, NotifyDone(q) \/ Stop(q) \/ Skip(q) PROVE NewsSignalled'
    BY <2>1, <2>2, Zenon DEF NotifyDone, Stop, Skip, Drop, hist
  <2>3. ASSUME NEW q \in Queue, NEW ret \in Ret, virtio_block_recv_request(q, ret)
        PROVE  NewsSignalled'
    BY <2>1, <2>3, ConsumeSignals, Zenon DEF virtio_block_recv_request, virtio_block_req_end
  <2>4. CASE DeviceStep
    BY <2>2, <2>3, <2>4, Zenon DEF DeviceStep
  <2>5. CASE Callback
    BY <2>5, ConsumeSignals, Zenon DEF Callback, virtio_block_req_cb, virtio_block_req_end
  <2>6. CASE ResetBlock
    BY <2>6, Zenon DEF ResetBlock, Reset, NewsSignalled
  <2>7. ASSUME NEW q \in Queue, NotifyBlock(q) \/ CollectBlock(q) PROVE NewsSignalled'
    BY <2>1, <2>7, Zenon DEF NotifyBlock, CollectBlock, Notify, Collect, hist
  <2>8. ASSUME NEW val, Ack(val) PROVE NewsSignalled'
    <3>1. /\ int_status' = int_status \ val /\ news' = news \ val
          /\ irq' <=> irq /\ int_status' # {}
      BY <2>8, Zenon DEF Ack, AckIrq
    <3> QED BY <3>1, Zenon DEF NewsSignalled
  <2>9. CASE DriverNext
    BY <2>1, <2>8, <2>9 DEF DriverNext, Enable, Post, hist
  <2>10. CASE UNCHANGED vars
    BY <2>1, <2>10, Zenon DEF vars, common, hist
  <2> QED BY <2>4, <2>5, <2>6, <2>7, <2>9, <2>10 DEF Next
<1> QED BY <1>1, <1>2, PTL DEF Spec

-----------------------------------------------------------------------------
\* The file

Value == DataVal \cup {0, Nothing}

DiskInv ==
    /\ mode \in BF_MODE /\ nb_sectors = NbSectors
    /\ file \in [Reach -> Value] /\ kept \in [Reach -> Value]
    /\ sector_table \in [Sector -> Value]
    /\ overrun \in BOOLEAN /\ (overrun => mode = "SNAPSHOT")
    /\ mode # "RW" => file = Image
    /\ \A x \in Reach : ~overrun =>
          kept[x] = IF mode = "SNAPSHOT" /\ x \in Sector /\ sector_table[x] # Nothing
                    THEN sector_table[x] ELSE file[x]

LEMMA Sectors == Sector \subseteq Reach /\ Reach \subseteq Nat
  BY DiskAssumption DEF Sector, Reach

LEMMA DiskInit == block_device_init => DiskInv
<1> SUFFICES ASSUME block_device_init PROVE DiskInv
  BY Zenon
<1>1. Image \in [Reach -> Value]
  BY Zenon DEF Image, Value
<1>2. sector_table \in [Sector -> Value]
  BY Zenon DEF block_device_init, Value
<1> QED BY <1>1, <1>2, Zenon DEF block_device_init, DiskInv

\* The sectors of a table on D after the data of a write was put there.
Placed(new, D, table, s, n, data) ==
    /\ new \in [D -> Value]
    /\ \A x \in D : new[x] = IF x \in s .. s + n - 1 THEN data[x - s + 1] ELSE table[x]

LEMMA PutAt ==
    ASSUME NEW D, D \subseteq Nat, NEW table \in [D -> Value], NEW s \in Nat, NEW n \in Nat,
           NEW data \in [1 .. n -> DataVal]
    PROVE  Placed(Put(table, s, data), D, table, s, n, data)
<1>1. DOMAIN table = D /\ DOMAIN data = 1 .. n
  BY Zenon
<1>2. ASSUME NEW x \in D
      PROVE  Put(table, s, data)[x] = IF x \in s .. s + n - 1 THEN data[x - s + 1] ELSE table[x]
  <2>1. x \in Nat
    BY Zenon
  <2>2. Put(table, s, data)[x] = IF \E i \in 1 .. n : s + i - 1 = x
                                 THEN data[CHOOSE i \in 1 .. n : s + i - 1 = x] ELSE table[x]
    BY <1>1, Zenon DEF Put, Place
  <2>3. (\E i \in 1 .. n : s + i - 1 = x) <=> x \in s .. s + n - 1
    <3>1. x \in s .. s + n - 1 => x - s + 1 \in 1 .. n /\ s + (x - s + 1) - 1 = x
      BY <2>1
    <3>2. ASSUME NEW i \in 1 .. n, s + i - 1 = x PROVE x \in s .. s + n - 1
      BY <2>1, <3>2
    <3> QED BY <3>1, <3>2, Zenon
  <2>4. ASSUME x \in s .. s + n - 1 PROVE (CHOOSE i \in 1 .. n : s + i - 1 = x) = x - s + 1
    <3>1. x - s + 1 \in 1 .. n /\ s + (x - s + 1) - 1 = x
      BY <2>1, <2>4
    <3>2. \A i \in 1 .. n : s + i - 1 = x => i = x - s + 1
      BY <2>1
    <3> QED BY <3>1, <3>2, Zenon
  <2> QED BY <2>2, <2>3, <2>4, Zenon
<1>3. ASSUME NEW x \in D PROVE Put(table, s, data)[x] \in Value
  <2>1. x \in s .. s + n - 1 => x - s + 1 \in 1 .. n
    OBVIOUS
  <2> QED BY <1>2, <2>1, Zenon DEF Value
<1>4. Put(table, s, data) \in [D -> Value]
  BY <1>1, <1>3, Zenon DEF Put
<1> QED BY <1>2, <1>4, Zenon DEF Placed

LEMMA WriteStep ==
    ASSUME DiskInv, NEW s \in Reach, NEW n \in 1 .. 2, NEW data \in [1 .. n -> DataVal],
           bf_write_async(s, data)
    PROVE  DiskInv'
<1>1. s \in Nat /\ n \in Nat /\ Len(data) = n /\ Reach \subseteq Nat /\ Sector \subseteq Reach
  BY Sectors
<1>2. mode' = mode /\ nb_sectors' = nb_sectors
  BY Zenon DEF bf_write_async
<1>3. ASSUME UNCHANGED <<file, sector_table, kept, overrun>> PROVE DiskInv'
  BY <1>2, <1>3, Zenon DEF DiskInv
<1>8. CASE /\ mode = "SNAPSHOT" /\ overrun' = TRUE
           /\ sector_table' \in [Sector -> DataVal \cup {Nothing}] /\ UNCHANGED <<file, kept>>
  <2>1. sector_table' \in [Sector -> Value]
    <3>1. DataVal \cup {Nothing} \subseteq Value
      BY Zenon DEF Value
    <3> QED BY <1>8, <3>1, Zenon
  <2> QED BY <1>2, <1>8, <2>1, Zenon DEF DiskInv
<1> DEFINE grown == [x \in Reach |-> IF file[x] = Nothing /\ x < s THEN 0 ELSE file[x]]
           wanted(x) == IF x \in s .. s + n - 1 THEN data[x - s + 1]
                        ELSE IF kept[x] = Nothing /\ x < s THEN 0 ELSE kept[x]
<1>4. ASSUME kept' = [x \in Reach |-> wanted(x)]
      PROVE  kept' \in [Reach -> Value] /\ \A x \in Reach : kept'[x] = wanted(x)
  <2>1. ASSUME NEW x \in Reach PROVE wanted(x) \in Value
    <3>1. kept[x] \in Value
      BY Zenon DEF DiskInv
    <3>2. x \in s .. s + n - 1 => x - s + 1 \in 1 .. n
      BY <1>1
    <3> QED BY <3>1, <3>2, Zenon DEF Value
  <2> HIDE DEF wanted
  <2> QED BY <1>4, <2>1, Zenon
<1>5. CASE /\ mode = "RW" /\ file' = Put(grown, s, data) /\ UNCHANGED <<sector_table, overrun>>
           /\ kept' = [x \in Reach |-> wanted(x)]
  <2>1. grown \in [Reach -> Value]
    BY Zenon DEF DiskInv, Value
  <2>2. ASSUME NEW x \in Reach
        PROVE  grown[x] = IF file[x] = Nothing /\ x < s THEN 0 ELSE file[x]
    BY Zenon
  <2> HIDE DEF grown
  <2>3. /\ file' \in [Reach -> Value]
        /\ \A x \in Reach : file'[x] = IF x \in s .. s + n - 1 THEN data[x - s + 1] ELSE grown[x]
    <3>1. s \in Nat /\ n \in Nat /\ Reach \subseteq Nat
      BY <1>1, Zenon
    <3>2. Placed(Put(grown, s, data), Reach, grown, s, n, data)
      BY <2>1, <3>1, PutAt, Zenon
    <3> QED BY <1>5, <3>2, Zenon DEF Placed
  <2>4. \A x \in Reach : kept[x] = file[x]
    BY <1>5, Zenon DEF DiskInv
  <2>5. \A x \in Reach : kept'[x] = file'[x]
    BY <1>4, <1>5, <2>2, <2>3, <2>4
  <2> QED BY <1>2, <1>4, <1>5, <2>3, <2>5, Zenon DEF DiskInv
<1>6. CASE /\ mode = "SNAPSHOT" /\ s + n <= nb_sectors
           /\ sector_table' = Put(sector_table, s, data) /\ UNCHANGED <<file, overrun>>
           /\ kept' = [x \in Reach |-> wanted(x)]
  <2>1. Sector \subseteq Nat /\ sector_table \in [Sector -> Value]
    BY <1>1, Zenon DEF DiskInv
  <2>2. /\ sector_table' \in [Sector -> Value]
        /\ \A x \in Sector : sector_table'[x] = IF x \in s .. s + n - 1 THEN data[x - s + 1]
                                                ELSE sector_table[x]
    <3>1. s \in Nat /\ n \in Nat
      BY <1>1, Zenon
    <3>2. Placed(Put(sector_table, s, data), Sector, sector_table, s, n, data)
      BY <2>1, <3>1, PutAt, Zenon
    <3> QED BY <1>6, <3>2, Zenon DEF Placed
  <2>3. ASSUME NEW x \in Reach, ~overrun
        PROVE  kept'[x] = IF x \in Sector /\ sector_table'[x] # Nothing
                          THEN sector_table'[x] ELSE file[x]
    <3>1. kept[x] = IF x \in Sector /\ sector_table[x] # Nothing THEN sector_table[x] ELSE file[x]
      BY <1>6, <2>3, Zenon DEF DiskInv
    <3>2. kept'[x] = wanted(x) /\ x \in Nat
      BY <1>1, <1>4, <1>6, Zenon
    <3>3. CASE x \in s .. s + n - 1
      <4>1. x \in Sector
        BY <1>1, <1>6, <3>2, <3>3, DiskAssumption DEF DiskInv, Sector
      <4>2. x - s + 1 \in 1 .. n
        BY <1>1, <3>2, <3>3
      <4>3. data[x - s + 1] \in Nat
        BY <4>2, DiskAssumption, Zenon
      <4>4. data[x - s + 1] # Nothing
        BY <4>3 DEF Nothing
      <4> QED BY <2>2, <3>2, <3>3, <4>1, <4>4
    <3>4. CASE x \notin s .. s + n - 1
      <4>1. x < s => x \in Sector
        BY <1>1, <1>6, <3>2, DiskAssumption DEF DiskInv, Sector
      <4>2. x \in Sector => file[x] = 0
        BY <1>6, Zenon DEF DiskInv, Image
      <4>3. x \in Sector => kept[x] # Nothing
        BY <3>1, <4>2 DEF Nothing
      <4>4. wanted(x) = kept[x]
        BY <3>4, <4>1, <4>3, Zenon
      <4> QED BY <2>2, <3>1, <3>2, <3>4, <4>4
    <3> QED BY <3>3, <3>4, Zenon
  <2> QED BY <1>2, <1>4, <1>6, <2>2, <2>3, Zenon DEF DiskInv
<1>7. mode \in {"RO", "RW", "SNAPSHOT"}
  BY Zenon DEF DiskInv, BF_MODE
<1> QED BY <1>1, <1>3, <1>5, <1>6, <1>7, <1>8, Zenon DEF bf_write_async

LEMMA DiskStep == DiskInv /\ [DiskNext]_disk => DiskInv'
<1>1. ASSUME DiskInv, UNCHANGED disk PROVE DiskInv'
  BY <1>1, Zenon DEF disk, DiskInv
<1> QED BY <1>1, WriteStep, Zenon DEF DiskNext

LEMMA ReadsBack == DiskInv => DiskReadsBack
<1> SUFFICES ASSUME DiskInv PROVE DiskReadsBack
  BY Zenon
<1>1. ASSUME NEW x \in Sector, ~overrun PROVE ReadSector(x) = kept[x]
  BY <1>1, Sectors, Zenon DEF DiskInv, ReadSector
<1>2. ASSUME NEW s \in Sector, NEW n \in 1 .. 2, s + n - 1 \in Sector, ~overrun
      PROVE  bf_read_async(s, n) = SubSeq([i \in 1 .. NbSectors |-> kept[i - 1]], s + 1, s + n)
  <2>1. PICK all : all = [i \in 1 .. NbSectors |-> kept[i - 1]]
    BY Zenon
  <2>2. s \in Nat /\ NbSectors \in Nat /\ s + n <= NbSectors
    BY <1>2, DiskAssumption DEF Sector
  <2>3. SubSeq(all, s + 1, s + n) = [i \in 1 .. n |-> all[s + i]]
    <3>1. all \in Seq(Value) /\ Len(all) = NbSectors
      <4>1. \A i \in 1 .. NbSectors : i - 1 \in Reach
        BY <2>2, DiskAssumption DEF Reach
      <4>2. all \in [1 .. NbSectors -> Value]
        BY <2>1, <4>1, Zenon DEF DiskInv
      <4> QED BY <2>2, <4>2
    <3>2. PICK slice : slice = SubSeq(all, s + 1, s + n)
      BY Zenon
    <3>3. slice \in Seq(Value) /\ Len(slice) = n /\ \A i \in 1 .. n : slice[i] = all[s + i]
      BY <2>2, <3>1, <3>2
    <3>4. slice \in [1 .. n -> Value]
      BY <3>3
    <3> QED BY <3>2, <3>3, <3>4, Zenon
  <2>4. ASSUME NEW i \in 1 .. n PROVE ReadSector(s + i - 1) = all[s + i]
    <3>1. s + i \in 1 .. NbSectors /\ s + i - 1 \in Sector /\ (s + i) - 1 = s + i - 1
      BY <2>2 DEF Sector
    <3> QED BY <1>1, <1>2, <2>1, <3>1, Zenon
  <2> QED BY <2>1, <2>3, <2>4, Zenon DEF bf_read_async
<1> QED BY <1>2, Zenon DEF DiskInv, DiskReadsBack

(* The status byte is the answer of the back end, and the disk gives back what was written
   (virtio_block_req_end, bf_read_async and bf_write_async), whatever the size of the rings
   and of the file, and wherever an unsigned int wraps: as long as no write has gone past
   the end of a snapshot's table, which only one whose end wraps can do; and the file of a
   snapshot or of a read-only disk stays as it is, even then. *)
THEOREM DiskTheorem == MCSpec => []DiskRight
<1>1. MCInit => BlockInv /\ DiskInv
  BY BlockInit, DiskInit, Zenon DEF MCInit
<1>2. BlockInv /\ DiskInv /\ [MCNext]_<<vars, disk, part>> => (BlockInv /\ DiskInv)'
  <2>1. [MCNext]_<<vars, disk, part>> => [Next]_vars /\ [DiskNext]_disk
    BY Zenon DEF MCNext
  <2> QED BY <2>1, BlockStep, DiskStep, Zenon
<1>3. BlockInv /\ DiskInv => DiskRight
  BY ReadsBack, Zenon DEF BlockInv, DiskRight, StatusIsResult
<1> QED BY <1>1, <1>2, <1>3, PTL DEF MCSpec
==============================================================================
