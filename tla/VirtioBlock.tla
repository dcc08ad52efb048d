---------------------------- MODULE VirtioBlock -----------------------------
(* The virtio block device: requests are handled one at a time, in order; the back
   end (a BlockDevice) answers at once or calls virtio_block_req_cb later.  The
   file that is the back end of every machine has its own state, below. *)
EXTENDS Virtio

CONSTANT Ret        \* what read_async and write_async return: < 0, 0 or > 0

BlockKind == {"request", "other", "short", "malformed"}

VARIABLES
    req_in_progress,
    req,            \* the chain of the request the device works on
    working,        \* external: the chains the back end works on
    kicked,         \* history: chains offered before the last notification
    status,         \* the status byte of a chain: "none", "ok" or "ioerr"
    result          \* history: what the back end answered for a chain

block == <<req_in_progress, req, working, kicked, status, result>>
vars == <<common, block>>

Init ==
    /\ CommonInit
    /\ req_in_progress = FALSE /\ working = {} /\ kicked = {}
    /\ req = [queue_idx |-> CHOOSE q \in Queue : TRUE, desc_idx |-> NoChain]
    /\ status = [c \in Chain |-> "none"] /\ result = [c \in Chain |-> "none"]

Verdict(ret) == IF ret < 0 THEN "ioerr" ELSE "ok"

\* Mutant: the status is written after the chain was returned, and only on success.
virtio_block_req_end_NoError(q, c, ret) ==
    /\ status' = [status EXCEPT ![c] = "ok"]
    /\ virtio_consume_desc(q, c)

virtio_block_req_end(q, c, ret) ==
    /\ status' = [status EXCEPT ![c] = Verdict(ret)]
    /\ virtio_consume_desc(q, c)

Busy == req_in_progress

\* One turn of queue_notify's loop in which device_recv returns -1.
Stop(q) ==
    /\ notifying = q /\ Pending(q) /\ kind[NextChain(q)] # "malformed" /\ Busy
    /\ notifying' = Nobody
    /\ UNCHANGED <<ring, int_status, irq, driver, hist, block>>

\* A turn for a chain without a proper header, or with a type that is not served.
Skip(q) ==
    LET c == NextChain(q) IN
    /\ notifying = q /\ Pending(q)
    /\ \/ kind[c] = "malformed"
       \/ ~Busy /\ kind[c] \in {"short", "other"}
    /\ Drop(q, c) /\ Advance(q)
    /\ req' = IF kind[c] = "other" THEN [queue_idx |-> q, desc_idx |-> c] ELSE req
    /\ UNCHANGED <<avail, notifying, driver, kicked>>
    /\ UNCHANGED <<req_in_progress, working, status, result>>

\* A turn for a read or a write.
virtio_block_recv_request(q, ret) ==
    LET c == NextChain(q) IN
    /\ notifying = q /\ Pending(q) /\ kind[c] = "request" /\ ~Busy
    /\ req' = [queue_idx |-> q, desc_idx |-> c]
    /\ \/ /\ ret > 0
          /\ req_in_progress' = TRUE /\ working' = working \cup {c}
          /\ UNCHANGED <<used, int_status, irq, offered, news, status, result>>
       \/ /\ ret <= 0
          /\ virtio_block_req_end(q, c, ret)
          /\ result' = [result EXCEPT ![c] = Verdict(ret)]
          /\ UNCHANGED <<req_in_progress, working>>
    /\ Advance(q)
    /\ UNCHANGED <<avail, notifying, driver, kicked>>

\* Mutant: the callback does not look for further requests.
HandleNext_Not == Nobody

HandleNext == req.queue_idx

\* The back end is done with c; the device ends the request it remembers.
virtio_block_req_cb(c, ret) ==
    /\ notifying = Nobody /\ c \in working
    /\ working' = working \ {c} /\ result' = [result EXCEPT ![c] = Verdict(ret)]
    /\ virtio_block_req_end(req.queue_idx, req.desc_idx, ret)
    /\ req_in_progress' = FALSE
    /\ notifying' = HandleNext
    /\ UNCHANGED <<queue, avail, driver, kicked, req>>

\* virtio_reset leaves req_in_progress and req as they are, so a late answer would go
\* to the rings of the next driver; the driver waits for its requests before a reset.
ResetBlock ==
    /\ Reset
    /\ ~req_in_progress
    /\ kicked' = {}
    /\ status' = [c \in Chain |-> "none"] /\ result' = [c \in Chain |-> "none"]
    /\ UNCHANGED <<req_in_progress, req, working>>

Outstanding(q) == {offered[q][i] : i \in DOMAIN offered[q]}

NotifyBlock(q) ==
    /\ Notify(q)
    /\ kicked' = kicked \cup Outstanding(q)
    /\ UNCHANGED <<req_in_progress, req, working, status, result>>

\* The driver takes a chain back and reads its status byte.
CollectBlock(q) ==
    /\ Collect(q)
    /\ LET c == used[q].ring[seen[q] % Num]
       IN  /\ status' = [status EXCEPT ![c] = "none"] /\ result' = [result EXCEPT ![c] = "none"]
           /\ kicked' = kicked \ {c}
    /\ UNCHANGED <<req_in_progress, req, working>>

DeviceStep ==
    \E q \in Queue : \/ NotifyDone(q) /\ UNCHANGED block
                     \/ Stop(q) \/ Skip(q)
                     \/ \E ret \in Ret : virtio_block_recv_request(q, ret)

Callback == \E c \in working, ret \in Ret : ret <= 0 /\ virtio_block_req_cb(c, ret)

Next ==
    \/ DeviceStep \/ Callback \/ ResetBlock
    \/ \E q \in Queue : NotifyBlock(q) \/ CollectBlock(q)
    \/ DriverNext /\ UNCHANGED block

\* A loop of queue_notify runs to its end.  The back end answers from the host's main
\* loop, between two batches of guest instructions: a driver that keeps notifying
\* does not keep it from answering.
Fairness == WF_vars(DeviceStep) /\ SF_vars(Callback)

Spec == Init /\ [][Next]_vars /\ Fairness

-----------------------------------------------------------------------------
(* Chains come back in the order in which they were offered, each once, with the
   answers of the back end arriving at any time (virtio_consume_desc). *)
InOrder == [][ReturnsOldest]_vars

(* The status byte of a chain in the used ring is the answer the back end gave for
   that chain (virtio_block_req_end). *)
StatusIsResult == \A c \in Chain : status[c] = result[c]

(* A read or a write the driver has notified is answered, unless the driver resets
   the device: the request left in the ring when the device was busy is picked up
   by the callback (return < 0 to stop the notification, which must be restarted). *)
Answered ==
    \A q \in Queue, c \in Chain :
        (c \in kicked /\ c \in Outstanding(q) /\ kind[c] = "request")
            ~> (c \notin Outstanding(q))

-----------------------------------------------------------------------------
(* The file behind the block device: read-only, read-write, or a snapshot, whose writes
   go to a table of sectors in memory.  It answers at once.  A request is for some
   sectors in a row; its data has a value per sector. *)

CONSTANTS NbSectors,    \* sectors of the file when it is opened
          Extra,        \* bound: sectors a write may reach beyond the end
          DataVal,      \* values of a sector; the file holds 0 at first
          UintMod       \* 2^32 in the code: where an unsigned int wraps

ASSUME DiskAssumption ==
    NbSectors \in Nat /\ Extra \in Nat /\ DataVal \subseteq Nat /\ UintMod \in Nat \ {0}

Sector == 0 .. NbSectors - 1
Reach == 0 .. NbSectors + Extra - 1
BF_MODE == {"RO", "RW", "SNAPSHOT"}
Nothing == -1           \* an empty place of sector_table, or a sector not in the file

VARIABLES mode, nb_sectors,
          file,         \* [Reach -> value of a sector, Nothing beyond the end]
          sector_table, \* [Sector -> value or Nothing]
          kept,         \* history: what the last accepted write left, by sector
          overrun       \* history: a write went past the end of sector_table

disk == <<mode, nb_sectors, file, sector_table, kept, overrun>>

Image == [s \in Reach |-> IF s \in Sector THEN 0 ELSE Nothing]

block_device_init ==
    /\ mode \in BF_MODE /\ nb_sectors = NbSectors
    /\ file = Image /\ kept = Image
    /\ sector_table = [s \in Sector |-> Nothing] /\ overrun = FALSE

-----------------------------------------------------------------------------

\* What a read of sector s gives.
ReadSector(s) ==
    IF mode = "SNAPSHOT" /\ sector_table[s] # Nothing THEN sector_table[s] ELSE file[s]

bf_read_async(s, n) == [i \in 1 .. n |-> ReadSector(s + i - 1)]

\* Mutant: every sector of a request goes to the first place.
Place_First(s, i) == s

\* Where the i-th sector of a request for s goes.
Place(s, i) == s + i - 1

\* table with the sectors of data placed from s on
Put(table, s, data) ==
    [x \in DOMAIN table |-> IF \E i \in DOMAIN data : Place(s, i) = x
                            THEN data[CHOOSE i \in DOMAIN data : Place(s, i) = x] ELSE table[x]]

\* A write beyond the end is refused by a snapshot; a file grows, with a hole if need be.
\* The snapshot compares the end after a cast to unsigned int.  A write whose end wraps is
\* taken: it goes past the end of sector_table, and what the table then holds is undefined.
bf_write_async(s, data) ==
    LET fits == (s + Len(data)) % UintMod <= nb_sectors
        inside == s + Len(data) <= nb_sectors
        grown == [x \in Reach |-> IF file[x] = Nothing /\ x < s THEN 0 ELSE file[x]]
    IN  /\ \/ mode = "RO" /\ UNCHANGED <<file, sector_table, kept, overrun>>
           \/ mode = "SNAPSHOT" /\ ~fits /\ UNCHANGED <<file, sector_table, kept, overrun>>
           \/ /\ mode = "SNAPSHOT" /\ fits /\ ~inside
              /\ overrun' = TRUE
              /\ sector_table' \in [Sector -> DataVal \cup {Nothing}]
              /\ UNCHANGED <<file, kept>>
           \/ /\ mode # "RO" /\ (mode = "SNAPSHOT" => fits /\ inside)
              /\ UNCHANGED overrun
              /\ IF mode = "SNAPSHOT" THEN sector_table' = Put(sector_table, s, data) /\ UNCHANGED file
                 ELSE file' = Put(grown, s, data) /\ UNCHANGED sector_table
              /\ kept' = [x \in Reach |-> IF x \in s .. s + Len(data) - 1 THEN data[x - s + 1]
                                          ELSE IF kept[x] = Nothing /\ x < s THEN 0 ELSE kept[x]]
        /\ UNCHANGED <<mode, nb_sectors>>

DiskNext ==
    \E s \in Reach, n \in 1 .. 2 : \E data \in [1 .. n -> DataVal] :
        /\ s + n - 1 \in Reach
        /\ bf_write_async(s, data)

-----------------------------------------------------------------------------
(* A read of any sectors of the disk gives what the last accepted write of each left, or
   the image, in every mode and after writes that overlap or were refused; and only a
   read-write disk changes the file: a snapshot never does.  Excepted from the first is a
   snapshot that has taken a write past its end (overrun): there the code promises nothing. *)
DiskReadsBack ==
    /\ \A s \in Sector, n \in 1 .. 2 :
          ~overrun /\ s + n - 1 \in Sector => bf_read_async(s, n) = SubSeq([i \in 1 .. NbSectors |-> kept[i - 1]], s + 1, s + n)
    /\ mode # "RW" => file = Image
=============================================================================
