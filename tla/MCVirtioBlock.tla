---------------------------- MODULE MCVirtioBlock ----------------------------
(* The block device on its ring, with a back end that answers in any way, and the file
   that is the back end.  A behaviour exercises one of them. *)
EXTENDS VirtioBlock

CONSTANTS c1, c2, c3

VARIABLE part

MCQueue == {0}
MCChain == {c1, c2, c3}
MCRet == {-1, 0, 1}

MCInit ==
    /\ part \in {"ring", "file"}
    /\ Init /\ block_device_init
    /\ part = "ring" => mode = "RW"

MCNext ==
    \/ part = "ring" /\ Next /\ UNCHANGED <<disk, part>>
    \/ part = "file" /\ DiskNext /\ UNCHANGED <<vars, part>>

MCSpec == MCInit /\ [][MCNext]_<<vars, disk, part>> /\ (part = "ring" => Fairness)

(* The disk is right: the status byte of a returned chain is the answer of the back end
   for that chain (virtio_block_req_end), and what the back end reads is what was last
   written (block_device.cpp). *)
DiskRight == StatusIsResult /\ DiskReadsBack
==============================================================================
