------------------------------- MODULE MCCosim -------------------------------
(* The emulator following a DUT, and the memory checker under its two clients; each
   behaviour is of one part. *)
EXTENDS Cosim, GoldCore

VARIABLE part

MCTimer == {MTIP}
MCTimerExternal == {MTIP, MEIP}

\* Any program will do for the memory checker.
MCInit ==
    /\ part \in {"follow", "inorder", "ooo"}
    /\ Init /\ GoldInit
    /\ part # "follow" => prog = Code([a \in 0 .. UserSize - 1 |-> "load"])

MCNext ==
    /\ UNCHANGED part
    /\ \/ part = "follow" /\ Next /\ UNCHANGED gold
       \/ part = "inorder" /\ InorderNext /\ UNCHANGED vars
       \/ part = "ooo" /\ OooNext /\ UNCHANGED vars

MCSpec == MCInit /\ [][MCNext]_<<vars, gold, part>>

(* The memory checker is right for both its clients: what it accepts of an in-order
   program is what RAM holds (check_inorder_load, check_inorder_amo), and the loads of
   an out-of-order one have the newest older bytes (Gold_core::st_locally_perform; the
   loads of an in-order program stay in the rob after they have been checked, while
   other cores store). *)
MemoryCheckerRight == CheckedAgainstRam /\ (part = "ooo" => LoadsAreCurrent)
==============================================================================
