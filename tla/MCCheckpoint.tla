---------------------------- MODULE MCCheckpoint ----------------------------
(* Registers are written with nothing, everything and every other bit.  A behaviour is of
   the registers and their checkpoint, or of the cache model that goes with it. *)
EXTENDS Checkpoint, LiveCache

VARIABLE part

MCValue == {{}, Bit, {b \in Bit : b % 2 = 1}}
MCPc == {{16}, {16, 8}, {31, 5, 1}}

\* The cache needs no registers: its behaviours are of a fresh hart with nothing to save.
MCInit ==
    /\ CacheInit
    /\ \/ part = "registers" /\ Init
       \/ /\ part = "cache" /\ hart = Fresh /\ saved = hart
          /\ phase = "default" /\ rom = EmptyRom /\ insns = 0

MCNext ==
    /\ UNCHANGED part
    /\ \/ part = "registers" /\ Next /\ UNCHANGED cache
       \/ part = "cache" /\ CacheNext /\ UNCHANGED vars

MCSpec == MCInit /\ [][MCNext]_<<vars, cache, part>>
=============================================================================
