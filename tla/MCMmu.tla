-------------------------------- MODULE MCMmu --------------------------------
(* Two virtual pages that share one TLB slot; page 1 holds the page table and
   page 2 is a device, which virtual page 2 names when there is no translation.  The
   one table serves as both levels: its pointer is to itself. *)
EXTENDS Mmu

MCVPage == {1, 2}
MCPage == 0 .. 2
MCRam == {0, 1}
MCRoot == {1}
\* A page of the user, an execute-only one of the supervisor, which as a superpage is
\* misaligned, and a pointer.
MCPte == {[v |-> TRUE, p |-> 0, perm |-> {"R", "W", "X"}, u |-> TRUE, a |-> TRUE, d |-> TRUE],
          [v |-> TRUE, p |-> 1, perm |-> {"X"}, u |-> FALSE, a |-> TRUE, d |-> TRUE],
          [v |-> TRUE, p |-> 1, perm |-> {}, u |-> FALSE, a |-> FALSE, d |-> FALSE]}
\* Traps and returns bring MPP to its other values.
MCMstatusVal ==
    {[mprv |-> r, mpp |-> IF s THEN PRV_S ELSE PRV_M, spp |-> PRV_S, sum |-> s, mxr |-> s,
      tvm |-> r, tsr |-> r] : r \in BOOLEAN, s \in BOOLEAN}
MCCfgVal == {[a |-> "OFF", perm |-> {}, l |-> FALSE],
             [a |-> "TOR", perm |-> {"R", "W", "X"}, l |-> FALSE],
             [a |-> "TOR", perm |-> {"X"}, l |-> TRUE]}
MCAddrVal == {0, 2}
==============================================================================
