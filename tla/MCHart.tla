------------------------------- MODULE MCHart -------------------------------
(* The privileged core of a hart in one run: the physical memory protection and
   the traps.  They share no state, so every behaviour is one of the two parts.

   PMP: three entries over a small address space, enough for a locked TOR entry
   to have a neighbour on either side and for regions of every mode. *)
EXTENDS Pmp, Trap

VARIABLE part

MCCfgVal ==
    [a : {"TOR"}, perm : {{}}, l : BOOLEAN]
    \cup {[a |-> "NAPOT", perm |-> {}, l |-> TRUE],
          [a |-> "NA4", perm |-> {"R"}, l |-> FALSE]}
MCAddrVal == {1, 7}

\* Software enables the interrupts of one level; returns enable both.  Both
\* privileges below machine mode are returned to.
MCMstatusVal ==
    {[sie |-> a, mie |-> ~a, spie |-> TRUE, mpie |-> TRUE, spp |-> PRV_S,
      mpp |-> IF a THEN PRV_U ELSE PRV_S] : a \in BOOLEAN}

MCInit ==
    /\ PmpInit /\ TrapInit
    /\ part \in {"pmp", "trap"}
    /\ part # "trap" => pc = Tvec /\ ~debug_mode

MCNext ==
    \/ part = "pmp" /\ PmpNext /\ UNCHANGED <<part, trapVars>>
    \/ part = "trap" /\ TrapNext /\ UNCHANGED <<part, pmpVars>>

MCSpec == MCInit /\ [][MCNext]_<<part, pmpVars, trapVars>>
=============================================================================
