---------------------------- MODULE MCSimulation ----------------------------
(* Programs of two instructions and a jump, and longer ones around the opcodes that
   switch the trace, under every way to switch it. *)
EXTENDS Simulation

Modes == {"off", "macro", "number"}
Levels == {PRV_U, PRV_M}
Spaces == {0, 1}

Programs ==
    {<<a, b, "jump">> : a \in Kind, b \in {"op", "jump", "amo", "ecall"}}
    \cup {<<"drop", a, "jump">> : a \in {"op", "ecall"}}
    \cup {<<"csrflush", "drop", "load", "jump">>}
    \cup {<<"start", "amo", a, "jump">> : a \in {"load", "stop"}}
    \cup {<<"start", "wfi", "amo", "jump">>}
    \cup {<<"start", "op", a, "jump">> : a \in {"amo", "stop", "illegal"}}
    \cup {<<"op", "start", a, "stop", "jump">> : a \in {"load", "ecall"}}

=============================================================================
