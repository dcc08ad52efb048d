-------------------------------- MODULE MCIrq --------------------------------
(* The interrupt sources of the machine: the CLINT, the PLIC with any devices, and the
   PLIC with the serial ports.  A behaviour exercises one of them; the others keep
   their initial state. *)
EXTENDS Uart, Clint

VARIABLE part

all == <<plic, uart, clint, part>>

MCInit == Init /\ UartInit /\ ClintInit /\ part \in {"clint", "plic", "uart"}

\* The serial driver runs on one hart, in machine mode.
Driver == {Min(Hart)}

MCNext ==
    \/ part = "clint" /\ ClintNext /\ UNCHANGED <<plic, uart, part>>
    \/ part = "plic" /\ Next /\ UNCHANGED <<uart, clint, part>>
    \/ part = "uart" /\ UartNext(Driver, {MEIP}) /\ UNCHANGED <<clint, part>>

\* Where the CLINT is exercised, the main loop gives every hart its batch again and again.
MCSpec == MCInit /\ [][MCNext]_all /\ (part = "clint" => ClintFairness)

(* The serial port loses nothing between terminal and guest: no typed character is
   overwritten or dropped, and where the ports alone raise sources no order of polls,
   enables, claims and completions leaves the PLIC with a source its port has withdrawn,
   or without one it raised and nobody claimed (update_isr). *)
PortKeepsUp == NothingOverwritten /\ (part = "uart" => LineFollowsCause)
==============================================================================
