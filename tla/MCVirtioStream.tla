--------------------------- MODULE MCVirtioStream ---------------------------
(* The parts of the virtio devices beside the block device: the two queues of the
   network, console and input devices, copies through chains of descriptors, the set-up
   registers, the events and the configuration space of the input devices.  A behaviour
   exercises one of them. *)
EXTENDS VirtioStream, VirtioTransport, VirtioInput, TLC

CONSTANTS c1, c2

VARIABLE part

MCQueue == {rx, tx}
MCChain == {c1, c2}
MCSymmetry == Permutations(MCChain)
MCStream == {"net", "console", "keyboard"}

all == <<vars, copying, registers, input, part>>

\* A part that is not exercised has one initial state.
MCInit ==
    /\ part \in {"stream", "copy", "registers", "events", "config"}
    /\ Init /\ CopyInit /\ RegsInit /\ InputInit
    /\ part # "stream" => device = CHOOSE d \in Device : TRUE
    /\ part \notin {"events", "config"} => type = "tablet"

MCNext ==
    \/ part = "stream" /\ Next /\ UNCHANGED <<copying, registers, input, part>>
    \/ part = "copy" /\ CopyNext /\ UNCHANGED <<vars, registers, input, part>>
    \/ part = "registers" /\ RegsNext /\ UNCHANGED <<vars, copying, input, part>>
    \/ part = "events" /\ EventNext /\ UNCHANGED <<vars, copying, registers, part>>
    \/ part = "config" /\ Ask /\ UNCHANGED <<vars, copying, registers, part>>

MCSpec == MCInit /\ [][MCNext]_all

(* What the driver reads of the device is what it set up or asked for: the ring registers
   of the selected queue (virtio_mmio_write), and the reply in the configuration space
   (virtio_input_config_write), in whatever order it writes. *)
DriverReadsBack == SetUpAsMeant /\ ReplyIsAnswer
=============================================================================
