---------------------------- MODULE VirtioStream ----------------------------
(* The virtio network, console and input devices: queue 1 carries data from the
   guest and is served by notifications, queue 0 carries data to the guest and is
   filled when the host has something to say (manual_recv).  An input event is a
   group of entries of queue 0 that ends with a SYN. *)
EXTENDS Virtio

CONSTANT Device         \* the devices of the instance

ASSUME StreamAssumption == Device \subseteq {"net", "console", "keyboard"}

StreamKind == {"fits", "small", "malformed"}
rx == 0
tx == 1

VARIABLES
    device,             \* fixed by the init function
    group               \* the entries the running virtio_input_send_* has left

vars == <<common, device, group>>

Init ==
    /\ CommonInit
    /\ device \in Device
    /\ group = <<>>

Idle == notifying = Nobody /\ group = <<>>

\* A notification of the manually received queue does nothing.
ManualRecv ==
    /\ notifying = rx
    /\ notifying' = Nobody
    /\ UNCHANGED <<ring, int_status, irq, driver, hist, device, group>>

\* virtio_net_, virtio_console_ and virtio_input_recv_request, for queue 1.
recv_request ==
    LET c == NextChain(tx) IN
    /\ notifying = tx /\ Pending(tx)
    /\ IF kind[c] = "malformed" \/ (device = "net" /\ kind[c] = "small")
       THEN Drop(tx, c)
       ELSE virtio_consume_desc(tx, c)
    /\ Advance(tx)
    /\ UNCHANGED <<avail, notifying, driver, device, group>>

CanWrite == queue[rx].ready /\ Pending(rx)

Deliver(c) ==
    /\ virtio_consume_desc(rx, c) /\ Advance(rx)
    /\ UNCHANGED <<avail, notifying, driver, device>>

\* A packet that does not fit is dropped, and so is one for a malformed chain.
virtio_net_write_packet ==
    /\ device = "net" /\ Idle
    /\ CanWrite /\ kind[NextChain(rx)] = "fits"
    /\ Deliver(NextChain(rx))
    /\ UNCHANGED group

virtio_console_write_data ==
    /\ device = "console" /\ Idle
    /\ CanWrite
    /\ Deliver(NextChain(rx))
    /\ UNCHANGED group

virtio_console_resize_event ==
    /\ device = "console" /\ Idle
    /\ virtio_config_change_notify
    /\ UNCHANGED <<device, group>>

virtio_input_send_key_event ==
    /\ device = "keyboard" /\ Idle
    /\ group' = <<"key", "syn">>
    /\ UNCHANGED <<common, device>>

virtio_input_queue_event ==
    /\ group # <<>> /\ CanWrite
    /\ Deliver(NextChain(rx))
    /\ group' = Tail(group)

\* No room for the next entry: the call returns < 0 and the rest of the group is lost.
QueueEventFails ==
    /\ group # <<>> /\ ~CanWrite
    /\ group' = <<>>
    /\ UNCHANGED <<common, device>>

ResetStream ==
    /\ group = <<>> /\ Reset
    /\ UNCHANGED <<device, group>>

HostStep ==
    \/ virtio_net_write_packet \/ virtio_console_write_data \/ virtio_console_resize_event
    \/ virtio_input_send_key_event
    \/ virtio_input_queue_event \/ QueueEventFails

Next ==
    \/ recv_request \/ ManualRecv \/ HostStep \/ ResetStream
    \/ NotifyDone(tx) /\ UNCHANGED <<device, group>>
    \/ /\ group = <<>>
       /\ DriverNext \/ \E q \in Queue : Notify(q) \/ Collect(q)
       /\ UNCHANGED <<device, group>>

Spec == Init /\ [][Next]_vars

=============================================================================
