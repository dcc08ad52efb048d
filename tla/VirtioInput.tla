----------------------------- MODULE VirtioInput -----------------------------
(* The virtio input devices: the events of mouse and tablet, a group of entries that is
   queued one by one and stops where the event queue has no room, and the configuration
   space, where the driver writes a question and reads the reply.  Of the event queue
   only the number of entries the driver has made available is kept. *)
EXTENDS Integers, Sequences, SequencesExt, FiniteSets

CONSTANTS Room,         \* bound: entries the driver makes available
          Button        \* numbers of the buttons, in the order of buttons_list

Type == {"keyboard", "mouse", "tablet"}

VARIABLES type,         \* fixed by virtio_input_init
          room,
          buttons_state,
          entries,        \* the entries virtio_input_send_mouse_event has left
          target,       \* its argument buttons
          told,         \* history: the buttons the guest takes to be down
          torn,         \* history: a group stopped between two buttons, or a new driver came
          select, subsel,       \* config[0], config[1]
          reply                 \* config[2], and what was written from config[8] on

event == <<room, buttons_state, entries, target, told, torn>>
config == <<select, subsel, reply>>
input == <<type, event, config>>

Zero == [size |-> 0, data |-> "zero"]

InputInit ==
    /\ type \in Type
    /\ room = 0 /\ buttons_state = {} /\ entries = <<>> /\ target = {}
    /\ told = {} /\ torn = FALSE
    /\ select = "unset" /\ subsel = 0 /\ reply = Zero

-----------------------------------------------------------------------------
(* Events *)

\* The entries of a group; a button is named by its number, told when it changed.
Changed(buttons) ==
    LET diff == (buttons \ buttons_state) \cup (buttons_state \ buttons)
    IN  SelectSeq([i \in 1 .. Cardinality(Button) |-> i - 1], LAMBDA b : b \in diff)

virtio_input_send_mouse_event(wheel, buttons) ==
    /\ type # "keyboard" /\ entries = <<>>
    /\ entries' = <<"x", "y">> \o (IF wheel THEN <<"wheel">> ELSE <<>>)
                \o [i \in 1 .. Len(Changed(buttons)) |-> "button"] \o <<"syn">>
    /\ target' = buttons
    /\ UNCHANGED <<room, buttons_state, told, torn, type, config>>

\* The first button not told yet of those that change.
NextButton == LET left == Len(SelectSeq(entries, LAMBDA e : e = "button"))
                  all == Changed(target)
              IN  all[Len(all) - left + 1]

\* Mutant: the state is remembered only when the whole group was sent.
Remember_Syn(rest) == rest = <<>>

\* The loop over the buttons has ended: the state is remembered before the SYN.
Remember(rest) == rest # <<>> /\ Head(rest) = "syn"

QueueMouseEntry ==
    /\ entries # <<>> /\ room > 0
    /\ room' = room - 1
    /\ entries' = Tail(entries)
    /\ told' = IF Head(entries) # "button" THEN told
               ELSE IF NextButton \in target THEN told \cup {NextButton} ELSE told \ {NextButton}
    /\ buttons_state' = IF Remember(Tail(entries)) THEN target ELSE buttons_state
    /\ torn' = (torn /\ told' # buttons_state')
    /\ UNCHANGED <<type, target, config>>

\* virtio_input_queue_event returns < 0, and the call ends.
MouseEventFails ==
    /\ entries # <<>> /\ room = 0
    /\ entries' = <<>>
    /\ torn' = (torn \/ (Head(entries) = "button" /\ told # buttons_state))
    /\ UNCHANGED <<type, room, buttons_state, target, told, config>>

\* The guest does not run while an event is sent.
MakeRoom ==
    /\ entries = <<>> /\ room < Room
    /\ room' = room + 1
    /\ UNCHANGED <<type, buttons_state, entries, target, told, torn, config>>

\* A new driver starts with no button down; virtio_reset keeps buttons_state.
ResetInput ==
    /\ entries = <<>>
    /\ room' = 0 /\ told' = {} /\ torn' = (buttons_state # {})
    /\ UNCHANGED <<type, buttons_state, entries, target, config>>

-----------------------------------------------------------------------------
(* The configuration space *)

Select == {"unset", "id_name", "id_serial", "ev_bits", "abs_info"}
EV_KEY == 1
EV_REL == 2
EV_ABS == 3
EV_REP == 20
Subsel == {0, EV_KEY, EV_REL, EV_ABS, EV_REP}

NameLen == [keyboard |-> 15, mouse |-> 12, tablet |-> 13]

\* The reply to EV_BITS; "kept" stands for bytes that are left as they are.
EvBits(sub) ==
    CASE type = "keyboard" /\ sub = EV_KEY -> [size |-> 16, data |-> "all keys"]
      [] type = "keyboard" /\ sub = EV_REP -> [size |-> 1, data |-> "kept"]
      [] type # "keyboard" /\ sub = EV_KEY -> [size |-> 64, data |-> "buttons"]
      [] type = "mouse" /\ sub = EV_REL -> [size |-> 2, data |-> "x y wheel"]
      [] type = "tablet" /\ sub = EV_REL -> [size |-> 2, data |-> "wheel"]
      [] type = "tablet" /\ sub = EV_ABS -> [size |-> 1, data |-> "x y"]
      [] OTHER -> [size |-> 0, data |-> "kept"]

\* Mutant: an event type without bits leaves the size of the last reply.
EvReply_Stale(old, sub) == IF EvBits(sub).size = 0 THEN old ELSE EvBits(sub)

\* The size is cleared before the event type is looked at.
EvReply(old, sub) == EvBits(sub)

\* Whether virtio_input_config_write replies at all.
Replied(sel, sub) ==
    \/ sel \in {"id_name", "id_serial", "ev_bits"}
    \/ sel = "abs_info" /\ type = "tablet" /\ sub <= 1

\* The reply after a question, which replaces the reply old.
Reply(old, sel, sub) ==
    LET a == CASE sel = "id_name" -> [size |-> NameLen[type], data |-> "name"]
               [] sel = "id_serial" -> [size |-> 0, data |-> "kept"]
               [] sel = "ev_bits" -> EvReply(old, sub)
               [] sel = "abs_info" /\ Replied(sel, sub) -> [size |-> 20, data |-> "range"]
               [] OTHER -> old
    IN  [a EXCEPT !.data = IF @ = "kept" THEN old.data ELSE @]

virtio_input_config_write(sel, sub) ==
    /\ select' = sel /\ subsel' = sub
    /\ reply' = Reply(reply, sel, sub)
    /\ UNCHANGED <<type, event>>

\* The driver writes one of the two bytes, or both at once.
Ask ==
    /\ entries = <<>>
    /\ \/ \E sel \in Select : virtio_input_config_write(sel, subsel)
       \/ \E sub \in Subsel : virtio_input_config_write(select, sub)
       \/ \E sel \in Select, sub \in Subsel : virtio_input_config_write(sel, sub)

EventNext ==
    \/ \E wheel \in BOOLEAN, buttons \in SUBSET Button : virtio_input_send_mouse_event(wheel, buttons)
    \/ QueueMouseEntry \/ MouseEventFails \/ MakeRoom \/ ResetInput

-----------------------------------------------------------------------------
(* Between events the guest takes those buttons to be down that the device remembers,
   however often the queue had no room, unless a group stopped between two buttons
   (virtio_input_send_mouse_event has told of the first and forgets it) or the driver
   was replaced while a button was down. *)
ButtonsTold == entries = <<>> /\ ~torn => told = buttons_state

(* A reply does not depend on the questions before it, nor on the order in which the
   two bytes of the question were written: it is what a device asked for the first time
   would reply (virtio_input_config_write).  Not claimed of the questions that are not
   answered, which leave the last reply in place, nor of the byte for key repeat. *)
ReplyIsAnswer ==
    Replied(select, subsel) =>
        LET fresh == Reply(Zero, select, subsel)
        IN  /\ reply.size = fresh.size
            /\ reply.size > 0 /\ fresh.data # Zero.data => reply.data = fresh.data
=============================================================================
