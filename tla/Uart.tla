-------------------------------- MODULE Uart --------------------------------
(* The serial ports on one terminal: a DesignWare port, which raises a source of the
   PLIC, and the SiFive port, which takes characters from the same terminal.  The
   terminal's escape sequences are part of reading it.  Registers that only hold a
   value (divisor, modem control, scratch, the SiFive control words) are left out;
   while the divisor is selected (DLAB) registers 0 and 1 name it. *)
EXTENDS Plic, Sequences

CONSTANTS Dw,           \* the DesignWare ports, named by their PLIC sources
          Char,         \* what can be typed
          MaxTyped,     \* bound: characters typed
          IerVal        \* enable words the driver writes

CtrlA == "C-a"
CtrlB == "C-b"

VARIABLES
    terminal,           \* typed and not read
    console_esc_state,
    dw,                 \* [Dw -> [rhr, ier, isr, dlab, lsr, last_irq_level]]
    typed,              \* how much was typed
    taken, given,       \* history: [Dw -> characters a port took from the terminal, the guest read]
    claimed             \* history: sources claimed since their port raised them

uart == <<terminal, console_esc_state, dw, typed, taken, given, claimed>>
plic == vars

Port == [rhr : Char \cup {"nul"}, ier : IerVal \cup {{}}, isr : 0 .. 4, dlab : BOOLEAN,
         lsr : SUBSET {"rxrdy", "threempty", "txempty"}, last_irq_level : BOOLEAN]

UartTypeOK ==
    /\ terminal \in Seq(Char)
    /\ dw \in [Dw -> Port]
    /\ taken \in [Dw -> Seq(Char \cup {"nul"})] /\ given \in [Dw -> Seq(Char \cup {"nul"})]

UartInit ==
    /\ terminal = <<>> /\ console_esc_state = FALSE
    /\ dw = [u \in Dw |-> [rhr |-> "nul", ier |-> {}, isr |-> 0, dlab |-> FALSE, lsr |-> {},
                           last_irq_level |-> FALSE]]
    /\ typed = 0
    /\ taken = [u \in Dw |-> <<>>] /\ given = [u \in Dw |-> <<>>]
    /\ claimed = {}

-----------------------------------------------------------------------------
(* The terminal: what console_read makes of a character. *)

\* After C-b only C-a passes (C-b x, which ends the program, is left out).
Passes(ch) == IF console_esc_state THEN ch = CtrlA ELSE ch # CtrlB

\* [data |-> a character was read, ch |-> the byte the buffer holds afterwards]
console_read(old) ==
    IF terminal = <<>> THEN [data |-> FALSE, ch |-> old]
    ELSE [data |-> Passes(Head(terminal)), ch |-> Head(terminal)]

ConsoleTaken ==
    /\ terminal' = IF terminal = <<>> THEN <<>> ELSE Tail(terminal)
    /\ console_esc_state' = IF terminal = <<>> THEN console_esc_state
                            ELSE ~console_esc_state /\ Head(terminal) = CtrlB

ConsoleLeft == UNCHANGED <<terminal, console_esc_state>>

Type(ch) ==
    /\ typed < MaxTyped
    /\ terminal' = Append(terminal, ch) /\ typed' = typed + 1
    /\ UNCHANGED <<console_esc_state, dw, taken, given, claimed, plic>>

-----------------------------------------------------------------------------
(* The DesignWare port *)

\* The low bits of the interrupt status: the most urgent enabled cause, 1 for none.  No
\* line error is ever recorded, and the modem status is always 0.
IsrNibble(d) ==
    IF "rdi" \in d.ier /\ "rxrdy" \in d.lsr THEN 4
    ELSE IF "thri" \in d.ier /\ "threempty" \in d.lsr THEN 2
    ELSE IF "msi" \in d.ier THEN 0 ELSE 1

\* Mutant: the line is compared with the status before the update.
update_isr_Late(u, d) ==
    LET level == d.isr % 2 = 0 IN
    /\ dw' = [dw EXCEPT ![u] = [d EXCEPT !.isr = IsrNibble(d), !.last_irq_level = level]]
    /\ IF level # d.last_irq_level
       THEN plic_set_irq(u, level) /\ claimed' = claimed \ {u}
       ELSE UNCHANGED <<plic, claimed>>

\* Port u gets the registers d, and the PLIC hears of a change of the line.
update_isr(u, d) ==
    LET isr == IsrNibble(d)
        level == isr % 2 = 0
    IN  /\ dw' = [dw EXCEPT ![u] = [d EXCEPT !.isr = isr, !.last_irq_level = level]]
        /\ IF level # d.last_irq_level
           THEN plic_set_irq(u, level) /\ claimed' = claimed \ {u}
           ELSE UNCHANGED <<plic, claimed>>

\* Mutant: a character is taken although the last one was not read.
CanTake_Always(d) == TRUE

CanTake(d) == "rxrdy" \notin d.lsr

\* dw_apb_uart_poll, and update_isr after it, on the registers d of port u.
Poll(u, d) ==
    LET r == console_read(d.rhr) IN
    IF CanTake(d)
    THEN /\ update_isr(u, [d EXCEPT !.rhr = r.ch, !.lsr = IF r.data THEN @ \cup {"rxrdy"} ELSE @])
         /\ ConsoleTaken
         /\ taken' = IF r.data THEN [taken EXCEPT ![u] = Append(@, r.ch)] ELSE taken
    ELSE update_isr(u, d) /\ ConsoleLeft /\ UNCHANGED taken

read_rhr(u) ==
    IF dw[u].dlab THEN UNCHANGED <<uart, plic>>
    ELSE /\ update_isr(u, [dw[u] EXCEPT !.lsr = @ \ {"rxrdy"}])
         /\ given' = IF "rxrdy" \in dw[u].lsr THEN [given EXCEPT ![u] = Append(@, dw[u].rhr)]
                     ELSE given
         /\ ConsoleLeft /\ UNCHANGED <<typed, taken>>

\* The character goes to the terminal, and the port is polled; an update of the
\* interrupt status follows only when the port could take a character.
write_thr(u) ==
    IF dw[u].dlab \/ ~CanTake(dw[u]) THEN UNCHANGED <<uart, plic>>
    ELSE Poll(u, dw[u]) /\ UNCHANGED <<typed, given>>

write_ier(u, val) ==
    IF dw[u].dlab THEN UNCHANGED <<uart, plic>>
    ELSE update_isr(u, [dw[u] EXCEPT !.ier = val]) /\ ConsoleLeft /\ UNCHANGED <<typed, taken, given>>

write_lcr(u, dlab) ==
    /\ dw' = [dw EXCEPT ![u].dlab = dlab]
    /\ UNCHANGED <<terminal, console_esc_state, typed, taken, given, claimed, plic>>

read_lsr(u) ==
    Poll(u, [dw[u] EXCEPT !.lsr = @ \cup {"threempty", "txempty"}]) /\ UNCHANGED <<typed, given>>

read_msr(u) == update_isr(u, dw[u]) /\ ConsoleLeft /\ UNCHANGED <<typed, taken, given>>

-----------------------------------------------------------------------------

\* The SiFive port takes a character, if there is one, whenever its RXFIFO is read; it
\* has no interrupt (uart_update_irq only reports that it should).
uart_read ==
    /\ ConsoleTaken
    /\ UNCHANGED <<dw, typed, taken, given, claimed, plic>>

UartClaim(h) == Claim(h) /\ claimed' = claimed \cup (plic_pending_irq \ plic_pending_irq')
                /\ UNCHANGED <<terminal, console_esc_state, dw, typed, taken, given>>

\* The driver runs on the harts of H and enables the contexts C.
UartNext(H, C) ==
    \/ \E ch \in Char : Type(ch)
    \/ uart_read
    \/ \E u \in Dw :
          \/ read_rhr(u) \/ write_thr(u) \/ read_lsr(u) \/ read_msr(u)
          \/ \E val \in IerVal : write_ier(u, val)
          \/ \E dlab \in BOOLEAN : write_lcr(u, dlab)
    \/ \E h \in H : UartClaim(h)
    \/ \E u \in Dw : Complete(u) /\ UNCHANGED uart
    \/ \E h \in H, c \in C, val \in SUBSET Dw : Enable(h, c, val) /\ UNCHANGED uart

UartSpec(H, C) == Init /\ UartInit /\ [][UartNext(H, C)]_<<plic, uart>>

-----------------------------------------------------------------------------
\* What the holding register announces.
Held(d) == IF "rxrdy" \in d.lsr THEN <<d.rhr>> ELSE <<>>

(* A character the DesignWare port took from the terminal is read by the guest once, in
   order, or is still in the holding register and announced there: neither an access
   while the divisor is selected nor the other port on the terminal loses one. *)
NothingOverwritten ==
    \A u \in Dw : taken[u] = given[u] \o Held(dw[u])

(* The source of a port is pending only while an enabled cause exists, and while one
   exists it is pending or was claimed since the line went up (update_isr, which tells
   the PLIC of changes only).  It starts with the first update. *)
Cause(d) ==
    \/ "rdi" \in d.ier /\ "rxrdy" \in d.lsr
    \/ "thri" \in d.ier /\ "threempty" \in d.lsr
    \/ "msi" \in d.ier
LineFollowsCause ==
    \A u \in Dw :
        /\ Cause(dw[u]) => u \in plic_pending_irq \cup claimed
        /\ u \in plic_pending_irq => Cause(dw[u])
==============================================================================
