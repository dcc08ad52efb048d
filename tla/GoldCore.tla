------------------------------ MODULE GoldCore ------------------------------
(* The memory checker: a copy of the memory, filled byte by byte at the first touch, and
   for each core the memory instructions in flight, with the data they loaded and the
   data they will store.  Two clients: the co-simulation (check_inorder_load, _store and
   _amo, after the emulator has executed the instruction), and one that uses the whole
   interface the way an out-of-order core does. *)
EXTENDS Integers, Sequences, SequencesExt, FiniteSetsExt

(* The bytes of one memory access as the memory checker keeps them: chunks of
   consecutive bytes in ascending order, a flag for devices, and whether an assertion
   has failed on the way. *)

Unset == -1       \* rand_data.any(): a byte nobody has set

NoData == [chunks |-> <<>>, device |-> FALSE, failed |-> FALSE]

has_data(d) == d.chunks # <<>>

End(c) == c.addr + Len(c.data)
is_hit(c, a) == c.addr <= a /\ a < End(c)
Bytes(c) == c.addr .. End(c) - 1
Addresses(d) == UNION {Bytes(c) : c \in ToSet(d.chunks)}

\* An interval around a chunk is not found.
has_partial_overlap(d, addr, sz) ==
    \E c \in ToSet(d.chunks) : is_hit(c, addr) \/ (c.addr < addr + sz /\ addr + sz <= End(c))

has_byte(d, a) == \E c \in ToSet(d.chunks) : is_hit(c, a)

\* No two chunks touch.
Sorted(chunks) == \A i \in 2 .. Len(chunks) : End(chunks[i - 1]) < chunks[i].addr

set_addr(d, a) ==
    LET lower == SelectSeq(d.chunks, LAMBDA c : c.addr < a)
        upper == SelectSeq(d.chunks, LAMBDA c : c.addr > a)
        chunks == lower \o <<[addr |-> a, data |-> <<Unset>>]>> \o upper
    IN  [d EXCEPT !.chunks = chunks,
                  !.failed = @ \/ ~Sorted(chunks)]

\* The first chunk that has the byte, or that it extends; chunks that come to touch are
\* never joined (chunks.size() < i does not hold).
AddByte(d, a) ==
    LET near == {i \in DOMAIN d.chunks :
                    LET c == d.chunks[i] IN is_hit(c, a) \/ a = c.addr - 1 \/ a = End(c)}
        i == Min(near)
        c == d.chunks[i]
    IN  IF near = {} THEN set_addr(d, a)
        ELSE IF is_hit(c, a) THEN d
        ELSE IF a = c.addr - 1
        THEN [d EXCEPT !.chunks[i] = [addr |-> a, data |-> <<Unset>> \o c.data],
                       !.failed = @ \/ i = 1 \/ is_hit(d.chunks[i - 1], a - 1)]
        ELSE [d EXCEPT !.chunks[i].data = Append(@, Unset)]

add_addr(d, addr, sz) == FoldLeft(AddByte, d, [k \in 1 .. sz |-> addr + k - 1])

set_byte(d, a, b) ==
    LET i == Min({k \in DOMAIN d.chunks : is_hit(d.chunks[k], a)})
    IN  [d EXCEPT !.chunks[i].data[a - d.chunks[i].addr + 1] = b]

get_byte(d, a) ==
    LET hits == SelectSeq(d.chunks, LAMBDA c : is_hit(c, a))
    IN  IF hits = <<>> THEN Unset ELSE hits[1].data[a - hits[1].addr + 1]

\* data lists the bytes from the lowest.
set_data(d, addr, data) ==
    FoldLeft(LAMBDA e, k : set_byte(e, addr + k - 1, data[k]), d, [k \in 1 .. Len(data) |-> k])

\* The bytes, and the zeros above them.
get_data(d, addr, sz) == [k \in 1 .. sz |-> get_byte(d, addr + k - 1)] \o <<0>>

add_newer(d, d2) ==
    FoldLeft(LAMBDA e, c : set_data(add_addr(e, c.addr, Len(c.data)), c.addr, c.data), d, d2.chunks)

\* The bytes d has of those of d2.
Update(d, c) ==
    FoldLeft(LAMBDA e, k : IF has_byte(e, c.addr + k - 1) THEN set_byte(e, c.addr + k - 1, c.data[k]) ELSE e,
             d, [k \in 1 .. Len(c.data) |-> k])

update_newer(d, d2) ==
    FoldLeft(LAMBDA e, c : IF has_partial_overlap(e, c.addr, Len(c.data)) THEN Update(e, c) ELSE e,
             d, d2.chunks)

\* operator!=, which answers whether the two are the same.
NotEqual(d, d2) == ~(d.device /\ d2.device) /\ d.chunks = d2.chunks

-----------------------------------------------------------------------------
(* The checker *)

CONSTANTS Core,
          RamAddr, IoAddr,      \* byte addresses
          InorderSize, OooSize, \* sizes of accesses, for each client
          Datum,                \* bytes the in-order programs store
          MaxInorder, MaxInst   \* bounds: instructions, for each client

ASSUME GoldAssumption == 0 \in Datum /\ RamAddr \cap IoAddr = {}

Address == RamAddr \cup IoAddr

VARIABLES mem_byte,             \* Unset where not touched yet
          rob,                  \* [Core -> sequence of entries, oldest first]
          pnr, global_instid,
          ram,                  \* the emulator's memory
          outcome,              \* "ok", "exit" or "abort": of the last check
          checked               \* history: the kind of the last instruction checked, and whether
                                \* the DUT's register was wrong: not the bytes of the RAM

gold == <<mem_byte, rob, pnr, global_instid, ram, outcome, checked>>

GoldInit ==
    /\ mem_byte = [a \in Address |-> Unset]
    /\ rob = [c \in Core |-> <<>>] /\ pnr = [c \in Core |-> 0] /\ global_instid = 0
    /\ ram = [a \in Address |-> 0]
    /\ outcome = "ok" /\ checked = [op |-> "none", wrong |-> FALSE]

-----------------------------------------------------------------------------
(* Gold_mem and Gold_core, as functions of g, a core's rob and the memory. *)

Entry(rid) == [rid |-> rid, ld |-> NoData, st |-> NoData, performed |-> FALSE, error |-> FALSE]

State(c) == [mem |-> mem_byte, rob |-> rob[c]]

\* majordomo_get_byte_direct: devices read 0.
GetByte(memory, a) == IF a \in IoAddr THEN 0 ELSE memory[a]

MemLoad(mem, memory, as) ==
    [a \in Address |-> IF a \in as /\ mem[a] = Unset THEN GetByte(memory, a) ELSE mem[a]]

MemStore(mem, d) == [a \in Address |-> IF has_byte(d, a) THEN get_byte(d, a) ELSE mem[a]]

Loaded(d, mem) == FoldSet(LAMBDA a, e : set_byte(e, a, mem[a]), d, Addresses(d))

\* Mutant: older stores are visited from the youngest to the oldest.
Forwarded_Reversed(d, older) == FoldLeft(LAMBDA e, x : update_newer(e, x.st), d, Reverse(older))

Forwarded(d, older) == FoldLeft(LAMBDA e, x : update_newer(e, x.st), d, older)

ld_perform(g, memory, i) ==
    LET e == g.rob[i]
        mem == MemLoad(g.mem, memory, Addresses(e.ld))
        ld == Forwarded(Loaded(e.ld, mem), SubSeq(g.rob, 1, i - 1))
    IN  [mem |-> mem,
         rob |-> [g.rob EXCEPT ![i] = [@ EXCEPT !.ld = ld, !.performed = TRUE, !.error = FALSE]]]

\* A younger load is performed again in place and compared with itself.
Again(g, memory, j) ==
    LET h == ld_perform(g, memory, j) IN
    [h EXCEPT !.rob[j].error = NotEqual(h.rob[j].ld, h.rob[j].ld)]

st_locally_perform(g, memory, i) ==
    FoldLeft(LAMBDA h, j : IF has_data(h.rob[j].ld) /\ h.rob[j].performed THEN Again(h, memory, j) ELSE h,
             [g EXCEPT !.rob[i].performed = TRUE],
             [k \in 1 .. Len(g.rob) - i |-> i + k])

OnlyReads(g, i) == \A k \in 1 .. i - 1 : ~has_data(g.rob[k].st)

st_globally_perform(g, memory, i) ==
    LET h == st_locally_perform(g, memory, i)
        kept == IF OnlyReads(g, i) THEN SubSeq(h.rob, i + 1, Len(h.rob))
                ELSE SubSeq(h.rob, 1, i - 1) \o SubSeq(h.rob, i + 1, Len(h.rob))
    IN  [mem |-> MemStore(h.mem, h.rob[i].st), rob |-> kept]

-----------------------------------------------------------------------------
(* The co-simulation's client. *)

Become(c, g) ==
    /\ mem_byte' = g.mem /\ rob' = [rob EXCEPT ![c] = g.rob]
    /\ global_instid' = global_instid + 1
    /\ UNCHANGED pnr

\* The state with one more entry, with the data given.
Pushed(c, ld, st) ==
    [State(c) EXCEPT !.rob = Append(@, [Entry(global_instid + 1) EXCEPT !.ld = ld, !.st = st])]

New(addr, sz) == [add_addr(NoData, addr, sz) EXCEPT !.device = addr \in IoAddr]

Holding(addr, data) == set_data(New(addr, Len(data)), addr, data)

Span(addr, sz) == addr .. addr + sz - 1

Running == outcome = "ok" /\ global_instid < MaxInorder

\* What the register holds after a load that extends with zeros.
Read(addr, sz) == [k \in 1 .. sz |-> ram[addr + k - 1]] \o <<0>>

\* What it holds after an AMO: a byte of Datum stands for the sign it has.
ReadSigned(addr, sz) == [Read(addr, sz) EXCEPT ![sz + 1] = ram[addr + sz - 1]]

Stored(addr, data) ==
    [a \in Address |-> IF a \in Span(addr, Len(data)) \ IoAddr THEN data[a - addr + 1] ELSE ram[a]]

\* Mutant: every load is compared, those from devices too.
Differs_Io(g, addr, sz, dut) == get_data(Last(g.rob).ld, addr, sz) # dut

Differs(g, addr, sz, dut) == addr \in RamAddr /\ get_data(Last(g.rob).ld, addr, sz) # dut

check_inorder_load(c, addr, sz, dut) ==
    LET g == Pushed(c, New(addr, sz), NoData)
        h == ld_perform(g, ram, Len(g.rob))
    IN  /\ Running
        /\ Become(c, h)
        /\ outcome' = IF Differs(h, addr, sz, dut) THEN "exit" ELSE "ok"
        /\ checked' = [op |-> "load", wrong |-> addr \in RamAddr /\ dut # Read(addr, sz)]
        /\ UNCHANGED ram

\* above: the rest of the register stored, which the emulator's note of the store has not
\* (assert(data == s->last_data_value)); compressed stores do not look.
check_inorder_store(c, addr, data, above, compressed) ==
    LET g == Pushed(c, NoData, Holding(addr, data)) IN
    /\ Running
    /\ ram' = Stored(addr, data)
    /\ checked' = [op |-> "store", wrong |-> FALSE]
    /\ IF above # 0 /\ ~compressed
       THEN outcome' = "abort" /\ UNCHANGED <<mem_byte, rob, pnr, global_instid>>
       ELSE outcome' = "ok" /\ Become(c, st_globally_perform(g, ram', Len(g.rob)))

\* The DUT's register is the emulator's, or an assertion fails; the emulator has already stored when the old value is looked up.
check_inorder_amo(c, addr, data, dut) ==
    LET sz == Len(data)
        g == Pushed(c, New(addr, sz), Holding(addr, data))
        h == ld_perform(g, ram', Len(g.rob))
    IN  /\ Running
        /\ ram' = Stored(addr, data)
        /\ checked' = [op |-> "amo", wrong |-> addr \in RamAddr /\ dut # Read(addr, sz)]
        /\ IF addr \in RamAddr /\ dut # ReadSigned(addr, sz)
           THEN outcome' = "abort" /\ UNCHANGED <<mem_byte, rob, pnr, global_instid>>
           ELSE IF Differs(h, addr, sz, dut)
           THEN outcome' = "exit" /\ Become(c, h)
           ELSE outcome' = "ok" /\ Become(c, st_globally_perform(h, ram', Len(h.rob)))

\* One memory instruction of a program, executed and checked; LR and SC exit.
InorderNext ==
    \E c \in Core, sz \in InorderSize, addr \in Address :
        /\ Span(addr, sz) \subseteq RamAddr \/ Span(addr, sz) \subseteq IoAddr
        /\ \/ \E dut \in [1 .. sz + 1 -> Datum] : check_inorder_load(c, addr, sz, dut)
           \/ \E data \in [1 .. sz -> Datum], above \in Datum, compressed \in BOOLEAN :
                  check_inorder_store(c, addr, data, above, compressed)
           \/ \E data \in [1 .. sz -> Datum], dut \in [1 .. sz + 1 -> Datum] :
                  check_inorder_amo(c, addr, data, dut)

-----------------------------------------------------------------------------
(* An out-of-order client: one core, each store with its own number as data.  It fills in
   the address and the data of a store together, and performs a store globally when
   no older instruction can meet it: all of them have their addresses, and none has a byte
   of it. *)

TheCore == CHOOSE c \in Core : TRUE

Ooo(g) ==
    /\ mem_byte' = g.mem /\ rob' = [rob EXCEPT ![TheCore] = g.rob]
    /\ outcome' = IF \E e \in ToSet(g.rob) : e.st.failed THEN "abort" ELSE "ok"
    /\ UNCHANGED <<pnr, global_instid, ram, checked>>

Rob == rob[TheCore]

inorder ==
    /\ global_instid < MaxInst
    /\ global_instid' = global_instid + 1
    /\ rob' = [rob EXCEPT ![TheCore] = Append(@, Entry(global_instid + 1))]
    /\ UNCHANGED <<mem_byte, pnr, ram, outcome, checked>>

Blank(i) == ~has_data(Rob[i].ld) /\ ~has_data(Rob[i].st)

FillLoad(i, addr, sz) ==
    /\ Blank(i) /\ Ooo([State(TheCore) EXCEPT !.rob[i].ld = New(addr, sz)])

FillStore(i, addr, sz) ==
    /\ Blank(i) /\ Ooo([State(TheCore) EXCEPT !.rob[i].st = Holding(addr, [k \in 1 .. sz |-> Rob[i].rid])])

PerformLoad(i) == has_data(Rob[i].ld) /\ Ooo(ld_perform(State(TheCore), ram, i))

PerformStore(i) == has_data(Rob[i].st) /\ Ooo(st_locally_perform(State(TheCore), ram, i))

Meets(e, d) == (Addresses(e.ld) \cup Addresses(e.st)) \cap Addresses(d) # {}

GloballyPerform(i) ==
    /\ has_data(Rob[i].st)
    /\ \A k \in 1 .. i - 1 : ~Blank(k) /\ ~Meets(Rob[k], Rob[i].st)
    /\ Ooo(st_globally_perform(State(TheCore), ram, i))

\* The older store takes the younger one's bytes; the client keeps to one buffer entry.
st_locally_merged(i, j) ==
    /\ i < j /\ Rob[i].performed /\ Rob[j].performed
    /\ has_data(Rob[i].st) /\ has_data(Rob[j].st)
    /\ Cardinality(Addresses(Rob[i].st) \cup Addresses(Rob[j].st)) <= Max(OooSize)
    /\ \A k \in i + 1 .. j - 1 : ~Blank(k) /\ ~Meets(Rob[k], Rob[j].st)
    /\ Ooo([State(TheCore) EXCEPT !.rob[i].st = add_newer(@, Rob[j].st)])

set_safe(i) ==
    /\ Rob[i].rid >= pnr[TheCore]
    /\ pnr' = [pnr EXCEPT ![TheCore] = Rob[i].rid]
    /\ UNCHANGED <<mem_byte, rob, global_instid, ram, outcome, checked>>

\* The instruction and all younger ones go, unless it is safe.
nuke(i) == Rob[i].rid >= pnr[TheCore] /\ Ooo([State(TheCore) EXCEPT !.rob = SubSeq(@, 1, i - 1)])

OooNext ==
    /\ outcome = "ok"
    /\ \/ inorder
       \/ \E i \in DOMAIN Rob :
            \/ \E addr \in RamAddr, sz \in OooSize :
                   Span(addr, sz) \subseteq RamAddr /\ (FillLoad(i, addr, sz) \/ FillStore(i, addr, sz))
            \/ PerformLoad(i) \/ PerformStore(i) \/ GloballyPerform(i)
            \/ set_safe(i) \/ nuke(i)
            \/ \E j \in DOMAIN Rob : st_locally_merged(i, j)

-----------------------------------------------------------------------------

(* A load of a program that runs in order is accepted exactly if the DUT's register holds
   the bytes of the RAM with zeros above them, whatever the cores stored before; an AMO
   only if it does.  Devices are not compared (check_inorder_load, check_inorder_amo,
   Gold_mem). *)
CheckedAgainstRam ==
    /\ outcome = "ok" => ~checked.wrong
    /\ checked.op = "load" /\ ~checked.wrong => outcome = "ok"

\* The byte a load at the i-th place of the rob should have.
Newest(i, a) ==
    LET stores == {k \in 1 .. i - 1 : has_byte(Rob[k].st, a)}
    IN  IF stores = {} THEN mem_byte[a] ELSE get_byte(Rob[Max(stores)].st, a)

(* Once a load and all older stores with addresses have been performed, in whatever order,
   the load has the newest older byte for each of its bytes: it is performed again by
   an older store that comes later (st_locally_perform), through merges, nukes and stores
   that leave.  Accesses have one or two bytes: forwarding overlooks an older store that
   begins before the load and ends after it (has_partial_overlap). *)
LoadsAreCurrent ==
    \A i \in DOMAIN Rob :
        /\ has_data(Rob[i].ld) /\ Rob[i].performed
        /\ \A k \in 1 .. i - 1 : has_data(Rob[k].st) => Rob[k].performed
        => \A a \in Addresses(Rob[i].ld) : get_byte(Rob[i].ld, a) = Newest(i, a)
=============================================================================
