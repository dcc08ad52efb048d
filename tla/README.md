# majordomo in TLA+

majordomo is an RV64GC emulator derived from Dromajo and TinyEMU. It boots operating
systems, records instruction traces, saves checkpoints, and serves as the golden
model beside which a processor under test (DUT) is run. This directory holds TLA+
models of the emulator: its privileged core, its instructions, its devices, the
program around it. TLC checks the models on small instances, and TLAPS proves the
central properties for every instance.

Source paths below are relative to the root of the repository (`src/` is its C++
code, `include/` its headers, `gold/` the memory checker).

## The system and its parts

A machine (`RISCVMachine`) has one or more harts (`RISCVCPUState`), a map of physical
memory, an interrupt controller pair, and devices. The main loop runs each hart for a
batch of instructions in turn. Everything happens in one host thread, so the
interleavings are those of instructions, batches, device calls, and calls from
outside: of the DUT, of the host's terminal and files.

| part | source | module |
|---|---|---|
| LR/SC reservations | `include/majordomo_template.h`, `src/riscv_cpu.cpp` | `LrSc`, `Reservation` |
| physical memory protection | `src/riscv_cpu.cpp` | `Pmp` |
| translation, TLBs, code window | `src/riscv_cpu.cpp`, template | `Mmu` (extends `Pmp`) |
| traps, interrupts, returns | `src/riscv_cpu.cpp`, template | `Trap` |
| control and status registers | `src/riscv_cpu.cpp` | `Csr` |
| integer, memory, jump, compressed instructions | `include/majordomo_template.h` | `IntOps`, `Decode`, `IsaUnit` |
| floating-point instructions | `include/majordomo_fp_template.h`, `src/zfa.cpp` | `Decode`, `IsaUnit` |
| floating-point library | `include/softfp_template*.h`, `src/softfp.cpp` | `SoftFp`, `FpUnit` |
| vector extension | `include/vector_template.h`, template | `Vector` |
| interpreter loop and counters | `include/majordomo_template.h` | `Interp` |
| main loop, STF traces | `src/majordomo.cpp`, `src/majordomo_main.cpp`, `src/majordomo_stf.cpp`, `src/majordomo_trace.cpp` | `Simulation` (extends `Interp`) |
| checkpoint and boot ROM | `src/riscv_cpu.cpp` | `Checkpoint` (extends `Csr`) |
| LiveCache warm-up | `include/LiveCacheCore.h`, `src/LiveCache.cpp` | `LiveCache` |
| CLINT | `src/interrupts.cpp`, `src/riscv_machine.cpp` | `Clint` |
| PLIC | `src/interrupts.cpp` | `Plic` |
| serial ports and terminal | `src/dw_apb_uart.cpp`, `src/uart.cpp`, `src/term_io.cpp` | `Uart` (extends `Plic`) |
| virtio rings and interrupts | `src/virtio.cpp` | `Virtio` |
| virtio registers and descriptor chains | `src/virtio.cpp` | `VirtioTransport` |
| virtio block and its file | `src/virtio.cpp`, `src/block_device.cpp` | `VirtioBlock` (extends `Virtio`) |
| virtio net, console, input | `src/virtio.cpp` | `VirtioStream` (extends `Virtio`), `VirtioInput` |
| virtio 9p and its host directory | `src/virtio.cpp`, `src/fs_disk.cpp`, `src/fs.cpp` | `Fs9p` |
| machine construction, loader, boot code | `src/riscv_machine.cpp`, `src/bin_utils.cpp`, `src/iomem.cpp`, `src/elf64.cpp` | `Board` |
| device tree | `src/fdt.cpp`, `src/riscv_machine.cpp` | `Board` |
| co-simulation API | `src/majordomo_cosim.cpp` | `Cosim`, `LrSc` |
| memory checker | `gold/` | `GoldCore` |
| options, JSON, network back ends, PCI, simpoints, test drivers | | not modelled, see the end |

How the parts interact. The CLINT and the PLIC set bits of `mip`, and `Trap` takes such
bits as given by the environment. The serial ports raise sources of the PLIC, and
`Uart` composes the two. `Mmu` uses the regions and the check of `Pmp` for walks and
accesses. Stores of `Mmu` move the sequence numbers of `LrSc`. Virtio devices raise
PLIC sources and write RAM, which `LrSc` has as an agent of its own. `Decode` hands
floating-point operations to the library of `SoftFp`. `Simulation` runs the loop of
`Interp` in turns. `Checkpoint` saves the registers of `Csr` and runs the recovery
program with the CSR instructions of `Csr`. `Board` puts the device
tree it builds in the boot ROM. Co-simulation drives a hart from outside, injects interrupts through
`mip`, and feeds the memory checker.

## Modules

Each component has a module with its constants, state, actions and properties. The
`MC` modules give constants their values; where an `MC` module extends several
components that share no state, a variable `part` says which of them a behaviour
exercises. Proofs are in `*Proofs` modules. Operators and actions carry the
names of the functions they translate wherever one function is one action. Operators
named `X_Something`, right before `X`, are variants of `X` with a plausible defect.
They document which defect each property catches, and no specification uses them.

### The hart

**LrSc** (`memseqno`, `load_res`, `load_res_memseqno`). Every store of a hart to RAM
advances the number of the memory and the hart's own, on the TLB hit and on the slow
path alike. An SC succeeds if the two numbers and the addresses agree. Stores to
devices advance nothing, nor do the writes of virtio and of
`majordomo_cosim_override_mem`. `since`, `lr` and `won` are history. `Reservation` is
the abstract specification: each hart has a reservation or none, and a store of one hart
takes all others away. The instance `Abs` maps the numbers to reservations.

**Pmp** (`csr_pmpcfg`, `csr_pmpaddr`). The unpacking of the registers into regions
(OFF, TOR, NA4, NAPOT), the access check with its rule of the lowest-numbered entry,
and the CSR writes with both lock rules (own lock; lock of a TOR entry above).
Addresses are in granules of four bytes.

**Mmu** (`priv`, `mstatus`, `satp`, page tables, three TLBs, the code window). The
walk has two levels, which stand for the three and four of Sv39 and Sv48: an upper PTE is a superpage or points to
a lower table, and every PTE read is subject to PMP. A leaf carries permissions, U, A and D. Actions: load,
store, fetch, `riscv_read_insn`, jumps, traps, `mret`/`sret`/`dret`, CSR writes of
`mstatus`, `sstatus`, `satp` and the PMP registers, `sfence.vma`, writes of page tables,
and `riscv_cpu_flush_tlb_write_range_ram`. History: `ptDirty` (page tables written since the
last flush), `csrFlush` (a CSR write flushed the TLBs under the window), and the granule
for which an entry was filled.

**Trap** (`priv`, `pc`, `mstatus`, `mip`, `mie`, delegation, `mepc`, `sepc`, debug mode,
power down). `raise_exception2`, the pending mask, the order of interrupts, returns,
the CSR writes with their masks, WFI. History: `saved`, the context each level's last
trap interrupted, and `open`, whether a level's interrupts were enabled by software since.

**Csr**. `csr_read` and `csr_write` for every CSR of the emulator, and the three CSR
instructions around them. A register is the set of its bits at one, so a mask is an
intersection and a shadow (`sstatus`, `sie`, `sip`, `fflags`) a set of shared bits.
Counters use the low `CounterBits` bits in arithmetic. CSRs that come in groups
(counters, PMP, triggers) are represented by some of their members.

**IntOps**, **Decode**, **IsaUnit**. `IntOps` has the arithmetic of the integer
opcodes on registers of `XLEN` bits, with `WLEN`, `HLEN`, `BLEN` for the narrower ones
so that the structure of the shifts and extensions stays. `Decode` follows the switches of
the interpreter: 32-bit integer, memory, jump, branch and floating-point opcodes, and the
16-bit encodings, each as the instruction it executes. The first part of `IsaUnit` is written from the
manual's tables, not from the code: mnemonics with their fields, immediates, and effects. The second has one
action per class of encodings and compares the two. The encodings of Zfa, which the emulator retires without an
effect, are a table of their own there (`RefZfa`): they and no others do nothing.

**SoftFp** translates the functions of the library for one format, with the widths of its
fields as constants: unpacking, guard and sticky bits, normalization, rounding and packing,
arithmetic, comparisons, classification, conversions, and the two-word
multiplication, division and root of the format for which no wider integer type exists.
A float is the number of its bits; a result is a float and the flags the call adds.
**FpUnit** has one action per exported function and the reference: the exact value as a fraction, rounded once.

**Vector** (registers, `vtype`, `vl`, `vstart`, memory in pages that come and go). `vset*`,
all loads and stores (unit, strided, indexed, segment, whole register, mask,
fault-only-first), and the additions of single and double width, the only arithmetic
there is. A fault leaves `vstart` where the loop stopped; the handler makes pages present
or takes others away, and the instruction is entered again.

**Interp** (`pc`, `priv`, `satp`, `insn_counter`, `minstret`, `mcycle`, ...). One call of
`riscv_cpu_interp64`: checks on entry, the fetch with its page window, breakpoints, every
way an instruction can leave the loop, and what each exit does to the counters.
Instructions are kinds: what distinguishes them is how they end. A program can lower its privilege (`Drop`)
and write `satp`, of which the model has the bits the trace looks at. **Simulation** adds
`iterate_core`, the budget of `--maxinsns`, the end by HTIF, the two ways to switch an
STF trace (opcodes in the program; a range of instruction numbers), the filters of `stf_trace_element`
(`--stf_priv_modes`; the `satp` of the moment the trace began), and the records.

**Checkpoint**. `riscv_cpu_serialize`, `create_boot_rom` as a program in a list of
instructions, `riscv_cpu_deserialize`, and the run of that program by a fresh hart
that starts in debug mode. Software before the checkpoint is CSR, floating-point and vector instructions; a
floating-point one writes a register and flags or flags only, vector ones write a register, `vl`, `vtype` and
`vstart`. `saved` is the hart the checkpoint was taken of. `StateRestored` says which
registers come back, and names the exceptions listed below; of the CLINT it compares `timecmp`, not the clock.
**LiveCache** is the cache that follows the accesses: sets of lines in order of
use, and `traverse`, from which the warm-up program is written.

### Interrupts and devices

**Clint** (`mcycle`, `timecmp`, `mtip`, `msip`). `mtime` is the `mcycle` of hart 0 divided by
`RTC_FREQ_DIV`. Comparators are written by halves, and a 64-bit store is two such
writes. `virt_machine_get_sleep_duration` compares with a signed difference between
batches. Words have two halves of `Half` values; 2^32 in the code.

**Plic** (`plic_pending_irq`, `plic_served_irq`, enables per hart and context, `mip`). Devices
raise and lower sources; harts claim, complete, write enables and write `mip` as a CSR.
History: sources that ask, sources being handled, harts whose `mip` is known to be behind.

**Uart** composes the PLIC with the DesignWare port (registers with side effects, the
interrupt status and `update_isr`), the SiFive port that shares its terminal, and the escape
sequences of `term_io.cpp`.

**Virtio** is the part common to all devices: available and used rings with indices
modulo `IdxMod`, `queue_notify` as a loop in which each turn is a step, used entries, the two interrupt causes
and the line, acknowledgement, reset, and a driver that keeps the protocol. **VirtioTransport**
has the registers by which the queues are set up, one write at a time, and the copies
between descriptor chains and device: the size of a chain, a transfer across buffers, pages and holes in
RAM. **VirtioBlock** adds the single request in progress, answers that come at once or by a
callback, error status, and the file with its three modes (read-only, read-write,
snapshot). The end of a write is computed modulo `UintMod` (2^32); `overrun` is history: such an end
wrapped, and a snapshot wrote past its table. **VirtioStream** adds the queue the host fills, and the key events, groups of two
entries which may run out of room in the middle. **VirtioInput** has mouse and tablet events
against the room in the queue, and the questions and replies of the configuration space.

**Fs9p**. The requests of the 9p device over the fid table, malformed ones
included, and the back end's functions on a host directory tree of inodes with names, links and
descriptors (external). History: what the client was told each fid is.

### The program around

**Board**. What `main` does until the first instruction: `virt_machine_init` with the
memory map and the devices and their interrupt numbers, `load_elf_image`, raw and
hexadecimal images, kernel, initial disk, boot code, and the order and the repetition of these steps.
Memory is ranges of content. The device tree: every call of `riscv_build_fdt`, the string table, the
structure block and `fdt_output`'s layout, as a sequence of words.

**Cosim** has two architectural states. The DUT is external: it executes a program, takes
interrupts, reads devices and counters with any result, and fails SCs at will. The
emulator follows through `majordomo_cosim_raise_trap` and the turns of the loop of
`majordomo_cosim_step`, with `handle_dut_overrides` and the final comparison. **GoldCore** is the
memory checker: chunks of bytes with their assertions, the reorder buffer of each
core, the memory copy, and its two clients. The in-order one is the co-simulation,
which executes first and reports after; the out-of-order one performs loads and stores in any legal order.

## Runs

| run | instance | what it shows |
|---|---|---|
| `hart` | PMP: 3 entries, 2-bit addresses; traps: 2 code addresses, one supervisor interrupt, delegated or not | locked entries keep permissions and region, also when the region depends on the neighbour's register; what locked entries deny to machine mode stays denied; returns restore what the trap of their level interrupted; no handler is interrupted at its own level before it allows it |
| `mmu` | 2 virtual pages in one TLB slot, tables of 2 PTEs, 3 physical pages, 1 PMP entry | a hit in the code TLB is what a walk gives now; so is one in the read and write TLBs while MPRV is clear; so is the window unless a CSR write flushed under it |
| `instructions` | LR/SC: 2 harts, a DMA writer, 2 words of RAM, a device; floats of 15 and 21 bits; registers of 8 bits, all 16-bit encodings; vector registers of 4 bytes over 7 pages | no SC succeeds across a store of another hart, and the numbers implement `Reservation`; every library function returns the exact result rounded once, with the right flags; every encoding but Zfa's does what the manual says or is illegal; vector accesses with faults end as without, end at all, and touch the elements they should |
| `lrsc_external` | the reservations of `instructions` | violation: a write by a device or by the DUT does not break a reservation |
| `irq` | PLIC: 2 harts, 2 sources; a serial port and the other one, 3 characters; CLINT: words of 2+2 bits, division by 2 | no source lost or handed out twice; `mip` has or lacks a bit wrongly only for known reasons; no character overwritten, and the port's line follows its causes; the timer bit is never early, and an expired timer interrupts |
| `virtio_block` | 3 chains, ring of 2, indices modulo 4, results -1, 0, 1; a file of 3 sectors, numbers modulo 5 | answers go to their chains with the right status and in order; every notified request is answered; the file gives back what was written, in each mode |
| `virtio_stream` | 2 queues, 2 chains, ring of 2; 3 descriptors over 2 pages; 2 queues to set up; 2 buttons, room for 6 events | no interrupt hidden by the acknowledgement of another; copies move the slice asked for; registers and replies read back as set; buttons are told of once, however full the queue |
| `simulation` | programs of 2 instructions and a jump, and longer ones around the trace opcodes, with changes of privilege and of `satp`; traces of machine mode or all levels; budgets of 8, turns of 3 | `insn_counter` is exact between calls; the trace is the execution; the budget is kept; the simulation ends |
| `checkpoint` | every CSR written with three patterns at every level, floating-point and vector instructions, then a checkpoint; a cache of 2 sets and 2 ways, 5 accesses | a checkpoint restores; software below machine mode changes nothing machine mode owns; FS and VS tell of every change but those of vector loads and stores; `traverse` lists what a least-recently-used cache would hold |
| `cosim` | all user programs of 3 instructions of 7 kinds, one kind of interrupt; memory checker: 2 cores, 3 bytes | a correct DUT is followed and never reported; a wrong result is always reported; what the memory checker accepts is in RAM, what it performs out of order is current |
| `cosim_interrupt` | the same with two kinds of interrupt | violation: the emulator takes an interrupt the DUT did not raise |
| `files` | 9p: 2 fids, 2 names, 3 inodes, all kinds of request; boards: about 1500 configurations | a fid stays what the client was told until a rename or removal on its path, owns its object alone, and listings are whole; images that do not overlap are complete in memory at the first instruction; the device tree describes the machine, and the contexts its PLIC has |

Why the bounds are enough.

- *Reservations*: a hart must lose its reservation to a store, reserve again and lose it
  again, which takes two stores (`MmuProofs` covers any number). `MaxSeq` bounds `memseqno`, a 64-bit number that cannot wrap in practice.
- *PMP*: a locked TOR entry needs a neighbour on either side.
- *MMU*: two virtual pages that compete for one slot meet eviction; physical page 1 is both RAM
  and page table, and page 2 is a device. The table points to itself, so it is read as both levels, and
  one of the leaves is misaligned as a superpage. The page has one granule in this instance.
- *Traps*: two levels nest at most twice before a context is overwritten, and two addresses tell
  a restored `pc` from the vector.
- *Floats*: 5 bits of exponent are the least for which the code's guard bits fit
  (`SoftFpAssumption`), and 9 of mantissa the least for which the fused product can be pushed out of its two
  words at a tie, as in the real formats. Operands are subnormal, smallest, largest, special, and
  at distances that put the smaller at the rounding position of the larger.
- *Integers*: the operands are the ends of the signed and unsigned ranges of registers and words
  and patterns of bits. All 65536 encodings of 16 bits are expanded.
- *Vector*: registers and pages of four bytes make most accesses cross a page; pages
  come and go one, none or all.
- *CLINT*: four bits give a carry between the halves, a wrap, and a signed comparison.
- *PLIC*: two sources and two harts are the least that lets claims race. *UART*: three
  characters hold an escape sequence with something before or after it.
- *virtio*: indices wrap twice around the ring, a third chain waits while the ring is full. Three
  descriptors hold an empty buffer between two others. Sector numbers go up to the wrap and beyond. Six entries hold a group and the start of the next.
- *Simulation*: a turn ends in the middle of a program and again at its end; a page is two
  instructions long, so programs leave it. The handler has a page of its own. Two levels are one inside and
one outside a filter, and two values of `satp` the one the trace began with and another.
- *Checkpoint*: nothing, everything and every other bit meet each mask; one instruction
  before the checkpoint after a start from any of the initial states, two without a checkpoint.
  *LiveCache*: five accesses overfill a set twice.
- *Co-simulation*: three instructions let a base register change, a device access follow, and a trap come between any two steps.
  *Memory checker*: accesses of one and two bytes over three overlap in every way but one strictly inside another.
- *9p*: three inodes are the root, a directory and a file or link; files and
  links are made under the second name, and a rename goes from the first name to the second. *Boards*: each count of devices is at
  both its limits, and segments start before, in and after RAM, the kernel and the initial disk.

`Symmetry` (chains of `virtio_stream`, fids of `files`) is used in runs without temporal
properties. The view of `files` leaves out the last reply, which no action reads.

Deadlock is checked except where the system may stop: a reported mismatch ends a
co-simulation, a board is complete, a checkpoint was restored, an operand of every
instruction was tried, a request reached the bound of inodes.

Fairness. *Clint*: weak fairness of `virt_machine_get_sleep_duration`, because the main
loop calls it after every batch. *VirtioBlock*: weak fairness of the steps of the device, which run
inside one call, and strong fairness of the back end's callback: the back end
answers each request it accepted, between two batches, whatever the driver does. `ResetBlock` is possible only with no
request in progress, because the file back end answers inside the call. *Simulation*: weak fairness of
the loop of `main`, which is one thread without waits. *Vector*: a hart in a page fault
runs its handler, which leaves the fault by a return to the instruction. All other specifications are safety only.

## Proofs

All statements below are proved for every value of the constants that satisfies the named
assumptions (`ConstantAssumption`, `PmpAssumption`, `MmuAssumption`, `TrapAssumption`,
`PlicAssumption`, `ClintAssumption`, `CosimAssumption`, `VirtioAssumption`,
`DiskAssumption`, `InterpAssumption`, `SimulationAssumption`, `FsDiskAssumption`, `RequestsAssumption`). They give constants their types and sizes, such as a ring that divides the
range of its indices, or a program that ends with a jump. Each safety proof has an inductive invariant; the text
below says what it adds to the property and why that is needed.

**MmuProofs**, PMP: `PmpTypeCorrect`, `LockTheorem`, `DenialTheorem`. The action properties hold step by
step. A locked entry's region uses two registers, and both lock rules are needed. For `DenialTheorem`, the
entry that denies a word is the least one that overlaps it (`DenialDecides`), and a locked entry keeps the words it
covers (`LockedOverlap`).

**MmuProofs**, reservations: `Invariance`, `ScAtomic`, `ScOwnLr`, `Refinement`. What the properties say about the
moment of an SC follows only if the numbers tell who stored. `IInv` adds: no reservation
is ahead of the memory; a hart with a foreign store since its LR is strictly behind; an
armed `load_res` is the address of an unused LR, or the zero of reset. A hart that stores advances its own
number with the memory's, so the gap a foreign store opened never closes without an LR. The refinement
needs the invariant in the same place: a store of one hart must map to the abstract store
that takes away exactly the reservations of the others.

**MmuProofs**, translation: `MmuTypeCorrect`, `TlbCoherence`, `WindowCoherence`. The invariant (`MmuInv`) is the conjunction
of the type invariant and the coherence properties, which is inductive: each
action either leaves what translations depend on (then coherence is a
function of unchanged state, lemmas `CtxTlb` and `CtxWindow`), or flushes, or fills an entry
with what the walk gives in the same state.

**IrqProofs**, PLIC: `PlicTypeCorrect`, `NoSourceLost`, `SingleClaim`, `SignalTheorem`. The invariant adds that what is being handled is
marked served. A claim picks the least source, which exists because sets of naturals have a least element.

**IrqProofs**, CLINT: `TimerTheorem`, for words of any width and any divider. A comparator is written by halves, so
the proof is about what `% Half` and `\div Half` make of a word (`DividedClock` and the lemmas around it): the
clock divided by `RTC_FREQ_DIV` never goes back while `mcycle` does not, and the signed difference of two words has
the sign of their order unless they are half a range apart.

**IrqProofs**, serial ports: `SerialTheorem` for the composition of ports and PLIC, `PortTheorem` for the
specification the `irq` run checks, where one hart runs the driver. The invariant adds that
`last_irq_level` is the cause as the registers give it (`LineKnown`): `update_isr` calls the PLIC only
when the level changes, so the PLIC can know of a cause only if the remembered level is right.

**IrqProofs**, traps: `TrapTypeCorrect`, `NoNesting`, `ReturnTheorem`. The invariant adds to the types that a
context still belonging to a trap equals the fields of `mstatus` and the `epc` of its level
(`ContextKept`) and that a level is enabled only where software allowed it (`EnabledIsOpen`). Traps to one level
leave the fields of the other alone, which is why nesting is harmless.

**CosimProofs**: `FollowsTheorem`, `MistakeTheorem`, for programs of every length, under the assumption `TimerOnly` that the
DUT takes no interrupt but the timer's. Without the assumption the first is false, which is the finding of
`cosim_interrupt`. `FollowsDut` speaks of the moments when no trap is outstanding. The invariant says what holds at
every moment: the DUT is where the emulator will be once it has taken the traps it was told of (`Ahead`), up to a
reservation the DUT has lost and the emulator has not; while a step runs, the DUT is one instruction further
(`Retired`); and a trap that is outstanding can be taken (`TrapsDue`). For a wrong value the invariant keeps the call that
carries it (`Mistaken`), so that the comparison at its end must fail.

**SimulationProofs**: `CounterTheorem`, `BudgetTheorem`, `TraceTheorem`, for any programs, turns of any length, any limits and
every way to switch the trace. The counter is right between calls because inside a call it is what was retired
plus what is still to run (`CounterInv`), with the correction of one that the check at entry makes (`Rest`). The budget holds because what a
turn may still retire was paid for when it began (`BudgetInv`). The records speak of the instruction before which
a turn began, and are written after it. `TurnInv` says where a traced turn stands: before its instruction (`Before`), with the instruction
retired (`Through`), or in the handler with the instruction not executed (`Aside`). That `stf_trace_element` can tell the
last two apart by the program counter needs that the handler does not follow a program. A trace by opcodes
begins inside a call that runs many instructions; that call returns at the start opcode, so the first turn with a record has
length one. The filters are decided
from the privilege of the turn's beginning and the exception and `satp` of its end, so `TurnInv` also carries the privilege of the instruction
it is about. `MemInv` keeps the accesses that wait for a record, and `OnTrail` describes when one of them may be stale.

**RingProofs**, **BlockProofs**: `OrderTheorem`, `NewsTheorem`, `DiskTheorem`, for any number of
queues and chains, rings of any size and a file of any size. Four indices run around each ring modulo
`IdxMod`: the driver's into the used ring, the device's into both, the driver's into the available ring. `RingInv` names the
distances between them: A chains returned and not seen, B taken and not returned, C pending, and A + B + C is at most the size of
the ring, so that no index overtakes another and a wrapped index still tells which chain it means. The chains the
driver has not got back form a line, first the A in the used ring, then the offered ones; no chain is in it
twice and none is free (`Once`). A step moves one chain from one part of the line to the next, takes it out at some place (a
dropped or collected chain), or adds one at its end. `RingProofs` has these three cases, the arithmetic of the
indices, and one lemma per step: a chain is posted and collected by the driver, taken, dropped
and answered by the device. `BlockProofs` adds that the request the
device remembers is the one the back end works on (`BlockInv`), from which `OrderTheorem` and the status byte
follow. `DiskInv` says for each mode where the sector last written is: in the file, or in `sector_table` before the file. A write
past the table may leave anything in it, so after an `overrun` the invariant, like `DiskReadsBack`, keeps only what it says of the file.

**PathProofs**, **FsProofs**: `FidsTheorem`, for any finite set of names, any target of symbolic links, any number of inodes and any
requests, in any order. That a path still leads to what the client was told depends on all of the host's
tree, so the invariant `FsInv` says of the tree that every path in it leads through directories
(`Closed`) and of each fid no rename or removal touched that its path is there and leads to the inode
it was bound to (`PathOK`); that the counts of file objects and descriptors are the sizes of the list of fids and of its open part
(`Counted`); and that a listing in progress holds the entries before the one it has come to (`PageOK`). `PathProofs` has a lemma
for each `fs_` function. `fs_create` makes the target of a link that leads nowhere, which is an entry elsewhere than at the
path of the fid. What creates an entry disturbs no path, because the new entry is not on the way to another. A removal takes away a path with
nothing below it. A rename moves all that is below the old path and can undo its own move, so that no two
entries end in the same place (`SwapBack`, `RenamedIs`). From these come a lemma per request, `FsProofs` does the counting, and the
names a walk gets through are found as the least number that goes no further (`Least`). In which order the host lists a directory
does not matter to the proof.

Only model-checked, and why.

- Liveness (`TimerFires`, `Answered`, `Completes`, `Terminates`): temporal properties under fairness are out of the
  prover's reach.
- What recursive definitions compute: `FloatAsSpecified`, `InsnAsSpecified`, `ElementsAsSpecified`, `CopiesSlice`,
  `CheckpointRestores`, `TraverseIsRecent`, `TreeDescribesBoard`, `ImagesIntact`. They are inductions over data, and the modules of
  `Vector`, `VirtioTransport`, `Checkpoint`, `LiveCache` and `Board` use recursive operators, which the prover does not take.
  `BelowMachineConfined` and `UnitsTracked` are action properties of `Checkpoint`'s specification, for the same reason.
- `MemoryCheckerRight` and `ButtonsTold` compare what the code keeps with a fold or a filtered sequence of all that happened
  (`GoldCore`, `VirtioInput`). A proof has to know what these become when an element is added, and the library has no fact that says it.
- `DriverReadsBack`: `VirtioTransport` declares recursive operators.

## Disagreements between code and comments

With a run (see `findings` in `PROJECT.json`): external writes and reservations
(`lrsc_external`), stale `mip` bits in co-simulation (`cosim_interrupt`).

Read while modelling. The models do what the code does, and the properties are stated around
them: a case below is either excluded by name in the property, or not an input of the instance.

Privileged core

- `src/riscv_cpu.cpp:264`: an empty TOR region inside an 8-byte access passes the overlap test, whose
  comment says the intersection is non-empty.
- `src/riscv_cpu.cpp:495`: of the page number of a superpage one bit per level is checked to be zero, not nine.
- `src/riscv_cpu.cpp:644`: PMP is checked for the bytes accessed and the TLB entry covers the page; line 234 says
  PMP applies to all accesses in S and U mode. `Coherent` is about the granule an entry was filled for.
- `src/riscv_cpu.cpp:818`: the page-wide execute check is decided by the first overlapping PMP entry, even
  if it covers part of the page; line 819 says all of the page has execute access.
- `src/riscv_cpu.cpp:1729`: `csr_write` flushes the TLBs for `mstatus`, `sstatus` and PMP registers and returns 0; line 1636 says
  2 is returned when the TLBs have been flushed. `csrFlush` records it.
- `src/riscv_cpu.cpp:2101`: `mret` to M and traps taken in M change MPP without a flush while MPRV makes MPP
  the privilege of loads and stores; `set_mstatus` does flush for it. `DataTlbCoherent` is stated for MPRV clear.
- `include/majordomo_template.h:1965`: outside co-simulation WFI powers down whatever is pending; line 1963 says only if
  nothing is. `virt_machine_run` executes powered-down harts all the same, and the flag stays until the next device call.

Instructions

- `roriw` shifts the whole 64-bit register, and `ctzw` asks the compiler's builtin for a zero word, whose
  result is undefined; `doc/EXT_STATUS.md` (46, 34) lists both as implemented. `rol` by 0 shifts by the width of the register,
  which C leaves undefined; with either result a build can give, the rotation is right.
- `include/majordomo_template.h:2408`: `fli`, `fminm`, `fmaxm`, `fround`, `froundnx`, `fleq`, `fltq` and `fcvtmod.w.d` retire and do
  nothing, whatever `--march` says (`fli` computes its constant and drops it); `README.md:149` of the repository runs a test of `fleq.d`. `FpAsSpecified` names them.
- `include/softfp_template.h:664`: for a high word that is a power of two and a low word other than zero, 2^l is
  below `a` although the comment says it is not, and the iteration stops early; `sqrt_sf` always passes a low word of zero.
- Vector: with groups of registers and a `vl` inside them, accesses go on beyond `vl`; strided
  groups place registers VLEN/8 apart; the register of a segment field is computed with
  `nf - 1`; a resumed segment access continues at another address; whole-register accesses stop at `vl`;
  a mask access takes `vl / 8` bytes rounded down; fault-only-first tries element 0 even if it is
  masked; additions ignore `vl`; widening sums of 4-byte elements lose the carry; `vsetvl`
  refuses fractions and `vsetvli` does not look at reserved bits. The
  properties claim the accesses `Straight` describes.
- `include/majordomo_template.h:2158`, `:2209`: vector loads and stores change registers, `vl` and `vstart` and do not mark VS
  dirty, as opcode 0x57 does at line 2517. `UnitsTracked` names them.

Interpreter, trace, checkpoint

- A return for the trace opcodes leaves the counters as they were; `minstret` counts CSR
  instructions of a batch twice; an interrupt inside the loop returns one instruction too many.
- `src/majordomo.cpp:99`: the number at which a trace starts is one off; `src/options.cpp:114` describes the
  exact number, and equality is tested between turns only. An interrupt at entry counts as traced; `mret` and
  `ecall` have no record; `stf_in_traceable_region` is never set.
- `src/majordomo_stf.cpp:262`: the "ASID" of which the trace keeps one value is bits 4 to 19 of `satp`, part of the root's page number. An
  instruction that changes them is left out, and so is all that runs until the old value is back; `NothingLeftOut` names both filters.
- `stf_is_start_opc` is set and cleared at the foot of the loop. After a start opcode, and through any `wfi` and CSR
  writes that leave the loop before its foot, an `amo` whose write faults keeps its read for a later record. `AccessesAreOwn`
  names the case.
- `doc/cva6-dromajo-integration.md:22` says of the boot code that "it will restore the whole architectural state!". The upper
  half of floating-point registers is taken from integer registers; counter enables go through a sign-extended 12-bit
  immediate; trigger data, vector state, MSIP, MEIP and the PLIC are not restored; FS comes back
  dirty; `dcsr & 0x600 != 0` (line 1805) groups as `dcsr & (0x600 != 0)`; in a batch the instructions of the ROM are counted;
  the store to `mtime` truncates `mcycle`. MPRV with a lower MPP, or a locked PMP entry over the ROM, makes the code trap.
- LiveCache: the line of the very first access is not listed until it is used again.

Devices

- `src/interrupts.cpp:141`: a write of the lower half of `mtimecmp` clears the upper half (`~0xffffffff` is 0 in 32
  bits). 64-bit stores still work, because they write the lower half first.
- `src/interrupts.cpp:159`: context 0 of a hart is the supervisor's, as in the device tree; lines 185 and 234 say the configuration is "MS".
- `src/interrupts.cpp:183`, `:232`: enable words exist for `MAX_CPUS` = 8 contexts, which are those of four harts, and the tree of a board of up to
  seven harts lists two for each. `TreeDescribesBoard` is about the contexts that exist. The claim registers (194, 241) take the
  context number for a hart number.
- `src/term_io.cpp:104`: the help says "C-b C-b send C-b", and the code drops it. The ports are polled only by the
  guest's own accesses; a level still up at completion is not signalled again; the SiFive port never raises its source.
- virtio: a reset does not clear `req_in_progress` (harmless with the file back end, which answers at once); requests of other types
  and malformed chains never appear in the used ring, so `Answered` is about reads and writes; a copy passes
  over holes in RAM in silence; a write past the end of a read-write image makes it grow; the end of a write to a
  snapshot is truncated to 32 bits before it is compared (`src/block_device.cpp:105`), so one that wraps goes past the table. Input: a question the
  device does not answer leaves the last reply; a mouse event may be torn when the queue fills; a reset keeps `buttons_state`.
- 9p: a walk that ends early still binds `newfid`; creating over a link that leads nowhere makes its target, and the reply describes the link; the path of a fid is stale after a rename or an unlink by
  another fid; `setattr` may do part of its work; `readdir` returns nothing if the first entry does not fit;
  the reply of `getlock` marshals pointers.

Co-simulation, memory checker, board

- `src/majordomo_cosim.cpp:139`: floating-point and stack-relative loads from devices are not copied from the DUT; line 191 says
  loads from I/O devices are. `is_mmio_load` reads a shadow register that only checked steps keep.
- Memory checker: `operator!=` is inverted and `st_locally_perform` compares data with itself; `has_partial_overlap`
  misses a store strictly around a load; extending a first chunk downward meets an assertion; touching chunks are never
  joined. In order, correct programs are stopped by sign-extended loads, the first touch of a word by an AMO, narrow stores
  with upper bits set in the register, and AMOs to `x0`. Loads stay in the buffer until a store. `majordomo_cosim_override_mem` does not tell it.
- Board: with `--compact_bootrom` the tree is at +52 and `a1` still says +256 (`src/bin_utils.cpp:154`, `:244`);
  hexadecimal firmware is never recognised (`fw_buf[0]=='0' && fw_buf[0]=='x'`, line 202) and copied as text;
  an ELF firmware is loaded three or four times and each time takes new entries of the 32 of the memory map, so nine segments
  away from RAM meet an assertion; overlaps and an overrun of the boot ROM are not noticed.

## What is not modelled

Left out inside modelled parts:

- *Hart*: addresses outside the range of satp's mode, the limit of physical addresses in the PMP check, trap values, TSR and TW in
  `Trap`, encodings of build options that are off (128 bits, custom), Zfa's table of constants. The bytes that loads and
  stores move are abstract in `Mmu` and `LrSc`.
- *Vector*: elements wider than 64 bits, double width of fractional groups.
- *Main loop*: the trace library, a second trace file (closing and opening again may overwrite the first), simpoints.
- *Checkpoint*: memory images, which are copied as they are; the warm-up program of a LIVECACHE build, which refers to
  `create_lui`, a function that does not exist.
- *Devices*: PLIC priorities (stored, never used), claims through context numbers beyond the harts, packet contents, contents and
  modes of shared files, chains that lead back to themselves. The virtio console is never created
  (`if (p->console && 0)`, `src/riscv_machine.cpp:847`); `VirtioStream` has it all the same.
- *Board*: the dump of memory, the search for `tohost`, dirty bits and the moving of ranges, a tree read from a file. A framebuffer is never created.
- *Co-simulation*: unchecked steps, the instruction limit, more than one hart.

Left out altogether:

- *PCI* (`src/pci.cpp`): no machine of this repository has a bus, `virt_machine_init` creates MMIO devices only.
- *Options, JSON, machine description*: text read once into a record of settings; `Board` takes that record as its constant.
- *Network back ends* (tun, slirp): host I/O behind the two calls `VirtioStream` has.
- *Simpoints*: a count of turns that triggers files; the checkpoints it writes are in `Checkpoint`.
- *Test drivers*, *utilities and third-party containers*: the calls of the drivers are the inputs of `Cosim` and `GoldCore`.

What remains to model, in order of use: `Trap`, `Clint` and `Plic` around one `mip` in the batch loop; several harts in co-simulation.
