------------------------------- MODULE Board -------------------------------
(* How the machine is put together before its first instruction: the map of
   physical memory (src/iomem.cpp), the devices with their addresses and
   interrupt lines (virt_machine_init() in src/riscv_machine.cpp), the images
   copied into memory and the boot ROM with its device tree (src/bin_utils.cpp,
   src/fdt.cpp).  Addresses and lengths are in units of 2 KiB, half a page, and
   memory holds one token in every unit: which unit of which part of which image
   it is.  The device tree alone is laid out byte by byte: the words of the
   structure block, the table of property names they refer to by offset, and the
   memory they are laid out in.  A text is a string or, for a numbered node, a
   string and the number behind its @; what counts is its length, which decides
   the padding and every offset behind it.                                     *)
EXTENDS Integers, Sequences, SequencesExt, FiniteSetsExt, TLC

-----------------------------------------------------------------------------
\* The device tree, and a reader of it that knows only the layout (a header, words and
\* offsets), as the guest's firmware does.

FDT_BEGIN_NODE == 1
FDT_END_NODE == 2
FDT_PROP == 3
FDT_END == 9

HeaderSize == 40
ReserveSize == 16

\* Where the devices are, and the interrupt of each.
VIRTIO_BASE_ADDR == 524320
VIRTIO_SIZE == 2
VIRTIO_IRQ == 4
DW_APB_UART0_BASE_ADDR == 147460
DW_APB_UART1_BASE_ADDR == 147470
DW_APB_UART0_SIZE == 2
DW_APB_UART1_SIZE == 2
DW_APB_UART0_IRQ == 3
DW_APB_UART1_IRQ == 15

-----------------------------------------------------------------------------
(* The writer. *)

Text(s) == [s |-> s, n |-> 0, digits |-> 0]

\* "%s@%x" of an address, or of a number with so many hexadecimal digits.
TextNum(s, n, digits) == [s |-> s, n |-> n, digits |-> digits]
TextAt(s, addr) ==
  TextNum(s, addr, 3 + CHOOSE d \in 1..7 : /\ 16 ^ (d - 1) <= addr \div 2
                                           /\ addr \div 2 < 16 ^ d)

\* strlen() + 1 of a text, and of texts one behind the other.
Size(t) == Len(t.s) + (IF t.digits = 0 THEN 0 ELSE 1 + t.digits) + 1
Bytes(texts) == FoldLeft(LAMBDA n, t : n + Size(t), 0, texts)

Word(v) == [kind |-> "word", v |-> v]
Data(texts) == [kind |-> "data", texts |-> texts]
Pad == [kind |-> "pad"]

\* The data is padded to whole words.
fdt_put_data(texts, len) == [i \in 1 .. (len + 3) \div 4 |-> IF i = 1 THEN Data(texts) ELSE Pad]

fdt_begin_node(name) == <<Word(FDT_BEGIN_NODE)>> \o fdt_put_data(<<name>>, Size(name))

fdt_end_node == <<Word(FDT_END_NODE)>>

(* The table of names at the end: a name that is there already is shared, a new
   one goes to the end, so no name moves and the position a property was given
   when it was written is the name's position in this table.                  *)
StringTable(names) ==
  LET IsNew(i) == \A j \in 1 .. i - 1 : names[j] # names[i]
      order == SelectSeq([i \in DOMAIN names |-> i], IsNew)
  IN  [k \in DOMAIN order |-> Text(names[order[k]])]

\* Where the k-th string of the table starts, and where the search of a name stops.
StringAt(table, k) == Bytes(SubSeq(table, 1, k - 1))
fdt_get_string_offset(table, name) ==
  StringAt(table, CHOOSE k \in DOMAIN table : table[k] = Text(name))

\* The three words in front of a property's value: the value's length and name.
PropHead(table, name, len) ==
  <<Word(FDT_PROP), Word(len), Word(fdt_get_string_offset(table, name))>>

\* A property that is a list of texts (fdt_prop, _str, _tab_str), or of cells.
fdt_prop(table, name, texts) == PropHead(table, name, Bytes(texts)) \o fdt_put_data(texts, Bytes(texts))

fdt_prop_tab_u32(table, name, tab) ==
  PropHead(table, name, 4 * Len(tab)) \o [i \in DOMAIN tab |-> Word(tab[i])]

\* The two cells of a 64-bit address.
Cells(addr) == <<addr \div 2 ^ 21, addr % 2 ^ 21>>

AlignTo8(pos) == ((pos + 7) \div 8) * 8

(* fdt_output(): header, words, an empty reserve map and the strings.  What lies
   at a byte of the destination is a word, a padding word or a name.          *)
fdt_output(words, table) ==
  LET tab == Append(words, Word(FDT_END))
      off_mem_rsvmap == AlignTo8(HeaderSize + (4 * Len(tab)))
      off_dt_strings == off_mem_rsvmap + ReserveSize
      start == [k \in DOMAIN table |-> off_dt_strings + StringAt(table, k)]
  IN  [totalsize |-> AlignTo8(off_dt_strings + Bytes(table)),
       off_dt_struct |-> HeaderSize,
       off_dt_strings |-> off_dt_strings,
       at |-> [o \in {HeaderSize + (4 * (i - 1)) : i \in DOMAIN tab} |-> tab[((o - HeaderSize) \div 4) + 1]]
              @@ [o \in Range(start) |->
                    [kind |-> "name", s |-> table[CHOOSE k \in DOMAIN table : start[k] = o].s]]]

-----------------------------------------------------------------------------
(* riscv_build_fdt(): the calls it makes, in order, as records. *)

Begin(name) == <<[call |-> "begin", name |-> name]>>
EndNode == <<[call |-> "end"]>>
Texts(name, texts) == <<[call |-> "texts", name |-> name, texts |-> texts]>>
Str(name, s) == Texts(name, <<Text(s)>>)
U32s(name, tab) == <<[call |-> "u32s", name |-> name, tab |-> tab]>>
U32(name, v) == U32s(name, <<v>>)
Reg(addr, size) == U32s("reg", Cells(addr) \o Cells(size))

\* F(0) \o F(1) \o ... \o F(n - 1).
Each(F(_), n) == FlattenSeq([i \in 1..n |-> F(i - 1)])

\* hartid2handle; the PLIC takes the handle after the last hart's.
IntcHandle(hartid) == hartid + 1
PlicHandle(m) == m.ncpus + 1

CpuNode(hartid) ==
  Begin(TextNum("cpu", hartid, 1))
  \o Str("device_type", "cpu") \o U32("reg", hartid) \o Str("status", "okay")
  \o Str("compatible", "riscv") \o Str("riscv,isa", "rv64acdfimsuv") \o Str("mmu-type", "riscv,sv48")
  \o U32("clock-frequency", 2000000000)
  \o Begin(Text("interrupt-controller"))
  \o U32("#interrupt-cells", 1) \o Texts("interrupt-controller", <<>>)
  \o Str("compatible", "riscv,cpu-intc")
  \o U32("phandle", IntcHandle(hartid)) \o U32("linux,phandle", IntcHandle(hartid))
  \o EndNode \o EndNode

CpusNode ==
  Begin(Text("cpus"))
  \o U32("#address-cells", 1) \o U32("#size-cells", 0) \o U32("timebase-frequency", 1000000)

MemoryNode(m) ==
  Begin(TextAt("memory", m.ram_base_addr))
  \o Str("device_type", "memory") \o Reg(m.ram_base_addr, m.ram_size) \o EndNode

\* The pairs that name, of every hart, two of its interrupts.
HartPairs(m, a, b) ==
  LET Pair(hartid) == <<IntcHandle(hartid), a, IntcHandle(hartid), b>> IN Each(Pair, m.ncpus)

ClintNode(m) ==
  Begin(TextAt("clint", m.clint_base_addr)) \o Str("compatible", "riscv,clint0")
  \o U32s("interrupts-extended", HartPairs(m, 3, 7)) \o Reg(m.clint_base_addr, m.clint_size) \o EndNode

PlicNode(m) ==
  Begin(TextAt("plic", m.plic_base_addr))
  \o U32("#interrupt-cells", 1) \o Texts("interrupt-controller", <<>>)
  \o Str("compatible", "riscv,plic0") \o U32("riscv,ndev", 31) \o Reg(m.plic_base_addr, m.plic_size)
  \o U32s("interrupts-extended", HartPairs(m, 9, 11)) \o U32("phandle", PlicHandle(m)) \o EndNode

VirtioNode(m, i) ==
  LET addr == VIRTIO_BASE_ADDR + (i * VIRTIO_SIZE)
  IN  Begin(TextAt("virtio", addr))
      \o Str("compatible", "virtio,mmio") \o Reg(addr, VIRTIO_SIZE)
      \o U32s("interrupts-extended", <<PlicHandle(m), VIRTIO_IRQ + i>>) \o EndNode

UartNode(m, uart_no) ==
  LET base_addr == IF uart_no = 0 THEN DW_APB_UART0_BASE_ADDR ELSE DW_APB_UART1_BASE_ADDR
      irq == IF uart_no = 0 THEN DW_APB_UART0_IRQ ELSE DW_APB_UART1_IRQ
  IN  Begin(TextAt("uart", base_addr))
      \o Reg(base_addr, DW_APB_UART0_SIZE) \o U32("current-speed", 115200)
      \o U32("clock-frequency", 25000000) \o U32("reg-shift", 2) \o U32("reg-io-width", 4)
      \o Str("compatible", "ns16550a")
      \o U32("interrupt-parent", PlicHandle(m)) \o U32("interrupts", irq) \o EndNode

SocNode ==
  Begin(Text("soc"))
  \o U32("#address-cells", 2) \o U32("#size-cells", 2)
  \o Texts("compatible", <<Text("ucbbar,majordomo-bar-soc"), Text("simple-bus")>>)
  \o Texts("ranges", <<>>)

ChosenNode(cmd_line, initrd_start, initrd_end) ==
  Begin(Text("chosen")) \o Str("bootargs", cmd_line)
  \o (IF initrd_start > 0 /\ initrd_start < initrd_end
      THEN U32s("linux,initrd-start", Cells(initrd_start)) \o U32s("linux,initrd-end", Cells(initrd_end))
      ELSE <<>>)
  \o EndNode

\* Node by node; cpus, soc and the root end behind the nodes inside them.
Calls(m, cmd_line, initrd_start, initrd_end) ==
  <<Begin(Text("")) \o U32("#address-cells", 2) \o U32("#size-cells", 2)
    \o Str("compatible", "ucbbar,majordomo-bar_dev") \o Str("model", "ucbbar,majordomo-bare"),
    CpusNode>>
  \o [h \in 1 .. m.ncpus |-> CpuNode(h - 1)]
  \o <<EndNode, MemoryNode(m), SocNode, ClintNode(m), PlicNode(m)>>
  \o [i \in 1 .. m.virtio_count |-> VirtioNode(m, i - 1)]
  \o <<UartNode(m, 0), UartNode(m, 1), EndNode>>
  \o <<ChosenNode(cmd_line, initrd_start, initrd_end), EndNode>>

Call(table, c) ==
  CASE c.call = "begin" -> fdt_begin_node(c.name)
    [] c.call = "end" -> fdt_end_node
    [] c.call = "texts" -> fdt_prop(table, c.name, c.texts)
    [] c.call = "u32s" -> fdt_prop_tab_u32(table, c.name, c.tab)

riscv_build_fdt(m, cmd_line, initrd_start, initrd_end) ==
  LET nodes == Calls(m, cmd_line, initrd_start, initrd_end)
      props == SelectSeq(FlattenSeq(nodes), LAMBDA c : c.call \in {"texts", "u32s"})
      table == StringTable([i \in DOMAIN props |-> props[i].name])
  IN  fdt_output(FlattenSeq([n \in DOMAIN nodes |->
                   FlattenSeq([i \in DOMAIN nodes[n] |-> Call(table, nodes[n][i])])]), table)

-----------------------------------------------------------------------------
(* The reader, after the Devicetree Specification: a property is a record of
   the path of its node, its name and the texts and cells of its value.       *)

Unreadable == [path |-> <<>>, name |-> "unreadable", texts |-> <<>>, cells |-> <<>>]

IsWord(b, o) == o \in DOMAIN b.at /\ b.at[o].kind = "word"
IsData(b, o) == o \in DOMAIN b.at /\ b.at[o].kind = "data"
Words(len) == 4 * ((len + 3) \div 4)

\* The value of len bytes at o: texts, or cells, or nothing.
ReadTexts(b, o, len) == IF len > 0 /\ IsData(b, o) THEN b.at[o].texts ELSE <<>>
ReadCells(b, o, len) ==
  IF len > 0 /\ len % 4 = 0 /\ \A i \in 0 .. (len \div 4) - 1 : IsWord(b, o + (4 * i))
  THEN [i \in 1 .. len \div 4 |-> b.at[o + (4 * (i - 1))].v] ELSE <<>>

\* The properties from o on, and where they end.
RECURSIVE ReadProps(_, _, _)
ReadProps(b, o, path) ==
  IF ~(IsWord(b, o) /\ b.at[o].v = FDT_PROP) THEN [found |-> {}, at |-> o]
  ELSE IF ~(/\ IsWord(b, o + 4) /\ IsWord(b, o + 8)
            /\ b.off_dt_strings + b.at[o + 8].v \in DOMAIN b.at)
  THEN [found |-> {Unreadable}, at |-> 0]
  ELSE LET len == b.at[o + 4].v
           rest == ReadProps(b, o + 12 + Words(len), path)
       IN  [rest EXCEPT !.found = @ \cup
              {[path |-> path, name |-> b.at[b.off_dt_strings + b.at[o + 8].v].s,
                texts |-> ReadTexts(b, o + 12, len), cells |-> ReadCells(b, o + 12, len)]}]

\* The nodes from o on, with what is inside them, and where they end.
RECURSIVE ReadNodes(_, _, _)
ReadNodes(b, o, path) ==
  IF ~(IsWord(b, o) /\ b.at[o].v = FDT_BEGIN_NODE) THEN [found |-> {}, at |-> o]
  ELSE IF ~IsData(b, o + 4) THEN [found |-> {Unreadable}, at |-> 0]
  ELSE LET name == b.at[o + 4].texts
           inner == Append(path, Head(name))
           props == ReadProps(b, o + 4 + Words(Bytes(name)), inner)
           nodes == ReadNodes(b, props.at, inner)
           ended == IsWord(b, nodes.at) /\ b.at[nodes.at].v = FDT_END_NODE
           rest == IF ended THEN ReadNodes(b, nodes.at + 4, path) ELSE [found |-> {Unreadable}, at |-> 0]
       IN  [rest EXCEPT !.found = @ \cup props.found \cup nodes.found]

ReadTree(b) ==
  LET root == ReadNodes(b, b.off_dt_struct, <<>>)
      ended == IsWord(b, root.at) /\ b.at[root.at].v = FDT_END
  IN  IF ended THEN root.found ELSE root.found \cup {Unreadable}

-----------------------------------------------------------------------------
\* The machine

CONSTANTS Configs, \* the parameters, images included, the program may be given
          KERNEL_OFFSET \* where a kernel goes, behind the start of RAM

VARIABLES conf,    \* the parameters of this run
          phase,   \* where main's set-up is: a step, or how it ended
          loading, \* the parts load_elf_image or load_hex_image has still to load
          round,   \* which call of copy_kernel() this is
          board    \* the machine

boardVars == <<conf, phase, loading, round, board>>

DEVRAM_PAGE_SIZE == 2
PHYS_MEM_RANGE_MAX == 32
MAX_CPUS == 8
ROM_BASE_ADDR == 32
ROM_SIZE == 4
BOOT_BASE_ADDR == ROM_BASE_ADDR
UART0_BASE_ADDR == 688128
UART0_SIZE == 1

UnitBytes == 2048

-----------------------------------------------------------------------------
(* The map of physical memory. *)

Zero == <<"zero", 0, 0>>
ZeroPages(n) == [i \in 1..n |-> Zero]

RamRange(name, addr, size) == [name |-> name, addr |-> addr, size |-> size, irq |-> 0, mem |-> ZeroPages(size)]
DeviceRange(name, addr, size, irq) == [name |-> name, addr |-> addr, size |-> size, irq |-> irq, mem |-> <<>>]
is_ram(r) == r.mem # <<>>

Holding(map, addr) == {i \in DOMAIN map : map[i].addr <= addr /\ addr < map[i].addr + map[i].size}

\* The range registered last that holds an address; 0 if there is none.
get_phys_mem_range(map, addr) ==
  IF Holding(map, addr) = {} THEN 0 ELSE Max(Holding(map, addr))

\* cpu_register_ram and cpu_register_device assert that there is room.
Room(map, n) == Len(map) + n <= PHYS_MEM_RANGE_MAX

\* memcpy(get_ram_ptr(addr), data, len): defined inside one range of RAM.
CopyDefined(map, addr, len) ==
  LET i == get_phys_mem_range(map, addr)
  IN  i > 0 /\ is_ram(map[i]) /\ addr + len <= map[i].addr + map[i].size

CopyTo(map, addr, data) ==
  LET i == get_phys_mem_range(map, addr)
      o == addr - map[i].addr
  IN  [map EXCEPT ![i].mem = SubSeq(@, 1, o) \o data \o SubSeq(@, o + Len(data) + 1, Len(@))]

\* What a load from an address finds.
Peek(map, addr) ==
  LET i == get_phys_mem_range(map, addr)
  IN  IF i = 0 \/ ~is_ram(map[i]) THEN Zero ELSE map[i].mem[addr - map[i].addr + 1]

\* The units of part p of an image.
Content(id, p, len) == [k \in 1..len |-> <<id, p, k>>]

-----------------------------------------------------------------------------
(* virt_machine_init(): memory, the fixed devices, then virtio's. *)

BoardInit ==
  /\ conf \in Configs
  /\ phase = "init" /\ loading = <<>> /\ round = 1
  /\ board = [map |-> <<>>, addr |-> VIRTIO_BASE_ADDR, irq_num |-> VIRTIO_IRQ, virtio_count |-> 0,
              initrd_start |-> 0, initrd_end |-> 0, bootrom_loaded |-> FALSE,
              dtb |-> <<>>, debug_mode |-> FALSE]

Stop(how) == phase' = how /\ UNCHANGED <<conf, loading, round, board>>

\* The command line refuses MAX_CPUS itself already.
InitMachine ==
  /\ phase = "init"
  /\ IF conf.ncpus >= MAX_CPUS THEN Stop("failed")
     ELSE /\ board' = [board EXCEPT !.map =
               <<RamRange("memory", conf.ram_base_addr, conf.ram_size),
                 RamRange("rom", ROM_BASE_ADDR, ROM_SIZE),
                 DeviceRange("sifive", UART0_BASE_ADDR, UART0_SIZE, 0),
                 DeviceRange("uart", DW_APB_UART0_BASE_ADDR, DW_APB_UART0_SIZE, DW_APB_UART0_IRQ),
                 DeviceRange("uart", DW_APB_UART1_BASE_ADDR, DW_APB_UART1_SIZE, DW_APB_UART1_IRQ),
                 DeviceRange("clint", conf.clint_base_addr, conf.clint_size, 0),
                 DeviceRange("plic", conf.plic_base_addr, conf.plic_size, 0)>>]
          /\ phase' = "virtio"
          /\ UNCHANGED <<conf, loading, round>>

VirtioCount == conf.eth_count + conf.drive_count + conf.fs_count
               + (IF conf.input_device = "virtio" THEN 2 ELSE 0)

\* The interrupt number is left where it was.
AddVirtio_SameIrq ==
  /\ phase = "virtio" /\ board.virtio_count < VirtioCount
  /\ IF ~Room(board.map, 1) THEN Stop("abort")
     ELSE /\ board' = [board EXCEPT
               !.map = Append(@, DeviceRange("virtio", board.addr, VIRTIO_SIZE, board.irq_num)),
               !.addr = @ + VIRTIO_SIZE,
               !.virtio_count = @ + 1]
          /\ UNCHANGED <<conf, phase, loading, round>>

\* The net, block, file-system and input devices, each behind the one before.
AddVirtio ==
  /\ phase = "virtio" /\ board.virtio_count < VirtioCount
  /\ IF ~Room(board.map, 1) THEN Stop("abort")
     ELSE /\ board' = [board EXCEPT
               !.map = Append(@, DeviceRange("virtio", board.addr, VIRTIO_SIZE, board.irq_num)),
               !.addr = @ + VIRTIO_SIZE,
               !.irq_num = @ + 1,
               !.virtio_count = @ + 1]
          /\ UNCHANGED <<conf, phase, loading, round>>

VirtioDone ==
  /\ phase = "virtio" /\ board.virtio_count = VirtioCount
  /\ Stop(IF conf.input_device = "other" THEN "failed" ELSE "firmware")

-----------------------------------------------------------------------------
(* Loading an image, one part at a time: a segment of an ELF file, a line of a
   hexadecimal one.                                                           *)

RoundedSize(memsz) == ((memsz + DEVRAM_PAGE_SIZE - 1) \div DEVRAM_PAGE_SIZE) * DEVRAM_PAGE_SIZE

\* A segment that is not at the start of RAM, and not the boot ROM's, gets
\* memory of its own, whatever is at its address already.
LoadSegment(image, p) ==
  LET ph == image.parts[p]
      isBoot == ph.vaddr = BOOT_BASE_ADDR
      own == ~isBoot /\ ph.vaddr # conf.ram_base_addr
      map == IF own THEN Append(board.map, RamRange("segment", ph.vaddr, RoundedSize(ph.memsz)))
             ELSE board.map
  IN  IF own /\ ~Room(board.map, 1) THEN Stop("abort")
      ELSE IF ~CopyDefined(map, ph.vaddr, ph.filesz) THEN Stop("undefined")
      ELSE /\ board' = [board EXCEPT
                !.map = CopyTo(map, ph.vaddr, Content(image.id, p, ph.filesz)),
                !.bootrom_loaded = @ \/ isBoot]
           /\ loading' = Tail(loading)
           /\ UNCHANGED <<conf, phase, round>>

LoadLine(image, p) ==
  LET line == image.parts[p]
      i == get_phys_mem_range(board.map, line.vaddr)
  IN  IF i = 0 \/ ~is_ram(board.map[i]) THEN Stop("exit")
      ELSE /\ board' = [board EXCEPT !.map = CopyTo(@, line.vaddr, Content(image.id, p, 1))]
           /\ loading' = Tail(loading)
           /\ UNCHANGED <<conf, phase, round>>

\* load_elf_image and load_hex_image: a file that is neither has no lines.
LoadPart ==
  /\ loading # <<>>
  /\ LET part == Head(loading)
     IN  IF part.image.kind = "elf" THEN LoadSegment(part.image, part.p) ELSE LoadLine(part.image, part.p)

Parts(image) ==
  IF image.kind = "raw" THEN <<>> ELSE [p \in DOMAIN image.parts |-> [image |-> image, p |-> p]]

-----------------------------------------------------------------------------
(* copy_kernel(). *)

Go(step, b) == phase' = step /\ board' = b /\ UNCHANGED <<conf, loading, round>>
At(step) == phase = step /\ loading = <<>>

Copy(step, b, addr, data) ==
  IF CopyDefined(b.map, addr, Len(data)) THEN Go(step, [b EXCEPT !.map = CopyTo(@, addr, data)])
  ELSE Stop("undefined")

\* An ELF file is loaded once to look at its entry; what starts with 0x is not
\* taken for a hexadecimal file, the test looks at the same character twice.
Firmware ==
  /\ At("firmware")
  /\ LET fw == conf.firmware
         b == [board EXCEPT !.initrd_start = 0, !.initrd_end = 0]
     IN  IF fw.kind = "none" \/ fw.len > conf.ram_size THEN Stop("failed")
         ELSE IF fw.kind = "elf"
         THEN /\ phase' = "entry" /\ loading' = Parts(fw) /\ board' = b
              /\ UNCHANGED <<conf, round>>
         ELSE Copy("kernel", b, conf.ram_base_addr, Content(fw.id, 0, fw.len))

Entry ==
  /\ At("entry")
  /\ IF ~board.bootrom_loaded /\ conf.firmware.entry # conf.ram_base_addr THEN Stop("failed")
     ELSE /\ phase' = "kernel" /\ loading' = Parts(conf.firmware)
          /\ UNCHANGED <<conf, round, board>>

Kernel ==
  /\ At("kernel")
  /\ IF conf.kernel_len = 0 THEN Stop("initrd")
     ELSE IF conf.ram_size <= KERNEL_OFFSET \/ conf.kernel_len > conf.ram_size - KERNEL_OFFSET
     THEN Stop("failed")
     ELSE Copy("initrd", board, conf.ram_base_addr + KERNEL_OFFSET, Content("kernel", 0, conf.kernel_len))

Initrd ==
  /\ At("initrd")
  /\ IF conf.initrd_len = 0 THEN Stop("bootrom")
     ELSE IF conf.initrd_len > conf.ram_size THEN Stop("failed")
     ELSE LET end == conf.ram_base_addr + conf.ram_size
              start == ((end - conf.initrd_len) \div DEVRAM_PAGE_SIZE) * DEVRAM_PAGE_SIZE
          IN  Copy("bootrom", [board EXCEPT !.initrd_start = start, !.initrd_end = end],
                   start, Content("initrd", 0, conf.initrd_len))

\* What the generated code leaves in dpc, for the bases it knows, and in a1.
BootTarget(base) == IF base = 3 * 2 ^ 27 THEN 3 * 2 ^ 27 ELSE IF base = 2 ^ 20 THEN 2 ^ 20 ELSE 2 ^ 28
BootBases == {2 ^ 20, 2 ^ 28, 3 * 2 ^ 27}
BootTreePointer == 16 + 240

BootromBytes == 13 * 4
TreeOffset == IF conf.compact_bootrom THEN BootromBytes ELSE 256

Units(bytes) == (bytes + UnitBytes - 1) \div UnitBytes

\* What the tree is built from.
Described == [ncpus |-> conf.ncpus, virtio_count |-> board.virtio_count,
              ram_base_addr |-> conf.ram_base_addr, ram_size |-> conf.ram_size,
              clint_base_addr |-> conf.clint_base_addr, clint_size |-> conf.clint_size,
              plic_base_addr |-> conf.plic_base_addr, plic_size |-> conf.plic_size]

GenerateBootrom ==
  LET dtb == riscv_build_fdt(Described, conf.cmd_line, board.initrd_start, board.initrd_end)
  IN  IF conf.ram_base_addr \notin BootBases THEN Stop("failed")
      ELSE Copy("ready", [board EXCEPT !.dtb = dtb, !.debug_mode = TRUE], ROM_BASE_ADDR,
                Content("boot", 0, Units(TreeOffset + dtb.totalsize)))

\* Over whatever an image put there.
Bootrom_Always ==
  /\ At("bootrom")
  /\ IF conf.bootrom_name = "" THEN GenerateBootrom
     ELSE IF conf.bootrom_name = "missing" THEN Stop("failed")
     ELSE Copy("ready", [board EXCEPT !.debug_mode = TRUE], ROM_BASE_ADDR, Content("bootrom", 0, 1))

Bootrom ==
  /\ At("bootrom")
  /\ IF board.bootrom_loaded THEN Go("ready", [board EXCEPT !.debug_mode = TRUE])
     ELSE IF conf.bootrom_name = "" THEN GenerateBootrom
     ELSE IF conf.bootrom_name = "missing" THEN Stop("failed")
     ELSE Copy("ready", [board EXCEPT !.debug_mode = TRUE], ROM_BASE_ADDR, Content("bootrom", 0, 1))

(* What virt_machine_main() does next: the files of a command line without a
   configuration are loaded, the first once more; with a configuration
   virt_machine_load() copies everything again.                               *)
Ready ==
  /\ At("ready") /\ round' = round + 1
  /\ IF round = 2 THEN phase' = "running" /\ UNCHANGED loading
     ELSE IF conf.elf_based
     THEN phase' = "ready" /\ loading' = FlattenSeq([i \in DOMAIN conf.files |-> Parts(conf.files[i])])
     ELSE phase' = "firmware" /\ UNCHANGED loading
  /\ UNCHANGED <<conf, board>>

BoardNext ==
  \/ InitMachine \/ AddVirtio \/ VirtioDone
  \/ LoadPart \/ Firmware \/ Entry \/ Kernel \/ Initrd \/ Bootrom \/ Ready

BoardSpec == BoardInit /\ [][BoardNext]_boardVars

-----------------------------------------------------------------------------
(* What was asked for, and what the guest finds. *)

Images == {conf.firmware} \cup (IF conf.elf_based THEN ToSet(conf.files) ELSE {})

Place(id, p, addr, len, size, own) ==
  [id |-> id, p |-> p, addr |-> addr, len |-> len, end |-> addr + size, own |-> own]

\* Every part of every image, where it belongs and what memory it takes.
Places ==
  UNION {{LET part == image.parts[p]
              own == image.kind = "elf" /\ part.vaddr \notin {conf.ram_base_addr, BOOT_BASE_ADDR}
          IN  Place(image.id, p, part.vaddr, part.filesz,
                    IF own THEN RoundedSize(part.memsz) ELSE part.memsz, own) :
            p \in DOMAIN image.parts} : image \in Images}
  \cup {Place(fw.id, 0, conf.ram_base_addr, fw.len, fw.len, FALSE) :
          fw \in {i \in {conf.firmware} : i.kind = "raw"}}
  \cup {Place("kernel", 0, conf.ram_base_addr + KERNEL_OFFSET, len, len, FALSE) :
          len \in {conf.kernel_len} \ {0}}
  \cup {Place("initrd", 0, conf.ram_base_addr + conf.ram_size - RoundedSize(len), len, len, FALSE) :
          len \in {conf.initrd_len} \ {0}}

Overlap(a, b) == a.addr < b.end /\ b.addr < a.end

\* Nothing overlaps, the last page of a segment included; what has no memory of
\* its own is inside RAM or the boot ROM, what has is not over a device.
WellPlaced ==
  /\ \A a, b \in Places : a # b => ~Overlap(a, b)
  /\ \A a \in Places : \A i \in DOMAIN board.map :
       LET r == board.map[i]
           meets == Overlap(a, [addr |-> r.addr, end |-> r.addr + r.size])
       IN  r.name # "segment" /\ meets =>
             IF a.own THEN r.name = "memory"
             ELSE is_ram(r) /\ r.addr <= a.addr /\ a.end <= r.addr + r.size
  /\ \A a \in Places : ~a.own => Holding(board.map, a.addr) # {}

(* Images that do not overlap are all in memory, complete, when the first
   instruction runs.  An ELF firmware is loaded three or four times, each time giving
   the segments memory that covers what was there, RAM the kernel and the initial
   disk are copied to included, and the boot ROM is generated in between.      *)
ImagesIntact ==
  phase \in {"running", "undefined"} /\ WellPlaced =>
    /\ phase = "running"
    /\ \A a \in Places : \A k \in 1..a.len : Peek(board.map, a.addr + k - 1) = <<a.id, a.p, k>>

-----------------------------------------------------------------------------
(* The device tree against the machine. *)

\* The enable words are numbered two to a hart, and there are as many as a board may have
\* harts: the contexts of the harts from the fifth on have none.  plic_update_mip: the
\* first of a hart's two is the supervisor's, the second the machine's.
NoHart == -1
ContextHart(ctx) == IF ctx < MAX_CPUS /\ ctx \div 2 < conf.ncpus THEN ctx \div 2 ELSE NoHart
Contexts == {ctx \in 0 .. (2 * conf.ncpus) - 1 : ContextHart(ctx) # NoHart}
ContextInterrupt(ctx) == IF ctx % 2 = 0 THEN 9 ELSE 11

CellsOf(tree, path, name) ==
  LET found == {f \in tree : f.path = path /\ f.name = name}
  IN  IF found = {} THEN <<>> ELSE (CHOOSE f \in found : TRUE).cells

AddressOf(cells) == (cells[1] * 2 ^ 21) + cells[2]

\* The nodes on the memory bus: those with a 64-bit address and size.
BusNodes(tree) == {f \in tree : f.name = "reg" /\ Len(f.cells) = 4}

\* The interrupt a node names, as a handle and a number; <<>> if it has none.
InterruptOf(tree, path) ==
  IF Last(path).s = "uart" THEN CellsOf(tree, path, "interrupt-parent") \o CellsOf(tree, path, "interrupts")
  ELSE IF Last(path).s = "virtio" THEN CellsOf(tree, path, "interrupts-extended")
  ELSE <<>>

HandleOf(tree, name) ==
  {f.cells : f \in {g \in tree : g.name = "phandle" /\ Last(g.path) = name}}

\* The handle of a hart's own controller.
IntcOf(tree, hart) ==
  {f.cells : f \in {g \in tree : g.name = "phandle" /\ Len(g.path) > 1
                                  /\ Front(g.path) = <<Text(""), Text("cpus"), TextNum("cpu", hart, 1)>>}}

NodeIsRange(tree, f, r) ==
  /\ Last(f.path).s = r.name
  /\ AddressOf(f.cells) = r.addr /\ AddressOf(SubSeq(f.cells, 3, 4)) = r.size
  /\ r.irq > 0 =>
       LET irq == InterruptOf(tree, f.path)
       IN  Len(irq) = 2 /\ HandleOf(tree, TextAt("plic", conf.plic_base_addr)) = {<<irq[1]>>} /\ irq[2] = r.irq

InBoot == \A u \in 1 .. Units(TreeOffset + board.dtb.totalsize) :
            Peek(board.map, ROM_BASE_ADDR + u - 1) = <<"boot", 0, u>>

(* The device tree the guest is handed describes the machine it runs on.  The
   boot code jumps to RAM with a1 at the tree (unless --compact_bootrom moved
   it), the tree is readable and ends inside the ROM; every device of the bus
   is one node, with the address its accesses go to and an interrupt source
   nobody else raises; the local controller's outputs name the controllers of the
   harts in their order, and so do the platform controller's in the order of its
   contexts.  The tree of a board with more than four harts also lists contexts the
   platform controller does not have; nothing is claimed of those.             *)
TreeDescribesBoard ==
  phase = "running" /\ board.dtb # <<>> /\ InBoot =>
    LET tree == ReadTree(board.dtb)
        plic == CellsOf(tree, <<Text(""), Text("soc"), TextAt("plic", conf.plic_base_addr)>>, "interrupts-extended")
        clint == CellsOf(tree, <<Text(""), Text("soc"), TextAt("clint", conf.clint_base_addr)>>, "interrupts-extended")
        told == {i \in DOMAIN board.map : board.map[i].name \notin {"rom", "sifive", "segment"}}
    IN  /\ BootTarget(conf.ram_base_addr) = conf.ram_base_addr
        /\ ~conf.compact_bootrom => TreeOffset = BootTreePointer
        /\ Unreadable \notin tree
        /\ \A f \in BusNodes(tree) :
             LET i == get_phys_mem_range(board.map, AddressOf(f.cells))
             IN  i \in told /\ NodeIsRange(tree, f, board.map[i])
        /\ \A i \in told : \E f \in BusNodes(tree) : NodeIsRange(tree, f, board.map[i])
        /\ \A i, j \in told : i # j /\ board.map[i].irq > 0 => board.map[i].irq # board.map[j].irq
        /\ Len(plic) = 4 * conf.ncpus /\ Len(clint) = 4 * conf.ncpus
        /\ \A ctx \in Contexts :
             /\ IntcOf(tree, ContextHart(ctx)) = {<<plic[(2 * ctx) + 1]>>}
             /\ plic[(2 * ctx) + 2] = ContextInterrupt(ctx)
        /\ \A hart \in 0 .. conf.ncpus - 1 :
             LET intc == IntcOf(tree, hart)
             IN  \E h \in intc : intc = {h} /\ SubSeq(clint, (4 * hart) + 1, (4 * hart) + 4) = h \o <<3>> \o h \o <<7>>
        /\ LET start == CellsOf(tree, <<Text(""), Text("chosen")>>, "linux,initrd-start")
               stop == CellsOf(tree, <<Text(""), Text("chosen")>>, "linux,initrd-end")
           IN  IF conf.initrd_len = 0 THEN start = <<>>
               ELSE /\ AddressOf(start) = board.initrd_start
                    /\ AddressOf(stop) >= board.initrd_start + conf.initrd_len
=============================================================================
