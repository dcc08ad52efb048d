------------------------------- MODULE MCFiles -------------------------------
(* How files of the host enter the guest: the images and the device tree that are
   loaded before it starts, and the file system it mounts.  They share no state, so
   every behaviour is one of the two parts.

   The file system: two fids, two names, paths of at most two names. *)
EXTENDS Fs9p, Board

VARIABLE part

On(op) == {[op |-> op, fid |-> f, short |-> FALSE] : f \in Fids}
Named(op, names) == {[op |-> op, fid |-> f, name |-> n, short |-> FALSE] : f \in Fids, n \in names}
Walks == {<<>>, <<"a">>, <<"b">>, <<"a", "b">>}

AllRequests ==
    UNION {On(op) : op \in {"attach", "clunk", "read", "write", "getattr", "readlink", "lock", "getlock"}}
    \cup Named("mkdir", {"a"}) \cup Named("symlink", {"b"}) \cup Named("mknod", {"b"})
    \cup Named("unlinkat", Names)
    \cup {[op |-> op, short |-> FALSE] :
             op \in {"statfs", "fsync", "flush", "version", "xattrwalk", "unknown"}}
    \cup {[op |-> "walk", fid |-> f, newfid |-> g, names |-> w, short |-> FALSE] :
             f \in Fids, g \in Fids, w \in Walks}
    \cup {[op |-> "walk", fid |-> f, newfid |-> f, names |-> <<"a">>, short |-> TRUE] : f \in Fids}
    \cup {[op |-> "lopen", fid |-> f, directory |-> d, write |-> ~d, short |-> FALSE] :
             f \in Fids, d \in BOOLEAN}
    \cup {[op |-> "lcreate", fid |-> f, name |-> "b", excl |-> e, short |-> FALSE] :
             f \in Fids, e \in BOOLEAN}
    \cup {[op |-> "setattr", fid |-> f, size |-> b, short |-> FALSE] : f \in Fids, b \in BOOLEAN}
    \cup {[op |-> "readdir", fid |-> f, room |-> 2, short |-> FALSE] : f \in Fids}
    \cup {[op |-> "link", fid |-> fg[1], other |-> fg[2], name |-> "b", short |-> FALSE] :
             fg \in {x \in Fids \X Fids : x[1] # x[2]}}
    \cup {[op |-> "renameat", fid |-> f, name |-> "a", other |-> g, new_name |-> "b", short |-> FALSE] :
             f \in Fids, g \in Fids}

Target == <<"a">>

(* Boards small enough to enumerate: RAM of twelve pages with the kernel four
   pages up, at two of the bases the boot code knows and one it does not; every
   number of devices at its limits, and images that fit, overlap or do not fit. *)
Seg(vaddr, filesz, memsz) == [vaddr |-> vaddr, filesz |-> filesz, memsz |-> memsz]
Elf(id, entry, parts) == [id |-> id, kind |-> "elf", len |-> 3, entry |-> entry, parts |-> parts]
Raw(len) == [id |-> "fw", kind |-> "raw", len |-> len, entry |-> 0, parts |-> <<>>]
Hex(id, parts) == [id |-> id, kind |-> "hex", len |-> 2, entry |-> 0, parts |-> parts]
None == [id |-> "none", kind |-> "none", len |-> 0, entry |-> 0, parts |-> <<>>]

Base == 2 ^ 20

Plain == [ncpus |-> 1, ram_base_addr |-> Base, ram_size |-> 24,
          clint_base_addr |-> 16384, clint_size |-> 384, plic_base_addr |-> 131072, plic_size |-> 16384,
          eth_count |-> 0, drive_count |-> 0, fs_count |-> 0, input_device |-> "none",
          firmware |-> Raw(3), kernel_len |-> 0, initrd_len |-> 0, cmd_line |-> "console=hvc0 root=/dev/vda rw",
          bootrom_name |-> "", compact_bootrom |-> FALSE, elf_based |-> FALSE, files |-> <<>>]

\* The devices of a board, at and under every limit.
DeviceConfigs ==
  {[Plain EXCEPT !.ncpus = n, !.eth_count = e, !.drive_count = d, !.fs_count = f, !.input_device = i] :
     n \in {1, 2}, e \in {0, 1}, d \in {0, 4}, f \in {0, 1, 4}, i \in {"none", "virtio"}}
  \cup {[Plain EXCEPT !.ncpus = 7, !.eth_count = 1, !.drive_count = 4, !.fs_count = 4, !.input_device = "virtio",
                      !.ram_base_addr = b, !.initrd_len = 3, !.compact_bootrom = c] :
          b \in {2 ^ 20, 2 ^ 28, 3 * 2 ^ 27, 2 ^ 22}, c \in BOOLEAN}
  \cup {[Plain EXCEPT !.ncpus = 8], [Plain EXCEPT !.input_device = "other"]}

\* What an ELF file may consist of: the start of RAM, memory further up, in or
\* out of RAM, and the boot ROM.
Segs == {Seg(Base, 2, 3), Seg(Base + 3, 1, 1), Seg(Base + 4, 1, 3), Seg(Base + 7, 1, 2),
         Seg(Base + 32, 2, 5), Seg(BOOT_BASE_ADDR, 1, 1)}
Firmwares == {Raw(3), Raw(10), Raw(25), None}
             \cup {Elf("fw", e, <<a, b>>) : e \in {Base, BOOT_BASE_ADDR}, a, b \in Segs}

LoadConfigs ==
  {[Plain EXCEPT !.firmware = fw, !.kernel_len = k, !.initrd_len = i, !.bootrom_name = n] :
     fw \in Firmwares, k \in {0, 16, 20}, i \in {0, 3, 25}, n \in {"", "file"}}
  \cup {[Plain EXCEPT !.bootrom_name = "missing"], [Plain EXCEPT !.kernel_len = 1, !.ram_size = 8]}

\* The files of a command line, the firmware first.
FileConfigs ==
  {[Plain EXCEPT !.elf_based = TRUE, !.firmware = fw, !.files = <<fw, x>>] :
     fw \in {Elf("fw", Base, <<a>>) : a \in Segs} \cup {Hex("fw", <<Seg(Base, 1, 1), Seg(Base + 1, 1, 1)>>)},
     x \in {Elf("more", Base, <<a>>) : a \in Segs}
           \cup {Hex("more", <<Seg(v, 1, 1)>>) : v \in {Base + 5, 131072, 64}} \cup {Raw(1)}}
  \cup {[Plain EXCEPT !.elf_based = TRUE, !.firmware = fw, !.files = <<fw>>] :
          fw \in {Elf("fw", Base, [i \in 1..n |-> Seg(Base + (4 * i), 1, 1)]) : n \in {8, 9}}}

MCConfigs == DeviceConfigs \cup LoadConfigs \cup FileConfigs

\* The board is left out while files are served.
NoBoard == conf = <<>> /\ phase = "init" /\ loading = <<>> /\ round = 1 /\ board = <<>>

MCInit ==
    /\ Init
    /\ part \in {"mount", "board"}
    /\ IF part = "board" THEN BoardInit ELSE NoBoard

MCNext ==
    \/ part = "mount" /\ Next /\ UNCHANGED <<part, boardVars>>
    \/ part = "board" /\ BoardNext /\ UNCHANGED <<part, vars>>

MCSpec == MCInit /\ [][MCNext]_<<part, vars, boardVars>>

\* The last reply decides nothing that follows.
View ==
    <<part, IF part = "mount" THEN <<host, fid_list, bound, moved, page>> ELSE boardVars>>

Symmetric == Permutations(Fids)
=============================================================================
