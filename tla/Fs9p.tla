-------------------------------- MODULE Fs9p --------------------------------
(* The virtio 9p device: requests on fids, each handled by a function of the filesystem
   on disk, which works on a small host filesystem.

   A host is a record: tree (path -> inode), kind (by inode), and two counts, of the FSFile
   objects allocated and of the host descriptors open; what files hold is left out.  An
   FSFile is a record: its path, whether and how it is open, and the inode open.  Every fs_
   function returns what it leaves: err, the host, the FSFile and a value.

   A request is a record with its operation, its arguments and whether the message is too
   short for its format.  The filesystem on disk completes every request at once: the
   request in progress of a filesystem that does not is left out. *)
EXTENDS Integers, Sequences, FiniteSets, FiniteSetsExt

-----------------------------------------------------------------------------
\* The filesystem on disk (src/fs_disk.cpp)

CONSTANTS Names,        \* the names of directory entries
          LinkTarget,   \* the path symbolic links hold
          MaxInodes     \* inodes the host has room for

ASSUME FsDiskAssumption ==
    IsFiniteSet(Names) /\ LinkTarget \in Seq(Names) /\ MaxInodes \in Nat \ {0}

Root == <<>>
OK == "ok"
NoInode == 0

P9Errors == {"EPERM", "ENOENT", "EIO", "EEXIST", "EINVAL", "ENOSPC", "ENOTEMPTY", "EPROTO", "ENOTSUP"}

errno_to_p9(e) == IF e \in P9Errors \cup {OK} THEN e ELSE "EINVAL"

compose_path(path, name) == Append(path, name)

EmptyHost == [tree |-> [p \in {Root} |-> 1], kind |-> <<"dir">>, files |-> 0, open |-> 0]

-----------------------------------------------------------------------------
(* The host's own calls.  Paths are at most two names long: only the first name may be a
   link on the way to another. *)

DirOf(p) == SubSeq(p, 1, Len(p) - 1)

\* p is q, or a directory on the way to it.
OnWay(p, q) == Len(p) <= Len(q) /\ p = SubSeq(q, 1, Len(p))

\* The order in which the host lists names, any one.
InOrder(names) ==
    CHOOSE s \in [1 .. Cardinality(names) -> names] : \A i, j \in DOMAIN s : s[i] = s[j] => i = j

KindAt(h, p) == h.kind[h.tree[p]]
IsLink(h, p) == p \in DOMAIN h.tree /\ KindAt(h, p) = "link"
IsDir(h, p) == p \in DOMAIN h.tree /\ KindAt(h, p) = "dir"

Walked(h, p) == IF Len(p) = 2 /\ IsLink(h, DirOf(p)) THEN Append(LinkTarget, p[2]) ELSE p
Followed(h, p) == IF IsLink(h, Walked(h, p)) THEN LinkTarget ELSE Walked(h, p)
Exists(h, p) == Walked(h, p) \in DOMAIN h.tree
Parent(h, p) == DirOf(Walked(h, p))
NotFound(h, p) == IF p # Root /\ ~IsDir(h, Parent(h, p)) THEN "ENOTDIR" ELSE "ENOENT"
Lstat(h, p) == IF Exists(h, p) THEN h.tree[Walked(h, p)] ELSE NoInode
Stat(h, p) == IF Followed(h, p) \in DOMAIN h.tree /\ ~IsLink(h, Followed(h, p))
              THEN h.tree[Followed(h, p)] ELSE NoInode

\* Every way to make an entry: the error, or OK.
MakeError(h, p) ==
    IF Exists(h, p) THEN "EEXIST"
    ELSE IF ~IsDir(h, Parent(h, p)) THEN NotFound(h, p)
    ELSE IF Len(h.kind) = MaxInodes THEN "ENOSPC" ELSE OK

Bind(tree, p, ino) == [q \in DOMAIN tree \cup {p} |-> IF q = p THEN ino ELSE tree[q]]

Make(h, p, kind) ==
    [h EXCEPT !.tree = Bind(@, Walked(h, p), Len(h.kind) + 1),
              !.kind = Append(@, kind)]

Below(h, p) == {q \in DOMAIN h.tree : OnWay(p, q)}

RemoveError(h, p) ==
    IF ~Exists(h, p) THEN NotFound(h, p)
    ELSE IF Below(h, Walked(h, p)) # {Walked(h, p)} THEN "ENOTEMPTY" ELSE OK

Without(tree, gone) == [q \in DOMAIN tree \ gone |-> tree[q]]

\* rename: onto an entry of its own sort, never into itself.
RenameError(h, p, q) ==
    LET src == Walked(h, p)
        dst == Walked(h, q)
    IN  IF ~Exists(h, p) THEN NotFound(h, p)
        ELSE IF ~IsDir(h, Parent(h, q)) THEN NotFound(h, q)
        ELSE IF OnWay(src, dst) /\ src # dst THEN "EINVAL"
        ELSE IF dst \notin DOMAIN h.tree \/ src = dst THEN OK
        ELSE IF IsDir(h, src) # IsDir(h, dst) THEN (IF IsDir(h, src) THEN "ENOTDIR" ELSE "EISDIR")
        ELSE IF Below(h, dst) # {dst} THEN "ENOTEMPTY" ELSE OK

Rename(h, p, q) ==
    LET src == Walked(h, p)
        dst == Walked(h, q)
        moved == {dst \o SubSeq(r, Len(src) + 1, Len(r)) : r \in Below(h, src)}
        kept == DOMAIN h.tree \ (Below(h, src) \cup {dst})
    IN  IF dst \in DOMAIN h.tree /\ h.tree[src] = h.tree[dst] THEN h
        ELSE [h EXCEPT !.tree = [r \in kept \cup moved |->
                  IF r \in moved THEN h.tree[src \o SubSeq(r, Len(dst) + 1, Len(r))]
                  ELSE h.tree[r]]]

\* The entries of a directory in the order the host lists them; none once it is removed.
Listing(h, ino) ==
    LET at == {p \in DOMAIN h.tree : h.tree[p] = ino}
        entries == {n \in Names : \E p \in at : Append(p, n) \in DOMAIN h.tree}
    IN  IF at = {} THEN <<>> ELSE <<".", "..">> \o InOrder(entries)

-----------------------------------------------------------------------------
(* The FSFile objects *)

Left(err, h, f, val) == [err |-> err, host |-> h, file |-> f, val |-> val]
Fails(h, f, errno) == Left(errno_to_p9(errno), h, f, NoInode)
Fine(h, f, val) == Left(OK, h, f, val)

NewFile(path) == [path |-> path, open |-> "no", ino |-> NoInode]
fid_create(h) == [h EXCEPT !.files = @ + 1]

fs_close(h, f) ==
    IF f.open = "no" THEN Fine(h, f, NoInode)
    ELSE Fine([h EXCEPT !.open = @ - 1], [f EXCEPT !.open = "no", !.ino = NoInode], NoInode)

fs_delete(h, f) == [fs_close(h, f).host EXCEPT !.files = @ - 1]

fs_attach(h) == IF Exists(h, Root) THEN Fine(fid_create(h), NewFile(Root), h.tree[Root])
                ELSE Fails(h, NewFile(Root), "ENOENT")

\* Names are followed as far as they exist.
WalkLength(h, path, names) ==
    CHOOSE n \in 0 .. Len(names) :
        /\ \A i \in 1 .. n : Exists(h, path \o SubSeq(names, 1, i))
        /\ n < Len(names) => ~Exists(h, path \o SubSeq(names, 1, n + 1))

fs_walk(h, f, names) ==
    LET n == WalkLength(h, f.path, names)
    IN  Fine(fid_create(h), NewFile(f.path \o SubSeq(names, 1, n)), n)

-----------------------------------------------------------------------------
(* Opening *)

Opens(h, f, how, ino) ==
    Fine([h EXCEPT !.open = @ + 1], [f EXCEPT !.open = how, !.ino = ino], ino)

\* A file opened anew is closed first, also when the new open fails.
fs_open(h0, f0, directory, write) ==
    LET h == fs_close(h0, f0).host
        f == fs_close(h0, f0).file
        ino == Stat(h, f.path)
    IN  IF ino = NoInode THEN Fails(h, f, NotFound(h, f.path))
        ELSE IF directory
        THEN IF h.kind[ino] = "dir" THEN Opens(h, f, "dir", ino) ELSE Fails(h, f, "ENOTDIR")
        ELSE IF write /\ h.kind[ino] = "dir" THEN Fails(h, f, "EISDIR")
        ELSE Opens(h, f, "fd", ino)

\* The value is the inode lstat finds: of the link, where the host followed one.  O_CREAT
\* makes the target of a link that leads nowhere.
\* Mutant: the fid keeps the path of the directory.
fs_create_OldPath(h0, f0, name, excl) ==
    LET h == fs_close(h0, f0).host
        f == fs_close(h0, f0).file
        path == compose_path(f.path, name)
        into(g, ino, val) == [Opens(g, f, "fd", ino) EXCEPT !.val = val]
    IN  IF ~Exists(h, path)
        THEN IF MakeError(h, path) # OK THEN Fails(h, f, MakeError(h, path))
             ELSE into(Make(h, path, "file"), Len(h.kind) + 1, Len(h.kind) + 1)
        ELSE IF excl THEN Fails(h, f, "EEXIST")
        ELSE IF Stat(h, path) = NoInode
        THEN IF IsLink(h, LinkTarget) THEN Fails(h, f, "ELOOP")
             ELSE IF MakeError(h, LinkTarget) # OK THEN Fails(h, f, MakeError(h, LinkTarget))
             ELSE into(Make(h, LinkTarget, "file"), Len(h.kind) + 1, Lstat(h, path))
        ELSE IF h.kind[Stat(h, path)] = "dir" THEN Fails(h, f, "EISDIR")
        ELSE into(h, Stat(h, path), Lstat(h, path))

fs_create(h0, f0, name, excl) ==
    LET h == fs_close(h0, f0).host
        f == fs_close(h0, f0).file
        path == compose_path(f.path, name)
        into(g, ino, val) == [Opens(g, [f EXCEPT !.path = path], "fd", ino) EXCEPT !.val = val]
    IN  IF ~Exists(h, path)
        THEN IF MakeError(h, path) # OK THEN Fails(h, f, MakeError(h, path))
             ELSE into(Make(h, path, "file"), Len(h.kind) + 1, Len(h.kind) + 1)
        ELSE IF excl THEN Fails(h, f, "EEXIST")
        ELSE IF Stat(h, path) = NoInode
        THEN IF IsLink(h, LinkTarget) THEN Fails(h, f, "ELOOP")
             ELSE IF MakeError(h, LinkTarget) # OK THEN Fails(h, f, MakeError(h, LinkTarget))
             ELSE into(Make(h, LinkTarget, "file"), Len(h.kind) + 1, Lstat(h, path))
        ELSE IF h.kind[Stat(h, path)] = "dir" THEN Fails(h, f, "EISDIR")
        ELSE into(h, Stat(h, path), Lstat(h, path))

-----------------------------------------------------------------------------
(* Entries *)

Makes(h, f, name, kind) ==
    LET path == compose_path(f.path, name)
    IN  IF MakeError(h, path) # OK THEN Fails(h, f, MakeError(h, path))
        ELSE Fine(Make(h, path, kind), f, Len(h.kind) + 1)

fs_mkdir(h, f, name) == Makes(h, f, name, "dir")
fs_symlink(h, f, name) == Makes(h, f, name, "link")
fs_mknod(h, f, name) == Makes(h, f, name, "file")

fs_link(h, df, f, name) ==
    LET path == compose_path(df.path, name)
    IN  IF ~Exists(h, f.path) THEN Fails(h, f, NotFound(h, f.path))
        ELSE IF Exists(h, path) THEN Fails(h, f, "EEXIST")
        ELSE IF ~IsDir(h, Parent(h, path)) THEN Fails(h, f, NotFound(h, path))
        ELSE IF h.kind[Lstat(h, f.path)] = "dir" THEN Fails(h, f, "EPERM")
        ELSE Fine([h EXCEPT !.tree = Bind(@, Walked(h, path), Lstat(h, f.path))], f, NoInode)

fs_readlink(h, f) ==
    IF ~Exists(h, f.path) THEN Fails(h, f, NotFound(h, f.path))
    ELSE IF h.kind[Lstat(h, f.path)] # "link" THEN Fails(h, f, "EINVAL")
    ELSE Fine(h, f, NoInode)

fs_renameat(h, f, name, g, new_name) ==
    LET path == compose_path(f.path, name)
        new_path == compose_path(g.path, new_name)
    IN  IF RenameError(h, path, new_path) # OK THEN Fails(h, f, RenameError(h, path, new_path))
        ELSE Fine(Rename(h, path, new_path), f, NoInode)

fs_unlinkat(h, f, name) ==
    LET path == compose_path(f.path, name)
    IN  IF RemoveError(h, path) # OK THEN Fails(h, f, RemoveError(h, path))
        ELSE Fine([h EXCEPT !.tree = Without(@, {Walked(h, path)})], f, NoInode)

-----------------------------------------------------------------------------
(* Reading and writing *)

\* Mutant: an entry that does not fit is passed over.
NextOffset_Past(listing, from, n) == IF from + n < Len(listing) THEN from + n + 1 ELSE from + n

\* The offset put beside the last entry that fits; the one after it is read again.
NextOffset(listing, from, n) == from + n

\* room is in entries: the value is what is returned and the offset to go on from.
fs_readdir(h, f, from, room) ==
    LET listing == Listing(h, f.ino)
        n == Min({room, Max({0, Len(listing) - from})})
    IN  IF f.open # "dir" THEN [err |-> "EPROTO", entries |-> <<>>, next |-> from]
        ELSE [err |-> OK, entries |-> SubSeq(listing, from + 1, from + n),
              next |-> NextOffset(listing, from, n)]

fs_read(h, f) ==
    IF f.open # "fd" THEN Fails(h, f, "EPROTO")
    ELSE IF h.kind[f.ino] = "dir" THEN Fails(h, f, "EISDIR")
    ELSE Fine(h, f, NoInode)

fs_write(h, f) == IF f.open # "fd" THEN Fails(h, f, "EPROTO")
                  ELSE IF h.kind[f.ino] = "dir" THEN Fails(h, f, "EBADF")
                  ELSE Fine(h, f, NoInode)

fs_stat(h, f) == IF Exists(h, f.path) THEN Fine(h, f, Lstat(h, f.path)) ELSE Fails(h, f, "ENOENT")

\* chown and utimensat act on a link itself, chmod and truncate on what it names; the
\* first that fails ends the call, with the ones before it done.
fs_setattr(h, f, size) ==
    IF ~Exists(h, f.path) THEN Fails(h, f, NotFound(h, f.path))
    ELSE IF ~size THEN Fine(h, f, NoInode)
    ELSE IF Stat(h, f.path) = NoInode THEN Fails(h, f, "ENOENT")
    ELSE IF h.kind[Stat(h, f.path)] = "dir" THEN Fails(h, f, "EISDIR")
    ELSE Fine(h, f, NoInode)

fs_lock(h, f) == IF f.open # "fd" THEN Fails(h, f, "EPROTO") ELSE Fine(h, f, NoInode)
fs_getlock(h, f) == fs_lock(h, f)

-----------------------------------------------------------------------------
\* The device

CONSTANTS Fids,
          Requests,     \* the requests the driver makes
          MaxDepth      \* bound: names in a path

NoFid == "none"

\* What a driver sends: names of entries, and room for one entry at least when it reads a
\* directory, since it takes an empty answer for the end.
ASSUME RequestsAssumption ==
    /\ NoFid \notin Fids
    /\ \A r \in Requests :
          /\ r.op \in {"lcreate", "symlink", "mknod", "mkdir", "link", "renameat", "unlinkat"} =>
                r.name \in Names
          /\ r.op = "renameat" => r.new_name \in Names
          /\ r.op = "walk" => r.names \in Seq(Names)
          /\ r.op = "readdir" => r.fid \in Fids /\ r.room \in Nat \ {0}

VARIABLES host,
          fid_list,         \* fid -> FSFile
          reply,            \* the error of the last reply, or OK
          bound,            \* history: the inode each fid was last told it is
          moved,            \* history: the fids with a rename or removal on their path
          page              \* history: the listing of a directory last begun

vars == <<host, fid_list, reply, bound, moved, page>>

NoPage == [fid |-> NoFid, next |-> 0, got |-> <<>>, over |-> FALSE]

Init ==
    /\ host = EmptyHost /\ reply = OK
    /\ fid_list = <<>> /\ bound = <<>> /\ moved = {} /\ page = NoPage

-----------------------------------------------------------------------------
(* Messages *)

\* A message must hold every field of its format.
unmarshall(r) == ~r.short

Found(r) == r.fid \in DOMAIN fid_list
File(r) == fid_list[r.fid]

\* virtio_9p_send_reply, and virtio_9p_send_error with an error.
Answer(err) == reply' = err

Refused(err) == Answer(err) /\ UNCHANGED <<host, fid_list, bound, moved, page>>

\* A listing is given up once its directory is changed.
PageAfter(h) ==
    IF page.fid = NoFid THEN page
    ELSE LET ino == fid_list[page.fid].ino
         IN  IF Listing(h, ino) = Listing(host, ino) THEN page ELSE NoPage

\* A fid that is opened, closed or bound anew has no listing in progress.
PageWithout(fid) == IF page.fid = fid THEN NoPage ELSE page

\* The end of a request that changes nothing but the host.
Settle(left) ==
    /\ Answer(left.err)
    /\ host' = left.host
    /\ page' = PageAfter(left.host)
    /\ UNCHANGED <<fid_list, bound>>

-----------------------------------------------------------------------------
(* The fid list *)

Put(f, fid, x) == [g \in DOMAIN f \cup {fid} |-> IF g = fid THEN x ELSE f[g]]

\* Mutant: the object a fid had is forgotten, not deleted.
fid_set_Drop(h, fid) == h

\* The host after fid_set has deleted the object the fid had.
fid_set(h, fid) == IF fid \in DOMAIN fid_list THEN fs_delete(h, fid_list[fid]) ELSE h

Binds(fid, h, f, ino) ==
    /\ host' = fid_set(h, fid)
    /\ fid_list' = Put(fid_list, fid, f)
    /\ bound' = Put(bound, fid, ino)
    /\ page' = PageWithout(fid)

fid_delete(fid) ==
    /\ host' = fs_delete(host, fid_list[fid])
    /\ fid_list' = Without(fid_list, {fid})
    /\ bound' = Without(bound, {fid})
    /\ page' = PageWithout(fid)
    /\ moved' = moved \ {fid}

Attach(r) ==
    /\ r.op = "attach"
    /\ IF ~unmarshall(r) THEN Refused("EPROTO")
       ELSE LET left == fs_attach(host)
            IN  /\ Answer(left.err)
                /\ Binds(r.fid, left.host, left.file, left.val)
                /\ moved' = moved \ {r.fid}

\* A walk that gets only part of the way is not an error: the new fid is left there.
Walk(r) ==
    /\ r.op = "walk"
    /\ IF ~Found(r) \/ ~unmarshall(r) THEN Refused("EPROTO")
       ELSE LET left == fs_walk(host, File(r), r.names)
            IN  /\ Answer(OK)
                /\ Binds(r.newfid, left.host, left.file,
                         IF left.val = 0 THEN bound[r.fid] ELSE Lstat(host, left.file.path))
                /\ moved' = IF left.val = 0 /\ r.fid \in moved THEN moved \cup {r.newfid}
                            ELSE moved \ {r.newfid}

Clunk(r) ==
    /\ r.op = "clunk"
    /\ IF ~unmarshall(r) THEN Refused("EPROTO")
       ELSE IF Found(r) THEN Answer(OK) /\ fid_delete(r.fid) ELSE Refused(OK)

-----------------------------------------------------------------------------
(* Opening *)

Lopen(r) ==
    /\ r.op = "lopen"
    /\ IF ~unmarshall(r) \/ ~Found(r) THEN Refused("EPROTO")
       ELSE LET left == fs_open(host, File(r), r.directory, r.write)
            IN  /\ Answer(left.err)
                /\ host' = left.host
                /\ fid_list' = [fid_list EXCEPT ![r.fid] = left.file]
                /\ page' = PageWithout(r.fid)
                /\ UNCHANGED <<bound, moved>>

Lcreate(r) ==
    /\ r.op = "lcreate"
    /\ IF ~unmarshall(r) \/ ~Found(r) THEN Refused("EPROTO")
       ELSE LET left == fs_create(host, File(r), r.name, r.excl)
            IN  /\ Answer(left.err)
                /\ host' = left.host
                /\ fid_list' = [fid_list EXCEPT ![r.fid] = left.file]
                /\ bound' = IF left.err = OK THEN Put(bound, r.fid, left.val) ELSE bound
                /\ moved' = IF left.err = OK THEN moved \ {r.fid} ELSE moved
                /\ page' = IF page.fid = r.fid THEN NoPage ELSE PageAfter(left.host)

-----------------------------------------------------------------------------
(* Operations on a path *)

\* The fids for which a rename or removal at p may change what their path names: p is on
\* the path, as written or as followed.  Where p is a link that is every fid, also one whose
\* path does not go through it.
OnPath(h, p) == {f \in DOMAIN fid_list : OnWay(Walked(h, p), Walked(h, fid_list[f].path))
                                           \/ OnWay(p, fid_list[f].path)
                                           \/ IsLink(h, Walked(h, p))}

MakeWith(r, left) ==
    IF ~unmarshall(r) \/ ~Found(r) THEN Refused("EPROTO")
    ELSE Settle(left) /\ UNCHANGED moved

Symlink(r) == r.op = "symlink" /\ MakeWith(r, fs_symlink(host, File(r), r.name))
Mknod(r) == r.op = "mknod" /\ MakeWith(r, fs_mknod(host, File(r), r.name))
Mkdir(r) == r.op = "mkdir" /\ MakeWith(r, fs_mkdir(host, File(r), r.name))

Both(r) == Found(r) /\ r.other \in DOMAIN fid_list

Link(r) ==
    /\ r.op = "link"
    /\ IF ~unmarshall(r) \/ ~Both(r) THEN Refused("EPROTO")
       ELSE Settle(fs_link(host, File(r), fid_list[r.other], r.name)) /\ UNCHANGED moved

Renameat(r) ==
    /\ r.op = "renameat"
    /\ IF ~unmarshall(r) \/ ~Both(r) THEN Refused("EPROTO")
       ELSE LET to == fid_list[r.other]
                left == fs_renameat(host, File(r), r.name, to, r.new_name)
            IN  /\ Settle(left)
                /\ moved' = IF left.err = OK
                            THEN moved \cup OnPath(host, compose_path(File(r).path, r.name))
                                       \cup OnPath(host, compose_path(to.path, r.new_name))
                            ELSE moved

Unlinkat(r) ==
    /\ r.op = "unlinkat"
    /\ IF ~unmarshall(r) \/ ~Found(r) THEN Refused("EPROTO")
       ELSE LET left == fs_unlinkat(host, File(r), r.name)
            IN  /\ Settle(left)
                /\ moved' = IF left.err = OK
                            THEN moved \cup OnPath(host, compose_path(File(r).path, r.name))
                            ELSE moved

-----------------------------------------------------------------------------
(* Operations on a file *)

OnFile(r, left) ==
    IF ~unmarshall(r) \/ ~Found(r) THEN Refused("EPROTO")
    ELSE Settle(left) /\ UNCHANGED moved

Readlink(r) == r.op = "readlink" /\ OnFile(r, fs_readlink(host, File(r)))
Getattr(r) == r.op = "getattr" /\ OnFile(r, fs_stat(host, File(r)))
Setattr(r) == r.op = "setattr" /\ OnFile(r, fs_setattr(host, File(r), r.size))
Read(r) == r.op = "read" /\ OnFile(r, fs_read(host, File(r)))
Write(r) == r.op = "write" /\ OnFile(r, fs_write(host, File(r)))
Lock(r) == r.op = "lock" /\ OnFile(r, fs_lock(host, File(r)))
Getlock(r) == r.op = "getlock" /\ OnFile(r, fs_getlock(host, File(r)))

\* The driver reads one directory at a time, from its start on; it goes on from the offset
\* of the last entry it was given, and begins again when nothing was returned.
Readdir(r) ==
    /\ r.op = "readdir"
    /\ IF ~unmarshall(r) \/ ~Found(r) THEN Refused("EPROTO")
       ELSE LET so_far == IF page.fid = r.fid /\ ~page.over THEN page ELSE [NoPage EXCEPT !.fid = r.fid]
                left == fs_readdir(host, File(r), so_far.next, r.room)
            IN  /\ Answer(left.err)
                /\ page' = IF left.err # OK THEN page
                           ELSE [so_far EXCEPT !.next = left.next, !.got = @ \o left.entries,
                                               !.over = left.entries = <<>>]
                /\ UNCHANGED <<host, fid_list, bound, moved>>

(* Requests that touch no file; the message size version settles is only told back *)

Plainly(r) == IF ~unmarshall(r) THEN Refused("EPROTO") ELSE Refused(OK)

Statfs(r) == r.op = "statfs" /\ Refused(OK)
Fsync(r) == r.op = "fsync" /\ Plainly(r)
Flush(r) == r.op = "flush" /\ Plainly(r)
Version(r) == r.op = "version" /\ Plainly(r)
Xattrwalk(r) == r.op = "xattrwalk" /\ Refused("ENOTSUP")
Unsupported(r) == r.op = "unknown" /\ Refused("EPROTO")

-----------------------------------------------------------------------------
virtio_9p_recv_request(r) ==
    \/ Attach(r) \/ Walk(r) \/ Clunk(r) \/ Lopen(r) \/ Lcreate(r) \/ Symlink(r) \/ Mknod(r)
    \/ Mkdir(r) \/ Link(r) \/ Renameat(r) \/ Unlinkat(r) \/ Readlink(r) \/ Getattr(r)
    \/ Setattr(r) \/ Read(r) \/ Write(r) \/ Lock(r) \/ Getlock(r) \/ Readdir(r) \/ Statfs(r)
    \/ Fsync(r) \/ Flush(r) \/ Version(r) \/ Xattrwalk(r) \/ Unsupported(r)

InBounds == /\ \A p \in DOMAIN host.tree : Len(p) <= MaxDepth
            /\ \A f \in DOMAIN fid_list : Len(fid_list[f].path) <= MaxDepth

Next == (\E r \in Requests : virtio_9p_recv_request(r)) /\ InBounds'

Spec == Init /\ [][Next]_vars

-----------------------------------------------------------------------------
(* Properties *)

\* Objects and host descriptors are neither leaked nor lost: every FSFile belongs to one
\* fid and every descriptor to one open FSFile, whatever opens over an open file, walks
\* and attaches onto a fid in use, creations that fail after closing, and clunks.
FilesOwned ==
    /\ host.files = Cardinality(DOMAIN fid_list)
    /\ host.open = Cardinality({f \in DOMAIN fid_list : fid_list[f].open # "no"})

\* A fid's path names the inode the client was told, until a rename or a removal on that
\* path: neither requests on other fids nor failing ones change what a fid is.
PathNamesFile ==
    \A f \in DOMAIN fid_list \ moved : Lstat(host, fid_list[f].path) = bound[f]

\* Reading a directory in pieces returns every entry once and in order, however little
\* fits each time, if the directory stays as it is.
ListingComplete ==
    page.over => page.got = Listing(host, fid_list[page.fid].ino)

\* The fids are sound: what the client was told about one by walk, lcreate and readdir
\* stays true while it holds it, and each owns its file object and descriptor alone.
FidsSound == FilesOwned /\ PathNamesFile /\ ListingComplete
=============================================================================
