------------------------------- MODULE FsProofs -------------------------------
(* The fids of the 9p device are sound, whatever the driver asks for: FidsSound.

   The invariant FsInv says in addition that the tree of the host is one (every path in it
   leads through directories from the root), that the path of a fid that no rename or
   removal touched is there, and how far the listing in progress has come.  PathProofs says
   what each request does to paths and counts; here the counts are counted, and directories
   are read. *)
EXTENDS PathProofs, FiniteSetTheorems

-----------------------------------------------------------------------------
(* The invariant *)

OpenFids(l) == {f \in DOMAIN l : l[f].open # "no"}

Counted(h, l) ==
    /\ IsFiniteSet(DOMAIN l)
    /\ h.files = Cardinality(DOMAIN l) /\ h.open = Cardinality(OpenFids(l))

FsInv ==
    /\ PathOK(host, fid_list, bound, moved)
    /\ Counted(host, fid_list)
    /\ PageOK(page, host, fid_list)

-----------------------------------------------------------------------------
(* Walks end *)

LEMMA Least == ASSUME NEW S, S \subseteq Nat, S # {} PROVE \E n \in S : \A m \in S : n <= m
<1>1. PICK R : R = OpToRel(<, Nat)
  BY Zenon
<1>2. \A x, y \in Nat : x < y => <<x, y>> \in R
  BY <1>1 DEF OpToRel
<1>3. IsWellFoundedOn(R, Nat)
  BY <1>1, NatLessThanWellFounded, Zenon
<1>4. PICK x \in S : \A y \in S : ~ (<<y, x>> \in R)
  BY <1>3, WFMin, Zenon
<1>5. \A y \in S : y \in Nat /\ x \in Nat /\ ~(y < x)
  BY <1>2, <1>4, Zenon
<1>6. \A y \in S : x <= y
  BY <1>5
<1> QED BY <1>4, <1>6, Zenon

LEMMA WalksEnd ==
    ASSUME NEW h, NEW path, NEW names \in Seq(Names) PROVE Walkable(h, path, names)
<1>1. Len(names) \in Nat
  BY LenNat, Zenon
<1>2. PICK S : S = {n \in 0 .. Len(names) : n < Len(names) => ~Exists(h, path \o SubSeq(names, 1, n + 1))}
  BY Zenon
<1>3. Len(names) \in S
  BY <1>1, <1>2
<1>4. S \subseteq Nat
  BY <1>1, <1>2
<1>5. PICK n \in S : \A m \in S : n <= m
  BY <1>3, <1>4, Least, Zenon
<1>6. n \in 0 .. Len(names) /\ (n < Len(names) => ~Exists(h, path \o SubSeq(names, 1, n + 1)))
  BY <1>2, <1>5, Zenon
<1>7. ASSUME NEW i \in 1 .. n PROVE Exists(h, path \o SubSeq(names, 1, i))
  <2>1. PICK k : k = i - 1
    BY Zenon
  <2>2. k \in 0 .. Len(names) /\ k < Len(names) /\ k + 1 = i /\ ~(n <= k)
    BY <1>1, <1>6, <2>1
  <2>3. k \notin S
    BY <1>5, <2>2, Zenon
  <2> QED BY <1>2, <2>2, <2>3, Zenon
<1> QED BY <1>6, <1>7, Zenon DEF Walkable, Ends

-----------------------------------------------------------------------------
(* Objects and descriptors *)

LEMMA CountType ==
    ASSUME NEW h, NEW l, Counted(h, l)
    PROVE  /\ IsFiniteSet(OpenFids(l)) /\ Cardinality(OpenFids(l)) \in Nat
           /\ Cardinality(DOMAIN l) \in Nat
<1>1. OpenFids(l) \in SUBSET DOMAIN l /\ IsFiniteSet(DOMAIN l)
  BY Zenon DEF OpenFids, Counted
<1>2. IsFiniteSet(OpenFids(l))
  BY <1>1, FS_Subset, Zenon
<1> QED BY <1>1, <1>2, FS_CardinalityType, Zenon

\* The open fids, once fid x has object f.
WithOpen(S, x, f) == IF f.open = "no" THEN S \ {x} ELSE (S \ {x}) \cup {x}

LEMMA CountWith ==
    ASSUME NEW S, IsFiniteSet(S), NEW x, NEW f
    PROVE  Cardinality(WithOpen(S, x, f)) = Cardinality(S \ {x}) + Was(f)
<1>1. IsFiniteSet(S \ {x}) /\ Cardinality(S \ {x}) \in Nat
  BY FS_RemoveElement, FS_CardinalityType, Zenon
<1>2. Cardinality((S \ {x}) \cup {x}) = Cardinality(S \ {x}) + 1
  BY <1>1, FS_AddElement, Zenon
<1>3. Cardinality(S \ {x}) + 0 = Cardinality(S \ {x})
  BY <1>1
<1> QED BY <1>2, <1>3, Zenon DEF Was, WithOpen

LEMMA OpenReplaced ==
    ASSUME NEW l, NEW l2, NEW fid, NEW f, Replaced(l, l2, fid, f)
    PROVE  OpenFids(l2) = WithOpen(OpenFids(l), fid, f)
<1>1. \A x : x \in OpenFids(l2) <=> x \in WithOpen(OpenFids(l), fid, f)
  <2>1. CASE f.open = "no"
    BY <2>1, Zenon DEF OpenFids, Replaced, WithOpen
  <2>2. CASE f.open # "no"
    BY <2>2, Zenon DEF OpenFids, Replaced, WithOpen
  <2> QED BY <2>1, <2>2, Zenon
<1> QED BY <1>1, Zenon

LEMMA OpenWithout ==
    ASSUME NEW h, NEW l, Counted(h, l), NEW fid
    PROVE  Cardinality(OpenFids(l) \ {fid}) =
              Cardinality(OpenFids(l)) - (IF fid \in DOMAIN l THEN Was(l[fid]) ELSE 0)
<1>1. IsFiniteSet(OpenFids(l)) /\ Cardinality(OpenFids(l)) \in Nat
  BY CountType, Zenon
<1>2. Cardinality(OpenFids(l) \ {fid}) =
         IF fid \in OpenFids(l) THEN Cardinality(OpenFids(l)) - 1 ELSE Cardinality(OpenFids(l))
  BY <1>1, FS_RemoveElement, Zenon
<1>3. Cardinality(OpenFids(l)) = Cardinality(OpenFids(l)) - 0
  BY <1>1
<1>4. fid \in OpenFids(l) <=> fid \in DOMAIN l /\ l[fid].open # "no"
  BY Zenon DEF OpenFids
<1> QED BY <1>2, <1>3, <1>4, Zenon DEF Was

LEMMA CountedReplaced ==
    ASSUME NEW h, NEW l, Counted(h, l), NEW l2, NEW fid, NEW f, Replaced(l, l2, fid, f), NEW h2,
           NewCounts(h, h2, l, fid, f)
    PROVE  Counted(h2, l2)
<1>1. /\ IsFiniteSet(DOMAIN l) /\ h.files = Cardinality(DOMAIN l)
      /\ h.open = Cardinality(OpenFids(l)) /\ DOMAIN l2 = DOMAIN l \cup {fid}
  BY Zenon DEF Counted, Replaced
<1>2. IsFiniteSet(OpenFids(l)) /\ Cardinality(DOMAIN l) \in Nat
  BY CountType, Zenon
<1>3. IsFiniteSet(DOMAIN l2) /\ h2.files = Cardinality(DOMAIN l2)
  <2>1. /\ IsFiniteSet(DOMAIN l \cup {fid})
        /\ Cardinality(DOMAIN l \cup {fid}) =
              IF fid \in DOMAIN l THEN Cardinality(DOMAIN l) ELSE Cardinality(DOMAIN l) + 1
    BY <1>1, FS_AddElement, Zenon
  <2>2. Cardinality(DOMAIN l) + 0 = Cardinality(DOMAIN l)
    BY <1>2
  <2> QED BY <1>1, <2>1, <2>2, Zenon DEF NewCounts
<1>4. h2.open = Cardinality(OpenFids(l2))
  <2>1. Cardinality(OpenFids(l2)) = Cardinality(OpenFids(l) \ {fid}) + Was(f)
    <3>1. OpenFids(l2) = WithOpen(OpenFids(l), fid, f)
      BY OpenReplaced
    <3>2. Cardinality(WithOpen(OpenFids(l), fid, f)) = Cardinality(OpenFids(l) \ {fid}) + Was(f)
      BY <1>2, CountWith
    <3> QED BY <3>1, <3>2, Zenon
  <2>2. Cardinality(OpenFids(l) \ {fid}) =
           h.open - (IF fid \in DOMAIN l THEN Was(l[fid]) ELSE 0)
    BY <1>1, OpenWithout, Zenon
  <2> QED BY <2>1, <2>2, Zenon DEF NewCounts
<1> QED BY <1>3, <1>4, Zenon DEF Counted

LEMMA CountedDropped ==
    ASSUME NEW h, NEW l, Counted(h, l), NEW l2, NEW fid \in DOMAIN l, Dropped(l, l2, fid), NEW h2,
           h2.files = h.files - 1, h2.open = h.open - Was(l[fid])
    PROVE  Counted(h2, l2)
<1>1. /\ IsFiniteSet(DOMAIN l) /\ h.files = Cardinality(DOMAIN l)
      /\ h.open = Cardinality(OpenFids(l)) /\ DOMAIN l2 = DOMAIN l \ {fid}
  BY Zenon DEF Counted, Dropped
<1>2. IsFiniteSet(DOMAIN l2) /\ h2.files = Cardinality(DOMAIN l2)
  BY <1>1, FS_RemoveElement, Zenon
<1>3. OpenFids(l2) = OpenFids(l) \ {fid}
  BY Zenon DEF OpenFids, Dropped
<1>4. h2.open = Cardinality(OpenFids(l2))
  BY <1>1, <1>3, OpenWithout, Zenon
<1> QED BY <1>2, <1>4, Zenon DEF Counted

LEMMA CountedStep ==
    ASSUME NEW h, NEW l, Counted(h, l), NEW h2, NEW l2, Owes(h, h2, l, l2) PROVE Counted(h2, l2)
<1>1. CASE SameCounts(h, h2) /\ l2 = l
  BY <1>1, Zenon DEF SameCounts, Counted
<1>2. CASE \E fid, f : Replaced(l, l2, fid, f) /\ NewCounts(h, h2, l, fid, f)
  BY <1>2, CountedReplaced, Zenon
<1>3. CASE \E fid \in DOMAIN l : /\ Dropped(l, l2, fid)
                                /\ h2.files = h.files - 1 /\ h2.open = h.open - Was(l[fid])
  BY <1>3, CountedDropped, Zenon
<1> QED BY <1>1, <1>2, <1>3, Zenon DEF Owes

-----------------------------------------------------------------------------
(* Reading a directory *)

LEMMA InOrderIs ==
    ASSUME NEW names, names \subseteq Names PROVE InOrder(names) \in Seq(Entries)
<1>1. IsFiniteSet(names)
  BY FsDiskAssumption, FS_Subset, Zenon
<1>2. PICK n : n = Cardinality(names)
  BY Zenon
<1>3. n \in Nat /\ ExistsBijection(1 .. n, names)
  BY <1>1, <1>2, FS_CardinalityType, Zenon
<1>4. PICK s : s \in Bijection(1 .. n, names)
  BY <1>3, Zenon DEF ExistsBijection
<1>5. s \in [1 .. n -> names] /\ \A i, j \in DOMAIN s : s[i] = s[j] => i = j
  BY <1>4, Zenon DEF Bijection, Injection, IsInjective
<1>6. InOrder(names) \in [1 .. n -> names]
  BY <1>2, <1>5, Zenon DEF InOrder
<1>7. PICK t : t = InOrder(names)
  BY Zenon
<1>8. t \in [1 .. n -> Entries]
  BY <1>6, <1>7 DEF Entries
<1> QED BY <1>3, <1>7, <1>8

LEMMA ListingIs == ASSUME NEW h, NEW ino PROVE Listing(h, ino) \in Seq(Entries)
<1>1. PICK at : at = {p \in DOMAIN h.tree : h.tree[p] = ino}
  BY Zenon
<1>2. PICK names : names = {n \in Names : \E p \in at : Append(p, n) \in DOMAIN h.tree}
  BY Zenon
<1>3. Listing(h, ino) = IF at = {} THEN <<>> ELSE <<".", "..">> \o InOrder(names)
  BY <1>1, <1>2, Zenon DEF Listing
<1>4. InOrder(names) \in Seq(Entries)
  BY <1>2, InOrderIs, Zenon
<1>5. <<".", "..">> \in Seq(Entries)
  BY DEF Entries
<1>6. <<>> \in Seq(Entries) /\ \A s, t \in Seq(Entries) : s \o t \in Seq(Entries)
  OBVIOUS
<1> QED BY <1>3, <1>4, <1>5, <1>6, Zenon

-----------------------------------------------------------------------------
(* Every request *)

LEMMA PageKept ==
    ASSUME NEW g, NEW h, NEW l, PageOK(g, h, l), NEW g2, NEW h2, NEW l2,
           ListingKept(g, g2, h, h2, l, l2)
    PROVE  PageOK(g2, h2, l2)
<1>1. CASE g2 = NoPage
  <2>1. g2.fid = NoFid /\ ~g2.over
    BY <1>1, Zenon DEF NoPage
  <2> QED BY <2>1, Zenon DEF PageOK
<1>2. CASE g2 # NoPage
  <2>1. /\ g2 = g
        /\ g.fid # NoFid =>
              /\ g.fid \in DOMAIN l2 /\ l2[g.fid] = l[g.fid]
              /\ Listing(h2, l[g.fid].ino) = Listing(h, l[g.fid].ino)
    BY <1>2, Zenon DEF ListingKept
  <2> QED BY <2>1, Zenon DEF PageOK
<1> QED BY <1>1, <1>2, Zenon

LEMMA FsStep == ASSUME FsInv, [Next]_vars PROVE FsInv'
<1>1. PathInv
  BY Zenon DEF FsInv, PathInv, PageOK
<1>2. ASSUME Handled PROVE FsInv'
  <2>1. Counted(host', fid_list')
    BY <1>2, CountedStep, Zenon DEF FsInv, Handled
  <2>2. PageOK(page', host', fid_list')
    BY <1>2, PageKept, Zenon DEF FsInv, Handled
  <2> QED BY <1>2, <2>1, <2>2, Zenon DEF FsInv, Handled
<1>3. ASSUME NEW r \in Requests, Readdir(r) PROVE FsInv'
  <2>1. \A i : Listing(host, i) \in Seq(Entries)
    BY ListingIs, Zenon
  <2>2. UNCHANGED <<host, fid_list, bound, moved>> /\ PageOK(page', host, fid_list)
    BY <1>1, <1>3, <2>1, ReaddirStep, Zenon DEF FsInv
  <2>3. host' = host /\ fid_list' = fid_list /\ bound' = bound /\ moved' = moved
    BY <2>2, Zenon
  <2> QED BY <2>2, <2>3, Zenon DEF FsInv
<1>4. ASSUME NEW r \in Requests, virtio_9p_recv_request(r), ~Readdir(r) PROVE FsInv'
  <2>1. \A path, names \in Seq(Names) : Walkable(host, path, names)
    BY WalksEnd, Zenon
  <2> QED BY <1>1, <1>2, <1>4, <2>1, RequestStep, Zenon
<1>5. CASE UNCHANGED vars
  BY <1>1, <1>2, <1>5, NothingDone, Zenon DEF vars
<1> QED BY <1>3, <1>4, <1>5, Zenon DEF Next

LEMMA FsInit == Init => FsInv
<1> SUFFICES ASSUME Init PROVE FsInv
  OBVIOUS
<1>1. /\ host = EmptyHost /\ fid_list = <<>> /\ bound = <<>> /\ page = NoPage
  BY Zenon DEF Init
<1>2. DOMAIN <<>> = {}
  OBVIOUS
<1>3. HostOK(host)
  <2>1. /\ host.tree = [p \in {Root} |-> 1] /\ host.kind = <<"dir">> /\ host.files = 0 /\ host.open = 0
        /\ host = [tree |-> host.tree, kind |-> host.kind, files |-> host.files, open |-> host.open]
    BY <1>1 DEF EmptyHost
  <2>2. Len(<<"dir">>) = 1 /\ <<"dir">> \in Seq({"dir", "link", "file"}) /\ 0 \in Int /\ 1 \in 1 .. 1
    OBVIOUS
  <2>3. Root \in Seq(Names) /\ Len(Root) = 0
    BY DEF Root
  <2>4. DOMAIN host.tree = {Root} /\ host.tree \in [DOMAIN host.tree -> 1 .. Len(host.kind)]
    BY <2>1, <2>2
  <2>5. HostShape(host)
    BY <2>1, <2>2, <2>3, <2>4, Zenon DEF HostShape
  <2>6. Closed(host)
    <3>1. 0 .. Len(Root) - 1 = {}
      BY <2>3
    <3> QED BY <2>4, <3>1, Zenon DEF Closed
  <2> QED BY <2>5, <2>6, Zenon DEF HostOK
<1>4. PathOK(host, fid_list, bound, moved)
  BY <1>1, <1>2, <1>3, Zenon DEF PathOK
<1>5. Counted(host, fid_list)
  <2>1. OpenFids(fid_list) = {} /\ DOMAIN fid_list = {}
    BY <1>1, <1>2, Zenon DEF OpenFids
  <2>2. host.files = 0 /\ host.open = 0
    BY <1>1 DEF EmptyHost
  <2> QED BY <2>1, <2>2, FS_EmptySet, Zenon DEF Counted
<1>6. PageOK(page, host, fid_list)
  <2>1. page.fid = NoFid /\ ~page.over
    BY <1>1, Zenon DEF NoPage
  <2> QED BY <2>1, Zenon DEF PageOK
<1> QED BY <1>4, <1>5, <1>6, Zenon DEF FsInv

LEMMA FsSound == FsInv => FidsSound
<1> SUFFICES ASSUME FsInv PROVE FidsSound
  OBVIOUS
<1>1. FilesOwned
  BY Zenon DEF FsInv, Counted, OpenFids, FilesOwned
<1>2. PathNamesFile
  <2>1. ASSUME NEW f \in DOMAIN fid_list \ moved PROVE Lstat(host, fid_list[f].path) = bound[f]
    <3>1. LeadsTo(host, fid_list[f].path, bound[f])
      BY Zenon DEF FsInv, PathOK
    <3> QED BY <3>1, Zenon DEF LeadsTo, Lstat, Exists
  <2> QED BY <2>1, Zenon DEF PathNamesFile
<1>3. ListingComplete
  <2>1. ASSUME page.over PROVE page.got = Listing(host, fid_list[page.fid].ino)
    <3>1. PICK all : all = Listing(host, fid_list[page.fid].ino)
      BY Zenon
    <3>2. Came(page, all)
      BY <2>1, <3>1, Zenon DEF FsInv, PageOK
    <3>3. page.got = SubSeq(all, 1, Len(all))
      BY <2>1, <3>2, Zenon DEF Came
    <3>4. all \in Seq(Entries)
      BY <3>1, ListingIs, Zenon
    <3>5. SubSeq(all, 1, Len(all)) = all
      BY <3>4
    <3> QED BY <3>1, <3>3, <3>5, Zenon
  <2> QED BY <2>1, Zenon DEF ListingComplete
<1> QED BY <1>1, <1>2, <1>3, Zenon DEF FidsSound

\* For any names, links, number of inodes and requests in any order, the fids are sound:
\* virtio_9p_recv_request and the fs_ functions neither leak nor lose a file object or a
\* descriptor, no request on other fids changes what the path of a fid names, and reading a
\* directory in pieces returns every entry once.
THEOREM FidsTheorem == Spec => []FidsSound
<1>1. FsInv /\ [Next]_vars => FsInv'
  BY FsStep, Zenon
<1> QED BY <1>1, FsInit, FsSound, PTL DEF Spec
=============================================================================
