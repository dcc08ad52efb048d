------------------------------ MODULE PathProofs ------------------------------
(* What each request of the 9p device does to the paths of the fids, to the counts of file
   objects and descriptors, and to a listing in progress.

   PathOK says that the tree of the host is one (every path in it leads through directories
   from the root) and that the path of a fid that no rename or removal touched is there and
   leads to what the client was told.  A lemma per fs_ function says what it leaves, and one
   per request that it keeps PathOK, that the counts follow the list of fids (Owes) and that
   the listing in progress is kept or given up (ListingKept). *)
EXTENDS Fs9p, TLAPS

-----------------------------------------------------------------------------
(* The invariant *)

HostShape(h) ==
    /\ h = [tree |-> h.tree, kind |-> h.kind, files |-> h.files, open |-> h.open]
    /\ h.files \in Int /\ h.open \in Int
    /\ h.kind \in Seq({"dir", "link", "file"})
    /\ h.tree \in [DOMAIN h.tree -> 1 .. Len(h.kind)]
    /\ DOMAIN h.tree \subseteq Seq(Names)
    /\ Root \in DOMAIN h.tree

\* A path of the tree leads through directories.
Closed(h) == \A p \in DOMAIN h.tree : \A n \in 0 .. Len(p) - 1 : IsDir(h, SubSeq(p, 1, n))

HostOK(h) == HostShape(h) /\ Closed(h)

FileShape(f) ==
    /\ f = [path |-> f.path, open |-> f.open, ino |-> f.ino]
    /\ f.path \in Seq(Names)

\* The path p is there, and leads to the inode i.
LeadsTo(h, p, i) == Walked(h, p) \in DOMAIN h.tree /\ h.tree[Walked(h, p)] = i

\* The paths of the fids lead to what they are bound to, except those of the fids in m.
PathOK(h, l, b, m) ==
    /\ HostOK(h)
    /\ \A f \in DOMAIN l : FileShape(l[f])
    /\ DOMAIN b = DOMAIN l
    /\ \A f \in DOMAIN l \ m : LeadsTo(h, l[f].path, b[f])

-----------------------------------------------------------------------------
(* Reading a directory *)

Joined(S, p, q) ==
    /\ p \o q \in Seq(S)
    /\ Len(p \o q) = Len(p) + Len(q)
    /\ \A k \in 1 .. Len(p) : (p \o q)[k] = p[k]
    /\ \A k \in 1 .. Len(q) : (p \o q)[Len(p) + k] = q[k]

LEMMA ConcatSeq == ASSUME NEW S, NEW p \in Seq(S), NEW q \in Seq(S) PROVE Joined(S, p, q)
<1>1. p \o q \in Seq(S) /\ Len(p \o q) = Len(p) + Len(q)
  OBVIOUS
<1>2. \A k \in 1 .. Len(p) : (p \o q)[k] = p[k]
  OBVIOUS
<1>3. ASSUME NEW k \in 1 .. Len(q) PROVE (p \o q)[Len(p) + k] = q[k]
  <2>1. PICK n : n = Len(p) + k
    OBVIOUS
  <2>2. n \in 1 .. Len(p) + Len(q) /\ ~(n <= Len(p)) /\ n - Len(p) = k
    BY <2>1
  <2>3. (p \o q)[n] = q[n - Len(p)]
    BY <2>2
  <2> QED BY <2>1, <2>2, <2>3, Zenon
<1> QED BY <1>1, <1>2, <1>3, Zenon DEF Joined

Entries == Names \cup {".", ".."}

PageIs(g, fid, next, got, over) == g = [fid |-> fid, next |-> next, got |-> got, over |-> over]

\* The listing g has come to an entry of all, and holds the ones before it.
Came(g, all) ==
    /\ PageIs(g, g.fid, g.next, g.got, g.over)
    /\ g.next \in 0 .. Len(all) /\ g.got = SubSeq(all, 1, g.next)
    /\ g.over => g.next = Len(all)

PageOK(g, h, l) ==
    IF g.fid = NoFid THEN ~g.over
    ELSE g.fid \in DOMAIN l /\ Came(g, Listing(h, l[g.fid].ino))

\* How many entries are returned.
LEMMA PieceLength ==
    ASSUME NEW room \in Nat \ {0}, NEW d \in Int, NEW n, n = Min({room, Max({0, d})})
    PROVE  n \in Nat /\ (d >= 0 => n <= d) /\ (n = 0 => d <= 0)
<1>1. PICK m : m = Max({0, d})
  BY Zenon
<1>2. m \in {0, d} /\ m >= 0 /\ m >= d
  <2>1. \E x \in {0, d} : \A y \in {0, d} : x >= y
    <3>1. CASE d <= 0
      BY <3>1
    <3>2. CASE ~(d <= 0)
      BY <3>2
    <3> QED BY <3>1, <3>2, Zenon
  <2>2. m \in {0, d} /\ \A y \in {0, d} : m >= y
    BY <1>1, <2>1, Zenon DEF Max
  <2> QED BY <2>2, Zenon
<1>3. m \in Int
  BY <1>2
<1>4. n \in {room, m} /\ n <= room /\ n <= m
  <2>1. \E x \in {room, m} : \A y \in {room, m} : x <= y
    <3>1. CASE room <= m
      BY <1>3, <3>1
    <3>2. CASE ~(room <= m)
      BY <1>3, <3>2
    <3> QED BY <3>1, <3>2, Zenon
  <2>2. n \in {room, m} /\ \A y \in {room, m} : n <= y
    BY <1>1, <2>1, Zenon DEF Min
  <2> QED BY <2>2, Zenon
<1> QED BY <1>2, <1>3, <1>4

Piece(all, from, n) ==
    /\ SubSeq(all, 1, from) \o SubSeq(all, from + 1, from + n) = SubSeq(all, 1, from + n)
    /\ SubSeq(all, from + 1, from + n) = <<>> => n = 0

LEMMA Pieces ==
    ASSUME NEW all \in Seq(Entries), NEW from \in 0 .. Len(all), NEW n \in Nat, from + n <= Len(all)
    PROVE  Piece(all, from, n)
<1>1. PICK a, b, c : /\ a = SubSeq(all, 1, from) /\ b = SubSeq(all, from + 1, from + n)
                     /\ c = SubSeq(all, 1, from + n)
  BY Zenon
<1>2. Len(all) \in Nat /\ from \in Nat /\ from + n \in Nat
  OBVIOUS
<1>3. a \in Seq(Entries) /\ Len(a) = from /\ \A i \in 1 .. from : a[i] = all[i]
  BY <1>1, <1>2
<1>4. b \in Seq(Entries) /\ Len(b) = n /\ \A i \in 1 .. n : b[i] = all[from + i]
  BY <1>1, <1>2
<1>5. c \in Seq(Entries) /\ Len(c) = from + n /\ \A i \in 1 .. from + n : c[i] = all[i]
  BY <1>1, <1>2
<1>6. PICK d : d = a \o b
  BY Zenon
<1>7. Joined(Entries, a, b)
  BY <1>3, <1>4, ConcatSeq, Zenon
<1>8. d \in Seq(Entries) /\ Len(d) = from + n
  BY <1>3, <1>4, <1>6, <1>7, Zenon DEF Joined
<1>9. ASSUME NEW i \in 1 .. from + n PROVE d[i] = c[i]
  <2>1. CASE i <= from
    <3>1. i \in 1 .. from
      BY <1>2, <2>1
    <3>2. d[i] = a[i]
      BY <1>3, <1>6, <1>7, <3>1, Zenon DEF Joined
    <3> QED BY <1>3, <1>5, <3>1, <3>2, Zenon
  <2>2. CASE ~(i <= from)
    <3>1. PICK k : k = i - from
      BY Zenon
    <3>2. k \in 1 .. n /\ from + k = i
      BY <1>2, <2>2, <3>1
    <3>3. d[from + k] = b[k]
      <4>1. k \in 1 .. Len(b)
        BY <1>4, <3>2, Zenon
      <4>2. (a \o b)[Len(a) + k] = b[k]
        BY <1>7, <4>1, Zenon DEF Joined
      <4> QED BY <1>3, <1>6, <4>2, Zenon
    <3> QED BY <1>4, <1>5, <3>2, <3>3, Zenon
  <2> QED BY <2>1, <2>2, Zenon
<1>10. d = c
  BY <1>5, <1>8, <1>9
<1>11. b = <<>> => n = 0
  BY <1>4
<1> QED BY <1>1, <1>6, <1>10, <1>11, Zenon DEF Piece

LEMMA PageFields ==
    ASSUME NEW g, NEW a, NEW b, NEW c, NEW d, PageIs(g, a, b, c, d)
    PROVE  g.fid = a /\ g.next = b /\ g.got = c /\ g.over = d /\ PageIs(g, g.fid, g.next, g.got, g.over)
  BY DEF PageIs

LEMMA PageSet ==
    ASSUME NEW g, NEW a, NEW b, NEW c, NEW d, PageIs(g, a, b, c, d), NEW x, NEW y, NEW z
    PROVE  PageIs([g EXCEPT !.next = x, !.got = y, !.over = z], a, x, y, z)
<1>1. [g EXCEPT !.next = x, !.got = y, !.over = z]
         = [[[g EXCEPT !.next = x] EXCEPT !.got = y] EXCEPT !.over = z]
  BY Zenon
<1>2. PICK g1, g2 : g1 = [g EXCEPT !.next = x] /\ g2 = [g1 EXCEPT !.got = y]
  BY Zenon
<1>3. g1 = [fid |-> a, next |-> x, got |-> c, over |-> d]
  BY <1>2 DEF PageIs
<1>4. g2 = [fid |-> a, next |-> x, got |-> y, over |-> d]
  <2>1. g2 = [g1 EXCEPT !.got = y]
    BY <1>2, Zenon
  <2> QED BY <1>3, <2>1
<1>5. [g2 EXCEPT !.over = z] = [fid |-> a, next |-> x, got |-> y, over |-> z]
  BY <1>4
<1> QED BY <1>1, <1>2, <1>5, Zenon DEF PageIs

\* Nothing comes back at the end only.
Ended(over, e) == over => e = <<>>

\* One piece more.
LEMMA CameFurther ==
    ASSUME NEW all \in Seq(Entries), NEW g, Came(g, all), NEW room \in Nat \ {0},
           NEW n, n = Min({room, Max({0, Len(all) - g.next})}),
           NEW e, e = SubSeq(all, g.next + 1, g.next + n), NEW g2, NEW o, Ended(o, e),
           PageIs(g2, g.fid, g.next + n, g.got \o e, o)
    PROVE  Came(g2, all)
<1>1. PICK from : from = g.next
  BY Zenon
<1>2. from \in 0 .. Len(all) /\ g.got = SubSeq(all, 1, from) /\ Len(all) \in Nat
  <2>1. Len(all) \in Nat
    OBVIOUS
  <2> QED BY <1>1, <2>1, Zenon DEF Came
<1>3. Len(all) - from \in Int /\ Len(all) - from >= 0
  BY <1>2
<1>4. n \in Nat /\ n <= Len(all) - from /\ (n = 0 => Len(all) - from <= 0)
  <2>1. PICK d : d = Len(all) - from
    BY Zenon
  <2>2. d \in Int /\ n = Min({room, Max({0, d})})
    BY <1>1, <1>3, <2>1, Zenon
  <2>3. n \in Nat /\ (d >= 0 => n <= d) /\ (n = 0 => d <= 0)
    BY <2>2, PieceLength, Zenon
  <2> QED BY <1>3, <2>1, <2>3, Zenon
<1>5. from + n <= Len(all) /\ from + n \in 0 .. Len(all) /\ (n = 0 => from + n = Len(all))
  BY <1>2, <1>4
<1>6. /\ SubSeq(all, 1, from) \o SubSeq(all, from + 1, from + n) = SubSeq(all, 1, from + n)
      /\ SubSeq(all, from + 1, from + n) = <<>> => n = 0
  BY <1>2, <1>4, <1>5, Pieces, Zenon DEF Piece
<1>7. /\ g2.fid = g.fid /\ g2.next = from + n /\ g2.got = g.got \o e /\ g2.over = o
      /\ PageIs(g2, g2.fid, g2.next, g2.got, g2.over)
  <2>1. PICK a, b, c : a = g.fid /\ b = g.next + n /\ c = g.got \o e
    BY Zenon
  <2>2. PageIs(g2, a, b, c, o)
    BY <2>1, Zenon
  <2>3. /\ g2.fid = a /\ g2.next = b /\ g2.got = c /\ g2.over = o
        /\ PageIs(g2, g2.fid, g2.next, g2.got, g2.over)
    BY <2>2, PageFields, Zenon
  <2> QED BY <1>1, <2>1, <2>3, Zenon
<1> QED BY <1>1, <1>2, <1>5, <1>6, <1>7, Zenon DEF Came, Ended

\* The listing begins.
LEMMA CameFirst ==
    ASSUME NEW all \in Seq(Entries), NEW fid, NEW g, g = [NoPage EXCEPT !.fid = fid]
    PROVE  Came(g, all) /\ ~g.over /\ g.fid = fid
<1>1. PICK o : o = FALSE
  BY Zenon
<1>2. PICK p : p = [fid |-> NoFid, next |-> 0, got |-> <<>>, over |-> o]
  BY Zenon
<1>3. p = NoPage
  BY <1>1, <1>2, Zenon DEF NoPage
<1>4. PageIs([p EXCEPT !.fid = fid], fid, 0, <<>>, o)
  BY <1>2 DEF PageIs
<1>5. /\ g.fid = fid /\ g.next = 0 /\ g.got = <<>> /\ g.over = o
      /\ PageIs(g, g.fid, g.next, g.got, g.over)
  BY <1>3, <1>4, PageFields, Zenon
<1>6. 0 \in 0 .. Len(all) /\ SubSeq(all, 1, 0) = <<>>
  OBVIOUS
<1> QED BY <1>1, <1>5, <1>6, Zenon DEF Came

-----------------------------------------------------------------------------
(* Paths *)

LEMMA LenNat ==
    ASSUME NEW q \in Seq(Names)
    PROVE  /\ Len(q) \in Nat /\ (q # <<>> => Len(q) \in Nat \ {0})
           /\ \A k \in 1 .. Len(q) : q[k] \in Names
  OBVIOUS

LEMMA SeqEqual ==
    ASSUME NEW p \in Seq(Names), NEW q \in Seq(Names), Len(p) = Len(q),
           \A k \in 1 .. Len(p) : p[k] = q[k]
    PROVE  p = q
  OBVIOUS

LEMMA CutIs ==
    ASSUME NEW q \in Seq(Names), NEW n \in 0 .. Len(q)
    PROVE  /\ SubSeq(q, 1, n) \in Seq(Names)
           /\ Len(SubSeq(q, 1, n)) = n
           /\ \A k \in 1 .. n : SubSeq(q, 1, n)[k] = q[k]
  OBVIOUS

LEMMA RestIs ==
    ASSUME NEW q \in Seq(Names), NEW n \in 0 .. Len(q)
    PROVE  /\ SubSeq(q, n + 1, Len(q)) \in Seq(Names)
           /\ Len(SubSeq(q, n + 1, Len(q))) = Len(q) - n
           /\ \A k \in 1 .. Len(q) - n : SubSeq(q, n + 1, Len(q))[k] = q[n + k]
  OBVIOUS

LEMMA ConcatIs ==
    ASSUME NEW p \in Seq(Names), NEW q \in Seq(Names)
    PROVE  /\ p \o q \in Seq(Names)
           /\ Len(p \o q) = Len(p) + Len(q)
           /\ \A k \in 1 .. Len(p) : (p \o q)[k] = p[k]
           /\ \A k \in 1 .. Len(q) : (p \o q)[Len(p) + k] = q[k]
<1>1. Joined(Names, p, q)
  BY ConcatSeq, Zenon
<1> QED BY <1>1, Zenon DEF Joined

LEMMA AppendIs ==
    ASSUME NEW p \in Seq(Names), NEW e \in Names
    PROVE  Append(p, e) \in Seq(Names) /\ Append(p, e) # <<>>
<1>1. Append(p, e) \in Seq(Names)
  OBVIOUS
<1>2. Len(Append(p, e)) = Len(p) + 1 /\ Len(p) + 1 # 0
  OBVIOUS
<1>3. Len(<<>>) = 0
  OBVIOUS
<1> QED BY <1>1, <1>2, <1>3, Zenon

\* What it is to be on the way, name by name.
LEMMA PrefixIs ==
    ASSUME NEW p \in Seq(Names), NEW q \in Seq(Names)
    PROVE  OnWay(p, q) <=> Len(p) <= Len(q) /\ \A k \in 1 .. Len(p) : p[k] = q[k]
<1>1. ASSUME Len(p) <= Len(q)
      PROVE  p = SubSeq(q, 1, Len(p)) <=> \A k \in 1 .. Len(p) : p[k] = q[k]
  <2>1. Len(p) \in 0 .. Len(q)
    BY <1>1
  <2>2. PICK c \in Seq(Names) : c = SubSeq(q, 1, Len(p)) /\ Len(c) = Len(p)
                                /\ \A k \in 1 .. Len(p) : c[k] = q[k]
    BY <2>1, CutIs, Zenon
  <2>3. p = c <=> \A k \in 1 .. Len(p) : p[k] = c[k]
    BY <2>2, SeqEqual, Zenon
  <2> QED BY <2>2, <2>3, Zenon
<1> QED BY <1>1, Zenon DEF OnWay

LEMMA PrefixIsCut ==
    ASSUME NEW p \in Seq(Names), NEW q \in Seq(Names), OnWay(p, q)
    PROVE  p = SubSeq(q, 1, Len(p)) /\ Len(p) \in 0 .. Len(q)
  BY LenNat DEF OnWay

LEMMA CutPrefix ==
    ASSUME NEW q \in Seq(Names), NEW n \in 0 .. Len(q)
    PROVE  OnWay(SubSeq(q, 1, n), q)
<1>1. PICK c \in Seq(Names) : c = SubSeq(q, 1, n) /\ Len(c) = n /\ \A k \in 1 .. n : c[k] = q[k]
  BY CutIs, Zenon
<1>2. Len(c) <= Len(q) /\ \A k \in 1 .. Len(c) : c[k] = q[k]
  BY <1>1
<1> QED BY <1>1, <1>2, PrefixIs, Zenon

LEMMA PrefixTrans ==
    ASSUME NEW p \in Seq(Names), NEW q \in Seq(Names), NEW r \in Seq(Names),
           OnWay(p, q), OnWay(q, r)
    PROVE  OnWay(p, r)
  BY PrefixIs

LEMMA PrefixSame ==
    ASSUME NEW p \in Seq(Names), NEW q \in Seq(Names), OnWay(p, q), Len(p) = Len(q)
    PROVE  p = q
  BY PrefixIs, SeqEqual, Zenon

LEMMA PrefixSelf == ASSUME NEW p \in Seq(Names) PROVE OnWay(p, p)
  BY PrefixIs

LEMMA CutCut ==
    ASSUME NEW q \in Seq(Names), NEW n \in 0 .. Len(q), NEW m \in 0 .. n
    PROVE  SubSeq(SubSeq(q, 1, n), 1, m) = SubSeq(q, 1, m)
<1>1. PICK c \in Seq(Names) : c = SubSeq(q, 1, n) /\ Len(c) = n /\ \A k \in 1 .. n : c[k] = q[k]
  BY CutIs, Zenon
<1>2. m \in 0 .. Len(c) /\ m \in 0 .. Len(q)
  BY <1>1
<1>3. PICK d \in Seq(Names) : d = SubSeq(c, 1, m) /\ Len(d) = m /\ \A k \in 1 .. m : d[k] = c[k]
  BY <1>2, CutIs, Zenon
<1>4. PICK e \in Seq(Names) : e = SubSeq(q, 1, m) /\ Len(e) = m /\ \A k \in 1 .. m : e[k] = q[k]
  BY <1>2, CutIs, Zenon
<1>5. \A k \in 1 .. m : d[k] = e[k]
  BY <1>1, <1>3, <1>4
<1>6. d = e
  BY <1>3, <1>4, <1>5, SeqEqual, Zenon
<1> QED BY <1>1, <1>3, <1>4, <1>6, Zenon

\* The path s with its prefix a replaced by b.
Swap(s, a, b) == b \o SubSeq(s, Len(a) + 1, Len(s))

\* t is s with its prefix a replaced by b, element by element.
Swapped(t, s, a, b) ==
    /\ t \in Seq(Names)
    /\ Len(t) = Len(b) + (Len(s) - Len(a))
    /\ \A k \in 1 .. Len(b) : t[k] = b[k]
    /\ \A k \in 1 .. Len(s) - Len(a) : t[Len(b) + k] = s[Len(a) + k]

LEMMA SwapElements ==
    ASSUME NEW s \in Seq(Names), NEW a \in Seq(Names), NEW b \in Seq(Names), OnWay(a, s)
    PROVE  Swapped(Swap(s, a, b), s, a, b)
<1>1. Len(a) \in 0 .. Len(s)
  BY PrefixIsCut, Zenon
<1>2. PICK d \in Seq(Names) : /\ d = SubSeq(s, Len(a) + 1, Len(s))
                              /\ Len(d) = Len(s) - Len(a)
                              /\ \A k \in 1 .. Len(s) - Len(a) : d[k] = s[Len(a) + k]
  BY <1>1, RestIs, Zenon
<1>3. PICK t \in Seq(Names) :
         /\ t = b \o d
         /\ Len(t) = Len(b) + Len(d)
         /\ \A k \in 1 .. Len(b) : t[k] = b[k]
         /\ \A k \in 1 .. Len(d) : t[Len(b) + k] = d[k]
  <2>1. b \o d \in Seq(Names) /\ Len(b \o d) = Len(b) + Len(d)
    BY ConcatIs, Zenon
  <2>2. /\ \A k \in 1 .. Len(b) : (b \o d)[k] = b[k]
        /\ \A k \in 1 .. Len(d) : (b \o d)[Len(b) + k] = d[k]
    BY ConcatIs, Zenon
  <2> QED BY <2>1, <2>2, Zenon
<1>4. t = Swap(s, a, b)
  BY <1>2, <1>3, Zenon DEF Swap
<1> QED BY <1>2, <1>3, <1>4, Zenon DEF Swapped

LEMMA SwapBack ==
    ASSUME NEW s \in Seq(Names), NEW a \in Seq(Names), NEW b \in Seq(Names), OnWay(a, s),
           NEW t, Swapped(t, s, a, b)
    PROVE  OnWay(b, t) /\ Swap(t, b, a) = s
<1>1. /\ t \in Seq(Names)
      /\ Len(t) = Len(b) + (Len(s) - Len(a))
      /\ \A k \in 1 .. Len(b) : t[k] = b[k]
      /\ \A k \in 1 .. Len(s) - Len(a) : t[Len(b) + k] = s[Len(a) + k]
  BY Zenon DEF Swapped
<1>2. Len(a) \in 0 .. Len(s) /\ Len(b) \in Nat /\ Len(s) \in Nat
  BY PrefixIsCut, LenNat, Zenon
<1>3. \A k \in 1 .. Len(a) : a[k] = s[k]
  BY PrefixIs, Zenon
<1>4. Len(b) <= Len(t) /\ Len(t) - Len(b) = Len(s) - Len(a) /\ Len(a) + (Len(s) - Len(a)) = Len(s)
  BY <1>1, <1>2
<1>5. OnWay(b, t)
  BY <1>1, <1>4, PrefixIs, Zenon
<1>6. Swapped(Swap(t, b, a), t, b, a)
  BY <1>1, <1>5, SwapElements, Zenon
<1>7. PICK u \in Seq(Names) :
         /\ u = Swap(t, b, a)
         /\ Len(u) = Len(s)
         /\ \A k \in 1 .. Len(a) : u[k] = a[k]
         /\ \A k \in 1 .. Len(s) - Len(a) : u[Len(a) + k] = t[Len(b) + k]
  BY <1>4, <1>6, Zenon DEF Swapped
<1>8. ASSUME NEW k \in 1 .. Len(s) PROVE u[k] = s[k]
  <2>1. CASE k <= Len(a)
    <3>1. k \in 1 .. Len(a)
      BY <1>2, <2>1
    <3> QED BY <1>3, <1>7, <3>1, Zenon
  <2>2. CASE ~(k <= Len(a))
    <3>1. PICK j \in 1 .. Len(s) - Len(a) : k = Len(a) + j
      <4>1. k - Len(a) \in 1 .. Len(s) - Len(a) /\ k = Len(a) + (k - Len(a))
        BY <1>2, <2>2
      <4> QED BY <4>1, Zenon
    <3> QED BY <1>1, <1>7, <3>1, Zenon
  <2> QED BY <2>1, <2>2, Zenon
<1>9. u = s
  BY <1>7, <1>8, SeqEqual, Zenon
<1> QED BY <1>5, <1>7, <1>9, Zenon

\* A prefix of a swapped path is a prefix of b, or a swapped prefix.
LEMMA SwapCutShort ==
    ASSUME NEW s \in Seq(Names), NEW a \in Seq(Names), NEW b \in Seq(Names), OnWay(a, s),
           NEW t, Swapped(t, s, a, b), NEW n \in 0 .. Len(b)
    PROVE  SubSeq(t, 1, n) = SubSeq(b, 1, n)
<1>1. t \in Seq(Names)
  BY Zenon DEF Swapped
<1>a. OnWay(b, t)
  BY SwapBack, Zenon
<1>2. b = SubSeq(t, 1, Len(b)) /\ Len(b) \in 0 .. Len(t)
  BY <1>1, <1>a, PrefixIsCut, Zenon
<1>3. SubSeq(SubSeq(t, 1, Len(b)), 1, n) = SubSeq(t, 1, n)
  BY <1>1, <1>2, CutCut, Zenon
<1> QED BY <1>2, <1>3, Zenon

LEMMA SwapCutLong ==
    ASSUME NEW s \in Seq(Names), NEW a \in Seq(Names), NEW b \in Seq(Names), OnWay(a, s),
           NEW t, Swapped(t, s, a, b), NEW n \in 0 .. Len(t), n >= Len(b),
           NEW m, m = Len(a) + (n - Len(b))
    PROVE  /\ m \in 0 .. Len(s)
           /\ n < Len(t) => m < Len(s)
           /\ OnWay(a, SubSeq(s, 1, m))
           /\ SubSeq(t, 1, n) = Swap(SubSeq(s, 1, m), a, b)
<1>1. /\ t \in Seq(Names)
      /\ Len(t) = Len(b) + (Len(s) - Len(a))
      /\ \A k \in 1 .. Len(b) : t[k] = b[k]
      /\ \A k \in 1 .. Len(s) - Len(a) : t[Len(b) + k] = s[Len(a) + k]
  BY Zenon DEF Swapped
<1>2. Len(a) \in 0 .. Len(s) /\ Len(b) \in Nat /\ Len(s) \in Nat
  BY PrefixIsCut, LenNat, Zenon
<1>3. /\ m \in 0 .. Len(s) /\ m - Len(a) = n - Len(b) /\ Len(a) <= m
      /\ Len(b) + (m - Len(a)) = n
      /\ n < Len(t) => m < Len(s)
  BY <1>1, <1>2
<1>4. PICK c \in Seq(Names) : c = SubSeq(s, 1, m) /\ Len(c) = m /\ \A k \in 1 .. m : c[k] = s[k]
  <2>1. m \in 0 .. Len(s)
    BY <1>3, Zenon
  <2> QED BY <2>1, CutIs, Zenon
<1>5. \A k \in 1 .. Len(a) : a[k] = s[k]
  BY PrefixIs, Zenon
<1>6. \A k \in 1 .. Len(a) : a[k] = c[k]
  BY <1>2, <1>3, <1>4, <1>5
<1>7. OnWay(a, c)
  BY <1>3, <1>4, <1>6, PrefixIs, Zenon
<1>8. Swapped(Swap(c, a, b), c, a, b)
  BY <1>7, SwapElements, Zenon
<1>9. PICK u \in Seq(Names) :
         /\ u = Swap(c, a, b)
         /\ Len(u) = n
         /\ \A k \in 1 .. Len(b) : u[k] = b[k]
         /\ \A k \in 1 .. m - Len(a) : u[Len(b) + k] = c[Len(a) + k]
  <2>1. PICK u : u = Swap(c, a, b) /\ Swapped(u, c, a, b)
    BY <1>8, Zenon
  <2>2. /\ u \in Seq(Names)
        /\ Len(u) = Len(b) + (m - Len(a))
        /\ \A k \in 1 .. Len(b) : u[k] = b[k]
        /\ \A k \in 1 .. m - Len(a) : u[Len(b) + k] = c[Len(a) + k]
    BY <1>4, <2>1, Zenon DEF Swapped
  <2>3. Len(u) = n
    BY <1>3, <2>2, Zenon
  <2> QED BY <2>1, <2>2, <2>3, Zenon
<1>10. PICK v \in Seq(Names) : v = SubSeq(t, 1, n) /\ Len(v) = n /\ \A k \in 1 .. n : v[k] = t[k]
  BY <1>1, CutIs, Zenon
<1>11. ASSUME NEW k \in 1 .. n PROVE u[k] = t[k]
  <2>1. CASE k <= Len(b)
    <3>1. k \in 1 .. Len(b)
      BY <1>2, <2>1
    <3> QED BY <1>1, <1>9, <3>1, Zenon
  <2>2. CASE ~(k <= Len(b))
    <3>1. PICK j \in 1 .. m - Len(a) : k = Len(b) + j
      <4>1. k - Len(b) \in 1 .. m - Len(a) /\ k = Len(b) + (k - Len(b))
        BY <1>2, <1>3, <2>2
      <4> QED BY <4>1, Zenon
    <3>2. j \in 1 .. Len(s) - Len(a) /\ Len(a) + j \in 1 .. m
      BY <1>2, <1>3, <3>1
    <3> QED BY <1>1, <1>4, <1>9, <3>1, <3>2, Zenon
  <2> QED BY <2>1, <2>2, Zenon
<1>12. \A k \in 1 .. n : u[k] = v[k]
  BY <1>10, <1>11, Zenon
<1>13. u = v
  BY <1>9, <1>10, <1>12, SeqEqual, Zenon
<1> QED BY <1>3, <1>4, <1>7, <1>9, <1>10, <1>13, Zenon

-----------------------------------------------------------------------------
(* What the host does to its tree *)

LEMMA LinkTargetPath == LinkTarget \in Seq(Names)
  BY FsDiskAssumption, Zenon

LEMMA DirOfIs ==
    ASSUME NEW p \in Seq(Names), p # Root
    PROVE  /\ Len(p) \in Nat \ {0} /\ Len(p) - 1 \in 0 .. Len(p)
           /\ DirOf(p) = SubSeq(p, 1, Len(p) - 1) /\ DirOf(p) \in Seq(Names)
           /\ Len(DirOf(p)) = Len(p) - 1
<1>1. Len(p) \in Nat \ {0}
  BY LenNat, Zenon DEF Root
<1>2. Len(p) - 1 \in 0 .. Len(p)
  BY <1>1
<1> QED BY <1>1, <1>2, CutIs, Zenon DEF DirOf

LEMMA WalkedPath ==
    ASSUME NEW h, NEW p \in Seq(Names)
    PROVE  /\ Walked(h, p) \in Seq(Names)
           /\ p # Root => Walked(h, p) # Root
<1>1. CASE Len(p) = 2 /\ IsLink(h, DirOf(p))
  <2>1. p[2] \in Names
    <3>1. 2 \in 1 .. Len(p)
      BY <1>1
    <3> QED BY <3>1, LenNat, Zenon
  <2>2. Append(LinkTarget, p[2]) \in Seq(Names) /\ Append(LinkTarget, p[2]) # <<>>
    <3>1. PICK e \in Names : e = p[2]
      BY <2>1, Zenon
    <3>2. Append(LinkTarget, e) \in Seq(Names)
      BY LinkTargetPath, AppendIs, Zenon
    <3>3. Append(LinkTarget, e) # <<>>
      BY LinkTargetPath, AppendIs, Zenon
    <3> QED BY <3>1, <3>2, <3>3, Zenon
  <2> QED BY <1>1, <2>2, Zenon DEF Walked, Root
<1>2. CASE ~(Len(p) = 2 /\ IsLink(h, DirOf(p)))
  BY <1>2, Zenon DEF Walked
<1> QED BY <1>1, <1>2, Zenon

\* The links a path may lead through are the same.
SameLinks(h, g) == \A p \in Seq(Names) : Len(p) = 1 => (IsLink(g, p) <=> IsLink(h, p))

LEMMA WalkedSame ==
    ASSUME NEW h, NEW g, NEW p \in Seq(Names),
           Len(p) = 2 => (IsLink(g, DirOf(p)) <=> IsLink(h, DirOf(p)))
    PROVE  Walked(g, p) = Walked(h, p)
  BY Zenon DEF Walked

LEMMA SecondName ==
    ASSUME NEW p \in Seq(Names), Len(p) = 2
    PROVE  /\ DirOf(p) = SubSeq(p, 1, 1) /\ 1 \in 0 .. Len(p) - 1
           /\ DirOf(p) \in Seq(Names) /\ Len(DirOf(p)) = 1
<1>1. p # Root /\ Len(p) - 1 = 1 /\ 1 \in 0 .. Len(p) - 1
  BY DEF Root
<1> QED BY <1>1, DirOfIs, Zenon

LEMMA SameLinksWalked ==
    ASSUME NEW h, NEW g, SameLinks(h, g), NEW p \in Seq(Names)
    PROVE  Walked(g, p) = Walked(h, p)
  BY WalkedSame, SecondName, Zenon DEF SameLinks

\* g is h with the entry q, not there before.
Added(h, g, q, ino) ==
    /\ HostShape(g)
    /\ DOMAIN g.tree = DOMAIN h.tree \cup {q} /\ g.tree[q] = ino
    /\ \A p \in DOMAIN h.tree : g.tree[p] = h.tree[p] /\ KindAt(g, p) = KindAt(h, p)

LEMMA AddedOK ==
    ASSUME NEW h, NEW g, HostOK(h), NEW q \in Seq(Names), q \notin DOMAIN h.tree, q # Root,
           IsDir(h, DirOf(q)), NEW ino, Added(h, g, q, ino)
    PROVE  /\ HostOK(g)
           /\ \A p \in Seq(Names) : \A i : LeadsTo(h, p, i) => LeadsTo(g, p, i)
           /\ g.kind[ino] # "link" => SameLinks(h, g)
<1>1. DOMAIN h.tree \subseteq Seq(Names) /\ Closed(h)
  BY Zenon DEF HostOK, HostShape
<1>2. \A x : IsDir(h, x) => IsDir(g, x)
  BY Zenon DEF IsDir, Added
<1>3. \A x : x # q => (IsLink(g, x) <=> IsLink(h, x))
  BY Zenon DEF IsLink, Added
<1>4. ASSUME NEW p \in DOMAIN g.tree, NEW n \in 0 .. Len(p) - 1 PROVE IsDir(g, SubSeq(p, 1, n))
  <2>1. CASE p \in DOMAIN h.tree
    BY <1>1, <1>2, <2>1, Zenon DEF Closed
  <2>2. CASE p = q
    <3>1. /\ Len(q) \in Nat \ {0} /\ Len(q) - 1 \in 0 .. Len(q)
          /\ DirOf(q) = SubSeq(q, 1, Len(q) - 1) /\ Len(DirOf(q)) = Len(q) - 1
      BY DirOfIs, Zenon
    <3>2. CASE n = Len(q) - 1
      BY <1>2, <2>2, <3>1, <3>2, Zenon
    <3>3. CASE n # Len(q) - 1
      <4>1. n \in 0 .. Len(q) - 1 /\ n \in 0 .. Len(DirOf(q)) - 1
        BY <2>2, <3>1, <3>3
      <4>2. SubSeq(DirOf(q), 1, n) = SubSeq(q, 1, n)
        BY <3>1, <4>1, CutCut, Zenon
      <4>3. DirOf(q) \in DOMAIN h.tree
        BY Zenon DEF IsDir
      <4> QED BY <1>1, <1>2, <2>2, <4>1, <4>2, <4>3, Zenon DEF Closed
    <3> QED BY <3>2, <3>3, Zenon
  <2> QED BY <2>1, <2>2, Zenon DEF Added
<1>5. ASSUME NEW p \in Seq(Names), NEW i, LeadsTo(h, p, i) PROVE LeadsTo(g, p, i)
  <2>1. ASSUME Len(p) = 2, DirOf(p) = q PROVE FALSE
    <3>1. ~IsLink(h, DirOf(p))
      BY <2>1, Zenon DEF IsLink
    <3>2. p \in DOMAIN h.tree
      BY <1>5, <3>1, Zenon DEF LeadsTo, Walked
    <3>3. IsDir(h, DirOf(p))
      BY <1>1, <2>1, <3>2, SecondName, Zenon DEF Closed
    <3> QED BY <2>1, <3>3, Zenon DEF IsDir
  <2>2. Walked(g, p) = Walked(h, p)
    BY <1>3, <2>1, WalkedSame, Zenon
  <2> QED BY <1>5, <2>2, Zenon DEF LeadsTo, Added
<1>6. ASSUME g.kind[ino] # "link" PROVE SameLinks(h, g)
  BY <1>3, <1>6, Zenon DEF SameLinks, IsLink, KindAt, Added
<1> QED BY <1>4, <1>5, <1>6, Zenon DEF HostOK, Closed, Added

\* g is h without the entry q, which had none below.
Removed(h, g, q) ==
    /\ HostShape(g)
    /\ DOMAIN g.tree = DOMAIN h.tree \ {q}
    /\ \A p \in DOMAIN g.tree : g.tree[p] = h.tree[p] /\ KindAt(g, p) = KindAt(h, p)

LEMMA RemovedOK ==
    ASSUME NEW h, NEW g, HostOK(h), NEW q \in Seq(Names), q \in DOMAIN h.tree,
           Below(h, q) = {q}, Removed(h, g, q)
    PROVE  /\ HostOK(g)
           /\ \A p \in Seq(Names) : \A i :
                 ~IsLink(h, q) /\ ~OnWay(q, Walked(h, p)) /\ LeadsTo(h, p, i) => LeadsTo(g, p, i)
<1>1. DOMAIN h.tree \subseteq Seq(Names) /\ Closed(h)
  BY Zenon DEF HostOK, HostShape
<1>2. ASSUME NEW p \in DOMAIN g.tree, NEW n \in 0 .. Len(p) - 1 PROVE IsDir(g, SubSeq(p, 1, n))
  <2>1. p \in DOMAIN h.tree /\ p \in Seq(Names) /\ p # q
    BY <1>1, Zenon DEF Removed
  <2>2. IsDir(h, SubSeq(p, 1, n))
    BY <1>1, <2>1, Zenon DEF Closed
  <2>3. n \in 0 .. Len(p)
    <3>1. Len(p) \in Nat
      BY <2>1, LenNat, Zenon
    <3> QED BY <3>1
  <2>4. OnWay(SubSeq(p, 1, n), p)
    BY <2>1, <2>3, CutPrefix, Zenon
  <2>5. SubSeq(p, 1, n) # q
    <3>1. OnWay(q, p) => p \in Below(h, q)
      BY <2>1, Zenon DEF Below
    <3>2. ~OnWay(q, p)
      BY <2>1, <3>1, Zenon
    <3> QED BY <2>4, <3>2, Zenon
  <2> QED BY <2>2, <2>5, Zenon DEF IsDir, Removed
<1>3. ASSUME NEW p \in Seq(Names), NEW i, ~IsLink(h, q), ~OnWay(q, Walked(h, p)), LeadsTo(h, p, i)
      PROVE  LeadsTo(g, p, i)
  <2>1. \A x : IsLink(g, x) <=> IsLink(h, x)
    BY <1>3, Zenon DEF IsLink, Removed
  <2>2. Walked(g, p) = Walked(h, p)
    BY <2>1, WalkedSame, Zenon
  <2>3. Walked(h, p) # q
    BY <1>3, PrefixSelf, Zenon
  <2> QED BY <1>3, <2>2, <2>3, Zenon DEF LeadsTo, Removed
<1> QED BY <1>2, <1>3, Zenon DEF HostOK, Closed, Removed

-----------------------------------------------------------------------------
(* A rename *)

\* Nothing but the entry q itself is at q or below.
Bare(h, q) == \A r \in DOMAIN h.tree : OnWay(q, r) => r = q

LEMMA BareIs ==
    ASSUME NEW h, HostOK(h), NEW q \in Seq(Names), q \in DOMAIN h.tree => Below(h, q) = {q}
    PROVE  Bare(h, q)
<1> SUFFICES ASSUME NEW r \in DOMAIN h.tree, OnWay(q, r) PROVE r = q
  BY Zenon DEF Bare
<1>1. r \in Seq(Names) /\ Closed(h)
  BY Zenon DEF HostOK, HostShape
<1>2. q = SubSeq(r, 1, Len(q)) /\ Len(q) \in 0 .. Len(r)
  BY <1>1, PrefixIsCut, Zenon
<1>3. CASE Len(q) = Len(r)
  BY <1>1, <1>3, PrefixSame, Zenon
<1>4. CASE Len(q) # Len(r)
  <2>1. Len(q) \in 0 .. Len(r) - 1
    <3>1. Len(r) \in Nat
      BY <1>1, LenNat, Zenon
    <3> QED BY <1>2, <1>4, <3>1
  <2>2. q \in DOMAIN h.tree
    BY <1>1, <1>2, <2>1, Zenon DEF Closed, IsDir
  <2>3. r \in Below(h, q)
    BY Zenon DEF Below
  <2> QED BY <2>2, <2>3, Zenon
<1> QED BY <1>3, <1>4, Zenon

Kept(h, src, dst) == DOMAIN h.tree \ (Below(h, src) \cup {dst})

\* g is h with what is at src and below moved to dst.
Renamed(h, g, src, dst) ==
    /\ HostShape(g) /\ g.kind = h.kind
    /\ \A r : r \in DOMAIN g.tree <=> \/ r \in Kept(h, src, dst)
                                      \/ \E s \in Below(h, src) : r = Swap(s, src, dst)
    /\ \A s \in Below(h, src) : g.tree[Swap(s, src, dst)] = h.tree[s]
    /\ \A r \in Kept(h, src, dst) : g.tree[r] = h.tree[r]

\* The directories above the new place stay where they are.
LEMMA AboveKept ==
    ASSUME NEW h, NEW g, HostOK(h), NEW src \in Seq(Names), NEW dst \in Seq(Names), dst # Root,
           src # dst, IsDir(h, DirOf(dst)), ~(OnWay(src, dst) /\ src # dst), Renamed(h, g, src, dst),
           NEW n \in 0 .. Len(dst), n < Len(dst)
    PROVE  IsDir(g, SubSeq(dst, 1, n))
<1>1. Closed(h)
  BY Zenon DEF HostOK
<1>2. /\ Len(dst) \in Nat \ {0} /\ Len(dst) - 1 \in 0 .. Len(dst)
      /\ DirOf(dst) = SubSeq(dst, 1, Len(dst) - 1) /\ Len(DirOf(dst)) = Len(dst) - 1
  BY DirOfIs, Zenon
<1>3. PICK x \in Seq(Names) : x = SubSeq(dst, 1, n) /\ Len(x) = n /\ OnWay(x, dst)
  BY CutIs, CutPrefix, Zenon
<1>4. IsDir(h, x)
  <2>1. CASE n = Len(dst) - 1
    BY <1>2, <1>3, <2>1, Zenon
  <2>2. CASE n # Len(dst) - 1
    <3>1. n \in 0 .. Len(DirOf(dst)) - 1 /\ n \in 0 .. Len(dst) - 1
      BY <1>2, <2>2
    <3>2. SubSeq(DirOf(dst), 1, n) = x
      <4>1. PICK m \in 0 .. Len(dst) : m = Len(dst) - 1
        BY <1>2, Zenon
      <4>2. n \in 0 .. m
        BY <3>1, <4>1
      <4>3. SubSeq(SubSeq(dst, 1, m), 1, n) = SubSeq(dst, 1, n)
        BY <4>2, CutCut, Zenon
      <4> QED BY <1>2, <1>3, <4>1, <4>3, Zenon
    <3>3. DirOf(dst) \in DOMAIN h.tree
      BY Zenon DEF IsDir
    <3> QED BY <1>1, <3>1, <3>2, <3>3, Zenon DEF Closed
  <2> QED BY <2>1, <2>2, Zenon
<1>5. x # dst
  <2>1. Len(x) # Len(dst)
    BY <1>2, <1>3
  <2> QED BY <2>1, Zenon
<1>6. ~OnWay(src, x)
  <2>1. OnWay(src, x) => OnWay(src, dst)
    BY <1>3, PrefixTrans, Zenon
  <2> QED BY <2>1, Zenon 
<1>7. x \in DOMAIN h.tree /\ KindAt(h, x) = "dir"
  BY <1>4, Zenon DEF IsDir
<1>8. x \in Kept(h, src, dst)
  BY <1>5, <1>6, <1>7, Zenon DEF Kept, Below
<1>9. x \in DOMAIN g.tree /\ g.tree[x] = h.tree[x] /\ g.kind = h.kind
  BY <1>8, Zenon DEF Renamed
<1> QED BY <1>3, <1>7, <1>9, Zenon DEF IsDir, KindAt

LEMMA RenamedClosed ==
    ASSUME NEW h, NEW g, HostOK(h), NEW src \in Seq(Names), NEW dst \in Seq(Names), dst # Root,
           src # dst, IsDir(h, DirOf(dst)), ~(OnWay(src, dst) /\ src # dst), Bare(h, dst),
           Renamed(h, g, src, dst)
    PROVE  Closed(g)
<1> SUFFICES ASSUME NEW p \in DOMAIN g.tree, NEW n \in 0 .. Len(p) - 1
             PROVE  IsDir(g, SubSeq(p, 1, n))
  BY Zenon DEF Closed
<1>1. DOMAIN h.tree \subseteq Seq(Names) /\ Closed(h) /\ p \in Seq(Names)
  BY Zenon DEF HostOK, HostShape, Renamed
<1>2. n \in 0 .. Len(p) /\ n < Len(p) /\ Len(p) \in Nat
  <2>1. Len(p) \in Nat
    BY <1>1, LenNat, Zenon
  <2> QED BY <2>1
<1>3. ASSUME p \in Kept(h, src, dst) PROVE IsDir(g, SubSeq(p, 1, n))
  <2>1. PICK x \in Seq(Names) : x = SubSeq(p, 1, n) /\ Len(x) = n /\ OnWay(x, p)
    BY <1>1, <1>2, CutIs, CutPrefix, Zenon
  <2>2. p \in DOMAIN h.tree /\ ~OnWay(src, p) /\ p # dst
    BY <1>3, Zenon DEF Kept, Below
  <2>3. x \in DOMAIN h.tree /\ KindAt(h, x) = "dir"
    BY <1>1, <2>1, <2>2, Zenon DEF Closed, IsDir
  <2>4. ~OnWay(src, x)
    BY <1>1, <2>1, <2>2, PrefixTrans, Zenon
  <2>5. x # dst
    BY <2>1, <2>2, Zenon DEF Bare
  <2>6. x \in Kept(h, src, dst)
    BY <2>3, <2>4, <2>5, Zenon DEF Kept, Below
  <2>7. x \in DOMAIN g.tree /\ g.tree[x] = h.tree[x] /\ g.kind = h.kind
    BY <2>6, Zenon DEF Renamed
  <2> QED BY <2>1, <2>3, <2>7, Zenon DEF IsDir, KindAt
<1>4. ASSUME NEW s \in Below(h, src), p = Swap(s, src, dst) PROVE IsDir(g, SubSeq(p, 1, n))
  <2>1. s \in DOMAIN h.tree /\ s \in Seq(Names) /\ OnWay(src, s)
    BY <1>1, Zenon DEF Below
  <2>2. Swapped(p, s, src, dst)
    BY <1>4, <2>1, SwapElements, Zenon
  <2>3. Len(dst) \in Nat
    BY LenNat, Zenon
  <2>4. CASE n < Len(dst)
    <3>1. n \in 0 .. Len(dst)
      BY <2>3, <2>4
    <3>2. SubSeq(p, 1, n) = SubSeq(dst, 1, n)
      BY <2>1, <2>2, <3>1, SwapCutShort
    <3> QED BY <2>4, <3>1, <3>2, AboveKept, Zenon
  <2>5. CASE ~(n < Len(dst))
    <3>1. n >= Len(dst)
      BY <2>3, <2>5
    <3>2. PICK m : m = Len(src) + (n - Len(dst))
      BY Zenon
    <3>3. /\ m \in 0 .. Len(s) /\ m < Len(s)
          /\ OnWay(src, SubSeq(s, 1, m))
          /\ SubSeq(p, 1, n) = Swap(SubSeq(s, 1, m), src, dst)
      BY <1>2, <2>1, <2>2, <3>1, <3>2, SwapCutLong
    <3>4. m \in 0 .. Len(s) - 1
      <4>1. Len(s) \in Nat
        BY <2>1, LenNat, Zenon
      <4> QED BY <3>3, <4>1
    <3>5. PICK x : x = SubSeq(s, 1, m)
      BY Zenon
    <3>6. x \in DOMAIN h.tree /\ KindAt(h, x) = "dir"
      BY <1>1, <2>1, <3>4, <3>5, Zenon DEF Closed, IsDir
    <3>7. x \in Below(h, src)
      BY <3>3, <3>5, <3>6, Zenon DEF Below
    <3>8. /\ Swap(x, src, dst) \in DOMAIN g.tree
          /\ g.tree[Swap(x, src, dst)] = h.tree[x] /\ g.kind = h.kind
      BY <3>7, Zenon DEF Renamed
    <3>9. IsDir(g, Swap(x, src, dst))
      BY <3>6, <3>8, Zenon DEF IsDir, KindAt
    <3> QED BY <3>3, <3>5, <3>9, Zenon
  <2> QED BY <2>4, <2>5, Zenon
<1> QED BY <1>3, <1>4, Zenon DEF Renamed

LEMMA RenamedKeeps ==
    ASSUME NEW h, NEW g, HostOK(h), NEW src \in Seq(Names), src \in DOMAIN h.tree, src # Root,
           NEW dst \in Seq(Names), dst # Root, Renamed(h, g, src, dst),
           ~IsLink(h, src), ~IsLink(h, dst),
           NEW p \in Seq(Names), NEW i, LeadsTo(h, p, i),
           ~OnWay(src, Walked(h, p)), ~OnWay(dst, Walked(h, p))
    PROVE  LeadsTo(g, p, i)
<1>1. DOMAIN h.tree \subseteq Seq(Names)
  BY Zenon DEF HostOK, HostShape
<1>2. Len(src) \in Nat \ {0} /\ Len(dst) \in Nat \ {0}
  BY DirOfIs, Zenon
<1>3. ASSUME NEW x \in Seq(Names), Len(x) = 1 PROVE IsLink(g, x) <=> IsLink(h, x)
  <2>1. CASE x \in Kept(h, src, dst)
    <3>1. x \in DOMAIN g.tree /\ g.tree[x] = h.tree[x] /\ g.kind = h.kind /\ x \in DOMAIN h.tree
      BY <2>1, Zenon DEF Renamed, Kept
    <3> QED BY <3>1, Zenon DEF IsLink, KindAt
  <2>2. CASE x \notin Kept(h, src, dst)
    <3>1. ~IsLink(h, x)
      <4>1. ASSUME OnWay(src, x) PROVE src = x
        <5>1. Len(src) <= Len(x)
          BY <4>1, PrefixIs, Zenon
        <5>2. Len(src) = Len(x)
          BY <1>2, <1>3, <5>1
        <5> QED BY <4>1, <5>2, PrefixSame, Zenon
      <4>2. x \in DOMAIN h.tree => x = dst \/ OnWay(src, x)
        BY <2>2, Zenon DEF Kept, Below
      <4> QED BY <4>1, <4>2, Zenon DEF IsLink
    <3>2. ASSUME x \in DOMAIN g.tree PROVE KindAt(g, x) = KindAt(h, src)
      <4>1. PICK s \in Below(h, src) : x = Swap(s, src, dst)
        BY <2>2, <3>2, Zenon DEF Renamed
      <4>2. s \in DOMAIN h.tree /\ s \in Seq(Names) /\ OnWay(src, s)
        BY <1>1, Zenon DEF Below
      <4>3. Len(x) = Len(dst) + (Len(s) - Len(src))
        <5>1. Swapped(Swap(s, src, dst), s, src, dst)
          BY <4>2, SwapElements, Zenon
        <5> QED BY <4>1, <5>1, Zenon DEF Swapped
      <4>4. Len(src) = Len(s)
        <5>1. Len(src) \in 0 .. Len(s)
          BY <4>2, PrefixIsCut, Zenon
        <5> QED BY <1>2, <1>3, <4>3, <5>1
      <4>5. s = src
        BY <4>2, <4>4, PrefixSame, Zenon
      <4>6. g.tree[x] = h.tree[src] /\ g.kind = h.kind
        BY <4>1, <4>5, Zenon DEF Renamed
      <4> QED BY <4>6, Zenon DEF KindAt
    <3>3. KindAt(h, src) # "link"
      BY Zenon DEF IsLink
    <3> QED BY <3>1, <3>2, <3>3, Zenon DEF IsLink
  <2> QED BY <2>1, <2>2, Zenon
<1>4. Walked(g, p) = Walked(h, p)
  BY <1>3, SameLinksWalked, Zenon DEF SameLinks
<1>5. Walked(h, p) \in Kept(h, src, dst)
  <2>1. Walked(h, p) # dst
    BY PrefixSelf, Zenon
  <2> QED BY <2>1, Zenon DEF Kept, Below, LeadsTo
<1> QED BY <1>4, <1>5, Zenon DEF LeadsTo, Renamed

\* The tree of the host after Rename has moved src to dst.
Moved(h, src, dst) == {Swap(r, src, dst) : r \in Below(h, src)}
TreeAfter(h, src, dst) ==
    [r \in Kept(h, src, dst) \cup Moved(h, src, dst) |->
        IF r \in Moved(h, src, dst) THEN h.tree[Swap(r, dst, src)] ELSE h.tree[r]]

LEMMA RenamedIs ==
    ASSUME NEW h, HostOK(h), NEW src \in Seq(Names), src # Root,
           NEW dst \in Seq(Names), dst # Root, Bare(h, dst),
           NEW g, g = [h EXCEPT !.tree = TreeAfter(h, src, dst)]
    PROVE  Renamed(h, g, src, dst) /\ g.files = h.files /\ g.open = h.open
<1>1. /\ h = [tree |-> h.tree, kind |-> h.kind, files |-> h.files, open |-> h.open]
      /\ h.files \in Int /\ h.open \in Int
      /\ h.kind \in Seq({"dir", "link", "file"})
      /\ h.tree \in [DOMAIN h.tree -> 1 .. Len(h.kind)]
      /\ DOMAIN h.tree \subseteq Seq(Names)
      /\ Root \in DOMAIN h.tree
  BY Zenon DEF HostOK, HostShape
<1>2. PICK t : t = TreeAfter(h, src, dst)
  BY Zenon
<1>3. /\ g.tree = t /\ g.kind = h.kind /\ g.files = h.files /\ g.open = h.open
      /\ g = [tree |-> g.tree, kind |-> g.kind, files |-> g.files, open |-> g.open]
  BY <1>1, <1>2
<1>4. ASSUME NEW s \in Below(h, src)
      PROVE  /\ s \in DOMAIN h.tree /\ Swap(s, src, dst) \in Seq(Names)
             /\ OnWay(dst, Swap(s, src, dst)) /\ Swap(Swap(s, src, dst), dst, src) = s
  <2>1. s \in DOMAIN h.tree /\ s \in Seq(Names) /\ OnWay(src, s)
    BY <1>1, Zenon DEF Below
  <2>2. Swapped(Swap(s, src, dst), s, src, dst)
    BY <2>1, SwapElements, Zenon
  <2>3. OnWay(dst, Swap(s, src, dst)) /\ Swap(Swap(s, src, dst), dst, src) = s
    BY <2>1, <2>2, SwapBack, Zenon
  <2> QED BY <2>1, <2>2, <2>3, Zenon DEF Swapped
<1>5. DOMAIN t = Kept(h, src, dst) \cup Moved(h, src, dst)
  BY <1>2, Zenon DEF TreeAfter
<1>6. \A r : r \in Moved(h, src, dst) <=> \E s \in Below(h, src) : r = Swap(s, src, dst)
  BY Zenon DEF Moved
<1>7. ASSUME NEW r \in Kept(h, src, dst) PROVE r \notin Moved(h, src, dst)
  <2>1. r \in DOMAIN h.tree /\ r # dst
    BY Zenon DEF Kept
  <2> QED BY <1>4, <1>6, <2>1 DEF Bare
<1>8. ASSUME NEW s \in Below(h, src) PROVE t[Swap(s, src, dst)] = h.tree[s]
  <2>1. Swap(s, src, dst) \in Moved(h, src, dst)
    BY Zenon DEF Moved
  <2>2. t[Swap(s, src, dst)] = h.tree[Swap(Swap(s, src, dst), dst, src)]
    BY <1>2, <2>1, Zenon DEF TreeAfter
  <2> QED BY <1>4, <2>2, Zenon
<1>9. ASSUME NEW r \in Kept(h, src, dst) PROVE t[r] = h.tree[r] /\ r \in DOMAIN h.tree
  BY <1>2, <1>7, Zenon DEF TreeAfter, Kept
<1>10. ASSUME NEW r \in DOMAIN t PROVE r \in Seq(Names) /\ t[r] \in 1 .. Len(h.kind)
  <2>1. CASE r \in Kept(h, src, dst)
    BY <1>1, <1>9, <2>1, Zenon
  <2>2. CASE r \in Moved(h, src, dst)
    <3>1. PICK s \in Below(h, src) : r = Swap(s, src, dst)
      BY <1>6, <2>2, Zenon
    <3>2. s \in DOMAIN h.tree /\ r \in Seq(Names)
      BY <1>4, <3>1, Zenon
    <3>3. t[r] = h.tree[s]
      BY <1>8, <3>1, Zenon
    <3> QED BY <1>1, <3>2, <3>3, Zenon
  <2> QED BY <1>5, <2>1, <2>2, Zenon
<1>11. t \in [DOMAIN t -> 1 .. Len(h.kind)]
  <2>1. t = [r \in DOMAIN t |-> t[r]]
    BY <1>2, <1>5, Zenon DEF TreeAfter
  <2> QED BY <1>10, <2>1, Zenon
<1>12. Root \in DOMAIN t
  <2>1. Len(src) \in Nat \ {0} /\ Len(Root) = 0
    BY DirOfIs, LenNat, Zenon DEF Root
  <2>2. ~(Len(src) <= Len(Root))
    BY <2>1
  <2>3. ~OnWay(src, Root)
    BY <2>2, Zenon DEF OnWay
  <2> QED BY <1>1, <1>5, <2>3, Zenon DEF Kept, Below
<1>13. HostShape(g)
  BY <1>1, <1>3, <1>10, <1>11, <1>12, Zenon DEF HostShape
<1> QED BY <1>3, <1>5, <1>6, <1>8, <1>9, <1>13, Zenon DEF Renamed

-----------------------------------------------------------------------------
(* What the fs functions leave *)

\* Nothing but the counts differs.
SameTree(h, g) == HostShape(g) /\ g.tree = h.tree /\ g.kind = h.kind
SameCounts(h, g) == g.files = h.files /\ g.open = h.open

LEMMA SameTreeOK ==
    ASSUME NEW h, NEW g, HostOK(h), SameTree(h, g)
    PROVE  /\ HostOK(g)
           /\ \A p : Walked(g, p) = Walked(h, p)
           /\ \A p, i : LeadsTo(g, p, i) <=> LeadsTo(h, p, i)
<1>1. \A p : (IsDir(g, p) <=> IsDir(h, p)) /\ (IsLink(g, p) <=> IsLink(h, p))
  BY Zenon DEF SameTree, IsDir, IsLink, KindAt
<1>2. \A p : Walked(g, p) = Walked(h, p)
  BY <1>1, Zenon DEF Walked
<1>3. \A p, i : LeadsTo(g, p, i) <=> LeadsTo(h, p, i)
  BY <1>2, Zenon DEF LeadsTo, SameTree
<1>4. HostOK(g)
  BY <1>1, Zenon DEF HostOK, Closed, SameTree
<1> QED BY <1>2, <1>3, <1>4, Zenon

\* One descriptor less, the object without it.
Was(f) == IF f.open = "no" THEN 0 ELSE 1

LEMMA CountsOnly ==
    ASSUME NEW h, HostShape(h), NEW a \in Int, NEW b \in Int, NEW g,
           g = [tree |-> h.tree, kind |-> h.kind, files |-> a, open |-> b]
    PROVE  SameTree(h, g) /\ g.files = a /\ g.open = b
<1>1. g.tree = h.tree /\ g.kind = h.kind /\ g.files = a /\ g.open = b
  BY Zenon
<1> QED BY <1>1, Zenon DEF HostShape, SameTree

LEMMA FileOpened ==
    ASSUME NEW f, f = [path |-> f.path, open |-> f.open, ino |-> f.ino], NEW o, NEW i
    PROVE  [f EXCEPT !.open = o, !.ino = i] = [path |-> f.path, open |-> o, ino |-> i]
<1>1. [f EXCEPT !.open = o, !.ino = i] = [[f EXCEPT !.open = o] EXCEPT !.ino = i]
  BY Zenon
<1>2. PICK g : g = [f EXCEPT !.open = o]
  BY Zenon
<1>3. g = [path |-> f.path, open |-> o, ino |-> f.ino]
  BY <1>2
<1>4. [g EXCEPT !.ino = i] = [path |-> f.path, open |-> o, ino |-> i]
  BY <1>3
<1> QED BY <1>1, <1>2, <1>4, Zenon

LEMMA CloseIs ==
    ASSUME NEW h, HostShape(h), NEW f, FileShape(f), NEW c, c = fs_close(h, f)
    PROVE  /\ SameTree(h, c.host) /\ c.host.files = h.files /\ c.host.open = h.open - Was(f)
           /\ FileShape(c.file) /\ c.file.path = f.path /\ c.file.open = "no"
<1>1. /\ h = [tree |-> h.tree, kind |-> h.kind, files |-> h.files, open |-> h.open]
      /\ h.files \in Int /\ h.open \in Int
  BY Zenon DEF HostShape
<1>2. f = [path |-> f.path, open |-> f.open, ino |-> f.ino] /\ f.path \in Seq(Names)
  BY Zenon DEF FileShape
<1>3. CASE f.open = "no"
  <2>1. c.host = h /\ c.file = f
    BY <1>3 DEF fs_close, Fine, Left
  <2>2. Was(f) = 0 /\ h.open - 0 = h.open
    BY <1>1, <1>3 DEF Was
  <2> QED BY <1>3, <2>1, <2>2, Zenon DEF SameTree
<1>4. CASE f.open # "no"
  <2>1. /\ c.host = [h EXCEPT !.open = @ - 1]
        /\ c.file = [f EXCEPT !.open = "no", !.ino = NoInode]
    BY <1>4 DEF fs_close, Fine, Left
  <2>2. c.host = [tree |-> h.tree, kind |-> h.kind, files |-> h.files, open |-> h.open - 1]
    BY <1>1, <2>1
  <2>3. h.open - 1 \in Int /\ Was(f) = 1
    BY <1>1, <1>4 DEF Was
  <2>4. c.file = [path |-> f.path, open |-> "no", ino |-> NoInode]
    BY <1>2, <2>1, FileOpened, Zenon
  <2>5. FileShape(c.file) /\ c.file.path = f.path /\ c.file.open = "no"
    BY <1>2, <2>4 DEF FileShape
  <2> QED BY <1>1, <2>2, <2>3, <2>5, CountsOnly
<1> QED BY <1>3, <1>4, Zenon

\* What Fails, Fine and Opens leave.
LEMMA FailsIs ==
    ASSUME NEW h, NEW f, NEW e, e # OK
    PROVE  Fails(h, f, e).host = h /\ Fails(h, f, e).file = f /\ Fails(h, f, e).err # OK
  BY DEF Fails, Left, errno_to_p9, P9Errors, OK

LEMMA FineIs ==
    ASSUME NEW h, NEW f, NEW v
    PROVE  Fine(h, f, v).host = h /\ Fine(h, f, v).file = f /\ Fine(h, f, v).val = v
           /\ Fine(h, f, v).err = OK
  BY DEF Fine, Left

LEMMA OpensIs ==
    ASSUME NEW h, HostShape(h), NEW f, FileShape(f), f.open = "no", NEW how, how # "no", NEW i,
           NEW c, c = Opens(h, f, how, i)
    PROVE  /\ SameTree(h, c.host) /\ c.host.files = h.files /\ c.host.open = h.open + 1
           /\ FileShape(c.file) /\ c.file.path = f.path /\ c.file.open # "no"
           /\ c.err = OK /\ c.val = i
<1>1. /\ h = [tree |-> h.tree, kind |-> h.kind, files |-> h.files, open |-> h.open]
      /\ h.files \in Int /\ h.open \in Int
  BY Zenon DEF HostShape
<1>2. f = [path |-> f.path, open |-> f.open, ino |-> f.ino] /\ f.path \in Seq(Names)
  BY Zenon DEF FileShape
<1>3. /\ c.host = [h EXCEPT !.open = @ + 1] /\ c.file = [f EXCEPT !.open = how, !.ino = i]
      /\ c.err = OK /\ c.val = i
  BY DEF Opens, Fine, Left
<1>4. c.host = [tree |-> h.tree, kind |-> h.kind, files |-> h.files, open |-> h.open + 1]
  BY <1>1, <1>3
<1>5. h.open + 1 \in Int
  BY <1>1
<1>6. c.file = [path |-> f.path, open |-> how, ino |-> i]
  BY <1>2, <1>3, FileOpened, Zenon
<1>7. FileShape(c.file) /\ c.file.path = f.path /\ c.file.open # "no"
  BY <1>2, <1>6 DEF FileShape
<1> QED BY <1>1, <1>3, <1>4, <1>5, <1>7, CountsOnly

LEMMA OpenIs ==
    ASSUME NEW h, HostShape(h), NEW f, FileShape(f), NEW d, NEW w, NEW c, c = fs_open(h, f, d, w)
    PROVE  /\ SameTree(h, c.host) /\ c.host.files = h.files
           /\ c.host.open = (h.open - Was(f)) + Was(c.file)
           /\ FileShape(c.file) /\ c.file.path = f.path
<1>1. PICK z : z = fs_close(h, f)
  BY Zenon
<1>2. /\ SameTree(h, z.host) /\ z.host.files = h.files /\ z.host.open = h.open - Was(f)
      /\ FileShape(z.file) /\ z.file.path = f.path /\ z.file.open = "no"
  BY <1>1, CloseIs
<1>3. \/ \E e : e # OK /\ c = Fails(z.host, z.file, e)
      \/ \E how, i : how # "no" /\ c = Opens(z.host, z.file, how, i)
  <2>1. NotFound(z.host, z.file.path) # OK
    BY DEF NotFound, OK
  <2>2. "ENOTDIR" # OK /\ "EISDIR" # OK /\ "dir" # "no" /\ "fd" # "no"
    BY DEF OK
  <2> QED BY <1>1, <2>1, <2>2, Zenon DEF fs_open
<1>4. HostShape(z.host)
  BY <1>2, Zenon DEF SameTree
<1>5. ASSUME NEW e, e # OK, c = Fails(z.host, z.file, e)
      PROVE  c.host = z.host /\ c.file = z.file /\ Was(c.file) = 0
  <2>1. c.host = z.host /\ c.file = z.file
    BY <1>5, FailsIs
  <2> QED BY <1>2, <2>1, Zenon DEF Was
<1>6. ASSUME NEW how, NEW i, how # "no", c = Opens(z.host, z.file, how, i)
      PROVE  /\ SameTree(z.host, c.host) /\ c.host.files = z.host.files
             /\ c.host.open = z.host.open + 1
             /\ FileShape(c.file) /\ c.file.path = z.file.path /\ Was(c.file) = 1
  <2>1. /\ SameTree(z.host, c.host) /\ c.host.files = z.host.files
        /\ c.host.open = z.host.open + 1
        /\ FileShape(c.file) /\ c.file.path = z.file.path /\ c.file.open # "no"
    BY <1>2, <1>4, <1>6, OpensIs
  <2> QED BY <2>1, Zenon DEF Was
<1>7. z.host.open \in Int /\ z.host.open + 0 = z.host.open
  <2>1. z.host.open \in Int
    BY <1>4, Zenon DEF HostShape
  <2> QED BY <2>1
<1>8. CASE \E e : e # OK /\ c = Fails(z.host, z.file, e)
  BY <1>2, <1>5, <1>7, <1>8, Zenon
<1>9. CASE \E how, i : how # "no" /\ c = Opens(z.host, z.file, how, i)
  BY <1>2, <1>6, <1>9, Zenon DEF SameTree
<1> QED BY <1>3, <1>8, <1>9, Zenon

-----------------------------------------------------------------------------
(* New entries *)

Keeps(h, g) == \A p \in Seq(Names) : \A i : LeadsTo(h, p, i) => LeadsTo(g, p, i)

LEMMA KeepsSame == ASSUME NEW h, NEW g, HostOK(h), SameTree(h, g) PROVE HostOK(g) /\ Keeps(h, g)
  BY SameTreeOK, Zenon DEF Keeps

\* g is h with q bound to the inode ino, and with the kinds of its inodes.
Binding(h, g, q, ino, kinds) ==
    /\ kinds \in Seq({"dir", "link", "file"}) /\ Len(h.kind) <= Len(kinds)
    /\ \A i \in 1 .. Len(h.kind) : kinds[i] = h.kind[i]
    /\ ino \in 1 .. Len(kinds)
    /\ g = [tree |-> Bind(h.tree, q, ino), kind |-> kinds, files |-> h.files, open |-> h.open]

LEMMA BindIs ==
    ASSUME NEW h, HostOK(h), NEW q \in Seq(Names), q \notin DOMAIN h.tree,
           NEW g, NEW ino, NEW kinds, Binding(h, g, q, ino, kinds)
    PROVE  Added(h, g, q, ino) /\ SameCounts(h, g) /\ g.kind = kinds
<1>a. /\ kinds \in Seq({"dir", "link", "file"}) /\ Len(h.kind) <= Len(kinds)
      /\ \A i \in 1 .. Len(h.kind) : kinds[i] = h.kind[i]
      /\ ino \in 1 .. Len(kinds)
      /\ g = [tree |-> Bind(h.tree, q, ino), kind |-> kinds, files |-> h.files, open |-> h.open]
  BY Zenon DEF Binding
<1>1. /\ h.tree \in [DOMAIN h.tree -> 1 .. Len(h.kind)]
      /\ DOMAIN h.tree \subseteq Seq(Names) /\ Root \in DOMAIN h.tree
      /\ h.files \in Int /\ h.open \in Int /\ h.kind \in Seq({"dir", "link", "file"})
  BY Zenon DEF HostOK, HostShape
<1>2. PICK t : t = Bind(h.tree, q, ino)
  BY Zenon
<1>3. /\ g = [tree |-> g.tree, kind |-> g.kind, files |-> g.files, open |-> g.open]
      /\ g.tree = t /\ g.kind = kinds /\ g.files = h.files /\ g.open = h.open
  BY <1>a, <1>2
<1>4. /\ DOMAIN t = DOMAIN h.tree \cup {q} /\ t[q] = ino
      /\ \A p \in DOMAIN h.tree : t[p] = h.tree[p]
      /\ t = [p \in DOMAIN t |-> t[p]]
  BY <1>2 DEF Bind
<1>5. 1 .. Len(h.kind) \subseteq 1 .. Len(kinds)
  BY <1>a, <1>1
<1>6. \A p \in DOMAIN t : t[p] \in 1 .. Len(kinds)
  BY <1>a, <1>1, <1>4, <1>5, Zenon
<1>7. t \in [DOMAIN t -> 1 .. Len(kinds)]
  BY <1>4, <1>6
<1>8. DOMAIN t \subseteq Seq(Names) /\ Root \in DOMAIN t
  BY <1>1, <1>4, Zenon
<1>9. HostShape(g)
  BY <1>a, <1>1, <1>3, <1>7, <1>8, Zenon DEF HostShape
<1>10. ASSUME NEW p \in DOMAIN h.tree PROVE g.tree[p] = h.tree[p] /\ KindAt(g, p) = KindAt(h, p)
  <2>1. h.tree[p] \in 1 .. Len(h.kind)
    BY <1>1, Zenon
  <2>2. kinds[h.tree[p]] = h.kind[h.tree[p]]
    BY <1>a, <2>1, Zenon
  <2>3. t[p] = h.tree[p]
    BY <1>4, Zenon
  <2> QED BY <1>3, <2>2, <2>3, Zenon DEF KindAt
<1> QED BY <1>3, <1>4, <1>9, <1>10, Zenon DEF Added, SameCounts

LEMMA MakeIs ==
    ASSUME NEW h, HostOK(h), NEW p \in Seq(Names), p # Root, MakeError(h, p) = OK,
           NEW kind \in {"dir", "link", "file"}, NEW g, g = Make(h, p, kind)
    PROVE  /\ HostOK(g) /\ SameCounts(h, g) /\ Keeps(h, g)
           /\ kind # "link" => LeadsTo(g, p, Len(h.kind) + 1)
<1>1. PICK q : q = Walked(h, p)
  BY Zenon
<1>2. q \in Seq(Names) /\ q # Root
  BY <1>1, WalkedPath, Zenon
<1>3. q \notin DOMAIN h.tree /\ IsDir(h, DirOf(q))
  <2>1. "EEXIST" # OK /\ NotFound(h, p) # OK
    BY DEF OK, NotFound
  <2> QED BY <1>1, <2>1, Zenon DEF MakeError, Exists, Parent
<1>4. /\ h = [tree |-> h.tree, kind |-> h.kind, files |-> h.files, open |-> h.open]
      /\ h.kind \in Seq({"dir", "link", "file"})
  BY Zenon DEF HostOK, HostShape
<1>5. PICK kinds \in Seq({"dir", "link", "file"}) :
         /\ kinds = Append(h.kind, kind) /\ Len(kinds) = Len(h.kind) + 1
         /\ \A i \in 1 .. Len(h.kind) : kinds[i] = h.kind[i]
         /\ kinds[Len(h.kind) + 1] = kind
  <2>1. Append(h.kind, kind) \in Seq({"dir", "link", "file"})
    BY <1>4
  <2>2. Len(Append(h.kind, kind)) = Len(h.kind) + 1
    BY <1>4
  <2>3. /\ \A i \in 1 .. Len(h.kind) : Append(h.kind, kind)[i] = h.kind[i]
        /\ Append(h.kind, kind)[Len(h.kind) + 1] = kind
    BY <1>4
  <2> QED BY <2>1, <2>2, <2>3, Zenon
<1>6. Len(h.kind) <= Len(kinds) /\ Len(h.kind) + 1 \in 1 .. Len(kinds)
  BY <1>4, <1>5
<1>7. PICK ino \in 1 .. Len(kinds) : ino = Len(h.kind) + 1
  BY <1>6, Zenon
<1>8. g = [tree |-> Bind(h.tree, q, ino), kind |-> kinds, files |-> h.files, open |-> h.open]
  <2>1. g = [h EXCEPT !.tree = Bind(@, q, ino), !.kind = Append(@, kind)]
    BY <1>1, <1>7, Zenon DEF Make
  <2>2. g = [[h EXCEPT !.tree = Bind(h.tree, q, ino)] EXCEPT !.kind = Append(h.kind, kind)]
    BY <1>4, <2>1
  <2>3. PICK x : x = [h EXCEPT !.tree = Bind(h.tree, q, ino)]
    BY Zenon
  <2>4. x = [tree |-> Bind(h.tree, q, ino), kind |-> h.kind, files |-> h.files, open |-> h.open]
    BY <1>4, <2>3
  <2>5. [x EXCEPT !.kind = kinds]
          = [tree |-> Bind(h.tree, q, ino), kind |-> kinds, files |-> h.files, open |-> h.open]
    BY <2>4
  <2> QED BY <1>5, <2>2, <2>3, <2>5, Zenon
<1>9. Added(h, g, q, ino) /\ SameCounts(h, g) /\ g.kind = kinds
  <2>1. Binding(h, g, q, ino, kinds)
    BY <1>5, <1>6, <1>8, Zenon DEF Binding
  <2> QED BY <1>2, <1>3, <2>1, BindIs, Zenon
<1>10. /\ HostOK(g)
       /\ \A x \in Seq(Names) : \A i : LeadsTo(h, x, i) => LeadsTo(g, x, i)
       /\ g.kind[ino] # "link" => SameLinks(h, g)
  BY <1>2, <1>3, <1>9, AddedOK, Zenon
<1>11. ASSUME kind # "link" PROVE LeadsTo(g, p, ino)
  <2>1. Walked(g, p) = q
    BY <1>1, <1>5, <1>7, <1>9, <1>10, <1>11, SameLinksWalked, Zenon
  <2> QED BY <1>9, <2>1, Zenon DEF LeadsTo, Added
<1> QED BY <1>7, <1>9, <1>10, <1>11, Zenon DEF Keeps

-----------------------------------------------------------------------------
(* The operations on entries *)

\* What a function that made an entry or did nothing leaves.
Harmless(h, left) == HostOK(left.host) /\ SameCounts(h, left.host) /\ Keeps(h, left.host)

LEMMA Unchanged == ASSUME NEW h, HostOK(h), NEW left, left.host = h PROVE Harmless(h, left)
  BY Zenon DEF Harmless, SameCounts, Keeps

LEMMA ComposedPath ==
    ASSUME NEW f, FileShape(f), NEW n \in Names
    PROVE  compose_path(f.path, n) \in Seq(Names) /\ compose_path(f.path, n) # Root
  BY AppendIs, Zenon DEF FileShape, compose_path, Root

LEMMA MakesIs ==
    ASSUME NEW h, HostOK(h), NEW f, FileShape(f), NEW n \in Names,
           NEW kind \in {"dir", "link", "file"}
    PROVE  Harmless(h, Makes(h, f, n, kind))
<1>1. PICK p : p = compose_path(f.path, n)
  BY Zenon
<1>2. p \in Seq(Names) /\ p # Root
  BY <1>1, ComposedPath, Zenon
<1>3. CASE MakeError(h, p) # OK
  <2>1. Makes(h, f, n, kind) = Fails(h, f, MakeError(h, p))
    BY <1>1, <1>3, Zenon DEF Makes
  <2>2. Makes(h, f, n, kind).host = h
    BY <1>3, <2>1, FailsIs
  <2> QED BY <2>2, Unchanged, Zenon
<1>4. CASE MakeError(h, p) = OK
  <2>1. Makes(h, f, n, kind) = Fine(Make(h, p, kind), f, Len(h.kind) + 1)
    BY <1>1, <1>4, Zenon DEF Makes
  <2>2. Makes(h, f, n, kind).host = Make(h, p, kind)
    BY <2>1, FineIs
  <2> QED BY <1>2, <1>4, <2>2, MakeIs, Zenon DEF Harmless
<1> QED BY <1>3, <1>4, Zenon

LEMMA LinkIs ==
    ASSUME NEW h, HostOK(h), NEW df, FileShape(df), NEW f, FileShape(f), NEW n \in Names
    PROVE  Harmless(h, fs_link(h, df, f, n))
<1>1. PICK p : p = compose_path(df.path, n)
  BY Zenon
<1>2. p \in Seq(Names) /\ p # Root
  BY <1>1, ComposedPath, Zenon
<1>3. PICK left : left = fs_link(h, df, f, n)
  BY Zenon
<1>4. CASE \E e : e # OK /\ left = Fails(h, f, e)
  <2>1. left.host = h
    BY <1>4, FailsIs
  <2> QED BY <1>3, <2>1, Unchanged, Zenon
<1>5. CASE /\ Exists(h, f.path) /\ ~Exists(h, p) /\ IsDir(h, Parent(h, p))
           /\ left = Fine([h EXCEPT !.tree = Bind(@, Walked(h, p), Lstat(h, f.path))], f, NoInode)
  <2>1. PICK q : q = Walked(h, p)
    BY Zenon
  <2>2. q \in Seq(Names) /\ q # Root /\ q \notin DOMAIN h.tree /\ IsDir(h, DirOf(q))
    BY <1>2, <1>5, <2>1, WalkedPath, Zenon DEF Exists, Parent
  <2>3. PICK ino : ino = Lstat(h, f.path)
    BY Zenon
  <2>4. /\ h = [tree |-> h.tree, kind |-> h.kind, files |-> h.files, open |-> h.open]
        /\ h.kind \in Seq({"dir", "link", "file"})
        /\ h.tree \in [DOMAIN h.tree -> 1 .. Len(h.kind)]
    BY Zenon DEF HostOK, HostShape
  <2>5. ino \in 1 .. Len(h.kind)
    BY <1>5, <2>3, <2>4, Zenon DEF Lstat, Exists
  <2>6. left.host = [h EXCEPT !.tree = Bind(h.tree, q, ino)]
    BY <1>5, <2>1, <2>3, <2>4, FineIs
  <2>7. left.host = [tree |-> Bind(h.tree, q, ino), kind |-> h.kind, files |-> h.files,
                     open |-> h.open]
    BY <2>4, <2>6
  <2>8. Len(h.kind) <= Len(h.kind)
    BY <2>4
  <2>9. Binding(h, left.host, q, ino, h.kind)
    BY <2>4, <2>5, <2>7, <2>8, Zenon DEF Binding
  <2>10. Added(h, left.host, q, ino) /\ SameCounts(h, left.host)
    BY <2>2, <2>9, BindIs, Zenon
  <2>11. HostOK(left.host) /\ \A x \in Seq(Names) : \A i : LeadsTo(h, x, i) => LeadsTo(left.host, x, i)
    BY <2>2, <2>10, AddedOK, Zenon
  <2> QED BY <1>3, <2>10, <2>11, Zenon DEF Harmless, Keeps
<1>6. NotFound(h, f.path) # OK /\ NotFound(h, p) # OK /\ "EEXIST" # OK /\ "EPERM" # OK
  BY DEF NotFound, OK
<1> QED BY <1>1, <1>3, <1>4, <1>5, <1>6, Zenon DEF fs_link

\* What fs_create leaves: a file at the new path, or the old one closed.
Created(h, f, left) ==
    /\ HostOK(left.host) /\ Keeps(h, left.host) /\ FileShape(left.file)
    /\ left.host.files = h.files /\ left.host.open = (h.open - Was(f)) + Was(left.file)
    /\ left.err # OK => left.file.path = f.path
    /\ left.err = OK => LeadsTo(left.host, left.file.path, left.val)

LEMMA CreateIs ==
    ASSUME NEW h, HostOK(h), NEW f, FileShape(f), NEW n \in Names, NEW excl
    PROVE  Created(h, f, fs_create(h, f, n, excl))
<1>1. PICK left : left = fs_create(h, f, n, excl)
  BY Zenon
<1>2. PICK z : z = fs_close(h, f)
  BY Zenon
<1>3. /\ SameTree(h, z.host) /\ z.host.files = h.files /\ z.host.open = h.open - Was(f)
      /\ FileShape(z.file) /\ z.file.path = f.path /\ z.file.open = "no"
  BY <1>2, CloseIs DEF HostOK
<1>4. HostOK(z.host) /\ Keeps(h, z.host)
  BY <1>3, KeepsSame, Zenon
<1>5. PICK p : p = compose_path(z.file.path, n)
  BY Zenon
<1>6. p \in Seq(Names) /\ p # Root
  BY <1>3, <1>5, ComposedPath, Zenon
<1>7. z.host.open \in Int /\ z.host.open + 0 = z.host.open
  <2>1. z.host.open \in Int
    BY <1>4, Zenon DEF HostOK, HostShape
  <2> QED BY <2>1
<1>8. CASE \E e : e # OK /\ left = Fails(z.host, z.file, e)
  <2>1. left.host = z.host /\ left.file = z.file /\ left.err # OK
    BY <1>8, FailsIs
  <2>2. Was(left.file) = 0
    BY <1>3, <2>1, Zenon DEF Was
  <2> QED BY <1>1, <1>3, <1>4, <1>7, <2>1, <2>2, Zenon DEF Created
<1>9. PICK y : y = [z.file EXCEPT !.path = p]
  BY Zenon
<1>10. FileShape(y) /\ y.path = p /\ y.open = "no"
  <2>1. z.file = [path |-> z.file.path, open |-> z.file.open, ino |-> z.file.ino]
    BY <1>3, Zenon DEF FileShape
  <2>2. y = [path |-> p, open |-> z.file.open, ino |-> z.file.ino]
    BY <1>9, <2>1
  <2>3. y.path = p /\ y.open = z.file.open /\ y.ino = z.file.ino
    BY <2>2, Zenon
  <2> QED BY <1>3, <1>6, <2>2, <2>3, Zenon DEF FileShape
<1>11. ASSUME NEW g, HostOK(g), Keeps(h, g), g.files = h.files, g.open = z.host.open,
              \E i, v : left = [Opens(g, y, "fd", i) EXCEPT !.val = v] /\ LeadsTo(g, p, v)
       PROVE  Created(h, f, left)
  <2>0. PICK i, v : left = [Opens(g, y, "fd", i) EXCEPT !.val = v] /\ LeadsTo(g, p, v)
    BY <1>11, Zenon
  <2>1. PICK c : c = Opens(g, y, "fd", i)
    BY Zenon
  <2>2. /\ SameTree(g, c.host) /\ c.host.files = g.files /\ c.host.open = g.open + 1
        /\ FileShape(c.file) /\ c.file.path = p /\ c.file.open # "no" /\ c.err = OK
    BY <1>10, <1>11, <2>1, OpensIs DEF HostOK
  <2>3. left.host = c.host /\ left.file = c.file /\ left.err = c.err /\ left.val = v
    BY <2>0, <2>1 DEF Opens, Fine, Left
  <2>4. HostOK(c.host) /\ LeadsTo(c.host, p, v) /\ Keeps(h, c.host)
    BY <1>11, <2>0, <2>2, SameTreeOK DEF Keeps
  <2>5. Was(c.file) = 1
    BY <2>2, Zenon DEF Was
  <2> QED BY <1>3, <1>11, <2>2, <2>3, <2>4, <2>5, Zenon DEF Created
<1>12. CASE Exists(z.host, p) /\ left = [Opens(z.host, y, "fd", Stat(z.host, p)) EXCEPT !.val = Lstat(z.host, p)]
  <2>1. LeadsTo(z.host, p, Lstat(z.host, p))
    BY <1>12, Zenon DEF LeadsTo, Lstat, Exists
  <2> QED BY <1>1, <1>3, <1>4, <1>11, <1>12, <2>1, Zenon
<1>13. CASE /\ MakeError(z.host, p) = OK
            /\ left = [Opens(Make(z.host, p, "file"), y, "fd", Len(z.host.kind) + 1)
                          EXCEPT !.val = Len(z.host.kind) + 1]
  <2>1. PICK g : g = Make(z.host, p, "file")
    BY Zenon
  <2>2. /\ HostOK(g) /\ SameCounts(z.host, g) /\ Keeps(z.host, g)
        /\ LeadsTo(g, p, Len(z.host.kind) + 1)
    BY <1>4, <1>6, <1>13, <2>1, MakeIs
  <2>4. Keeps(h, g) /\ g.files = h.files /\ g.open = z.host.open
    BY <1>3, <1>4, <2>2, Zenon DEF Keeps, SameCounts
  <2> QED BY <1>1, <1>11, <1>13, <2>1, <2>2, <2>4, Zenon
<1>14. CASE /\ Exists(z.host, p) /\ MakeError(z.host, LinkTarget) = OK
            /\ left = [Opens(Make(z.host, LinkTarget, "file"), y, "fd", Len(z.host.kind) + 1)
                          EXCEPT !.val = Lstat(z.host, p)]
  <2>1. PICK g : g = Make(z.host, LinkTarget, "file")
    BY Zenon
  <2>2. LinkTarget \in Seq(Names) /\ LinkTarget # Root
    <3>1. Walked(z.host, Root) = Root
      BY DEF Walked, Root
    <3>2. Exists(z.host, Root)
      BY <1>4, <3>1, Zenon DEF Exists, HostOK, HostShape
    <3>3. MakeError(z.host, Root) # OK
      <4>1. "EEXIST" # OK
        BY DEF OK
      <4> QED BY <3>2, <4>1, Zenon DEF MakeError
    <3> QED BY <1>14, <3>3, LinkTargetPath, Zenon
  <2>3. HostOK(g) /\ SameCounts(z.host, g) /\ Keeps(z.host, g)
    BY <1>4, <1>14, <2>1, <2>2, MakeIs
  <2>4. Keeps(h, g) /\ g.files = h.files /\ g.open = z.host.open
    BY <1>3, <1>4, <2>3, Zenon DEF Keeps, SameCounts
  <2>5. LeadsTo(z.host, p, Lstat(z.host, p))
    BY <1>14, Zenon DEF LeadsTo, Lstat, Exists
  <2>6. LeadsTo(g, p, Lstat(z.host, p))
    BY <1>6, <2>3, <2>5, Zenon DEF Keeps
  <2> QED BY <1>1, <1>11, <1>14, <2>1, <2>3, <2>4, <2>6, Zenon
<1>15. "EEXIST" # OK /\ "ELOOP" # OK /\ "EISDIR" # OK
  BY DEF OK
<1>16. \/ \E e : e # OK /\ left = Fails(z.host, z.file, e)
       \/ Exists(z.host, p) /\ left = [Opens(z.host, y, "fd", Stat(z.host, p)) EXCEPT !.val = Lstat(z.host, p)]
       \/ /\ MakeError(z.host, p) = OK
          /\ left = [Opens(Make(z.host, p, "file"), y, "fd", Len(z.host.kind) + 1)
                        EXCEPT !.val = Len(z.host.kind) + 1]
       \/ /\ Exists(z.host, p) /\ MakeError(z.host, LinkTarget) = OK
          /\ left = [Opens(Make(z.host, LinkTarget, "file"), y, "fd", Len(z.host.kind) + 1)
                        EXCEPT !.val = Lstat(z.host, p)]
  BY <1>1, <1>2, <1>5, <1>9, <1>15, Zenon DEF fs_create
<1> QED BY <1>1, <1>8, <1>12, <1>13, <1>14, <1>16, Zenon

\* A rename or removal at p may change what x leads to.
Touches(h, p, x) ==
    OnWay(Walked(h, p), Walked(h, x)) \/ OnWay(p, x) \/ IsLink(h, Walked(h, p))

\* What a function that renames or removes at the paths ps leaves.
Disturbs(h, ps, left) ==
    /\ HostOK(left.host) /\ SameCounts(h, left.host)
    /\ left.err # OK => Keeps(h, left.host)
    /\ \A x \in Seq(Names) : \A i :
          LeadsTo(h, x, i) /\ (\A p \in ps : ~Touches(h, p, x)) => LeadsTo(left.host, x, i)

LEMMA Undisturbed ==
    ASSUME NEW h, HostOK(h), NEW ps, NEW left, left.host = h PROVE Disturbs(h, ps, left)
  BY Zenon DEF Disturbs, SameCounts, Keeps

LEMMA UnlinkIs ==
    ASSUME NEW h, HostOK(h), NEW f, FileShape(f), NEW n \in Names
    PROVE  Disturbs(h, {compose_path(f.path, n)}, fs_unlinkat(h, f, n))
<1>1. PICK p : p = compose_path(f.path, n)
  BY Zenon
<1>2. p \in Seq(Names) /\ p # Root
  BY <1>1, ComposedPath, Zenon
<1>3. PICK left : left = fs_unlinkat(h, f, n)
  BY Zenon
<1>4. CASE RemoveError(h, p) # OK
  <2>1. left = Fails(h, f, RemoveError(h, p))
    BY <1>1, <1>3, <1>4, Zenon DEF fs_unlinkat
  <2>2. left.host = h
    BY <1>4, <2>1, FailsIs
  <2> QED BY <1>3, <2>2, Undisturbed, Zenon
<1>5. CASE RemoveError(h, p) = OK
  <2>1. PICK q : q = Walked(h, p)
    BY Zenon
  <2>2. q \in Seq(Names) /\ q # Root
    BY <1>2, <2>1, WalkedPath, Zenon
  <2>3. q \in DOMAIN h.tree /\ Below(h, q) = {q}
    <3>1. NotFound(h, p) # OK /\ "ENOTEMPTY" # OK
      BY DEF NotFound, OK
    <3> QED BY <1>5, <2>1, <3>1, Zenon DEF RemoveError, Exists
  <2>4. PICK t : t = Without(h.tree, {q})
    BY Zenon
  <2>5. /\ h = [tree |-> h.tree, kind |-> h.kind, files |-> h.files, open |-> h.open]
        /\ h.files \in Int /\ h.open \in Int
        /\ h.kind \in Seq({"dir", "link", "file"})
        /\ h.tree \in [DOMAIN h.tree -> 1 .. Len(h.kind)]
        /\ DOMAIN h.tree \subseteq Seq(Names)
        /\ Root \in DOMAIN h.tree
    BY Zenon DEF HostOK, HostShape
  <2>6. /\ DOMAIN t = DOMAIN h.tree \ {q}
        /\ t \in [DOMAIN t -> 1 .. Len(h.kind)]
        /\ \A x \in DOMAIN t : t[x] = h.tree[x]
    BY <2>4, <2>5 DEF Without
  <2>7. left = Fine([h EXCEPT !.tree = t], f, NoInode)
    <3>1. left = Fine([h EXCEPT !.tree = Without(@, {Walked(h, p)})], f, NoInode)
      BY <1>1, <1>3, <1>5, Zenon DEF fs_unlinkat
    <3> QED BY <2>1, <2>4, <3>1
  <2>8. left.host = [h EXCEPT !.tree = t]
    BY <2>7, FineIs
  <2>9. left.host = [tree |-> t, kind |-> h.kind, files |-> h.files, open |-> h.open]
    BY <2>5, <2>8
  <2>10. /\ left.host.tree = t /\ left.host.kind = h.kind /\ left.host.files = h.files
         /\ left.host.open = h.open
    BY <2>9
  <2>11. HostShape(left.host)
    BY <2>2, <2>5, <2>6, <2>9, <2>10, Zenon DEF HostShape
  <2>12. Removed(h, left.host, q)
    BY <2>6, <2>10, <2>11, Zenon DEF Removed, KindAt
  <2>13. /\ HostOK(left.host)
         /\ \A x \in Seq(Names) : \A i :
               ~IsLink(h, q) /\ ~OnWay(q, Walked(h, x)) /\ LeadsTo(h, x, i) => LeadsTo(left.host, x, i)
    BY <2>2, <2>3, <2>12, RemovedOK, Zenon
  <2>14. left.err = OK
    BY <2>7, FineIs
  <2>15. ASSUME NEW x \in Seq(Names), NEW i, LeadsTo(h, x, i), ~Touches(h, p, x)
         PROVE  LeadsTo(left.host, x, i)
    BY <2>1, <2>13, <2>15, Zenon DEF Touches
  <2> QED BY <1>1, <1>3, <2>10, <2>13, <2>14, <2>15, Zenon DEF Disturbs, SameCounts
<1> QED BY <1>4, <1>5, Zenon

LEMMA RenameIs ==
    ASSUME NEW h, HostOK(h), NEW f, FileShape(f), NEW n \in Names,
           NEW g, FileShape(g), NEW m \in Names
    PROVE  Disturbs(h, {compose_path(f.path, n), compose_path(g.path, m)},
                    fs_renameat(h, f, n, g, m))
<1>1. PICK p, q : p = compose_path(f.path, n) /\ q = compose_path(g.path, m)
  BY Zenon
<1>2. p \in Seq(Names) /\ p # Root /\ q \in Seq(Names) /\ q # Root
  BY <1>1, ComposedPath, Zenon
<1>3. PICK left : left = fs_renameat(h, f, n, g, m)
  BY Zenon
<1>4. CASE RenameError(h, p, q) # OK
  <2>1. left = Fails(h, f, RenameError(h, p, q))
    BY <1>1, <1>3, <1>4, Zenon DEF fs_renameat
  <2>2. left.host = h
    BY <1>4, <2>1, FailsIs
  <2> QED BY <1>3, <2>2, Undisturbed, Zenon
<1>5. CASE RenameError(h, p, q) = OK
  <2>1. left = Fine(Rename(h, p, q), f, NoInode)
    BY <1>1, <1>3, <1>5, Zenon DEF fs_renameat
  <2>2. left.host = Rename(h, p, q) /\ left.err = OK
    BY <2>1, FineIs
  <2>3. PICK src, dst : src = Walked(h, p) /\ dst = Walked(h, q)
    BY Zenon
  <2>4. src \in Seq(Names) /\ src # Root /\ dst \in Seq(Names) /\ dst # Root
    BY <1>2, <2>3, WalkedPath, Zenon
  <2>5. /\ src \in DOMAIN h.tree /\ IsDir(h, DirOf(dst)) /\ ~(OnWay(src, dst) /\ src # dst)
        /\ dst \in DOMAIN h.tree /\ src # dst => Below(h, dst) = {dst}
    <3>1. /\ NotFound(h, p) # OK /\ NotFound(h, q) # OK /\ "ENOTEMPTY" # OK /\ "EINVAL" # OK
          /\ "ENOTDIR" # OK /\ "EISDIR" # OK
      BY DEF NotFound, OK
    <3> QED BY <1>5, <2>3, <3>1, Zenon DEF RenameError, Exists, Parent
  <2>6. CASE dst \in DOMAIN h.tree /\ h.tree[src] = h.tree[dst]
    <3>1. left.host = h
      BY <2>2, <2>3, <2>6, Zenon DEF Rename
    <3> QED BY <1>3, <3>1, Undisturbed, Zenon
  <2>7. CASE ~(dst \in DOMAIN h.tree /\ h.tree[src] = h.tree[dst])
    <3>1. src # dst
      BY <2>5, <2>7, Zenon
    <3>2. Bare(h, dst)
      BY <2>4, <2>5, <3>1, BareIs, Zenon
    <3>3. left.host = [h EXCEPT !.tree = TreeAfter(h, src, dst)]
      <4>1. Rename(h, p, q) =
              IF Walked(h, q) \in DOMAIN h.tree /\ h.tree[Walked(h, p)] = h.tree[Walked(h, q)] THEN h
              ELSE [h EXCEPT !.tree = TreeAfter(h, Walked(h, p), Walked(h, q))]
        BY Zenon DEF Rename, TreeAfter, Kept, Moved, Swap
      <4> QED BY <2>2, <2>3, <2>7, <4>1, Zenon
    <3>4. Renamed(h, left.host, src, dst) /\ SameCounts(h, left.host)
      BY <2>4, <3>2, <3>3, RenamedIs DEF SameCounts
    <3>5. HostOK(left.host)
      BY <2>4, <2>5, <3>1, <3>2, <3>4, RenamedClosed, Zenon DEF HostOK, Renamed
    <3>6. ASSUME NEW x \in Seq(Names), NEW i, LeadsTo(h, x, i), ~Touches(h, p, x), ~Touches(h, q, x)
          PROVE  LeadsTo(left.host, x, i)
      <4>1. ~IsLink(h, src) /\ ~IsLink(h, dst) /\ ~OnWay(src, Walked(h, x)) /\ ~OnWay(dst, Walked(h, x))
        BY <2>3, <3>6, Zenon DEF Touches
      <4> QED BY <2>4, <2>5, <3>4, <3>6, <4>1, RenamedKeeps, Zenon
    <3> QED BY <1>1, <1>3, <2>2, <3>4, <3>5, <3>6, Zenon DEF Disturbs
  <2> QED BY <2>6, <2>7, Zenon
<1> QED BY <1>4, <1>5, Zenon

-----------------------------------------------------------------------------
(* Walks, and file objects made and deleted *)

LEMMA CreatedFile ==
    ASSUME NEW h, HostShape(h)
    PROVE  /\ SameTree(h, fid_create(h)) /\ fid_create(h).files = h.files + 1
           /\ fid_create(h).open = h.open
<1>1. /\ h = [tree |-> h.tree, kind |-> h.kind, files |-> h.files, open |-> h.open]
      /\ h.files \in Int /\ h.open \in Int
  BY Zenon DEF HostShape
<1>2. PICK g : g = fid_create(h)
  BY Zenon
<1>3. g = [tree |-> h.tree, kind |-> h.kind, files |-> h.files + 1, open |-> h.open]
  BY <1>1, <1>2 DEF fid_create
<1>4. h.files + 1 \in Int
  BY <1>1
<1> QED BY <1>1, <1>2, <1>3, <1>4, CountsOnly

LEMMA DeleteIs ==
    ASSUME NEW h, HostShape(h), NEW f, FileShape(f)
    PROVE  /\ SameTree(h, fs_delete(h, f)) /\ fs_delete(h, f).files = h.files - 1
           /\ fs_delete(h, f).open = h.open - Was(f)
<1>1. PICK c : c = fs_close(h, f)
  BY Zenon
<1>2. SameTree(h, c.host) /\ c.host.files = h.files /\ c.host.open = h.open - Was(f)
  BY <1>1, CloseIs
<1>3. PICK g : g = c.host
  BY Zenon
<1>4. /\ g = [tree |-> g.tree, kind |-> g.kind, files |-> g.files, open |-> g.open]
      /\ g.files \in Int /\ g.open \in Int /\ HostShape(g)
  BY <1>2, <1>3, Zenon DEF HostShape, SameTree
<1>5. PICK d : d = fs_delete(h, f)
  BY Zenon
<1>6. d = [g EXCEPT !.files = @ - 1]
  BY <1>1, <1>3, <1>5, Zenon DEF fs_delete
<1>7. d = [tree |-> g.tree, kind |-> g.kind, files |-> g.files - 1, open |-> g.open]
  BY <1>4, <1>6
<1>8. g.files - 1 \in Int
  BY <1>4
<1>9. SameTree(g, d) /\ d.files = g.files - 1 /\ d.open = g.open
  BY <1>4, <1>7, <1>8, CountsOnly
<1> QED BY <1>2, <1>3, <1>5, <1>9, Zenon DEF SameTree

LEMMA NewFileIs ==
    ASSUME NEW p \in Seq(Names)
    PROVE  /\ FileShape(NewFile(p)) /\ NewFile(p).path = p /\ NewFile(p).open = "no"
           /\ Was(NewFile(p)) = 0
  BY DEF NewFile, FileShape, Was

LEMMA AttachIs ==
    ASSUME NEW h, HostOK(h), NEW left, left = fs_attach(h)
    PROVE  /\ left.err = OK /\ left.host = fid_create(h) /\ left.file = NewFile(Root)
           /\ LeadsTo(h, Root, left.val) /\ Root \in Seq(Names)
<1>1. Len(Root) = 0 /\ Root \in Seq(Names)
  BY DEF Root
<1>2. Walked(h, Root) = Root
  BY <1>1 DEF Walked
<1>3. Root \in DOMAIN h.tree
  BY Zenon DEF HostOK, HostShape
<1>4. left = Fine(fid_create(h), NewFile(Root), h.tree[Root])
  BY <1>2, <1>3, Zenon DEF fs_attach, Exists
<1>5. /\ left.err = OK /\ left.host = fid_create(h) /\ left.file = NewFile(Root)
      /\ left.val = h.tree[Root]
  BY <1>4, FineIs
<1> QED BY <1>1, <1>2, <1>3, <1>5, Zenon DEF LeadsTo

\* Some number of names is as far as a walk gets.
Ends(h, path, names, n) ==
    /\ \A i \in 1 .. n : Exists(h, path \o SubSeq(names, 1, i))
    /\ n < Len(names) => ~Exists(h, path \o SubSeq(names, 1, n + 1))

Walkable(h, path, names) == \E n \in 0 .. Len(names) : Ends(h, path, names, n)

LEMMA WalkIs ==
    ASSUME NEW h, NEW f, FileShape(f), NEW names \in Seq(Names),
           Walkable(h, f.path, names),
           NEW left, left = fs_walk(h, f, names)
    PROVE  /\ left.host = fid_create(h) /\ left.file = NewFile(left.file.path)
           /\ left.file.path \in Seq(Names)
           /\ left.val = 0 => left.file.path = f.path
           /\ left.val # 0 => LeadsTo(h, left.file.path, Lstat(h, left.file.path))
<1>1. PICK n : n = WalkLength(h, f.path, names)
  BY Zenon
<1>2. n \in 0 .. Len(names) /\ Ends(h, f.path, names, n)
  BY <1>1, Zenon DEF WalkLength, Ends, Walkable
<1>3. PICK p : p = f.path \o SubSeq(names, 1, n)
  BY Zenon
<1>4. f.path \in Seq(Names)
  BY Zenon DEF FileShape
<1>5. SubSeq(names, 1, n) \in Seq(Names) /\ Len(SubSeq(names, 1, n)) = n
  BY <1>2
<1>6. p \in Seq(Names)
  BY <1>3, <1>4, <1>5
<1>7. left = Fine(fid_create(h), NewFile(p), n)
  BY <1>1, <1>3, Zenon DEF fs_walk
<1>8. left.host = fid_create(h) /\ left.file = NewFile(p) /\ left.val = n
  BY <1>7, FineIs
<1>9. left.file.path = p
  BY <1>6, <1>8, NewFileIs, Zenon
<1>10. ASSUME n = 0 PROVE p = f.path
  <2>1. SubSeq(names, 1, n) = <<>>
    BY <1>5, <1>10
  <2>2. f.path \o <<>> = f.path
    BY <1>4
  <2> QED BY <1>3, <2>1, <2>2, Zenon
<1>11. ASSUME n # 0 PROVE Exists(h, p)
  <2>1. n \in 1 .. n
    BY <1>2, <1>11
  <2> QED BY <1>2, <1>3, <2>1, Zenon DEF Ends
<1>12. Exists(h, p) => LeadsTo(h, p, Lstat(h, p))
  BY Zenon DEF Exists, LeadsTo, Lstat
<1> QED BY <1>6, <1>8, <1>9, <1>10, <1>11, <1>12, Zenon

-----------------------------------------------------------------------------
(* The list of fids *)

\* l2 is l with fid bound to x; or without fid.
Replaced(l, l2, fid, x) ==
    /\ DOMAIN l2 = DOMAIN l \cup {fid} /\ l2[fid] = x
    /\ \A g \in DOMAIN l : g # fid => l2[g] = l[g]

Dropped(l, l2, fid) ==
    /\ DOMAIN l2 = DOMAIN l \ {fid}
    /\ \A g \in DOMAIN l2 : l2[g] = l[g]

LEMMA PutIs == ASSUME NEW l, NEW fid, NEW x PROVE Replaced(l, Put(l, fid, x), fid, x)
  BY DEF Replaced, Put

LEMMA ExceptIs ==
    ASSUME NEW l, NEW fid \in DOMAIN l, NEW x PROVE Replaced(l, [l EXCEPT ![fid] = x], fid, x)
  BY DEF Replaced

LEMMA WithoutIs == ASSUME NEW l, NEW fid PROVE Dropped(l, Without(l, {fid}), fid)
  BY DEF Dropped, Without

LEMMA PathReplaced ==
    ASSUME NEW h, NEW l, NEW b, NEW m, PathOK(h, l, b, m), NEW g, HostOK(g), Keeps(h, g),
           NEW l2, NEW fid, NEW f, Replaced(l, l2, fid, f), FileShape(f),
           NEW b2, NEW m2, DOMAIN b2 = DOMAIN l2,
           \A x \in DOMAIN l : x # fid => b2[x] = b[x] /\ (x \in m => x \in m2),
           fid \notin m2 => LeadsTo(g, f.path, b2[fid])
    PROVE  PathOK(g, l2, b2, m2)
<1>1. ASSUME NEW x \in DOMAIN l2
      PROVE  FileShape(l2[x]) /\ (x \notin m2 => LeadsTo(g, l2[x].path, b2[x]))
  <2>1. CASE x = fid
    BY <2>1, Zenon DEF Replaced
  <2>2. CASE x # fid
    <3>1. x \in DOMAIN l /\ l2[x] = l[x] /\ b2[x] = b[x] /\ FileShape(l[x])
      BY <2>2, Zenon DEF Replaced, PathOK
    <3>2. ASSUME x \notin m2 PROVE LeadsTo(g, l[x].path, b[x])
      <4>1. LeadsTo(h, l[x].path, b[x]) /\ l[x].path \in Seq(Names)
        BY <2>2, <3>1, <3>2, Zenon DEF PathOK, FileShape
      <4> QED BY <4>1, Zenon DEF Keeps
    <3> QED BY <3>1, <3>2, Zenon
  <2> QED BY <2>1, <2>2, Zenon
<1> QED BY <1>1, Zenon DEF PathOK

LEMMA PathDropped ==
    ASSUME NEW h, NEW l, NEW b, NEW m, PathOK(h, l, b, m), NEW g, SameTree(h, g),
           NEW fid, NEW l2, Dropped(l, l2, fid), NEW b2, Dropped(b, b2, fid),
           NEW m2, m2 = m \ {fid}
    PROVE  PathOK(g, l2, b2, m2)
<1>1. HostOK(g) /\ Keeps(h, g)
  BY KeepsSame, Zenon DEF PathOK
<1>2. ASSUME NEW x \in DOMAIN l2
      PROVE  FileShape(l2[x]) /\ (x \notin m2 => LeadsTo(g, l2[x].path, b2[x]))
  <2>1. /\ x \in DOMAIN l /\ x # fid /\ l2[x] = l[x] /\ b2[x] = b[x] /\ FileShape(l[x])
        /\ l[x].path \in Seq(Names)
    BY Zenon DEF Dropped, PathOK, FileShape
  <2> QED BY <1>1, <2>1, Zenon DEF PathOK, Keeps
<1> QED BY <1>1, <1>2, Zenon DEF PathOK, Dropped

LEMMA PathSettled ==
    ASSUME NEW h, NEW l, NEW b, NEW m, PathOK(h, l, b, m), NEW g, HostOK(g), NEW m2,
           \A x \in DOMAIN l \ m2 :
              x \notin m /\ (LeadsTo(h, l[x].path, b[x]) => LeadsTo(g, l[x].path, b[x]))
    PROVE  PathOK(g, l, b, m2)
  BY Zenon DEF PathOK

-----------------------------------------------------------------------------
(* What a request does, but for reading a directory *)

\* The counts once fid has the object f, and not the one it may have had.
NewCounts(h, h2, l, fid, f) ==
    /\ h2.files = h.files + (IF fid \in DOMAIN l THEN 0 ELSE 1)
    /\ h2.open = (h.open - (IF fid \in DOMAIN l THEN Was(l[fid]) ELSE 0)) + Was(f)

\* The counts follow the fids.
Owes(h, h2, l, l2) ==
    \/ SameCounts(h, h2) /\ l2 = l
    \/ \E fid, f : Replaced(l, l2, fid, f) /\ NewCounts(h, h2, l, fid, f)
    \/ \E fid \in DOMAIN l : /\ Dropped(l, l2, fid)
                             /\ h2.files = h.files - 1 /\ h2.open = h.open - Was(l[fid])

\* A listing in progress is given up, or its directory is as it was.
ListingKept(g, g2, h, h2, l, l2) ==
    \/ g2 = NoPage
    \/ /\ g2 = g
       /\ g.fid # NoFid =>
             /\ g.fid \in DOMAIN l2 /\ l2[g.fid] = l[g.fid]
             /\ Listing(h2, l[g.fid].ino) = Listing(h, l[g.fid].ino)

PathInv == PathOK(host, fid_list, bound, moved) /\ (page.fid # NoFid => page.fid \in DOMAIN fid_list)

Handled ==
    /\ PathOK(host', fid_list', bound', moved')
    /\ Owes(host, host', fid_list, fid_list')
    /\ ListingKept(page, page', host, host', fid_list, fid_list')

LEMMA NothingDone ==
    ASSUME PathInv, UNCHANGED <<host, fid_list, bound, moved, page>> PROVE Handled
<1>1. host' = host /\ fid_list' = fid_list /\ bound' = bound /\ moved' = moved /\ page' = page
  BY Zenon
<1> QED BY <1>1, Zenon DEF Handled, PathInv, Owes, ListingKept, SameCounts

LEMMA RefusedStep == ASSUME PathInv, NEW e, Refused(e) PROVE Handled
  BY NothingDone, Zenon DEF Refused

LEMMA PageAfterKept ==
    ASSUME PathInv, NEW g, page' = PageAfter(g), host' = g, fid_list' = fid_list
    PROVE  ListingKept(page, page', host, host', fid_list, fid_list')
  BY Zenon DEF PageAfter, ListingKept, PathInv

LEMMA SettleStep ==
    ASSUME PathInv, NEW left, Settle(left), HostOK(left.host), SameCounts(host, left.host),
           \A x \in DOMAIN fid_list \ moved' :
              /\ x \notin moved
              /\ LeadsTo(host, fid_list[x].path, bound[x]) =>
                    LeadsTo(left.host, fid_list[x].path, bound[x])
    PROVE  Handled
<1>1. host' = left.host /\ page' = PageAfter(left.host) /\ fid_list' = fid_list /\ bound' = bound
  BY Zenon DEF Settle
<1>2. PathOK(left.host, fid_list, bound, moved')
  BY PathSettled, Zenon DEF PathInv
<1>3. ListingKept(page, page', host, host', fid_list, fid_list')
  BY <1>1, PageAfterKept, Zenon
<1> QED BY <1>1, <1>2, <1>3, Zenon DEF Handled, Owes

\* A request that only adds to the host.
LEMMA HarmlessStep ==
    ASSUME PathInv, NEW left, Settle(left), Harmless(host, left), UNCHANGED moved PROVE Handled
<1>1. ASSUME NEW x \in DOMAIN fid_list \ moved'
      PROVE  /\ x \notin moved
             /\ LeadsTo(host, fid_list[x].path, bound[x]) =>
                   LeadsTo(left.host, fid_list[x].path, bound[x])
  <2>1. fid_list[x].path \in Seq(Names) /\ x \notin moved
    BY Zenon DEF PathInv, PathOK, FileShape
  <2> QED BY <2>1, Zenon DEF Harmless, Keeps
<1> QED BY <1>1, SettleStep, Zenon DEF Harmless

LEMMA FoundFile ==
    ASSUME PathInv, NEW r, Found(r) PROVE r.fid \in DOMAIN fid_list /\ FileShape(File(r)) /\ HostOK(host)
  BY Zenon DEF PathInv, PathOK, Found, File

LEMMA MakeStep ==
    ASSUME PathInv, NEW r \in Requests, Symlink(r) \/ Mknod(r) \/ Mkdir(r) PROVE Handled
<1>1. r.name \in Names
  BY RequestsAssumption, Zenon DEF Symlink, Mknod, Mkdir
<1>2. PICK kind \in {"dir", "link", "file"} : MakeWith(r, Makes(host, File(r), r.name, kind))
  BY Zenon DEF Symlink, Mknod, Mkdir, fs_symlink, fs_mknod, fs_mkdir
<1>3. CASE ~unmarshall(r) \/ ~Found(r)
  BY <1>2, <1>3, RefusedStep, Zenon DEF MakeWith
<1>4. CASE ~(~unmarshall(r) \/ ~Found(r))
  <2>1. Settle(Makes(host, File(r), r.name, kind)) /\ UNCHANGED moved
    BY <1>2, <1>4, Zenon DEF MakeWith
  <2>2. FileShape(File(r)) /\ HostOK(host)
    BY <1>4, FoundFile, Zenon
  <2>3. Harmless(host, Makes(host, File(r), r.name, kind))
    BY <1>1, <2>2, MakesIs, Zenon
  <2> QED BY <2>1, <2>3, HarmlessStep, Zenon
<1> QED BY <1>3, <1>4, Zenon

LEMMA LinkStep == ASSUME PathInv, NEW r \in Requests, Link(r) PROVE Handled
<1>1. r.name \in Names
  BY RequestsAssumption, Zenon DEF Link
<1>2. CASE ~unmarshall(r) \/ ~Both(r)
  BY <1>2, RefusedStep, Zenon DEF Link
<1>3. CASE ~(~unmarshall(r) \/ ~Both(r))
  <2>1. Settle(fs_link(host, File(r), fid_list[r.other], r.name)) /\ UNCHANGED moved
    BY <1>3, Zenon DEF Link
  <2>2. FileShape(File(r)) /\ HostOK(host) /\ FileShape(fid_list[r.other])
    BY <1>3, FoundFile, Zenon DEF Both, PathInv, PathOK
  <2>3. Harmless(host, fs_link(host, File(r), fid_list[r.other], r.name))
    BY <1>1, <2>2, LinkIs, Zenon
  <2> QED BY <2>1, <2>3, HarmlessStep, Zenon
<1> QED BY <1>2, <1>3, Zenon

\* The functions that only look at the host.
Looks(r) ==
    \/ Readlink(r) \/ Getattr(r) \/ Setattr(r) \/ Read(r) \/ Write(r) \/ Lock(r) \/ Getlock(r)

LEMMA LookStep == ASSUME PathInv, NEW r, Looks(r) PROVE Handled
<1>1. PICK left : OnFile(r, left) /\ left.host = host
  <2>1. /\ fs_readlink(host, File(r)).host = host /\ fs_stat(host, File(r)).host = host
        /\ fs_setattr(host, File(r), r.size).host = host /\ fs_read(host, File(r)).host = host
        /\ fs_write(host, File(r)).host = host /\ fs_lock(host, File(r)).host = host
        /\ fs_getlock(host, File(r)).host = host
    BY DEF fs_readlink, fs_stat, fs_setattr, fs_read, fs_write, fs_lock, fs_getlock, Fails, Fine, Left
  <2> QED BY <2>1, Zenon DEF Looks, Readlink, Getattr, Setattr, Read, Write, Lock, Getlock
<1>2. CASE ~unmarshall(r) \/ ~Found(r)
  BY <1>1, <1>2, RefusedStep, Zenon DEF OnFile
<1>3. CASE ~(~unmarshall(r) \/ ~Found(r))
  <2>1. Settle(left) /\ UNCHANGED moved
    BY <1>1, <1>3, Zenon DEF OnFile
  <2>2. Harmless(host, left)
    BY <1>1, Unchanged, Zenon DEF PathInv, PathOK
  <2> QED BY <2>1, <2>2, HarmlessStep, Zenon
<1> QED BY <1>2, <1>3, Zenon

\* A request that renames or removes at the paths ps: the fids it may concern are moved.
LEMMA DisturbStep ==
    ASSUME PathInv, NEW left, Settle(left), NEW ps, Disturbs(host, ps, left),
           moved \subseteq moved',
           left.err = OK => \A p \in ps : OnPath(host, p) \subseteq moved'
    PROVE  Handled
<1>1. ASSUME NEW x \in DOMAIN fid_list \ moved'
      PROVE  /\ x \notin moved
             /\ LeadsTo(host, fid_list[x].path, bound[x]) =>
                   LeadsTo(left.host, fid_list[x].path, bound[x])
  <2>1. fid_list[x].path \in Seq(Names) /\ x \notin moved
    BY Zenon DEF PathInv, PathOK, FileShape
  <2>2. CASE left.err # OK
    BY <2>1, <2>2, Zenon DEF Disturbs, Keeps
  <2>3. CASE left.err = OK
    <3>1. \A p \in ps : ~Touches(host, p, fid_list[x].path)
      BY <2>3, Zenon DEF OnPath, Touches
    <3> QED BY <2>1, <3>1, Zenon DEF Disturbs
  <2> QED BY <2>2, <2>3, Zenon
<1> QED BY <1>1, SettleStep, Zenon DEF Disturbs

LEMMA UnlinkStep == ASSUME PathInv, NEW r \in Requests, Unlinkat(r) PROVE Handled
<1>1. r.name \in Names
  BY RequestsAssumption, Zenon DEF Unlinkat
<1>2. CASE ~unmarshall(r) \/ ~Found(r)
  BY <1>2, RefusedStep, Zenon DEF Unlinkat
<1>3. CASE ~(~unmarshall(r) \/ ~Found(r))
  <2>1. PICK left : left = fs_unlinkat(host, File(r), r.name)
    BY Zenon
  <2>2. PICK p : p = compose_path(File(r).path, r.name)
    BY Zenon
  <2>3. /\ Settle(left)
        /\ moved' = IF left.err = OK THEN moved \cup OnPath(host, p) ELSE moved
    BY <1>3, <2>1, <2>2, Zenon DEF Unlinkat
  <2>4. Disturbs(host, {p}, left)
    BY <1>1, <1>3, <2>1, <2>2, FoundFile, UnlinkIs, Zenon
  <2>5. moved \subseteq moved' /\ (left.err = OK => \A q \in {p} : OnPath(host, q) \subseteq moved')
    BY <2>3, Zenon
  <2> QED BY <2>3, <2>4, <2>5, DisturbStep, Zenon
<1> QED BY <1>2, <1>3, Zenon

LEMMA RenameStep == ASSUME PathInv, NEW r \in Requests, Renameat(r) PROVE Handled
<1>1. r.name \in Names /\ r.new_name \in Names
  BY RequestsAssumption, Zenon DEF Renameat
<1>2. CASE ~unmarshall(r) \/ ~Both(r)
  BY <1>2, RefusedStep, Zenon DEF Renameat
<1>3. CASE ~(~unmarshall(r) \/ ~Both(r))
  <2>1. PICK to : to = fid_list[r.other]
    BY Zenon
  <2>2. FileShape(File(r)) /\ HostOK(host) /\ FileShape(to)
    BY <1>3, <2>1, FoundFile, Zenon DEF Both, PathInv, PathOK
  <2>3. PICK left : left = fs_renameat(host, File(r), r.name, to, r.new_name)
    BY Zenon
  <2>4. PICK p, q : p = compose_path(File(r).path, r.name) /\ q = compose_path(to.path, r.new_name)
    BY Zenon
  <2>5. /\ Settle(left)
        /\ moved' = IF left.err = OK THEN moved \cup OnPath(host, p) \cup OnPath(host, q) ELSE moved
    BY <1>3, <2>1, <2>3, <2>4, Zenon DEF Renameat
  <2>6. Disturbs(host, {p, q}, left)
    BY <1>1, <2>2, <2>3, <2>4, RenameIs, Zenon
  <2>7. /\ moved \subseteq moved'
        /\ left.err = OK => \A s \in {p, q} : OnPath(host, s) \subseteq moved'
    BY <2>5, Zenon
  <2> QED BY <2>5, <2>6, <2>7, DisturbStep, Zenon
<1> QED BY <1>2, <1>3, Zenon

-----------------------------------------------------------------------------
(* Requests on the list of fids *)

LEMMA SameListing ==
    ASSUME NEW h, NEW g, SameTree(h, g), NEW i PROVE Listing(g, i) = Listing(h, i)
  BY Zenon DEF SameTree, Listing

LEMMA OtherListing ==
    ASSUME PathInv, NEW fid, page' = PageWithout(fid), SameTree(host, host'),
           \A x \in DOMAIN fid_list : x # fid => x \in DOMAIN fid_list' /\ fid_list'[x] = fid_list[x]
    PROVE  ListingKept(page, page', host, host', fid_list, fid_list')
<1>1. CASE page.fid = fid
  BY <1>1, Zenon DEF PageWithout, ListingKept
<1>2. CASE page.fid # fid
  <2>1. page' = page
    BY <1>2, Zenon DEF PageWithout
  <2>2. \A i : Listing(host', i) = Listing(host, i)
    BY SameListing, Zenon
  <2> QED BY <1>2, <2>1, <2>2, Zenon DEF ListingKept, PathInv
<1> QED BY <1>1, <1>2, Zenon

\* attach and walk: the object is new, the one the fid had is deleted.
LEMMA BindsStep ==
    ASSUME PathInv, NEW fid, NEW f, FileShape(f), Was(f) = 0, NEW ino,
           Binds(fid, fid_create(host), f, ino),
           \A x \in DOMAIN fid_list : x # fid => (x \in moved => x \in moved'),
           fid \notin moved' => LeadsTo(host, f.path, ino)
    PROVE  Handled
<1>1. /\ host' = fid_set(fid_create(host), fid) /\ fid_list' = Put(fid_list, fid, f)
      /\ bound' = Put(bound, fid, ino) /\ page' = PageWithout(fid)
  BY Zenon DEF Binds
<1>2. HostOK(host) /\ HostShape(host) /\ host.files \in Int /\ host.open \in Int
  BY Zenon DEF PathInv, PathOK, HostOK, HostShape
<1>3. PICK c : c = fid_create(host)
  BY Zenon
<1>4. SameTree(host, c) /\ c.files = host.files + 1 /\ c.open = host.open /\ HostShape(c)
  BY <1>2, <1>3, CreatedFile, Zenon DEF SameTree
<1>5. SameTree(host, host') /\ NewCounts(host, host', fid_list, fid, f)
  <2>1. CASE fid \in DOMAIN fid_list
    <3>1. host' = fs_delete(c, fid_list[fid]) /\ FileShape(fid_list[fid])
      BY <1>1, <1>3, <2>1, Zenon DEF fid_set, PathInv, PathOK
    <3>2. /\ SameTree(c, host') /\ host'.files = c.files - 1
          /\ host'.open = c.open - Was(fid_list[fid])
      BY <1>4, <3>1, DeleteIs, Zenon
    <3>3. SameTree(host, host')
      BY <1>4, <3>2, Zenon DEF SameTree
    <3>4. Was(fid_list[fid]) \in Int
      BY DEF Was
    <3>5. /\ (host.files + 1) - 1 = host.files + 0
          /\ host.open - Was(fid_list[fid]) = (host.open - Was(fid_list[fid])) + 0
      BY <1>2, <3>4
    <3> QED BY <1>4, <2>1, <3>2, <3>3, <3>5, Zenon DEF NewCounts
  <2>2. CASE fid \notin DOMAIN fid_list
    <3>1. host' = c
      BY <1>1, <1>3, <2>2, Zenon DEF fid_set
    <3>2. host.open = (host.open - 0) + 0
      BY <1>2
    <3> QED BY <1>4, <2>2, <3>1, <3>2, Zenon DEF NewCounts
  <2> QED BY <2>1, <2>2, Zenon
<1>6. Replaced(fid_list, fid_list', fid, f) /\ Replaced(bound, bound', fid, ino)
  BY <1>1, PutIs, Zenon
<1>7. Owes(host, host', fid_list, fid_list')
  BY <1>5, <1>6, Zenon DEF Owes
<1>8. ListingKept(page, page', host, host', fid_list, fid_list')
  BY <1>1, <1>5, <1>6, OtherListing, Zenon DEF Replaced
<1>9. HostOK(host') /\ Keeps(host, host') /\ (LeadsTo(host, f.path, ino) => LeadsTo(host', f.path, ino))
  BY <1>2, <1>5, KeepsSame, Zenon DEF Keeps, FileShape
<1>10. PathOK(host', fid_list', bound', moved')
  <2>1. /\ DOMAIN bound' = DOMAIN fid_list' /\ bound'[fid] = ino
        /\ \A x \in DOMAIN fid_list : x # fid => bound'[x] = bound[x] /\ (x \in moved => x \in moved')
    BY <1>6, Zenon DEF Replaced, PathInv, PathOK
  <2>2. fid \notin moved' => LeadsTo(host', f.path, bound'[fid])
    BY <1>9, <2>1, Zenon
  <2>3. PathOK(host, fid_list, bound, moved)
    BY Zenon DEF PathInv
  <2> QED BY <1>6, <1>9, <2>1, <2>2, <2>3, PathReplaced
<1> QED BY <1>7, <1>8, <1>10, Zenon DEF Handled

LEMMA AttachStep == ASSUME PathInv, NEW r, Attach(r) PROVE Handled
<1>1. CASE ~unmarshall(r)
  BY <1>1, RefusedStep, Zenon DEF Attach
<1>2. CASE unmarshall(r)
  <2>1. PICK left : left = fs_attach(host)
    BY Zenon
  <2>2. Binds(r.fid, left.host, left.file, left.val) /\ moved' = moved \ {r.fid}
    BY <1>2, <2>1, Zenon DEF Attach
  <2>3. HostOK(host)
    BY Zenon DEF PathInv, PathOK
  <2>4. /\ left.host = fid_create(host) /\ left.file = NewFile(Root)
        /\ LeadsTo(host, Root, left.val) /\ Root \in Seq(Names)
    BY <2>1, <2>3, AttachIs
  <2>5. FileShape(left.file) /\ left.file.path = Root /\ Was(left.file) = 0
    BY <2>4, NewFileIs, Zenon
  <2>6. Binds(r.fid, fid_create(host), left.file, left.val)
    BY <2>2, <2>4, Zenon
  <2>7. \A x \in DOMAIN fid_list : x # r.fid => (x \in moved => x \in moved')
    BY <2>2, Zenon
  <2>8. LeadsTo(host, left.file.path, left.val)
    BY <2>4, <2>5, Zenon
  <2> QED BY <2>5, <2>6, <2>7, <2>8, BindsStep
<1> QED BY <1>1, <1>2, Zenon

LEMMA WalkStep ==
    ASSUME PathInv, NEW r \in Requests, Walk(r),
           \A path, names \in Seq(Names) : Walkable(host, path, names)
    PROVE  Handled
<1>1. r.names \in Seq(Names)
  BY RequestsAssumption, Zenon DEF Walk
<1>2. CASE ~Found(r) \/ ~unmarshall(r)
  BY <1>2, RefusedStep, Zenon DEF Walk
<1>3. CASE ~(~Found(r) \/ ~unmarshall(r))
  <2>1. PICK left : left = fs_walk(host, File(r), r.names)
    BY Zenon
  <2>2. PICK ino : ino = IF left.val = 0 THEN bound[r.fid] ELSE Lstat(host, left.file.path)
    BY Zenon
  <2>3. /\ Binds(r.newfid, left.host, left.file, ino)
        /\ moved' = IF left.val = 0 /\ r.fid \in moved THEN moved \cup {r.newfid}
                    ELSE moved \ {r.newfid}
    BY <1>3, <2>1, <2>2, Zenon DEF Walk
  <2>4. r.fid \in DOMAIN fid_list /\ FileShape(File(r)) /\ HostOK(host)
    BY <1>3, FoundFile, Zenon
  <2>5. File(r).path \in Seq(Names)
    BY <2>4, Zenon DEF FileShape
  <2>6. Walkable(host, File(r).path, r.names)
    BY <1>1, <2>5, Zenon
  <2>7. /\ left.host = fid_create(host) /\ left.file = NewFile(left.file.path)
        /\ left.file.path \in Seq(Names)
        /\ left.val = 0 => left.file.path = File(r).path
        /\ left.val # 0 => LeadsTo(host, left.file.path, Lstat(host, left.file.path))
    <3>1. PICK y, ns : y = File(r) /\ ns = r.names
      BY Zenon
    <3>2. FileShape(y) /\ ns \in Seq(Names) /\ Walkable(host, y.path, ns)
      BY <1>1, <2>4, <2>6, <3>1, Zenon
    <3>3. left = fs_walk(host, y, ns)
      BY <2>1, <3>1, Zenon
    <3>4. /\ left.host = fid_create(host) /\ left.file = NewFile(left.file.path)
          /\ left.file.path \in Seq(Names)
          /\ left.val = 0 => left.file.path = y.path
          /\ left.val # 0 => LeadsTo(host, left.file.path, Lstat(host, left.file.path))
      BY <3>2, <3>3, WalkIs
    <3> QED BY <3>1, <3>4, Zenon
  <2>8. FileShape(left.file) /\ Was(left.file) = 0
    BY <2>7, NewFileIs, Zenon
  <2>9. Binds(r.newfid, fid_create(host), left.file, ino)
    BY <2>3, <2>7, Zenon
  <2>10. \A x \in DOMAIN fid_list : x # r.newfid => (x \in moved => x \in moved')
    BY <2>3, Zenon
  <2>11. ASSUME r.newfid \notin moved' PROVE LeadsTo(host, left.file.path, ino)
    <3>1. CASE left.val = 0
      <4>1. r.fid \notin moved
        BY <2>3, <2>11, <3>1, Zenon
      <4>2. LeadsTo(host, File(r).path, bound[r.fid])
        BY <2>4, <4>1, Zenon DEF PathInv, PathOK, File
      <4> QED BY <2>2, <2>7, <3>1, <4>2, Zenon
    <3>2. CASE left.val # 0
      BY <2>2, <2>7, <3>2, Zenon
    <3> QED BY <3>1, <3>2, Zenon
  <2> QED BY <2>8, <2>9, <2>10, <2>11, BindsStep
<1> QED BY <1>2, <1>3, Zenon

LEMMA ClunkStep == ASSUME PathInv, NEW r, Clunk(r) PROVE Handled
<1>1. CASE ~unmarshall(r) \/ ~Found(r)
  BY <1>1, RefusedStep, Zenon DEF Clunk
<1>2. CASE unmarshall(r) /\ Found(r)
  <2>1. PICK fid : fid = r.fid
    BY Zenon
  <2>2. /\ host' = fs_delete(host, fid_list[fid]) /\ fid_list' = Without(fid_list, {fid})
        /\ bound' = Without(bound, {fid}) /\ page' = PageWithout(fid) /\ moved' = moved \ {fid}
    BY <1>2, <2>1, Zenon DEF Clunk, fid_delete
  <2>3. fid \in DOMAIN fid_list /\ FileShape(fid_list[fid]) /\ HostShape(host)
    BY <1>2, <2>1, FoundFile, Zenon DEF File, HostOK
  <2>4. /\ SameTree(host, host') /\ host'.files = host.files - 1
        /\ host'.open = host.open - Was(fid_list[fid])
    BY <2>2, <2>3, DeleteIs, Zenon
  <2>5. Dropped(fid_list, fid_list', fid) /\ Dropped(bound, bound', fid)
    BY <2>2, WithoutIs, Zenon
  <2>6. Owes(host, host', fid_list, fid_list')
    BY <2>3, <2>4, <2>5, Zenon DEF Owes
  <2>7. \A x \in DOMAIN fid_list : x # fid => x \in DOMAIN fid_list' /\ fid_list'[x] = fid_list[x]
    BY <2>5, Zenon DEF Dropped
  <2>8. ListingKept(page, page', host, host', fid_list, fid_list')
    BY <2>2, <2>4, <2>7, OtherListing, Zenon
  <2>9. PathOK(host', fid_list', bound', moved')
    BY <2>2, <2>4, <2>5, PathDropped DEF PathInv
  <2> QED BY <2>6, <2>8, <2>9, Zenon DEF Handled
<1> QED BY <1>1, <1>2, Zenon

\* A fid that stays, with another object.
LEMMA ReplacedOwes ==
    ASSUME NEW h, NEW g, NEW l, NEW fid \in DOMAIN l, NEW f,
           h.files \in Int, g.files = h.files, g.open = (h.open - Was(l[fid])) + Was(f)
    PROVE  Replaced(l, [l EXCEPT ![fid] = f], fid, f) /\ Owes(h, g, l, [l EXCEPT ![fid] = f])
<1>1. Replaced(l, [l EXCEPT ![fid] = f], fid, f)
  BY ExceptIs, Zenon
<1>2. h.files + 0 = h.files
  OBVIOUS
<1> QED BY <1>1, <1>2, Zenon DEF Owes, NewCounts

LEMMA LopenStep == ASSUME PathInv, NEW r, Lopen(r) PROVE Handled
<1>1. CASE ~unmarshall(r) \/ ~Found(r)
  BY <1>1, RefusedStep, Zenon DEF Lopen
<1>2. CASE ~(~unmarshall(r) \/ ~Found(r))
  <2>1. PICK fid, left : fid = r.fid /\ left = fs_open(host, fid_list[fid], r.directory, r.write)
    BY Zenon
  <2>2. /\ host' = left.host /\ fid_list' = [fid_list EXCEPT ![fid] = left.file]
        /\ page' = PageWithout(fid) /\ bound' = bound /\ moved' = moved
    BY <1>2, <2>1, Zenon DEF Lopen, File
  <2>3. /\ fid \in DOMAIN fid_list /\ FileShape(fid_list[fid]) /\ HostOK(host) /\ HostShape(host)
        /\ host.files \in Int
    <3>1. fid \in DOMAIN fid_list /\ FileShape(fid_list[fid]) /\ HostOK(host)
      BY <1>2, <2>1, FoundFile, Zenon DEF File
    <3> QED BY <3>1, Zenon DEF HostOK, HostShape
  <2>4. /\ SameTree(host, left.host) /\ left.host.files = host.files
        /\ left.host.open = (host.open - Was(fid_list[fid])) + Was(left.file)
        /\ FileShape(left.file) /\ left.file.path = fid_list[fid].path
    BY <2>1, <2>3, OpenIs
  <2>5. Replaced(fid_list, fid_list', fid, left.file) /\ Owes(host, left.host, fid_list, fid_list')
    BY <2>2, <2>3, <2>4, ReplacedOwes, Zenon
  <2>6. ListingKept(page, page', host, host', fid_list, fid_list')
    <3>1. \A x \in DOMAIN fid_list : x # fid => x \in DOMAIN fid_list' /\ fid_list'[x] = fid_list[x]
      BY <2>5, Zenon DEF Replaced
    <3>2. SameTree(host, host') /\ page' = PageWithout(fid)
      BY <2>2, <2>4, Zenon
    <3> QED BY <3>1, <3>2, OtherListing, Zenon
  <2>7. PathOK(left.host, fid_list', bound, moved)
    <3>1. HostOK(left.host) /\ Keeps(host, left.host)
      BY <2>3, <2>4, KeepsSame, Zenon
    <3>2. DOMAIN bound = DOMAIN fid_list' /\ PathOK(host, fid_list, bound, moved)
      BY <2>3, <2>5, Zenon DEF Replaced, PathInv, PathOK
    <3>3. ASSUME fid \notin moved PROVE LeadsTo(left.host, left.file.path, bound[fid])
      BY <2>3, <2>4, <3>1, <3>2, <3>3, Zenon DEF PathOK, Keeps, FileShape
    <3> QED BY <2>4, <2>5, <3>1, <3>2, <3>3, PathReplaced
  <2> QED BY <2>2, <2>5, <2>6, <2>7, Zenon DEF Handled
<1> QED BY <1>1, <1>2, Zenon

LEMMA LcreateStep == ASSUME PathInv, NEW r \in Requests, Lcreate(r) PROVE Handled
<1>1. r.name \in Names
  BY RequestsAssumption, Zenon DEF Lcreate
<1>2. CASE ~unmarshall(r) \/ ~Found(r)
  BY <1>2, RefusedStep, Zenon DEF Lcreate
<1>3. CASE ~(~unmarshall(r) \/ ~Found(r))
  <2>1. PICK fid, left : fid = r.fid /\ left = fs_create(host, fid_list[fid], r.name, r.excl)
    BY Zenon
  <2>2. /\ host' = left.host /\ fid_list' = [fid_list EXCEPT ![fid] = left.file]
        /\ bound' = IF left.err = OK THEN Put(bound, fid, left.val) ELSE bound
        /\ moved' = IF left.err = OK THEN moved \ {fid} ELSE moved
        /\ page' = IF page.fid = fid THEN NoPage ELSE PageAfter(left.host)
    BY <1>3, <2>1, Zenon DEF Lcreate, File
  <2>3. /\ fid \in DOMAIN fid_list /\ FileShape(fid_list[fid]) /\ HostOK(host) /\ HostShape(host)
        /\ host.files \in Int
    BY <1>3, <2>1, FoundFile, Zenon DEF File, HostOK, HostShape
  <2>4. Created(host, fid_list[fid], left)
    BY <1>1, <2>1, <2>3, CreateIs, Zenon
  <2>5. Replaced(fid_list, fid_list', fid, left.file) /\ Owes(host, left.host, fid_list, fid_list')
    <3>1. /\ left.host.files = host.files
          /\ left.host.open = (host.open - Was(fid_list[fid])) + Was(left.file)
      BY <2>4, Zenon DEF Created
    <3> QED BY <2>2, <2>3, <3>1, ReplacedOwes, Zenon
  <2>6. ListingKept(page, page', host, host', fid_list, fid_list')
    <3>1. CASE page.fid = fid
      BY <2>2, <3>1, Zenon DEF ListingKept
    <3>2. CASE page.fid # fid
      <4>1. page' = PageAfter(left.host)
        BY <2>2, <3>2, Zenon
      <4> QED BY <2>2, <2>5, <3>2, <4>1, Zenon DEF PageAfter, ListingKept, PathInv, Replaced
    <3> QED BY <3>1, <3>2, Zenon
  <2>7. PathOK(left.host, fid_list', bound', moved')
    <3>1. /\ HostOK(left.host) /\ Keeps(host, left.host) /\ FileShape(left.file)
          /\ PathOK(host, fid_list, bound, moved)
      BY <2>4, Zenon DEF Created, PathInv
    <3>2. /\ DOMAIN bound' = DOMAIN fid_list'
          /\ \A x \in DOMAIN fid_list : x # fid => bound'[x] = bound[x] /\ (x \in moved => x \in moved')
      <4>1. Replaced(bound, Put(bound, fid, left.val), fid, left.val)
        BY PutIs, Zenon
      <4> QED BY <2>2, <2>3, <2>5, <3>1, <4>1, Zenon DEF Replaced, PathOK
    <3>3. ASSUME fid \notin moved' PROVE LeadsTo(left.host, left.file.path, bound'[fid])
      <4>1. CASE left.err = OK
        <5>1. Replaced(bound, Put(bound, fid, left.val), fid, left.val)
          BY PutIs, Zenon
        <5> QED BY <2>2, <2>4, <4>1, <5>1, Zenon DEF Created, Replaced
      <4>2. CASE left.err # OK
        <5>1. fid \notin moved /\ bound' = bound /\ left.file.path = fid_list[fid].path
          BY <2>2, <2>4, <3>3, <4>2, Zenon DEF Created
        <5>2. fid_list[fid].path \in Seq(Names) /\ LeadsTo(host, fid_list[fid].path, bound[fid])
          BY <2>3, <3>1, <5>1, Zenon DEF PathOK, FileShape
        <5>3. LeadsTo(left.host, fid_list[fid].path, bound[fid])
          BY <3>1, <5>2, Zenon DEF Keeps
        <5> QED BY <5>1, <5>3, Zenon
      <4> QED BY <4>1, <4>2, Zenon
    <3> QED BY <2>5, <3>1, <3>2, <3>3, PathReplaced
  <2> QED BY <2>2, <2>5, <2>6, <2>7, Zenon DEF Handled
<1> QED BY <1>2, <1>3, Zenon

\* Every request but readdir is handled so.
LEMMA RequestStep ==
    ASSUME PathInv, NEW r \in Requests, virtio_9p_recv_request(r), ~Readdir(r),
           \A path, names \in Seq(Names) : Walkable(host, path, names)
    PROVE  Handled
<1>1. CASE Attach(r) \/ Walk(r) \/ Clunk(r) \/ Lopen(r) \/ Lcreate(r)
  BY <1>1, AttachStep, WalkStep, ClunkStep, LopenStep, LcreateStep, Zenon
<1>2. CASE Symlink(r) \/ Mknod(r) \/ Mkdir(r) \/ Link(r) \/ Renameat(r) \/ Unlinkat(r)
  BY <1>2, MakeStep, LinkStep, RenameStep, UnlinkStep, Zenon
<1>3. CASE Looks(r)
  BY <1>3, LookStep, Zenon
<1>4. CASE Statfs(r) \/ Fsync(r) \/ Flush(r) \/ Version(r) \/ Xattrwalk(r) \/ Unsupported(r)
  BY <1>4, RefusedStep, Zenon DEF Statfs, Fsync, Flush, Version, Xattrwalk, Unsupported, Plainly
<1> QED BY <1>1, <1>2, <1>3, <1>4, Zenon DEF virtio_9p_recv_request, Looks

-----------------------------------------------------------------------------
(* A piece of a listing *)

LEMMA ReaddirStep ==
    ASSUME PathInv, NEW r \in Requests, Readdir(r),
           PageOK(page, host, fid_list), \A i : Listing(host, i) \in Seq(Entries)
    PROVE  /\ UNCHANGED <<host, fid_list, bound, moved>>
           /\ PageOK(page', host, fid_list)
<1>1. r.fid \in Fids /\ r.room \in Nat \ {0} /\ r.fid # NoFid
  BY RequestsAssumption, Zenon DEF Readdir
<1>2. CASE ~unmarshall(r) \/ ~Found(r)
  BY <1>2, Zenon DEF Readdir, Refused
<1>3. CASE ~(~unmarshall(r) \/ ~Found(r))
  <2>1. PICK so_far : so_far = IF page.fid = r.fid /\ ~page.over THEN page ELSE [NoPage EXCEPT !.fid = r.fid]
    BY Zenon
  <2>2. PICK left : left = fs_readdir(host, File(r), so_far.next, r.room)
    BY Zenon
  <2>3. /\ page' = IF left.err # OK THEN page
                   ELSE [so_far EXCEPT !.next = left.next, !.got = @ \o left.entries,
                                       !.over = left.entries = <<>>]
        /\ UNCHANGED <<host, fid_list, bound, moved>>
    BY <1>3, <2>1, <2>2, Zenon DEF Readdir
  <2>4. CASE left.err # OK
    BY <2>3, <2>4, Zenon
  <2>5. CASE left.err = OK
    <3>1. PICK all : all = Listing(host, File(r).ino)
      BY Zenon
    <3>2. r.fid \in DOMAIN fid_list /\ all = Listing(host, fid_list[r.fid].ino) /\ all \in Seq(Entries)
      BY <1>3, <3>1, Zenon DEF Found, File
    <3>3. Came(so_far, all) /\ ~so_far.over /\ so_far.fid = r.fid
      <4>1. CASE page.fid = r.fid /\ ~page.over
        BY <1>1, <2>1, <3>2, <4>1, Zenon DEF PageOK
      <4>2. CASE ~(page.fid = r.fid /\ ~page.over)
        <5>1. PICK fid : fid = r.fid
          BY Zenon
        <5>2. so_far = [NoPage EXCEPT !.fid = fid]
          BY <2>1, <4>2, <5>1, Zenon
        <5>3. Came(so_far, all) /\ ~so_far.over /\ so_far.fid = fid
          BY <3>2, <5>2, CameFirst, Zenon
        <5> QED BY <5>1, <5>3, Zenon
      <4> QED BY <4>1, <4>2, Zenon
    <3>4. PICK n : n = Min({r.room, Max({0, Len(all) - so_far.next})})
      BY Zenon
    <3>5. /\ left.entries = SubSeq(all, so_far.next + 1, so_far.next + n)
          /\ left.next = so_far.next + n
      <4>1. "EPROTO" # OK
        BY DEF OK
      <4>2. left = IF File(r).open # "dir"
                   THEN [err |-> "EPROTO", entries |-> <<>>, next |-> so_far.next]
                   ELSE [err |-> OK, entries |-> SubSeq(all, so_far.next + 1, so_far.next + n),
                         next |-> so_far.next + n]
        BY <2>2, <3>1, <3>4, Zenon DEF fs_readdir, NextOffset
      <4>3. left = [err |-> OK, entries |-> SubSeq(all, so_far.next + 1, so_far.next + n),
                    next |-> so_far.next + n]
        <5>1. CASE File(r).open # "dir"
          <6>1. left = [err |-> "EPROTO", entries |-> <<>>, next |-> so_far.next]
            BY <4>2, <5>1, Zenon
          <6>2. left.err = "EPROTO"
            BY <6>1
          <6> QED BY <2>5, <4>1, <6>2, Zenon
        <5>2. CASE File(r).open = "dir"
          BY <4>2, <5>2, Zenon
        <5> QED BY <5>1, <5>2, Zenon
      <4>4. PICK x, y : /\ x = SubSeq(all, so_far.next + 1, so_far.next + n) /\ y = so_far.next + n
                        /\ left = [err |-> OK, entries |-> x, next |-> y]
        BY <4>3, Zenon
      <4>5. left.entries = x /\ left.next = y
        <5>1. left = [err |-> OK, entries |-> x, next |-> y]
          BY <4>4, Zenon
        <5> QED BY <5>1
      <4> QED BY <4>4, <4>5, Zenon
    <3>6. PageIs(so_far, so_far.fid, so_far.next, so_far.got, so_far.over)
      BY <3>3, Zenon DEF Came
    <3>7. PICK e, x, y, o : /\ e = left.entries /\ x = so_far.next + n /\ y = so_far.got \o e
                            /\ o = (e = <<>>)
      BY Zenon
    <3>8. PageIs(page', so_far.fid, x, y, o)
      <4>1. page' = [so_far EXCEPT !.next = left.next, !.got = @ \o left.entries,
                                   !.over = left.entries = <<>>]
        BY <2>3, <2>5, Zenon
      <4>2. page' = [so_far EXCEPT !.next = x, !.got = y, !.over = o]
        BY <3>5, <3>7, <4>1, Zenon
      <4> QED BY <3>6, <4>2, PageSet, Zenon
    <3>9. Came(page', all)
      <4>1. /\ e = SubSeq(all, so_far.next + 1, so_far.next + n) /\ Ended(o, e)
            /\ PageIs(page', so_far.fid, so_far.next + n, so_far.got \o e, o)
        BY <3>5, <3>7, <3>8, Zenon DEF Ended
      <4>2. PICK room : room = r.room
        BY Zenon
      <4>3. room \in Nat \ {0} /\ n = Min({room, Max({0, Len(all) - so_far.next})})
        BY <1>1, <3>4, <4>2, Zenon
      <4> QED BY <3>2, <3>3, <4>1, <4>3, CameFurther, Zenon
    <3>10. page'.fid = r.fid
      BY <3>3, <3>8, PageFields, Zenon
    <3> QED BY <1>1, <2>3, <3>2, <3>9, <3>10, Zenon DEF PageOK
  <2> QED BY <2>4, <2>5, Zenon
<1> QED BY <1>2, <1>3, Zenon
=============================================================================
