----------------------------- MODULE RingProofs ------------------------------
(* The rings of the block device, for any number of queues and chains and rings of any
   size: four indices that wrap around, and the chains between them.

   From the driver's index into the used ring on there are A chains returned, then B
   taken from the available ring and not returned (the one in progress and those
   dropped), then C pending, in all no more than a ring holds; and no chain is in two
   places.  RingInv says so, and the steps of both sides preserve it: the driver enables
   a queue, posts a chain and collects one that was returned, and a reset starts the rings
   afresh; the device takes a chain to answer it later or drops one, and it returns a
   chain, at once or from the callback of the back end. *)
EXTENDS VirtioBlock, TLAPS

Slot(x) == (x % IdxMod) % Num

Serving(q) == IF req_in_progress /\ req.queue_idx = q THEN 1 ELSE 0

\* The chains of a queue that the driver has not got back: those returned and not seen,
\* followed by those offered.
Line(A, q, k) ==
    IF k < A[q] THEN used[q].ring[Slot(seen[q] + k)] ELSE offered[q][k - A[q] + 1]
Size(A, q) == A[q] + Len(offered[q])

Indices(A, B, C, q) ==
    /\ seen[q] \in 0 .. IdxMod - 1
    /\ used[q].idx = (seen[q] + A[q]) % IdxMod
    /\ queue[q].last_avail_idx = (seen[q] + A[q] + B[q]) % IdxMod
    /\ avail[q].idx = (seen[q] + A[q] + B[q] + C[q]) % IdxMod
    /\ A[q] + B[q] + C[q] <= Num
    /\ Serving(q) <= B[q]
    /\ Serving(q) + C[q] > 0 => queue[q].ready

Offers(A, B, C, q) ==
    /\ offered[q] \in Seq(Chain)
    /\ Len(offered[q]) = Serving(q) + C[q]
    /\ Serving(q) = 1 => offered[q][1] = req.desc_idx
    /\ \A i \in 1 .. C[q] :
          offered[q][Serving(q) + i] = avail[q].ring[Slot(seen[q] + A[q] + B[q] + i - 1)]

\* Every chain is in one place.
Once(A) ==
    /\ \A q \in Queue : \A k \in 0 .. Size(A, q) - 1 : Line(A, q, k) \in Chain \ free
    /\ \A q, r \in Queue : \A j \in 0 .. Size(A, q) - 1, k \in 0 .. Size(A, r) - 1 :
          Line(A, q, j) = Line(A, r, k) => q = r /\ j = k

Ring == [idx : 0 .. IdxMod - 1, ring : [0 .. Num - 1 -> Chain \cup {NoChain}]]

Shape ==
    /\ queue \in [Queue -> [ready : BOOLEAN, last_avail_idx : 0 .. IdxMod - 1]]
    /\ avail \in [Queue -> Ring] /\ used \in [Queue -> Ring]
    /\ seen \in [Queue -> 0 .. IdxMod - 1]
    /\ offered \in [Queue -> Seq(Chain)]

RingInv ==
    /\ Shape
    /\ \E A, B, C \in [Queue -> 0 .. Num] :
          /\ \A q \in Queue : Indices(A, B, C, q) /\ Offers(A, B, C, q)
          /\ Once(A)

-----------------------------------------------------------------------------
\* Indices that wrap around

LEMMA Sizes ==
    /\ Num \in Nat /\ 1 <= Num /\ IdxMod \in Nat /\ Num < IdxMod
    /\ IdxMod % Num = 0
  BY VirtioAssumption

\* The quotient and the remainder are the only ones.
LEMMA Remainder ==
    ASSUME NEW d \in Nat, d >= 1, NEW a \in Int, NEW p \in Int, NEW r \in 0 .. d - 1,
           a = (d * p) + r
    PROVE  a % d = r
<1> DEFINE u == a \div d
           v == a % d
<1>1. u \in Int /\ v \in 0 .. d - 1 /\ a = (d * u) + v
  OBVIOUS
<1> HIDE DEF u, v
<1>2. d * (p - u) = v - r
  BY <1>1
<1>3. p - u >= 1 => d * (p - u) >= d
  BY <1>1
<1>4. p - u <= -1 => d * (p - u) <= -d
  BY <1>1
<1>5. p = u
  BY <1>1, <1>2, <1>3, <1>4
<1> QED BY <1>1, <1>5 DEF v

LEMMA Division ==
    ASSUME NEW d \in Nat, d >= 1, NEW a \in Int
    PROVE  a \div d \in Int /\ a % d \in 0 .. d - 1 /\ a = (d * (a \div d)) + (a % d)
  OBVIOUS

LEMMA ModPlus ==
    ASSUME NEW x \in Nat, NEW k \in Nat
    PROVE  ((x % IdxMod) + k) % IdxMod = (x + k) % IdxMod
<1>1. PICK p, r : p = x \div IdxMod /\ r = x % IdxMod
  BY Zenon
<1>2. p \in Int /\ r \in 0 .. IdxMod - 1 /\ x = (IdxMod * p) + r
  BY <1>1, Sizes
<1>3. PICK u, v : u = (r + k) \div IdxMod /\ v = (r + k) % IdxMod
  BY Zenon
<1>4. u \in Int /\ v \in 0 .. IdxMod - 1 /\ r + k = (IdxMod * u) + v
  BY <1>2, <1>3, Sizes
<1>5. PICK a, w : a = x + k /\ w = p + u
  BY Zenon
<1>6. a \in Int /\ w \in Int /\ a = (IdxMod * w) + v
  BY <1>2, <1>4, <1>5, Sizes
<1>7. a % IdxMod = v
  BY <1>4, <1>6, Sizes, Remainder
<1> QED BY <1>1, <1>3, <1>5, <1>7, Zenon

LEMMA ModSmall == ASSUME NEW x \in 0 .. IdxMod - 1 PROVE x % IdxMod = x
<1>1. x = (IdxMod * 0) + x
  BY Sizes
<1> QED BY <1>1, Sizes, Remainder

LEMMA SuccMod == ASSUME NEW x \in Nat PROVE Succ(x % IdxMod) = (x + 1) % IdxMod
  BY ModPlus, Zenon DEF Succ

LEMMA ModRange == ASSUME NEW x \in Int PROVE x % IdxMod \in 0 .. IdxMod - 1
  BY Sizes

\* Fewer than IdxMod steps apart, indices differ.
LEMMA Apart ==
    ASSUME NEW d \in Nat, d >= 1, NEW x \in Nat, NEW i \in Nat, NEW j \in Nat, i < j, j - i < d
    PROVE  (x + i) % d # (x + j) % d
<1>1. SUFFICES ASSUME (x + i) % d = (x + j) % d PROVE FALSE
  BY Zenon
<1>2. PICK p, r : p = (x + i) \div d /\ r = (x + j) \div d
  BY Zenon
<1>3. PICK v : v = (x + i) % d
  BY Zenon
<1>4. p \in Int /\ r \in Int /\ v \in Int /\ x + i = (d * p) + v /\ x + j = (d * r) + v
  BY <1>1, <1>2, <1>3
<1>5. j - i = d * (r - p)
  BY <1>4
<1>6. r - p >= 1 => d * (r - p) >= d
  BY <1>4
<1>7. r - p <= 0 => d * (r - p) <= 0
  BY <1>4
<1> QED BY <1>4, <1>5, <1>6, <1>7

LEMMA SlotIs == ASSUME NEW x \in Nat PROVE Slot(x) = x % Num /\ Slot(x) \in 0 .. Num - 1
<1>1. PICK p, r : p = x \div IdxMod /\ r = x % IdxMod
  BY Zenon
<1>2. p \in Int /\ r \in 0 .. IdxMod - 1 /\ x = (IdxMod * p) + r
  BY <1>1, Sizes
<1>3. PICK m : m = IdxMod \div Num
  BY Zenon
<1>4. m \in Int /\ IdxMod = Num * m
  BY <1>3, Sizes
<1>5. PICK u, v : u = r \div Num /\ v = r % Num
  BY Zenon
<1>6. u \in Int /\ v \in 0 .. Num - 1 /\ r = (Num * u) + v
  BY <1>2, <1>5, Sizes
<1>7. IdxMod * p = Num * (m * p) /\ m * p \in Int
  BY <1>2, <1>4, Sizes
<1>8. PICK z : z = m * p
  BY Zenon
<1>9. PICK w : w = z + u
  BY Zenon
<1>10. w \in Int /\ x = (Num * w) + v
  BY <1>2, <1>6, <1>7, <1>8, <1>9, Sizes
<1>11. x % Num = v
  BY <1>6, <1>10, Sizes, Remainder
<1> QED BY <1>1, <1>5, <1>6, <1>11, Zenon DEF Slot

LEMMA SlotsApart ==
    ASSUME NEW x \in Nat, NEW i \in Nat, NEW j \in Nat, i # j, i - j < Num, j - i < Num
    PROVE  Slot(x + i) # Slot(x + j)
<1>1. Slot(x + i) = (x + i) % Num /\ Slot(x + j) = (x + j) % Num
  BY SlotIs
<1>2. CASE i < j
  BY <1>1, <1>2, Sizes, Apart, Zenon
<1>3. CASE j < i
  BY <1>1, <1>3, Sizes, Apart, Zenon
<1> QED BY <1>2, <1>3

LEMMA SlotPlus ==
    ASSUME NEW x \in Nat, NEW k \in Nat
    PROVE  Slot((x % IdxMod) + k) = Slot(x + k)
  BY ModPlus, Zenon DEF Slot

-----------------------------------------------------------------------------
\* The history of offers

\* w is s without its element at k.
Shortened(s, k, w) ==
    /\ w \in Seq(Chain) /\ Len(w) = Len(s) - 1
    /\ \A i \in 1 .. Len(s) - 1 : w[i] = IF i < k THEN s[i] ELSE s[i + 1]

LEMMA WithoutAt ==
    ASSUME NEW s \in Seq(Chain), NEW k \in 1 .. Len(s),
           \A i \in 1 .. Len(s) : s[i] = s[k] => i = k
    PROVE  Shortened(s, k, Without(s, s[k]))
<1> DEFINE n == Len(s) - 1
           w == [i \in 1 .. n |-> IF i < k THEN s[i] ELSE s[i + 1]]
<1>1. (CHOOSE i \in DOMAIN s : s[i] = s[k]) = k
  OBVIOUS
<1>2. Without(s, s[k]) = w
  BY <1>1, Zenon DEF Without
<1>3. n \in Nat /\ \A i \in 1 .. Len(s) : s[i] \in Chain
  OBVIOUS
<1>4. w \in [1 .. n -> Chain]
  BY <1>3
<1>5. w \in Seq(Chain) /\ Len(w) = n
  BY <1>3, <1>4
<1>6. \A i \in 1 .. n : w[i] = IF i < k THEN s[i] ELSE s[i + 1]
  BY Zenon
<1>7. Shortened(s, k, w)
  BY <1>5, <1>6, Zenon DEF Shortened
<1> QED BY <1>2, <1>7, Zenon

LEMMA Appended ==
    ASSUME NEW s \in Seq(Chain), NEW c \in Chain
    PROVE  /\ Append(s, c) \in Seq(Chain) /\ Len(Append(s, c)) = Len(s) + 1
           /\ \A i \in 1 .. Len(s) : Append(s, c)[i] = s[i]
           /\ Append(s, c)[Len(s) + 1] = c
  OBVIOUS

-----------------------------------------------------------------------------
\* A step leaves the queues alone that it does not mention.

Kept(r) ==
    /\ queue'[r] = queue[r] /\ avail'[r] = avail[r] /\ used'[r] = used[r]
    /\ seen'[r] = seen[r] /\ offered'[r] = offered[r]
    /\ Serving(r)' = Serving(r)
    /\ Serving(r) = 1 => req'.desc_idx = req.desc_idx

QueueKept(A, A2, B2, C2, r) ==
    /\ Indices(A2, B2, C2, r)' /\ Offers(A2, B2, C2, r)'
    /\ Size(A2, r)' = Size(A, r)
    /\ \A k \in 0 .. Size(A, r) - 1 : Line(A2, r, k)' = Line(A, r, k)

LEMMA KeptQueue ==
    ASSUME NEW A, NEW B, NEW C, NEW A2, NEW B2, NEW C2, NEW r \in Queue, Kept(r),
           Indices(A, B, C, r), Offers(A, B, C, r),
           A2[r] = A[r], B2[r] = B[r], C2[r] = C[r]
    PROVE  QueueKept(A, A2, B2, C2, r)
<1>1. Indices(A2, B2, C2, r)'
  BY DEF Indices, Kept
<1>2. Offers(A2, B2, C2, r)'
  BY Zenon DEF Offers, Kept
<1>3. Size(A2, r)' = Size(A, r)
  BY Zenon DEF Size, Kept
<1>4. ASSUME NEW k \in 0 .. Size(A, r) - 1 PROVE Line(A2, r, k)' = Line(A, r, k)
  BY Zenon DEF Line, Kept
<1> QED BY <1>1, <1>2, <1>3, <1>4, Zenon DEF QueueKept

\* A step on queue u leaves the other queues' counts alone.
Others(A, A2, B2, C2, u) == \A q \in Queue \ {u} : QueueKept(A, A2, B2, C2, q)

-----------------------------------------------------------------------------
\* Chains stay in one place.

LEMMA OnceSame ==
    ASSUME NEW A, NEW A2, Once(A), free' = free,
           \A q \in Queue : Size(A, q) \in Nat /\ Size(A2, q)' = Size(A, q),
           \A q \in Queue : \A k \in 0 .. Size(A, q) - 1 : Line(A2, q, k)' = Line(A, q, k)
    PROVE  Once(A2)'
<1>1. ASSUME NEW q \in Queue, NEW k \in 0 .. Size(A2, q)' - 1
      PROVE  Line(A2, q, k)' \in Chain \ free'
  BY DEF Once
<1>2. ASSUME NEW q \in Queue, NEW r \in Queue,
             NEW j \in 0 .. Size(A2, q)' - 1, NEW k \in 0 .. Size(A2, r)' - 1,
             Line(A2, q, j)' = Line(A2, r, k)'
      PROVE  q = r /\ j = k
  BY <1>2 DEF Once
<1> QED BY <1>1, <1>2, Zenon DEF Once

\* One chain leaves, to the driver or nowhere.
Leaves(A, A2, u, d) ==
    /\ d \in 0 .. Size(A, u) - 1 /\ Size(A2, u)' = Size(A, u) - 1
    /\ \A k \in 0 .. Size(A, u) - 2 :
          Line(A2, u, k)' = IF k < d THEN Line(A, u, k) ELSE Line(A, u, k + 1)

LEMMA OnceShorter ==
    ASSUME NEW A, NEW A2, NEW B2, NEW C2, Once(A), NEW u \in Queue, NEW d,
           free' \subseteq free \cup {Line(A, u, d)},
           \A q \in Queue : Size(A, q) \in Nat,
           Others(A, A2, B2, C2, u), Leaves(A, A2, u, d)
    PROVE  Once(A2)'
<1>1. /\ \A q \in Queue \ {u} : Size(A2, q)' = Size(A, q)
      /\ \A q \in Queue \ {u} :
            \A k \in 0 .. Size(A, q) - 1 : Line(A2, q, k)' = Line(A, q, k)
  BY Zenon DEF Others, QueueKept
<1> d \in 0 .. Size(A, u) - 1
  BY Zenon DEF Leaves
<1> DEFINE at(q, k) == IF q = u /\ k >= d THEN k + 1 ELSE k
<1>2. ASSUME NEW q \in Queue, NEW k \in 0 .. Size(A2, q)' - 1
      PROVE  /\ at(q, k) \in 0 .. Size(A, q) - 1
             /\ Line(A2, q, k)' = Line(A, q, at(q, k))
             /\ ~(q = u /\ at(q, k) = d)
  <2>1. CASE q = u
    BY <2>1 DEF Leaves
  <2>2. CASE q # u
    BY <1>1, <2>2, Zenon
  <2> QED BY <2>1, <2>2, Zenon
<1>3. ASSUME NEW q \in Queue, NEW k \in 0 .. Size(A2, q)' - 1
      PROVE  Line(A2, q, k)' \in Chain \ free'
  <2> HIDE DEF at
  <2> QED BY <1>2 DEF Once
<1>4. ASSUME NEW q \in Queue, NEW r \in Queue,
             NEW j \in 0 .. Size(A2, q)' - 1, NEW k \in 0 .. Size(A2, r)' - 1,
             Line(A2, q, j)' = Line(A2, r, k)'
      PROVE  q = r /\ j = k
  <2>1. q = r /\ at(q, j) = at(r, k)
    <3> HIDE DEF at
    <3> QED BY <1>2, <1>4 DEF Once
  <2>2. j \in Int /\ k \in Int
    BY <2>1
  <2> QED BY <2>1, <2>2
<1> QED BY <1>3, <1>4, Zenon DEF Once

\* The driver offers a free chain.
LEMMA OnceLonger ==
    ASSUME NEW A, Once(A), NEW u \in Queue, NEW c \in Chain, c \in free, free' = free \ {c},
           \A q \in Queue : Size(A, q) \in Nat,
           \A q \in Queue \ {u} : Size(A, q)' = Size(A, q),
           \A q \in Queue :
              \A k \in 0 .. Size(A, q) - 1 : Line(A, q, k)' = Line(A, q, k),
           NEW n, n = Size(A, u), Size(A, u)' = n + 1, Line(A, u, n)' = c
    PROVE  Once(A)'
<1> DEFINE new(q, k) == q = u /\ k = n
<1>1. ASSUME NEW q \in Queue, NEW k \in 0 .. Size(A, q)' - 1
      PROVE  \/ new(q, k) /\ Line(A, q, k)' = c
             \/ ~new(q, k) /\ k \in 0 .. Size(A, q) - 1 /\ Line(A, q, k)' = Line(A, q, k)
  <2>1. CASE q = u /\ k = n
    BY <2>1, Zenon
  <2>2. CASE ~(q = u /\ k = n)
    <3>1. k \in 0 .. Size(A, q) - 1
      BY <2>2
    <3> QED BY <2>2, <3>1, Zenon
  <2> QED BY <2>1, <2>2, Zenon
<1>2. ASSUME NEW q \in Queue, NEW k \in 0 .. Size(A, q)' - 1
      PROVE  Line(A, q, k)' \in Chain \ free'
  BY <1>1 DEF Once
<1>3. ASSUME NEW q \in Queue, NEW r \in Queue,
             NEW j \in 0 .. Size(A, q)' - 1, NEW k \in 0 .. Size(A, r)' - 1,
             Line(A, q, j)' = Line(A, r, k)'
      PROVE  q = r /\ j = k
  <2>1. CASE new(q, j) /\ new(r, k)
    BY <2>1, Zenon
  <2>2. CASE new(q, j) /\ ~new(r, k)
    BY <1>1, <1>3, <2>2 DEF Once
  <2>3. CASE ~new(q, j) /\ new(r, k)
    BY <1>1, <1>3, <2>3 DEF Once
  <2>4. CASE ~new(q, j) /\ ~new(r, k)
    <3> HIDE DEF new
    <3> QED BY <1>1, <1>3, <2>4 DEF Once
  <2> QED BY <2>1, <2>2, <2>3, <2>4, Zenon
<1> QED BY <1>2, <1>3, Zenon DEF Once

-----------------------------------------------------------------------------
\* The counts A, B and C, and what they say of the rings

Counts(A, B, C) ==
    /\ A \in [Queue -> 0 .. Num] /\ B \in [Queue -> 0 .. Num] /\ C \in [Queue -> 0 .. Num]
    /\ \A q \in Queue : Indices(A, B, C, q) /\ Offers(A, B, C, q)
    /\ Once(A)

LEMMA Counted ==
    ASSUME NEW F \in [Queue -> 0 .. Num], NEW u \in Queue, NEW n \in 0 .. Num, NEW G,
           G = [F EXCEPT ![u] = n]
    PROVE  G \in [Queue -> 0 .. Num] /\ G[u] = n /\ \A q \in Queue \ {u} : G[q] = F[q]
  BY Zenon

LEMMA SizeNat ==
    ASSUME NEW A, NEW B, NEW C, Counts(A, B, C), NEW q \in Queue
    PROVE  /\ Size(A, q) \in Nat /\ Size(A, q) = A[q] + Serving(q) + C[q]
           /\ A[q] \in Nat /\ B[q] \in Nat /\ C[q] \in Nat /\ seen[q] \in Nat
           /\ Serving(q) \in {0, 1}
<1>1. A[q] \in Nat /\ B[q] \in Nat /\ C[q] \in Nat /\ seen[q] \in Nat
  BY Sizes DEF Counts, Indices
<1>2. Serving(q) \in {0, 1}
  BY Zenon DEF Serving
<1>3. Size(A, q) = A[q] + (Serving(q) + C[q])
  BY Zenon DEF Counts, Offers, Size
<1> QED BY <1>1, <1>2, <1>3

LEMMA OfferedOnce ==
    ASSUME NEW A, NEW B, NEW C, Counts(A, B, C), NEW q \in Queue,
           NEW k \in 1 .. Len(offered[q])
    PROVE  \A i \in 1 .. Len(offered[q]) : offered[q][i] = offered[q][k] => i = k
<1>1. A[q] \in Nat /\ Size(A, q) = A[q] + Len(offered[q])
  BY SizeNat, Zenon DEF Size
<1>2. Len(offered[q]) \in Nat
  BY DEF Counts, Offers
<1>3. ASSUME NEW i \in 1 .. Len(offered[q])
      PROVE  /\ A[q] + i - 1 \in 0 .. Size(A, q) - 1
             /\ Line(A, q, A[q] + i - 1) = offered[q][i]
  BY <1>1, <1>2 DEF Line
<1>4. ASSUME NEW i \in 1 .. Len(offered[q]), offered[q][i] = offered[q][k] PROVE i = k
  <2>1. PICK x, y : x = A[q] + i - 1 /\ y = A[q] + k - 1
    BY Zenon
  <2>2. x \in 0 .. Size(A, q) - 1 /\ y \in 0 .. Size(A, q) - 1
        /\ Line(A, q, x) = Line(A, q, y)
    BY <1>3, <1>4, <2>1, Zenon
  <2>3. x = y
    BY <2>2, Zenon DEF Counts, Once
  <2> QED BY <1>1, <2>1, <2>3
<1> QED BY <1>4, Zenon

\* The oldest pending chain.
LEMMA NextIs ==
    ASSUME NEW A, NEW B, NEW C, Counts(A, B, C), NEW q \in Queue, Pending(q)
    PROVE  /\ C[q] >= 1 /\ queue[q].ready
           /\ Serving(q) + 1 \in 1 .. Len(offered[q])
           /\ NextChain(q) = offered[q][Serving(q) + 1]
<1>1. Indices(A, B, C, q) /\ Offers(A, B, C, q)
  BY Zenon DEF Counts
<1>2. A[q] \in Nat /\ B[q] \in Nat /\ C[q] \in Nat /\ seen[q] \in Nat /\ Serving(q) \in {0, 1}
  BY SizeNat, Zenon
<1>3. C[q] >= 1
  BY <1>1, <1>2 DEF Indices, Pending
<1>4. NextChain(q) = avail[q].ring[Slot(seen[q] + A[q] + B[q])]
  BY <1>1, Zenon DEF Indices, NextChain, Slot
<1>5. PICK p, i : p = Serving(q) /\ i = 1
  BY Zenon
<1>6. /\ Len(offered[q]) = p + C[q]
      /\ \A j \in 1 .. C[q] :
            offered[q][p + j] = avail[q].ring[Slot(seen[q] + A[q] + B[q] + j - 1)]
  BY <1>1, <1>5, Zenon DEF Offers
<1>7. /\ i \in 1 .. C[q] /\ seen[q] + A[q] + B[q] + i - 1 = seen[q] + A[q] + B[q]
      /\ p + C[q] > 0 /\ p + 1 \in 1 .. p + C[q]
  BY <1>2, <1>3, <1>5
<1>8. offered[q][p + i] = avail[q].ring[Slot(seen[q] + A[q] + B[q])]
  BY <1>6, <1>7, Zenon
<1>9. queue[q].ready
  BY <1>1, <1>5, <1>7, Zenon DEF Indices
<1> QED BY <1>3, <1>4, <1>5, <1>6, <1>7, <1>8, <1>9, Zenon

Advanced(A, B, q) ==
    /\ queue' \in [Queue -> [ready : BOOLEAN, last_avail_idx : 0 .. IdxMod - 1]]
    /\ queue'[q].ready = queue[q].ready
    /\ queue'[q].last_avail_idx = (seen[q] + A[q] + B[q] + 1) % IdxMod
    /\ \A r \in Queue \ {q} : queue'[r] = queue[r]

LEMMA AdvanceIs ==
    ASSUME NEW A, NEW B, NEW C, Counts(A, B, C), Shape, NEW q \in Queue, Advance(q)
    PROVE  Advanced(A, B, q)
<1>1. queue[q].last_avail_idx = (seen[q] + A[q] + B[q]) % IdxMod
  BY Zenon DEF Counts, Indices
<1>2. seen[q] + A[q] + B[q] \in Nat
  <2>1. seen[q] \in Nat /\ A[q] \in Nat /\ B[q] \in Nat
    BY SizeNat, Zenon
  <2> QED BY <2>1
<1>3. PICK n : n = Succ(queue[q].last_avail_idx)
  BY Zenon
<1>4. n = (seen[q] + A[q] + B[q] + 1) % IdxMod
  BY <1>1, <1>2, <1>3, SuccMod, Zenon
<1>5. n \in 0 .. IdxMod - 1
  BY <1>2, <1>4, ModRange
<1>6. queue' = [queue EXCEPT ![q].last_avail_idx = n]
  BY <1>3, Zenon DEF Advance
<1>7. queue \in [Queue -> [ready : BOOLEAN, last_avail_idx : 0 .. IdxMod - 1]]
  BY Zenon DEF Shape
<1>8. /\ queue' \in [Queue -> [ready : BOOLEAN, last_avail_idx : 0 .. IdxMod - 1]]
      /\ queue'[q].ready = queue[q].ready /\ queue'[q].last_avail_idx = n
      /\ \A r \in Queue \ {q} : queue'[r] = queue[r]
  BY <1>5, <1>6, <1>7, Zenon
<1> QED BY <1>4, <1>8, Zenon DEF Advanced

\* The used ring after virtio_consume_desc.
UsedGrows(A, q, c) ==
    /\ used' \in [Queue -> Ring]
    /\ used'[q].idx = (seen[q] + A[q] + 1) % IdxMod
    /\ used'[q].ring[Slot(seen[q] + A[q])] = c
    /\ \A k \in 0 .. A[q] - 1 :
          used'[q].ring[Slot(seen[q] + k)] = used[q].ring[Slot(seen[q] + k)]
    /\ \A r \in Queue \ {q} : used'[r] = used[r]

LEMMA UsedIs ==
    ASSUME NEW A, NEW B, NEW C, Counts(A, B, C), Shape, NEW q \in Queue, NEW c \in Chain,
           queue[q].ready, A[q] < Num, used' = [used EXCEPT ![q] = UsedRing(q, c)]
    PROVE  UsedGrows(A, q, c)
<1>1. used[q].idx = (seen[q] + A[q]) % IdxMod /\ used[q] \in Ring
  BY Zenon DEF Counts, Indices, Shape
<1>2. seen[q] \in Nat /\ A[q] \in Nat
  BY SizeNat, Zenon
<1>3. used[q].idx % Num = Slot(seen[q] + A[q]) /\ Slot(seen[q] + A[q]) \in 0 .. Num - 1
  BY <1>1, <1>2, SlotIs DEF Slot
<1>4. Succ(used[q].idx) = (seen[q] + A[q] + 1) % IdxMod
  BY <1>1, <1>2, SuccMod
<1>5. Succ(used[q].idx) \in 0 .. IdxMod - 1
  BY <1>2, <1>4, ModRange
<1> DEFINE s == Slot(seen[q] + A[q])
           new == [used[q].ring EXCEPT ![s] = c]
<1>6. UsedRing(q, c) = [idx |-> Succ(used[q].idx), ring |-> new]
  BY <1>3, Zenon DEF UsedRing
<1>7. used[q].ring \in [0 .. Num - 1 -> Chain \cup {NoChain}]
  BY <1>1, Zenon DEF Ring
<1>8. new \in [0 .. Num - 1 -> Chain \cup {NoChain}] /\ new[s] = c
  BY <1>3, <1>7, Zenon
<1>9. ASSUME NEW k \in 0 .. A[q] - 1
      PROVE  new[Slot(seen[q] + k)] = used[q].ring[Slot(seen[q] + k)]
  <2>1. Slot(seen[q] + k) # s
    <3>1. k \in Nat /\ k # A[q] /\ A[q] - k < Num /\ k - A[q] < Num
      BY <1>2, Sizes
    <3> QED BY <1>2, <3>1, SlotsApart, Zenon
  <2>2. Slot(seen[q] + k) \in 0 .. Num - 1
    BY <1>2, SlotIs
  <2> QED BY <1>7, <2>1, <2>2, Zenon
<1> HIDE DEF new, s
<1>10. UsedRing(q, c) \in Ring
  BY <1>5, <1>6, <1>8 DEF Ring
<1>11. used' \in [Queue -> Ring] /\ used'[q] = UsedRing(q, c)
       /\ \A r \in Queue \ {q} : used'[r] = used[r]
  BY <1>10, Zenon DEF Shape
<1>12. used'[q].idx = Succ(used[q].idx) /\ used'[q].ring = new
  BY <1>6, <1>11
<1> QED BY <1>4, <1>8, <1>9, <1>11, <1>12, Zenon DEF s, UsedGrows

LEMMA OthersKept ==
    ASSUME NEW A, NEW B, NEW C, NEW A2, NEW B2, NEW C2, NEW u \in Queue,
           Counts(A, B, C), \A q \in Queue \ {u} : Kept(q),
           \A q \in Queue \ {u} : A2[q] = A[q] /\ B2[q] = B[q] /\ C2[q] = C[q]
    PROVE  Others(A, A2, B2, C2, u)
<1>1. ASSUME NEW q \in Queue \ {u} PROVE QueueKept(A, A2, B2, C2, q)
  <2>1. Indices(A, B, C, q) /\ Offers(A, B, C, q)
    BY Zenon DEF Counts
  <2>2. q \in Queue /\ Kept(q) /\ A2[q] = A[q] /\ B2[q] = B[q] /\ C2[q] = C[q]
    BY Zenon
  <2> QED BY <2>1, <2>2, KeptQueue, Zenon
<1> QED BY <1>1, Zenon DEF Others

Removed(q, c) == offered' = [offered EXCEPT ![q] = Without(@, c)]

\* The chain at k leaves the offers of queue u.
LEMMA OfferedIs ==
    ASSUME NEW A, NEW B, NEW C, Counts(A, B, C), Shape, NEW u \in Queue,
           NEW k \in 1 .. Len(offered[u]), NEW c, c = offered[u][k],
           Removed(u, c)
    PROVE  /\ offered' \in [Queue -> Seq(Chain)]
           /\ Shortened(offered[u], k, offered'[u])
           /\ \A q \in Queue \ {u} : offered'[q] = offered[q]
           /\ c \in Chain
<1>1. offered[u] \in Seq(Chain)
  BY Zenon DEF Shape
<1>2. PICK s : s = offered[u]
  BY Zenon
<1>3. PICK w : w = Without(s, s[k])
  BY Zenon
<1>4. Shortened(s, k, w)
  <2>1. s \in Seq(Chain) /\ k \in 1 .. Len(s) /\ \A i \in 1 .. Len(s) : s[i] = s[k] => i = k
    BY <1>1, <1>2, OfferedOnce, Zenon
  <2> QED BY <1>3, <2>1, WithoutAt, Zenon
<1>5. offered' = [offered EXCEPT ![u] = w]
  BY <1>2, <1>3, Zenon DEF Removed
<1>6. offered'[u] = w /\ offered' \in [Queue -> Seq(Chain)]
      /\ \A q \in Queue \ {u} : offered'[q] = offered[q]
  <2>1. w \in Seq(Chain)
    BY <1>4, Zenon DEF Shortened
  <2> QED BY <1>5, <2>1, Zenon DEF Shape
<1>7. c \in Chain
  BY <1>1
<1> QED BY <1>2, <1>4, <1>6, <1>7, Zenon

\* Nothing of the rings changes but the notification.
RingsKept == UNCHANGED <<queue, avail, used, seen, offered, free, req_in_progress, req>>

LEMMA KeptStep == ASSUME RingInv, RingsKept PROVE RingInv'
<1>1. PICK A, B, C : Counts(A, B, C)
  BY Zenon DEF RingInv, Counts
<1>2. ASSUME NEW q \in Queue PROVE Kept(q)
  BY Zenon DEF Kept, RingsKept, Serving
<1>3. ASSUME NEW q \in Queue
      PROVE  QueueKept(A, A, B, C, q)
  <2>1. Indices(A, B, C, q) /\ Offers(A, B, C, q)
    BY <1>1, Zenon DEF Counts
  <2> QED BY <1>2, <2>1, KeptQueue, Zenon
<1>4. \A q \in Queue : Indices(A, B, C, q)' /\ Offers(A, B, C, q)'
  BY <1>3, Zenon DEF QueueKept
<1>5. Once(A)'
  <2>1. Once(A) /\ free' = free
    BY <1>1, Zenon DEF Counts, RingsKept
  <2>2. \A q \in Queue : Size(A, q) \in Nat /\ Size(A, q)' = Size(A, q)
    BY <1>1, <1>3, SizeNat, Zenon DEF QueueKept
  <2>3. \A q \in Queue : \A k \in 0 .. Size(A, q) - 1 : Line(A, q, k)' = Line(A, q, k)
    BY <1>3, Zenon DEF QueueKept
  <2> QED BY <2>1, <2>2, <2>3, OnceSame, Zenon
<1>6. Shape'
  BY Zenon DEF RingInv, Shape, RingsKept
<1> QED BY <1>1, <1>4, <1>5, <1>6, Zenon DEF RingInv, Counts

-----------------------------------------------------------------------------
(* The device *)

\* A request is taken, to be answered later.
LEMMA TakeStep ==
    ASSUME RingInv, NEW u \in Queue, Pending(u), ~req_in_progress, Advance(u),
           req' = [queue_idx |-> u, desc_idx |-> NextChain(u)], req_in_progress' = TRUE,
           UNCHANGED <<avail, used, seen, offered, free>>
    PROVE  RingInv'
<1>1. PICK A, B, C : Counts(A, B, C)
  BY Zenon DEF RingInv, Counts
<1>2. Shape
  BY Zenon DEF RingInv
<1>3. /\ \A q \in Queue : Serving(q) = 0
      /\ \A q \in Queue \ {u} : Serving(q)' = 0
      /\ Serving(u)' = 1
  BY Zenon DEF Serving
<1>4. Indices(A, B, C, u) /\ Offers(A, B, C, u)
  BY <1>1, Zenon DEF Counts
<1>5. C[u] >= 1 /\ queue[u].ready /\ NextChain(u) = offered[u][1]
  BY <1>1, <1>3, NextIs
<1>6. Advanced(A, B, u)
  BY <1>1, <1>2, AdvanceIs, Zenon
<1>7. A[u] \in Nat /\ B[u] \in Nat /\ C[u] \in Nat /\ seen[u] \in Nat
  BY <1>1, SizeNat, Zenon
<1>8. PICK B2, C2 : B2 = [B EXCEPT ![u] = B[u] + 1] /\ C2 = [C EXCEPT ![u] = C[u] - 1]
  BY Zenon
<1>9. A[u] + B[u] + C[u] <= Num
  BY <1>4, Zenon DEF Indices
<1>10. /\ B2 \in [Queue -> 0 .. Num] /\ C2 \in [Queue -> 0 .. Num]
       /\ B2[u] = B[u] + 1 /\ C2[u] = C[u] - 1
       /\ \A q \in Queue \ {u} : B2[q] = B[q] /\ C2[q] = C[q]
  BY <1>1, <1>5, <1>7, <1>8, <1>9, Sizes DEF Counts
<1>11. Others(A, A, B2, C2, u)
  <2>1. \A q \in Queue \ {u} : Kept(q)
    BY <1>3, <1>6 DEF Advanced, Kept
  <2>2. \A q \in Queue \ {u} : A[q] = A[q] /\ B2[q] = B[q] /\ C2[q] = C[q]
    BY <1>10, Zenon
  <2> QED BY <1>1, <2>1, <2>2, OthersKept, Zenon
<1>12. Indices(A, B2, C2, u)'
  <2>1. /\ seen[u] + A[u] + B2[u] = seen[u] + A[u] + B[u] + 1
        /\ seen[u] + A[u] + B2[u] + C2[u] = seen[u] + A[u] + B[u] + C[u]
        /\ A[u] + B2[u] + C2[u] = A[u] + B[u] + C[u] /\ 1 <= B2[u]
    BY <1>7, <1>10
  <2>2. /\ queue'[u].ready /\ queue'[u].last_avail_idx = (seen[u] + A[u] + B[u] + 1) % IdxMod
    BY <1>5, <1>6, Zenon DEF Advanced
  <2> QED BY <1>3, <1>4, <2>1, <2>2, Zenon DEF Indices
<1>13. Offers(A, B2, C2, u)'
  <2>1. /\ offered'[u] \in Seq(Chain) /\ Len(offered'[u]) = 1 + C2[u]
        /\ offered'[u][1] = req'.desc_idx
    BY <1>3, <1>4, <1>5, <1>7, <1>10 DEF Offers
  <2>2. ASSUME NEW i \in 1 .. C2[u]
        PROVE  offered'[u][1 + i] = avail'[u].ring[Slot(seen'[u] + A[u] + B2[u] + i - 1)]
    <3>1. PICK j : j = i + 1
      BY Zenon
    <3>2. B2[u] = B[u] + 1 /\ C2[u] = C[u] - 1
      BY <1>10, Zenon
    <3>3. /\ j \in 1 .. C[u] /\ 0 + j = 1 + i
          /\ seen[u] + A[u] + B[u] + j - 1 = seen[u] + A[u] + B2[u] + i - 1
      BY <1>7, <3>1, <3>2
    <3>4. offered[u][0 + j] = avail[u].ring[Slot(seen[u] + A[u] + B[u] + j - 1)]
      BY <1>3, <1>4, <3>3, Zenon DEF Offers
    <3> QED BY <3>3, <3>4, Zenon
  <2> QED BY <1>3, <2>1, <2>2, Zenon DEF Offers
<1>14. ASSUME NEW q \in Queue
       PROVE  /\ Size(A, q)' = Size(A, q)
              /\ \A k \in 0 .. Size(A, q) - 1 : Line(A, q, k)' = Line(A, q, k)
  BY Zenon DEF Size, Line
<1>15. Once(A)'
  BY <1>1, <1>14, SizeNat, OnceSame, Zenon DEF Counts
<1>16. Shape'
  BY <1>2, <1>6, Zenon DEF Advanced, Shape
<1>17. \A q \in Queue : Indices(A, B2, C2, q)' /\ Offers(A, B2, C2, q)'
  BY <1>11, <1>12, <1>13, Zenon DEF Others, QueueKept
<1> QED BY <1>1, <1>10, <1>15, <1>16, <1>17, Zenon DEF RingInv, Counts

\* A chain is dropped: the line of chains of the queue loses it.
LEMMA DropLine ==
    ASSUME NEW A, NEW u \in Queue, NEW a \in Nat, A[u] = a, NEW n \in Nat, Len(offered[u]) = n,
           NEW e \in 1 .. n, NEW d, d = a + e - 1,
           Shortened(offered[u], e, offered'[u]), used' = used, seen' = seen
    PROVE  Leaves(A, A, u, d)
<1>1. /\ Len(offered'[u]) = n - 1
      /\ \A i \in 1 .. n - 1 :
            offered'[u][i] = IF i < e THEN offered[u][i] ELSE offered[u][i + 1]
  BY Zenon DEF Shortened
<1>2. Size(A, u) = a + n /\ Size(A, u)' = a + (n - 1)
  BY <1>1, Zenon DEF Size
<1>3. d \in 0 .. Size(A, u) - 1 /\ Size(A, u)' = Size(A, u) - 1
  BY <1>2
<1>4. ASSUME NEW k \in 0 .. Size(A, u) - 2
      PROVE  Line(A, u, k)' = IF k < d THEN Line(A, u, k) ELSE Line(A, u, k + 1)
  <2>1. k \in Nat /\ k <= a + n - 2
    BY <1>2
  <2>2. CASE k < a
    <3>1. k < d
      BY <2>1, <2>2
    <3> QED BY <2>2, <3>1, Zenon DEF Line
  <2>3. CASE ~(k < a)
    <3>1. PICK i : i = k - a + 1
      BY Zenon
    <3>2. /\ i \in 1 .. n - 1 /\ i + 1 = (k + 1) - a + 1
          /\ (i < e <=> k < d) /\ ~(k + 1 < a)
      BY <2>1, <2>3, <3>1
    <3>3. offered'[u][i] = IF i < e THEN offered[u][i] ELSE offered[u][i + 1]
      BY <1>1, <3>2, Zenon
    <3> QED BY <2>3, <3>1, <3>2, <3>3, Zenon DEF Line
  <2> QED BY <2>2, <2>3, Zenon
<1> QED BY <1>3, <1>4, Zenon DEF Leaves

\* The chains behind it move up among those offered.
LEMMA DropOffers ==
    ASSUME NEW A, NEW B, NEW C, NEW B2, NEW C2, NEW u \in Queue, Offers(A, B, C, u),
           NEW p \in {0, 1}, Serving(u) = p, Serving(u)' = p, p = 1 => req' = req,
           A[u] \in Nat, B[u] \in Nat, C[u] \in Nat, seen[u] \in Nat, C[u] >= 1,
           B2[u] = B[u] + 1, C2[u] = C[u] - 1, avail' = avail, seen' = seen,
           Shortened(offered[u], p + 1, offered'[u])
    PROVE  Offers(A, B2, C2, u)'
<1>1. /\ Len(offered[u]) = p + C[u]
      /\ p = 1 => offered[u][1] = req.desc_idx
      /\ \A i \in 1 .. C[u] :
            offered[u][p + i] = avail[u].ring[Slot(seen[u] + A[u] + B[u] + i - 1)]
  BY Zenon DEF Offers
<1>2. /\ offered'[u] \in Seq(Chain) /\ Len(offered'[u]) = (p + C[u]) - 1
      /\ \A i \in 1 .. (p + C[u]) - 1 :
            offered'[u][i] = IF i < p + 1 THEN offered[u][i] ELSE offered[u][i + 1]
  BY <1>1, Zenon DEF Shortened
<1>3. Len(offered'[u]) = p + C2[u]
  BY <1>2
<1>4. p = 1 => offered'[u][1] = req'.desc_idx
  <2>1. p = 1 => 1 \in 1 .. (p + C[u]) - 1 /\ 1 < p + 1
    OBVIOUS
  <2> QED BY <1>1, <1>2, <2>1, Zenon
<1>5. ASSUME NEW i \in 1 .. C2[u]
      PROVE  offered'[u][p + i] = avail'[u].ring[Slot(seen'[u] + A[u] + B2[u] + i - 1)]
  <2>1. PICK j : j = i + 1
    BY Zenon
  <2>2. /\ j \in 1 .. C[u] /\ p + i \in 1 .. (p + C[u]) - 1
        /\ ~(p + i < p + 1) /\ (p + i) + 1 = p + j
    BY <2>1
  <2>3. seen[u] + A[u] + B[u] + j - 1 = seen[u] + A[u] + B2[u] + i - 1
    BY <2>1
  <2>4. offered'[u][p + i] = offered[u][p + j]
    BY <1>2, <2>2, Zenon
  <2>5. offered[u][p + j] = avail[u].ring[Slot(seen[u] + A[u] + B[u] + j - 1)]
    BY <1>1, <2>2, Zenon
  <2> QED BY <2>3, <2>4, <2>5, Zenon
<1> QED BY <1>2, <1>3, <1>4, <1>5, Zenon DEF Offers

\* A chain is dropped.
LEMMA DropStep ==
    ASSUME RingInv, NEW u \in Queue, Pending(u), Advance(u),
           Removed(u, NextChain(u)),
           req_in_progress' = req_in_progress, req_in_progress => req' = req,
           UNCHANGED <<avail, used, seen, free>>
    PROVE  RingInv'
<1>1. PICK A, B, C : Counts(A, B, C)
  BY Zenon DEF RingInv, Counts
<1>2. Shape
  BY Zenon DEF RingInv
<1>3. \A q \in Queue : /\ Serving(q)' = Serving(q)
                       /\ Serving(q) = 1 => req' = req
  BY DEF Serving
<1>4. Indices(A, B, C, u) /\ Offers(A, B, C, u)
  BY <1>1, Zenon DEF Counts
<1>5. PICK p, c : p = Serving(u) /\ c = NextChain(u)
  BY Zenon
<1>6. C[u] >= 1 /\ queue[u].ready /\ p + 1 \in 1 .. Len(offered[u]) /\ c = offered[u][p + 1]
  BY <1>1, <1>5, NextIs, Zenon
<1>7. Advanced(A, B, u)
  BY <1>1, <1>2, AdvanceIs, Zenon
<1>8. A[u] \in Nat /\ B[u] \in Nat /\ C[u] \in Nat /\ seen[u] \in Nat /\ p \in {0, 1}
  BY <1>1, <1>5, SizeNat, Zenon
<1>9. /\ offered' \in [Queue -> Seq(Chain)]
      /\ Shortened(offered[u], p + 1, offered'[u])
      /\ \A q \in Queue \ {u} : offered'[q] = offered[q]
  <2>1. Removed(u, c)
    BY <1>5, Zenon
  <2> QED BY <1>1, <1>2, <1>6, <2>1, OfferedIs, Zenon
<1>10. PICK B2, C2 : B2 = [B EXCEPT ![u] = B[u] + 1] /\ C2 = [C EXCEPT ![u] = C[u] - 1]
  BY Zenon
<1>11. /\ B2 \in [Queue -> 0 .. Num] /\ C2 \in [Queue -> 0 .. Num]
       /\ B2[u] = B[u] + 1 /\ C2[u] = C[u] - 1
       /\ \A q \in Queue \ {u} : B2[q] = B[q] /\ C2[q] = C[q]
  <2>1. C[u] >= 1 /\ A[u] + B[u] + C[u] <= Num
    BY <1>4, <1>6, Zenon DEF Indices
  <2>2. B[u] + 1 \in 0 .. Num /\ C[u] - 1 \in 0 .. Num
    BY <1>8, <2>1, Sizes
  <2>3. B \in [Queue -> 0 .. Num] /\ C \in [Queue -> 0 .. Num]
    BY <1>1, Zenon DEF Counts
  <2> QED BY <1>10, <2>2, <2>3, Counted
<1>12. Others(A, A, B2, C2, u)
  <2>1. \A q \in Queue \ {u} : Kept(q)
    BY <1>3, <1>7, <1>9, Zenon DEF Advanced, Kept
  <2>2. \A q \in Queue \ {u} : A[q] = A[q] /\ B2[q] = B[q] /\ C2[q] = C[q]
    BY <1>11, Zenon
  <2> QED BY <1>1, <2>1, <2>2, OthersKept, Zenon
<1>13. Indices(A, B2, C2, u)'
  <2>1. B2[u] = B[u] + 1 /\ C2[u] = C[u] - 1
    BY <1>11, Zenon
  <2>2. /\ seen[u] + A[u] + B2[u] = seen[u] + A[u] + B[u] + 1
        /\ seen[u] + A[u] + B2[u] + C2[u] = seen[u] + A[u] + B[u] + C[u]
        /\ A[u] + B2[u] + C2[u] = A[u] + B[u] + C[u] /\ (p <= B[u] => p <= B2[u])
    BY <1>8, <2>1
  <2>3. Serving(u)' = p
    BY <1>3, <1>5, Zenon
  <2>4. /\ queue'[u].ready /\ queue'[u].last_avail_idx = (seen[u] + A[u] + B[u] + 1) % IdxMod
    BY <1>6, <1>7, Zenon DEF Advanced
  <2> QED BY <1>4, <1>5, <2>2, <2>3, <2>4, Zenon DEF Indices
<1>14. Offers(A, B2, C2, u)'
  <2>1. Serving(u) = p /\ Serving(u)' = p /\ (p = 1 => req' = req)
    BY <1>3, <1>5, Zenon
  <2> QED BY <1>4, <1>6, <1>8, <1>9, <1>11, <2>1, DropOffers, Zenon
<1>15. PICK a, e, n, d :
          a = A[u] /\ e = p + 1 /\ n = Len(offered[u]) /\ d = a + e - 1
  BY Zenon
<1>16. Leaves(A, A, u, d)
  <2>1. n \in Nat
    BY <1>2, <1>15 DEF Shape
  <2>2. e \in 1 .. n /\ Shortened(offered[u], e, offered'[u])
    BY <1>6, <1>9, <1>15, Zenon
  <2> QED BY <1>8, <1>15, <2>1, <2>2, DropLine, Zenon
<1>17. Once(A)'
  <2>1. Once(A) /\ \A q \in Queue : Size(A, q) \in Nat
    BY <1>1, SizeNat, Zenon DEF Counts
  <2>2. free' \subseteq free \cup {Line(A, u, d)}
    BY Zenon
  <2> QED BY <1>12, <1>16, <2>1, <2>2, OnceShorter, Zenon
<1>18. Shape'
  BY <1>2, <1>7, <1>9, Zenon DEF Advanced, Shape
<1>19. \A q \in Queue : Indices(A, B2, C2, q)' /\ Offers(A, B2, C2, q)'
  BY <1>12, <1>13, <1>14, Zenon DEF Others, QueueKept
<1> QED BY <1>1, <1>11, <1>17, <1>18, <1>19, Zenon DEF RingInv, Counts

-----------------------------------------------------------------------------
(* The device answers *)

\* Counts of chains that stay within a ring.
LEMMA OneMore == \A x \in Nat : x < Num => x + 1 \in 0 .. Num
  BY Sizes

LEMMA OneLess == \A x, y, z \in Nat : z >= 1 /\ x + y + z <= Num => z - 1 \in 0 .. Num
  BY Sizes

\* A chain is returned: the oldest of those offered.
Returned(q, c) == used' = [used EXCEPT ![q] = UsedRing(q, c)] /\ Removed(q, c)

\* The n chains after the oldest are those of the available ring from x on.
Follow(u, x, n) ==
    \A i \in 1 .. n : offered[u][i + 1] = avail[u].ring[Slot(x + i - 1)]

\* The step returns c, the oldest of queue u, and leaves B2 and C2 for B and C.
ReturnsFirst(A, B, C, B2, C2, u, c) ==
    /\ 1 \in 1 .. Len(offered[u]) /\ c = offered[u][1] /\ queue[u].ready /\ A[u] < Num
    /\ Returned(u, c) /\ UNCHANGED <<avail, seen, free>>
    /\ B2 \in [Queue -> 0 .. Num] /\ C2 \in [Queue -> 0 .. Num]
    /\ \A q \in Queue \ {u} : B2[q] = B[q] /\ C2[q] = C[q]
    /\ 1 + B2[u] + C2[u] = B[u] + C[u] /\ Len(offered[u]) = C2[u] + 1
    /\ queue' \in [Queue -> [ready : BOOLEAN, last_avail_idx : 0 .. IdxMod - 1]]
    /\ queue'[u].ready = queue[u].ready
    /\ queue'[u].last_avail_idx = (seen[u] + A[u] + 1 + B2[u]) % IdxMod
    /\ \A q \in Queue \ {u} : queue'[q] = queue[q]
    /\ Serving(u)' = 0
    /\ Follow(u, seen[u] + A[u] + 1 + B2[u], C2[u])
    /\ \A q \in Queue \ {u} : /\ Serving(q)' = Serving(q)
                              /\ Serving(q) = 1 => req'.desc_idx = req.desc_idx

\* The oldest chain moves from the offers to the used ring, its place in the line the same.
LEMMA ReturnLine ==
    ASSUME NEW A, NEW A2, NEW u \in Queue, NEW c, NEW a \in Nat, A[u] = a, A2[u] = a + 1,
           NEW n \in Nat, Len(offered[u]) = n + 1, c = offered[u][1], seen' = seen,
           Shortened(offered[u], 1, offered'[u]), UsedGrows(A, u, c)
    PROVE  /\ Size(A2, u)' = Size(A, u)
           /\ \A k \in 0 .. Size(A, u) - 1 : Line(A2, u, k)' = Line(A, u, k)
<1>1. /\ Len(offered'[u]) = n
      /\ \A i \in 1 .. n :
            offered'[u][i] = IF i < 1 THEN offered[u][i] ELSE offered[u][i + 1]
  <2>1. (n + 1) - 1 = n
    OBVIOUS
  <2> QED BY <2>1, Zenon DEF Shortened
<1>2. /\ used'[u].ring[Slot(seen[u] + a)] = c
      /\ \A k \in 0 .. a - 1 :
            used'[u].ring[Slot(seen[u] + k)] = used[u].ring[Slot(seen[u] + k)]
  BY Zenon DEF UsedGrows
<1>3. Size(A, u) = a + (n + 1) /\ Size(A2, u)' = (a + 1) + n
  BY <1>1, Zenon DEF Size
<1>4. ASSUME NEW k \in 0 .. Size(A, u) - 1 PROVE Line(A2, u, k)' = Line(A, u, k)
  <2>1. k \in Nat /\ k <= a + n
    BY <1>3
  <2>2. CASE k < a
    <3>1. k < a + 1 /\ k \in 0 .. a - 1
      BY <2>1, <2>2
    <3> QED BY <1>2, <2>2, <3>1, Zenon DEF Line
  <2>3. CASE k = a
    <3>1. k < a + 1 /\ ~(k < a) /\ k - a + 1 = 1
      BY <2>3
    <3> QED BY <1>2, <2>3, <3>1, Zenon DEF Line
  <2>4. CASE k > a
    <3>1. PICK i : i = k - (a + 1) + 1
      BY Zenon
    <3>2. ~(k < a + 1) /\ ~(k < a) /\ i \in 1 .. n /\ ~(i < 1) /\ k - a + 1 = i + 1
      BY <2>1, <2>4, <3>1
    <3>3. offered'[u][i] = offered[u][i + 1]
      BY <1>1, <3>2, Zenon
    <3> QED BY <3>1, <3>2, <3>3, Zenon DEF Line
  <2> QED BY <2>1, <2>2, <2>3, <2>4
<1> QED BY <1>3, <1>4

\* The chains that remain offered are the pending ones.
LEMMA ReturnOffers ==
    ASSUME NEW A2, NEW B2, NEW C2, NEW u \in Queue, NEW n \in Nat, C2[u] = n,
           Len(offered[u]) = n + 1, NEW x, seen[u] + A2[u] + B2[u] = x, Serving(u)' = 0,
           Follow(u, x, n), seen' = seen, avail' = avail,
           Shortened(offered[u], 1, offered'[u])
    PROVE  Offers(A2, B2, C2, u)'
<1>1. offered'[u] \in Seq(Chain) /\ Len(offered'[u]) = 0 + n
  BY DEF Shortened
<1>2. ASSUME NEW i \in 1 .. n PROVE offered'[u][0 + i] = avail[u].ring[Slot(x + i - 1)]
  <2>1. 0 + i = i /\ ~(i < 1) /\ i \in 1 .. (n + 1) - 1
    OBVIOUS
  <2>2. offered'[u][i] = offered[u][i + 1]
    BY <2>1, Zenon DEF Shortened
  <2> QED BY <2>1, <2>2, Zenon DEF Follow
<1> QED BY <1>1, <1>2 DEF Offers

\* A step that returns the oldest chain preserves the invariant.
LEMMA ReturnStep ==
    ASSUME NEW A, NEW B, NEW C, Counts(A, B, C), Shape, NEW u \in Queue, NEW c,
           NEW B2, NEW C2, ReturnsFirst(A, B, C, B2, C2, u, c)
    PROVE  RingInv'
<1>1. Indices(A, B, C, u) /\ A \in [Queue -> 0 .. Num]
  BY Zenon DEF Counts
<1>2. A[u] \in Nat /\ B[u] \in Nat /\ C[u] \in Nat /\ seen[u] \in Nat
  BY SizeNat, Zenon
<1>3. /\ B2[u] \in Nat /\ C2[u] \in Nat /\ 1 + B2[u] + C2[u] = B[u] + C[u]
      /\ Len(offered[u]) = C2[u] + 1 /\ A[u] < Num
  BY Sizes DEF ReturnsFirst
<1>4. /\ Serving(u)' = 0 /\ UNCHANGED <<avail, seen, free>> /\ c = offered[u][1]
      /\ Follow(u, seen[u] + A[u] + 1 + B2[u], C2[u])
  BY Zenon DEF ReturnsFirst
<1>5. /\ offered' \in [Queue -> Seq(Chain)] /\ Shortened(offered[u], 1, offered'[u])
      /\ \A q \in Queue \ {u} : offered'[q] = offered[q]
      /\ c \in Chain
  <2>1. 1 \in 1 .. Len(offered[u]) /\ c = offered[u][1] /\ Removed(u, c)
    BY Zenon DEF Returned, ReturnsFirst
  <2> QED BY <2>1, OfferedIs, Zenon
<1>6. UsedGrows(A, u, c)
  <2>1. used' = [used EXCEPT ![u] = UsedRing(u, c)] /\ queue[u].ready /\ A[u] < Num
    BY Zenon DEF Returned, ReturnsFirst
  <2> QED BY <1>5, <2>1, UsedIs, Zenon
<1>7. PICK A2 : A2 = [A EXCEPT ![u] = A[u] + 1]
  BY Zenon
<1>8. /\ A2 \in [Queue -> 0 .. Num] /\ A2[u] = A[u] + 1
      /\ \A q \in Queue \ {u} : A2[q] = A[q]
  <2>1. A[u] + 1 \in 0 .. Num
    BY <1>2, <1>3, OneMore, Zenon
  <2> QED BY <1>1, <1>7, <2>1, Counted, Zenon
<1>9. Others(A, A2, B2, C2, u)
  <2>1. \A q \in Queue \ {u} : Kept(q)
    <3>1. /\ \A q \in Queue \ {u} : queue'[q] = queue[q]
          /\ \A q \in Queue \ {u} : /\ Serving(q)' = Serving(q)
                                    /\ Serving(q) = 1 => req'.desc_idx = req.desc_idx
      BY Zenon DEF ReturnsFirst
    <3> QED BY <1>4, <1>5, <1>6, <3>1, Zenon DEF Kept, UsedGrows
  <2>2. \A q \in Queue \ {u} : A2[q] = A[q] /\ B2[q] = B[q] /\ C2[q] = C[q]
    BY <1>8, Zenon DEF ReturnsFirst
  <2> QED BY <2>1, <2>2, OthersKept, Zenon
<1>10. Indices(A2, B2, C2, u)'
  <2>1. /\ A2[u] = A[u] + 1 /\ B2[u] \in Nat /\ C2[u] \in Nat
        /\ 1 + B2[u] + C2[u] = B[u] + C[u]
    BY <1>3, <1>8, Zenon
  <2>2. /\ seen[u] + A2[u] = seen[u] + A[u] + 1
        /\ seen[u] + A2[u] + B2[u] = seen[u] + A[u] + 1 + B2[u]
        /\ seen[u] + A2[u] + B2[u] + C2[u] = seen[u] + A[u] + B[u] + C[u]
        /\ A2[u] + B2[u] + C2[u] = A[u] + B[u] + C[u] /\ 0 <= B2[u]
    BY <1>2, <2>1
  <2>3. /\ queue'[u].ready
        /\ queue'[u].last_avail_idx = (seen[u] + A[u] + 1 + B2[u]) % IdxMod
    BY Zenon DEF ReturnsFirst
  <2>4. used'[u].idx = (seen[u] + A[u] + 1) % IdxMod
    BY <1>6, Zenon DEF UsedGrows
  <2> QED BY <1>1, <1>4, <2>2, <2>3, <2>4, Zenon DEF Indices
<1>11. Offers(A2, B2, C2, u)'
  <2>1. PICK x, n : x = seen[u] + A[u] + 1 + B2[u] /\ n = C2[u]
    BY Zenon
  <2>2. seen[u] + A2[u] + B2[u] = x
    <3>1. A2[u] = A[u] + 1 /\ B2[u] \in Nat
      BY <1>3, <1>8, Zenon
    <3> QED BY <1>2, <2>1, <3>1
  <2> QED BY <1>3, <1>4, <1>5, <2>1, <2>2, ReturnOffers, Zenon
<1>12. /\ Size(A2, u)' = Size(A, u)
       /\ \A k \in 0 .. Size(A, u) - 1 : Line(A2, u, k)' = Line(A, u, k)
  <2>1. PICK a, n : a = A[u] /\ n = C2[u]
    BY Zenon
  <2> QED BY <1>2, <1>3, <1>4, <1>5, <1>6, <1>8, <2>1, ReturnLine, Zenon
<1>13. Once(A2)'
  <2>1. Once(A) /\ \A q \in Queue : Size(A, q) \in Nat
    BY SizeNat, Zenon DEF Counts
  <2>2. \A q \in Queue : Size(A, q) \in Nat /\ Size(A2, q)' = Size(A, q)
    BY <1>9, <1>12, <2>1, Zenon DEF Others, QueueKept
  <2>3. \A q \in Queue : \A k \in 0 .. Size(A, q) - 1 : Line(A2, q, k)' = Line(A, q, k)
    BY <1>9, <1>12, Zenon DEF Others, QueueKept
  <2> QED BY <1>4, <2>1, <2>2, <2>3, OnceSame, Zenon
<1>14. Shape'
  <2>1. queue' \in [Queue -> [ready : BOOLEAN, last_avail_idx : 0 .. IdxMod - 1]]
    BY Zenon DEF ReturnsFirst
  <2> QED BY <1>4, <1>5, <1>6, <2>1, Zenon DEF Shape, UsedGrows
<1>15. \A q \in Queue : Indices(A2, B2, C2, q)' /\ Offers(A2, B2, C2, q)'
  BY <1>9, <1>10, <1>11, Zenon DEF Others, QueueKept
<1>16. B2 \in [Queue -> 0 .. Num] /\ C2 \in [Queue -> 0 .. Num]
  BY Zenon DEF ReturnsFirst
<1> QED BY <1>8, <1>13, <1>14, <1>15, <1>16, Zenon DEF RingInv

\* A request that the back end answers at once.
LEMMA SyncStep ==
    ASSUME RingInv, NEW u \in Queue, Pending(u), Advance(u), ~req_in_progress,
           Returned(u, NextChain(u)), req_in_progress' = req_in_progress,
           UNCHANGED <<avail, seen, free>>
    PROVE  RingInv'
<1>1. PICK A, B, C : Counts(A, B, C)
  BY Zenon DEF RingInv, Counts
<1>2. Shape
  BY Zenon DEF RingInv
<1>3. \A q \in Queue : Serving(q) = 0 /\ Serving(q)' = 0
  BY Zenon DEF Serving
<1>4. Indices(A, B, C, u) /\ Offers(A, B, C, u)
  BY <1>1, Zenon DEF Counts
<1>5. PICK c : c = NextChain(u)
  BY Zenon
<1>6. /\ C[u] >= 1 /\ queue[u].ready /\ 1 \in 1 .. Len(offered[u]) /\ c = offered[u][1]
  <2>1. Serving(u) + 1 = 1
    BY <1>3
  <2> QED BY <1>1, <1>5, <2>1, NextIs, Zenon
<1>7. Advanced(A, B, u)
  BY <1>1, <1>2, AdvanceIs, Zenon
<1>8. A[u] \in Nat /\ B[u] \in Nat /\ C[u] \in Nat /\ seen[u] \in Nat
  BY <1>1, SizeNat, Zenon
<1>9. A[u] + B[u] + C[u] <= Num
  BY <1>4, Zenon DEF Indices
<1>10. PICK C2 : C2 = [C EXCEPT ![u] = C[u] - 1]
  BY Zenon
<1>11. /\ B \in [Queue -> 0 .. Num] /\ C2 \in [Queue -> 0 .. Num]
       /\ \A q \in Queue \ {u} : B[q] = B[q] /\ C2[q] = C[q]
  <2>1. B \in [Queue -> 0 .. Num] /\ C \in [Queue -> 0 .. Num]
    BY <1>1, Zenon DEF Counts
  <2>2. C[u] - 1 \in 0 .. Num
    BY <1>6, <1>8, <1>9, OneLess, Zenon
  <2> QED BY <1>10, <2>1, <2>2, Counted
<1>12. C2[u] = C[u] - 1
  BY <1>1, <1>10, Zenon DEF Counts
<1>13. C[u] >= 1
  BY <1>6, Zenon
<1>14. /\ A[u] < Num /\ 1 + B[u] + C2[u] = B[u] + C[u] /\ C[u] = C2[u] + 1
       /\ seen[u] + A[u] + B[u] + 1 = seen[u] + A[u] + 1 + B[u]
  BY <1>8, <1>9, <1>12, <1>13, Sizes
<1>15. Len(offered[u]) = C2[u] + 1
  <2>1. Len(offered[u]) = 0 + C[u]
    BY <1>3, <1>4, Zenon DEF Offers
  <2> QED BY <1>8, <1>14, <2>1
<1>16. ASSUME NEW i \in 1 .. C2[u]
       PROVE  offered[u][i + 1] = avail[u].ring[Slot(seen[u] + A[u] + 1 + B[u] + i - 1)]
  <2>1. PICK j : j = i + 1
    BY Zenon
  <2>2. i \in 1 .. C[u] - 1
    BY <1>12, Zenon
  <2>3. /\ j \in 1 .. C[u] /\ 0 + j = j
        /\ seen[u] + A[u] + B[u] + j - 1 = seen[u] + A[u] + 1 + B[u] + i - 1
    BY <1>8, <2>1, <2>2
  <2>4. offered[u][0 + j] = avail[u].ring[Slot(seen[u] + A[u] + B[u] + j - 1)]
    BY <1>3, <1>4, <2>3, Zenon DEF Offers
  <2> QED BY <2>1, <2>3, <2>4, Zenon
<1>17. Returned(u, c) /\ Follow(u, seen[u] + A[u] + 1 + B[u], C2[u])
  BY <1>5, <1>16, Zenon DEF Follow
<1>18. /\ queue' \in [Queue -> [ready : BOOLEAN, last_avail_idx : 0 .. IdxMod - 1]]
       /\ queue'[u].ready = queue[u].ready
       /\ queue'[u].last_avail_idx = (seen[u] + A[u] + 1 + B[u]) % IdxMod
       /\ \A q \in Queue \ {u} : queue'[q] = queue[q]
  BY <1>7, <1>14, Zenon DEF Advanced
<1>19. \A q \in Queue \ {u} : /\ Serving(q)' = Serving(q)
                              /\ Serving(q) = 1 => req'.desc_idx = req.desc_idx
  BY <1>3
<1>20. Serving(u)' = 0
  BY <1>3, Zenon
<1>21. ReturnsFirst(A, B, C, B, C2, u, c)
  BY <1>6, <1>11, <1>14, <1>15, <1>17, <1>18, <1>19, <1>20, Zenon DEF ReturnsFirst
<1> QED BY <1>1, <1>2, <1>21, ReturnStep, Zenon

\* The request in progress is answered.
AnswersOne(u, c) ==
    /\ Serving(u) = 1 /\ c = req.desc_idx /\ (queue[u].ready => Returned(u, c))
    /\ \A q \in Queue \ {u} : Serving(q) = 0
    /\ \A q \in Queue : Serving(q)' = 0
    /\ UNCHANGED <<queue, avail, seen, free>>

LEMMA CallbackStep ==
    ASSUME RingInv, NEW u \in Queue, NEW c, AnswersOne(u, c) PROVE RingInv'
<1>1. PICK A, B, C : Counts(A, B, C)
  BY Zenon DEF RingInv, Counts
<1>2. Shape
  BY Zenon DEF RingInv
<1>3. Serving(u) = 1 /\ Serving(u)' = 0
  BY Zenon DEF AnswersOne
<1>4. Indices(A, B, C, u) /\ Offers(A, B, C, u)
  BY <1>1, Zenon DEF Counts
<1>5. A[u] \in Nat /\ B[u] \in Nat /\ C[u] \in Nat /\ seen[u] \in Nat
  BY <1>1, SizeNat, Zenon
<1>6. Len(offered[u]) = 1 + C[u] /\ offered[u][1] = c
  <2>1. c = req.desc_idx
    BY Zenon DEF AnswersOne
  <2> QED BY <1>3, <1>4, <2>1, Zenon DEF Offers
<1>7. A[u] + B[u] + C[u] <= Num /\ 1 <= B[u]
  BY <1>3, <1>4, Zenon DEF Indices
<1>8. queue[u].ready
  <2>1. 1 + C[u] > 0
    BY <1>5
  <2> QED BY <1>3, <1>4, <2>1, Zenon DEF Indices
<1>9. UNCHANGED <<queue, avail, seen, free>>
  BY Zenon DEF AnswersOne
<1>10. PICK B2 : B2 = [B EXCEPT ![u] = B[u] - 1]
  BY Zenon
<1>11. /\ B2 \in [Queue -> 0 .. Num] /\ C \in [Queue -> 0 .. Num]
       /\ \A q \in Queue \ {u} : B2[q] = B[q] /\ C[q] = C[q]
  BY <1>1, <1>5, <1>7, <1>10, Sizes DEF Counts
<1>12. B2[u] = B[u] - 1
  BY <1>1, <1>10, Zenon DEF Counts
<1>13. /\ A[u] < Num /\ 1 + B2[u] + C[u] = B[u] + C[u]
       /\ seen[u] + A[u] + B[u] = seen[u] + A[u] + 1 + B2[u]
  BY <1>5, <1>7, <1>12, Sizes
<1>14. Len(offered[u]) = C[u] + 1 /\ 1 \in 1 .. Len(offered[u])
  BY <1>5, <1>6
<1>15. ASSUME NEW i \in 1 .. C[u]
       PROVE  offered[u][i + 1] = avail[u].ring[Slot(seen[u] + A[u] + 1 + B2[u] + i - 1)]
  <2>1. 1 + i = i + 1 /\ seen[u] + A[u] + B[u] + i - 1 = seen[u] + A[u] + 1 + B2[u] + i - 1
    BY <1>5, <1>12
  <2>2. offered[u][1 + i] = avail[u].ring[Slot(seen[u] + A[u] + B[u] + i - 1)]
    BY <1>3, <1>4, Zenon DEF Offers
  <2> QED BY <2>1, <2>2, Zenon
<1>16. /\ Returned(u, c) /\ c = offered[u][1]
       /\ Follow(u, seen[u] + A[u] + 1 + B2[u], C[u])
  BY <1>6, <1>8, <1>15, Zenon DEF AnswersOne, Follow
<1>17. /\ queue' \in [Queue -> [ready : BOOLEAN, last_avail_idx : 0 .. IdxMod - 1]]
       /\ queue'[u].ready = queue[u].ready
       /\ queue'[u].last_avail_idx = (seen[u] + A[u] + 1 + B2[u]) % IdxMod
       /\ \A q \in Queue \ {u} : queue'[q] = queue[q]
  BY <1>2, <1>4, <1>9, <1>13, Zenon DEF Indices, Shape
<1>18. \A q \in Queue \ {u} : /\ Serving(q)' = Serving(q)
                              /\ Serving(q) = 1 => req'.desc_idx = req.desc_idx
  BY DEF AnswersOne
<1>19. ReturnsFirst(A, B, C, B2, C, u, c)
  BY <1>3, <1>8, <1>9, <1>11, <1>13, <1>14, <1>16, <1>17, <1>18, Zenon
     DEF ReturnsFirst
<1> QED BY <1>1, <1>2, <1>19, ReturnStep, Zenon

-----------------------------------------------------------------------------
(* The driver *)

LEMMA EnableStep == ASSUME RingInv, NEW u \in Queue, Enable(u), UNCHANGED block PROVE RingInv'
<1>1. PICK A, B, C : Counts(A, B, C)
  BY Zenon DEF RingInv, Counts
<1>2. /\ queue' \in [Queue -> [ready : BOOLEAN, last_avail_idx : 0 .. IdxMod - 1]]
      /\ \A q \in Queue : /\ queue'[q].last_avail_idx = queue[q].last_avail_idx
                          /\ queue[q].ready => queue'[q].ready
  <2>1. queue \in [Queue -> [ready : BOOLEAN, last_avail_idx : 0 .. IdxMod - 1]]
    BY Zenon DEF RingInv, Shape
  <2>2. queue' = [queue EXCEPT ![u].ready = TRUE]
    BY Zenon DEF Enable
  <2> QED BY <2>1, <2>2, Zenon
<1>3. UNCHANGED <<avail, used, seen, offered, free, req_in_progress, req>>
  BY Zenon DEF Enable, block, driver, hist
<1>4. ASSUME NEW q \in Queue PROVE Indices(A, B, C, q)' /\ Offers(A, B, C, q)'
  BY <1>1, <1>2, <1>3 DEF Counts, Indices, Offers, Serving
<1>5. ASSUME NEW q \in Queue
      PROVE  /\ Size(A, q)' = Size(A, q)
             /\ \A k \in 0 .. Size(A, q) - 1 : Line(A, q, k)' = Line(A, q, k)
  BY <1>3, Zenon DEF Size, Line
<1>6. Once(A)'
  BY <1>1, <1>3, <1>5, SizeNat, OnceSame, Zenon DEF Counts
<1>7. Shape'
  BY <1>2, <1>3, Zenon DEF RingInv, Shape
<1> QED BY <1>1, <1>4, <1>6, <1>7, Zenon DEF RingInv, Counts

\* How far one index is ahead of another.
LEMMA Distance ==
    ASSUME NEW x \in 0 .. IdxMod - 1, NEW n \in 0 .. IdxMod - 1
    PROVE  (((x + n) % IdxMod) - x) % IdxMod = n
<1>1. CASE x + n < IdxMod
  <2>1. (x + n) % IdxMod = x + n
    BY <1>1, Sizes, ModSmall
  <2>2. (x + n) - x = n
    BY Sizes
  <2> QED BY <2>1, <2>2, ModSmall, Zenon
<1>2. CASE x + n >= IdxMod
  <2>1. PICK a, r : a = x + n /\ r = x + n - IdxMod
    BY Zenon
  <2>2. a \in Int /\ r \in 0 .. IdxMod - 1 /\ a = (IdxMod * 1) + r
    BY <1>2, <2>1, Sizes
  <2>3. a % IdxMod = r
    BY <2>2, Sizes, Remainder
  <2>4. PICK b : b = r - x
    BY Zenon
  <2>5. b \in Int /\ b = (IdxMod * (-1)) + n
    BY <2>1, <2>4, Sizes
  <2>6. b % IdxMod = n
    BY <2>5, Sizes, Remainder
  <2> QED BY <2>1, <2>3, <2>4, <2>6, Zenon
<1> QED BY <1>1, <1>2, Sizes

\* The available ring after a post.
Posted(q, c) ==
    avail' = [avail EXCEPT ![q] = [idx  |-> Succ(@.idx),
                                   ring |-> [@.ring EXCEPT ![avail[q].idx % Num] = c]]]

AvailGrows(A, B, C, q, c) ==
    /\ avail' \in [Queue -> Ring]
    /\ avail'[q].idx = (seen[q] + A[q] + B[q] + C[q] + 1) % IdxMod
    /\ avail'[q].ring[Slot(seen[q] + A[q] + B[q] + C[q])] = c
    /\ \A i \in 1 .. C[q] :
          avail'[q].ring[Slot(seen[q] + A[q] + B[q] + i - 1)]
             = avail[q].ring[Slot(seen[q] + A[q] + B[q] + i - 1)]
    /\ \A r \in Queue \ {q} : avail'[r] = avail[r]

LEMMA AvailIs ==
    ASSUME NEW A, NEW B, NEW C, Counts(A, B, C), Shape, NEW q \in Queue, NEW c \in Chain,
           C[q] < Num, Posted(q, c)
    PROVE  AvailGrows(A, B, C, q, c)
<1>1. PICK x : x = seen[q] + A[q] + B[q]
  BY Zenon
<1>2. x \in Nat /\ C[q] \in Nat
  BY <1>1, SizeNat
<1>3. avail[q].idx = (x + C[q]) % IdxMod /\ avail[q] \in Ring
  BY <1>1, Zenon DEF Counts, Indices, Shape
<1>4. avail[q].idx % Num = Slot(x + C[q]) /\ Slot(x + C[q]) \in 0 .. Num - 1
  BY <1>2, <1>3, SlotIs DEF Slot
<1>5. Succ(avail[q].idx) = (x + C[q] + 1) % IdxMod
  BY <1>2, <1>3, SuccMod
<1>6. Succ(avail[q].idx) \in 0 .. IdxMod - 1
  BY <1>2, <1>5, ModRange
<1> DEFINE s == Slot(x + C[q])
           new == [avail[q].ring EXCEPT ![s] = c]
           both == [idx |-> Succ(avail[q].idx), ring |-> new]
<1>7. avail' = [avail EXCEPT ![q] = both]
  BY <1>4, Zenon DEF Posted
<1>8. avail[q].ring \in [0 .. Num - 1 -> Chain \cup {NoChain}]
  BY <1>3, Zenon DEF Ring
<1>9. new \in [0 .. Num - 1 -> Chain \cup {NoChain}] /\ new[s] = c
  BY <1>4, <1>8, Zenon
<1>10. ASSUME NEW i \in 1 .. C[q]
       PROVE  new[Slot(x + i - 1)] = avail[q].ring[Slot(x + i - 1)]
  <2>1. PICK k : k = i - 1
    BY Zenon
  <2>2. k \in Nat /\ k # C[q] /\ C[q] - k < Num /\ k - C[q] < Num /\ x + i - 1 = x + k
    <3>1. C[q] <= Num /\ C[q] < Num
      BY <1>2, Sizes
    <3> QED BY <1>2, <2>1, <3>1, Sizes
  <2>3. Slot(x + k) # s
    BY <1>2, <2>2, SlotsApart, Zenon
  <2>4. Slot(x + k) \in 0 .. Num - 1
    BY <1>2, <2>2, SlotIs
  <2> QED BY <1>8, <2>2, <2>3, <2>4
<1> HIDE DEF new, s
<1>11. both \in Ring /\ both.idx = Succ(avail[q].idx) /\ both.ring = new
  BY <1>6, <1>9, Zenon DEF Ring
<1> HIDE DEF both
<1>12. avail' \in [Queue -> Ring] /\ avail'[q] = both
       /\ \A r \in Queue \ {q} : avail'[r] = avail[r]
  BY <1>7, <1>11, Zenon DEF Shape
<1>13. /\ avail'[q].idx = (x + C[q] + 1) % IdxMod /\ avail'[q].ring[s] = c
       /\ \A i \in 1 .. C[q] : avail'[q].ring[Slot(x + i - 1)] = avail[q].ring[Slot(x + i - 1)]
  BY <1>5, <1>9, <1>10, <1>11, <1>12, Zenon
<1> QED BY <1>1, <1>12, <1>13, Zenon DEF s, AvailGrows

LEMMA PostStep ==
    ASSUME RingInv, free \subseteq Chain, NEW u \in Queue, NEW c \in Chain, NEW k \in Kind,
           Post(u, c, k), UNCHANGED <<req_in_progress, req>>
    PROVE  RingInv'
<1>1. PICK A, B, C : Counts(A, B, C)
  BY Zenon DEF RingInv, Counts
<1>2. Shape
  BY Zenon DEF RingInv
<1>3. Indices(A, B, C, u) /\ Offers(A, B, C, u)
  BY <1>1, Zenon DEF Counts
<1>4. PICK p : p = Serving(u)
  BY Zenon
<1>5. A[u] \in Nat /\ B[u] \in Nat /\ C[u] \in Nat /\ seen[u] \in Nat /\ p \in {0, 1}
  BY <1>1, <1>4, SizeNat, Zenon
<1>6. A[u] + B[u] + C[u] < Num
  <2>1. PICK n : n = A[u] + B[u] + C[u]
    BY Zenon
  <2>2. n \in Nat /\ n <= Num /\ seen[u] \in 0 .. IdxMod - 1
    BY <1>3, <1>5, <2>1 DEF Indices
  <2>3. n \in 0 .. IdxMod - 1
    BY <2>2, Sizes
  <2>4. avail[u].idx = (seen[u] + n) % IdxMod
    <3>1. seen[u] + A[u] + B[u] + C[u] = seen[u] + n
      BY <1>5, <2>1
    <3> QED BY <1>3, <3>1, Zenon DEF Indices
  <2>5. (avail[u].idx - seen[u]) % IdxMod = n
    BY <2>2, <2>3, <2>4, Distance, Zenon
  <2> QED BY <2>1, <2>5, Zenon DEF Post
<1>7. C[u] < Num
  BY <1>5, <1>6, Sizes
<1>8. AvailGrows(A, B, C, u, c)
  <2>1. Posted(u, c)
    BY Zenon DEF Post, Posted
  <2> QED BY <1>1, <1>2, <1>7, <2>1, AvailIs, Zenon
<1>9. /\ UNCHANGED <<queue, used, seen>> /\ c \in free /\ free' = free \ {c}
      /\ queue[u].ready /\ offered' = [offered EXCEPT ![u] = Append(@, c)]
  BY Zenon DEF Post
<1>10. PICK n : n = Len(offered[u]) /\ n = p + C[u] /\ n \in Nat
  BY <1>3, <1>4, <1>5 DEF Offers
<1>11. /\ offered' \in [Queue -> Seq(Chain)] /\ Len(offered'[u]) = n + 1
       /\ \A i \in 1 .. n : offered'[u][i] = offered[u][i]
       /\ offered'[u][n + 1] = c
       /\ \A q \in Queue \ {u} : offered'[q] = offered[q]
  <2>1. PICK s : s = offered[u]
    BY Zenon
  <2>2. PICK w : w = Append(s, c)
    BY Zenon
  <2>3. s \in Seq(Chain) /\ Len(s) = n
    BY <1>2, <1>10, <2>1, Zenon DEF Shape
  <2>4. /\ w \in Seq(Chain) /\ Len(w) = Len(s) + 1 /\ w[Len(s) + 1] = c
        /\ \A i \in 1 .. Len(s) : w[i] = s[i]
    BY <2>2, <2>3, Appended, Zenon
  <2>5. /\ w \in Seq(Chain) /\ Len(w) = n + 1 /\ w[n + 1] = c
        /\ \A i \in 1 .. n : w[i] = offered[u][i]
    BY <2>1, <2>3, <2>4, Zenon
  <2>6. offered'[u] = w /\ offered' \in [Queue -> Seq(Chain)]
        /\ \A q \in Queue \ {u} : offered'[q] = offered[q]
    BY <1>2, <1>9, <2>1, <2>2, <2>5, Zenon DEF Shape
  <2> QED BY <2>5, <2>6, Zenon
<1>12. PICK C2 : C2 = [C EXCEPT ![u] = C[u] + 1]
  BY Zenon
<1>13. /\ C2 \in [Queue -> 0 .. Num] /\ C2[u] = C[u] + 1
       /\ \A q \in Queue \ {u} : A[q] = A[q] /\ B[q] = B[q] /\ C2[q] = C[q]
  BY <1>1, <1>5, <1>7, <1>12, Sizes DEF Counts
<1>14. \A q \in Queue : Serving(q)' = Serving(q) /\ req' = req
  BY Zenon DEF Serving
<1>15. Others(A, A, B, C2, u)
  <2>1. \A q \in Queue \ {u} : Kept(q)
    BY <1>8, <1>9, <1>11, <1>14, Zenon DEF Kept, AvailGrows
  <2>2. \A q \in Queue \ {u} : A[q] = A[q] /\ B[q] = B[q] /\ C2[q] = C[q]
    BY <1>13, Zenon
  <2> QED BY <1>1, <2>1, <2>2, OthersKept, Zenon
<1>16. C2[u] = C[u] + 1
  BY <1>13, Zenon
<1>17. Indices(A, B, C2, u)'
  <2>1. /\ seen[u] + A[u] + B[u] + C2[u] = seen[u] + A[u] + B[u] + C[u] + 1
        /\ A[u] + B[u] + C2[u] <= Num
    <3>1. seen[u] + A[u] + B[u] + C2[u] = seen[u] + A[u] + B[u] + C[u] + 1
      BY <1>5, <1>16
    <3>2. A[u] + B[u] + C2[u] <= Num
      BY <1>5, <1>6, <1>16, Sizes
    <3> QED BY <3>1, <3>2, Zenon
  <2>2. avail'[u].idx = (seen[u] + A[u] + B[u] + C[u] + 1) % IdxMod
    BY <1>8, Zenon DEF AvailGrows
  <2> QED BY <1>3, <1>9, <1>14, <2>1, <2>2, Zenon DEF Indices
<1>18. Offers(A, B, C2, u)'
  <2>1. offered'[u] \in Seq(Chain) /\ Len(offered'[u]) = p + C2[u]
    <3>1. n + 1 = p + C2[u]
      BY <1>5, <1>10, <1>16
    <3> QED BY <1>11, <3>1, Zenon
  <2>2. p = 1 => offered'[u][1] = req'.desc_idx
    <3>1. p = 1 => 1 \in 1 .. n
      BY <1>5, <1>10
    <3>2. p = 1 => offered[u][1] = req.desc_idx
      BY <1>3, <1>4, Zenon DEF Offers
    <3> QED BY <1>11, <1>14, <3>1, <3>2, Zenon
  <2>3. ASSUME NEW i \in 1 .. C2[u]
        PROVE  offered'[u][p + i] = avail'[u].ring[Slot(seen'[u] + A[u] + B[u] + i - 1)]
    <3>1. i \in 1 .. C[u] + 1
      BY <1>16, Zenon
    <3>2. CASE i \in 1 .. C[u]
      <4>1. p + i \in 1 .. n
        BY <1>5, <1>10, <3>2
      <4>2. offered[u][p + i] = avail[u].ring[Slot(seen[u] + A[u] + B[u] + i - 1)]
        BY <1>3, <1>4, <3>2, Zenon DEF Offers
      <4>3. avail'[u].ring[Slot(seen[u] + A[u] + B[u] + i - 1)]
               = avail[u].ring[Slot(seen[u] + A[u] + B[u] + i - 1)]
        BY <1>8, <3>2, Zenon DEF AvailGrows
      <4>4. seen' = seen /\ offered'[u][p + i] = offered[u][p + i]
        BY <1>9, <1>11, <4>1, Zenon
      <4> QED BY <4>2, <4>3, <4>4, Zenon
    <3>3. CASE i = C[u] + 1
      <4>1. p + i = n + 1 /\ seen[u] + A[u] + B[u] + i - 1 = seen[u] + A[u] + B[u] + C[u]
        BY <1>5, <1>10, <3>3
      <4>2. avail'[u].ring[Slot(seen[u] + A[u] + B[u] + C[u])] = c
        BY <1>8, Zenon DEF AvailGrows
      <4>3. offered'[u][p + i] = c /\ seen' = seen
        BY <1>9, <1>11, <4>1, Zenon
      <4> QED BY <4>1, <4>2, <4>3, Zenon
    <3> QED BY <1>5, <3>1, <3>2, <3>3
  <2>4. Serving(u)' = p
    BY <1>4, <1>14, Zenon
  <2> QED BY <2>1, <2>2, <2>3, <2>4, Zenon DEF Offers
<1>19. PICK m : m = Size(A, u)
  BY Zenon
<1>20. m = A[u] + n /\ Size(A, u)' = A[u] + (n + 1)
  BY <1>10, <1>11, <1>19, Zenon DEF Size
<1>21. Size(A, u)' = m + 1
  BY <1>5, <1>10, <1>20
<1>22. ASSUME NEW j \in 0 .. m - 1 PROVE Line(A, u, j)' = Line(A, u, j)
  <2>1. CASE j < A[u]
    BY <1>9, <2>1, Zenon DEF Line
  <2>2. CASE ~(j < A[u])
    <3>1. PICK i : i = j - A[u] + 1
      BY Zenon
    <3>2. i \in 1 .. n
      BY <1>5, <1>10, <1>20, <2>2, <3>1
    <3>3. offered'[u][i] = offered[u][i]
      BY <1>11, <3>2, Zenon
    <3> QED BY <2>2, <3>1, <3>3, Zenon DEF Line
  <2> QED BY <2>1, <2>2, Zenon
<1>23. Line(A, u, m)' = c
  <2>1. ~(m < A[u]) /\ m - A[u] + 1 = n + 1
    BY <1>5, <1>10, <1>20
  <2> QED BY <1>11, <2>1, Zenon DEF Line
<1>24. Once(A)'
  <2>1. Once(A) /\ \A q \in Queue : Size(A, q) \in Nat
    BY <1>1, SizeNat, Zenon DEF Counts
  <2>2. \A q \in Queue \ {u} : Size(A, q)' = Size(A, q)
    BY <1>15, Zenon DEF Others, QueueKept
  <2>3. \A q \in Queue : \A j \in 0 .. Size(A, q) - 1 : Line(A, q, j)' = Line(A, q, j)
    BY <1>15, <1>19, <1>22, Zenon DEF Others, QueueKept
  <2> QED BY <1>9, <1>19, <1>21, <1>23, <2>1, <2>2, <2>3, OnceLonger, Zenon
<1>25. Shape'
  BY <1>2, <1>8, <1>9, <1>11, Zenon DEF AvailGrows, Shape
<1>26. \A q \in Queue : Indices(A, B, C2, q)' /\ Offers(A, B, C2, q)'
  BY <1>15, <1>17, <1>18, Zenon DEF Others, QueueKept
<1> QED BY <1>1, <1>13, <1>24, <1>25, <1>26, Zenon DEF RingInv, Counts

\* A device whose rings are empty and which is not at work.
Fresh ==
    /\ queue = [q \in Queue |-> ResetQueue]
    /\ avail = [q \in Queue |-> EmptyRing] /\ used = [q \in Queue |-> EmptyRing]
    /\ seen = [q \in Queue |-> 0] /\ offered = [q \in Queue |-> <<>>] /\ ~req_in_progress

LEMMA FreshRings == Fresh => RingInv
<1> SUFFICES ASSUME Fresh PROVE RingInv
  BY Zenon
<1> USE DEF Fresh
<1>1. Shape
  <2>1. EmptyRing \in Ring
    BY Sizes DEF EmptyRing, Ring
  <2>2. ResetQueue \in [ready : BOOLEAN, last_avail_idx : 0 .. IdxMod - 1]
    BY Sizes DEF ResetQueue
  <2>3. 0 \in 0 .. IdxMod - 1 /\ <<>> \in Seq(Chain)
    BY Sizes
  <2> QED BY <2>1, <2>2, <2>3, Zenon DEF Shape
<1>2. PICK A : A = [q \in Queue |-> 0]
  BY Zenon
<1>3. A \in [Queue -> 0 .. Num] /\ \A q \in Queue : A[q] = 0
  BY <1>2, Sizes
<1>4. ASSUME NEW q \in Queue PROVE Indices(A, A, A, q) /\ Offers(A, A, A, q) /\ Size(A, q) = 0
  <2>1. Serving(q) = 0 /\ A[q] = 0
    BY <1>3, Zenon DEF Serving
  <2>2. /\ used[q].idx = 0 /\ avail[q].idx = 0 /\ queue[q].last_avail_idx = 0 /\ seen[q] = 0
    BY Zenon DEF EmptyRing, ResetQueue
  <2>3. 0 % IdxMod = 0 /\ 0 <= Num
    BY Sizes, ModSmall
  <2>4. Indices(A, A, A, q)
    BY <2>1, <2>2, <2>3, Sizes DEF Indices
  <2>5. Offers(A, A, A, q)
    BY <2>1 DEF Offers
  <2>6. Size(A, q) = 0
    BY <2>1 DEF Size
  <2> QED BY <2>4, <2>5, <2>6, Zenon
<1>5. Once(A)
  BY <1>4 DEF Once
<1> QED BY <1>1, <1>3, <1>4, <1>5, Zenon DEF RingInv

-----------------------------------------------------------------------------
(* The driver collects a chain *)

\* Index t is one place after s.
Ahead(t, s) == \A k \in Nat : (t + k) % IdxMod = (s + 1 + k) % IdxMod

\* From s, and with w instead of x from t, the three counts end at the same places.
SameEnds(t, w, s, x, y, z) ==
    /\ (t + w) % IdxMod = (s + x) % IdxMod
    /\ (t + w + y) % IdxMod = (s + x + y) % IdxMod
    /\ (t + w + y + z) % IdxMod = (s + x + y + z) % IdxMod

\* One chain fewer, counted from one place further on, ends where it did.
LEMMA Earlier ==
    ASSUME NEW s \in Nat, NEW t \in Nat, NEW x \in Nat, NEW y \in Nat, NEW z \in Nat, NEW w,
           x >= 1, w = x - 1, Ahead(t, s)
    PROVE  SameEnds(t, w, s, x, y, z)
<1>1. PICK b, c : b = w + y /\ c = w + y + z
  BY Zenon
<1>2. /\ w \in Nat /\ b \in Nat /\ c \in Nat
      /\ s + 1 + w = s + x /\ s + 1 + b = s + x + y /\ s + 1 + c = s + x + y + z
      /\ t + b = t + w + y /\ t + c = t + w + y + z
  BY <1>1
<1>3. /\ (t + w) % IdxMod = (s + 1 + w) % IdxMod /\ (t + b) % IdxMod = (s + 1 + b) % IdxMod
      /\ (t + c) % IdxMod = (s + 1 + c) % IdxMod
  BY <1>2, Zenon DEF Ahead
<1> QED BY <1>2, <1>3, Zenon DEF SameEnds

\* One returned chain less, seen from an index one place on.
OneShorter(s, t, w, x, y, i) ==
    /\ s \in Nat /\ t \in Nat /\ x \in Nat /\ y \in Nat /\ i \in Nat
    /\ x >= 1 /\ w = x - 1 /\ i >= 1 /\ Ahead(t, s)

\* The entries of the rings are the same ones.
LEMMA EarlierSlot ==
    ASSUME NEW s, NEW t, NEW w, NEW x, NEW y, NEW i, OneShorter(s, t, w, x, y, i)
    PROVE  Slot(t + w + y + i - 1) = Slot(s + x + y + i - 1)
<1> USE DEF OneShorter
<1>1. PICK k : k = w + y + i - 1
  BY Zenon
<1>2. k \in Nat /\ t + w + y + i - 1 = t + k /\ s + x + y + i - 1 = s + 1 + k
  BY <1>1
<1>3. (t + k) % IdxMod = (s + 1 + k) % IdxMod
  BY <1>2, Zenon DEF Ahead
<1> QED BY <1>2, <1>3, Zenon DEF Slot

\* The oldest of the chains returned leaves the line.
LEMMA CollectLine ==
    ASSUME NEW A, NEW A2, NEW u \in Queue, NEW a \in Nat \ {0}, A[u] = a, A2[u] = a - 1,
           NEW n \in Nat, Len(offered[u]) = n, seen[u] \in Nat, Ahead(seen'[u], seen[u]),
           UNCHANGED <<used, offered>>
    PROVE  Leaves(A, A2, u, 0)
<1>1. Size(A, u) = a + n /\ Size(A2, u)' = (a - 1) + n
  BY Zenon DEF Size
<1>2. 0 \in 0 .. Size(A, u) - 1 /\ Size(A2, u)' = Size(A, u) - 1
  BY <1>1
<1>3. ASSUME NEW k \in 0 .. Size(A, u) - 2
      PROVE  Line(A2, u, k)' = IF k < 0 THEN Line(A, u, k) ELSE Line(A, u, k + 1)
  <2>1. k \in Nat /\ ~(k < 0)
    BY <1>1
  <2>2. CASE k < a - 1
    <3>1. k + 1 < a /\ seen[u] + 1 + k = seen[u] + (k + 1)
      BY <2>1, <2>2
    <3>2. Slot(seen'[u] + k) = Slot(seen[u] + (k + 1))
      BY <2>1, <3>1, Zenon DEF Ahead, Slot
    <3> QED BY <2>1, <2>2, <3>1, <3>2, Zenon DEF Line
  <2>3. CASE ~(k < a - 1)
    <3>1. ~(k + 1 < a) /\ k - (a - 1) + 1 = (k + 1) - a + 1
      BY <2>1, <2>3
    <3> QED BY <2>1, <2>3, <3>1, Zenon DEF Line
  <2> QED BY <2>2, <2>3, Zenon
<1> QED BY <1>2, <1>3, Zenon DEF Leaves

\* The driver takes a chain back.
LEMMA CollectStep ==
    ASSUME RingInv, NEW u \in Queue, Collect(u), UNCHANGED <<req_in_progress, req>>
    PROVE  RingInv'
<1>1. PICK A, B, C : Counts(A, B, C)
  BY Zenon DEF RingInv, Counts
<1>2. Shape
  BY Zenon DEF RingInv
<1>3. Indices(A, B, C, u) /\ Offers(A, B, C, u)
  BY <1>1, Zenon DEF Counts
<1>4. A[u] \in Nat /\ B[u] \in Nat /\ C[u] \in Nat /\ seen[u] \in Nat
  BY <1>1, SizeNat, Zenon
<1>5. /\ seen[u] # used[u].idx /\ seen' = [seen EXCEPT ![u] = Succ(@)]
      /\ free' = free \cup {used[u].ring[seen[u] % Num]}
      /\ UNCHANGED <<queue, avail, used, offered>>
  BY Zenon DEF Collect, ring
<1>6. A[u] >= 1
  <2>1. seen[u] \in 0 .. IdxMod - 1 /\ used[u].idx = (seen[u] + A[u]) % IdxMod
    BY <1>3, Zenon DEF Indices
  <2>2. A[u] = 0 => seen[u] + A[u] = seen[u]
    BY <1>4
  <2>3. A[u] # 0
    BY <1>5, <2>1, <2>2, ModSmall, Zenon
  <2> QED BY <1>4, <2>3
<1>7. seen'[u] = (seen[u] + 1) % IdxMod
  <2>1. seen[u] \in 0 .. IdxMod - 1
    BY <1>3, Zenon DEF Indices
  <2>2. seen[u] % IdxMod = seen[u]
    BY <2>1, ModSmall, Zenon
  <2>3. Succ(seen[u]) = (seen[u] + 1) % IdxMod
    BY Zenon DEF Succ
  <2> QED BY <1>2, <1>5, <2>3, Zenon DEF Shape
<1>8. /\ seen' \in [Queue -> 0 .. IdxMod - 1] /\ seen'[u] \in 0 .. IdxMod - 1
      /\ \A q \in Queue \ {u} : seen'[q] = seen[q]
  <2>1. Succ(seen[u]) \in 0 .. IdxMod - 1
    BY <1>4, ModRange DEF Succ
  <2> QED BY <1>2, <1>5, <2>1, Zenon DEF Shape
<1>9. Ahead(seen'[u], seen[u])
  <2>1. PICK x : x = seen[u] + 1
    BY Zenon
  <2>2. x \in Nat
    BY <1>4, <2>1
  <2> QED BY <1>7, <2>1, <2>2, ModPlus DEF Ahead
<1>10. seen'[u] \in Nat
  BY <1>8
<1>11. PICK A2 : A2 = [A EXCEPT ![u] = A[u] - 1]
  BY Zenon
<1>12. A \in [Queue -> 0 .. Num] /\ A[u] <= Num
  BY <1>1, Sizes DEF Counts
<1>13. /\ A2 \in [Queue -> 0 .. Num] /\ A2[u] = A[u] - 1
       /\ \A q \in Queue \ {u} : A2[q] = A[q]
  BY <1>4, <1>6, <1>11, <1>12, Sizes
<1>14. A2[u] = A[u] - 1
  BY <1>13, Zenon
<1>15. \A q \in Queue : Serving(q)' = Serving(q) /\ req' = req
  BY Zenon DEF Serving
<1>16. Others(A, A2, B, C, u)
  <2>1. \A q \in Queue \ {u} : Kept(q)
    BY <1>5, <1>8, <1>15, Zenon DEF Kept
  <2>2. \A q \in Queue \ {u} : A2[q] = A[q] /\ B[q] = B[q] /\ C[q] = C[q]
    BY <1>13, Zenon
  <2> QED BY <1>1, <2>1, <2>2, OthersKept, Zenon
<1>17. Indices(A2, B, C, u)'
  <2>1. SameEnds(seen'[u], A2[u], seen[u], A[u], B[u], C[u])
    BY <1>4, <1>6, <1>9, <1>10, <1>14, Earlier, Zenon
  <2>2. A[u] + B[u] + C[u] <= Num
    BY <1>3, Zenon DEF Indices
  <2>3. A2[u] + B[u] + C[u] <= Num
    BY <1>4, <1>14, <2>2, Sizes
  <2> QED BY <1>3, <1>5, <1>8, <1>15, <2>1, <2>3, Zenon DEF Indices, SameEnds
<1>18. Offers(A2, B, C, u)'
  <2>1. ASSUME NEW i \in 1 .. C[u]
        PROVE  Slot(seen'[u] + A2[u] + B[u] + i - 1) = Slot(seen[u] + A[u] + B[u] + i - 1)
    <3>1. i \in Nat /\ i >= 1
      BY <1>4
    <3>2. OneShorter(seen[u], seen'[u], A2[u], A[u], B[u], i)
      BY <1>4, <1>6, <1>9, <1>10, <1>14, <3>1, Zenon DEF OneShorter
    <3> QED BY <3>2, EarlierSlot
  <2> QED BY <1>3, <1>5, <1>15, <2>1, Zenon DEF Offers
<1>19. free' \subseteq free \cup {Line(A, u, 0)}
  <2>1. seen[u] \in 0 .. IdxMod - 1
    BY <1>3, Zenon DEF Indices
  <2>2. seen[u] + 0 = seen[u] /\ seen[u] % IdxMod = seen[u]
    BY <1>4, <2>1, ModSmall
  <2>3. Slot(seen[u] + 0) = seen[u] % Num
    BY <2>2, Zenon DEF Slot
  <2>4. 0 < A[u]
    BY <1>4, <1>6
  <2>5. Line(A, u, 0) = used[u].ring[seen[u] % Num]
    BY <2>3, <2>4, Zenon DEF Line
  <2> QED BY <1>5, <2>5, Zenon
<1>20. Once(A2)'
  <2>1. Once(A) /\ \A q \in Queue : Size(A, q) \in Nat
    BY <1>1, SizeNat, Zenon DEF Counts
  <2>2. PICK a, n : a = A[u] /\ n = Len(offered[u])
    BY Zenon
  <2>3. a \in Nat \ {0} /\ n \in Nat
    <3>1. offered[u] \in Seq(Chain)
      BY <1>2, Zenon DEF Shape
    <3> QED BY <1>4, <1>6, <2>2, <3>1
  <2>4. Leaves(A, A2, u, 0)
    BY <1>4, <1>5, <1>9, <1>14, <2>2, <2>3, CollectLine, Zenon
  <2> QED BY <1>16, <1>19, <2>1, <2>4, OnceShorter, Zenon
<1>21. Shape'
  BY <1>2, <1>5, <1>8, Zenon DEF Shape
<1>22. \A q \in Queue : Indices(A2, B, C, q)' /\ Offers(A2, B, C, q)'
  BY <1>16, <1>17, <1>18, Zenon DEF Others, QueueKept
<1> QED BY <1>1, <1>13, <1>20, <1>21, <1>22, Zenon DEF RingInv, Counts

=============================================================================
