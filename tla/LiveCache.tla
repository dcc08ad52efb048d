------------------------------ MODULE LiveCache ------------------------------
(* The cache model kept while the program runs, to warm up the caches of a design that
   starts from the checkpoint: sets of lines in the order of their last use, each line
   stamped with the number of its last access, and traverse, which lists the lines from
   the oldest to the newest. *)
EXTENDS Integers, Sequences, SequencesExt, FiniteSetsExt

CONSTANTS Sets, Assoc,          \* of the cache; Sets is a power of two
          LineSize,
          MemBase, MemEnd,      \* both ends are tracked
          Access,               \* addresses accessed
          MaxAccess             \* bound: accesses tracked

\* log2i(a) > 0: a cache with one way would be another class.
ASSUME LiveCacheAssumption == Assoc > 1 /\ LineSize > 1 /\ MemBase >= LineSize

VARIABLES content,      \* [0 .. Sets - 1 -> sequence of lines, most recently used first]
          maxOrder,
          accesses        \* history: the accesses tracked, [tag, st]

cache == <<content, maxOrder, accesses>>

\* A new line; its st and order are never looked at.
NoLine == [tag |-> 0, st |-> FALSE, order |-> 0]

CacheInit ==
    /\ content = [i \in 0 .. Sets - 1 |-> [k \in 1 .. Assoc |-> NoLine]]
    /\ maxOrder = 0 /\ accesses = <<>>

calcTag(addr) == addr \div LineSize
calcIndex4Tag(tag) == tag % Sets
calcAddr4Tag(tag) == tag * LineSize

-----------------------------------------------------------------------------

\* Mutant: a line that is hit keeps its place.
ToFront_Kept(set, k, line) == [set EXCEPT ![k] = line]

\* The set with its k-th line, now as given, moved to the front.
ToFront(set, k, line) == <<line>> \o SubSeq(set, 1, k - 1) \o SubSeq(set, k + 1, Len(set))

\* findLine, or fillLine of the last line of the set; then the line is stamped.
Use(addr, write) ==
    LET tag == calcTag(addr)
        set == content[calcIndex4Tag(tag)]
        hits == {k \in 1 .. Assoc : set[k].tag = tag}
        k == IF hits # {} THEN Min(hits) ELSE Assoc
        st == write \/ (hits # {} /\ set[k].st)
    IN  /\ content' = [content EXCEPT ![calcIndex4Tag(tag)] =
                           ToFront(set, k, [tag |-> tag, st |-> st, order |-> maxOrder])]
        /\ maxOrder' = maxOrder + 1
        /\ accesses' = Append(accesses, [tag |-> tag, st |-> write])

read(addr) == IF addr < MemBase \/ addr > MemEnd THEN UNCHANGED cache ELSE Use(addr, FALSE)

write(addr) == IF addr < MemBase \/ addr > MemEnd THEN UNCHANGED cache ELSE Use(addr, TRUE)

CacheNext == \E addr \in Access : Len(accesses) < MaxAccess /\ (read(addr) \/ write(addr))

-----------------------------------------------------------------------------

RECURSIVE Merge(_, _)
Merge(a, b) ==
    IF b = <<>> THEN a
    ELSE IF a # <<>> /\ a[1].order <= b[1].order THEN <<a[1]>> \o Merge(Tail(a), b)
    ELSE IF a = <<>> THEN b
    ELSE <<b[1]>> \o Merge(a, Tail(b))

RECURSIVE mergeSort(_)
mergeSort(arr) ==
    LET mid == Len(arr) \div 2 IN
    IF Len(arr) < 2 THEN arr
    ELSE IF Len(arr) = 2 THEN IF arr[1].order > arr[2].order THEN <<arr[2], arr[1]>> ELSE arr
    ELSE Merge(mergeSort(SubSeq(arr, 1, mid)), mergeSort(SubSeq(arr, mid + 1, Len(arr))))

\* All lines, set by set.
Lines == FlattenSeq([i \in 1 .. Sets |-> content[i - 1]])

\* The addresses of the lines, with bit 0 for a line that was written.
traverse ==
    LET arr == mergeSort(SelectSeq(Lines, LAMBDA l : l.order # 0))
        valid == SelectSeq(arr, LAMBDA l : l.tag # 0)
    IN  [i \in 1 .. Len(valid) |-> calcAddr4Tag(valid[i].tag) + (IF valid[i].st THEN 1 ELSE 0)]

-----------------------------------------------------------------------------
(* What the accesses so far should leave: the last n of them are considered. *)

Tags(n) == {accesses[i].tag : i \in 1 .. n}
LastUse(tag, n) == Max({i \in 1 .. n : accesses[i].tag = tag})
Resident(tag, n) ==
    /\ tag \in Tags(n)
    /\ Cardinality({t \in Tags(n) : t % Sets = tag % Sets /\ LastUse(t, n) > LastUse(tag, n)}) < Assoc

\* Written since it was last brought in.
Stained(tag, n) ==
    \E i \in 1 .. n :
        /\ accesses[i] = [tag |-> tag, st |-> TRUE]
        /\ \A j \in i .. n : Resident(tag, j)

(* traverse lists, oldest first, exactly the lines a cache of this size with the least
   recently used line replaced would hold, each marked if it was written since it was
   brought in.  The one line whose last use is the first access of all is left out: its
   order is 0, which traverse takes for an unused line. *)
TraverseIsRecent ==
    LET n == Len(accesses)
        held == {t \in Tags(n) : Resident(t, n) /\ LastUse(t, n) # 1}
        rank(t) == Cardinality({u \in held : LastUse(u, n) <= LastUse(t, n)})
    IN  traverse = [i \in 1 .. Cardinality(held) |->
                       LET t == CHOOSE u \in held : rank(u) = i
                       IN  calcAddr4Tag(t) + (IF Stained(t, n) THEN 1 ELSE 0)]
=============================================================================
