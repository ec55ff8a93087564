----------------------------- MODULE KmmProofs -----------------------------
(***************************************************************************)
(* The kernel heap, for every heap size.                                   *)
(***************************************************************************)
EXTENDS Kmm, WellFoundedInduction, TLAPS

-----------------------------------------------------------------------------
(* Numbers *)

\* A nonempty set of naturals has a least element.
LEMMA LeastNat ==
  ASSUME NEW S \in SUBSET Nat, S # {}
  PROVE  /\ \E x \in S : \A y \in S : x <= y
         /\ Min(S) \in S /\ \A y \in S : Min(S) <= y
<1> DEFINE R == {ss \in Nat \X Nat : ss[1] < ss[2]}
<1>1. IsWellFoundedOn(R, Nat)
  BY NatLessThanWellFounded DEF OpToRel
<1>2. \A x, y \in Nat : ~(<<y, x>> \in R) => x <= y
  OBVIOUS
<1> HIDE DEF R
<1>3. PICK x \in S : \A y \in S : ~(<<y, x>> \in R)
  BY Zenon, <1>1, WFMin
<1>4. \A y \in S : x <= y
  BY Zenon, <1>2, <1>3
<1> QED BY Zenon, <1>4 DEF Min

-----------------------------------------------------------------------------
(* The kernel heap: sets of blocks that tile it *)

\* A block as KmmTypeOK wants it, a set of blocks as HeapTiled wants it.
WellFormed(b) ==
  /\ b.addr \in 0..(HEAP_SIZE - 1) /\ b.addr % KMALLOC_ALIGN = 0
  /\ b.size \in 1..HEAP_SIZE /\ End(b) <= HEAP_SIZE
  /\ b.size >= HEADER_SIZE + b.asked

Disjoint(B) == \A b, c \in B : b # c => End(b) <= c.addr \/ End(c) <= b.addr
Followed(B) == \A b \in B : End(b) = HEAP_SIZE \/ \E c \in B : c.addr = End(b)
Tiles(B) ==
  /\ \A b \in B : WellFormed(b)
  /\ Disjoint(B) /\ Followed(B)
  /\ \E b \in B : b.addr = 0

\* It is what HeapTiled says of all the blocks.
TiledIsTiles == HeapTiled <=> Tiles(Blocks)

\* And so it is.
LEMMA TiledMeansTiles == TiledIsTiles
BY DEF TiledIsTiles, HeapTiled, KmmTypeOK, Tiles, WellFormed, Disjoint, Followed

\* The interval of a well-formed block.
LEMMA Interval ==
  ASSUME NEW b, WellFormed(b)
  PROVE  b.addr \in Nat /\ b.size \in Nat /\ End(b) \in Nat /\ b.addr < End(b) /\ End(b) = b.addr + b.size
BY KmmAssumption DEF WellFormed, End

\* A block is cut in two (kmalloc), or renamed (when u = v: kmalloc without
\* a split, and the first half of kfree).
LEMMA Split ==
  ASSUME NEW B, Tiles(B), NEW b \in B, NEW u, NEW v, WellFormed(u), WellFormed(v),
         u.addr = b.addr, End(v) = End(b), End(u) = v.addr \/ u = v
  PROVE  Tiles((B \ {b}) \union {u, v})
<1> DEFINE C == (B \ {b}) \union {u, v}
<1>1. /\ \A x \in B : WellFormed(x)
      /\ \A x, y \in B : x # y => End(x) <= y.addr \/ End(y) <= x.addr
      /\ \A x \in B : End(x) = HEAP_SIZE \/ \E c \in B : c.addr = End(x)
      /\ \E x \in B : x.addr = 0
  BY DEF Tiles, Disjoint, Followed
<1>2. /\ \A x \in B : x.addr \in Nat /\ End(x) \in Nat /\ x.addr < End(x)
      /\ u.addr \in Nat /\ End(u) \in Nat /\ u.addr < End(u)
      /\ v.addr \in Nat /\ End(v) \in Nat /\ v.addr < End(v)
  BY <1>1, Interval
<1>3. b.addr <= v.addr /\ End(u) <= End(b) /\ (u = v \/ End(u) <= v.addr)
  BY <1>2
<1>4. \A x \in C : WellFormed(x)
  BY <1>1
<1>5. Disjoint(C)
  <2>1. ASSUME NEW x \in B \ {b} PROVE /\ End(x) <= u.addr \/ End(u) <= x.addr
                                       /\ End(x) <= v.addr \/ End(v) <= x.addr
    BY <1>1, <1>2, <1>3
  <2> QED BY <1>1, <1>3, <2>1 DEF Disjoint
<1>6. Followed(C)
  <2> SUFFICES ASSUME NEW x \in C, End(x) # HEAP_SIZE PROVE \E c \in C : c.addr = End(x)
    BY DEF Followed
  <2>1. CASE x \in B \ {b}
    <3>1. PICK c \in B : c.addr = End(x)
      BY <1>1, <2>1
    <3>2. CASE c = b
      BY <3>1, <3>2
    <3>3. CASE c # b
      BY <3>1, <3>3
    <3> QED BY <3>2, <3>3
  <2>2. CASE x = v
    <3>1. PICK c \in B : c.addr = End(b)
      BY <1>1, <2>2
    <3>2. c # b
      BY <1>2, <3>1
    <3> QED BY <2>2, <3>1, <3>2
  <2>3. CASE x = u
    BY <2>2, <2>3
  <2> QED BY <2>1, <2>2, <2>3
<1>7. \E x \in C : x.addr = 0
  BY <1>1
<1> QED BY <1>4, <1>5, <1>6, <1>7 DEF Tiles

\* Two neighbours become one block (kfree).
LEMMA Join ==
  ASSUME NEW B, Tiles(B), NEW b \in B, NEW c \in B, End(b) = c.addr,
         NEW u, WellFormed(u), u.addr = b.addr, End(u) = End(c)
  PROVE  Tiles((B \ {b, c}) \union {u})
<1> DEFINE C == (B \ {b, c}) \union {u}
<1>1. /\ \A x \in B : WellFormed(x)
      /\ \A x, y \in B : x # y => End(x) <= y.addr \/ End(y) <= x.addr
      /\ \A x \in B : End(x) = HEAP_SIZE \/ \E y \in B : y.addr = End(x)
      /\ \E x \in B : x.addr = 0
  BY DEF Tiles, Disjoint, Followed
<1>2. /\ \A x \in B : x.addr \in Nat /\ End(x) \in Nat /\ x.addr < End(x)
      /\ u.addr \in Nat /\ End(u) \in Nat /\ u.addr < End(u)
  BY <1>1, Interval
<1>3. \A x \in C : WellFormed(x)
  BY <1>1
<1>4. Disjoint(C)
  <2>1. ASSUME NEW x \in B \ {b, c} PROVE End(x) <= u.addr \/ End(u) <= x.addr
    BY <1>1, <1>2
  <2> QED BY <1>1, <2>1 DEF Disjoint
<1>5. Followed(C)
  <2> SUFFICES ASSUME NEW x \in C, End(x) # HEAP_SIZE PROVE \E y \in C : y.addr = End(x)
    BY DEF Followed
  <2>1. CASE x \in B \ {b, c}
    <3>1. PICK y \in B : y.addr = End(x)
      BY <1>1, <2>1
    <3>2. y # c
      BY <1>1, <1>2, <2>1, <3>1
    <3>3. CASE y = b
      BY <3>1, <3>3
    <3>4. CASE y # b
      BY <3>1, <3>2, <3>4
    <3> QED BY <3>3, <3>4
  <2>2. CASE x = u
    <3>1. PICK y \in B : y.addr = End(c)
      BY <1>1, <2>2
    <3>2. y # c /\ y # b
      BY <1>2, <3>1
    <3> QED BY <2>2, <3>1, <3>2
  <2> QED BY <2>1, <2>2
<1>6. \E x \in C : x.addr = 0
  <2>1. PICK x \in B : x.addr = 0
    BY <1>1
  <2>2. x # c
    BY <1>2, <2>1
  <2>3. CASE x = b
    BY <2>1, <2>3
  <2>4. CASE x # b
    BY <2>1, <2>2, <2>4
  <2> QED BY <2>3, <2>4
<1> QED BY <1>3, <1>4, <1>5, <1>6 DEF Tiles


-----------------------------------------------------------------------------
(* The kernel heap: the free list *)

Entries == [addr : Nat, size : Nat]

\* A free block as a member of Blocks, and all of them.
Fr(c) == [addr |-> c.addr, size |-> c.size, asked |-> 0]
FreeBlocks(s) == {Fr(s[i]) : i \in DOMAIN s}

\* Sorted by address, and no two blocks touch.
Apart(s) == \A i, j \in DOMAIN s : i < j => End(s[i]) < s[j].addr

\* The fields of a free block.
LEMMA FrFields ==
  ASSUME NEW c \in Entries
  PROVE  Fr(c).addr = c.addr /\ Fr(c).size = c.size /\ Fr(c).asked = 0 /\ End(Fr(c)) = End(c)
BY DEF Fr, End, Entries

\* Two sequences, one after the other.
LEMMA Concatenation ==
  ASSUME NEW T, NEW u \in Seq(T), NEW v \in Seq(T)
  PROVE  /\ u \o v \in Seq(T) /\ Len(u \o v) = Len(u) + Len(v)
         /\ \A k \in 1..Len(u) : (u \o v)[k] = u[k]
         /\ \A k \in 1..Len(v) : (u \o v)[Len(u) + k] = v[k]
OBVIOUS

\* The blocks of s before h and from t on are kept, the ones between them
\* replaced by e.
Spliced(s, h, e, t) == SubSeq(s, 1, h) \o <<e>> \o SubSeq(s, t, Len(s))

\* The elements of a spliced list.
LEMMA SpliceIs ==
  ASSUME NEW T, NEW s \in Seq(T), NEW e \in T, NEW h \in 0..Len(s), NEW t \in (h + 1)..(Len(s) + 1)
  PROVE  /\ Spliced(s, h, e, t) \in Seq(T)
         /\ Len(Spliced(s, h, e, t)) = (h + 1) + ((Len(s) - t) + 1)
         /\ \A k \in 1..h : Spliced(s, h, e, t)[k] = s[k]
         /\ Spliced(s, h, e, t)[h + 1] = e
         /\ \A k \in t..Len(s) : Spliced(s, h, e, t)[(h + 2) + (k - t)] = s[k]
<1> DEFINE a == SubSeq(s, 1, h)
           c == SubSeq(s, t, Len(s))
           d == a \o <<e>>
<1>1. a \in Seq(T) /\ Len(a) = h /\ \A k \in 1..h : a[k] = s[k]
  OBVIOUS
<1>2. c \in Seq(T) /\ Len(c) = (Len(s) - t) + 1 /\ \A k \in 1..Len(c) : c[k] = s[t + k - 1]
  OBVIOUS
<1> HIDE DEF a, c
<1>3. d \in Seq(T) /\ Len(d) = h + 1 /\ d[h + 1] = e /\ \A k \in 1..h : d[k] = s[k]
  BY <1>1
<1> HIDE DEF d
<1>4. /\ d \o c \in Seq(T) /\ Len(d \o c) = (h + 1) + ((Len(s) - t) + 1)
      /\ \A k \in 1..(h + 1) : (d \o c)[k] = d[k]
      /\ \A k \in 1..Len(c) : (d \o c)[(h + 1) + k] = c[k]
  <2>2. /\ d \o c \in Seq(T) /\ Len(d \o c) = Len(d) + Len(c)
        /\ \A k \in 1..Len(d) : (d \o c)[k] = d[k]
        /\ \A k \in 1..Len(c) : (d \o c)[Len(d) + k] = c[k]
    <3>1. d \in Seq(T) /\ c \in Seq(T)
      BY <1>2, <1>3
    <3> QED BY ONLY <3>1, Concatenation
  <2>3. Len(d \o c) = (h + 1) + ((Len(s) - t) + 1)
    BY ONLY <1>2, <1>3, <2>2
  <2>4. \A k \in 1..(h + 1) : (d \o c)[k] = d[k]
    BY ONLY <1>3, <2>2
  <2>5. \A k \in 1..Len(c) : (d \o c)[(h + 1) + k] = c[k]
    BY ONLY <1>3, <2>2
  <2> QED BY Zenon, <2>2, <2>3, <2>4, <2>5
<1>5. ASSUME NEW k \in t..Len(s) PROVE (d \o c)[(h + 2) + (k - t)] = s[k]
  <2>1. (k - t) + 1 \in 1..Len(c) /\ (h + 1) + ((k - t) + 1) = (h + 2) + (k - t) /\ t + ((k - t) + 1) - 1 = k
    <3>1. Len(s) \in Nat /\ h \in Int /\ t \in Int /\ k \in Int
      OBVIOUS
    <3> QED BY <1>2, <3>1
  <2>2. (d \o c)[(h + 1) + ((k - t) + 1)] = c[(k - t) + 1]
    BY Zenon, <1>4, <2>1
  <2>3. c[(k - t) + 1] = s[t + ((k - t) + 1) - 1]
    BY Zenon, <1>2, <2>1
  <2> QED BY Zenon, <2>1, <2>2, <2>3
<1>6. Spliced(s, h, e, t) = d \o c
  BY DEF Spliced, d, a, c
<1>7. \A k \in 1..h : (d \o c)[k] = s[k]
  BY <1>3, <1>4
<1>8. (d \o c)[h + 1] = e
  BY <1>3, <1>4
<1> QED BY Zenon, <1>4, <1>5, <1>6, <1>7, <1>8

\* Every index of a spliced list is one of those.
LEMMA SpliceIndex ==
  ASSUME NEW n \in Nat, NEW h \in 0..n, NEW t \in (h + 1)..(n + 1),
         NEW i \in 1..((h + 1) + ((n - t) + 1))
  PROVE  i \in 1..h \/ i = h + 1 \/ \E k \in t..n : i = (h + 2) + (k - t)
<1>1. CASE i > h + 1
  <2> DEFINE k == (i - (h + 2)) + t
  <2>1. k \in t..n /\ i = (h + 2) + (k - t)
    BY <1>1
  <2> QED BY <2>1
<1> QED BY <1>1

\* A spliced list is sorted when the new block fits its place.
LEMMA SpliceApart ==
  ASSUME NEW s \in Seq(Entries), Apart(s), NEW e \in Entries,
         NEW h \in 0..Len(s), NEW t \in (h + 1)..(Len(s) + 1),
         \A k \in 1..h : End(s[k]) < e.addr,
         \A k \in t..Len(s) : End(e) < s[k].addr
  PROVE  Apart(Spliced(s, h, e, t))
<1> DEFINE r == Spliced(s, h, e, t)
           pos(k) == (h + 2) + (k - t)
<1>1. /\ r \in Seq(Entries) /\ Len(r) = (h + 1) + ((Len(s) - t) + 1)
      /\ \A k \in 1..h : r[k] = s[k]
      /\ r[h + 1] = e
      /\ \A k \in t..Len(s) : r[pos(k)] = s[k]
  BY SpliceIs
<1> HIDE DEF r
<1> SUFFICES Apart(r)
  BY DEF r
<1>a. DOMAIN r = 1..Len(r)
  BY <1>1
<1> SUFFICES ASSUME NEW i \in 1..Len(r), NEW j \in 1..Len(r), i < j PROVE End(r[i]) < r[j].addr
  BY Zenon, <1>a DEF Apart
<1>2. \A k, l \in 1..Len(s) : k < l => End(s[k]) < s[l].addr
  BY DEF Apart
<1>3. Len(s) \in Nat
  OBVIOUS
<1>4. i \in 1..h \/ i = h + 1 \/ \E k \in t..Len(s) : i = pos(k)
  BY <1>1, <1>3, SpliceIndex
<1>5. j \in 1..h \/ j = h + 1 \/ \E k \in t..Len(s) : j = pos(k)
  BY <1>1, <1>3, SpliceIndex
<1>6. CASE i \in 1..h
  <2>1. CASE j \in 1..h
    <3>1. i \in 1..Len(s) /\ j \in 1..Len(s)
      BY <1>3, <1>6, <2>1
    <3>2. r[i] = s[i] /\ r[j] = s[j]
      BY <1>1, <1>6, <2>1
    <3> QED BY ONLY i < j, <1>2, <3>1, <3>2
  <2>2. CASE j = h + 1
    BY <1>1, <1>6, <2>2
  <2>3. ASSUME NEW k \in t..Len(s), j = pos(k) PROVE End(r[i]) < r[j].addr
    <3>1. i \in 1..Len(s) /\ k \in 1..Len(s) /\ i < k
      BY <1>3, <1>6
    <3> QED BY <1>1, <1>2, <1>6, <2>3, <3>1
  <2> QED BY <1>5, <2>1, <2>2, <2>3
<1>7. CASE i = h + 1
  <2>1. PICK k \in t..Len(s) : j = pos(k)
    BY <1>5, <1>7
  <2> QED BY Zenon, <1>1, <1>7, <2>1
<1>8. ASSUME NEW k \in t..Len(s), i = pos(k) PROVE End(r[i]) < r[j].addr
  <2>1. PICK l \in t..Len(s) : j = pos(l)
    BY <1>3, <1>5, <1>8
  <2>2. k \in 1..Len(s) /\ l \in 1..Len(s) /\ k < l
    BY <1>3, <1>8, <2>1
  <2> QED BY Zenon, <1>1, <1>2, <1>8, <2>1, <2>2
<1> QED BY <1>4, <1>6, <1>7, <1>8

\* The blocks of a spliced list.
LEMMA SpliceBlocks ==
  ASSUME NEW s \in Seq(Entries), NEW e \in Entries,
         NEW h \in 0..Len(s), NEW t \in (h + 1)..(Len(s) + 1)
  PROVE  FreeBlocks(Spliced(s, h, e, t)) = {Fr(s[k]) : k \in (1..h) \union (t..Len(s))} \union {Fr(e)}
<1> DEFINE r == Spliced(s, h, e, t)
           pos(k) == (h + 2) + (k - t)
<1>1. /\ r \in Seq(Entries) /\ Len(r) = (h + 1) + ((Len(s) - t) + 1)
      /\ \A k \in 1..h : r[k] = s[k]
      /\ r[h + 1] = e
      /\ \A k \in t..Len(s) : r[pos(k)] = s[k]
  BY SpliceIs
<1> HIDE DEF r
<1>2. Len(s) \in Nat /\ DOMAIN r = 1..Len(r)
  BY <1>1
<1>3. ASSUME NEW i \in DOMAIN r
      PROVE  Fr(r[i]) \in {Fr(s[k]) : k \in (1..h) \union (t..Len(s))} \union {Fr(e)}
  <2>1. i \in 1..h \/ i = h + 1 \/ \E k \in t..Len(s) : i = pos(k)
    <3>1. i \in 1..((h + 1) + ((Len(s) - t) + 1))
      BY <1>1, <1>2
    <3> DEFINE n == Len(s)
    <3>2. n \in Nat /\ h \in 0..n /\ t \in (h + 1)..(n + 1) /\ i \in 1..((h + 1) + ((n - t) + 1))
      BY <1>2, <3>1
    <3> HIDE DEF n
    <3>3. i \in 1..h \/ i = h + 1 \/ \E k \in t..n : i = (h + 2) + (k - t)
      BY ONLY Zenon, <3>2, SpliceIndex
    <3> QED BY <3>3 DEF n
  <2> QED BY <1>1, <2>1
<1>4. ASSUME NEW k \in 1..h PROVE k \in DOMAIN r /\ r[k] = s[k]
  BY <1>1, <1>2
<1>5. h + 1 \in DOMAIN r /\ r[h + 1] = e
  BY <1>1, <1>2
<1>6. ASSUME NEW k \in t..Len(s) PROVE pos(k) \in DOMAIN r /\ r[pos(k)] = s[k]
  <2>1. DOMAIN r = 1..((h + 1) + ((Len(s) - t) + 1))
    BY Zenon, <1>1, <1>2
  <2>2. pos(k) \in 1..((h + 1) + ((Len(s) - t) + 1))
    BY <1>2
  <2>3. r[pos(k)] = s[k]
    BY Zenon, <1>1
  <2> QED BY Zenon, <2>1, <2>2, <2>3
<1> HIDE DEF pos
<1>7. FreeBlocks(r) = {Fr(s[k]) : k \in (1..h) \union (t..Len(s))} \union {Fr(e)}
  BY <1>3, <1>4, <1>5, <1>6 DEF FreeBlocks
<1> QED BY <1>7 DEF r


\* What holds of the heap after every call.
KmmInv ==
  /\ free \in Seq(Entries)
  /\ used \in SUBSET [addr : Nat, size : Nat, asked : Nat \ {0}]
  /\ HeapTiled
  /\ Apart(free)

\* The blocks of the free list.
LEMMA ListBlocks ==
  ASSUME KmmInv
  PROVE  /\ Blocks = used \union FreeBlocks(free) /\ Tiles(Blocks)
         /\ DOMAIN free = 1..Len(free) /\ Len(free) \in Nat
         /\ \A b \in used : /\ b.addr \in Nat /\ b.size \in Nat /\ b.asked \in Nat \ {0}
                            /\ WellFormed(b) /\ b \notin FreeBlocks(free)
         /\ \A k \in 1..Len(free) :
              /\ free[k] \in Entries /\ free[k].addr \in Nat /\ free[k].size \in Nat
              /\ Fr(free[k]) \in FreeBlocks(free) /\ Fr(free[k]) \notin used /\ WellFormed(Fr(free[k]))
<1>1. Blocks = used \union FreeBlocks(free)
  BY DEF Blocks, FreeBlocks, Fr
<1>2. Tiles(Blocks)
  BY TiledMeansTiles DEF KmmInv, TiledIsTiles
<1>3. DOMAIN free = 1..Len(free) /\ Len(free) \in Nat
  BY DEF KmmInv
<1>4. \A k \in 1..Len(free) : free[k] \in Entries
  BY DEF KmmInv
<1>5. \A k \in 1..Len(free) : free[k].addr \in Nat /\ free[k].size \in Nat
  BY <1>4 DEF Entries
<1>6. \A k \in 1..Len(free) : Fr(free[k]) \in FreeBlocks(free)
  BY <1>3 DEF FreeBlocks
<1>7. \A b \in used : b.addr \in Nat /\ b.size \in Nat /\ b.asked \in Nat \ {0}
  BY DEF KmmInv
<1>8. \A k \in 1..Len(free) : Fr(free[k]).asked = 0
  BY <1>4, FrFields
<1>9. \A k \in 1..Len(free) : Fr(free[k]) \notin used
  BY <1>7, <1>8
<1>10. \A b \in used : b \notin FreeBlocks(free)
  BY <1>3, <1>9 DEF FreeBlocks
<1>11. \A b \in Blocks : WellFormed(b)
  BY <1>2 DEF Tiles
<1>12. (\A b \in used : WellFormed(b)) /\ \A k \in 1..Len(free) : WellFormed(Fr(free[k]))
  BY <1>1, <1>6, <1>11
<1> QED BY <1>1, <1>2, <1>3, <1>4, <1>5, <1>6, <1>7, <1>9, <1>10, <1>12

\* A sorted list without some of its places has all but their blocks.
LEMMA BlocksWithout ==
  ASSUME NEW s \in Seq(Entries), Apart(s), NEW K \in SUBSET DOMAIN s
  PROVE  {Fr(s[k]) : k \in DOMAIN s \ K} = FreeBlocks(s) \ {Fr(s[k]) : k \in K}
<1>1. ASSUME NEW k \in DOMAIN s, NEW l \in DOMAIN s, k < l PROVE s[k].addr < s[l].addr
  <2>1. s[k] \in Entries /\ s[l] \in Entries
    OBVIOUS
  <2>2. /\ s[k].addr \in Nat /\ s[k].size \in Nat /\ End(s[k]) = s[k].addr + s[k].size
        /\ s[l].addr \in Nat
    BY <2>1 DEF End, Entries
  <2>3. End(s[k]) < s[l].addr
    BY <1>1 DEF Apart
  <2> QED BY <2>2, <2>3
<1>2. ASSUME NEW k \in DOMAIN s, NEW l \in DOMAIN s, k # l PROVE Fr(s[k]) # Fr(s[l])
  <2>1. k \in Int /\ l \in Int /\ s[k] \in Entries /\ s[l] \in Entries
    OBVIOUS
  <2>2. Fr(s[k]).addr = s[k].addr /\ Fr(s[l]).addr = s[l].addr
    BY <2>1, FrFields
  <2>3. s[k].addr \in Nat /\ s[l].addr \in Nat
    BY <2>1 DEF Entries
  <2>4. k < l \/ l < k
    BY <1>2, <2>1
  <2> QED BY <1>1, <2>2, <2>3, <2>4
<1> QED BY <1>2 DEF FreeBlocks

\* How much kmalloc takes for n bytes.
LEMMA NeededIs ==
  ASSUME NEW n \in Nat \ {0}
  PROVE  Needed(n) \in Nat /\ Needed(n) % KMALLOC_ALIGN = 0 /\ Needed(n) >= HEADER_SIZE + n
<1> DEFINE q == (n + KMALLOC_ALIGN - 1) \div KMALLOC_ALIGN
<1>1. q \in Nat /\ q * 8 >= n
  BY DEF KMALLOC_ALIGN
<1> HIDE DEF q
<1>2. Needed(n) = 24 + q * 8
  BY DEF Needed, q, HEADER_SIZE, KMALLOC_ALIGN
<1>3. (24 + q * 8) % 8 = 0
  BY <1>1
<1> QED BY <1>1, <1>2, <1>3 DEF KMALLOC_ALIGN, HEADER_SIZE

\* A list without one place.
LEMMA Removed ==
  ASSUME NEW T, NEW s \in Seq(T), NEW i \in 1..Len(s)
  PROVE  /\ Without(s, i) \in Seq(T) /\ Len(Without(s, i)) = Len(s) - 1
         /\ \A k \in 1..(Len(s) - 1) : Without(s, i)[k] = IF k < i THEN s[k] ELSE s[k + 1]
<1> DEFINE a == SubSeq(s, 1, i - 1)
           c == SubSeq(s, i + 1, Len(s))
<1>1. a \in Seq(T) /\ Len(a) = i - 1 /\ \A k \in 1..(i - 1) : a[k] = s[k]
  OBVIOUS
<1>2. c \in Seq(T) /\ Len(c) = Len(s) - i /\ \A k \in 1..Len(c) : c[k] = s[i + k]
  OBVIOUS
<1>3. Without(s, i) = a \o c
  BY DEF Without
<1> HIDE DEF a, c
<1>4. /\ a \o c \in Seq(T) /\ Len(a \o c) = Len(a) + Len(c)
      /\ \A k \in 1..Len(a) : (a \o c)[k] = a[k]
      /\ \A k \in 1..Len(c) : (a \o c)[Len(a) + k] = c[k]
  <2>1. a \in Seq(T) /\ c \in Seq(T)
    BY <1>1, <1>2
  <2> QED BY ONLY <2>1, Concatenation
<1>5. Len(s) \in Nat /\ i \in Nat
  OBVIOUS
<1>6. Len(a \o c) = Len(s) - 1
  BY ONLY <1>1, <1>2, <1>4, <1>5
<1>7. ASSUME NEW k \in 1..(Len(s) - 1) PROVE (a \o c)[k] = IF k < i THEN s[k] ELSE s[k + 1]
  <2>1. CASE k < i
    BY <1>1, <1>4, <2>1
  <2>2. CASE ~(k < i)
    <3> DEFINE l == k - (i - 1)
    <3>1. l \in 1..Len(c) /\ Len(a) + l = k /\ i + l = k + 1
      BY <1>1, <1>2, <1>5, <2>2
    <3> HIDE DEF l
    <3>2. (a \o c)[k] = c[l] /\ c[l] = s[k + 1]
      BY Zenon, <1>2, <1>4, <3>1
    <3> QED BY <2>2, <3>2
  <2> QED BY Zenon, <2>1, <2>2
<1> QED BY <1>3, <1>4, <1>6, <1>7


\* Sizes and addresses of the pieces of a block.
LEMMA Pieces ==
  ASSUME NEW b, WellFormed(b), NEW n \in Nat \ {0}, b.size >= Needed(n), NEW u,
         u.addr = b.addr, u.asked = n
  PROVE  /\ u.size = b.size => WellFormed(u) /\ End(u) = End(b)
         /\ u.size = Needed(n) => WellFormed(u) /\ End(u) = b.addr + Needed(n)
<1>1. Needed(n) \in Nat /\ Needed(n) >= HEADER_SIZE + n /\ HEADER_SIZE = 24
  BY NeededIs DEF HEADER_SIZE
<1>2. b.addr \in Nat /\ b.size \in Nat /\ b.addr + b.size <= HEAP_SIZE /\ HEAP_SIZE \in Nat
      /\ b.addr \in 0..(HEAP_SIZE - 1) /\ b.size \in 1..HEAP_SIZE /\ b.addr % KMALLOC_ALIGN = 0
  BY Interval, KmmAssumption DEF WellFormed
<1> QED BY <1>1, <1>2 DEF WellFormed, End

\* The rest of a block that was split.
LEMMA Remainder ==
  ASSUME NEW b, WellFormed(b), NEW n \in Nat \ {0}, b.size >= Needed(n),
         b.size - Needed(n) >= MIN_BLOCK_SIZE, NEW v,
         v.addr = b.addr + Needed(n), v.size = b.size - Needed(n), v.asked = 0
  PROVE  WellFormed(v) /\ End(v) = End(b)
<1>1. Needed(n) \in Nat /\ HEADER_SIZE = 24 /\ MIN_BLOCK_SIZE = 64
  BY NeededIs DEF HEADER_SIZE, MIN_BLOCK_SIZE
<1>2. b.addr \in Nat /\ b.size \in Nat /\ b.addr + b.size <= HEAP_SIZE /\ HEAP_SIZE \in Nat
  BY Interval, KmmAssumption DEF WellFormed
<1>3. (b.addr + Needed(n)) % KMALLOC_ALIGN = 0
  <2> DEFINE x == b.addr
             y == Needed(n)
  <2>1. x \in Nat /\ y \in Nat /\ x % 8 = 0 /\ y % 8 = 0
    BY <1>1, <1>2, NeededIs DEF WellFormed, KMALLOC_ALIGN
  <2> HIDE DEF x, y
  <2>2. (x + y) % 8 = 0
    BY <2>1
  <2> QED BY <2>2 DEF x, y, KMALLOC_ALIGN
<1> QED BY <1>1, <1>2, <1>3 DEF WellFormed, End

\* kmalloc(n) keeps the invariant, whether or not it splits the block.
LEMMA KmallocStep ==
  ASSUME KmmInv, NEW n \in Sizes, Kmalloc(n)
  PROVE  KmmInv'
<1>n. n \in Nat \ {0} /\ Needed(n) \in Nat
  BY KmmAssumption, NeededIs
<1>0. /\ Blocks = used \union FreeBlocks(free) /\ Tiles(Blocks)
      /\ DOMAIN free = 1..Len(free) /\ Len(free) \in Nat
      /\ \A k \in 1..Len(free) :
           /\ free[k] \in Entries /\ free[k].addr \in Nat /\ free[k].size \in Nat
           /\ Fr(free[k]) \in FreeBlocks(free) /\ Fr(free[k]) \notin used /\ WellFormed(Fr(free[k]))
  BY ListBlocks
<1>1. PICK i \in 1..Len(free) :
        LET b == free[i]
            remainder == b.size - Needed(n)
            split == remainder >= MIN_BLOCK_SIZE
        IN /\ b.size >= Needed(n)
           /\ free' = IF split
                      THEN [free EXCEPT ![i] = [addr |-> b.addr + Needed(n), size |-> remainder]]
                      ELSE Without(free, i)
           /\ used' = used \union {[addr |-> b.addr, asked |-> n,
                                    size |-> IF split THEN Needed(n) ELSE b.size]}
  BY Zenon DEF Kmalloc
<1> DEFINE b == free[i]
           remainder == b.size - Needed(n)
           split == remainder >= MIN_BLOCK_SIZE
           size == IF split THEN Needed(n) ELSE b.size
           u == [addr |-> b.addr, asked |-> n, size |-> size]
           e == [addr |-> b.addr + Needed(n), size |-> remainder]
<1>2. /\ b.size >= Needed(n) /\ used' = used \union {u}
      /\ free' = IF split THEN [free EXCEPT ![i] = e] ELSE Without(free, i)
  BY <1>1
<1>3. b \in Entries /\ b.addr \in Nat /\ b.size \in Nat /\ Fr(b) \in Blocks /\ WellFormed(Fr(b))
  BY <1>0
<1>4. Fr(b).addr = b.addr /\ Fr(b).size = b.size /\ End(Fr(b)) = End(b) /\ End(b) = b.addr + b.size
  BY <1>3, FrFields DEF End
<1>5. size \in Nat /\ remainder \in Nat /\ e \in Entries
  BY <1>n, <1>2, <1>3 DEF Entries
<1>6. u.addr = b.addr /\ u.asked = n /\ u.size = size /\ u \in [addr : Nat, size : Nat, asked : Nat \ {0}]
  BY <1>n, <1>3, <1>5
<1>7. WellFormed(u) /\ (split => End(u) = b.addr + Needed(n)) /\ (~split => End(u) = End(b))
  <2> HIDE DEF b, u
  <2>1. Fr(b).size >= Needed(n) /\ u.addr = Fr(b).addr
    BY <1>2, <1>4, <1>6
  <2>2. /\ u.size = Fr(b).size => WellFormed(u) /\ End(u) = End(Fr(b))
        /\ u.size = Needed(n) => WellFormed(u) /\ End(u) = Fr(b).addr + Needed(n)
    BY <1>n, <1>3, <1>6, <2>1, Pieces
  <2> QED BY <1>4, <1>6, <2>2
<1>8. used' \in SUBSET [addr : Nat, size : Nat, asked : Nat \ {0}]
  BY <1>2, <1>6 DEF KmmInv
<1>9. {Fr(free[k]) : k \in DOMAIN free \ {i}} = FreeBlocks(free) \ {Fr(b)}
  <2>1. {i} \in SUBSET DOMAIN free
    BY <1>0
  <2>2. {Fr(free[k]) : k \in DOMAIN free \ {i}} = FreeBlocks(free) \ {Fr(free[k]) : k \in {i}}
    BY Zenon, <2>1, BlocksWithout DEF KmmInv
  <2> QED BY <2>2
<1>10. \A k, l \in 1..Len(free) : k < l => End(free[k]) < free[l].addr
  BY Zenon, <1>0 DEF KmmInv, Apart
<1>11. ASSUME split PROVE KmmInv'
  <2> DEFINE v == Fr(e)
  <2>1. v.addr = b.addr + Needed(n) /\ v.size = remainder /\ v.asked = 0 /\ End(v) = End(e)
    BY <1>5, FrFields
  <2>2. WellFormed(v) /\ End(v) = End(b)
    <3> HIDE DEF b, v, e
    <3>1. /\ v.addr = Fr(b).addr + Needed(n) /\ v.size = Fr(b).size - Needed(n)
          /\ Fr(b).size >= Needed(n) /\ Fr(b).size - Needed(n) >= MIN_BLOCK_SIZE
      BY <1>2, <1>4, <1>11, <2>1
    <3>2. WellFormed(v) /\ End(v) = End(Fr(b))
      BY <1>n, <1>3, <2>1, <3>1, Remainder
    <3> QED BY <1>4, <3>2
  <2>3. free' = [free EXCEPT ![i] = e]
    BY <1>2, <1>11
  <2> HIDE DEF e, b, u, split
  <2>4. /\ free' \in Seq(Entries) /\ Len(free') = Len(free) /\ DOMAIN free' = DOMAIN free
        /\ free'[i] = e /\ \A k \in 1..Len(free) : k # i => free'[k] = free[k]
    BY <1>0, <1>5, <2>3 DEF KmmInv
  <2>5. FreeBlocks(free') = {Fr(free[k]) : k \in DOMAIN free \ {i}} \union {v}
    BY Zenon, <1>0, <2>4 DEF FreeBlocks
  <2> HIDE DEF v
  <2>6. Blocks' = (Blocks \ {Fr(b)}) \union {u, v}
    <3>1. Blocks' = used' \union FreeBlocks(free')
      BY DEF Blocks, FreeBlocks, Fr
    <3>2. Fr(b) \notin used
      BY <1>0 DEF b
    <3> QED BY <1>0, <1>2, <1>9, <2>5, <3>1, <3>2
  <2>7. Tiles(Blocks')
    <3>1. u.addr = Fr(b).addr /\ End(v) = End(Fr(b)) /\ End(u) = v.addr
      BY <1>4, <1>6, <1>7, <1>11, <2>1, <2>2
    <3>2. Tiles((Blocks \ {Fr(b)}) \union {u, v})
      BY <1>0, <1>3, <1>7, <2>2, <3>1, Split
    <3> QED BY <2>6, <3>2
  <2>8. Apart(free')
    <3>1. e.addr \in Nat /\ e.addr >= b.addr /\ End(e) = End(b)
      BY <1>n, <1>3, <2>1, <2>2 DEF e
    <3>2. b.addr \in Nat /\ \A k \in 1..Len(free) : End(free[k]) \in Nat
      BY <1>0, <1>3 DEF End
    <3> SUFFICES ASSUME NEW k \in 1..Len(free), NEW l \in 1..Len(free), k < l
                 PROVE  End(free'[k]) < free'[l].addr
      BY Zenon, <1>0, <2>4 DEF Apart
    <3>3. CASE k = i
      BY <1>10, <2>4, <3>1, <3>3 DEF b
    <3>4. CASE l = i
      BY <1>10, <2>4, <3>1, <3>2, <3>4 DEF b
    <3>5. CASE k # i /\ l # i
      BY <1>10, <2>4, <3>5
    <3> QED BY <3>3, <3>4, <3>5
  <2>9. TiledIsTiles'
    BY TiledMeansTiles, PTL
  <2> QED BY Zenon, <1>8, <2>4, <2>7, <2>8, <2>9 DEF KmmInv, TiledIsTiles
<1>12. ASSUME ~split PROVE KmmInv'
  <2>1. free' = Without(free, i)
    BY <1>2, <1>12
  <2> HIDE DEF b, u, split
  <2>2. /\ free' \in Seq(Entries) /\ Len(free') = Len(free) - 1
        /\ \A k \in 1..(Len(free) - 1) : free'[k] = IF k < i THEN free[k] ELSE free[k + 1]
    BY Zenon, <2>1, Removed DEF KmmInv
  <2>3. DOMAIN free' = 1..(Len(free) - 1)
    BY <2>2
  <2>4. FreeBlocks(free') = {Fr(free[k]) : k \in DOMAIN free \ {i}}
    <3>1. ASSUME NEW k \in DOMAIN free' PROVE \E l \in DOMAIN free \ {i} : free'[k] = free[l]
      <4>1. CASE k < i
        <5>1. k \in DOMAIN free \ {i} /\ free'[k] = free[k]
          BY <1>0, <2>2, <2>3, <4>1
        <5> QED BY <5>1
      <4>2. CASE ~(k < i)
        <5>1. k + 1 \in DOMAIN free \ {i} /\ free'[k] = free[k + 1]
          BY <1>0, <2>2, <2>3, <4>2
        <5> QED BY <5>1
      <4> QED BY <4>1, <4>2
    <3>2. ASSUME NEW l \in DOMAIN free \ {i} PROVE \E k \in DOMAIN free' : free'[k] = free[l]
      <4>1. CASE l < i
        <5>1. l \in DOMAIN free' /\ free'[l] = free[l]
          BY <1>0, <2>2, <2>3, <4>1
        <5> QED BY <5>1
      <4>2. CASE ~(l < i)
        <5>1. l - 1 \in DOMAIN free' /\ ~(l - 1 < i) /\ (l - 1) + 1 = l
          BY <1>0, <2>3, <4>2
        <5>2. free'[l - 1] = free[l]
          BY <2>2, <2>3, <5>1
        <5> QED BY <5>1, <5>2
      <4> QED BY <4>1, <4>2
    <3> QED BY <3>1, <3>2 DEF FreeBlocks
  <2>5. Blocks' = (Blocks \ {Fr(b)}) \union {u, u}
    <3>1. Blocks' = used' \union FreeBlocks(free')
      BY DEF Blocks, FreeBlocks, Fr
    <3>2. Fr(b) \notin used
      BY <1>0 DEF b
    <3> QED BY <1>0, <1>2, <1>9, <2>4, <3>1, <3>2
  <2>6. Tiles(Blocks')
    <3>1. u.addr = Fr(b).addr /\ End(u) = End(Fr(b))
      BY <1>4, <1>6, <1>7, <1>12
    <3>2. Tiles((Blocks \ {Fr(b)}) \union {u, u})
      BY <1>0, <1>3, <1>7, <3>1, Split
    <3> QED BY <2>5, <3>2
  <2>7. Apart(free')
    <3> SUFFICES ASSUME NEW k \in 1..(Len(free) - 1), NEW l \in 1..(Len(free) - 1), k < l
                 PROVE  End(free'[k]) < free'[l].addr
      BY Zenon, <2>3 DEF Apart
    <3> DEFINE k2 == IF k < i THEN k ELSE k + 1
               l2 == IF l < i THEN l ELSE l + 1
    <3>1. k2 \in 1..Len(free) /\ l2 \in 1..Len(free) /\ k2 < l2
      BY <1>0
    <3>2. free'[k] = free[k2] /\ free'[l] = free[l2]
      BY <2>2
    <3> HIDE DEF k2, l2
    <3> QED BY <1>10, <3>1, <3>2
  <2>8. TiledIsTiles'
    BY TiledMeansTiles, PTL
  <2> QED BY Zenon, <1>8, <2>2, <2>6, <2>7, <2>8 DEF KmmInv, TiledIsTiles
<1> QED BY <1>11, <1>12


\* The number of free blocks that come before b, as Kfree computes it.
Place(b) ==
  LET after == {j \in 1..Len(free) : free[j].addr >= b.addr}
  IN IF after # {} THEN Min(after) - 1 ELSE Len(free)

\* The free blocks up to there end at or before b, the others begin after it.
LEMMA PlaceIs ==
  ASSUME KmmInv, NEW b \in used
  PROVE  /\ Place(b) \in 0..Len(free)
         /\ \A k \in 1..Place(b) : End(free[k]) <= b.addr
         /\ \A k \in (Place(b) + 1)..Len(free) : End(b) <= free[k].addr
<1> DEFINE I == {j \in 1..Len(free) : free[j].addr >= b.addr}
           i == Place(b)
<1>0. /\ Blocks = used \union FreeBlocks(free) /\ Tiles(Blocks) /\ Len(free) \in Nat
      /\ WellFormed(b) /\ b \notin FreeBlocks(free)
      /\ DOMAIN free = 1..Len(free)
      /\ \A k \in 1..Len(free) :
           /\ free[k] \in Entries /\ free[k].addr \in Nat /\ free[k].size \in Nat
           /\ Fr(free[k]) \in FreeBlocks(free) /\ WellFormed(Fr(free[k]))
  BY ListBlocks
<1>1. b.addr \in Nat /\ End(b) \in Nat /\ b.addr < End(b)
  BY <1>0, Interval
<1>2. ASSUME NEW k \in 1..Len(free), NEW l \in 1..Len(free), k < l PROVE free[k].addr < free[l].addr
  <2>1. End(free[k]) < free[l].addr /\ End(free[k]) = free[k].addr + free[k].size
    BY Zenon, <1>0, <1>2 DEF KmmInv, Apart, End
  <2>2. free[k].addr \in Nat /\ free[k].size \in Nat /\ free[l].addr \in Nat
    BY <1>0
  <2> QED BY <2>1, <2>2
<1>3. /\ i \in 0..Len(free)
      /\ \A k \in 1..i : free[k].addr < b.addr
      /\ \A k \in (i + 1)..Len(free) : free[k].addr >= b.addr
  <2>1. CASE I = {}
    <3>1. i = Len(free)
      BY <2>1 DEF Place
    <3>2. \A k \in 1..Len(free) : ~(free[k].addr >= b.addr)
      BY <2>1
    <3> HIDE DEF i, I
    <3> QED BY <1>0, <1>1, <3>1, <3>2
  <2>2. CASE I # {}
    <3>2. i = Min(I) - 1
      BY <2>2 DEF Place
    <3>3. I \in SUBSET Nat
      OBVIOUS
    <3> HIDE DEF i
    <3>4. Min(I) \in I /\ \A k \in I : Min(I) <= k
      BY Zenon, <2>2, <3>3, LeastNat
    <3> DEFINE m == Min(I)
    <3>5. m \in 1..Len(free) /\ free[m].addr >= b.addr
      BY <3>4
    <3>6. \A k \in 1..Len(free) : free[k].addr >= b.addr => m <= k
      BY <3>4
    <3>7. i = m - 1
      BY <3>2
    <3> HIDE DEF m, I
    <3>8. i \in 0..Len(free) /\ i + 1 = m
      BY <1>0, <3>5, <3>7
    <3>9. ASSUME NEW k \in 1..i PROVE free[k].addr < b.addr
      <4>1. k \in 1..Len(free) /\ ~(m <= k)
        BY <1>0, <3>5, <3>8
      <4> QED BY <1>0, <1>1, <3>6, <4>1
    <3>10. ASSUME NEW k \in (i + 1)..Len(free) PROVE free[k].addr >= b.addr
      <4>1. k \in 1..Len(free) /\ (k = m \/ m < k)
        BY <1>0, <3>5, <3>8
      <4>2. m < k => free[m].addr < free[k].addr
        BY <1>2, <3>5, <4>1
      <4> QED BY <1>0, <1>1, <3>5, <4>1, <4>2
    <3> QED BY <3>8, <3>9, <3>10
  <2> QED BY <2>1, <2>2
<1> HIDE DEF i
<1>4. ASSUME NEW k \in 1..Len(free)
      PROVE  /\ End(free[k]) <= b.addr \/ End(b) <= free[k].addr
             /\ free[k].addr < End(free[k]) /\ End(free[k]) \in Nat /\ free[k].addr \in Nat
  <2> DEFINE c == Fr(free[k])
  <2>1. c \in Blocks /\ b \in Blocks /\ c # b /\ WellFormed(c)
    BY <1>0
  <2>2. c.addr = free[k].addr /\ End(c) = End(free[k])
    BY <1>0, FrFields
  <2> HIDE DEF c
  <2>3. End(c) <= b.addr \/ End(b) <= c.addr
    BY <1>0, <2>1 DEF Tiles, Disjoint
  <2>4. c.addr \in Nat /\ End(c) \in Nat /\ c.addr < End(c)
    BY <2>1, Interval
  <2> QED BY <2>2, <2>3, <2>4
<1>5. ASSUME NEW k \in 1..i PROVE End(free[k]) <= b.addr
  <2>1. k \in 1..Len(free) /\ free[k].addr < b.addr
    BY <1>0, <1>3
  <2> QED BY <1>1, <1>4, <2>1
<1>6. ASSUME NEW k \in (i + 1)..Len(free) PROVE End(b) <= free[k].addr
  <2>1. k \in 1..Len(free) /\ free[k].addr >= b.addr
    BY <1>0, <1>3
  <2> QED BY <1>1, <1>4, <2>1
<1> QED BY <1>3, <1>5, <1>6 DEF i

\* Two neighbours make a well-formed block.
LEMMA Joined ==
  ASSUME NEW b, NEW c, WellFormed(b), WellFormed(c), b.asked = 0, End(b) = c.addr,
         NEW u, u.addr = b.addr, u.size = b.size + c.size, u.asked = 0
  PROVE  WellFormed(u) /\ End(u) = End(c)
<1>1. /\ b.addr \in Nat /\ b.size \in Nat /\ c.addr \in Nat /\ c.size \in Nat /\ HEAP_SIZE \in Nat
      /\ c.addr = b.addr + b.size /\ End(c) = c.addr + c.size
      /\ b.addr \in 0..(HEAP_SIZE - 1) /\ b.addr % KMALLOC_ALIGN = 0
  BY Interval, KmmAssumption DEF WellFormed
<1>2. End(c) <= HEAP_SIZE /\ b.size \in 1..HEAP_SIZE /\ c.size \in 1..HEAP_SIZE /\ c.size >= 24 + c.asked
  BY DEF WellFormed, HEADER_SIZE
<1>3. End(u) = b.addr + (b.size + c.size)
  BY DEF End
<1>4. b.size >= 24
  BY <1>1, <1>2 DEF WellFormed, HEADER_SIZE
<1>5. End(u) = End(c) /\ u.size \in 1..HEAP_SIZE /\ u.size >= 24 + 0
  BY <1>1, <1>2, <1>3, <1>4
<1> QED BY <1>1, <1>2, <1>5 DEF WellFormed, HEADER_SIZE


\* kfree keeps the invariant: the block becomes free, is joined to the free
\* block after it and then to the one before it.
LEMMA KfreeStep ==
  ASSUME KmmInv, NEW b \in used, Kfree(b)
  PROVE  KmmInv'
<1> DEFINE L == Len(free)
           F == FreeBlocks(free)
           U == used \ {b}
           i == Place(b)
           joinsNext == i < L /\ End(b) = free[i + 1].addr
           joinsPrev == i > 0 /\ End(free[i]) = b.addr
           size == b.size + (IF joinsNext THEN free[i + 1].size ELSE 0)
           h == IF joinsPrev THEN i - 1 ELSE i
           t == IF joinsNext THEN i + 2 ELSE i + 1
           block == IF joinsPrev
                    THEN [addr |-> free[i].addr, size |-> free[i].size + size]
                    ELSE [addr |-> b.addr, size |-> size]
           mid == [addr |-> b.addr, size |-> size]
           N == IF joinsNext THEN {Fr(free[i + 1])} ELSE {}
           P == IF joinsPrev THEN {Fr(free[i])} ELSE {}
<1>1. free' = Spliced(free, h, block, t) /\ used' = U
  BY Zenon DEF Kfree, Spliced, Place
<1>2. /\ Blocks = used \union F /\ Tiles(Blocks) /\ L \in Nat /\ DOMAIN free = 1..L
      /\ b.addr \in Nat /\ b.size \in Nat /\ b.asked \in Nat \ {0} /\ WellFormed(b) /\ b \notin F
      /\ \A k \in 1..L :
           /\ free[k] \in Entries /\ free[k].addr \in Nat /\ free[k].size \in Nat
           /\ Fr(free[k]) \in F /\ Fr(free[k]) \notin used /\ WellFormed(Fr(free[k]))
  BY ListBlocks
<1>3. /\ i \in 0..L
      /\ \A k \in 1..i : End(free[k]) <= b.addr
      /\ \A k \in (i + 1)..L : End(b) <= free[k].addr
  BY PlaceIs
<1>4. \A k, l \in 1..L : k < l => End(free[k]) < free[l].addr
  BY Zenon, <1>2 DEF KmmInv, Apart
<1> HIDE DEF i, L, F
<1>5. End(b) = b.addr + b.size /\ \A k \in 1..L : End(free[k]) = free[k].addr + free[k].size
  BY DEF End
<1>6. joinsNext => i + 1 \in 1..L
  BY <1>2, <1>3
<1>7. joinsPrev => i \in 1..L
  BY <1>2, <1>3
<1>8. h \in 0..L /\ t \in (h + 1)..(L + 1)
  BY <1>2, <1>3
<1>9. size \in Nat /\ mid \in Entries /\ block \in Entries
  <2>1. size \in Nat
    BY <1>2, <1>6
  <2> HIDE DEF size
  <2>2. mid \in Entries
    BY <1>2, <2>1 DEF Entries
  <2>3. block \in Entries
    BY <1>2, <1>7, <2>1 DEF Entries
  <2> QED BY <2>1, <2>2, <2>3
\* where the new block is, and what surrounds it
<1>10. /\ mid.addr = b.addr /\ mid.size = size
       /\ joinsPrev => block.addr = free[i].addr /\ block.size = free[i].size + size
       /\ ~joinsPrev => block = mid
       /\ End(mid) = b.addr + size
       /\ End(block) = End(mid)
  <2>1. mid.addr = b.addr /\ mid.size = size
    OBVIOUS
  <2>2. joinsPrev => block.addr = free[i].addr /\ block.size = free[i].size + size
    OBVIOUS
  <2>3. ~joinsPrev => block = mid
    OBVIOUS
  <2>4. End(mid) = b.addr + size
    BY DEF End
  <2>5. joinsPrev => free[i].addr + free[i].size = b.addr /\ free[i].addr \in Nat /\ free[i].size \in Nat
    BY <1>2, <1>5, <1>7
  <2>6. End(block) = block.addr + block.size
    BY DEF End
  <2> HIDE DEF block, mid, size
  <2>7. End(block) = End(mid)
    <3>1. CASE ~joinsPrev
      BY <2>3, <3>1
    <3>2. CASE joinsPrev
      <4> DEFINE x == free[i].addr
                 y == free[i].size
      <4>1. /\ x \in Nat /\ y \in Nat /\ x + y = b.addr /\ size \in Nat
            /\ End(block) = x + (y + size) /\ End(mid) = b.addr + size
        BY <1>9, <2>2, <2>4, <2>5, <2>6, <3>2
      <4> HIDE DEF x, y, joinsPrev
      <4> QED BY ONLY <4>1
    <3> QED BY <3>1, <3>2
  <2> QED BY <2>1, <2>2, <2>3, <2>4, <2>7
<1>11. Apart(free')
  <2>1. ASSUME NEW k \in 1..h PROVE End(free[k]) < block.addr
    <3>1. k \in 1..L /\ k \in 1..i /\ End(free[k]) \in Nat
      BY <1>2, <1>3, <1>5
    <3>2. CASE joinsPrev
      <4>1. k < i
        BY <1>2, <1>3, <3>2
      <4> QED BY <1>4, <1>7, <1>10, <3>1, <3>2, <4>1
    <3>3. CASE ~joinsPrev
      <4>1. End(free[k]) <= b.addr
        BY <1>3, <3>1
      <4>2. k = i => End(free[k]) # b.addr
        BY <1>3, <3>1, <3>3
      <4>3. k # i => End(free[k]) < b.addr
        <5>1. ASSUME k # i PROVE End(free[k]) < b.addr
          <6>1. i \in 1..L /\ k < i /\ i \in 1..i
            BY <1>2, <1>3, <3>1, <5>1
          <6>2. End(free[k]) < free[i].addr /\ End(free[i]) <= b.addr
            BY <1>3, <1>4, <3>1, <6>1
          <6>3. free[i].addr \in Nat /\ free[i].size \in Nat /\ End(free[i]) = free[i].addr + free[i].size
            BY <1>2, <1>5, <6>1
          <6>4. b.addr \in Nat /\ End(free[k]) \in Nat
            BY <1>2, <3>1
          <6> QED BY ONLY <6>2, <6>3, <6>4
        <5> QED BY <5>1
      <4> QED BY <1>2, <1>10, <3>1, <3>3, <4>1, <4>2, <4>3
    <3> QED BY <3>2, <3>3
  <2>2. ASSUME NEW k \in t..L PROVE End(block) < free[k].addr
    <3>1. k \in 1..L /\ k \in (i + 1)..L /\ free[k].addr \in Nat
      BY <1>2, <1>3
    <3>2. CASE joinsNext
      <4>1. i + 1 \in 1..L /\ i + 1 < k
        BY <1>2, <1>3, <1>6, <3>2
      <4>2. End(free[i + 1]) < free[k].addr
        BY <1>4, <3>1, <4>1
      <4>3. End(mid) = End(free[i + 1])
        <5>1. /\ free[i + 1].addr \in Nat /\ free[i + 1].size \in Nat
              /\ End(free[i + 1]) = free[i + 1].addr + free[i + 1].size
          BY <1>2, <1>5, <4>1
        <5>2. b.addr \in Nat /\ b.size \in Nat /\ free[i + 1].addr = b.addr + b.size
          BY <1>2, <1>5, <3>2
        <5>3. End(mid) = b.addr + (b.size + free[i + 1].size)
          BY <1>10, <3>2
        <5> QED BY ONLY <5>1, <5>2, <5>3
      <4> QED BY <1>10, <4>2, <4>3
    <3>3. CASE ~joinsNext
      <4>1. End(b) <= free[k].addr /\ End(mid) = End(b)
        BY <1>2, <1>3, <1>5, <1>10, <3>1, <3>3
      <4>2. k = i + 1 => End(b) # free[k].addr
        BY <1>2, <1>3, <3>1, <3>3
      <4>3. ASSUME k # i + 1 PROVE End(b) < free[k].addr
        <5>1. i + 1 \in 1..L /\ i + 1 < k /\ i + 1 \in (i + 1)..L
          BY <1>2, <1>3, <3>1, <4>3
        <5>2. End(free[i + 1]) < free[k].addr /\ End(b) <= free[i + 1].addr
          BY <1>3, <1>4, <3>1, <5>1
        <5>3. /\ free[i + 1].addr \in Nat /\ free[i + 1].size \in Nat
              /\ End(free[i + 1]) = free[i + 1].addr + free[i + 1].size
          BY <1>2, <1>5, <5>1
        <5>4. End(b) \in Nat /\ free[k].addr \in Nat
          BY <1>2, <1>5, <3>1
        <5> QED BY ONLY <5>2, <5>3, <5>4
      <4>4. End(b) \in Nat /\ End(block) = End(b)
        BY <1>2, <1>5, <1>10, <4>1
      <4>5. End(b) < free[k].addr
        <5>1. CASE k = i + 1
          BY ONLY <3>1, <4>1, <4>2, <4>4, <5>1
        <5>2. CASE k # i + 1
          BY <4>3, <5>2
        <5> QED BY <5>1, <5>2
      <4> QED BY <4>4, <4>5
    <3> QED BY <3>2, <3>3
  <2> HIDE DEF block, h, t
  <2>3. Apart(Spliced(free, h, block, t))
    BY <1>8, <1>9, <2>1, <2>2, SpliceApart DEF KmmInv, L
  <2> QED BY <1>1, <2>3

<1>12. FreeBlocks(free') = ((F \ N) \ P) \union {Fr(block)}
  <2> DEFINE K == {k \in 1..L : (joinsPrev /\ k = i) \/ (joinsNext /\ k = i + 1)}
  <2>1. (1..h) \union (t..L) = DOMAIN free \ K
    <3>1. (joinsPrev => i > 0) /\ (joinsNext => i < L)
      OBVIOUS
    <3> HIDE DEF joinsPrev, joinsNext
    <3> QED BY <1>2, <1>3, <3>1
  <2>2. {Fr(free[k]) : k \in K} = N \union P
    BY <1>6, <1>7
  <2>3. K \in SUBSET DOMAIN free
    BY <1>2
  <2> HIDE DEF block, h, t, K, N, P
  <2>4. FreeBlocks(Spliced(free, h, block, t)) = {Fr(free[k]) : k \in (1..h) \union (t..L)} \union {Fr(block)}
    BY <1>8, <1>9, SpliceBlocks DEF KmmInv, L
  <2>5. {Fr(free[k]) : k \in DOMAIN free \ K} = F \ {Fr(free[k]) : k \in K}
    BY Zenon, <2>3, BlocksWithout DEF KmmInv, F
  <2> QED BY <1>1, <2>1, <2>2, <2>4, <2>5
\* no free block begins where b does, so Fr(b) and Fr(mid) are new
<1>13. \A k \in 1..L : free[k].addr # b.addr
  <2> SUFFICES ASSUME NEW k \in 1..L PROVE free[k].addr # b.addr
    OBVIOUS
  <2>1. Fr(free[k]).addr = free[k].addr /\ End(Fr(free[k])) = End(free[k]) /\ WellFormed(Fr(free[k]))
    BY <1>2, FrFields
  <2>2. free[k].addr < End(free[k]) /\ b.addr < End(b) /\ End(free[k]) \in Nat /\ End(b) \in Nat
    BY <1>2, <2>1, Interval
  <2>3. k \in 1..i \/ k \in (i + 1)..L
    BY <1>2, <1>3
  <2> QED BY <1>2, <1>3, <2>2, <2>3
<1>14. /\ Fr(b).addr = b.addr /\ Fr(b).size = b.size /\ Fr(b).asked = 0
       /\ Fr(mid).addr = b.addr /\ Fr(mid).size = size /\ Fr(mid).asked = 0 /\ End(Fr(mid)) = End(mid)
       /\ Fr(block).addr = block.addr /\ Fr(block).size = block.size /\ Fr(block).asked = 0
       /\ End(Fr(b)) = End(b)
  <2>1. Fr(b).addr = b.addr /\ Fr(b).size = b.size /\ Fr(b).asked = 0 /\ End(Fr(b)) = End(b)
    BY DEF Fr, End
  <2> HIDE DEF mid, block
  <2> QED BY <1>9, <1>10, <2>1, FrFields
<1>15. \A x : x.asked = 0 => x \notin used
  BY DEF KmmInv
<1>16. \A x : x.addr = b.addr => x \notin F
  <2> SUFFICES ASSUME NEW x \in F PROVE x.addr # b.addr
    OBVIOUS
  <2>1. PICK k \in 1..L : x = Fr(free[k])
    BY <1>2 DEF F, FreeBlocks
  <2>2. x.addr = free[k].addr
    BY <1>2, <2>1, FrFields
  <2> QED BY <1>13, <2>2
<1> HIDE DEF mid, block, size
\* b becomes free
<1>17. WellFormed(Fr(b)) /\ Tiles((U \union F) \union {Fr(b)})
  <2>1. WellFormed(Fr(b))
    <3> DEFINE f == Fr(b)
    <3>1. f.addr = b.addr /\ f.size = b.size /\ f.asked = 0 /\ End(f) = End(b)
      BY <1>14
    <3> HIDE DEF f
    <3>2. WellFormed(f)
      BY <1>2, <3>1 DEF WellFormed, HEADER_SIZE
    <3> QED BY <3>2 DEF f
  <2>2. b \in Blocks
    BY <1>2
  <2>3. Tiles((Blocks \ {b}) \union {Fr(b), Fr(b)})
    BY <1>2, <1>14, <2>1, <2>2, Split
  <2>4. (Blocks \ {b}) \union {Fr(b), Fr(b)} = (U \union F) \union {Fr(b)}
    BY <1>2
  <2> QED BY <2>1, <2>3, <2>4
\* it is joined to the block after it
<1>18. WellFormed(Fr(mid)) /\ Tiles((U \union (F \ N)) \union {Fr(mid)})
  <2>1. CASE joinsNext
    <3> DEFINE n == Fr(free[i + 1])
               B == (U \union F) \union {Fr(b)}
    <3>1. /\ n \in F /\ n \notin used /\ WellFormed(n) /\ n.addr = free[i + 1].addr
          /\ n.size = free[i + 1].size /\ N = {n}
      BY <1>2, <1>6, <2>1, FrFields
    <3>2. Fr(mid).size = Fr(b).size + n.size
      BY <1>14, <2>1, <3>1 DEF size
    <3>3. End(Fr(b)) = n.addr
      BY <1>14, <2>1, <3>1
    <3> HIDE DEF n
    <3>4. WellFormed(Fr(mid)) /\ End(Fr(mid)) = End(n)
      BY <1>14, <1>17, <3>1, <3>2, <3>3, Joined
    <3>5. Tiles((B \ {Fr(b), n}) \union {Fr(mid)})
      <4>1. Fr(b) \in B /\ n \in B /\ Fr(mid).addr = Fr(b).addr
        BY <1>14, <3>1
      <4> HIDE DEF B
      <4> QED BY <1>17, <3>3, <3>4, <4>1, Join DEF B
    <3>6. (B \ {Fr(b), n}) \union {Fr(mid)} = (U \union (F \ N)) \union {Fr(mid)}
      <4>1. Fr(b) \notin used /\ Fr(b) \notin F
        BY <1>14, <1>15, <1>16
      <4> QED BY <3>1, <4>1
    <3> QED BY <3>4, <3>5, <3>6
  <2>2. CASE ~joinsNext
    <3>1. N = {} /\ Fr(mid) = Fr(b)
      <4>1. size = b.size
        BY <1>2, <2>2 DEF size
      <4> QED BY <1>10, <2>2, <4>1 DEF Fr
    <3>2. (U \union (F \ N)) \union {Fr(mid)} = (U \union F) \union {Fr(b)}
      BY <3>1
    <3> QED BY <1>17, <3>1, <3>2
  <2> QED BY <2>1, <2>2
\* and to the block before it
<1>19. Tiles((U \union ((F \ N) \ P)) \union {Fr(block)})
  <2>1. CASE joinsPrev
    <3> DEFINE p == Fr(free[i])
               B == (U \union (F \ N)) \union {Fr(mid)}
    <3>1. /\ p \in F /\ p \notin used /\ WellFormed(p) /\ p.addr = free[i].addr
          /\ p.size = free[i].size /\ p.asked = 0 /\ End(p) = End(free[i]) /\ P = {p}
      BY <1>2, <1>7, <2>1, FrFields
    <3>2. p \notin N
      <4>1. CASE joinsNext
        <5> DEFINE n == Fr(free[i + 1])
        <5>1. n.addr = free[i + 1].addr /\ N = {n}
          BY <1>2, <1>6, <4>1, FrFields
        <5>2. End(free[i]) < free[i + 1].addr /\ free[i + 1].addr \in Nat
          BY <1>2, <1>3, <1>4, <1>6, <1>7, <2>1, <4>1
        <5>3. p.addr < End(p) /\ p.addr \in Nat /\ End(p) \in Nat
          BY <3>1, Interval
        <5> HIDE DEF p, n
        <5> QED BY <3>1, <5>1, <5>2, <5>3
      <4>2. CASE ~joinsNext
        BY <4>2
      <4> QED BY <4>1, <4>2
    <3>3. End(p) = Fr(mid).addr
      BY <1>14, <2>1, <3>1
    <3>4. Fr(block).addr = p.addr /\ Fr(block).size = p.size + Fr(mid).size
      BY <1>10, <1>14, <2>1, <3>1
    <3> HIDE DEF p
    <3>5. WellFormed(Fr(block)) /\ End(Fr(block)) = End(Fr(mid))
      BY <1>14, <1>18, <3>1, <3>3, <3>4, Joined
    <3>6. Tiles((B \ {p, Fr(mid)}) \union {Fr(block)})
      <4>1. p \in B /\ Fr(mid) \in B
        BY <3>1, <3>2
      <4> HIDE DEF B
      <4> QED BY <1>18, <3>3, <3>4, <3>5, <4>1, Join DEF B
    <3>7. (B \ {p, Fr(mid)}) \union {Fr(block)} = (U \union ((F \ N) \ P)) \union {Fr(block)}
      <4>1. Fr(mid) \notin used /\ Fr(mid) \notin F
        BY <1>14, <1>15, <1>16
      <4> HIDE DEF N, P
      <4> QED BY <3>1, <4>1
    <3> QED BY <3>6, <3>7
  <2>2. CASE ~joinsPrev
    <3>1. P = {} /\ Fr(block) = Fr(mid)
      BY <1>10, <2>2
    <3>2. (U \union ((F \ N) \ P)) \union {Fr(block)} = (U \union (F \ N)) \union {Fr(mid)}
      BY <3>1
    <3> QED BY <1>18, <3>2
  <2> QED BY <2>1, <2>2
<1>20. Tiles(Blocks')
  <2>1. Blocks' = used' \union FreeBlocks(free')
    BY DEF Blocks, FreeBlocks, Fr
  <2> HIDE DEF N, P, U
  <2>2. Blocks' = (U \union ((F \ N) \ P)) \union {Fr(block)}
    BY <1>1, <1>12, <2>1
  <2> QED BY <1>19, <2>2
<1>21. free' \in Seq(Entries) /\ used' \in SUBSET [addr : Nat, size : Nat, asked : Nat \ {0}]
  <2> HIDE DEF h, t
  <2>1. Spliced(free, h, block, t) \in Seq(Entries)
    BY <1>8, <1>9, SpliceIs DEF KmmInv, L
  <2> QED BY <1>1, <2>1 DEF KmmInv
<1>22. TiledIsTiles'
  BY TiledMeansTiles, PTL
<1> QED BY Zenon, <1>11, <1>20, <1>21, <1>22 DEF KmmInv, TiledIsTiles


\* The heap as kmm::init leaves it.
LEMMA KmmStart ==
  ASSUME KmmInit
  PROVE  KmmInv
<1> DEFINE e == [addr |-> 0, size |-> HEAP_SIZE]
           u == Fr(e)
<1>1. HEAP_SIZE \in Nat /\ HEAP_SIZE >= 64 /\ e \in Entries
  BY KmmAssumption DEF MIN_BLOCK_SIZE, Entries
<1>2. free = <<e>> /\ used = {}
  BY DEF KmmInit
<1>3. u.addr = 0 /\ u.size = HEAP_SIZE /\ u.asked = 0 /\ End(u) = HEAP_SIZE
  BY <1>1 DEF Fr, End
<1>4. Blocks = {u}
  BY <1>2 DEF Blocks, Fr
<1> HIDE DEF u
<1>5. WellFormed(u)
  BY <1>1, <1>3 DEF WellFormed, KMALLOC_ALIGN, HEADER_SIZE
<1>6. Tiles({u})
  BY <1>3, <1>5 DEF Tiles, Disjoint, Followed
<1>7. free \in Seq(Entries) /\ Apart(free)
  BY <1>1, <1>2 DEF Apart
<1> QED BY <1>2, <1>4, <1>6, <1>7, TiledMeansTiles DEF KmmInv, TiledIsTiles

\* The invariant of the kernel heap, for every heap size.
THEOREM KmmInvariance == KmmSpec => []KmmInv
<1>1. KmmInit => KmmInv
  BY KmmStart
<1>2. KmmInv /\ [KmmNext]_kmmVars => KmmInv'
  <2> SUFFICES ASSUME KmmInv, [KmmNext]_kmmVars PROVE KmmInv'
    OBVIOUS
  <2>1. ASSUME NEW n \in Sizes, Kmalloc(n) PROVE KmmInv'
    BY <2>1, KmallocStep
  <2>2. ASSUME NEW b \in used, Kfree(b) PROVE KmmInv'
    BY <2>2, KfreeStep
  <2>3. CASE UNCHANGED kmmVars
    BY <2>3 DEF kmmVars, KmmInv, HeapTiled, KmmTypeOK, Blocks, Apart
  <2> QED BY <2>1, <2>2, <2>3 DEF KmmNext, KmallocFails
<1> QED BY <1>1, <1>2, PTL DEF KmmSpec

\* Whatever is allocated and freed in whatever order, the blocks of kmalloc and
\* those of the free list tile the heap: none overlap and no byte is lost.
THEOREM HeapIsTiled == KmmSpec => []HeapTiled
<1>1. KmmInv => HeapTiled
  BY DEF KmmInv
<1> QED BY <1>1, KmmInvariance, PTL

\* The free list is sorted, no two of its blocks touch, and once everything is
\* freed the heap is one block again.
THEOREM ListIsCoalesced == KmmSpec => []SortedAndCoalesced
<1>1. KmmInv => SortedAndCoalesced
  <2> SUFFICES ASSUME KmmInv PROVE SortedAndCoalesced
    OBVIOUS
  <2>0. /\ Blocks = used \union FreeBlocks(free) /\ Tiles(Blocks)
        /\ DOMAIN free = 1..Len(free) /\ Len(free) \in Nat
        /\ \A k \in 1..Len(free) :
             /\ free[k] \in Entries /\ free[k].addr \in Nat /\ free[k].size \in Nat
             /\ Fr(free[k]) \in FreeBlocks(free) /\ WellFormed(Fr(free[k]))
    BY ListBlocks
  <2>1. \A k, l \in 1..Len(free) : k < l => End(free[k]) < free[l].addr
    BY Zenon, <2>0 DEF KmmInv, Apart
  <2>2. \A k \in 1..(Len(free) - 1) : End(free[k]) < free[k + 1].addr
    BY <2>0, <2>1
  <2>3. ASSUME used = {} PROVE free = <<[addr |-> 0, size |-> HEAP_SIZE]>>
    <3>0. ASSUME NEW k \in 1..Len(free)
          PROVE  /\ free[k].addr \in Nat /\ End(free[k]) \in Nat /\ free[k].addr < End(free[k])
                 /\ End(free[k]) <= HEAP_SIZE /\ End(free[k]) = free[k].addr + free[k].size
      <4>1. Fr(free[k]).addr = free[k].addr /\ End(Fr(free[k])) = End(free[k])
        BY <2>0, FrFields
      <4>2. WellFormed(Fr(free[k]))
        BY <2>0
      <4>3. Fr(free[k]).addr \in Nat /\ End(Fr(free[k])) \in Nat /\ Fr(free[k]).addr < End(Fr(free[k]))
        BY <4>2, Interval
      <4>4. End(Fr(free[k])) <= HEAP_SIZE
        BY <4>2 DEF WellFormed
      <4>5. End(free[k]) = free[k].addr + free[k].size
        BY DEF End
      <4> QED BY <4>1, <4>3, <4>4, <4>5
    <3>1. \A x \in Blocks : \E k \in 1..Len(free) : x.addr = free[k].addr /\ End(x) = End(free[k])
      BY <2>0, <2>3, FrFields DEF FreeBlocks
    <3>2. PICK i \in 1..Len(free) : free[i].addr = 0
      BY Zenon, <2>0, <3>1 DEF Tiles
    <3>3. End(free[i]) = HEAP_SIZE
      <4> SUFFICES ASSUME End(free[i]) # HEAP_SIZE PROVE FALSE
        OBVIOUS
      <4>1. Fr(free[i]) \in Blocks /\ End(Fr(free[i])) = End(free[i])
        BY <2>0, FrFields
      <4>2. PICK c \in Blocks : c.addr = End(free[i])
        BY <2>0, <4>1 DEF Tiles, Followed
      <4>3. PICK k \in 1..Len(free) : c.addr = free[k].addr
        BY <3>1
      <4>4. k = i \/ k < i \/ i < k
        OBVIOUS
      <4>5. free[k].addr = End(free[i])
        BY <4>2, <4>3
      <4>6. CASE k = i
        BY <3>0, <4>5, <4>6
      <4>7. CASE i < k
        BY <2>1, <3>0, <4>5, <4>7
      <4>8. CASE k < i
        <5>1. End(free[k]) < free[i].addr /\ free[k].addr < End(free[k]) /\ free[i].addr < End(free[i])
          BY <2>1, <3>0, <4>8
        <5>2. free[i].addr \in Nat /\ free[k].addr \in Nat /\ End(free[k]) \in Nat /\ End(free[i]) \in Nat
          BY <3>0
        <5> QED BY ONLY <4>5, <5>1, <5>2
      <4> QED BY <4>4, <4>6, <4>7, <4>8
    <3>4. \A k \in 1..Len(free) : k = i
      <4> SUFFICES ASSUME NEW k \in 1..Len(free), k # i PROVE FALSE
        OBVIOUS
      <4>1. k < i \/ i < k
        OBVIOUS
      <4> QED BY <2>1, <3>0, <3>2, <3>3, <4>1
    <3>5. Len(free) = 1
      <4>1. 1 \in 1..Len(free) /\ Len(free) \in 1..Len(free)
        BY <2>0
      <4> QED BY Zenon, <3>4, <4>1
    <3>6. free[1] = [addr |-> 0, size |-> HEAP_SIZE]
      <4>1. i = 1 /\ free[1] \in Entries
        BY <2>0, <3>5
      <4>2. free[1].addr = 0 /\ free[1].size = HEAP_SIZE
        BY <2>0, <3>0, <3>2, <3>3, <4>1
      <4> QED BY <4>1, <4>2 DEF Entries
    <3> QED BY <3>5, <3>6 DEF KmmInv
  <2> QED BY <2>2, <2>3 DEF SortedAndCoalesced
<1> QED BY <1>1, KmmInvariance, PTL
=============================================================================
