----------------------------- MODULE PmmProofs -----------------------------
(***************************************************************************)
(* The page allocator, for every memory map, bitmap size and page size,    *)
(* and the boot, which sets up both allocators.                            *)
(***************************************************************************)
EXTENDS KernelMain, KmmProofs

-----------------------------------------------------------------------------
(* Numbers *)

\* Multiples of a positive number.
LEMMA Multiples ==
  ASSUME NEW m \in Nat \ {0}, NEW a \in Int, NEW b \in Int
  PROVE  /\ a <= b => m * a <= m * b
         /\ a < b => m * a + m <= m * b
<1> DEFINE k == b - a
<1>1. k \in Int /\ m * k = m * b - m * a
  OBVIOUS
<1>2. a <= b => k >= 0
  OBVIOUS
<1>3. a < b => k >= 1
  OBVIOUS
<1> HIDE DEF k
<1>4. k >= 0 => m * k >= 0
  BY <1>1
<1>5. k >= 1 => m * k >= m
  BY <1>1
<1>6. m * a \in Int /\ m * b \in Int /\ m * k \in Int
  BY <1>1
<1> QED BY <1>1, <1>2, <1>3, <1>4, <1>5, <1>6

\* Division rounds down: x \div m is the only q with m * q <= x < m * q + m.
LEMMA Division ==
  ASSUME NEW m \in Nat \ {0}, NEW x \in Int, NEW q \in Int
  PROVE  /\ x \div m \in Int /\ m * (x \div m) <= x /\ x < m * (x \div m) + m
         /\ m * q <= x <=> q <= x \div m
         /\ x < m * q + m <=> x \div m <= q
<1> DEFINE d == x \div m
<1>1. d \in Int /\ x % m \in 0..(m - 1) /\ x = m * d + (x % m)
  OBVIOUS
<1> HIDE DEF d
<1>2. m * d \in Int /\ m * q \in Int /\ m * d <= x /\ x < m * d + m
  BY <1>1
<1>3. q <= d => m * q <= m * d
  BY <1>1, Multiples
<1>4. d < q => m * d + m <= m * q
  BY <1>1, Multiples
<1>5. d <= q => m * d <= m * q
  BY <1>1, Multiples
<1>6. q < d => m * q + m <= m * d
  BY <1>1, Multiples
<1> QED BY <1>1, <1>2, <1>3, <1>4, <1>5, <1>6 DEF d

\* The smaller and the larger of two numbers.
LEMMA MinMax ==
  ASSUME NEW a \in Int, NEW b \in Int
  PROVE  /\ Min({a, b}) \in Int /\ Min({a, b}) = IF a <= b THEN a ELSE b
         /\ Max({a, b}) \in Int /\ Max({a, b}) = IF a <= b THEN b ELSE a
<1>1. \E x \in {a, b} : \A y \in {a, b} : x <= y
  OBVIOUS
<1>2. \E x \in {a, b} : \A y \in {a, b} : x >= y
  OBVIOUS
<1>3. Min({a, b}) \in {a, b} /\ Min({a, b}) <= a /\ Min({a, b}) <= b
  BY <1>1 DEF Min
<1>4. Max({a, b}) \in {a, b} /\ Max({a, b}) >= a /\ Max({a, b}) >= b
  BY <1>2 DEF Max
<1> QED BY <1>3, <1>4

\* A nonempty set of naturals with a bound has a greatest element.
LEMMA GreatestNat ==
  ASSUME NEW S \in SUBSET Nat, S # {}, NEW b \in Nat, \A y \in S : y <= b
  PROVE  Max(S) \in S /\ \A y \in S : y <= Max(S)
<1> DEFINE T == {b - y : y \in S}
<1>1. T \in SUBSET Nat /\ T # {}
  <2>1. \A y \in S : b - y \in Nat
    OBVIOUS
  <2>2. PICK y \in S : TRUE
    BY Zenon
  <2>3. b - y \in T
    OBVIOUS
  <2> QED BY <2>1, <2>3
<1>2. PICK t \in T : \A u \in T : t <= u
  BY Zenon, <1>1, LeastNat
<1>3. PICK x \in S : t = b - x
  OBVIOUS
<1>4. \A y \in S : x >= y
  <2> SUFFICES ASSUME NEW y \in S PROVE x >= y
    OBVIOUS
  <2>1. b - y \in T
    OBVIOUS
  <2>2. b - x <= b - y
    BY <1>2, <1>3, <2>1
  <2> QED BY <2>2
<1>5. \E z \in S : \A y \in S : z >= y
  BY <1>4
<1>6. Max(S) \in S /\ \A y \in S : Max(S) >= y
  BY Zenon, <1>5 DEF Max
<1> QED BY <1>6

\* The first n values of f have a bound.
Bounded(f, n) == \E b \in Nat : \A i \in 1..n : f[i] <= b

\* Finitely many numbers have a bound: the least n for which there is none
\* would not be 0, and could not follow one for which there is.
LEMMA AllBounded ==
  ASSUME NEW n \in Nat, NEW f \in [1..n -> Nat]
  PROVE  Bounded(f, n)
<1> DEFINE C == {k \in 0..n : ~Bounded(f, k)}
<1> SUFFICES ASSUME C # {} PROVE FALSE
  OBVIOUS
<1>1. PICK k \in C : \A j \in C : k <= j
  <2>1. C \in SUBSET Nat
    OBVIOUS
  <2> QED BY Zenon, <2>1, LeastNat
<1>2. k # 0
  BY DEF Bounded
<1>3. k - 1 \in 0..n /\ k \in 1..n
  BY <1>2
<1>4. Bounded(f, k - 1)
  BY <1>1, <1>3
<1>5. PICK b \in Nat : \A i \in 1..(k - 1) : f[i] <= b
  BY Zenon, <1>4 DEF Bounded
<1>6. f[k] \in Nat /\ b + f[k] \in Nat
  BY <1>3
<1>7. \A i \in 1..k : f[i] <= b + f[k]
  <2> SUFFICES ASSUME NEW i \in 1..k PROVE f[i] <= b + f[k]
    OBVIOUS
  <2>1. CASE i = k
    BY <1>6, <2>1
  <2>2. CASE i \in 1..(k - 1)
    <3>1. f[i] <= b /\ f[i] \in Nat
      BY <1>3, <1>5, <2>2
    <3> QED BY <1>6, <3>1
  <2> QED BY <2>1, <2>2, <1>3
<1>8. Bounded(f, k)
  BY Zenon, <1>6, <1>7 DEF Bounded
<1> QED BY <1>8

-----------------------------------------------------------------------------
(* The memory map *)

Ends(map) == {r.base + r.length : r \in Avail(map)}
FirstRegion(map) == map[Min({i \in DOMAIN map : map[i].avail})]
MapStart(map) == Max({(FirstRegion(map).base \div PAGE) * PAGE, LowLimit})
MapEnd(map) == Min({Max(Ends(map)), MaxEnd})

\* What apply_mmap_to_pmm finds in a map: the first available region and the
\* highest end of one, and so a range that does not end before it begins.
LEMMA MapRange ==
  ASSUME NEW map \in Maps
  PROVE  /\ FirstRegion(map) \in Avail(map) /\ Avail(map) \in SUBSET Regions
         /\ Max(Ends(map)) \in Nat /\ \A r \in Avail(map) : r.base + r.length <= Max(Ends(map))
         /\ MapStart(map) \in Nat /\ MapEnd(map) \in Nat /\ MapStart(map) <= MapEnd(map)
<1>1. GoodMap(map) /\ map \in Seq(Regions)
  BY PmmAssumption DEF GoodMap
<1> DEFINE D == {i \in DOMAIN map : map[i].avail}
           f == [i \in 1..Len(map) |-> map[i].base + map[i].length]
<1>2. DOMAIN map = 1..Len(map) /\ Len(map) \in Nat /\ \A i \in 1..Len(map) : map[i] \in Regions
  BY <1>1
<1>3. Avail(map) \in SUBSET Regions
  BY <1>2 DEF Avail
<1>4. PICK kr \in Avail(map) : kr.base <= KernelStart /\ KernelStart + KernelSize <= kr.base + kr.length
  BY <1>1 DEF GoodMap
<1>5. Min(D) \in D
  <2>1. D \in SUBSET Nat /\ D # {}
    BY <1>2, <1>4 DEF Avail
  <2> QED BY <2>1, LeastNat
<1>6. FirstRegion(map) \in Avail(map)
  BY <1>5 DEF FirstRegion, Avail
<1>7. Max(Ends(map)) \in Ends(map) /\ Ends(map) \in SUBSET Nat /\ \A y \in Ends(map) : y <= Max(Ends(map))
  <2>1. \A i \in 1..Len(map) : map[i].base + map[i].length \in Nat
    BY <1>2 DEF Regions
  <2>2. f \in [1..Len(map) -> Nat]
    BY <2>1
  <2>3. PICK b \in Nat : \A i \in 1..Len(map) : f[i] <= b
    <3> HIDE DEF f
    <3> QED BY Zenon, <1>2, <2>2, AllBounded DEF Bounded
  <2>4. \A y \in Ends(map) : \E i \in 1..Len(map) : y = f[i]
    BY <1>2 DEF Ends, Avail
  <2>5. Ends(map) \in SUBSET Nat /\ Ends(map) # {}
    BY <1>3, <1>4 DEF Ends, Regions
  <2>6. \A y \in Ends(map) : y <= b
    BY <2>3, <2>4
  <2> QED BY Zenon, <2>5, <2>6, GreatestNat
<1>8. \A r \in Avail(map) : r.base \in Nat /\ r.length \in Nat /\ r.base + r.length <= Max(Ends(map))
  BY <1>3, <1>7 DEF Ends, Regions
<1> DEFINE top == Max(Ends(map))
           fb == FirstRegion(map).base
           low == (fb \div PAGE) * PAGE
<1>9. top \in Nat
  BY <1>7
<1>10. fb \in Nat /\ fb <= top /\ fb < MaxEnd
  BY <1>1, <1>6, <1>8, <1>9 DEF GoodMap
<1>11. LowLimit < top /\ LowLimit \in Nat /\ MaxEnd \in Nat /\ LowLimit < MaxEnd
  BY <1>4, <1>8, <1>9, PmmAssumption
<1>12. kr.base + kr.length <= top
  BY <1>8
<1>13. low \in Nat /\ low <= fb
  <2>1. PAGE \in Nat \ {0} /\ fb \in Int /\ 0 \in Int
    BY <1>10, PmmAssumption
  <2>2. fb \div PAGE \in Int /\ PAGE * (fb \div PAGE) <= fb
    BY <2>1, Division
  <2>3. 0 <= fb \div PAGE
    BY <1>10, <2>1, Division, PAGE * 0 = 0
  <2> DEFINE q == fb \div PAGE
  <2> HIDE DEF q
  <2>4. q \in Nat /\ PAGE * q <= fb
    BY <2>2, <2>3 DEF q
  <2>5. q * PAGE \in Nat /\ q * PAGE = PAGE * q
    BY <2>1, <2>4
  <2> QED BY <2>4, <2>5 DEF q
<1> HIDE DEF low, fb, top
<1>14. MapStart(map) = Max({low, LowLimit}) /\ MapEnd(map) = Min({top, MaxEnd})
  BY DEF MapStart, MapEnd, low, fb, top
<1>15. Max({low, LowLimit}) = IF low <= LowLimit THEN LowLimit ELSE low
  <2>1. low \in Int /\ LowLimit \in Int
    BY <1>11, <1>13
  <2> QED BY ONLY Zenon, <2>1, MinMax
<1>16. Min({top, MaxEnd}) = IF top <= MaxEnd THEN top ELSE MaxEnd
  BY <1>9, <1>11, MinMax
<1> QED BY <1>3, <1>6, <1>8, <1>9, <1>10, <1>11, <1>13, <1>14, <1>15, <1>16 DEF top

-----------------------------------------------------------------------------
(* Pages *)

\* Page p of the range that begins at start has a byte from low up to high.
Touches(p, start, low, high) == start + p * PAGE < high /\ low < start + (p + 1) * PAGE

\* reserve() and init_region() go through the pages that have a byte of the
\* region, as far as the bitmap goes.
LEMMA SpanIs ==
  ASSUME NEW start \in Nat, NEW base \in Nat, start <= base, NEW size \in Nat \ {0}
  PROVE  /\ Span(start, base, size) \in SUBSET Bits
         /\ \A p \in Bits : p \in Span(start, base, size) <=> Touches(p, start, base, base + size)
<1> DEFINE x == base - start
           y == base - start + size - 1
           first == x \div PAGE
           last == y \div PAGE
           m == Min({last, PMM_MAX_PAGES - 1})
<1>1. PAGE \in Nat \ {0} /\ PMM_MAX_PAGES \in Nat /\ PMM_MAX_PAGES >= 4
  BY PmmAssumption
<1>2. x \in Nat /\ y \in Nat
  OBVIOUS
<1>3. Span(start, base, size) = first..m
  BY DEF Span
<1>4. base + size = start + y + 1 /\ base = start + x
  OBVIOUS
<1> HIDE DEF x, y
<1>5. first \in Int /\ last \in Int /\ 0 <= first
  <2>1. PAGE * 0 <= x
    BY <1>1, <1>2
  <2>2. 0 <= x \div PAGE
    BY <1>1, <1>2, <2>1, Division
  <2> QED BY <1>1, <1>2, <2>2, Division
<1>6. ASSUME NEW p \in Int
      PROVE  /\ first <= p <=> x < PAGE * p + PAGE
             /\ p <= last <=> PAGE * p <= y
  BY <1>1, <1>2, Division
<1> HIDE DEF first, last
<1>7. m = (IF last <= PMM_MAX_PAGES - 1 THEN last ELSE PMM_MAX_PAGES - 1)
  <2> DEFINE z == PMM_MAX_PAGES - 1
  <2>1. z \in Int
    BY <1>1
  <2> HIDE DEF z
  <2>2. Min({last, z}) = IF last <= z THEN last ELSE z
    BY <1>5, <2>1, MinMax
  <2> QED BY <2>2 DEF z
<1> HIDE DEF m
<1>8. Span(start, base, size) \in SUBSET Bits
  BY <1>1, <1>3, <1>5, <1>7 DEF Bits
<1>9. ASSUME NEW p \in Bits
      PROVE  p \in Span(start, base, size) <=> Touches(p, start, base, base + size)
  <2>1. p \in Int /\ p <= PMM_MAX_PAGES - 1
    BY <1>1 DEF Bits
  <2>2. p \in first..m <=> first <= p /\ p <= last
    BY <1>1, <1>5, <1>7, <2>1
  <2>3. p * PAGE = PAGE * p /\ (p + 1) * PAGE = PAGE * p + PAGE /\ PAGE * p \in Int
    BY <1>1, <2>1
  <2>4. Touches(p, start, base, base + size) <=> PAGE * p <= y /\ x < PAGE * p + PAGE
    BY <1>1, <1>2, <1>4, <2>1, <2>3 DEF Touches
  <2> QED BY <1>3, <1>6, <2>1, <2>2, <2>4
<1> QED BY <1>8, <1>9

\* Page p has a byte of the region r between start and end.
RegionBytes(r) == r.base..((r.base + r.length) - 1)
PageBytes(p, start) == (start + p * PAGE)..((start + (p + 1) * PAGE) - 1)
HasByte(p, start, end, r) ==
  \E x \in RegionBytes(r) : x \in PageBytes(p, start) /\ start <= x /\ x < end

\* The pages apply_mmap_to_pmm frees for one region: those that have a byte of
\* it between start and end.
LEMMA FreedIs ==
  ASSUME NEW start \in Nat, NEW end \in Nat, NEW r \in Regions
  PROVE  /\ Freed(r, start, end) \in SUBSET Bits
         /\ \A p \in Bits : p \in Freed(r, start, end) <=> HasByte(p, start, end, r)
<1> DEFINE base == Max({r.base, start})
           top == Min({r.base + r.length, end})
           e == r.base + r.length
<1>1. r.base \in Nat /\ r.length \in Nat /\ e \in Nat
  BY DEF Regions
<1>2. base = IF r.base <= start THEN start ELSE r.base
  <2> DEFINE d == r.base
  <2>1. d \in Int /\ start \in Int
    BY <1>1
  <2> HIDE DEF d
  <2>2. Max({d, start}) = IF d <= start THEN start ELSE d
    BY ONLY Zenon, <2>1, MinMax
  <2> QED BY <2>2 DEF d
<1>3. top = IF e <= end THEN e ELSE end
  <2> HIDE DEF e
  <2>1. Min({e, end}) = IF e <= end THEN e ELSE end
    BY <1>1, MinMax
  <2> QED BY <2>1 DEF e
<1>4. Freed(r, start, end) = IF top > base THEN Span(start, base, top - base) ELSE {}
  BY DEF Freed
<1> HIDE DEF base, top
<1>5. base \in Nat /\ top \in Nat /\ start <= base
  BY <1>1, <1>2, <1>3
<1>6. PAGE \in Nat \ {0}
  BY PmmAssumption
<1>7. CASE top > base
  <2> DEFINE size == top - base
  <2>1. size \in Nat \ {0} /\ base + size = top
    BY <1>5, <1>7
  <2> HIDE DEF size
  <2>2. /\ Span(start, base, size) \in SUBSET Bits
        /\ \A p \in Bits : p \in Span(start, base, size) <=> Touches(p, start, base, top)
    BY Zenon, <1>5, <2>1, SpanIs
  <2>3. Freed(r, start, end) = Span(start, base, size)
    BY <1>4, <1>7 DEF size
  <2>4. ASSUME NEW p \in Bits
        PROVE  Touches(p, start, base, top) <=> HasByte(p, start, end, r)
    <3> DEFINE a == start + p * PAGE
               b == start + (p + 1) * PAGE
    <3>1. a \in Nat /\ b \in Nat /\ b = a + PAGE
      <4>1. p \in Nat
        BY PmmAssumption DEF Bits
      <4>2. p * PAGE \in Nat /\ (p + 1) * PAGE = p * PAGE + PAGE
        BY <1>6, <4>1
      <4> QED BY <1>6, <4>2
    <3> HIDE DEF a, b
    <3>2. ASSUME a < top, base < b
          PROVE  \E x \in r.base..(e - 1) : x \in a..(b - 1) /\ start <= x /\ x < end
      <4> DEFINE x == IF a <= base THEN base ELSE a
      <4>1. x \in r.base..(e - 1) /\ x \in a..(b - 1) /\ start <= x /\ x < end
        BY <1>1, <1>2, <1>3, <1>5, <1>6, <1>7, <3>1, <3>2
      <4> QED BY <4>1
    <3>3. ASSUME NEW x \in r.base..(e - 1), x \in a..(b - 1), start <= x, x < end
          PROVE  a < top /\ base < b
      BY <1>1, <1>2, <1>3, <3>1, <3>3
    <3>4. Touches(p, start, base, top) <=> a < top /\ base < b
      BY DEF Touches, a, b
    <3>5. RegionBytes(r) = r.base..(e - 1) /\ PageBytes(p, start) = a..(b - 1)
      BY <1>1, <1>6, <3>1 DEF RegionBytes, PageBytes, a, b
    <3> HIDE DEF e
    <3> QED BY Zenon, <3>2, <3>3, <3>4, <3>5 DEF HasByte
  <2> QED BY <2>2, <2>3, <2>4
<1>8. CASE ~(top > base)
  <2>1. Freed(r, start, end) = {}
    BY <1>4, <1>8
  <2>2. ASSUME NEW x \in r.base..(e - 1), start <= x, x < end PROVE FALSE
    BY <1>1, <1>2, <1>3, <1>8, <2>2
  <2>3. \A p \in Bits : ~HasByte(p, start, end, r)
    <3>1. RegionBytes(r) = r.base..(e - 1)
      BY <1>1 DEF RegionBytes
    <3> HIDE DEF e
    <3> QED BY Zenon, <2>2, <3>1 DEF HasByte
  <2> QED BY <2>1, <2>3
<1> QED BY <1>7, <1>8


-----------------------------------------------------------------------------
(* The page allocator *)

\* The kernel image is not cut by the beginning of the managed range: either
\* it is all above it or, when the first available region lies above the
\* kernel's, all below.
KernelWhole == KernelStart >= memory_start \/ KernelStart + KernelSize <= memory_start

\* What the three properties need: nothing is handed out before the kernel is
\* reserved, and from then on every page the kernel touches is reserved.
PmmInv ==
  /\ BitmapExact
  /\ AvailableFreed
  /\ stage # "run" => held = {}
  /\ stage # "mmap" => KernelWhole
  /\ stage = "run" /\ KernelStart >= memory_start =>
       Span(memory_start, KernelStart, KernelSize) \subseteq reserved

\* What apply_mmap_to_pmm computes, by the names used here.
LEMMA MmapApplied ==
  ASSUME ApplyMmap
  PROVE  /\ memory_start' = MapStart(mmap)
         /\ total_pages' = Min({(MapEnd(mmap) - MapStart(mmap)) \div PAGE, PMM_MAX_PAGES})
         /\ bitmap' = Bits \ UNION {Freed(r, MapStart(mmap), MapEnd(mmap)) : r \in Avail(mmap)}
         /\ stage' = "mapped" /\ mmap' = mmap /\ reserved' = reserved /\ held' = held /\ stage = "mmap"
BY DEF ApplyMmap, MapStart, MapEnd, FirstRegion, Ends

\* The pages of a range fit the bitmap and end within the range.
LEMMA PagesFit ==
  ASSUME NEW start \in Nat, NEW end \in Nat, start <= end
  PROVE  LET n == Min({(end - start) \div PAGE, PMM_MAX_PAGES})
         IN  /\ n \in 0..PMM_MAX_PAGES
             /\ \A p \in 0..(n - 1) : p \in Bits /\ start + (p + 1) * PAGE <= end
<1> DEFINE x == end - start
           d == x \div PAGE
           n == Min({d, PMM_MAX_PAGES})
<1>1. x \in Nat /\ PAGE \in Nat \ {0} /\ PMM_MAX_PAGES \in Nat
  BY PmmAssumption
<1>a. x + start = end
  OBVIOUS
<1> HIDE DEF x
<1>2. d \in Int /\ \A q \in Int : PAGE * q <= x <=> q <= d
  BY <1>1, Division
<1>3. d >= 0
  <2>1. PAGE * 0 <= x
    BY <1>1
  <2> QED BY <1>2, <2>1
<1> HIDE DEF d
<1>4. n = IF d <= PMM_MAX_PAGES THEN d ELSE PMM_MAX_PAGES
  BY <1>1, <1>2, MinMax
<1> HIDE DEF n
<1>5. n \in 0..PMM_MAX_PAGES /\ n <= d
  BY <1>1, <1>2, <1>3, <1>4
<1>6. ASSUME NEW p \in 0..(n - 1) PROVE p \in Bits /\ start + (p + 1) * PAGE <= end
  <2>1. p \in Bits /\ p + 1 \in Int /\ p + 1 <= d
    BY <1>1, <1>2, <1>5 DEF Bits
  <2>2. PAGE * (p + 1) <= x
    BY <1>2, <2>1
  <2>3. PAGE * (p + 1) = (p + 1) * PAGE /\ (p + 1) * PAGE \in Int
    BY <1>1, <2>1
  <2> QED BY <1>1, <1>a, <2>1, <2>2, <2>3
<1> QED BY <1>5, <1>6 DEF n, d, x

\* apply_mmap_to_pmm never cuts the kernel: the first available region begins
\* at or below the kernel, or after the page where it ends.
LEMMA StartCutsNoKernel ==
  ASSUME NEW map \in Maps
  PROVE  KernelStart >= MapStart(map) \/ KernelStart + KernelSize <= MapStart(map)
<1> DEFINE f == FirstRegion(map).base
           fl == (f \div PAGE) * PAGE
           kend == KernelStart + KernelSize
<1>1. GoodMap(map) /\ map \in Seq(Regions)
  BY PmmAssumption DEF GoodMap
<1>2. /\ PAGE \in Nat \ {0} /\ LowLimit \in Nat /\ KernelStart \in Nat /\ KernelSize \in Nat \ {0}
      /\ KernelStart >= LowLimit /\ KernelStart % PAGE = 0 /\ KernelSize % PAGE = 0
  BY PmmAssumption
<1>3. PICK i \in DOMAIN map : map[i] = FirstRegion(map)
  BY MapRange DEF Avail
<1>4. PICK j \in DOMAIN map : map[j].base <= KernelStart /\ kend <= map[j].base + map[j].length
  BY <1>1 DEF GoodMap, Avail
<1>5. /\ map[i].base \in Nat /\ map[i].length \in Nat /\ map[i].base = f
      /\ map[j].base \in Nat /\ map[j].length \in Nat /\ kend \in Nat
  <2>1. map[i] \in Regions /\ map[j] \in Regions
    BY <1>1
  <2>2. \A r \in Regions : r.base \in Nat /\ r.length \in Nat
    BY DEF Regions
  <2>3. kend \in Nat
    BY <1>2
  <2> QED BY Zenon, <1>3, <2>1, <2>2, <2>3
<1>6. f <= KernelStart \/ kend <= f
  <2>1. CASE i = j
    BY <1>4, <1>5, <2>1
  <2>2. CASE i # j
    <3>1. map[i].base + map[i].length <= map[j].base \/ map[j].base + map[j].length <= map[i].base
      BY <1>1, <2>2 DEF GoodMap
    <3> QED BY <1>2, <1>4, <1>5, <3>1
  <2> QED BY <2>1, <2>2
<1>7. PICK a \in Int, b \in Int : KernelStart = PAGE * a /\ KernelSize = PAGE * b
  <2>1. KernelStart = PAGE * (KernelStart \div PAGE) + (KernelStart % PAGE) /\ KernelStart \div PAGE \in Int
    BY <1>2
  <2>2. KernelSize = PAGE * (KernelSize \div PAGE) + (KernelSize % PAGE) /\ KernelSize \div PAGE \in Int
    BY <1>2
  <2>3. PAGE * (KernelStart \div PAGE) \in Int /\ PAGE * (KernelSize \div PAGE) \in Int
    BY <1>2, <2>1, <2>2
  <2> QED BY <1>2, <2>1, <2>2, <2>3
<1>8. kend = PAGE * (a + b)
  BY <1>2, <1>7
<1> HIDE DEF f, kend
<1>9. f \div PAGE \in Int /\ PAGE * (f \div PAGE) <= f /\ (PAGE * (a + b) <= f <=> a + b <= f \div PAGE)
  BY <1>2, <1>5, Division
<1>10. fl \in Int /\ fl <= f /\ (kend <= f => kend <= fl)
  <2> DEFINE q == f \div PAGE
  <2>1. q \in Int /\ fl = PAGE * q
    BY <1>2, <1>9
  <2> HIDE DEF q, fl
  <2>2. a + b <= q => PAGE * (a + b) <= PAGE * q
    BY <1>2, <1>7, <2>1, Multiples
  <2>3. fl \in Int
    BY <1>2, <2>1
  <2> QED BY <1>8, <1>9, <2>1, <2>2, <2>3 DEF q
<1> HIDE DEF fl
<1>11. MapStart(map) = IF fl <= LowLimit THEN LowLimit ELSE fl
  <2>1. Max({fl, LowLimit}) = IF fl <= LowLimit THEN LowLimit ELSE fl
    <3>1. fl \in Int /\ LowLimit \in Int
      BY <1>2, <1>10
    <3> QED BY ONLY <3>1, MinMax
  <2> QED BY <2>1 DEF MapStart, fl, f
<1>12. KernelStart >= MapStart(map) \/ kend <= MapStart(map)
  BY <1>2, <1>5, <1>6, <1>10, <1>11
<1> QED BY <1>12 DEF kend


\* A page of the managed range is free after apply_mmap_to_pmm exactly when
\* an available region has a byte of it.
LEMMA MmapFreesAvailable ==
  ASSUME NEW map \in Maps, NEW start \in Nat, NEW end \in Nat, NEW p \in Bits,
         NEW b, b = Bits \ UNION {Freed(r, start, end) : r \in Avail(map)}
  PROVE  p \notin b <=> \E r \in Avail(map) : HasByte(p, start, end, r)
<1>1. \A r \in Avail(map) : p \in Freed(r, start, end) <=> HasByte(p, start, end, r)
  <2>1. Avail(map) \in SUBSET Regions
    BY MapRange
  <2> QED BY <2>1, FreedIs
<1> QED BY <1>1

\* The same, in the words of the property: for a page all of which lies in the
\* range.
LEMMA AvailableBytes ==
  ASSUME NEW map \in Maps, NEW start \in Nat, NEW end \in Nat, NEW p \in Nat,
         start + (p + 1) * PAGE <= end,
         NEW A, A = UNION {RegionBytes(r) : r \in Avail(map)}
  PROVE  /\ (\E r \in Avail(map) : HasByte(p, start, end, r)) => PageBytes(p, start) \intersect A # {}
         /\ PageBytes(p, start) \subseteq A => \E r \in Avail(map) : HasByte(p, start, end, r)
<1> DEFINE lo == start + p * PAGE
           hi == start + (p + 1) * PAGE
<1>1. lo \in Nat /\ hi \in Nat /\ lo < hi /\ start <= lo
  <2>1. PAGE \in Nat \ {0}
    BY PmmAssumption
  <2>2. p * PAGE \in Nat /\ (p + 1) * PAGE = p * PAGE + PAGE
    BY <2>1
  <2> QED BY <2>1, <2>2
<1>2. PageBytes(p, start) = lo..(hi - 1) /\ hi <= end
  BY DEF PageBytes
<1> HIDE DEF lo, hi
<1>3. lo \in lo..(hi - 1) /\ start <= lo /\ lo < end
  BY <1>1, <1>2
<1>4. ASSUME NEW r \in Avail(map), HasByte(p, start, end, r)
      PROVE  PageBytes(p, start) \intersect A # {}
  <2>1. PICK x \in RegionBytes(r) : x \in PageBytes(p, start)
    BY <1>4 DEF HasByte
  <2> QED BY <2>1
<1>5. ASSUME PageBytes(p, start) \subseteq A PROVE \E r \in Avail(map) : HasByte(p, start, end, r)
  <2>1. lo \in A
    BY <1>2, <1>3, <1>5
  <2>2. PICK r \in Avail(map) : lo \in RegionBytes(r)
    BY <2>1
  <2>3. lo \in PageBytes(p, start)
    BY <1>2, <1>3
  <2> QED BY Zenon, <1>3, <2>2, <2>3 DEF HasByte
<1> QED BY <1>4, <1>5

\* The bytes the properties speak of, by the names used here.
ByteNames ==
  memory_start \in Nat /\ mmap \in Maps =>
    /\ \A p \in Nat : Bytes(p) = PageBytes(p, memory_start)
    /\ Available = UNION {RegionBytes(r) : r \in Avail(mmap)}
    /\ Kernel = KernelStart..((KernelStart + KernelSize) - 1)

\* They are the bytes of the properties.
LEMMA BytesAre == ByteNames
<1> SUFFICES ASSUME memory_start \in Nat, mmap \in Maps
             PROVE  /\ \A p \in Nat : Bytes(p) = PageBytes(p, memory_start)
                    /\ Available = UNION {RegionBytes(r) : r \in Avail(mmap)}
                    /\ Kernel = KernelStart..((KernelStart + KernelSize) - 1)
  BY DEF ByteNames
<1>1. PAGE \in Nat /\ KernelStart \in Nat /\ KernelSize \in Nat
  BY PmmAssumption
<1>2. \A p \in Nat : (p + 1) * PAGE \in Nat
  BY <1>1
<1>3. \A r \in Avail(mmap) : r.base..(r.base + r.length - 1) = RegionBytes(r)
  <2>1. Avail(mmap) \in SUBSET Regions
    BY MapRange
  <2>2. ASSUME NEW r \in Regions PROVE r.base..(r.base + r.length - 1) = RegionBytes(r)
    <3>1. r.base \in Nat /\ r.length \in Nat
      BY DEF Regions
    <3> QED BY <3>1 DEF RegionBytes
  <2> QED BY <2>1, <2>2
<1>4. Available = UNION {RegionBytes(r) : r \in Avail(mmap)}
  BY Zenon, <1>3 DEF Available
<1>5. \A p \in Nat : Bytes(p) = PageBytes(p, memory_start)
  BY <1>1, <1>2 DEF Bytes, PageBytes
<1>6. Kernel = KernelStart..((KernelStart + KernelSize) - 1)
  BY <1>1 DEF Kernel
<1> QED BY <1>4, <1>5, <1>6

\* The two ways of finding the range establish the invariant of the boot.
LEMMA ApplyMmapStep ==
  ASSUME PmmInv, ApplyMmap
  PROVE  PmmInv'
<1> DEFINE start == MapStart(mmap)
           end == MapEnd(mmap)
<1>1. /\ memory_start' = start
      /\ total_pages' = Min({(end - start) \div PAGE, PMM_MAX_PAGES})
      /\ bitmap' = Bits \ UNION {Freed(r, start, end) : r \in Avail(mmap)}
      /\ stage' = "mapped" /\ mmap' = mmap /\ reserved' = reserved /\ held' = held /\ stage = "mmap"
  BY MmapApplied
<1>2. mmap \in Maps /\ reserved \subseteq Bits /\ held = {}
  BY <1>1 DEF PmmInv, BitmapExact, PmmTypeOK
<1>3. start \in Nat /\ end \in Nat /\ start <= end
  BY <1>2, MapRange
<1>4. KernelWhole'
  BY <1>1, <1>2, StartCutsNoKernel DEF KernelWhole
<1> HIDE DEF start, end
<1>5. /\ total_pages' \in 0..PMM_MAX_PAGES
      /\ \A p \in 0..(total_pages' - 1) : p \in Bits /\ start + (p + 1) * PAGE <= end
  BY <1>1, <1>3, PagesFit
<1>6. PmmTypeOK'
  BY <1>1, <1>2, <1>3, <1>5 DEF PmmTypeOK
<1>7. AvailableFreed'
  <2> SUFFICES ASSUME NEW p \in Pages'
               PROVE  /\ p \notin bitmap' => (Bytes(p) \intersect Available)' # {}
                      /\ (Bytes(p) \subseteq Available)' => p \notin bitmap'
    BY DEF AvailableFreed
  <2>1. p \in Bits /\ p \in Nat /\ start + (p + 1) * PAGE <= end
    <3>1. p \in 0..(total_pages' - 1)
      BY DEF Pages
    <3>2. p \in Nat
      BY <1>5, <3>1
    <3> QED BY Zenon, <1>5, <3>1, <3>2
  <2>2. p \notin bitmap' <=> \E r \in Avail(mmap) : HasByte(p, start, end, r)
    BY <1>1, <1>2, <1>3, <2>1, MmapFreesAvailable
  <2>3. /\ Bytes(p)' = PageBytes(p, start)
        /\ Available' = UNION {RegionBytes(r) : r \in Avail(mmap)}
    <3>1. ByteNames'
      BY BytesAre, PTL
    <3> QED BY <1>1, <1>2, <1>3, <2>1, <3>1 DEF ByteNames
  <2>4. /\ (\E r \in Avail(mmap) : HasByte(p, start, end, r)) =>
             PageBytes(p, start) \intersect Available' # {}
        /\ PageBytes(p, start) \subseteq Available' => \E r \in Avail(mmap) : HasByte(p, start, end, r)
    BY Zenon, <1>2, <1>3, <2>1, <2>3, AvailableBytes
  <2> QED BY <2>2, <2>3, <2>4
<1> QED BY <1>1, <1>2, <1>4, <1>6, <1>7 DEF PmmInv, BitmapExact


\* The fallback range begins at or below the kernel.
LEMMA InitFallbackStep ==
  ASSUME PmmInv, InitFallback
  PROVE  PmmInv'
<1>1. /\ memory_start' = LowLimit
      /\ total_pages' = Min({(MaxEnd - LowLimit) \div PAGE, PMM_MAX_PAGES})
      /\ bitmap' = 0..3 /\ stage' = "fallback" /\ stage = "mmap"
      /\ mmap' = mmap /\ reserved' = reserved /\ held' = held
  BY DEF InitFallback
<1>2. mmap \in Maps /\ reserved \subseteq Bits /\ held = {}
  BY <1>1 DEF PmmInv, BitmapExact, PmmTypeOK
<1>3. /\ LowLimit \in Nat /\ MaxEnd \in Nat /\ LowLimit <= MaxEnd /\ KernelStart >= LowLimit
      /\ PMM_MAX_PAGES \in Nat /\ PMM_MAX_PAGES >= 4
  BY PmmAssumption
<1>4. total_pages' \in 0..PMM_MAX_PAGES
  BY <1>1, <1>3, PagesFit
<1>5. 0..3 \subseteq Bits
  BY <1>3 DEF Bits
<1>6. PmmTypeOK'
  BY <1>1, <1>2, <1>3, <1>4, <1>5 DEF PmmTypeOK
<1>7. KernelWhole'
  BY <1>1, <1>3 DEF KernelWhole
<1>8. AvailableFreed'
  BY <1>1 DEF AvailableFreed
<1> QED BY <1>1, <1>2, <1>6, <1>7, <1>8 DEF PmmInv, BitmapExact

\* The boot is over: what is set is reserved, the kernel included.
LEMMA ReserveKernelStep ==
  ASSUME PmmInv, ReserveKernel
  PROVE  PmmInv'
<1> DEFINE span == Span(memory_start, KernelStart, KernelSize)
<1>1. /\ stage \in {"mapped", "fallback"} /\ stage' = "run"
      /\ bitmap' = IF KernelStart < memory_start THEN bitmap ELSE bitmap \union span
      /\ reserved' = bitmap'
      /\ mmap' = mmap /\ total_pages' = total_pages /\ memory_start' = memory_start /\ held' = held
  BY DEF ReserveKernel
<1>2. PmmTypeOK /\ held = {} /\ KernelWhole
  BY <1>1 DEF PmmInv, BitmapExact
<1>3. memory_start \in Nat /\ KernelStart \in Nat /\ KernelSize \in Nat \ {0}
  BY <1>2, PmmAssumption DEF PmmTypeOK
<1>4. KernelStart >= memory_start => span \in SUBSET Bits
  BY <1>3, SpanIs
<1>5. span' = span
  BY <1>1 DEF Span, Min
<1> HIDE DEF span
<1>6. bitmap' \subseteq Bits /\ (KernelStart >= memory_start => span \subseteq bitmap')
  BY <1>1, <1>2, <1>3, <1>4 DEF PmmTypeOK
<1>7. PmmTypeOK'
  BY <1>1, <1>2, <1>6 DEF PmmTypeOK, Pages
<1>8. KernelWhole' /\ AvailableFreed'
  BY <1>1, <1>2 DEF KernelWhole, AvailableFreed
<1>9. (stage = "run" /\ KernelStart >= memory_start =>
         Span(memory_start, KernelStart, KernelSize) \subseteq reserved)'
  BY <1>1, <1>5, <1>6 DEF span
<1> QED BY <1>1, <1>2, <1>7, <1>8, <1>9 DEF PmmInv, BitmapExact

\* The first free page is a free page.
LEMMA FirstFreeIsFree ==
  ASSUME NEW b, Free(b) # {}, total_pages \in Nat
  PROVE  FirstFree(b) \in Free(b) /\ FirstFree(b) \in Nat
<1>1. Free(b) \in SUBSET Nat
  BY DEF Free, Pages
<1> QED BY <1>1, LeastNat DEF FirstFree

\* Every operation of the running allocator moves pages between the free ones
\* and the ones held, and changes nothing else.
PagesMoved ==
  /\ stage = "run" /\ stage' = "run"
  /\ mmap' = mmap /\ total_pages' = total_pages /\ memory_start' = memory_start /\ reserved' = reserved
  /\ \/ \E run \in SUBSET Free(bitmap) : bitmap' = bitmap \union run /\ held' = held \union run
     \/ \E run \in SUBSET held : bitmap' = bitmap \ run /\ held' = held \ run

\* Moving pages keeps the invariant.
LEMMA MovedStep ==
  ASSUME PmmInv, PagesMoved
  PROVE  PmmInv'
<1>1. /\ PmmTypeOK /\ KernelWhole /\ bitmap = reserved \union held /\ reserved \intersect held = {}
      /\ KernelStart >= memory_start => Span(memory_start, KernelStart, KernelSize) \subseteq reserved
  BY DEF PmmInv, BitmapExact, PagesMoved
<1>2. /\ stage' = "run" /\ mmap' = mmap /\ total_pages' = total_pages
      /\ memory_start' = memory_start /\ reserved' = reserved
  BY DEF PagesMoved
<1>3. Pages' = Pages /\ Pages \subseteq Bits
  BY <1>1, <1>2, PmmAssumption DEF Pages, Bits, PmmTypeOK
<1>4. /\ bitmap' \subseteq Bits /\ held' \subseteq Pages
      /\ bitmap' = reserved \union held' /\ reserved \intersect held' = {}
  <2>1. CASE \E run \in SUBSET Free(bitmap) : bitmap' = bitmap \union run /\ held' = held \union run
    <3>1. PICK run \in SUBSET Free(bitmap) : bitmap' = bitmap \union run /\ held' = held \union run
      BY <2>1
    <3>2. run \subseteq Pages /\ run \intersect bitmap = {}
      BY DEF Free
    <3> QED BY <1>1, <1>3, <3>1, <3>2 DEF PmmTypeOK
  <2>2. CASE \E run \in SUBSET held : bitmap' = bitmap \ run /\ held' = held \ run
    BY <1>1, <1>3, <2>2 DEF PmmTypeOK
  <2> QED BY <2>1, <2>2 DEF PagesMoved
<1>5. PmmTypeOK'
  BY <1>1, <1>2, <1>3, <1>4 DEF PmmTypeOK
<1>6. KernelWhole' /\ AvailableFreed'
  BY <1>1, <1>2 DEF KernelWhole, AvailableFreed
<1>7. (stage = "run" /\ KernelStart >= memory_start =>
         Span(memory_start, KernelStart, KernelSize) \subseteq reserved)'
  <2>1. Span(memory_start, KernelStart, KernelSize)' = Span(memory_start, KernelStart, KernelSize)
    BY <1>2 DEF Span, Min
  <2> QED BY <1>1, <1>2, <2>1
<1> QED BY <1>2, <1>4, <1>5, <1>6, <1>7 DEF PmmInv, BitmapExact

\* alloc() takes the first free page.
LEMMA AllocMoves ==
  ASSUME PmmInv, Alloc
  PROVE  PagesMoved
<1>1. total_pages \in Nat
  BY PmmAssumption DEF PmmInv, BitmapExact, PmmTypeOK
<1>2. CASE Free(bitmap) = {}
  <2>1. bitmap' = bitmap \union {} /\ held' = held \union {} /\ {} \in SUBSET Free(bitmap)
    BY <1>2 DEF Alloc
  <2> QED BY Zenon, <2>1 DEF Alloc, PagesMoved
<1>3. CASE Free(bitmap) # {}
  <2>1. {FirstFree(bitmap)} \in SUBSET Free(bitmap)
    BY <1>1, <1>3, FirstFreeIsFree
  <2> QED BY Zenon, <1>3, <2>1 DEF Alloc, PagesMoved
<1> QED BY <1>2, <1>3

\* alloc_pages() takes a run of free pages or, giving back the run and the
\* page that broke it, nothing.
LEMMA AllocPagesMoves ==
  ASSUME PmmInv, NEW n, AllocPages(n)
  PROVE  PagesMoved
<1>1. total_pages \in Nat
  BY PmmAssumption DEF PmmInv, BitmapExact, PmmTypeOK
<1>2. ASSUME bitmap' = bitmap, held' = held PROVE PagesMoved
  <2>1. bitmap' = bitmap \union {} /\ held' = held \union {} /\ {} \in SUBSET Free(bitmap)
    BY <1>2
  <2> QED BY Zenon, <2>1 DEF AllocPages, PagesMoved
<1>3. CASE Free(bitmap) = {} /\ UNCHANGED <<bitmap, held>>
  BY <1>2, <1>3
<1>4. CASE AllocPagesFails(n) /\ UNCHANGED held
  <2>1. PICK i \in 1..(n - 1) :
          /\ Free(bitmap) # {}
          /\ RunFrom(FirstFree(bitmap), i)
          /\ LET run == FirstFree(bitmap)..(FirstFree(bitmap) + i - 1)
                 b == bitmap \union run
                 breaker == IF Free(b) = {} THEN {} ELSE {FirstFree(b)}
             IN bitmap' = ((b \union breaker) \ breaker) \ run
    BY Zenon, <1>4 DEF AllocPagesFails
  <2> DEFINE run == FirstFree(bitmap)..(FirstFree(bitmap) + i - 1)
             b == bitmap \union run
             breaker == IF Free(b) = {} THEN {} ELSE {FirstFree(b)}
  <2>2. run \subseteq Free(bitmap)
    BY <2>1 DEF RunFrom
  <2>3. bitmap' = ((b \union breaker) \ breaker) \ run
    BY <2>1
  <2>4. breaker \subseteq Free(b)
    BY Zenon, <1>1, FirstFreeIsFree
  <2> HIDE DEF run, breaker
  <2>5. bitmap' = bitmap
    BY <2>2, <2>3, <2>4 DEF Free
  <2> QED BY <1>2, <1>4, <2>5
<1>5. CASE /\ Free(bitmap) # {}
           /\ RunFrom(FirstFree(bitmap), n)
           /\ LET run == FirstFree(bitmap)..(FirstFree(bitmap) + n - 1)
              IN bitmap' = bitmap \union run /\ held' = held \union run
  <2> DEFINE run == FirstFree(bitmap)..(FirstFree(bitmap) + n - 1)
  <2>1. run \in SUBSET Free(bitmap)
    BY <1>5 DEF RunFrom
  <2>2. bitmap' = bitmap \union run /\ held' = held \union run
    BY <1>5
  <2> HIDE DEF run
  <2> QED BY Zenon, <2>1, <2>2 DEF AllocPages, PagesMoved
<1> QED BY <1>3, <1>4, <1>5 DEF AllocPages

\* free() gives back one page that was held.
LEMMA FreeMoves ==
  ASSUME NEW p, FreePage(p)
  PROVE  PagesMoved
<1>1. {p} \in SUBSET held
  BY DEF FreePage
<1> QED BY Zenon, <1>1 DEF FreePage, PagesMoved


\* The page allocator before anything is known of the memory.
LEMMA PmmStart ==
  ASSUME PmmInit
  PROVE  PmmInv
<1>1. PmmTypeOK
  BY PmmAssumption DEF PmmInit, PmmTypeOK
<1> QED BY <1>1 DEF PmmInit, PmmInv, BitmapExact, AvailableFreed

\* Every step keeps the invariant.
LEMMA PmmStep ==
  ASSUME PmmInv, [PmmNext]_pmmVars
  PROVE  PmmInv'
<1>1. CASE ApplyMmap
  BY <1>1, ApplyMmapStep
<1>2. CASE InitFallback
  BY <1>2, InitFallbackStep
<1>3. CASE ReserveKernel
  BY <1>3, ReserveKernelStep
<1>4. CASE Alloc
  BY <1>4, AllocMoves, MovedStep
<1>5. CASE \E n \in Counts : AllocPages(n)
  BY <1>5, AllocPagesMoves, MovedStep
<1>6. CASE \E p \in Pages : FreePage(p)
  BY <1>6, FreeMoves, MovedStep
<1>7. CASE UNCHANGED pmmVars
  BY <1>7 DEF pmmVars, PmmInv, BitmapExact, PmmTypeOK, AvailableFreed, KernelWhole, Pages, Bytes,
              Available, Span, Min
<1> QED BY <1>1, <1>2, <1>3, <1>4, <1>5, <1>6, <1>7 DEF PmmNext

\* The invariant of the page allocator holds for every memory map.
THEOREM PmmInvariance == PmmSpec => []PmmInv
<1>1. PmmInit => PmmInv
  BY PmmStart
<1>2. PmmInv /\ [PmmNext]_pmmVars => PmmInv'
  BY PmmStep
<1> QED BY <1>1, <1>2, PTL DEF PmmSpec

\* For every memory map and every sequence of calls the set bits are the pages
\* reserved at boot and those handed out: alloc, alloc_pages and free never
\* hand out a page twice, nor lose one.
THEOREM BitmapIsExact == PmmSpec => []BitmapExact
<1>1. PmmInv => BitmapExact
  BY DEF PmmInv
<1> QED BY <1>1, PmmInvariance, PTL

\* apply_mmap_to_pmm frees what is available and nothing else, for every memory
\* map a boot loader may pass.
THEOREM AvailableIsFreed == PmmSpec => []AvailableFreed
<1>1. PmmInv => AvailableFreed
  BY DEF PmmInv
<1> QED BY <1>1, PmmInvariance, PTL

\* A page in use never touches the kernel: the pages that do are reserved.
LEMMA KernelApart == PmmInv => KernelNotAllocated
<1> SUFFICES ASSUME PmmInv, NEW p \in held, NEW x \in Bytes(p) \intersect Kernel
             PROVE  FALSE
  BY DEF KernelNotAllocated
<1> DEFINE kend == KernelStart + KernelSize
           lo == memory_start + p * PAGE
           hi == memory_start + (p + 1) * PAGE
<1>1. /\ PmmTypeOK /\ reserved \intersect held = {} /\ KernelWhole
      /\ KernelStart >= memory_start => Span(memory_start, KernelStart, KernelSize) \subseteq reserved
  BY DEF PmmInv, BitmapExact, PmmTypeOK
<1>2. /\ memory_start \in Nat /\ mmap \in Maps /\ KernelStart \in Nat /\ KernelSize \in Nat \ {0}
      /\ PAGE \in Nat \ {0} /\ PMM_MAX_PAGES \in Nat
  BY <1>1, PmmAssumption DEF PmmTypeOK
<1>3. p \in Nat /\ p \in Bits
  BY <1>1, <1>2 DEF PmmTypeOK, Pages, Bits
<1>4. lo \in Nat /\ hi \in Nat /\ memory_start <= lo /\ kend \in Nat
  <2>1. p * PAGE \in Nat /\ (p + 1) * PAGE \in Nat
    BY <1>2, <1>3
  <2> QED BY <1>2, <2>1
<1>5. x \in lo..(hi - 1) /\ x \in KernelStart..(kend - 1)
  BY <1>2, <1>3, BytesAre DEF ByteNames, PageBytes
<1> HIDE DEF lo, hi, kend
<1>6. lo < kend /\ KernelStart < hi
  BY <1>2, <1>4, <1>5
<1>7. KernelStart >= memory_start
  BY <1>1, <1>2, <1>4, <1>6 DEF KernelWhole, kend
<1>8. Touches(p, memory_start, KernelStart, kend)
  BY <1>6 DEF Touches, lo, hi
<1>9. p \in Span(memory_start, KernelStart, KernelSize)
  BY <1>2, <1>3, <1>7, <1>8, SpanIs DEF kend
<1> QED BY <1>1, <1>7, <1>9

\* No page of the kernel image is ever handed out, wherever the image and the
\* first region lie.
THEOREM KernelIsSafe == PmmSpec => []KernelNotAllocated
BY KernelApart, PmmInvariance, PTL

-----------------------------------------------------------------------------
(* kernel_main *)

\* The boot as a whole keeps the page allocator's invariant, kmm::init's
\* alloc_pages included, and uses the heap and the processor as their modules
\* say, so that what is proved of each holds from power-on.
THEOREM BootKeepsModules == KernelSpec => []PmmInv /\ KmmSpec /\ CtxSpec
<1>1. KernelInit => PmmInv /\ KmmInit /\ CtxInit
  BY PmmStart DEF KernelInit
<1>2. PmmInv /\ [KernelNext]_kernelVars => PmmInv'
  <2> SUFFICES ASSUME PmmInv, [KernelNext]_kernelVars PROVE PmmInv'
    OBVIOUS
  <2>1. CASE HeapStart
    BY <2>1, AllocPagesMoves, MovedStep DEF HeapStart
  <2>2. CASE [PmmNext]_pmmVars
    BY <2>2, PmmStep
  <2>3. CASE PageStep
    BY <2>2, <2>3 DEF PageStep
  <2>4. CASE UNCHANGED pmmVars
    BY <2>2, <2>4
  <2> QED BY <2>1, <2>3, <2>4 DEF KernelNext, HeapStep, CpuStart, CpuStep, kernelVars
<1>3. [KernelNext]_kernelVars => [KmmNext]_kmmVars
  BY DEF KernelNext, PageStep, HeapStart, HeapStep, CpuStart, CpuStep, kernelVars
<1>4. [KernelNext]_kernelVars => [CtxNext]_ctxVars
  BY DEF KernelNext, PageStep, HeapStart, HeapStep, CpuStart, CpuStep, kernelVars
<1> QED BY <1>1, <1>2, <1>3, <1>4, PTL DEF KernelSpec, KmmSpec, CtxSpec

\* From power-on, the page allocator and the kernel heap are what kernel_main
\* and its tests rely on.
THEOREM BootIsSafe ==
  KernelSpec => [](/\ BitmapExact /\ KernelNotAllocated /\ AvailableFreed
                   /\ HeapTiled /\ SortedAndCoalesced)
<1>1. PmmInv => BitmapExact /\ AvailableFreed
  BY DEF PmmInv
<1> QED BY <1>1, KernelApart, BootKeepsModules, HeapIsTiled, ListIsCoalesced, PTL
=============================================================================
