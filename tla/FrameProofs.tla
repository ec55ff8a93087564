---------------------------- MODULE FrameProofs ----------------------------
(***************************************************************************)
(* The inductive invariant of module AddressSpace and what it rests on:    *)
(* the geometry of the page tables, trees that grow and shrink, and frames *)
(* that change hands, for every number of frames, processes and user pages *)
(* and every set of images.  The steps with which a call begins or ends    *)
(* keep it, and those that create an address space; the ones that map      *)
(* pages are in AddressSpaceProofs.                                        *)
(***************************************************************************)
EXTENDS AddressSpace, TLAPS

-----------------------------------------------------------------------------
(* Numbers *)

\* Multiples of a positive number.
LEMMA Multiples ==
  ASSUME NEW m \in Nat \ {0}, NEW a \in Int, NEW b \in Int
  PROVE  /\ a <= b => m * a <= m * b
         /\ a < b => m * a + m <= m * b
<1> DEFINE k == b - a
<1>1. k \in Int /\ m * k = m * b - m * a
  OBVIOUS
<1>2. a <= b => k >= 0
  OBVIOUS
<1>3. a < b => k >= 1
  OBVIOUS
<1> HIDE DEF k
<1>4. k >= 0 => m * k >= 0
  BY <1>1
<1>5. k >= 1 => m * k >= m
  BY <1>1
<1>6. m * a \in Int /\ m * b \in Int /\ m * k \in Int
  BY <1>1
<1> QED BY <1>1, <1>2, <1>3, <1>4, <1>5, <1>6

\* Division rounds down: x \div m is the only q with m * q <= x < m * q + m.
LEMMA Division ==
  ASSUME NEW m \in Nat \ {0}, NEW x \in Int, NEW q \in Int
  PROVE  /\ x \div m \in Int /\ m * (x \div m) <= x /\ x < m * (x \div m) + m
         /\ m * q <= x <=> q <= x \div m
         /\ x < m * q + m <=> x \div m <= q
<1> DEFINE d == x \div m
<1>1. d \in Int /\ x % m \in 0..(m - 1) /\ x = m * d + (x % m)
  OBVIOUS
<1> HIDE DEF d
<1>2. m * d \in Int /\ m * q \in Int /\ m * d <= x /\ x < m * d + m
  BY <1>1
<1>3. q <= d => m * q <= m * d
  BY <1>1, Multiples
<1>4. d < q => m * d + m <= m * q
  BY <1>1, Multiples
<1>5. d <= q => m * d <= m * q
  BY <1>1, Multiples
<1>6. q < d => m * q + m <= m * d
  BY <1>1, Multiples
<1> QED BY <1>1, <1>2, <1>3, <1>4, <1>5, <1>6 DEF d

\* A nonempty set of naturals has a least element.  The lemmas that rest on it
\* have it as a hypothesis; it is proved in AddressSpaceProofs (NatsOrdered).
Ordered == \A S \in SUBSET Nat : S # {} => \E x \in S : \A y \in S : x <= y

\* Rounding down to a multiple of m.
LEMMA Rounding ==
  ASSUME NEW m \in Nat \ {0}, NEW v \in Nat
  PROVE  /\ v \div m \in Int /\ v % m \in Int
         /\ v - (v % m) \in Nat /\ v - (v % m) = m * (v \div m) /\ v - (v % m) <= v
<1> DEFINE d == v \div m
           q == v % m
<1>1. d \in Int /\ q \in 0..(m - 1) /\ v = m * d + q
  OBVIOUS
<1>2. 0 <= d
  <2>1. m * 0 <= v
    OBVIOUS
  <2> QED BY <2>1, Division
<1> HIDE DEF d, q
<1>3. m * d \in Nat
  BY <1>1, <1>2
<1>4. v - q = m * d /\ v - q <= v
  BY <1>1, <1>3
<1> QED BY <1>1, <1>3, <1>4 DEF d, q

\* Rounding first to a divisor changes nothing.
LEMMA RoundTwice ==
  ASSUME NEW m \in Nat \ {0}, NEW c \in Nat \ {0}, NEW v \in Nat, NEW x \in Nat,
         x = v - (v % m)
  PROVE  x - (x % (m * c)) = v - (v % (m * c))
<1> DEFINE M == m * c
           q == v \div M
           d == v \div m
<1>1. M \in Nat \ {0}
  OBVIOUS
<1>2. x = m * d /\ x <= v /\ d \in Int
  BY Rounding
<1> HIDE DEF M, d
<1>3. q \in Int /\ M * q <= v /\ v < M * q + M
  BY <1>1, Division
<1> HIDE DEF q
<1>4. M * q = m * (c * q) /\ c * q \in Int
  BY <1>3 DEF M
<1>5. c * q <= d
  BY <1>3, <1>4, Division DEF d
<1>6. m * (c * q) <= m * d
  BY <1>2, <1>4, <1>5, Multiples
<1>7. M * q \in Int /\ M * q <= x /\ x < M * q + M
  BY <1>1, <1>2, <1>3, <1>4, <1>6
<1>8. x \div M = q
  <2>1. q <= x \div M /\ x \div M <= q /\ x \div M \in Int
    BY <1>1, <1>3, <1>7, Division
  <2> QED BY <1>3, <2>1
<1>9. x - (x % M) = M * q /\ v - (v % M) = M * q
  BY Zenon, <1>1, <1>8, Rounding DEF q
<1> QED BY <1>9 DEF M

-----------------------------------------------------------------------------
(* The inductive invariant *)

Owners == 0..NPROCS
Spots == Entries \union {<<5, i>> : i \in 0..(KSTACK_PAGES - 1)} \union {<<6, 0>>}

\* What owner p holds at spot e, by page tables s, kernel stack k and page g.
Spot(s, k, g, e) ==
  CASE e[1] <= 4 -> s[e]
    [] e[1] = 5 -> IF k = 0 THEN 0 ELSE k + e[2]
    [] e[1] = 6 -> g

\* The frame at every spot of every owner; owner 0 is the call in progress.
Held ==
  [p \in Owners |->
     [e \in Spots |-> IF p = 0 THEN Spot(op.root, op.kstack, op.page, e)
                      ELSE Spot(space[p], kstack[p], 0, e)]]

\* No frame is held twice and no frame that is held is free.
Excl(h, fr) ==
  \A p, q \in Owners : \A d, e \in Spots :
    h[p][d] # 0 => h[p][d] \notin fr /\ (h[p][d] = h[q][e] => p = q /\ d = e)

Tree == [Entries -> 0..NFRAMES]

\* Every entry that is present hangs below present tables.
Closed(s) == \A e \in Entries : s[e] # 0 => \A k \in 0..(e[1] - 1) : s[At(k, e[2])] # 0

\* The root and the table below it, which every address space has.
Rooted(s) == s[<<0, 0>>] # 0 /\ s[<<1, 0>>] # 0

StackFits(base) == base # 0 => base + KSTACK_PAGES <= NFRAMES + 1

Grows == {"brk", "mmap"}

OpType ==
  [call : {"none", "fork"} \union Execs \union Grows,
   step : {"none", "scratch", "create", "load", "stack", "grow", "halted"},
   p : Owners, root : Tree, page : 0..NFRAMES,
   todo : Seq(UserPages \union {KERNEL_SCRATCH}), stack : Seq(UserPages),
   tracked : SUBSET UserPages, claimed : 0..CHUNK_COUNT, used : Nat,
   kstack : 0..NFRAMES, made : SUBSET ScratchTables, brk : 0..BRK_MAX,
   before : SUBSET Frames, parent : Tree]

TypeInv ==
  /\ free \subseteq Frames
  /\ space \in [Procs -> Tree]
  /\ kstack \in [Procs -> 0..NFRAMES]
  /\ brk \in [Procs -> 0..BRK_MAX]
  /\ pool \in 0..CHUNK_COUNT
  /\ op \in OpType

\* Which calls are in which steps, and who makes them.
CallInv ==
  /\ op.call = "none" => op = Idle
  /\ op.call # "none" => op.p \in Procs /\ Live(op.p)
  /\ op.call = "fork" => op.step \in {"scratch", "create"} /\ op.kstack # 0
  /\ op.call \in Execs => /\ op.step \in {"create", "load", "stack"}
                          /\ op.kstack = 0 /\ op.todo \in Seq(UserPages)
  /\ op.call \in Grows => op.step \in {"grow", "halted"} /\ op.kstack = 0
  /\ op.page # 0 => op.todo # <<>> /\ op.step \notin {"scratch", "create"}

\* Chunks are claimed by an ELF load in progress, or free.
PoolInv ==
  /\ pool + op.claimed = CHUNK_COUNT
  /\ op.claimed # 0 => op.call = "elf" /\ op.step = "load"

\* The trees are trees, and the break of a process is in its range.
TreeInv ==
  /\ \A p \in Procs : Closed(space[p])
  /\ Closed(op.root)
  /\ \A p \in Procs : Live(p) => Rooted(space[p]) /\ brk[p] \in BRK_START..BRK_MAX
  /\ op.call \in Execs /\ op.step # "create" => Rooted(op.root)
  /\ op.call \in Grows => op.brk \in BRK_START..BRK_MAX

OwnInv ==
  /\ \A p \in Procs : StackFits(kstack[p])
  /\ StackFits(op.kstack)
  /\ Excl(Held, free)

\* Where the frames of an exec came from.
ExecInv ==
  op.call \in Execs =>
    /\ op.before = free \union FramesOf(op.root) \union ({op.page} \ {0})
    /\ op.page # 0 => op.root[At(4, Page)] = 0

\* What fork added to its parent.
ForkInv ==
  op.call = "fork" =>
    /\ Closed(op.parent)
    /\ op.parent = Cleared(space[op.p], op.made)
    /\ \A e \in op.made : op.parent[e] = 0 /\ space[op.p][e] # 0

SpaceInv == TypeInv /\ CallInv /\ PoolInv /\ TreeInv /\ OwnInv /\ ExecInv /\ ForkInv

-----------------------------------------------------------------------------
(* The tree of entries *)

\* The tables nest: the span of a table divides that of the one above it.
LEMMA Spans ==
  ASSUME NEW j \in 2..4, NEW k \in 2..4, k <= j
  PROVE  Span(j) \in Nat \ {0} /\ Span(k) \in Nat \ {0}
           /\ \E c \in Nat \ {0} : Span(k) = Span(j) * c
<1>1. Span(4) = 1 /\ Span(3) = PT_PAGES /\ Span(2) = PD_PAGES
  BY DEF Span
<1>2. PT_PAGES \in Nat \ {0} /\ PD_PAGES \in Nat \ {0} /\ PD_PAGES % PT_PAGES = 0
  BY SpaceAssumption DEF Divides
<1>3. \E c \in Nat \ {0} : PD_PAGES = PT_PAGES * c
  <2> DEFINE c == PD_PAGES \div PT_PAGES
  <2>1. c \in Int /\ PD_PAGES = PT_PAGES * c
    BY <1>2, Rounding
  <2>2. PT_PAGES * 1 <= PD_PAGES
    <3>1. CASE c >= 1
      BY <1>2, <2>1, Multiples
    <3>2. CASE c <= 0
      <4>1. PT_PAGES * c <= PT_PAGES * 0
        BY <1>2, <2>1, <3>2, Multiples
      <4> QED BY <1>2, <2>1, <4>1
    <3> QED BY <2>1, <3>1, <3>2
  <2>3. 1 <= c
    BY <1>2, <2>2, Division
  <2> QED BY <2>1, <2>3
<1>4. CASE j = k
  BY <1>1, <1>2, <1>4
<1>5. CASE j = 4
  BY <1>1, <1>2, <1>5
<1>6. CASE j = 3 /\ k = 2
  BY Zenon, <1>1, <1>2, <1>3, <1>6
<1> QED BY <1>4, <1>5, <1>6

\* The entry of a level on the walk to a page.
LEMMA AtType ==
  ASSUME NEW k \in 0..4, NEW v \in Nat
  PROVE  /\ At(k, v)[1] = k /\ At(k, v)[2] \in Nat /\ At(k, v)[2] <= v
         /\ At(k, v) = <<k, At(k, v)[2]>>
         /\ k < 2 => At(k, v) = <<k, 0>>
         /\ At(4, v) = <<4, v>>
<1>1. CASE k < 2
  BY <1>1, Rounding DEF At, Span
<1>2. CASE k >= 2
  <2>1. Span(k) \in Nat \ {0}
    BY <1>2, Spans
  <2>2. At(k, v) = <<k, v - (v % Span(k))>>
    BY <1>2 DEF At
  <2>3. At(4, v) = <<4, v>>
    <3>1. At(4, v) = <<4, v - (v % 1)>> /\ v % 1 = 0
      BY DEF At, Span
    <3> QED BY <3>1
  <2> DEFINE w == v - (v % Span(k))
  <2>4. w \in Nat /\ w <= v
    BY Zenon, <2>1, Rounding
  <2> HIDE DEF w
  <2>5. At(k, v) = <<k, w>>
    BY <2>2 DEF w
  <2> QED BY <1>2, <2>3, <2>4, <2>5
<1> QED BY <1>1, <1>2

\* The walk to an entry is the beginning of the walk to every page below it.
LEMMA AtAt ==
  ASSUME NEW j \in 0..4, NEW k \in 0..4, k <= j, NEW v \in Nat
  PROVE  At(k, At(j, v)[2]) = At(k, v)
<1>1. CASE k < 2
  BY <1>1 DEF At
<1>2. CASE k >= 2
  <2> DEFINE x == At(j, v)[2]
  <2>1. PICK c \in Nat \ {0} : Span(k) = Span(j) * c
    BY <1>2, Spans
  <2>2. Span(j) \in Nat \ {0}
    BY <1>2, Spans
  <2>3. x = v - (v % Span(j)) /\ x \in Nat
    BY <1>2, AtType DEF At
  <2> HIDE DEF x
  <2>4. x - (x % Span(k)) = v - (v % Span(k))
    BY <2>1, <2>2, <2>3, RoundTwice
  <2>5. At(k, x) = At(k, v)
    BY <1>2, <2>4 DEF At
  <2> QED BY <2>5 DEF x
<1> QED BY <1>1, <1>2

\* The pages that a walk is made for.
LEMMA PageTypes ==
  /\ UserPages \subseteq Nat /\ USER_CODE \in Nat /\ KERNEL_SCRATCH \in Nat
  /\ \A v \in UserPages : \A k \in 0..4 : At(k, v) \in Entries
  /\ \A k \in 2..3 : At(k, KERNEL_SCRATCH) \in Entries
  /\ <<0, 0>> \in Entries /\ <<1, 0>> \in Entries
<1>1. UserPages \subseteq Nat /\ USER_CODE \in Nat /\ KERNEL_SCRATCH \in Nat
  BY SpaceAssumption DEF KERNEL_SCRATCH
<1>2. At(0, USER_CODE) \in Entries /\ At(1, USER_CODE) \in Entries
  BY DEF Entries
<1>3. At(0, USER_CODE) = <<0, 0>> /\ At(1, USER_CODE) = <<1, 0>>
  BY <1>1, AtType
<1> QED BY <1>1, <1>2, <1>3 DEF Entries

\* An entry is given by its level and its first page; its walk is in the tree.
LEMMA EntryFacts ==
  ASSUME NEW e \in Entries
  PROVE  /\ e[1] \in 0..4 /\ e[2] \in Nat /\ e = <<e[1], e[2]>>
         /\ At(e[1], e[2]) = e
         /\ \A k \in 0..4 : k <= e[1] => At(k, e[2]) \in Entries
<1>1. ASSUME NEW k \in 0..4, NEW v \in UserPages \union {USER_CODE}, e = At(k, v)
      PROVE  /\ e[1] \in 0..4 /\ e[2] \in Nat /\ e = <<e[1], e[2]>>
             /\ At(e[1], e[2]) = e
             /\ \A i \in 0..4 : i <= e[1] => At(i, e[2]) \in Entries
  <2>1. v \in Nat
    BY PageTypes
  <2>2. e[1] = k /\ e[2] \in Nat /\ e = <<e[1], e[2]>>
    BY <1>1, <2>1, AtType
  <2>3. \A i \in 0..4 : i <= k => At(i, e[2]) = At(i, v)
    BY <1>1, <2>1, AtAt
  <2>4. \A i \in 0..4 : At(i, v) \in Entries
    BY DEF Entries
  <2> QED BY <1>1, <2>2, <2>3, <2>4
<1>2. ASSUME NEW k \in 2..3, e = At(k, KERNEL_SCRATCH)
      PROVE  /\ e[1] \in 0..4 /\ e[2] \in Nat /\ e = <<e[1], e[2]>>
             /\ At(e[1], e[2]) = e
             /\ \A i \in 0..4 : i <= e[1] => At(i, e[2]) \in Entries
  <2>1. KERNEL_SCRATCH \in Nat /\ k \in 0..4
    BY PageTypes
  <2>2. e[1] = k /\ e[2] \in Nat /\ e = <<e[1], e[2]>>
    BY <1>2, <2>1, AtType
  <2>3. \A i \in 0..4 : i <= k => At(i, e[2]) = At(i, KERNEL_SCRATCH)
    BY <1>2, <2>1, AtAt
  <2>4. \A i \in 0..4 : i <= 3 => At(i, KERNEL_SCRATCH) \in Entries
    <3>1. At(0, KERNEL_SCRATCH) = <<0, 0>> /\ At(1, KERNEL_SCRATCH) = <<1, 0>>
      BY <2>1, AtType
    <3> QED BY <3>1, PageTypes
  <2> QED BY <1>2, <2>2, <2>3, <2>4
<1> QED BY <1>1, <1>2 DEF Entries

\* A walk meets a table before what is below it.
LEMMA AncestorFirst ==
  ASSUME NEW e \in Entries, NEW k \in 0..4, k < e[1]
  PROVE  /\ At(k, e[2])[1] = k /\ At(k, e[2])[2] \in Nat
         /\ Rank(At(k, e[2])) < Rank(e) /\ Rank(e) \in Nat
<1>1. e[1] \in 0..4 /\ e[2] \in Nat
  BY EntryFacts
<1>2. At(k, e[2])[1] = k /\ At(k, e[2])[2] \in Nat /\ At(k, e[2])[2] <= e[2]
  BY Zenon, <1>1, AtType
<1> QED BY <1>1, <1>2 DEF Rank

\* First picks an element of the least rank.
LEMMA FirstIs ==
  ASSUME Ordered, NEW E, E \subseteq Entries, E # {}
  PROVE  First(E) \in E /\ \A f \in E : Rank(First(E)) <= Rank(f)
<1> DEFINE R == {Rank(e) : e \in E}
<1>1. R \subseteq Nat
  BY EntryFacts DEF Rank
<1>2. R # {}
  OBVIOUS
<1>3. PICK x \in R : \A y \in R : x <= y
  <2> HIDE DEF R
  <2> QED BY Zenon, <1>1, <1>2 DEF Ordered
<1>4. \E e \in E : \A f \in E : Rank(e) <= Rank(f)
  BY <1>3
<1> QED BY <1>4 DEF First

\* alloc returns a free frame.
LEMMA NextIsFree ==
  ASSUME Ordered, free \subseteq Frames, free # {}
  PROVE  NextFrame \in free /\ NextFrame \in Nat /\ NextFrame # 0 /\ NextFrame \in 0..NFRAMES
<1>1. free \subseteq Nat
  BY SpaceAssumption DEF Frames
<1>2. \E x \in free : \A y \in free : x <= y
  BY Zenon, <1>1 DEF Ordered
<1>3. NextFrame \in free
  BY <1>2 DEF NextFrame, Min
<1> QED BY <1>1, <1>3, SpaceAssumption DEF Frames

-----------------------------------------------------------------------------
(* Frames that change hands *)

\* Owner c takes free frames for its spots D.
Takes(h, g, fr, gr, c, D) ==
  /\ D \subseteq Spots /\ gr \subseteq fr
  /\ \A p \in Owners : \A e \in Spots : ~(p = c /\ e \in D) => g[p][e] = h[p][e]
  /\ \A d \in D : g[c][d] \in fr \ gr
  /\ \A d, e \in D : g[c][d] = g[c][e] => d = e

\* Spots are cleared, and only what they held becomes free.
Gives(h, g, fr, gr) ==
  /\ \A p \in Owners : \A e \in Spots : g[p][e] = 0 \/ g[p][e] = h[p][e]
  /\ \A f \in gr : f \in fr \/ \E p \in Owners : \E e \in Spots : h[p][e] = f /\ g[p][e] = 0

\* Owner 0 hands over to c; other spots may be cleared and freed.
HandsOver(h, g, fr, gr, c) ==
  /\ \A e \in Spots : g[0][e] = 0
  /\ \A p \in Owners : p # c => \A e \in Spots : g[p][e] = 0 \/ g[p][e] = h[p][e]
  /\ \A e \in Spots : g[c][e] = 0 \/ g[c][e] = h[0][e] \/ g[c][e] = h[c][e]
  /\ \A f \in gr : f \in fr
                   \/ \E p \in Owners \ {0} : \E e \in Spots : h[p][e] = f /\ g[p][e] = 0

\* The page in hand becomes entry d of owner c.
Places(h, g, c, d) ==
  /\ g[0][<<6, 0>>] = 0
  /\ g[c][d] = h[0][<<6, 0>>]
  /\ \A p \in Owners : \A e \in Spots :
       ~(p = c /\ e = d) /\ ~(p = 0 /\ e = <<6, 0>>) => g[p][e] = h[p][e]

\* Taking free frames keeps owners apart.
LEMMA ExclTakes ==
  ASSUME NEW h, NEW g, NEW fr, NEW gr, NEW c \in Owners, NEW D,
         Excl(h, fr), Takes(h, g, fr, gr, c, D)
  PROVE  Excl(g, gr)
<1> SUFFICES ASSUME NEW p \in Owners, NEW q \in Owners, NEW d \in Spots, NEW e \in Spots,
                    g[p][d] # 0
             PROVE  g[p][d] \notin gr /\ (g[p][d] = g[q][e] => p = q /\ d = e)
  BY DEF Excl
<1>1. CASE p = c /\ d \in D
  <2>1. CASE q = c /\ e \in D
    BY <1>1, <2>1 DEF Takes
  <2>2. CASE ~(q = c /\ e \in D)
    <3>1. g[q][e] = h[q][e]
      BY <2>2 DEF Takes
    <3>2. g[p][d] \in fr \ gr
      BY <1>1 DEF Takes
    <3> QED BY <3>1, <3>2 DEF Excl
  <2> QED BY <2>1, <2>2
<1>2. CASE ~(p = c /\ d \in D)
  <2>1. g[p][d] = h[p][d] /\ h[p][d] \notin fr /\ h[p][d] \notin gr
    BY <1>2 DEF Takes, Excl
  <2>2. CASE q = c /\ e \in D
    BY <2>1, <2>2 DEF Takes
  <2>3. CASE ~(q = c /\ e \in D)
    BY <2>1, <2>3 DEF Takes, Excl
  <2> QED BY <2>2, <2>3
<1> QED BY <1>1, <1>2

\* Giving back what is cleared keeps owners apart.
LEMMA ExclGives ==
  ASSUME NEW h, NEW g, NEW fr, NEW gr, Excl(h, fr), Gives(h, g, fr, gr)
  PROVE  Excl(g, gr)
<1> SUFFICES ASSUME NEW p \in Owners, NEW q \in Owners, NEW d \in Spots, NEW e \in Spots,
                    g[p][d] # 0
             PROVE  g[p][d] \notin gr /\ (g[p][d] = g[q][e] => p = q /\ d = e)
  BY DEF Excl
<1>1. g[p][d] = h[p][d] /\ h[p][d] # 0 /\ h[p][d] \notin fr
  BY DEF Gives, Excl
<1>2. g[p][d] \notin gr
  BY <1>1 DEF Gives, Excl
<1>3. g[q][e] = 0 \/ g[q][e] = h[q][e]
  BY DEF Gives
<1> QED BY <1>1, <1>2, <1>3 DEF Excl

\* Handing over keeps owners apart.
LEMMA ExclHandsOver ==
  ASSUME NEW h, NEW g, NEW fr, NEW gr, NEW c \in Owners \ {0},
         Excl(h, fr), HandsOver(h, g, fr, gr, c)
  PROVE  Excl(g, gr)
<1> SUFFICES ASSUME NEW p \in Owners, NEW q \in Owners, NEW d \in Spots, NEW e \in Spots,
                    g[p][d] # 0
             PROVE  g[p][d] \notin gr /\ (g[p][d] = g[q][e] => p = q /\ d = e)
  BY DEF Excl
<1>0. 0 \in Owners
  BY SpaceAssumption DEF Owners
<1>9. ASSUME NEW x \in Owners, NEW y \in Spots, g[x][y] # 0
      PROVE  x # 0 /\ (g[x][y] = h[x][y] \/ (x = c /\ g[x][y] = h[0][y]))
  <2>1. x # 0
    BY <1>9 DEF HandsOver
  <2>2. CASE x = c
    <3>1. g[c][y] = 0 \/ g[c][y] = h[0][y] \/ g[c][y] = h[c][y]
      BY DEF HandsOver
    <3> QED BY <1>9, <2>1, <2>2, <3>1
  <2>3. CASE x # c
    <3>1. g[x][y] = 0 \/ g[x][y] = h[x][y]
      BY <2>3 DEF HandsOver
    <3> QED BY <1>9, <2>1, <2>3, <3>1
  <2> QED BY <2>2, <2>3
<1>1. p # 0 /\ (g[p][d] = h[p][d] \/ (p = c /\ g[p][d] = h[0][d]))
  BY <1>9
<1>2. h[0][d] = g[p][d] \/ h[p][d] = g[p][d]
  BY <1>1
<1>3. g[p][d] \notin gr
  <2>1. g[p][d] \notin fr
    BY <1>0, <1>2 DEF Excl
  <2>2. ASSUME NEW a \in Owners \ {0}, NEW b \in Spots, h[a][b] = g[p][d], g[a][b] = 0
        PROVE  FALSE
    BY <1>0, <1>1, <2>2 DEF Excl
  <2> QED BY <2>1, <2>2 DEF HandsOver
<1>4. ASSUME g[p][d] = g[q][e]
      PROVE  p = q /\ d = e
  <2>1. q # 0 /\ (g[q][e] = h[q][e] \/ (q = c /\ g[q][e] = h[0][e]))
    BY <1>4, <1>9
  <2>2. ASSUME NEW x \in Owners, NEW y \in Owners, h[x][d] = h[y][e], h[x][d] # 0
        PROVE  x = y /\ d = e
    BY <2>2 DEF Excl
  <2>3. CASE g[p][d] = h[p][d]
    BY <1>0, <1>1, <1>4, <2>1, <2>2, <2>3
  <2>4. CASE p = c /\ g[p][d] = h[0][d]
    BY <1>0, <1>1, <1>4, <2>1, <2>2, <2>4
  <2> QED BY <1>1, <2>3, <2>4
<1> QED BY <1>3, <1>4

\* Mapping the page in hand keeps owners apart.
LEMMA ExclPlaces ==
  ASSUME NEW h, NEW g, NEW fr, NEW c \in Owners, NEW d \in Entries,
         Excl(h, fr), Places(h, g, c, d)
  PROVE  Excl(g, fr)
<1> SUFFICES ASSUME NEW p \in Owners, NEW q \in Owners, NEW a \in Spots, NEW b \in Spots,
                    g[p][a] # 0
             PROVE  g[p][a] \notin fr /\ (g[p][a] = g[q][b] => p = q /\ a = b)
  BY DEF Excl
<1>0. 0 \in Owners /\ <<6, 0>> \in Spots /\ d \in Spots /\ d # <<6, 0>>
  BY SpaceAssumption, EntryFacts DEF Owners, Spots
<1>1. CASE p = c /\ a = d
  <2>1. g[p][a] = h[0][<<6, 0>>]
    BY <1>1 DEF Places
  <2>2. CASE ~(q = c /\ b = d) /\ ~(q = 0 /\ b = <<6, 0>>)
    BY <1>0, <2>1, <2>2 DEF Places, Excl
  <2> QED BY <1>0, <1>1, <2>1, <2>2 DEF Places, Excl
<1>2. CASE ~(p = c /\ a = d)
  <2>1. g[p][a] = h[p][a] /\ ~(p = 0 /\ a = <<6, 0>>)
    BY <1>2 DEF Places
  <2>2. CASE q = c /\ b = d
    BY <1>0, <2>1, <2>2 DEF Places, Excl
  <2>3. CASE ~(q = c /\ b = d)
    BY <1>0, <2>1, <2>3 DEF Places, Excl
  <2> QED BY <2>2, <2>3
<1> QED BY <1>1, <1>2

-----------------------------------------------------------------------------
(* Trees that grow and shrink *)

\* The entries M, once s has those above them, hang below present tables.
Hangs(s, M) ==
  \A e \in M : \A k \in 0..(e[1] - 1) : At(k, e[2]) \in M \/ s[At(k, e[2])] # 0

\* Nothing that stays is below what goes.
Prunes(s, E) == \A e \in E : \A f \in Mapped(s) \ E : ~Beneath(e, f)

\* The first of the entries that are missing can be added.
LEMMA FirstHangs ==
  ASSUME Ordered, NEW s, NEW M, M \subseteq Entries, M # {}, Hangs(s, M)
  PROVE  /\ First(M) \in M
         /\ \A k \in 0..(First(M)[1] - 1) : s[At(k, First(M)[2])] # 0
<1> DEFINE e == First(M)
<1>1. e \in M /\ \A f \in M : Rank(e) <= Rank(f)
  BY FirstIs
<1> HIDE DEF e
<1>2. e \in Entries /\ e[1] \in 0..4
  BY <1>1, EntryFacts
<1>3. ASSUME NEW k \in 0..(e[1] - 1)
      PROVE  s[At(k, e[2])] # 0
  <2>1. k \in 0..4 /\ k < e[1]
    BY <1>2
  <2>2. Rank(At(k, e[2])) < Rank(e) /\ Rank(e) \in Nat /\ Rank(At(k, e[2])) \in Nat
    BY <1>2, <2>1, AncestorFirst DEF Rank
  <2>3. At(k, e[2]) \notin M
    BY <1>1, <2>2
  <2> QED BY <1>1, <2>3 DEF Hangs
<1> QED BY <1>1, <1>3 DEF e

\* Adding an entry below present tables.
LEMMA AddEntry ==
  ASSUME NEW s \in Tree, Closed(s), NEW e \in Entries, NEW f \in 0..NFRAMES, f # 0,
         \A k \in 0..(e[1] - 1) : s[At(k, e[2])] # 0
  PROVE  /\ [s EXCEPT ![e] = f] \in Tree
         /\ Closed([s EXCEPT ![e] = f])
         /\ Rooted(s) => Rooted([s EXCEPT ![e] = f])
<1> DEFINE t == [s EXCEPT ![e] = f]
<1>1. t \in Tree
  BY DEF Tree
<1>2. \A d \in Entries : t[d] = IF d = e THEN f ELSE s[d]
  BY DEF Tree
<1> HIDE DEF t
<1>3. \A d \in Entries : s[d] # 0 => t[d] # 0
  BY <1>2
<1>4. ASSUME NEW d \in Entries, t[d] # 0, NEW k \in 0..(d[1] - 1)
      PROVE  t[At(k, d[2])] # 0
  <2>1. At(k, d[2]) \in Entries
    BY EntryFacts
  <2>2. s[At(k, d[2])] # 0
    <3>1. CASE d = e
      BY <1>4, <3>1
    <3>2. CASE d # e
      BY <1>2, <1>4, <3>2 DEF Closed
    <3> QED BY <3>1, <3>2
  <2> QED BY <1>3, <2>1, <2>2
<1>5. Closed(t)
  BY <1>4 DEF Closed
<1>6. Rooted(s) => Rooted(t)
  BY <1>3, PageTypes DEF Rooted
<1> QED BY <1>1, <1>5, <1>6 DEF t

\* Removing entries that nothing hangs below.
LEMMA Prune ==
  ASSUME NEW s \in Tree, Closed(s), NEW E, Prunes(s, E)
  PROVE  Cleared(s, E) \in Tree /\ Closed(Cleared(s, E))
<1> DEFINE t == Cleared(s, E)
<1>1. t \in Tree
  BY SpaceAssumption DEF Tree, Cleared
<1>2. \A d \in Entries : t[d] = IF d \in E THEN 0 ELSE s[d]
  BY DEF Cleared
<1> HIDE DEF t
<1>3. ASSUME NEW d \in Entries, t[d] # 0, NEW k \in 0..(d[1] - 1)
      PROVE  t[At(k, d[2])] # 0
  <2> DEFINE a == At(k, d[2])
  <2>1. d[1] \in 0..4 /\ d[2] \in Nat /\ k \in 0..4
    BY EntryFacts
  <2>2. a \in Entries /\ a[1] = k
    BY <2>1, EntryFacts, AtType
  <2>3. d \notin E /\ d \in Mapped(s)
    BY <1>2, <1>3 DEF Mapped
  <2>4. s[a] # 0
    BY <2>3 DEF Closed, Mapped
  <2>5. Beneath(a, d)
    BY <2>1, <2>2 DEF Beneath
  <2>6. a \notin E
    BY <2>3, <2>5 DEF Prunes
  <2> QED BY <1>2, <2>2, <2>4, <2>6
<1>4. Closed(t)
  BY <1>3 DEF Closed
<1> QED BY <1>1, <1>4 DEF t

\* The walk that destroys a closed tree finds every frame.
LEMMA WalkAll ==
  ASSUME NEW s, Closed(s)
  PROVE  Walk(s) = Mapped(s) /\ Destroyed(s) = FramesOf(s)
<1>1. Walk(s) = Mapped(s)
  BY DEF Walk, Mapped, Closed
<1> QED BY <1>1 DEF Destroyed, FramesOf

\* cleanup_kernel_scratch removes empty tables only.
LEMMA ScratchPrunes ==
  ASSUME NEW s, NEW made
  PROVE  Prunes(s, ScratchLeft(s, made)) /\ ScratchLeft(s, made) \subseteq made
BY DEF Prunes, ScratchLeft

\* LoadedPages::rollback removes its pages and empty tables only.
LEMMA RollbackPrunes ==
  ASSUME NEW s, NEW tracked \in SUBSET UserPages
  PROVE  Prunes(s, {At(4, v) : v \in tracked} \union Emptied(s, tracked))
<1> DEFINE L == {At(4, v) : v \in tracked}
           u == Cleared(s, L)
           E == L \union Emptied(s, tracked)
<1>1. Mapped(s) \ E \subseteq Mapped(u)
  BY DEF Mapped, Cleared
<1>2. ASSUME NEW e \in L, NEW f \in Mapped(s) \ E
      PROVE  ~Beneath(e, f)
  <2>1. e[1] = 4
    <3>1. PICK v \in tracked : e = At(4, v)
      OBVIOUS
    <3>2. v \in UserPages /\ UserPages \subseteq Nat
      BY PageTypes
    <3>3. v \in Nat
      BY <3>2
    <3>4. 4 \in 0..4
      OBVIOUS
    <3> QED BY <3>1, <3>3, <3>4, AtType
  <2>2. f[1] \in 0..4
    BY EntryFacts DEF Mapped
  <2> QED BY <2>1, <2>2 DEF Beneath
<1>3. ASSUME NEW e \in Emptied(s, tracked), NEW f \in Mapped(s) \ E
      PROVE  ~Beneath(e, f)
  BY Zenon, <1>1 DEF Emptied
<1> QED BY <1>2, <1>3 DEF Prunes

\* What create_pml4 wants hangs together.
LEMMA WantedHangs ==
  ASSUME NEW s, Closed(s), NEW copy \in BOOLEAN, NEW t
  PROVE  Hangs(t, Wanted(s, copy) \ Mapped(t)) /\ Wanted(s, copy) \subseteq Entries
<1> DEFINE B == At(2, KERNEL_SCRATCH)
<1>0. Wanted(s, copy) \subseteq Entries
  BY DEF Wanted, Mapped
<1>1. ASSUME NEW e \in Wanted(s, copy), NEW k \in 0..(e[1] - 1)
      PROVE  At(k, e[2]) \in Wanted(s, copy)
  <2> DEFINE a == At(k, e[2])
  <2>1. e \in Entries /\ s[e] # 0 /\ e # B /\ ~Beneath(B, e) /\ (copy \/ e[1] <= 2)
    BY DEF Wanted, Mapped
  <2>2. e[1] \in 0..4 /\ e[2] \in Nat /\ k \in 0..4
    BY <2>1, EntryFacts
  <2>3. a \in Entries /\ a[1] = k /\ s[a] # 0
    BY <2>1, <2>2, EntryFacts, AtType DEF Closed
  <2>4. B[1] = 2
    BY PageTypes, AtType
  <2>5. 2 <= k => At(2, a[2]) = At(2, e[2])
    BY <2>2, AtAt
  <2>6. a # B /\ ~Beneath(B, a)
    BY <2>1, <2>2, <2>3, <2>4, <2>5 DEF Beneath
  <2>7. copy \/ a[1] <= 2
    BY <2>1, <2>2, <2>3
  <2> QED BY <2>3, <2>6, <2>7 DEF Wanted, Mapped
<1> QED BY <1>0, <1>1 DEF Hangs, Mapped

\* The tables on the walk to a page hang below the root.
LEMMA TablesHang ==
  ASSUME NEW t, Rooted(t), NEW v \in UserPages \union {KERNEL_SCRATCH}
  PROVE  /\ Hangs(t, {At(k, v) : k \in 2..3} \ Mapped(t))
         /\ {At(k, v) : k \in 2..3} \subseteq Entries
<1> DEFINE T == {At(k, v) : k \in 2..3}
<1>0. v \in Nat /\ T \subseteq Entries
  BY PageTypes
<1>1. ASSUME NEW j \in 2..3, NEW k \in 0..(At(j, v)[1] - 1)
      PROVE  At(k, At(j, v)[2]) \in T \/ t[At(k, At(j, v)[2])] # 0
  <2>1. At(j, v)[1] = j /\ k \in 0..4 /\ k < j
    <3>1. j \in 0..4
      OBVIOUS
    <3>2. At(j, v)[1] = j
      BY Zenon, <1>0, <3>1, AtType
    <3> QED BY <3>2
  <2>2. At(k, At(j, v)[2]) = At(k, v)
    BY <1>0, <2>1, AtAt
  <2>3. CASE k < 2
    BY <1>0, <2>1, <2>2, <2>3, AtType DEF Rooted
  <2>4. CASE k >= 2
    BY <2>1, <2>2, <2>4
  <2> QED BY <2>1, <2>3, <2>4
<1> QED BY <1>0, <1>1 DEF Hangs, Mapped

-----------------------------------------------------------------------------
(* Who holds what *)

\* What is at a spot.
LEMMA SpotIs ==
  ASSUME NEW s, NEW k, NEW g
  PROVE  /\ \A e \in Entries : e \in Spots /\ Spot(s, k, g, e) = s[e]
         /\ \A i \in 0..(KSTACK_PAGES - 1) :
              <<5, i>> \in Spots /\ Spot(s, k, g, <<5, i>>) = IF k = 0 THEN 0 ELSE k + i
         /\ <<6, 0>> \in Spots /\ Spot(s, k, g, <<6, 0>>) = g
<1>1. \A e \in Entries : e \in Spots /\ e[1] <= 4
  BY EntryFacts DEF Spots
<1>2. \A e \in Entries : Spot(s, k, g, e) = s[e]
  BY <1>1 DEF Spot
<1>3. ASSUME NEW i \in 0..(KSTACK_PAGES - 1)
      PROVE  <<5, i>> \in Spots /\ Spot(s, k, g, <<5, i>>) = IF k = 0 THEN 0 ELSE k + i
  BY DEF Spots, Spot
<1>4. <<6, 0>> \in Spots /\ Spot(s, k, g, <<6, 0>>) = g
  BY DEF Spots, Spot
<1> QED BY <1>1, <1>2, <1>3, <1>4

\* The kinds of spots.
LEMMA SpotKinds ==
  ASSUME NEW e \in Spots
  PROVE  \/ e \in Entries /\ e[1] \in 0..4 /\ e # <<6, 0>>
         \/ e[1] = 5 /\ e \notin Entries /\ e # <<6, 0>>
              /\ \E i \in 0..(KSTACK_PAGES - 1) : e = <<5, i>>
         \/ e[1] = 6 /\ e = <<6, 0>> /\ e \notin Entries
BY EntryFacts DEF Spots

\* An address space with one entry more.
With(s, d, f) == [s EXCEPT ![d] = f]

\* Its spots.
LEMMA SpotEntry ==
  ASSUME NEW s \in Tree, NEW d \in Entries, NEW f, NEW k, NEW g, NEW e \in Spots
  PROVE  /\ e = d => Spot(With(s, d, f), k, g, e) = f
         /\ e # d => Spot(With(s, d, f), k, g, e) = Spot(s, k, g, e)
<1>1. CASE e \in Entries
  <2>1. e[1] \in 0..4
    BY <1>1, EntryFacts
  <2>2. With(s, d, f)[e] = IF e = d THEN f ELSE s[e]
    BY <1>1 DEF Tree, With
  <2> QED BY <2>1, <2>2 DEF Spot
<1>2. CASE e \notin Entries
  <2>1. (e[1] = 5 \/ e[1] = 6) /\ e # d
    BY <1>2, SpotKinds
  <2> QED BY <2>1 DEF Spot
<1> QED BY <1>1, <1>2

\* Another page in hand.
LEMMA SpotPage ==
  ASSUME NEW s, NEW k, NEW g, NEW x, NEW e \in Spots
  PROVE  Spot(s, k, x, e) = IF e = <<6, 0>> THEN x ELSE Spot(s, k, g, e)
<1>1. \/ (e[1] \in 0..4 \/ e[1] = 5) /\ e # <<6, 0>>
      \/ e[1] = 6 /\ e = <<6, 0>>
  BY SpotKinds
<1> QED BY <1>1 DEF Spot

\* The spots of nobody.
LEMMA SpotNone ==
  ASSUME NEW e \in Spots
  PROVE  Spot(NoSpace, 0, 0, e) = 0
<1>1. e[1] \in 0..4 => NoSpace[e] = 0
  BY SpotKinds DEF NoSpace
<1>2. e[1] \in 0..4 \/ e[1] = 5 \/ e[1] = 6
  BY SpotKinds
<1> QED BY <1>1, <1>2 DEF Spot

\* The owners are the call and the processes.
LEMMA OwnerKinds ==
  /\ 0 \in Owners /\ 0 \notin Procs /\ Procs \subseteq Owners
  /\ \A p \in Owners : p = 0 \/ p \in Procs
BY SpaceAssumption DEF Owners, Procs

\* Held by owner.
HeldIs ==
  /\ \A e \in Spots : Held[0][e] = Spot(op.root, op.kstack, op.page, e)
  /\ \A p \in Procs : \A e \in Spots : Held[p][e] = Spot(space[p], kstack[p], 0, e)

\* Held, opened.
LEMMA HeldOpened == HeldIs
<1>1. \A e \in Spots : Held[0][e] = Spot(op.root, op.kstack, op.page, e)
  BY OwnerKinds DEF Held
<1>2. ASSUME NEW p \in Procs, NEW e \in Spots
      PROVE  Held[p][e] = Spot(space[p], kstack[p], 0, e)
  <2>1. p \in Owners /\ p # 0
    BY OwnerKinds
  <2> QED BY <2>1 DEF Held
<1> QED BY <1>1, <1>2 DEF HeldIs

\* The same, before and after a step.
LEMMA HeldBoth == HeldIs /\ HeldIs'
BY HeldOpened, PTL

\* Who holds what is as it was.
LEMMA OwnSame ==
  ASSUME OwnInv, UNCHANGED <<space, kstack, free>>,
         op'.root = op.root, op'.kstack = op.kstack, op'.page = op.page
  PROVE  OwnInv'
<1>1. Held' = Held
  BY DEF Held
<1> QED BY <1>1 DEF OwnInv

\* Owner c takes one frame.
TakesOne(c, d) ==
  \E f \in free :
    /\ free' = free \ {f}
    /\ \A e \in Spots : Held'[c][e] = IF e = d THEN f ELSE Held[c][e]
    /\ \A p \in Owners : p # c => \A e \in Spots : Held'[p][e] = Held[p][e]

\* One frame taken keeps owners apart.
LEMMA ExclTakesOne ==
  ASSUME Excl(Held, free), NEW c \in Owners, NEW d \in Spots, TakesOne(c, d)
  PROVE  Excl(Held', free')
<1>1. PICK f \in free :
        /\ free' = free \ {f}
        /\ \A e \in Spots : Held'[c][e] = IF e = d THEN f ELSE Held[c][e]
        /\ \A p \in Owners : p # c => \A e \in Spots : Held'[p][e] = Held[p][e]
  BY DEF TakesOne
<1>2. Takes(Held, Held', free, free', c, {d})
  BY <1>1 DEF Takes
<1> QED BY <1>2, ExclTakes

\* Entry d of the root under construction becomes f.
RootGets(d, f) == op'.root = [op.root EXCEPT ![d] = f]

\* A frame for an entry of the root under construction.
LEMMA OwnTakesRoot ==
  ASSUME OwnInv, op.root \in Tree, NEW d \in Entries, NEW f \in free,
         free' = free \ {f}, UNCHANGED <<space, kstack>>,
         RootGets(d, f), op'.kstack = op.kstack, op'.page = op.page
  PROVE  OwnInv'
<1>1. ASSUME NEW e \in Spots
      PROVE  Held'[0][e] = IF e = d THEN f ELSE Held[0][e]
  <2>1. Held'[0][e] = Spot(With(op.root, d, f), op.kstack, op.page, e)
    BY HeldBoth DEF HeldIs, With, RootGets
  <2>2. Held[0][e] = Spot(op.root, op.kstack, op.page, e)
    BY HeldBoth DEF HeldIs
  <2>3. /\ e = d => Spot(With(op.root, d, f), op.kstack, op.page, e) = f
        /\ e # d => Spot(With(op.root, d, f), op.kstack, op.page, e)
                       = Spot(op.root, op.kstack, op.page, e)
    BY op.root \in Tree, SpotEntry
  <2> QED BY <2>1, <2>2, <2>3
<1>2. \A p \in Owners : p # 0 => \A e \in Spots : Held'[p][e] = Held[p][e]
  BY HeldBoth, OwnerKinds DEF HeldIs
<1>3. TakesOne(0, d)
  BY <1>1, <1>2 DEF TakesOne
<1>4. d \in Spots
  BY SpotIs
<1>5. Excl(Held', free')
  BY <1>3, <1>4, ExclTakesOne, OwnerKinds DEF OwnInv
<1> QED BY <1>5 DEF OwnInv

\* Entry d of process c becomes f.
SpaceGets(c, d, f) == space' = [space EXCEPT ![c] = [space[c] EXCEPT ![d] = f]]

\* A frame for an entry of a process.
LEMMA OwnTakesSpace ==
  ASSUME OwnInv, space \in [Procs -> Tree], NEW c \in Procs, NEW d \in Entries,
         NEW f \in free, free' = free \ {f}, UNCHANGED kstack,
         SpaceGets(c, d, f),
         op'.root = op.root, op'.kstack = op.kstack, op'.page = op.page
  PROVE  OwnInv'
<1>0. space'[c] = With(space[c], d, f) /\ \A p \in Procs : p # c => space'[p] = space[p]
  BY DEF SpaceGets, With
<1>1. ASSUME NEW e \in Spots
      PROVE  Held'[c][e] = IF e = d THEN f ELSE Held[c][e]
  <2>1. Held'[c][e] = Spot(With(space[c], d, f), kstack[c], 0, e)
    <3>1. Held'[c][e] = Spot(space'[c], kstack'[c], 0, e)
      BY HeldBoth DEF HeldIs
    <3> QED BY <1>0, <3>1
  <2>2. Held[c][e] = Spot(space[c], kstack[c], 0, e) /\ space[c] \in Tree
    BY HeldBoth DEF HeldIs
  <2>3. /\ e = d => Spot(With(space[c], d, f), kstack[c], 0, e) = f
        /\ e # d => Spot(With(space[c], d, f), kstack[c], 0, e)
                       = Spot(space[c], kstack[c], 0, e)
    BY <2>2, SpotEntry
  <2> QED BY <2>1, <2>2, <2>3
<1>2. ASSUME NEW p \in Owners, p # c, NEW e \in Spots
      PROVE  Held'[p][e] = Held[p][e]
  <2>1. CASE p = 0
    BY <2>1, HeldBoth DEF HeldIs
  <2>2. CASE p \in Procs
    BY <1>0, <1>2, <2>2, HeldBoth DEF HeldIs
  <2> QED BY <2>1, <2>2, OwnerKinds
<1>3. TakesOne(c, d)
  BY <1>1, <1>2 DEF TakesOne
<1>4. d \in Spots /\ c \in Owners
  BY SpotIs, OwnerKinds
<1>5. Excl(Held', free')
  BY <1>3, <1>4, ExclTakesOne DEF OwnInv
<1> QED BY <1>5 DEF OwnInv

\* A frame in hand.
LEMMA OwnTakesPage ==
  ASSUME OwnInv, NEW f \in free, free' = free \ {f}, UNCHANGED <<space, kstack>>,
         op'.root = op.root, op'.kstack = op.kstack, op'.page = f
  PROVE  OwnInv'
<1>1. \A e \in Spots : Held'[0][e] = IF e = <<6, 0>> THEN f ELSE Held[0][e]
  <2> SUFFICES ASSUME NEW e \in Spots
               PROVE  Held'[0][e] = IF e = <<6, 0>> THEN f ELSE Held[0][e]
    OBVIOUS
  <2>1. Held'[0][e] = Spot(op.root, op.kstack, f, e)
    BY HeldBoth DEF HeldIs
  <2>2. Held[0][e] = Spot(op.root, op.kstack, op.page, e)
    BY HeldBoth DEF HeldIs
  <2> QED BY <2>1, <2>2, SpotPage
<1>2. \A p \in Owners : p # 0 => \A e \in Spots : Held'[p][e] = Held[p][e]
  BY HeldBoth, OwnerKinds DEF HeldIs
<1>3. TakesOne(0, <<6, 0>>)
  BY <1>1, <1>2 DEF TakesOne
<1>4. <<6, 0>> \in Spots
  BY SpotIs
<1>5. Excl(Held', free')
  BY <1>3, <1>4, ExclTakesOne, OwnerKinds DEF OwnInv
<1> QED BY <1>5 DEF OwnInv

\* t is s with entries cleared.
Less(t, s) == \A e \in Entries : t[e] = 0 \/ t[e] = s[e]

\* The spots of an address space with entries cleared.
LEMMA SpotLess ==
  ASSUME NEW s, NEW t, Less(t, s), NEW k, NEW g, NEW e \in Spots
  PROVE  Spot(t, k, g, e) = 0 \/ Spot(t, k, g, e) = Spot(s, k, g, e)
<1>1. e[1] \in 0..4 => t[e] = 0 \/ t[e] = s[e]
  BY SpotKinds DEF Less
<1>2. e[1] \in 0..4 \/ e[1] = 5 \/ e[1] = 6
  BY SpotKinds
<1> QED BY <1>1, <1>2 DEF Spot

\* What becomes free was held by the call, or by process q at entries E.
FreedFrom(q, E) ==
  \A f \in free' : \/ f \in free
                   \/ \E e \in Spots : Held[0][e] = f
                   \/ \E e \in E \intersect Entries : space[q][e] = f

\* A call that ends lets go of all it holds; entries E of process q go too.
LEMMA OwnEnds ==
  ASSUME OwnInv, op' = Idle, UNCHANGED kstack, space \in [Procs -> Tree],
         NEW q \in Procs, NEW E,
         space' = [space EXCEPT ![q] = Cleared(space[q], E)], FreedFrom(q, E)
  PROVE  OwnInv'
<1>0. op'.root = NoSpace /\ op'.kstack = 0 /\ op'.page = 0
  BY DEF Idle
<1>1. \A e \in Spots : Held'[0][e] = 0
  BY <1>0, HeldBoth, SpotNone DEF HeldIs
<1>2. /\ space'[q] = Cleared(space[q], E)
      /\ \A p \in Procs : p # q => space'[p] = space[p]
  OBVIOUS
<1>3. Less(Cleared(space[q], E), space[q])
  BY DEF Less, Cleared
<1>4. ASSUME NEW e \in Spots
      PROVE  Held'[q][e] = 0 \/ Held'[q][e] = Held[q][e]
  <2>1. Held'[q][e] = Spot(Cleared(space[q], E), kstack[q], 0, e)
    BY <1>2, HeldBoth DEF HeldIs
  <2>2. Held[q][e] = Spot(space[q], kstack[q], 0, e)
    BY HeldBoth DEF HeldIs
  <2> QED BY <1>3, <2>1, <2>2, SpotLess
<1>5. ASSUME NEW p \in Owners, NEW e \in Spots
      PROVE  Held'[p][e] = 0 \/ Held'[p][e] = Held[p][e]
  <2>1. CASE p = 0
    BY <1>1, <2>1
  <2>2. CASE p = q
    BY <1>4, <2>2
  <2>3. CASE p \in Procs /\ p # q
    BY <1>2, <2>3, HeldBoth DEF HeldIs
  <2> QED BY <2>1, <2>2, <2>3, OwnerKinds
<1>6. ASSUME NEW e \in E \intersect Entries
      PROVE  e \in Spots /\ Held[q][e] = space[q][e] /\ Held'[q][e] = 0
  <2>1. e \in Spots /\ e[1] \in 0..4
    BY EntryFacts DEF Spots
  <2>2. Held[q][e] = Spot(space[q], kstack[q], 0, e)
    BY <2>1, HeldBoth DEF HeldIs
  <2>3. Held'[q][e] = Spot(Cleared(space[q], E), kstack[q], 0, e)
    BY <1>2, <2>1, HeldBoth DEF HeldIs
  <2>4. Cleared(space[q], E)[e] = 0
    BY DEF Cleared
  <2> QED BY <2>1, <2>2, <2>3, <2>4 DEF Spot
<1>7. ASSUME NEW f \in free'
      PROVE  f \in free \/ \E p \in Owners : \E e \in Spots : Held[p][e] = f /\ Held'[p][e] = 0
  <2>1. CASE \E e \in Spots : Held[0][e] = f
    BY <1>1, <2>1, OwnerKinds
  <2>2. CASE \E e \in E \intersect Entries : space[q][e] = f
    BY <1>6, <2>2, OwnerKinds
  <2> QED BY <2>1, <2>2 DEF FreedFrom
<1>8. Gives(Held, Held', free, free')
  BY <1>5, <1>7 DEF Gives
<1>9. Excl(Held', free')
  BY <1>8, ExclGives DEF OwnInv
<1> QED BY <1>0, <1>9 DEF OwnInv, StackFits

\* Reaping lets go of all that the child holds.
LEMMA OwnReap ==
  ASSUME OwnInv, UNCHANGED op, NEW c \in Procs,
         space \in [Procs -> Tree], kstack \in [Procs -> 0..NFRAMES], Live(c), Closed(space[c]),
         space' = [space EXCEPT ![c] = NoSpace], kstack' = [kstack EXCEPT ![c] = 0],
         free' = free \union Destroyed(space[c]) \union Run(kstack[c])
  PROVE  OwnInv'
<1>1. /\ space'[c] = NoSpace /\ kstack'[c] = 0
      /\ \A p \in Procs : p # c => space'[p] = space[p] /\ kstack'[p] = kstack[p]
  OBVIOUS
<1>2. \A e \in Spots : Held'[c][e] = 0
  BY <1>1, HeldBoth, SpotNone DEF HeldIs
<1>3. ASSUME NEW p \in Owners, NEW e \in Spots
      PROVE  Held'[p][e] = 0 \/ Held'[p][e] = Held[p][e]
  <2>1. CASE p = 0
    BY <2>1, HeldBoth DEF HeldIs
  <2>2. CASE p = c
    BY <1>2, <2>2
  <2>3. CASE p \in Procs /\ p # c
    BY <1>1, <2>3, HeldBoth DEF HeldIs
  <2> QED BY <2>1, <2>2, <2>3, OwnerKinds
<1>4. ASSUME NEW f \in Destroyed(space[c])
      PROVE  \E e \in Spots : Held[c][e] = f
  <2>1. PICK e \in Entries : f = space[c][e]
    BY WalkAll DEF FramesOf, Mapped
  <2>2. e \in Spots /\ e[1] \in 0..4
    BY EntryFacts DEF Spots
  <2>3. Held[c][e] = Spot(space[c], kstack[c], 0, e)
    BY <2>2, HeldBoth DEF HeldIs
  <2> QED BY <2>1, <2>2, <2>3 DEF Spot
<1>5. ASSUME NEW f \in Run(kstack[c])
      PROVE  \E e \in Spots : Held[c][e] = f
  <2>1. kstack[c] \in Nat /\ kstack[c] # 0 /\ KSTACK_PAGES \in Nat
    BY SpaceAssumption DEF Live
  <2>2. f - kstack[c] \in 0..(KSTACK_PAGES - 1) /\ f = kstack[c] + (f - kstack[c])
    BY <2>1 DEF Run
  <2>3. PICK i \in 0..(KSTACK_PAGES - 1) : f = kstack[c] + i
    BY <2>2
  <2>4. <<5, i>> \in Spots /\ Held[c][<<5, i>>] = Spot(space[c], kstack[c], 0, <<5, i>>)
    BY HeldBoth, SpotIs DEF HeldIs
  <2>5. Spot(space[c], kstack[c], 0, <<5, i>>) = kstack[c] + i
    BY <2>1 DEF Spot
  <2> QED BY <2>3, <2>4, <2>5
<1>6. Gives(Held, Held', free, free')
  <2>1. c \in Owners
    BY OwnerKinds
  <2> QED BY <1>2, <1>3, <1>4, <1>5, <2>1 DEF Gives
<1>7. Excl(Held', free')
  BY <1>6, ExclGives DEF OwnInv
<1>8. \A p \in Procs : StackFits(kstack'[p])
  BY <1>1 DEF OwnInv, StackFits
<1> QED BY <1>7, <1>8 DEF OwnInv

\* A kernel stack is taken from a run of free frames.
LEMMA OwnTakesStack ==
  ASSUME OwnInv, free \subseteq Frames, op = Idle, NEW base \in Frames, Run(base) \subseteq free,
         free' = free \ Run(base), UNCHANGED <<space, kstack>>,
         op'.root = NoSpace, op'.kstack = base, op'.page = 0
  PROVE  OwnInv'
<1> DEFINE D == {<<5, i>> : i \in 0..(KSTACK_PAGES - 1)}
<1>0. KSTACK_PAGES \in Nat \ {0} /\ NFRAMES \in Nat /\ base \in Nat \ {0}
  BY SpaceAssumption DEF Frames
<1>1. ASSUME NEW i \in 0..(KSTACK_PAGES - 1)
      PROVE  Held'[0][<<5, i>>] = base + i /\ base + i \in Run(base)
  <2>1. <<5, i>> \in Spots
    BY SpotIs
  <2>2. Held'[0][<<5, i>>] = Spot(NoSpace, base, 0, <<5, i>>)
    BY <2>1, HeldBoth DEF HeldIs
  <2>3. Spot(NoSpace, base, 0, <<5, i>>) = base + i
    BY <1>0 DEF Spot
  <2>4. base + i \in Run(base)
    BY <1>0 DEF Run
  <2> QED BY <2>2, <2>3, <2>4
<1>2. ASSUME NEW e \in Spots, e \notin D
      PROVE  Held'[0][e] = Held[0][e]
  <2>1. Held'[0][e] = Spot(NoSpace, base, 0, e)
    BY HeldBoth DEF HeldIs
  <2>2. Held[0][e] = Spot(NoSpace, 0, 0, e)
    BY HeldBoth DEF HeldIs, Idle
  <2>3. e[1] \in 0..4 \/ e[1] = 6
    BY <1>2, SpotKinds
  <2> QED BY <2>1, <2>2, <2>3 DEF Spot
<1>3. \A p \in Owners : p # 0 => \A e \in Spots : Held'[p][e] = Held[p][e]
  BY HeldBoth, OwnerKinds DEF HeldIs
<1>4. Takes(Held, Held', free, free', 0, D)
  <2>1. D \subseteq Spots
    BY DEF Spots
  <2>2. \A d \in D : Held'[0][d] \in free \ free'
    BY <1>1
  <2>3. \A d, e \in D : Held'[0][d] = Held'[0][e] => d = e
    <3>1. \A i, j \in 0..(KSTACK_PAGES - 1) : base + i = base + j => i = j
      BY <1>0
    <3> QED BY <1>1, <3>1
  <2>4. \A p \in Owners : \A e \in Spots : ~(p = 0 /\ e \in D) => Held'[p][e] = Held[p][e]
    BY <1>2, <1>3
  <2> QED BY <2>1, <2>2, <2>3, <2>4 DEF Takes
<1>5. Excl(Held', free')
  BY <1>4, ExclTakes, OwnerKinds DEF OwnInv
<1>6. StackFits(base)
  <2>1. base + (KSTACK_PAGES - 1) \in Run(base)
    BY <1>0 DEF Run
  <2>2. base + (KSTACK_PAGES - 1) \in 1..NFRAMES
    BY Zenon, <2>1 DEF Frames
  <2> QED BY <1>0, <2>2 DEF StackFits
<1> QED BY <1>5, <1>6 DEF OwnInv

\* The child of fork takes over what the call built; entries E of q go.
LEMMA OwnForkCommit ==
  ASSUME OwnInv, op' = Idle, space \in [Procs -> Tree], kstack \in [Procs -> 0..NFRAMES],
         NEW q \in Procs, NEW c \in Procs, c # q, NEW E, E \subseteq Entries,
         space' = [space EXCEPT ![q] = Cleared(space[q], E), ![c] = op.root],
         kstack' = [kstack EXCEPT ![c] = op.kstack],
         free' = free \union {space[q][e] : e \in E}
  PROVE  OwnInv'
<1>0. op'.root = NoSpace /\ op'.kstack = 0 /\ op'.page = 0
  BY DEF Idle
<1>1. \A e \in Spots : Held'[0][e] = 0
  BY <1>0, HeldBoth, SpotNone DEF HeldIs
<1>2. /\ space'[q] = Cleared(space[q], E) /\ kstack'[q] = kstack[q]
      /\ space'[c] = op.root /\ kstack'[c] = op.kstack
      /\ \A p \in Procs : p # q /\ p # c => space'[p] = space[p] /\ kstack'[p] = kstack[p]
  OBVIOUS
<1>3. Less(Cleared(space[q], E), space[q])
  BY DEF Less, Cleared
<1>4. ASSUME NEW e \in Spots
      PROVE  Held'[q][e] = 0 \/ Held'[q][e] = Held[q][e]
  <2>1. Held'[q][e] = Spot(Cleared(space[q], E), kstack[q], 0, e)
    BY <1>2, HeldBoth DEF HeldIs
  <2>2. Held[q][e] = Spot(space[q], kstack[q], 0, e)
    BY HeldBoth DEF HeldIs
  <2> QED BY <1>3, <2>1, <2>2, SpotLess
<1>5. ASSUME NEW e \in Spots
      PROVE  Held'[c][e] = 0 \/ Held'[c][e] = Held[0][e]
  <2>1. Held'[c][e] = Spot(op.root, op.kstack, 0, e)
    BY <1>2, HeldBoth DEF HeldIs
  <2>2. Held[0][e] = Spot(op.root, op.kstack, op.page, e)
    BY HeldBoth DEF HeldIs
  <2> QED BY <2>1, <2>2, SpotPage
<1>6. ASSUME NEW p \in Owners, p # c, NEW e \in Spots
      PROVE  Held'[p][e] = 0 \/ Held'[p][e] = Held[p][e]
  <2>1. CASE p = 0
    BY <1>1, <2>1
  <2>2. CASE p = q
    BY <1>4, <2>2
  <2>3. CASE p \in Procs /\ p # q
    BY <1>2, <1>6, <2>3, HeldBoth DEF HeldIs
  <2> QED BY <2>1, <2>2, <2>3, OwnerKinds
<1>7. ASSUME NEW e \in E
      PROVE  e \in Spots /\ Held[q][e] = space[q][e] /\ Held'[q][e] = 0
  <2>1. e \in Spots /\ e[1] \in 0..4 /\ e \in Entries
    BY EntryFacts DEF Spots
  <2>2. Held[q][e] = Spot(space[q], kstack[q], 0, e)
    BY <2>1, HeldBoth DEF HeldIs
  <2>3. Held'[q][e] = Spot(Cleared(space[q], E), kstack[q], 0, e)
    BY <1>2, <2>1, HeldBoth DEF HeldIs
  <2>4. Cleared(space[q], E)[e] = 0
    BY <2>1 DEF Cleared
  <2> QED BY <2>1, <2>2, <2>3, <2>4 DEF Spot
<1>8. HandsOver(Held, Held', free, free', c)
  <2>1. q \in Owners \ {0} /\ c \in Owners
    BY OwnerKinds
  <2>2. ASSUME NEW f \in free'
        PROVE  \/ f \in free
               \/ \E p \in Owners \ {0} : \E e \in Spots : Held[p][e] = f /\ Held'[p][e] = 0
    BY <1>7, <2>1
  <2> QED BY <1>1, <1>5, <1>6, <2>2 DEF HandsOver
<1>9. Excl(Held', free')
  BY <1>8, ExclHandsOver, OwnerKinds DEF OwnInv
<1>10. \A p \in Procs : StackFits(kstack'[p])
  BY <1>2 DEF OwnInv
<1> QED BY <1>0, <1>9, <1>10 DEF OwnInv, StackFits

\* exec replaces the address space of q by what the call built.
LEMMA OwnExecCommit ==
  ASSUME OwnInv, op' = Idle, space \in [Procs -> Tree], NEW q \in Procs,
         space' = [space EXCEPT ![q] = op.root], UNCHANGED <<free, kstack>>
  PROVE  OwnInv'
<1>0. op'.root = NoSpace /\ op'.kstack = 0 /\ op'.page = 0
  BY DEF Idle
<1>1. \A e \in Spots : Held'[0][e] = 0
  BY <1>0, HeldBoth, SpotNone DEF HeldIs
<1>2. space'[q] = op.root /\ \A p \in Procs : p # q => space'[p] = space[p]
  OBVIOUS
<1>3. ASSUME NEW e \in Spots
      PROVE  Held'[q][e] = 0 \/ Held'[q][e] = Held[0][e] \/ Held'[q][e] = Held[q][e]
  <2>1. Held'[q][e] = Spot(op.root, kstack[q], 0, e)
    BY <1>2, HeldBoth DEF HeldIs
  <2>2. Held[0][e] = Spot(op.root, op.kstack, op.page, e)
    BY HeldBoth DEF HeldIs
  <2>3. Held[q][e] = Spot(space[q], kstack[q], 0, e)
    BY HeldBoth DEF HeldIs
  <2>4. e[1] \in 0..4 \/ e[1] = 5 \/ e[1] = 6
    BY SpotKinds
  <2> QED BY <2>1, <2>2, <2>3, <2>4 DEF Spot
<1>4. ASSUME NEW p \in Owners, p # q, NEW e \in Spots
      PROVE  Held'[p][e] = 0 \/ Held'[p][e] = Held[p][e]
  <2>1. CASE p = 0
    BY <1>1, <2>1
  <2>2. CASE p \in Procs
    BY <1>2, <1>4, <2>2, HeldBoth DEF HeldIs
  <2> QED BY <2>1, <2>2, OwnerKinds
<1>5. HandsOver(Held, Held', free, free', q)
  BY <1>1, <1>3, <1>4 DEF HandsOver
<1>6. Excl(Held', free')
  BY <1>5, ExclHandsOver, OwnerKinds DEF OwnInv
<1> QED BY <1>0, <1>6 DEF OwnInv, StackFits

\* The page in hand becomes a leaf of the root under construction.
LEMMA OwnPlacesRoot ==
  ASSUME OwnInv, op.root \in Tree, NEW d \in Entries, UNCHANGED <<free, space, kstack>>,
         RootGets(d, op.page), op'.kstack = op.kstack, op'.page = 0
  PROVE  OwnInv'
<1>0. <<6, 0>> \in Spots /\ d \in Spots /\ d # <<6, 0>>
  BY SpotIs, SpotKinds
<1>1. ASSUME NEW e \in Spots
      PROVE  /\ e = d => Held'[0][e] = Held[0][<<6, 0>>]
             /\ e = <<6, 0>> => Held'[0][e] = 0
             /\ e # d /\ e # <<6, 0>> => Held'[0][e] = Held[0][e]
  <2>1. Held'[0][e] = Spot(With(op.root, d, op.page), op.kstack, 0, e)
    BY HeldBoth DEF HeldIs, With, RootGets
  <2>2. Held[0][e] = Spot(op.root, op.kstack, op.page, e)
    BY HeldBoth DEF HeldIs
  <2>3. Held[0][<<6, 0>>] = op.page
    BY <1>0, HeldBoth DEF HeldIs, Spot
  <2>4. /\ e = d => Spot(With(op.root, d, op.page), op.kstack, 0, e) = op.page
        /\ e # d => Spot(With(op.root, d, op.page), op.kstack, 0, e)
                       = Spot(op.root, op.kstack, 0, e)
    BY op.root \in Tree, SpotEntry
  <2>5. Spot(op.root, op.kstack, 0, e)
          = IF e = <<6, 0>> THEN 0 ELSE Spot(op.root, op.kstack, op.page, e)
    BY SpotPage
  <2> QED BY <1>0, <2>1, <2>2, <2>3, <2>4, <2>5
<1>2. \A p \in Owners : p # 0 => \A e \in Spots : Held'[p][e] = Held[p][e]
  BY HeldBoth, OwnerKinds DEF HeldIs
<1>3. Places(Held, Held', 0, d)
  BY <1>0, <1>1, <1>2 DEF Places
<1>4. Excl(Held', free)
  BY <1>3, ExclPlaces, OwnerKinds DEF OwnInv
<1> QED BY <1>4 DEF OwnInv

\* The page in hand becomes a leaf of process c.
LEMMA OwnPlacesSpace ==
  ASSUME OwnInv, space \in [Procs -> Tree], NEW c \in Procs, NEW d \in Entries,
         UNCHANGED <<free, kstack>>,
         SpaceGets(c, d, op.page),
         op'.root = op.root, op'.kstack = op.kstack, op'.page = 0
  PROVE  OwnInv'
<1>0. <<6, 0>> \in Spots /\ d \in Spots /\ d # <<6, 0>> /\ c # 0 /\ c \in Owners
  BY SpotIs, SpotKinds, OwnerKinds
<1>1. space'[c] = With(space[c], d, op.page) /\ \A p \in Procs : p # c => space'[p] = space[p]
  BY DEF With, SpaceGets
<1>2. ASSUME NEW e \in Spots
      PROVE  /\ e = <<6, 0>> => Held'[0][e] = 0
             /\ e # <<6, 0>> => Held'[0][e] = Held[0][e]
  <2>1. Held'[0][e] = Spot(op.root, op.kstack, 0, e)
    BY HeldBoth DEF HeldIs
  <2>2. Held[0][e] = Spot(op.root, op.kstack, op.page, e)
    BY HeldBoth DEF HeldIs
  <2>3. Spot(op.root, op.kstack, 0, e)
          = IF e = <<6, 0>> THEN 0 ELSE Spot(op.root, op.kstack, op.page, e)
    BY SpotPage
  <2> QED BY <2>1, <2>2, <2>3
<1>3. ASSUME NEW e \in Spots
      PROVE  /\ e = d => Held'[c][e] = Held[0][<<6, 0>>]
             /\ e # d => Held'[c][e] = Held[c][e]
  <2>1. Held'[c][e] = Spot(With(space[c], d, op.page), kstack[c], 0, e)
    <3>1. Held'[c][e] = Spot(space'[c], kstack'[c], 0, e)
      BY Zenon, HeldBoth DEF HeldIs
    <3> QED BY <1>1, <3>1
  <2>2. Held[c][e] = Spot(space[c], kstack[c], 0, e) /\ space[c] \in Tree
    BY HeldBoth DEF HeldIs
  <2>3. Held[0][<<6, 0>>] = op.page
    BY <1>0, HeldBoth DEF HeldIs, Spot
  <2>4. /\ e = d => Spot(With(space[c], d, op.page), kstack[c], 0, e) = op.page
        /\ e # d => Spot(With(space[c], d, op.page), kstack[c], 0, e)
                       = Spot(space[c], kstack[c], 0, e)
    BY <2>2, SpotEntry
  <2> QED BY <2>1, <2>2, <2>3, <2>4
<1>4. ASSUME NEW p \in Procs, p # c, NEW e \in Spots
      PROVE  Held'[p][e] = Held[p][e]
  BY <1>1, <1>4, HeldBoth DEF HeldIs
<1>5. ASSUME NEW p \in Owners, NEW e \in Spots, ~(p = c /\ e = d), ~(p = 0 /\ e = <<6, 0>>)
      PROVE  Held'[p][e] = Held[p][e]
  <2>1. CASE p = 0
    BY <1>2, <1>5, <2>1
  <2>2. CASE p = c
    BY <1>3, <1>5, <2>2
  <2>3. CASE p \in Procs /\ p # c
    BY <1>4, <2>3
  <2> QED BY <2>1, <2>2, <2>3, OwnerKinds
<1>6. Held'[0][<<6, 0>>] = 0 /\ Held'[c][d] = Held[0][<<6, 0>>]
  BY <1>0, <1>2, <1>3
<1>7. Places(Held, Held', c, d)
  BY <1>5, <1>6 DEF Places
<1>8. Excl(Held', free)
  BY <1>0, <1>7, ExclPlaces DEF OwnInv
<1> QED BY <1>8 DEF OwnInv

\* The page in hand is dropped.
LEMMA OwnDropsPage ==
  ASSUME OwnInv, UNCHANGED <<free, space, kstack>>,
         op'.root = op.root, op'.kstack = op.kstack, op'.page = 0
  PROVE  OwnInv'
<1>1. ASSUME NEW e \in Spots
      PROVE  Held'[0][e] = 0 \/ Held'[0][e] = Held[0][e]
  <2>1. Held'[0][e] = Spot(op.root, op.kstack, 0, e)
    BY HeldBoth DEF HeldIs
  <2>2. Held[0][e] = Spot(op.root, op.kstack, op.page, e)
    BY HeldBoth DEF HeldIs
  <2> QED BY <2>1, <2>2, SpotPage
<1>2. \A p \in Owners : p # 0 => \A e \in Spots : Held'[p][e] = Held[p][e]
  BY HeldBoth, OwnerKinds DEF HeldIs
<1>3. Gives(Held, Held', free, free')
  BY <1>1, <1>2 DEF Gives
<1>4. Excl(Held', free')
  BY <1>3, ExclGives DEF OwnInv
<1> QED BY <1>4 DEF OwnInv

-----------------------------------------------------------------------------
(* Calls that end *)

\* No call in progress.
LEMMA IdleFacts ==
  /\ NoSpace \in Tree /\ Closed(NoSpace) /\ Idle \in OpType
  /\ Idle.call = "none" /\ Idle.root = NoSpace /\ Idle.page = 0 /\ Idle.claimed = 0
  /\ Idle.kstack = 0
<1>1. NoSpace \in Tree /\ Closed(NoSpace)
  BY SpaceAssumption DEF NoSpace, Tree, Closed
<1>2. /\ 0 \in Owners /\ 0 \in 0..NFRAMES /\ 0 \in 0..CHUNK_COUNT /\ 0 \in 0..BRK_MAX
      /\ 0 \in Nat
  BY SpaceAssumption DEF Owners
<1>3. <<>> \in Seq(UserPages \union {KERNEL_SCRATCH}) /\ <<>> \in Seq(UserPages)
  OBVIOUS
<1> QED BY Zenon, <1>1, <1>2, <1>3 DEF Idle, OpType

\* What a call that ends has to leave behind.
LEMMA Ended ==
  ASSUME op' = Idle, OwnInv', pool' = CHUNK_COUNT,
         free' \subseteq Frames, space' \in [Procs -> Tree],
         kstack' \in [Procs -> 0..NFRAMES], brk' \in [Procs -> 0..BRK_MAX],
         \A p \in Procs : Closed(space'[p]),
         \A p \in Procs : kstack'[p] # 0 => Rooted(space'[p]) /\ brk'[p] \in BRK_START..BRK_MAX
  PROVE  SpaceInv'
<1>1. TypeInv'
  BY IdleFacts, SpaceAssumption DEF TypeInv
<1>2. CallInv'
  BY IdleFacts DEF CallInv, Execs, Grows
<1>3. PoolInv'
  BY IdleFacts, SpaceAssumption DEF PoolInv
<1>4. TreeInv'
  BY IdleFacts DEF TreeInv, Live, Execs, Grows
<1>5. ExecInv' /\ ForkInv'
  BY IdleFacts DEF ExecInv, ForkInv, Execs
<1> QED BY <1>1, <1>2, <1>3, <1>4, <1>5 DEF SpaceInv

\* The frames of an address space.
LEMMA FramesAre ==
  ASSUME NEW s \in Tree
  PROVE  FramesOf(s) \subseteq Frames /\ \A e \in Entries : s[e] # 0 => s[e] \in Frames
BY SpaceAssumption DEF FramesOf, Mapped, Tree, Frames

\* What a call that makes scratch tables finds when it removes them.
LEMMA ScratchIsMade ==
  ASSUME SpaceInv, op.call = "fork"
  PROVE  /\ op.p \in Procs /\ Live(op.p) /\ op.made \subseteq Entries
         /\ ScratchLeft(space[op.p], op.made) = op.made
         /\ Cleared(space[op.p], op.made) = op.parent
         /\ op.parent \in Tree /\ Closed(op.parent) /\ Rooted(op.parent)
         /\ \A e \in op.made : space[op.p][e] \in Frames
<1> DEFINE s == space[op.p]
           made == op.made
           par == op.parent
<1>1. op.p \in Procs /\ Live(op.p) /\ made \subseteq ScratchTables /\ par \in Tree /\ s \in Tree
  BY DEF SpaceInv, TypeInv, CallInv, OpType
<1>2. Closed(par) /\ par = Cleared(s, made) /\ \A e \in made : par[e] = 0 /\ s[e] # 0
  BY DEF SpaceInv, ForkInv
<1> DEFINE D == At(2, KERNEL_SCRATCH)
           T == At(3, KERNEL_SCRATCH)
<1>3. D \in Entries /\ T \in Entries /\ D[1] = 2 /\ T[1] = 3
  <2>1. KERNEL_SCRATCH \in Nat /\ 2 \in 0..4 /\ 3 \in 0..4
    BY PageTypes
  <2>2. D \in Entries /\ T \in Entries
    BY PageTypes
  <2>3. D[1] = 2 /\ T[1] = 3
    BY <2>1, AtType
  <2> QED BY <2>2, <2>3
<1>4. made \subseteq {D, T}
  BY <1>1 DEF ScratchTables
<1> HIDE DEF D, T
<1>5. made \subseteq Entries
  BY <1>3, <1>4
<1>6. \A e \in Entries : e \notin made => par[e] = s[e]
  BY <1>2 DEF Cleared
<1>7. ASSUME NEW e \in made, NEW f \in Mapped(s), Beneath(e, f)
      PROVE  f \in made
  <2>1. f \in Entries /\ s[f] # 0
    BY DEF Mapped
  <2>2. e[1] \in 0..(f[1] - 1) /\ At(e[1], f[2]) = e
    <3>1. e[1] \in 0..4 /\ f[1] \in 0..4
      BY <1>5, <2>1, EntryFacts
    <3> QED BY <1>7, <3>1 DEF Beneath
  <2>3. par[e] = 0
    BY <1>2
  <2>4. SUFFICES ASSUME f \notin made PROVE FALSE
    OBVIOUS
  <2>5. par[f] # 0
    BY <1>6, <2>1, <2>4
  <2>6. par[At(e[1], f[2])] # 0
    BY <1>2, <2>1, <2>2, <2>5 DEF Closed
  <2> QED BY <2>2, <2>3, <2>6
<1> DEFINE pt == {e \in made : e[1] = 3 /\ ~\E f \in Mapped(s) : Beneath(e, f)}
           pd == {e \in made : e[1] = 2 /\ ~\E f \in Mapped(s) \ pt : Beneath(e, f)}
<1>8. \A e \in made : e[1] = 3 => e \in pt
  <2>1. ASSUME NEW e \in made, e[1] = 3, NEW f \in Mapped(s), Beneath(e, f)
        PROVE  FALSE
    <3>1. f \in made
      BY <1>7, <2>1
    <3>2. f[1] > 3 /\ (f[1] = 2 \/ f[1] = 3)
      BY <1>3, <1>4, <2>1, <3>1 DEF Beneath
    <3> QED BY <3>2
  <2> QED BY <2>1
<1>9. \A e \in made : e[1] = 2 => e \in pd
  <2>1. ASSUME NEW e \in made, e[1] = 2, NEW f \in Mapped(s) \ pt, Beneath(e, f)
        PROVE  FALSE
    <3>1. f \in made
      BY <1>7, <2>1
    <3>2. f[1] > 2 /\ (f[1] = 2 \/ f[1] = 3)
      BY <1>3, <1>4, <2>1, <3>1 DEF Beneath
    <3>3. f \in pt
      BY <1>8, <3>1, <3>2
    <3> QED BY <3>3
  <2> QED BY <2>1
<1>10. made \subseteq pt \union pd
  <2>1. \A e \in made : e[1] = 2 \/ e[1] = 3
    BY <1>3, <1>4
  <2> HIDE DEF pt, pd
  <2> QED BY <1>8, <1>9, <2>1
<1>11. ScratchLeft(s, made) = made
  <2>1. ScratchLeft(s, made) = pt \union pd
    BY DEF ScratchLeft
  <2> QED BY <1>10, <2>1
<1>12. Rooted(par)
  <2>1. Rooted(s)
    BY <1>1 DEF SpaceInv, TreeInv
  <2>2. <<0, 0>> \in Entries /\ <<1, 0>> \in Entries
    BY PageTypes
  <2>3. <<0, 0>> \notin made /\ <<1, 0>> \notin made
    BY <1>3, <1>4
  <2> QED BY <1>6, <2>1, <2>2, <2>3 DEF Rooted
<1>13. \A e \in made : s[e] \in Frames
  BY <1>1, <1>2, <1>5, FramesAre
<1> QED BY Zenon, <1>1, <1>2, <1>5, <1>11, <1>12, <1>13

\* The invariant of a process, before a call ends.
LEMMA ProcsBefore ==
  ASSUME SpaceInv
  PROVE  /\ free \subseteq Frames /\ space \in [Procs -> Tree]
         /\ kstack \in [Procs -> 0..NFRAMES] /\ brk \in [Procs -> 0..BRK_MAX]
         /\ op \in OpType /\ op.root \in Tree /\ Closed(op.root) /\ OwnInv
         /\ \A p \in Procs : Closed(space[p])
         /\ \A p \in Procs : kstack[p] # 0 => Rooted(space[p]) /\ brk[p] \in BRK_START..BRK_MAX
BY DEF SpaceInv, TypeInv, TreeInv, OpType, Live

\* What the call holds in its root.
LEMMA RootHeld ==
  ASSUME NEW f \in FramesOf(op.root)
  PROVE  \E e \in Spots : Held[0][e] = f
<1>1. PICK e \in Entries : f = op.root[e]
  BY DEF FramesOf, Mapped
<1>2. e \in Spots /\ e[1] \in 0..4
  BY EntryFacts DEF Spots
<1>3. Held[0][e] = Spot(op.root, op.kstack, op.page, e)
  BY <1>2, HeldBoth DEF HeldIs
<1> QED BY <1>1, <1>2, <1>3 DEF Spot

\* A failing fork.
LEMMA ForkFailKeeps ==
  ASSUME SpaceInv, op.call = "fork", ForkFail
  PROVE  SpaceInv' /\ space'[op.p] = op.parent
<1> DEFINE q == op.p
           E == op.made
<1>1. /\ q \in Procs /\ E \subseteq Entries /\ ScratchLeft(space[q], E) = E
      /\ Cleared(space[q], E) = op.parent
      /\ op.parent \in Tree /\ Closed(op.parent) /\ Rooted(op.parent)
      /\ \A e \in E : space[q][e] \in Frames
  BY ScratchIsMade
<1>2. /\ free \subseteq Frames /\ space \in [Procs -> Tree]
      /\ kstack \in [Procs -> 0..NFRAMES] /\ brk \in [Procs -> 0..BRK_MAX]
      /\ op \in OpType /\ op.root \in Tree /\ Closed(op.root) /\ OwnInv
      /\ \A p \in Procs : Closed(space[p])
      /\ \A p \in Procs : kstack[p] # 0 => Rooted(space[p]) /\ brk[p] \in BRK_START..BRK_MAX
  BY ProcsBefore
<1>3. /\ free' = free \union FramesOf(op.root) \union {space[q][e] : e \in E} \union {op.kstack}
      /\ space' = [space EXCEPT ![q] = Cleared(space[q], E)]
      /\ op' = Idle /\ UNCHANGED <<kstack, brk, pool>>
  BY <1>1, <1>2, WalkAll DEF ForkFail
<1>4. op.kstack # 0 /\ op.kstack \in 0..NFRAMES /\ op.claimed = 0 /\ pool = CHUNK_COUNT
  <2>1. op.kstack # 0 /\ op.kstack \in 0..NFRAMES
    BY DEF SpaceInv, CallInv, TypeInv, OpType
  <2>2. op.claimed = 0
    BY DEF SpaceInv, PoolInv
  <2>3. pool + op.claimed = CHUNK_COUNT /\ pool \in Int
    BY DEF SpaceInv, PoolInv, TypeInv
  <2> QED BY <2>1, <2>2, <2>3
<1>5. /\ space'[q] = op.parent
      /\ \A p \in Procs : p # q => space'[p] = space[p]
      /\ space' \in [Procs -> Tree]
  <2>1. space' = [space EXCEPT ![q] = op.parent]
    BY <1>1, <1>3
  <2> HIDE DEF q
  <2> QED BY <1>1, <1>2, <2>1
<1>6. OwnInv'
  <2>1. Held[0][<<5, 0>>] = op.kstack /\ <<5, 0>> \in Spots
    <3>1. <<5, 0>> \in Spots
      BY SpaceAssumption DEF Spots
    <3>2. Held[0][<<5, 0>>] = Spot(op.root, op.kstack, op.page, <<5, 0>>)
      BY <3>1, HeldBoth DEF HeldIs
    <3> QED BY <1>4, <3>1, <3>2 DEF Spot
  <2>2. FreedFrom(q, E)
    <3> SUFFICES ASSUME NEW f \in free'
                 PROVE  \/ f \in free
                        \/ \E e \in Spots : Held[0][e] = f
                        \/ \E e \in E \intersect Entries : space[q][e] = f
      BY DEF FreedFrom
    <3>1. CASE f \in FramesOf(op.root)
      BY <3>1, RootHeld
    <3>2. CASE f \in {space[q][e] : e \in E}
      BY <1>1, <3>2
    <3>3. CASE f = op.kstack
      BY <2>1, <3>3
    <3> QED BY <1>3, <3>1, <3>2, <3>3
  <2> HIDE DEF q, E
  <2> QED BY Zenon, <1>1, <1>2, <1>3, <2>2, OwnEnds
<1>7. free' \subseteq Frames
  <2>1. FramesOf(op.root) \subseteq Frames
    BY <1>2, FramesAre
  <2>2. op.kstack \in Frames
    BY <1>4 DEF Frames
  <2> QED BY <1>1, <1>2, <1>3, <2>1, <2>2
<1>8. \A p \in Procs : Closed(space'[p])
  BY <1>1, <1>2, <1>5
<1>9. \A p \in Procs : kstack'[p] # 0 => Rooted(space'[p]) /\ brk'[p] \in BRK_START..BRK_MAX
  BY <1>1, <1>2, <1>3, <1>5
<1>10. /\ op' = Idle /\ pool' = CHUNK_COUNT
       /\ kstack' \in [Procs -> 0..NFRAMES] /\ brk' \in [Procs -> 0..BRK_MAX]
  BY <1>2, <1>3, <1>4
<1> QED BY <1>5, <1>6, <1>7, <1>8, <1>9, <1>10, Ended

\* A copy that is complete has a root and the table below it.
LEMMA RootedCopy ==
  ASSUME SpaceInv, op.call # "none", Missing = {}
  PROVE  Rooted(op.root)
<1> DEFINE s == space[op.p]
           copy == op.call = "fork"
<1>1. Rooted(s)
  BY DEF SpaceInv, CallInv, TreeInv
<1>2. {<<0, 0>>, <<1, 0>>} \subseteq Wanted(s, copy)
  <2>1. <<0, 0>> \in Entries /\ <<1, 0>> \in Entries
    BY PageTypes
  <2>2. At(2, KERNEL_SCRATCH)[1] = 2
    BY PageTypes, AtType
  <2> QED BY <1>1, <2>1, <2>2 DEF Wanted, Mapped, Rooted, Beneath
<1>3. Wanted(s, copy) \subseteq Mapped(op.root)
  BY Zenon DEF Missing
<1> QED BY Zenon, <1>2, <1>3 DEF Rooted, Mapped

\* A fork that succeeds.
LEMMA ForkCommitKeeps ==
  ASSUME SpaceInv, ForkCommit
  PROVE  SpaceInv' /\ space'[op.p] = op.parent
<1> DEFINE q == op.p
           E == op.made
<1>0. op.call = "fork" /\ op.step = "create" /\ Missing = {}
  BY DEF ForkCommit
<1>1. /\ q \in Procs /\ Live(q) /\ E \subseteq Entries /\ ScratchLeft(space[q], E) = E
      /\ Cleared(space[q], E) = op.parent
      /\ op.parent \in Tree /\ Closed(op.parent) /\ Rooted(op.parent)
      /\ \A e \in E : space[q][e] \in Frames
  BY <1>0, ScratchIsMade
<1>2. /\ free \subseteq Frames /\ space \in [Procs -> Tree]
      /\ kstack \in [Procs -> 0..NFRAMES] /\ brk \in [Procs -> 0..BRK_MAX]
      /\ op \in OpType /\ op.root \in Tree /\ Closed(op.root) /\ OwnInv
      /\ \A p \in Procs : Closed(space[p])
      /\ \A p \in Procs : kstack[p] # 0 => Rooted(space[p]) /\ brk[p] \in BRK_START..BRK_MAX
  BY ProcsBefore
<1>3. PICK c \in Procs :
        /\ ~Live(c)
        /\ free' = free \union {space[q][e] : e \in E}
        /\ space' = [space EXCEPT ![q] = Cleared(space[q], E), ![c] = op.root]
        /\ kstack' = [kstack EXCEPT ![c] = op.kstack]
        /\ brk' = [brk EXCEPT ![c] = brk[q]]
        /\ op' = Idle /\ UNCHANGED pool
  BY Zenon, <1>1 DEF ForkCommit
<1>4. c # q
  BY <1>1, <1>3
<1>5. op.kstack \in 0..NFRAMES /\ op.claimed = 0 /\ pool = CHUNK_COUNT
  <2>1. op.kstack \in 0..NFRAMES
    BY <1>2 DEF OpType
  <2>2. op.claimed = 0
    BY <1>0 DEF SpaceInv, PoolInv
  <2>3. pool + op.claimed = CHUNK_COUNT /\ pool \in Int
    BY DEF SpaceInv, PoolInv, TypeInv
  <2> QED BY <2>1, <2>2, <2>3
<1>6. /\ space'[q] = op.parent /\ space'[c] = op.root
      /\ \A p \in Procs : p # q /\ p # c => space'[p] = space[p]
      /\ space' \in [Procs -> Tree]
  <2>1. space' = [space EXCEPT ![q] = op.parent, ![c] = op.root]
    BY <1>1, <1>3
  <2> HIDE DEF q
  <2> QED BY <1>1, <1>2, <1>4, <2>1
<1>7. /\ kstack'[c] = op.kstack /\ \A p \in Procs : p # c => kstack'[p] = kstack[p]
      /\ kstack' \in [Procs -> 0..NFRAMES]
  BY <1>2, <1>3, <1>5
<1>8. /\ brk'[c] = brk[q] /\ \A p \in Procs : p # c => brk'[p] = brk[p]
      /\ brk' \in [Procs -> 0..BRK_MAX]
  BY <1>1, <1>2, <1>3
<1>9. OwnInv'
  <2> HIDE DEF q, E
  <2> QED BY Zenon, <1>1, <1>2, <1>3, <1>4, OwnForkCommit
<1>10. free' \subseteq Frames
  BY Zenon, <1>1, <1>2, <1>3
<1>11. Rooted(op.root)
  BY <1>0, RootedCopy
<1>12. \A p \in Procs : Closed(space'[p])
  BY <1>1, <1>2, <1>6
<1>13. ASSUME NEW p \in Procs, kstack'[p] # 0
       PROVE  Rooted(space'[p]) /\ brk'[p] \in BRK_START..BRK_MAX
  <2>0. Rooted(space[q]) /\ brk[q] \in BRK_START..BRK_MAX
    BY <1>1, <1>2 DEF Live
  <2>1. CASE p = c
    BY <1>6, <1>8, <1>11, <2>0, <2>1
  <2>2. CASE p = q
    BY <1>1, <1>4, <1>6, <1>8, <2>0, <2>2
  <2>3. CASE p # c /\ p # q
    BY <1>2, <1>6, <1>7, <1>8, <1>13, <2>3
  <2> QED BY <2>1, <2>2, <2>3
<1>14. op' = Idle /\ pool' = CHUNK_COUNT
  BY <1>3, <1>5
<1> QED BY <1>6, <1>7, <1>8, <1>9, <1>10, <1>12, <1>13, <1>14, Ended

\* A call that ends and leaves the processes as they were.
LEMMA OwnEndsSame ==
  ASSUME OwnInv, op' = Idle, UNCHANGED <<space, kstack>>, space \in [Procs -> Tree],
         \A f \in free' : f \in free \/ \E e \in Spots : Held[0][e] = f
  PROVE  OwnInv'
<1> DEFINE q == 1
<1>1. q \in Procs
  BY SpaceAssumption DEF Procs
<1>2. Cleared(space[q], {}) = space[q]
  BY <1>1 DEF Cleared, Tree
<1> HIDE DEF q
<1>3. space' = [space EXCEPT ![q] = Cleared(space[q], {})]
  BY <1>1, <1>2
<1>4. FreedFrom(q, {})
  BY DEF FreedFrom
<1> QED BY Zenon, <1>1, <1>3, <1>4, OwnEnds

\* A process's part of the invariant, where no process changes.
LEMMA ProcsSame ==
  ASSUME SpaceInv, UNCHANGED <<space, kstack, brk>>
  PROVE  /\ space' \in [Procs -> Tree] /\ kstack' \in [Procs -> 0..NFRAMES]
         /\ brk' \in [Procs -> 0..BRK_MAX]
         /\ \A p \in Procs : Closed(space'[p])
         /\ \A p \in Procs : kstack'[p] # 0 => Rooted(space'[p]) /\ brk'[p] \in BRK_START..BRK_MAX
BY ProcsBefore

\* The page in hand.
LEMMA PageHeld == <<6, 0>> \in Spots /\ Held[0][<<6, 0>>] = op.page
<1>1. <<6, 0>> \in Spots /\ Spot(op.root, op.kstack, op.page, <<6, 0>>) = op.page
  BY SpotIs
<1> QED BY <1>1, HeldBoth DEF HeldIs

\* A failing exec gives back what it took and leaves every process as it was.
LEMMA ExecFailKeeps ==
  ASSUME SpaceInv, op.call \in Execs, ExecFail
  PROVE  SpaceInv' /\ free' = op.before /\ UNCHANGED <<space, kstack, brk>>
<1> DEFINE root == op.root
           left == IF op.step = "load" THEN RolledBack(root, op.tracked) ELSE root
<1>1. /\ free \subseteq Frames /\ space \in [Procs -> Tree]
      /\ op \in OpType /\ root \in Tree /\ Closed(root) /\ OwnInv
  BY ProcsBefore
<1>2. Closed(left) /\ FramesOf(left) \subseteq FramesOf(root)
  <2>1. CASE op.step = "load"
    <3> DEFINE X == {At(4, v) : v \in op.tracked} \union Emptied(root, op.tracked)
    <3>1. op.tracked \in SUBSET UserPages
      BY <1>1 DEF OpType
    <3>2. Prunes(root, X)
      BY <3>1, RollbackPrunes
    <3>3. left = Cleared(root, X)
      BY <2>1 DEF RolledBack
    <3> HIDE DEF X
    <3>4. Closed(Cleared(root, X))
      BY <1>1, <3>2, Prune
    <3>5. FramesOf(Cleared(root, X)) \subseteq FramesOf(root)
      BY Zenon DEF FramesOf, Mapped, Cleared
    <3> QED BY <3>3, <3>4, <3>5
  <2>2. CASE op.step # "load"
    BY <1>1, <2>2
  <2> QED BY <2>1, <2>2
<1>3. /\ free' = free \union (FramesOf(root) \ FramesOf(left)) \union Destroyed(left)
                      \union ({op.page} \ {0})
      /\ pool' = pool + op.claimed /\ op' = Idle /\ UNCHANGED <<space, kstack, brk>>
  BY DEF ExecFail
<1> HIDE DEF left
<1>4. Destroyed(left) = FramesOf(left)
  BY <1>2, WalkAll
<1>5. free' = free \union FramesOf(root) \union ({op.page} \ {0})
  BY <1>2, <1>3, <1>4
<1>6. free' = op.before
  BY <1>5 DEF SpaceInv, ExecInv
<1>7. free' \subseteq Frames
  BY <1>1, <1>6 DEF OpType
<1>8. pool' = CHUNK_COUNT
  BY <1>3 DEF SpaceInv, PoolInv
<1>9. OwnInv'
  <2>1. ASSUME NEW f \in free', f \notin free
        PROVE  \E e \in Spots : Held[0][e] = f
    <3>1. CASE f \in FramesOf(root)
      BY <3>1, RootHeld
    <3>2. CASE f = op.page
      BY <3>2, PageHeld
    <3> QED BY <1>5, <2>1, <3>1, <3>2
  <2> QED BY <1>1, <1>3, <2>1, OwnEndsSame
<1>10. SpaceInv'
  BY <1>3, <1>7, <1>8, <1>9, ProcsSame, Ended
<1> QED BY <1>3, <1>6, <1>10

\* exec publishes the new image.
LEMMA ExecCommitKeeps ==
  ASSUME SpaceInv, ExecCommit
  PROVE  SpaceInv' /\ op.call \in Execs /\ space'[op.p] = op.root
<1> DEFINE q == op.p
<1>1. /\ free \subseteq Frames /\ space \in [Procs -> Tree]
      /\ kstack \in [Procs -> 0..NFRAMES] /\ brk \in [Procs -> 0..BRK_MAX]
      /\ op \in OpType /\ op.root \in Tree /\ Closed(op.root) /\ OwnInv
      /\ \A p \in Procs : Closed(space[p])
      /\ \A p \in Procs : kstack[p] # 0 => Rooted(space[p]) /\ brk[p] \in BRK_START..BRK_MAX
  BY ProcsBefore
<1>2. op.call \in Execs /\ op.step = "stack" /\ q \in Procs
  <2>1. op.step = "stack"
    BY DEF ExecCommit
  <2>2. op.call \in {"none", "fork"} \union Execs \union Grows
    BY <1>1 DEF OpType
  <2>3. op.call \in Execs
    BY <2>1, <2>2 DEF SpaceInv, CallInv, Idle
  <2>4. op.call # "none"
    BY <2>3 DEF Execs
  <2> QED BY <2>1, <2>3, <2>4 DEF SpaceInv, CallInv
<1>3. Rooted(op.root) /\ op.claimed = 0 /\ pool = CHUNK_COUNT
  <2>1. Rooted(op.root) /\ op.claimed = 0
    BY <1>2 DEF SpaceInv, TreeInv, PoolInv
  <2>2. pool + op.claimed = CHUNK_COUNT /\ pool \in Int
    BY DEF SpaceInv, PoolInv, TypeInv
  <2> QED BY <2>1, <2>2
<1>4. /\ space' = [space EXCEPT ![q] = op.root] /\ brk' = [brk EXCEPT ![q] = BRK_START]
      /\ op' = Idle /\ UNCHANGED <<free, kstack, pool>>
  BY DEF ExecCommit
<1> HIDE DEF q
<1>5. /\ space'[q] = op.root /\ \A p \in Procs : p # q => space'[p] = space[p]
      /\ space' \in [Procs -> Tree]
  BY <1>1, <1>2, <1>4
<1>6. /\ brk'[q] = BRK_START /\ \A p \in Procs : p # q => brk'[p] = brk[p]
      /\ brk' \in [Procs -> 0..BRK_MAX]
      /\ BRK_START \in BRK_START..BRK_MAX
  <2>1. BRK_START \in 0..BRK_MAX /\ BRK_START \in BRK_START..BRK_MAX
    BY SpaceAssumption
  <2> QED BY <1>1, <1>2, <1>4, <2>1
<1>7. OwnInv'
  BY Zenon, <1>1, <1>2, <1>4, OwnExecCommit
<1>8. \A p \in Procs : Closed(space'[p])
  BY <1>1, <1>5
<1>9. \A p \in Procs : kstack'[p] # 0 => Rooted(space'[p]) /\ brk'[p] \in BRK_START..BRK_MAX
  BY <1>1, <1>3, <1>4, <1>5, <1>6
<1>10. SpaceInv'
  BY <1>1, <1>3, <1>4, <1>5, <1>6, <1>7, <1>8, <1>9, Ended
<1> QED BY <1>2, <1>5, <1>10 DEF q

\* A growing call and its process.
LEMMA GrowFacts ==
  ASSUME SpaceInv, op.step = "grow"
  PROVE  /\ op.call \in Grows /\ op.p \in Procs /\ Live(op.p) /\ op.kstack = 0
         /\ op.claimed = 0 /\ pool = CHUNK_COUNT /\ op.brk \in BRK_START..BRK_MAX
<1>1. op.call \in {"none", "fork"} \union Execs \union Grows
  BY DEF SpaceInv, TypeInv, OpType
<1>2. op.call \in Grows
  BY <1>1 DEF SpaceInv, CallInv, Idle
<1>3. op.call # "none" /\ op.claimed = 0
  BY <1>2 DEF Grows, SpaceInv, PoolInv
<1>4. pool + op.claimed = CHUNK_COUNT /\ pool \in Int
  BY DEF SpaceInv, PoolInv, TypeInv
<1>5. op.p \in Procs /\ Live(op.p) /\ op.kstack = 0 /\ op.brk \in BRK_START..BRK_MAX
  BY <1>2, <1>3 DEF SpaceInv, CallInv, TreeInv
<1> QED BY <1>2, <1>3, <1>4, <1>5

\* One break moves.
LEMMA BrkMoves ==
  ASSUME SpaceInv, NEW q \in Procs, NEW b \in BRK_START..BRK_MAX,
         brk' = [brk EXCEPT ![q] = b], UNCHANGED <<space, kstack>>
  PROVE  /\ space' \in [Procs -> Tree] /\ kstack' \in [Procs -> 0..NFRAMES]
         /\ brk' \in [Procs -> 0..BRK_MAX]
         /\ \A p \in Procs : Closed(space'[p])
         /\ \A p \in Procs : kstack'[p] # 0 => Rooted(space'[p]) /\ brk'[p] \in BRK_START..BRK_MAX
<1>1. b \in 0..BRK_MAX
  BY SpaceAssumption
<1>2. /\ brk \in [Procs -> 0..BRK_MAX]
      /\ \A p \in Procs : kstack[p] # 0 => Rooted(space[p]) /\ brk[p] \in BRK_START..BRK_MAX
  BY ProcsBefore
<1>3. brk' \in [Procs -> 0..BRK_MAX] /\ brk'[q] = b /\ \A p \in Procs : p # q => brk'[p] = brk[p]
  BY <1>1, <1>2
<1> QED BY <1>2, <1>3, ProcsBefore

\* brk and mmap end, having mapped all their pages or with no frame left.
LEMMA GrowEnds ==
  ASSUME SpaceInv, GrowDone \/ GrowFails
  PROVE  SpaceInv'
<1>1. /\ op.step = "grow" /\ op' = Idle /\ UNCHANGED <<free, space, kstack, pool>>
      /\ brk' = [brk EXCEPT ![op.p] = op.brk] \/ UNCHANGED brk
  BY DEF GrowDone, GrowFails
<1>2. op.p \in Procs /\ pool = CHUNK_COUNT /\ op.brk \in BRK_START..BRK_MAX
  BY <1>1, GrowFacts
<1>3. free \subseteq Frames /\ space \in [Procs -> Tree] /\ OwnInv
  BY ProcsBefore
<1>4. OwnInv'
  BY <1>1, <1>3, OwnEndsSame
<1>5. CASE UNCHANGED brk
  BY <1>1, <1>2, <1>3, <1>4, <1>5, ProcsSame, Ended
<1>6. CASE brk' = [brk EXCEPT ![op.p] = op.brk]
  BY Zenon, <1>1, <1>2, <1>3, <1>4, <1>6, BrkMoves, Ended
<1> QED BY <1>1, <1>5, <1>6

\* No call holds chunks when none is in progress.
LEMMA IdlePool ==
  ASSUME SpaceInv, op = Idle
  PROVE  pool = CHUNK_COUNT
<1>1. pool + 0 = CHUNK_COUNT /\ pool \in Int
  BY IdleFacts DEF SpaceInv, PoolInv, TypeInv
<1> QED BY <1>1

\* brk gives back nothing: the break moves down over mapped pages.
LEMMA BrkShrinks ==
  ASSUME SpaceInv, op = Idle, NEW q \in Procs, NEW b \in BRK_START..BRK_MAX,
         brk' = [brk EXCEPT ![q] = b], UNCHANGED <<free, space, kstack, pool, op>>
  PROVE  SpaceInv'
<1>1. free \subseteq Frames /\ space \in [Procs -> Tree] /\ OwnInv
  BY ProcsBefore
<1>2. OwnInv'
  BY <1>1, OwnSame
<1> QED BY Zenon, <1>1, <1>2, IdlePool, BrkMoves, Ended

\* waitpid reaps a child.
LEMMA ReapKeeps ==
  ASSUME SpaceInv, NEW c \in Procs, Reap(c)
  PROVE  SpaceInv'
<1>1. /\ op = Idle /\ Live(c) /\ UNCHANGED <<pool, op>>
      /\ free' = free \union Destroyed(space[c]) \union Run(kstack[c])
      /\ space' = [space EXCEPT ![c] = NoSpace]
      /\ kstack' = [kstack EXCEPT ![c] = 0]
      /\ brk' = [brk EXCEPT ![c] = 0]
  BY DEF Reap
<1>2. /\ free \subseteq Frames /\ space \in [Procs -> Tree]
      /\ kstack \in [Procs -> 0..NFRAMES] /\ brk \in [Procs -> 0..BRK_MAX] /\ OwnInv
      /\ \A p \in Procs : Closed(space[p])
      /\ \A p \in Procs : kstack[p] # 0 => Rooted(space[p]) /\ brk[p] \in BRK_START..BRK_MAX
  BY ProcsBefore
<1>3. OwnInv'
  BY Zenon, <1>1, <1>2, OwnReap
<1>4. /\ space'[c] = NoSpace /\ \A p \in Procs : p # c => space'[p] = space[p]
      /\ space' \in [Procs -> Tree]
  BY <1>1, <1>2, IdleFacts
<1>5. /\ kstack'[c] = 0 /\ \A p \in Procs : p # c => kstack'[p] = kstack[p]
      /\ kstack' \in [Procs -> 0..NFRAMES]
  BY <1>1, <1>2, SpaceAssumption
<1>6. /\ brk'[c] = 0 /\ \A p \in Procs : p # c => brk'[p] = brk[p]
      /\ brk' \in [Procs -> 0..BRK_MAX]
  BY <1>1, <1>2, SpaceAssumption
<1>7. free' \subseteq Frames
  <2>1. Destroyed(space[c]) \subseteq Frames
    BY <1>2, WalkAll, FramesAre
  <2>2. StackFits(kstack[c]) /\ kstack[c] # 0 /\ kstack[c] \in 0..NFRAMES
    BY <1>1, <1>2 DEF OwnInv, Live
  <2>3. Run(kstack[c]) \subseteq Frames
    BY <2>2, SpaceAssumption DEF StackFits, Run, Frames
  <2> QED BY <1>1, <1>2, <2>1, <2>3
<1>8. \A p \in Procs : Closed(space'[p])
  BY <1>2, <1>4, IdleFacts
<1>9. \A p \in Procs : kstack'[p] # 0 => Rooted(space'[p]) /\ brk'[p] \in BRK_START..BRK_MAX
  BY <1>2, <1>4, <1>5, <1>6
<1>10. op' = Idle /\ pool' = CHUNK_COUNT
  BY <1>1, IdlePool
<1> QED BY Zenon, <1>3, <1>4, <1>5, <1>6, <1>7, <1>8, <1>9, <1>10, Ended

-----------------------------------------------------------------------------
(* Calls that begin *)

\* What a call in progress has to keep.
LEMMA Going ==
  ASSUME OwnInv', CallInv', PoolInv', ExecInv', ForkInv',
         op' \in OpType, pool' \in 0..CHUNK_COUNT, Closed(op'.root),
         op'.call \in Execs /\ op'.step # "create" => Rooted(op'.root),
         op'.call \in Grows => op'.brk \in BRK_START..BRK_MAX,
         free' \subseteq Frames, space' \in [Procs -> Tree],
         kstack' \in [Procs -> 0..NFRAMES], brk' \in [Procs -> 0..BRK_MAX],
         \A p \in Procs : Closed(space'[p]),
         \A p \in Procs : kstack'[p] # 0 => Rooted(space'[p]) /\ brk'[p] \in BRK_START..BRK_MAX
  PROVE  SpaceInv'
<1>1. TypeInv'
  BY DEF TypeInv
<1>2. TreeInv'
  BY DEF TreeInv, Live
<1> QED BY <1>1, <1>2 DEF SpaceInv

\* No frames hang in an empty address space.
LEMMA NoFrames == FramesOf(NoSpace) = {}
BY DEF FramesOf, Mapped, NoSpace

\* exec begins.
LEMMA ExecBegins ==
  ASSUME SpaceInv, NEW p \in Procs, NEW image \in Images, Exec(p, image)
  PROVE  SpaceInv'
<1> DEFINE c == IF image.elf THEN "elf" ELSE "flat"
<1>1. /\ op = Idle /\ Live(p) /\ UNCHANGED <<free, space, kstack, brk, pool>>
      /\ op' = [Idle EXCEPT !.call = c, !.step = "create", !.p = p, !.todo = image.load,
                            !.stack = image.stack, !.before = free]
  BY DEF Exec
<1>2. c \in Execs
  BY DEF Execs
<1>3. image.load \in Seq(UserPages) /\ image.stack \in Seq(UserPages)
  BY Zenon, SpaceAssumption DEF GoodImage
<1>4. image.load \in Seq(UserPages \union {KERNEL_SCRATCH})
  BY <1>3
<1>5. free \subseteq Frames /\ OwnInv /\ pool = CHUNK_COUNT
  BY <1>1, ProcsBefore, IdlePool
<1>6. p \in Owners
  BY OwnerKinds
<1> HIDE DEF c
<1>7. op' \in OpType
  BY Zenon, <1>1, <1>2, <1>3, <1>4, <1>5, <1>6, IdleFacts DEF OpType
<1>8. /\ op'.call = c /\ op'.step = "create" /\ op'.p = p /\ op'.todo = image.load
      /\ op'.before = free /\ op'.root = NoSpace /\ op'.page = 0 /\ op'.kstack = 0
      /\ op'.claimed = 0
  BY <1>1 DEF Idle
<1>9. OwnInv'
  BY <1>1, <1>5, <1>8, IdleFacts, OwnSame
<1>10. CallInv' /\ ForkInv'
  BY <1>1, <1>2, <1>3, <1>8 DEF CallInv, ForkInv, Live, Execs, Grows
<1>11. PoolInv' /\ pool' \in 0..CHUNK_COUNT
  BY <1>1, <1>5, <1>8, SpaceAssumption DEF PoolInv
<1>12. ExecInv'
  BY <1>1, <1>8, NoFrames DEF ExecInv
<1>13. c \notin Grows
  BY <1>2 DEF Execs, Grows
<1> QED BY <1>1, <1>5, <1>7, <1>8, <1>9, <1>10, <1>11, <1>12, <1>13, IdleFacts, ProcsSame, Going

\* brk and mmap, once begun.
GrowOp(call, p, b, todo) ==
  [Idle EXCEPT !.call = call, !.step = "grow", !.p = p, !.brk = b, !.todo = todo]

\* A growing call begins, and its break may move.
LEMMA GrowBegins ==
  ASSUME SpaceInv, op = Idle, NEW p \in Procs, Live(p), NEW call \in Grows,
         NEW b \in BRK_START..BRK_MAX, NEW todo \in Seq(UserPages \union {KERNEL_SCRATCH}),
         op' = GrowOp(call, p, b, todo), UNCHANGED <<free, space, kstack, pool>>,
         UNCHANGED brk \/ brk' = [brk EXCEPT ![p] = b]
  PROVE  SpaceInv'
<1>1. free \subseteq Frames /\ OwnInv /\ pool = CHUNK_COUNT
  BY ProcsBefore, IdlePool
<1>2. p \in Owners /\ b \in 0..BRK_MAX
  BY OwnerKinds, SpaceAssumption
<1>3. op' \in OpType
  BY Zenon, <1>2, IdleFacts DEF OpType, GrowOp
<1>4. /\ op'.call = call /\ op'.step = "grow" /\ op'.p = p /\ op'.brk = b
      /\ op'.root = NoSpace /\ op'.page = 0 /\ op'.kstack = 0 /\ op'.claimed = 0
  BY DEF Idle, GrowOp
<1>5. OwnInv'
  BY Zenon, <1>1, <1>4, IdleFacts, OwnSame
<1>6. call \notin Execs /\ call # "none" /\ call # "fork"
  BY DEF Execs, Grows
<1>7. CallInv' /\ ForkInv' /\ ExecInv'
  BY Zenon, <1>4, <1>6 DEF CallInv, ForkInv, ExecInv, Live
<1>8. PoolInv' /\ pool' \in 0..CHUNK_COUNT
  BY <1>1, <1>4, SpaceAssumption DEF PoolInv
<1>9. /\ space' \in [Procs -> Tree] /\ kstack' \in [Procs -> 0..NFRAMES]
      /\ brk' \in [Procs -> 0..BRK_MAX]
      /\ \A q \in Procs : Closed(space'[q])
      /\ \A q \in Procs : kstack'[q] # 0 => Rooted(space'[q]) /\ brk'[q] \in BRK_START..BRK_MAX
  <2>1. CASE UNCHANGED brk
    BY <2>1, ProcsSame
  <2>2. CASE brk' = [brk EXCEPT ![p] = b]
    BY Zenon, <2>2, BrkMoves
  <2> QED BY <2>1, <2>2
<1> QED BY <1>1, <1>3, <1>4, <1>5, <1>6, <1>7, <1>8, <1>9, IdleFacts, Going

\* brk.
LEMMA SysBrkKeeps ==
  ASSUME SpaceInv, NEW p \in Procs, NEW addr \in BRK_START..BRK_MAX, SysBrk(p, addr)
  PROVE  SpaceInv'
<1>1. op = Idle /\ Live(p) /\ UNCHANGED <<free, space, kstack, pool>>
  BY DEF SysBrk
<1>2. brk[p] \in BRK_START..BRK_MAX
  BY <1>1, ProcsBefore DEF Live
<1>3. CASE addr > brk[p]
  <2>1. op' = GrowOp("brk", p, addr, Pages(brk[p], addr)) /\ UNCHANGED brk
    BY <1>3 DEF SysBrk, GrowOp
  <2>2. Pages(brk[p], addr) \in Seq(UserPages \union {KERNEL_SCRATCH})
    <3>1. /\ BRK_START \in Nat /\ BRK_MAX \in Nat
          /\ BRK_START..(BRK_MAX - 1) \subseteq UserPages
      BY SpaceAssumption
    <3>2. addr - brk[p] \in Nat
      BY <1>2, <1>3, <3>1
    <3>3. \A i \in 1..(addr - brk[p]) : brk[p] + i - 1 \in UserPages
      BY <1>2, <1>3, <3>1
    <3> QED BY <3>2, <3>3 DEF Pages
  <2>3. "brk" \in Grows
    BY DEF Grows
  <2> QED BY <1>1, <2>1, <2>2, <2>3, GrowBegins
<1>4. CASE ~(addr > brk[p])
  <2>1. brk' = [brk EXCEPT ![p] = addr] /\ UNCHANGED op
    BY <1>4 DEF SysBrk
  <2> QED BY Zenon, <1>1, <2>1, BrkShrinks
<1> QED BY <1>3, <1>4

\* mmap.
LEMMA SysMmapKeeps ==
  ASSUME SpaceInv, NEW p \in Procs, SysMmap(p)
  PROVE  SpaceInv'
<1>1. op = Idle /\ Live(p) /\ UNCHANGED <<free, space, kstack, pool>>
  BY Zenon DEF SysMmap
<1>2. brk[p] \in BRK_START..BRK_MAX /\ "mmap" \in Grows
  BY <1>1, ProcsBefore DEF Live, Grows
<1>3. ASSUME brk[p] < BRK_MAX, brk' = [brk EXCEPT ![p] = @ + 1],
             op' = GrowOp("mmap", p, brk[p] + 1, <<brk[p]>>)
      PROVE  SpaceInv'
  <2>1. /\ BRK_START \in Nat /\ BRK_MAX \in Nat
        /\ BRK_START..(BRK_MAX - 1) \subseteq UserPages
    BY SpaceAssumption
  <2>2. brk[p] + 1 \in BRK_START..BRK_MAX
    BY <1>2, <1>3, <2>1
  <2>3. brk[p] \in UserPages
    BY <1>2, <1>3, <2>1
  <2>4. <<brk[p]>> \in Seq(UserPages \union {KERNEL_SCRATCH})
    BY <2>3
  <2>5. brk' = [brk EXCEPT ![p] = brk[p] + 1]
    BY <1>3
  <2> QED BY Zenon, <1>1, <1>2, <1>3, <2>2, <2>4, <2>5, GrowBegins
<1>4. ASSUME NEW v \in MmapFixed, UNCHANGED brk, op' = GrowOp("mmap", p, brk[p], <<v>>)
      PROVE  SpaceInv'
  <2>1. <<v>> \in Seq(UserPages \union {KERNEL_SCRATCH})
    BY SpaceAssumption
  <2> QED BY Zenon, <1>1, <1>2, <1>4, <2>1, GrowBegins
<1> QED BY Zenon, <1>3, <1>4 DEF SysMmap, GrowOp

\* fork begins with the child's kernel stack.
LEMMA ForkBegins ==
  ASSUME SpaceInv, Ordered, NEW p \in Procs, ForkBegin(p)
  PROVE  SpaceInv'
<1> DEFINE base == NextFrame
<1>1. /\ op = Idle /\ Live(p) /\ free # {} /\ Run(base) \subseteq free
      /\ op' = [Idle EXCEPT !.call = "fork", !.step = "scratch", !.p = p,
                            !.kstack = base, !.before = free, !.parent = space[p]]
      /\ free' = free \ Run(base) /\ UNCHANGED <<space, kstack, brk, pool>>
  BY DEF ForkBegin
<1>2. /\ free \subseteq Frames /\ OwnInv /\ pool = CHUNK_COUNT
      /\ space[p] \in Tree /\ Closed(space[p])
  BY <1>1, ProcsBefore, IdlePool
<1>3. base \in free /\ base # 0 /\ base \in 0..NFRAMES /\ base \in Frames
  BY <1>1, <1>2, NextIsFree
<1>4. p \in Owners
  BY OwnerKinds
<1> HIDE DEF base
<1>5. op' \in OpType
  BY Zenon, <1>1, <1>2, <1>3, <1>4, IdleFacts DEF OpType
<1>6. /\ op'.call = "fork" /\ op'.step = "scratch" /\ op'.p = p /\ op'.kstack = base
      /\ op'.parent = space[p] /\ op'.root = NoSpace /\ op'.page = 0
      /\ op'.claimed = 0 /\ op'.made = {}
  BY <1>1 DEF Idle
<1>7. OwnInv'
  BY <1>1, <1>2, <1>3, <1>6, OwnTakesStack
<1>8. CallInv' /\ ExecInv'
  BY <1>1, <1>3, <1>6 DEF CallInv, ExecInv, Live, Execs, Grows
<1>9. PoolInv' /\ pool' \in 0..CHUNK_COUNT
  BY <1>1, <1>2, <1>6, SpaceAssumption DEF PoolInv
<1>10. ForkInv'
  <2>1. Cleared(space[p], {}) = space[p]
    BY <1>2 DEF Cleared, Tree
  <2> QED BY <1>1, <1>2, <1>6, <2>1 DEF ForkInv
<1>11. "fork" \notin Execs /\ "fork" \notin Grows
  BY DEF Execs, Grows
<1>12. free' \subseteq Frames
  BY <1>1, <1>2
<1> QED BY <1>1, <1>5, <1>6, <1>7, <1>8, <1>9, <1>10, <1>11, <1>12, IdleFacts, ProcsSame, Going

-----------------------------------------------------------------------------
(* fork and exec create an address space *)

\* One more frame.
LEMMA FramesAdd ==
  ASSUME NEW s \in Tree, NEW e \in Entries, s[e] = 0, NEW f, f # 0
  PROVE  FramesOf([s EXCEPT ![e] = f]) = FramesOf(s) \union {f}
<1> DEFINE t == [s EXCEPT ![e] = f]
<1>1. \A d \in Entries : t[d] = IF d = e THEN f ELSE s[d]
  BY DEF Tree
<1> HIDE DEF t
<1>2. Mapped(t) = Mapped(s) \union {e}
  BY <1>1 DEF Mapped
<1>3. e \notin Mapped(s) /\ \A d \in Mapped(s) : t[d] = s[d]
  BY <1>1 DEF Mapped
<1>4. t[e] = f
  BY <1>1
<1>5. FramesOf(t) = FramesOf(s) \union {f}
  BY <1>2, <1>3, <1>4 DEF FramesOf
<1> QED BY Zenon, <1>5 DEF t

\* One process's address space gets an entry below present tables.
LEMMA SpaceAdds ==
  ASSUME SpaceInv, NEW q \in Procs, NEW e \in Entries, NEW f \in 0..NFRAMES, f # 0,
         \A k \in 0..(e[1] - 1) : space[q][At(k, e[2])] # 0,
         SpaceGets(q, e, f), UNCHANGED <<kstack, brk>>
  PROVE  /\ space' \in [Procs -> Tree] /\ kstack' \in [Procs -> 0..NFRAMES]
         /\ brk' \in [Procs -> 0..BRK_MAX]
         /\ \A p \in Procs : Closed(space'[p])
         /\ \A p \in Procs : kstack'[p] # 0 => Rooted(space'[p]) /\ brk'[p] \in BRK_START..BRK_MAX
<1> DEFINE t == [space[q] EXCEPT ![e] = f]
<1>1. /\ space \in [Procs -> Tree] /\ kstack \in [Procs -> 0..NFRAMES]
      /\ brk \in [Procs -> 0..BRK_MAX]
      /\ \A p \in Procs : Closed(space[p])
      /\ \A p \in Procs : kstack[p] # 0 => Rooted(space[p]) /\ brk[p] \in BRK_START..BRK_MAX
  BY ProcsBefore
<1>2. space[q] \in Tree /\ Closed(space[q])
  BY <1>1
<1>3. t \in Tree /\ Closed(t) /\ (Rooted(space[q]) => Rooted(t))
  BY <1>2, AddEntry
<1> HIDE DEF t
<1>4. space' = [space EXCEPT ![q] = t]
  BY DEF t, SpaceGets
<1>5. /\ space'[q] = t /\ \A p \in Procs : p # q => space'[p] = space[p]
      /\ space' \in [Procs -> Tree]
  BY <1>1, <1>3, <1>4
<1> QED BY <1>1, <1>3, <1>5

\* fork's scratch tables, one at a time.
LEMMA ScratchTaken ==
  ASSUME SpaceInv, Ordered, op.step = "scratch", op.call = "fork",
         NEW M, M = ScratchTables \ Mapped(space[op.p]), M # {}, free # {},
         SpaceGets(op.p, First(M), NextFrame),
         free' = free \ {NextFrame},
         op' = [op EXCEPT !.made = @ \union {First(M)}], UNCHANGED <<kstack, brk, pool>>
  PROVE  SpaceInv'
<1> DEFINE q == op.p
           s == space[q]
           f == NextFrame
           e == First(M)
<1>1. /\ q \in Procs /\ kstack[q] # 0 /\ s \in Tree /\ Rooted(s) /\ space \in [Procs -> Tree]
      /\ free \subseteq Frames /\ op \in OpType /\ Closed(op.root) /\ OwnInv
      /\ op.page = 0 \/ op.step # "scratch"
  BY ProcsBefore DEF SpaceInv, CallInv, Live
<1>2. f \in free /\ f # 0 /\ f \in 0..NFRAMES
  BY <1>1, NextIsFree
<1>3. /\ M \subseteq Entries /\ Hangs(s, M) /\ M \subseteq ScratchTables
      /\ \A d \in M : s[d] = 0
  <2>1. ScratchTables = {At(k, KERNEL_SCRATCH) : k \in 2..3}
    BY DEF ScratchTables
  <2>2. KERNEL_SCRATCH \in UserPages \union {KERNEL_SCRATCH}
    OBVIOUS
  <2> HIDE DEF s
  <2>3. ScratchTables \subseteq Entries /\ Hangs(s, ScratchTables \ Mapped(s))
    BY <1>1, <2>1, <2>2, TablesHang
  <2>4. M = ScratchTables \ Mapped(s)
    BY DEF s
  <2> QED BY <2>3, <2>4 DEF Mapped
<1>4. e \in M /\ \A k \in 0..(e[1] - 1) : s[At(k, e[2])] # 0
  BY Zenon, <1>3, FirstHangs
<1> HIDE DEF e, f
<1>5. /\ op'.call = "fork" /\ op'.step = op.step /\ op'.p = q /\ op'.root = op.root
      /\ op'.page = op.page /\ op'.kstack = op.kstack /\ op'.claimed = op.claimed
      /\ op'.todo = op.todo /\ op'.parent = op.parent /\ op'.made = op.made \union {e}
  BY <1>1 DEF OpType, e
<1>6. op' \in OpType
  <2>1. op.made \union {e} \in SUBSET ScratchTables
    BY <1>1, <1>3, <1>4 DEF OpType
  <2> QED BY Zenon, <1>1, <2>1 DEF OpType, e
<1>7. SpaceGets(q, e, f) /\ free' = free \ {f}
  BY DEF e, f
<1>8. e \in Entries
  BY <1>3, <1>4
<1>9. OwnInv'
  BY <1>1, <1>2, <1>5, <1>7, <1>8, OwnTakesSpace
<1>10. /\ space' \in [Procs -> Tree] /\ kstack' \in [Procs -> 0..NFRAMES]
       /\ brk' \in [Procs -> 0..BRK_MAX]
       /\ \A p \in Procs : Closed(space'[p])
       /\ \A p \in Procs : kstack'[p] # 0 => Rooted(space'[p]) /\ brk'[p] \in BRK_START..BRK_MAX
  BY <1>1, <1>2, <1>4, <1>7, <1>8, SpaceAdds
<1>11. CallInv' /\ ExecInv'
  BY <1>1, <1>5 DEF CallInv, ExecInv, SpaceInv, Live, Execs, Grows
<1>12. PoolInv' /\ pool' \in 0..CHUNK_COUNT
  BY <1>5 DEF SpaceInv, TypeInv, PoolInv, Execs
<1>13. ForkInv'
  <2> DEFINE t == space'[q]
  <2>1. /\ Closed(op.parent) /\ op.parent = Cleared(s, op.made)
        /\ \A d \in op.made : op.parent[d] = 0 /\ s[d] # 0
    BY DEF SpaceInv, ForkInv
  <2>2. \A d \in Entries : t[d] = IF d = e THEN f ELSE s[d]
    <3>1. t = [s EXCEPT ![e] = f]
      BY Zenon, <1>1, <1>7 DEF SpaceGets
    <3> QED BY <1>1, <3>1 DEF Tree
  <2>3. s[e] = 0
    BY <1>3, <1>4
  <2>4. \A d \in Entries : op.parent[d] = IF d \in op.made THEN 0 ELSE s[d]
    BY <2>1 DEF Cleared
  <2>5. op.parent \in Tree
    BY <1>1 DEF OpType
  <2> HIDE DEF t, s
  <2>6. op.parent = Cleared(t, op.made \union {e})
    <3>1. \A d \in Entries : op.parent[d] = Cleared(t, op.made \union {e})[d]
      BY <2>2, <2>3, <2>4 DEF Cleared
    <3> QED BY <2>5, <3>1 DEF Cleared, Tree
  <2>7. op.made \subseteq Entries
    BY <1>1, ScratchIsMade
  <2>8. \A d \in op.made \union {e} : op.parent[d] = 0 /\ t[d] # 0
    BY <1>2, <1>8, <2>1, <2>2, <2>3, <2>4, <2>7
  <2>9. op'.parent = Cleared(space'[op'.p], op'.made)
    BY <1>5, <2>6 DEF t
  <2>10. \A d \in op'.made : op'.parent[d] = 0 /\ space'[op'.p][d] # 0
    BY <1>5, <2>8 DEF t
  <2> QED BY Zenon, <1>5, <2>1, <2>9, <2>10 DEF ForkInv
<1>14. "fork" \notin Execs /\ "fork" \notin Grows /\ free' \subseteq Frames
  BY <1>1, <1>7 DEF Execs, Grows
<1>15. Closed(op'.root)
  BY <1>1, <1>5
<1> QED BY <1>5, <1>6, <1>9, <1>10, <1>11, <1>12, <1>13, <1>14, <1>15, Going

\* provision_kernel_scratch.
LEMMA ProvisionKeeps ==
  ASSUME SpaceInv, Ordered, ProvisionScratch
  PROVE  SpaceInv' /\ (op' = Idle => space'[op.p] = op.parent)
<1> DEFINE M == ScratchTables \ Mapped(space[op.p])
<1>1. op.step = "scratch" /\ op \in OpType
  BY DEF ProvisionScratch, SpaceInv, TypeInv
<1>2. op.call = "fork"
  <2>1. op.call \in {"none", "fork"} \union Execs \union Grows
    BY <1>1 DEF OpType
  <2> QED BY <1>1, <2>1 DEF SpaceInv, CallInv, Idle
<1>3. CASE M # {} /\ free = {} /\ ForkFail
  BY <1>2, <1>3, ForkFailKeeps
<1>4. ASSUME M # {}, free # {},
             space' = [space EXCEPT ![op.p][First(M)] = NextFrame],
             free' = free \ {NextFrame}, op' = [op EXCEPT !.made = @ \union {First(M)}],
             UNCHANGED <<kstack, brk, pool>>
      PROVE  SpaceInv' /\ op' # Idle
  <2>1. SpaceGets(op.p, First(M), NextFrame)
    BY <1>4 DEF SpaceGets
  <2> HIDE DEF M
  <2>2. op'.call = "fork"
    BY <1>1, <1>2, <1>4 DEF OpType
  <2>3. M = ScratchTables \ Mapped(space[op.p])
    BY DEF M
  <2>4. SpaceInv'
    BY <1>1, <1>2, <1>4, <2>1, <2>3, ScratchTaken
  <2> QED BY <2>2, <2>4, IdleFacts
<1>5. ASSUME op' = [op EXCEPT !.step = "create"], UNCHANGED <<free, space, kstack, brk, pool>>
      PROVE  SpaceInv' /\ op' # Idle
  <2>1. op' \in OpType
    BY Zenon, <1>1, <1>5 DEF OpType
  <2>2. /\ op'.call = "fork" /\ op'.step = "create" /\ op'.p = op.p /\ op'.root = op.root
        /\ op'.page = op.page /\ op'.kstack = op.kstack /\ op'.claimed = op.claimed
        /\ op'.todo = op.todo /\ op'.parent = op.parent /\ op'.made = op.made
    BY <1>1, <1>2, <1>5 DEF OpType
  <2>3. OwnInv'
    BY <1>5, <2>2, OwnSame DEF SpaceInv
  <2>4. CallInv' /\ ExecInv' /\ ForkInv'
    BY <1>1, <1>2, <1>5, <2>2 DEF CallInv, ExecInv, ForkInv, SpaceInv, Live, Execs, Grows
  <2>5. PoolInv' /\ pool' \in 0..CHUNK_COUNT
    BY <1>2, <1>5, <2>2 DEF SpaceInv, TypeInv, PoolInv
  <2>6. "fork" \notin Execs /\ "fork" \notin Grows
    BY DEF Execs, Grows
  <2>7. free' \subseteq Frames /\ Closed(op'.root)
    BY <1>5, <2>2, ProcsBefore
  <2>8. SpaceInv'
    BY <1>5, <2>1, <2>2, <2>3, <2>4, <2>5, <2>6, <2>7, ProcsSame, Going
  <2> QED BY <2>2, <2>8, IdleFacts
<1> QED BY <1>3, <1>4, <1>5 DEF ProvisionScratch

\* The root under construction gets an entry below present tables.
LEMMA RootAdds ==
  ASSUME op.root \in Tree, Closed(op.root), NEW e \in Entries, NEW f \in 0..NFRAMES, f # 0,
         \A k \in 0..(e[1] - 1) : op.root[At(k, e[2])] # 0, RootGets(e, f)
  PROVE  /\ op'.root \in Tree /\ Closed(op'.root)
         /\ Rooted(op.root) => Rooted(op'.root)
         /\ op.root[e] = 0 => FramesOf(op'.root) = FramesOf(op.root) \union {f}
         /\ \A d \in Entries : d # e => op'.root[d] = op.root[d]
<1>1. op'.root = [op.root EXCEPT ![e] = f]
  BY DEF RootGets
<1>2. /\ [op.root EXCEPT ![e] = f] \in Tree /\ Closed([op.root EXCEPT ![e] = f])
      /\ Rooted(op.root) => Rooted([op.root EXCEPT ![e] = f])
  BY AddEntry
<1>3. op.root[e] = 0 => FramesOf([op.root EXCEPT ![e] = f]) = FramesOf(op.root) \union {f}
  BY FramesAdd
<1>4. \A d \in Entries : d # e => op'.root[d] = op.root[d]
  BY <1>1 DEF Tree
<1> QED BY <1>1, <1>2, <1>3, <1>4

\* create_pml4 adds one table or leaf.
LEMMA CreateStepKeeps ==
  ASSUME SpaceInv, Ordered, CreateStep
  PROVE  SpaceInv' /\ op' # Idle
<1> DEFINE e == First(Missing)
           f == NextFrame
<1>1. /\ op.step = "create" /\ Missing # {} /\ free # {}
      /\ op' = [op EXCEPT !.root[e] = f] /\ free' = free \ {f}
      /\ UNCHANGED <<space, kstack, brk, pool>>
  BY DEF CreateStep
<1>2. /\ free \subseteq Frames /\ op \in OpType /\ op.root \in Tree /\ Closed(op.root) /\ OwnInv
      /\ \A p \in Procs : Closed(space[p])
  BY ProcsBefore
<1>3. op.call # "none" /\ op.p \in Procs /\ op.page = 0 /\ op.call \notin Grows
  <2>1. op.call # "none"
    BY <1>1 DEF SpaceInv, CallInv, Idle
  <2> QED BY <1>1, <2>1 DEF SpaceInv, CallInv
<1>4. f \in free /\ f # 0 /\ f \in 0..NFRAMES
  BY <1>1, <1>2, NextIsFree
<1>5. Missing \subseteq Entries /\ Hangs(op.root, Missing) /\ \A d \in Missing : op.root[d] = 0
  <2> DEFINE s == space[op.p]
             copy == op.call = "fork"
  <2>1. Closed(s) /\ copy \in BOOLEAN
    BY <1>2, <1>3
  <2>2. Missing = Wanted(s, copy) \ Mapped(op.root)
    BY DEF Missing
  <2> HIDE DEF s, copy
  <2>3. Hangs(op.root, Wanted(s, copy) \ Mapped(op.root)) /\ Wanted(s, copy) \subseteq Entries
    BY <2>1, WantedHangs
  <2> QED BY <2>2, <2>3 DEF Mapped
<1>6. e \in Missing /\ \A k \in 0..(e[1] - 1) : op.root[At(k, e[2])] # 0
  BY <1>1, <1>5, FirstHangs
<1> HIDE DEF e, f
<1>7. e \in Entries /\ op.root[e] = 0
  BY <1>5, <1>6
<1>8. /\ op'.call = op.call /\ op'.step = op.step /\ op'.p = op.p /\ op'.page = op.page
      /\ op'.kstack = op.kstack /\ op'.claimed = op.claimed /\ op'.todo = op.todo
      /\ op'.parent = op.parent /\ op'.made = op.made /\ op'.before = op.before
      /\ RootGets(e, f)
  BY <1>1, <1>2 DEF OpType, RootGets
<1>9. /\ op'.root \in Tree /\ Closed(op'.root)
      /\ FramesOf(op'.root) = FramesOf(op.root) \union {f}
  BY <1>2, <1>4, <1>6, <1>7, <1>8, RootAdds
<1>10. op' \in OpType
  <2>1. op' = [op EXCEPT !.root = op'.root]
    BY <1>1, <1>2 DEF OpType
  <2> QED BY <1>2, <1>9, <2>1 DEF OpType
<1>11. OwnInv'
  BY <1>1, <1>2, <1>4, <1>7, <1>8, OwnTakesRoot
<1>12. CallInv' /\ ForkInv'
  BY <1>1, <1>3, <1>8 DEF CallInv, ForkInv, SpaceInv, Live
<1>13. PoolInv' /\ pool' \in 0..CHUNK_COUNT
  BY <1>1, <1>8 DEF SpaceInv, TypeInv, PoolInv
<1>14. ExecInv'
  <2>1. free = free' \union {f}
    BY <1>1, <1>4
  <2>2. op.call \in Execs => op.before = free \union FramesOf(op.root) \union ({op.page} \ {0})
    BY DEF SpaceInv, ExecInv
  <2>3. op.call \in Execs => op'.before = free' \union FramesOf(op'.root) \union ({op'.page} \ {0})
    BY <1>8, <1>9, <2>1, <2>2
  <2> QED BY <1>3, <1>8, <2>3 DEF ExecInv
<1>15. free' \subseteq Frames
  BY <1>1, <1>2
<1>16. SpaceInv'
  BY <1>1, <1>3, <1>8, <1>9, <1>10, <1>11, <1>12, <1>13, <1>14, <1>15, ProcsSame, Going
<1> QED BY <1>3, <1>8, <1>16, IdleFacts

\* The image has its address space and is loaded next.
LEMMA CreateDoneKeeps ==
  ASSUME SpaceInv, CreateDone
  PROVE  SpaceInv' /\ op' # Idle
<1>1. /\ op.call \in Execs /\ op.step = "create" /\ Missing = {}
      /\ op' = [op EXCEPT !.step = "load"] /\ UNCHANGED <<free, space, kstack, brk, pool>>
  BY DEF CreateDone
<1>2. free \subseteq Frames /\ op \in OpType /\ Closed(op.root) /\ OwnInv
  BY ProcsBefore
<1>3. op.call # "none" /\ op.call # "fork" /\ op.call \notin Grows
  BY <1>1 DEF Execs, Grows
<1>4. Rooted(op.root) /\ op.page = 0
  BY <1>1, <1>3, RootedCopy DEF SpaceInv, CallInv
<1>5. /\ op'.call = op.call /\ op'.step = "load" /\ op'.p = op.p /\ op'.page = op.page
      /\ op'.kstack = op.kstack /\ op'.claimed = op.claimed /\ op'.todo = op.todo
      /\ op'.before = op.before /\ op'.root = op.root
  BY <1>1, <1>2 DEF OpType
<1>6. op' \in OpType
  BY Zenon, <1>1, <1>2 DEF OpType
<1>7. OwnInv'
  BY <1>1, <1>2, <1>5, OwnSame
<1>8. CallInv' /\ ForkInv'
  BY <1>1, <1>3, <1>4, <1>5 DEF CallInv, ForkInv, SpaceInv, Live
<1>9. PoolInv' /\ pool' \in 0..CHUNK_COUNT
  BY <1>1, <1>5 DEF SpaceInv, TypeInv, PoolInv
<1>10. ExecInv'
  BY <1>1, <1>4, <1>5 DEF SpaceInv, ExecInv
<1>11. free' \subseteq Frames /\ Closed(op'.root) /\ Rooted(op'.root)
  BY <1>1, <1>2, <1>4, <1>5
<1>12. SpaceInv'
  BY <1>1, <1>3, <1>5, <1>6, <1>7, <1>8, <1>9, <1>10, <1>11, ProcsSame, Going
<1> QED BY <1>3, <1>5, <1>12, IdleFacts
=============================================================================
