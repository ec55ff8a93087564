----------------------------- MODULE PipeProofs -----------------------------
(***************************************************************************)
(* The ring buffer of a pipe is a bounded queue, for every buffer size and *)
(* every width of the offsets that is a multiple of it: the writer is      *)
(* never more than PIPE_BUF_SIZE - 1 ahead, and what readers get is what   *)
(* was written, in order.  The arithmetic lemmas are about the wrapping    *)
(* offsets; the rest follows the two calls.                                *)
(***************************************************************************)
EXTENDS Pipe, SequenceTheorems, TLAPS

-----------------------------------------------------------------------------
(* Remainders *)

\* Euclidean division.
LEMMA DivMod ==
  ASSUME NEW a \in Int, NEW m \in Nat \ {0}
  PROVE  /\ a \div m \in Int /\ a % m \in 0..(m - 1)
         /\ a = m * (a \div m) + (a % m)
OBVIOUS

\* No multiple of m but 0 lies between -m and m.
LEMMA NoMultiple ==
  ASSUME NEW k \in Int, NEW m \in Nat \ {0}, -m < m * k, m * k < m
  PROVE  k = 0
<1>1. CASE k >= 1
  <2>1. m * k >= m
    BY <1>1
  <2> QED BY <2>1
<1>2. CASE k <= -1
  <2>1. m * k <= -m
    BY <1>2
  <2> QED BY <2>1
<1> QED BY <1>1, <1>2

\* The remainder is unique.
LEMMA ModUnique ==
  ASSUME NEW a \in Int, NEW m \in Nat \ {0}, NEW q \in Int, NEW r \in 0..(m - 1),
         a = m * q + r
  PROVE  a % m = r
<1> DEFINE d == a \div m
           s == a % m
<1>1. d \in Int /\ s \in 0..(m - 1) /\ a = m * d + s
  BY DivMod
<1> HIDE DEF d, s
<1>2. m * (q - d) = s - r
  BY <1>1
<1>3. q - d = 0
  BY <1>1, <1>2, NoMultiple
<1> QED BY <1>1, <1>3 DEF s

\* Two numbers less than m apart with the same remainder are the same.
LEMMA ModInjective ==
  ASSUME NEW a \in Int, NEW b \in Int, NEW m \in Nat \ {0}, -m < a - b, a - b < m,
         a % m = b % m
  PROVE  a = b
<1> DEFINE c == a \div m
           d == b \div m
           r == a % m
<1>1. c \in Int /\ a = m * c + r
  BY DivMod
<1>2. d \in Int /\ r \in Int /\ b = m * d + r
  BY DivMod
<1> HIDE DEF c, d, r
<1>3. m * (c - d) = a - b
  BY <1>1, <1>2
<1>4. c - d = 0
  BY <1>1, <1>2, <1>3, NoMultiple
<1> QED BY <1>1, <1>2, <1>4

\* Adding multiples of m does not change the remainder.
LEMMA ModShift ==
  ASSUME NEW a \in Int, NEW m \in Nat \ {0}, NEW k \in Int
  PROVE  (a - m * k) % m = a % m
<1> DEFINE c == a \div m
           r == a % m
<1>1. c \in Int /\ r \in 0..(m - 1) /\ a = m * c + r
  BY DivMod
<1> HIDE DEF c, r
<1> DEFINE b == a - m * k
           d == c - k
<1>2. b \in Int /\ d \in Int /\ b = m * d + r
  BY <1>1
<1> HIDE DEF b, d
<1>3. b % m = r
  BY <1>1, <1>2, ModUnique
<1> QED BY <1>3 DEF b, r

\* The smaller of two numbers.
LEMMA MinOfTwo ==
  ASSUME NEW a \in Int, NEW b \in Int
  PROVE  Min({a, b}) \in {a, b} /\ Min({a, b}) <= a /\ Min({a, b}) <= b
<1>1. \E x \in {a, b} : \A y \in {a, b} : x <= y
  OBVIOUS
<1> QED BY <1>1 DEF Min

\* The elements of a part of a sequence.
LEMMA PartOfSeq ==
  ASSUME NEW S, NEW s \in Seq(S), NEW m \in Nat, NEW n \in Nat, m <= n, n <= Len(s)
  PROVE  /\ SubSeq(s, m + 1, n) \in Seq(S) /\ Len(SubSeq(s, m + 1, n)) = n - m
         /\ \A i \in 1..(n - m) : SubSeq(s, m + 1, n)[i] = s[m + i]
<1> DEFINE a == m + 1
<1>1. a \in Int /\ n \in Int /\ \A i \in a..n : s[i] \in S
  OBVIOUS
<1> HIDE DEF a
<1>2. /\ SubSeq(s, a, n) \in Seq(S) /\ Len(SubSeq(s, a, n)) = IF a <= n THEN n - a + 1 ELSE 0
      /\ \A i \in 1..(n - a + 1) : SubSeq(s, a, n)[i] = s[a + i - 1]
  BY <1>1, SubSeqProperties
<1>3. (IF a <= n THEN n - a + 1 ELSE 0) = n - m /\ n - a + 1 = n - m
  BY DEF a
<1>4. ASSUME NEW i \in 1..(n - m) PROVE SubSeq(s, a, n)[i] = s[m + i]
  BY <1>2, <1>3, a + i - 1 = m + i DEF a
<1> QED BY <1>2, <1>3, <1>4 DEF a

-----------------------------------------------------------------------------
(* The wrapping offsets *)

Offsets == 0..(USIZE - 1)

\* An offset that is advanced wraps at most once.
LEMMA WrapUp ==
  ASSUME NEW x \in 0..(2 * USIZE - 1)
  PROVE  x % USIZE = IF x < USIZE THEN x ELSE x - USIZE
<1> USE PipeAssumption
<1>1. CASE x < USIZE
  BY <1>1, ModUnique, x = USIZE * 0 + x
<1>2. CASE x >= USIZE
  BY <1>2, ModUnique, x = USIZE * 1 + (x - USIZE)
<1> QED BY <1>1, <1>2

\* wrapping_sub of two offsets.
LEMMA WrapDown ==
  ASSUME NEW x \in (1 - USIZE)..(USIZE - 1)
  PROVE  x % USIZE = IF x >= 0 THEN x ELSE x + USIZE
<1> USE PipeAssumption
<1>1. CASE x >= 0
  BY <1>1, ModUnique, x = USIZE * 0 + x
<1>2. CASE x < 0
  BY <1>2, ModUnique, x = USIZE * (-1) + (x + USIZE)
<1> QED BY <1>1, <1>2

\* A whole turn of the offsets is a number of whole turns in the buffer.
LEMMA WholeTurns ==
  ASSUME NEW x \in Int
  PROVE  (x - USIZE) % PIPE_BUF_SIZE = x % PIPE_BUF_SIZE
<1> USE PipeAssumption
<1> DEFINE k == USIZE \div PIPE_BUF_SIZE
<1>1. USIZE \in Int /\ PIPE_BUF_SIZE \in Nat \ {0}
  OBVIOUS
<1>2. k \in Int /\ USIZE = PIPE_BUF_SIZE * k + (USIZE % PIPE_BUF_SIZE)
  BY <1>1, DivMod
<1> HIDE DEF k
<1>3. PIPE_BUF_SIZE * k \in Int
  BY <1>1, <1>2
<1>4. USIZE = PIPE_BUF_SIZE * k
  BY <1>2, <1>3
<1>5. (x - PIPE_BUF_SIZE * k) % PIPE_BUF_SIZE = x % PIPE_BUF_SIZE
  BY <1>1, <1>2, ModShift
<1> QED BY <1>4, <1>5

\* The wrap does not show in the index, as the size divides 2^64.
LEMMA CellIs ==
  ASSUME NEW off \in Offsets, NEW j \in Cells
  PROVE  Cell(off, j) = (off + j) % PIPE_BUF_SIZE /\ Cell(off, j) \in Cells
<1> USE PipeAssumption DEF Offsets, Cells
<1>1. (off + j) % USIZE = IF off + j < USIZE THEN off + j ELSE off + j - USIZE
  <2> DEFINE x == off + j
  <2>1. x \in 0..(2 * USIZE - 1)
    OBVIOUS
  <2> HIDE DEF x
  <2>2. x % USIZE = IF x < USIZE THEN x ELSE x - USIZE
    BY ONLY <2>1, WrapUp
  <2> QED BY <2>2 DEF x
<1>2. (off + j - USIZE) % PIPE_BUF_SIZE = (off + j) % PIPE_BUF_SIZE
  <2> DEFINE x == off + j
  <2>1. x \in Int
    OBVIOUS
  <2> HIDE DEF x
  <2>2. (x - USIZE) % PIPE_BUF_SIZE = x % PIPE_BUF_SIZE
    BY ONLY <2>1, WholeTurns
  <2> QED BY <2>2 DEF x
<1>3. Cell(off, j) = (off + j) % PIPE_BUF_SIZE
  BY <1>1, <1>2 DEF Cell
<1> QED BY <1>3, DivMod, off + j \in Int

\* Fewer than PIPE_BUF_SIZE bytes in a row have cells of their own.
LEMMA CellInjective ==
  ASSUME NEW off \in Offsets, NEW i \in Cells, NEW j \in Cells, Cell(off, i) = Cell(off, j)
  PROVE  i = j
<1> USE PipeAssumption DEF Offsets, Cells
<1>1. (off + i) % PIPE_BUF_SIZE = (off + j) % PIPE_BUF_SIZE
  BY CellIs
<1> DEFINE a == off + i
           b == off + j
<1>2. a \in Int /\ b \in Int /\ -PIPE_BUF_SIZE < a - b /\ a - b < PIPE_BUF_SIZE
  OBVIOUS
<1>3. a % PIPE_BUF_SIZE = b % PIPE_BUF_SIZE
  BY <1>1
<1> HIDE DEF a, b
<1>4. a = b
  BY <1>2, <1>3, ModInjective
<1> QED BY <1>4 DEF a, b

\* Cells are counted from an offset or from one further on.
LEMMA CellShift ==
  ASSUME NEW off \in Offsets, NEW n \in Nat, NEW j \in Nat, n + j \in Cells
  PROVE  Cell((off + n) % USIZE, j) = Cell(off, n + j) /\ (off + n) % USIZE \in Offsets
<1> USE PipeAssumption DEF Offsets, Cells
<1> DEFINE o == (off + n) % USIZE
<1>1. o = IF off + n < USIZE THEN off + n ELSE off + n - USIZE
  <2> DEFINE x == off + n
  <2>1. x \in 0..(2 * USIZE - 1)
    OBVIOUS
  <2> HIDE DEF x
  <2>2. x % USIZE = IF x < USIZE THEN x ELSE x - USIZE
    BY ONLY <2>1, WrapUp
  <2> QED BY <2>2 DEF x
<1>2. o \in Offsets /\ j \in Cells
  BY <1>1
<1> HIDE DEF o
<1>3. (off + n + j - USIZE) % PIPE_BUF_SIZE = (off + n + j) % PIPE_BUF_SIZE
  <2> DEFINE x == off + n + j
  <2>1. x \in Int
    OBVIOUS
  <2> HIDE DEF x
  <2>2. (x - USIZE) % PIPE_BUF_SIZE = x % PIPE_BUF_SIZE
    BY ONLY <2>1, WholeTurns
  <2> QED BY <2>2 DEF x
<1>4. Cell(o, j) = (o + j) % PIPE_BUF_SIZE
  BY <1>2, CellIs
<1>5. Cell(off, n + j) = (off + (n + j)) % PIPE_BUF_SIZE
  BY CellIs
<1>6. (o + j = off + n + j \/ o + j = off + n + j - USIZE) /\ off + (n + j) = off + n + j
  BY <1>1, <1>2
<1>7. (o + j) % PIPE_BUF_SIZE = (off + n + j) % PIPE_BUF_SIZE
  BY <1>3, <1>6
<1> QED BY <1>2, <1>4, <1>5, <1>6, <1>7 DEF o

-----------------------------------------------------------------------------
(* The invariant *)

\* wrapping_sub gives the number of unread bytes, also after a wrap of the
\* write offset alone.
LEMMA UsedIs ==
  ASSUME read_off \in Offsets, write_off \in Offsets
  PROVE  /\ Used = IF write_off >= read_off THEN write_off - read_off
                   ELSE write_off - read_off + USIZE
         /\ Used \in Offsets
         /\ (read_off + Used) % USIZE = write_off
<1> USE PipeAssumption DEF Offsets
<1> DEFINE x == write_off - read_off
<1>1. x \in (1 - USIZE)..(USIZE - 1)
  OBVIOUS
<1>2. Used = x % USIZE
  BY DEF Used
<1> HIDE DEF x
<1>3. x % USIZE = IF x >= 0 THEN x ELSE x + USIZE
  BY ONLY <1>1, WrapDown
<1>4. /\ Used = IF write_off >= read_off THEN write_off - read_off
                ELSE write_off - read_off + USIZE
      /\ Used \in Offsets
  BY <1>1, <1>2, <1>3 DEF x
<1> DEFINE y == read_off + Used
<1>5. y \in 0..(2 * USIZE - 1) /\ write_off = IF y < USIZE THEN y ELSE y - USIZE
  BY <1>4
<1> HIDE DEF y
<1>6. y % USIZE = write_off
  BY <1>5, WrapUp
<1> QED BY <1>4, <1>6 DEF y

\* With at most PIPE_BUF_SIZE - 1 bytes in the buffer the subtraction that
\* computes the space does not wrap, and a write leaves one cell empty.
LEMMA WriteFits ==
  ASSUME OneSlotEmpty, NEW msg \in Messages, NEW n, n = Min({Len(msg), Space})
  PROVE  /\ Space = PIPE_BUF_SIZE - 1 - Used /\ msg \in Seq(Bytes)
         /\ n \in 0..Len(msg) /\ Used \in Nat /\ Used + n \in Cells
         /\ n = Min({Len(msg), PIPE_BUF_SIZE - 1 - Used})
<1> USE PipeAssumption DEF Offsets, Cells
<1>1. Used \in Offsets /\ Used <= PIPE_BUF_SIZE - 1
  BY UsedIs DEF OneSlotEmpty, PipeTypeOK
<1> DEFINE x == PIPE_BUF_SIZE - 1 - Used
<1>2. x \in (1 - USIZE)..(USIZE - 1) /\ x >= 0 /\ x <= PIPE_BUF_SIZE - 1
  BY <1>1
<1>3. Space = x % USIZE
  BY DEF Space
<1> HIDE DEF x
<1>4. Space = x
  BY <1>2, <1>3, WrapDown
<1>5. Len(msg) \in Nat /\ msg \in Seq(Bytes)
  OBVIOUS
<1>6. n \in {Len(msg), x} /\ n <= Len(msg) /\ n <= x
  <2>1. Len(msg) \in Int /\ x \in Int
    BY <1>2, <1>5
  <2>2. /\ Min({Len(msg), x}) \in {Len(msg), x}
        /\ Min({Len(msg), x}) <= Len(msg) /\ Min({Len(msg), x}) <= x
    BY ONLY Zenon, <2>1, MinOfTwo
  <2> QED BY ONLY Zenon, <1>4, <2>2, n = Min({Len(msg), Space})
<1> QED BY <1>1, <1>2, <1>4, <1>5, <1>6 DEF x

\* n bytes more are unread after a write of n bytes.
LEMMA WriteUsed ==
  ASSUME OneSlotEmpty, NEW n \in Nat, Used + n \in Cells,
         write_off' = (write_off + n) % USIZE, read_off' = read_off
  PROVE  write_off' \in Offsets /\ read_off' \in Offsets /\ Used' = Used + n
<1> USE PipeAssumption DEF Offsets, Cells
<1>1. read_off \in Offsets /\ write_off \in Offsets
  BY DEF OneSlotEmpty, PipeTypeOK
<1>2. /\ Used = IF write_off >= read_off THEN write_off - read_off
                ELSE write_off - read_off + USIZE
      /\ Used \in Offsets
  BY <1>1, UsedIs
<1> DEFINE x == write_off + n
<1>3. x \in 0..(2 * USIZE - 1)
  BY <1>1, <1>2
<1> HIDE DEF x
<1>4. x % USIZE = IF x < USIZE THEN x ELSE x - USIZE
  BY ONLY <1>3, WrapUp
<1>5. /\ write_off' = IF write_off + n < USIZE THEN write_off + n ELSE write_off + n - USIZE
      /\ write_off' \in Offsets
  BY <1>1, <1>3, <1>4 DEF x
<1> DEFINE y == write_off' - read_off
<1>6. y \in (1 - USIZE)..(USIZE - 1)
  BY <1>1, <1>5
<1>7. Used' = y % USIZE
  BY DEF Used
<1> HIDE DEF y
<1>8. y % USIZE = IF y >= 0 THEN y ELSE y + USIZE
  BY ONLY <1>6, WrapDown
<1>9. Used' = IF y >= 0 THEN y ELSE y + USIZE
  BY <1>7, <1>8
<1> QED BY <1>1, <1>2, <1>5, <1>9 DEF y

\* n bytes fewer are unread after a read of n bytes.
LEMMA ReadUsed ==
  ASSUME OneSlotEmpty, NEW len \in Lengths, PipeRead(len), NEW n, n = Min({len, Used})
  PROVE  /\ n \in 0..Used /\ Used \in Cells /\ read_off' = (read_off + n) % USIZE
         /\ write_off' \in Offsets /\ read_off' \in Offsets /\ Used' = Used - n
<1> USE PipeAssumption DEF Offsets, Cells
<1>1. read_off \in Offsets /\ write_off \in Offsets /\ Used <= PIPE_BUF_SIZE - 1
  BY DEF OneSlotEmpty, PipeTypeOK
<1>2. /\ Used = IF write_off >= read_off THEN write_off - read_off
                ELSE write_off - read_off + USIZE
      /\ Used \in Offsets
  BY <1>1, UsedIs
<1>3. n \in 0..Used
  <2>1. len \in Int /\ Used \in Int /\ len \in Nat
    BY <1>2
  <2>2. n \in {len, Used} /\ n <= len /\ n <= Used
    BY Zenon, <2>1, MinOfTwo
  <2> QED BY <1>2, <2>1, <2>2
<1>4. read_off' = (read_off + n) % USIZE /\ write_off' = write_off
  BY DEF PipeRead
<1> DEFINE x == read_off + n
<1>5. x \in 0..(2 * USIZE - 1)
  BY <1>1, <1>2, <1>3
<1> HIDE DEF x
<1>6. x % USIZE = IF x < USIZE THEN x ELSE x - USIZE
  BY ONLY <1>5, WrapUp
<1>7. /\ read_off' = IF read_off + n < USIZE THEN read_off + n ELSE read_off + n - USIZE
      /\ read_off' \in Offsets
  BY ONLY <1>1, <1>3, <1>4, <1>5, <1>6, PipeAssumption DEF x, Offsets
<1> DEFINE y == write_off - read_off'
<1>8. y \in (1 - USIZE)..(USIZE - 1)
  BY <1>1, <1>7
<1>9. Used' = y % USIZE
  BY <1>4 DEF Used
<1> HIDE DEF y
<1>10. y % USIZE = IF y >= 0 THEN y ELSE y + USIZE
  BY ONLY <1>8, WrapDown
<1>11. Used' = IF y >= 0 THEN y ELSE y + USIZE
  BY <1>9, <1>10
<1>12. Used' = Used - n
  <2>1. n \in Nat /\ n <= Used /\ Used \in Nat
    BY <1>2, <1>3
  <2>2. CASE y >= 0
    BY ONLY <1>1, <1>2, <1>7, <1>11, <2>1, <2>2, PipeAssumption DEF y, Offsets
  <2>3. CASE ~(y >= 0)
    BY ONLY <1>1, <1>2, <1>7, <1>11, <2>1, <2>3, PipeAssumption DEF y, Offsets
  <2> QED BY <2>2, <2>3
<1>13. Used \in Cells
  BY <1>1, <1>2
<1> QED BY <1>1, <1>3, <1>4, <1>7, <1>12, <1>13

\* The last byte that goes to a cell, if only one does.
LEMMA MaxOfOne ==
  ASSUME NEW j \in Int
  PROVE  Max({j}) = j
BY DEF Max

\* A write puts the bytes into the cells that follow the unread ones, and leaves
\* those alone.
LEMMA WriteBuf ==
  ASSUME OneSlotEmpty, NEW msg \in Messages, PipeWrite(msg),
         NEW n, n = Min({Len(msg), Space})
  PROVE  /\ buf' \in [Cells -> Bytes]
         /\ \A i \in 0..(Used - 1) : buf'[Cell(read_off, i)] = buf[Cell(read_off, i)]
         /\ \A j \in 0..(n - 1) : buf'[Cell(read_off, Used + j)] = msg[j + 1]
<1> USE PipeAssumption
<1>1. /\ msg \in Seq(Bytes) /\ n \in 0..Len(msg) /\ Used \in Nat /\ Used + n \in Cells
  BY WriteFits
<1>2. read_off \in Offsets /\ write_off \in Offsets /\ buf \in [Cells -> Bytes]
  BY DEF OneSlotEmpty, PipeTypeOK, Offsets
<1>3. ASSUME NEW j \in 0..(n - 1)
      PROVE  /\ Cell(write_off, j) = Cell(read_off, Used + j)
             /\ j \in Cells /\ Used + j \in Cells
  <2>1. j \in Nat /\ j \in Cells /\ Used + j \in Cells
    BY <1>1 DEF Cells
  <2>2. Cell((read_off + Used) % USIZE, j) = Cell(read_off, Used + j)
    BY <1>1, <1>2, <2>1, CellShift
  <2>3. (read_off + Used) % USIZE = write_off
    BY <1>2, UsedIs
  <2> QED BY <2>1, <2>2, <2>3
<1> DEFINE J(c) == {j \in 0..(n - 1) : Cell(write_off, j) = c}
<1>4. ASSUME NEW j \in 0..(n - 1)
      PROVE  J(Cell(write_off, j)) = {j}
  <2>1. ASSUME NEW i \in 0..(n - 1), Cell(write_off, i) = Cell(write_off, j) PROVE i = j
    <3>1. i \in Cells /\ j \in Cells
      BY Zenon, <1>3
    <3> QED BY Zenon, <1>2, <2>1, <3>1, CellInjective
  <2> QED BY <2>1
<1>5. buf' = [c \in Cells |-> IF J(c) = {} THEN buf[c] ELSE msg[Max(J(c)) + 1]]
  BY DEF PipeWrite
<1> HIDE DEF J
<1>6. ASSUME NEW j \in 0..(n - 1)
      PROVE  Cell(write_off, j) \in Cells /\ buf'[Cell(write_off, j)] = msg[j + 1]
  <2>1. Cell(write_off, j) \in Cells
    BY <1>2, <1>3, CellIs
  <2>2. J(Cell(write_off, j)) = {j}
    BY Zenon, <1>4
  <2>3. Max({j}) = j
    BY MaxOfOne
  <2>4. buf'[Cell(write_off, j)] = msg[Max({j}) + 1]
    BY Zenon, <1>5, <2>1, <2>2, {j} # {}
  <2> QED BY Zenon, <2>1, <2>3, <2>4
<1>7. ASSUME NEW c \in Cells
      PROVE  \/ J(c) = {}
             \/ \E j \in 0..(n - 1) : c = Cell(write_off, j)
  BY DEF J
<1>8. ASSUME NEW c \in Cells
      PROVE  buf'[c] \in Bytes
  <2>1. CASE J(c) = {}
    BY <1>2, <1>5, <2>1
  <2>2. ASSUME NEW j \in 0..(n - 1), c = Cell(write_off, j) PROVE buf'[c] \in Bytes
    <3>1. j + 1 \in 1..Len(msg)
      BY <1>1
    <3>2. buf'[c] = msg[j + 1]
      BY Zenon, <1>6, <2>2
    <3> QED BY <1>1, <3>1, <3>2
  <2> QED BY <1>7, <2>1, <2>2
<1>9. buf' \in [Cells -> Bytes]
  BY <1>5, <1>8
<1>10. ASSUME NEW i \in 0..(Used - 1)
       PROVE  buf'[Cell(read_off, i)] = buf[Cell(read_off, i)]
  <2>1. i \in Cells
    BY <1>1 DEF Cells
  <2>4. Cell(read_off, i) \in Cells
    BY Zenon, <1>2, <2>1, CellIs
  <2>2. ASSUME NEW j \in 0..(n - 1), Cell(read_off, i) = Cell(write_off, j) PROVE FALSE
    <3>1. Cell(read_off, i) = Cell(read_off, Used + j) /\ Used + j \in Cells
      BY Zenon, <1>3, <2>2
    <3>2. i = Used + j
      BY Zenon, <1>2, <2>1, <3>1, CellInjective
    <3> QED BY <1>1, <3>2
  <2>3. J(Cell(read_off, i)) = {}
    BY Zenon, <1>7, <2>4, <2>2
  <2> QED BY Zenon, <1>5, <2>4, <2>3
<1> QED BY <1>3, <1>6, <1>9, <1>10

\* The invariant is inductive.
LEMMA PipeInductive ==
  ASSUME OneSlotEmpty, [PipeNext]_pipeVars
  PROVE  OneSlotEmpty'
<1> USE PipeAssumption
<1>1. ASSUME NEW msg \in Messages, PipeWrite(msg) PROVE OneSlotEmpty'
  <2>1. PICK n : n = Min({Len(msg), Space})
    OBVIOUS
  <2>a. n \in 0..Len(msg) /\ msg \in Seq(Bytes) /\ Used \in Nat /\ Used + n \in Cells
    BY Zenon, <2>1, WriteFits
  <2>2. n \in Nat /\ Used \in Nat /\ Used + n \in Cells
    BY <2>a
  <2>3. buf' \in [Cells -> Bytes]
    BY <1>1, <2>1, WriteBuf
  <2>4. /\ write_off' = (write_off + n) % USIZE /\ read_off' = read_off
        /\ count' = n /\ out' = <<>>
    BY <1>1, <2>1 DEF PipeWrite
  <2>5. write_off' \in Offsets /\ read_off' \in Offsets /\ Used' = Used + n
    BY <2>2, <2>4, WriteUsed
  <2> QED BY <2>2, <2>3, <2>4, <2>5 DEF OneSlotEmpty, PipeTypeOK, Offsets, Cells
<1>2. ASSUME NEW len \in Lengths, PipeRead(len) PROVE OneSlotEmpty'
  <2>1. PICK n : n = Min({len, Used})
    OBVIOUS
  <2>2. /\ n \in 0..Used /\ Used \in Cells
        /\ write_off' \in Offsets /\ read_off' \in Offsets /\ Used' = Used - n
    BY <1>2, <2>1, ReadUsed
  <2>3. /\ out' = [j \in 1..n |-> buf[Cell(read_off, j - 1)]] /\ count' = n /\ buf' = buf
    BY <1>2, <2>1 DEF PipeRead
  <2>4. buf \in [Cells -> Bytes] /\ read_off \in Offsets
    BY DEF OneSlotEmpty, PipeTypeOK, Offsets
  <2>5. ASSUME NEW j \in 1..n PROVE buf[Cell(read_off, j - 1)] \in Bytes
    <3>1. j - 1 \in Cells
      BY <2>2 DEF Cells
    <3> QED BY <2>4, <3>1, CellIs
  <2>6. n \in Nat
    BY <2>2
  <2>7. out' \in Seq(Bytes)
    BY <2>3, <2>5, <2>6
  <2> QED BY <2>2, <2>3, <2>4, <2>6, <2>7 DEF OneSlotEmpty, PipeTypeOK, Offsets, Cells
<1>3. CASE UNCHANGED pipeVars
  BY <1>3 DEF pipeVars, OneSlotEmpty, PipeTypeOK, Used
<1> QED BY <1>1, <1>2, <1>3 DEF PipeNext

\* sys_pipe makes an empty buffer.
LEMMA PipeStarts ==
  ASSUME PipeInit
  PROVE  OneSlotEmpty /\ Used = 0
<1> USE PipeAssumption
<1>1. read_off \in Offsets /\ write_off \in Offsets /\ read_off = write_off
  BY DEF PipeInit, Offsets
<1>2. Used = 0
  BY <1>1, UsedIs DEF Offsets
<1> QED BY <1>1, <1>2 DEF PipeInit, OneSlotEmpty, PipeTypeOK, Cells, Offsets

\* "One slot is kept empty to distinguish a full buffer from an empty one": the
\* writer is never more than PIPE_BUF_SIZE - 1 ahead, whatever the sizes and
\* wherever the offsets have wrapped.
THEOREM OneSlotStaysEmpty == PipeSpec => []OneSlotEmpty
<1>1. PipeInit => OneSlotEmpty
  BY PipeStarts
<1>2. OneSlotEmpty /\ [PipeNext]_pipeVars => OneSlotEmpty'
  BY PipeInductive
<1> QED BY <1>1, <1>2, PTL DEF PipeSpec

-----------------------------------------------------------------------------
(* The buffer is a queue *)

\* The unread bytes are a sequence of bytes.
Unread ==
  /\ Contents \in Seq(Bytes) /\ Len(Contents) = Used /\ Used \in Nat
  /\ \A j \in 1..Used : Contents[j] = buf[Cell(read_off, j - 1)]

\* They are, as long as the offsets are in order.
LEMMA UnreadBytes == OneSlotEmpty => Unread
<1> USE PipeAssumption
<1> SUFFICES ASSUME OneSlotEmpty PROVE Unread
  OBVIOUS
<1>1. read_off \in Offsets /\ write_off \in Offsets /\ buf \in [Cells -> Bytes]
  BY DEF OneSlotEmpty, PipeTypeOK, Offsets
<1>2. Used \in Nat /\ Used <= PIPE_BUF_SIZE - 1
  BY <1>1, UsedIs DEF OneSlotEmpty, Offsets
<1>3. ASSUME NEW j \in 1..Used PROVE buf[Cell(read_off, j - 1)] \in Bytes
  <2>1. j - 1 \in Cells
    BY <1>2 DEF Cells
  <2> QED BY <1>1, <2>1, CellIs
<1> QED BY <1>2, <1>3 DEF Unread, Contents

\* pipe_write appends what fits.
LEMMA WriteRefines ==
  ASSUME OneSlotEmpty, OneSlotEmpty', NEW msg \in Messages, PipeWrite(msg)
  PROVE  Queue!Write(msg)
<1> USE PipeAssumption
<1>1. PICK n : n = Min({Len(msg), Space})
  OBVIOUS
<1>2. /\ msg \in Seq(Bytes) /\ n \in 0..Len(msg) /\ Used \in Nat /\ Used + n \in Cells
      /\ n = Min({Len(msg), PIPE_BUF_SIZE - 1 - Used})
  BY Zenon, <1>1, WriteFits
<1>3. /\ \A i \in 0..(Used - 1) : buf'[Cell(read_off, i)] = buf[Cell(read_off, i)]
      /\ \A j \in 0..(n - 1) : buf'[Cell(read_off, Used + j)] = msg[j + 1]
  BY Zenon, <1>1, WriteBuf
<1>4. write_off' = (write_off + n) % USIZE /\ read_off' = read_off /\ count' = n /\ out' = <<>>
  BY <1>1 DEF PipeWrite
<1>a. n \in Nat
  BY <1>2
<1>5. n \in Nat /\ Used' = Used + n
  BY Zenon, <1>2, <1>4, <1>a, WriteUsed
<1>6. /\ Contents \in Seq(Bytes) /\ Len(Contents) = Used
      /\ \A j \in 1..Used : Contents[j] = buf[Cell(read_off, j - 1)]
  BY UnreadBytes DEF Unread
<1>7. /\ Contents' \in Seq(Bytes) /\ Len(Contents') = Used + n
      /\ \A j \in 1..(Used + n) : Contents'[j] = buf'[Cell(read_off, j - 1)]
  <2>1. Unread'
    BY UnreadBytes, PTL
  <2> QED BY <1>4, <1>5, <2>1 DEF Unread, Cell
<1> DEFINE new == SubSeq(msg, 1, n)
<1>8. new \in Seq(Bytes) /\ Len(new) = n /\ \A j \in 1..n : new[j] = msg[j]
  <2>1. msg \in Seq(Bytes) /\ 0 \in Nat /\ n \in Nat /\ 0 <= n /\ n <= Len(msg)
    BY <1>2
  <2>2. 0 + 1 = 1 /\ n - 0 = n /\ \A i \in 1..n : 0 + i = i
    BY <2>1
  <2> QED BY <2>1, <2>2, PartOfSeq
<1> HIDE DEF new
<1>9. ASSUME NEW j \in 1..(Used + n) PROVE Contents'[j] = (Contents \o new)[j]
  <2>1. CASE j <= Used
    <3>1. j \in 1..Used /\ j - 1 \in 0..(Used - 1)
      BY <1>2, <1>5, <2>1
    <3>2. Contents'[j] = Contents[j]
      BY <1>3, <1>6, <1>7, <3>1
    <3> QED BY <1>6, <1>8, <3>1, <3>2
  <2>2. CASE j > Used
    <3> DEFINE i == j - Used - 1
    <3>1. i \in 0..(n - 1) /\ Used + i = j - 1 /\ i + 1 = j - Used /\ j - Used \in 1..n
      BY <1>2, <1>5, <2>2
    <3> HIDE DEF i
    <3>2. Contents'[j] = msg[j - Used]
      BY <1>3, <1>7, <3>1
    <3>3. (Contents \o new)[j] = new[j - Used]
      BY <1>2, <1>5, <1>6, <1>8, <2>2
    <3> QED BY <1>8, <3>1, <3>2, <3>3
  <2>3. j <= Used \/ j > Used
    BY <1>2, <1>5
  <2> QED BY Zenon, <2>1, <2>2, <2>3
<1>10. Contents \o new \in Seq(Bytes) /\ Len(Contents \o new) = Used + n
  BY Zenon, <1>6, <1>8, ConcatProperties
<1>11. Contents' = Contents \o new
  BY Zenon, <1>7, <1>9, <1>10, SeqEqual
<1>12. n = Queue!Min({Len(msg), PIPE_BUF_SIZE - 1 - Len(Contents)})
  BY Zenon, <1>2, <1>6 DEF Min, Queue!Min
<1> QED BY Zenon, <1>4, <1>11, <1>12 DEF Queue!Write, new

\* pipe_read takes the oldest bytes.
LEMMA ReadRefines ==
  ASSUME OneSlotEmpty, OneSlotEmpty', NEW len \in Lengths, PipeRead(len)
  PROVE  Queue!Read(len)
<1> USE PipeAssumption
<1>1. PICK n : n = Min({len, Used})
  OBVIOUS
<1>2. /\ n \in 0..Used /\ Used \in Cells /\ read_off' = (read_off + n) % USIZE
      /\ Used' = Used - n
  BY Zenon, <1>1, ReadUsed
<1>3. /\ out' = [j \in 1..n |-> buf[Cell(read_off, j - 1)]] /\ count' = n /\ buf' = buf
  BY <1>1 DEF PipeRead
<1>4. read_off \in Offsets
  BY DEF OneSlotEmpty, PipeTypeOK, Offsets
<1>5. /\ Contents \in Seq(Bytes) /\ Len(Contents) = Used /\ Used \in Nat /\ n \in Nat
      /\ \A j \in 1..Used : Contents[j] = buf[Cell(read_off, j - 1)]
  BY <1>2, UnreadBytes DEF Unread
<1>6. /\ Contents' \in Seq(Bytes) /\ Len(Contents') = Used - n
      /\ \A j \in 1..(Used - n) : Contents'[j] = buf[Cell(read_off', j - 1)]
  <2>1. Unread'
    BY UnreadBytes, PTL
  <2> QED BY <1>2, <1>3, <2>1 DEF Unread, Cell
<1>7. ASSUME NEW j \in 1..(Used - n)
      PROVE  Contents'[j] = Contents[n + j]
  <2>1. j - 1 \in Nat /\ n + (j - 1) \in Cells /\ n + j \in 1..Used /\ n + (j - 1) = n + j - 1
    BY <1>2, <1>5 DEF Cells
  <2>2. Cell(read_off', j - 1) = Cell(read_off, n + (j - 1))
    BY <1>2, <1>4, <1>5, <2>1, CellShift
  <2>3. Contents'[j] = buf[Cell(read_off', j - 1)]
    BY Zenon, <1>6
  <2>4. Contents[n + j] = buf[Cell(read_off, n + j - 1)]
    BY <1>5, <2>1
  <2> QED BY <2>1, <2>2, <2>3, <2>4
<1> DEFINE rest == SubSeq(Contents, n + 1, Len(Contents))
<1>8. /\ rest \in Seq(Bytes) /\ Len(rest) = Used - n
      /\ \A j \in 1..(Used - n) : rest[j] = Contents[n + j]
  <2>1. /\ SubSeq(Contents, n + 1, Used) \in Seq(Bytes)
        /\ Len(SubSeq(Contents, n + 1, Used)) = Used - n
        /\ \A j \in 1..(Used - n) : SubSeq(Contents, n + 1, Used)[j] = Contents[n + j]
    <3>1. n \in Nat /\ Used \in Nat /\ n <= Used /\ Used <= Len(Contents)
      BY ONLY <1>2, <1>5
    <3> QED BY ONLY <1>5, <3>1, PartOfSeq
  <2>2. rest = SubSeq(Contents, n + 1, Used)
    BY Zenon, <1>5
  <2> QED BY ONLY Zenon, <2>1, <2>2
<1> HIDE DEF rest
<1>9. Contents' = rest
  <2>1. \A j \in 1..Len(Contents') : Contents'[j] = rest[j]
    BY ONLY Zenon, <1>6, <1>7, <1>8
  <2> QED BY ONLY Zenon, <1>6, <1>8, <2>1, SeqEqual
<1> DEFINE first == SubSeq(Contents, 1, n)
<1>10. out' = first
  <2>1. /\ first \in Seq(Bytes) /\ Len(first) = n
        /\ \A j \in 1..n : first[j] = Contents[j]
    <3>1. n \in Nat /\ 0 \in Nat /\ 0 <= n /\ n <= Len(Contents)
      BY ONLY <1>2, <1>5
    <3>2. 0 + 1 = 1 /\ n - 0 = n /\ \A i \in 1..n : 0 + i = i
      BY ONLY <3>1
    <3> QED BY ONLY <1>5, <3>1, <3>2, PartOfSeq DEF first
  <2> HIDE DEF first
  <2>2. first \in [1..n -> Bytes]
    BY ONLY <2>1
  <2>3. \A j \in 1..n : first[j] = buf[Cell(read_off, j - 1)]
    BY ONLY <1>2, <1>5, <2>1
  <2> QED BY ONLY <1>3, <2>2, <2>3
<1>11. n = Queue!Min({len, Len(Contents)})
  BY Zenon, <1>1, <1>5 DEF Min, Queue!Min
<1> QED BY Zenon, <1>3, <1>9, <1>10, <1>11 DEF Queue!Read, rest, first

\* Readers see the bytes in the order of writing, none lost and none twice, and
\* a call is short only when the queue is full or empty: pipe_read and
\* pipe_write implement a bounded queue.
THEOREM PipeImplementsFifo == PipeSpec => ImplementsFifo
<1>1. PipeInit => Queue!FifoInit
  BY PipeStarts DEF PipeInit, Queue!FifoInit, Contents
<1>2. ASSUME OneSlotEmpty, OneSlotEmpty', [PipeNext]_pipeVars
      PROVE  [Queue!FifoNext]_(Queue!fifoVars)
  <2>1. CASE UNCHANGED pipeVars
    BY Zenon, <2>1 DEF pipeVars, Queue!fifoVars, Contents, Used, Cell
  <2> QED BY <1>2, <2>1, WriteRefines, ReadRefines DEF PipeNext, Queue!FifoNext
<1> QED BY <1>1, <1>2, OneSlotStaysEmpty, PTL DEF PipeSpec, ImplementsFifo, Queue!FifoSpec
=============================================================================
