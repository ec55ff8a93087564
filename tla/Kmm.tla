-------------------------------- MODULE Kmm --------------------------------
(***************************************************************************)
(* The kernel heap (kmm.rs): a first-fit free list, sorted by address,     *)
(* whose blocks are split by kmalloc and coalesced by kfree.  Sizes and    *)
(* addresses are in bytes, with the header size, the alignment and the     *)
(* smallest block of the code; addresses are relative to HEAP_LOW.         *)
(***************************************************************************)
EXTENDS Integers, Sequences, FiniteSets, FiniteSetsExt

CONSTANTS HEAP_SIZE,  \* INITIAL_HEAP_PAGES * PMM_PAGE_SIZE in the code
          Sizes       \* the arguments of kmalloc

HEADER_SIZE == 24
MIN_BLOCK_SIZE == 64
KMALLOC_ALIGN == 8

ASSUME KmmAssumption ==
  /\ HEAP_SIZE \in Nat /\ HEAP_SIZE >= MIN_BLOCK_SIZE
  /\ HEAP_SIZE % KMALLOC_ALIGN = 0
  /\ Sizes \subseteq Nat \ {0}

VARIABLES free,  \* FREE_LIST: the sequence of free blocks [addr, size]
          used   \* the blocks handed out, with the size asked for

kmmVars == <<free, used>>

End(b) == b.addr + b.size

KmmInit ==
  /\ free = <<[addr |-> 0, size |-> HEAP_SIZE]>>
  /\ used = {}

Needed(n) ==
  HEADER_SIZE + ((n + KMALLOC_ALIGN - 1) \div KMALLOC_ALIGN) * KMALLOC_ALIGN

\* The list s without its element i.
Without(s, i) == SubSeq(s, 1, i - 1) \o SubSeq(s, i + 1, Len(s))

\* Mutant: the remainder is not returned to the list.
Kmalloc_LosesRemainder(n) ==
  \E i \in 1..Len(free) :
    /\ free[i].size >= Needed(n)
    /\ \A j \in 1..(i - 1) : free[j].size < Needed(n)
    /\ free' = Without(free, i)
    /\ used' = used \union {[addr |-> free[i].addr, size |-> Needed(n), asked |-> n]}

\* kmalloc(n): the first block that is large enough, split when what is
\* left can hold a block.
Kmalloc(n) ==
  \E i \in 1..Len(free) :
    LET b == free[i]
        remainder == b.size - Needed(n)
        split == remainder >= MIN_BLOCK_SIZE
    IN
    /\ b.size >= Needed(n)
    /\ \A j \in 1..(i - 1) : free[j].size < Needed(n)
    /\ free' = IF split
               THEN [free EXCEPT ![i] = [addr |-> b.addr + Needed(n),
                                         size |-> remainder]]
               ELSE Without(free, i)
    /\ used' = used \union {[addr |-> b.addr, asked |-> n,
                             size |-> IF split THEN Needed(n) ELSE b.size]}

\* kmalloc(n) finds no block and returns null.
KmallocFails(n) ==
  /\ \A i \in 1..Len(free) : free[i].size < Needed(n)
  /\ UNCHANGED kmmVars

\* Mutant: a freed block is not joined to the block before it.
Kfree_NoPrev(b) ==
  LET i == Cardinality({j \in 1..Len(free) : free[j].addr < b.addr})
      joins == i < Len(free) /\ End(b) = free[i + 1].addr
      block == [addr |-> b.addr,
                size |-> b.size + (IF joins THEN free[i + 1].size ELSE 0)]
      tail == SubSeq(free, IF joins THEN i + 2 ELSE i + 1, Len(free))
  IN
  /\ free' = SubSeq(free, 1, i) \o <<block>> \o tail
  /\ used' = used \ {b}

\* kfree of the block b: i blocks come before it in the list.
Kfree(b) ==
  LET after == {j \in 1..Len(free) : free[j].addr >= b.addr}
      i == IF after # {} THEN Min(after) - 1 ELSE Len(free)
      joinsNext == i < Len(free) /\ End(b) = free[i + 1].addr
      joinsPrev == i > 0 /\ End(free[i]) = b.addr
      size == b.size + (IF joinsNext THEN free[i + 1].size ELSE 0)
      head == SubSeq(free, 1, IF joinsPrev THEN i - 1 ELSE i)
      tail == SubSeq(free, IF joinsNext THEN i + 2 ELSE i + 1, Len(free))
      block == IF joinsPrev
               THEN [addr |-> free[i].addr, size |-> free[i].size + size]
               ELSE [addr |-> b.addr, size |-> size]
  IN
  /\ free' = head \o <<block>> \o tail
  /\ used' = used \ {b}

KmmNext ==
  \/ \E n \in Sizes : Kmalloc(n) \/ KmallocFails(n)
  \/ \E b \in used : Kfree(b)

KmmSpec == KmmInit /\ [][KmmNext]_kmmVars

-----------------------------------------------------------------------------
(* Properties *)

Blocks == used \union {[addr |-> free[i].addr, size |-> free[i].size, asked |-> 0] :
                         i \in DOMAIN free}

\* Every block lies in the heap, is aligned, and holds what was asked for.
KmmTypeOK ==
  \A b \in Blocks :
    /\ b.addr \in 0..(HEAP_SIZE - 1) /\ b.addr % KMALLOC_ALIGN = 0
    /\ b.size \in 1..HEAP_SIZE /\ End(b) <= HEAP_SIZE
    /\ b.size >= HEADER_SIZE + b.asked

\* The blocks tile the heap: whatever the order of kmalloc and kfree, every
\* block that does not reach the end of the heap is followed by one, and no two
\* blocks share a byte, so no memory is handed out twice and none is lost; each
\* is aligned and holds what was asked for.
HeapTiled ==
  /\ KmmTypeOK
  /\ \A b, c \in Blocks : b # c => End(b) <= c.addr \/ End(c) <= b.addr
  /\ \A b \in Blocks : End(b) = HEAP_SIZE \/ \E c \in Blocks : c.addr = End(b)
  /\ \E b \in Blocks : b.addr = 0

\* "Free blocks form a singly-linked list sorted by address (ascending)", and
\* two free blocks are never neighbours: kfree has joined them.  So once
\* everything is freed the heap is one block again (what kmm::test looks for).
SortedAndCoalesced ==
  /\ \A i \in 1..(Len(free) - 1) : End(free[i]) < free[i + 1].addr
  /\ used = {} => free = <<[addr |-> 0, size |-> HEAP_SIZE]>>
=============================================================================
