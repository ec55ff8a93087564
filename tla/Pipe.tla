-------------------------------- MODULE Pipe --------------------------------
(***************************************************************************)
(* The ring buffer of a pipe (PipeBuf of vfs/pipe.rs): two offsets that    *)
(* only grow, as usize values that wrap around, and an array indexed by    *)
(* the offsets modulo its size.  A call runs with interrupts off, so it is *)
(* one step whichever process makes it.                                    *)
(***************************************************************************)
EXTENDS Integers, Sequences, FiniteSetsExt

CONSTANTS PIPE_BUF_SIZE,  \* 4096 in the code
          USIZE,          \* 2^64: the offsets are usize
          Bytes, Messages, Lengths

ASSUME PipeAssumption ==
  /\ PIPE_BUF_SIZE \in Nat \ {0}
  /\ USIZE \in Nat /\ USIZE >= PIPE_BUF_SIZE /\ USIZE % PIPE_BUF_SIZE = 0
  /\ 0 \in Bytes
  /\ Messages \subseteq Seq(Bytes)
  /\ Lengths \subseteq Nat

VARIABLES buf, read_off, write_off,
          count,  \* what the last call returned
          out     \* the bytes the last read put into the caller's buffer

pipeVars == <<buf, read_off, write_off, count, out>>

Cells == 0..(PIPE_BUF_SIZE - 1)

\* The cell of the byte j places after the offset off.
Cell(off, j) == ((off + j) % USIZE) % PIPE_BUF_SIZE

\* write_off.wrapping_sub(read_off)
Used == (write_off - read_off) % USIZE

\* PIPE_BUF_SIZE - 1 - used, an unsigned subtraction.
Space == (PIPE_BUF_SIZE - 1 - Used) % USIZE

\* sys_pipe zeroes the structure.
PipeInit ==
  /\ buf = [c \in Cells |-> 0]
  /\ read_off = 0 /\ write_off = 0
  /\ count = 0 /\ out = <<>>

\* Mutant: a short write reports the length it was asked for.
PipeWrite_ClaimsAll(msg) ==
  LET n == Min({Len(msg), Space}) IN
  /\ buf' = [c \in Cells |->
               LET J == {j \in 0..(n - 1) : Cell(write_off, j) = c}
               IN IF J = {} THEN buf[c] ELSE msg[Max(J) + 1]]
  /\ write_off' = (write_off + n) % USIZE
  /\ count' = Len(msg) /\ out' = <<>>
  /\ UNCHANGED read_off

\* Mutant: the space check is left out.
PipeWrite_NoSpaceTest(msg) ==
  LET n == Len(msg) IN
  /\ buf' = [c \in Cells |->
               LET J == {j \in 0..(n - 1) : Cell(write_off, j) = c}
               IN IF J = {} THEN buf[c] ELSE msg[Max(J) + 1]]
  /\ write_off' = (write_off + n) % USIZE
  /\ count' = n /\ out' = <<>>
  /\ UNCHANGED read_off

\* pipe_write; the last byte that goes to a cell is the one that stays.
PipeWrite(msg) ==
  LET n == Min({Len(msg), Space}) IN
  /\ buf' = [c \in Cells |->
               LET J == {j \in 0..(n - 1) : Cell(write_off, j) = c}
               IN IF J = {} THEN buf[c] ELSE msg[Max(J) + 1]]
  /\ write_off' = (write_off + n) % USIZE
  /\ count' = n /\ out' = <<>>
  /\ UNCHANGED read_off

\* pipe_read
PipeRead(len) ==
  LET n == Min({len, Used}) IN
  /\ out' = [j \in 1..n |-> buf[Cell(read_off, j - 1)]]
  /\ read_off' = (read_off + n) % USIZE
  /\ count' = n
  /\ UNCHANGED <<buf, write_off>>

PipeNext ==
  \/ \E msg \in Messages : PipeWrite(msg)
  \/ \E len \in Lengths : PipeRead(len)

PipeSpec == PipeInit /\ [][PipeNext]_pipeVars

-----------------------------------------------------------------------------
(* Properties *)

\* The fields of PipeBuf keep their Rust types.
PipeTypeOK ==
  /\ buf \in [Cells -> Bytes]
  /\ read_off \in 0..(USIZE - 1) /\ write_off \in 0..(USIZE - 1)
  /\ count \in Nat
  /\ out \in Seq(Bytes)

\* "One slot is kept empty to distinguish a full buffer from an empty one":
\* the writer is never more than PIPE_BUF_SIZE - 1 ahead, also when one of the
\* offsets has wrapped and the other has not, so the unsigned subtraction that
\* computes the space never wraps.  The fields keep their types.
OneSlotEmpty == PipeTypeOK /\ Used <= PIPE_BUF_SIZE - 1

\* The bytes written and not read, oldest first.
Contents == [j \in 1..Used |-> buf[Cell(read_off, j - 1)]]

Queue == INSTANCE Fifo WITH Capacity <- PIPE_BUF_SIZE - 1, queue <- Contents

\* Readers see the bytes in the order of writing, none lost, none twice, and a
\* call is short only when the queue is full or empty.
ImplementsFifo == Queue!FifoSpec
=============================================================================
