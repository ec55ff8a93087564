-------------------------------- MODULE Fifo --------------------------------
(***************************************************************************)
(* What a pipe promises: a bounded first-in first-out queue of bytes.  A   *)
(* write takes as much of the message as fits, a read takes as many bytes  *)
(* as there are, and neither waits.                                        *)
(***************************************************************************)
EXTENDS Integers, Sequences, FiniteSetsExt

CONSTANTS Capacity,  \* the bytes the queue holds
          Messages,  \* the byte sequences that are written
          Lengths    \* the lengths that readers ask for

VARIABLES queue,   \* the bytes written and not read
          count,   \* what the last call returned
          out      \* the bytes the last read delivered

fifoVars == <<queue, count, out>>

Write(msg) ==
  LET n == Min({Len(msg), Capacity - Len(queue)}) IN
  /\ queue' = queue \o SubSeq(msg, 1, n)
  /\ count' = n
  /\ out' = <<>>

Read(len) ==
  LET n == Min({len, Len(queue)}) IN
  /\ queue' = SubSeq(queue, n + 1, Len(queue))
  /\ count' = n
  /\ out' = SubSeq(queue, 1, n)

FifoInit == queue = <<>> /\ count = 0 /\ out = <<>>

FifoNext ==
  \/ \E msg \in Messages : Write(msg)
  \/ \E len \in Lengths : Read(len)

FifoSpec == FifoInit /\ [][FifoNext]_fifoVars
=============================================================================
