-------------------------------- MODULE Tty --------------------------------
(***************************************************************************)
(* Terminal input from the devices to read(): the keyboard interrupt with  *)
(* its shift state and ring (keyboard.rs), the receive FIFO of COM1        *)
(* (serial.rs), and the canonical line discipline (vfs/tty.rs).  Who is    *)
(* blocked in read() and woken is in module Process; here read() returns   *)
(* what there is.  Echo and canonical mode are always on: TCSETS does      *)
(* nothing, so no program can turn them off.                               *)
(*                                                                         *)
(* Handlers run with interrupts off, so each is one step.  Bytes are small *)
(* model values: a key as typed, its shifted form, and the control bytes.  *)
(***************************************************************************)
EXTENDS Integers, Sequences, SequencesExt

CONSTANTS Keys,          \* keys with a printable byte
          Shifted,       \* SCANCODE_MAKE_SHIFT of such a key
          ShiftKeys,     \* the shift keys of the keyboard
          SerialBytes,   \* bytes that come in over COM1
          KB_SIZE,       \* BUF_SIZE of keyboard.rs
          BUF_SIZE,      \* BUF_SIZE of tty.rs
          LINE_MAX,
          SCRATCH,       \* bytes process_input takes from a device at a time
          RX_FIFO,       \* receive FIFO of the UART
          ReadSizes,     \* sizes of read()
          MaxBytes       \* bound of the model: bytes the line discipline is fed

BACKSPACE == "bs"
CTRL_C == "intr"
ENTER == "nl"
NONE == "none"
ESCAPE == "esc"
Control == {BACKSPACE, CTRL_C, ENTER, ESCAPE}
Bytes == Keys \union {Shifted[k] : k \in Keys} \union Control

ASSUME TtyAssumption ==
  /\ KB_SIZE \in Nat \ {0} /\ BUF_SIZE \in Nat \ {0} /\ LINE_MAX \in Nat
  /\ SCRATCH \in Nat \ {0} /\ RX_FIFO \in Nat \ {0} /\ MaxBytes \in Nat
  /\ ReadSizes \subseteq Nat \ {0} /\ SerialBytes \subseteq Bytes
  /\ Keys \intersect Control = {} /\ NONE \notin Bytes

VARIABLES held,   \* the shift keys that are down
          shift,  \* SHIFT
          kb,     \* the keyboard ring: [buf, head, tail]
          rx,     \* the receive FIFO
          tty,    \* the completed-data ring: [buf, head, tail]
          line,   \* the line being typed
          fed,    \* every byte process_byte has seen
          out,    \* every byte read() has returned
          lost    \* push_byte has dropped a byte

ttyVars == <<held, shift, kb, rx, tty, line, fed, out, lost>>

Ring(size) == [buf |-> [i \in 0..(size - 1) |-> NONE], head |-> 0, tail |-> 0]

IsFull(r, size) == (r.head + 1) % size = r.tail

\* push_byte and the end of handle_keyboard: a full ring drops the byte.
Push(r, size, b) ==
  IF IsFull(r, size) THEN r
  ELSE [r EXCEPT !.buf[r.head] = b, !.head = (r.head + 1) % size]

Count(r, size) == (r.head - r.tail + size) % size

\* The n bytes the reading loops take, and the ring they leave.
Taken(r, size, n) == [i \in 1..n |-> r.buf[(r.tail + i - 1) % size]]
Dropped(r, size, n) == [r EXCEPT !.tail = (r.tail + n) % size]

Least(a, b) == IF a < b THEN a ELSE b

-----------------------------------------------------------------------------
(* handle_keyboard *)

ShiftMake(k) ==
  /\ held' = held \union {k}
  /\ shift' = TRUE
  /\ UNCHANGED <<kb, rx, tty, line, fed, out, lost>>

\* Mutant: only the break code of the left key is known.
ShiftBreak_LeftOnly(k) ==
  /\ k \in held
  /\ held' = held \ {k}
  /\ shift' = (shift /\ k # "left")
  /\ UNCHANGED <<kb, rx, tty, line, fed, out, lost>>

\* Either break code clears the flag, also while the other key is down.
ShiftBreak(k) ==
  /\ k \in held
  /\ held' = held \ {k}
  /\ shift' = FALSE
  /\ UNCHANGED <<kb, rx, tty, line, fed, out, lost>>

\* The shifted table has no entry for space, Enter, backspace and Tab.
Translate(k) ==
  IF ~shift THEN k ELSE IF k \in Keys THEN Shifted[k] ELSE NONE

\* The make code of a key; keys without a byte and break codes do nothing.
KeyMake(k) ==
  /\ kb' = IF Translate(k) = NONE THEN kb ELSE Push(kb, KB_SIZE, Translate(k))
  /\ UNCHANGED <<held, shift, rx, tty, line, fed, out, lost>>

\* External: a byte arrives on the serial line; the UART drops it when full.
SerialReceive(b) ==
  /\ rx' = IF Len(rx) < RX_FIFO THEN Append(rx, b) ELSE rx
  /\ UNCHANGED <<held, shift, kb, tty, line, fed, out, lost>>

-----------------------------------------------------------------------------
(* The line discipline, on records [tty, line, lost] *)

PushByte(t, b) ==
  [t EXCEPT !.tty = Push(@, BUF_SIZE, b), !.lost = @ \/ IsFull(t.tty, BUF_SIZE)]

HandleBackspace(t) == IF t.line # <<>> THEN [t EXCEPT !.line = Front(@)] ELSE t

\* Mutant: ^C discards the line and does not publish a newline.
HandleCtrlc_NoNewline(t) == [t EXCEPT !.line = <<>>]

HandleCtrlc(t) == PushByte([t EXCEPT !.line = <<>>], ENTER)

\* Mutant: the completed line stays in the line buffer.
HandleEnter_KeepsLine(t) == PushByte(FoldLeft(PushByte, t, t.line), ENTER)

HandleEnter(t) ==
  [PushByte(FoldLeft(PushByte, t, t.line), ENTER) EXCEPT !.line = <<>>]

\* handle_char and handle_tab.
HandleChar(t, b) == IF Len(t.line) < LINE_MAX THEN [t EXCEPT !.line = Append(@, b)] ELSE t

ProcessByte(t, b) ==
  CASE b = BACKSPACE -> HandleBackspace(t)
    [] b = CTRL_C -> HandleCtrlc(t)
    [] b = ENTER -> HandleEnter(t)
    [] b = ESCAPE -> t
    [] OTHER -> HandleChar(t, b)

\* What process_input takes: n bytes from the keyboard, then m from COM1.
InputBytes ==
  LET n == Least(Count(kb, KB_SIZE), SCRATCH)
      m == Least(Len(rx), SCRATCH)
  IN [n |-> n, m |-> m, bytes |-> Taken(kb, KB_SIZE, n) \o SubSeq(rx, 1, m)]

\* The line discipline after the first i of those bytes.
Processed ==
  LET bytes == InputBytes.bytes
      after[i \in 0..Len(bytes)] ==
        IF i = 0 THEN [tty |-> tty, line |-> line, lost |-> lost]
        ELSE ProcessByte(after[i - 1], bytes[i])
  IN after[Len(bytes)]

ProcessInput ==
  LET in == InputBytes
  IN /\ Len(fed) + in.n + in.m <= MaxBytes
     /\ kb' = Dropped(kb, KB_SIZE, in.n)
     /\ rx' = SubSeq(rx, in.m + 1, Len(rx))
     /\ line' = Processed.line
     /\ lost' = Processed.lost
     /\ fed' = fed \o in.bytes
     /\ UNCHANGED <<held, shift>>

\* From the timer tick.
PollInput ==
  /\ ProcessInput
  /\ tty' = Processed.tty
  /\ UNCHANGED out

\* Tty::read with a buffer of n bytes.  Without data it returns 0 and the
\* process blocks (module Process).
Read(n) ==
  LET ring == Processed.tty
      k == Least(Count(ring, BUF_SIZE), n)
  IN /\ ProcessInput
     /\ tty' = Dropped(ring, BUF_SIZE, k)
     /\ out' = out \o Taken(ring, BUF_SIZE, k)

TtyInit ==
  /\ held = {} /\ shift = FALSE
  /\ kb = Ring(KB_SIZE) /\ tty = Ring(BUF_SIZE)
  /\ rx = <<>> /\ line = <<>> /\ fed = <<>> /\ out = <<>>
  /\ lost = FALSE

TtyNext ==
  \/ \E k \in ShiftKeys : ShiftMake(k) \/ ShiftBreak(k)
  \/ \E k \in Keys \union {BACKSPACE, ENTER} : KeyMake(k)
  \/ \E b \in SerialBytes : SerialReceive(b)
  \/ PollInput
  \/ \E n \in ReadSizes : Read(n)

TtySpec == TtyInit /\ [][TtyNext]_ttyVars

-----------------------------------------------------------------------------
(* Properties *)

RingOK(r, size) ==
  /\ r.head \in 0..(size - 1) /\ r.tail \in 0..(size - 1)
  /\ r.buf \in [0..(size - 1) -> Bytes \union {NONE}]

\* Types: the indices of both rings stay inside their arrays (keyboard.rs and
\* tty.rs index BUF and buf with them), and the line inside line[LINE_MAX].
TtyTypeOK ==
  /\ held \subseteq ShiftKeys /\ shift \in BOOLEAN /\ lost \in BOOLEAN
  /\ RingOK(kb, KB_SIZE) /\ RingOK(tty, BUF_SIZE)
  /\ Len(rx) <= RX_FIFO
  /\ Len(line) <= LINE_MAX

\* The reference for canonical mode.  What is left of the bytes of one line:
RECURSIVE Edited(_)
Edited(s) ==
  IF s = <<>> THEN <<>>
  ELSE LET before == Edited(Front(s))
       IN CASE Last(s) = ESCAPE -> before
            [] Last(s) = BACKSPACE -> IF before = <<>> THEN <<>> ELSE Front(before)
            [] OTHER -> IF Len(before) = LINE_MAX THEN before ELSE Append(before, Last(s))

\* and the input of a program, line by line: Enter ends a line, ^C discards it
\* and ends it.  The last, unfinished line is not input yet.
RECURSIVE Canonical(_)
Canonical(s) ==
  LET Ends == {i \in DOMAIN s : s[i] \in {ENTER, CTRL_C}}
      first == CHOOSE i \in Ends : \A j \in Ends : i <= j
  IN IF Ends = {} THEN <<>>
     ELSE (IF s[first] = ENTER THEN Edited(SubSeq(s, 1, first - 1)) ELSE <<>>)
          \o <<ENTER>> \o Canonical(SubSeq(s, first + 1, Len(s)))

\* As long as push_byte has dropped nothing, what read() has returned followed
\* by what the ring still holds is the canonical reading of every byte the line
\* discipline saw, however reads, ticks, keys and serial bytes interleave.  No
\* index leaves its array.
ReadsCanonical ==
  /\ TtyTypeOK
  /\ ~lost => out \o Taken(tty, BUF_SIZE, Count(tty, BUF_SIZE)) = Canonical(fed)

\* Going through t takes away all of s.
IsSubsequence(s, t) ==
  FoldLeft(LAMBDA rest, b : IF rest # <<>> /\ Head(rest) = b THEN Tail(rest) ELSE rest,
           s, t) = <<>>

\* A full ring may cost bytes ("Drops the byte silently if the buffer is full")
\* but never invents, repeats or reorders them: what read() has returned and
\* will return is a subsequence of the canonical reading.
NothingInvented ==
  IsSubsequence(out \o Taken(tty, BUF_SIZE, Count(tty, BUF_SIZE)), Canonical(fed))

\* SHIFT is never stuck: while it is set, a shift key is down.
ShiftOnlyWhileHeld == shift => held # {}
=============================================================================
