------------------------------- MODULE MCTty -------------------------------
(* Rings with room for one and two bytes, a line of two and a scratch       *)
(* buffer of one, so that each of them overflows within four bytes.         *)
EXTENDS Tty

MCKeys == {"a"}
MCShifted == [k \in MCKeys |-> "A"]
=============================================================================
