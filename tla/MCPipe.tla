------------------------------- MODULE MCPipe -------------------------------
(* A ring of four cells whose offsets wrap after two turns. *)
EXTENDS Pipe, SequencesExt

MCMessages == BoundedSeq(Bytes, 4) \ {<<>>}
=============================================================================
