-------------------------- MODULE FileDescriptions --------------------------
(***************************************************************************)
(* What the descriptor calls promise, without reference counts: every      *)
(* descriptor of a process names an open file description or nothing, dup, *)
(* dup2 and fork share descriptions with their offset, and a description   *)
(* lives exactly as long as some descriptor names it, so that open() and   *)
(* pipe() may use one that nobody names, and fail only when there is none. *)
(***************************************************************************)
EXTENDS Integers

CONSTANTS Procs,  \* the slots of the process table
          Fds,    \* the descriptors of a process
          Descs   \* the open file descriptions

VARIABLES fd_of,   \* fd_of[p][fd]: a description, or -1
          offset,  \* offset[d], 0 while no descriptor names d
          failed   \* the last call, if it found no free description

descVars == <<fd_of, offset, failed>>

Named(d) == \E p \in Procs, fd \in Fds : fd_of[p][fd] = d

\* Descriptions that lose their last name lose their offset; no other moves.
OffsetsKept ==
  offset' = [d \in Descs |-> IF Named(d)' THEN offset[d] ELSE 0]

\* open() and pipe(): one or two new descriptions under unused descriptors.
New ==
  \E p \in Procs, d \in Descs, fd \in Fds :
    /\ ~Named(d)
    /\ fd_of[p][fd] = -1
    /\ \/ /\ fd_of' = [fd_of EXCEPT ![p][fd] = d]
          /\ offset' = [offset EXCEPT ![d] = 0]
       \/ \E e \in Descs \ {d}, fe \in Fds \ {fd} :
            /\ ~Named(e)
            /\ fd_of[p][fe] = -1
            /\ fd_of' = [fd_of EXCEPT ![p][fd] = d, ![p][fe] = e]
            /\ offset' = [offset EXCEPT ![d] = 0, ![e] = 0]
    /\ failed' = "no"

\* open() fails for want of a description only when every one is named.
FullOpen ==
  /\ \A d \in Descs : Named(d)
  /\ failed' = "open"
  /\ UNCHANGED <<fd_of, offset>>

\* pipe() needs two.
FullPipe ==
  /\ \A d, e \in Descs : d # e => Named(d) \/ Named(e)
  /\ failed' = "pipe"
  /\ UNCHANGED <<fd_of, offset>>

\* dup() and dup2(): one more name for a description, in place of another.
Dup ==
  \E p \in Procs, old, new \in Fds :
    /\ fd_of[p][old] # -1
    /\ fd_of' = [fd_of EXCEPT ![p][new] = fd_of[p][old]]
    /\ failed' = "no"
    /\ OffsetsKept

\* close(), exec() and reaping: some names of one process go.
Drop ==
  \E p \in Procs : \E F \in SUBSET Fds :
    /\ fd_of' = [fd_of EXCEPT ![p] = [fd \in Fds |->
                                        IF fd \in F THEN -1 ELSE fd_of[p][fd]]]
    /\ failed' = "no"
    /\ OffsetsKept

\* fork(): the child names what the parent names.
Fork ==
  \E p, c \in Procs :
    /\ \A fd \in Fds : fd_of[c][fd] = -1
    /\ fd_of' = [fd_of EXCEPT ![c] = fd_of[p]]
    /\ failed' = "no"
    /\ OffsetsKept

\* read() and lseek(): the offset moves for every name of the description.
Move ==
  \E d \in Descs :
    /\ Named(d)
    /\ offset'[d] \in Nat
    /\ offset' = [offset EXCEPT ![d] = offset'[d]]
    /\ failed' = "no"
    /\ UNCHANGED fd_of

DescInit ==
  /\ fd_of \in [Procs -> [Fds -> Descs \union {-1}]]
  /\ offset = [d \in Descs |-> 0]
  /\ failed = "no"

DescNext == New \/ FullOpen \/ FullPipe \/ Dup \/ Drop \/ Fork \/ Move

DescSpec == DescInit /\ [][DescNext]_descVars
=============================================================================
