----------------------------- MODULE OpenFiles -----------------------------
(***************************************************************************)
(* The descriptor tables of the processes, the system-wide open file table *)
(* with its reference counts (vfs/open_file.rs), the calls that change     *)
(* them (open, close, dup, dup2, lseek, read; fork, exec and waitpid in    *)
(* process.rs), and the heap objects behind a pipe (vfs/pipe.rs).          *)
(*                                                                         *)
(* Handlers run with interrupts off, so each is one action; calls that     *)
(* fail before they change anything are left out.  Of a file only the      *)
(* offset is kept; what a pipe carries is module Pipe.  Any live process   *)
(* may reap a zombie here; who may is module Process.                      *)
(***************************************************************************)
EXTENDS Integers, FiniteSets, FiniteSetsExt

CONSTANTS NPROCS,    \* slots of the process table
          MAX_FDS,   \* descriptors of a process (16 in the code)
          STD_FDS,   \* the descriptors exec() keeps open (3 in the code)
          OFT_SIZE,  \* entries of the open file table
          PipeIds,   \* bound: the pipes that exist at one time
          MaxOffset  \* bound: the offsets of files

ASSUME FilesAssumption ==
  /\ NPROCS \in Nat \ {0} /\ OFT_SIZE \in Nat \ {0} /\ MAX_FDS \in Nat
  /\ STD_FDS \in 1..MAX_FDS
  /\ MaxOffset \in Nat

Procs == 1..NPROCS
Fds == 0..(MAX_FDS - 1)
Index == 0..(OFT_SIZE - 1)
None == [vnode |-> <<"none", 0>>, offset |-> 0, refcount |-> 0]

VARIABLES holder,   \* holder[p]: "none", "live" or "zombie"
          fds,      \* fds[p][fd]: an index of the open file table, or -1
          entries,  \* OPEN_FILE_TABLE.entries
          heap,     \* the objects of the pipes, see below
          failed    \* the last call, if it returned ENFILE ("open", "pipe")

fileVars == <<holder, fds, entries, heap, failed>>

NoFds == [fd \in Fds |-> -1]

-----------------------------------------------------------------------------
(***************************************************************************)
(* The heap: heap.objs are the allocated objects <<"buf", k>> (a PipeBuf), *)
(* <<"r", k>> and <<"w", k>> (the vnodes of its ends), heap.refs[k] is     *)
(* PipeBuf.refcount, and heap.bad records a kfree of a freed object.       *)
(***************************************************************************)
Kfree(h, obj) ==
  IF obj \in h.objs THEN [h EXCEPT !.objs = @ \ {obj}] ELSE [h EXCEPT !.bad = TRUE]

Kmalloc(h, objs) == [h EXCEPT !.objs = @ \union objs]

\* pipe_close(): the vnode goes, and the buffer with the second of them.
PipeClose(h, vn) ==
  LET k == vn[2]
      h1 == Kfree([h EXCEPT !.refs[k] = @ - 1], vn)
  IN IF h1.refs[k] = 0 THEN Kfree(h1, <<"buf", k>>) ELSE h1

\* How many ends of pipe k are in E.
EndsIn(E, k) == Cardinality({side \in {"r", "w"} : <<side, k>> \in E})

\* pipe_close() of the ends E, one after the other: the vnodes go, and every
\* buffer whose count comes down to 0 on the way.
ClosePipes(h, E) ==
  LET gone == {<<"buf", k>> : k \in {j \in PipeIds : h.refs[j] \in 1..EndsIn(E, j)}}
  IN [objs |-> h.objs \ (E \union gone),
      refs |-> [k \in PipeIds |-> h.refs[k] - EndsIn(E, k)],
      bad |-> h.bad \/ ~(E \union gone \subseteq h.objs)]

IsPipeEnd(vn) == vn \in {"r", "w"} \X PipeIds

-----------------------------------------------------------------------------
(* The open file table *)

\* Mutant: the scan of oft_alloc stops before the last entry.
FreeIndex_SkipsLast == {i \in 0..(OFT_SIZE - 2) : entries[i] = None}

FreeIndex == {i \in Index : entries[i] = None}
IsFirstFree(i, S) == i \in S /\ \A j \in S : i <= j
FreeFds(table) == {fd \in Fds : table[fd] = -1}

OpenFile(vn) == [vnode |-> vn, offset |-> 0, refcount |-> 1]

\* oft_decref() n times on one entry: it is freed when the count reaches 0.
Decref(e, n) ==
  IF n = 0 \/ e = None THEN e
  ELSE IF e.refcount <= n THEN None ELSE [e EXCEPT !.refcount = @ - n]

\* oft_incref() n times on one entry.
Incref(e, n) == IF e = None THEN e ELSE [e EXCEPT !.refcount = @ + n]

\* How many of the descriptors F of table name entry i.
Names(table, F, i) == Cardinality({fd \in F : table[fd] = i})

\* The pipe ends whose last reference goes when F of table is closed.
LastEnds(table, F) ==
  {entries[i].vnode : i \in {j \in Index :
     /\ IsPipeEnd(entries[j].vnode)
     /\ Names(table, F, j) > 0
     /\ entries[j].refcount <= Names(table, F, j)}}

\* The descriptors F of process p are closed, one after the other.
CloseFds(p, F) ==
  /\ fds' = [fds EXCEPT ![p] = [fd \in Fds |-> IF fd \in F THEN -1 ELSE @[fd]]]
  /\ entries' = [i \in Index |-> Decref(entries[i], Names(fds[p], F, i))]
  /\ heap' = ClosePipes(heap, LastEnds(fds[p], F))
  /\ failed' = "no"

-----------------------------------------------------------------------------
(* System calls of a live process p *)

\* spawn_init: the standard descriptors of init share the terminal.
Init ==
  /\ holder = [p \in Procs |-> IF p = 1 THEN "live" ELSE "none"]
  /\ fds = [p \in Procs |->
              IF p = 1 THEN [fd \in Fds |-> IF fd < STD_FDS THEN 0 ELSE -1]
              ELSE NoFds]
  /\ entries = [i \in Index |->
                  IF i = 0
                  THEN [vnode |-> <<"tty", 0>>, offset |-> 0, refcount |-> STD_FDS]
                  ELSE None]
  /\ heap = [objs |-> {}, refs |-> [k \in PipeIds |-> 0], bad |-> FALSE]
  /\ failed = "no"

\* sys_open, once the path is resolved.
SysOpen(p) ==
  /\ \/ \E i \in Index, fd \in Fds :
          /\ IsFirstFree(i, FreeIndex)
          /\ IsFirstFree(fd, FreeFds(fds[p]))
          /\ entries' = [entries EXCEPT ![i] = OpenFile(<<"file", 0>>)]
          /\ fds' = [fds EXCEPT ![p][fd] = i]
          /\ failed' = "no"
     \/ /\ FreeIndex # {} /\ FreeFds(fds[p]) = {}    \* EMFILE
        /\ \E i \in Index :
             /\ IsFirstFree(i, FreeIndex)
             /\ entries' = [entries EXCEPT ![i] = Decref(OpenFile(<<"file", 0>>), 1)]
        /\ failed' = "no"
        /\ UNCHANGED fds
     \/ /\ FreeIndex = {}                            \* ENFILE
        /\ failed' = "open"
        /\ UNCHANGED <<fds, entries>>
  /\ UNCHANGED <<holder, heap>>

SysClose(p, fd) ==
  /\ fds[p][fd] # -1
  /\ CloseFds(p, {fd})
  /\ UNCHANGED holder

SysDup(p, old) ==
  /\ fds[p][old] # -1
  /\ \E new \in Fds :
       /\ IsFirstFree(new, FreeFds(fds[p]))
       /\ fds' = [fds EXCEPT ![p][new] = fds[p][old]]
  /\ entries' = [entries EXCEPT ![fds[p][old]] = Incref(@, 1)]
  /\ failed' = "no"
  /\ UNCHANGED <<holder, heap>>

\* Mutant: the description new named before is not released.
SysDup2_NoClose(p, old, new) ==
  LET i == fds[p][old] IN
  /\ i # -1 /\ entries[i] # None
  /\ old # new
  /\ fds' = [fds EXCEPT ![p][new] = i]
  /\ entries' = [entries EXCEPT ![i] = Incref(@, 1)]
  /\ failed' = "no"
  /\ UNCHANGED <<holder, heap>>

\* dup2 closes new first; old keeps its entry alive meanwhile.
SysDup2(p, old, new) ==
  LET i == fds[p][old]
      F == {fd \in {new} : fds[p][fd] # -1}
  IN
  /\ i # -1 /\ entries[i] # None
  /\ old # new
  /\ fds' = [fds EXCEPT ![p][new] = i]
  /\ entries' = [j \in Index |->
                   LET e == Decref(entries[j], Names(fds[p], F, j))
                   IN IF j = i THEN Incref(e, 1) ELSE e]
  /\ heap' = ClosePipes(heap, LastEnds(fds[p], F))
  /\ failed' = "no"
  /\ UNCHANGED holder

\* read() of a file and lseek(); a pipe has no offset.
SysSeek(p, fd, o) ==
  LET i == fds[p][fd] IN
  /\ i # -1 /\ entries[i] # None /\ ~IsPipeEnd(entries[i].vnode)
  /\ entries' = [entries EXCEPT ![i].offset = o]
  /\ failed' = "no"
  /\ UNCHANGED <<holder, fds, heap>>

-----------------------------------------------------------------------------
(* sys_pipe, with its roll-backs *)

\* The heap after the three allocations for pipe k.
PipeAllocated(k) ==
  [Kmalloc(heap, {<<"buf", k>>, <<"r", k>>, <<"w", k>>}) EXCEPT !.refs[k] = 2]

\* kmalloc fails for the n-th object: what came before it is freed.
PipeNoMemory(k, n) ==
  /\ heap' = CASE n = 1 -> heap
               [] n = 2 -> Kfree(Kmalloc(heap, {<<"buf", k>>}), <<"buf", k>>)
               [] n = 3 -> Kfree(Kfree(Kmalloc(heap, {<<"buf", k>>, <<"r", k>>}),
                                       <<"buf", k>>), <<"r", k>>)
  /\ failed' = "no"
  /\ UNCHANGED <<fds, entries>>

\* Mutant: the roll-back frees the read vnode that dropping the entry freed.
PipeNoEntry_FreesReadEnd(k) ==
  /\ Cardinality(FreeIndex) < 2
  /\ heap' = LET h == IF FreeIndex = {} THEN PipeAllocated(k)
                      ELSE PipeClose(PipeAllocated(k), <<"r", k>>)
             IN [Kfree(Kfree(Kfree(h, <<"buf", k>>), <<"r", k>>), <<"w", k>>)
                 EXCEPT !.refs[k] = 0]
  /\ failed' = "pipe"
  /\ UNCHANGED <<fds, entries>>

\* ENFILE for the read end, or for the write end once the read end has an
\* entry, which is then dropped again.
PipeNoEntry(k) ==
  /\ Cardinality(FreeIndex) < 2
  /\ heap' = LET h == IF FreeIndex = {} THEN Kfree(PipeAllocated(k), <<"r", k>>)
                      ELSE PipeClose(PipeAllocated(k), <<"r", k>>)
             IN [Kfree(Kfree(h, <<"buf", k>>), <<"w", k>>) EXCEPT !.refs[k] = 0]
  /\ failed' = "pipe"
  /\ UNCHANGED <<fds, entries>>

\* EMFILE: both entries are dropped again.
PipeNoFd(p, k) ==
  /\ Cardinality(FreeIndex) >= 2
  /\ Cardinality(FreeFds(fds[p])) < 2
  /\ heap' = PipeClose(PipeClose(PipeAllocated(k), <<"r", k>>), <<"w", k>>)
  /\ failed' = "no"
  /\ UNCHANGED <<fds, entries>>

PipeDone(p, k) ==
  /\ \E i, j \in Index, rfd, wfd \in Fds :
       /\ IsFirstFree(i, FreeIndex) /\ IsFirstFree(j, FreeIndex \ {i})
       /\ IsFirstFree(rfd, FreeFds(fds[p]))
       /\ IsFirstFree(wfd, FreeFds(fds[p]) \ {rfd})
       /\ entries' = [entries EXCEPT ![i] = OpenFile(<<"r", k>>),
                                     ![j] = OpenFile(<<"w", k>>)]
       /\ fds' = [fds EXCEPT ![p][rfd] = i, ![p][wfd] = j]
  /\ heap' = PipeAllocated(k)
  /\ failed' = "no"

SysPipe(p) ==
  /\ \E k \in PipeIds :
       /\ <<"buf", k>> \notin heap.objs
       /\ \/ \E n \in 1..3 : PipeNoMemory(k, n)
          \/ PipeNoEntry(k)
          \/ PipeNoFd(p, k)
          \/ PipeDone(p, k)
  /\ UNCHANGED holder

-----------------------------------------------------------------------------
(* The descriptor side of fork, exec, exit and waitpid *)

SysFork(p, c) ==
  /\ holder[c] = "none"
  /\ \A d \in Procs : holder[d] = "none" => c <= d
  /\ holder' = [holder EXCEPT ![c] = "live"]
  /\ fds' = [fds EXCEPT ![c] = fds[p]]
  /\ entries' = [i \in Index |-> Incref(entries[i], Names(fds[p], Fds, i))]
  /\ failed' = "no"
  /\ UNCHANGED heap

SysExec(p) ==
  /\ CloseFds(p, {fd \in Fds : fd >= STD_FDS /\ fds[p][fd] # -1})
  /\ UNCHANGED holder

\* sys_exit, or death by a signal: descriptors stay open.
Exit(p) ==
  /\ holder' = [holder EXCEPT ![p] = "zombie"]
  /\ failed' = "no"
  /\ UNCHANGED <<fds, entries, heap>>

\* waitpid reaps the zombie c; cleanup_fds closes what it had open.
Reap(c) ==
  /\ holder[c] = "zombie"
  /\ holder' = [holder EXCEPT ![c] = "none"]
  /\ CloseFds(c, {fd \in Fds : fds[c][fd] # -1})

Syscall(p) ==
  \/ SysOpen(p)
  \/ \E fd \in Fds : SysClose(p, fd)
  \/ \E fd \in Fds : SysDup(p, fd)
  \/ \E old, new \in Fds : SysDup2(p, old, new)
  \/ \E fd \in Fds, o \in 0..MaxOffset : SysSeek(p, fd, o)
  \/ SysPipe(p)
  \/ \E c \in Procs : SysFork(p, c)
  \/ SysExec(p)
  \/ Exit(p)
  \/ \E c \in Procs : Reap(c)

Next == \E p \in Procs : holder[p] = "live" /\ Syscall(p)

Spec == Init /\ [][Next]_fileVars

-----------------------------------------------------------------------------
(* Properties *)

\* Every variable keeps its Rust type, with indices inside the tables.
FilesTypeOK ==
  /\ holder \in [Procs -> {"none", "live", "zombie"}]
  /\ fds \in [Procs -> [Fds -> Index \union {-1}]]
  /\ entries \in [Index -> [vnode : ({"none", "tty", "file"} \X {0}) \union ({"r", "w"} \X PipeIds),
                            offset : 0..MaxOffset, refcount : Nat]]
  /\ heap \in [objs : SUBSET ({"buf", "r", "w"} \X PipeIds),
               refs : [PipeIds -> 0..2], bad : BOOLEAN]
  /\ failed \in {"no", "open", "pipe"}

References(i) == {r \in Procs \X Fds : fds[r[1]][r[2]] = i}

\* The reference count of an entry is the number of descriptors, of living
\* processes and of zombies, that name it, whatever sequence of open, close,
\* dup, dup2, pipe, fork, exec and waitpid came before; an entry nobody names
\* is free, so no descriptor dangles and no entry leaks (oft_incref,
\* oft_decref and their callers).  All indices lie inside the tables.
RefcountsExact ==
  /\ FilesTypeOK
  /\ \A i \in Index :
       /\ entries[i].refcount = Cardinality(References(i))
       /\ entries[i] = None <=> References(i) = {}

EndsOpen(k) == {i \in Index : entries[i].vnode \in {<<"r", k>>, <<"w", k>>}}

\* The heap holds the vnode of every open pipe end and nothing for a closed
\* one; the buffer is there exactly while an end is, PipeBuf.refcount counts
\* the ends, and nothing is freed twice: so for every roll-back of sys_pipe
\* and every order of closing the ends (pipe_close).
PipeObjectsExact ==
  /\ ~heap.bad
  /\ \A k \in PipeIds :
       /\ heap.refs[k] = Cardinality(EndsOpen(k))
       /\ <<"buf", k>> \in heap.objs <=> EndsOpen(k) # {}
       /\ \A side \in {"r", "w"} :
            <<side, k>> \in heap.objs <=> \E i \in Index : entries[i].vnode = <<side, k>>

Descriptions == INSTANCE FileDescriptions WITH
  Descs <- Index, fd_of <- fds, offset <- [i \in Index |-> entries[i].offset]

\* The reference-counted table implements open file descriptions that live
\* exactly as long as a descriptor names them.
ImplementsDescriptions == Descriptions!DescSpec
=============================================================================
