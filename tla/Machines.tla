------------------------------ MODULE Machines ------------------------------
(***************************************************************************)
(* What time-sharing promises: every process has a processor of its own.   *)
(* A process's registers and its memory change by its own instructions,    *)
(* its own system calls and its own signals, one process at a time, and    *)
(* not at all while it waits for its turn.                                 *)
(***************************************************************************)
EXTENDS Registers

CONSTANT Procs

VARIABLES turn,   \* the process that executes, or 0: the kernel does
          ctx,    \* the registers of each process
          saved,  \* the context its signal handler has interrupted
          mem     \* its address space

machineVars == <<turn, ctx, saved, mem>>

Gone == [cs |-> "gone"]  \* the context of a process that is not there
Nowhere == <<>>           \* and its address space

MachinesInit ==
  /\ turn = 0
  /\ ctx = [p \in Procs |-> Gone]
  /\ saved = [p \in Procs |-> Gone]
  /\ mem = [p \in Procs |-> Nowhere]

\* PID 1 at its entry point and idle.
Spawn ==
  /\ ctx = [p \in Procs |-> Gone]
  /\ turn' = turn
  /\ ctx' = [ctx EXCEPT ![1] = Fresh(Entry, TopOfStack, <<"init">>), ![2] = Idle]
  /\ mem'[1] # mem'[2]
  /\ \A p \in Procs \ {1, 2} : mem'[p] = Nowhere
  /\ UNCHANGED saved

Yield(p) ==
  /\ turn = p /\ turn' = 0
  /\ UNCHANGED <<ctx, saved, mem>>

Resume(p) ==
  /\ turn = 0 /\ turn' = p
  /\ ctx[p] # Gone
  /\ UNCHANGED <<ctx, saved, mem>>

Compute(p) ==
  /\ turn = p /\ turn' = p
  /\ \E t \in Points, room \in 0..1 :
       ctx' = [ctx EXCEPT ![p] = At(t, room)]
  /\ UNCHANGED <<saved, mem>>

\* A system call returns behind the SYSCALL instruction, on the same stack,
\* with its result or, when it was cut short, with 0.
Returned(r, s) ==
  /\ \E t \in Points : r.rip = <<"rip", t>> /\ s.rax \in {Result(t), Zero}
  /\ s.rip = r.rip /\ s.rsp = r.rsp /\ s.cs = r.cs
  /\ s.rflags \in {r.rflags, DefaultFlags}
  /\ s.rbx \in {r.rbx, Zero}
  /\ s.rdi = Zero

Call(p) ==
  /\ turn = p /\ turn' \in {0, p}
  /\ ctx'[p] # Gone /\ Returned(ctx[p], ctx'[p])
  /\ ctx' = [ctx EXCEPT ![p] = ctx'[p]]
  /\ UNCHANGED <<saved, mem>>

\* The child is behind the same instruction, on a copy of the memory.
Fork(p, q) ==
  /\ turn = p /\ turn' \in {0, p}
  /\ ctx[q] = Gone
  /\ ctx'[p] # Gone /\ Returned(ctx[p], ctx'[p])
  /\ ctx' = [ctx EXCEPT ![p] = ctx'[p], ![q] = Fresh(ctx[p].rip, ctx[p].rsp, Zero)]
  /\ \A o \in Procs \ {q} : mem'[o] = mem[o] /\ mem'[q] # mem[o]
  /\ UNCHANGED saved

\* A new program, in a new address space.
Exec(p) ==
  /\ turn = p /\ turn' \in {0, p}
  /\ ctx'[p] # Gone
  /\ ctx'[p].rip = Entry /\ ctx'[p].rsp = TopOfStack
  /\ ctx'[p].rflags = DefaultFlags /\ ctx'[p].rdi = Zero /\ ctx'[p].rax = Zero
  /\ ctx' = [ctx EXCEPT ![p] = ctx'[p]]
  /\ saved' = [saved EXCEPT ![p] = Gone]
  /\ \A o \in Procs \ {p} : mem'[o] = mem[o] /\ mem'[p] # mem[o]
  /\ mem'[p] # mem[p]

Deliver(p) ==
  /\ turn = 0 /\ turn' = p
  /\ ctx[p] # Gone /\ saved[p] = Gone
  /\ ctx' = [ctx EXCEPT ![p] = InHandler(ctx[p])]
  /\ saved' = [saved EXCEPT ![p] = ctx[p]]
  /\ UNCHANGED mem

Sigreturn(p) ==
  /\ turn = p /\ turn' = 0
  /\ saved[p] # Gone
  /\ ctx' = [ctx EXCEPT ![p] = saved[p]]
  /\ saved' = [saved EXCEPT ![p] = Gone]
  /\ UNCHANGED mem

Die(p) ==
  /\ turn \in {0, p} /\ turn' = 0
  /\ ctx[p] # Gone
  /\ ctx' = [ctx EXCEPT ![p] = Gone]
  /\ saved' = [saved EXCEPT ![p] = Gone]
  /\ mem' = [mem EXCEPT ![p] = Nowhere]

MachinesNext ==
  \/ Spawn
  \/ \E p \in Procs :
       \/ Yield(p) \/ Resume(p) \/ Compute(p) \/ Call(p) \/ Exec(p)
       \/ Deliver(p) \/ Sigreturn(p) \/ Die(p)
       \/ \E q \in Procs : Fork(p, q)

MachinesSpec == MachinesInit /\ [][MachinesNext]_machineVars
=============================================================================
