------------------------------ MODULE Context ------------------------------
(***************************************************************************)
(* How the kernel switches between processes: the register frames on the   *)
(* kernel stacks (process.rs, syscall_entry.asm, interrupts.asm,           *)
(* context_switch.asm), the signal frame on the user stack (signal.rs),    *)
(* the stack pointers and the page-table root that go with the current     *)
(* process, and the last steps of kernel_main, which runs with interrupts  *)
(* on until it has switched to PID 1.                                      *)
(*                                                                         *)
(* A kernel stack holds one frame, at its top: a process enters the kernel *)
(* from user mode, with an empty kernel stack.  kernel_rsp and rsp0 are    *)
(* pointers, named by the stack they point into.  One signal stands for    *)
(* all; what is pending, and who waits for whom, in full, is in Process.   *)
(* A slot stands for the pid in it: where the code would keep a pid that   *)
(* is gone for good, the model keeps 0.                                    *)
(***************************************************************************)
EXTENDS Registers, Integers

CONSTANTS NSLOTS,       \* slots of the process table
          Code,         \* the points of the program in a slot
          Calls,        \* the system calls made at each point
          TickInStart   \* whether IRQ0 may come inside start_scheduler

ASSUME ContextAssumption ==
  /\ NSLOTS \in Nat /\ NSLOTS >= 2
  /\ TickInStart \in BOOLEAN
  /\ Code \in [1..NSLOTS -> SUBSET Points]
  /\ Calls \in [Points -> SUBSET {"plain", "exit", "sigaction", "kill", "fork",
                                   "exec", "waitpid", "read", "sigreturn"}]

Procs == 1..NSLOTS
InitSlot == 1
IdleSlot == 2
Boot == 0               \* the stack of kernel_main
Stacks == Procs \union {Boot}
Roots == Procs \X {0, 1}
BootRoot == <<0, 0>>

VARIABLES regs,             \* the registers of the CPU
          mode,             \* "run", "select" (the scheduler's loop) or "halted"
          kstack,           \* the frame on each kernel stack
          procs,            \* PROCESS_TABLE
          current,          \* CURRENT_PID
          rsp0,             \* TSS.rsp0
          syscall_kstack,   \* current_proc_kernel_rsp
          cr3,
          ustack,           \* the signal frame in the memory under each root
          should_schedule,
          waiting           \* TTY.waiting_pid

ctxVars == <<regs, mode, kstack, procs, current, rsp0, syscall_kstack, cr3,
             ustack, should_schedule, waiting>>

NewProc(s, parent, root, handled) ==
  [state |-> "Ready", parent |-> parent, wait_for |-> 0, kernel_rsp |-> s,
   pml4 |-> root, pending |-> FALSE, handled |-> handled, in_signal |-> FALSE]

NoProc == [NewProc(0, 0, BootRoot, FALSE) EXCEPT !.state = "None"]

\* kernel_main at one of its steps, on the boot stack.
BootAt(step) ==
  [rax |-> Zero, rdi |-> Zero, rbx |-> Zero, rip |-> <<"boot", step>>,
   rsp |-> <<"stack", Boot>>, rflags |-> <<"cli">>, cs |-> "kernel"]

NoFrame == BootAt("none")  \* of a stack that holds none

InBoot == regs.rip[1] = "boot"
BootStep(step) == mode = "run" /\ regs.rip = <<"boot", step>>

\* gdt::init has set rsp0 to the boot stack; interrupts are still off.
CtxInit ==
  /\ regs = BootAt("sti")
  /\ mode = "run"
  /\ kstack = [s \in Stacks |-> NoFrame]
  /\ procs = [s \in Procs |-> NoProc]
  /\ current = 0
  /\ rsp0 = Boot /\ syscall_kstack = Boot /\ cr3 = BootRoot
  /\ ustack = [r \in Roots |-> <<>>]
  /\ should_schedule = FALSE
  /\ waiting = 0

-----------------------------------------------------------------------------
(* The end of kernel_main, and start_scheduler *)

EnableInterrupts ==
  /\ BootStep("sti")
  /\ regs' = [BootAt("spawn") EXCEPT !.rflags = DefaultFlags]
  /\ UNCHANGED <<mode, kstack, procs, current, rsp0, syscall_kstack, cr3,
                 ustack, should_schedule, waiting>>

\* spawn_init builds the frames of PID 1 and of idle.
SpawnInit ==
  /\ BootStep("spawn")
  /\ kstack' = [kstack EXCEPT ![InitSlot] = Fresh(Entry, TopOfStack, <<"init">>),
                              ![IdleSlot] = Idle]
  /\ procs' = [procs EXCEPT ![InitSlot] = NewProc(InitSlot, 0, <<InitSlot, 0>>, FALSE),
                            ![IdleSlot] = NewProc(IdleSlot, 0, <<IdleSlot, 0>>, FALSE)]
  /\ regs' = [regs EXCEPT !.rip = <<"boot", "set_pid">>]
  /\ UNCHANGED <<mode, current, rsp0, syscall_kstack, cr3, ustack,
                 should_schedule, waiting>>

StartSetPid ==
  /\ BootStep("set_pid")
  /\ current' = InitSlot
  /\ regs' = [regs EXCEPT !.rip = <<"boot", "set_stacks">>]
  /\ UNCHANGED <<mode, kstack, procs, rsp0, syscall_kstack, cr3, ustack,
                 should_schedule, waiting>>

StartSetStacks ==
  /\ BootStep("set_stacks")
  /\ syscall_kstack' = InitSlot /\ rsp0' = InitSlot
  /\ cr3' = procs[InitSlot].pml4
  /\ procs' = [procs EXCEPT ![InitSlot].state = "Running"]
  /\ regs' = [regs EXCEPT !.rip = <<"boot", "load">>]
  /\ UNCHANGED <<mode, kstack, current, ustack, should_schedule, waiting>>

\* The argument of context_switch_to is read.
StartLoad ==
  /\ BootStep("load")
  /\ regs' = [regs EXCEPT !.rdi = <<"stack", procs[InitSlot].kernel_rsp>>,
                          !.rip = <<"boot", "switch">>]
  /\ UNCHANGED <<mode, kstack, procs, current, rsp0, syscall_kstack, cr3,
                 ustack, should_schedule, waiting>>

\* context_switch_to.  Its call has pushed a return address, which lies over
\* the top word of a frame that is on this very stack: then iretq takes the
\* frame as it was, or faults, and the handler of the fault halts.
StartSwitch ==
  /\ BootStep("switch")
  /\ regs' = kstack[regs.rdi[2]]
  /\ mode' \in IF regs.rdi[2] = Boot THEN {"run", "halted"} ELSE {"run"}
  /\ kstack' = IF regs.rdi[2] = Boot THEN kstack ELSE [kstack EXCEPT ![regs.rdi[2]] = NoFrame]
  /\ UNCHANGED <<procs, current, rsp0, syscall_kstack, cr3, ustack,
                 should_schedule, waiting>>

BootNext ==
  EnableInterrupts \/ SpawnInit \/ StartSetPid \/ StartSetStacks
    \/ StartLoad \/ StartSwitch

-----------------------------------------------------------------------------
(* Interrupts *)

\* Mutant: an interrupt from user mode goes to the boot stack.
IrqStack_Boot == IF regs.cs = "user" THEN Boot ELSE regs.rsp[2]

\* Where the CPU pushes its frame: rsp0 from user mode, else the stack in use.
IrqStack == IF regs.cs = "user" THEN rsp0 ELSE regs.rsp[2]

Inputs == {"none", "line", "ctrlc"}

\* tty::poll_input wakes the recorded reader, and Ctrl-C signals it.
Woken(input, s) ==
  /\ input # "none" /\ waiting = s /\ procs[s].state = "Blocked"

\* irq_common and scheduler_tick up to its loop.
Irq(input) ==
  /\ mode = "run"
  /\ regs.rflags # <<"cli">>
  /\ InBoot /\ current # 0 => TickInStart
  /\ kstack' = [kstack EXCEPT ![IrqStack] = regs]
  /\ IF current = 0
     THEN UNCHANGED <<mode, procs, waiting, should_schedule>>
     ELSE /\ mode' = "select"
          /\ procs' = [s \in Procs |->
               IF s = current
               THEN [procs[s] EXCEPT !.kernel_rsp = IrqStack, !.state = "Ready"]
               ELSE IF Woken(input, s)
               THEN [procs[s] EXCEPT !.state = "Ready",
                                     !.pending = @ \/ input = "ctrlc"]
               ELSE procs[s]]
          /\ waiting' = IF input = "none" THEN waiting ELSE 0
          /\ should_schedule' = (should_schedule \/ \E s \in Procs : Woken(input, s))
  /\ UNCHANGED <<regs, current, rsp0, syscall_kstack, cr3, ustack>>

-----------------------------------------------------------------------------
(* The loop of scheduler_tick and scheduler_switch_exit *)

Candidates == {s \in Procs \ {IdleSlot, current} : procs[s].state = "Ready"}

Distance(s) == (s + NSLOTS - current) % NSLOTS

\* sched_next gives n, which is Ready.  That it never gives a process that is
\* not, where the loop would halt, is NeverHalts of Process.
SchedNext(n) ==
  /\ procs[n].state = "Ready"
  /\ IF Candidates # {}
     THEN n \in Candidates /\ \A o \in Candidates : Distance(n) <= Distance(o)
     ELSE n = IF procs[IdleSlot].state = "Ready" THEN IdleSlot ELSE current

Frame(s) == kstack[procs[s].kernel_rsp]

\* deliver_pending_signals goes into its loop.
Delivers(s) ==
  /\ s # IdleSlot
  /\ procs[s].pending /\ ~procs[s].in_signal
  /\ Frame(s).cs = "user"

HasRoom(s) == Frame(s).rsp[2] >= 1

WaitsFor(p, child) ==
  /\ procs[child].parent = p
  /\ procs[p].state = "Blocked" /\ procs[p].wait_for = child

\* mark_zombie: the process, and the parent that waits for it.  What is
\* pending for a zombie is of no consequence.
MarkZombie(s) ==
  [p \in Procs |->
     IF p = s THEN [procs[p] EXCEPT !.state = "Zombie", !.pending = FALSE]
     ELSE IF WaitsFor(p, s) THEN [procs[p] EXCEPT !.state = "Ready", !.wait_for = 0]
     ELSE procs[p]]

\* It also writes the 0 that the parent's waitpid returns to its frame.  The
\* frame of the dead process will not be read again.
ZeroResult(s) ==
  [k \in Stacks |-> IF k = s THEN NoFrame
                    ELSE IF \E p \in Procs : WaitsFor(p, s) /\ procs[p].kernel_rsp = k
                    THEN [kstack[k] EXCEPT !.rax = Zero] ELSE kstack[k]]

\* Mutant: the page-table root is not switched.
TakeOver_OldRoot(n) ==
  /\ current' = n
  /\ rsp0' = n /\ syscall_kstack' = n
  /\ cr3' = cr3

\* The resources of the selected process.
TakeOver(n) ==
  /\ current' = n
  /\ rsp0' = n /\ syscall_kstack' = n
  /\ cr3' = procs[n].pml4

\* The frame of n is popped.  Only kernel_main meets its old frame again.
Popped(n, ks) ==
  IF procs[n].kernel_rsp = Boot THEN ks ELSE [ks EXCEPT ![procs[n].kernel_rsp] = NoFrame]

SelectRun(n) ==
  /\ mode = "select" /\ SchedNext(n) /\ ~Delivers(n)
  /\ TakeOver(n)
  /\ regs' = Frame(n)
  /\ procs' = [procs EXCEPT ![n].state = "Running"]
  /\ mode' = "run"
  /\ kstack' = Popped(n, kstack)
  /\ UNCHANGED <<ustack, should_schedule, waiting>>

\* The words of the signal frame: GPRs, RFLAGS, RSP, RIP, the signal and the
\* signals that stay pending (none: the model has one).
SigFrame(r) ==
  <<r.rax, r.rdi, r.rbx, r.rflags, r.rsp, r.rip, <<"signum">>, <<"mask", FALSE>> >>

\* A handler: the frame goes to the user stack, and the one on the kernel
\* stack is changed in place before it is popped.
SelectHandler(n) ==
  /\ mode = "select" /\ SchedNext(n) /\ Delivers(n)
  /\ procs[n].handled /\ HasRoom(n)
  /\ TakeOver(n)
  /\ ustack' = [ustack EXCEPT ![cr3'] = SigFrame(Frame(n))]
  /\ kstack' = Popped(n, kstack)
  /\ regs' = InHandler(Frame(n))
  /\ procs' = [procs EXCEPT ![n].state = "Running", ![n].pending = FALSE,
                            ![n].in_signal = TRUE]
  /\ mode' = "run"
  /\ UNCHANGED <<should_schedule, waiting>>

\* The signal is fatal, or there is no room for the frame: select again.
SelectKilled(n) ==
  /\ mode = "select" /\ SchedNext(n) /\ Delivers(n)
  /\ ~procs[n].handled \/ ~HasRoom(n)
  /\ TakeOver(n)
  /\ procs' = MarkZombie(n)
  /\ kstack' = ZeroResult(n)
  /\ UNCHANGED <<regs, mode, ustack, should_schedule, waiting>>

Select(n) == SelectRun(n) \/ SelectHandler(n) \/ SelectKilled(n)

-----------------------------------------------------------------------------
(* System calls: syscall_entry.asm around syscall_handler *)

UserStep(t) ==
  LET room == IF procs[current].in_signal \/ t \in Tight THEN 0 ELSE 1 IN
  /\ mode = "run" /\ regs.cs = "user" /\ t \in Code[current]
  /\ regs' = At(t, room)
  /\ UNCHANGED <<mode, kstack, procs, current, rsp0, syscall_kstack, cr3,
                 ustack, should_schedule, waiting>>

\* The program is at t, with the registers loaded for the call.
AtCall(t, call) ==
  /\ mode = "run"
  /\ regs.rip = <<"rip", t>> /\ regs.rax = <<"rax", t>>
  /\ call \in Calls[t]

\* check_signals_syscall lets the call through.
Passes == ~procs[current].pending \/ procs[current].in_signal

\* Mutant: the frame of a diverted call has no result.
Diverted_NoResult(state, rax) == Fresh(state.rip, state.rsp, Zero)

\* The frame .exit_or_block builds from syscall_state and RAX.
Diverted(state, rax) == [Fresh(state.rip, state.rsp, Zero) EXCEPT !.rax = rax]

\* scheduler_switch_exit up to its loop: the frame is on the kernel stack.
SwitchExit(ps, ks, frame) ==
  /\ kstack' = [ks EXCEPT ![syscall_kstack] =
                  IF ps[current].state = "Zombie" THEN NoFrame ELSE frame]
  /\ procs' = [ps EXCEPT ![current].kernel_rsp = syscall_kstack,
                         ![current].state = IF @ = "Running" THEN "Ready" ELSE @]
  /\ mode' = "select"
  /\ should_schedule' = FALSE
  /\ UNCHANGED regs

\* syscall_entry.asm after the handler, which leaves the table ps and the
\* stacks ks: sysretq, or the way through the scheduler.
Leave(ps, ks, state, rax, schedule) ==
  IF schedule THEN SwitchExit(ps, ks, Diverted(state, rax))
  ELSE /\ regs' = [regs EXCEPT !.rax = rax, !.rdi = Zero, !.rip = state.rip,
                               !.rsp = state.rsp, !.rflags = state.rflags]
       /\ procs' = ps /\ kstack' = ks
       /\ UNCHANGED <<mode, should_schedule>>

\* A call that only returns its result.
SysPlain(t) ==
  /\ AtCall(t, "plain") /\ Passes
  /\ Leave(procs, kstack, regs, Result(t), should_schedule)
  /\ UNCHANGED <<current, rsp0, syscall_kstack, cr3, ustack, waiting>>

\* The signal check drops the call, or ends the process.
SysStopped(t) ==
  /\ \E call \in Calls[t] : AtCall(t, call)
  /\ ~Passes
  /\ IF procs[current].handled THEN Leave(procs, kstack, regs, Zero, TRUE)
     ELSE Leave(MarkZombie(current), ZeroResult(current), regs, Zero, TRUE)
  /\ UNCHANGED <<current, rsp0, syscall_kstack, cr3, ustack, waiting>>

SysExit(t) ==
  /\ AtCall(t, "exit") /\ Passes
  /\ Leave(MarkZombie(current), ZeroResult(current), regs, Zero, TRUE)
  /\ UNCHANGED <<current, rsp0, syscall_kstack, cr3, ustack, waiting>>

SysSigaction(t) ==
  /\ AtCall(t, "sigaction") /\ Passes
  /\ Leave([procs EXCEPT ![current].handled = ~@], kstack, regs, Result(t), should_schedule)
  /\ UNCHANGED <<current, rsp0, syscall_kstack, cr3, ustack, waiting>>

SysKill(t, q) ==
  /\ AtCall(t, "kill") /\ Passes
  /\ q # IdleSlot /\ procs[q].state \notin {"None", "Zombie"}
  /\ Leave([procs EXCEPT ![q].pending = TRUE,
                         ![q].state = IF @ = "Blocked" THEN "Ready" ELSE @],
           kstack, regs, Result(t), should_schedule)
  /\ UNCHANGED <<current, rsp0, syscall_kstack, cr3, ustack, waiting>>

\* The child gets a frame on its own stack and a copy of the memory, in which
\* a signal frame of the parent is of no use: its sigframe_rsp is 0.
SysFork(t, q) ==
  /\ AtCall(t, "fork") /\ Passes
  /\ procs[q].state = "None" /\ \A s \in 1..(q - 1) : procs[s].state # "None"
  /\ Leave([procs EXCEPT ![q] = NewProc(q, current, <<q, 0>>, procs[current].handled)],
           [kstack EXCEPT ![q] = Fresh(regs.rip, regs.rsp, Zero)],
           regs, Result(t), should_schedule)
  /\ UNCHANGED <<current, rsp0, syscall_kstack, cr3, ustack, waiting>>

\* The new image is published in the table, in CR3 and in syscall_state.
SysExec(t) ==
  LET old == procs[current].pml4
      new == <<current, 1 - old[2]>> IN
  /\ AtCall(t, "exec") /\ Passes
  /\ cr3' = new
  /\ Leave([procs EXCEPT ![current].pml4 = new, ![current].pending = FALSE,
                         ![current].handled = FALSE, ![current].in_signal = FALSE],
           kstack,
           [rip |-> Entry, rsp |-> TopOfStack, rflags |-> DefaultFlags],
           Zero, should_schedule)
  /\ ustack' = [ustack EXCEPT ![old] = <<>>, ![new] = <<>>]
  /\ UNCHANGED <<current, rsp0, syscall_kstack, waiting>>

SysWaitBlock(t, q) ==
  /\ AtCall(t, "waitpid") /\ Passes
  /\ procs[q].parent = current /\ procs[q].state \notin {"None", "Zombie"}
  /\ Leave([procs EXCEPT ![current].state = "Blocked", ![current].wait_for = q],
           kstack, regs, Zero, TRUE)
  /\ UNCHANGED <<current, rsp0, syscall_kstack, cr3, ustack, waiting>>

\* The slot, the stack and the memory of the child are free again.
SysWaitReap(t, q) ==
  /\ AtCall(t, "waitpid") /\ Passes
  /\ procs[q].parent = current /\ procs[q].state = "Zombie"
  /\ Leave([s \in Procs |-> IF s = q THEN NoProc
                            ELSE [procs[s] EXCEPT !.wait_for = IF @ = q THEN 0 ELSE @,
                                                  !.parent = IF @ = q THEN 0 ELSE @]],
           [kstack EXCEPT ![q] = NoFrame],
           regs, Result(t), should_schedule)
  /\ ustack' = [r \in Roots |-> IF r[1] = q THEN <<>> ELSE ustack[r]]
  /\ waiting' = IF waiting = q THEN 0 ELSE waiting
  /\ UNCHANGED <<current, rsp0, syscall_kstack, cr3>>

\* Mutant: the frame of the blocked reader does not hold 0.
SysReadBlock_Result(t) ==
  /\ AtCall(t, "read") /\ Passes
  /\ waiting' = current
  /\ Leave([procs EXCEPT ![current].state = "Blocked"], kstack, regs, Result(t), TRUE)
  /\ UNCHANGED <<current, rsp0, syscall_kstack, cr3, ustack>>

\* A read of the terminal finds no input.
SysReadBlock(t) ==
  /\ AtCall(t, "read") /\ Passes
  /\ waiting' = current
  /\ Leave([procs EXCEPT ![current].state = "Blocked"], kstack, regs, Zero, TRUE)
  /\ UNCHANGED <<current, rsp0, syscall_kstack, cr3, ustack>>

\* Mutant: RIP and RFLAGS are copied without the change of order.
SigreturnFrame_SameOrder(buf) ==
  <<buf[1], buf[2], buf[3], buf[4], buf[5], buf[6]>>

\* sigreturn_frame: GPRs, RIP, RSP, RFLAGS.
SigreturnFrame(buf) == <<buf[1], buf[2], buf[3], buf[6], buf[5], buf[4]>>

\* What .exit_or_block builds from it.
Restored(f) ==
  [rax |-> f[1], rdi |-> f[2], rbx |-> f[3], rip |-> f[4], rsp |-> f[5],
   rflags |-> f[6], cs |-> "user"]

\* The handler has returned.  The frame is where delivery has put it.
SysSigreturn(t) ==
  /\ AtCall(t, "sigreturn") /\ Passes
  /\ IF procs[current].in_signal
     THEN LET buf == ustack[cr3] IN
          /\ SwitchExit([procs EXCEPT ![current].in_signal = FALSE,
                                      ![current].pending = buf[8][2]],
                        kstack, Restored(SigreturnFrame(buf)))
          /\ ustack' = [ustack EXCEPT ![cr3] = <<>>]
     ELSE Leave(procs, kstack, regs, Result(t), should_schedule) /\ UNCHANGED ustack
  /\ UNCHANGED <<current, rsp0, syscall_kstack, cr3, waiting>>

Syscall(t) ==
  \/ SysPlain(t) \/ SysStopped(t) \/ SysExit(t) \/ SysSigaction(t)
  \/ SysExec(t) \/ SysReadBlock(t) \/ SysSigreturn(t)
  \/ \E q \in Procs : SysKill(t, q) \/ SysFork(t, q)
                        \/ SysWaitBlock(t, q) \/ SysWaitReap(t, q)

CtxNext ==
  \/ BootNext
  \/ \E input \in Inputs : Irq(input)
  \/ \E n \in Procs : Select(n)
  \/ \E t \in Points : UserStep(t) \/ Syscall(t)

CtxSpec == CtxInit /\ [][CtxNext]_ctxVars

-----------------------------------------------------------------------------
(* Properties *)

\* While user code runs, the stack for interrupts, the stack for system calls
\* and the page tables are those of the current process, which is the running
\* one: its next entry into the kernel cannot write over the frame of another.
CpuMatchesCurrent ==
  mode = "run" /\ ~InBoot =>
    /\ rsp0 = current /\ syscall_kstack = current
    /\ cr3 = procs[current].pml4
    /\ {s \in Procs : procs[s].state = "Running"} = {current}

\* A process that may be resumed has its frame on its own kernel stack: in
\* user mode with interrupts on, or in the kernel for idle.
FramesOwned ==
  \A s \in Procs :
    procs[s].state \in {"Ready", "Blocked"} =>
      /\ procs[s].kernel_rsp = s
      /\ kstack[s].cs = IF s = IdleSlot THEN "kernel" ELSE "user"
      /\ kstack[s].rflags # <<"cli">>
      /\ kstack[s].rip[1] # "boot"

\* The inductive invariant, in parts.  A record is the one its fields give.
IsRegs(r) ==
  r = [rax |-> r.rax, rdi |-> r.rdi, rbx |-> r.rbx, rip |-> r.rip, rsp |-> r.rsp,
       rflags |-> r.rflags, cs |-> r.cs]

IsProc(p) ==
  p = [state |-> p.state, parent |-> p.parent, wait_for |-> p.wait_for,
       kernel_rsp |-> p.kernel_rsp, pml4 |-> p.pml4, pending |-> p.pending,
       handled |-> p.handled, in_signal |-> p.in_signal]

UserContext(r) ==
  IsRegs(r) /\ r.cs = "user" /\ r.rip[1] # "boot" /\ r.rflags # <<"cli">>

\* A process owns its stack and its roots; idle has only ever one context.
SlotOK(p, s) ==
  /\ IsProc(p)
  /\ p.state \in {"None", "Ready", "Running", "Blocked", "Zombie"}
  /\ p.state # "None" => p.kernel_rsp = s /\ p.pml4 \in {<<s, 0>>, <<s, 1>>}

FrameOK(p, s, frame) ==
  /\ p.state \in {"Ready", "Blocked"} =>
       IF s = IdleSlot THEN frame = Idle ELSE UserContext(frame)
  /\ p.state = "Blocked" => frame.rax = Zero

\* What a handler will return to.
SavedOK(p, us) ==
  p.state \notin {"None", "Zombie"} /\ p.in_signal =>
    us[p.pml4][4] # <<"cli">> /\ us[p.pml4][6][1] # "boot"

TableOK(ps, ks, us) ==
  /\ ps = [s \in Procs |-> ps[s]]
  /\ ks = [k \in Stacks |-> ks[k]]
  /\ us = [r \in Roots |-> us[r]]
  /\ \A s \in Procs : SlotOK(ps[s], s) /\ FrameOK(ps[s], s, ks[s]) /\ SavedOK(ps[s], us)

\* The table at a step of kernel_main.
Spawned(step) == step \notin {"sti", "spawn"}
Started(step) == step \in {"load", "switch"}

BootSlot(step, s) ==
  IF Spawned(step) /\ s = InitSlot
  THEN [NewProc(InitSlot, 0, <<InitSlot, 0>>, FALSE)
          EXCEPT !.state = IF Started(step) THEN "Running" ELSE "Ready"]
  ELSE IF Spawned(step) /\ s = IdleSlot THEN NewProc(IdleSlot, 0, <<IdleSlot, 0>>, FALSE)
  ELSE NoProc

BootOK ==
  LET step == regs.rip[2] IN
  /\ mode = "run"
  /\ IsRegs(regs) /\ regs.cs = "kernel" /\ regs.rsp = <<"stack", Boot>>
  /\ step \in {"sti", "spawn", "set_pid", "set_stacks", "load", "switch"}
  /\ regs.rip = <<"boot", step>>
  /\ current = IF step \in {"sti", "spawn", "set_pid"} THEN 0 ELSE InitSlot
  /\ procs = [s \in Procs |-> BootSlot(step, s)]
  /\ Spawned(step) => kstack[InitSlot] = Fresh(Entry, TopOfStack, <<"init">>)
  /\ Started(step) => /\ rsp0 = InitSlot /\ syscall_kstack = InitSlot
                      /\ cr3 = <<InitSlot, 0>>
  /\ step = "switch" => regs.rdi = <<"stack", InitSlot>>

RunOK ==
  /\ current \in Procs
  /\ procs[IdleSlot].state \in {"Ready", "Running"}
  /\ mode = "run" =>
       /\ IF current = IdleSlot THEN regs = Idle ELSE UserContext(regs)
       /\ rsp0 = current /\ syscall_kstack = current
       /\ cr3 = procs[current].pml4
  /\ \A s \in Procs : procs[s].state = "Running" <=> mode = "run" /\ s = current

\* The inductive invariant: frames, stacks and roots have one owner each, at
\* every step of kernel_main and at every switch after it.
CtxInv ==
  /\ mode \in {"run", "select"}
  /\ TableOK(procs, kstack, ustack)
  /\ IF InBoot THEN BootOK ELSE RunOK

Alive(s) == procs[s].state \notin {"None", "Zombie"}
Executes(s) == mode # "select" /\ ~InBoot /\ s = current

\* The context a process has, wherever it is kept.
ContextOf(s) ==
  IF ~Alive(s) THEN [cs |-> "gone"] ELSE IF Executes(s) THEN regs ELSE Frame(s)

SavedOf(s) ==
  IF Alive(s) /\ procs[s].in_signal
  THEN LET f == ustack[procs[s].pml4] IN
       [rax |-> f[1], rdi |-> f[2], rbx |-> f[3], rflags |-> f[4], rsp |-> f[5],
        rip |-> f[6], cs |-> "user"]
  ELSE [cs |-> "gone"]

MemOf(s) ==
  IF ~Alive(s) THEN <<>> ELSE IF Executes(s) THEN cr3 ELSE procs[s].pml4

Turn == IF mode = "select" \/ InBoot THEN 0 ELSE current
Contexts == [s \in Procs |-> ContextOf(s)]
Saved == [s \in Procs |-> SavedOf(s)]
Memories == [s \in Procs |-> MemOf(s)]

M == INSTANCE Machines WITH
       turn <- Turn, ctx <- Contexts, saved <- Saved, mem <- Memories

\* The frames, the two scheduler paths, signal delivery and sigreturn, fork and
\* exec give every process a processor of its own: it resumes with exactly the
\* registers and the memory it was interrupted with, a handler returns to the
\* context it interrupted, and no step of one process shows in another.
ImplementsMachines == M!MachinesSpec

Completes(t) ==
  \/ SysPlain(t) \/ SysSigaction(t)
  \/ \E q \in Procs : SysKill(t, q) \/ SysFork(t, q) \/ SysWaitReap(t, q)

\* "Preserve syscall results across scheduler diversion": a call that completes
\* delivers its result also when a wakeup during an earlier tick makes it leave
\* through the scheduler.
ResultsSurvive ==
  [][\A t \in Points : Completes(t) => ContextOf(current)'.rax = Result(t)]_ctxVars

\* start_scheduler: "switch to init process. Never returns."
StartsInit ==
  [][StartSwitch => mode' = "run" /\ regs' = Fresh(Entry, TopOfStack, <<"init">>)]_ctxVars
=============================================================================
