------------------------------ MODULE Process ------------------------------
(***************************************************************************)
(* The process table, the round-robin scheduler, signals, waitpid and the  *)
(* blocking side of the terminal (process.rs, signal.rs, the entry stub of *)
(* syscall.rs / syscall_entry.asm, and the parts of tty.rs that block and  *)
(* wake a process).                                                        *)
(*                                                                         *)
(* One CPU.  SYSCALL masks IF and the kernel never sets it again before    *)
(* returning, so once a system call or an IRQ has been taken only kernel   *)
(* code runs until a process is resumed.  "phase" says where the CPU is:   *)
(*   user     the current process runs user code (idle: its HLT loop)      *)
(*   syscall  syscall_handler has checked signals, the handler comes next  *)
(*   exit     the handler has returned to syscall_entry.asm                *)
(*   sched    in the selection loop of scheduler_tick / scheduler_switch_exit *)
(*   halted   in one of the two HLT loops of the scheduler                 *)
(*   panic    in the panic handler                                         *)
(*                                                                         *)
(* What fork, exec and waitpid do to descriptors is module OpenFiles, what *)
(* they do to memory module AddressSpace; here an allocation may fail.     *)
(* nanosleep (module Timer) and reboot, which do not return, are left out. *)
(* A program leaves the signal frame on its stack as the kernel wrote it.  *)
(***************************************************************************)
EXTENDS Integers, FiniteSets

CONSTANTS MAX_PROCS,   \* slots of the process table (64 in the code)
          MaxPid,      \* bound: fork is not called once next_pid exceeds it
          Signals,     \* the signal numbers that are used
          Installed,   \* the dispositions programs give to sigaction()
          ExitCodes,   \* the arguments processes give to exit()
          TtyCap       \* capacity of the terminal's ring of completed bytes

Dispositions == {"DFL", "IGN", "CUSTOM"}
SIGINT == 2
SIGKILL == 9
Terminating == {2, 9, 10, 12}  \* SIGINT, SIGKILL, SIGUSR1, SIGUSR2

ASSUME ConstantsAssumption ==
  /\ MAX_PROCS \in Nat /\ MAX_PROCS >= 2
  /\ MaxPid \in Nat
  /\ Signals \subseteq 1..31 /\ SIGINT \in Signals /\ SIGKILL \in Signals
  /\ Installed \subseteq Dispositions
  /\ ExitCodes \subseteq Nat
  /\ TtyCap \in Nat \ {0}

Slots == 0..(MAX_PROCS - 1)
IdlePid == 2
IdleSlot == 1

VARIABLES slots,            \* PROCESS_TABLE.slots
          next_pid,         \* PROCESS_TABLE.next_pid
          count,            \* PROCESS_TABLE.count
          current_pid,      \* CURRENT_PID
          should_schedule,  \* the flag read by syscall_entry.asm
          waiting_pid,      \* TTY.waiting_pid
          tty_avail,        \* completed bytes in TTY.buf
          phase

vars == <<slots, next_pid, count, current_pid, should_schedule,
          waiting_pid, tty_avail, phase>>

AllDefault == [sig \in Signals |-> "DFL"]

(***************************************************************************)
(* A slot of the table.  pid 0 and state "None" are the empty slot.        *)
(* in_signal is also sigframe_rsp # 0 (the code sets and clears the two    *)
(* together) and saved_mask is word 19 of the frame on the user stack.     *)
(* blocked_on is not in the code: it remembers which call blocked the      *)
(* process, and no guard reads it.                                         *)
(***************************************************************************)
ProcessRec ==
  [pid : Nat, state : {"None", "Ready", "Running", "Blocked", "Zombie"},
   parent_pid : Nat, exit_code : Nat, wait_for_pid : Nat,
   sig_pending : SUBSET Signals, sigactions : [Signals -> Dispositions],
   in_signal : BOOLEAN, saved_mask : SUBSET Signals,
   blocked_on : {"none", "child", "anychild", "tty"}]

NewProcess(pid, state, parent, actions) ==
  [pid |-> pid, state |-> state, parent_pid |-> parent, exit_code |-> 0,
   wait_for_pid |-> 0, sig_pending |-> {}, sigactions |-> actions,
   in_signal |-> FALSE, saved_mask |-> {}, blocked_on |-> "none"]

None == NewProcess(0, "None", 0, AllDefault)

Occupied == {s \in Slots : slots[s].state # "None"}

\* process(CURRENT_PID): the slot of the current process.
CurSlot == CHOOSE s \in Slots : slots[s].pid = current_pid

(***************************************************************************)
(* The state start_scheduler leaves: init runs, idle is ready.             *)
(***************************************************************************)
Init ==
  /\ slots = [s \in Slots |->
                IF s = 0 THEN NewProcess(1, "Running", 0, AllDefault)
                ELSE IF s = IdleSlot
                THEN NewProcess(IdlePid, "Ready", 0, AllDefault)
                ELSE None]
  /\ next_pid = 3
  /\ count = 2
  /\ current_pid = 1
  /\ should_schedule = FALSE
  /\ waiting_pid = 0
  /\ tty_avail = 0
  /\ phase = "user"

-----------------------------------------------------------------------------
(* Changes to one process *)

SetState(p, state) == [p EXCEPT !.state = state]
SetPending(p, sigs) == [p EXCEPT !.sig_pending = sigs]
Wake(p) == [p EXCEPT !.state = "Ready", !.blocked_on = "none"]
Block(p, why, pid) ==
  [p EXCEPT !.state = "Blocked", !.blocked_on = why, !.wait_for_pid = pid]
Zombify(p, sigs, code) ==
  [p EXCEPT !.state = "Zombie", !.sig_pending = sigs, !.exit_code = code]
EndWait(p) ==
  [p EXCEPT !.state = "Ready", !.blocked_on = "none", !.wait_for_pid = 0]
EnterHandler(p, sigs) ==
  [p EXCEPT !.state = "Running", !.sig_pending = sigs, !.in_signal = TRUE,
            !.saved_mask = sigs]
LeaveHandler(p, sigs) ==
  [p EXCEPT !.sig_pending = sigs, !.in_signal = FALSE, !.saved_mask = {}]

SetAction(p, sig, action) == [p EXCEPT !.sigactions[sig] = action]
FreshSignals(p) ==
  [p EXCEPT !.sig_pending = {}, !.in_signal = FALSE, !.saved_mask = {},
            !.sigactions = AllDefault]

\* The test of mark_zombie(): parent waits for child in waitpid().
WaitsFor(parent, child) ==
  /\ child.parent_pid # 0
  /\ parent.pid = child.parent_pid
  /\ parent.state = "Blocked"
  /\ parent.wait_for_pid = child.pid

\* Mutant: the waiting parent is not woken.
MarkZombie_NoWake(s, sigs, code) ==
  [slots EXCEPT ![s] = Zombify(@, sigs, code)]

\* mark_zombie() of the process in slot s, whose pending signals are now sigs.
MarkZombie(s, sigs, code) ==
  [i \in Slots |-> IF i = s THEN Zombify(slots[i], sigs, code)
                  ELSE IF WaitsFor(slots[i], slots[s]) THEN EndWait(slots[i])
                  ELSE slots[i]]

(***************************************************************************)
(* Terminal input.  process_input() feeds a batch of bytes to the line     *)
(* discipline.  Of a batch, the process table sees only the first byte     *)
(* that completes input: a line end or Ctrl-C.  It pushes bytes, and the   *)
(* first push clears waiting_pid, so what follows only adds bytes.         *)
(***************************************************************************)
InputEvents == {"none", "line", "ctrlc"}

IsReader(p) == waiting_pid # 0 /\ p.pid = waiting_pid /\ p.state = "Blocked"

\* The effect on process p: the recorded reader wakes, Ctrl-C signals it.
Input(ev, p) ==
  IF ev = "none" \/ ~IsReader(p) THEN p
  ELSE IF ev = "ctrlc" THEN SetPending(Wake(p), p.sig_pending \union {SIGINT})
  ELSE Wake(p)

InputWaiting(ev) == IF ev = "none" THEN waiting_pid ELSE 0

InputSchedule(ev) ==
  should_schedule \/ (ev # "none" /\ \E i \in Slots : IsReader(slots[i]))

\* The counts of completed bytes the batch may leave (full: bytes dropped).
InputAvail(ev) ==
  IF ev = "none" THEN {tty_avail}
  ELSE {n \in 1..TtyCap : n > tty_avail \/ n = TtyCap}

-----------------------------------------------------------------------------
(* Signals *)

Fatal(p) == {sig \in p.sig_pending :
               p.sigactions[sig] = "DFL" /\ sig \in Terminating}
Custom(p) == {sig \in p.sig_pending : p.sigactions[sig] = "CUSTOM"}

\* sig is where the ascending loop over the pending signals of S stops.
IsFirst(sig, S) == sig \in S /\ \A t \in S : sig <= t

\* What is still pending once the ascending loop has stopped at sig.
Above(p, sig) == {t \in p.sig_pending : t > sig}

\* Mutant: SIGKILL waits for the end of a handler.
SyscallFatal_NotInHandler(p) ==
  IF p.pid = IdlePid \/ p.in_signal THEN {} ELSE Fatal(p)

\* check_signals_syscall: the signals that terminate at system-call entry.
SyscallFatal(p) ==
  IF p.pid = IdlePid THEN {}
  ELSE IF p.in_signal THEN p.sig_pending \intersect {SIGKILL}
  ELSE Fatal(p)

\* deliver_pending_signals: the signals that stop its loop.
Stopping(p) ==
  IF p.pid = IdlePid THEN {}
  ELSE IF p.in_signal THEN p.sig_pending \intersect {SIGKILL}
  ELSE Fatal(p) \union Custom(p)

PendingAfter(p, sig) ==
  IF p.in_signal THEN p.sig_pending \ {sig} ELSE Above(p, sig)

\* check_signals_syscall goes on past a signal with a handler, so such a
\* signal stays pending when a later one terminates the process.
PendingAfterCheck(p, sig) ==
  IF p.in_signal THEN p.sig_pending \ {sig}
  ELSE Above(p, sig) \union Custom(p)

-----------------------------------------------------------------------------
(* Entering and leaving the kernel *)

(***************************************************************************)
(* An IRQ, of any line: irq_common ends in scheduler_tick, which polls the *)
(* terminal first and then puts the current process back to Ready.         *)
(***************************************************************************)
Tick(ev) ==
  /\ phase = "user"
  /\ slots' = [i \in Slots |-> IF i = CurSlot
                              THEN SetState(Input(ev, slots[i]), "Ready")
                              ELSE Input(ev, slots[i])]
  /\ waiting_pid' = InputWaiting(ev)
  /\ should_schedule' = InputSchedule(ev)
  /\ tty_avail' \in InputAvail(ev)
  /\ phase' = "sched"
  /\ UNCHANGED <<next_pid, count, current_pid>>

\* syscall_handler, up to the dispatch: nothing stops the call.
SyscallEnter ==
  LET p == slots[CurSlot] IN
  /\ phase = "user"
  /\ current_pid # IdlePid
  /\ SyscallFatal(p) = {}
  /\ p.in_signal \/ Custom(p) = {}
  /\ slots' = [slots EXCEPT ![CurSlot] =
                  SetPending(p, IF p.in_signal THEN p.sig_pending ELSE {})]
  /\ phase' = "syscall"
  /\ UNCHANGED <<next_pid, count, current_pid, should_schedule, waiting_pid,
                 tty_avail>>

\* SignalResult::Terminated: the caller dies instead of making the call.
SyscallTerminated(sig) ==
  LET p == slots[CurSlot] IN
  /\ phase = "user"
  /\ current_pid # IdlePid
  /\ IsFirst(sig, SyscallFatal(p))
  /\ slots' = MarkZombie(CurSlot, PendingAfterCheck(p, sig), 128 + sig)
  /\ should_schedule' = TRUE
  /\ phase' = "exit"
  /\ UNCHANGED <<next_pid, count, current_pid, waiting_pid, tty_avail>>

\* Mutant: the check consumes the signals it leaves to the dispatcher.
SyscallCustomPending_Clears ==
  LET p == slots[CurSlot] IN
  /\ phase = "user"
  /\ current_pid # IdlePid
  /\ SyscallFatal(p) = {}
  /\ ~p.in_signal /\ Custom(p) # {}
  /\ slots' = [slots EXCEPT ![CurSlot] = SetPending(p, {})]
  /\ should_schedule' = TRUE
  /\ phase' = "exit"
  /\ UNCHANGED <<next_pid, count, current_pid, waiting_pid, tty_avail>>

\* SignalResult::CustomPending: the call is dropped and the caller yields.
SyscallCustomPending ==
  LET p == slots[CurSlot] IN
  /\ phase = "user"
  /\ current_pid # IdlePid
  /\ SyscallFatal(p) = {}
  /\ ~p.in_signal /\ Custom(p) # {}
  /\ slots' = [slots EXCEPT ![CurSlot] = SetPending(p, Custom(p))]
  /\ should_schedule' = TRUE
  /\ phase' = "exit"
  /\ UNCHANGED <<next_pid, count, current_pid, waiting_pid, tty_avail>>

\* syscall_entry.asm after the handler: sysretq.
SyscallReturn ==
  /\ phase = "exit"
  /\ ~should_schedule
  /\ phase' = "user"
  /\ UNCHANGED <<slots, next_pid, count, current_pid, should_schedule,
                 waiting_pid, tty_avail>>

\* Mutant: the state the handler has set is overwritten.
SwitchExit_AlwaysReady ==
  /\ phase = "exit"
  /\ should_schedule
  /\ should_schedule' = FALSE
  /\ slots' = [slots EXCEPT ![CurSlot] = SetState(@, "Ready")]
  /\ phase' = "sched"
  /\ UNCHANGED <<next_pid, count, current_pid, waiting_pid, tty_avail>>

\* .exit_or_block, and scheduler_switch_exit up to its loop.
SwitchExit ==
  /\ phase = "exit"
  /\ should_schedule
  /\ should_schedule' = FALSE
  /\ slots' = [slots EXCEPT ![CurSlot] =
                  IF @.state = "Running" THEN SetState(@, "Ready") ELSE @]
  /\ phase' = "sched"
  /\ UNCHANGED <<next_pid, count, current_pid, waiting_pid, tty_avail>>

-----------------------------------------------------------------------------
(* The selection loop, the same in scheduler_tick and scheduler_switch_exit *)

Runnable(s) == slots[s].state = "Ready" /\ slots[s].pid # IdlePid

\* Mutant: the scan starts at slot 0 each time.
IsSchedNext_FromZero(n) ==
  IF \E s \in Slots : Runnable(s)
  THEN Runnable(n) /\ \A s \in Slots : Runnable(s) => n <= s
  ELSE slots[n].pid = IdlePid

\* Mutant: the second pass, over idle, is left out.
IsSchedNext_NoIdle(n) ==
  \/ \E offset \in 1..(MAX_PROCS - 1) :
       /\ n = (CurSlot + offset) % MAX_PROCS
       /\ Runnable(n)
       /\ \A o \in 1..(offset - 1) : ~Runnable((CurSlot + o) % MAX_PROCS)
  \/ /\ \A o \in 1..(MAX_PROCS - 1) : ~Runnable((CurSlot + o) % MAX_PROCS)
     /\ n = CurSlot

\* n is the slot of the process that sched_next() returns.
IsSchedNext(n) ==
  \/ \E offset \in 1..(MAX_PROCS - 1) :
       /\ n = (CurSlot + offset) % MAX_PROCS
       /\ Runnable(n)
       /\ \A o \in 1..(offset - 1) : ~Runnable((CurSlot + o) % MAX_PROCS)
  \/ /\ \A o \in 1..(MAX_PROCS - 1) : ~Runnable((CurSlot + o) % MAX_PROCS)
     /\ LET idle == {s \in Slots : slots[s].state = "Ready"
                                     /\ slots[s].pid = IdlePid}
        IN IF idle # {} THEN n \in idle ELSE n = CurSlot

\* No signal stops delivery: the process is resumed.
DispatchRun(n) ==
  /\ Stopping(slots[n]) = {}
  /\ slots' = [slots EXCEPT ![n] =
                  SetState(SetPending(@, IF @.in_signal \/ @.pid = IdlePid
                                         THEN @.sig_pending ELSE {}),
                           "Running")]
  /\ phase' = "user"

\* A signal with a handler: the frame goes on the user stack and the
\* process resumes in the handler.
DispatchHandler(n) ==
  /\ \E sig \in Signals :
       /\ IsFirst(sig, Stopping(slots[n]))
       /\ sig \in Custom(slots[n]) /\ ~slots[n].in_signal
       /\ slots' = [slots EXCEPT ![n] = EnterHandler(@, Above(@, sig))]
  /\ phase' = "user"

\* The stack guard refuses the frame (user_rsp is the program's choice).
DispatchNoStack(n) ==
  /\ \E sig \in Signals :
       /\ IsFirst(sig, Stopping(slots[n]))
       /\ sig \in Custom(slots[n]) /\ ~slots[n].in_signal
       /\ slots' = MarkZombie(n, Above(slots[n], sig), 128 + SIGKILL)
  /\ phase' = "sched"

\* A terminating signal: the process dies and the loop selects again.
DispatchKilled(n) ==
  /\ \E sig \in Signals :
       /\ IsFirst(sig, Stopping(slots[n]))
       /\ sig \notin Custom(slots[n]) \/ slots[n].in_signal
       /\ slots' = MarkZombie(n, PendingAfter(slots[n], sig), 128 + sig)
  /\ phase' = "sched"

\* One iteration.  A process that is not Ready is the halt of the loop.
Dispatch(n) ==
  /\ phase = "sched"
  /\ IsSchedNext(n)
  /\ current_pid' = slots[n].pid
  /\ IF slots[n].state = "Ready"
     THEN \/ DispatchRun(n)
          \/ DispatchHandler(n)
          \/ DispatchNoStack(n)
          \/ DispatchKilled(n)
     ELSE slots' = slots /\ phase' = "halted"
  /\ UNCHANGED <<next_pid, count, should_schedule, waiting_pid, tty_avail>>

-----------------------------------------------------------------------------
(* System calls: in the kernel, interrupts off, the current process Running *)

\* getpid, uname, write, the descriptor calls, brk, and every call that
\* returns an error before it changes the state of this module.
SysOther ==
  /\ phase = "syscall"
  /\ phase' = "exit"
  /\ UNCHANGED <<slots, next_pid, count, current_pid, should_schedule,
                 waiting_pid, tty_avail>>

SysExit(code) ==
  /\ phase = "syscall"
  /\ slots' = MarkZombie(CurSlot, slots[CurSlot].sig_pending, code)
  /\ should_schedule' = TRUE
  /\ phase' = "exit"
  /\ UNCHANGED <<next_pid, count, current_pid, waiting_pid, tty_avail>>

\* Mutant: the pid counter is not advanced.
SysFork_SamePid ==
  /\ phase = "syscall"
  /\ \E s \in Slots \ Occupied :
       slots' = [slots EXCEPT ![s] = NewProcess(next_pid, "Ready", current_pid,
                                                slots[CurSlot].sigactions)]
  /\ count' = count + 1
  /\ phase' = "exit"
  /\ UNCHANGED <<next_pid, current_pid, should_schedule, waiting_pid, tty_avail>>

\* sys_fork with a kernel stack and an address space allocated; without
\* them it is SysOther.  The pid is used up even when no slot is free.
SysFork ==
  LET free == Slots \ Occupied
      child == NewProcess(next_pid, "Ready", current_pid,
                          slots[CurSlot].sigactions)
  IN
  /\ phase = "syscall"
  /\ next_pid <= MaxPid
  /\ next_pid' = next_pid + 1
  /\ \/ /\ free = {}
        /\ UNCHANGED <<slots, count>>
     \/ \E s \in free :
          /\ \A t \in free : s <= t
          /\ slots' = [slots EXCEPT ![s] = child]
          /\ count' = count + 1
  /\ phase' = "exit"
  /\ UNCHANGED <<current_pid, should_schedule, waiting_pid, tty_avail>>

\* sys_exec once the new image is built; a failed build is SysOther.
SysExec ==
  /\ phase = "syscall"
  /\ slots' = [slots EXCEPT ![CurSlot] = FreshSignals(@)]
  /\ phase' = "exit"
  /\ UNCHANGED <<next_pid, count, current_pid, should_schedule, waiting_pid,
                 tty_avail>>

\* The children that waitpid(req) matches; req = -1 is any child.
Matching(req) ==
  {s \in Occupied : /\ slots[s].parent_pid = current_pid
                    /\ req = -1 \/ slots[s].pid = req}

\* s is the child waitpid looks at: the first match in table order.
WaitTarget(req, s) == s \in Matching(req) /\ \A t \in Matching(req) : s <= t

\* Mutant: the slot is given back and not counted.
WaitReap_NoCount(req) ==
  \E s \in Slots :
    /\ WaitTarget(req, s)
    /\ slots[s].state = "Zombie"
    /\ slots' = [slots EXCEPT ![s] = None]
    /\ UNCHANGED <<count, should_schedule>>

\* The first match is a zombie: reap it.
WaitReap(req) ==
  \E s \in Slots :
    /\ WaitTarget(req, s)
    /\ slots[s].state = "Zombie"
    /\ slots' = [slots EXCEPT ![s] = None]
    /\ count' = IF count > 0 THEN count - 1 ELSE 0
    /\ UNCHANGED should_schedule

\* Mutant: waitpid blocks the caller and does not ask for a switch.
WaitBlock_NoSchedule(req) ==
  \E s \in Slots :
    /\ WaitTarget(req, s)
    /\ slots[s].state # "Zombie"
    /\ slots' = [slots EXCEPT ![CurSlot] = Block(@, "child", slots[s].pid)]
    /\ UNCHANGED <<count, should_schedule>>

\* The first match is alive and WNOHANG is not given: block on it.
WaitBlock(req) ==
  \E s \in Slots :
    /\ WaitTarget(req, s)
    /\ slots[s].state # "Zombie"
    /\ slots' = [slots EXCEPT ![CurSlot] =
                    Block(@, IF req = -1 THEN "anychild" ELSE "child",
                          slots[s].pid)]
    /\ should_schedule' = TRUE
    /\ UNCHANGED count

\* sys_waitpid; with no match, or WNOHANG and a live child, it is SysOther.
SysWaitpid(req) ==
  /\ phase = "syscall"
  /\ WaitReap(req) \/ WaitBlock(req)
  /\ phase' = "exit"
  /\ UNCHANGED <<next_pid, current_pid, waiting_pid, tty_avail>>

\* read() on the terminal: poll, then take bytes or block.
SysReadTty(ev) ==
  /\ phase = "syscall"
  /\ \E n \in InputAvail(ev) :
       \/ /\ n > 0
          /\ slots' = [i \in Slots |-> Input(ev, slots[i])]
          /\ waiting_pid' = InputWaiting(ev)
          /\ should_schedule' = InputSchedule(ev)
          /\ tty_avail' \in 0..n
       \/ /\ n = 0
          /\ slots' = [slots EXCEPT ![CurSlot] =
                          Block(@, "tty", @.wait_for_pid)]
          /\ waiting_pid' = current_pid
          /\ should_schedule' = TRUE
          /\ tty_avail' = n
  /\ phase' = "exit"
  /\ UNCHANGED <<next_pid, count, current_pid>>

\* sys_kill on a process of the table that is neither idle nor a zombie.
SysKill(s, sig) ==
  /\ phase = "syscall"
  /\ s \in Occupied
  /\ slots[s].pid # IdlePid
  /\ slots[s].state # "Zombie"
  /\ slots' = [slots EXCEPT ![s] =
                  SetPending(IF @.state = "Blocked" THEN Wake(@) ELSE @,
                             @.sig_pending \union {sig})]
  /\ phase' = "exit"
  /\ UNCHANGED <<next_pid, count, current_pid, should_schedule, waiting_pid,
                 tty_avail>>

\* sys_kill on a pid that is not in the table: process_mut panics.
SysKillAbsent(pid) ==
  /\ phase = "syscall"
  /\ \A s \in Slots : slots[s].pid # pid
  /\ phase' = "panic"
  /\ UNCHANGED <<slots, next_pid, count, current_pid, should_schedule,
                 waiting_pid, tty_avail>>

SysSigaction(sig, action) ==
  /\ phase = "syscall"
  /\ sig # SIGKILL
  /\ slots' = [slots EXCEPT ![CurSlot] = SetAction(@, sig, action)]
  /\ phase' = "exit"
  /\ UNCHANGED <<next_pid, count, current_pid, should_schedule, waiting_pid,
                 tty_avail>>

\* sys_sigreturn with a frame; without one it is SysOther.
SysSigreturn ==
  /\ phase = "syscall"
  /\ slots[CurSlot].in_signal
  /\ slots' = [slots EXCEPT ![CurSlot] = LeaveHandler(@, @.saved_mask)]
  /\ should_schedule' = TRUE
  /\ phase' = "exit"
  /\ UNCHANGED <<next_pid, count, current_pid, waiting_pid, tty_avail>>

\* The panic handler halts forever.
Panicked == phase = "panic" /\ UNCHANGED vars

-----------------------------------------------------------------------------

Syscall ==
  \/ SysOther
  \/ \E code \in ExitCodes : SysExit(code)
  \/ SysFork
  \/ SysExec
  \/ \E req \in {-1} \union 1..MaxPid : SysWaitpid(req)
  \/ \E ev \in InputEvents : SysReadTty(ev)
  \/ \E s \in Slots, sig \in Signals : SysKill(s, sig)
  \/ \E pid \in 1..MaxPid : SysKillAbsent(pid)
  \/ \E sig \in Signals, action \in Installed : SysSigaction(sig, action)
  \/ SysSigreturn

Schedule == \E n \in Slots : Dispatch(n)

Irq == \E ev \in InputEvents : Tick(ev)

Next ==
  \/ Irq
  \/ SyscallEnter
  \/ \E sig \in Signals : SyscallTerminated(sig)
  \/ SyscallCustomPending
  \/ SyscallReturn
  \/ SwitchExit
  \/ Schedule
  \/ Syscall
  \/ Panicked

Spec == Init /\ [][Next]_vars

(***************************************************************************)
(* The PIT interrupts for ever.  The PIC keeps an IRQ raised while IF is   *)
(* clear, so it is taken when the CPU is next in user mode, however often  *)
(* the program re-enters the kernel: strong fairness.  Kernel code, which  *)
(* nothing interrupts, runs to its end.  Programs need not do anything.    *)
(***************************************************************************)
Fairness ==
  /\ SF_vars(Irq)
  /\ WF_vars(Schedule)
  /\ WF_vars(Syscall)
  /\ WF_vars(SyscallReturn \/ SwitchExit)

FairSpec == Spec /\ Fairness

-----------------------------------------------------------------------------
(* Properties *)

\* The fields of the process table, of the scheduler and of the terminal keep
\* their Rust types (Process, ProcessTable, Tty), and the terminal's ring never
\* holds more than its capacity (push_byte).
TypeOK ==
  /\ slots \in [Slots -> ProcessRec]
  /\ next_pid \in Nat
  /\ count \in Nat
  /\ current_pid \in Nat
  /\ should_schedule \in BOOLEAN
  /\ waiting_pid \in Nat
  /\ tty_avail \in 0..TtyCap
  /\ phase \in {"user", "syscall", "exit", "sched", "halted", "panic"}

\* Every process in the table has its own pid, handed out before next_pid.
PidsUnique ==
  \A s \in Occupied :
    /\ slots[s].pid \in 1..(next_pid - 1)
    /\ \A t \in Occupied : slots[s].pid = slots[t].pid => s = t

(***************************************************************************)
(* One process runs, and it is the one CURRENT_PID names: no process is    *)
(* marked Running but the current one, and whenever the CPU is in user     *)
(* mode the current process is in the table and Running.  process() and    *)
(* process_mut() panic and sched_next() starts its scan at the wrong slot  *)
(* when this fails.                                                        *)
(***************************************************************************)
OneRunning ==
  /\ \A s \in Slots : slots[s].state = "Running" => slots[s].pid = current_pid
  /\ \E s \in Occupied : slots[s].pid = current_pid
  /\ phase = "user" => slots[CurSlot].state = "Running"

(***************************************************************************)
(* The scheduler always finds something to run: the HLT loops at the       *)
(* "next.state != Ready" tests of scheduler_tick and scheduler_switch_exit *)
(* are unreachable, whatever is killed, blocked or reaped.                 *)
(***************************************************************************)
NeverHalts == phase # "halted"

\* PROCESS_TABLE.count is the number of processes in the table.
CountMatches == count = Cardinality(Occupied)

(***************************************************************************)
(* No lost wakeup in waitpid(): while a process is blocked there, the      *)
(* child it waits for is in the table, is still its child, and is alive -- *)
(* so mark_zombie() of that child is still to come and will wake it.       *)
(***************************************************************************)
WaitedChildAlive ==
  \A s \in Slots :
    slots[s].state = "Blocked" /\ slots[s].blocked_on \in {"child", "anychild"}
      => \E c \in Occupied :
           /\ slots[c].pid = slots[s].wait_for_pid
           /\ slots[c].parent_pid = slots[s].pid
           /\ slots[c].state # "Zombie"

(***************************************************************************)
(* The inductive invariant behind the safety properties.  What it adds:    *)
(* an empty slot has pid 0; a parent is older than its children; idle sits *)
(* in slot 1, has no parent and is never blocked, killed or reaped; and    *)
(* in each phase, what the states of the processes can be.                 *)
(***************************************************************************)
EmptySlots == \A s \in Slots : slots[s].state = "None" <=> slots[s].pid = 0

ParentsOlder == \A s \in Occupied : slots[s].parent_pid < slots[s].pid

IdleAlive ==
  /\ slots[IdleSlot].pid = IdlePid
  /\ slots[IdleSlot].parent_pid = 0
  /\ slots[IdleSlot].state \in {"Ready", "Running"}

PhaseStates ==
  /\ phase \in {"user", "syscall"} => slots[CurSlot].state = "Running"
  /\ phase = "exit" => /\ slots[CurSlot].state \in {"Running", "Blocked", "Zombie"}
                       /\ ~should_schedule => slots[CurSlot].state = "Running"
  /\ phase = "sched" => \A s \in Slots : slots[s].state # "Running"
  /\ phase \in {"syscall", "exit"} => current_pid # IdlePid

IInv ==
  /\ TypeOK
  /\ EmptySlots
  /\ PidsUnique
  /\ next_pid >= 3
  /\ ParentsOlder
  /\ IdleAlive
  /\ OneRunning
  /\ PhaseStates
  /\ NeverHalts
  /\ WaitedChildAlive

(***************************************************************************)
(* A zombie stays a zombie, with its exit code, until its parent reaps it: *)
(* no tick, wakeup, signal or Ctrl-C brings it back or changes the status  *)
(* waitpid() will report, and nobody else removes it.                      *)
(***************************************************************************)
ZombieStep ==
  \A s \in Slots :
    slots[s].state = "Zombie" =>
      \/ /\ slots'[s].state = "Zombie"
         /\ slots'[s].pid = slots[s].pid
         /\ slots'[s].exit_code = slots[s].exit_code
      \/ slots'[s].state = "None" /\ slots[s].parent_pid = current_pid

ZombiesStayDead == [][ZombieStep]_vars

(***************************************************************************)
(* A pending signal that has a handler is not dropped: it leaves the       *)
(* pending set when its own handler starts, when the process dies, or when *)
(* sigreturn() or exec() ends the handler during which it arrived (both    *)
(* replace the pending set).  In particular the check at system-call entry *)
(* and the clearing of ignored signals around it lose none.                *)
(***************************************************************************)
SignalStep ==
  \A s \in Slots : \A sig \in Custom(slots[s]) \ slots'[s].sig_pending :
    \/ /\ ~slots[s].in_signal /\ slots'[s].in_signal
       /\ IsFirst(sig, Stopping(slots[s]))
    \/ slots'[s].state \in {"Zombie", "None"}
    \/ slots[s].in_signal /\ ~slots'[s].in_signal

HandledSignalKept == [][SignalStep]_vars

\* How far the scan of sched_next() goes from slot a before it looks at b.
Distance(a, b) == IF b > a THEN b - a ELSE b - a + MAX_PROCS

(***************************************************************************)
(* Bounded bypass: whenever the scheduler passes over a Ready process, the *)
(* scan has come strictly closer to its slot, so at most MAX_PROCS - 1     *)
(* other dispatches come before it.  This includes the process that was    *)
(* just preempted, whose own slot the scan leaves out.                     *)
(***************************************************************************)
BypassStep ==
  \A s \in Slots :
    phase = "sched" /\ Runnable(s) /\ slots'[s].state = "Ready"
      => Distance(CurSlot', s) < Distance(CurSlot, s)

BoundedBypass == [][BypassStep]_vars

(***************************************************************************)
(* Nobody starves: a Ready process other than idle is eventually run, or   *)
(* killed, whatever system calls the others make.                          *)
(***************************************************************************)
NoStarvation ==
  \A s \in Slots : Runnable(s) ~> (~Runnable(s) \/ phase = "panic")

(***************************************************************************)
(* SIGKILL is always fatal: once pending it ends the process, although a   *)
(* handler may be running, may be started first for a lower signal, may    *)
(* call sigreturn() (which overwrites the pending set) or exec() (which    *)
(* clears it).                                                             *)
(***************************************************************************)
SigkillIsFatal ==
  \A s \in Slots :
    SIGKILL \in slots[s].sig_pending
      ~> (slots[s].state \in {"Zombie", "None"} \/ phase = "panic")

-----------------------------------------------------------------------------
(* What the documentation says and the code does not do *)

(***************************************************************************)
(* SYSCALL.md, waitpid: "If a matching child is already Zombie, reaps it   *)
(* immediately" and "If pid == -1, waits for any child": a process blocked *)
(* in waitpid(-1) has no zombie child.                                     *)
(***************************************************************************)
WaitAnyMissesNoZombie ==
  \A s, c \in Slots :
    /\ slots[s].state = "Blocked" /\ slots[s].blocked_on = "anychild"
    /\ slots[c].state = "Zombie"
    => slots[c].parent_pid # slots[s].pid

(***************************************************************************)
(* tty.rs, push_byte: "Wake any process blocked waiting for TTY input".    *)
(* It wakes waiting_pid, so every process blocked in a terminal read must  *)
(* be the one recorded there.                                              *)
(***************************************************************************)
BlockedReaderRecorded ==
  \A s \in Slots :
    slots[s].state = "Blocked" /\ slots[s].blocked_on = "tty"
      => slots[s].pid = waiting_pid

=============================================================================
