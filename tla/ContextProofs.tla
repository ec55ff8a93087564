--------------------------- MODULE ContextProofs ---------------------------
(***************************************************************************)
(* Frames, stacks and page tables have one owner each, for any number of   *)
(* processes and any programs: CtxInv is inductive when IRQ0 stays out of  *)
(* start_scheduler.                                                        *)
(***************************************************************************)
EXTENDS Context, TLAPS

\* The two slots spawn_init fills are in the table.
LEMMA Slots == InitSlot \in Procs /\ IdleSlot \in Procs /\ InitSlot # IdleSlot /\ 0 \notin Procs
BY ContextAssumption DEF InitSlot, IdleSlot, Procs

\* One field of a process changes, and no other.
LEMMA PutState ==
  ASSUME NEW STATE r, IsProc(r), NEW STATE x
  PROVE  LET p == [r EXCEPT !.state = x] IN
         /\ IsProc(p) /\ p.state = x
         /\ p.parent = r.parent /\ p.wait_for = r.wait_for /\ p.kernel_rsp = r.kernel_rsp /\ p.pml4 = r.pml4
         /\ p.pending = r.pending /\ p.handled = r.handled /\ p.in_signal = r.in_signal
BY DEF IsProc

\* The same for wait_for.
LEMMA PutWaitFor ==
  ASSUME NEW STATE r, IsProc(r), NEW STATE x
  PROVE  LET p == [r EXCEPT !.wait_for = x] IN
         /\ IsProc(p) /\ p.wait_for = x
         /\ p.state = r.state /\ p.parent = r.parent /\ p.kernel_rsp = r.kernel_rsp /\ p.pml4 = r.pml4
         /\ p.pending = r.pending /\ p.handled = r.handled /\ p.in_signal = r.in_signal
BY DEF IsProc

\* The same for parent.
LEMMA PutParent ==
  ASSUME NEW STATE r, IsProc(r), NEW STATE x
  PROVE  LET p == [r EXCEPT !.parent = x] IN
         /\ IsProc(p) /\ p.parent = x
         /\ p.state = r.state /\ p.wait_for = r.wait_for /\ p.kernel_rsp = r.kernel_rsp /\ p.pml4 = r.pml4
         /\ p.pending = r.pending /\ p.handled = r.handled /\ p.in_signal = r.in_signal
BY DEF IsProc

\* The same for pml4.
LEMMA PutPml4 ==
  ASSUME NEW STATE r, IsProc(r), NEW STATE x
  PROVE  LET p == [r EXCEPT !.pml4 = x] IN
         /\ IsProc(p) /\ p.pml4 = x
         /\ p.state = r.state /\ p.parent = r.parent /\ p.wait_for = r.wait_for /\ p.kernel_rsp = r.kernel_rsp
         /\ p.pending = r.pending /\ p.handled = r.handled /\ p.in_signal = r.in_signal
BY DEF IsProc

\* The same for pending.
LEMMA PutPending ==
  ASSUME NEW STATE r, IsProc(r), NEW STATE x
  PROVE  LET p == [r EXCEPT !.pending = x] IN
         /\ IsProc(p) /\ p.pending = x
         /\ p.state = r.state /\ p.parent = r.parent /\ p.wait_for = r.wait_for /\ p.kernel_rsp = r.kernel_rsp
         /\ p.pml4 = r.pml4 /\ p.handled = r.handled /\ p.in_signal = r.in_signal
BY DEF IsProc

\* The same for handled.
LEMMA PutHandled ==
  ASSUME NEW STATE r, IsProc(r), NEW STATE x
  PROVE  LET p == [r EXCEPT !.handled = x] IN
         /\ IsProc(p) /\ p.handled = x
         /\ p.state = r.state /\ p.parent = r.parent /\ p.wait_for = r.wait_for /\ p.kernel_rsp = r.kernel_rsp
         /\ p.pml4 = r.pml4 /\ p.pending = r.pending /\ p.in_signal = r.in_signal
BY DEF IsProc

\* The same for in_signal.
LEMMA PutInSignal ==
  ASSUME NEW STATE r, IsProc(r), NEW STATE x
  PROVE  LET p == [r EXCEPT !.in_signal = x] IN
         /\ IsProc(p) /\ p.in_signal = x
         /\ p.state = r.state /\ p.parent = r.parent /\ p.wait_for = r.wait_for /\ p.kernel_rsp = r.kernel_rsp
         /\ p.pml4 = r.pml4 /\ p.pending = r.pending /\ p.handled = r.handled
BY DEF IsProc

\* An empty slot.
LEMMA Empty == IsProc(NoProc) /\ NoProc.state = "None"
<1> DEFINE r == NewProc(0, 0, BootRoot, FALSE)
<1>1. IsProc(r)
  BY DEF NewProc, IsProc
<1>2. NoProc = [r EXCEPT !.state = "None"]
  BY DEF NoProc
<1> HIDE DEF r
<1>3. IsProc([r EXCEPT !.state = "None"]) /\ [r EXCEPT !.state = "None"].state = "None"
  BY <1>1, PutState
<1> QED BY <1>2, <1>3

-----------------------------------------------------------------------------
(* System calls *)

\* Inside a system call, a process other than idle executes.
InCall ==
  /\ mode = "run" /\ ~InBoot
  /\ current \in Procs /\ current # IdleSlot
  /\ UserContext(regs)
  /\ rsp0 = current /\ syscall_kstack = current /\ cr3 = procs[current].pml4
  /\ procs[current].state = "Running" /\ procs[IdleSlot].state = "Ready"
  /\ \A s \in Procs \ {current} : procs[s].state # "Running"

\* A table, stacks and user stacks that a handler may leave behind.  The frame
\* of the caller is not on its stack yet.
Left(ps, ks, us) ==
  /\ ps = [s \in Procs |-> ps[s]]
  /\ ks = [k \in Stacks |-> ks[k]]
  /\ us = [r \in Roots |-> us[r]]
  /\ \A s \in Procs : SlotOK(ps[s], s) /\ SavedOK(ps[s], us)
  /\ \A s \in Procs \ {current} : FrameOK(ps[s], s, ks[s]) /\ ps[s].state # "Running"
  /\ ps[IdleSlot].state = "Ready"
  /\ ps[current].state \in {"Running", "Blocked", "Zombie"}

\* SYSCALL is only reached from the program of a process.
LEMMA CallState ==
  ASSUME CtxInv, NEW t, NEW call, AtCall(t, call)
  PROVE  InCall /\ Left(procs, kstack, ustack)
<1>1. regs.rip[1] # "boot" /\ regs.rip # <<"idle">>
  BY DEF AtCall
<1>2. RunOK /\ mode = "run"
  BY <1>1 DEF CtxInv, InBoot, AtCall
<1>3. current # IdleSlot
  BY <1>1, <1>2 DEF RunOK, Idle, Fresh
<1>4. InCall
  BY <1>1, <1>2, <1>3, Slots DEF InCall, RunOK, InBoot
<1> QED BY <1>4 DEF Left, CtxInv, TableOK, InCall

\* One slot is changed, and no frame.
LEMMA OneSlot ==
  ASSUME Left(procs, kstack, ustack), NEW q \in Procs \ {IdleSlot}, NEW STATE p,
         SlotOK(p, q), SavedOK(p, ustack),
         q # current => FrameOK(p, q, kstack[q]) /\ p.state # "Running",
         q = current => p.state \in {"Running", "Blocked", "Zombie"}
  PROVE  Left([procs EXCEPT ![q] = p], kstack, ustack)
<1> DEFINE ps == [procs EXCEPT ![q] = p]
<1>1. ps[q] = p /\ \A s \in Procs \ {q} : ps[s] = procs[s]
  BY DEF Left
<1>2. ps = [s \in Procs |-> ps[s]]
  BY DEF Left
<1>3. ps[IdleSlot] = procs[IdleSlot] /\ (q # current => ps[current] = procs[current])
  BY <1>1, Slots DEF Left
<1> HIDE DEF ps
<1>4. Left(ps, kstack, ustack)
  BY <1>1, <1>2, <1>3 DEF Left
<1> QED BY <1>4 DEF ps

\* scheduler_switch_exit: the frame goes to the top of the caller's stack.
LEMMA SwitchExitInv ==
  ASSUME InCall, NEW STATE ps, NEW STATE ks, NEW STATE frame, Left(ps, ks, ustack'),
         ps[current].state = "Blocked" => frame.rax = Zero,
         UserContext(frame), current' = current,
         SwitchExit(ps, ks, frame)
  PROVE  CtxInv'
<1> DEFINE c == current
<1>0. c \in Procs /\ c \in Stacks /\ syscall_kstack = c /\ ~InBoot
  BY DEF InCall, Stacks
<1>1. /\ kstack' = [ks EXCEPT ![c] = IF ps[c].state = "Zombie" THEN NoFrame ELSE frame]
      /\ procs' = [ps EXCEPT ![c].kernel_rsp = c,
                             ![c].state = IF @ = "Running" THEN "Ready" ELSE @]
      /\ mode' = "select" /\ regs' = regs
  BY <1>0 DEF SwitchExit
<1>2. /\ procs' = [s \in Procs |-> procs'[s]]
      /\ kstack' = [k \in Stacks |-> kstack'[k]]
  BY Zenon, <1>1 DEF Left
<1>3. /\ IsProc(procs'[c]) /\ procs'[c].kernel_rsp = c
      /\ procs'[c].pml4 = ps[c].pml4 /\ procs'[c].in_signal = ps[c].in_signal
      /\ procs'[c].state = IF ps[c].state = "Running" THEN "Ready" ELSE ps[c].state
  <2>1. IsProc(ps[c])
    BY <1>0 DEF SlotOK, Left
  <2> QED BY Zenon, <2>1, <1>1, <1>0 DEF IsProc, Left
<1>4. SlotOK(procs'[c], c) /\ SavedOK(procs'[c], ustack')
  <2>1. /\ SlotOK(ps[c], c) /\ SavedOK(ps[c], ustack')
        /\ ps[c].state \in {"Running", "Blocked", "Zombie"}
    BY <1>0 DEF Left
  <2>2. SlotOK(procs'[c], c)
    BY <2>1, <1>3 DEF SlotOK
  <2>3. SavedOK(procs'[c], ustack')
    BY <2>1, <1>3 DEF SavedOK
  <2> QED BY <2>2, <2>3
<1>5. FrameOK(procs'[c], c, kstack'[c])
  BY <1>0, <1>1, <1>3 DEF FrameOK, Left, InCall
<1>6. \A s \in Procs \ {c} : procs'[s] = ps[s] /\ kstack'[s] = ks[s]
  BY <1>1 DEF Stacks, Left
<1>7. TableOK(procs, kstack, ustack)'
  BY Zenon, <1>2, <1>4, <1>5, <1>6 DEF TableOK, Left
<1>8. RunOK'
  <2>1. current' = c /\ procs'[IdleSlot].state = "Ready"
    BY Zenon, <1>6, Slots DEF Left, InCall
  <2>2. \A s \in Procs : procs'[s].state # "Running"
    BY <1>3, <1>6 DEF Left
  <2> QED BY Zenon, <1>0, <1>1, <2>1, <2>2 DEF RunOK
<1> QED BY <1>0, <1>1, <1>7, <1>8 DEF CtxInv, InBoot

\* The way out of a system call: sysretq, or a frame for the scheduler.
LEMMA LeaveInv ==
  ASSUME InCall, NEW STATE ps, NEW STATE ks, NEW STATE state, NEW STATE rax,
         NEW STATE schedule, Left(ps, ks, ustack'),
         ps[current].state # "Running" => schedule,
         ps[current].state = "Blocked" => rax = Zero,
         state.rip[1] # "boot", state.rflags # <<"cli">>,
         cr3' = ps[current].pml4, UNCHANGED <<current, rsp0, syscall_kstack>>,
         Leave(ps, ks, state, rax, schedule)
  PROVE  CtxInv'
<1>1. CASE schedule
  <2> DEFINE fr == Diverted(state, rax)
  <2>1. UserContext(fr) /\ fr.rax = rax
    BY DEF Diverted, Fresh, UserContext, IsRegs, DefaultFlags
  <2>2. SwitchExit(ps, ks, fr)
    BY <1>1 DEF Leave
  <2> HIDE DEF fr
  <2> QED BY <2>1, <2>2, SwitchExitInv
<1>2. CASE ~schedule
  <2> DEFINE c == current
  <2>1. /\ procs' = ps /\ kstack' = ks /\ mode' = "run"
        /\ regs' = [regs EXCEPT !.rax = rax, !.rdi = Zero, !.rip = state.rip,
                                !.rsp = state.rsp, !.rflags = state.rflags]
    BY <1>2 DEF Leave, InCall
  <2>2. UserContext(regs')
    BY Zenon, <2>1 DEF UserContext, IsRegs, InCall
  <2>3. FrameOK(ps[c], c, ks[c]) /\ ps[c].state = "Running"
    BY <1>2 DEF FrameOK
  <2>4. TableOK(procs, kstack, ustack)'
    BY <2>1, <2>3 DEF TableOK, Left
  <2>5. RunOK'
    BY <2>1, <2>2, <2>3 DEF RunOK, InCall, Left
  <2> QED BY <2>1, <2>2, <2>4, <2>5 DEF CtxInv, InBoot, UserContext
<1> QED BY <1>1, <1>2

\* mark_zombie leaves the other slots in order, and the frame of the parent it
\* wakes.
LEMMA ZombieTable ==
  ASSUME TableOK(procs, kstack, ustack), NEW z \in Procs,
         procs[z].state # "None", procs[IdleSlot].state # "Blocked"
  PROVE  LET ps == MarkZombie(z)
             ks == ZeroResult(z) IN
         /\ ps = [s \in Procs |-> ps[s]] /\ ks = [k \in Stacks |-> ks[k]]
         /\ \A s \in Procs : SlotOK(ps[s], s) /\ SavedOK(ps[s], ustack)
         /\ ps[z].state = "Zombie" /\ ps[z].pml4 = procs[z].pml4
         /\ \A s \in Procs \ {z} :
              /\ FrameOK(ps[s], s, ks[s])
              /\ ps[s].state = procs[s].state \/ ps[s].state = "Ready"
              /\ ps[s].state = procs[s].state \/ procs[s].state = "Blocked"
<1> DEFINE ps == MarkZombie(z)
           ks == ZeroResult(z)
<1>1. ps = [s \in Procs |-> ps[s]] /\ ks = [k \in Stacks |-> ks[k]]
  BY DEF MarkZombie, ZeroResult
<1>2. \A s \in Procs : SlotOK(procs[s], s) /\ FrameOK(procs[s], s, kstack[s]) /\ SavedOK(procs[s], ustack)
  BY DEF TableOK
<1>3. ps[z] = [procs[z] EXCEPT !.state = "Zombie", !.pending = FALSE]
  BY DEF MarkZombie
<1>4. SlotOK(ps[z], z) /\ SavedOK(ps[z], ustack) /\ ps[z].state = "Zombie" /\ ps[z].pml4 = procs[z].pml4
  <2>1. IsProc(procs[z]) /\ SlotOK(procs[z], z)
    BY <1>2 DEF SlotOK
  <2>2. /\ IsProc(ps[z]) /\ ps[z].state = "Zombie" /\ ps[z].pml4 = procs[z].pml4
        /\ ps[z].kernel_rsp = procs[z].kernel_rsp
    BY Zenon, <2>1, <1>3 DEF IsProc
  <2> QED BY <2>1, <2>2 DEF SlotOK, SavedOK
<1>5. ASSUME NEW s \in Procs, s # z
      PROVE  /\ SlotOK(ps[s], s) /\ SavedOK(ps[s], ustack) /\ FrameOK(ps[s], s, ks[s])
             /\ ps[s].state = procs[s].state \/ ps[s].state = "Ready"
             /\ ps[s].state = procs[s].state \/ procs[s].state = "Blocked"
  <2>1. SlotOK(procs[s], s) /\ FrameOK(procs[s], s, kstack[s]) /\ SavedOK(procs[s], ustack)
    BY <1>2
  <2>2. CASE WaitsFor(s, z)
    <3>1. procs[s].state = "Blocked" /\ s # IdleSlot
      BY <2>2 DEF WaitsFor
    <3>2. UserContext(kstack[s]) /\ IsProc(procs[s]) /\ procs[s].kernel_rsp = s
      BY <2>1, <3>1 DEF FrameOK, SlotOK
    <3>3. ps[s] = [procs[s] EXCEPT !.state = "Ready", !.wait_for = 0]
      BY <1>5, <2>2 DEF MarkZombie
    <3>4. /\ IsProc(ps[s]) /\ ps[s].state = "Ready" /\ ps[s].pml4 = procs[s].pml4
          /\ ps[s].kernel_rsp = s /\ ps[s].in_signal = procs[s].in_signal
      BY Zenon, <3>2, <3>3 DEF IsProc
    <3>5. ks[s] = [kstack[s] EXCEPT !.rax = Zero]
      BY <1>5, <2>2, <3>2 DEF ZeroResult, Stacks
    <3>6. UserContext(ks[s])
      BY <3>2, <3>5 DEF UserContext, IsRegs
    <3>7. SlotOK(ps[s], s) /\ FrameOK(ps[s], s, ks[s])
      BY <2>1, <3>1, <3>4, <3>6 DEF SlotOK, FrameOK
    <3>8. SavedOK(ps[s], ustack)
      BY <2>1, <3>1, <3>4 DEF SavedOK
    <3> QED BY <3>1, <3>4, <3>7, <3>8
  <2>3. CASE ~WaitsFor(s, z)
    <3>1. ps[s] = procs[s]
      BY <1>5, <2>3 DEF MarkZombie
    <3>2. \A p \in Procs : WaitsFor(p, z) => procs[p].kernel_rsp = p
      BY <1>2 DEF WaitsFor, SlotOK
    <3>3. ks[s] = kstack[s]
      BY <1>5, <2>3, <3>2 DEF ZeroResult, Stacks
    <3> QED BY <2>1, <3>1, <3>3
  <2> QED BY <2>2, <2>3
<1> HIDE DEF ps, ks
<1> QED BY <1>1, <1>4, <1>5 DEF ps, ks

\* exit, and a signal that ends the caller at the entry of a call.
LEMMA EndInv ==
  ASSUME CtxInv, NEW t, NEW call, AtCall(t, call),
         Leave(MarkZombie(current), ZeroResult(current), regs, Zero, TRUE),
         UNCHANGED <<current, rsp0, syscall_kstack, cr3, ustack>>
  PROVE  CtxInv'
<1>1. InCall
  BY CallState
<1> DEFINE ps == MarkZombie(current)
           ks == ZeroResult(current)
<1>2. /\ ps = [s \in Procs |-> ps[s]] /\ ks = [k \in Stacks |-> ks[k]]
      /\ \A s \in Procs : SlotOK(ps[s], s) /\ SavedOK(ps[s], ustack)
      /\ ps[current].state = "Zombie" /\ ps[current].pml4 = procs[current].pml4
      /\ \A s \in Procs \ {current} :
           /\ FrameOK(ps[s], s, ks[s])
           /\ ps[s].state = procs[s].state \/ ps[s].state = "Ready"
  BY <1>1, ZombieTable DEF CtxInv, InCall
<1> HIDE DEF ps, ks
<1>3. ustack = [r \in Roots |-> ustack[r]] /\ ustack' = ustack
  BY DEF CtxInv, TableOK
<1>4. ps[IdleSlot].state = "Ready" /\ \A s \in Procs \ {current} : ps[s].state # "Running"
  BY <1>1, <1>2, Slots DEF InCall
<1>5. Left(ps, ks, ustack')
  BY <1>2, <1>3, <1>4 DEF Left
<1>6. Leave(ps, ks, regs, Zero, TRUE)
  BY Zenon DEF ps, ks
<1> QED BY Zenon, <1>1, <1>2, <1>5, <1>6, LeaveInv DEF InCall, UserContext

\* exit.
LEMMA ExitInv ==
  ASSUME CtxInv, NEW t, SysExit(t)
  PROVE  CtxInv'
BY Zenon, EndInv DEF SysExit

\* A call that does not end its caller, and that no other process could see: it
\* leaves the table ps and the stacks ks.
QuietLeave(t, ps, ks, rax, schedule) ==
  /\ Left(ps, ks, ustack')
  /\ \/ ps[current].state = "Running"
     \/ ps[current].state = "Blocked" /\ rax = Zero /\ schedule
  /\ rax \in {Result(t), Zero}
  /\ \A s \in Procs :
       /\ ps[s].state \in {"None", "Zombie"} <=> procs[s].state \in {"None", "Zombie"}
       /\ procs[s].state \notin {"None", "Zombie"} =>
            /\ ps[s].pml4 = procs[s].pml4 /\ ps[s].in_signal = procs[s].in_signal
            /\ ks[s] = kstack[s]
            /\ ustack'[procs[s].pml4] = ustack[procs[s].pml4]
  /\ Leave(ps, ks, regs, rax, schedule)
  /\ UNCHANGED <<current, rsp0, syscall_kstack, cr3>>

Quiet(t, rax) == \E ps, ks, schedule : QuietLeave(t, ps, ks, rax, schedule)

\* It keeps the invariant.
LEMMA QuietInv ==
  ASSUME CtxInv, NEW t, NEW call, AtCall(t, call), NEW STATE rax, Quiet(t, rax)
  PROVE  CtxInv'
<1>1. InCall /\ Left(procs, kstack, ustack)
  BY CallState
<1>2. PICK ps, ks, schedule : QuietLeave(t, ps, ks, rax, schedule)
  BY DEF Quiet
<1>3. ps[current].pml4 = cr3
  BY <1>1, <1>2 DEF InCall, QuietLeave
<1> QED BY <1>1, <1>2, <1>3, LeaveInv DEF InCall, UserContext, QuietLeave

\* A call that changes nothing.
LEMMA SameQuiet ==
  ASSUME CtxInv, NEW t, NEW call, AtCall(t, call), NEW STATE rax, rax \in {Result(t), Zero},
         NEW STATE schedule, Leave(procs, kstack, regs, rax, schedule),
         UNCHANGED <<current, rsp0, syscall_kstack, cr3, ustack>>
  PROVE  Quiet(t, rax)
<1>1. InCall /\ Left(procs, kstack, ustack')
  BY CallState
<1>2. procs[current].state = "Running" /\ ustack' = ustack
  BY <1>1 DEF InCall
<1> QED BY <1>1, <1>2 DEF Quiet, QuietLeave

\* A call that changes only the slot of the caller, and not what it owns.
LEMMA CallerQuiet ==
  ASSUME CtxInv, NEW t, NEW call, AtCall(t, call), NEW STATE p, IsProc(p),
         p.pml4 = procs[current].pml4, p.kernel_rsp = procs[current].kernel_rsp,
         p.in_signal = procs[current].in_signal,
         NEW STATE rax, NEW STATE schedule,
         \/ p.state = "Running"
         \/ p.state = "Blocked" /\ rax = Zero /\ schedule,
         rax \in {Result(t), Zero},
         Leave([procs EXCEPT ![current] = p], kstack, regs, rax, schedule),
         UNCHANGED <<current, rsp0, syscall_kstack, cr3, ustack>>
  PROVE  Quiet(t, rax)
<1>1. InCall /\ Left(procs, kstack, ustack)
  BY CallState
<1>2. SlotOK(procs[current], current) /\ SavedOK(procs[current], ustack)
  BY <1>1 DEF InCall, Left
<1>3. SlotOK(p, current)
  BY <1>1, <1>2 DEF SlotOK, InCall
<1>4. SavedOK(p, ustack)
  BY <1>1, <1>2 DEF SavedOK, InCall
<1> DEFINE ps == [procs EXCEPT ![current] = p]
<1>5. Left(ps, kstack, ustack')
  BY <1>1, <1>3, <1>4, OneSlot DEF InCall
<1>6. ps[current] = p /\ \A s \in Procs \ {current} : ps[s] = procs[s]
  BY <1>1 DEF Left, InCall
<1>7. procs[current].state = "Running" /\ ustack' = ustack
  BY <1>1 DEF InCall
<1>8. ASSUME NEW s \in Procs
      PROVE  /\ ps[s].state \in {"None", "Zombie"} <=> procs[s].state \in {"None", "Zombie"}
             /\ ps[s].pml4 = procs[s].pml4 /\ ps[s].in_signal = procs[s].in_signal
  <2>1. CASE s = current
    BY <1>6, <1>7, <2>1
  <2>2. CASE s # current
    BY <1>6, <2>2
  <2> QED BY <2>1, <2>2
<1> HIDE DEF ps
<1>9. Leave(ps, kstack, regs, rax, schedule)
  BY DEF ps
<1> QED BY <1>5, <1>6, <1>7, <1>8, <1>9 DEF Quiet, QuietLeave

\* The record of the caller is a record.
LEMMA CallerRecord ==
  ASSUME CtxInv, NEW t, NEW call, AtCall(t, call)
  PROVE  IsProc(procs[current]) /\ procs[current].state = "Running"
BY CallState DEF InCall, Left, SlotOK

\* A call that returns its result.
LEMMA PlainQuiet ==
  ASSUME CtxInv, NEW t, SysPlain(t)
  PROVE  Quiet(t, Result(t))
BY SameQuiet DEF SysPlain

\* sigaction.
LEMMA SigactionQuiet ==
  ASSUME CtxInv, NEW t, SysSigaction(t)
  PROVE  Quiet(t, Result(t))
<1> DEFINE p == [procs[current] EXCEPT !.handled = ~@]
<1>1. AtCall(t, "sigaction") /\ IsProc(procs[current]) /\ procs[current].state = "Running"
  BY CallerRecord DEF SysSigaction
<1>2. /\ IsProc(p) /\ p.state = "Running" /\ p.pml4 = procs[current].pml4
      /\ p.kernel_rsp = procs[current].kernel_rsp /\ p.in_signal = procs[current].in_signal
  BY <1>1 DEF IsProc
<1>3. /\ Leave([procs EXCEPT ![current] = p], kstack, regs, Result(t), should_schedule)
      /\ UNCHANGED <<current, rsp0, syscall_kstack, cr3, ustack>>
  BY DEF SysSigaction
<1> HIDE DEF p
<1> QED BY <1>1, <1>2, <1>3, CallerQuiet

\* waitpid for a child that lives.
LEMMA WaitBlockQuiet ==
  ASSUME CtxInv, NEW t, NEW q, SysWaitBlock(t, q)
  PROVE  Quiet(t, Zero)
<1> DEFINE p == [procs[current] EXCEPT !.state = "Blocked", !.wait_for = q]
<1>1. AtCall(t, "waitpid") /\ IsProc(procs[current])
  BY CallerRecord DEF SysWaitBlock
<1>2. /\ IsProc(p) /\ p.state = "Blocked" /\ p.pml4 = procs[current].pml4
      /\ p.kernel_rsp = procs[current].kernel_rsp /\ p.in_signal = procs[current].in_signal
  <2> DEFINE r == [procs[current] EXCEPT !.state = "Blocked"]
  <2>1. /\ IsProc(r) /\ r.state = "Blocked" /\ r.pml4 = procs[current].pml4
        /\ r.kernel_rsp = procs[current].kernel_rsp /\ r.in_signal = procs[current].in_signal
    BY <1>1 DEF IsProc
  <2>2. p = [r EXCEPT !.wait_for = q]
    OBVIOUS
  <2> HIDE DEF r, p
  <2> QED BY <2>1, <2>2 DEF IsProc
<1>3. [procs EXCEPT ![current].state = "Blocked", ![current].wait_for = q]
        = [procs EXCEPT ![current] = p]
  <2>1. current \in Procs /\ procs = [s \in Procs |-> procs[s]]
    BY CallState, <1>1 DEF Left, InCall
  <2> DEFINE f == [procs EXCEPT ![current].state = "Blocked", ![current].wait_for = q]
             g == [procs EXCEPT ![current] = p]
  <2>2. f = [s \in Procs |-> f[s]] /\ g = [s \in Procs |-> g[s]]
    BY Zenon, <2>1
  <2>3. f[current] = p /\ g[current] = p
    BY <2>1
  <2>4. \A s \in Procs \ {current} : f[s] = procs[s] /\ g[s] = procs[s]
    BY <2>1
  <2> HIDE DEF f, g, p
  <2>5. f = g
    BY <2>2, <2>3, <2>4
  <2> QED BY <2>5 DEF f, g
<1>4. /\ Leave([procs EXCEPT ![current] = p], kstack, regs, Zero, TRUE)
      /\ UNCHANGED <<current, rsp0, syscall_kstack, cr3, ustack>>
  BY Zenon, <1>3 DEF SysWaitBlock
<1> HIDE DEF p
<1> QED BY Zenon, <1>1, <1>2, <1>4, CallerQuiet

\* A read that blocks.
LEMMA ReadBlockQuiet ==
  ASSUME CtxInv, NEW t, SysReadBlock(t)
  PROVE  Quiet(t, Zero)
<1> DEFINE p == [procs[current] EXCEPT !.state = "Blocked"]
<1>1. AtCall(t, "read") /\ IsProc(procs[current])
  BY CallerRecord DEF SysReadBlock
<1>2. /\ IsProc(p) /\ p.state = "Blocked" /\ p.pml4 = procs[current].pml4
      /\ p.kernel_rsp = procs[current].kernel_rsp /\ p.in_signal = procs[current].in_signal
  BY <1>1 DEF IsProc
<1>3. /\ Leave([procs EXCEPT ![current] = p], kstack, regs, Zero, TRUE)
      /\ UNCHANGED <<current, rsp0, syscall_kstack, cr3, ustack>>
  BY Zenon DEF SysReadBlock
<1> HIDE DEF p
<1> QED BY Zenon, <1>1, <1>2, <1>3, CallerQuiet

\* kill, of the caller or of another process, which may wake it.
LEMMA KillQuiet ==
  ASSUME CtxInv, NEW t, NEW q \in Procs, SysKill(t, q)
  PROVE  Quiet(t, Result(t))
<1> DEFINE p == [procs[q] EXCEPT !.pending = TRUE,
                                 !.state = IF @ = "Blocked" THEN "Ready" ELSE @]
           ps == [procs EXCEPT ![q] = p]
<1>1. /\ AtCall(t, "kill") /\ q # IdleSlot
      /\ UNCHANGED <<current, rsp0, syscall_kstack, cr3, ustack>>
  BY DEF SysKill
<1>2. InCall /\ Left(procs, kstack, ustack)
  BY <1>1, CallState
<1>3. /\ SlotOK(procs[q], q) /\ SavedOK(procs[q], ustack)
      /\ q # current => FrameOK(procs[q], q, kstack[q]) /\ procs[q].state # "Running"
  BY <1>2 DEF Left
<1>4. /\ IsProc(p) /\ p.pml4 = procs[q].pml4 /\ p.kernel_rsp = procs[q].kernel_rsp
      /\ p.in_signal = procs[q].in_signal
      /\ p.state = IF procs[q].state = "Blocked" THEN "Ready" ELSE procs[q].state
  <2> DEFINE r == [procs[q] EXCEPT !.pending = TRUE]
             st == IF r.state = "Blocked" THEN "Ready" ELSE r.state
  <2>1. /\ IsProc(r) /\ r.state = procs[q].state /\ r.pml4 = procs[q].pml4
        /\ r.kernel_rsp = procs[q].kernel_rsp /\ r.in_signal = procs[q].in_signal
    BY <1>3, PutPending DEF SlotOK
  <2>2. p = [r EXCEPT !.state = st]
    OBVIOUS
  <2>3. st = IF procs[q].state = "Blocked" THEN "Ready" ELSE procs[q].state
    BY <2>1
  <2> HIDE DEF r, p, st
  <2>4. IsProc(p) /\ p.pml4 = r.pml4 /\ p.kernel_rsp = r.kernel_rsp /\ p.in_signal = r.in_signal
    BY <2>1, <2>2, PutState
  <2>5. p.state = st
    BY <2>1, <2>2, PutState
  <2> QED BY <2>1, <2>3, <2>4, <2>5
<1>5. Leave(ps, kstack, regs, Result(t), should_schedule)
  <2>1. [procs EXCEPT ![q].pending = TRUE,
                      ![q].state = IF @ = "Blocked" THEN "Ready" ELSE @] = ps
    BY Zenon, <1>2, <1>3 DEF Left, SlotOK, IsProc
  <2> QED BY <2>1 DEF SysKill
<1> HIDE DEF p
<1>6. SlotOK(p, q)
  BY <1>3, <1>4 DEF SlotOK
<1>7. SavedOK(p, ustack)
  BY <1>3, <1>4 DEF SavedOK
<1>8. /\ q # current => FrameOK(p, q, kstack[q]) /\ p.state # "Running"
      /\ q = current => p.state = "Running" /\ p.pml4 = cr3
  BY <1>2, <1>3, <1>4 DEF FrameOK, InCall
<1>9. Left(ps, kstack, ustack')
  BY <1>1, <1>2, <1>6, <1>7, <1>8, OneSlot
<1>10. ps[current].state = "Running" /\ ps[current].pml4 = cr3
  BY <1>2, <1>8 DEF Left, InCall
<1> HIDE DEF ps
<1>11. ASSUME NEW s \in Procs
       PROVE  /\ ps[s].state \in {"None", "Zombie"} <=> procs[s].state \in {"None", "Zombie"}
              /\ ps[s].pml4 = procs[s].pml4 /\ ps[s].in_signal = procs[s].in_signal
  <2>1. ps[q] = p /\ (s # q => ps[s] = procs[s])
    BY <1>2 DEF ps, Left
  <2>2. CASE s = q
    BY <1>4, <2>1, <2>2
  <2>3. CASE s # q
    BY <2>1, <2>3
  <2> QED BY <2>2, <2>3
<1> QED BY <1>1, <1>5, <1>9, <1>10, <1>11 DEF Quiet, QuietLeave

\* What fork leaves behind.
ForkTable(q) ==
  [procs EXCEPT ![q] = NewProc(q, current, <<q, 0>>, procs[current].handled)]

ForkStacks(q) == [kstack EXCEPT ![q] = Fresh(regs.rip, regs.rsp, Zero)]

\* fork: a new slot, with its own stack and root.
LEMMA ForkLeft ==
  ASSUME CtxInv, NEW t, NEW q \in Procs, SysFork(t, q)
  PROVE  /\ Left(ForkTable(q), ForkStacks(q), ustack')
         /\ q # current /\ procs[q].state = "None"
         /\ ForkTable(q)[q].state = "Ready" /\ ForkTable(q)[q].pml4 = <<q, 0>>
         /\ ForkTable(q)[q].in_signal = FALSE
         /\ ForkStacks(q)[q] = Fresh(regs.rip, regs.rsp, Zero)
         /\ \A s \in Procs \ {q} : ForkTable(q)[s] = procs[s] /\ ForkStacks(q)[s] = kstack[s]
<1> DEFINE p == NewProc(q, current, <<q, 0>>, procs[current].handled)
           ps == ForkTable(q)
           ks == ForkStacks(q)
<1>1. AtCall(t, "fork") /\ procs[q].state = "None" /\ ustack' = ustack
  BY DEF SysFork
<1>2. InCall /\ Left(procs, kstack, ustack)
  BY <1>1, CallState
<1>3. q # current /\ q # IdleSlot /\ q \in Stacks
  BY <1>1, <1>2 DEF InCall, Stacks
<1>4. /\ ps = [s \in Procs |-> ps[s]] /\ ks = [k \in Stacks |-> ks[k]]
      /\ ps[q] = p /\ ks[q] = Fresh(regs.rip, regs.rsp, Zero)
      /\ \A s \in Procs \ {q} : ps[s] = procs[s] /\ ks[s] = kstack[s]
  BY Zenon, <1>2, <1>3 DEF Left, Stacks, ForkTable, ForkStacks
<1>5. /\ SlotOK(p, q) /\ SavedOK(p, ustack) /\ p.state = "Ready"
      /\ p.pml4 = <<q, 0>> /\ p.in_signal = FALSE
  BY DEF NewProc, SlotOK, SavedOK, IsProc
<1>6. FrameOK(p, q, ks[q])
  <2>1. UserContext(ks[q])
    BY <1>2, <1>4 DEF InCall, UserContext, IsRegs, Fresh, DefaultFlags
  <2> QED BY <1>3, <1>5, <2>1 DEF FrameOK
<1> HIDE DEF p
<1>7. ps[IdleSlot] = procs[IdleSlot] /\ ps[current] = procs[current]
  BY <1>2, <1>3, <1>4, Slots DEF InCall
<1>8. Left(ps, ks, ustack')
  BY Zenon, <1>1, <1>2, <1>4, <1>5, <1>6, <1>7 DEF Left
<1> QED BY <1>1, <1>3, <1>4, <1>5, <1>8

\* It keeps the invariant.
LEMMA ForkInv ==
  ASSUME CtxInv, NEW t, NEW q \in Procs, SysFork(t, q)
  PROVE  CtxInv'
<1> DEFINE ps == ForkTable(q)
           ks == ForkStacks(q)
<1>1. /\ AtCall(t, "fork") /\ Leave(ps, ks, regs, Result(t), should_schedule)
      /\ UNCHANGED <<current, rsp0, syscall_kstack, cr3>>
  BY DEF SysFork, ForkTable, ForkStacks
<1>2. InCall
  BY <1>1, CallState
<1>3. Left(ps, ks, ustack') /\ ps[current] = procs[current]
  BY Zenon, <1>2, ForkLeft DEF InCall
<1> HIDE DEF ps, ks
<1> QED BY <1>1, <1>2, <1>3, LeaveInv DEF InCall, UserContext

\* What exec leaves behind.
OtherRoot == <<current, 1 - procs[current].pml4[2]>>

ExecTable ==
  [procs EXCEPT ![current].pml4 = OtherRoot, ![current].pending = FALSE,
                ![current].handled = FALSE, ![current].in_signal = FALSE]

\* exec: a new root, of the same process, and no signal frame in it.
LEMMA ExecLeft ==
  ASSUME CtxInv, NEW t, SysExec(t)
  PROVE  /\ Left(ExecTable, kstack, ustack')
         /\ OtherRoot # procs[current].pml4 /\ OtherRoot[1] = current
         /\ ExecTable[current].state = "Running" /\ ExecTable[current].pml4 = OtherRoot
         /\ ExecTable[current].in_signal = FALSE
         /\ \A s \in Procs \ {current} : ExecTable[s] = procs[s]
         /\ \A r \in Roots : r[1] # current => ustack'[r] = ustack[r]
<1> DEFINE old == procs[current].pml4
           new == OtherRoot
           ps == ExecTable
<1>1. /\ AtCall(t, "exec") /\ current' = current
      /\ ustack' = [ustack EXCEPT ![old] = <<>>, ![new] = <<>>]
  BY DEF SysExec, OtherRoot
<1>2. InCall /\ Left(procs, kstack, ustack)
  BY <1>1, CallState
<1>3. IsProc(procs[current]) /\ procs[current].kernel_rsp = current /\ old \in {<<current, 0>>, <<current, 1>>}
  BY <1>2 DEF Left, InCall, SlotOK
<1>4. new \in {<<current, 0>>, <<current, 1>>} /\ old # new
  BY <1>3 DEF OtherRoot
<1>5. /\ IsProc(ps[current]) /\ ps[current].state = "Running" /\ ps[current].pml4 = new
      /\ ps[current].kernel_rsp = current /\ ps[current].in_signal = FALSE
  <2> DEFINE a == [procs[current] EXCEPT !.pml4 = new]
             b == [a EXCEPT !.pending = FALSE]
             c == [b EXCEPT !.handled = FALSE]
             d == [c EXCEPT !.in_signal = FALSE]
  <2>1. ps[current] = d
    BY <1>2 DEF InCall, Left, ExecTable
  <2>2. IsProc(a) /\ a.pml4 = new /\ a.state = "Running" /\ a.kernel_rsp = current
    BY <1>2, <1>3, PutPml4 DEF InCall
  <2> HIDE DEF a
  <2>3. IsProc(b) /\ b.pml4 = new /\ b.state = "Running" /\ b.kernel_rsp = current
    BY <2>2, PutPending
  <2> HIDE DEF b
  <2>4. IsProc(c) /\ c.pml4 = new /\ c.state = "Running" /\ c.kernel_rsp = current
    BY <2>3, PutHandled
  <2> HIDE DEF c
  <2>5. /\ IsProc(d) /\ d.pml4 = new /\ d.state = "Running" /\ d.kernel_rsp = current
        /\ d.in_signal = FALSE
    BY <2>4, PutInSignal
  <2> QED BY <2>1, <2>5
<1>6. ps = [s \in Procs |-> ps[s]] /\ \A s \in Procs \ {current} : ps[s] = procs[s]
  BY Zenon, <1>2 DEF Left, ExecTable
<1>7. /\ ustack' = [r \in Roots |-> ustack'[r]]
      /\ \A r \in Roots : r[1] # current => ustack'[r] = ustack[r]
  <2>1. ustack = [r \in Roots |-> ustack[r]]
    BY <1>2 DEF Left
  <2>2. old[1] = current /\ new[1] = current
    BY SMTT(30), <1>3, <1>4
  <2>3. \A r \in Roots : r[1] # current => r # old /\ r # new
    BY <2>2
  <2> QED BY Zenon, <1>1, <2>1, <2>3
<1>8. SlotOK(ps[current], current) /\ SavedOK(ps[current], ustack')
  BY <1>4, <1>5 DEF SlotOK, SavedOK
<1>9. ASSUME NEW s \in Procs \ {current}
      PROVE  SlotOK(ps[s], s) /\ SavedOK(ps[s], ustack')
  <2>1. SlotOK(procs[s], s) /\ SavedOK(procs[s], ustack)
    BY <1>2 DEF Left
  <2>2. procs[s].state # "None" => procs[s].pml4 \in Roots /\ procs[s].pml4[1] # current
    BY <2>1, <1>9 DEF SlotOK, Roots
  <2> QED BY <2>1, <2>2, <1>6, <1>7 DEF SavedOK
<1>10. ps[IdleSlot] = procs[IdleSlot]
  BY <1>2, <1>6, Slots DEF InCall
<1>11. Left(ps, kstack, ustack')
  BY Zenon, <1>2, <1>5, <1>6, <1>7, <1>8, <1>9, <1>10 DEF Left
<1> QED BY <1>4, <1>5, <1>6, <1>7, <1>11

\* It keeps the invariant.
LEMMA ExecInv ==
  ASSUME CtxInv, NEW t, SysExec(t)
  PROVE  CtxInv'
<1> DEFINE entry == [rip |-> Entry, rsp |-> TopOfStack, rflags |-> DefaultFlags]
<1>1. /\ AtCall(t, "exec") /\ cr3' = OtherRoot
      /\ UNCHANGED <<current, rsp0, syscall_kstack>>
      /\ Leave(ExecTable, kstack, entry, Zero, should_schedule)
  BY DEF SysExec, ExecTable, OtherRoot
<1>2. InCall
  BY <1>1, CallState
<1>3. entry.rip[1] # "boot" /\ entry.rflags # <<"cli">>
  BY DEF Entry, DefaultFlags
<1> HIDE DEF entry
<1>4. /\ Left(ExecTable, kstack, ustack') /\ ExecTable[current].state = "Running"
      /\ ExecTable[current].pml4 = OtherRoot
  BY Zenon, ExecLeft
<1> QED BY <1>1, <1>2, <1>3, <1>4, LeaveInv

\* waitpid for a zombie: the slot is empty, and nobody refers to it.
LEMMA WaitReapQuiet ==
  ASSUME CtxInv, NEW t, NEW q \in Procs, SysWaitReap(t, q)
  PROVE  Quiet(t, Result(t))
<1> DEFINE other(s) == [procs[s] EXCEPT !.wait_for = IF @ = q THEN 0 ELSE @,
                                        !.parent = IF @ = q THEN 0 ELSE @]
           ps == [s \in Procs |-> IF s = q THEN NoProc ELSE other(s)]
           ks == [kstack EXCEPT ![q] = NoFrame]
<1>1. /\ AtCall(t, "waitpid") /\ procs[q].state = "Zombie"
      /\ ustack' = [r \in Roots |-> IF r[1] = q THEN <<>> ELSE ustack[r]]
      /\ UNCHANGED <<current, rsp0, syscall_kstack, cr3>>
      /\ Leave(ps, ks, regs, Result(t), should_schedule)
  BY Zenon DEF SysWaitReap
<1>2. InCall /\ Left(procs, kstack, ustack)
  BY Zenon, <1>1, CallState
<1>3. q # current /\ q # IdleSlot
  BY Zenon, <1>1, <1>2 DEF InCall
<1>4. ASSUME NEW s \in Procs
      PROVE  /\ IsProc(other(s)) /\ other(s).state = procs[s].state
             /\ other(s).pml4 = procs[s].pml4 /\ other(s).kernel_rsp = procs[s].kernel_rsp
             /\ other(s).in_signal = procs[s].in_signal
  <2> DEFINE w == IF procs[s].wait_for = q THEN 0 ELSE procs[s].wait_for
             a == [procs[s] EXCEPT !.wait_for = w]
             x == IF a.parent = q THEN 0 ELSE a.parent
             b == [a EXCEPT !.parent = x]
  <2>1. other(s) = b
    OBVIOUS
  <2>2. IsProc(procs[s])
    BY <1>2 DEF Left, SlotOK
  <2> HIDE DEF w, x
  <2>3. /\ IsProc(a) /\ a.state = procs[s].state
        /\ a.pml4 = procs[s].pml4 /\ a.kernel_rsp = procs[s].kernel_rsp
        /\ a.in_signal = procs[s].in_signal
    BY <2>2, PutWaitFor
  <2> HIDE DEF a
  <2>4. /\ IsProc(b) /\ b.state = a.state /\ b.pml4 = a.pml4
        /\ b.kernel_rsp = a.kernel_rsp /\ b.in_signal = a.in_signal
    BY <2>3, PutParent
  <2> QED BY <2>1, <2>3, <2>4
<1>5. /\ ps = [s \in Procs |-> ps[s]] /\ ps[q] = NoProc
      /\ \A s \in Procs \ {q} : ps[s] = other(s)
  OBVIOUS
<1>6. ks = [k \in Stacks |-> ks[k]] /\ \A s \in Procs \ {q} : ks[s] = kstack[s]
  BY Zenon, <1>2 DEF Left, Stacks
<1>7. /\ SlotOK(NoProc, q) /\ SavedOK(NoProc, ustack') /\ FrameOK(NoProc, q, ks[q])
      /\ NoProc.state = "None"
  BY Empty DEF SlotOK, SavedOK, FrameOK
<1> HIDE DEF ps, ks, other
<1>8. ASSUME NEW s \in Procs \ {q}
      PROVE  /\ SlotOK(ps[s], s) /\ SavedOK(ps[s], ustack')
             /\ s # current => FrameOK(ps[s], s, ks[s]) /\ ps[s].state # "Running"
  <2>1. /\ SlotOK(procs[s], s) /\ SavedOK(procs[s], ustack)
        /\ s # current => FrameOK(procs[s], s, kstack[s]) /\ procs[s].state # "Running"
    BY <1>2 DEF Left
  <2>2. /\ IsProc(ps[s]) /\ ps[s].state = procs[s].state /\ ps[s].pml4 = procs[s].pml4
        /\ ps[s].kernel_rsp = procs[s].kernel_rsp /\ ps[s].in_signal = procs[s].in_signal
    BY <1>4, <1>5
  <2>3. SlotOK(ps[s], s)
    BY <2>1, <2>2 DEF SlotOK
  <2>4. procs[s].state # "None" => procs[s].pml4 \in Roots /\ procs[s].pml4[1] = s
    BY SMTT(30), <2>1 DEF SlotOK, Roots
  <2>5. SavedOK(ps[s], ustack')
    BY Zenon, <1>1, <2>1, <2>2, <2>4 DEF SavedOK
  <2>6. s # current => FrameOK(ps[s], s, ks[s]) /\ ps[s].state # "Running"
    BY <1>6, <2>1, <2>2 DEF FrameOK
  <2> QED BY <2>3, <2>5, <2>6
<1>9. /\ ps[IdleSlot].state = "Ready" /\ ps[current].state = "Running"
      /\ ps[current].pml4 = procs[current].pml4
  BY <1>2, <1>3, <1>4, <1>5, Slots DEF InCall
<1>10. ustack' = [r \in Roots |-> ustack'[r]]
  BY <1>1
<1>11. Left(ps, ks, ustack')
  BY SMTT(30), <1>5, <1>6, <1>7, <1>8, <1>9, <1>10 DEF Left
<1>12. ASSUME NEW s \in Procs
       PROVE  /\ ps[s].state \in {"None", "Zombie"} <=> procs[s].state \in {"None", "Zombie"}
              /\ procs[s].state \notin {"None", "Zombie"} =>
                   /\ ps[s].pml4 = procs[s].pml4 /\ ps[s].in_signal = procs[s].in_signal
                   /\ ks[s] = kstack[s] /\ ustack'[procs[s].pml4] = ustack[procs[s].pml4]
  <2>1. CASE s = q
    BY <1>1, <1>5, <1>7, <2>1
  <2>2. CASE s # q
    <3>1. SlotOK(procs[s], s)
      BY <1>2 DEF Left
    <3>2. procs[s].state # "None" => procs[s].pml4 \in Roots /\ procs[s].pml4[1] = s
      BY <3>1 DEF SlotOK, Roots
    <3> QED BY Zenon, <1>1, <1>4, <1>5, <1>6, <2>2, <3>2
  <2> QED BY <2>1, <2>2
<1> QED BY SMTT(30), <1>1, <1>9, <1>11, <1>12 DEF Quiet, QuietLeave

\* sigreturn: the frame that the scheduler pops is the one delivery has saved.
LEMMA SigreturnInv ==
  ASSUME CtxInv, NEW t, SysSigreturn(t)
  PROVE  CtxInv'
<1>1. AtCall(t, "sigreturn") /\ UNCHANGED <<current, rsp0, syscall_kstack, cr3>>
  BY DEF SysSigreturn
<1>2. InCall /\ Left(procs, kstack, ustack)
  BY <1>1, CallState
<1>3. CASE procs[current].in_signal
  <2> DEFINE buf == ustack[cr3]
             fr == Restored(SigreturnFrame(buf))
             ps == [procs EXCEPT ![current].in_signal = FALSE,
                                 ![current].pending = buf[8][2]]
  <2>1. SwitchExit(ps, kstack, fr) /\ ustack' = [ustack EXCEPT ![cr3] = <<>>]
    BY <1>3 DEF SysSigreturn
  <2>2. /\ SlotOK(procs[current], current) /\ SavedOK(procs[current], ustack)
        /\ procs[current].state = "Running" /\ cr3 = procs[current].pml4
    BY <1>2 DEF InCall, Left
  <2>3. buf[4] # <<"cli">> /\ buf[6][1] # "boot"
    BY <1>3, <2>2 DEF SavedOK
  <2>4. UserContext(fr)
    BY Zenon, <2>3 DEF UserContext, IsRegs, Restored, SigreturnFrame
  <2>5. /\ IsProc(ps[current]) /\ ps[current].state = "Running"
        /\ ps[current].pml4 = procs[current].pml4
        /\ ps[current].kernel_rsp = procs[current].kernel_rsp
        /\ ps[current].in_signal = FALSE
    <3> DEFINE a == [procs[current] EXCEPT !.in_signal = FALSE]
               b == [a EXCEPT !.pending = buf[8][2]]
    <3>1. ps[current] = b
      BY <1>2 DEF InCall, Left
    <3>2. /\ IsProc(a) /\ a.pml4 = procs[current].pml4 /\ a.state = "Running"
          /\ a.kernel_rsp = procs[current].kernel_rsp /\ a.in_signal = FALSE
      BY <2>2, PutInSignal DEF SlotOK
    <3> HIDE DEF a
    <3>3. /\ IsProc(b) /\ b.pml4 = a.pml4 /\ b.state = a.state
          /\ b.kernel_rsp = a.kernel_rsp /\ b.in_signal = a.in_signal
      BY SMTT(30), <3>2, PutPending
    <3> QED BY Zenon, <3>1, <3>2, <3>3
  <2>6. ps = [s \in Procs |-> ps[s]] /\ \A s \in Procs \ {current} : ps[s] = procs[s]
    BY Zenon, <1>2 DEF Left
  <2> HIDE DEF ps, fr
  <2>7. SlotOK(ps[current], current) /\ SavedOK(ps[current], ustack')
    BY Zenon, <2>2, <2>5 DEF SlotOK, SavedOK
  <2>8. ASSUME NEW s \in Procs \ {current}
        PROVE  SlotOK(ps[s], s) /\ SavedOK(ps[s], ustack')
    <3>1. SlotOK(procs[s], s) /\ SavedOK(procs[s], ustack)
      BY <1>2 DEF Left
    <3>2. procs[s].state # "None" => procs[s].pml4 \in Roots /\ procs[s].pml4 # cr3
      BY <3>1, <2>2, <2>8 DEF SlotOK, Roots
    <3> QED BY <1>2, <2>1, <2>6, <3>1, <3>2 DEF SavedOK, Left
  <2>9. ustack' = [r \in Roots |-> ustack'[r]] /\ ps[IdleSlot] = procs[IdleSlot]
    BY Zenon, <1>2, <2>1, <2>6, Slots DEF Left, InCall
  <2>10. Left(ps, kstack, ustack')
    BY <1>2, <2>5, <2>6, <2>7, <2>8, <2>9 DEF Left
  <2> QED BY Zenon, <1>1, <1>2, <2>1, <2>4, <2>5, <2>10, SwitchExitInv
<1>4. CASE ~procs[current].in_signal
  <2>1. Leave(procs, kstack, regs, Result(t), should_schedule) /\ ustack' = ustack
    BY <1>4 DEF SysSigreturn
  <2>2. Quiet(t, Result(t))
    BY <1>1, <2>1, SameQuiet
  <2> QED BY <1>1, <2>2, QuietInv
<1> QED BY <1>3, <1>4

\* The signal check drops the call, or ends the caller.
LEMMA Stopped ==
  ASSUME CtxInv, NEW t, SysStopped(t)
  PROVE  /\ \E call : AtCall(t, call)
         /\ \/ Quiet(t, Zero)
            \/ /\ Leave(MarkZombie(current), ZeroResult(current), regs, Zero, TRUE)
               /\ UNCHANGED <<current, rsp0, syscall_kstack, cr3, ustack>>
<1>1. PICK call \in Calls[t] : AtCall(t, call)
  BY DEF SysStopped
<1>2. UNCHANGED <<current, rsp0, syscall_kstack, cr3, ustack>>
  BY DEF SysStopped
<1>3. CASE procs[current].handled
  <2>1. Leave(procs, kstack, regs, Zero, TRUE)
    BY Zenon, <1>3 DEF SysStopped
  <2> QED BY Zenon, <1>1, <1>2, <2>1, SameQuiet
<1>4. CASE ~procs[current].handled
  BY Zenon, <1>1, <1>2, <1>4 DEF SysStopped
<1> QED BY Zenon, <1>3, <1>4

\* The calls that return and that no other process could see.
LEMMA QuietCalls ==
  ASSUME CtxInv, NEW t, NEW q \in Procs,
         \/ SysPlain(t) \/ SysSigaction(t) \/ SysReadBlock(t)
         \/ SysKill(t, q) \/ SysWaitBlock(t, q) \/ SysWaitReap(t, q)
  PROVE  (Quiet(t, Zero) \/ Quiet(t, Result(t))) /\ \E call : AtCall(t, call)
<1>1. Quiet(t, Zero) \/ Quiet(t, Result(t))
  BY PlainQuiet, SigactionQuiet, ReadBlockQuiet, KillQuiet, WaitBlockQuiet, WaitReapQuiet
<1>2. \E call : AtCall(t, call)
  BY Zenon DEF SysPlain, SysSigaction, SysReadBlock, SysKill, SysWaitBlock, SysWaitReap
<1> QED BY <1>1, <1>2

\* A system call keeps the invariant.
LEMMA SyscallInv ==
  ASSUME CtxInv, NEW t, Syscall(t)
  PROVE  CtxInv'
<1>1. ASSUME NEW q \in Procs,
             \/ SysPlain(t) \/ SysSigaction(t) \/ SysReadBlock(t)
             \/ SysKill(t, q) \/ SysWaitBlock(t, q) \/ SysWaitReap(t, q)
      PROVE  CtxInv'
  BY <1>1, QuietCalls, QuietInv
<1>2. ASSUME SysStopped(t) PROVE CtxInv'
  BY Zenon, <1>2, Stopped, QuietInv, EndInv
<1>3. InitSlot \in Procs
  BY Slots
<1> QED BY <1>1, <1>2, <1>3, ExitInv, ExecInv, SigreturnInv, ForkInv DEF Syscall

-----------------------------------------------------------------------------
(* User code, interrupts and the selection of the next process *)

\* An instruction of the program.
LEMMA UserStepInv ==
  ASSUME CtxInv, NEW t, UserStep(t)
  PROVE  CtxInv'
<1> DEFINE room == IF procs[current].in_signal \/ t \in Tight THEN 0 ELSE 1
<1>1. /\ mode = "run" /\ regs.cs = "user" /\ regs' = At(t, room)
      /\ UNCHANGED <<mode, kstack, procs, current, rsp0, syscall_kstack, cr3, ustack>>
  BY DEF UserStep
<1> HIDE DEF room
<1>2. ~InBoot /\ RunOK
  BY <1>1 DEF CtxInv, BootOK
<1>3. current # IdleSlot
  BY <1>1, <1>2 DEF RunOK, Idle, Fresh
<1>4. UserContext(regs')
  BY <1>1 DEF At, UserContext, IsRegs
<1>5. RunOK'
  BY <1>1, <1>2, <1>3, <1>4 DEF RunOK
<1>6. TableOK(procs, kstack, ustack)' /\ ~InBoot' /\ mode' = "run"
  BY <1>1, <1>4 DEF CtxInv, InBoot, UserContext, TableOK
<1> QED BY <1>5, <1>6 DEF CtxInv

\* An interrupt of a process, idle included.
LEMMA IrqRunInv ==
  ASSUME CtxInv, ~InBoot, NEW input, Irq(input)
  PROVE  CtxInv'
<1> DEFINE c == current
           woken(s) == [procs[s] EXCEPT !.state = "Ready", !.pending = @ \/ input = "ctrlc"]
<1>1. /\ RunOK /\ mode = "run" /\ c \in Procs /\ c # 0
      /\ TableOK(procs, kstack, ustack)
  BY Zenon, Slots DEF Irq, CtxInv, RunOK
<1>2. IrqStack = c /\ c \in Stacks
  BY <1>1 DEF IrqStack, RunOK, UserContext, Idle, Fresh, IdleSlot, Stacks
<1>3. /\ mode' = "select" /\ kstack' = [kstack EXCEPT ![c] = regs]
      /\ procs' = [s \in Procs |->
           IF s = c THEN [procs[s] EXCEPT !.kernel_rsp = c, !.state = "Ready"]
           ELSE IF Woken(input, s) THEN woken(s) ELSE procs[s]]
      /\ UNCHANGED <<regs, current, ustack>>
  BY Zenon, <1>1, <1>2 DEF Irq
<1>4. \A s \in Procs : SlotOK(procs[s], s) /\ FrameOK(procs[s], s, kstack[s]) /\ SavedOK(procs[s], ustack)
  BY <1>1 DEF TableOK
<1>5. procs[c].state = "Running" /\ \A s \in Procs \ {c} : procs[s].state # "Running"
  BY <1>1 DEF RunOK
<1>6. /\ SlotOK(procs'[c], c) /\ FrameOK(procs'[c], c, kstack'[c])
      /\ SavedOK(procs'[c], ustack') /\ procs'[c].state = "Ready"
  <2> DEFINE a == [procs[c] EXCEPT !.kernel_rsp = c]
             b == [a EXCEPT !.state = "Ready"]
  <2>1. procs'[c] = b
    BY Zenon, <1>1, <1>3
  <2>2. /\ IsProc(a) /\ a.state = "Running" /\ a.kernel_rsp = c
        /\ a.pml4 = procs[c].pml4 /\ a.in_signal = procs[c].in_signal
    <3>1. IsProc(procs[c])
      BY <1>1, <1>4 DEF SlotOK
    <3> QED BY <3>1, <1>5 DEF IsProc
  <2> HIDE DEF a
  <2>3. /\ IsProc(b) /\ b.state = "Ready" /\ b.kernel_rsp = c
        /\ b.pml4 = procs[c].pml4 /\ b.in_signal = procs[c].in_signal
    BY <2>2, PutState
  <2>4. kstack'[c] = regs /\ (IF c = IdleSlot THEN regs = Idle ELSE UserContext(regs))
    BY Zenon, <1>1, <1>2, <1>3 DEF TableOK, RunOK
  <2> HIDE DEF b
  <2>5. SlotOK(b, c) /\ FrameOK(b, c, kstack'[c])
    BY <1>1, <1>4, <1>5, <2>3, <2>4 DEF SlotOK, FrameOK
  <2>6. SavedOK(b, ustack')
    BY Zenon, <1>1, <1>3, <1>4, <1>5, <2>3 DEF SavedOK
  <2> QED BY <2>1, <2>3, <2>5, <2>6
<1>7. ASSUME NEW s \in Procs \ {c}
      PROVE  /\ SlotOK(procs'[s], s) /\ FrameOK(procs'[s], s, kstack'[s])
             /\ SavedOK(procs'[s], ustack') /\ procs'[s].state # "Running"
             /\ procs[s].state = "Ready" => procs'[s].state = "Ready"
  <2>1. kstack'[s] = kstack[s] /\ procs[s].state # "Running"
    BY Zenon, <1>1, <1>3, <1>5 DEF TableOK, Stacks
  <2>2. CASE Woken(input, s)
    <3>1. procs'[s] = woken(s) /\ procs[s].state = "Blocked"
      BY Zenon, <1>3, <2>2 DEF Woken
    <3> DEFINE a == [procs[s] EXCEPT !.state = "Ready"]
    <3>2. /\ IsProc(a) /\ a.state = "Ready" /\ a.kernel_rsp = procs[s].kernel_rsp
          /\ a.pml4 = procs[s].pml4 /\ a.in_signal = procs[s].in_signal
      BY <1>4, PutState DEF SlotOK
    <3>3. PICK x : woken(s) = [a EXCEPT !.pending = x]
      BY Zenon
    <3> HIDE DEF a, woken
    <3>4. /\ IsProc(woken(s)) /\ woken(s).state = "Ready"
          /\ woken(s).kernel_rsp = procs[s].kernel_rsp
          /\ woken(s).pml4 = procs[s].pml4 /\ woken(s).in_signal = procs[s].in_signal
      BY SMTT(30), <3>2, <3>3, PutPending
    <3>5. SlotOK(woken(s), s) /\ FrameOK(woken(s), s, kstack[s]) /\ SavedOK(woken(s), ustack)
      BY SMTT(30), <1>4, <3>1, <3>4 DEF SlotOK, FrameOK, SavedOK
    <3> QED BY Zenon, <1>3, <2>1, <3>1, <3>4, <3>5
  <2>3. CASE ~Woken(input, s)
    BY Zenon, <1>3, <1>4, <2>1, <2>3
  <2> QED BY <2>2, <2>3
<1>8. TableOK(procs, kstack, ustack)'
  BY Zenon, <1>1, <1>3, <1>6, <1>7 DEF TableOK
<1>9. RunOK'
  <2>1. procs'[IdleSlot].state = "Ready"
    BY Zenon, <1>1, <1>5, <1>6, <1>7, Slots DEF RunOK
  <2> QED BY Zenon, <1>1, <1>3, <1>6, <1>7, <2>1 DEF RunOK
<1> QED BY Zenon, <1>3, <1>8, <1>9 DEF CtxInv, InBoot

\* What sched_next gives: a process whose frame is on its own stack.
LEMMA Selected ==
  ASSUME CtxInv, mode = "select", NEW n \in Procs, SchedNext(n)
  PROVE  /\ ~InBoot /\ RunOK /\ \A s \in Procs : procs[s].state # "Running"
         /\ procs[IdleSlot].state = "Ready"
         /\ procs[n].state = "Ready" /\ IsProc(procs[n]) /\ procs[n].kernel_rsp = n
         /\ procs[n].pml4 \in {<<n, 0>>, <<n, 1>>}
         /\ Frame(n) = kstack[n] /\ Popped(n, kstack) = [kstack EXCEPT ![n] = NoFrame]
         /\ IF n = IdleSlot THEN Frame(n) = Idle ELSE UserContext(Frame(n))
<1>1. ~InBoot /\ RunOK
  BY DEF CtxInv, BootOK
<1>2. /\ procs[n].state = "Ready" /\ SlotOK(procs[n], n)
      /\ FrameOK(procs[n], n, kstack[n])
  BY DEF SchedNext, CtxInv, TableOK
<1>3. IsProc(procs[n]) /\ procs[n].kernel_rsp = n /\ procs[n].pml4 \in {<<n, 0>>, <<n, 1>>}
  BY <1>2 DEF SlotOK
<1>4. n # Boot
  BY Slots DEF Boot
<1>5. Frame(n) = kstack[n] /\ Popped(n, kstack) = [kstack EXCEPT ![n] = NoFrame]
  BY <1>3, <1>4 DEF Frame, Popped
<1>6. IF n = IdleSlot THEN kstack[n] = Idle ELSE UserContext(kstack[n])
  BY <1>2 DEF FrameOK
<1>7. procs[IdleSlot].state = "Ready" /\ \A s \in Procs : procs[s].state # "Running"
  BY <1>1, Slots DEF RunOK
<1> QED BY SMTT(30), <1>1, <1>2, <1>3, <1>5, <1>6, <1>7

\* It takes over the CPU, with p in its slot, and its frame is popped.
LEMMA ResumeInv ==
  ASSUME CtxInv, mode = "select", NEW n \in Procs, SchedNext(n), TakeOver(n), NEW STATE p,
         IsProc(p), p.state = "Running", p.kernel_rsp = n, p.pml4 = procs[n].pml4,
         SavedOK(p, ustack'), ustack' = [r \in Roots |-> ustack'[r]],
         \A r \in Roots : r # procs[n].pml4 => ustack'[r] = ustack[r],
         procs' = [procs EXCEPT ![n] = p],
         kstack' = Popped(n, kstack), mode' = "run",
         IF n = IdleSlot THEN regs' = Idle ELSE UserContext(regs')
  PROVE  CtxInv'
<1>1. /\ RunOK /\ \A s \in Procs : procs[s].state # "Running"
      /\ procs[IdleSlot].state = "Ready"
      /\ kstack' = [kstack EXCEPT ![n] = NoFrame]
      /\ procs[n].pml4 \in {<<n, 0>>, <<n, 1>>}
  BY Selected
<1>2. TableOK(procs, kstack, ustack)
  BY DEF CtxInv
<1>3. /\ procs' = [s \in Procs |-> procs'[s]] /\ kstack' = [k \in Stacks |-> kstack'[k]]
      /\ procs'[n] = p
      /\ \A s \in Procs \ {n} : procs'[s] = procs[s] /\ kstack'[s] = kstack[s]
  BY Zenon, <1>1, <1>2 DEF TableOK, Stacks
<1>4. SlotOK(p, n) /\ FrameOK(p, n, kstack'[n])
  BY <1>1 DEF SlotOK, FrameOK
<1>5. ASSUME NEW s \in Procs \ {n}
      PROVE  SlotOK(procs'[s], s) /\ FrameOK(procs'[s], s, kstack'[s]) /\ SavedOK(procs'[s], ustack')
  <2>1. SlotOK(procs[s], s) /\ FrameOK(procs[s], s, kstack[s]) /\ SavedOK(procs[s], ustack)
    BY <1>2 DEF TableOK
  <2>2. procs[s].state # "None" => procs[s].pml4 \in Roots /\ procs[s].pml4 # procs[n].pml4
    BY SMTT(30), <1>1, <2>1, <1>5 DEF SlotOK, Roots
  <2>3. SavedOK(procs[s], ustack')
    BY <2>1, <2>2 DEF SavedOK
  <2> QED BY <1>3, <2>1, <2>3
<1>6. TableOK(procs, kstack, ustack)'
  BY <1>3, <1>4, <1>5 DEF TableOK
<1>7. RunOK'
  <2>1. current' = n /\ rsp0' = n /\ syscall_kstack' = n /\ cr3' = procs'[n].pml4
    BY <1>3 DEF TakeOver
  <2>2. procs'[IdleSlot].state \in {"Ready", "Running"}
    BY <1>1, <1>3, Slots
  <2>3. \A s \in Procs : procs'[s].state = "Running" <=> s = n
    BY <1>1, <1>3
  <2> QED BY <2>1, <2>2, <2>3 DEF RunOK
<1>8. ~InBoot'
  BY DEF InBoot, UserContext, Idle, Fresh
<1> QED BY <1>6, <1>7, <1>8 DEF CtxInv

\* The selected process runs on.
LEMMA SelectRunInv ==
  ASSUME CtxInv, NEW n \in Procs, SelectRun(n)
  PROVE  CtxInv'
<1> DEFINE p == [procs[n] EXCEPT !.state = "Running"]
<1>1. /\ mode = "select" /\ SchedNext(n) /\ TakeOver(n) /\ mode' = "run"
      /\ kstack' = Popped(n, kstack) /\ regs' = Frame(n) /\ ustack' = ustack
      /\ procs' = [procs EXCEPT ![n] = p]
  BY DEF SelectRun
<1>2. /\ procs[n].state = "Ready" /\ IsProc(procs[n]) /\ procs[n].kernel_rsp = n
      /\ IF n = IdleSlot THEN regs' = Idle ELSE UserContext(regs')
  BY <1>1, Selected
<1>3. /\ IsProc(p) /\ p.state = "Running" /\ p.kernel_rsp = n
      /\ p.pml4 = procs[n].pml4 /\ p.in_signal = procs[n].in_signal
  BY <1>2, PutState
<1>4. SavedOK(procs[n], ustack) /\ ustack = [r \in Roots |-> ustack[r]]
  BY SMTT(30) DEF CtxInv, TableOK
<1> HIDE DEF p
<1>5. SavedOK(p, ustack')
  BY <1>1, <1>2, <1>3, <1>4 DEF SavedOK
<1> QED BY Zenon, <1>1, <1>2, <1>3, <1>4, <1>5, ResumeInv

\* It enters a handler: the frame that it will return to is on its user stack.
LEMMA SelectHandlerInv ==
  ASSUME CtxInv, NEW n \in Procs, SelectHandler(n)
  PROVE  CtxInv'
<1> DEFINE p == [procs[n] EXCEPT !.state = "Running", !.pending = FALSE, !.in_signal = TRUE]
           fr == Frame(n)
<1>1. /\ mode = "select" /\ SchedNext(n) /\ TakeOver(n) /\ mode' = "run" /\ Delivers(n)
      /\ kstack' = Popped(n, kstack) /\ regs' = InHandler(fr)
      /\ ustack' = [ustack EXCEPT ![procs[n].pml4] = SigFrame(fr)]
      /\ procs' = [procs EXCEPT ![n].state = "Running", ![n].pending = FALSE,
                                ![n].in_signal = TRUE]
  BY DEF SelectHandler, TakeOver
<1>2. /\ procs[n].state = "Ready" /\ IsProc(procs[n]) /\ procs[n].kernel_rsp = n
      /\ procs[n].pml4 \in {<<n, 0>>, <<n, 1>>}
      /\ n # IdleSlot /\ UserContext(fr)
  BY <1>1, Selected DEF Delivers
<1>3. TableOK(procs, kstack, ustack)
  BY DEF CtxInv
<1>4. procs' = [procs EXCEPT ![n] = p]
  <2>1. procs = [s \in Procs |-> procs[s]]
    BY <1>3 DEF TableOK
  <2> DEFINE g == [procs EXCEPT ![n] = p]
  <2>2. procs' = [s \in Procs |-> procs'[s]] /\ g = [s \in Procs |-> g[s]]
    BY Zenon, <1>1, <2>1
  <2>3. procs'[n] = p /\ g[n] = p
    BY <1>1, <2>1
  <2>4. \A s \in Procs \ {n} : procs'[s] = procs[s] /\ g[s] = procs[s]
    BY <1>1, <2>1
  <2> HIDE DEF g, p
  <2>5. procs' = g
    BY <2>2, <2>3, <2>4
  <2> QED BY <2>5 DEF g
<1>5. /\ IsProc(p) /\ p.state = "Running" /\ p.kernel_rsp = n /\ p.pml4 = procs[n].pml4
      /\ p.in_signal = TRUE
  <2> DEFINE a == [procs[n] EXCEPT !.state = "Running"]
             b == [a EXCEPT !.pending = FALSE]
             c == [b EXCEPT !.in_signal = TRUE]
  <2>1. p = c
    OBVIOUS
  <2>2. IsProc(a) /\ a.state = "Running" /\ a.kernel_rsp = n /\ a.pml4 = procs[n].pml4
    BY <1>2, PutState
  <2> HIDE DEF a
  <2>3. IsProc(b) /\ b.state = "Running" /\ b.kernel_rsp = n /\ b.pml4 = procs[n].pml4
    BY <2>2, PutPending
  <2> HIDE DEF b
  <2>4. /\ IsProc(c) /\ c.state = "Running" /\ c.kernel_rsp = n /\ c.pml4 = procs[n].pml4
        /\ c.in_signal = TRUE
    BY <2>3, PutInSignal
  <2> QED BY Zenon, <2>1, <2>4
<1> HIDE DEF p
<1>6. /\ procs[n].pml4 \in Roots
      /\ ustack' = [r \in Roots |-> ustack'[r]]
      /\ \A r \in Roots : r # procs[n].pml4 => ustack'[r] = ustack[r]
      /\ ustack'[procs[n].pml4] = SigFrame(fr)
  <2>1. procs[n].pml4 \in Roots
    BY <1>2 DEF Roots
  <2> QED BY <1>1, <1>3, <2>1 DEF TableOK
<1>7. SavedOK(p, ustack')
  BY <1>2, <1>5, <1>6 DEF SavedOK, SigFrame, UserContext
<1>8. UserContext(regs')
  BY Zenon, <1>1, <1>2 DEF UserContext, IsRegs, InHandler
<1> QED BY Zenon, <1>1, <1>2, <1>4, <1>5, <1>6, <1>7, <1>8, ResumeInv

\* It dies of its signal, and the loop goes on.
LEMMA SelectKilledInv ==
  ASSUME CtxInv, NEW n \in Procs, SelectKilled(n)
  PROVE  CtxInv'
<1>1. /\ mode = "select" /\ SchedNext(n) /\ n # IdleSlot
      /\ procs' = MarkZombie(n) /\ kstack' = ZeroResult(n)
      /\ UNCHANGED <<regs, mode, ustack>> /\ current' = n
  BY SMTT(30) DEF SelectKilled, TakeOver, Delivers
<1>2. /\ ~InBoot /\ \A s \in Procs : procs[s].state # "Running"
      /\ procs[IdleSlot].state = "Ready" /\ procs[n].state = "Ready"
  BY <1>1, Selected
<1>3. TableOK(procs, kstack, ustack)
  BY DEF CtxInv
<1> DEFINE ps == MarkZombie(n)
           ks == ZeroResult(n)
<1>4. /\ ps = [s \in Procs |-> ps[s]] /\ ks = [k \in Stacks |-> ks[k]]
      /\ \A s \in Procs : SlotOK(ps[s], s) /\ SavedOK(ps[s], ustack)
      /\ ps[n].state = "Zombie"
      /\ \A s \in Procs \ {n} :
           /\ FrameOK(ps[s], s, ks[s])
           /\ ps[s].state = procs[s].state \/ ps[s].state = "Ready"
  BY <1>2, <1>3, ZombieTable
<1> HIDE DEF ps, ks
<1>5. FrameOK(ps[n], n, ks[n])
  BY <1>4 DEF FrameOK
<1>6. procs' = ps /\ kstack' = ks /\ ustack' = ustack /\ ustack = [r \in Roots |-> ustack[r]]
  BY <1>1, <1>3 DEF ps, ks, TableOK
<1>7. TableOK(procs, kstack, ustack)'
  BY <1>4, <1>5, <1>6 DEF TableOK
<1>8. RunOK'
  BY Zenon, <1>1, <1>2, <1>4, <1>6, Slots DEF RunOK
<1> QED BY <1>1, <1>2, <1>7, <1>8 DEF CtxInv, InBoot

-----------------------------------------------------------------------------
(* kernel_main *)

\* A step of kernel_main that leaves the table and the stacks as they are.
LEMMA BootQuiet ==
  ASSUME CtxInv, UNCHANGED <<procs, kstack, ustack>>, mode' = "run", InBoot', BootOK'
  PROVE  CtxInv'
BY DEF CtxInv, TableOK

\* What is known at a step of kernel_main.
LEMMA BootState ==
  ASSUME CtxInv, NEW step, BootStep(step)
  PROVE  BootOK /\ regs.rip[2] = step /\ mode = "run" /\ TableOK(procs, kstack, ustack)
BY DEF CtxInv, BootStep, InBoot

\* sti.
LEMMA EnableInv ==
  ASSUME CtxInv, EnableInterrupts
  PROVE  CtxInv'
<1>1. /\ BootOK /\ regs.rip[2] = "sti"
      /\ regs' = [BootAt("spawn") EXCEPT !.rflags = DefaultFlags]
      /\ UNCHANGED <<mode, kstack, procs, current, rsp0, syscall_kstack, cr3, ustack>>
  BY BootState DEF EnableInterrupts
<1>2. /\ IsRegs(regs') /\ regs'.rip = <<"boot", "spawn">> /\ regs'.cs = "kernel"
      /\ regs'.rsp = <<"stack", Boot>>
  BY <1>1 DEF BootAt, IsRegs
<1>3. \A s \in Procs : BootSlot("spawn", s) = BootSlot("sti", s)
  BY DEF BootSlot, Spawned
<1>4. BootOK' /\ InBoot' /\ mode' = "run"
  BY <1>1, <1>2, <1>3 DEF BootOK, InBoot, Spawned, Started
<1> QED BY <1>1, <1>4, BootQuiet

\* set_current_pid.
LEMMA SetPidInv ==
  ASSUME CtxInv, StartSetPid
  PROVE  CtxInv'
<1>1. /\ BootOK /\ regs.rip[2] = "set_pid" /\ current' = InitSlot
      /\ regs' = [regs EXCEPT !.rip = <<"boot", "set_stacks">>]
      /\ UNCHANGED <<mode, kstack, procs, rsp0, syscall_kstack, cr3, ustack>>
  BY BootState DEF StartSetPid
<1>2. /\ IsRegs(regs') /\ regs'.rip = <<"boot", "set_stacks">> /\ regs'.cs = "kernel"
      /\ regs'.rsp = <<"stack", Boot>>
  BY <1>1 DEF BootOK, IsRegs
<1>3. \A s \in Procs : BootSlot("set_stacks", s) = BootSlot("set_pid", s)
  BY DEF BootSlot, Spawned, Started
<1>4. BootOK' /\ InBoot' /\ mode' = "run"
  BY <1>1, <1>2, <1>3 DEF BootOK, InBoot, Spawned, Started
<1> QED BY <1>1, <1>4, BootQuiet

\* The argument of context_switch_to.
LEMMA LoadInv ==
  ASSUME CtxInv, StartLoad
  PROVE  CtxInv'
<1>1. /\ BootOK /\ regs.rip[2] = "load"
      /\ regs' = [regs EXCEPT !.rdi = <<"stack", procs[InitSlot].kernel_rsp>>,
                              !.rip = <<"boot", "switch">>]
      /\ UNCHANGED <<mode, kstack, procs, current, rsp0, syscall_kstack, cr3, ustack>>
  BY BootState DEF StartLoad
<1>2. procs[InitSlot].kernel_rsp = InitSlot
  <2>1. SlotOK(procs[InitSlot], InitSlot)
    BY Slots DEF CtxInv, TableOK
  <2>2. procs[InitSlot].state = "Running"
    BY <1>1, Slots DEF BootOK, BootSlot, Spawned, Started, NewProc
  <2> QED BY <2>1, <2>2 DEF SlotOK
<1>3. /\ IsRegs(regs') /\ regs'.rip = <<"boot", "switch">> /\ regs'.cs = "kernel"
      /\ regs'.rsp = <<"stack", Boot>> /\ regs'.rdi = <<"stack", InitSlot>>
  BY Zenon, <1>1, <1>2 DEF BootOK, IsRegs
<1>4. \A s \in Procs : BootSlot("switch", s) = BootSlot("load", s)
  BY DEF BootSlot, Spawned, Started
<1>5. BootOK' /\ InBoot' /\ mode' = "run"
  BY <1>1, <1>3, <1>4 DEF BootOK, InBoot, Spawned, Started
<1> QED BY <1>1, <1>5, BootQuiet

\* An interrupt before there is a current process returns to kernel_main.
LEMMA IrqBootInv ==
  ASSUME CtxInv, InBoot, ~TickInStart, NEW input, Irq(input)
  PROVE  CtxInv'
<1>1. /\ BootOK /\ current = 0 /\ kstack' = [kstack EXCEPT ![IrqStack] = regs]
      /\ UNCHANGED <<mode, procs, regs, current, rsp0, syscall_kstack, cr3, ustack>>
  BY Zenon DEF Irq, CtxInv
<1>2. IrqStack = Boot
  BY <1>1 DEF BootOK, IrqStack
<1>3. /\ kstack' = [k \in Stacks |-> kstack'[k]]
      /\ \A s \in Procs : kstack'[s] = kstack[s]
  BY <1>1, <1>2, Slots DEF CtxInv, TableOK, Stacks, Boot
<1>4. TableOK(procs, kstack, ustack)'
  BY <1>1, <1>3 DEF CtxInv, TableOK
<1>5. BootOK'
  BY <1>1, <1>3, Slots DEF BootOK
<1> QED BY <1>1, <1>4, <1>5 DEF CtxInv, InBoot

\* spawn_init.
LEMMA SpawnInv ==
  ASSUME CtxInv, SpawnInit
  PROVE  CtxInv'
<1> DEFINE one == NewProc(InitSlot, 0, <<InitSlot, 0>>, FALSE)
           two == NewProc(IdleSlot, 0, <<IdleSlot, 0>>, FALSE)
           start == Fresh(Entry, TopOfStack, <<"init">>)
<1>1. /\ BootOK /\ regs.rip[2] = "spawn" /\ TableOK(procs, kstack, ustack)
      /\ kstack' = [kstack EXCEPT ![InitSlot] = start, ![IdleSlot] = Idle]
      /\ procs' = [procs EXCEPT ![InitSlot] = one, ![IdleSlot] = two]
      /\ regs' = [regs EXCEPT !.rip = <<"boot", "set_pid">>]
      /\ UNCHANGED <<mode, current, rsp0, syscall_kstack, cr3, ustack>>
  BY BootState DEF SpawnInit
<1>2. /\ IsRegs(regs') /\ regs'.rip = <<"boot", "set_pid">> /\ regs'.cs = "kernel"
      /\ regs'.rsp = <<"stack", Boot>>
  BY <1>1 DEF BootOK, IsRegs
<1>3. procs = [s \in Procs |-> NoProc]
  <2>1. \A s \in Procs : BootSlot("spawn", s) = NoProc
    BY DEF BootSlot, Spawned
  <2> QED BY <1>1, <2>1 DEF BootOK
<1>4. /\ IsProc(one) /\ one.state = "Ready" /\ one.kernel_rsp = InitSlot
      /\ one.pml4 = <<InitSlot, 0>> /\ one.in_signal = FALSE
  BY DEF NewProc, IsProc
<1>5. /\ IsProc(two) /\ two.state = "Ready" /\ two.kernel_rsp = IdleSlot
      /\ two.pml4 = <<IdleSlot, 0>> /\ two.in_signal = FALSE
  BY DEF NewProc, IsProc
<1>6. UserContext(start)
  BY DEF UserContext, IsRegs, Fresh, Entry, DefaultFlags
<1>7. [one EXCEPT !.state = "Ready"] = one
  BY Zenon, <1>4 DEF IsProc
<1> HIDE DEF one, two, start
<1>8. procs' = [s \in Procs |-> IF s = InitSlot THEN one ELSE IF s = IdleSlot THEN two ELSE NoProc]
  BY <1>1, <1>3, Slots
<1>9. /\ kstack' = [k \in Stacks |-> kstack'[k]]
      /\ kstack'[InitSlot] = start /\ kstack'[IdleSlot] = Idle
  BY Zenon, <1>1, Slots DEF TableOK, Stacks
<1>10. ASSUME NEW s \in Procs
       PROVE  SlotOK(procs'[s], s) /\ FrameOK(procs'[s], s, kstack'[s]) /\ SavedOK(procs'[s], ustack')
  <2>1. CASE s = InitSlot
    BY <2>1, <1>4, <1>6, <1>8, <1>9, Slots DEF SlotOK, FrameOK, SavedOK
  <2>2. CASE s = IdleSlot
    BY <2>2, <1>5, <1>8, <1>9, Slots DEF SlotOK, FrameOK, SavedOK
  <2>3. CASE s # InitSlot /\ s # IdleSlot
    BY <2>3, <1>8, Empty DEF SlotOK, FrameOK, SavedOK
  <2> QED BY <2>1, <2>2, <2>3
<1>11. TableOK(procs, kstack, ustack)'
  BY Zenon, <1>1, <1>8, <1>9, <1>10 DEF TableOK
<1>12. BootOK' /\ InBoot' /\ mode' = "run"
  <2>1. /\ BootSlot("set_pid", InitSlot) = one /\ BootSlot("set_pid", IdleSlot) = two
        /\ \A s \in Procs \ {InitSlot, IdleSlot} : BootSlot("set_pid", s) = NoProc
    BY Zenon, <1>7, Slots DEF BootSlot, Spawned, Started, one, two
  <2>2. procs' = [s \in Procs |-> BootSlot("set_pid", s)]
    BY <1>8, <2>1
  <2> QED BY <1>1, <1>2, <1>9, <2>2 DEF BootOK, InBoot, Started, start
<1> QED BY <1>11, <1>12 DEF CtxInv

\* The stacks and the page tables of PID 1.
LEMMA SetStacksInv ==
  ASSUME CtxInv, StartSetStacks
  PROVE  CtxInv'
<1> DEFINE p == [procs[InitSlot] EXCEPT !.state = "Running"]
           new == NewProc(InitSlot, 0, <<InitSlot, 0>>, FALSE)
<1>1. /\ BootOK /\ regs.rip[2] = "set_stacks" /\ TableOK(procs, kstack, ustack)
      /\ syscall_kstack' = InitSlot /\ rsp0' = InitSlot /\ cr3' = procs[InitSlot].pml4
      /\ procs' = [procs EXCEPT ![InitSlot] = p]
      /\ regs' = [regs EXCEPT !.rip = <<"boot", "load">>]
      /\ UNCHANGED <<mode, kstack, current, ustack>>
  BY BootState DEF StartSetStacks
<1>2. /\ IsRegs(regs') /\ regs'.rip = <<"boot", "load">> /\ regs'.cs = "kernel"
      /\ regs'.rsp = <<"stack", Boot>>
  BY <1>1 DEF BootOK, IsRegs
<1>3. IsProc(new) /\ new.pml4 = <<InitSlot, 0>> /\ new.in_signal = FALSE /\ new.kernel_rsp = InitSlot
  BY DEF NewProc, IsProc
<1>4. /\ BootSlot("set_stacks", InitSlot) = [new EXCEPT !.state = "Ready"]
      /\ BootSlot("load", InitSlot) = [new EXCEPT !.state = "Running"]
      /\ \A s \in Procs \ {InitSlot} : BootSlot("load", s) = BootSlot("set_stacks", s)
  BY DEF BootSlot, Spawned, Started
<1> HIDE DEF new
<1>5. procs[InitSlot] = [new EXCEPT !.state = "Ready"] /\ procs = [s \in Procs |-> BootSlot("set_stacks", s)]
  BY <1>1, <1>4, Slots DEF BootOK
<1>6. p = [new EXCEPT !.state = "Running"] /\ procs[InitSlot].pml4 = <<InitSlot, 0>>
  <2> DEFINE a == [new EXCEPT !.state = "Ready"]
             b == [a EXCEPT !.state = "Running"]
             c == [new EXCEPT !.state = "Running"]
  <2>1. /\ IsProc(a) /\ a.pml4 = new.pml4 /\ a.parent = new.parent
        /\ a.wait_for = new.wait_for /\ a.kernel_rsp = new.kernel_rsp
        /\ a.pending = new.pending /\ a.handled = new.handled /\ a.in_signal = new.in_signal
    BY <1>3, PutState
  <2>2. p = b /\ procs[InitSlot].pml4 = a.pml4
    BY <1>5
  <2>3. /\ IsProc(c) /\ c.pml4 = new.pml4 /\ c.parent = new.parent /\ c.state = "Running"
        /\ c.wait_for = new.wait_for /\ c.kernel_rsp = new.kernel_rsp
        /\ c.pending = new.pending /\ c.handled = new.handled /\ c.in_signal = new.in_signal
    BY <1>3, PutState
  <2> HIDE DEF a, c, p
  <2>4. /\ IsProc(b) /\ b.pml4 = a.pml4 /\ b.parent = a.parent /\ b.state = "Running"
        /\ b.wait_for = a.wait_for /\ b.kernel_rsp = a.kernel_rsp
        /\ b.pending = a.pending /\ b.handled = a.handled /\ b.in_signal = a.in_signal
    BY <2>1, PutState
  <2> HIDE DEF b
  <2>5. b = c
    BY <2>1, <2>3, <2>4 DEF IsProc
  <2> QED BY <1>3, <2>1, <2>2, <2>5 DEF c
<1> HIDE DEF p
<1>7. /\ IsProc(p) /\ p.state = "Running" /\ p.pml4 = <<InitSlot, 0>>
      /\ p.in_signal = FALSE /\ p.kernel_rsp = InitSlot
  BY <1>3, <1>6, PutState
<1>8. /\ procs'[InitSlot] = p /\ \A s \in Procs \ {InitSlot} : procs'[s] = procs[s]
      /\ procs' = [s \in Procs |-> procs'[s]]
  BY <1>1, <1>5, Slots
<1>9. procs' = [s \in Procs |-> BootSlot("load", s)]
  BY <1>4, <1>5, <1>6, <1>8
<1>10. SlotOK(p, InitSlot) /\ FrameOK(p, InitSlot, kstack'[InitSlot]) /\ SavedOK(p, ustack')
  BY <1>7 DEF SlotOK, FrameOK, SavedOK
<1>11. TableOK(procs, kstack, ustack)'
  BY <1>1, <1>8, <1>10 DEF TableOK
<1>12. BootOK' /\ InBoot' /\ mode' = "run"
  BY <1>1, <1>2, <1>6, <1>9 DEF BootOK, InBoot, Spawned, Started
<1> QED BY <1>11, <1>12 DEF CtxInv

\* context_switch_to pops the frame spawn_init has built for PID 1.
LEMMA SwitchInv ==
  ASSUME CtxInv, StartSwitch
  PROVE  CtxInv' /\ mode' = "run" /\ regs' = Fresh(Entry, TopOfStack, <<"init">>)
<1>1. BootOK /\ regs.rip[2] = "switch" /\ TableOK(procs, kstack, ustack)
  BY BootState DEF StartSwitch
<1>2. regs.rdi[2] = InitSlot /\ InitSlot # Boot
  BY <1>1 DEF BootOK, InitSlot, Boot
<1>3. /\ regs' = kstack[InitSlot] /\ mode' = "run"
      /\ kstack' = [kstack EXCEPT ![InitSlot] = NoFrame]
      /\ UNCHANGED <<procs, current, rsp0, syscall_kstack, cr3, ustack>>
  BY <1>2 DEF StartSwitch
<1>4. /\ kstack[InitSlot] = Fresh(Entry, TopOfStack, <<"init">>)
      /\ current = InitSlot /\ rsp0 = InitSlot /\ syscall_kstack = InitSlot
      /\ cr3 = <<InitSlot, 0>> /\ procs = [s \in Procs |-> BootSlot("switch", s)]
  BY <1>1 DEF BootOK, Spawned, Started
<1>5. UserContext(regs')
  BY <1>3, <1>4 DEF UserContext, IsRegs, Fresh, Entry, DefaultFlags
<1>6. procs[InitSlot].state = "Running" /\ procs[InitSlot].pml4 = <<InitSlot, 0>>
  BY <1>4, Slots DEF BootSlot, Spawned, Started, NewProc
<1>7. procs[IdleSlot].state = "Ready"
  BY <1>4, Slots DEF BootSlot, Spawned, Started, NewProc
<1>8. \A s \in Procs \ {InitSlot} : procs[s].state # "Running"
  BY Zenon, <1>4, <1>7, Empty DEF BootSlot
<1>9. /\ kstack' = [k \in Stacks |-> kstack'[k]]
      /\ \A s \in Procs \ {InitSlot} : kstack'[s] = kstack[s]
  BY Zenon, <1>1, <1>3 DEF TableOK, Stacks
<1>10. FrameOK(procs[InitSlot], InitSlot, kstack'[InitSlot])
  BY <1>6 DEF FrameOK
<1>11. TableOK(procs, kstack, ustack)'
  BY <1>1, <1>3, <1>9, <1>10 DEF TableOK
<1>12. RunOK'
  BY SMTT(30), <1>3, <1>4, <1>5, <1>6, <1>7, <1>8, Slots DEF RunOK
<1> QED BY <1>3, <1>4, <1>5, <1>11, <1>12 DEF CtxInv, InBoot, UserContext

-----------------------------------------------------------------------------
(* Every state *)

\* The state in which kernel_main reaches sti.
LEMMA InitInv ==
  ASSUME CtxInit
  PROVE  CtxInv
<1>1. regs.rip = <<"boot", "sti">> /\ regs.cs = "kernel" /\ regs.rsp = <<"stack", Boot>> /\ IsRegs(regs)
  BY DEF CtxInit, BootAt, IsRegs
<1>2. \A s \in Procs : BootSlot("sti", s) = NoProc
  BY DEF BootSlot, Spawned
<1>3. BootOK
  BY <1>1, <1>2 DEF CtxInit, BootOK, Spawned, Started
<1>4. \A s \in Procs : procs[s] = NoProc
  BY DEF CtxInit
<1>5. TableOK(procs, kstack, ustack)
  BY <1>4, Empty DEF CtxInit, TableOK, SlotOK, FrameOK, SavedOK
<1> QED BY SMTT(30), <1>1, <1>3, <1>5 DEF CtxInv, InBoot, CtxInit

\* A step that changes nothing.
LEMMA StutterInv ==
  ASSUME CtxInv, UNCHANGED ctxVars
  PROVE  CtxInv'
<1>1. UNCHANGED <<regs, mode, kstack, procs, current, rsp0, syscall_kstack, cr3, ustack>>
  BY DEF ctxVars
<1>2. TableOK(procs, kstack, ustack)'
  BY <1>1 DEF CtxInv, TableOK
<1>3. (BootOK => BootOK') /\ (RunOK => RunOK') /\ (InBoot' <=> InBoot) /\ mode' = mode
  BY Zenon, <1>1 DEF BootOK, RunOK, InBoot
<1> QED BY <1>2, <1>3 DEF CtxInv

\* Every step keeps the invariant.
LEMMA StepInv ==
  ASSUME ~TickInStart, CtxInv, [CtxNext]_ctxVars
  PROVE  CtxInv'
<1>1. CASE UNCHANGED ctxVars
  BY <1>1, StutterInv
<1>2. CASE BootNext
  BY <1>2, EnableInv, SpawnInv, SetPidInv, SetStacksInv, LoadInv, SwitchInv DEF BootNext
<1>3. ASSUME NEW input \in Inputs, Irq(input) PROVE CtxInv'
  BY <1>3, IrqBootInv, IrqRunInv
<1>4. ASSUME NEW n \in Procs, Select(n) PROVE CtxInv'
  BY <1>4, SelectRunInv, SelectHandlerInv, SelectKilledInv DEF Select
<1>5. ASSUME NEW t \in Points, UserStep(t) \/ Syscall(t) PROVE CtxInv'
  BY <1>5, UserStepInv, SyscallInv
<1> QED BY <1>1, <1>2, <1>3, <1>4, <1>5 DEF CtxNext

\* CtxInv holds in every state, for any table and any programs, as long as no
\* tick comes inside start_scheduler.
THEOREM ContextInvariance ==
  ASSUME ~TickInStart
  PROVE  CtxSpec => []CtxInv
BY InitInv, StepInv, PTL DEF CtxSpec

\* The stack for interrupts, the stack for system calls and CR3 always belong
\* to the one running process.
THEOREM CpuIsCurrents ==
  ASSUME ~TickInStart
  PROVE  CtxSpec => []CpuMatchesCurrent
<1>1. CtxInv => CpuMatchesCurrent
  <2> SUFFICES ASSUME CtxInv, mode = "run", ~InBoot
               PROVE  /\ rsp0 = current /\ syscall_kstack = current
                      /\ cr3 = procs[current].pml4
                      /\ {s \in Procs : procs[s].state = "Running"} = {current}
    BY DEF CpuMatchesCurrent
  <2> QED BY DEF CtxInv, RunOK
<1> QED BY <1>1, ContextInvariance, PTL

\* A process that can be resumed has its frame on its own kernel stack: in user
\* mode with interrupts on or, for idle, in the kernel.
THEOREM FramesAreOwned ==
  ASSUME ~TickInStart
  PROVE  CtxSpec => []FramesOwned
<1>1. CtxInv => FramesOwned
  <2> SUFFICES ASSUME CtxInv, NEW s \in Procs, procs[s].state \in {"Ready", "Blocked"}
               PROVE  /\ procs[s].kernel_rsp = s
                      /\ kstack[s].cs = IF s = IdleSlot THEN "kernel" ELSE "user"
                      /\ kstack[s].rflags # <<"cli">>
                      /\ kstack[s].rip[1] # "boot"
    BY DEF FramesOwned
  <2>1. SlotOK(procs[s], s) /\ FrameOK(procs[s], s, kstack[s])
    BY DEF CtxInv, TableOK
  <2>2. procs[s].kernel_rsp = s
    BY <2>1 DEF SlotOK
  <2>3. CASE s = IdleSlot
    BY <2>1, <2>2, <2>3 DEF FrameOK, Idle, Fresh, DefaultFlags
  <2>4. CASE s # IdleSlot
    BY <2>1, <2>2, <2>4 DEF FrameOK, UserContext
  <2> QED BY <2>3, <2>4
<1> QED BY <1>1, ContextInvariance, PTL

\* start_scheduler does start PID 1 when no tick comes inside it.
THEOREM InitIsStarted ==
  ASSUME ~TickInStart
  PROVE  CtxSpec => StartsInit
<1>1. CtxInv /\ [CtxNext]_ctxVars =>
        [StartSwitch => mode' = "run" /\ regs' = Fresh(Entry, TopOfStack, <<"init">>)]_ctxVars
  BY SwitchInv
<1> QED BY <1>1, ContextInvariance, PTL DEF CtxSpec, StartsInit

-----------------------------------------------------------------------------
(***************************************************************************)
(* Context implements Machines, for any number of processes and any        *)
(* programs: every step of the kernel is a step of one process's own       *)
(* processor, or none that a process could see.                            *)
(***************************************************************************)

-----------------------------------------------------------------------------
(* What a process sees of the state *)

Here(s) == mode = "run" /\ ~InBoot /\ s = current

\* In the states of CtxInv the refinement mapping is a simple one: a process
\* that does not execute has its registers on its own kernel stack.
View ==
  /\ Turn = IF mode = "run" /\ ~InBoot THEN current ELSE 0
  /\ \A s \in Procs :
       /\ Contexts[s] = IF ~Alive(s) THEN M!Gone ELSE IF Here(s) THEN regs ELSE kstack[s]
       /\ Memories[s] = IF ~Alive(s) THEN M!Nowhere ELSE procs[s].pml4
       /\ Saved[s] = SavedOf(s)

\* The mapping is that one.
LEMMA Viewed == CtxInv => View
<1> SUFFICES ASSUME CtxInv PROVE View
  OBVIOUS
<1>1. mode \in {"run", "select"}
  BY DEF CtxInv
<1>2. Turn = IF mode = "run" /\ ~InBoot THEN current ELSE 0
  BY <1>1 DEF Turn
<1>3. ASSUME NEW s \in Procs
      PROVE  /\ Contexts[s] = IF ~Alive(s) THEN M!Gone ELSE IF Here(s) THEN regs ELSE kstack[s]
             /\ Memories[s] = IF ~Alive(s) THEN M!Nowhere ELSE procs[s].pml4
             /\ Saved[s] = SavedOf(s)
  <2>1. Alive(s) => Frame(s) = kstack[s]
    BY DEF CtxInv, TableOK, SlotOK, Alive, Frame
  <2>2. Executes(s) <=> Here(s)
    BY <1>1 DEF Executes, Here
  <2>3. Here(s) => cr3 = procs[s].pml4
    BY DEF CtxInv, RunOK, Here
  <2>4. Contexts[s] = ContextOf(s) /\ Memories[s] = MemOf(s) /\ Saved[s] = SavedOf(s)
    BY DEF Contexts, Memories, Saved
  <2> QED BY <2>1, <2>2, <2>3, <2>4 DEF ContextOf, MemOf, M!Gone, M!Nowhere
<1> QED BY <1>2, <1>3 DEF View

\* The mapping before and after a step.
LEMMA Views ==
  ASSUME CtxInv, CtxInv'
  PROVE  View /\ View'
BY Viewed, PTL

\* What the process has in memory stays.
Kept(s) ==
  /\ Alive(s)' <=> Alive(s)
  /\ Alive(s) => /\ procs'[s].pml4 = procs[s].pml4
                 /\ procs'[s].in_signal = procs[s].in_signal
                 /\ procs[s].in_signal => ustack'[procs[s].pml4] = ustack[procs[s].pml4]

\* So do its registers: it executes neither before the step nor after it.
Away(s) ==
  /\ Kept(s) /\ ~Here(s) /\ ~Here(s)'
  /\ Alive(s) => kstack'[s] = kstack[s]

\* Then the step does not show in it.
LEMMA KeptView ==
  ASSUME View, View', NEW s \in Procs, Kept(s)
  PROVE  Saved'[s] = Saved[s] /\ Memories'[s] = Memories[s]
<1>1. SavedOf(s)' = SavedOf(s)
  BY DEF Kept, SavedOf
<1>2. Saved'[s] = SavedOf(s)' /\ Saved[s] = SavedOf(s)
  BY DEF View
<1>3. Memories'[s] = Memories[s]
  BY DEF View, Kept
<1> QED BY <1>1, <1>2, <1>3

\* The same with the registers.
LEMMA AwayView ==
  ASSUME View, View', NEW s \in Procs, Away(s)
  PROVE  /\ Saved'[s] = Saved[s] /\ Memories'[s] = Memories[s]
         /\ Contexts'[s] = Contexts[s]
BY KeptView DEF View, Away, Kept

\* Two processes have no root in common.
LEMMA OwnRoots ==
  ASSUME NEW s \in Procs, NEW n \in Procs, s # n
  PROVE  \A x \in {<<s, 0>>, <<s, 1>>}, y \in {<<n, 0>>, <<n, 1>>} : x \in Roots /\ x # y
BY DEF Roots

\* A step changes one process.
LEMMA OneChanges ==
  ASSUME NEW c \in Procs
  PROVE  /\ (\A s \in Procs \ {c} : Contexts'[s] = Contexts[s]) =>
              Contexts' = [Contexts EXCEPT ![c] = Contexts'[c]]
         /\ (\A s \in Procs \ {c} : Saved'[s] = Saved[s]) =>
              Saved' = [Saved EXCEPT ![c] = Saved'[c]]
         /\ (\A s \in Procs \ {c} : Memories'[s] = Memories[s]) =>
              Memories' = [Memories EXCEPT ![c] = Memories'[c]]
<1>1. /\ Contexts = [s \in Procs |-> Contexts[s]] /\ Contexts' = [s \in Procs |-> Contexts'[s]]
      /\ Saved = [s \in Procs |-> Saved[s]] /\ Saved' = [s \in Procs |-> Saved'[s]]
      /\ Memories = [s \in Procs |-> Memories[s]] /\ Memories' = [s \in Procs |-> Memories'[s]]
  BY DEF Contexts, Saved, Memories
<1> QED BY <1>1

\* A step changes none.
LEMMA NoneChanges ==
  /\ (\A s \in Procs : Contexts'[s] = Contexts[s]) => Contexts' = Contexts
  /\ (\A s \in Procs : Saved'[s] = Saved[s]) => Saved' = Saved
  /\ (\A s \in Procs : Memories'[s] = Memories[s]) => Memories' = Memories
<1>1. /\ Contexts = [s \in Procs |-> Contexts[s]] /\ Contexts' = [s \in Procs |-> Contexts'[s]]
      /\ Saved = [s \in Procs |-> Saved[s]] /\ Saved' = [s \in Procs |-> Saved'[s]]
      /\ Memories = [s \in Procs |-> Memories[s]] /\ Memories' = [s \in Procs |-> Memories'[s]]
  BY DEF Contexts, Saved, Memories
<1> QED BY <1>1

-----------------------------------------------------------------------------
(* System calls *)

\* How a call that does not end its caller leaves the kernel: the registers of
\* the caller, and the rest of the state.
LEMMA Leaving ==
  ASSUME CtxInv, CtxInv', InCall, NEW STATE ps, NEW STATE ks, NEW STATE state, NEW STATE rax,
         NEW STATE schedule, Left(ps, ks, ustack'),
         ps[current].state # "Zombie", ps[current].state # "Running" => schedule,
         current' = current,
         Leave(ps, ks, state, rax, schedule)
  PROVE  LET c == current
             r == Contexts'[c] IN
         /\ Turn = c /\ Turn' \in {0, c} /\ Contexts[c] = regs
         /\ r.rax = rax /\ r.rdi = Zero /\ r.rip = state.rip /\ r.rsp = state.rsp
         /\ r.cs = "user" /\ r.rflags \in {state.rflags, DefaultFlags}
         /\ r.rbx \in {regs.rbx, Zero}
         /\ Alive(c) /\ Alive(c)'
         /\ procs'[c].pml4 = ps[c].pml4 /\ procs'[c].in_signal = ps[c].in_signal
         /\ \A s \in Procs \ {c} : procs'[s] = ps[s] /\ kstack'[s] = ks[s] /\ ~Here(s) /\ ~Here(s)'
<1> DEFINE c == current
<1>1. View /\ View'
  BY Views
<1>2. /\ c \in Procs /\ c \in Stacks /\ syscall_kstack = c /\ ~InBoot /\ mode = "run" /\ c # 0
      /\ procs[c].state = "Running" /\ UserContext(regs)
      /\ ps[c].state \in {"Running", "Blocked"} /\ IsProc(ps[c])
  BY Slots DEF InCall, Left, Stacks, SlotOK
<1>3. Turn = c /\ Contexts[c] = regs /\ Alive(c) /\ \A s \in Procs \ {c} : ~Here(s) /\ ~Here(s)'
  BY Zenon, <1>1, <1>2 DEF View, Here, Alive
<1>4. CASE schedule
  <2> DEFINE fr == Diverted(state, rax)
  <2>1. /\ fr.rax = rax /\ fr.rdi = Zero /\ fr.rip = state.rip /\ fr.rsp = state.rsp
        /\ fr.cs = "user" /\ fr.rflags = DefaultFlags /\ fr.rbx = Zero
    BY DEF Diverted, Fresh
  <2>2. /\ kstack' = [ks EXCEPT ![c] = fr]
        /\ procs' = [ps EXCEPT ![c].kernel_rsp = c,
                               ![c].state = IF @ = "Running" THEN "Ready" ELSE @]
        /\ mode' = "select" /\ regs' = regs
    BY <1>2, <1>4 DEF Leave, SwitchExit
  <2>3. \A s \in Procs \ {c} : procs'[s] = ps[s] /\ kstack'[s] = ks[s]
    BY <2>2 DEF Left, Stacks
  <2>4. /\ procs'[c].pml4 = ps[c].pml4 /\ procs'[c].in_signal = ps[c].in_signal
        /\ procs'[c].state = IF ps[c].state = "Running" THEN "Ready" ELSE ps[c].state
    BY Zenon, <1>2, <2>2 DEF IsProc, Left
  <2>5. kstack'[c] = fr
    BY <1>2, <2>2 DEF Left
  <2>6. Alive(c)' /\ ~Here(c)'
    BY <1>2, <2>2, <2>4 DEF Alive, Here
  <2>7. Turn' = 0 /\ Contexts'[c] = fr
    BY <1>1, <1>2, <2>2, <2>5, <2>6 DEF View
  <2> HIDE DEF fr
  <2> QED BY Zenon, <1>3, <2>1, <2>3, <2>4, <2>6, <2>7
<1>5. CASE ~schedule
  <2>1. /\ procs' = ps /\ kstack' = ks /\ mode' = "run"
        /\ regs' = [regs EXCEPT !.rax = rax, !.rdi = Zero, !.rip = state.rip,
                                !.rsp = state.rsp, !.rflags = state.rflags]
        /\ ps[c].state = "Running"
    BY <1>2, <1>5 DEF Leave
  <2>2. /\ regs'.rax = rax /\ regs'.rdi = Zero /\ regs'.rip = state.rip /\ regs'.rsp = state.rsp
        /\ regs'.cs = "user" /\ regs'.rflags = state.rflags /\ regs'.rbx = regs.rbx
    BY <1>2, <2>1 DEF UserContext, IsRegs
  <2>3. ~InBoot'
    <3>1. procs'[c].state = "Running" /\ current' = c
      BY <2>1
    <3>2. CASE InBoot'
      <4>1. BootOK'
        BY <3>2 DEF CtxInv
      <4>2. regs'.cs = "kernel"
        BY <4>1 DEF BootOK
      <4> QED BY <4>2, <2>2
    <3> QED BY <3>2
  <2>4. Alive(c)' /\ Here(c)' /\ Turn' = c /\ Contexts'[c] = regs'
    BY <1>1, <1>2, <2>1, <2>3 DEF View, Alive, Here
  <2> QED BY <1>3, <2>1, <2>2, <2>4
<1> QED BY Zenon, <1>4, <1>5

\* A call that returns and shows in no other process is a Call.
LEMMA QuietRefines ==
  ASSUME CtxInv, CtxInv', NEW t \in Points, NEW call, AtCall(t, call),
         NEW STATE rax, Quiet(t, rax)
  PROVE  M!MachinesNext
<1>a. PICK ps, ks, schedule : QuietLeave(t, ps, ks, rax, schedule)
  BY DEF Quiet
<1>b. /\ Left(ps, ks, ustack') /\ Leave(ps, ks, regs, rax, schedule)
      /\ rax \in {Result(t), Zero} /\ current' = current
  BY Zenon, <1>a DEF QuietLeave
<1>c. ps[current].state # "Zombie" /\ (ps[current].state # "Running" => schedule)
  BY <1>a DEF QuietLeave
<1>d. \A s \in Procs :
        /\ ps[s].state \in {"None", "Zombie"} <=> procs[s].state \in {"None", "Zombie"}
        /\ procs[s].state \notin {"None", "Zombie"} =>
             /\ ps[s].pml4 = procs[s].pml4 /\ ps[s].in_signal = procs[s].in_signal
             /\ ks[s] = kstack[s]
             /\ ustack'[procs[s].pml4] = ustack[procs[s].pml4]
  BY Zenon, <1>a DEF QuietLeave
<1> DEFINE c == current
           r == Contexts'[c]
<1>1. View /\ View'
  BY Views
<1>2. InCall /\ c \in Procs /\ UserContext(regs) /\ regs.rip = <<"rip", t>>
  BY CallState DEF InCall, AtCall
<1>3. /\ Turn = c /\ Turn' \in {0, c} /\ Contexts[c] = regs
      /\ r.rax = rax /\ r.rdi = Zero /\ r.rip = regs.rip /\ r.rsp = regs.rsp
      /\ r.cs = "user" /\ r.rflags \in {regs.rflags, DefaultFlags}
      /\ r.rbx \in {regs.rbx, Zero}
      /\ Alive(c) /\ Alive(c)'
      /\ procs'[c].pml4 = ps[c].pml4 /\ procs'[c].in_signal = ps[c].in_signal
      /\ \A s \in Procs \ {c} : procs'[s] = ps[s] /\ kstack'[s] = ks[s] /\ ~Here(s) /\ ~Here(s)'
  BY Zenon, <1>2, <1>b, <1>c, Leaving
<1> HIDE DEF r
<1>4. Kept(c)
  BY <1>2, <1>3, <1>d DEF Kept, Alive
<1>5. \A s \in Procs \ {c} : Away(s)
  BY <1>3, <1>d DEF Away, Kept, Alive
<1>6. /\ \A s \in Procs : Saved'[s] = Saved[s] /\ Memories'[s] = Memories[s]
      /\ \A s \in Procs \ {c} : Contexts'[s] = Contexts[s]
  BY <1>1, <1>2, <1>4, <1>5, KeptView, AwayView
<1>7. Saved' = Saved /\ Memories' = Memories
  BY <1>6, NoneChanges
<1>8. Contexts' = [Contexts EXCEPT ![c] = r]
  BY <1>2, <1>6, OneChanges DEF r
<1>9. r # M!Gone
  BY <1>3 DEF M!Gone
<1>10. M!Returned(Contexts[c], r)
  BY <1>2, <1>3, <1>b DEF M!Returned, M!Result, M!Zero, M!DefaultFlags, Result, Zero, DefaultFlags,
     UserContext
<1>11. M!Call(c)
  BY <1>3, <1>7, <1>8, <1>9, <1>10 DEF M!Call, r
<1> QED BY <1>2, <1>11 DEF M!MachinesNext

\* fork is a Fork.
LEMMA ForkRefines ==
  ASSUME CtxInv, CtxInv', NEW t \in Points, NEW q \in Procs, SysFork(t, q)
  PROVE  M!MachinesNext
<1> DEFINE c == current
           r == Contexts'[c]
           ps == ForkTable(q)
           ks == ForkStacks(q)
<1>1. View /\ View'
  BY Views
<1>2. /\ AtCall(t, "fork") /\ current' = current /\ ustack' = ustack
      /\ Leave(ps, ks, regs, Result(t), should_schedule)
  BY DEF SysFork, ForkTable, ForkStacks
<1>3. /\ InCall /\ c \in Procs /\ UserContext(regs) /\ regs.rip = <<"rip", t>>
      /\ procs[c].state = "Running"
  BY Zenon, <1>2, CallState DEF InCall, AtCall
<1>5. /\ Left(ps, ks, ustack') /\ q # c /\ procs[q].state = "None"
      /\ ps[q].state = "Ready" /\ ps[q].pml4 = <<q, 0>> /\ ps[q].in_signal = FALSE
      /\ ks[q] = Fresh(regs.rip, regs.rsp, Zero)
      /\ \A s \in Procs \ {q} : ps[s] = procs[s] /\ ks[s] = kstack[s]
  BY Zenon, ForkLeft
<1> HIDE DEF ps, ks
<1>6. ps[c].state = "Running" /\ ps[c] = procs[c]
  BY SMTT(30), <1>3, <1>5
<1>7. /\ Turn = c /\ Turn' \in {0, c} /\ Contexts[c] = regs
      /\ r.rax = Result(t) /\ r.rdi = Zero /\ r.rip = regs.rip /\ r.rsp = regs.rsp
      /\ r.cs = "user" /\ r.rflags \in {regs.rflags, DefaultFlags}
      /\ r.rbx \in {regs.rbx, Zero}
      /\ Alive(c) /\ Alive(c)'
      /\ procs'[c].pml4 = ps[c].pml4 /\ procs'[c].in_signal = ps[c].in_signal
      /\ \A s \in Procs \ {c} : procs'[s] = ps[s] /\ kstack'[s] = ks[s] /\ ~Here(s) /\ ~Here(s)'
  BY Zenon, <1>2, <1>3, <1>5, <1>6, Leaving
<1> HIDE DEF r
<1>8. Kept(c)
  BY <1>2, <1>6, <1>7 DEF Kept
<1>9. ASSUME NEW s \in Procs \ {c, q} PROVE Away(s)
  <2>1. s \in Procs \ {c} /\ s \in Procs \ {q}
    BY <1>9
  <2>2. /\ procs'[s] = procs[s] /\ kstack'[s] = kstack[s] /\ ~Here(s) /\ ~Here(s)'
        /\ ustack' = ustack
    BY Zenon, <1>2, <1>5, <1>7, <2>1
  <2> QED BY Zenon, <2>2 DEF Away, Kept, Alive
<1>10. ~Alive(q) /\ Alive(q)' /\ procs'[q].pml4 = <<q, 0>> /\ ~procs'[q].in_signal /\ ~Here(q)'
       /\ kstack'[q] = ks[q]
  BY Zenon, <1>5, <1>7 DEF Alive
<1>11. Contexts[q] = M!Gone /\ Contexts'[q] = Fresh(regs.rip, regs.rsp, Zero)
  BY Zenon, <1>1, <1>5, <1>10 DEF View
<1>12. Saved'[q] = Saved[q]
  BY Zenon, <1>1, <1>10 DEF View, SavedOf
<1>13. /\ \A s \in Procs \ {q} : Saved'[s] = Saved[s] /\ Memories'[s] = Memories[s]
       /\ \A s \in Procs \ {c, q} : Contexts'[s] = Contexts[s]
  BY <1>1, <1>3, <1>8, <1>9, KeptView, AwayView
<1>14. Saved' = Saved
  BY <1>12, <1>13, NoneChanges
<1>15. Contexts' = [Contexts EXCEPT ![c] = r, ![q] = Fresh(regs.rip, regs.rsp, Zero)]
  <2>1. Contexts = [s \in Procs |-> Contexts[s]] /\ Contexts' = [s \in Procs |-> Contexts'[s]]
    BY DEF Contexts
  <2> QED BY <1>3, <1>5, <1>11, <1>13, <2>1 DEF r
<1>16. \A o \in Procs \ {q} : Memories'[o] = Memories[o] /\ Memories'[q] # Memories[o]
  <2>1. Memories'[q] = <<q, 0>>
    BY Zenon, <1>1, <1>10 DEF View
  <2>2. ASSUME NEW o \in Procs \ {q} PROVE <<q, 0>> # Memories[o]
    <3>1. SlotOK(procs[o], o)
      BY DEF CtxInv, TableOK
    <3>2. CASE Alive(o)
      <4>1. Memories[o] \in {<<o, 0>>, <<o, 1>>}
        BY Zenon, <1>1, <3>1, <3>2 DEF View, SlotOK, Alive
      <4> QED BY <4>1, <2>2
    <3>3. CASE ~Alive(o)
      <4>1. Memories[o] = <<>>
        BY Zenon, <1>1, <3>3 DEF View, M!Nowhere
      <4>2. <<q, 0>> # <<>>
        OBVIOUS
      <4> QED BY <4>1, <4>2
    <3> QED BY <3>2, <3>3
  <2> QED BY <1>13, <2>1, <2>2
<1>17. M!Fresh(regs.rip, regs.rsp, M!Zero) = Fresh(regs.rip, regs.rsp, Zero) /\ r # M!Gone
  <2>1. M!Fresh(regs.rip, regs.rsp, M!Zero) = Fresh(regs.rip, regs.rsp, Zero)
    BY Zenon DEF M!Fresh, Fresh, M!Zero, Zero, M!DefaultFlags, DefaultFlags
  <2>2. r # M!Gone
    BY <1>7 DEF M!Gone
  <2> QED BY <2>1, <2>2
<1>18. M!Returned(Contexts[c], r)
  BY <1>3, <1>7 DEF M!Returned, M!Result, M!Zero, M!DefaultFlags, Result, Zero, DefaultFlags,
     UserContext
<1>19. M!Fork(c, q)
  BY <1>7, <1>11, <1>14, <1>15, <1>16, <1>17, <1>18 DEF M!Fork, r
<1> QED BY <1>3, <1>19 DEF M!MachinesNext

\* exec is an Exec.
LEMMA ExecRefines ==
  ASSUME CtxInv, CtxInv', NEW t \in Points, SysExec(t)
  PROVE  M!MachinesNext
<1> DEFINE c == current
           r == Contexts'[c]
           entry == [rip |-> Entry, rsp |-> TopOfStack, rflags |-> DefaultFlags]
<1>1. View /\ View'
  BY Views
<1>2. /\ AtCall(t, "exec") /\ current' = current
      /\ Leave(ExecTable, kstack, entry, Zero, should_schedule)
  BY DEF SysExec, ExecTable, OtherRoot
<1>3. InCall /\ c \in Procs /\ procs[c].state = "Running"
  BY Zenon, <1>2, CallState DEF InCall
<1>4. /\ Left(ExecTable, kstack, ustack')
      /\ OtherRoot # procs[c].pml4 /\ OtherRoot[1] = c
      /\ ExecTable[c].state = "Running" /\ ExecTable[c].pml4 = OtherRoot
      /\ ExecTable[c].in_signal = FALSE
      /\ \A s \in Procs \ {c} : ExecTable[s] = procs[s]
      /\ \A x \in Roots : x[1] # c => ustack'[x] = ustack[x]
  BY Zenon, ExecLeft
<1>5. entry.rip = Entry /\ entry.rsp = TopOfStack /\ entry.rflags = DefaultFlags
  OBVIOUS
<1> HIDE DEF entry
<1>6. /\ Turn = c /\ Turn' \in {0, c} /\ Contexts[c] = regs
      /\ r.rax = Zero /\ r.rdi = Zero /\ r.rip = entry.rip /\ r.rsp = entry.rsp
      /\ r.cs = "user" /\ r.rflags \in {entry.rflags, DefaultFlags}
      /\ Alive(c) /\ Alive(c)'
      /\ procs'[c].pml4 = OtherRoot /\ procs'[c].in_signal = FALSE
      /\ \A s \in Procs \ {c} :
           procs'[s] = ExecTable[s] /\ kstack'[s] = kstack[s] /\ ~Here(s) /\ ~Here(s)'
  <2>1. /\ ExecTable[current].state # "Zombie"
        /\ ExecTable[current].state # "Running" => should_schedule
    BY <1>4
  <2>2. /\ Turn = c /\ Turn' \in {0, c} /\ Contexts[c] = regs
        /\ r.rax = Zero /\ r.rdi = Zero /\ r.rip = entry.rip /\ r.rsp = entry.rsp
        /\ r.cs = "user" /\ r.rflags \in {entry.rflags, DefaultFlags}
        /\ r.rbx \in {regs.rbx, Zero}
        /\ Alive(c) /\ Alive(c)'
        /\ procs'[c].pml4 = ExecTable[c].pml4 /\ procs'[c].in_signal = ExecTable[c].in_signal
        /\ \A s \in Procs \ {c} :
             procs'[s] = ExecTable[s] /\ kstack'[s] = kstack[s] /\ ~Here(s) /\ ~Here(s)'
    BY Zenon, <1>2, <1>3, <1>4, <2>1, Leaving
  <2> QED BY Zenon, <1>4, <2>2
<1> HIDE DEF r
<1>7. ASSUME NEW s \in Procs \ {c}
      PROVE  Away(s) /\ (Alive(s) => procs[s].pml4 \in {<<s, 0>>, <<s, 1>>})
  <2>1. SlotOK(procs[s], s)
    BY DEF CtxInv, TableOK
  <2>2. Alive(s) => procs[s].pml4 \in {<<s, 0>>, <<s, 1>>}
    BY <2>1 DEF SlotOK, Alive
  <2>3. Alive(s) => procs[s].pml4 \in Roots /\ procs[s].pml4[1] # c
    BY <2>2, <1>7 DEF Roots
  <2>4. Alive(s) => ustack'[procs[s].pml4] = ustack[procs[s].pml4]
    BY <1>4, <2>3
  <2>5. procs'[s] = procs[s] /\ kstack'[s] = kstack[s] /\ ~Here(s) /\ ~Here(s)'
    BY Zenon, <1>4, <1>6, <1>7
  <2> QED BY Zenon, <2>2, <2>4, <2>5 DEF Away, Kept, Alive
<1>8. \A s \in Procs \ {c} : /\ Saved'[s] = Saved[s] /\ Memories'[s] = Memories[s]
                             /\ Contexts'[s] = Contexts[s]
  BY <1>1, <1>7, AwayView
<1>9. Saved'[c] = M!Gone /\ Memories'[c] = OtherRoot /\ Memories[c] = procs[c].pml4
  <2>1. ASSUME NEW s \in Procs, s = c
        PROVE  Saved'[s] = M!Gone /\ Memories'[s] = OtherRoot /\ Memories[s] = procs[c].pml4
    <3>1. Alive(s) /\ Alive(s)' /\ procs'[s].in_signal = FALSE /\ procs'[s].pml4 = OtherRoot
      BY <1>2, <1>6, <2>1 DEF Alive
    <3>2. Saved'[s] = M!Gone
      BY Zenon, <1>1, <3>1 DEF View, SavedOf, M!Gone
    <3>3. Memories'[s] = OtherRoot /\ Memories[s] = procs[c].pml4
      BY <1>1, <2>1, <3>1 DEF View
    <3> QED BY <3>2, <3>3
  <2> QED BY <1>3, <2>1
<1>10. \A o \in Procs \ {c} : Memories'[c] # Memories[o]
  <2> SUFFICES ASSUME NEW o \in Procs \ {c} PROVE OtherRoot # Memories[o]
    BY Zenon, <1>9
  <2>1. CASE Alive(o)
    <3>1. Memories[o] \in {<<o, 0>>, <<o, 1>>}
      BY Zenon, <1>1, <1>7, <2>1 DEF View
    <3>2. Memories[o][1] = o
      BY <3>1
    <3> QED BY <1>4, <3>2
  <2>2. CASE ~Alive(o)
    <3>1. Memories[o] = <<>>
      BY Zenon, <1>1, <2>2 DEF View, M!Nowhere
    <3>2. OtherRoot # <<>>
      BY DEF OtherRoot
    <3> QED BY <3>1, <3>2
  <2> QED BY <2>1, <2>2
<1>11. Contexts' = [Contexts EXCEPT ![c] = r] /\ Saved' = [Saved EXCEPT ![c] = M!Gone]
  BY <1>3, <1>8, <1>9, OneChanges DEF r
<1>12. r # M!Gone /\ r.rflags = DefaultFlags
  BY <1>5, <1>6 DEF M!Gone
<1>13. M!Exec(c)
  BY <1>4, <1>5, <1>6, <1>8, <1>9, <1>10, <1>11, <1>12
     DEF M!Exec, M!Entry, M!TopOfStack, M!DefaultFlags, M!Zero, Entry, TopOfStack,
         DefaultFlags, Zero, r
<1> QED BY <1>3, <1>13 DEF M!MachinesNext

\* A process dies: only it changes.  The 0 for a parent that waits is already in
\* the frame of the parent.
LEMMA DieRefines ==
  ASSUME CtxInv, CtxInv', ~InBoot, NEW z \in Procs, Alive(z), procs[IdleSlot].state # "Blocked",
         Turn \in {0, z}, mode' = "select",
         procs'[z].state = "Zombie",
         \A s \in Procs \ {z} :
           procs'[s] = MarkZombie(z)[s] /\ kstack'[s] = ZeroResult(z)[s] /\ ~Here(s),
         ustack' = ustack
  PROVE  M!MachinesNext
<1>1. View /\ View'
  BY Views
<1>2. \A s \in Procs : ~Here(s)'
  BY DEF Here
<1>3. ASSUME NEW s \in Procs \ {z} PROVE Away(s)
  <2>1. SlotOK(procs[s], s) /\ FrameOK(procs[s], s, kstack[s])
    BY DEF CtxInv, TableOK
  <2>2. CASE WaitsFor(s, z)
    <3>1. /\ procs'[s] = [procs[s] EXCEPT !.state = "Ready", !.wait_for = 0]
          /\ procs[s].state = "Blocked" /\ s # IdleSlot
      BY Zenon, <1>3, <2>2 DEF MarkZombie, WaitsFor
    <3>2. procs'[s].state = "Ready" /\ procs'[s].pml4 = procs[s].pml4 /\ procs'[s].in_signal = procs[s].in_signal
      <4> DEFINE a == [procs[s] EXCEPT !.state = "Ready"]
                 b == [a EXCEPT !.wait_for = 0]
      <4>1. procs'[s] = b
        BY <3>1
      <4>2. IsProc(a) /\ a.state = "Ready" /\ a.pml4 = procs[s].pml4 /\ a.in_signal = procs[s].in_signal
        BY <2>1, PutState DEF SlotOK
      <4> HIDE DEF a
      <4>3. b.state = a.state /\ b.pml4 = a.pml4 /\ b.in_signal = a.in_signal
        BY <4>2, PutWaitFor
      <4> QED BY <4>1, <4>2, <4>3
    <3>3. UserContext(kstack[s]) /\ kstack[s].rax = Zero
      BY <2>1, <3>1 DEF FrameOK
    <3>4. kstack'[s] = kstack[s]
      <4>1. [kstack[s] EXCEPT !.rax = Zero] = kstack[s]
        BY <3>3 DEF UserContext, IsRegs
      <4> QED BY <1>3, <4>1 DEF ZeroResult, Stacks
    <3> QED BY <1>2, <1>3, <3>1, <3>2, <3>4 DEF Away, Kept, Alive
  <2>3. CASE ~WaitsFor(s, z)
    <3>1. procs'[s] = procs[s]
      BY Zenon, <1>3, <2>3 DEF MarkZombie
    <3>2. \A p \in Procs : WaitsFor(p, z) => procs[p].kernel_rsp = p
      BY DEF CtxInv, TableOK, WaitsFor, SlotOK
    <3>3. ZeroResult(z)[s] = kstack[s]
      BY <1>3, <2>3, <3>2 DEF ZeroResult, Stacks
    <3>4. kstack'[s] = kstack[s]
      BY <1>3, <3>3
    <3> QED BY <1>2, <1>3, <3>1, <3>4 DEF Away, Kept, Alive
  <2> QED BY <2>2, <2>3
<1>4. \A s \in Procs \ {z} : /\ Saved'[s] = Saved[s] /\ Memories'[s] = Memories[s]
                             /\ Contexts'[s] = Contexts[s]
  BY <1>1, <1>3, AwayView
<1>5. ~Alive(z)'
  BY DEF Alive
<1>6. Contexts'[z] = M!Gone /\ Memories'[z] = M!Nowhere /\ Saved'[z] = M!Gone /\ Turn' = 0
  BY Zenon, <1>1, <1>5 DEF View, SavedOf, M!Gone
<1>7. /\ Contexts' = [Contexts EXCEPT ![z] = M!Gone] /\ Saved' = [Saved EXCEPT ![z] = M!Gone]
      /\ Memories' = [Memories EXCEPT ![z] = M!Nowhere]
  BY <1>4, <1>6, OneChanges
<1>8. Contexts[z] # M!Gone
  <2>1. UserContext(Contexts[z]) \/ Contexts[z] = Idle
    <3>1. CASE Here(z)
      BY <1>1, <3>1 DEF View, Here, CtxInv, RunOK
    <3>2. CASE ~Here(z)
      <4>1. FrameOK(procs[z], z, kstack[z]) /\ SlotOK(procs[z], z)
        BY DEF CtxInv, TableOK
      <4>2. procs[z].state \in {"Ready", "Blocked"}
        BY Zenon, <3>2, <4>1 DEF Alive, SlotOK, CtxInv, RunOK, Here
      <4> QED BY Zenon, <1>1, <3>2, <4>1, <4>2 DEF FrameOK, View
    <3> QED BY <3>1, <3>2
  <2> QED BY <2>1 DEF UserContext, IsRegs, Idle, Fresh, M!Gone
<1>9. M!Die(z)
  BY <1>6, <1>7, <1>8 DEF M!Die
<1> QED BY <1>9 DEF M!MachinesNext

\* exit, and the signal that ends the caller, are a Die.
LEMMA EndRefines ==
  ASSUME CtxInv, CtxInv', NEW t, NEW call, AtCall(t, call),
         Leave(MarkZombie(current), ZeroResult(current), regs, Zero, TRUE),
         UNCHANGED <<current, rsp0, syscall_kstack, cr3, ustack>>
  PROVE  M!MachinesNext
<1>1. InCall /\ TableOK(procs, kstack, ustack) /\ View
  BY CallState, Views DEF CtxInv
<1>2. PICK z \in Procs : z = current
  BY <1>1 DEF InCall
<1> DEFINE ps == MarkZombie(z)
           ks == ZeroResult(z)
<1>3. /\ ps = [s \in Procs |-> ps[s]] /\ ks = [k \in Stacks |-> ks[k]]
      /\ SlotOK(ps[z], z) /\ ps[z].state = "Zombie"
  BY <1>1, <1>2, ZombieTable DEF InCall
<1>4. Leave(ps, ks, regs, Zero, TRUE) /\ syscall_kstack = z
  BY Zenon, <1>1, <1>2 DEF InCall
<1> HIDE DEF ps, ks
<1>5. /\ mode' = "select" /\ kstack' = [ks EXCEPT ![z] = NoFrame]
      /\ procs' = [ps EXCEPT ![z].kernel_rsp = z,
                             ![z].state = IF @ = "Running" THEN "Ready" ELSE @]
  BY <1>2, <1>3, <1>4 DEF Leave, SwitchExit
<1>6. \A s \in Procs \ {z} : procs'[s] = ps[s] /\ kstack'[s] = ks[s]
  BY <1>3, <1>5 DEF Stacks
<1>7. procs'[z].state = "Zombie"
  BY Zenon, <1>3, <1>5 DEF SlotOK, IsProc
<1>8. /\ Alive(z) /\ ~InBoot /\ procs[IdleSlot].state # "Blocked" /\ Turn \in {0, z}
      /\ \A s \in Procs \ {z} : ~Here(s)
  BY <1>1, <1>2 DEF InCall, Alive, View, Here
<1>9. \A s \in Procs \ {z} : procs'[s] = MarkZombie(z)[s] /\ kstack'[s] = ZeroResult(z)[s]
  BY <1>6 DEF ps, ks
<1> QED BY Zenon, <1>5, <1>7, <1>8, <1>9, DieRefines

\* sigreturn is a Sigreturn: the registers are those the handler interrupted.
LEMMA SigreturnRefines ==
  ASSUME CtxInv, CtxInv', NEW t \in Points, SysSigreturn(t)
  PROVE  M!MachinesNext
<1>1. AtCall(t, "sigreturn") /\ UNCHANGED <<current, rsp0, syscall_kstack, cr3>>
  BY DEF SysSigreturn
<1>2. InCall /\ TableOK(procs, kstack, ustack) /\ View /\ View'
  BY <1>1, CallState, Views DEF CtxInv
<1>3. PICK c \in Procs : c = current
  BY <1>2 DEF InCall
<1>4. CASE procs[c].in_signal
  <2> DEFINE buf == ustack[cr3]
             fr == Restored(SigreturnFrame(buf))
             ps == [procs EXCEPT ![c].in_signal = FALSE, ![c].pending = buf[8][2]]
  <2>1. SwitchExit(ps, kstack, fr) /\ ustack' = [ustack EXCEPT ![cr3] = <<>>]
    BY <1>3, <1>4 DEF SysSigreturn
  <2>2. /\ cr3 = procs[c].pml4 /\ syscall_kstack = c /\ c \in Stacks /\ IsProc(procs[c])
        /\ procs[c].state = "Running" /\ SlotOK(procs[c], c) /\ ~InBoot /\ mode = "run"
    BY <1>2, <1>3 DEF InCall, Stacks, TableOK, SlotOK
  <2>3. /\ ps = [s \in Procs |-> ps[s]] /\ \A s \in Procs \ {c} : ps[s] = procs[s]
        /\ IsProc(ps[c]) /\ ps[c].state = "Running" /\ ps[c].in_signal = FALSE
        /\ ps[c].pml4 = procs[c].pml4
    <3> DEFINE a == [procs[c] EXCEPT !.in_signal = FALSE]
               b == [a EXCEPT !.pending = buf[8][2]]
    <3>1. /\ ps = [s \in Procs |-> ps[s]] /\ \A s \in Procs \ {c} : ps[s] = procs[s]
          /\ ps[c] = b
      BY Zenon, <1>2 DEF TableOK
    <3>2. /\ IsProc(a) /\ a.pml4 = procs[c].pml4 /\ a.state = "Running" /\ a.in_signal = FALSE
      BY <2>2, PutInSignal
    <3> HIDE DEF a
    <3>3. /\ IsProc(b) /\ b.pml4 = a.pml4 /\ b.state = a.state /\ b.in_signal = a.in_signal
      BY <3>2, PutPending
    <3> QED BY Zenon, <3>1, <3>2, <3>3
  <2> HIDE DEF ps
  <2>4. /\ mode' = "select" /\ kstack' = [kstack EXCEPT ![c] = fr]
        /\ procs' = [ps EXCEPT ![c].kernel_rsp = c, ![c].state = "Ready"]
    BY Zenon, <1>3, <2>1, <2>2, <2>3 DEF SwitchExit
  <2>5. /\ procs'[c].state = "Ready" /\ procs'[c].pml4 = procs[c].pml4
        /\ procs'[c].in_signal = FALSE
    BY Zenon, <2>3, <2>4 DEF IsProc
  <2>6. /\ kstack'[c] = fr
        /\ \A s \in Procs \ {c} : procs'[s] = procs[s] /\ kstack'[s] = kstack[s]
    BY <1>2, <2>2, <2>3, <2>4 DEF TableOK, Stacks
  <2>7. ASSUME NEW s \in Procs \ {c} PROVE Away(s)
    <3>1. SlotOK(procs[s], s)
      BY <1>2 DEF TableOK
    <3>2. Alive(s) => procs[s].pml4 \in Roots /\ procs[s].pml4 # cr3
      BY <2>2, <2>7, <3>1 DEF SlotOK, Roots, Alive
    <3>3. Alive(s) => ustack'[procs[s].pml4] = ustack[procs[s].pml4]
      BY <1>2, <2>1, <3>2 DEF TableOK
    <3> QED BY Zenon, <1>3, <2>4, <2>6, <2>7, <3>3 DEF Away, Kept, Alive, Here
  <2>8. \A s \in Procs \ {c} : /\ Saved'[s] = Saved[s] /\ Memories'[s] = Memories[s]
                               /\ Contexts'[s] = Contexts[s]
    BY <1>2, <2>7, AwayView
  <2>9. Alive(c) /\ Alive(c)' /\ ~Here(c)' /\ Turn = c /\ Turn' = 0
    BY SMTT(30), <1>2, <1>3, <2>2, <2>4, <2>5 DEF Alive, Here, View
  <2>10. Saved[c] = fr
    <3>1. SavedOf(c) = [rax |-> buf[1], rdi |-> buf[2], rbx |-> buf[3], rflags |-> buf[4],
                        rsp |-> buf[5], rip |-> buf[6], cs |-> "user"]
      BY Zenon, <1>4, <2>2, <2>9 DEF SavedOf
    <3>2. fr = [rax |-> buf[1], rdi |-> buf[2], rbx |-> buf[3], rflags |-> buf[4],
                rsp |-> buf[5], rip |-> buf[6], cs |-> "user"]
      BY Zenon DEF Restored, SigreturnFrame
    <3> QED BY Zenon, <1>2, <3>1, <3>2 DEF View
  <2>11. Contexts'[c] = fr /\ Saved'[c] = M!Gone /\ Memories'[c] = Memories[c]
    BY Zenon, <1>2, <2>5, <2>6, <2>9 DEF View, SavedOf, M!Gone
  <2>12. fr # M!Gone
    BY Zenon DEF Restored, M!Gone
  <2> HIDE DEF fr
  <2>13. /\ Contexts' = [Contexts EXCEPT ![c] = fr] /\ Saved' = [Saved EXCEPT ![c] = M!Gone]
         /\ Memories' = Memories
    BY <2>8, <2>11, OneChanges, NoneChanges
  <2>14. M!Sigreturn(c)
    BY <2>9, <2>10, <2>12, <2>13 DEF M!Sigreturn
  <2> QED BY <2>14 DEF M!MachinesNext
<1>5. CASE ~procs[c].in_signal
  <2>1. Leave(procs, kstack, regs, Result(t), should_schedule) /\ ustack' = ustack
    BY <1>3, <1>5 DEF SysSigreturn
  <2>2. Quiet(t, Result(t))
    BY <1>1, <2>1, SameQuiet
  <2> QED BY <1>1, <2>2, QuietRefines
<1> QED BY <1>4, <1>5

\* Every system call is a step of the caller's machine.
LEMMA SyscallRefines ==
  ASSUME CtxInv, CtxInv', NEW t \in Points, Syscall(t)
  PROVE  M!MachinesNext
<1>1. ASSUME NEW q \in Procs,
             \/ SysPlain(t) \/ SysSigaction(t) \/ SysReadBlock(t)
             \/ SysKill(t, q) \/ SysWaitBlock(t, q) \/ SysWaitReap(t, q)
      PROVE  M!MachinesNext
  BY <1>1, QuietCalls, QuietRefines
<1>2. ASSUME SysStopped(t) PROVE M!MachinesNext
  BY Zenon, <1>2, Stopped, QuietRefines, EndRefines
<1>3. ASSUME SysExit(t) PROVE M!MachinesNext
  BY Zenon, <1>3, EndRefines DEF SysExit
<1>4. InitSlot \in Procs
  BY Slots
<1> QED BY <1>1, <1>2, <1>3, <1>4, ExecRefines, SigreturnRefines, ForkRefines DEF Syscall

-----------------------------------------------------------------------------
(* User code, interrupts and the selection of the next process *)

\* An instruction is a Compute.
LEMMA UserStepRefines ==
  ASSUME CtxInv, CtxInv', NEW t \in Points, UserStep(t)
  PROVE  M!MachinesNext
<1>1. PICK room \in 0..1 : regs' = At(t, room)
  BY DEF UserStep
<1>2. /\ mode = "run" /\ regs.cs = "user"
      /\ UNCHANGED <<mode, kstack, procs, current, ustack>>
  BY DEF UserStep
<1>3. View /\ View' /\ TableOK(procs, kstack, ustack)
  BY SMTT(30), Views DEF CtxInv
<1>4. ~InBoot /\ RunOK
  BY Zenon, <1>2 DEF CtxInv, BootOK
<1>5. PICK c \in Procs : c = current
  BY <1>4 DEF RunOK
<1>6. ~InBoot'
  BY <1>1 DEF InBoot, At
<1>7. procs[c].state = "Running" /\ c # 0
  BY SMTT(30), <1>2, <1>4, <1>5, Slots DEF RunOK
<1>8. Alive(c) /\ Alive(c)' /\ Here(c)' /\ Kept(c) /\ Turn = c /\ Turn' = c
  BY <1>2, <1>3, <1>4, <1>5, <1>6, <1>7 DEF Alive, Here, Kept, View
<1>9. \A s \in Procs \ {c} : Away(s)
  BY <1>2, <1>5 DEF Away, Kept, Alive, Here
<1>10. /\ \A s \in Procs : Saved'[s] = Saved[s] /\ Memories'[s] = Memories[s]
       /\ \A s \in Procs \ {c} : Contexts'[s] = Contexts[s]
       /\ Contexts'[c] = regs'
  BY Zenon, <1>3, <1>8, <1>9, KeptView, AwayView DEF View
<1>11. /\ Contexts' = [Contexts EXCEPT ![c] = M!At(t, room)]
       /\ Saved' = Saved /\ Memories' = Memories
  <2>1. M!At(t, room) = At(t, room)
    BY DEF M!At, At
  <2>2. Contexts' = [Contexts EXCEPT ![c] = Contexts'[c]]
    BY <1>10, OneChanges
  <2> QED BY <1>1, <1>10, <2>1, <2>2, NoneChanges
<1>12. M!Compute(c)
  BY Zenon, <1>8, <1>11 DEF M!Compute
<1> QED BY <1>12 DEF M!MachinesNext

\* An interrupt of a process is a Yield.
LEMMA IrqRunRefines ==
  ASSUME CtxInv, CtxInv', ~InBoot, NEW input, Irq(input)
  PROVE  M!MachinesNext
<1>1. /\ View /\ View' /\ TableOK(procs, kstack, ustack)
      /\ RunOK /\ mode = "run"
  BY Zenon, Views DEF Irq, CtxInv
<1>2. PICK c \in Procs : c = current
  BY <1>1 DEF RunOK
<1>3. IrqStack = c /\ c \in Stacks /\ c # 0 /\ procs[c].state = "Running"
  BY <1>1, <1>2, Slots DEF IrqStack, RunOK, UserContext, Idle, Fresh, IdleSlot, Stacks
<1>4. /\ mode' = "select" /\ kstack' = [kstack EXCEPT ![c] = regs]
      /\ procs' = [s \in Procs |->
           IF s = c THEN [procs[s] EXCEPT !.kernel_rsp = c, !.state = "Ready"]
           ELSE IF Woken(input, s)
           THEN [procs[s] EXCEPT !.state = "Ready", !.pending = @ \/ input = "ctrlc"]
           ELSE procs[s]]
      /\ UNCHANGED <<regs, current, ustack>>
  BY Zenon, <1>1, <1>2, <1>3 DEF Irq
<1>5. \A s \in Procs : IsProc(procs[s])
  BY <1>1 DEF TableOK, SlotOK
<1>6. /\ procs'[c].state = "Ready" /\ procs'[c].pml4 = procs[c].pml4
      /\ procs'[c].in_signal = procs[c].in_signal
  <2>1. procs'[c] = [procs[c] EXCEPT !.kernel_rsp = c, !.state = "Ready"]
    BY Zenon, <1>4
  <2> QED BY <1>5, <2>1 DEF IsProc
<1>7. ASSUME NEW s \in Procs \ {c}
      PROVE  /\ procs'[s].state \in {"None", "Zombie"} <=> procs[s].state \in {"None", "Zombie"}
             /\ procs'[s].pml4 = procs[s].pml4 /\ procs'[s].in_signal = procs[s].in_signal
             /\ kstack'[s] = kstack[s]
  <2>1. kstack'[s] = kstack[s]
    BY Zenon, <1>1, <1>4 DEF TableOK, Stacks
  <2>2. CASE Woken(input, s)
    <3>1. /\ procs[s].state = "Blocked"
          /\ procs'[s] = [procs[s] EXCEPT !.state = "Ready", !.pending = @ \/ input = "ctrlc"]
      BY Zenon, <1>4, <1>7, <2>2 DEF Woken
    <3> DEFINE a == [procs[s] EXCEPT !.state = "Ready"]
    <3>2. /\ IsProc(a) /\ a.state = "Ready" /\ a.pml4 = procs[s].pml4
          /\ a.in_signal = procs[s].in_signal
      BY <1>5, PutState
    <3>3. PICK x : procs'[s] = [a EXCEPT !.pending = x]
      BY Zenon, <3>1
    <3> HIDE DEF a
    <3>4. /\ procs'[s].state = a.state /\ procs'[s].pml4 = a.pml4
          /\ procs'[s].in_signal = a.in_signal
      BY <3>2, <3>3, PutPending
    <3> QED BY <2>1, <3>1, <3>2, <3>4
  <2>3. CASE ~Woken(input, s)
    BY Zenon, <1>4, <1>7, <2>1, <2>3
  <2> QED BY <2>2, <2>3
<1>8. \A s \in Procs \ {c} : Away(s)
  BY Zenon, <1>2, <1>4, <1>7 DEF Away, Kept, Alive, Here
<1>9. Alive(c) /\ Alive(c)' /\ Kept(c) /\ ~Here(c)' /\ Here(c) /\ Turn = c /\ Turn' = 0
  BY Zenon, <1>1, <1>2, <1>3, <1>4, <1>6 DEF Alive, Kept, Here, View
<1>10. kstack'[c] = regs
  BY Zenon, <1>1, <1>3, <1>4 DEF TableOK
<1>11. \A s \in Procs : /\ Saved'[s] = Saved[s] /\ Memories'[s] = Memories[s]
                        /\ Contexts'[s] = Contexts[s]
  <2>1. \A s \in Procs \ {c} : /\ Saved'[s] = Saved[s] /\ Memories'[s] = Memories[s]
                               /\ Contexts'[s] = Contexts[s]
    BY Zenon, <1>1, <1>8, AwayView
  <2>2. c \in Procs => Saved'[c] = Saved[c] /\ Memories'[c] = Memories[c]
    BY Zenon, <1>1, <1>9, KeptView
  <2>3. c \in Procs => Contexts'[c] = Contexts[c]
    BY Zenon, <1>1, <1>9, <1>10 DEF View
  <2> QED BY Zenon, <2>1, <2>2, <2>3
<1>12. M!Yield(c)
  BY Zenon, <1>9, <1>11, NoneChanges DEF M!Yield
<1> QED BY <1>12 DEF M!MachinesNext

\* The process that the loop selects goes on, with r in its registers.
LEMMA Resuming ==
  ASSUME CtxInv, CtxInv', mode = "select", NEW n \in Procs, SchedNext(n), TakeOver(n),
         procs'[n].state = "Running", procs'[n].pml4 = procs[n].pml4,
         \A s \in Procs \ {n} : procs'[s] = procs[s],
         \A x \in Roots : x # procs[n].pml4 => ustack'[x] = ustack[x],
         kstack' = Popped(n, kstack), mode' = "run", regs'.cs \in {"user", "kernel"},
         regs'.rip[1] # "boot"
  PROVE  /\ Turn = 0 /\ Turn' = n /\ Contexts[n] = Frame(n) /\ Contexts'[n] = regs'
         /\ Contexts[n] # M!Gone /\ Alive(n) /\ Alive(n)' /\ Memories' = Memories
         /\ \A s \in Procs \ {n} : Contexts'[s] = Contexts[s] /\ Saved'[s] = Saved[s]
<1>1. View /\ View' /\ TableOK(procs, kstack, ustack)
  BY Views DEF CtxInv
<1>2. /\ ~InBoot /\ procs[n].state = "Ready" /\ Frame(n) = kstack[n]
      /\ kstack' = [kstack EXCEPT ![n] = NoFrame] /\ procs[n].pml4 \in {<<n, 0>>, <<n, 1>>}
      /\ UserContext(Frame(n)) \/ Frame(n) = Idle
  BY Selected
<1>3. ~InBoot' /\ current' = n /\ n # 0
  BY Slots DEF InBoot, TakeOver
<1>4. /\ Alive(n) /\ Alive(n)' /\ Here(n)' /\ \A s \in Procs : ~Here(s)
      /\ \A s \in Procs \ {n} : ~Here(s)'
  <2>1. Alive(n) /\ Alive(n)'
    BY <1>2 DEF Alive
  <2>2. \A s \in Procs : ~Here(s)
    BY DEF Here
  <2>3. Here(n)' /\ \A s \in Procs \ {n} : ~Here(s)'
    BY <1>3 DEF Here
  <2> QED BY <2>1, <2>2, <2>3
<1>5. Turn = 0 /\ Turn' = n
  BY Zenon, <1>1, <1>3 DEF View
<1>6. ASSUME NEW s \in Procs \ {n} PROVE Away(s)
  <2>1. SlotOK(procs[s], s) /\ kstack'[s] = kstack[s]
    BY SMTT(30), <1>1, <1>2 DEF TableOK, Stacks
  <2>2. Alive(s) => procs[s].pml4 \in Roots /\ procs[s].pml4 # procs[n].pml4
    <3>1. Alive(s) => procs[s].pml4 \in {<<s, 0>>, <<s, 1>>}
      BY Zenon, <2>1 DEF SlotOK, Alive
    <3>2. s # n /\ s \in Procs
      BY <1>6
    <3>3. \A x \in {<<s, 0>>, <<s, 1>>}, y \in {<<n, 0>>, <<n, 1>>} : x \in Roots /\ x # y
      BY Zenon, <3>2, OwnRoots
    <3>4. procs[n].pml4 \in {<<n, 0>>, <<n, 1>>}
      BY <1>2
    <3> QED BY Zenon, <3>1, <3>3, <3>4
  <2> QED BY Zenon, <1>4, <1>6, <2>1, <2>2 DEF Away, Kept, Alive
<1>7. \A s \in Procs \ {n} : /\ Saved'[s] = Saved[s] /\ Memories'[s] = Memories[s]
                             /\ Contexts'[s] = Contexts[s]
  BY <1>1, <1>6, AwayView
<1>8. Contexts[n] = Frame(n) /\ Contexts'[n] = regs' /\ Memories'[n] = Memories[n]
  BY Zenon, <1>1, <1>2, <1>4 DEF View
<1>9. Frame(n) # M!Gone
  BY <1>2 DEF UserContext, IsRegs, Idle, Fresh, M!Gone
<1>10. Memories' = Memories
  BY <1>7, <1>8, NoneChanges
<1> QED BY Zenon, <1>4, <1>5, <1>7, <1>8, <1>9, <1>10

\* To go on where it was is a Resume.
LEMMA SelectRunRefines ==
  ASSUME CtxInv, CtxInv', NEW n \in Procs, SelectRun(n)
  PROVE  M!MachinesNext
<1>1. /\ mode = "select" /\ SchedNext(n) /\ TakeOver(n) /\ mode' = "run"
      /\ kstack' = Popped(n, kstack) /\ regs' = Frame(n) /\ ustack' = ustack
      /\ procs' = [procs EXCEPT ![n].state = "Running"]
  BY DEF SelectRun
<1>2. /\ procs[n].state = "Ready" /\ IsProc(procs[n])
      /\ IF n = IdleSlot THEN regs' = Idle ELSE UserContext(regs')
  BY <1>1, Selected
<1>3. TableOK(procs, kstack, ustack) /\ View /\ View'
  BY Views DEF CtxInv
<1>4. /\ procs'[n].state = "Running" /\ procs'[n].pml4 = procs[n].pml4
      /\ procs'[n].in_signal = procs[n].in_signal
      /\ \A s \in Procs \ {n} : procs'[s] = procs[s]
  BY <1>1, <1>2, <1>3 DEF TableOK, IsProc
<1>5. regs'.cs \in {"user", "kernel"} /\ regs'.rip[1] # "boot"
  BY <1>2 DEF UserContext, Idle, Fresh
<1>6. /\ Turn = 0 /\ Turn' = n /\ Contexts[n] = Frame(n) /\ Contexts'[n] = regs'
      /\ Contexts[n] # M!Gone /\ Alive(n) /\ Alive(n)' /\ Memories' = Memories
      /\ \A s \in Procs \ {n} : Contexts'[s] = Contexts[s] /\ Saved'[s] = Saved[s]
  BY <1>1, <1>4, <1>5, Resuming
<1>7. Saved'[n] = Saved[n]
  BY <1>1, <1>3, <1>4, <1>6, KeptView DEF Kept
<1>8. M!Resume(n)
  BY <1>1, <1>6, <1>7, NoneChanges DEF M!Resume
<1> QED BY <1>8 DEF M!MachinesNext

\* To enter a handler is a Deliver: what it interrupts is saved.
LEMMA SelectHandlerRefines ==
  ASSUME CtxInv, CtxInv', NEW n \in Procs, SelectHandler(n)
  PROVE  M!MachinesNext
<1> DEFINE fr == Frame(n)
           p == [procs[n] EXCEPT !.state = "Running", !.pending = FALSE, !.in_signal = TRUE]
<1>1. /\ mode = "select" /\ SchedNext(n) /\ TakeOver(n) /\ mode' = "run" /\ Delivers(n)
      /\ kstack' = Popped(n, kstack) /\ regs' = InHandler(fr)
      /\ ustack' = [ustack EXCEPT ![procs[n].pml4] = SigFrame(fr)]
      /\ procs' = [procs EXCEPT ![n].state = "Running", ![n].pending = FALSE,
                                ![n].in_signal = TRUE]
  BY DEF SelectHandler, TakeOver
<1>2. /\ procs[n].state = "Ready" /\ IsProc(procs[n])
      /\ procs[n].pml4 \in {<<n, 0>>, <<n, 1>>}
      /\ n # IdleSlot /\ UserContext(fr) /\ ~procs[n].in_signal
  BY <1>1, Selected DEF Delivers
<1>3. TableOK(procs, kstack, ustack) /\ View /\ View'
  BY Views DEF CtxInv
<1>4. /\ procs'[n].state = "Running" /\ procs'[n].pml4 = procs[n].pml4
      /\ procs'[n].in_signal = TRUE
      /\ \A s \in Procs \ {n} : procs'[s] = procs[s]
  <2> DEFINE a == [procs[n] EXCEPT !.state = "Running"]
             b == [a EXCEPT !.pending = FALSE]
             c == [b EXCEPT !.in_signal = TRUE]
  <2>1. procs'[n] = c /\ \A s \in Procs \ {n} : procs'[s] = procs[s]
    BY <1>1, <1>3 DEF TableOK
  <2>2. IsProc(a) /\ a.state = "Running" /\ a.pml4 = procs[n].pml4
    BY <1>2, PutState
  <2> HIDE DEF a
  <2>3. IsProc(b) /\ b.state = "Running" /\ b.pml4 = procs[n].pml4
    BY <2>2, PutPending
  <2> HIDE DEF b
  <2>4. c.state = "Running" /\ c.pml4 = procs[n].pml4 /\ c.in_signal = TRUE
    BY <2>3, PutInSignal
  <2> QED BY <2>1, <2>4
<1>5. /\ ustack'[procs[n].pml4] = SigFrame(fr)
      /\ \A x \in Roots : x # procs[n].pml4 => ustack'[x] = ustack[x]
  <2>1. procs[n].pml4 \in Roots
    BY <1>2 DEF Roots
  <2> QED BY <1>1, <1>3, <2>1 DEF TableOK
<1>6. regs'.cs \in {"user", "kernel"} /\ regs'.rip[1] # "boot"
  BY <1>1, <1>2 DEF UserContext, IsRegs, InHandler
<1>7. /\ Turn = 0 /\ Turn' = n /\ Contexts[n] = fr /\ Contexts'[n] = regs'
      /\ Contexts[n] # M!Gone /\ Alive(n) /\ Alive(n)' /\ Memories' = Memories
      /\ \A s \in Procs \ {n} : Contexts'[s] = Contexts[s] /\ Saved'[s] = Saved[s]
  BY Zenon, <1>1, <1>4, <1>5, <1>6, Resuming
<1>8. Saved[n] = M!Gone
  BY Zenon, <1>2, <1>3 DEF View, SavedOf, M!Gone
<1>9. Saved'[n] = fr
  <2>1. SavedOf(n)' = [rax |-> fr.rax, rdi |-> fr.rdi, rbx |-> fr.rbx, rflags |-> fr.rflags,
                       rsp |-> fr.rsp, rip |-> fr.rip, cs |-> "user"]
    <3> DEFINE f == SigFrame(fr)
    <3>1. procs'[n].in_signal /\ ustack'[procs'[n].pml4] = f
      BY Zenon, <1>4, <1>5
    <3>2. /\ f[1] = fr.rax /\ f[2] = fr.rdi /\ f[3] = fr.rbx /\ f[4] = fr.rflags
          /\ f[5] = fr.rsp /\ f[6] = fr.rip
      BY DEF SigFrame
    <3> HIDE DEF f
    <3>3. SavedOf(n)' = [rax |-> f[1], rdi |-> f[2], rbx |-> f[3], rflags |-> f[4],
                         rsp |-> f[5], rip |-> f[6], cs |-> "user"]
      BY <1>7, <3>1, Zenon DEF SavedOf
    <3> QED BY <3>2, <3>3
  <2>2. fr = [rax |-> fr.rax, rdi |-> fr.rdi, rbx |-> fr.rbx, rflags |-> fr.rflags,
              rsp |-> fr.rsp, rip |-> fr.rip, cs |-> "user"]
    BY <1>2 DEF UserContext, IsRegs
  <2> QED BY <1>3, <2>1, <2>2 DEF View
<1>10. M!InHandler(fr) = InHandler(fr)
  BY DEF M!InHandler, InHandler
<1> HIDE DEF fr
<1>11. /\ Contexts' = [Contexts EXCEPT ![n] = M!InHandler(fr)]
       /\ Saved' = [Saved EXCEPT ![n] = fr]
  BY <1>1, <1>7, <1>9, <1>10, OneChanges
<1>12. M!Deliver(n)
  BY <1>7, <1>8, <1>11 DEF M!Deliver
<1> QED BY <1>12 DEF M!MachinesNext

\* To die of a signal is a Die.
LEMMA SelectKilledRefines ==
  ASSUME CtxInv, CtxInv', NEW n \in Procs, SelectKilled(n)
  PROVE  M!MachinesNext
<1>1. /\ mode = "select" /\ SchedNext(n) /\ mode' = "select"
      /\ procs' = MarkZombie(n) /\ kstack' = ZeroResult(n) /\ ustack' = ustack
  BY DEF SelectKilled
<1>2. /\ ~InBoot /\ procs[IdleSlot].state = "Ready" /\ procs[n].state = "Ready"
      /\ IsProc(procs[n])
  BY Zenon, <1>1, Selected
<1>3. procs'[n].state = "Zombie"
  BY Zenon, <1>1, <1>2 DEF MarkZombie, IsProc
<1>4. View
  BY Views
<1>5. Alive(n) /\ Turn = 0 /\ \A s \in Procs : ~Here(s)
  BY <1>1, <1>2, <1>4 DEF Alive, View, Here
<1> QED BY <1>1, <1>2, <1>3, <1>5, DieRefines

-----------------------------------------------------------------------------
(* kernel_main *)

\* Steps of kernel_main, and interrupts of it, that no process sees.
LEMMA BootHidden ==
  ASSUME CtxInv, CtxInv', InBoot, InBoot', UNCHANGED ustack,
         \A s \in Procs : kstack'[s] = kstack[s],
         \A s \in Procs : /\ Alive(s)' <=> Alive(s)
                          /\ Alive(s) => /\ procs'[s].pml4 = procs[s].pml4
                                         /\ procs'[s].in_signal = procs[s].in_signal
  PROVE  UNCHANGED M!machineVars
<1>1. View /\ View'
  BY Views
<1>2. \A s \in Procs : Away(s)
  BY DEF Away, Kept, Here
<1>3. \A s \in Procs : /\ Saved'[s] = Saved[s] /\ Memories'[s] = Memories[s]
                       /\ Contexts'[s] = Contexts[s]
  BY <1>1, <1>2, AwayView
<1>4. Turn' = Turn
  BY <1>1 DEF View
<1> QED BY <1>3, <1>4, NoneChanges DEF M!machineVars

\* An interrupt of kernel_main.
LEMMA IrqBootRefines ==
  ASSUME CtxInv, CtxInv', InBoot, ~TickInStart, NEW input, Irq(input)
  PROVE  UNCHANGED M!machineVars
<1>1. /\ BootOK /\ kstack' = [kstack EXCEPT ![IrqStack] = regs]
      /\ UNCHANGED <<procs, regs, ustack>>
  BY Zenon DEF Irq, CtxInv
<1>2. IrqStack = Boot
  <2>1. regs.cs = "kernel" /\ regs.rsp = <<"stack", Boot>>
    BY Zenon, <1>1 DEF BootOK
  <2>2. regs.rsp[2] = Boot
    BY <2>1
  <2> QED BY <2>1, <2>2 DEF IrqStack
<1>3. \A s \in Procs : kstack'[s] = kstack[s]
  BY <1>1, <1>2, Slots DEF CtxInv, TableOK, Stacks, Boot
<1> QED BY <1>1, <1>3, BootHidden DEF InBoot, Alive

\* The steps that leave the table and the stacks.
LEMMA BootQuietRefines ==
  ASSUME CtxInv, CtxInv', EnableInterrupts \/ StartSetPid \/ StartLoad
  PROVE  UNCHANGED M!machineVars
<1>1. UNCHANGED <<procs, kstack, ustack>> /\ InBoot
  BY DEF EnableInterrupts, StartSetPid, StartLoad, BootStep, InBoot
<1>2. BootOK
  BY <1>1 DEF CtxInv
<1>3. IsRegs(regs)
  BY <1>2 DEF BootOK
<1>4. CASE EnableInterrupts
  <2>1. regs'.rip = <<"boot", "spawn">>
    BY <1>4 DEF EnableInterrupts, BootAt
  <2> QED BY <1>1, <2>1, BootHidden DEF InBoot, Alive
<1>5. CASE StartSetPid
  <2>1. regs'.rip = <<"boot", "set_stacks">>
    BY <1>3, <1>5 DEF StartSetPid, IsRegs
  <2> QED BY <1>1, <2>1, BootHidden DEF InBoot, Alive
<1>6. CASE StartLoad
  <2>1. regs'.rip = <<"boot", "switch">>
    BY <1>3, <1>6 DEF StartLoad, IsRegs
  <2> QED BY <1>1, <2>1, BootHidden DEF InBoot, Alive
<1> QED BY <1>4, <1>5, <1>6

\* The state of PID 1 becomes Running: no process sees it.
LEMMA SetStacksRefines ==
  ASSUME CtxInv, CtxInv', StartSetStacks
  PROVE  UNCHANGED M!machineVars
<1>1. /\ BootOK /\ regs.rip[2] = "set_stacks" /\ TableOK(procs, kstack, ustack) /\ InBoot
      /\ procs' = [procs EXCEPT ![InitSlot].state = "Running"]
      /\ regs' = [regs EXCEPT !.rip = <<"boot", "load">>]
      /\ UNCHANGED <<kstack, ustack>>
  BY BootState DEF StartSetStacks, BootStep, InBoot
<1>2. InBoot'
  <2>1. regs'.rip = <<"boot", "load">>
    BY <1>1 DEF BootOK, IsRegs
  <2> QED BY <2>1 DEF InBoot
<1>3. procs[InitSlot].state = "Ready" /\ IsProc(procs[InitSlot])
  <2>1. IsProc(procs[InitSlot])
    BY <1>1, Slots DEF TableOK, SlotOK
  <2>2. procs[InitSlot] = BootSlot("set_stacks", InitSlot)
    BY <1>1, Slots DEF BootOK
  <2>3. BootSlot("set_stacks", InitSlot).state = "Ready"
    BY DEF BootSlot, Spawned, Started, NewProc
  <2> QED BY <2>1, <2>2, <2>3
<1>4. /\ procs'[InitSlot].state = "Running" /\ procs'[InitSlot].pml4 = procs[InitSlot].pml4
      /\ procs'[InitSlot].in_signal = procs[InitSlot].in_signal
      /\ \A s \in Procs \ {InitSlot} : procs'[s] = procs[s]
  BY <1>1, <1>3, Slots DEF TableOK, IsProc
<1>5. \A s \in Procs : /\ Alive(s)' <=> Alive(s)
                       /\ Alive(s) => /\ procs'[s].pml4 = procs[s].pml4
                                      /\ procs'[s].in_signal = procs[s].in_signal
  BY <1>3, <1>4, Slots DEF Alive
<1> QED BY <1>1, <1>2, <1>5, BootHidden

\* spawn_init is a Spawn.
LEMMA SpawnRefines ==
  ASSUME CtxInv, CtxInv', SpawnInit
  PROVE  M!MachinesNext
<1> DEFINE start == Fresh(Entry, TopOfStack, <<"init">>)
<1>1. /\ BootOK /\ regs.rip[2] = "spawn" /\ TableOK(procs, kstack, ustack) /\ InBoot
      /\ kstack' = [kstack EXCEPT ![InitSlot] = start, ![IdleSlot] = Idle]
      /\ procs' = [procs EXCEPT ![InitSlot] = NewProc(InitSlot, 0, <<InitSlot, 0>>, FALSE),
                                ![IdleSlot] = NewProc(IdleSlot, 0, <<IdleSlot, 0>>, FALSE)]
      /\ regs' = [regs EXCEPT !.rip = <<"boot", "set_pid">>]
  BY BootState DEF SpawnInit, BootStep, InBoot
<1>2. View /\ View'
  BY Views
<1>3. InBoot'
  <2>1. regs'.rip = <<"boot", "set_pid">>
    BY <1>1 DEF BootOK, IsRegs
  <2> QED BY <2>1 DEF InBoot
<1>4. \A s \in Procs : ~Alive(s) /\ ~Here(s) /\ ~Here(s)'
  <2>1. \A s \in Procs : BootSlot("spawn", s) = NoProc
    BY DEF BootSlot, Spawned
  <2>2. \A s \in Procs : procs[s] = NoProc
    BY <1>1, <2>1 DEF BootOK
  <2> QED BY <1>1, <1>3, <2>2, Empty DEF Alive, Here
<1>5. /\ procs'[InitSlot] = NewProc(InitSlot, 0, <<InitSlot, 0>>, FALSE)
      /\ procs'[IdleSlot] = NewProc(IdleSlot, 0, <<IdleSlot, 0>>, FALSE)
      /\ \A s \in Procs \ {InitSlot, IdleSlot} : procs'[s] = procs[s]
      /\ kstack'[InitSlot] = start /\ kstack'[IdleSlot] = Idle
  BY Zenon, <1>1, Slots DEF TableOK, Stacks
<1>6. /\ Alive(InitSlot)' /\ procs'[InitSlot].pml4 = <<InitSlot, 0>>
      /\ procs'[InitSlot].in_signal = FALSE
  <2>1. procs'[InitSlot] = NewProc(InitSlot, 0, <<InitSlot, 0>>, FALSE)
    BY Zenon, <1>5
  <2>2. /\ procs'[InitSlot].state = "Ready" /\ procs'[InitSlot].pml4 = <<InitSlot, 0>>
        /\ procs'[InitSlot].in_signal = FALSE
    BY ONLY <2>1 DEF NewProc
  <2> QED BY <2>2 DEF Alive
<1>7. /\ Alive(IdleSlot)' /\ procs'[IdleSlot].pml4 = <<IdleSlot, 0>>
      /\ procs'[IdleSlot].in_signal = FALSE
  <2>1. procs'[IdleSlot] = NewProc(IdleSlot, 0, <<IdleSlot, 0>>, FALSE)
    BY Zenon, <1>5
  <2>2. /\ procs'[IdleSlot].state = "Ready" /\ procs'[IdleSlot].pml4 = <<IdleSlot, 0>>
        /\ procs'[IdleSlot].in_signal = FALSE
    BY ONLY <2>1 DEF NewProc
  <2> QED BY <2>2 DEF Alive
<1>8. \A s \in Procs \ {InitSlot, IdleSlot} : ~Alive(s)'
  BY <1>4, <1>5 DEF Alive
<1>9. /\ Contexts'[InitSlot] = start /\ Contexts'[IdleSlot] = Idle
      /\ Memories'[InitSlot] = <<InitSlot, 0>> /\ Memories'[IdleSlot] = <<IdleSlot, 0>>
      /\ \A s \in Procs \ {InitSlot, IdleSlot} : Contexts'[s] = M!Gone /\ Memories'[s] = M!Nowhere
      /\ \A s \in Procs : Contexts[s] = M!Gone
      /\ Turn' = Turn
  BY Zenon, <1>1, <1>2, <1>3, <1>4, <1>5, <1>6, <1>7, <1>8, Slots DEF View
<1>10. \A s \in Procs : Saved[s] = M!Gone /\ Saved'[s] = M!Gone
  <2>1. \A s \in Procs : Saved[s] = M!Gone
    BY Zenon, <1>2, <1>4 DEF View, SavedOf, M!Gone
  <2>2. ASSUME NEW s \in Procs PROVE Saved'[s] = M!Gone
    <3>1. ~Alive(s)' \/ procs'[s].in_signal = FALSE
      BY <1>6, <1>7, <1>8
    <3> QED BY Zenon, <1>2, <3>1 DEF View, SavedOf, M!Gone
  <2> QED BY <2>1, <2>2
<1>11. /\ Contexts = [p \in Procs |-> M!Gone] /\ Saved' = Saved
       /\ Contexts' = [Contexts EXCEPT ![InitSlot] = start, ![IdleSlot] = Idle]
  <2>1. Contexts = [s \in Procs |-> Contexts[s]] /\ Contexts' = [s \in Procs |-> Contexts'[s]]
    BY DEF Contexts
  <2> QED BY <1>9, <1>10, <2>1, NoneChanges, Slots
<1>12. /\ M!Fresh(M!Entry, M!TopOfStack, <<"init">>) = start /\ M!Idle = Idle
       /\ InitSlot = 1 /\ IdleSlot = 2
  BY DEF M!Fresh, M!Entry, M!TopOfStack, M!Idle, M!Zero, M!DefaultFlags, Fresh, Entry,
     TopOfStack, Idle, Zero, DefaultFlags, InitSlot, IdleSlot
<1> HIDE DEF start
<1>13. Memories'[1] # Memories'[2] /\ \A s \in Procs \ {1, 2} : Memories'[s] = M!Nowhere
  BY <1>9, <1>12
<1>14. Contexts' = [Contexts EXCEPT ![1] = start, ![2] = Idle]
  BY <1>11, <1>12
<1>15. M!Spawn
  BY Zenon, <1>9, <1>11, <1>12, <1>13, <1>14 DEF M!Spawn
<1> QED BY <1>15 DEF M!MachinesNext

\* The switch to PID 1 is a Resume.
LEMMA SwitchRefines ==
  ASSUME CtxInv, CtxInv', StartSwitch
  PROVE  M!MachinesNext
<1> DEFINE start == Fresh(Entry, TopOfStack, <<"init">>)
<1>1. BootOK /\ InBoot /\ regs.rip[2] = "switch" /\ TableOK(procs, kstack, ustack)
  BY BootState DEF StartSwitch, BootStep, InBoot
<1>2. regs.rdi[2] = InitSlot /\ InitSlot # Boot
  <2>1. regs.rdi = <<"stack", InitSlot>>
    BY Zenon, <1>1 DEF BootOK
  <2> QED BY <2>1 DEF InitSlot, Boot
<1>3. /\ kstack' = [kstack EXCEPT ![InitSlot] = NoFrame] /\ kstack[InitSlot] = start
      /\ current' = InitSlot /\ UNCHANGED <<procs, ustack>>
  BY Zenon, <1>1, <1>2 DEF StartSwitch, BootOK, Spawned
<1>4. mode' = "run" /\ regs' = start
  BY SwitchInv
<1>5. View /\ View'
  BY Views
<1>6. ~InBoot' /\ InitSlot # 0
  BY <1>4 DEF InBoot, Fresh, Entry, InitSlot
<1>7. Turn = 0 /\ Turn' = InitSlot
  BY <1>1, <1>3, <1>4, <1>5, <1>6 DEF View
<1>8. \A s \in Procs \ {InitSlot} : Away(s)
  BY <1>1, <1>3 DEF Away, Kept, Alive, Here, TableOK, Stacks
<1>9. ASSUME NEW s \in Procs, s = InitSlot
      PROVE  Kept(s) /\ Contexts'[s] = start /\ Contexts[s] = start
  <2>1. procs[s].state = "Running"
    BY <1>1, <1>9, Slots DEF BootOK, BootSlot, Spawned, Started, NewProc
  <2>2. Alive(s) /\ Alive(s)' /\ Kept(s) /\ Here(s)' /\ ~Here(s)
    BY <1>1, <1>3, <1>4, <1>6, <1>9, <2>1 DEF Alive, Kept, Here
  <2> QED BY Zenon, <1>3, <1>4, <1>5, <1>9, <2>2 DEF View
<1>10. \A s \in Procs : /\ Saved'[s] = Saved[s] /\ Memories'[s] = Memories[s]
                        /\ Contexts'[s] = Contexts[s]
  BY Zenon, <1>5, <1>8, <1>9, KeptView, AwayView
<1>11. Contexts[InitSlot] # M!Gone
  BY <1>9, Slots DEF Fresh, M!Gone
<1>12. M!Resume(InitSlot)
  BY <1>7, <1>10, <1>11, NoneChanges DEF M!Resume
<1> QED BY <1>12, Slots DEF M!MachinesNext

-----------------------------------------------------------------------------
(* The refinement *)

\* Before spawn_init there is no process.
LEMMA InitRefines ==
  ASSUME CtxInit
  PROVE  M!MachinesInit
<1>1. CtxInv
  BY InitInv
<1>2. View
  BY <1>1, Viewed
<1>3. InBoot /\ \A s \in Procs : procs[s] = NoProc
  BY DEF CtxInit, InBoot, BootAt
<1>4. \A s \in Procs : ~Alive(s)
  BY <1>3, Empty DEF Alive
<1>5. \A s \in Procs : Contexts[s] = M!Gone /\ Memories[s] = M!Nowhere /\ Saved[s] = M!Gone
  BY Zenon, <1>2, <1>4 DEF View, SavedOf, M!Gone
<1>6. /\ Contexts = [s \in Procs |-> Contexts[s]] /\ Saved = [s \in Procs |-> Saved[s]]
      /\ Memories = [s \in Procs |-> Memories[s]]
  BY DEF Contexts, Saved, Memories
<1>7. Turn = 0
  BY Zenon, <1>2, <1>3 DEF View
<1> QED BY <1>5, <1>6, <1>7 DEF M!MachinesInit

\* Every step of the kernel is a step of a machine, or a stutter.
LEMMA StepRefines ==
  ASSUME ~TickInStart, CtxInv, CtxInv', [CtxNext]_ctxVars
  PROVE  [M!MachinesNext]_(M!machineVars)
<1>1. CASE UNCHANGED ctxVars
  BY Zenon, <1>1 DEF ctxVars, M!machineVars, Turn, Contexts, Saved, Memories, ContextOf, SavedOf,
     MemOf, Alive, Executes, Frame, InBoot
<1>2. CASE BootNext
  BY <1>2, BootQuietRefines, SpawnRefines, SetStacksRefines, SwitchRefines DEF BootNext
<1>3. ASSUME NEW input \in Inputs, Irq(input) PROVE [M!MachinesNext]_(M!machineVars)
  BY <1>3, IrqBootRefines, IrqRunRefines
<1>4. ASSUME NEW n \in Procs, Select(n) PROVE M!MachinesNext
  BY <1>4, SelectRunRefines, SelectHandlerRefines, SelectKilledRefines DEF Select
<1>5. ASSUME NEW t \in Points, UserStep(t) \/ Syscall(t) PROVE M!MachinesNext
  BY <1>5, UserStepRefines, SyscallRefines
<1> QED BY <1>1, <1>2, <1>3, <1>4, <1>5 DEF CtxNext

\* The kernel gives every process a processor of its own, as long as no tick
\* comes inside start_scheduler: a process resumes with exactly the registers
\* and the memory it was interrupted with, a handler returns to the context it
\* interrupted, and no step of one process shows in another.
THEOREM ContextImplementsMachines ==
  ASSUME ~TickInStart
  PROVE  CtxSpec => ImplementsMachines
<1>1. CtxInit => M!MachinesInit
  BY InitRefines
<1>2. CtxInv /\ CtxInv' /\ [CtxNext]_ctxVars => [M!MachinesNext]_(M!machineVars)
  BY StepRefines
<1> QED BY <1>1, <1>2, ContextInvariance, PTL DEF CtxSpec, ImplementsMachines, M!MachinesSpec

-----------------------------------------------------------------------------
(* The results of system calls *)

\* A call that returns and shows in no other process delivers its result.
LEMMA QuietResult ==
  ASSUME CtxInv, CtxInv', NEW t, NEW call, AtCall(t, call), NEW STATE rax, Quiet(t, rax)
  PROVE  ContextOf(current)'.rax = rax
<1>1. PICK ps, ks, schedule : QuietLeave(t, ps, ks, rax, schedule)
  BY DEF Quiet
<1>2. /\ Left(ps, ks, ustack') /\ Leave(ps, ks, regs, rax, schedule) /\ current' = current
  BY Zenon, <1>1 DEF QuietLeave
<1>3. ps[current].state # "Zombie" /\ (ps[current].state # "Running" => schedule)
  BY Zenon, <1>1 DEF QuietLeave
<1>4. InCall /\ current \in Procs
  BY CallState DEF InCall
<1>5. LET c == current
          r == Contexts'[c] IN
      /\ Turn = c /\ Turn' \in {0, c} /\ Contexts[c] = regs
      /\ r.rax = rax /\ r.rdi = Zero /\ r.rip = regs.rip /\ r.rsp = regs.rsp
      /\ r.cs = "user" /\ r.rflags \in {regs.rflags, DefaultFlags}
      /\ r.rbx \in {regs.rbx, Zero}
      /\ Alive(c) /\ Alive(c)'
      /\ procs'[c].pml4 = ps[c].pml4 /\ procs'[c].in_signal = ps[c].in_signal
      /\ \A s \in Procs \ {c} : procs'[s] = ps[s] /\ kstack'[s] = ks[s] /\ ~Here(s) /\ ~Here(s)'
  BY Zenon, <1>2, <1>3, <1>4, Leaving
<1>6. PICK c \in Procs : c = current
  BY <1>4
<1>7. Contexts'[c] = ContextOf(c)'
  BY Zenon DEF Contexts
<1> QED BY Zenon, <1>2, <1>5, <1>6, <1>7

\* fork delivers its result.
LEMMA ForkResult ==
  ASSUME CtxInv, CtxInv', NEW t, NEW q \in Procs, SysFork(t, q)
  PROVE  ContextOf(current)'.rax = Result(t)
<1> DEFINE ps == ForkTable(q)
           ks == ForkStacks(q)
<1>1. /\ AtCall(t, "fork") /\ current' = current /\ ustack' = ustack
      /\ Leave(ps, ks, regs, Result(t), should_schedule)
  BY DEF SysFork, ForkTable, ForkStacks
<1>2. InCall /\ current \in Procs /\ procs[current].state = "Running"
  BY Zenon, <1>1, CallState DEF InCall
<1>3. /\ Left(ps, ks, ustack') /\ q # current
      /\ \A s \in Procs \ {q} : ps[s] = procs[s] /\ ks[s] = kstack[s]
  BY Zenon, ForkLeft
<1> HIDE DEF ps, ks
<1>4. ps[current].state = "Running"
  BY SMTT(30), <1>2, <1>3
<1>5. LET c == current
          r == Contexts'[c] IN
      /\ Turn = c /\ Turn' \in {0, c} /\ Contexts[c] = regs
      /\ r.rax = Result(t) /\ r.rdi = Zero /\ r.rip = regs.rip /\ r.rsp = regs.rsp
      /\ r.cs = "user" /\ r.rflags \in {regs.rflags, DefaultFlags}
      /\ r.rbx \in {regs.rbx, Zero}
      /\ Alive(c) /\ Alive(c)'
      /\ procs'[c].pml4 = ps[c].pml4 /\ procs'[c].in_signal = ps[c].in_signal
      /\ \A s \in Procs \ {c} : procs'[s] = ps[s] /\ kstack'[s] = ks[s] /\ ~Here(s) /\ ~Here(s)'
  BY Zenon, <1>1, <1>2, <1>3, <1>4, Leaving
<1>6. PICK c \in Procs : c = current
  BY <1>2
<1>7. Contexts'[c] = ContextOf(c)'
  BY Zenon DEF Contexts
<1> QED BY Zenon, <1>1, <1>5, <1>6, <1>7

\* A call that completes delivers its result, also when a wakeup that came
\* during the call makes it leave through the scheduler.
THEOREM ResultsAreDelivered ==
  ASSUME ~TickInStart
  PROVE  CtxSpec => ResultsSurvive
<1> DEFINE Delivered == \A t \in Points : Completes(t) => ContextOf(current)'.rax = Result(t)
<1>1. ASSUME CtxInv, CtxInv', NEW t \in Points, Completes(t)
      PROVE  ContextOf(current)'.rax = Result(t)
  <2>1. CASE SysPlain(t)
    BY Zenon, <1>1, <2>1, PlainQuiet, QuietResult DEF SysPlain
  <2>2. CASE SysSigaction(t)
    BY Zenon, <1>1, <2>2, SigactionQuiet, QuietResult DEF SysSigaction
  <2>3. ASSUME NEW q \in Procs, SysKill(t, q) PROVE ContextOf(current)'.rax = Result(t)
    BY Zenon, <1>1, <2>3, KillQuiet, QuietResult DEF SysKill
  <2>4. ASSUME NEW q \in Procs, SysFork(t, q) PROVE ContextOf(current)'.rax = Result(t)
    BY Zenon, <1>1, <2>4, ForkResult
  <2>5. ASSUME NEW q \in Procs, SysWaitReap(t, q) PROVE ContextOf(current)'.rax = Result(t)
    BY Zenon, <1>1, <2>5, WaitReapQuiet, QuietResult DEF SysWaitReap
  <2> QED BY Zenon, <1>1, <2>1, <2>2, <2>3, <2>4, <2>5 DEF Completes
<1>2. CtxInv /\ CtxInv' /\ [CtxNext]_ctxVars => [Delivered]_ctxVars
  BY Zenon, <1>1
<1> QED BY <1>2, ContextInvariance, PTL DEF CtxSpec, ResultsSurvive
=============================================================================
