--------------------------- MODULE ProcessProofs ---------------------------
(***************************************************************************)
(* Proofs of the safety properties of module Process, for every size of    *)
(* the process table, every set of signals and every bound on pids.        *)
(***************************************************************************)
EXTENDS Process, FiniteSetTheorems, TLAPS

Reasons == {"child", "anychild", "tty"}

States == {"None", "Ready", "Running", "Blocked", "Zombie"}

WaitsForChild(p) == p.state = "Blocked" /\ p.blocked_on \in {"child", "anychild"}

(***************************************************************************)
(* What every change to a process but death, birth and reaping respects:   *)
(* it keeps its identity, it neither dies nor revives, and it does not     *)
(* start to wait for a child.                                              *)
(***************************************************************************)
Keeps(p, q) ==
  /\ q \in ProcessRec
  /\ q.pid = p.pid
  /\ q.parent_pid = p.parent_pid
  /\ q.exit_code = p.exit_code
  /\ q.state = "None" <=> p.state = "None"
  /\ q.state = "Zombie" <=> p.state = "Zombie"
  /\ WaitsForChild(q) => WaitsForChild(p) /\ q.wait_for_pid = p.wait_for_pid

-----------------------------------------------------------------------------
(* The changes to one process *)

\* Setting the state (Ready, Running) of a live process keeps what Keeps says.
LEMMA SetStateKeeps ==
  ASSUME NEW p \in ProcessRec, NEW st \in {"Ready", "Running"},
         p.state \notin {"None", "Zombie"}
  PROVE  Keeps(p, SetState(p, st)) /\ SetState(p, st).state = st
BY DEF SetState, Keeps, ProcessRec, WaitsForChild

\* Changing the pending signals changes nothing else.
LEMMA SetPendingKeeps ==
  ASSUME NEW p \in ProcessRec, NEW sigs \in SUBSET Signals
  PROVE  Keeps(p, SetPending(p, sigs)) /\ SetPending(p, sigs).state = p.state
BY DEF SetPending, Keeps, ProcessRec, WaitsForChild

\* Waking a blocked process.
LEMMA WakeKeeps ==
  ASSUME NEW p \in ProcessRec, p.state = "Blocked"
  PROVE  /\ Keeps(p, Wake(p)) /\ Wake(p).state = "Ready"
         /\ Wake(p).sig_pending = p.sig_pending
BY Zenon DEF Wake, Keeps, ProcessRec, WaitsForChild

\* Blocking in waitpid() or read(): the fields it sets and the ones it keeps.
LEMMA BlockFields ==
  ASSUME NEW p \in ProcessRec, NEW pid \in Nat,
         NEW why \in Reasons
  PROVE  /\ Block(p, why, pid) \in ProcessRec
         /\ Block(p, why, pid).pid = p.pid
         /\ Block(p, why, pid).parent_pid = p.parent_pid
         /\ Block(p, why, pid).exit_code = p.exit_code
         /\ Block(p, why, pid).state = "Blocked"
         /\ Block(p, why, pid).wait_for_pid = pid
         /\ Block(p, why, pid).blocked_on = why
BY Zenon DEF Block, ProcessRec, Reasons

\* Dying.
LEMMA ZombifyFields ==
  ASSUME NEW p \in ProcessRec, NEW sigs \in SUBSET Signals, NEW code \in Nat
  PROVE  LET q == Zombify(p, sigs, code)
         IN  /\ q \in ProcessRec /\ q.pid = p.pid
             /\ q.parent_pid = p.parent_pid /\ q.state = "Zombie"
BY Zenon DEF Zombify, ProcessRec

\* The wakeup that mark_zombie gives to the waiting parent.
LEMMA EndWaitKeeps ==
  ASSUME NEW p \in ProcessRec, p.state = "Blocked"
  PROVE  Keeps(p, EndWait(p)) /\ EndWait(p).state = "Ready"
BY Zenon DEF EndWait, Keeps, ProcessRec, WaitsForChild

\* Entering a handler.
LEMMA EnterHandlerKeeps ==
  ASSUME NEW p \in ProcessRec, NEW sigs \in SUBSET Signals,
         p.state \notin {"None", "Zombie"}
  PROVE  Keeps(p, EnterHandler(p, sigs)) /\ EnterHandler(p, sigs).state = "Running"
BY Zenon DEF EnterHandler, Keeps, ProcessRec, WaitsForChild

\* sigreturn.
LEMMA LeaveHandlerKeeps ==
  ASSUME NEW p \in ProcessRec, NEW sigs \in SUBSET Signals
  PROVE  Keeps(p, LeaveHandler(p, sigs)) /\ LeaveHandler(p, sigs).state = p.state
BY Zenon DEF LeaveHandler, Keeps, ProcessRec, WaitsForChild

\* sigaction.
LEMMA SetActionKeeps ==
  ASSUME NEW p \in ProcessRec, NEW sig \in Signals, NEW action \in Dispositions
  PROVE  Keeps(p, SetAction(p, sig, action)) /\ SetAction(p, sig, action).state = p.state
BY DEF SetAction, Keeps, ProcessRec, WaitsForChild

\* exec.
LEMMA FreshSignalsKeeps ==
  ASSUME NEW p \in ProcessRec
  PROVE  Keeps(p, FreshSignals(p)) /\ FreshSignals(p).state = p.state
BY Zenon DEF FreshSignals, Keeps, ProcessRec, WaitsForChild, AllDefault, Dispositions

\* Changes compose.
LEMMA KeepsTrans ==
  ASSUME NEW p, NEW q, NEW r, Keeps(p, q), Keeps(q, r)
  PROVE  Keeps(p, r)
BY DEF Keeps

\* A process that does not change.
LEMMA KeepsRefl ==
  ASSUME NEW p \in ProcessRec
  PROVE  Keeps(p, p)
BY DEF Keeps

\* Terminal input wakes at most a blocked process.
LEMMA InputKeeps ==
  ASSUME NEW p \in ProcessRec, NEW ev, ConstantsAssumption
  PROVE  /\ Keeps(p, Input(ev, p))
         /\ Input(ev, p).state = p.state
              \/ (p.state = "Blocked" /\ Input(ev, p).state = "Ready")
<1>1. CASE ev = "none" \/ ~IsReader(p)
  BY <1>1, KeepsRefl DEF Input
<1>2. CASE ~(ev = "none" \/ ~IsReader(p))
  <2>1. p.state = "Blocked"
    BY <1>2 DEF IsReader
  <2>2. Keeps(p, Wake(p)) /\ Wake(p).state = "Ready"
    BY <2>1, WakeKeeps
  <2>3. p.sig_pending \union {SIGINT} \in SUBSET Signals
    BY DEF ProcessRec, ConstantsAssumption
  <2>4. Wake(p) \in ProcessRec
    BY <2>2 DEF Keeps
  <2>5. LET q == SetPending(Wake(p), p.sig_pending \union {SIGINT})
        IN  Keeps(Wake(p), q) /\ q.state = "Ready"
    BY <2>2, <2>3, <2>4, SetPendingKeeps
  <2>6. Keeps(p, SetPending(Wake(p), p.sig_pending \union {SIGINT}))
    BY <2>2, <2>5, KeepsTrans
  <2> QED BY <1>2, <2>1, <2>2, <2>5, <2>6 DEF Input
<1> QED BY <1>1, <1>2

\* A new process, and the empty slot.
LEMMA NewProcessFields ==
  ASSUME NEW pid \in Nat, NEW par \in Nat, NEW st \in States,
         NEW actions \in [Signals -> Dispositions]
  PROVE  LET q == NewProcess(pid, st, par, actions)
         IN  /\ q \in ProcessRec /\ q.pid = pid /\ q.state = st
             /\ q.parent_pid = par
BY DEF NewProcess, ProcessRec, States

\* What an empty slot holds.
LEMMA NoneFields ==
  None \in ProcessRec /\ None.pid = 0 /\ None.state = "None"
<1>1. AllDefault \in [Signals -> Dispositions]
  BY DEF AllDefault, Dispositions
<1> QED BY <1>1, NewProcessFields DEF None, States

-----------------------------------------------------------------------------
(* The current process *)

\* A pid that one slot holds is found there.
LEMMA ChooseSlot ==
  ASSUME NEW S, NEW table, NEW pid, NEW c \in S, table[c].pid = pid,
         \A s \in S : table[s].pid = pid => s = c
  PROVE  (CHOOSE s \in S : table[s].pid = pid) = c
OBVIOUS

\* process(CURRENT_PID) succeeds, and finds the one slot with that pid.
LEMMA CurrentFound ==
  ASSUME IInv
  PROVE  /\ CurSlot \in Slots
         /\ slots[CurSlot].pid = current_pid
         /\ slots[CurSlot].state # "None"
         /\ \A s \in Slots : slots[s].pid = current_pid => s = CurSlot
<1>1. CurSlot \in Slots /\ slots[CurSlot].pid = current_pid
  BY DEF IInv, OneRunning, Occupied, CurSlot
<1>2. current_pid # 0
  BY DEF IInv, OneRunning, Occupied, EmptySlots
<1>3. slots[CurSlot].state # "None"
  BY <1>1, <1>2 DEF EmptySlots, IInv
<1>4. \A s \in Slots : slots[s].pid = current_pid => s = CurSlot
  BY <1>1, <1>2, <1>3 DEF Occupied, EmptySlots, PidsUnique, IInv
<1> QED BY <1>1, <1>3, <1>4

\* What the invariant says of the slots in the terms the steps use.
LEMMA TableFacts ==
  ASSUME IInv
  PROVE  /\ \A s \in Slots : slots[s] \in ProcessRec
         /\ \A s \in Slots : slots[s].state = "Running" => s = CurSlot
         /\ IdleSlot \in Slots
         /\ slots[IdleSlot].pid = IdlePid
         /\ slots[IdleSlot].state \in {"Ready", "Running"}
         /\ \A s \in Slots : slots[s].pid = IdlePid => s = IdleSlot
         /\ next_pid \in Nat /\ count \in Nat /\ current_pid \in Nat
         /\ waiting_pid \in Nat /\ tty_avail \in 0..TtyCap
<1> USE ConstantsAssumption
<1>1. IdleSlot \in Slots
  BY DEF IdleSlot, Slots, ConstantsAssumption
<1>2. \A s \in Slots : slots[s].state = "Running" => s = CurSlot
  BY CurrentFound DEF IInv, OneRunning
<1>3. \A s \in Slots : slots[s].pid = IdlePid => s = IdleSlot
  BY <1>1 DEF IInv, IdleAlive, PidsUnique, Occupied, EmptySlots, IdlePid
<1> QED BY <1>1, <1>2, <1>3 DEF IInv, TypeOK, IdleAlive

-----------------------------------------------------------------------------
(* The invariant holds initially *)

\* spawn_init() and start_scheduler() establish the invariant.
LEMMA InitInv == Init => IInv
<1> SUFFICES ASSUME Init PROVE IInv
  OBVIOUS
<1>1. AllDefault \in [Signals -> Dispositions]
  BY DEF AllDefault, Dispositions
<1> DEFINE init == NewProcess(1, "Running", 0, AllDefault)
<1> DEFINE idle == NewProcess(2, "Ready", 0, AllDefault)
<1>2. init \in ProcessRec /\ init.pid = 1 /\ init.state = "Running" /\ init.parent_pid = 0
  <2>1. 1 \in Nat /\ 0 \in Nat /\ "Running" \in States
    BY DEF States
  <2> QED BY <1>1, <2>1, NewProcessFields
<1>3. idle \in ProcessRec /\ idle.pid = 2 /\ idle.state = "Ready" /\ idle.parent_pid = 0
  <2>1. 2 \in Nat /\ 0 \in Nat /\ "Ready" \in States
    BY DEF States
  <2> QED BY <1>1, <2>1, NewProcessFields
<1>a. slots = [s \in Slots |-> IF s = 0 THEN init ELSE IF s = 1 THEN idle ELSE None]
  BY DEF Init, IdleSlot, IdlePid
<1> HIDE DEF init, idle
<1> USE ConstantsAssumption DEF Slots, IdleSlot, IdlePid
<1>b. 0 \in Slots /\ 1 \in Slots
  BY DEF ConstantsAssumption
<1>4. TypeOK
  <2>1. slots \in [Slots -> ProcessRec]
    BY <1>2, <1>3, <1>a, NoneFields
  <2>2. /\ next_pid = 3 /\ count = 2 /\ current_pid = 1 /\ should_schedule = FALSE
        /\ waiting_pid = 0 /\ tty_avail = 0 /\ phase = "user"
    BY DEF Init
  <2>3. tty_avail \in 0..TtyCap
    BY <2>2 DEF ConstantsAssumption
  <2>4. should_schedule \in BOOLEAN
    BY <2>2, Zenon
  <2> QED BY <2>1, <2>2, <2>3, <2>4 DEF TypeOK
<1>5. /\ slots[0].pid = 1 /\ slots[0].state = "Running" /\ slots[0].parent_pid = 0
      /\ slots[1].pid = 2 /\ slots[1].state = "Ready" /\ slots[1].parent_pid = 0
      /\ \A s \in Slots \ {0, 1} : slots[s].pid = 0 /\ slots[s].state = "None"
  BY <1>2, <1>3, <1>a, <1>b, NoneFields
<1>6. EmptySlots /\ PidsUnique /\ ParentsOlder /\ IdleAlive
  BY <1>b, <1>5 DEF EmptySlots, PidsUnique, ParentsOlder, IdleAlive, Occupied, Init
<1>7. CurSlot = 0
  <2>1. slots[0].pid = current_pid /\ \A s \in Slots : slots[s].pid = current_pid => s = 0
    BY <1>b, <1>5 DEF Init
  <2> QED BY <1>b, <2>1, ChooseSlot DEF CurSlot
<1>8. OneRunning /\ PhaseStates /\ NeverHalts /\ WaitedChildAlive
  BY <1>b, <1>5, <1>7
     DEF OneRunning, PhaseStates, NeverHalts, WaitedChildAlive, Occupied, Init
<1> QED BY <1>4, <1>6, <1>8 DEF IInv, Init

-----------------------------------------------------------------------------
(* Steps that change processes in place *)

\* What every step does to the table: zombies stay, and at most one slot is
\* taken or given back, and counted.
TableStep ==
  /\ ZombieStep
  /\ \/ Occupied' = Occupied /\ count' = count
     \/ \E s \in Slots \ Occupied : Occupied' = Occupied \union {s} /\ count' = count + 1
     \/ \E s \in Occupied : /\ Occupied' = Occupied \ {s}
                            /\ count' = IF count > 0 THEN count - 1 ELSE 0

(***************************************************************************)
(* What such a step must establish, given that c is the slot of the        *)
(* process that is current after it.                                       *)
(***************************************************************************)
Frame(c) ==
  /\ slots' \in [Slots -> ProcessRec]
  /\ \A s \in Slots : /\ slots'[s].pid = slots[s].pid
                      /\ slots'[s].parent_pid = slots[s].parent_pid
                      /\ slots'[s].state = "None" <=> slots[s].state = "None"
                      /\ slots'[s].state = "Running" => s = c
  /\ slots[c].pid = current_pid'
  /\ slots[c].state # "None"
  /\ slots'[IdleSlot].state \in {"Ready", "Running"}
  /\ next_pid' = next_pid
  /\ count' \in Nat
  /\ should_schedule' \in BOOLEAN
  /\ waiting_pid' \in Nat
  /\ tty_avail' \in 0..TtyCap
  /\ phase' \in {"user", "syscall", "exit", "sched", "panic"}
  /\ phase' \in {"user", "syscall"} => slots'[c].state = "Running"
  /\ phase' = "exit" => /\ slots'[c].state \in {"Running", "Blocked", "Zombie"}
                        /\ ~should_schedule' => slots'[c].state = "Running"
  /\ phase' = "sched" => slots'[c].state # "Running"
  /\ phase' \in {"syscall", "exit"} => current_pid' # IdlePid

\* Such a step preserves the invariant if it loses no wakeup.
LEMMA FrameInv ==
  ASSUME IInv, NEW c \in Slots, Frame(c), WaitedChildAlive'
  PROVE  IInv' /\ CurSlot' = c
<1> USE ConstantsAssumption
<1>0. IdleSlot \in Slots
  BY DEF IdleSlot, Slots, ConstantsAssumption
<1>1. TypeOK'
  BY DEF Frame, TypeOK, IInv, ProcessRec
<1>2. EmptySlots' /\ PidsUnique' /\ ParentsOlder' /\ IdleAlive' /\ (next_pid >= 3)'
  <2>1. EmptySlots'
    BY DEF Frame, IInv, EmptySlots
  <2>2. Occupied' = Occupied
    BY DEF Frame, Occupied
  <2>3. PidsUnique' /\ ParentsOlder'
    BY <2>2 DEF Frame, IInv, PidsUnique, ParentsOlder, Occupied
  <2>4. IdleAlive'
    BY <1>0 DEF Frame, IInv, IdleAlive
  <2> QED BY <2>1, <2>3, <2>4 DEF Frame, IInv
<1>3. slots'[c].pid = current_pid' /\ \A s \in Slots : slots'[s].pid = current_pid' => s = c
  BY DEF Frame, IInv, PidsUnique, EmptySlots, Occupied
<1>4. CurSlot' = c
  <2>1. (CHOOSE s \in Slots : slots'[s].pid = current_pid') = c
    BY <1>3, ChooseSlot
  <2> QED BY <2>1 DEF CurSlot
<1>5. OneRunning'
  BY <1>3, <1>4 DEF Frame, OneRunning, Occupied
<1>6. PhaseStates' /\ NeverHalts'
  BY <1>4 DEF Frame, PhaseStates, NeverHalts
<1> QED BY <1>1, <1>2, <1>4, <1>5, <1>6 DEF IInv

\* No wakeup is lost by changes that keep what Keeps says.
LEMMA KeepsWaits ==
  ASSUME IInv, \A s \in Slots : Keeps(slots[s], slots'[s])
  PROVE  WaitedChildAlive'
<1> SUFFICES ASSUME NEW s \in Slots, WaitsForChild(slots'[s])
             PROVE  \E c \in Occupied' :
                      /\ slots'[c].pid = slots'[s].wait_for_pid
                      /\ slots'[c].parent_pid = slots'[s].pid
                      /\ slots'[c].state # "Zombie"
  BY DEF WaitedChildAlive, WaitsForChild
<1>1. WaitsForChild(slots[s]) /\ slots'[s].wait_for_pid = slots[s].wait_for_pid
  BY DEF Keeps
<1>2. PICK c \in Occupied : /\ slots[c].pid = slots[s].wait_for_pid
                            /\ slots[c].parent_pid = slots[s].pid
                            /\ slots[c].state # "Zombie"
  BY <1>1 DEF IInv, WaitedChildAlive, WaitsForChild
<1>3. c \in Occupied'
  BY DEF Occupied, Keeps
<1> QED BY <1>1, <1>2, <1>3 DEF Keeps, Occupied

\* The step of a process that dies, in slot x, and stays current.
LEMMA MarkZombieInv ==
  ASSUME IInv, NEW x \in Slots, NEW sigs \in SUBSET Signals, NEW code \in Nat,
         slots' = MarkZombie(x, sigs, code),
         slots[x].state \notin {"None", "Zombie"}, slots[x].pid # IdlePid,
         \A s \in Slots : slots[s].state = "Running" => s = x,
         current_pid' = slots[x].pid,
         UNCHANGED <<next_pid, count, waiting_pid, tty_avail>>,
         \/ phase' = "exit" /\ should_schedule' = TRUE
         \/ phase' = "sched" /\ should_schedule' = should_schedule
  PROVE  IInv' /\ CurSlot' = x /\ TableStep
<1> USE ConstantsAssumption
<1>1. \A s \in Slots : slots[s] \in ProcessRec
  BY DEF IInv, TypeOK
<1>2. /\ slots'[x] \in ProcessRec /\ slots'[x].pid = slots[x].pid
      /\ slots'[x].parent_pid = slots[x].parent_pid /\ slots'[x].state = "Zombie"
  BY <1>1, ZombifyFields DEF MarkZombie
<1>3. \A s \in Slots \ {x} : IF WaitsFor(slots[s], slots[x])
                             THEN /\ Keeps(slots[s], slots'[s])
                                  /\ slots'[s].state = "Ready"
                             ELSE slots'[s] = slots[s]
  BY <1>1, EndWaitKeeps DEF MarkZombie, WaitsFor
<1>4. IdleSlot \in Slots /\ IdleSlot # x
  BY DEF IdleSlot, Slots, ConstantsAssumption, IInv, IdleAlive
<1>5. Frame(x)
  <2>1. slots' \in [Slots -> ProcessRec]
    <3>1. slots' = [s \in Slots |-> slots'[s]]
      BY DEF MarkZombie
    <3>2. \A s \in Slots : slots'[s] \in ProcessRec
      BY <1>1, <1>2, <1>3 DEF Keeps
    <3> QED BY <3>1, <3>2
  <2>2. \A s \in Slots : /\ slots'[s].pid = slots[s].pid
                         /\ slots'[s].parent_pid = slots[s].parent_pid
                         /\ slots'[s].state = "None" <=> slots[s].state = "None"
                         /\ slots'[s].state = "Running" => s = x
    BY <1>2, <1>3 DEF Keeps
  <2>3. slots'[IdleSlot].state \in {"Ready", "Running"}
    BY <1>3, <1>4 DEF IInv, IdleAlive
  <2> QED BY <1>2, <2>1, <2>2, <2>3, Zenon DEF Frame, IInv, TypeOK
<1>6. WaitedChildAlive'
  <2> SUFFICES ASSUME NEW s \in Slots, WaitsForChild(slots'[s])
               PROVE  \E c \in Occupied' :
                        /\ slots'[c].pid = slots'[s].wait_for_pid
                        /\ slots'[c].parent_pid = slots'[s].pid
                        /\ slots'[c].state # "Zombie"
    BY DEF WaitedChildAlive, WaitsForChild
  <2>1. s # x /\ ~WaitsFor(slots[s], slots[x]) /\ slots'[s] = slots[s]
    BY <1>2, <1>3 DEF WaitsForChild
  <2>2. PICK c \in Occupied : /\ slots[c].pid = slots[s].wait_for_pid
                              /\ slots[c].parent_pid = slots[s].pid
                              /\ slots[c].state # "Zombie"
    BY <2>1 DEF IInv, WaitedChildAlive, WaitsForChild
  <2>3. slots[s].pid # 0
    BY <2>1 DEF IInv, EmptySlots, WaitsForChild
  <2>4. c # x
    BY <2>1, <2>2, <2>3 DEF WaitsFor, WaitsForChild
  <2>5. c \in Occupied' /\ slots'[c].state # "Zombie"
    BY <1>3, <2>2, <2>4 DEF Occupied, Keeps
  <2> QED BY <1>3, <2>1, <2>2, <2>4, <2>5 DEF Keeps, Occupied
<1>7. TableStep
  <2>1. ZombieStep
    BY <1>3 DEF ZombieStep, Keeps
  <2>2. Occupied' = Occupied
    BY <1>5 DEF Frame, Occupied
  <2> QED BY <2>1, <2>2 DEF TableStep
<1> QED BY <1>5, <1>6, <1>7, FrameInv

-----------------------------------------------------------------------------
(* One step per action *)

\* The changes of a step to the processes, and to nothing else in the table.
InPlace == slots' \in [Slots -> ProcessRec] /\ \A s \in Slots : Keeps(slots[s], slots'[s])

\* Such a step in terms of Frame.
LEMMA InPlaceFrame ==
  ASSUME IInv, NEW c \in Slots, InPlace,
         \A s \in Slots : slots'[s].state = "Running" => s = c,
         slots[c].pid = current_pid', slots[c].state # "None",
         slots'[IdleSlot].state \in {"Ready", "Running"},
         next_pid' = next_pid, count' = count,
         should_schedule' \in BOOLEAN, waiting_pid' \in Nat,
         tty_avail' \in 0..TtyCap,
         phase' \in {"user", "syscall", "exit", "sched", "panic"},
         phase' \in {"user", "syscall"} => slots'[c].state = "Running",
         phase' = "exit" => /\ slots'[c].state \in {"Running", "Blocked", "Zombie"}
                            /\ ~should_schedule' => slots'[c].state = "Running",
         phase' = "sched" => slots'[c].state # "Running",
         phase' \in {"syscall", "exit"} => current_pid' # IdlePid
  PROVE  IInv' /\ CurSlot' = c /\ TableStep
<1>1. Frame(c)
  BY TableFacts DEF Frame, InPlace, Keeps
<1>2. WaitedChildAlive'
  BY KeepsWaits DEF InPlace
<1>3. TableStep
  <2>1. ZombieStep
    BY DEF ZombieStep, InPlace, Keeps
  <2>2. Occupied' = Occupied
    BY <1>1 DEF Frame, Occupied
  <2> QED BY <2>1, <2>2 DEF TableStep
<1> QED BY <1>1, <1>2, <1>3, FrameInv

\* A change of one slot that keeps what Keeps says.
LEMMA OneInPlace ==
  ASSUME IInv, NEW s \in Slots, NEW q, slots' = [slots EXCEPT ![s] = q],
         Keeps(slots[s], q)
  PROVE  /\ InPlace
         /\ slots'[s] = q
         /\ \A t \in Slots \ {s} : slots'[t] = slots[t]
BY KeepsRefl DEF InPlace, IInv, TypeOK, Keeps

\* scheduler_tick() with its terminal input preserves it.
LEMMA TickInv ==
  ASSUME IInv, NEW ev, Tick(ev)
  PROVE  IInv' /\ TableStep
<1> USE ConstantsAssumption, CurrentFound, TableFacts
<1>1. \A s \in Slots : /\ Keeps(slots[s], Input(ev, slots[s]))
                       /\ Input(ev, slots[s]).state = slots[s].state
                            \/ (slots[s].state = "Blocked" /\ Input(ev, slots[s]).state = "Ready")
  BY InputKeeps
<1>2. slots[CurSlot].state = "Running"
  BY DEF Tick, IInv, OneRunning
<1>3. /\ Keeps(slots[CurSlot], slots'[CurSlot])
      /\ slots'[CurSlot].state = "Ready"
  <2> DEFINE p == Input(ev, slots[CurSlot])
  <2>1. Keeps(slots[CurSlot], p) /\ p.state = "Running" /\ p \in ProcessRec
    BY <1>1, <1>2 DEF Keeps
  <2>2. slots'[CurSlot] = SetState(p, "Ready")
    BY DEF Tick
  <2> HIDE DEF p
  <2>3. Keeps(p, SetState(p, "Ready")) /\ SetState(p, "Ready").state = "Ready"
    BY <2>1, SetStateKeeps
  <2> QED BY <2>1, <2>2, <2>3, KeepsTrans
<1>4. \A s \in Slots \ {CurSlot} : slots'[s] = Input(ev, slots[s])
  BY DEF Tick
<1>5. InPlace
  <2>1. \A s \in Slots : Keeps(slots[s], slots'[s])
    BY <1>1, <1>3, <1>4
  <2>2. slots' = [s \in Slots |-> slots'[s]]
    BY DEF Tick
  <2> QED BY <2>1, <2>2 DEF InPlace, Keeps
<1>6. \A s \in Slots : slots'[s].state # "Running"
  BY <1>1, <1>3, <1>4
<1>7. slots'[IdleSlot].state \in {"Ready", "Running"}
  BY <1>1, <1>3, <1>4
<1>8. waiting_pid' \in Nat /\ should_schedule' \in BOOLEAN /\ tty_avail' \in 0..TtyCap
  BY DEF Tick, InputWaiting, InputSchedule, InputAvail, ConstantsAssumption
<1>9. /\ phase' = "sched" /\ next_pid' = next_pid /\ count' = count
      /\ current_pid' = current_pid
  BY DEF Tick
<1> QED BY <1>5, <1>6, <1>7, <1>8, <1>9, InPlaceFrame

\* A step that changes only the current process, in place, and stays in the
\* kernel on its behalf.
LEMMA CurrentStepInv ==
  ASSUME IInv, NEW q, slots' = [slots EXCEPT ![CurSlot] = q],
         Keeps(slots[CurSlot], q),
         q.state = slots[CurSlot].state, slots[CurSlot].state = "Running",
         current_pid # IdlePid,
         UNCHANGED <<next_pid, count, current_pid, waiting_pid, tty_avail>>,
         should_schedule' \in BOOLEAN,
         phase' \in {"syscall", "exit", "panic"}
  PROVE  IInv' /\ TableStep
<1> USE CurrentFound, TableFacts
<1>1. /\ InPlace /\ slots'[CurSlot] = q
      /\ \A t \in Slots \ {CurSlot} : slots'[t] = slots[t]
  BY OneInPlace, Zenon
<1>2. \A s \in Slots : slots'[s].state = slots[s].state
  BY <1>1
<1> QED BY <1>1, <1>2, InPlaceFrame

\* Nothing changes but the phase and should_schedule.
LEMMA QuietStepInv ==
  ASSUME IInv, slots[CurSlot].state = "Running", current_pid # IdlePid,
         UNCHANGED <<slots, next_pid, count, current_pid, waiting_pid, tty_avail>>,
         should_schedule' \in BOOLEAN,
         phase' \in {"user", "syscall", "exit", "panic"}
  PROVE  IInv' /\ TableStep
<1> USE CurrentFound, TableFacts
<1>1. InPlace
  BY KeepsRefl DEF InPlace, IInv, TypeOK
<1> QED BY <1>1, InPlaceFrame

\* Entering a system call with no signal that stops it.
LEMMA SyscallEnterInv ==
  ASSUME IInv, SyscallEnter
  PROVE  IInv' /\ TableStep
<1> DEFINE p == slots[CurSlot]
           sigs == IF p.in_signal THEN p.sig_pending ELSE {}
<1>1. p \in ProcessRec /\ p.state = "Running"
  BY CurrentFound, TableFacts DEF SyscallEnter, IInv, OneRunning
<1>2. sigs \in SUBSET Signals
  BY <1>1 DEF ProcessRec
<1>3. Keeps(p, SetPending(p, sigs)) /\ SetPending(p, sigs).state = p.state
  BY <1>1, <1>2, SetPendingKeeps
<1>4. /\ slots' = [slots EXCEPT ![CurSlot] = SetPending(p, sigs)]
      /\ UNCHANGED <<next_pid, count, current_pid, should_schedule, waiting_pid, tty_avail>>
      /\ phase' = "syscall" /\ current_pid # IdlePid
  BY DEF SyscallEnter
<1>5. should_schedule' \in BOOLEAN
  BY <1>4 DEF IInv, TypeOK
<1> QED BY <1>1, <1>3, <1>4, <1>5, CurrentStepInv, Zenon

\* check_signals_syscall() kills the caller.
LEMMA SyscallTerminatedInv ==
  ASSUME IInv, NEW sig \in Signals, SyscallTerminated(sig)
  PROVE  IInv' /\ TableStep
<1> DEFINE p == slots[CurSlot]
<1>1. p \in ProcessRec /\ p.state = "Running"
  BY CurrentFound, TableFacts DEF SyscallTerminated, IInv, OneRunning
<1>2. PendingAfterCheck(p, sig) \in SUBSET Signals
  BY <1>1 DEF PendingAfterCheck, Above, Custom, ProcessRec
<1>3. 128 + sig \in Nat
  BY ConstantsAssumption DEF ConstantsAssumption
<1>4. /\ slots' = MarkZombie(CurSlot, PendingAfterCheck(p, sig), 128 + sig)
      /\ UNCHANGED <<next_pid, count, current_pid, waiting_pid, tty_avail>>
      /\ phase' = "exit" /\ should_schedule' = TRUE /\ current_pid # IdlePid
  BY DEF SyscallTerminated
<1> QED BY <1>1, <1>2, <1>3, <1>4, CurrentFound, TableFacts, MarkZombieInv

\* check_signals_syscall() leaves a handler to the scheduler.
LEMMA SyscallCustomPendingInv ==
  ASSUME IInv, SyscallCustomPending
  PROVE  IInv' /\ TableStep
<1> DEFINE p == slots[CurSlot]
<1>1. p \in ProcessRec /\ p.state = "Running"
  BY CurrentFound, TableFacts DEF SyscallCustomPending, IInv, OneRunning
<1>2. Custom(p) \in SUBSET Signals
  BY <1>1 DEF ProcessRec, Custom
<1>3. Keeps(p, SetPending(p, Custom(p))) /\ SetPending(p, Custom(p)).state = p.state
  BY <1>1, <1>2, SetPendingKeeps
<1>4. /\ slots' = [slots EXCEPT ![CurSlot] = SetPending(p, Custom(p))]
      /\ UNCHANGED <<next_pid, count, current_pid, waiting_pid, tty_avail>>
      /\ phase' = "exit" /\ current_pid # IdlePid /\ should_schedule' = TRUE
  BY DEF SyscallCustomPending
<1>5. should_schedule' \in BOOLEAN
  BY <1>4
<1> QED BY <1>1, <1>3, <1>4, <1>5, CurrentStepInv, Zenon

\* Returning to user mode without a reschedule.
LEMMA SyscallReturnInv ==
  ASSUME IInv, SyscallReturn
  PROVE  IInv' /\ TableStep
<1>1. slots[CurSlot].state = "Running" /\ current_pid # IdlePid
  BY DEF SyscallReturn, IInv, PhaseStates
<1>2. should_schedule' \in BOOLEAN
  BY DEF SyscallReturn, IInv, TypeOK
<1> QED BY <1>1, <1>2, QuietStepInv DEF SyscallReturn

\* scheduler_switch_exit() up to the selection.
LEMMA SwitchExitInv ==
  ASSUME IInv, SwitchExit
  PROVE  IInv' /\ TableStep
<1> USE CurrentFound, TableFacts
<1> DEFINE p == slots[CurSlot]
           q == IF p.state = "Running" THEN SetState(p, "Ready") ELSE p
<1>1. slots' = [slots EXCEPT ![CurSlot] = q]
  BY DEF SwitchExit
<1>2. p \in ProcessRec
  OBVIOUS
<1>4. Keeps(p, q) /\ q.state # "Running"
  BY <1>2, SetStateKeeps, KeepsRefl
<1>5. p.pid # IdlePid
  BY DEF SwitchExit, IInv, PhaseStates
<1> HIDE DEF q
<1>6. /\ InPlace /\ slots'[CurSlot] = q
      /\ \A t \in Slots \ {CurSlot} : slots'[t] = slots[t]
  BY <1>1, <1>4, OneInPlace, Zenon
<1>7. \A s \in Slots : slots'[s].state # "Running"
  BY <1>4, <1>6
<1>8. slots'[IdleSlot].state \in {"Ready", "Running"}
  BY <1>5, <1>6
<1>9. /\ phase' = "sched" /\ next_pid' = next_pid /\ count' = count
      /\ current_pid' = current_pid /\ should_schedule' \in BOOLEAN
      /\ waiting_pid' = waiting_pid /\ tty_avail' = tty_avail
  BY Zenon DEF SwitchExit
<1> QED BY <1>6, <1>7, <1>8, <1>9, InPlaceFrame

-----------------------------------------------------------------------------
(* The scheduler *)

\* sched_next finds a Ready process: idle is there when no other is.
LEMMA SchedNextReady ==
  ASSUME IInv, phase = "sched", NEW n \in Slots, IsSchedNext(n)
  PROVE  slots[n].state = "Ready"
<1>1. slots[IdleSlot].state = "Ready"
  BY TableFacts DEF IInv, PhaseStates
<1>2. IdleSlot \in {s \in Slots : slots[s].state = "Ready" /\ slots[s].pid = IdlePid}
  BY <1>1, TableFacts
<1> QED BY <1>2 DEF IsSchedNext, Runnable

\* Selecting, killing on delivery, entering a handler and running.
LEMMA DispatchInv ==
  ASSUME IInv, NEW n \in Slots, Dispatch(n)
  PROVE  IInv' /\ TableStep /\ CurSlot' = n /\ slots'[n].state # "Ready"
<1> USE TableFacts
<1> DEFINE p == slots[n]
<1>1. /\ phase = "sched" /\ current_pid' = p.pid
      /\ UNCHANGED <<next_pid, count, should_schedule, waiting_pid, tty_avail>>
  BY DEF Dispatch
<1>2. p.state = "Ready" /\ p \in ProcessRec
  BY <1>1, SchedNextReady DEF Dispatch
<1>3. \A s \in Slots : slots[s].state # "Running"
  BY <1>1 DEF IInv, PhaseStates
<1>4. should_schedule \in BOOLEAN
  BY DEF IInv, TypeOK
<1>5. ASSUME NEW q, slots' = [slots EXCEPT ![n] = q], Keeps(p, q),
             q.state = "Running", phase' = "user"
      PROVE  IInv' /\ TableStep /\ CurSlot' = n /\ slots'[n].state # "Ready"
  <2>1. /\ InPlace /\ slots'[n] = q
        /\ \A t \in Slots \ {n} : slots'[t] = slots[t]
    BY <1>5, OneInPlace, Zenon
  <2>2. slots'[IdleSlot].state \in {"Ready", "Running"}
    BY <1>5, <2>1
  <2>3. \A s \in Slots : slots'[s].state = "Running" => s = n
    BY <1>3, <2>1
  <2> QED BY <1>1, <1>2, <1>4, <1>5, <2>1, <2>2, <2>3, InPlaceFrame
<1>6. ASSUME NEW sigs \in SUBSET Signals, NEW code \in Nat, p.pid # IdlePid,
             slots' = MarkZombie(n, sigs, code), phase' = "sched"
      PROVE  IInv' /\ TableStep /\ CurSlot' = n /\ slots'[n].state # "Ready"
  <2>1. IInv' /\ CurSlot' = n /\ TableStep
    BY <1>1, <1>2, <1>3, <1>6, MarkZombieInv
  <2>2. slots'[n] = Zombify(slots[n], sigs, code)
    BY <1>6 DEF MarkZombie
  <2> QED BY <1>2, <2>1, <2>2, ZombifyFields
<1>7. CASE DispatchRun(n)
  <2> DEFINE sigs == IF p.in_signal \/ p.pid = IdlePid THEN p.sig_pending ELSE {}
             q == SetPending(p, sigs)
  <2>1. sigs \in SUBSET Signals
    BY <1>2 DEF ProcessRec
  <2>2. Keeps(p, q) /\ q.state = "Ready" /\ q \in ProcessRec
    <3> HIDE DEF sigs
    <3>1. Keeps(p, q) /\ q.state = p.state
      BY ONLY <1>2, <2>1, SetPendingKeeps
    <3> QED BY ONLY <1>2, <3>1 DEF Keeps
  <2>3. slots' = [slots EXCEPT ![n] = SetState(q, "Running")] /\ phase' = "user"
    BY <1>7 DEF DispatchRun
  <2> HIDE DEF q
  <2>4. Keeps(q, SetState(q, "Running")) /\ SetState(q, "Running").state = "Running"
    BY <2>2, SetStateKeeps
  <2>5. Keeps(p, SetState(q, "Running"))
    BY <2>2, <2>4, KeepsTrans
  <2> QED BY <1>5, <2>3, <2>4, <2>5, Zenon
<1>8. CASE DispatchHandler(n)
  <2>1. PICK sig \in Signals : slots' = [slots EXCEPT ![n] = EnterHandler(p, Above(p, sig))]
    BY <1>8, Zenon DEF DispatchHandler
  <2>2. Above(p, sig) \in SUBSET Signals
    BY <1>2 DEF Above, ProcessRec
  <2>3. /\ Keeps(p, EnterHandler(p, Above(p, sig)))
        /\ EnterHandler(p, Above(p, sig)).state = "Running"
    BY <1>2, <2>2, EnterHandlerKeeps
  <2> QED BY <1>5, <1>8, <2>1, <2>3, Zenon DEF DispatchHandler
<1>9. ASSUME NEW sig, IsFirst(sig, Stopping(p))
      PROVE  p.pid # IdlePid
  BY <1>9 DEF IsFirst, Stopping
<1>10. CASE DispatchNoStack(n)
  <2>1. PICK sig \in Signals : /\ IsFirst(sig, Stopping(p))
                               /\ slots' = MarkZombie(n, Above(p, sig), 128 + SIGKILL)
    BY <1>10 DEF DispatchNoStack
  <2>2. Above(p, sig) \in SUBSET Signals /\ 128 + SIGKILL \in Nat
    BY <1>2 DEF Above, ProcessRec, SIGKILL
  <2> QED BY <1>6, <1>9, <1>10, <2>1, <2>2 DEF DispatchNoStack
<1>11. CASE DispatchKilled(n)
  <2>1. PICK sig \in Signals : /\ IsFirst(sig, Stopping(p))
                               /\ slots' = MarkZombie(n, PendingAfter(p, sig), 128 + sig)
    BY <1>11 DEF DispatchKilled
  <2>2. PendingAfter(p, sig) \in SUBSET Signals
    BY <1>2 DEF PendingAfter, Above, ProcessRec
  <2>3. 128 + sig \in Nat
    BY ConstantsAssumption DEF ConstantsAssumption
  <2> QED BY <1>6, <1>9, <1>11, <2>1, <2>2, <2>3 DEF DispatchKilled
<1> QED BY <1>2, <1>7, <1>8, <1>10, <1>11 DEF Dispatch

-----------------------------------------------------------------------------
(* The system calls *)

\* Where a system call starts.
LEMMA InSyscall ==
  ASSUME IInv, phase = "syscall"
  PROVE  /\ slots[CurSlot].state = "Running" /\ current_pid # IdlePid
         /\ slots[CurSlot] \in ProcessRec
         /\ should_schedule \in BOOLEAN
<1>1. slots[CurSlot] \in ProcessRec
  BY CurrentFound, TableFacts
<1> QED BY <1>1 DEF IInv, PhaseStates, TypeOK

\* The calls that leave the table alone, and kill() of an absent pid.
LEMMA SysOtherInv ==
  ASSUME IInv, SysOther \/ \E pid \in 1..MaxPid : SysKillAbsent(pid)
  PROVE  IInv' /\ TableStep
<1>1. phase = "syscall"
  BY DEF SysOther, SysKillAbsent
<1>2. /\ UNCHANGED <<slots, next_pid, count, current_pid, should_schedule, waiting_pid, tty_avail>>
      /\ phase' \in {"exit", "panic"}
  BY DEF SysOther, SysKillAbsent
<1> QED BY <1>1, <1>2, InSyscall, QuietStepInv

\* exit().
LEMMA SysExitInv ==
  ASSUME IInv, NEW code \in ExitCodes, SysExit(code)
  PROVE  IInv' /\ TableStep
<1>1. phase = "syscall"
  BY DEF SysExit
<1>2. slots[CurSlot].sig_pending \in SUBSET Signals
  BY <1>1, InSyscall DEF ProcessRec
<1>3. code \in Nat
  BY ConstantsAssumption DEF ConstantsAssumption
<1>4. /\ slots' = MarkZombie(CurSlot, slots[CurSlot].sig_pending, code)
      /\ UNCHANGED <<next_pid, count, current_pid, waiting_pid, tty_avail>>
      /\ phase' = "exit" /\ should_schedule' = TRUE
  BY DEF SysExit
<1> QED BY <1>1, <1>2, <1>3, <1>4, InSyscall, CurrentFound, TableFacts, MarkZombieInv

\* exec, sigaction and sigreturn.
LEMMA SysSignalsInv ==
  ASSUME IInv,
         \/ SysExec
         \/ \E sig \in Signals, action \in Installed : SysSigaction(sig, action)
         \/ SysSigreturn
  PROVE  IInv' /\ TableStep
<1> DEFINE p == slots[CurSlot]
<1>0. phase = "syscall"
  BY DEF SysExec, SysSigaction, SysSigreturn
<1>1. p \in ProcessRec /\ p.state = "Running" /\ current_pid # IdlePid /\ should_schedule \in BOOLEAN
  BY <1>0, InSyscall
<1>2. /\ UNCHANGED <<next_pid, count, current_pid, waiting_pid, tty_avail>>
      /\ phase' = "exit"
  BY DEF SysExec, SysSigaction, SysSigreturn
<1>3. should_schedule' \in BOOLEAN
  BY <1>1, Zenon DEF SysExec, SysSigaction, SysSigreturn
<1>4. CASE SysExec
  <2>1. slots' = [slots EXCEPT ![CurSlot] = FreshSignals(p)]
    BY <1>4 DEF SysExec
  <2>2. Keeps(p, FreshSignals(p)) /\ FreshSignals(p).state = p.state
    BY <1>1, FreshSignalsKeeps
  <2> QED BY <1>1, <1>2, <1>3, <2>1, <2>2, CurrentStepInv, Zenon
<1>5. CASE \E sig \in Signals, action \in Installed : SysSigaction(sig, action)
  <2>1. PICK sig \in Signals, action \in Installed : SysSigaction(sig, action)
    BY <1>5
  <2>2. slots' = [slots EXCEPT ![CurSlot] = SetAction(p, sig, action)]
    BY <2>1 DEF SysSigaction
  <2>3. action \in Dispositions
    BY ConstantsAssumption DEF ConstantsAssumption
  <2>4. Keeps(p, SetAction(p, sig, action)) /\ SetAction(p, sig, action).state = p.state
    BY <1>1, <2>3, SetActionKeeps
  <2> QED BY <1>1, <1>2, <1>3, <2>2, <2>4, CurrentStepInv, Zenon
<1>6. CASE SysSigreturn
  <2>1. slots' = [slots EXCEPT ![CurSlot] = LeaveHandler(p, p.saved_mask)]
    BY <1>6 DEF SysSigreturn
  <2>2. p.saved_mask \in SUBSET Signals
    BY <1>1 DEF ProcessRec
  <2>3. Keeps(p, LeaveHandler(p, p.saved_mask)) /\ LeaveHandler(p, p.saved_mask).state = p.state
    BY <1>1, <2>2, LeaveHandlerKeeps
  <2> QED BY <1>1, <1>2, <1>3, <2>1, <2>3, CurrentStepInv, Zenon
<1> QED BY <1>4, <1>5, <1>6

\* kill(), waking a blocked target.
LEMMA SysKillInv ==
  ASSUME IInv, NEW s \in Slots, NEW sig \in Signals, SysKill(s, sig)
  PROVE  IInv' /\ TableStep
<1> USE CurrentFound, TableFacts
<1> DEFINE p == slots[s]
           w == IF p.state = "Blocked" THEN Wake(p) ELSE p
           sigs == p.sig_pending \union {sig}
<1>0. phase = "syscall" /\ p \in ProcessRec
  BY DEF SysKill
<1>1. Keeps(p, w) /\ (w.state = p.state \/ (p.state = "Blocked" /\ w.state = "Ready"))
  BY <1>0, WakeKeeps, KeepsRefl
<1>2. sigs \in SUBSET Signals
  BY <1>0 DEF ProcessRec
<1>3. /\ slots' = [slots EXCEPT ![s] = SetPending(w, sigs)]
      /\ phase' = "exit"
      /\ UNCHANGED <<next_pid, count, current_pid, should_schedule, waiting_pid, tty_avail>>
  BY DEF SysKill
<1> HIDE DEF w, sigs
<1> DEFINE q == SetPending(w, sigs)
<1>4. Keeps(w, q) /\ q.state = w.state
  BY <1>1, <1>2, SetPendingKeeps DEF Keeps
<1> HIDE DEF q
<1>5. Keeps(p, q)
  BY <1>1, <1>4, KeepsTrans
<1>6. /\ InPlace /\ slots'[s] = q
      /\ \A t \in Slots \ {s} : slots'[t] = slots[t]
  <2>1. slots' = [slots EXCEPT ![s] = q]
    BY <1>3 DEF q
  <2> QED BY <1>5, <2>1, OneInPlace, Zenon
<1>7. \A t \in Slots : \/ slots'[t].state = slots[t].state
                       \/ slots[t].state = "Blocked" /\ slots'[t].state = "Ready"
  BY <1>1, <1>4, <1>6
<1>8. slots[CurSlot].state = "Running" /\ current_pid # IdlePid /\ should_schedule \in BOOLEAN
  BY <1>0, InSyscall
<1> QED BY <1>3, <1>6, <1>7, <1>8, InPlaceFrame

\* read() of the terminal, with data and blocking.
LEMMA SysReadTtyInv ==
  ASSUME IInv, NEW ev, SysReadTty(ev)
  PROVE  IInv' /\ TableStep
<1> USE ConstantsAssumption, CurrentFound, TableFacts
<1>0. /\ phase = "syscall" /\ phase' = "exit"
      /\ UNCHANGED <<next_pid, count, current_pid>>
  BY DEF SysReadTty
<1>1. slots[CurSlot].state = "Running" /\ current_pid # IdlePid /\ should_schedule \in BOOLEAN
  BY <1>0, InSyscall
<1>2. PICK n \in InputAvail(ev) :
       \/ /\ n > 0
          /\ slots' = [i \in Slots |-> Input(ev, slots[i])]
          /\ waiting_pid' = InputWaiting(ev)
          /\ should_schedule' = InputSchedule(ev)
          /\ tty_avail' \in 0..n
       \/ /\ n = 0
          /\ slots' = [slots EXCEPT ![CurSlot] =
                          Block(slots[CurSlot], "tty", slots[CurSlot].wait_for_pid)]
          /\ waiting_pid' = current_pid
          /\ should_schedule' = TRUE
          /\ tty_avail' = n
  BY DEF SysReadTty
<1>3. n \in 0..TtyCap
  BY DEF InputAvail, ConstantsAssumption
<1>4. CASE slots' = [i \in Slots |-> Input(ev, slots[i])]
           /\ waiting_pid' = InputWaiting(ev) /\ should_schedule' = InputSchedule(ev)
           /\ tty_avail' \in 0..n
  <2>1. \A s \in Slots : /\ Keeps(slots[s], slots'[s])
                         /\ slots'[s].state = slots[s].state
                            \/ (slots[s].state = "Blocked" /\ slots'[s].state = "Ready")
    BY <1>4, InputKeeps
  <2>2. InPlace
    BY <1>4, <2>1 DEF InPlace, Keeps
  <2>3. waiting_pid' \in Nat /\ should_schedule' \in BOOLEAN
    BY <1>4 DEF InputWaiting, InputSchedule
  <2>4. tty_avail' \in 0..TtyCap
    BY SMTT(30), <1>3, <1>4 DEF ConstantsAssumption
  <2> QED BY SMTT(60), <1>0, <1>1, <2>1, <2>2, <2>3, <2>4, InPlaceFrame
<1>5. CASE slots' = [slots EXCEPT ![CurSlot] =
                          Block(slots[CurSlot], "tty", slots[CurSlot].wait_for_pid)]
           /\ waiting_pid' = current_pid /\ should_schedule' = TRUE /\ tty_avail' = n
  <2> DEFINE q == Block(slots[CurSlot], "tty", slots[CurSlot].wait_for_pid)
  <2>1. /\ slots[CurSlot] \in ProcessRec /\ slots[CurSlot].wait_for_pid \in Nat
        /\ "tty" \in Reasons
    BY DEF ProcessRec, Reasons
  <2>a. /\ q \in ProcessRec /\ q.pid = slots[CurSlot].pid
        /\ q.parent_pid = slots[CurSlot].parent_pid /\ q.state = "Blocked"
        /\ q.blocked_on = "tty" /\ q.exit_code = slots[CurSlot].exit_code
    BY ONLY SMTT(30), <2>1, BlockFields
  <2>2. Keeps(slots[CurSlot], q) /\ q.state = "Blocked"
    BY <1>1, <2>a DEF Keeps, WaitsForChild
  <2> HIDE DEF q
  <2>3. slots' = [slots EXCEPT ![CurSlot] = q]
    BY <1>5 DEF q
  <2>4. /\ InPlace /\ slots'[CurSlot] = q
        /\ \A t \in Slots \ {CurSlot} : slots'[t] = slots[t]
    BY <2>2, <2>3, OneInPlace, Zenon
  <2>5. /\ \A t \in Slots : slots'[t].state = "Running" => t = CurSlot
        /\ slots'[IdleSlot].state \in {"Ready", "Running"}
        /\ slots'[CurSlot].state = "Blocked"
    BY <1>1, <2>2, <2>4
  <2>6. waiting_pid' \in Nat /\ should_schedule' = TRUE /\ tty_avail' \in 0..TtyCap
    BY <1>3, <1>5
  <2> QED BY <1>0, <1>1, <2>4, <2>5, <2>6, InPlaceFrame
<1> QED BY <1>2, <1>4, <1>5, Zenon

\* waitpid() that reaps a zombie.
LEMMA WaitReapInv ==
  ASSUME IInv, phase = "syscall", phase' = "exit", NEW req, WaitReap(req),
         UNCHANGED <<next_pid, current_pid, waiting_pid, tty_avail>>
  PROVE  IInv' /\ TableStep
<1> USE CurrentFound, TableFacts
<1>1. PICK s \in Slots : /\ slots[s].state = "Zombie"
                         /\ slots[s].parent_pid = current_pid
                         /\ slots' = [slots EXCEPT ![s] = None]
                         /\ count' = IF count > 0 THEN count - 1 ELSE 0
                         /\ UNCHANGED should_schedule
  BY Zenon DEF WaitReap, WaitTarget, Matching
<1>2. slots[CurSlot].state = "Running" /\ current_pid # IdlePid /\ should_schedule \in BOOLEAN
  BY InSyscall
<1>3. s # CurSlot /\ s # IdleSlot
  BY <1>1, <1>2
<1>4. /\ slots' \in [Slots -> ProcessRec]
      /\ slots'[s].pid = 0 /\ slots'[s].state = "None"
      /\ \A t \in Slots \ {s} : slots'[t] = slots[t]
  BY <1>1, NoneFields DEF IInv, TypeOK
<1> HIDE DEF None
<1>5. Occupied' = Occupied \ {s}
  BY <1>1, <1>4 DEF Occupied
<1>6. TypeOK'
  BY SMTT(30), <1>1, <1>4 DEF IInv, TypeOK
<1>7. EmptySlots' /\ PidsUnique' /\ ParentsOlder' /\ IdleAlive' /\ (next_pid >= 3)'
  <2>1. EmptySlots'
    BY <1>4 DEF IInv, EmptySlots
  <2>2. PidsUnique' /\ ParentsOlder'
    BY <1>4, <1>5 DEF IInv, PidsUnique, ParentsOlder, Occupied
  <2>3. IdleAlive'
    BY <1>3, <1>4 DEF IInv, IdleAlive
  <2> QED BY <2>1, <2>2, <2>3 DEF IInv
<1>8. CurSlot' = CurSlot
  <2>1. /\ slots'[CurSlot].pid = current_pid'
        /\ \A t \in Slots : slots'[t].pid = current_pid' => t = CurSlot
    BY <1>3, <1>4 DEF IInv, EmptySlots
  <2>2. (CHOOSE t \in Slots : slots'[t].pid = current_pid') = CurSlot
    BY <2>1, ChooseSlot
  <2> QED BY <2>2 DEF CurSlot
<1>9. OneRunning' /\ PhaseStates' /\ NeverHalts'
  BY <1>1, <1>2, <1>3, <1>4, <1>5, <1>8
     DEF OneRunning, PhaseStates, NeverHalts, Occupied, IInv
<1>10. WaitedChildAlive'
  <2> SUFFICES ASSUME NEW r \in Slots, WaitsForChild(slots'[r])
               PROVE  \E c \in Occupied' :
                        /\ slots'[c].pid = slots'[r].wait_for_pid
                        /\ slots'[c].parent_pid = slots'[r].pid
                        /\ slots'[c].state # "Zombie"
    BY DEF WaitedChildAlive, WaitsForChild
  <2>1. r # s /\ slots'[r] = slots[r]
    BY <1>4 DEF WaitsForChild
  <2>2. PICK c \in Occupied : /\ slots[c].pid = slots[r].wait_for_pid
                              /\ slots[c].parent_pid = slots[r].pid
                              /\ slots[c].state # "Zombie"
    BY <2>1 DEF IInv, WaitedChildAlive, WaitsForChild
  <2> QED BY SMTT(30), <1>1, <1>4, <1>5, <2>1, <2>2 DEF Occupied
<1>11. TableStep
  <2>1. ZombieStep
    BY <1>1, <1>4 DEF ZombieStep
  <2>2. s \in Occupied
    BY <1>1 DEF Occupied
  <2> QED BY <1>1, <1>5, <2>1, <2>2 DEF TableStep
<1> QED BY <1>6, <1>7, <1>9, <1>10, <1>11 DEF IInv

\* waitpid() that blocks on a live child.
LEMMA WaitBlockInv ==
  ASSUME IInv, phase = "syscall", phase' = "exit", NEW req, WaitBlock(req),
         UNCHANGED <<next_pid, current_pid, waiting_pid, tty_avail>>
  PROVE  IInv' /\ TableStep
<1> USE CurrentFound, TableFacts
<1> DEFINE cur == slots[CurSlot]
           why == IF req = -1 THEN "anychild" ELSE "child"
<1>1. PICK s \in Slots : /\ WaitTarget(req, s)
                         /\ slots[s].state # "Zombie"
                         /\ slots' = [slots EXCEPT ![CurSlot] = Block(cur, why, slots[s].pid)]
                         /\ should_schedule' = TRUE
                         /\ UNCHANGED count
  BY Zenon DEF WaitBlock
<1>2. cur.state = "Running" /\ current_pid # IdlePid /\ cur \in ProcessRec
  BY InSyscall
<1>3. slots[s].state # "None" /\ slots[s].parent_pid = current_pid /\ slots[s].pid \in Nat
  BY <1>1 DEF WaitTarget, Matching, Occupied, ProcessRec
<1>4. s # CurSlot
  BY SMTT(30), <1>3 DEF IInv, ParentsOlder, Occupied
<1> DEFINE q == Block(cur, why, slots[s].pid)
<1>5. /\ q \in ProcessRec /\ q.pid = cur.pid
      /\ q.parent_pid = cur.parent_pid /\ q.state = "Blocked"
      /\ q.wait_for_pid = slots[s].pid
  <2>1. why \in Reasons
    BY DEF Reasons
  <2> HIDE DEF why
  <2> QED BY ONLY SMTT(30), <1>2, <1>3, <2>1, BlockFields
<1> HIDE DEF q
<1>6. /\ slots' \in [Slots -> ProcessRec] /\ slots'[CurSlot] = q
      /\ \A t \in Slots \ {CurSlot} : slots'[t] = slots[t]
  <2>1. slots' = [slots EXCEPT ![CurSlot] = q]
    BY <1>1 DEF q
  <2> QED BY <1>5, <2>1 DEF IInv, TypeOK
<1>7. Frame(CurSlot)
  <2>1. \A t \in Slots : /\ slots'[t].pid = slots[t].pid
                         /\ slots'[t].parent_pid = slots[t].parent_pid
                         /\ slots'[t].state = "None" <=> slots[t].state = "None"
                         /\ slots'[t].state = "Running" => t = CurSlot
    BY <1>2, <1>5, <1>6
  <2>2. slots'[IdleSlot].state \in {"Ready", "Running"}
    BY <1>2, <1>6
  <2>3. should_schedule' \in BOOLEAN
    BY <1>1
  <2> QED BY <1>1, <1>2, <1>5, <1>6, <2>1, <2>2, <2>3 DEF Frame
<1>8. WaitedChildAlive'
  <2> SUFFICES ASSUME NEW r \in Slots, WaitsForChild(slots'[r])
               PROVE  \E c \in Occupied' :
                        /\ slots'[c].pid = slots'[r].wait_for_pid
                        /\ slots'[c].parent_pid = slots'[r].pid
                        /\ slots'[c].state # "Zombie"
    BY DEF WaitedChildAlive, WaitsForChild
  <2>1. CASE r = CurSlot
    <3>1. s \in Occupied'
      BY <1>3, <1>4, <1>6 DEF Occupied
    <3> QED BY SMTT(30), <1>1, <1>3, <1>4, <1>5, <1>6, <2>1, <3>1
  <2>2. CASE r # CurSlot
    <3>1. slots'[r] = slots[r]
      BY <1>6, <2>2
    <3>2. PICK c \in Occupied : /\ slots[c].pid = slots[r].wait_for_pid
                                /\ slots[c].parent_pid = slots[r].pid
                                /\ slots[c].state # "Zombie"
      BY <3>1 DEF IInv, WaitedChildAlive, WaitsForChild
    <3>3. c \in Slots /\ c \in Occupied' /\ slots'[c].state # "Zombie"
      BY <1>5, <1>6, <3>2 DEF Occupied
    <3>4. slots'[c].pid = slots[c].pid /\ slots'[c].parent_pid = slots[c].parent_pid
      BY <1>5, <1>6, <3>3
    <3> QED BY ONLY <3>1, <3>2, <3>3, <3>4
  <2> QED BY <2>1, <2>2
<1>9. TableStep
  <2>1. ZombieStep
    BY <1>2, <1>6 DEF ZombieStep
  <2>2. Occupied' = Occupied
    BY <1>7 DEF Frame, Occupied
  <2> QED BY <1>1, <2>1, <2>2 DEF TableStep
<1> QED BY <1>7, <1>8, <1>9, FrameInv

\* fork(), with a free slot and without.
LEMMA SysForkInv ==
  ASSUME IInv, SysFork
  PROVE  IInv' /\ TableStep
<1>0. /\ phase = "syscall" /\ phase' = "exit" /\ next_pid' = next_pid + 1
      /\ UNCHANGED <<current_pid, should_schedule, waiting_pid, tty_avail>>
  BY DEF SysFork
<1>1. slots[CurSlot].state = "Running" /\ current_pid # IdlePid /\ should_schedule \in BOOLEAN
  BY <1>0, InSyscall
<1> DEFINE child == NewProcess(next_pid, "Ready", current_pid, slots[CurSlot].sigactions)
<1>2. /\ child \in ProcessRec /\ child.pid = next_pid /\ child.state = "Ready"
      /\ child.parent_pid = current_pid
  <2>1. slots[CurSlot].sigactions \in [Signals -> Dispositions] /\ "Ready" \in States
    BY CurrentFound, TableFacts DEF ProcessRec, States
  <2>2. next_pid \in Nat /\ current_pid \in Nat
    BY TableFacts
  <2> QED BY <2>1, <2>2, NewProcessFields
<1>3. current_pid < next_pid /\ current_pid # next_pid /\ next_pid >= 3
  BY SMTT(30), CurrentFound, TableFacts DEF IInv, PidsUnique, Occupied
<1> HIDE DEF child
<1>4. CASE UNCHANGED <<slots, count>>
  <2>1. TypeOK'
    BY <1>0, <1>4 DEF IInv, TypeOK
  <2>2. EmptySlots' /\ PidsUnique' /\ ParentsOlder' /\ IdleAlive' /\ (next_pid >= 3)'
    <3>1. slots' = slots /\ Occupied' = Occupied
      BY <1>4 DEF Occupied
    <3>2. PidsUnique'
      BY SMTT(30), <1>0, <3>1, TableFacts DEF IInv, PidsUnique, Occupied
    <3>3. EmptySlots' /\ ParentsOlder' /\ IdleAlive'
      BY <3>1 DEF IInv, EmptySlots, ParentsOlder, IdleAlive
    <3> QED BY <1>0, <1>3, <3>2, <3>3, TableFacts
  <2>3. CurSlot' = CurSlot
    BY <1>0, <1>4 DEF CurSlot
  <2>4. OneRunning' /\ PhaseStates' /\ NeverHalts' /\ WaitedChildAlive'
    <3>1. slots' = slots /\ Occupied' = Occupied
      BY <1>4 DEF Occupied
    <3>2. OneRunning' /\ WaitedChildAlive'
      BY <1>0, <3>1 DEF IInv, OneRunning, WaitedChildAlive
    <3>3. PhaseStates' /\ NeverHalts'
      BY <1>0, <1>1, <2>3, <3>1 DEF PhaseStates, NeverHalts
    <3> QED BY <3>2, <3>3
  <2>5. TableStep
    BY <1>4 DEF TableStep, ZombieStep, Occupied
  <2> QED BY <2>1, <2>2, <2>4, <2>5 DEF IInv
<1>5. CASE \E s \in Slots \ Occupied : slots' = [slots EXCEPT ![s] = child] /\ count' = count + 1
  <2>1. PICK s \in Slots \ Occupied : slots' = [slots EXCEPT ![s] = child] /\ count' = count + 1
    BY <1>5, Zenon
  <2>2. /\ slots' \in [Slots -> ProcessRec] /\ slots'[s] = child
        /\ \A t \in Slots \ {s} : slots'[t] = slots[t]
    BY <1>2, <2>1 DEF IInv, TypeOK
  <2>3. Occupied' = Occupied \union {s} /\ s \notin Occupied
    BY <1>2, <2>2 DEF Occupied
  <2>4. s # CurSlot /\ s # IdleSlot /\ slots[s].state = "None"
    BY <1>1, <2>1, CurrentFound, TableFacts DEF Occupied
  <2>5. TypeOK'
    BY <1>0, <2>1, <2>2, TableFacts DEF IInv, TypeOK
  <2>6. EmptySlots'
    BY <1>2, <1>3, <2>2 DEF IInv, EmptySlots
  <2>7. PidsUnique'
    <3>1. \A t \in Occupied : t # s /\ slots'[t] = slots[t]
      BY <2>2, <2>3 DEF Occupied
    <3>2. \A t \in Occupied : slots'[t].pid \in 1..(next_pid - 1)
      BY <3>1 DEF IInv, PidsUnique
    <3>3. \A t \in Occupied' : slots'[t].pid \in 1..(next_pid' - 1)
      BY SMTT(30), <1>0, <1>2, <1>3, <2>2, <2>3, <3>2, TableFacts
    <3>4. \A t \in Occupied : slots'[t].pid # slots'[s].pid
      BY <1>2, <2>2, <3>2, TableFacts
    <3>5. \A t, u \in Occupied : slots'[t].pid = slots'[u].pid => t = u
      BY <3>1 DEF IInv, PidsUnique
    <3> QED BY <2>3, <3>3, <3>4, <3>5 DEF PidsUnique
  <2>8. ParentsOlder' /\ IdleAlive' /\ (next_pid >= 3)'
    <3>1. \A t \in Occupied : slots'[t] = slots[t]
      BY <2>2, <2>3 DEF Occupied
    <3>2. ParentsOlder'
      BY <1>2, <1>3, <2>2, <2>3, <3>1 DEF IInv, ParentsOlder
    <3>3. slots'[IdleSlot] = slots[IdleSlot]
      BY <2>2, <2>4, TableFacts
    <3>4. IdleAlive'
      BY <3>3 DEF IInv, IdleAlive
    <3> QED BY SMTT(30), <1>0, <1>3, <3>2, <3>4, TableFacts
  <2>9. CurSlot' = CurSlot
    <3>1. /\ slots'[CurSlot].pid = current_pid'
          /\ \A t \in Slots : slots'[t].pid = current_pid' => t = CurSlot
      BY <1>0, <1>2, <1>3, <2>2, <2>4, CurrentFound
    <3>2. (CHOOSE t \in Slots : slots'[t].pid = current_pid') = CurSlot
      BY <3>1, CurrentFound, ChooseSlot
    <3> QED BY <3>2 DEF CurSlot
  <2>10. OneRunning' /\ PhaseStates' /\ NeverHalts'
    <3>1. slots'[CurSlot] = slots[CurSlot]
      BY <2>2, <2>4, CurrentFound
    <3>2. \A t \in Slots : slots'[t].state = "Running" => slots'[t].pid = current_pid'
      BY <1>0, <1>2, <2>2 DEF IInv, OneRunning
    <3>3. \E t \in Occupied' : slots'[t].pid = current_pid'
      <4>1. CurSlot \in Occupied'
        BY <2>3, CurrentFound DEF Occupied
      <4> QED BY <1>0, <3>1, <4>1, CurrentFound
    <3>4. OneRunning'
      BY <1>0, <3>2, <3>3 DEF OneRunning
    <3>5. PhaseStates'
      BY <1>0, <1>1, <2>9, <3>1 DEF PhaseStates
    <3> QED BY <1>0, <3>4, <3>5 DEF NeverHalts
  <2>11. WaitedChildAlive'
    <3> SUFFICES ASSUME NEW r \in Slots, WaitsForChild(slots'[r])
                 PROVE  \E c \in Occupied' :
                          /\ slots'[c].pid = slots'[r].wait_for_pid
                          /\ slots'[c].parent_pid = slots'[r].pid
                          /\ slots'[c].state # "Zombie"
      BY DEF WaitedChildAlive, WaitsForChild
    <3>1. r # s /\ slots'[r] = slots[r]
      BY <1>2, <2>2 DEF WaitsForChild
    <3>2. PICK c \in Occupied : /\ slots[c].pid = slots[r].wait_for_pid
                                /\ slots[c].parent_pid = slots[r].pid
                                /\ slots[c].state # "Zombie"
      BY <3>1 DEF IInv, WaitedChildAlive, WaitsForChild
    <3>3. c \in Occupied' /\ slots'[c] = slots[c]
      BY <2>2, <2>3, <3>2 DEF Occupied
    <3> QED BY <3>1, <3>2, <3>3
  <2>12. TableStep
    <3>1. ZombieStep
      BY <2>2, <2>4 DEF ZombieStep
    <3> QED BY <2>1, <2>3, <3>1 DEF TableStep
  <2> QED BY <2>5, <2>6, <2>7, <2>8, <2>10, <2>11, <2>12 DEF IInv
<1> QED BY <1>4, <1>5 DEF SysFork, child

-----------------------------------------------------------------------------
(* The theorems *)

\* A step that changes nothing.
LEMMA StutterInv ==
  ASSUME IInv, UNCHANGED vars
  PROVE  IInv' /\ TableStep
<1>1. Occupied' = Occupied /\ CurSlot' = CurSlot
  BY DEF vars, Occupied, CurSlot
<1>2. TypeOK' /\ EmptySlots' /\ PidsUnique' /\ ParentsOlder' /\ IdleAlive'
  BY <1>1 DEF vars, IInv, TypeOK, EmptySlots, PidsUnique, ParentsOlder, IdleAlive
<1>3. /\ OneRunning' /\ PhaseStates' /\ NeverHalts' /\ WaitedChildAlive'
      /\ (next_pid >= 3)'
  BY <1>1 DEF vars, IInv, OneRunning, PhaseStates, NeverHalts, WaitedChildAlive
<1>4. IInv'
  BY <1>2, <1>3 DEF IInv
<1> QED BY <1>1, <1>4 DEF vars, TableStep, ZombieStep

\* Every step of the kernel preserves the inductive invariant.
LEMMA NextInv ==
  ASSUME IInv, [Next]_vars
  PROVE  IInv' /\ TableStep
<1>1. CASE Irq
  BY <1>1, TickInv DEF Irq
<1>2. CASE SyscallEnter
  BY <1>2, SyscallEnterInv
<1>3. CASE \E sig \in Signals : SyscallTerminated(sig)
  BY <1>3, SyscallTerminatedInv
<1>4. CASE SyscallCustomPending
  BY <1>4, SyscallCustomPendingInv
<1>5. CASE SyscallReturn
  BY <1>5, SyscallReturnInv
<1>6. CASE SwitchExit
  BY <1>6, SwitchExitInv
<1>7. CASE Schedule
  BY <1>7, DispatchInv DEF Schedule
<1>8. CASE Syscall
  <2>1. CASE SysOther \/ \E pid \in 1..MaxPid : SysKillAbsent(pid)
    BY <2>1, SysOtherInv
  <2>2. CASE \E code \in ExitCodes : SysExit(code)
    BY <2>2, SysExitInv
  <2>3. CASE SysFork
    BY <2>3, SysForkInv
  <2>4. CASE \/ SysExec
             \/ \E sig \in Signals, action \in Installed : SysSigaction(sig, action)
             \/ SysSigreturn
    BY <2>4, SysSignalsInv
  <2>5. CASE \E req \in {-1} \union 1..MaxPid : SysWaitpid(req)
    BY <2>5, WaitReapInv, WaitBlockInv DEF SysWaitpid
  <2>6. CASE \E ev \in InputEvents : SysReadTty(ev)
    BY <2>6, SysReadTtyInv
  <2>7. CASE \E s \in Slots, sig \in Signals : SysKill(s, sig)
    BY <2>7, SysKillInv
  <2> QED BY <1>8, <2>1, <2>2, <2>3, <2>4, <2>5, <2>6, <2>7 DEF Syscall
<1>9. CASE Panicked
  BY <1>9, StutterInv DEF Panicked
<1>10. CASE UNCHANGED vars
  BY <1>10, StutterInv
<1> QED BY <1>1, <1>2, <1>3, <1>4, <1>5, <1>6, <1>7, <1>8, <1>9, <1>10 DEF Next

(***************************************************************************)
(* The inductive invariant of the process table, scheduler, signals,       *)
(* waitpid and terminal wakeups holds for every number of slots, every set *)
(* of signals and every number of processes.                               *)
(***************************************************************************)
THEOREM Invariance == Spec => []IInv
<1>1. Init => IInv
  BY InitInv
<1>2. IInv /\ [Next]_vars => IInv'
  BY NextInv
<1> QED BY <1>1, <1>2, PTL DEF Spec

(***************************************************************************)
(* Every process in the table has a pid of its own, one process is marked  *)
(* Running and it is the current one, the scheduler always finds a Ready   *)
(* process, and no process waits in waitpid() for a child that is gone.    *)
(***************************************************************************)
THEOREM Safety ==
  Spec => [](TypeOK /\ PidsUnique /\ OneRunning /\ NeverHalts /\ WaitedChildAlive)
<1>1. IInv => TypeOK /\ PidsUnique /\ OneRunning /\ NeverHalts /\ WaitedChildAlive
  BY DEF IInv
<1> QED BY <1>1, Invariance, PTL

\* Every process in the table has a pid of its own, handed out before next_pid.
THEOREM PidsAreUnique == Spec => []PidsUnique
BY Safety, PTL

\* While a process is blocked in waitpid(), the child it waits for is in the
\* table, is still its child and is alive: the wakeup is still to come.
THEOREM WaitedChildrenLive == Spec => []WaitedChildAlive
BY Safety, PTL

\* No step brings a zombie back, changes its status, or removes it from the
\* table before its parent reaps it.
THEOREM ZombiesStay == Spec => ZombiesStayDead
<1>1. IInv /\ [Next]_vars => [ZombieStep]_vars
  BY NextInv DEF TableStep
<1> QED BY <1>1, Invariance, PTL DEF Spec, ZombiesStayDead

\* PROCESS_TABLE.count never drifts from the number of processes, over any
\* sequence of forks, failed forks and reaps.
THEOREM Counted == Spec => []CountMatches
<1> USE ConstantsAssumption
<1>1. Init => CountMatches
  <2> SUFFICES ASSUME Init PROVE CountMatches
    OBVIOUS
  <2>1. Occupied = {0, 1}
    <3>1. AllDefault \in [Signals -> Dispositions]
      BY DEF AllDefault, Dispositions
    <3>2. "Running" \in States /\ "Ready" \in States /\ 0 \in Nat /\ 1 \in Nat /\ 2 \in Nat
      BY DEF States
    <3>3. /\ NewProcess(1, "Running", 0, AllDefault).state = "Running"
          /\ NewProcess(2, "Ready", 0, AllDefault).state = "Ready"
          /\ None.state = "None"
      BY <3>1, <3>2, NewProcessFields, NoneFields
    <3>4. \A s \in Slots : slots[s].state = IF s = 0 THEN "Running" ELSE IF s = 1 THEN "Ready" ELSE "None"
      BY <3>3 DEF Init, IdleSlot, IdlePid
    <3>5. 0 \in Slots /\ 1 \in Slots
      BY DEF Slots, ConstantsAssumption
    <3> QED BY <3>4, <3>5 DEF Occupied
  <2>2. Cardinality({0, 1}) = 2
    <3>1. IsFiniteSet({}) /\ Cardinality({}) = 0
      BY FS_EmptySet
    <3>2. IsFiniteSet({0}) /\ Cardinality({0}) = 1
      BY FS_Singleton, Zenon
    <3>3. {0, 1} = {0} \union {1} /\ 1 \notin {0}
      OBVIOUS
    <3> QED BY <3>2, <3>3, FS_AddElement
  <2> QED BY <2>1, <2>2 DEF CountMatches, Init
<1>2. IInv /\ CountMatches /\ [Next]_vars => CountMatches'
  <2> SUFFICES ASSUME IInv, CountMatches, [Next]_vars PROVE CountMatches'
    OBVIOUS
  <2>1. IsFiniteSet(Occupied)
    <3>1. IsFiniteSet(Slots)
      BY FS_Interval DEF Slots, ConstantsAssumption
    <3> QED BY <3>1, FS_Subset DEF Occupied
  <2>2. Cardinality(Occupied) \in Nat /\ count = Cardinality(Occupied)
    BY <2>1, FS_CardinalityType DEF CountMatches
  <2>3. TableStep
    BY NextInv
  <2>4. CASE Occupied' = Occupied /\ count' = count
    BY <2>2, <2>4 DEF CountMatches
  <2>5. CASE \E s \in Slots \ Occupied : Occupied' = Occupied \union {s} /\ count' = count + 1
    BY Zenon, <2>1, <2>2, <2>5, FS_AddElement DEF CountMatches
  <2>6. CASE \E s \in Occupied : /\ Occupied' = Occupied \ {s}
                                 /\ count' = IF count > 0 THEN count - 1 ELSE 0
    <3>1. PICK s \in Occupied : /\ Occupied' = Occupied \ {s}
                                /\ count' = IF count > 0 THEN count - 1 ELSE 0
      BY <2>6
    <3>2. Cardinality(Occupied \ {s}) = Cardinality(Occupied) - 1
      BY <2>1, FS_RemoveElement
    <3>3. Cardinality(Occupied) # 0
      BY <2>1, FS_EmptySet
    <3> QED BY SMTT(30), <2>2, <3>1, <3>2, <3>3 DEF CountMatches
  <2> QED BY <2>3, <2>4, <2>5, <2>6 DEF TableStep
<1> QED BY <1>1, <1>2, Invariance, PTL DEF Spec

-----------------------------------------------------------------------------
(* Bounded bypass *)

\* The slot the scan of sched_next looks at.
LEMMA ScanSlot ==
  ASSUME NEW N \in Nat, N >= 2, NEW a \in 0..(N - 1), NEW o \in 1..(N - 1)
  PROVE  (a + o) % N = IF a + o < N THEN a + o ELSE a + o - N
<1>1. CASE a + o < N
  BY <1>1
<1>2. CASE a + o >= N
  BY <1>2
<1> QED BY <1>1, <1>2

\* A dispatch that leaves a Ready process s behind comes closer to it.
LEMMA DispatchCloser ==
  ASSUME IInv, NEW n \in Slots, Dispatch(n), NEW s \in Slots, Runnable(s),
         slots'[s].state = "Ready"
  PROVE  Distance(CurSlot', s) < Distance(CurSlot, s)
<1> DEFINE c == CurSlot
           N == MAX_PROCS
<1>1. CurSlot' = n /\ n # s
  BY DispatchInv
<1>2. N \in Nat /\ N >= 2 /\ Slots = 0..(N - 1) /\ c \in Slots
  BY ConstantsAssumption, CurrentFound DEF ConstantsAssumption, Slots
<1>3. \A o \in 1..(N - 1) : (c + o) % N = IF c + o < N THEN c + o ELSE c + o - N
  BY <1>2, ScanSlot, Zenon
<1>4. Distance(n, s) < N
  BY <1>1, <1>2 DEF Distance
<1>5. CASE s = c
  BY <1>1, <1>2, <1>4, <1>5 DEF Distance
<1>6. CASE s # c
  <2> DEFINE d == Distance(c, s)
  <2>1. d \in 1..(N - 1) /\ (c + d) % N = s
    <3>1. d \in 1..(N - 1) /\ (IF c + d < N THEN c + d ELSE c + d - N) = s
      BY <1>2, <1>6 DEF Distance
    <3> HIDE DEF d
    <3> QED BY <1>3, <3>1
  <2>2. PICK o \in 1..(N - 1) :
           /\ n = (c + o) % N
           /\ \A o2 \in 1..(o - 1) : ~Runnable((c + o2) % N)
    BY <2>1 DEF Dispatch, IsSchedNext
  <2>3. o <= d
    <3> SUFFICES ASSUME d < o PROVE FALSE
      BY <2>1
    <3>1. d \in 1..(o - 1)
      BY <2>1
    <3> HIDE DEF d
    <3> QED BY <2>1, <2>2, <3>1
  <2>4. n = IF c + o < N THEN c + o ELSE c + o - N
    BY <1>3, <2>2
  <2> QED BY <1>1, <1>2, <1>6, <2>3, <2>4 DEF Distance
<1> QED BY <1>5, <1>6

(***************************************************************************)
(* Whenever sched_next passes over a Ready process, the scan has come      *)
(* strictly closer to it: fewer than MAX_PROCS other dispatches come       *)
(* between a process becoming Ready and its own, whatever is forked,       *)
(* killed or woken in between.                                             *)
(***************************************************************************)
THEOREM Bypass == Spec => BoundedBypass
<1>1. IInv /\ [Next]_vars => [BypassStep]_vars
  <2> SUFFICES ASSUME IInv, Next, phase = "sched" PROVE BypassStep
    BY DEF BypassStep
  <2>1. Schedule
    BY Zenon DEF Next, Irq, Tick, SyscallEnter, SyscallTerminated, SyscallCustomPending,
           SyscallReturn, SwitchExit, Syscall, SysOther, SysExit, SysFork, SysExec,
           SysWaitpid, SysReadTty, SysKill, SysKillAbsent, SysSigaction,
           SysSigreturn, Panicked
  <2> QED BY <2>1, DispatchCloser DEF Schedule, BypassStep
<1> QED BY <1>1, Invariance, PTL DEF Spec, BoundedBypass

-----------------------------------------------------------------------------
(***************************************************************************)
(* No handled signal is dropped (HandledSignalKept of module Process), for *)
(* every set of signals, every size of the table and every bound on pids.  *)
(*                                                                         *)
(* The invariant above says nothing about pending signals.  Two            *)
(* facts are added: an empty slot has no signal pending, so that fork()    *)
(* drops none when it fills one, and a process outside a handler has no    *)
(* handled signal pending once its system call has passed the check at     *)
(* entry, so that exec() drops none when it clears the set.                *)
(***************************************************************************)

EmptyQuiet(p) == p.state = "None" => p.sig_pending = {}

CallQuiet(p) == p.state = "Running" => p.in_signal \/ Custom(p) = {}

SignalInv ==
  /\ \A s \in Slots : EmptyQuiet(slots[s])
  /\ phase = "syscall" => \A s \in Slots : CallQuiet(slots[s])

\* What SignalStep says of one slot, with the first fact.
SlotStep(p, q) ==
  /\ EmptyQuiet(q)
  /\ \A sig \in Custom(p) \ q.sig_pending :
       \/ ~p.in_signal /\ q.in_signal /\ IsFirst(sig, Stopping(p))
       \/ q.state \in {"Zombie", "None"}
       \/ p.in_signal /\ ~q.in_signal

Steps == \A s \in Slots : SlotStep(slots[s], slots'[s])

-----------------------------------------------------------------------------
(* The changes to one process *)

\* A slot that does not change.
LEMMA SameSlot ==
  ASSUME NEW p, EmptyQuiet(p)
  PROVE  SlotStep(p, p)
BY DEF SlotStep, Custom

\* A process that lives and keeps its pending signals, or gets more.
LEMMA KeepsPending ==
  ASSUME NEW p, NEW q, q.state # "None", p.sig_pending \subseteq q.sig_pending
  PROVE  SlotStep(p, q)
BY DEF SlotStep, Custom, EmptyQuiet

\* A process that keeps the pending signals that have a handler.
LEMMA KeepsCustom ==
  ASSUME NEW p, NEW q, q.state # "None", Custom(p) \subseteq q.sig_pending
  PROVE  SlotStep(p, q)
BY DEF SlotStep, EmptyQuiet

\* A process that dies.
LEMMA Dies ==
  ASSUME NEW p, NEW q, q.state = "Zombie"
  PROVE  SlotStep(p, q)
BY DEF SlotStep, EmptyQuiet

\* Terminal input takes no pending signal away.
LEMMA InputPending ==
  ASSUME NEW p \in ProcessRec, NEW ev
  PROVE  /\ p.sig_pending \subseteq Input(ev, p).sig_pending
         /\ Input(ev, p) = p \/ Input(ev, p).state = "Ready"
<1>1. CASE ev = "none" \/ ~IsReader(p)
  BY <1>1 DEF Input
<1>2. CASE ~(ev = "none" \/ ~IsReader(p)) /\ ev = "ctrlc"
  BY <1>2 DEF Input, SetPending, Wake, ProcessRec
<1>3. CASE ~(ev = "none" \/ ~IsReader(p)) /\ ev # "ctrlc"
  BY <1>3 DEF Input, Wake, ProcessRec
<1> QED BY <1>1, <1>2, <1>3

\* Terminal input in a slot.
LEMMA InputSlot ==
  ASSUME NEW p \in ProcessRec, EmptyQuiet(p), NEW ev
  PROVE  SlotStep(p, Input(ev, p))
<1>1. CASE Input(ev, p) = p
  BY <1>1, SameSlot
<1>2. CASE Input(ev, p).state = "Ready"
  BY <1>2, InputPending, KeepsPending
<1> QED BY <1>1, <1>2, InputPending

\* mark_zombie(): one process dies, and a waiting parent wakes.
LEMMA ZombieSteps ==
  ASSUME IInv, SignalInv, NEW c \in Slots, NEW sigs, NEW code,
         slots' = MarkZombie(c, sigs, code)
  PROVE  Steps
<1> SUFFICES ASSUME NEW s \in Slots PROVE SlotStep(slots[s], slots'[s])
  BY DEF Steps
<1>1. slots[s] \in ProcessRec /\ EmptyQuiet(slots[s])
  BY TableFacts DEF SignalInv
<1>2. CASE s = c
  <2>1. slots'[s].state = "Zombie"
    BY Zenon, <1>1, <1>2 DEF MarkZombie, Zombify, ProcessRec
  <2> QED BY <2>1, Dies
<1>3. CASE s # c /\ WaitsFor(slots[s], slots[c])
  <2>1. slots'[s] = EndWait(slots[s])
    BY <1>3 DEF MarkZombie
  <2>2. slots'[s].state = "Ready" /\ slots'[s].sig_pending = slots[s].sig_pending
    BY <1>1, <2>1 DEF EndWait, ProcessRec
  <2> QED BY <2>2, KeepsPending
<1>4. CASE s # c /\ ~WaitsFor(slots[s], slots[c])
  <2>1. slots'[s] = slots[s]
    BY <1>4 DEF MarkZombie
  <2> QED BY <1>1, <2>1, SameSlot
<1> QED BY <1>2, <1>3, <1>4

\* A change of one slot.
LEMMA OneSlot ==
  ASSUME IInv, SignalInv, NEW c \in Slots, NEW q,
         slots' = [slots EXCEPT ![c] = q], SlotStep(slots[c], q)
  PROVE  Steps
<1> SUFFICES ASSUME NEW s \in Slots PROVE SlotStep(slots[s], slots'[s])
  BY DEF Steps
<1>1. CASE s = c
  BY <1>1 DEF IInv, TypeOK
<1>2. CASE s # c
  <2>1. slots'[s] = slots[s]
    BY <1>2 DEF IInv, TypeOK
  <2> QED BY <2>1, SameSlot DEF SignalInv
<1> QED BY <1>1, <1>2

\* No slot changes.
LEMMA NoSlot ==
  ASSUME IInv, SignalInv, UNCHANGED slots
  PROVE  Steps
BY SameSlot DEF Steps, SignalInv

-----------------------------------------------------------------------------
(* One step of the kernel *)

\* An interrupt: terminal input, and the current process becomes Ready.
LEMMA TickSteps ==
  ASSUME IInv, SignalInv, NEW ev, Tick(ev)
  PROVE  Steps
<1> SUFFICES ASSUME NEW s \in Slots PROVE SlotStep(slots[s], slots'[s])
  BY DEF Steps
<1>1. slots[s] \in ProcessRec /\ EmptyQuiet(slots[s])
  BY TableFacts DEF SignalInv
<1>2. CASE s = CurSlot
  <2> DEFINE p == Input(ev, slots[s])
  <2>1. slots'[s] = SetState(p, "Ready")
    BY <1>2 DEF Tick
  <2>2. p \in ProcessRec /\ slots[s].sig_pending \subseteq p.sig_pending
    BY <1>1, InputKeeps, InputPending, ConstantsAssumption DEF Keeps
  <2> HIDE DEF p
  <2>3. slots'[s].state = "Ready" /\ slots'[s].sig_pending = p.sig_pending
    BY <2>1, <2>2 DEF SetState, ProcessRec
  <2> QED BY <2>2, <2>3, KeepsPending
<1>3. CASE s # CurSlot
  <2>1. slots'[s] = Input(ev, slots[s])
    BY <1>3 DEF Tick
  <2> QED BY <1>1, <2>1, InputSlot
<1> QED BY <1>2, <1>3

\* The check at system-call entry, in both of its forms that let the caller
\* live, and the way out.
LEMMA EntrySteps ==
  ASSUME IInv, SignalInv, SyscallEnter \/ SyscallCustomPending \/ SwitchExit
  PROVE  Steps
<1> DEFINE p == slots[CurSlot]
<1>1. p \in ProcessRec /\ p.state # "None" /\ CurSlot \in Slots /\ EmptyQuiet(p)
  BY CurrentFound, TableFacts DEF SignalInv
<1>2. CASE SyscallEnter
  <2> DEFINE sigs == IF p.in_signal THEN p.sig_pending ELSE {}
             q == SetPending(p, sigs)
  <2>1. slots' = [slots EXCEPT ![CurSlot] = q]
    BY <1>2 DEF SyscallEnter
  <2>2. q.state = p.state /\ q.sig_pending = sigs
    BY <1>1 DEF SetPending, ProcessRec
  <2>3. Custom(p) \subseteq sigs
    BY <1>2 DEF SyscallEnter, Custom
  <2> HIDE DEF q
  <2>4. SlotStep(p, q)
    BY <1>1, <2>2, <2>3, KeepsCustom
  <2> QED BY Zenon, <1>1, <2>1, <2>4, OneSlot
<1>3. CASE SyscallCustomPending
  <2> DEFINE q == SetPending(p, Custom(p))
  <2>1. slots' = [slots EXCEPT ![CurSlot] = q]
    BY <1>3 DEF SyscallCustomPending
  <2>2. q.state = p.state /\ q.sig_pending = Custom(p)
    BY <1>1 DEF SetPending, ProcessRec
  <2> HIDE DEF q
  <2>3. SlotStep(p, q)
    BY <1>1, <2>2, KeepsCustom
  <2> QED BY Zenon, <1>1, <2>1, <2>3, OneSlot
<1>4. CASE SwitchExit
  <2> DEFINE q == IF p.state = "Running" THEN SetState(p, "Ready") ELSE p
  <2>1. slots' = [slots EXCEPT ![CurSlot] = q]
    BY <1>4 DEF SwitchExit
  <2>2. q.state # "None" /\ q.sig_pending = p.sig_pending
    BY <1>1 DEF SetState, ProcessRec
  <2> HIDE DEF q
  <2>3. SlotStep(p, q)
    BY <2>2, KeepsPending
  <2> QED BY Zenon, <1>1, <2>1, <2>3, OneSlot
<1> QED BY <1>2, <1>3, <1>4

\* Delivery: the process runs, enters the handler of the first signal that
\* stops the loop, or dies.
LEMMA DispatchSteps ==
  ASSUME IInv, SignalInv, NEW n \in Slots, Dispatch(n)
  PROVE  Steps
<1> DEFINE p == slots[n]
<1>1. p \in ProcessRec /\ EmptyQuiet(p)
  BY TableFacts DEF SignalInv
<1>2. p.state = "Ready"
  BY SchedNextReady DEF Dispatch
<1>3. CASE DispatchRun(n)
  <2> DEFINE sigs == IF p.in_signal \/ p.pid = IdlePid THEN p.sig_pending ELSE {}
             q == SetState(SetPending(p, sigs), "Running")
  <2>1. slots' = [slots EXCEPT ![n] = q]
    BY <1>3 DEF DispatchRun
  <2>2. q.state = "Running" /\ q.sig_pending = sigs
    BY <1>1 DEF SetState, SetPending, ProcessRec
  <2>3. Custom(p) \subseteq sigs
    BY <1>3 DEF DispatchRun, Stopping, Custom
  <2> HIDE DEF q
  <2>4. SlotStep(p, q)
    BY <2>2, <2>3, KeepsCustom
  <2> QED BY Zenon, <1>1, <2>1, <2>4, OneSlot
<1>4. CASE DispatchHandler(n)
  <2>1. PICK sig \in Signals :
          /\ IsFirst(sig, Stopping(p)) /\ sig \in Custom(p) /\ ~p.in_signal
          /\ slots' = [slots EXCEPT ![n] = EnterHandler(p, Above(p, sig))]
    BY Zenon, <1>4 DEF DispatchHandler
  <2> DEFINE q == EnterHandler(p, Above(p, sig))
  <2>2. q.state = "Running" /\ q.in_signal /\ q.sig_pending = Above(p, sig)
    BY <1>1 DEF EnterHandler, ProcessRec
  <2>3. \A t \in Custom(p) \ Above(p, sig) : t = sig
    <3> SUFFICES ASSUME NEW t \in Custom(p), ~(t > sig) PROVE t = sig
      BY DEF Above, Custom
    <3>1. t \in Stopping(p) /\ t \in Signals
      BY <1>1, <2>1 DEF Stopping, Custom, IsFirst, ProcessRec
    <3> QED BY <2>1, <3>1, ConstantsAssumption DEF IsFirst, ConstantsAssumption
  <2> HIDE DEF q
  <2>4. SlotStep(p, q)
    BY Zenon, <2>1, <2>2, <2>3 DEF SlotStep, EmptyQuiet
  <2> QED BY Zenon, <1>1, <2>1, <2>4, OneSlot DEF q
<1>5. CASE DispatchNoStack(n)
  BY <1>5, ZombieSteps DEF DispatchNoStack
<1>6. CASE DispatchKilled(n)
  BY <1>6, ZombieSteps DEF DispatchKilled
<1> QED BY <1>2, <1>3, <1>4, <1>5, <1>6 DEF Dispatch

-----------------------------------------------------------------------------
(* System calls *)

\* The caller is alive, and outside a handler no handled signal is pending.
LEMMA Caller ==
  ASSUME IInv, SignalInv, phase = "syscall"
  PROVE  /\ CurSlot \in Slots
         /\ slots[CurSlot] \in ProcessRec
         /\ slots[CurSlot].state = "Running"
         /\ slots[CurSlot].in_signal \/ Custom(slots[CurSlot]) = {}
<1>1. CurSlot \in Slots /\ slots[CurSlot].state = "Running"
  BY CurrentFound, InSyscall
<1> QED BY <1>1, TableFacts DEF SignalInv, CallQuiet

\* exec() and sigreturn() replace the pending set, sigaction() keeps it.
LEMMA SignalCallSteps ==
  ASSUME IInv, SignalInv,
         \/ SysExec
         \/ \E sig \in Signals, action \in Installed : SysSigaction(sig, action)
         \/ SysSigreturn
  PROVE  Steps
<1> DEFINE p == slots[CurSlot]
<1>1. /\ CurSlot \in Slots /\ p \in ProcessRec /\ p.state = "Running"
      /\ p.in_signal \/ Custom(p) = {}
  BY Caller DEF SysExec, SysSigaction, SysSigreturn
<1>2. CASE SysExec
  <2> DEFINE q == FreshSignals(p)
  <2>1. slots' = [slots EXCEPT ![CurSlot] = q]
    BY <1>2 DEF SysExec
  <2>2. q.state = "Running" /\ ~q.in_signal
    BY <1>1 DEF FreshSignals, ProcessRec
  <2> HIDE DEF q
  <2>3. SlotStep(p, q)
    BY <1>1, <2>2 DEF SlotStep, EmptyQuiet
  <2> QED BY Zenon, <1>1, <2>1, <2>3, OneSlot
<1>3. CASE \E sig \in Signals, action \in Installed : SysSigaction(sig, action)
  <2>1. PICK sig \in Signals, action \in Installed :
          slots' = [slots EXCEPT ![CurSlot] = SetAction(p, sig, action)]
    BY Zenon, <1>3 DEF SysSigaction
  <2> DEFINE q == SetAction(p, sig, action)
  <2>2. q.state = "Running" /\ q.sig_pending = p.sig_pending
    BY <1>1 DEF SetAction, ProcessRec
  <2> HIDE DEF q
  <2>3. SlotStep(p, q)
    BY <2>2, KeepsPending
  <2> QED BY Zenon, <1>1, <2>1, <2>3, OneSlot DEF q
<1>4. CASE SysSigreturn
  <2> DEFINE q == LeaveHandler(p, p.saved_mask)
  <2>1. slots' = [slots EXCEPT ![CurSlot] = q] /\ p.in_signal
    BY <1>4 DEF SysSigreturn
  <2>2. q.state = "Running" /\ ~q.in_signal
    BY <1>1 DEF LeaveHandler, ProcessRec
  <2> HIDE DEF q
  <2>3. SlotStep(p, q)
    BY <2>1, <2>2 DEF SlotStep, EmptyQuiet
  <2> QED BY Zenon, <1>1, <2>1, <2>3, OneSlot
<1> QED BY <1>2, <1>3, <1>4

\* fork() fills an empty slot, which has nothing pending.
LEMMA ForkSteps ==
  ASSUME IInv, SignalInv, SysFork
  PROVE  Steps
<1> DEFINE child == NewProcess(next_pid, "Ready", current_pid, slots[CurSlot].sigactions)
<1>1. CASE UNCHANGED slots
  BY <1>1, NoSlot
<1>2. CASE \E s \in Slots \ Occupied : slots' = [slots EXCEPT ![s] = child]
  <2>1. PICK s \in Slots \ Occupied : slots' = [slots EXCEPT ![s] = child]
    BY Zenon, <1>2
  <2>2. Custom(slots[s]) = {}
    BY DEF Occupied, SignalInv, EmptyQuiet, Custom
  <2>3. child.state = "Ready"
    BY DEF NewProcess
  <2> HIDE DEF child
  <2>4. SlotStep(slots[s], child)
    BY <2>2, <2>3, KeepsCustom
  <2> QED BY Zenon, <2>1, <2>4, OneSlot
<1> QED BY <1>1, <1>2 DEF SysFork

\* waitpid() empties a slot or blocks the caller.
LEMMA WaitSteps ==
  ASSUME IInv, SignalInv, NEW req, SysWaitpid(req)
  PROVE  Steps
<1> DEFINE p == slots[CurSlot]
<1>1. CurSlot \in Slots /\ p \in ProcessRec
  BY Caller DEF SysWaitpid
<1>2. CASE WaitReap(req)
  <2>1. PICK s \in Slots : slots' = [slots EXCEPT ![s] = None]
    BY Zenon, <1>2 DEF WaitReap
  <2>2. None.state = "None" /\ None.sig_pending = {}
    BY DEF None, NewProcess
  <2>3. SlotStep(slots[s], None)
    BY <2>2 DEF SlotStep, EmptyQuiet
  <2> QED BY Zenon, <2>1, <2>3, OneSlot
<1>3. CASE WaitBlock(req)
  <2>1. PICK why, pid : slots' = [slots EXCEPT ![CurSlot] = Block(p, why, pid)]
    BY Zenon, <1>3 DEF WaitBlock
  <2> DEFINE q == Block(p, why, pid)
  <2>2. q.state = "Blocked" /\ q.sig_pending = p.sig_pending
    BY <1>1 DEF Block, ProcessRec
  <2> HIDE DEF q
  <2>3. SlotStep(p, q)
    BY <2>2, KeepsPending
  <2> QED BY Zenon, <1>1, <2>1, <2>3, OneSlot DEF q
<1> QED BY <1>2, <1>3 DEF SysWaitpid

\* read() on the terminal wakes the reader or blocks the caller.
LEMMA ReadSteps ==
  ASSUME IInv, SignalInv, NEW ev, SysReadTty(ev)
  PROVE  Steps
<1> DEFINE p == slots[CurSlot]
<1>1. CurSlot \in Slots /\ p \in ProcessRec
  BY Caller DEF SysReadTty
<1>2. CASE slots' = [i \in Slots |-> Input(ev, slots[i])]
  <2> SUFFICES ASSUME NEW s \in Slots PROVE SlotStep(slots[s], slots'[s])
    BY DEF Steps
  <2>1. slots[s] \in ProcessRec /\ EmptyQuiet(slots[s])
    BY TableFacts DEF SignalInv
  <2> QED BY <1>2, <2>1, InputSlot
<1>3. CASE slots' = [slots EXCEPT ![CurSlot] = Block(p, "tty", p.wait_for_pid)]
  <2> DEFINE q == Block(p, "tty", p.wait_for_pid)
  <2>1. q.state = "Blocked" /\ q.sig_pending = p.sig_pending
    BY <1>1 DEF Block, ProcessRec
  <2>2. slots' = [slots EXCEPT ![CurSlot] = q]
    BY <1>3
  <2> HIDE DEF q
  <2>3. SlotStep(p, q)
    BY <2>1, KeepsPending
  <2> QED BY Zenon, <1>1, <2>2, <2>3, OneSlot
<1> QED BY <1>2, <1>3 DEF SysReadTty

\* kill() adds a signal.
LEMMA KillSteps ==
  ASSUME IInv, SignalInv, NEW s \in Slots, NEW sig \in Signals, SysKill(s, sig)
  PROVE  Steps
<1> DEFINE p == slots[s]
           w == IF p.state = "Blocked" THEN Wake(p) ELSE p
           q == SetPending(w, p.sig_pending \union {sig})
<1>1. p \in ProcessRec /\ p.state # "None"
  BY TableFacts DEF SysKill, Occupied
<1>2. slots' = [slots EXCEPT ![s] = q]
  BY DEF SysKill
<1>3. w \in ProcessRec /\ w.state # "None"
  BY Zenon, <1>1 DEF Wake, ProcessRec
<1> HIDE DEF w
<1>4. q.state # "None" /\ q.sig_pending = p.sig_pending \union {sig}
  BY <1>3 DEF SetPending, ProcessRec
<1> HIDE DEF q
<1>5. SlotStep(p, q)
  BY <1>4, KeepsPending
<1> QED BY Zenon, <1>2, <1>5, OneSlot

-----------------------------------------------------------------------------
(* All steps *)

\* Every step keeps the handled signals of every process.
LEMMA NextSteps ==
  ASSUME IInv, SignalInv, [Next]_vars
  PROVE  Steps
<1>1. CASE Irq
  BY <1>1, TickSteps DEF Irq
<1>2. CASE SyscallEnter \/ SyscallCustomPending \/ SwitchExit
  BY <1>2, EntrySteps
<1>3. CASE \E sig \in Signals : SyscallTerminated(sig)
  BY <1>3, ZombieSteps, CurrentFound DEF SyscallTerminated
<1>4. CASE SyscallReturn \/ Panicked \/ UNCHANGED vars
  BY <1>4, NoSlot DEF SyscallReturn, Panicked, vars
<1>5. CASE Schedule
  BY <1>5, DispatchSteps DEF Schedule
<1>6. CASE Syscall
  <2>1. CASE SysOther \/ \E pid \in 1..MaxPid : SysKillAbsent(pid)
    BY Zenon, <2>1, NoSlot DEF SysOther, SysKillAbsent
  <2>2. CASE \E code \in ExitCodes : SysExit(code)
    BY Zenon, <2>2, ZombieSteps, CurrentFound DEF SysExit
  <2>3. CASE SysFork
    BY <2>3, ForkSteps
  <2>4. CASE \/ SysExec
             \/ \E sig \in Signals, action \in Installed : SysSigaction(sig, action)
             \/ SysSigreturn
    BY <2>4, SignalCallSteps
  <2>5. CASE \E req \in {-1} \union 1..MaxPid : SysWaitpid(req)
    BY <2>5, WaitSteps
  <2>6. CASE \E ev \in InputEvents : SysReadTty(ev)
    BY <2>6, ReadSteps
  <2>7. CASE \E s \in Slots, sig \in Signals : SysKill(s, sig)
    BY <2>7, KillSteps
  <2> QED BY <1>6, <2>1, <2>2, <2>3, <2>4, <2>5, <2>6, <2>7 DEF Syscall
<1> QED BY <1>1, <1>2, <1>3, <1>4, <1>5, <1>6 DEF Next

\* Only the check at system-call entry leads to a system call.
LEMMA IntoSyscall ==
  ASSUME IInv, [Next]_vars, phase' = "syscall"
  PROVE  SyscallEnter \/ UNCHANGED vars
<1>1. ~Schedule
  BY Zenon, SchedNextReady DEF Schedule, Dispatch, DispatchRun, DispatchHandler, DispatchNoStack,
     DispatchKilled
<1>2. ~Syscall
  BY Zenon DEF Syscall, SysOther, SysExit, SysFork, SysExec, SysWaitpid, SysReadTty, SysKill,
     SysKillAbsent, SysSigaction, SysSigreturn
<1> QED BY Zenon, <1>1, <1>2 DEF Next, Irq, Tick, SyscallTerminated, SyscallCustomPending,
     SyscallReturn, SwitchExit, Panicked

\* The two facts about pending signals are preserved.
LEMMA SignalInvStep ==
  ASSUME IInv, SignalInv, [Next]_vars
  PROVE  SignalInv'
<1>1. \A s \in Slots : EmptyQuiet(slots'[s])
  BY NextSteps DEF Steps, SlotStep
<1>2. ASSUME phase' = "syscall", NEW s \in Slots
      PROVE  CallQuiet(slots'[s])
  <2>1. CASE SyscallEnter
    <3> DEFINE p == slots[CurSlot]
               q == SetPending(p, IF p.in_signal THEN p.sig_pending ELSE {})
    <3>1. /\ CurSlot \in Slots /\ p \in ProcessRec
          /\ slots' = [slots EXCEPT ![CurSlot] = q]
      BY <2>1, CurrentFound, TableFacts DEF SyscallEnter
    <3>2. q.in_signal = p.in_signal /\ q.sig_pending = IF p.in_signal THEN p.sig_pending ELSE {}
      BY <3>1 DEF SetPending, ProcessRec
    <3>3. CallQuiet(q)
      BY <3>2 DEF CallQuiet, Custom
    <3> HIDE DEF q
    <3>4. CASE s = CurSlot
      BY <3>1, <3>3, <3>4 DEF IInv, TypeOK
    <3>5. CASE s # CurSlot
      BY <3>1, <3>5, TableFacts DEF IInv, TypeOK, CallQuiet
    <3> QED BY <3>4, <3>5
  <2>2. CASE UNCHANGED vars
    BY <1>2, <2>2 DEF vars, SignalInv
  <2> QED BY <1>2, <2>1, <2>2, IntoSyscall
<1> QED BY Zenon, <1>1, <1>2 DEF SignalInv, EmptyQuiet, CallQuiet, Custom

\* The table starts without pending signals.
LEMMA InitSignals == Init => SignalInv
<1> SUFFICES ASSUME Init PROVE SignalInv
  OBVIOUS
<1>1. \A s \in Slots : slots[s].sig_pending = {}
  BY DEF Init, NewProcess, None
<1> QED BY <1>1 DEF Init, SignalInv, EmptyQuiet

(***************************************************************************)
(* A pending signal that has a handler leaves the pending set only when    *)
(* its own handler starts, when the process dies, or when sigreturn() or   *)
(* exec() ends the handler during which it arrived: neither the check at   *)
(* system-call entry, nor delivery of another signal, nor Ctrl-C, fork(),  *)
(* exec() outside a handler or a context switch drops it.                  *)
(***************************************************************************)
THEOREM SignalsKept == Spec => HandledSignalKept
<1>1. Init => SignalInv
  BY InitSignals
<1>2. IInv /\ SignalInv /\ [Next]_vars => SignalInv'
  BY SignalInvStep
<1>3. IInv /\ SignalInv /\ [Next]_vars => [SignalStep]_vars
  BY NextSteps DEF Steps, SlotStep, SignalStep
<1> QED BY <1>1, <1>2, <1>3, Invariance, PTL DEF Spec, HandledSignalKept
=============================================================================
