------------------------------- MODULE Timer -------------------------------
(***************************************************************************)
(* The tick counter and nanosleep (pit.rs, syscall.rs).  IRQ0 increments   *)
(* PIT_TICKS; nanosleep spins until enough ticks have passed.  SYSCALL     *)
(* clears the interrupt flag (SFMASK, gdt.rs) and SYSRET restores it.      *)
(***************************************************************************)
EXTENDS Integers

CONSTANTS Durations,  \* values of sec * 100 + nsec / 10_000_000
          MaxTicks    \* bound of the model

VARIABLES PIT_TICKS,
          IF_flag,    \* RFLAGS.IF
          irq0,       \* IRQ0 is pending in the PIC
          sleep       \* [on, start, total_ticks] of the call

timerVars == <<PIT_TICKS, IF_flag, irq0, sleep>>

TimerInit ==
  /\ PIT_TICKS = 0 /\ IF_flag = TRUE /\ irq0 = FALSE
  /\ sleep = [on |-> FALSE, start |-> 0, total_ticks |-> 0]

\* External: channel 0 of the PIT raises its line.
PitRaise ==
  /\ ~irq0 /\ PIT_TICKS < MaxTicks
  /\ irq0' = TRUE
  /\ UNCHANGED <<PIT_TICKS, IF_flag, sleep>>

\* IRQ0 is taken only while interrupts are enabled.
TickIrq ==
  /\ irq0 /\ IF_flag
  /\ irq0' = FALSE
  /\ PIT_TICKS' = PIT_TICKS + 1
  /\ UNCHANGED <<IF_flag, sleep>>

NanosleepEnter(d) ==
  /\ ~sleep.on
  /\ IF_flag' = FALSE
  /\ sleep' = [on |-> TRUE, start |-> PIT_TICKS, total_ticks |-> d]
  /\ UNCHANGED <<PIT_TICKS, irq0>>

\* The loop ends in the iteration that sees enough ticks.
NanosleepReturn ==
  /\ sleep.on
  /\ PIT_TICKS - sleep.start >= sleep.total_ticks
  /\ IF_flag' = TRUE
  /\ sleep' = [sleep EXCEPT !.on = FALSE]
  /\ UNCHANGED <<PIT_TICKS, irq0>>

TimerNext ==
  \/ PitRaise \/ TickIrq \/ NanosleepReturn
  \/ \E d \in Durations : NanosleepEnter(d)

\* The PIT keeps ticking, a pending enabled interrupt is taken and the loop runs.
TimerSpec ==
  /\ TimerInit /\ [][TimerNext]_timerVars
  /\ WF_timerVars(PitRaise) /\ WF_timerVars(TickIrq) /\ WF_timerVars(NanosleepReturn)

\* What SYSCALL.md says of nanosleep: "Busy-waits for the specified duration
\* using PIT ticks" and returns 0; so a call made while the model still has the
\* ticks to serve it returns.
NanosleepReturns ==
  (sleep.on /\ sleep.start + sleep.total_ticks <= MaxTicks) ~> ~sleep.on
=============================================================================
