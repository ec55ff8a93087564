----------------------------- MODULE Registers -----------------------------
(***************************************************************************)
(* The registers of the processor and the values they hold.  A user        *)
(* program is at one of Points, and there every register has a value of    *)
(* its own, so that a word that ends in the wrong register, or comes from  *)
(* another moment, is seen.  rdi stands for the registers a system call    *)
(* may clobber, rbx for those the C calling convention preserves.  rsp     *)
(* counts the signal frames that still fit above stack_low.                *)
(***************************************************************************)
EXTENDS Naturals

CONSTANTS Points,  \* program points of the user programs
          Tight    \* those where the stack has no room for a signal frame

ASSUME RegistersAssumption == Points # {} /\ Tight \subseteq Points

Zero == <<"zero">>
DefaultFlags == <<"0x202">>
Result(t) == <<"result", t>>   \* what the call made at t returns

At(t, room) ==
  [rax |-> <<"rax", t>>, rdi |-> <<"rdi", t>>, rbx |-> <<"rbx", t>>,
   rip |-> <<"rip", t>>, rsp |-> <<"rsp", room>>, rflags |-> <<"rflags", t>>,
   cs |-> "user"]

\* The frame of a program that starts, or of a child that returns from fork.
Fresh(rip, rsp, rdi) ==
  [rax |-> Zero, rdi |-> rdi, rbx |-> Zero, rip |-> rip, rsp |-> rsp,
   rflags |-> DefaultFlags, cs |-> "user"]

Entry == <<"entry">>
TopOfStack == <<"rsp", 1>>

\* The context in which the handler of a signal begins.
InHandler(r) == [r EXCEPT !.rdi = <<"signum">>, !.rip = <<"handler">>,
                          !.rsp = <<"rsp", r.rsp[2] - 1>>]

Idle == [Fresh(<<"idle">>, <<"stack", 2>>, Zero) EXCEPT !.cs = "kernel"]
=============================================================================
