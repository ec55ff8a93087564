----------------------------- MODULE MCContext -----------------------------
(* PID 1 forks, waits, handles signals and reads the terminal; its child    *)
(* signals PID 1 and itself, executes programs and exits.                   *)
EXTENDS Context

MCCode == <<{1}, {}, {2}>>
MCCalls == <<{"plain", "fork", "waitpid", "read", "sigaction", "sigreturn"},
             {"kill", "exec", "exit", "sigreturn"}>>
=============================================================================
