----------------------------- MODULE MCRecovery -----------------------------
(* Two tasks: one touches a page; the other makes an unknown system call   *)
(* and then raises exceptions without end.                                 *)
EXTENDS Recovery

CONSTANTS t1, t2, p1, f1

MCProgram ==
    [t \in Task |-> IF t = t1 THEN <<p1>> ELSE <<Syscall, Exception>>]

=============================================================================
