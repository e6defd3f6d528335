----------------------------- MODULE MCBReactor -----------------------------
(* BReactor with one program of jobs, one of timers and a file descriptor, *)
(* and one of file descriptors.  A program that uses all three would       *)
(* multiply the states of the three; they meet only in the order in which  *)
(* BReactor_Exec serves them.                                              *)
EXTENDS BReactor

CONSTANTS f1, f2

MCFds == {f1, f2}
JobProgram   == [jobs |-> Jobs, timers |-> {}, fds |-> {}, kinds |-> {}]
TimerProgram == [jobs |-> {}, timers |-> Timers, fds |-> {f1}, kinds |-> {}]
FdProgram    == [jobs |-> {}, timers |-> {}, fds |-> MCFds, kinds |-> Kinds]
MCPrograms   == {JobProgram, TimerProgram, FdProgram}
=============================================================================
