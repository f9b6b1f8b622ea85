------------------------------ MODULE Nombres ------------------------------
(***************************************************************************)
(* What the modules of the Kernel Scheduler have in common: the processes  *)
(* and the CPUs it knows.                                                  *)
(***************************************************************************)
EXTENDS Integers

CONSTANTS
  Pids,   \* process numbers, 0 .. n, in the order they are given out
  Cpus    \* CPU connections

\* No process, no CPU, no timer: -1 or NULL in the code.
Nadie == -1
Nulo == "NULL"
=============================================================================
