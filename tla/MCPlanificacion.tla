-------------------------- MODULE MCPlanificacion --------------------------
(***************************************************************************)
(* Small instances of Planificacion for TLC.                               *)
(***************************************************************************)
EXTENDS Planificacion

\* Two queues, the better one round-robin.
MCColas == <<"RR", "FIFO">>

MCSimetria == Permutations(Cpus)
=============================================================================
