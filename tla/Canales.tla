------------------------------ MODULE Canales ------------------------------
(***************************************************************************)
(* The TCP connection between the Kernel Scheduler and each CPU            *)
(* (utils/src/utils/protocolo.h).  A message is an operation code followed *)
(* by its parameters; a connection delivers them in order.                 *)
(***************************************************************************)
EXTENDS Sequences, Nombres

CONSTANTS
  Prioridades   \* priorities INIT_PROC is called with

VARIABLES
  a_cpu,    \* messages from the KS to each CPU not yet read
  de_cpu    \* messages from each CPU to the KS not yet read

canales == <<a_cpu, de_cpu>>

OpsKs  == {"EJECUTAR_PROCESO", "INTERRUMPIR_PROCESO", "OK", "ERROR", "BLOQUEADO"}
OpsCpu == {"PROCESO_EXIT", "PROCESO_SEG_FAULT", "PROCESO_FIN_QUANTUM", "INIT_PROC",
           "MEM_ALLOC", "MEM_FREE", "IO_SLEEP", "FIN_CONEXION"}

MensajeKs  == [op : OpsKs, pid : Pids \cup {Nadie}]
MensajeCpu == [op : OpsCpu, pid : Pids \cup {Nadie}, prioridad : Prioridades \cup {0}]

CanalesTipo ==
  /\ a_cpu \in [Cpus -> Seq(MensajeKs)]
  /\ de_cpu \in [Cpus -> Seq(MensajeCpu)]

CanalesInit ==
  /\ a_cpu = [c \in Cpus |-> <<>>]
  /\ de_cpu = [c \in Cpus |-> <<>>]

\* enviar_entero(socket, op), enviar_entero(socket, pid): appended whole.
AlCpu(canal, c, op, p) == [canal EXCEPT ![c] = Append(@, [op |-> op, pid |-> p])]

AlKs(c, op, p, prio) ==
  [de_cpu EXCEPT ![c] = Append(@, [op |-> op, pid |-> p, prioridad |-> prio])]

=============================================================================
