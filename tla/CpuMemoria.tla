----------------------------- MODULE CpuMemoria -----------------------------
(***************************************************************************)
(* A CPU whose processes ask for memory: the syscalls that wait for an     *)
(* answer of the Kernel Scheduler and those that do not, and the copy of   *)
(* the segment table that obtener_contexto brings (cpu/src/contexto.c).    *)
(* Everything else of a CPU is in module Cpu.                              *)
(***************************************************************************)
EXTENDS Cpu

VARIABLE
  tabla_vieja   \* CPUs whose copy of the segment table is older than a compaction

\* obtener_contexto.
ObtenerContexto(c) == tabla_vieja' = tabla_vieja \ {c}

\* main: the process comes with its context.
Recibe(c) == CpuRecibeProceso(c) /\ ObtenerContexto(c)

\* MEM_ALLOC, MEM_FREE: the CPU waits for the answer.
EjecutarSyscallMemoria(c, op) ==
  /\ OtroCiclo(c)
  /\ de_cpu' = AlKs(c, op, cpu_pid[c], 0)
  /\ cpu_estado' = [cpu_estado EXCEPT ![c] = "respuesta"]
  /\ UNCHANGED <<a_cpu, cpu_pid, interrupcion_pendiente_pid, tabla_vieja>>

\* SLEEP: the process leaves the CPU with the syscall, nothing is waited for.
EjecutarSyscallSleep(c) ==
  /\ OtroCiclo(c)
  /\ AvisarFinAScheduler(c, "IO_SLEEP")
  /\ UNCHANGED <<a_cpu, interrupcion_pendiente_pid, tabla_vieja>>

\* OP_OK to a MEM_ALLOC or a MEM_FREE: a new table, then check_interrupt.
RespuestaMemoria(c) == RespuestaOk(c) /\ ObtenerContexto(c)

\* OP_BLOQUEADO: the process leaves the CPU.
RespuestaBloqueado(c) ==
  /\ EsperaRespuesta(c)
  /\ Primero(c).op = "BLOQUEADO"
  /\ a_cpu' = [a_cpu EXCEPT ![c] = Tail(@)]
  /\ cpu_estado' = [cpu_estado EXCEPT ![c] = "espera"]
  /\ cpu_pid' = [cpu_pid EXCEPT ![c] = Nadie]
  /\ UNCHANGED <<de_cpu, interrupcion_pendiente_pid, ciclos, tabla_vieja>>

\* What a CPU does; a common instruction and a fault may use the table.
CpuMemoriaPaso(c) ==
  \/ Recibe(c) \/ RespuestaMemoria(c) \/ RespuestaBloqueado(c)
  \/ \E op \in {"MEM_ALLOC", "MEM_FREE"} : EjecutarSyscallMemoria(c, op)
  \/ EjecutarSyscallSleep(c)
  \/ /\ \/ CpuDescarta(c) \/ EjecutarComun(c) \/ EjecutarExit(c) \/ EjecutarSegFault(c)
        \/ RespuestaInterrumpida(c) \/ RespuestaError(c)
     /\ UNCHANGED tabla_vieja
=============================================================================
