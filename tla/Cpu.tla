-------------------------------- MODULE Cpu --------------------------------
(***************************************************************************)
(* The CPU module (cpu/src): the loop of main, the instruction cycle and   *)
(* check_interrupt, as far as the Kernel Scheduler sees them.              *)
(*                                                                         *)
(* Which instructions a process runs is left open: in every cycle it may   *)
(* run a common instruction, a syscall, end or fault.  Ciclos bounds the   *)
(* cycles of each process; a process that has used them up ends.           *)
(***************************************************************************)
EXTENDS Canales

CONSTANTS
  Ciclos,     \* bound: instruction cycles of one process
  Caidas      \* the CPUs that may be stopped

ASSUME CiclosOK == Ciclos \in Nat

VARIABLES
  cpu_estado,                  \* where main is
  cpu_pid,                     \* process it runs
  interrupcion_pendiente_pid,  \* interrupt read while waiting for an answer
  ciclos                       \* cycles each process has used

cpuVars == <<cpu_estado, cpu_pid, interrupcion_pendiente_pid, ciclos>>

EstadosCpu == {"sin_conectar", "espera", "ejecuta", "respuesta", "apagada"}

CpuTipo ==
  /\ cpu_estado \in [Cpus -> EstadosCpu]
  /\ cpu_pid \in [Cpus -> Pids \cup {Nadie}]
  /\ interrupcion_pendiente_pid \in [Cpus -> Pids \cup {Nadie}]
  /\ ciclos \in [Pids -> 0 .. Ciclos]

CpuInit ==
  /\ cpu_estado = [c \in Cpus |-> "sin_conectar"]
  /\ cpu_pid = [c \in Cpus |-> Nadie]
  /\ interrupcion_pendiente_pid = [c \in Cpus |-> Nadie]
  /\ ciclos = [p \in Pids |-> 0]

Primero(c) == Head(a_cpu[c])

\* The handshakes of main.
CpuConecta(c) ==
  /\ cpu_estado[c] = "sin_conectar"
  /\ cpu_estado' = [cpu_estado EXCEPT ![c] = "espera"]
  /\ UNCHANGED <<cpu_pid, interrupcion_pendiente_pid, ciclos>>

\* The main loop reads OP_EJECUTAR_PROCESO and gets the context of the process.
CpuRecibeProceso(c) ==
  /\ cpu_estado[c] = "espera"
  /\ a_cpu[c] # <<>>
  /\ Primero(c).op = "EJECUTAR_PROCESO"
  /\ a_cpu' = [a_cpu EXCEPT ![c] = Tail(@)]
  /\ cpu_estado' = [cpu_estado EXCEPT ![c] = "ejecuta"]
  /\ cpu_pid' = [cpu_pid EXCEPT ![c] = Primero(c).pid]
  /\ UNCHANGED <<de_cpu, interrupcion_pendiente_pid, ciclos>>

\* Anything else is thrown away: an interrupt for a process the CPU no longer
\* runs, or does not run yet, and an answer nobody waits for.
CpuDescarta(c) ==
  /\ cpu_estado[c] = "espera"
  /\ a_cpu[c] # <<>>
  /\ Primero(c).op # "EJECUTAR_PROCESO"
  /\ a_cpu' = [a_cpu EXCEPT ![c] = Tail(@)]
  /\ UNCHANGED <<de_cpu, cpuVars>>

\* Mutant: the KS is told and the cycle goes on with the same process.
MutAvisarYSeguir(c, op) ==
  /\ de_cpu' = AlKs(c, op, cpu_pid[c], 0)
  /\ cpu_estado' = [cpu_estado EXCEPT ![c] = "ejecuta"]
  /\ UNCHANGED cpu_pid

\* avisar_fin_a_scheduler: the context is saved, the KS is told, the CPU waits.
AvisarFinAScheduler(c, op) ==
  /\ de_cpu' = AlKs(c, op, cpu_pid[c], 0)
  /\ cpu_estado' = [cpu_estado EXCEPT ![c] = "espera"]
  /\ cpu_pid' = [cpu_pid EXCEPT ![c] = Nadie]

-----------------------------------------------------------------------------
(* check_interrupt, at the end of a cycle.                                  *)

\* An interrupt kept from before is looked at and forgotten, without reading
\* the socket; otherwise at most one message is read.
PideInterrupcion(c, canal) ==
  IF interrupcion_pendiente_pid[c] # Nadie
  THEN interrupcion_pendiente_pid[c] = cpu_pid[c]
  ELSE /\ canal # <<>>
       /\ Head(canal).op = "INTERRUMPIR_PROCESO"
       /\ Head(canal).pid = cpu_pid[c]

\* canal is what is left of the connection after the answer of a syscall.
CheckInterrupt(c, canal) ==
  /\ interrupcion_pendiente_pid' = [interrupcion_pendiente_pid EXCEPT ![c] = Nadie]
  /\ a_cpu' = [a_cpu EXCEPT ![c] =
                 IF interrupcion_pendiente_pid[c] # Nadie \/ canal = <<>>
                 THEN canal ELSE Tail(canal)]
  /\ IF PideInterrupcion(c, canal)
     THEN AvisarFinAScheduler(c, "PROCESO_FIN_QUANTUM")
     ELSE /\ cpu_estado' = [cpu_estado EXCEPT ![c] = "ejecuta"]
          /\ UNCHANGED <<de_cpu, cpu_pid>>

-----------------------------------------------------------------------------
(* execute.                                                                 *)

OtroCiclo(c) ==
  /\ cpu_estado[c] = "ejecuta"
  /\ ciclos[cpu_pid[c]] < Ciclos
  /\ ciclos' = [ciclos EXCEPT ![cpu_pid[c]] = @ + 1]

\* NOOP, SET, SUM, SUB, JNZ, MOV_IN, MOV_OUT, COPY_MEM.
EjecutarComun(c) ==
  /\ OtroCiclo(c)
  /\ CheckInterrupt(c, a_cpu[c])

\* INIT_PROC: the CPU waits for the answer.
EjecutarSyscallInitProc(c, prio) ==
  /\ OtroCiclo(c)
  /\ de_cpu' = AlKs(c, "INIT_PROC", cpu_pid[c], prio)
  /\ cpu_estado' = [cpu_estado EXCEPT ![c] = "respuesta"]
  /\ UNCHANGED <<a_cpu, cpu_pid, interrupcion_pendiente_pid>>

\* EXIT, and every error of the cycle: the KS is told the process ended.
EjecutarExit(c) ==
  /\ cpu_estado[c] = "ejecuta"
  /\ AvisarFinAScheduler(c, "PROCESO_EXIT")
  /\ UNCHANGED <<a_cpu, interrupcion_pendiente_pid, ciclos>>

\* The MMU refuses an address.
EjecutarSegFault(c) ==
  /\ cpu_estado[c] = "ejecuta"
  /\ AvisarFinAScheduler(c, "PROCESO_SEG_FAULT")
  /\ UNCHANGED <<a_cpu, interrupcion_pendiente_pid, ciclos>>

-----------------------------------------------------------------------------
(* recibir_respuesta_scheduler.                                             *)

EsperaRespuesta(c) == cpu_estado[c] = "respuesta" /\ a_cpu[c] # <<>>

\* An interrupt comes before the answer; the last one is kept.
RespuestaInterrumpida(c) ==
  /\ EsperaRespuesta(c)
  /\ Primero(c).op = "INTERRUMPIR_PROCESO"
  /\ interrupcion_pendiente_pid' =
       [interrupcion_pendiente_pid EXCEPT ![c] = Primero(c).pid]
  /\ a_cpu' = [a_cpu EXCEPT ![c] = Tail(@)]
  /\ UNCHANGED <<de_cpu, cpu_estado, cpu_pid, ciclos>>

\* OP_OK: the cycle ends with check_interrupt.
RespuestaOk(c) ==
  /\ EsperaRespuesta(c)
  /\ Primero(c).op = "OK"
  /\ CheckInterrupt(c, Tail(a_cpu[c]))
  /\ UNCHANGED ciclos

\* Any other code ends the process; OP_BLOQUEADO is an answer of other syscalls.
RespuestaError(c) ==
  /\ EsperaRespuesta(c)
  /\ Primero(c).op \notin {"INTERRUMPIR_PROCESO", "OK", "BLOQUEADO"}
  /\ a_cpu' = [a_cpu EXCEPT ![c] = Tail(@)]
  /\ AvisarFinAScheduler(c, "PROCESO_EXIT")
  /\ UNCHANGED <<interrupcion_pendiente_pid, ciclos>>

-----------------------------------------------------------------------------
\* The CPU process is stopped and its connection closes behind what it sent.
CpuSeApaga(c) ==
  /\ c \in Caidas
  /\ cpu_estado[c] \in {"espera", "ejecuta", "respuesta"}
  /\ cpu_estado' = [cpu_estado EXCEPT ![c] = "apagada"]
  /\ cpu_pid' = [cpu_pid EXCEPT ![c] = Nadie]
  /\ de_cpu' = AlKs(c, "FIN_CONEXION", Nadie, 0)
  /\ UNCHANGED <<a_cpu, interrupcion_pendiente_pid, ciclos>>

\* What a connected CPU does.
CpuPaso(c) ==
  \/ CpuRecibeProceso(c)
  \/ CpuDescarta(c)
  \/ EjecutarComun(c)
  \/ \E prio \in Prioridades : EjecutarSyscallInitProc(c, prio)
  \/ EjecutarExit(c)
  \/ EjecutarSegFault(c)
  \/ RespuestaInterrumpida(c)
  \/ RespuestaOk(c)
  \/ RespuestaError(c)
=============================================================================
