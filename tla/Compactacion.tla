---------------------------- MODULE Compactacion ----------------------------
(***************************************************************************)
(* The CPUs and the Kernel Scheduler while processes ask for memory: what  *)
(* compacting it and losing it mean for those that run.                    *)
(***************************************************************************)
EXTENDS PedidosMemoria

CONSTANT
  CiclosUsados   \* of each process when the model starts

ASSUME CiclosUsadosOK == CiclosUsados \in [Pids -> 0 .. Ciclos]

vars == <<ks, canales, cpuVars, tabla_vieja, planVars, hilo_cpu, oyente, kmVars, compVars,
          finVars>>

TypeOK ==
  /\ CanalesTipo /\ CpuTipo /\ PedidosTipo
  /\ tabla_vieja \subseteq Cpus

\* The CPUs are connected.
Init ==
  /\ CanalesInit /\ PedidosInit
  /\ cpu_estado = [c \in Cpus |-> "espera"]
  /\ cpu_pid = [c \in Cpus |-> Nadie]
  /\ interrupcion_pendiente_pid = [c \in Cpus |-> Nadie]
  /\ ciclos = CiclosUsados
  /\ tabla_vieja = {}

Vivo == ~ ks_terminado /\ ~ ks_caido

PasoPlanificador == Vivo /\ Planificador
PasoHilo(c) == Vivo /\ HiloCpu(c)
PasoIo == Vivo /\ FinIo
PasoOyente == Vivo /\ HiloEscucharMemoria
PasoCpu(c) ==
  /\ Vivo
  /\ CpuMemoriaPaso(c)
  /\ UNCHANGED <<ks, planVars, hilo_cpu, oyente, kmVars, compVars, finVars>>
PasoStick == Vivo /\ StickSeVa

Next ==
  \/ PasoPlanificador
  \/ \E c \in Cpus : PasoHilo(c) \/ PasoCpu(c)
  \/ PasoIo
  \/ PasoOyente
  \/ PasoStick

Spec == Init /\ [][Next]_vars

\* Every thread and every CPU goes on, and a device ends; a stick need not go.
FairSpec ==
  /\ Spec
  /\ WF_vars(PasoPlanificador) /\ WF_vars(PasoIo) /\ WF_vars(PasoOyente)
  /\ \A c \in Cpus : WF_vars(PasoHilo(c)) /\ WF_vars(PasoCpu(c))

-----------------------------------------------------------------------------
(* Properties.                                                              *)

\* The right to plan is with nobody, with the planner until it has sent a process,
\* or with a compaction until its process is back: never with two, never lost
\* but with the confirmation.
UnSoloPlanificador ==
  Vivo =>
    sem_puede_planificar + (IF planificador # Ninguno THEN 1 ELSE 0)
      + (IF esperando # Ninguno THEN 1 ELSE 0) = 1

\* A CPU that runs a process with a segment table from before a compaction has
\* been told to stop: the interrupt waits in its connection or is pending, and
\* the process does not run on with it.
AvisadaSiTablaVieja ==
  \A c \in Cpus :
    ~ bsod_activo /\ c \in tabla_vieja /\ cpu_estado[c] = "ejecuta" =>
      \/ interrupcion_pendiente_pid[c] = cpu_pid[c]
      \/ \E i \in DOMAIN a_cpu[c] :
           a_cpu[c][i] = [op |-> "INTERRUMPIR_PROCESO", pid |-> cpu_pid[c]]

\* After BSOD the Kernel Scheduler does not end while a CPU still runs one of the
\* processes.
BsodEsperaATodas ==
  ks_terminado => \A c \in Cpus : cpu_estado[c] # "ejecuta"

\* Every process ends, those evicted for a compaction and those that waited for
\* it too, unless the memory is lost or the confirmation was taken for a request.
TodosTerminan ==
  <>(bsod_activo \/ ks_caido \/ mutex_perdido \/ \A p \in Pids : ks.estado[p] = "EXIT")

\* The life cycle of the processes, with the two edges that only memory brings:
\* BLOCK to EXEC after a compaction, and everything to EXIT.
Ciclo == INSTANCE CicloDeVida
           WITH Procesos <- Pids, Maximo <- Cardinality(Cpus), estado <- ks.estado

CicloDeVida == Ciclo!Spec

\* kernel_memory/src/handlers.c: "hay espacio total pero no contiguo: el KS
\* desaloja y compactamos".  As a state: no CPU runs a process with segments that
\* were moved since it took its table.
DesalojadosAlCompactar ==
  \A c \in Cpus : cpu_estado[c] = "ejecuta" => c \notin tabla_vieja
=============================================================================
