--------------------------- MODULE Planificacion ---------------------------
(***************************************************************************)
(* The Kernel Scheduler and its CPUs, joined by their connections.         *)
(***************************************************************************)
EXTENDS KernelScheduler, Cpu

vars == <<canales, ksVars, cpuVars>>

TypeOK == CanalesTipo /\ KsTipo /\ CpuTipo

Init == CanalesInit /\ KsInit /\ CpuInit

\* A CPU connects and its thread starts.
Conectar(c) ==
  /\ ~ ks_caido
  /\ AtenderCpu(c)
  /\ CpuConecta(c)

Ks(A) == ~ ks_caido /\ A /\ UNCHANGED cpuVars

PasoPlanificador == Ks(Planificador)
PasoHiloCpu(c) == Ks(HiloCpu(c))
PasoHiloQuantum(t) == Ks(HiloQuantum(t))
PasoCpu(c) == CpuPaso(c) /\ UNCHANGED ksVars
Apagar(c) == CpuSeApaga(c) /\ UNCHANGED ksVars

Next ==
  \/ PasoPlanificador
  \/ \E t \in Timers : PasoHiloQuantum(t)
  \/ \E c \in Cpus : Conectar(c) \/ PasoHiloCpu(c) \/ PasoCpu(c) \/ Apagar(c)

Spec == Init /\ [][Next]_vars

\* Every thread goes on, the quantum of a timer ends, the CPUs connect and run.
FairSpec ==
  /\ Spec
  /\ WF_vars(PasoPlanificador)
  /\ \A t \in Timers : WF_vars(PasoHiloQuantum(t))
  /\ \A c \in Cpus : /\ WF_vars(Conectar(c))
                     /\ WF_vars(PasoHiloCpu(c))
                     /\ WF_vars(PasoCpu(c))

-----------------------------------------------------------------------------
(* Properties.                                                              *)

Veces(p, s) == Cardinality({i \in DOMAIN s : s[i] = p})

EnReady(p) == \E q \in Colas : EnLista(p, colas_ready[q])

\* A process that is alive is in exactly one list of the scheduler, once, and
\* it is the list of its state; READY means the queue of its priority or, when
\* there is none, lista_ready_invalida.
UnaSolaLista ==
  \A p \in Pids :
    /\ Veces(p, lista_new) = IF estado[p] = "NEW" THEN 1 ELSE 0
    /\ Veces(p, lista_exec) = IF estado[p] = "EXEC" THEN 1 ELSE 0
    /\ Veces(p, lista_ready_invalida) =
         IF estado[p] = "READY" /\ ~ Planificable(p) THEN 1 ELSE 0
    /\ \A q \in Colas : Veces(p, colas_ready[q]) =
         IF estado[p] = "READY" /\ Planificable(p) /\ q = ColaDe(p) THEN 1 ELSE 0

\* A connected CPU is in lista_cpus_libres once, or has one process in EXEC, or
\* its own thread is about to free it: never two of them, never none.
CpuDeUno ==
  \A c \in Cpus :
    hilo_cpu[c].pc \notin {"no", "cerrado"} /\ hilo_cpu[c].luego # "desc_fin" =>
      Veces(c, lista_cpus_libres)
        + Cardinality({p \in Pids : estado[p] = "EXEC" /\ cpu[p] = c})
        + Cardinality({d \in Cpus : hilo_cpu[d].cpu = c
                                    /\ (hilo_cpu[d].pc \in {"fq_fin", "exit_fin"}
                                        \/ hilo_cpu[d].luego = "fq_fin")}) = 1

\* What a CPU runs, and what it has told the KS and the KS has not read yet, is
\* about the process that the KS has in EXEC on that very CPU: no process runs
\* on two CPUs and the early returns for a process that is not in EXEC are
\* never taken.
EjecucionUnica ==
  \A c \in Cpus :
    /\ cpu_pid[c] # Nadie =>
         estado[cpu_pid[c]] = "EXEC" /\ cpu[cpu_pid[c]] = c
    /\ \A i \in DOMAIN de_cpu[c] : de_cpu[c][i].pid # Nadie =>
         estado[de_cpu[c][i].pid] = "EXEC" /\ cpu[de_cpu[c][i].pid] = c

\* Tokens of sem_hay_procesos_ready plus those on their way are as many as the
\* processes in the queues: the planner neither sleeps with work to do nor
\* wakes up without.
TokensReady ==
  sem_hay_procesos_ready
    + (IF planificador.pc \in {"cpus", "puede"} THEN 1 ELSE 0)
    + Cardinality({c \in Cpus : hilo_cpu[c].planificable})
  = Cardinality({p \in Pids : EnReady(p)})

\* The same for the free CPUs, as long as none was lost.
TokensCpus ==
  (\A c \in Cpus : cpu_estado[c] # "apagada") =>
    sem_hay_cpus_libres
      + (IF planificador.pc = "puede" THEN 1 ELSE 0)
      + Cardinality({c \in Cpus : hilo_cpu[c].pc = "postear"})
    = Len(lista_cpus_libres)

\* The timer a process points to is a live structure made for it: hilo_quantum
\* never frees one that is still pointed to, and one that malloc reuses is
\* never taken for the old one.
TimerVivo ==
  \A p \in Pids : timer[p] # Nulo =>
    timers[timer[p]].estado \in {"creado", "corre"} /\ timers[timer[p]].pid = p

\* With the queues, the semaphores, the messages and the CPUs that go away, the
\* scheduler does what CicloDeVida says and nothing else: one process at a time
\* along the edges of its life, none after EXIT, no more running than CPUs.
Ciclo == INSTANCE CicloDeVida WITH Procesos <- Pids, Maximo <- Cardinality(Cpus)

CicloDeVida == Ciclo!Spec

EnCamino(c, p) ==
  \/ \E i \in DOMAIN a_cpu[c] : a_cpu[c][i].op = "INTERRUMPIR_PROCESO" /\ a_cpu[c][i].pid = p
  \/ interrupcion_pendiente_pid[c] = p

\* A process of a round-robin queue that runs has its quantum: its timer is
\* counting, or the interrupt is on its way, or the CPU has already given the
\* process back.
QuantumCorre ==
  \A p \in Pids :
    estado[p] = "EXEC" /\ AlgoritmoDe(ColaDe(p)) = "RR" =>
      \/ timer[p] # Nulo
      \/ \E t \in Timers : timers[t].estado = "vencido" /\ timers[t].pid = p
      \/ EnCamino(cpu[p], p)
      \/ \E i \in DOMAIN de_cpu[cpu[p]] :
           de_cpu[cpu[p]][i].op # "INIT_PROC" /\ de_cpu[cpu[p]][i].pid = p

\* No process starves: whatever the semaphores, the interrupts and the timers do,
\* every process that is created, or waits, ends, unless its priority has no
\* queue or a CPU has left, which may take with it a process it was sent.
TodosTerminan ==
  \A p \in Pids :
    estado[p] \in {"NEW", "READY"} ~>
      \/ estado[p] = "EXIT" \/ EnLista(p, lista_ready_invalida)
      \/ \E c \in Cpus : cpu_estado[c] = "apagada"

\* The KS has nothing in hand: every message of the CPUs is answered and the
\* planner waits for a CPU.
KsQuieto ==
  /\ planificador.pc = "cpus"
  /\ lista_cpus_libres = <<>>
  /\ \A c \in Cpus : hilo_cpu[c].pc = "recibir" /\ de_cpu[c] = <<>>

\* PRUEBAS.md, test 7: the process of worse priority that is running is taken
\* off its CPU when one of better priority appears.  As a state: when the KS has
\* nothing in hand and a process waits in a queue, the worst of the running
\* processes is not of worse priority, unless its interrupt is on its way.
DesalojoEntreColasOcurre ==
  Cmn /\ DesalojoEntreColas /\ KsQuieto =>
    \A h \in Pids : EnReady(h) =>
      \E l \in Pids :
        /\ estado[l] = "EXEC"
        /\ \A p \in Pids : estado[p] = "EXEC" => prioridad[p] <= prioridad[l]
        /\ prioridad[l] > prioridad[h] => EnCamino(cpu[l], l)
=============================================================================
