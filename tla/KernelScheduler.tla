-------------------------- MODULE KernelScheduler --------------------------
(***************************************************************************)
(* The short-term scheduler of the Kernel Scheduler                        *)
(* (kernel_scheduler/src/main.c): the queues, the planner thread, one      *)
(* thread per CPU connection (atender_cpu) and one thread per quantum.     *)
(*                                                                         *)
(* mutex_listas is held from the start to the end of an action; what a     *)
(* handler does after it releases the mutex is another action.  The        *)
(* semaphores are posted after the mutex is released, so the counts they   *)
(* keep and the lists they stand for differ in between.  A process is its  *)
(* pid.                                                                    *)
(***************************************************************************)
EXTENDS Canales, FiniteSets, SequencesExt

CONSTANTS
  Algoritmo,             \* PLANIFICATION_ALGORITHM: "FIFO", "RR" or "CMN"
  AlgoritmosPorCola,     \* QUEUES_ALGORITHMS, a sequence of "FIFO" and "RR"
  DesalojoEntreColas,    \* QUEUE_PREEMPTION
  Timers                 \* bound: t_timer structures alive at a time

ASSUME PlanificacionOK ==
  /\ Algoritmo \in {"FIFO", "RR", "CMN"}
  /\ AlgoritmosPorCola \in Seq({"FIFO", "RR"})
  /\ DesalojoEntreColas \in BOOLEAN
  /\ Prioridades \subseteq Int
  /\ 0 \in Pids /\ Pids \subseteq Nat
  /\ IsFiniteSet(Cpus)
  /\ Nulo \notin Cpus \cup Timers

Cmn == Algoritmo = "CMN"

\* The algorithm of each queue, from 0; lista_ready is the only queue when the
\* algorithm is not CMN.
CantidadColas == IF Cmn THEN Len(AlgoritmosPorCola) ELSE 1
Colas == 0 .. CantidadColas - 1
AlgoritmoDe(q) == IF Cmn THEN AlgoritmosPorCola[q + 1] ELSE Algoritmo

EstadosProceso == {"SIN_CREAR", "NEW", "READY", "EXEC", "EXIT"}

VARIABLES
  estado, prioridad, cpu, timer,   \* fields of t_proceso
  proximo_pid,
  lista_new, colas_ready, lista_ready_invalida, lista_exec,
  lista_cpus_libres,
  sem_hay_procesos_ready, sem_hay_cpus_libres, sem_puede_planificar,
  planificador,                    \* planner thread: where it is, its locals
  hilo_cpu,                        \* threads of the CPUs: the same
  timers,                          \* t_timer structures, one thread each
  ks_caido                         \* the KS followed a NULL pointer

procesoVars == <<estado, prioridad, cpu, timer, proximo_pid>>
listaVars   == <<lista_new, colas_ready, lista_ready_invalida, lista_exec,
                 lista_cpus_libres>>
semVars     == <<sem_hay_procesos_ready, sem_hay_cpus_libres,
                 sem_puede_planificar>>
hiloVars    == <<planificador, hilo_cpu, timers, ks_caido>>
ksVars      == <<procesoVars, listaVars, semVars, hiloVars>>

SinAviso == [cpu |-> Nulo, pid |-> Nadie]
SinTimer == [estado |-> "libre", pid |-> Nadie, cpu |-> Nulo]

KsTipo ==
  /\ estado \in [Pids -> EstadosProceso]
  /\ prioridad \in [Pids -> Prioridades \cup {0}]
  /\ cpu \in [Pids -> Cpus \cup {Nulo}]
  /\ timer \in [Pids -> Timers \cup {Nulo}]
  /\ proximo_pid \in Nat
  /\ lista_new \in Seq(Pids)
  /\ colas_ready \in [Colas -> Seq(Pids)]
  /\ lista_ready_invalida \in Seq(Pids)
  /\ lista_exec \in Seq(Pids)
  /\ lista_cpus_libres \in Seq(Cpus)
  /\ sem_hay_procesos_ready \in Nat
  /\ sem_hay_cpus_libres \in Nat
  /\ sem_puede_planificar \in Nat
  /\ planificador \in [pc : {"ready", "cpus", "puede", "enviar"},
                       pid : Pids \cup {Nadie}, cpu : Cpus \cup {Nulo},
                       timer : Timers \cup {Nulo}]
  /\ hilo_cpu \in [Cpus -> [pc : {"no", "recibir", "avisar", "fq_fin", "exit_fin",
                                  "init_nuevo", "init_fin", "postear", "desc_fin",
                                  "cerrado"},
                            luego : {"fq_fin", "init_fin", "desc_fin", "nada"},
                            pid : Pids \cup {Nadie},
                            cpu : Cpus \cup {Nulo},
                            planificable : BOOLEAN,
                            aviso : [cpu : Cpus \cup {Nulo}, pid : Pids \cup {Nadie}]]]
  /\ timers \in [Timers -> [estado : {"libre", "creado", "corre", "vencido"},
                            pid : Pids \cup {Nadie}, cpu : Cpus \cup {Nulo}]]
  /\ ks_caido \in BOOLEAN

HiloEn(pc) == [pc |-> pc, luego |-> "nada", pid |-> Nadie, cpu |-> Nulo,
               planificable |-> FALSE, aviso |-> SinAviso]

\* main, up to atender_conexiones_entrantes: crear_proceso_inicial has left the
\* first process, of priority 0, in READY; there may be no queue for it.
KsInit ==
  /\ estado = [p \in Pids |-> IF p = 0 THEN "READY" ELSE "SIN_CREAR"]
  /\ prioridad = [p \in Pids |-> 0]
  /\ cpu = [p \in Pids |-> Nulo]
  /\ timer = [p \in Pids |-> Nulo]
  /\ proximo_pid = 1
  /\ lista_new = <<>>
  /\ colas_ready = [q \in Colas |-> IF q = 0 THEN <<0>> ELSE <<>>]
  /\ lista_ready_invalida = IF 0 \in Colas THEN <<>> ELSE <<0>>
  /\ lista_exec = <<>>
  /\ lista_cpus_libres = <<>>
  /\ sem_hay_procesos_ready = IF 0 \in Colas THEN 1 ELSE 0
  /\ sem_hay_cpus_libres = 0
  /\ sem_puede_planificar = 1
  /\ planificador = [pc |-> "ready", pid |-> Nadie, cpu |-> Nulo, timer |-> Nulo]
  /\ hilo_cpu = [c \in Cpus |-> HiloEn("no")]
  /\ timers = [t \in Timers |-> SinTimer]
  /\ ks_caido = FALSE

EnLista(p, s) == \E i \in DOMAIN s : s[i] = p

-----------------------------------------------------------------------------
(* encolar_en_ready.                                                        *)

Planificable(p) == Cmn => prioridad[p] \in Colas

ColaDe(p) == IF Cmn THEN prioridad[p] ELSE 0

\* The running process of worst priority, the first of them in lista_exec.
EsPeor(exec, i) ==
  \A j \in DOMAIN exec :
    \/ prioridad[exec[j]] < prioridad[exec[i]]
    \/ prioridad[exec[j]] = prioridad[exec[i]] /\ i <= j

\* The interrupt that the arrival of p calls for, and the CPU it goes to.
AvisoPor(p, exec) ==
  LET peores == {i \in DOMAIN exec : EsPeor(exec, i) /\ prioridad[exec[i]] > prioridad[p]}
  IN  IF Cmn /\ DesalojoEntreColas /\ Planificable(p) /\ peores # {}
      THEN LET peor == exec[CHOOSE i \in peores : TRUE]
           IN  [cpu |-> cpu[peor], pid |-> peor]
      ELSE SinAviso

\* Mutant: the planner is told of a process that went to lista_ready_invalida.
MutEncolarSiempreAvisa(c, p, exec, luego) ==
  /\ IF Planificable(p)
     THEN /\ colas_ready' = [colas_ready EXCEPT ![ColaDe(p)] = Append(@, p)]
          /\ UNCHANGED lista_ready_invalida
     ELSE /\ lista_ready_invalida' = Append(lista_ready_invalida, p)
          /\ UNCHANGED colas_ready
  /\ hilo_cpu' = [hilo_cpu EXCEPT ![c] =
       [pc |-> IF AvisoPor(p, exec) = SinAviso THEN luego ELSE "avisar",
        luego |-> luego, pid |-> p, cpu |-> cpu[p],
        planificable |-> TRUE, aviso |-> AvisoPor(p, exec)]]

\* Thread c puts p in its queue, with exec the processes that run, and goes on
\* at luego.  The mutex is released to send the interrupt, if there is one.
EncolarEnReady(c, p, exec, luego) ==
  /\ IF Planificable(p)
     THEN /\ colas_ready' = [colas_ready EXCEPT ![ColaDe(p)] = Append(@, p)]
          /\ UNCHANGED lista_ready_invalida
     ELSE /\ lista_ready_invalida' = Append(lista_ready_invalida, p)
          /\ UNCHANGED colas_ready
  /\ hilo_cpu' = [hilo_cpu EXCEPT ![c] =
       [pc |-> IF AvisoPor(p, exec) = SinAviso THEN luego ELSE "avisar",
        luego |-> luego, pid |-> p, cpu |-> cpu[p],
        planificable |-> Planificable(p), aviso |-> AvisoPor(p, exec)]]

Avisar(c) ==
  /\ hilo_cpu[c].pc = "avisar"
  /\ a_cpu' = AlCpu(a_cpu, hilo_cpu[c].aviso.cpu, "INTERRUMPIR_PROCESO",
                    hilo_cpu[c].aviso.pid)
  /\ hilo_cpu' = [hilo_cpu EXCEPT ![c].pc = hilo_cpu[c].luego,
                                  ![c].aviso = SinAviso]
  /\ UNCHANGED <<de_cpu, procesoVars, listaVars, semVars, planificador, timers,
                 ks_caido>>

-----------------------------------------------------------------------------
(* planificador_corto_plazo.                                                *)

PlanificadorEsperaReady ==
  /\ planificador.pc = "ready"
  /\ sem_hay_procesos_ready > 0
  /\ sem_hay_procesos_ready' = sem_hay_procesos_ready - 1
  /\ planificador' = [planificador EXCEPT !.pc = "cpus"]
  /\ UNCHANGED <<canales, procesoVars, listaVars, sem_hay_cpus_libres,
                 sem_puede_planificar, hilo_cpu, timers, ks_caido>>

\* Mutant: sem_trywait in the place of sem_wait, its result ignored.
MutEsperaCpuSinEsperar ==
  /\ planificador.pc = "cpus"
  /\ sem_hay_cpus_libres' = sem_hay_cpus_libres - 1
  /\ planificador' = [planificador EXCEPT !.pc = "puede"]
  /\ UNCHANGED <<canales, procesoVars, listaVars, sem_hay_procesos_ready,
                 sem_puede_planificar, hilo_cpu, timers, ks_caido>>

PlanificadorEsperaCpu ==
  /\ planificador.pc = "cpus"
  /\ sem_hay_cpus_libres > 0
  /\ sem_hay_cpus_libres' = sem_hay_cpus_libres - 1
  /\ planificador' = [planificador EXCEPT !.pc = "puede"]
  /\ UNCHANGED <<canales, procesoVars, listaVars, sem_hay_procesos_ready,
                 sem_puede_planificar, hilo_cpu, timers, ks_caido>>

ConProcesos == {q \in Colas : colas_ready[q] # <<>>}

\* obtener_proximo_proceso_ready: the first of the first queue that has one.
PrimeraCola == CHOOSE q \in ConProcesos : \A r \in ConProcesos : q <= r

TimersLibres == {t \in Timers : timers[t].estado = "libre"}

\* A READY process and a free CPU are taken and the process becomes EXEC.  With
\* no process the tokens go back; with no CPU the NULL that list_remove returns
\* is followed.
PlanificadorElegir ==
  /\ planificador.pc = "puede"
  /\ sem_puede_planificar > 0
  /\ IF ConProcesos = {}
     THEN /\ planificador' = [planificador EXCEPT !.pc = "ready"]
          /\ sem_hay_cpus_libres' = sem_hay_cpus_libres + 1
          /\ UNCHANGED <<procesoVars, listaVars, sem_puede_planificar, timers,
                         ks_caido>>
     ELSE IF lista_cpus_libres = <<>>
     THEN /\ ks_caido' = TRUE
          /\ UNCHANGED <<procesoVars, listaVars, semVars, planificador, timers>>
     ELSE LET q  == PrimeraCola
              p  == Head(colas_ready[q])
              c  == Head(lista_cpus_libres)
              rr == AlgoritmoDe(q) = "RR"
              t  == IF rr THEN CHOOSE x \in TimersLibres : TRUE ELSE Nulo
          IN  /\ rr => TimersLibres # {}
              /\ sem_puede_planificar' = sem_puede_planificar - 1
              /\ colas_ready' = [colas_ready EXCEPT ![q] = Tail(@)]
              /\ lista_cpus_libres' = Tail(lista_cpus_libres)
              /\ lista_exec' = Append(lista_exec, p)
              /\ estado' = [estado EXCEPT ![p] = "EXEC"]
              /\ cpu' = [cpu EXCEPT ![p] = c]
              /\ timer' = IF rr THEN [timer EXCEPT ![p] = t] ELSE timer
              /\ timers' = IF rr THEN [timers EXCEPT ![t] =
                             [estado |-> "creado", pid |-> p, cpu |-> c]]
                           ELSE timers
              /\ planificador' = [pc |-> "enviar", pid |-> p, cpu |-> c, timer |-> t]
              /\ UNCHANGED <<prioridad, proximo_pid, lista_new,
                             lista_ready_invalida, sem_hay_cpus_libres, ks_caido>>
  /\ UNCHANGED <<canales, sem_hay_procesos_ready, hilo_cpu>>

\* Without the mutex: the process goes to its CPU and the timer's thread
\* starts.  If the CPU went away in between its t_cpu is already freed, and the
\* socket that is read there is of no CPU or of any one.
PlanificadorEnviar ==
  /\ planificador.pc = "enviar"
  /\ LET p == planificador.pid
         c == planificador.cpu
         vivas == {d \in Cpus : hilo_cpu[d].pc \notin {"no", "cerrado"}}
     IN  IF hilo_cpu[c].pc # "cerrado"
         THEN a_cpu' = AlCpu(a_cpu, c, "EJECUTAR_PROCESO", p)
         ELSE a_cpu' \in {a_cpu} \cup {AlCpu(a_cpu, d, "EJECUTAR_PROCESO", p) : d \in vivas}
  /\ timers' = IF planificador.timer = Nulo THEN timers
               ELSE [timers EXCEPT ![planificador.timer].estado = "corre"]
  /\ sem_puede_planificar' = sem_puede_planificar + 1
  /\ planificador' = [pc |-> "ready", pid |-> Nadie, cpu |-> Nulo, timer |-> Nulo]
  /\ UNCHANGED <<de_cpu, procesoVars, listaVars, sem_hay_procesos_ready,
                 sem_hay_cpus_libres, hilo_cpu, ks_caido>>

-----------------------------------------------------------------------------
(* hilo_quantum.                                                            *)

\* buscar_proceso_por_pid: the process is in some list.
Buscable(p) == EnLista(p, lista_exec) \/ \E q \in Colas : EnLista(p, colas_ready[q])

Vigente(t) == Buscable(timers[t].pid) /\ timer[timers[t].pid] = t

\* Mutant: the process keeps pointing to the timer that is freed.
MutVenceSinAnular(t) ==
  /\ timers[t].estado = "corre"
  /\ timers' = [timers EXCEPT ![t] = IF Vigente(t) THEN [@ EXCEPT !.estado = "vencido"]
                                     ELSE SinTimer]
  /\ UNCHANGED <<canales, procesoVars, listaVars, semVars, planificador, hilo_cpu,
                 ks_caido>>

\* The quantum is over.  A timer that its process no longer has dies in
\* silence.
HiloQuantumVence(t) ==
  /\ timers[t].estado = "corre"
  /\ IF Vigente(t)
     THEN /\ timer' = [timer EXCEPT ![timers[t].pid] = Nulo]
          /\ timers' = [timers EXCEPT ![t].estado = "vencido"]
     ELSE /\ timers' = [timers EXCEPT ![t] = SinTimer]
          /\ UNCHANGED timer
  /\ UNCHANGED <<canales, estado, prioridad, cpu, proximo_pid, listaVars, semVars,
                 planificador, hilo_cpu, ks_caido>>

HiloQuantumInterrumpe(t) ==
  /\ timers[t].estado = "vencido"
  /\ a_cpu' = AlCpu(a_cpu, timers[t].cpu, "INTERRUMPIR_PROCESO", timers[t].pid)
  /\ timers' = [timers EXCEPT ![t] = SinTimer]
  /\ UNCHANGED <<de_cpu, procesoVars, listaVars, semVars, planificador, hilo_cpu,
                 ks_caido>>

-----------------------------------------------------------------------------
(* atender_cpu: the thread of one CPU connection.                           *)

\* Mutant: the CPU joins the list and the semaphore is not posted.
MutAtenderCpuSinPost(c) ==
  /\ hilo_cpu[c].pc = "no"
  /\ lista_cpus_libres' = Append(lista_cpus_libres, c)
  /\ hilo_cpu' = [hilo_cpu EXCEPT ![c] = HiloEn("recibir")]
  /\ UNCHANGED <<canales, procesoVars, lista_new, colas_ready,
                 lista_ready_invalida, lista_exec, semVars, planificador, timers,
                 ks_caido>>

\* Mutant: the handshake has put the CPU in the list before.
MutAtenderCpuDosVeces(c) ==
  /\ hilo_cpu[c].pc = "no"
  /\ lista_cpus_libres' = lista_cpus_libres \o <<c, c>>
  /\ sem_hay_cpus_libres' = sem_hay_cpus_libres + 1
  /\ hilo_cpu' = [hilo_cpu EXCEPT ![c] = HiloEn("postear")]
  /\ UNCHANGED <<canales, procesoVars, lista_new, colas_ready,
                 lista_ready_invalida, lista_exec, sem_hay_procesos_ready,
                 sem_puede_planificar, planificador, timers, ks_caido>>

\* The CPU joins the free ones.
AtenderCpu(c) ==
  /\ hilo_cpu[c].pc = "no"
  /\ lista_cpus_libres' = Append(lista_cpus_libres, c)
  /\ hilo_cpu' = [hilo_cpu EXCEPT ![c] = HiloEn("postear")]
  /\ UNCHANGED <<canales, procesoVars, lista_new, colas_ready,
                 lista_ready_invalida, lista_exec, semVars, planificador, timers,
                 ks_caido>>

\* Without the mutex, a handler that has freed its CPU tells the planner: of the
\* process first, when there is one to plan, and of the CPU.
Postear(c) ==
  /\ hilo_cpu[c].pc = "postear"
  /\ sem_hay_procesos_ready' = sem_hay_procesos_ready
                                 + (IF hilo_cpu[c].planificable THEN 1 ELSE 0)
  /\ sem_hay_cpus_libres' = sem_hay_cpus_libres + 1
  /\ hilo_cpu' = [hilo_cpu EXCEPT ![c] = HiloEn("recibir")]
  /\ UNCHANGED <<canales, procesoVars, listaVars, sem_puede_planificar,
                 planificador, timers, ks_caido>>

\* recibir_entero reads the operation and its process.
Recibe(c, op) ==
  /\ hilo_cpu[c].pc = "recibir"
  /\ de_cpu[c] # <<>>
  /\ Head(de_cpu[c]).op = op
  /\ de_cpu' = [de_cpu EXCEPT ![c] = Tail(@)]

\* manejar_fin_quantum; the timer is left as it is.
ManejarFinQuantum(c) ==
  /\ Recibe(c, "PROCESO_FIN_QUANTUM")
  /\ LET p == Head(de_cpu[c]).pid IN
     IF EnLista(p, lista_exec)
     THEN /\ lista_exec' = RemoveFirst(lista_exec, p)
          /\ estado' = [estado EXCEPT ![p] = "READY"]
          /\ cpu' = [cpu EXCEPT ![p] = Nulo]
          /\ EncolarEnReady(c, p, RemoveFirst(lista_exec, p), "fq_fin")
     ELSE UNCHANGED <<lista_exec, estado, cpu, colas_ready, lista_ready_invalida,
                      hilo_cpu>>
  /\ UNCHANGED <<a_cpu, prioridad, timer, proximo_pid, lista_new,
                 lista_cpus_libres, semVars, planificador, timers, ks_caido>>

\* Mutant: the planner is told of the CPU and not of the process.
MutFinQuantumSinPost(c) ==
  /\ hilo_cpu[c].pc = "fq_fin"
  /\ lista_cpus_libres' = Append(lista_cpus_libres, hilo_cpu[c].cpu)
  /\ hilo_cpu' = [hilo_cpu EXCEPT ![c] = HiloEn("postear")]
  /\ UNCHANGED <<canales, procesoVars, lista_new, colas_ready,
                 lista_ready_invalida, lista_exec, semVars, planificador, timers,
                 ks_caido>>

\* The mutex is taken again: the CPU is free.
ManejarFinQuantumFin(c) ==
  /\ hilo_cpu[c].pc = "fq_fin"
  /\ lista_cpus_libres' = Append(lista_cpus_libres, hilo_cpu[c].cpu)
  /\ hilo_cpu' = [hilo_cpu EXCEPT ![c] =
       [HiloEn("postear") EXCEPT !.planificable = hilo_cpu[c].planificable]]
  /\ UNCHANGED <<canales, procesoVars, lista_new, colas_ready,
                 lista_ready_invalida, lista_exec, semVars, planificador, timers,
                 ks_caido>>

\* manejar_proceso_exit and manejar_seg_fault, up to the release of the mutex.
Finaliza(c, op) ==
  /\ Recibe(c, op)
  /\ LET p == Head(de_cpu[c]).pid IN
     IF EnLista(p, lista_exec)
     THEN /\ lista_exec' = RemoveFirst(lista_exec, p)
          /\ estado' = [estado EXCEPT ![p] = "EXIT"]
          /\ timer' = [timer EXCEPT ![p] = Nulo]
          /\ hilo_cpu' = [hilo_cpu EXCEPT ![c] =
                            [HiloEn("exit_fin") EXCEPT !.pid = p, !.cpu = cpu[p]]]
     ELSE UNCHANGED <<lista_exec, estado, timer, hilo_cpu>>
  /\ UNCHANGED <<a_cpu, prioridad, cpu, proximo_pid, lista_new, colas_ready,
                 lista_ready_invalida, lista_cpus_libres, semVars, planificador,
                 timers, ks_caido>>

ManejarProcesoExit(c) == Finaliza(c, "PROCESO_EXIT")

ManejarSegFault(c) == Finaliza(c, "PROCESO_SEG_FAULT")

\* Mutant: the CPU of a process that ended is not given back.
MutFinalizaSinLiberarCpu(c) ==
  /\ hilo_cpu[c].pc = "exit_fin"
  /\ cpu' = [cpu EXCEPT ![hilo_cpu[c].pid] = Nulo]
  /\ hilo_cpu' = [hilo_cpu EXCEPT ![c] = HiloEn("recibir")]
  /\ UNCHANGED <<canales, estado, prioridad, timer, proximo_pid, listaVars, semVars,
                 planificador, timers, ks_caido>>

\* The Kernel Memory has answered, the t_proceso is freed and the CPU is free.
FinalizaFin(c) ==
  /\ hilo_cpu[c].pc = "exit_fin"
  /\ cpu' = [cpu EXCEPT ![hilo_cpu[c].pid] = Nulo]
  /\ lista_cpus_libres' = Append(lista_cpus_libres, hilo_cpu[c].cpu)
  /\ hilo_cpu' = [hilo_cpu EXCEPT ![c] = HiloEn("postear")]
  /\ UNCHANGED <<canales, estado, prioridad, timer, proximo_pid, lista_new,
                 colas_ready, lista_ready_invalida, lista_exec, semVars,
                 planificador, timers, ks_caido>>

-----------------------------------------------------------------------------
(* manejar_init_proc.                                                       *)

\* The new process gets its number and the Kernel Memory creates it.
ManejarInitProc(c) ==
  /\ Recibe(c, "INIT_PROC")
  /\ EnLista(Head(de_cpu[c]).pid, lista_exec)
  /\ proximo_pid \in Pids
  /\ estado' = [estado EXCEPT ![proximo_pid] = "NEW"]
  /\ prioridad' = [prioridad EXCEPT ![proximo_pid] = Head(de_cpu[c]).prioridad]
  /\ lista_new' = Append(lista_new, proximo_pid)
  /\ proximo_pid' = proximo_pid + 1
  /\ hilo_cpu' = [hilo_cpu EXCEPT ![c] = [HiloEn("init_nuevo") EXCEPT !.pid = proximo_pid]]
  /\ UNCHANGED <<a_cpu, cpu, timer, colas_ready, lista_ready_invalida, lista_exec,
                 lista_cpus_libres, semVars, planificador, timers, ks_caido>>

\* The Kernel Memory does not create it: the number is lost.
ManejarInitProcError(c) ==
  /\ Recibe(c, "INIT_PROC")
  /\ EnLista(Head(de_cpu[c]).pid, lista_exec)
  /\ proximo_pid' = IF proximo_pid \in Pids THEN proximo_pid + 1 ELSE proximo_pid
  /\ a_cpu' = AlCpu(a_cpu, c, "ERROR", Nadie)
  /\ UNCHANGED <<estado, prioridad, cpu, timer, listaVars, semVars, hiloVars>>

\* Mutant: the process stays in lista_new too.
MutMoverSinQuitarDeNew(c) ==
  /\ hilo_cpu[c].pc = "init_nuevo"
  /\ estado' = [estado EXCEPT ![hilo_cpu[c].pid] = "READY"]
  /\ EncolarEnReady(c, hilo_cpu[c].pid, lista_exec, "init_fin")
  /\ UNCHANGED <<canales, prioridad, cpu, timer, proximo_pid, lista_new, lista_exec,
                 lista_cpus_libres, semVars, planificador, timers, ks_caido>>

\* manejar_syscall of a process that is not in EXEC: nobody answers the CPU, and
\* the parameters that are left unread are no operation of atender_cpu.
ManejarSyscallSinProceso(c) ==
  /\ Recibe(c, "INIT_PROC")
  /\ ~ EnLista(Head(de_cpu[c]).pid, lista_exec)
  /\ UNCHANGED <<a_cpu, ksVars>>

\* mover_proceso_a_ready.
MoverProcesoAReady(c) ==
  /\ hilo_cpu[c].pc = "init_nuevo"
  /\ LET p == hilo_cpu[c].pid IN
     /\ lista_new' = RemoveFirst(lista_new, p)
     /\ estado' = [estado EXCEPT ![p] = "READY"]
     /\ EncolarEnReady(c, p, lista_exec, "init_fin")
  /\ UNCHANGED <<canales, prioridad, cpu, timer, proximo_pid, lista_exec,
                 lista_cpus_libres, semVars, planificador, timers, ks_caido>>

\* Mutant: the CPU gets its answer and the planner is not told.
MutInitProcSinPost(c) ==
  /\ hilo_cpu[c].pc = "init_fin"
  /\ a_cpu' = AlCpu(a_cpu, c, "OK", Nadie)
  /\ hilo_cpu' = [hilo_cpu EXCEPT ![c] = HiloEn("recibir")]
  /\ UNCHANGED <<de_cpu, procesoVars, listaVars, semVars, planificador, timers,
                 ks_caido>>

ManejarInitProcFin(c) ==
  /\ hilo_cpu[c].pc = "init_fin"
  /\ sem_hay_procesos_ready' = sem_hay_procesos_ready
                                 + (IF hilo_cpu[c].planificable THEN 1 ELSE 0)
  /\ a_cpu' = AlCpu(a_cpu, c, "OK", Nadie)
  /\ hilo_cpu' = [hilo_cpu EXCEPT ![c] = HiloEn("recibir")]
  /\ UNCHANGED <<de_cpu, procesoVars, listaVars, sem_hay_cpus_libres,
                 sem_puede_planificar, planificador, timers, ks_caido>>

-----------------------------------------------------------------------------
(* desconectar_cpu.                                                         *)

\* Where lista_exec has a process of the CPU.
EnLaCpu(c) == {i \in DOMAIN lista_exec : cpu[lista_exec[i]] = c}

\* A free CPU leaves the list and takes a token with it, if there is one left;
\* the process of a busy one goes back to READY.
DesconectarCpu(c) ==
  /\ Recibe(c, "FIN_CONEXION")
  /\ lista_cpus_libres' = RemoveFirst(lista_cpus_libres, c)
  /\ sem_hay_cpus_libres' =
       IF EnLista(c, lista_cpus_libres) /\ sem_hay_cpus_libres > 0
       THEN sem_hay_cpus_libres - 1 ELSE sem_hay_cpus_libres
  /\ IF EnLaCpu(c) = {}
     THEN /\ hilo_cpu' = [hilo_cpu EXCEPT ![c] = HiloEn("cerrado")]
          /\ UNCHANGED <<lista_exec, estado, cpu, timer, colas_ready,
                         lista_ready_invalida>>
     ELSE LET p == lista_exec[CHOOSE i \in EnLaCpu(c) : \A j \in EnLaCpu(c) : i <= j] IN
          /\ lista_exec' = RemoveFirst(lista_exec, p)
          /\ estado' = [estado EXCEPT ![p] = "READY"]
          /\ cpu' = [cpu EXCEPT ![p] = Nulo]
          /\ timer' = [timer EXCEPT ![p] = Nulo]
          /\ EncolarEnReady(c, p, RemoveFirst(lista_exec, p), "desc_fin")
  /\ UNCHANGED <<a_cpu, prioridad, proximo_pid, lista_new,
                 sem_hay_procesos_ready, sem_puede_planificar, planificador,
                 timers, ks_caido>>

DesconectarCpuFin(c) ==
  /\ hilo_cpu[c].pc = "desc_fin"
  /\ sem_hay_procesos_ready' = sem_hay_procesos_ready
                                 + (IF hilo_cpu[c].planificable THEN 1 ELSE 0)
  /\ hilo_cpu' = [hilo_cpu EXCEPT ![c] = HiloEn("cerrado")]
  /\ UNCHANGED <<canales, procesoVars, listaVars, sem_hay_cpus_libres,
                 sem_puede_planificar, planificador, timers, ks_caido>>

-----------------------------------------------------------------------------
Planificador ==
  \/ PlanificadorEsperaReady
  \/ PlanificadorEsperaCpu
  \/ PlanificadorElegir
  \/ PlanificadorEnviar

HiloCpu(c) ==
  \/ Avisar(c) \/ Postear(c)
  \/ ManejarFinQuantum(c) \/ ManejarFinQuantumFin(c)
  \/ ManejarProcesoExit(c) \/ ManejarSegFault(c) \/ FinalizaFin(c)
  \/ ManejarInitProc(c) \/ ManejarInitProcError(c) \/ ManejarSyscallSinProceso(c)
  \/ MoverProcesoAReady(c) \/ ManejarInitProcFin(c)
  \/ DesconectarCpu(c) \/ DesconectarCpuFin(c)

HiloQuantum(t) == HiloQuantumVence(t) \/ HiloQuantumInterrumpe(t)
=============================================================================
