------------------------------ MODULE Procesos ------------------------------
(***************************************************************************)
(* What mutex_listas protects in the Kernel Scheduler                      *)
(* (kernel_scheduler/src/main.c), for the processes that block: t_proceso, *)
(* the lists, the mutexes and the queues of the IO devices.  It is one     *)
(* record, ks, and what a critical section does to it is a function of the *)
(* record.                                                                 *)
(*                                                                         *)
(* The algorithm is CMN with QUEUE_PREEMPTION=FALSE and every priority has *)
(* a queue, so that encolar_en_ready never gives the mutex up.  A sem_post *)
(* is made with the critical section before it: module KernelScheduler has *)
(* them apart, and the connection with the CPUs too.                       *)
(***************************************************************************)
EXTENDS FiniteSets, SequencesExt, Nombres

CONSTANTS
  Mutexes,             \* names of the mutexes of the programs
  Colas,               \* queues of READY, 0 .. n
  PrioridadOriginal,   \* of each process
  TiposIo              \* "SLEEP", "STDIN", "STDOUT"

ASSUME ProcesosOK ==
  /\ Colas \subseteq Nat /\ IsFiniteSet(Colas)
  /\ Pids \subseteq Nat /\ IsFiniteSet(Pids)
  /\ PrioridadOriginal \in [Pids -> Colas]
  /\ TiposIo \subseteq {"SLEEP", "STDIN", "STDOUT"}

EstadosProceso == {"READY", "EXEC", "BLOCK", "SUSP_BLOCK", "SUSP_READY", "EXIT"}

VARIABLE ks

\* lista_exec, lista_block and lista_susp_block are searched by pid, their order
\* does not matter: they are sets.
KsTipo ==
  ks \in [estado : [Pids -> EstadosProceso],
          prioridad : [Pids -> Colas],
          cpu : [Pids -> Cpus \cup {Nulo}],
          timer : [Pids -> BOOLEAN],              \* proceso->timer # NULL
          colas_ready : [Colas -> Seq(Pids)],
          exec : SUBSET Pids, block : SUBSET Pids, susp_block : SUBSET Pids,
          susp_ready : Seq(Pids),
          cpus_libres : Seq(Cpus),
          sem_ready : Nat,                        \* sem_hay_procesos_ready
          lista_mutex : Seq(Mutexes),
          pid_dueno : [Mutexes -> Pids \cup {Nadie}],
          cola_espera : [Mutexes -> Seq(Pids)],
          cola_io : [TiposIo -> Seq(Pids)]]

-----------------------------------------------------------------------------
(* The queues.                                                              *)

\* encolar_en_ready, and the sem_post of its caller.
Encolar(k, p) ==
  [k EXCEPT !.colas_ready[k.prioridad[p]] = Append(@, p), !.sem_ready = @ + 1]

CancelarTimer(k, p) == [k EXCEPT !.timer[p] = FALSE]

\* mover_proceso_de_block_a_ready.
BlockAReady(k, p) ==
  Encolar([k EXCEPT !.block = @ \ {p}, !.estado[p] = "READY"], p)

SuspBlockASuspReady(k, p) ==
  [k EXCEPT !.susp_block = @ \ {p}, !.estado[p] = "SUSP_READY",
            !.susp_ready = Append(@, p)]

\* Mutant: a process that is suspended goes to READY as if it were in memory.
MutDespertar(k, p, leido) ==
  IF leido \in {"BLOCK", "SUSP_BLOCK"}
  THEN BlockAReady([k EXCEPT !.susp_block = @ \ {p}], p) ELSE k

\* What a waker does once it has read the state of p, which may be old.
Despertar(k, p, leido) ==
  CASE leido = "BLOCK"      -> BlockAReady(k, p)
    [] leido = "SUSP_BLOCK" -> SuspBlockASuspReady(k, p)
    [] OTHER                -> k

LiberarCpu(k, c) == [k EXCEPT !.cpus_libres = Append(@, c)]

SacarDeExec(k, p, e) ==
  [k EXCEPT !.exec = @ \ {p}, !.estado[p] = e, !.cpu[p] = Nulo]

\* Mutant: the CPU is read after proceso->cpu has been set to NULL.
MutBloquear(k, p) ==
  LET b == [SacarDeExec(k, p, "BLOCK") EXCEPT !.block = @ \cup {p}, !.timer[p] = TRUE]
  IN  LiberarCpu(b, b.cpu[p])

\* bloquear_proceso; its second critical section, the one of the CPU, follows at
\* once.
Bloquear(k, p) ==
  LiberarCpu([SacarDeExec(k, p, "BLOCK") EXCEPT !.block = @ \cup {p},
                                                !.timer[p] = TRUE],
             k.cpu[p])

ConProcesos(k) == {q \in Colas : k.colas_ready[q] # <<>>}

\* obtener_proximo_proceso_ready and a free CPU, in planificador_corto_plazo.
Planificar(k) ==
  LET q == Min(ConProcesos(k))
      p == Head(k.colas_ready[q])
  IN  [k EXCEPT !.colas_ready[q] = Tail(@), !.cpus_libres = Tail(@),
                !.exec = @ \cup {p}, !.estado[p] = "EXEC",
                !.cpu[p] = Head(k.cpus_libres), !.sem_ready = @ - 1]

-----------------------------------------------------------------------------
(* The mutexes of the processes.                                            *)

Esperan(k, m) == ToSet(k.cola_espera[m])

\* mayor_prioridad_del_mutex: of the best of the processes that wait.
MayorPrioridad(k, m) ==
  IF Esperan(k, m) = {} THEN Nadie ELSE Min({k.prioridad[p] : p \in Esperan(k, m)})

\* Mutant: a process that is READY is left in the queue of its old priority.
MutHerenciaSinEncolar(k, p, m) ==
  LET mejor == MayorPrioridad(k, m) IN
  IF mejor = Nadie \/ mejor >= k.prioridad[p] THEN k ELSE [k EXCEPT !.prioridad[p] = mejor]

\* One that is READY changes queues.
CambiarDeCola(colas, p, de, a) ==
  [colas EXCEPT ![de] = RemoveFirst(@, p), ![a] = Append(@, p)]

\* aplicar_herencia: p, which owns m, is at least as good as those that wait.
AplicarHerencia(k, p, m) ==
  LET mejor == MayorPrioridad(k, m)
      sube  == [k EXCEPT !.prioridad[p] = mejor] IN
  IF mejor = Nadie \/ mejor >= k.prioridad[p] THEN k
  ELSE IF k.estado[p] # "READY" THEN sube
  ELSE [sube EXCEPT !.colas_ready = CambiarDeCola(@, p, k.prioridad[p], mejor)]

\* Mutant: the process keeps what it inherited.
MutDevolver(k, p) == k

\* devolver_prioridad: its own, or the best that still wait for p.
DevolverPrioridad(k, p) ==
  LET suyos == {m \in ToSet(k.lista_mutex) : k.pid_dueno[m] = p /\ Esperan(k, m) # {}}
  IN  [k EXCEPT !.prioridad[p] =
         Min({PrioridadOriginal[p]} \cup {MayorPrioridad(k, m) : m \in suyos})]

\* Mutant: list_get in the place of list_remove.
MutCeder(k, m) == [k EXCEPT !.pid_dueno[m] = Head(k.cola_espera[m])]

\* The first that waits owns the mutex.
Ceder(k, m) ==
  [k EXCEPT !.pid_dueno[m] = Head(k.cola_espera[m]), !.cola_espera[m] = Tail(@)]

\* Mutant: the mutex of a process that died is nobody's, whoever waits.
MutLiberarMutex(k, p, m) ==
  IF k.pid_dueno[m] = p THEN [k EXCEPT !.pid_dueno[m] = Nadie] ELSE k

\* liberar_mutex_del_proceso, for one mutex: the next one gets it and wakes up.
LiberarMutex(k, p, m) ==
  IF k.pid_dueno[m] # p THEN k
  ELSE IF k.cola_espera[m] = <<>> THEN [k EXCEPT !.pid_dueno[m] = Nadie]
  ELSE LET s == Head(k.cola_espera[m])
       IN  Despertar(CancelarTimer(AplicarHerencia(Ceder(k, m), s, m), s), s, k.estado[s])

\* One after the other, in the order of lista_mutex.
LiberarMutexDelProceso(k, p) ==
  LET tras[n \in 0 .. Len(k.lista_mutex)] ==
        IF n = 0 THEN k ELSE LiberarMutex(tras[n - 1], p, k.lista_mutex[n])
  IN  tras[Len(k.lista_mutex)]

-----------------------------------------------------------------------------
\* In the order they were created.
PorOrden(S) ==
  CHOOSE s \in [1 .. Cardinality(S) -> S] :
    \A i, j \in 1 .. Cardinality(S) : i < j => s[i] < s[j]

\* The processes have been created and have not run yet.
KsInit ==
  ks = [estado |-> [p \in Pids |-> "READY"],
        prioridad |-> PrioridadOriginal,
        cpu |-> [p \in Pids |-> Nulo],
        timer |-> [p \in Pids |-> FALSE],
        colas_ready |-> [q \in Colas |->
                           PorOrden({p \in Pids : PrioridadOriginal[p] = q})],
        exec |-> {}, block |-> {}, susp_block |-> {}, susp_ready |-> <<>>,
        cpus_libres |-> SetToSeq(Cpus),
        sem_ready |-> Cardinality(Pids),
        lista_mutex |-> <<>>,
        pid_dueno |-> [m \in Mutexes |-> Nadie],
        cola_espera |-> [m \in Mutexes |-> <<>>],
        cola_io |-> [t \in TiposIo |-> <<>>]]
=============================================================================
