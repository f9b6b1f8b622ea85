------------------------------ MODULE Bloqueos ------------------------------
(***************************************************************************)
(* The processes that block: the syscalls of a running process, as the     *)
(* thread of its CPU in the Kernel Scheduler handles them, with the planner,*)
(* the suspension of processes and the IO devices.                         *)
(*                                                                         *)
(* A process runs a program, a sequence of instructions; those that have   *)
(* no effect on the Kernel Scheduler are left out.  The CPU waits for the  *)
(* answer to its syscall, so the two are one thread here.  The processes   *)
(* release only mutexes they own (DisciplinaOK); they are created before   *)
(* (module KernelScheduler has INIT_PROC) and nothing is compacted.        *)
(***************************************************************************)
EXTENDS EntradaSalida

CONSTANTS
  Programas   \* functions from processes to programs, one is chosen

Instr(op, arg) == [op |-> op, arg |-> arg]

Operaciones ==
  {"FIN_QUANTUM", "MEM_ALLOC", "MOV_OUT", "MUTEX_CREATE", "MUTEX_LOCK", "MUTEX_UNLOCK",
   "EXIT"} \cup TiposIo

\* A program ends with EXIT; its syscalls of a mutex name one.
ProgramaBien(pr) ==
  /\ pr \in Seq([op : Operaciones, arg : Mutexes \cup {Nulo}])
  /\ pr # <<>> /\ pr[Len(pr)].op = "EXIT"
  /\ \A i \in DOMAIN pr :
       pr[i].op \in {"MUTEX_CREATE", "MUTEX_LOCK", "MUTEX_UNLOCK"} => pr[i].arg \in Mutexes

\* Before its instruction i a program has taken m and has not released it.
Tomado(pr, i, m) ==
  \E j \in 1 .. i - 1 :
    /\ pr[j].op = "MUTEX_LOCK" /\ pr[j].arg = m
    /\ \A l \in j + 1 .. i - 1 : ~ (pr[l].op = "MUTEX_UNLOCK" /\ pr[l].arg = m)

\* It takes no mutex that it has and releases none that it has not.
Disciplinado(pr) ==
  \A i \in DOMAIN pr :
    /\ pr[i].op = "MUTEX_LOCK" => ~ Tomado(pr, i, pr[i].arg)
    /\ pr[i].op = "MUTEX_UNLOCK" => Tomado(pr, i, pr[i].arg)

ASSUME ProgramasOK ==
  /\ IsFiniteSet(Cpus)
  /\ \A prog \in Programas : DOMAIN prog = Pids /\ \A p \in Pids : ProgramaBien(prog[p])

ASSUME DisciplinaOK ==
  \A prog \in Programas : \A p \in Pids : Disciplinado(prog[p])

VARIABLES
  programa, paso,   \* of each process
  hilo_cpu          \* thread of each CPU: where it is, its process, what it read

vars == <<ks, suspVars, ioVars, programa, paso, hilo_cpu>>
restoVars == <<ioVars, programa, reanudar, ks_caido>>

HiloEn(pc) == [pc |-> pc, pid |-> Nadie, arg |-> Nulo]

TypeOK ==
  /\ KsTipo /\ SuspTipo /\ IoTipo
  /\ \A p \in Pids : paso[p] \in DOMAIN programa[p]
  /\ hilo_cpu \in [Cpus -> [pc : {"recibir", "bloquear", "pedir_io", "despertar",
                                  "finalizar", "liberar"},
                            pid : Pids \cup {Nadie},
                            arg : {Nulo} \cup TiposIo \cup EstadosProceso]]

Init ==
  /\ KsInit /\ SuspInit /\ IoInit
  /\ programa \in Programas
  /\ paso = [p \in Pids |-> 1]
  /\ hilo_cpu = [c \in Cpus |-> HiloEn("recibir")]

-----------------------------------------------------------------------------
\* planificador_corto_plazo.
Planifica ==
  /\ ks.sem_ready > 0
  /\ ks.cpus_libres # <<>>
  /\ ks' = IF ConProcesos(ks) = {} THEN [ks EXCEPT !.sem_ready = @ - 1] ELSE Planificar(ks)
  /\ UNCHANGED <<suspVars, ioVars, programa, paso, hilo_cpu>>

\* Process p runs op on c, whose thread has nothing else to do.
Ejecuta(c, p, op) ==
  /\ hilo_cpu[c].pc = "recibir"
  /\ ks.cpu[p] = c /\ p \in ks.exec
  /\ programa[p][paso[p]].op = op

Arg(p) == programa[p][paso[p]].arg

Sigue(p) == paso' = [paso EXCEPT ![p] = @ + 1]

\* An error of the CPU, or a SEG_FAULT: the process goes on to its end.
Falla(p) == paso' = [paso EXCEPT ![p] = Len(programa[p])]

AlHilo(c, pc, p, arg) ==
  hilo_cpu' = [hilo_cpu EXCEPT ![c] = [pc |-> pc, pid |-> p, arg |-> arg]]

SinNovedad(c) == UNCHANGED hilo_cpu /\ UNCHANGED <<memoria, notificaciones, suspensiones, restoVars>>

\* manejar_fin_quantum.
ManejarFinQuantum(c, p) ==
  /\ Ejecuta(c, p, "FIN_QUANTUM")
  /\ ks' = LiberarCpu(Encolar(SacarDeExec(ks, p, "READY"), p), c)
  /\ Sigue(p)
  /\ SinNovedad(c)

\* MEM_ALLOC without compaction.
ManejarMemAlloc(c, p) ==
  /\ Ejecuta(c, p, "MEM_ALLOC")
  /\ IF HayMarco
     THEN memoria' = [memoria EXCEPT ![p] = "ram"] /\ Sigue(p)
     ELSE UNCHANGED memoria /\ Falla(p)
  /\ UNCHANGED <<ks, notificaciones, suspensiones, restoVars, hilo_cpu>>

\* An access to the segment: the CPU looks at the table that it took.  A suspension that
\* is told late takes the segment from a process that runs: the table is of before, or
\* of after.
ConSegmento(p) == memoria[p] \in {"ram", "swap"}
SinSegmento(p) == memoria[p] # "ram"

Accede(c, p) ==
  /\ Ejecuta(c, p, "MOV_OUT")
  /\ \/ ConSegmento(p) /\ Sigue(p)
     \/ SinSegmento(p) /\ Falla(p)
  /\ UNCHANGED ks
  /\ SinNovedad(c)

\* manejar_mutex_create: a second one of the same name changes nothing.
ManejarMutexCreate(c, p) ==
  /\ Ejecuta(c, p, "MUTEX_CREATE")
  /\ ks' = IF Arg(p) \in ToSet(ks.lista_mutex) THEN ks
           ELSE [ks EXCEPT !.lista_mutex = Append(@, Arg(p))]
  /\ Sigue(p)
  /\ SinNovedad(c)

-----------------------------------------------------------------------------
(* manejar_mutex_lock, manejar_mutex_unlock.                                *)

\* Mutant: a process joins the queue and the owner does not inherit.
MutLockSinHerencia(c, p) ==
  /\ Ejecuta(c, p, "MUTEX_LOCK")
  /\ LET m == Arg(p) IN
     IF m \notin ToSet(ks.lista_mutex)
     THEN Falla(p) /\ UNCHANGED <<ks, hilo_cpu>>
     ELSE IF ks.pid_dueno[m] = Nadie
     THEN /\ ks' = [ks EXCEPT !.pid_dueno[m] = p]
          /\ Sigue(p)
          /\ UNCHANGED hilo_cpu
     ELSE /\ ks' = [ks EXCEPT !.cola_espera[m] = Append(@, p)]
          /\ Sigue(p)
          /\ AlHilo(c, "bloquear", p, Nulo)
  /\ UNCHANGED <<memoria, notificaciones, suspensiones, restoVars>>

\* A free mutex is taken.  For one that is taken the process joins its queue and
\* the owner inherits, if it is in a list; the mutex_listas is given up before
\* the process is BLOCK.
ManejarMutexLock(c, p) ==
  /\ Ejecuta(c, p, "MUTEX_LOCK")
  /\ LET m == Arg(p)
         dueno == ks.pid_dueno[m]
         k == [ks EXCEPT !.cola_espera[m] = Append(@, p)] IN
     IF m \notin ToSet(ks.lista_mutex)
     THEN Falla(p) /\ UNCHANGED <<ks, hilo_cpu>>
     ELSE IF dueno = Nadie
     THEN /\ ks' = [ks EXCEPT !.pid_dueno[m] = p]
          /\ Sigue(p)
          /\ UNCHANGED hilo_cpu
     ELSE /\ ks' = IF ks.estado[dueno] = "EXIT" THEN k ELSE AplicarHerencia(k, dueno, m)
          /\ Sigue(p)
          /\ AlHilo(c, "bloquear", p, Nulo)
  /\ UNCHANGED <<memoria, notificaciones, suspensiones, restoVars>>

\* bloquear_proceso of a MUTEX_LOCK.
MutexLockBloquea(c) ==
  /\ hilo_cpu[c].pc = "bloquear"
  /\ ks' = Bloquear(ks, hilo_cpu[c].pid)
  /\ hilo_cpu' = [hilo_cpu EXCEPT ![c] = HiloEn("recibir")]
  /\ UNCHANGED <<paso, memoria, notificaciones, suspensiones, restoVars>>

\* The next process that waits owns the mutex at once; its state is read and
\* acted upon after mutex_listas has been given up.
ManejarMutexUnlock(c, p) ==
  /\ Ejecuta(c, p, "MUTEX_UNLOCK")
  /\ LET m == Arg(p)
         s == Head(ks.cola_espera[m]) IN
     IF m \notin ToSet(ks.lista_mutex)
     THEN Falla(p) /\ UNCHANGED <<ks, hilo_cpu>>
     ELSE IF ks.cola_espera[m] = <<>>
     THEN /\ ks' = DevolverPrioridad([ks EXCEPT !.pid_dueno[m] = Nadie], p)
          /\ Sigue(p)
          /\ UNCHANGED hilo_cpu
     ELSE /\ ks' = CancelarTimer(AplicarHerencia(DevolverPrioridad(Ceder(ks, m), p), s, m), s)
          /\ Sigue(p)
          /\ AlHilo(c, "despertar", s, ks.estado[s])
  /\ UNCHANGED <<memoria, notificaciones, suspensiones, restoVars>>

\* A process that was neither BLOCK nor SUSP_BLOCK is only logged.
MutexUnlockDespierta(c) ==
  /\ hilo_cpu[c].pc = "despertar"
  /\ ks' = Despertar(ks, hilo_cpu[c].pid, hilo_cpu[c].arg)
  /\ hilo_cpu' = [hilo_cpu EXCEPT ![c] = HiloEn("recibir")]
  /\ UNCHANGED <<paso, memoria, notificaciones, suspensiones, restoVars>>

-----------------------------------------------------------------------------
(* OP_IO_SLEEP, OP_IO_STDIN, OP_IO_STDOUT.                                  *)

\* bloquear_proceso.  The CPU has translated the address of a STDIN or a STDOUT,
\* and does not wait for an answer.
ManejarIo(c, p, t) ==
  /\ Ejecuta(c, p, t)
  /\ \/ /\ t # "SLEEP" /\ SinSegmento(p)
        /\ Falla(p) /\ UNCHANGED <<ks, hilo_cpu>>
     \/ /\ t = "SLEEP" \/ ConSegmento(p)
        /\ ks' = Bloquear(ks, p)
        /\ Sigue(p)
        /\ AlHilo(c, "pedir_io", p, t)
  /\ UNCHANGED <<memoria, notificaciones, suspensiones, restoVars>>

\* encolar_pedido_io.
EncolarPedidoIo(c) ==
  /\ hilo_cpu[c].pc = "pedir_io"
  /\ ks' = [ks EXCEPT !.cola_io[hilo_cpu[c].arg] = Append(@, hilo_cpu[c].pid)]
  /\ hilo_cpu' = [hilo_cpu EXCEPT ![c] = HiloEn("recibir")]
  /\ UNCHANGED <<paso, memoria, notificaciones, suspensiones, restoVars>>

-----------------------------------------------------------------------------
(* manejar_proceso_exit, manejar_seg_fault.                                 *)

ManejarProcesoExit(c, p) ==
  /\ Ejecuta(c, p, "EXIT")
  /\ ks' = CancelarTimer(SacarDeExec(ks, p, "EXIT"), p)
  /\ AlHilo(c, "finalizar", p, Nulo)
  /\ UNCHANGED <<paso, memoria, notificaciones, suspensiones, restoVars>>

\* OP_FINALIZAR_PROCESO.
ExitFinaliza(c) ==
  /\ hilo_cpu[c].pc = "finalizar"
  /\ memoria' = [memoria EXCEPT ![hilo_cpu[c].pid] = "fuera"]
  /\ notificaciones' = notificaciones + 1
  /\ hilo_cpu' = [hilo_cpu EXCEPT ![c].pc = "liberar"]
  /\ UNCHANGED <<ks, paso, suspensiones, restoVars>>

\* The mutexes it had, and its CPU.
ExitLibera(c) ==
  /\ hilo_cpu[c].pc = "liberar"
  /\ ks' = LiberarCpu(LiberarMutexDelProceso(ks, hilo_cpu[c].pid), c)
  /\ hilo_cpu' = [hilo_cpu EXCEPT ![c] = HiloEn("recibir")]
  /\ UNCHANGED <<paso, memoria, notificaciones, suspensiones, restoVars>>

-----------------------------------------------------------------------------
HiloCpu(c) ==
  \/ \E p \in Pids :
       \/ ManejarFinQuantum(c, p) \/ ManejarMemAlloc(c, p) \/ Accede(c, p)
       \/ ManejarMutexCreate(c, p) \/ ManejarMutexLock(c, p) \/ ManejarMutexUnlock(c, p)
       \/ \E t \in TiposIo : ManejarIo(c, p, t)
       \/ ManejarProcesoExit(c, p)
  \/ MutexLockBloquea(c) \/ MutexUnlockDespierta(c) \/ EncolarPedidoIo(c)
  \/ ExitFinaliza(c) \/ ExitLibera(c)

Vivo(A) == ~ ks_caido /\ A

PasoPlanifica == Vivo(Planifica)
PasoCpu(c) == Vivo(HiloCpu(c))
PasoIo(d) == Vivo(IoPaso(d)) /\ UNCHANGED <<programa, paso, hilo_cpu>>
PasoOyente ==
  Vivo(ReanudarPaso(Oyente) \/ OirMemoria) /\ UNCHANGED <<ioVars, programa, paso, hilo_cpu>>
PasoSuspension(p) ==
  Vivo(SuspensionVence(p) \/ SuspensionPide(p)) /\ UNCHANGED <<ioVars, programa, paso, hilo_cpu>>
Caida(d) == IoCae(d) /\ UNCHANGED <<programa, paso, hilo_cpu>>

Next ==
  \/ PasoPlanifica
  \/ \E c \in Cpus : PasoCpu(c)
  \/ \E d \in Ios : PasoIo(d) \/ Caida(d)
  \/ PasoOyente
  \/ \E p \in Pids : PasoSuspension(p)

Spec == Init /\ [][Next]_vars

\* Every thread goes on and every device that is there answers; the time of a
\* suspension ends, before the wait does or after it.
FairSpec ==
  /\ Spec
  /\ WF_vars(PasoPlanifica)
  /\ \A c \in Cpus : WF_vars(PasoCpu(c))
  /\ \A d \in Ios : WF_vars(PasoIo(d))
  /\ WF_vars(PasoOyente)
  /\ \A p \in Pids : WF_vars(PasoSuspension(p))

-----------------------------------------------------------------------------
(* Properties.                                                              *)

Veces(p, s) == Cardinality({i \in DOMAIN s : s[i] = p})

\* A process is in exactly one list of the scheduler, once, and it is the list
\* of its state; the queue is the one of the priority it has now, also after it
\* inherited one while it was READY.
UnaSolaLista ==
  \A p \in Pids :
    /\ p \in ks.exec <=> ks.estado[p] = "EXEC"
    /\ p \in ks.block <=> ks.estado[p] = "BLOCK"
    /\ p \in ks.susp_block <=> ks.estado[p] = "SUSP_BLOCK"
    /\ Veces(p, ks.susp_ready) = IF ks.estado[p] = "SUSP_READY" THEN 1 ELSE 0
    /\ \A q \in Colas : Veces(p, ks.colas_ready[q]) =
         IF ks.estado[p] = "READY" /\ q = ks.prioridad[p] THEN 1 ELSE 0

\* Those who will wake p up: a mutex or a device it waits for, or a thread that
\* has taken it in hand.
Despertadores(p) ==
  {<<"mutex", m>> : m \in {x \in Mutexes : p \in Esperan(ks, x)}}
    \cup {<<"io", t>> : t \in {x \in TiposIo : p \in ToSet(ks.cola_io[x])}}
    \cup {<<"hilo_io", d>> : d \in {x \in Ios : hilo_io[x].pid = p}}
    \cup {<<"hilo_cpu", c>> : c \in {x \in Cpus : /\ hilo_cpu[x].pid = p
                                                 /\ hilo_cpu[x].pc \in {"despertar", "pedir_io"}
                                                 /\ hilo_cpu[x].arg # "EXEC"}}

Bloqueado(p) == ks.estado[p] \in {"BLOCK", "SUSP_BLOCK"}

\* A process that waits has one waker at most, and one that does not wait has
\* none, but for the one that joined the queue of a mutex and is about to block:
\* nobody wakes up a process that runs, is READY or has ended, and none is woken
\* up twice, however late its waker acts on what it read.
DespertarUnico ==
  \A p \in Pids :
    /\ Cardinality(Despertadores(p)) <= 1
    /\ Despertadores(p) # {} =>
         \/ Bloqueado(p)
         \/ \E c \in Cpus : hilo_cpu[c].pc = "bloquear" /\ hilo_cpu[c].pid = p

\* A mutex somebody waits for has an owner, which has not ended (or its thread is
\* about to pass the mutex on) and does not wait for that mutex.
MutexConDueno ==
  \A m \in Mutexes :
    ks.cola_espera[m] # <<>> =>
      LET d == ks.pid_dueno[m] IN
      /\ d # Nadie
      /\ d \notin Esperan(ks, m)
      /\ ks.estado[d] = "EXIT" =>
           \E c \in Cpus : hilo_cpu[c].pid = d /\ hilo_cpu[c].pc \in {"finalizar", "liberar"}

\* The owner of a mutex is never of worse priority than one that waits for it had
\* at first, also after the mutex went from hand to hand or other mutexes were
\* released in between.
HerenciaAlcanza ==
  \A m \in Mutexes : \A p \in Esperan(ks, m) :
    ks.estado[ks.pid_dueno[m]] # "EXIT" =>
      ks.prioridad[ks.pid_dueno[m]] <= PrioridadOriginal[p]

\* A priority better than its own is only kept as long as somebody that has it
\* waits for a mutex of the process: none is kept after the last release.
HerenciaVuelve ==
  \A p \in Pids :
    ks.estado[p] # "EXIT" /\ ks.prioridad[p] # PrioridadOriginal[p] =>
      \E m \in Mutexes : /\ ks.pid_dueno[m] = p
                         /\ \E w \in Esperan(ks, m) : ks.prioridad[w] <= ks.prioridad[p]

\* No process has a timer that could suspend it when it does not wait: whoever
\* wakes it up, or ends it, has cancelled the timer of its wait (cancelar_timer)
\* before, however the two race.
SuspensionDeBloqueado ==
  \A p \in Pids : ks.timer[p] => ks.estado[p] = "BLOCK"

\* Whatever is left out of the life cycle of the processes is only detail: each
\* step of a thread takes one process along one edge of it, or wakes up those
\* that a dead process made wait, and no more processes run than there are CPUs.
Ciclo == INSTANCE CicloDeVida
           WITH Procesos <- Pids, Maximo <- Cardinality(Cpus), estado <- ks.estado

CicloDeVida == Ciclo!Spec

\* Blocked with nobody to wake it up.
Olvidado(p) == Bloqueado(p) /\ Despertadores(p) = {}

\* PRUEBAS.md, test 9: the process that waits for the mutex gets it from the hand
\* of the one that releases it and goes from BLOCK to READY; the code logs any
\* other state as "inesperado".  As a state: a process that is BLOCK or SUSP_BLOCK
\* has somebody that will wake it up.
SiempreHayQuienDespierte == \A p \in Pids : ~ Olvidado(p)

\* A process that got the mutex of a dead one while it was suspended: no memory
\* will be freed and nobody tries to bring it back.
SinReanudar(p) ==
  /\ ks.estado[p] = "SUSP_READY"
  /\ notificaciones = 0
  /\ \A r \in Reanudadores : reanudar[r].pc = "no"
  /\ \E m \in Mutexes : ks.pid_dueno[m] = p

\* Every process ends, whatever it waits for on its way, unless a wake-up was
\* lost.
TodosTerminan ==
  <>(\/ ks_caido
     \/ \A p \in Pids : ks.estado[p] = "EXIT"
     \/ \E p \in Pids : Olvidado(p) \/ SinReanudar(p))
=============================================================================
