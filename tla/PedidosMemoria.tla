--------------------------- MODULE PedidosMemoria ---------------------------
(***************************************************************************)
(* What the Kernel Scheduler asks of the Kernel Memory while processes     *)
(* run: MEM_ALLOC with its compaction, MEM_FREE, the end of a process, and *)
(* the notifications it gets back (hilo_escuchar_memoria), BSOD among      *)
(* them.                                                                   *)
(*                                                                         *)
(* mutex_pedidos_memoria makes a request and its answer one action, but    *)
(* for the compaction: the mutex is free between OP_COMPACTAR and its      *)
(* confirmation.  Which answer the memory gives is open (module            *)
(* KernelMemory); moving the segments is one action, for it is done with   *)
(* mutex_contextos.  There is one queue of READY, FIFO, and no process is  *)
(* suspended, so that OP_MEMORIA_DISPONIBLE has no effect.                 *)
(*                                                                         *)
(* A thread that follows a t_proceso freed by manejar_bsod stops the model *)
(* (ks_caido).                                                             *)
(***************************************************************************)
EXTENDS Procesos, CpuMemoria

ASSUME PedidosOK ==
  /\ IsFiniteSet(Cpus) /\ Nulo \notin Cpus
  /\ "SLEEP" \in TiposIo

VARIABLES
  sem_puede_planificar,
  planificador,     \* planner thread: the process it has chosen and not sent
  hilo_cpu,         \* thread of each CPU: where it is, the message it handles
  oyente,           \* hilo_escuchar_memoria
  km,               \* Kernel Memory: does it wait for a confirmation?
  mutex_perdido,    \* mutex_pedidos_memoria is held for ever
  con_segmentos,    \* processes with segments
  notificaciones,   \* from the Kernel Memory, not yet read
  stick_vivo,       \* no Memory Stick has gone away
  compactando, esperando,   \* proceso_esperando_memoria, cpu_esperando_memoria
  bsod_activo, cpus_pendientes_bsod,
  ks_terminado,     \* exit(EXIT_FAILURE)
  ks_caido          \* a freed t_proceso was used

kmVars   == <<km, mutex_perdido, con_segmentos, notificaciones, stick_vivo>>
compVars == <<compactando, esperando>>
finVars  == <<bsod_activo, cpus_pendientes_bsod, ks_terminado, ks_caido>>
planVars == <<sem_puede_planificar, planificador>>

Nada == [op |-> "nada", pid |-> Nadie]
Ninguno == [pid |-> Nadie, cpu |-> Nulo]

PedidosTipo ==
  /\ KsTipo
  /\ sem_puede_planificar \in 0 .. 1
  /\ planificador \in [pid : Pids \cup {Nadie}, cpu : Cpus \cup {Nulo}]
  /\ hilo_cpu \in [Cpus -> [pc : {"recibir", "atender", "syscall", "detener", "desalojar",
                                  "confirmar", "finalizar", "liberar", "sin_respuesta"},
                            op : OpsCpu \cup {"nada"}, pid : Pids \cup {Nadie}]]
  /\ oyente \in [pc : {"leer", "ejecutar", "interrumpir"}, avisos : SUBSET (Cpus \X Pids)]
  /\ km \in {"libre", "confirmacion"}
  /\ mutex_perdido \in BOOLEAN
  /\ con_segmentos \subseteq Pids
  /\ notificaciones \in Seq({"FIN_COMPACTACION", "MEMORIA_CORRUPTA"})
  /\ stick_vivo \in BOOLEAN /\ compactando \in BOOLEAN
  /\ esperando \in [pid : Pids, cpu : Cpus] \cup {Ninguno}
  /\ bsod_activo \in BOOLEAN /\ ks_terminado \in BOOLEAN /\ ks_caido \in BOOLEAN
  /\ cpus_pendientes_bsod \in Int

HiloEn(pc) == [pc |-> pc, op |-> "nada", pid |-> Nadie]

PedidosInit ==
  /\ KsInit
  /\ sem_puede_planificar = 1
  /\ planificador = Ninguno
  /\ hilo_cpu = [c \in Cpus |-> HiloEn("recibir")]
  /\ oyente = [pc |-> "leer", avisos |-> {}]
  /\ km = "libre" /\ mutex_perdido = FALSE
  /\ con_segmentos = {} /\ notificaciones = <<>> /\ stick_vivo = TRUE
  /\ compactando = FALSE /\ esperando = Ninguno
  /\ bsod_activo = FALSE /\ cpus_pendientes_bsod = 0
  /\ ks_terminado = FALSE /\ ks_caido = FALSE

Al(c, pc) == hilo_cpu' = [hilo_cpu EXCEPT ![c].pc = pc]
Recibir(c) == hilo_cpu' = [hilo_cpu EXCEPT ![c] = HiloEn("recibir")]
En(c, pc) == hilo_cpu[c].pc = pc
PidDe(c) == hilo_cpu[c].pid

UsaLiberado == ks_caido' = TRUE /\ UNCHANGED <<bsod_activo, cpus_pendientes_bsod, ks_terminado>>

SinCpu == UNCHANGED <<cpuVars, tabla_vieja>>

-----------------------------------------------------------------------------
(* planificador_corto_plazo.                                                *)

\* The three semaphores and a process for a CPU; with no process only the count
\* of READY processes changes.
PlanificadorElige ==
  /\ planificador = Ninguno
  /\ ks.sem_ready > 0 /\ ks.cpus_libres # <<>> /\ sem_puede_planificar = 1
  /\ IF ConProcesos(ks) = {}
     THEN /\ ks' = [ks EXCEPT !.sem_ready = @ - 1]
          /\ UNCHANGED planVars
     ELSE /\ ks' = Planificar(ks)
          /\ planificador' = [pid |-> Head(ks.colas_ready[Min(ConProcesos(ks))]),
                              cpu |-> Head(ks.cpus_libres)]
          /\ sem_puede_planificar' = 0
  /\ SinCpu
  /\ UNCHANGED <<canales, hilo_cpu, oyente, kmVars, compVars, finVars>>

\* Mutant: sem_puede_planificar is not posted.
MutPlanificadorEnvia ==
  /\ planificador # Ninguno
  /\ IF bsod_activo THEN UsaLiberado /\ UNCHANGED a_cpu
     ELSE /\ a_cpu' = AlCpu(a_cpu, planificador.cpu, "EJECUTAR_PROCESO", planificador.pid)
          /\ UNCHANGED finVars
  /\ planificador' = Ninguno
  /\ SinCpu
  /\ UNCHANGED <<sem_puede_planificar, ks, de_cpu, hilo_cpu, oyente, kmVars, compVars>>

\* The process is sent; only then may the planning be stopped.
PlanificadorEnvia ==
  /\ planificador # Ninguno
  /\ IF bsod_activo THEN UsaLiberado /\ UNCHANGED a_cpu
     ELSE /\ a_cpu' = AlCpu(a_cpu, planificador.cpu, "EJECUTAR_PROCESO", planificador.pid)
          /\ UNCHANGED finVars
  /\ planificador' = Ninguno
  /\ sem_puede_planificar' = 1
  /\ SinCpu
  /\ UNCHANGED <<ks, de_cpu, hilo_cpu, oyente, kmVars, compVars>>

-----------------------------------------------------------------------------
(* atender_cpu.                                                             *)

Finales == {"PROCESO_EXIT", "PROCESO_FIN_QUANTUM", "PROCESO_SEG_FAULT"}
Syscalls == {"MEM_ALLOC", "MEM_FREE", "IO_SLEEP"}

\* A message is read.  With BSOD the end of a process only counts
\* (verificar_fin_bsod); otherwise its handler comes after bsod_activo was read.
\* A syscall of a process that is not in EXEC is dropped without an answer.
AtenderCpu(c) ==
  /\ En(c, "recibir")
  /\ de_cpu[c] # <<>>
  /\ de_cpu' = [de_cpu EXCEPT ![c] = Tail(@)]
  /\ LET m == Head(de_cpu[c])
         h(pc) == [hilo_cpu EXCEPT ![c] = [pc |-> pc, op |-> m.op, pid |-> m.pid]] IN
     \/ /\ m.op \in Finales /\ bsod_activo
        /\ cpus_pendientes_bsod' = cpus_pendientes_bsod - 1
        /\ ks_terminado' = (cpus_pendientes_bsod = 1)
        /\ UNCHANGED <<hilo_cpu, bsod_activo, ks_caido>>
     \/ /\ m.op \in Finales /\ ~ bsod_activo
        /\ hilo_cpu' = h("atender")
        /\ UNCHANGED finVars
     \/ /\ m.op \in Syscalls
        /\ hilo_cpu' = IF m.pid \in ks.exec THEN h("syscall") ELSE hilo_cpu
        /\ UNCHANGED finVars
  /\ SinCpu
  /\ UNCHANGED <<ks, a_cpu, planVars, oyente, kmVars, compVars>>

\* encolar_al_frente_de_ready.
EncolarAlFrente(k, p) ==
  [k EXCEPT !.colas_ready[k.prioridad[p]] = <<p>> \o @, !.sem_ready = @ + 1]

\* manejar_fin_quantum: a process evicted for a compaction will be the first.
ManejarFinQuantum(c) ==
  /\ En(c, "atender") /\ hilo_cpu[c].op = "PROCESO_FIN_QUANTUM"
  /\ LET p == PidDe(c)
         k == SacarDeExec(ks, p, "READY") IN
     ks' = IF p \notin ks.exec THEN ks
           ELSE LiberarCpu(IF compactando THEN EncolarAlFrente(k, p) ELSE Encolar(k, p), c)
  /\ Recibir(c)
  /\ SinCpu
  /\ UNCHANGED <<canales, planVars, oyente, kmVars, compVars, finVars>>

\* manejar_proceso_exit, manejar_seg_fault.
ManejarProcesoExit(c) ==
  /\ En(c, "atender") /\ hilo_cpu[c].op \in {"PROCESO_EXIT", "PROCESO_SEG_FAULT"}
  /\ IF PidDe(c) \notin ks.exec THEN Recibir(c) /\ UNCHANGED ks
     ELSE /\ ks' = CancelarTimer(SacarDeExec(ks, PidDe(c), "EXIT"), PidDe(c))
          /\ Al(c, "finalizar")
  /\ SinCpu
  /\ UNCHANGED <<canales, planVars, oyente, kmVars, compVars, finVars>>

\* A request comes while the Kernel Memory waits for a confirmation: it takes
\* the operation code for the confirmation, the compaction is not done, and the
\* request is never answered.
PedidoTomadoPorConfirmacion(c) ==
  /\ km = "confirmacion"
  /\ km' = "libre" /\ mutex_perdido' = TRUE
  /\ Al(c, "sin_respuesta")
  /\ UNCHANGED <<con_segmentos, notificaciones, stick_vivo>>

\* OP_FINALIZAR_PROCESO.
ExitFinaliza(c) ==
  /\ En(c, "finalizar")
  /\ ~ mutex_perdido
  /\ \/ PedidoTomadoPorConfirmacion(c)
     \/ /\ km = "libre"
        /\ con_segmentos' = con_segmentos \ {PidDe(c)}
        /\ Al(c, "liberar")
        /\ UNCHANGED <<km, mutex_perdido, notificaciones, stick_vivo>>
  /\ SinCpu
  /\ UNCHANGED <<ks, canales, planVars, oyente, compVars, finVars>>

ExitLibera(c) ==
  /\ En(c, "liberar")
  /\ ks' = LiberarCpu(ks, c)
  /\ Recibir(c)
  /\ SinCpu
  /\ UNCHANGED <<canales, planVars, oyente, kmVars, compVars, finVars>>

-----------------------------------------------------------------------------
(* manejar_syscall.                                                         *)

\* OP_IO_SLEEP: bloquear_proceso, encolar_pedido_io.
ManejarIoSleep(c) ==
  /\ En(c, "syscall") /\ hilo_cpu[c].op = "IO_SLEEP"
  /\ IF bsod_activo THEN UsaLiberado /\ UNCHANGED ks
     ELSE /\ ks' = [Bloquear(ks, PidDe(c)) EXCEPT !.cola_io["SLEEP"] = Append(@, PidDe(c))]
          /\ UNCHANGED finVars
  /\ Recibir(c)
  /\ SinCpu
  /\ UNCHANGED <<canales, planVars, oyente, kmVars, compVars>>

\* The device ends and its thread wakes the process up (module EntradaSalida).
FinIo ==
  /\ ks.cola_io["SLEEP"] # <<>>
  /\ LET p == Head(ks.cola_io["SLEEP"])
         k == CancelarTimer([ks EXCEPT !.cola_io["SLEEP"] = Tail(@)], p) IN
     IF bsod_activo THEN UsaLiberado /\ UNCHANGED ks
     ELSE ks' = Despertar(k, p, ks.estado[p]) /\ UNCHANGED finVars
  /\ SinCpu
  /\ UNCHANGED <<canales, planVars, hilo_cpu, oyente, kmVars, compVars>>

Contesta(c, op) == a_cpu' = AlCpu(a_cpu, c, op, Nadie)

\* manejar_syscall_memoria, the request.
MemoriaLibre(c, op) ==
  /\ En(c, "syscall") /\ hilo_cpu[c].op = op
  /\ ~ bsod_activo /\ ~ mutex_perdido
  /\ km = "libre"

SinPlan == UNCHANGED <<ks, de_cpu, planVars, oyente, compVars, finVars>> /\ SinCpu

PedirSegmentoOk(c) ==
  /\ MemoriaLibre(c, "MEM_ALLOC")
  /\ con_segmentos' = con_segmentos \cup {PidDe(c)}
  /\ Contesta(c, "OK") /\ Recibir(c)
  /\ SinPlan
  /\ UNCHANGED <<km, mutex_perdido, notificaciones, stick_vivo>>

PedirSegmentoError(c) ==
  /\ MemoriaLibre(c, "MEM_ALLOC")
  /\ Contesta(c, "ERROR") /\ Recibir(c)
  /\ SinPlan
  /\ UNCHANGED kmVars

\* OP_COMPACTAR: the memory is there in pieces, which nobody needs to have a segment
\* for: the free list is not merged.
PedirSegmentoCompactar(c) ==
  /\ MemoriaLibre(c, "MEM_ALLOC")
  /\ km' = "confirmacion"
  /\ Contesta(c, "BLOQUEADO") /\ Al(c, "detener")
  /\ SinPlan
  /\ UNCHANGED <<mutex_perdido, con_segmentos, notificaciones, stick_vivo>>

\* OP_ELIMINAR_SEGMENTO: the process may have others, or not that one.
EliminarSegmento(c) ==
  /\ MemoriaLibre(c, "MEM_FREE")
  /\ \/ /\ PidDe(c) \in con_segmentos
        /\ con_segmentos' \in {con_segmentos, con_segmentos \ {PidDe(c)}}
        /\ Contesta(c, "OK")
     \/ Contesta(c, "ERROR") /\ UNCHANGED con_segmentos
  /\ Recibir(c)
  /\ SinPlan
  /\ UNCHANGED <<km, mutex_perdido, notificaciones, stick_vivo>>

\* The other outcomes of both: the request takes the place of a confirmation, or
\* the process was freed meanwhile.
SyscallMemoriaPerdida(c) ==
  /\ En(c, "syscall") /\ hilo_cpu[c].op \in {"MEM_ALLOC", "MEM_FREE"}
  /\ \/ /\ ~ bsod_activo /\ ~ mutex_perdido
        /\ PedidoTomadoPorConfirmacion(c)
        /\ UNCHANGED finVars
     \/ /\ bsod_activo
        /\ UsaLiberado
        /\ UNCHANGED <<hilo_cpu, kmVars>>
  /\ SinCpu
  /\ UNCHANGED <<ks, canales, planVars, oyente, compVars>>

-----------------------------------------------------------------------------
(* The compaction, in manejar_syscall_memoria.                              *)

\* Mutant: the CPU of the process is free for others (bloquear_proceso).
MutDetenerPlanificacion(c) ==
  /\ En(c, "detener")
  /\ sem_puede_planificar = 1 /\ sem_puede_planificar' = 0
  /\ ks' = Bloquear(ks, PidDe(c))
  /\ esperando' = [pid |-> PidDe(c), cpu |-> c]
  /\ compactando' = TRUE
  /\ Al(c, "desalojar")
  /\ SinCpu
  /\ UNCHANGED <<canales, planificador, oyente, kmVars, finVars>>

\* Mutant: the planner goes on during a compaction.
MutDetenerSinParar(c) ==
  /\ En(c, "detener")
  /\ sem_puede_planificar = 1
  /\ ks' = [SacarDeExec(ks, PidDe(c), "BLOCK") EXCEPT !.block = @ \cup {PidDe(c)}]
  /\ esperando' = [pid |-> PidDe(c), cpu |-> c]
  /\ compactando' = TRUE
  /\ Al(c, "desalojar")
  /\ SinCpu
  /\ UNCHANGED <<canales, planVars, oyente, kmVars, finVars>>

\* Nothing is planned any more; the process keeps its CPU while it waits.
DetenerPlanificacion(c) ==
  /\ En(c, "detener")
  /\ sem_puede_planificar = 1 /\ sem_puede_planificar' = 0
  /\ IF bsod_activo THEN UsaLiberado /\ UNCHANGED <<ks, compVars>>
     ELSE /\ ks' = [SacarDeExec(ks, PidDe(c), "BLOCK") EXCEPT !.block = @ \cup {PidDe(c)}]
          /\ esperando' = [pid |-> PidDe(c), cpu |-> c]
          /\ compactando' = TRUE
          /\ UNCHANGED finVars
  /\ Al(c, "desalojar")
  /\ SinCpu
  /\ UNCHANGED <<canales, planificador, oyente, kmVars>>

Interrumpir(canal, quienes) ==
  [d \in Cpus |-> canal[d] \o
     SetToSeq({[op |-> "INTERRUMPIR_PROCESO", pid |-> p] :
                 p \in {q \in Pids : <<d, q>> \in quienes}})]

EnEjecucion == {<<ks.cpu[p], p>> : p \in ks.exec}

\* desalojar_todas_las_cpus: nobody waits until the CPUs have stopped.
DesalojarTodasLasCpus(c) ==
  /\ En(c, "desalojar")
  /\ a_cpu' = Interrumpir(a_cpu, EnEjecucion)
  /\ Al(c, "confirmar")
  /\ SinCpu
  /\ UNCHANGED <<ks, de_cpu, planVars, oyente, kmVars, compVars, finVars>>

\* OP_OK to the Kernel Memory, which moves segments of some processes, creates
\* the one that was asked for if it can, and tells of the end.
Compactar(c) ==
  /\ En(c, "confirmar")
  /\ ~ mutex_perdido
  /\ km = "confirmacion" /\ km' = "libre"
  /\ \E movidos \in SUBSET con_segmentos :
       tabla_vieja' = tabla_vieja \cup {d \in Cpus : cpu_pid[d] \in movidos}
  /\ con_segmentos' \in {con_segmentos \cup {PidDe(c)}}
                          \cup (IF stick_vivo THEN {} ELSE {con_segmentos})
  /\ notificaciones' = Append(notificaciones, "FIN_COMPACTACION")
  /\ Recibir(c)
  /\ UNCHANGED <<ks, canales, cpuVars, planVars, oyente, mutex_perdido, stick_vivo,
                 compVars, finVars>>

-----------------------------------------------------------------------------
(* hilo_escuchar_memoria.                                                   *)

Lee(que) ==
  /\ oyente.pc = "leer"
  /\ notificaciones # <<>> /\ Head(notificaciones) = que
  /\ notificaciones' = Tail(notificaciones)
  /\ UNCHANGED <<km, mutex_perdido, con_segmentos, stick_vivo>>

\* Mutant: the process is EXEC again without its CPU.
MutFinSinCpu ==
  /\ Lee("FIN_COMPACTACION")
  /\ ks' = [ks EXCEPT !.estado[esperando.pid] = "EXEC",
                      !.exec = @ \cup {esperando.pid}, !.block = @ \ {esperando.pid}]
  /\ compactando' = FALSE
  /\ oyente' = [oyente EXCEPT !.pc = "ejecutar"]
  /\ SinCpu
  /\ UNCHANGED <<canales, planVars, hilo_cpu, esperando, finVars>>

\* OP_FIN_COMPACTACION: the process that waited is EXEC again on its CPU.
FinCompactacion ==
  /\ Lee("FIN_COMPACTACION")
  /\ IF bsod_activo THEN UsaLiberado /\ UNCHANGED ks
     ELSE /\ ks' = [ks EXCEPT !.estado[esperando.pid] = "EXEC",
                              !.cpu[esperando.pid] = esperando.cpu,
                              !.exec = @ \cup {esperando.pid},
                              !.block = @ \ {esperando.pid}]
          /\ UNCHANGED finVars
  /\ compactando' = FALSE
  /\ oyente' = [oyente EXCEPT !.pc = "ejecutar"]
  /\ SinCpu
  /\ UNCHANGED <<canales, planVars, hilo_cpu, esperando>>

\* Mutant: sem_puede_planificar is not posted.
MutFinEjecuta ==
  /\ oyente.pc = "ejecutar"
  /\ a_cpu' = AlCpu(a_cpu, esperando.cpu, "EJECUTAR_PROCESO", esperando.pid)
  /\ esperando' = Ninguno
  /\ oyente' = [oyente EXCEPT !.pc = "leer"]
  /\ SinCpu
  /\ UNCHANGED <<ks, de_cpu, hilo_cpu, planVars, kmVars, compactando, finVars>>

\* Its CPU gets it back and the planning goes on.
FinEjecuta ==
  /\ oyente.pc = "ejecutar"
  /\ a_cpu' = AlCpu(a_cpu, esperando.cpu, "EJECUTAR_PROCESO", esperando.pid)
  /\ esperando' = Ninguno
  /\ oyente' = [oyente EXCEPT !.pc = "leer"]
  /\ sem_puede_planificar' = 1
  /\ SinCpu
  /\ UNCHANGED <<ks, de_cpu, hilo_cpu, planificador, kmVars, compactando, finVars>>

\* Mutant: one CPU less is waited for.
MutManejarBsod ==
  /\ Lee("MEMORIA_CORRUPTA")
  /\ bsod_activo' = TRUE
  /\ cpus_pendientes_bsod' = Cardinality(ks.exec) - 1
  /\ ks' = [ks EXCEPT !.estado = [p \in Pids |-> "EXIT"], !.cpu = [p \in Pids |-> Nulo],
                      !.colas_ready = [q \in Colas |-> <<>>], !.exec = {}, !.block = {}]
  /\ oyente' = [pc |-> "interrumpir", avisos |-> EnEjecucion]
  /\ SinCpu
  /\ UNCHANGED <<canales, planVars, hilo_cpu, compVars, ks_terminado, ks_caido>>

\* manejar_bsod: every process of the lists is freed; the KS ends when each CPU
\* that had one has told the end of it.
ManejarBsod ==
  /\ Lee("MEMORIA_CORRUPTA")
  /\ bsod_activo' = TRUE
  /\ cpus_pendientes_bsod' = Cardinality(ks.exec)
  /\ ks' = [ks EXCEPT !.estado = [p \in Pids |-> "EXIT"], !.cpu = [p \in Pids |-> Nulo],
                      !.colas_ready = [q \in Colas |-> <<>>], !.exec = {}, !.block = {}]
  /\ oyente' = [pc |-> "interrumpir", avisos |-> EnEjecucion]
  /\ SinCpu
  /\ UNCHANGED <<canales, planVars, hilo_cpu, compVars, ks_terminado, ks_caido>>

BsodInterrumpe ==
  /\ oyente.pc = "interrumpir"
  /\ a_cpu' = Interrumpir(a_cpu, oyente.avisos)
  /\ ks_terminado' = (oyente.avisos = {})
  /\ oyente' = [pc |-> "leer", avisos |-> {}]
  /\ SinCpu
  /\ UNCHANGED <<ks, de_cpu, planVars, hilo_cpu, kmVars, compVars, bsod_activo,
                 cpus_pendientes_bsod, ks_caido>>

\* A Memory Stick goes away: OP_MEMORIA_CORRUPTA.
StickSeVa ==
  /\ stick_vivo /\ stick_vivo' = FALSE
  /\ notificaciones' = Append(notificaciones, "MEMORIA_CORRUPTA")
  /\ SinCpu
  /\ UNCHANGED <<ks, canales, planVars, hilo_cpu, oyente, km, mutex_perdido, con_segmentos,
                 compVars, finVars>>

-----------------------------------------------------------------------------
Planificador == PlanificadorElige \/ PlanificadorEnvia

HiloCpu(c) ==
  \/ AtenderCpu(c)
  \/ ManejarFinQuantum(c) \/ ManejarProcesoExit(c) \/ ExitFinaliza(c) \/ ExitLibera(c)
  \/ ManejarIoSleep(c)
  \/ PedirSegmentoOk(c) \/ PedirSegmentoError(c) \/ PedirSegmentoCompactar(c)
  \/ EliminarSegmento(c) \/ SyscallMemoriaPerdida(c)
  \/ DetenerPlanificacion(c) \/ DesalojarTodasLasCpus(c) \/ Compactar(c)

HiloEscucharMemoria == FinCompactacion \/ FinEjecuta \/ ManejarBsod \/ BsodInterrumpe
=============================================================================
