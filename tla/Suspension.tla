----------------------------- MODULE Suspension -----------------------------
(***************************************************************************)
(* The mid-term scheduler: hilo_suspension, one thread for each process    *)
(* that blocks, and intentar_dessuspender_procesos, which the threads of   *)
(* the IO devices and the one that listens to the Kernel Memory run.       *)
(*                                                                         *)
(* The Kernel Memory (module KernelMemory has it whole) is reduced to      *)
(* where the only segment of each process is.  mutex_pedidos_memoria makes *)
(* a request and its answer one action.                                    *)
(***************************************************************************)
EXTENDS Procesos

CONSTANTS
  Ios,           \* connections of IO devices
  Marcos         \* segments that the memory holds

\* hilo_escuchar_memoria.
Oyente == "oyente"

Reanudadores == Ios \cup {Oyente}

VARIABLES
  memoria,          \* where the segment of a process is
  notificaciones,   \* OP_MEMORIA_DISPONIBLE not yet read by the KS
  suspensiones,     \* threads that have made a process SUSP_BLOCK and have not
                    \* told the Kernel Memory
  reanudar,         \* loop of intentar_dessuspender_procesos of each thread
  ks_caido          \* a NULL or freed t_proceso was followed, or a process was
                    \* put in READY twice

suspVars == <<memoria, notificaciones, suspensiones, reanudar, ks_caido>>

\* nada: no segment; vacio: in the SWAP without segments; fuera: no context.
Lugares == {"nada", "ram", "swap", "vacio", "fuera"}

EnReposo == [pc |-> "no", i |-> 0, pid |-> Nadie]

SuspTipo ==
  /\ memoria \in [Pids -> Lugares]
  /\ notificaciones \in Nat
  /\ suspensiones \in [Pids -> Nat]
  /\ reanudar \in [Reanudadores -> [pc : {"no", "ordenar", "tam", "tomar", "pedir", "encolar"},
                                    i : Nat, pid : Pids \cup {Nadie}]]
  /\ ks_caido \in BOOLEAN

SuspInit ==
  /\ memoria = [p \in Pids |-> "nada"]
  /\ notificaciones = 0
  /\ suspensiones = [p \in Pids |-> 0]
  /\ reanudar = [r \in Reanudadores |-> EnReposo]
  /\ ks_caido = FALSE

En(lugar) == {p \in Pids : memoria[p] = lugar}

HayMarco == Cardinality(En("ram")) < Marcos

-----------------------------------------------------------------------------
(* hilo_suspension.                                                         *)

\* The wait was too long.  A timer that was cancelled or replaced dies in
\* silence: only the last one counts.
SuspensionVence(p) ==
  /\ ks.timer[p]
  /\ IF ks.estado[p] = "BLOCK"
     THEN /\ ks' = [ks EXCEPT !.timer[p] = FALSE, !.block = @ \ {p},
                              !.susp_block = @ \cup {p}, !.estado[p] = "SUSP_BLOCK"]
          /\ suspensiones' = [suspensiones EXCEPT ![p] = @ + 1]
     ELSE /\ ks' = [ks EXCEPT !.timer[p] = FALSE]
          /\ UNCHANGED suspensiones
  /\ UNCHANGED <<memoria, notificaciones, reanudar, ks_caido>>

\* OP_SUSPENDER_PROCESO.  The t_proceso is read without the mutex: it may have
\* been freed.  proceso_suspender accepts a process that is in the SWAP already;
\* it may refuse any other (no SWAP, no room, an error), which stays SUSP_BLOCK.
SuspensionPide(p) ==
  /\ suspensiones[p] > 0
  /\ suspensiones' = [suspensiones EXCEPT ![p] = @ - 1]
  /\ IF memoria[p] = "fuera"
     THEN ks_caido' = TRUE /\ UNCHANGED <<memoria, notificaciones>>
     ELSE /\ \/ /\ memoria' = [memoria EXCEPT ![p] =
                     CASE @ = "ram" -> "swap" [] @ = "nada" -> "vacio" [] OTHER -> @]
                /\ notificaciones' = notificaciones + 1
             \/ /\ memoria[p] \in {"ram", "nada"}
                /\ UNCHANGED <<memoria, notificaciones>>
          /\ UNCHANGED ks_caido
  /\ UNCHANGED <<ks, reanudar>>

-----------------------------------------------------------------------------
(* intentar_dessuspender_procesos.                                          *)

\* A thread goes into the loop.
Empezar(r) == [reanudar EXCEPT ![r] = [pc |-> "ordenar", i |-> 0, pid |-> Nadie]]

\* comparar_prioridad_suspension; tiempo_suspension is in seconds, so processes
\* of the same priority may be in any order.
Ordenada(s) == \A i, j \in DOMAIN s : i < j => ks.prioridad[s[i]] <= ks.prioridad[s[j]]

Ordenar(r) ==
  /\ \E s \in SetToSeqs(ToSet(ks.susp_ready)) :
       /\ Ordenada(s)
       /\ ks' = [ks EXCEPT !.susp_ready = s]
  /\ reanudar' = [reanudar EXCEPT ![r].pc = "tam"]

ReanudarOrdena(r) ==
  /\ reanudar[r].pc = "ordenar"
  /\ Ordenar(r)
  /\ UNCHANGED <<memoria, notificaciones, suspensiones, ks_caido>>

\* hilo_escuchar_memoria: OP_MEMORIA_DISPONIBLE starts the loop.
OirMemoria ==
  /\ reanudar[Oyente].pc = "no"
  /\ notificaciones > 0
  /\ notificaciones' = notificaciones - 1
  /\ Ordenar(Oyente)
  /\ UNCHANGED <<memoria, suspensiones, ks_caido>>

\* list_size, without the mutex.
ReanudarMide(r) ==
  /\ reanudar[r].pc = "tam"
  /\ reanudar' = [reanudar EXCEPT ![r] =
       IF @.i < Len(ks.susp_ready) THEN [@ EXCEPT !.pc = "tomar"] ELSE EnReposo]
  /\ UNCHANGED <<ks, memoria, notificaciones, suspensiones, ks_caido>>

\* list_get, which gives NULL when the list has become shorter.
ReanudarToma(r) ==
  /\ reanudar[r].pc = "tomar"
  /\ IF reanudar[r].i < Len(ks.susp_ready)
     THEN /\ reanudar' = [reanudar EXCEPT ![r].pc = "pedir",
                                          ![r].pid = ks.susp_ready[reanudar[r].i + 1]]
          /\ UNCHANGED ks_caido
     ELSE ks_caido' = TRUE /\ UNCHANGED reanudar
  /\ UNCHANGED <<ks, memoria, notificaciones, suspensiones>>

\* OP_DESSUSPENDER_PROCESO: the process comes back if its segment fits.  One
\* that is not in the SWAP, or does not exist any more, is answered OP_OK too.
ReanudarPide(r) ==
  /\ reanudar[r].pc = "pedir"
  /\ LET p == reanudar[r].pid
         si == memoria[p] = "swap" => HayMarco IN
     /\ memoria' = [memoria EXCEPT ![p] =
          CASE ~ si -> @ [] @ = "swap" -> "ram" [] @ = "vacio" -> "nada" [] OTHER -> @]
     /\ reanudar' = [reanudar EXCEPT ![r] =
          IF si THEN [@ EXCEPT !.pc = "encolar"]
          ELSE [pc |-> "tam", i |-> @.i + 1, pid |-> Nadie]]
  /\ UNCHANGED <<ks, notificaciones, suspensiones, ks_caido>>

\* The process goes to READY.  Another thread may have taken the same process
\* from the list and done this already: it would be READY a second time, or run
\* again after its end.
ReanudarEncola(r) ==
  /\ reanudar[r].pc = "encolar"
  /\ LET p == reanudar[r].pid IN
     IF ks.estado[p] # "SUSP_READY"
     THEN ks_caido' = TRUE /\ UNCHANGED ks
     ELSE /\ ks' = Encolar([ks EXCEPT !.susp_ready = RemoveFirst(@, p),
                                      !.estado[p] = "READY"], p)
          /\ UNCHANGED ks_caido
  /\ reanudar' = [reanudar EXCEPT ![r].pc = "tam", ![r].pid = Nadie]
  /\ UNCHANGED <<memoria, notificaciones, suspensiones>>

ReanudarPaso(r) ==
  \/ ReanudarOrdena(r) \/ ReanudarMide(r) \/ ReanudarToma(r)
  \/ ReanudarPide(r) \/ ReanudarEncola(r)
=============================================================================
