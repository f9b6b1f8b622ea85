---------------------------- MODULE KernelMemory ----------------------------
(***************************************************************************)
(* The Kernel Memory module (kernel_memory/src): segment tables, free      *)
(* list, physical memory spread over Memory Sticks, swap, compaction.      *)
(*                                                                         *)
(* One thread serves the Kernel Scheduler's socket (atender_ks), one       *)
(* request at a time: pc and the variables after it are that thread's      *)
(* control point and locals.  Each connected stick and each SWAP has its   *)
(* own thread (atender_cliente), and these interleave with it wherever     *)
(* mutex_contextos or mutex_memory_sticks does not forbid it.  A loop of   *)
(* the code that works segment by segment is one action per segment, so    *)
(* that disconnections fall between its iterations.                        *)
(*                                                                         *)
(* The Kernel Scheduler is the most general client: any request, for any   *)
(* process, in any order, with the two restrictions written in             *)
(* CpuEscribe.                                                             *)
(***************************************************************************)
EXTENDS Huecos, FiniteSets, FiniteSetsExt

CONSTANTS
  Pids,            \* processes
  Ids,             \* segment numbers a process may ask for
  Tamanios,        \* segment sizes a process may ask for
  SegmentMaxSize,  \* SEGMENT_MAX_SIZE (0 = no limit)
  MaxSegmentos,    \* bound: segments of one process
  Sticks,          \* Memory Stick connections
  TamStick,        \* size each of them announces
  Swaps,           \* SWAP connections, in any order
  SticksQueCaen,   \* the sticks that may close their connection
  SwapsQueCaen,    \* the SWAPs that may
  BlockSize,       \* BLOCK_SIZE
  TotalBloques,    \* SWAP_FILE_SIZE / BLOCK_SIZE
  Estrategias,     \* values of allocation_best_fit to consider
  Escritores       \* the processes that write in their segments

ASSUME ConstantesOK ==
  /\ Tamanios \subseteq Nat
  /\ SegmentMaxSize \in Nat
  /\ MaxSegmentos \in Nat
  /\ TamStick \in [Sticks -> Nat]
  /\ BlockSize \in Nat \ {0}
  /\ TotalBloques \in Nat
  /\ Estrategias \subseteq BOOLEAN

Bloques == 0 .. TotalBloques - 1

\* No value: the ghost content of a segment nobody wrote.
Nada == "nada"

\* fd_swap = -1.
SinSwap == "sin_swap"

ASSUME NulosOK == Nada \notin Pids /\ Nada \notin Sticks /\ SinSwap \notin Swaps

\* A memory cell holds zero or the byte at offset o of what process p wrote.
Celda == (Pids \cup {Nada}) \X Nat
Cero == <<Nada, 0>>

Estados == {"no", "vivo", "caido", "cerrado"}

Ops == {"libre", "finalizar", "confirmar", "compactar", "reintentar",
        "susp_entrar", "susp_copiar", "dess_asignar", "dess_restaurar"}

\* t_segmento and t_segmento_swap; dato is a ghost: the process that wrote over
\* the whole segment, or Nada.
Segmento == [id : Ids, base : Nat, limite : Nat, dato : Pids \cup {Nada}]
SegmentoSwap == [id : Ids, limite : Nat, bloques : SUBSET Bloques,
                 dato : Pids \cup {Nada}]

\* The process, segment and size of the request under way.
Pedido == [pid : Pids \cup {Nada}, id : Ids \cup {Nada}, tam : Nat]

VARIABLES
  allocation_best_fit,  \* ALLOCATION_STRATEGY = BEST
  contextos,            \* pids in lista_contextos
  tabla,                \* tabla_segmentos of every process
  lista_huecos,         \* free list
  lista_memory_sticks,  \* connections in order of arrival
  memoria_total,
  fd_swap,              \* registered SWAP connection, or SinSwap
  swap_bloques_usados,  \* blocks marked in the bitmap
  procesos_en_swap,     \* pids of the suspended processes
  segmentos_swap,       \* their t_segmento_swap lists
  pc, pedido,           \* request the KS thread is serving, and where
  destino, movidos,     \* locals of compactar
  copia,                \* ps->segmentos of proceso_suspender
  bases, restaurados,   \* locals of proceso_dessuspender
  stick_estado,         \* peers: sticks, SWAPs, their contents
  swap_estado,
  ram,
  disco

ksLocals == <<pedido, destino, movidos, copia, bases, restaurados>>
tablas   == <<contextos, tabla>>
swapVars == <<fd_swap, swap_bloques_usados, procesos_en_swap, segmentos_swap>>
memVars  == <<lista_huecos, lista_memory_sticks, memoria_total>>
peers    == <<stick_estado, swap_estado>>
datos    == <<ram, disco>>
vars == <<allocation_best_fit, tablas, memVars, swapVars, pc, ksLocals,
          peers, datos>>

TypeOK ==
  /\ allocation_best_fit \in BOOLEAN
  /\ contextos \subseteq Pids
  /\ tabla \in [Pids -> Seq(Segmento)]
  /\ lista_huecos \in Seq(Hueco)
  /\ lista_memory_sticks \in Seq(Sticks)
  /\ memoria_total \in Nat
  /\ fd_swap \in Swaps \cup {SinSwap}
  /\ swap_bloques_usados \subseteq Bloques
  /\ procesos_en_swap \subseteq Pids
  /\ segmentos_swap \in [Pids -> Seq(SegmentoSwap)]
  /\ pc \in Ops
  /\ pedido \in Pedido
  /\ pc # "libre" => pedido.pid \in Pids
  /\ pc \in {"confirmar", "compactar", "reintentar"} => pedido.id \in Ids
  /\ destino \in Nat
  /\ movidos \subseteq Pids \X Nat
  /\ copia \in Seq(SegmentoSwap)
  /\ bases \in Seq(Nat)
  /\ restaurados \in Nat
  /\ stick_estado \in [Sticks -> Estados]
  /\ swap_estado \in [Swaps -> Estados]
  /\ \A f \in Sticks : ram[f] \in [0 .. TamStick[f] - 1 -> Celda]
  /\ disco \in [Bloques -> [0 .. BlockSize - 1 -> Celda]]

PedidoNulo == [pid |-> Nada, id |-> Nada, tam |-> 0]

Init ==
  /\ allocation_best_fit \in Estrategias
  /\ contextos = {}
  /\ tabla = [p \in Pids |-> <<>>]
  /\ lista_huecos = <<>>
  /\ lista_memory_sticks = <<>>
  /\ memoria_total = 0
  /\ fd_swap = SinSwap
  /\ swap_bloques_usados = {}
  /\ procesos_en_swap = {}
  /\ segmentos_swap = [p \in Pids |-> <<>>]
  /\ pc = "libre"
  /\ pedido = PedidoNulo
  /\ destino = 0
  /\ movidos = {}
  /\ copia = <<>>
  /\ bases = <<>>
  /\ restaurados = 0
  /\ stick_estado = [f \in Sticks |-> "no"]
  /\ swap_estado = [s \in Swaps |-> "no"]
  /\ ram = [f \in Sticks |-> [x \in 0 .. TamStick[f] - 1 |-> Cero]]
  /\ disco = [b \in Bloques |-> [x \in 0 .. BlockSize - 1 |-> Cero]]

-----------------------------------------------------------------------------
(* Who may run: mutex_contextos and mutex_memory_sticks are held by the KS  *)
(* thread across its segment loops.                                         *)

MutexContextosLibre ==
  pc \notin {"compactar", "susp_copiar", "dess_asignar", "dess_restaurar"}

MutexSticksLibre == pc # "dess_asignar"

\* End of a request: the thread goes back to recibir_codigo.
Terminar ==
  /\ pc' = "libre"
  /\ pedido' = PedidoNulo
  /\ destino' = 0 /\ movidos' = {}
  /\ copia' = <<>>
  /\ bases' = <<>> /\ restaurados' = 0

-----------------------------------------------------------------------------
(* Physical memory: a global address is found by adding up the sizes of the *)
(* sticks in the list, whatever base each of them was given.                *)

SinStick == [fd |-> Nada, offset |-> 0]

\* Sizes of the sticks before the k-th of the list, added up.
Acumulado(k) ==
  Sumas([j \in DOMAIN lista_memory_sticks |-> TamStick[lista_memory_sticks[j]]])[k - 1]

\* Bytes x of the k-th stick whose global address is dir: one or none.
CaeEn(dir, k) ==
  LET antes == Acumulado(k)
  IN  {x \in 0 .. TamStick[lista_memory_sticks[k]] - 1 : dir = antes + x}

\* memory_stick_localizar.
MemoryStickLocalizar(dir) ==
  LET ks == {k \in DOMAIN lista_memory_sticks : CaeEn(dir, k) # {}}
      k  == CHOOSE k \in ks : TRUE
  IN  IF ks = {} THEN SinStick
      ELSE [fd     |-> lista_memory_sticks[k],
            offset |-> CHOOSE x \in CaeEn(dir, k) : TRUE]

\* The stick that holds the address answers.
Alcanzable(dir) ==
  /\ MemoryStickLocalizar(dir) # SinStick
  /\ stick_estado[MemoryStickLocalizar(dir).fd] = "vivo"

\* memoria_fisica_leer returns true, and the buffer it then fills.
PuedeAcceder(dir, t) == \A o \in 0 .. t - 1 : Alcanzable(dir + o)

MemoriaFisicaLeer(dir, t) ==
  [o \in 0 .. t - 1 |-> LET l == MemoryStickLocalizar(dir + o)
                        IN  ram[l.fd][l.offset]]

\* memoria_fisica_escribir: what is written before the first stick that does
\* not answer stays written.
MemoriaFisicaEscribir(dir, t, buffer) ==
  [f \in Sticks |-> [x \in 0 .. TamStick[f] - 1 |->
     LET os == {o \in 0 .. t - 1 :
                  /\ MemoryStickLocalizar(dir + o) = [fd |-> f, offset |-> x]
                  /\ PuedeAcceder(dir, o + 1)}
     IN  IF os = {} THEN ram[f][x] ELSE buffer[CHOOSE o \in os : TRUE]]]

-----------------------------------------------------------------------------
(* SWAP blocks.                                                             *)

SwapResponde == fd_swap # SinSwap /\ swap_estado[fd_swap] = "vivo"

BloquesLibres == Bloques \ swap_bloques_usados

CantidadBloques(t) == (t + BlockSize - 1) \div BlockSize

\* The n free blocks of lowest number, in the order the loop takes them.
PrimerosLibres(n) ==
  {b \in BloquesLibres : Cardinality({c \in BloquesLibres : c < b}) < n}

\* Position of block b among the blocks of its segment.
Orden(b, bloques) == Cardinality({c \in bloques : c < b})

BloquesDe(ss) == UNION {ss[i].bloques : i \in DOMAIN ss}

BloquesNecesarios(segs) ==
  Sumas([i \in DOMAIN segs |-> CantidadBloques(segs[i].limite)])[Len(segs)]

\* swap_escribir_bloque over the blocks of a segment: the last one is padded.
SwapEscribir(bloques, t, buffer) ==
  [b \in Bloques |->
     IF b \notin bloques THEN disco[b]
     ELSE [x \in 0 .. BlockSize - 1 |->
             IF Orden(b, bloques) * BlockSize + x < t
             THEN buffer[Orden(b, bloques) * BlockSize + x] ELSE Cero]]

\* swap_leer_bloque over the blocks of a segment, whose result nobody looks
\* at: what no block was read into stays at the zero of calloc.
SwapLeer(bloques, t) ==
  [o \in 0 .. t - 1 |->
     IF SwapResponde /\ \E b \in bloques : Orden(b, bloques) = o \div BlockSize
     THEN LET b == CHOOSE b \in bloques : Orden(b, bloques) = o \div BlockSize
          IN  disco[b][o % BlockSize]
     ELSE Cero]

-----------------------------------------------------------------------------
(* Processes: OP_CREAR_PROCESO, OP_FINALIZAR_PROCESO.                       *)

\* contexto_crear.  The KS numbers processes itself, so the pid is new.
CrearProceso(p) ==
  /\ pc = "libre"
  /\ p \notin contextos
  /\ contextos' = contextos \cup {p}
  /\ tabla' = [tabla EXCEPT ![p] = <<>>]
  /\ UNCHANGED <<allocation_best_fit, memVars, swapVars, pc, ksLocals,
                 peers, datos>>

\* The areas of the segments of p, as hueco_liberar appends them one by one.
HuecosDe(p) ==
  [i \in 1 .. Len(tabla[p]) |->
     [base |-> tabla[p][i].base, tamanio |-> tabla[p][i].limite]]

\* Mutant: the blocks of the process are not unmarked.
MutFinalizarSinSwap(p) ==
  /\ pc = "libre"
  /\ lista_huecos' = lista_huecos \o HuecosDe(p)
  /\ tabla' = [tabla EXCEPT ![p] = <<>>]
  /\ procesos_en_swap' = procesos_en_swap \ {p}
  /\ segmentos_swap' = [segmentos_swap EXCEPT ![p] = <<>>]
  /\ pc' = "finalizar"
  /\ pedido' = [PedidoNulo EXCEPT !.pid = p]
  /\ UNCHANGED <<allocation_best_fit, contextos, lista_memory_sticks,
                 memoria_total, fd_swap, swap_bloques_usados, destino, movidos,
                 copia, bases, restaurados, peers, datos>>

\* proceso_liberar_memoria: RAM and SWAP of the process, in one critical
\* section of mutex_contextos.
ProcesoLiberarMemoria(p) ==
  /\ pc = "libre"
  /\ lista_huecos' = lista_huecos \o HuecosDe(p)
  /\ tabla' = [tabla EXCEPT ![p] = <<>>]
  /\ swap_bloques_usados' = swap_bloques_usados \ BloquesDe(segmentos_swap[p])
  /\ procesos_en_swap' = procesos_en_swap \ {p}
  /\ segmentos_swap' = [segmentos_swap EXCEPT ![p] = <<>>]
  /\ pc' = "finalizar"
  /\ pedido' = [PedidoNulo EXCEPT !.pid = p]
  /\ UNCHANGED <<allocation_best_fit, contextos, lista_memory_sticks,
                 memoria_total, fd_swap, destino, movidos, copia, bases,
                 restaurados, peers, datos>>

\* contexto_eliminar, in a second critical section, then the answer and the
\* notification, in that order.
ContextoEliminar ==
  /\ pc = "finalizar"
  /\ contextos' = contextos \ {pedido.pid}
  /\ tabla' = [tabla EXCEPT ![pedido.pid] = <<>>]
  /\ Terminar
  /\ UNCHANGED <<allocation_best_fit, memVars, swapVars, peers, datos>>

-----------------------------------------------------------------------------
(* Segments: OP_CREAR_SEGMENTO, OP_ELIMINAR_SEGMENTO.                       *)

Buscar(t) == BuscarHueco(allocation_best_fit, lista_huecos, t)

\* Mutant: the memory there is, not the memory that is free, is compared.
MutResultadoCrearSinTotal(p, t) ==
  IF \/ SegmentMaxSize > 0 /\ t > SegmentMaxSize
     \/ p \notin contextos
  THEN "ERROR"
  ELSE IF Buscar(t) # SinHueco THEN "OK"
  ELSE IF memoria_total >= t THEN "COMPACTAR" ELSE "ERROR"

\* What segmento_crear answers.
ResultadoCrear(p, t) ==
  IF \/ SegmentMaxSize > 0 /\ t > SegmentMaxSize
     \/ p \notin contextos
  THEN "ERROR"
  ELSE IF Buscar(t) # SinHueco THEN "OK"
  ELSE IF HuecosTotalLibre(lista_huecos) >= t THEN "COMPACTAR" ELSE "ERROR"

\* What it does when it answers CREAR_SEG_OK; there is no check that the
\* process has no other segment with this number.
OcuparYAnotar(p, i, t) ==
  /\ tabla' = [tabla EXCEPT ![p] = Append(@,
                  [id |-> i, base |-> lista_huecos[Buscar(t)].base,
                   limite |-> t, dato |-> Nada])]
  /\ lista_huecos' = HuecoOcupar(lista_huecos, Buscar(t), t)

CrearSegmentoOK(p, i, t) ==
  /\ pc = "libre"
  /\ Len(tabla[p]) + Len(segmentos_swap[p]) < MaxSegmentos
  /\ ResultadoCrear(p, t) = "OK"
  /\ OcuparYAnotar(p, i, t)
  /\ UNCHANGED <<allocation_best_fit, contextos, lista_memory_sticks,
                 memoria_total, swapVars, pc, ksLocals, peers, datos>>

CrearSegmentoError(p, i, t) ==
  /\ pc = "libre"
  /\ ResultadoCrear(p, t) = "ERROR"
  /\ UNCHANGED <<allocation_best_fit, tablas, memVars, swapVars, pc, ksLocals,
                 peers, datos>>

\* OP_COMPACTAR is sent and the thread waits for the KS's confirmation.
CrearSegmentoCompactar(p, i, t) ==
  /\ pc = "libre"
  /\ Len(tabla[p]) + Len(segmentos_swap[p]) < MaxSegmentos
  /\ ResultadoCrear(p, t) = "COMPACTAR"
  /\ pc' = "confirmar"
  /\ pedido' = [pid |-> p, id |-> i, tam |-> t]
  /\ UNCHANGED <<allocation_best_fit, tablas, memVars, swapVars, destino,
                 movidos, copia, bases, restaurados, peers, datos>>

\* Any other code than OP_OK: the request is dropped without an answer.
ConfirmacionRechazada ==
  /\ pc = "confirmar"
  /\ Terminar
  /\ UNCHANGED <<allocation_best_fit, tablas, memVars, swapVars, peers, datos>>

\* OP_OK: compactar takes mutex_contextos and lists every segment.
ConfirmacionRecibida ==
  /\ pc = "confirmar"
  /\ pc' = "compactar"
  /\ destino' = 0
  /\ movidos' = {}
  /\ UNCHANGED <<allocation_best_fit, tablas, memVars, swapVars, pedido, copia,
                 bases, restaurados, peers, datos>>

\* The segments compactar lists, by process and position, and the ones it
\* still has to place.
Listados == UNION {{<<p, k>> : k \in DOMAIN tabla[p]} : p \in contextos}

Pendientes == Listados \ movidos

\* Mutant: the segments are moved in the order they are listed, not sorted.
MutSiguienteSinOrdenar(p, k) ==
  /\ <<p, k>> \in Pendientes
  /\ \A s \in Pendientes : s[1] = p => k <= s[2]

\* comparar_segmentos_por_base: the list is sorted by base, so the next
\* segment is one of lowest base.
Siguiente(p, k) ==
  /\ <<p, k>> \in Pendientes
  /\ \A s \in Pendientes : tabla[p][k].base <= tabla[s[1]][s[2]].base

\* One iteration of the loop: the segment is already at its place, or its
\* bytes are copied there and only then its base is changed.
CompactarSegmento(p, k) ==
  /\ pc = "compactar"
  /\ Siguiente(p, k)
  /\ LET seg == tabla[p][k] IN
     /\ \/ seg.base = destino
        \/ /\ PuedeAcceder(seg.base, seg.limite)
           /\ PuedeAcceder(destino, seg.limite)
     /\ tabla' = [tabla EXCEPT ![p][k].base = destino]
     /\ ram' = IF seg.base = destino THEN ram
               ELSE MemoriaFisicaEscribir(destino, seg.limite,
                      MemoriaFisicaLeer(seg.base, seg.limite))
     /\ destino' = destino + seg.limite
  /\ movidos' = movidos \cup {<<p, k>>}
  /\ UNCHANGED <<allocation_best_fit, contextos, memVars, swapVars, pc, pedido,
                 copia, bases, restaurados, peers, disco>>

\* Mutant: the loop goes on with the same segment.
MutCompactarFallaInsiste(p, k) ==
  /\ pc = "compactar"
  /\ Siguiente(p, k)
  /\ tabla[p][k].base # destino
  /\ \/ ~ PuedeAcceder(tabla[p][k].base, tabla[p][k].limite)
     \/ ~ PuedeAcceder(destino, tabla[p][k].limite)
  /\ UNCHANGED vars

\* A stick does not answer: the segment keeps its base, the loop ends and the
\* free list is left as it was before the compaction.
CompactarFalla(p, k) ==
  /\ pc = "compactar"
  /\ Siguiente(p, k)
  /\ LET seg == tabla[p][k] IN
     /\ seg.base # destino
     /\ \/ ~ PuedeAcceder(seg.base, seg.limite)
        \/ ~ PuedeAcceder(destino, seg.limite)
     /\ ram' = IF PuedeAcceder(seg.base, seg.limite)
               THEN MemoriaFisicaEscribir(destino, seg.limite,
                      MemoriaFisicaLeer(seg.base, seg.limite))
               ELSE ram
  /\ pc' = "reintentar"
  /\ UNCHANGED <<allocation_best_fit, tablas, memVars, swapVars, ksLocals,
                 peers, disco>>

CompactarFin ==
  /\ pc = "compactar"
  /\ Pendientes = {}
  /\ lista_huecos' = HuecosReconstruir(destino, memoria_total)
  /\ pc' = "reintentar"
  /\ UNCHANGED <<allocation_best_fit, tablas, lista_memory_sticks,
                 memoria_total, swapVars, ksLocals, peers, datos>>

\* segmento_crear once more; its result only reaches the log.
ReintentarCrear ==
  /\ pc = "reintentar"
  /\ IF ResultadoCrear(pedido.pid, pedido.tam) = "OK"
     THEN OcuparYAnotar(pedido.pid, pedido.id, pedido.tam)
     ELSE UNCHANGED <<tabla, lista_huecos>>
  /\ Terminar
  /\ UNCHANGED <<allocation_best_fit, contextos, lista_memory_sticks,
                 memoria_total, swapVars, peers, datos>>

\* buscar_segmento: the first one with that number.
EsPrimero(p, i, k) ==
  /\ k \in DOMAIN tabla[p]
  /\ tabla[p][k].id = i
  /\ \A j \in 1 .. k - 1 : tabla[p][j].id # i

SegmentoEliminar(p, i) ==
  /\ pc = "libre"
  /\ \E k \in 1 .. Len(tabla[p]) :
       /\ EsPrimero(p, i, k)
       /\ lista_huecos' = HuecoLiberar(lista_huecos, tabla[p][k].base,
                                       tabla[p][k].limite)
       /\ tabla' = [tabla EXCEPT ![p] = RemoveAt(@, k)]
  /\ UNCHANGED <<allocation_best_fit, contextos, lista_memory_sticks,
                 memoria_total, swapVars, pc, ksLocals, peers, datos>>

SegmentoEliminarError(p, i) ==
  /\ pc = "libre"
  /\ \A k \in 1 .. Len(tabla[p]) : tabla[p][k].id # i
  /\ UNCHANGED <<allocation_best_fit, tablas, memVars, swapVars, pc, ksLocals,
                 peers, datos>>

-----------------------------------------------------------------------------
(* Suspension: OP_SUSPENDER_PROCESO.                                        *)

\* proceso_suspender looks at fd_swap before it takes mutex_contextos.
Suspender(p) ==
  /\ pc = "libre"
  /\ IF fd_swap = SinSwap
     THEN UNCHANGED <<pc, pedido>>
     ELSE /\ pc' = "susp_entrar"
          /\ pedido' = [PedidoNulo EXCEPT !.pid = p]
  /\ UNCHANGED <<allocation_best_fit, tablas, memVars, swapVars, destino,
                 movidos, copia, bases, restaurados, peers, datos>>

\* Under the mutex: unknown process, already suspended, not enough blocks.
SuspenderSinCopiar ==
  /\ pc = "susp_entrar"
  /\ \/ /\ pedido.pid \notin contextos
        /\ Terminar
     \/ /\ pedido.pid \in contextos \cap procesos_en_swap
        /\ Terminar
     \/ /\ pedido.pid \in contextos \ procesos_en_swap
        /\ BloquesNecesarios(tabla[pedido.pid]) > Cardinality(BloquesLibres)
        /\ Terminar
  /\ UNCHANGED <<allocation_best_fit, tablas, memVars, swapVars, peers, datos>>

SuspenderEntrar ==
  /\ pc = "susp_entrar"
  /\ pedido.pid \in contextos \ procesos_en_swap
  /\ BloquesNecesarios(tabla[pedido.pid]) <= Cardinality(BloquesLibres)
  /\ pc' = "susp_copiar"
  /\ copia' = <<>>
  /\ UNCHANGED <<allocation_best_fit, tablas, memVars, swapVars, pedido,
                 destino, movidos, bases, restaurados, peers, datos>>

\* The segment phase 1 copies next, and whether its copy succeeds: every stick
\* it is on answers and, when it needs blocks, so does the SWAP.
PorCopiar == tabla[pedido.pid][Len(copia) + 1]

CopiaPosible ==
  /\ PuedeAcceder(PorCopiar.base, PorCopiar.limite)
  /\ CantidadBloques(PorCopiar.limite) > 0 => SwapResponde

\* Phase 1, one segment: blocks are marked and written, RAM is not touched.
SuspenderCopiar ==
  /\ pc = "susp_copiar"
  /\ Len(copia) < Len(tabla[pedido.pid])
  /\ CopiaPosible
  /\ LET bs == PrimerosLibres(CantidadBloques(PorCopiar.limite)) IN
     /\ swap_bloques_usados' = swap_bloques_usados \cup bs
     /\ disco' = SwapEscribir(bs, PorCopiar.limite,
                   MemoriaFisicaLeer(PorCopiar.base, PorCopiar.limite))
     /\ copia' = Append(copia, [id |-> PorCopiar.id, limite |-> PorCopiar.limite,
                                bloques |-> bs, dato |-> PorCopiar.dato])
  /\ UNCHANGED <<allocation_best_fit, tablas, memVars, fd_swap,
                 procesos_en_swap, segmentos_swap, pc, pedido, destino, movidos,
                 bases, restaurados, peers, ram>>

\* Mutant: the blocks of the segments copied before the failure stay marked.
MutSuspenderRollback ==
  /\ pc = "susp_copiar"
  /\ Len(copia) < Len(tabla[pedido.pid])
  /\ ~ CopiaPosible
  /\ Terminar
  /\ UNCHANGED <<allocation_best_fit, tablas, memVars, swapVars, peers, datos>>

\* The copy fails: the blocks of this segment and of the ones copied before it
\* are unmarked and the process stays in memory.
SuspenderRollback ==
  /\ pc = "susp_copiar"
  /\ Len(copia) < Len(tabla[pedido.pid])
  /\ ~ CopiaPosible
  /\ swap_bloques_usados' = swap_bloques_usados \ BloquesDe(copia)
  /\ Terminar
  /\ UNCHANGED <<allocation_best_fit, tablas, memVars, fd_swap,
                 procesos_en_swap, segmentos_swap, peers, datos>>

\* Phase 2: every segment is in the SWAP, its RAM becomes free.
SuspenderLiberar ==
  /\ pc = "susp_copiar"
  /\ Len(copia) = Len(tabla[pedido.pid])
  /\ lista_huecos' = lista_huecos \o HuecosDe(pedido.pid)
  /\ tabla' = [tabla EXCEPT ![pedido.pid] = <<>>]
  /\ procesos_en_swap' = procesos_en_swap \cup {pedido.pid}
  /\ segmentos_swap' = [segmentos_swap EXCEPT ![pedido.pid] = copia]
  /\ Terminar
  /\ UNCHANGED <<allocation_best_fit, contextos, lista_memory_sticks,
                 memoria_total, fd_swap, swap_bloques_usados, peers, datos>>

-----------------------------------------------------------------------------
(* OP_DESSUSPENDER_PROCESO.                                                 *)

Dessuspender(p) ==
  /\ pc = "libre"
  /\ IF p \in procesos_en_swap
     THEN /\ pc' = "dess_asignar"
          /\ pedido' = [PedidoNulo EXCEPT !.pid = p]
     ELSE UNCHANGED <<pc, pedido>>
  /\ UNCHANGED <<allocation_best_fit, tablas, memVars, swapVars, destino,
                 movidos, copia, bases, restaurados, peers, datos>>

EnSwap == segmentos_swap[pedido.pid]

\* Tentative allocation of the next segment, with mutex_memory_sticks held.
DessAsignar ==
  /\ pc = "dess_asignar"
  /\ Len(bases) < Len(EnSwap)
  /\ LET t == EnSwap[Len(bases) + 1].limite IN
     /\ Buscar(t) # SinHueco
     /\ bases' = Append(bases, lista_huecos[Buscar(t)].base)
     /\ lista_huecos' = HuecoOcupar(lista_huecos, Buscar(t), t)
  /\ UNCHANGED <<allocation_best_fit, tablas, lista_memory_sticks,
                 memoria_total, swapVars, pc, pedido, destino, movidos, copia,
                 restaurados, peers, datos>>

\* Mutant: the last area taken is not given back.
MutDessRollback ==
  /\ pc = "dess_asignar"
  /\ Len(bases) < Len(EnSwap)
  /\ Buscar(EnSwap[Len(bases) + 1].limite) = SinHueco
  /\ lista_huecos' = lista_huecos \o
       [j \in 1 .. Len(bases) - 1 |-> [base |-> bases[j], tamanio |-> EnSwap[j].limite]]
  /\ Terminar
  /\ UNCHANGED <<allocation_best_fit, tablas, lista_memory_sticks,
                 memoria_total, swapVars, peers, datos>>

\* One segment does not fit: the areas taken so far are given back.
DessRollback ==
  /\ pc = "dess_asignar"
  /\ Len(bases) < Len(EnSwap)
  /\ Buscar(EnSwap[Len(bases) + 1].limite) = SinHueco
  /\ lista_huecos' = lista_huecos \o
       [j \in 1 .. Len(bases) |-> [base |-> bases[j], tamanio |-> EnSwap[j].limite]]
  /\ Terminar
  /\ UNCHANGED <<allocation_best_fit, tablas, lista_memory_sticks,
                 memoria_total, swapVars, peers, datos>>

\* Every segment has a place; mutex_memory_sticks is released.
DessAsignado ==
  /\ pc = "dess_asignar"
  /\ Len(bases) = Len(EnSwap)
  /\ pc' = "dess_restaurar"
  /\ restaurados' = 0
  /\ UNCHANGED <<allocation_best_fit, tablas, memVars, swapVars, pedido,
                 destino, movidos, copia, bases, peers, datos>>

\* One segment comes back: its blocks are read and unmarked, its bytes written
\* to RAM, its entry added to the table.  No failure is looked at.
DessRestaurar ==
  /\ pc = "dess_restaurar"
  /\ restaurados < Len(EnSwap)
  /\ LET ss == EnSwap[restaurados + 1]
         b  == bases[restaurados + 1] IN
     /\ ram' = MemoriaFisicaEscribir(b, ss.limite, SwapLeer(ss.bloques, ss.limite))
     /\ swap_bloques_usados' = swap_bloques_usados \ ss.bloques
     /\ tabla' = [tabla EXCEPT ![pedido.pid] = Append(@,
                    [id |-> ss.id, base |-> b, limite |-> ss.limite,
                     dato |-> ss.dato])]
  /\ restaurados' = restaurados + 1
  /\ UNCHANGED <<allocation_best_fit, contextos, memVars, fd_swap,
                 procesos_en_swap, segmentos_swap, pc, pedido, destino, movidos,
                 copia, bases, peers, disco>>

DessFin ==
  /\ pc = "dess_restaurar"
  /\ restaurados = Len(EnSwap)
  /\ procesos_en_swap' = procesos_en_swap \ {pedido.pid}
  /\ segmentos_swap' = [segmentos_swap EXCEPT ![pedido.pid] = <<>>]
  /\ Terminar
  /\ UNCHANGED <<allocation_best_fit, tablas, memVars, fd_swap,
                 swap_bloques_usados, peers, datos>>

-----------------------------------------------------------------------------
(* Bytes of the processes.  A process writes over a whole segment through a *)
(* CPU, straight to the sticks, or the KS writes for it what STDIN read.    *)
(* One write per segment bounds the model.                                  *)

Contenido(p, t) == [o \in 0 .. t - 1 |-> <<p, o>>]

EscribirSegmento(p, k) ==
  /\ p \in Escritores
  /\ tabla[p][k].dato = Nada
  /\ PuedeAcceder(tabla[p][k].base, tabla[p][k].limite)
  /\ ram' = MemoriaFisicaEscribir(tabla[p][k].base, tabla[p][k].limite,
                                  Contenido(p, tabla[p][k].limite))
  /\ tabla' = [tabla EXCEPT ![p][k].dato = p]

\* A CPU runs p.  Two promises of the Kernel Scheduler are used here: no CPU
\* runs while the memory is compacted, and a process that has a request of its
\* own under way, its suspension included, runs nowhere.
CpuEscribe(p, k) ==
  /\ pc # "compactar"
  /\ pc # "libre" => pedido.pid # p
  /\ k \in DOMAIN tabla[p]
  /\ EscribirSegmento(p, k)
  /\ UNCHANGED <<allocation_best_fit, contextos, memVars, swapVars, pc,
                 ksLocals, peers, disco>>

\* OP_ESCRIBIR_DATOS, with an address that still is the one of the segment.
EscribirDatos(p, k) ==
  /\ pc = "libre"
  /\ k \in DOMAIN tabla[p]
  /\ EscribirSegmento(p, k)
  /\ UNCHANGED <<allocation_best_fit, contextos, memVars, swapVars, pc,
                 ksLocals, peers, disco>>

-----------------------------------------------------------------------------
(* The threads of the sticks and of the SWAP.                               *)

\* HANDSHAKE_MEMORY_STICK, memory_stick_agregar.
MemoryStickAgregar(f) ==
  /\ MutexSticksLibre
  /\ stick_estado[f] = "no"
  /\ stick_estado' = [stick_estado EXCEPT ![f] = "vivo"]
  /\ lista_memory_sticks' = Append(lista_memory_sticks, f)
  /\ lista_huecos' = HuecosExtender(lista_huecos, memoria_total, TamStick[f])
  /\ memoria_total' = memoria_total + TamStick[f]
  /\ UNCHANGED <<allocation_best_fit, tablas, swapVars, pc, ksLocals,
                 swap_estado, datos>>

\* The other end closes the connection.
StickCae(f) ==
  /\ f \in SticksQueCaen
  /\ stick_estado[f] = "vivo"
  /\ stick_estado' = [stick_estado EXCEPT ![f] = "caido"]
  /\ UNCHANGED <<allocation_best_fit, tablas, memVars, swapVars, pc, ksLocals,
                 swap_estado, datos>>

\* atender_memory_stick wakes up: memory_stick_eliminar takes the stick out of
\* the list and leaves memoria_total and the free list alone.
MemoryStickEliminar(f) ==
  /\ MutexSticksLibre
  /\ stick_estado[f] = "caido"
  /\ stick_estado' = [stick_estado EXCEPT ![f] = "cerrado"]
  /\ lista_memory_sticks' = RemoveFirst(lista_memory_sticks, f)
  /\ UNCHANGED <<allocation_best_fit, tablas, lista_huecos, memoria_total,
                 swapVars, pc, ksLocals, swap_estado, datos>>

\* HANDSHAKE_SWAP, swap_registrar: the file is new and the bitmap is cleared,
\* whatever procesos_en_swap holds.
SwapRegistrar(s) ==
  /\ MutexContextosLibre
  /\ swap_estado[s] = "no"
  /\ swap_estado' = [swap_estado EXCEPT ![s] = "vivo"]
  /\ fd_swap' = s
  /\ swap_bloques_usados' = {}
  /\ disco' = [b \in Bloques |-> [x \in 0 .. BlockSize - 1 |-> Cero]]
  /\ UNCHANGED <<allocation_best_fit, tablas, memVars, procesos_en_swap,
                 segmentos_swap, pc, ksLocals, stick_estado, ram>>

SwapCae(s) ==
  /\ s \in SwapsQueCaen
  /\ swap_estado[s] = "vivo"
  /\ swap_estado' = [swap_estado EXCEPT ![s] = "caido"]
  /\ UNCHANGED <<allocation_best_fit, tablas, memVars, swapVars, pc, ksLocals,
                 stick_estado, datos>>

\* swap_desregistrar forgets whatever SWAP is registered at that moment.
SwapDesregistrar(s) ==
  /\ MutexContextosLibre
  /\ swap_estado[s] = "caido"
  /\ swap_estado' = [swap_estado EXCEPT ![s] = "cerrado"]
  /\ fd_swap' = SinSwap
  /\ UNCHANGED <<allocation_best_fit, tablas, memVars, swap_bloques_usados,
                 procesos_en_swap, segmentos_swap, pc, ksLocals, stick_estado,
                 datos>>

-----------------------------------------------------------------------------
\* A request of the KS arrives.
Atender(p) ==
  \/ CrearProceso(p)
  \/ ProcesoLiberarMemoria(p)
  \/ \E i \in Ids, t \in Tamanios :
       \/ CrearSegmentoOK(p, i, t)
       \/ CrearSegmentoError(p, i, t)
       \/ CrearSegmentoCompactar(p, i, t)
  \/ \E i \in Ids : SegmentoEliminar(p, i) \/ SegmentoEliminarError(p, i)
  \/ Suspender(p)
  \/ Dessuspender(p)
  \/ \E k \in 1 .. MaxSegmentos : EscribirDatos(p, k)

\* The KS thread goes on with the request it is serving.
Continuar ==
  \/ ContextoEliminar
  \/ ConfirmacionRecibida
  \/ \E p \in Pids, k \in 1 .. MaxSegmentos :
       CompactarSegmento(p, k) \/ CompactarFalla(p, k)
  \/ CompactarFin
  \/ ReintentarCrear
  \/ SuspenderSinCopiar \/ SuspenderEntrar
  \/ SuspenderCopiar \/ SuspenderRollback \/ SuspenderLiberar
  \/ DessAsignar \/ DessRollback \/ DessAsignado \/ DessRestaurar \/ DessFin

\* The other threads and the processes at the other end of the sockets.
Entorno ==
  \/ ConfirmacionRechazada
  \/ \E p \in Pids, k \in 1 .. MaxSegmentos : CpuEscribe(p, k)
  \/ \E f \in Sticks : \/ MemoryStickAgregar(f)
                       \/ StickCae(f)
                       \/ MemoryStickEliminar(f)
  \/ \E s \in Swaps : SwapRegistrar(s) \/ SwapCae(s) \/ SwapDesregistrar(s)

Next == (\E p \in Pids : Atender(p)) \/ Continuar \/ Entorno

Spec == Init /\ [][Next]_vars

\* The KS thread is never held back for ever: nobody else keeps the mutexes it
\* needs, and the KS confirms a compaction.
FairSpec == Spec /\ WF_vars(Continuar)

-----------------------------------------------------------------------------
(* Properties.                                                              *)

SinSticksCaidos == \A f \in Sticks : stick_estado[f] \in {"no", "vivo"}

UnSoloSwap ==
  \A s, r \in Swaps : swap_estado[s] # "no" /\ swap_estado[r] # "no" => s = r

SwapSinCaidas == \A s \in Swaps : swap_estado[s] \in {"no", "vivo"}

\* Areas proceso_dessuspender has taken and not yet written in the table.
Reservas == restaurados + 1 .. Len(bases)

\* No byte belongs to two segments, in the middle of a compaction either, as
\* long as no stick was lost.
SegmentosDisjuntos ==
  SinSticksCaidos => \A p, q \in Pids : \A i \in DOMAIN tabla[p], j \in DOMAIN tabla[q] :
    p # q \/ i # j =>
      Disjuntas(tabla[p][i].base, tabla[p][i].limite,
                tabla[q][j].base, tabla[q][j].limite)

\* A hole overlaps neither a segment, nor another hole, nor an area that a
\* de-suspension has taken, as long as no stick was lost (an aborted
\* compaction leaves the free list stale).
HuecosLibres ==
  SinSticksCaidos /\ pc # "compactar" =>
    \A i \in DOMAIN lista_huecos :
      LET h == lista_huecos[i] IN
      /\ \A j \in DOMAIN lista_huecos : i # j =>
           Disjuntas(h.base, h.tamanio, lista_huecos[j].base, lista_huecos[j].tamanio)
      /\ \A p \in Pids : \A k \in DOMAIN tabla[p] :
           Disjuntas(h.base, h.tamanio, tabla[p][k].base, tabla[p][k].limite)
      /\ \A r \in Reservas :
           Disjuntas(h.base, h.tamanio, bases[r], EnSwap[r].limite)

\* No byte of the sticks is lost: each one is in a hole, in a segment or in an
\* area taken by the de-suspension under way.
SinFugas ==
  SinSticksCaidos /\ pc # "compactar" =>
    \A a \in 0 .. memoria_total - 1 :
      \/ \E i \in DOMAIN lista_huecos :
           EnArea(a, lista_huecos[i].base, lista_huecos[i].tamanio)
      \/ \E p \in Pids : \E k \in DOMAIN tabla[p] :
           EnArea(a, tabla[p][k].base, tabla[p][k].limite)
      \/ \E r \in Reservas : EnArea(a, bases[r], EnSwap[r].limite)

\* What a process wrote in a segment is what the segment holds, at its present
\* address, after any number of compactions, suspensions and returns, as long
\* as no stick and no SWAP was lost.
ContenidoIntacto ==
  SinSticksCaidos /\ SwapSinCaidas =>
    \A p \in Pids : \A k \in DOMAIN tabla[p] :
      LET s == tabla[p][k] IN
      s.dato # Nada => MemoriaFisicaLeer(s.base, s.limite) = Contenido(s.dato, s.limite)

\* A block is marked exactly when a suspended process, or the suspension under
\* way, uses it, and no two use the same one: no block leaks when a copy fails
\* half way.  A de-suspension unmarks as it goes.
BloquesDeSwap ==
  UnSoloSwap =>
    /\ swap_bloques_usados =
         (UNION {BloquesDe(segmentos_swap[p]) : p \in
                   {q \in Pids : ~ (pc = "dess_restaurar" /\ q = pedido.pid)}})
           \cup BloquesDe(copia)
           \cup (IF pc = "dess_restaurar"
                 THEN BloquesDe(SubSeq(EnSwap, restaurados + 1, Len(EnSwap)))
                 ELSE {})
    /\ \A p, q \in Pids : \A i \in DOMAIN segmentos_swap[p],
                              j \in DOMAIN segmentos_swap[q] :
         p # q \/ i # j =>
           segmentos_swap[p][i].bloques \cap segmentos_swap[q][j].bloques = {}

\* memoria_usuario.c:16, "mapa de bits": true = ocupado.  Every block that holds
\* a segment of a suspended process is marked.
MapaDeBitsFiel ==
  pc = "libre" =>
    \A p \in Pids : BloquesDe(segmentos_swap[p]) \subseteq swap_bloques_usados

\* handlers.c:214, "ahora entra": the segment that asked for the compaction, of
\* one byte or more, fits after it, as long as no stick was lost; what
\* huecos_total_libre adds up before is in one piece.
CompactarAlcanza ==
  SinSticksCaidos /\ pc = "reintentar" /\ pedido.tam > 0 =>
    ResultadoCrear(pedido.pid, pedido.tam) = "OK"

\* Every request of the KS ends, with its answer or, for a compaction, with
\* its notification.
PedidoTermina == pc # "libre" ~> pc = "libre"
=============================================================================
