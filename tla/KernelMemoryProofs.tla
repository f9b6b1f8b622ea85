------------------------- MODULE KernelMemoryProofs -------------------------
(***************************************************************************)
(* Theorems about KernelMemory for every value of its constants.           *)
(*                                                                         *)
(* The first part proves types, the two halves of a segment table, and     *)
(* what may be done while the memory is being compacted.  The second one   *)
(* proves that every byte of the Memory Sticks has exactly one owner: a    *)
(* hole, a segment or an area that a de-suspension has taken.  It follows  *)
(* the bytes, not the areas: free list, segment tables and taken areas are *)
(* read as the sets of addresses they cover, and what each operation does  *)
(* to them is a lemma about one arbitrary address.  From that, the third   *)
(* part proves that what a process wrote stays with its segment, in memory *)
(* and in the SWAP.                                                        *)
(***************************************************************************)
EXTENDS KernelMemory, HuecosProofs, FiniteSetTheorems, WellFoundedInduction

\* What the locals of proceso_dessuspender hold at each of its control points:
\* one base per segment taken so far, and all of them once it restores.
Locales ==
  /\ pc \notin {"dess_asignar", "dess_restaurar"} => bases = <<>> /\ restaurados = 0
  /\ pc = "dess_asignar" => restaurados = 0 /\ Len(bases) <= Len(EnSwap)
  /\ pc = "dess_restaurar" => Len(bases) = Len(EnSwap) /\ restaurados <= Len(bases)

TipoInv == TypeOK /\ Locales

-----------------------------------------------------------------------------
\* memory_stick_localizar returns a connected stick and an offset inside it.
LEMMA LocalizarTipo ==
  ASSUME TypeOK, ConstantesOK, NEW dir, MemoryStickLocalizar(dir) # SinStick
  PROVE  /\ MemoryStickLocalizar(dir).fd \in Sticks
         /\ MemoryStickLocalizar(dir).offset
              \in 0 .. TamStick[MemoryStickLocalizar(dir).fd] - 1
<1> DEFINE ks == {k \in DOMAIN lista_memory_sticks : CaeEn(dir, k) # {}}
           kk == CHOOSE k \in ks : TRUE
           x  == CHOOSE y \in CaeEn(dir, kk) : TRUE
<1>1. ks # {}
  BY DEF MemoryStickLocalizar
<1>2. kk \in DOMAIN lista_memory_sticks /\ CaeEn(dir, kk) # {}
  BY <1>1
<1>3. MemoryStickLocalizar(dir) = [fd |-> lista_memory_sticks[kk], offset |-> x]
  BY <1>1 DEF MemoryStickLocalizar
<1> HIDE DEF ks, kk
<1>4. lista_memory_sticks[kk] \in Sticks
  BY <1>2, ElementOfSeq, LenProperties DEF TypeOK
<1>5. x \in CaeEn(dir, kk)
  BY <1>2
<1>6. x \in 0 .. TamStick[lista_memory_sticks[kk]] - 1
  BY <1>5 DEF CaeEn
<1>7. QED
  BY <1>3, <1>4, <1>6

\* memoria_fisica_leer fills a buffer of t cells.
LEMMA LeerTipo ==
  ASSUME TypeOK, ConstantesOK, NEW dir, NEW t, PuedeAcceder(dir, t)
  PROVE  MemoriaFisicaLeer(dir, t) \in [0 .. t - 1 -> Celda]
<1> SUFFICES ASSUME NEW o \in 0 .. t - 1
             PROVE  ram[MemoryStickLocalizar(dir + o).fd]
                       [MemoryStickLocalizar(dir + o).offset] \in Celda
  BY DEF MemoriaFisicaLeer
<1>1. MemoryStickLocalizar(dir + o) # SinStick
  BY DEF PuedeAcceder, Alcanzable
<1>2. QED
  BY <1>1, LocalizarTipo DEF TypeOK

\* memoria_fisica_escribir leaves every stick a function from its bytes to
\* cells.
LEMMA EscribirTipo ==
  ASSUME TypeOK, NEW dir, NEW t, NEW buf \in [0 .. t - 1 -> Celda], NEW f \in Sticks
  PROVE  MemoriaFisicaEscribir(dir, t, buf)[f] \in [0 .. TamStick[f] - 1 -> Celda]
<1> SUFFICES ASSUME NEW x \in 0 .. TamStick[f] - 1
             PROVE  MemoriaFisicaEscribir(dir, t, buf)[f][x] \in Celda
  BY DEF MemoriaFisicaEscribir
<1> DEFINE os == {o \in 0 .. t - 1 :
                    /\ MemoryStickLocalizar(dir + o) = [fd |-> f, offset |-> x]
                    /\ PuedeAcceder(dir, o + 1)}
<1>1. MemoriaFisicaEscribir(dir, t, buf)[f][x]
        = IF os = {} THEN ram[f][x] ELSE buf[CHOOSE o \in os : TRUE]
  BY DEF MemoriaFisicaEscribir
<1>2. ram[f][x] \in Celda
  BY DEF TypeOK
<1>3. os # {} => (CHOOSE o \in os : TRUE) \in 0 .. t - 1
  OBVIOUS
<1>4. QED
  BY <1>1, <1>2, <1>3

\* swap_escribir_bloque leaves the SWAP a function from blocks to blocks of
\* cells.
LEMMA SwapEscribirTipo ==
  ASSUME TypeOK, ConstantesOK, NEW bs \in SUBSET Bloques, NEW t \in Nat,
         NEW buf \in [0 .. t - 1 -> Celda]
  PROVE  SwapEscribir(bs, t, buf) \in [Bloques -> [0 .. BlockSize - 1 -> Celda]]
<1>1. ASSUME NEW b \in Bloques PROVE Orden(b, bs) \in Nat
  <2>1. IsFiniteSet({c \in bs : c < b})
    <3>1. IsFiniteSet(Bloques)
      BY FS_Interval DEF Bloques, ConstantesOK
    <3>2. QED
      BY <3>1, FS_Subset
  <2>2. QED
    BY <2>1, FS_CardinalityType DEF Orden
<1>2. ASSUME NEW b \in Bloques, b \in bs
      PROVE  [x \in 0 .. BlockSize - 1 |->
                IF Orden(b, bs) * BlockSize + x < t
                THEN buf[Orden(b, bs) * BlockSize + x] ELSE Cero]
              \in [0 .. BlockSize - 1 -> Celda]
  <2>1. ASSUME NEW x \in 0 .. BlockSize - 1, Orden(b, bs) * BlockSize + x < t
        PROVE  buf[Orden(b, bs) * BlockSize + x] \in Celda
    <3>1. Orden(b, bs) * BlockSize \in Nat
      BY <1>1 DEF ConstantesOK
    <3>2. Orden(b, bs) * BlockSize + x \in 0 .. t - 1
      BY <2>1, <3>1 DEF ConstantesOK
    <3>3. QED
      BY <3>2
  <2>2. Cero \in Celda
    BY DEF Cero, Celda
  <2>3. QED
    BY <2>1, <2>2
<1>3. \A b \in Bloques : disco[b] \in [0 .. BlockSize - 1 -> Celda]
  BY DEF TypeOK
<1>4. QED
  BY <1>2, <1>3 DEF SwapEscribir

\* swap_leer_bloque fills a buffer of t cells.
LEMMA SwapLeerTipo ==
  ASSUME TypeOK, ConstantesOK, NEW bs \in SUBSET Bloques, NEW t \in Nat
  PROVE  SwapLeer(bs, t) \in [0 .. t - 1 -> Celda]
<1> SUFFICES ASSUME NEW o \in 0 .. t - 1
             PROVE  SwapLeer(bs, t)[o] \in Celda
  BY DEF SwapLeer
<1> DEFINE hay == \E b \in bs : Orden(b, bs) = o \div BlockSize
           bb == CHOOSE b \in bs : Orden(b, bs) = o \div BlockSize
<1>1. SwapLeer(bs, t)[o] = IF SwapResponde /\ hay THEN disco[bb][o % BlockSize] ELSE Cero
  BY DEF SwapLeer
<1>2. hay => bb \in Bloques
  OBVIOUS
<1>3. o % BlockSize \in 0 .. BlockSize - 1
  BY DEF ConstantesOK
<1>4. Cero \in Celda
  BY DEF Cero, Celda
<1> HIDE DEF hay, bb
<1>5. QED
  BY <1>1, <1>2, <1>3, <1>4 DEF TypeOK

-----------------------------------------------------------------------------
\* The pieces a list operation needs, from the type invariant.
LEMMA TablaTipo ==
  ASSUME TypeOK, NEW p \in Pids
  PROVE  /\ tabla[p] \in Seq(Segmento)
         /\ Len(tabla[p]) \in Nat
         /\ DOMAIN tabla[p] = 1 .. Len(tabla[p])
         /\ \A k \in 1 .. Len(tabla[p]) : tabla[p][k] \in Segmento
<1>1. tabla[p] \in Seq(Segmento)
  BY DEF TypeOK
<1>2. QED
  BY <1>1, LenProperties, ElementOfSeq

\* The same for the segments of a suspended process.
LEMMA SegmentosSwapTipo ==
  ASSUME TypeOK, NEW p \in Pids
  PROVE  /\ segmentos_swap[p] \in Seq(SegmentoSwap)
         /\ Len(segmentos_swap[p]) \in Nat
         /\ DOMAIN segmentos_swap[p] = 1 .. Len(segmentos_swap[p])
         /\ \A k \in 1 .. Len(segmentos_swap[p]) : segmentos_swap[p][k] \in SegmentoSwap
<1>1. segmentos_swap[p] \in Seq(SegmentoSwap)
  BY DEF TypeOK
<1>2. QED
  BY <1>1, LenProperties, ElementOfSeq

\* The holes that the segments of a process leave.
LEMMA HuecosDeTipo ==
  ASSUME TypeOK, NEW p \in Pids
  PROVE  /\ HuecosDe(p) \in Seq(Hueco)
         /\ Len(HuecosDe(p)) = Len(tabla[p])
<1>1. Len(tabla[p]) \in Nat /\ \A k \in 1 .. Len(tabla[p]) : tabla[p][k] \in Segmento
  BY TablaTipo
<1>2. \A k \in 1 .. Len(tabla[p]) :
        [base |-> tabla[p][k].base, tamanio |-> tabla[p][k].limite] \in Hueco
  BY <1>1 DEF Segmento, Hueco
<1>3. HuecosDe(p) \in [1 .. Len(tabla[p]) -> Hueco]
  BY <1>2 DEF HuecosDe
<1>4. QED
  BY <1>1, <1>3, FuncionEsSeq

\* A step of segmento_crear that succeeds.
LEMMA OcuparYAnotarTipo ==
  ASSUME TypeOK, ConstantesOK, NEW p \in Pids, NEW i \in Ids, NEW t \in Nat,
         ResultadoCrear(p, t) = "OK", OcuparYAnotar(p, i, t)
  PROVE  /\ tabla' \in [Pids -> Seq(Segmento)]
         /\ lista_huecos' \in Seq(Hueco)
<1>1. Buscar(t) # SinHueco
  BY DEF ResultadoCrear
<1>2. /\ Buscar(t) \in 1 .. Len(lista_huecos)
      /\ lista_huecos[Buscar(t)].tamanio >= t
  BY <1>1, BuscarHuecoEntra DEF Buscar, TypeOK
<1>3. lista_huecos' \in Seq(Hueco)
  BY <1>2, HuecoOcuparTipo DEF OcuparYAnotar, TypeOK
<1>4. lista_huecos[Buscar(t)] \in Hueco
  BY <1>2, ElementOfSeq DEF TypeOK
<1>5. [id |-> i, base |-> lista_huecos[Buscar(t)].base, limite |-> t, dato |-> Nada]
        \in Segmento
  BY <1>4 DEF Segmento, Hueco
<1>6. Append(tabla[p], [id |-> i, base |-> lista_huecos[Buscar(t)].base,
                        limite |-> t, dato |-> Nada]) \in Seq(Segmento)
  BY <1>5, TablaTipo, AppendProperties
<1>7. tabla' \in [Pids -> Seq(Segmento)]
  BY <1>6 DEF OcuparYAnotar, TypeOK
<1>8. QED
  BY <1>3, <1>7

\* A process writes over one of its segments.
LEMMA EscribirSegmentoTipo ==
  ASSUME TypeOK, ConstantesOK, NEW p \in Pids, NEW k \in DOMAIN tabla[p],
         EscribirSegmento(p, k)
  PROVE  /\ tabla' \in [Pids -> Seq(Segmento)]
         /\ \A f \in Sticks : ram'[f] \in [0 .. TamStick[f] - 1 -> Celda]
<1>1. tabla[p][k] \in Segmento /\ k \in 1 .. Len(tabla[p])
  BY TablaTipo
<1>2. Contenido(p, tabla[p][k].limite) \in [0 .. tabla[p][k].limite - 1 -> Celda]
  BY <1>1 DEF Contenido, Celda, Segmento
<1>3. \A f \in Sticks : ram'[f] \in [0 .. TamStick[f] - 1 -> Celda]
  BY <1>2, EscribirTipo DEF EscribirSegmento
<1>4. [tabla[p][k] EXCEPT !.dato = p] \in Segmento
  BY <1>1 DEF Segmento
<1>5. [tabla[p] EXCEPT ![k].dato = p] \in Seq(Segmento)
  BY <1>1, <1>4, TablaTipo, ExceptSeq
<1>6. tabla' \in [Pids -> Seq(Segmento)]
  BY <1>5 DEF EscribirSegmento, TypeOK
<1>7. QED
  BY <1>3, <1>6

\* Back to recibir_codigo with clean locals.
LEMMA TerminarTipo ==
  ASSUME Terminar
  PROVE  /\ pc' \in Ops /\ pedido' \in Pedido
         /\ pc' = "libre" /\ destino' \in Nat /\ movidos' \subseteq Pids \X Nat
         /\ copia' \in Seq(SegmentoSwap) /\ bases' \in Seq(Nat) /\ restaurados' \in Nat
         /\ Locales'
<1>1. PedidoNulo \in Pedido
  BY DEF PedidoNulo, Pedido
<1>2. QED
  BY <1>1 DEF Terminar, Ops, Locales

-----------------------------------------------------------------------------
\* A step of the thread that serves the KS, the arrival of a request.
LEMMA TipoAtender ==
  ASSUME TipoInv, ConstantesOK, NEW p \in Pids, Atender(p)
  PROVE  TipoInv'
<1> USE DEF TipoInv
<1>1. CASE CrearProceso(p)
  BY <1>1 DEF TypeOK, Locales, EnSwap, CrearProceso, tablas, memVars, swapVars, ksLocals, peers, datos
<1>2. CASE ProcesoLiberarMemoria(p)
  <2>1. lista_huecos \o HuecosDe(p) \in Seq(Hueco)
    BY HuecosDeTipo, ConcatProperties DEF TypeOK
  <2>2. [PedidoNulo EXCEPT !.pid = p] \in Pedido /\ [PedidoNulo EXCEPT !.pid = p].pid = p
    BY DEF PedidoNulo, Pedido
  <2>3. QED
    BY <1>2, <2>1, <2>2 DEF TypeOK, Locales, EnSwap, ProcesoLiberarMemoria, Ops, peers, datos
<1>3. ASSUME NEW i \in Ids, NEW t \in Tamanios, CrearSegmentoOK(p, i, t)
      PROVE  TipoInv'
  <2>1. t \in Nat
    BY DEF ConstantesOK
  <2>2. tabla' \in [Pids -> Seq(Segmento)] /\ lista_huecos' \in Seq(Hueco)
    BY <1>3, <2>1, OcuparYAnotarTipo DEF CrearSegmentoOK
  <2>3. QED
    BY <1>3, <2>2 DEF TypeOK, Locales, EnSwap, CrearSegmentoOK, swapVars, ksLocals, peers, datos
<1>4. ASSUME NEW i \in Ids, NEW t \in Tamanios, CrearSegmentoError(p, i, t)
      PROVE  TipoInv'
  BY <1>4 DEF TypeOK, Locales, EnSwap, CrearSegmentoError, tablas, memVars, swapVars, ksLocals, peers, datos
<1>5. ASSUME NEW i \in Ids, NEW t \in Tamanios, CrearSegmentoCompactar(p, i, t)
      PROVE  TipoInv'
  <2>1. [pid |-> p, id |-> i, tam |-> t] \in Pedido
    BY DEF ConstantesOK, Pedido
  <2>2. QED
    BY <1>5, <2>1 DEF TypeOK, Locales, EnSwap, CrearSegmentoCompactar, Ops, tablas, memVars, swapVars, ksLocals, peers, datos
<1>6. ASSUME NEW i \in Ids, SegmentoEliminar(p, i)
      PROVE  TipoInv'
  <2>1. PICK k \in 1 .. Len(tabla[p]) :
          /\ lista_huecos' = HuecoLiberar(lista_huecos, tabla[p][k].base, tabla[p][k].limite)
          /\ tabla' = [tabla EXCEPT ![p] = RemoveAt(@, k)]
    BY <1>6 DEF SegmentoEliminar
  <2>2. tabla[p][k] \in Segmento
    BY TablaTipo
  <2>3. [base |-> tabla[p][k].base, tamanio |-> tabla[p][k].limite] \in Hueco
    BY <2>2 DEF Segmento, Hueco
  <2>4. lista_huecos' \in Seq(Hueco)
    BY <2>1, <2>3, AppendProperties DEF HuecoLiberar, TypeOK
  <2>5. RemoveAt(tabla[p], k) \in Seq(Segmento)
    BY TablaTipo, RemoveAtElementos
  <2>6. tabla' \in [Pids -> Seq(Segmento)]
    BY <2>1, <2>5 DEF TypeOK
  <2>7. QED
    BY <1>6, <2>4, <2>6 DEF TypeOK, Locales, EnSwap, SegmentoEliminar, swapVars, ksLocals, peers, datos
<1>7. ASSUME NEW i \in Ids, SegmentoEliminarError(p, i)
      PROVE  TipoInv'
  BY <1>7 DEF TypeOK, Locales, EnSwap, SegmentoEliminarError, tablas, memVars, swapVars, ksLocals, peers, datos
<1>8. CASE Suspender(p)
  <2>1. [PedidoNulo EXCEPT !.pid = p] \in Pedido /\ [PedidoNulo EXCEPT !.pid = p].pid = p
    BY DEF PedidoNulo, Pedido
  <2>2. QED
    BY <1>8, <2>1 DEF TypeOK, Locales, EnSwap, Suspender, Ops, tablas, memVars, swapVars, ksLocals, peers, datos
<1>9. CASE Dessuspender(p)
  <2>1. [PedidoNulo EXCEPT !.pid = p] \in Pedido /\ [PedidoNulo EXCEPT !.pid = p].pid = p
    BY DEF PedidoNulo, Pedido
  <2>2. Len(segmentos_swap[p]) \in Nat /\ Len(<<>>) = 0
    BY SegmentosSwapTipo, EmptySeq
  <2>3. CASE p \notin procesos_en_swap
    BY <1>9, <2>3 DEF TypeOK, Locales, EnSwap, Dessuspender, tablas, memVars, swapVars, peers, datos
  <2>4. CASE p \in procesos_en_swap
    <3>1. /\ pc = "libre" /\ bases = <<>> /\ restaurados = 0
          /\ pc' = "dess_asignar" /\ pedido' \in Pedido /\ pedido'.pid = p
          /\ bases' = bases /\ restaurados' = 0 /\ segmentos_swap' = segmentos_swap
      BY <1>9, <2>1, <2>4 DEF Locales, Dessuspender, swapVars
    <3>2. TypeOK'
      BY <1>9, <3>1 DEF TypeOK, Dessuspender, Ops, tablas, memVars, swapVars, peers, datos
    <3>3. Locales'
      BY <2>2, <3>1 DEF Locales, EnSwap
    <3>4. QED
      BY <3>2, <3>3
  <2>5. QED
    BY <2>3, <2>4
<1>10. ASSUME NEW k \in 1 .. MaxSegmentos, EscribirDatos(p, k)
       PROVE  TipoInv'
  <2>1. EscribirSegmento(p, k) /\ k \in DOMAIN tabla[p]
    BY <1>10 DEF EscribirDatos
  <2>2. tabla' \in [Pids -> Seq(Segmento)]
        /\ \A f \in Sticks : ram'[f] \in [0 .. TamStick[f] - 1 -> Celda]
    BY <2>1, EscribirSegmentoTipo
  <2>3. QED
    BY <1>10, <2>2 DEF TypeOK, Locales, EnSwap, EscribirDatos, memVars, swapVars, ksLocals, peers
<1>11. QED
  BY <1>1, <1>2, <1>3, <1>4, <1>5, <1>6, <1>7, <1>8, <1>9, <1>10 DEF Atender

\* A segment compactar still has to place is in the table of a process.
LEMMA SiguienteTipo ==
  ASSUME TypeOK, NEW p, NEW k, Siguiente(p, k)
  PROVE  /\ p \in Pids /\ p \in contextos /\ <<p, k>> \notin movidos
         /\ k \in 1 .. Len(tabla[p]) /\ k \in Nat
         /\ tabla[p][k] \in Segmento
<1>1. <<p, k>> \in Pendientes
  BY DEF Siguiente
<1>2. <<p, k>> \notin movidos /\ p \in contextos /\ k \in DOMAIN tabla[p]
  <2>1. PICK q \in contextos : <<p, k>> \in {<<q, j>> : j \in DOMAIN tabla[q]}
    BY <1>1 DEF Pendientes, Listados
  <2>2. PICK i \in DOMAIN tabla[q] : <<p, k>> = <<q, i>>
    BY <2>1
  <2>3. p = q /\ k = i
    BY <2>2
  <2>4. <<p, k>> \notin movidos
    BY <1>1 DEF Pendientes
  <2>5. QED
    BY <2>3, <2>4
<1>3. p \in Pids
  BY <1>2 DEF TypeOK
<1>4. QED
  BY <1>2, <1>3, TablaTipo

\* A step of the thread that serves the KS, inside a request.
LEMMA TipoContinuar ==
  ASSUME TipoInv, ConstantesOK, Continuar
  PROVE  TipoInv'
<1> USE DEF TipoInv
<1>1. CASE ContextoEliminar
  <2>1. pedido.pid \in Pids
    BY <1>1 DEF ContextoEliminar, TypeOK
  <2>2. QED
    BY <1>1, <2>1, TerminarTipo DEF TypeOK, ContextoEliminar, memVars, swapVars, peers, datos
<1>2. CASE ConfirmacionRecibida
  BY <1>2 DEF TypeOK, Locales, EnSwap, ConfirmacionRecibida, Ops, tablas, memVars, swapVars, ksLocals, peers, datos
<1>3. ASSUME NEW p \in Pids, NEW k \in 1 .. MaxSegmentos, CompactarSegmento(p, k)
      PROVE  TipoInv'
  <2>1. /\ k \in 1 .. Len(tabla[p]) /\ k \in Nat /\ tabla[p][k] \in Segmento
    BY <1>3, SiguienteTipo DEF CompactarSegmento
  <2>2. [tabla[p][k] EXCEPT !.base = destino] \in Segmento
    BY <2>1 DEF Segmento, TypeOK
  <2>3. [tabla[p] EXCEPT ![k].base = destino] \in Seq(Segmento)
    BY <2>1, <2>2, TablaTipo, ExceptSeq
  <2>4. tabla' \in [Pids -> Seq(Segmento)]
    BY <1>3, <2>3 DEF CompactarSegmento, TypeOK
  <2>5. destino' \in Nat
    <3>1. destino' = destino + tabla[p][k].limite /\ destino \in Nat
      BY <1>3 DEF CompactarSegmento, TypeOK
    <3>2. tabla[p][k].limite \in Nat
      BY <2>1 DEF Segmento
    <3>3. QED
      BY <3>1, <3>2
  <2>6. movidos' \subseteq Pids \X Nat
    <3>1. {<<p, k>>} \subseteq Pids \X Nat
      BY <2>1
    <3>2. movidos' = movidos \cup {<<p, k>>} /\ movidos \subseteq Pids \X Nat
      BY <1>3 DEF CompactarSegmento, TypeOK
    <3>3. QED
      BY <3>1, <3>2
  <2>7. \A f \in Sticks : ram'[f] \in [0 .. TamStick[f] - 1 -> Celda]
    <3>1. CASE tabla[p][k].base = destino
      BY <1>3, <3>1 DEF CompactarSegmento, TypeOK
    <3>2. CASE tabla[p][k].base # destino
      <4>1. MemoriaFisicaLeer(tabla[p][k].base, tabla[p][k].limite)
              \in [0 .. tabla[p][k].limite - 1 -> Celda]
        BY <1>3, <3>2, LeerTipo DEF CompactarSegmento
      <4>2. QED
        BY <1>3, <3>2, <4>1, EscribirTipo DEF CompactarSegmento
    <3>3. QED
      BY <3>1, <3>2
  <2>8. QED
    BY <1>3, <2>4, <2>5, <2>6, <2>7
       DEF TypeOK, Locales, EnSwap, CompactarSegmento, memVars, swapVars, peers
<1>4. ASSUME NEW p \in Pids, NEW k \in 1 .. MaxSegmentos, CompactarFalla(p, k)
      PROVE  TipoInv'
  <2>1. \A f \in Sticks : ram'[f] \in [0 .. TamStick[f] - 1 -> Celda]
    <3>1. CASE PuedeAcceder(tabla[p][k].base, tabla[p][k].limite)
      <4>1. MemoriaFisicaLeer(tabla[p][k].base, tabla[p][k].limite)
              \in [0 .. tabla[p][k].limite - 1 -> Celda]
        BY <3>1, LeerTipo
      <4>2. QED
        BY <1>4, <3>1, <4>1, EscribirTipo DEF CompactarFalla
    <3>2. CASE ~ PuedeAcceder(tabla[p][k].base, tabla[p][k].limite)
      BY <1>4, <3>2 DEF CompactarFalla, TypeOK
    <3>3. QED
      BY <3>1, <3>2
  <2>2. QED
    BY <1>4, <2>1 DEF TypeOK, Locales, EnSwap, CompactarFalla, Ops, tablas, memVars, swapVars, ksLocals, peers
<1>5. CASE CompactarFin
  <2>1. lista_huecos' \in Seq(Hueco)
    BY <1>5, HuecosReconstruirTipo DEF CompactarFin, TypeOK
  <2>2. QED
    BY <1>5, <2>1 DEF TypeOK, Locales, EnSwap, CompactarFin, Ops, tablas, swapVars, ksLocals, peers, datos
<1>6. CASE ReintentarCrear
  <2>1. pedido.pid \in Pids /\ pedido.id \in Ids /\ pedido.tam \in Nat
    BY <1>6 DEF ReintentarCrear, TypeOK, Pedido
  <2>2. tabla' \in [Pids -> Seq(Segmento)] /\ lista_huecos' \in Seq(Hueco)
    BY <1>6, <2>1, OcuparYAnotarTipo DEF ReintentarCrear, TypeOK
  <2>3. QED
    BY <1>6, <2>2, TerminarTipo DEF TypeOK, ReintentarCrear, swapVars, peers, datos
<1>7. CASE SuspenderSinCopiar
  <2>1. Terminar
    BY <1>7 DEF SuspenderSinCopiar
  <2>2. QED
    BY <1>7, <2>1, TerminarTipo DEF TypeOK, SuspenderSinCopiar, tablas, memVars, swapVars, peers, datos
<1>8. CASE SuspenderEntrar
  BY <1>8, EmptySeq DEF TypeOK, Locales, EnSwap, SuspenderEntrar, Ops, tablas, memVars, swapVars, ksLocals, peers, datos
<1>9. CASE SuspenderCopiar
  <2> DEFINE bs == PrimerosLibres(CantidadBloques(PorCopiar.limite))
  <2>1. pedido.pid \in Pids
    BY <1>9 DEF SuspenderCopiar, TypeOK
  <2>2. Len(copia) + 1 \in 1 .. Len(tabla[pedido.pid])
    BY <1>9, <2>1, TablaTipo, LenProperties DEF SuspenderCopiar, TypeOK
  <2>3. PorCopiar \in Segmento
    BY <2>1, <2>2, TablaTipo DEF PorCopiar
  <2>4. bs \in SUBSET Bloques
    BY DEF PrimerosLibres, BloquesLibres
  <2> HIDE DEF bs
  <2>5. MemoriaFisicaLeer(PorCopiar.base, PorCopiar.limite)
          \in [0 .. PorCopiar.limite - 1 -> Celda]
    BY <1>9, LeerTipo DEF SuspenderCopiar, CopiaPosible
  <2>6. disco' \in [Bloques -> [0 .. BlockSize - 1 -> Celda]]
    BY <1>9, <2>3, <2>4, <2>5, SwapEscribirTipo DEF SuspenderCopiar, Segmento, bs
  <2>7. [id |-> PorCopiar.id, limite |-> PorCopiar.limite, bloques |-> bs,
         dato |-> PorCopiar.dato] \in SegmentoSwap
    BY <2>3, <2>4 DEF Segmento, SegmentoSwap
  <2>8. copia' \in Seq(SegmentoSwap)
    BY <1>9, <2>7, AppendProperties DEF SuspenderCopiar, TypeOK, bs
  <2>9. swap_bloques_usados' \subseteq Bloques
    BY <1>9, <2>4 DEF SuspenderCopiar, TypeOK, bs
  <2>10. QED
    BY <1>9, <2>6, <2>8, <2>9 DEF TypeOK, Locales, EnSwap, SuspenderCopiar, tablas, memVars, peers
<1>10. CASE SuspenderRollback
  BY <1>10, TerminarTipo DEF TypeOK, SuspenderRollback, tablas, memVars, peers, datos
<1>11. CASE SuspenderLiberar
  <2>1. pedido.pid \in Pids
    BY <1>11 DEF SuspenderLiberar, TypeOK
  <2>2. lista_huecos' \in Seq(Hueco)
    BY <1>11, <2>1, HuecosDeTipo, ConcatProperties DEF SuspenderLiberar, TypeOK
  <2>3. tabla' \in [Pids -> Seq(Segmento)]
    BY <1>11, <2>1, EmptySeq DEF SuspenderLiberar, TypeOK
  <2>4. segmentos_swap' \in [Pids -> Seq(SegmentoSwap)] /\ procesos_en_swap' \subseteq Pids
    BY <1>11, <2>1 DEF SuspenderLiberar, TypeOK
  <2>5. QED
    BY <1>11, <2>2, <2>3, <2>4, TerminarTipo DEF TypeOK, SuspenderLiberar, peers, datos
<1>12. CASE DessAsignar
  <2> DEFINE t == EnSwap[Len(bases) + 1].limite
  <2>1. pedido.pid \in Pids
    BY <1>12 DEF DessAsignar, TypeOK
  <2>2. Len(bases) \in Nat /\ Len(bases) + 1 \in 1 .. Len(EnSwap)
    BY <1>12, <2>1, SegmentosSwapTipo, LenProperties DEF DessAsignar, TypeOK, EnSwap
  <2>3. t \in Nat
    BY <2>1, <2>2, SegmentosSwapTipo DEF EnSwap, SegmentoSwap
  <2>4. Buscar(t) # SinHueco
    BY <1>12 DEF DessAsignar
  <2> HIDE DEF t
  <2>5. /\ Buscar(t) \in 1 .. Len(lista_huecos)
        /\ lista_huecos[Buscar(t)].tamanio >= t
    BY <2>3, <2>4, BuscarHuecoEntra DEF Buscar, TypeOK
  <2>6. lista_huecos[Buscar(t)].base \in Nat
    <3>1. lista_huecos \in Seq(Hueco)
      BY DEF TypeOK
    <3>2. lista_huecos[Buscar(t)] \in Hueco
      BY <2>5, <3>1, ElementOfSeq
    <3>3. QED
      BY <3>2 DEF Hueco
  <2>7. lista_huecos' \in Seq(Hueco)
    <3>1. lista_huecos' = HuecoOcupar(lista_huecos, Buscar(t), t)
      BY <1>12 DEF DessAsignar, t
    <3>2. lista_huecos \in Seq(Hueco)
      BY DEF TypeOK
    <3>3. QED
      BY <2>3, <2>5, <3>1, <3>2, HuecoOcuparTipo
  <2>8. bases' \in Seq(Nat) /\ Len(bases') = Len(bases) + 1
    BY <1>12, <2>6, AppendProperties DEF DessAsignar, TypeOK, t
  <2>9. TypeOK'
    BY <1>12, <2>7, <2>8 DEF TypeOK, DessAsignar, tablas, swapVars, peers, datos
  <2>10. Locales'
    BY <1>12, <2>2, <2>8 DEF Locales, EnSwap, DessAsignar, swapVars
  <2>11. QED
    BY <2>9, <2>10
<1>13. CASE DessRollback
  <2>1. pedido.pid \in Pids /\ Len(bases) \in Nat
    BY <1>13, LenProperties DEF DessRollback, TypeOK
  <2>2. \A j \in 1 .. Len(bases) :
          [base |-> bases[j], tamanio |-> EnSwap[j].limite] \in Hueco
    <3>1. \A j \in 1 .. Len(bases) : bases[j] \in Nat
      BY ElementOfSeq DEF TypeOK
    <3>2. \A j \in 1 .. Len(bases) : EnSwap[j] \in SegmentoSwap
      BY <1>13, <2>1, SegmentosSwapTipo DEF DessRollback, Locales, EnSwap
    <3>3. QED
      BY <3>1, <3>2 DEF Hueco, SegmentoSwap
  <2>3. [j \in 1 .. Len(bases) |-> [base |-> bases[j], tamanio |-> EnSwap[j].limite]]
          \in Seq(Hueco)
    BY <2>1, <2>2, FuncionEsSeq
  <2>4. lista_huecos' \in Seq(Hueco)
    BY <1>13, <2>3, ConcatProperties DEF DessRollback, TypeOK
  <2>5. QED
    BY <1>13, <2>4, TerminarTipo DEF TypeOK, DessRollback, tablas, swapVars, peers, datos
<1>14. CASE DessAsignado
  <2>1. Len(bases) \in Nat
    BY LenProperties DEF TypeOK
  <2>2. QED
    BY <1>14, <2>1 DEF TypeOK, Locales, EnSwap, DessAsignado, Ops, tablas, memVars, swapVars, ksLocals, peers, datos
<1>15. CASE DessRestaurar
  <2> DEFINE ss == EnSwap[restaurados + 1]
             b  == bases[restaurados + 1]
  <2>1. pedido.pid \in Pids
    BY <1>15 DEF DessRestaurar, TypeOK
  <2>2. /\ Len(EnSwap) \in Nat /\ Len(bases) = Len(EnSwap)
        /\ restaurados + 1 \in 1 .. Len(EnSwap)
    BY <1>15, <2>1, SegmentosSwapTipo DEF DessRestaurar, TypeOK, Locales, EnSwap
  <2>3. ss \in SegmentoSwap
    BY <2>1, <2>2, SegmentosSwapTipo DEF EnSwap
  <2>4. b \in Nat
    BY <2>2, ElementOfSeq DEF TypeOK
  <2> HIDE DEF ss, b
  <2>5. SwapLeer(ss.bloques, ss.limite) \in [0 .. ss.limite - 1 -> Celda]
    BY <2>3, SwapLeerTipo DEF SegmentoSwap
  <2>6. \A f \in Sticks : ram'[f] \in [0 .. TamStick[f] - 1 -> Celda]
    BY <1>15, <2>5, EscribirTipo DEF DessRestaurar, ss, b
  <2>7. [id |-> ss.id, base |-> b, limite |-> ss.limite, dato |-> ss.dato] \in Segmento
    BY <2>3, <2>4 DEF Segmento, SegmentoSwap
  <2>8. Append(tabla[pedido.pid],
               [id |-> ss.id, base |-> b, limite |-> ss.limite, dato |-> ss.dato])
          \in Seq(Segmento)
    BY <2>1, <2>7, TablaTipo, AppendProperties
  <2>9. tabla' \in [Pids -> Seq(Segmento)]
    BY <1>15, <2>8 DEF DessRestaurar, TypeOK, ss, b
  <2>10. TypeOK'
    <3>1. /\ swap_bloques_usados' \subseteq swap_bloques_usados
          /\ restaurados' = restaurados + 1
          /\ UNCHANGED <<allocation_best_fit, contextos, lista_huecos,
                         lista_memory_sticks, memoria_total, fd_swap,
                         procesos_en_swap, segmentos_swap, pc, pedido, destino,
                         movidos, copia, bases, stick_estado, swap_estado, disco>>
      BY <1>15 DEF DessRestaurar, memVars, peers
    <3>2. swap_bloques_usados' \subseteq Bloques /\ restaurados' \in Nat
      BY <3>1 DEF TypeOK
    <3>3. QED
      BY <2>6, <2>9, <3>1, <3>2 DEF TypeOK
  <2>11. Locales'
    BY <1>15, <2>2 DEF Locales, EnSwap, DessRestaurar, TypeOK
  <2>12. QED
    BY <2>10, <2>11
<1>16. CASE DessFin
  <2>1. segmentos_swap' \in [Pids -> Seq(SegmentoSwap)]
    BY <1>16, EmptySeq DEF DessFin, TypeOK
  <2>2. QED
    BY <1>16, <2>1, TerminarTipo DEF TypeOK, DessFin, tablas, memVars, peers, datos
<1>17. QED
  BY <1>1, <1>2, <1>3, <1>4, <1>5, <1>6, <1>7, <1>8, <1>9, <1>10, <1>11, <1>12,
     <1>13, <1>14, <1>15, <1>16 DEF Continuar

\* Taking a connection out of the list leaves a list of connections.
LEMMA RemoveFirstTipo ==
  ASSUME NEW S, NEW s \in Seq(S), NEW e
  PROVE  RemoveFirst(s, e) \in Seq(S)
<1>1. CASE \E i \in 1 .. Len(s) : s[i] = e
  <2> DEFINE iguales == {i \in 1 .. Len(s) : s[i] = e}
  <2>1. iguales \subseteq 1 .. Len(s) /\ iguales # {}
    BY <1>1
  <2>2. RemoveFirst(s, e) = RemoveAt(s, Min(iguales))
    BY <1>1, <2>1 DEF RemoveFirst, SelectInSeq
  <2> HIDE DEF iguales
  <2>3. \E x \in iguales : \A y \in iguales : x <= y
    <3>1. iguales \subseteq Nat
      BY <2>1
    <3> DEFINE menor == OpToRel(<, Nat)
    <3>2. IsWellFoundedOn(menor, Nat)
      BY NatLessThanWellFounded
    <3>3. \A x, y \in Nat : x < y => <<x, y>> \in menor
      BY DEF OpToRel
    <3> HIDE DEF menor
    <3>4. PICK x \in iguales : \A y \in iguales : ~ (<<y, x>> \in menor)
      BY <2>1, <3>1, <3>2, WFMin
    <3>5. ASSUME NEW y \in iguales PROVE x <= y
      <4>1. x \in Nat /\ y \in Nat
        BY <3>1
      <4>2. ~ (y < x)
        BY <3>3, <3>4, <4>1
      <4>3. QED
        BY <4>1, <4>2
    <3>6. QED
      BY <3>5
  <2>4. Min(iguales) \in 1 .. Len(s)
    BY <2>1, <2>3 DEF Min
  <2>5. QED
    BY <2>2, <2>4, RemoveAtElementos
<1>2. CASE ~ \E i \in 1 .. Len(s) : s[i] = e
  BY <1>2 DEF RemoveFirst
<1>3. QED
  BY <1>1, <1>2

\* A step of another thread or of a peer.
LEMMA TipoEntorno ==
  ASSUME TipoInv, ConstantesOK, Entorno
  PROVE  TipoInv'
<1> USE DEF TipoInv
<1>1. CASE ConfirmacionRechazada
  BY <1>1, TerminarTipo DEF TypeOK, ConfirmacionRechazada, tablas, memVars, swapVars, peers, datos
<1>2. ASSUME NEW p \in Pids, NEW k \in 1 .. MaxSegmentos, CpuEscribe(p, k)
      PROVE  TipoInv'
  <2>1. EscribirSegmento(p, k) /\ k \in DOMAIN tabla[p]
    BY <1>2 DEF CpuEscribe
  <2>2. tabla' \in [Pids -> Seq(Segmento)]
        /\ \A f \in Sticks : ram'[f] \in [0 .. TamStick[f] - 1 -> Celda]
    BY <2>1, EscribirSegmentoTipo
  <2>3. QED
    BY <1>2, <2>2 DEF TypeOK, Locales, EnSwap, CpuEscribe, memVars, swapVars, ksLocals, peers
<1>3. ASSUME NEW f \in Sticks, MemoryStickAgregar(f)
      PROVE  TipoInv'
  <2>1. TamStick[f] \in Nat
    BY DEF ConstantesOK
  <2>2. lista_huecos' \in Seq(Hueco)
    BY <1>3, <2>1, HuecosExtenderTipo DEF MemoryStickAgregar, TypeOK
  <2>3. lista_memory_sticks' \in Seq(Sticks)
    BY <1>3, AppendProperties DEF MemoryStickAgregar, TypeOK
  <2>4. memoria_total' \in Nat /\ stick_estado' \in [Sticks -> Estados]
    BY <1>3, <2>1 DEF TypeOK, MemoryStickAgregar, Estados
  <2>5. UNCHANGED <<allocation_best_fit, contextos, tabla, fd_swap,
                    swap_bloques_usados, procesos_en_swap, segmentos_swap, pc,
                    ksLocals, swap_estado, ram, disco>>
    BY <1>3 DEF MemoryStickAgregar, tablas, swapVars, datos
  <2>6. TypeOK'
    BY <2>2, <2>3, <2>4, <2>5 DEF TypeOK, ksLocals
  <2>7. Locales'
    BY <2>5 DEF Locales, EnSwap, ksLocals
  <2>8. QED
    BY <2>6, <2>7
<1>4. ASSUME NEW f \in Sticks, StickCae(f)
      PROVE  TipoInv'
  BY <1>4 DEF TypeOK, Locales, EnSwap, StickCae, Estados, tablas, memVars, swapVars, ksLocals, datos
<1>5. ASSUME NEW f \in Sticks, MemoryStickEliminar(f)
      PROVE  TipoInv'
  <2>1. lista_memory_sticks' \in Seq(Sticks)
    BY <1>5, RemoveFirstTipo DEF MemoryStickEliminar, TypeOK
  <2>2. QED
    BY <1>5, <2>1 DEF TypeOK, Locales, EnSwap, MemoryStickEliminar, Estados, tablas, swapVars, ksLocals, datos
<1>6. ASSUME NEW s \in Swaps, SwapRegistrar(s)
      PROVE  TipoInv'
  <2>1. Cero \in Celda
    BY DEF Cero, Celda
  <2>2. disco' \in [Bloques -> [0 .. BlockSize - 1 -> Celda]]
    BY <1>6, <2>1 DEF SwapRegistrar
  <2>3. QED
    BY <1>6, <2>2 DEF TypeOK, Locales, EnSwap, SwapRegistrar, Estados, tablas, memVars, ksLocals
<1>7. ASSUME NEW s \in Swaps, SwapCae(s)
      PROVE  TipoInv'
  BY <1>7 DEF TypeOK, Locales, EnSwap, SwapCae, Estados, tablas, memVars, swapVars, ksLocals, datos
<1>8. ASSUME NEW s \in Swaps, SwapDesregistrar(s)
      PROVE  TipoInv'
  BY <1>8 DEF TypeOK, Locales, EnSwap, SwapDesregistrar, Estados, tablas, memVars, ksLocals, datos
<1>9. QED
  BY <1>1, <1>2, <1>3, <1>4, <1>5, <1>6, <1>7, <1>8 DEF Entorno

\* The Kernel Memory starts with empty lists and a free thread.
LEMMA TipoInicial ==
  ASSUME ConstantesOK, Init
  PROVE  TipoInv
<1>1. Cero \in Celda
  BY DEF Cero, Celda
<1>2. PedidoNulo \in Pedido
  BY DEF PedidoNulo, Pedido
<1>3. \A f \in Sticks : ram[f] \in [0 .. TamStick[f] - 1 -> Celda]
  BY <1>1 DEF Init
<1>4. disco \in [Bloques -> [0 .. BlockSize - 1 -> Celda]]
  BY <1>1 DEF Init
<1>5. TypeOK
  BY <1>2, <1>3, <1>4, EmptySeq DEF TypeOK, Init, ConstantesOK, Ops, Estados
<1>6. Locales
  BY DEF Init, Locales
<1>7. QED
  BY <1>5, <1>6 DEF TipoInv

\* Types and locals together are kept by every step.
THEOREM TipoInvariante == Spec => []TipoInv
<1>1. Init => TipoInv
  BY TipoInicial, ConstantesOK
<1>2. TipoInv /\ [Next]_vars => TipoInv'
  <2> SUFFICES ASSUME TipoInv, [Next]_vars PROVE TipoInv'
    OBVIOUS
  <2>1. CASE UNCHANGED vars
    BY <2>1 DEF TipoInv, TypeOK, Locales, EnSwap, vars, tablas, memVars, swapVars, ksLocals, peers, datos
  <2>2. CASE Next
    BY <2>2, ConstantesOK, TipoAtender, TipoContinuar, TipoEntorno DEF Next
  <2>3. QED
    BY <2>1, <2>2
<1>3. QED
  BY <1>1, <1>2, PTL DEF Spec

\* Type correctness of the Kernel Memory: whatever the requests, the sizes,
\* the strategy and the moments at which sticks and SWAPs come and go, tables,
\* free list, bitmap, stick contents and locals keep their types.  In
\* particular the searches of buscar_hueco never hand hueco_ocupar a hole
\* smaller than the request, which would make an unsigned size wrap around.
THEOREM TipoCorrecto == Spec => []TypeOK
<1>1. TipoInv => TypeOK
  BY DEF TipoInv
<1>2. QED
  BY <1>1, TipoInvariante, PTL

-----------------------------------------------------------------------------
(* The bitmap of the SWAP is exact: BloquesDeSwap holds for every number    *)
(* of processes, segments and blocks.                                       *)
(*                                                                          *)
(* The argument is by ownership.  A block that is marked has one owner, a   *)
(* segment of a suspended process or of the suspension under way; a         *)
(* suspension takes blocks nobody owns, and what is unmarked is unmarked    *)
(* by the owner, so it is nobody else's.                                    *)

\* Segment i of p has come back from the SWAP, and its entry of procesos_en_swap
\* is still there: proceso_dessuspender frees the list at the end.
Volvio(p, i) == pc = "dess_restaurar" /\ p = pedido.pid /\ i <= restaurados

\* Segment i of p, or of the copy under way, owns b.
DuenoEnSwap(b, p, i) ==
  i \in DOMAIN segmentos_swap[p] /\ b \in segmentos_swap[p][i].bloques

DuenoEnCopia(b, i) == i \in DOMAIN copia /\ b \in copia[i].bloques

TieneDueno(b) ==
  \/ \E p \in Pids : \E i \in Nat : DuenoEnSwap(b, p, i) /\ ~ Volvio(p, i)
  \/ \E i \in Nat : DuenoEnCopia(b, i)

UnSoloDueno ==
  \A b \in Bloques :
    /\ \A p, q \in Pids, i, j \in Nat :
         DuenoEnSwap(b, p, i) /\ DuenoEnSwap(b, q, j) => p = q /\ i = j
    /\ \A i, j \in Nat : DuenoEnCopia(b, i) /\ DuenoEnCopia(b, j) => i = j
    /\ \A p \in Pids, i, j \in Nat : ~ (DuenoEnSwap(b, p, i) /\ DuenoEnCopia(b, j))

Exacto == \A b \in Bloques : b \in swap_bloques_usados <=> TieneDueno(b)

\* Only a suspended process has a list in the SWAP, and only a suspension has a
\* copy; the process it copies is not suspended yet.
ListasDelSwap ==
  /\ pc # "susp_copiar" => copia = <<>>
  /\ pc = "susp_copiar" => pedido.pid \notin procesos_en_swap
  /\ \A p \in Pids : p \notin procesos_en_swap => segmentos_swap[p] = <<>>

\* Nothing is suspended before the first SWAP connects.
AntesDelSwap ==
  (\A s \in Swaps : swap_estado[s] = "no") =>
    /\ fd_swap = SinSwap
    /\ procesos_en_swap = {}
    /\ pc \notin {"susp_entrar", "susp_copiar", "dess_asignar", "dess_restaurar"}

BloquesInv ==
  /\ ListasDelSwap
  /\ AntesDelSwap
  /\ UnSoloSwap => UnSoloDueno /\ Exacto

-----------------------------------------------------------------------------
\* A step that leaves alone the SWAP and the locals that own blocks.
LEMMA BloquesQuietos ==
  ASSUME BloquesInv,
         UNCHANGED <<swapVars, pc, pedido, copia, restaurados, swap_estado>>
  PROVE  BloquesInv'
<1>1. \A p, i : Volvio(p, i)' = Volvio(p, i)
  BY DEF Volvio
<1>2. \A b, p, i : DuenoEnSwap(b, p, i)' = DuenoEnSwap(b, p, i)
  BY DEF DuenoEnSwap, swapVars
<1>3. \A b, i : DuenoEnCopia(b, i)' = DuenoEnCopia(b, i)
  BY DEF DuenoEnCopia
<1>4. UnSoloSwap' = UnSoloSwap
  BY DEF UnSoloSwap
<1>5. UnSoloSwap' => UnSoloDueno' /\ Exacto'
  BY <1>1, <1>2, <1>3, <1>4 DEF BloquesInv, UnSoloDueno, Exacto, TieneDueno, swapVars
<1>6. ListasDelSwap'
  BY DEF BloquesInv, ListasDelSwap, swapVars
<1>7. AntesDelSwap'
  BY DEF BloquesInv, AntesDelSwap, swapVars
<1>8. QED
  BY <1>5, <1>6, <1>7 DEF BloquesInv

\* A step to another point of a request that touches no block: there was no copy
\* and there is none, and nothing had come back and nothing has.
LEMMA BloquesSinTocar ==
  ASSUME TypeOK, BloquesInv,
         UNCHANGED <<swapVars, swap_estado>>,
         pc \notin {"susp_copiar", "dess_restaurar"},
         copia' = <<>>,
         pc' = "susp_copiar" => pedido'.pid \notin procesos_en_swap,
         pc' = "dess_restaurar" => restaurados' = 0,
         (\A s \in Swaps : swap_estado[s] = "no") =>
           pc' \notin {"susp_entrar", "susp_copiar", "dess_asignar", "dess_restaurar"}
  PROVE  BloquesInv'
<1>1. copia = <<>>
  BY DEF BloquesInv, ListasDelSwap
<1>2. \A b, i : ~ DuenoEnCopia(b, i) /\ ~ DuenoEnCopia(b, i)'
  BY <1>1 DEF DuenoEnCopia
<1>3. \A b, p, i : DuenoEnSwap(b, p, i)' = DuenoEnSwap(b, p, i)
  BY DEF DuenoEnSwap, swapVars
<1>4. \A b \in Bloques, p \in Pids, i \in Nat :
        DuenoEnSwap(b, p, i) => ~ Volvio(p, i) /\ ~ Volvio(p, i)'
  <2> SUFFICES ASSUME NEW b \in Bloques, NEW p \in Pids, NEW i \in Nat, DuenoEnSwap(b, p, i)
               PROVE  ~ Volvio(p, i) /\ ~ Volvio(p, i)'
    OBVIOUS
  <2>1. segmentos_swap[p] \in Seq(SegmentoSwap)
    BY DEF TypeOK
  <2>2. i \in 1 .. Len(segmentos_swap[p])
    BY <2>1, LenProperties DEF DuenoEnSwap
  <2>3. i >= 1
    BY <2>1, <2>2, LenProperties
  <2>4. QED
    BY <2>3 DEF Volvio
<1>5. UnSoloSwap' = UnSoloSwap
  BY DEF UnSoloSwap
<1>6. swap_bloques_usados' = swap_bloques_usados
  BY DEF swapVars
<1>7. \A b \in Bloques : TieneDueno(b)' <=> TieneDueno(b)
  BY <1>2, <1>3, <1>4 DEF TieneDueno
<1>8. UnSoloDueno => UnSoloDueno'
  BY <1>2, <1>3 DEF UnSoloDueno
<1>9. Exacto => Exacto'
  BY <1>6, <1>7 DEF Exacto
<1>10. ListasDelSwap'
  BY DEF BloquesInv, ListasDelSwap, swapVars
<1>11. AntesDelSwap'
  BY DEF BloquesInv, AntesDelSwap, swapVars
<1>12. QED
  BY <1>5, <1>8, <1>9, <1>10, <1>11 DEF BloquesInv

-----------------------------------------------------------------------------
\* proceso_liberar_memoria: the blocks that are unmarked are the ones the process
\* owned, and those only.
LEMMA BloquesLiberar ==
  ASSUME TypeOK, BloquesInv, NEW p \in Pids, ProcesoLiberarMemoria(p)
  PROVE  BloquesInv'
<1>1. /\ pc = "libre" /\ pc' = "finalizar" /\ copia' = copia
      /\ fd_swap' = fd_swap /\ swap_estado' = swap_estado
      /\ procesos_en_swap' = procesos_en_swap \ {p}
      /\ segmentos_swap' = [segmentos_swap EXCEPT ![p] = <<>>]
      /\ swap_bloques_usados' = swap_bloques_usados \ BloquesDe(segmentos_swap[p])
  BY DEF ProcesoLiberarMemoria, peers
<1>2. copia = <<>> /\ copia' = <<>>
  BY <1>1 DEF BloquesInv, ListasDelSwap
<1>3. \A b, i : ~ DuenoEnCopia(b, i) /\ ~ DuenoEnCopia(b, i)'
  BY <1>2 DEF DuenoEnCopia
<1>4. \A q, i : ~ Volvio(q, i) /\ ~ Volvio(q, i)'
  BY <1>1 DEF Volvio
<1>5. segmentos_swap'[p] = <<>> /\ \A q \in Pids \ {p} : segmentos_swap'[q] = segmentos_swap[q]
  BY <1>1 DEF TypeOK
<1>6. \A b, i : ~ DuenoEnSwap(b, p, i)'
  BY <1>5 DEF DuenoEnSwap
<1>7. \A b, i : \A q \in Pids \ {p} : DuenoEnSwap(b, q, i)' = DuenoEnSwap(b, q, i)
  BY <1>5 DEF DuenoEnSwap
<1>8. \A b : b \in BloquesDe(segmentos_swap[p]) <=> \E i \in Nat : DuenoEnSwap(b, p, i)
  <2>1. segmentos_swap[p] \in Seq(SegmentoSwap)
    BY DEF TypeOK
  <2>2. DOMAIN segmentos_swap[p] \subseteq Nat
    BY <2>1, LenProperties
  <2>3. QED
    BY <2>2 DEF BloquesDe, DuenoEnSwap
<1>9. UnSoloSwap' = UnSoloSwap
  BY <1>1 DEF UnSoloSwap
<1>10. UnSoloDueno => UnSoloDueno'
  BY <1>3, <1>6, <1>7 DEF UnSoloDueno
<1>11. UnSoloDueno /\ Exacto => Exacto'
  <2> SUFFICES ASSUME UnSoloDueno, Exacto, NEW b \in Bloques
               PROVE  b \in swap_bloques_usados' <=> TieneDueno(b)'
    BY DEF Exacto
  <2>1. b \in swap_bloques_usados'
          <=> b \in swap_bloques_usados /\ ~ \E i \in Nat : DuenoEnSwap(b, p, i)
    BY <1>1, <1>8
  <2>2. TieneDueno(b) <=> \E q \in Pids : \E i \in Nat : DuenoEnSwap(b, q, i)
    BY <1>3, <1>4 DEF TieneDueno
  <2>3. TieneDueno(b)' <=> \E q \in Pids \ {p} : \E i \in Nat : DuenoEnSwap(b, q, i)
    BY <1>3, <1>4, <1>6, <1>7 DEF TieneDueno
  <2>4. \A q \in Pids, i, j \in Nat : DuenoEnSwap(b, p, i) /\ DuenoEnSwap(b, q, j) => p = q
    BY DEF UnSoloDueno
  <2>5. b \in swap_bloques_usados <=> TieneDueno(b)
    BY DEF Exacto
  <2>6. QED
    BY <2>1, <2>2, <2>3, <2>4, <2>5
<1>12. ListasDelSwap'
  BY <1>1, <1>2, <1>5 DEF BloquesInv, ListasDelSwap
<1>13. AntesDelSwap'
  BY <1>1 DEF BloquesInv, AntesDelSwap
<1>14. QED
  BY <1>9, <1>10, <1>11, <1>12, <1>13 DEF BloquesInv

-----------------------------------------------------------------------------
\* proceso_suspender, one segment: the blocks that are marked were free, so they
\* had no owner, and the new segment of the copy is the only one they have.
LEMMA BloquesCopiar ==
  ASSUME TypeOK, BloquesInv, SuspenderCopiar
  PROVE  BloquesInv'
<1> DEFINE bs == PrimerosLibres(CantidadBloques(PorCopiar.limite))
           nuevo == [id |-> PorCopiar.id, limite |-> PorCopiar.limite,
                     bloques |-> bs, dato |-> PorCopiar.dato]
           n == Len(copia) + 1
<1>1. /\ pc = "susp_copiar" /\ pc' = pc /\ pedido' = pedido
      /\ fd_swap' = fd_swap /\ swap_estado' = swap_estado
      /\ procesos_en_swap' = procesos_en_swap /\ segmentos_swap' = segmentos_swap
      /\ swap_bloques_usados' = swap_bloques_usados \cup bs
      /\ copia' = Append(copia, nuevo)
  BY DEF SuspenderCopiar, peers
<1>2. \A b \in bs : b \in Bloques /\ b \notin swap_bloques_usados
  BY DEF PrimerosLibres, BloquesLibres
<1> HIDE DEF bs
<1>3. copia \in Seq(SegmentoSwap) /\ Len(copia) \in Nat
  BY LenProperties DEF TypeOK
<1>4. DOMAIN copia = 1 .. Len(copia) /\ DOMAIN copia' = 1 .. n
  BY <1>1, <1>3, LenProperties, AppendProperties
<1>5. copia'[n] = nuevo /\ \A i \in 1 .. Len(copia) : copia'[i] = copia[i]
  BY <1>1, <1>3, AppendProperties
<1>6. nuevo.bloques = bs
  OBVIOUS
<1> HIDE DEF nuevo
<1>7. \A b : \A i \in Nat :
        DuenoEnCopia(b, i)' <=> DuenoEnCopia(b, i) \/ (i = n /\ b \in bs)
  <2> SUFFICES ASSUME NEW b, NEW i \in Nat
               PROVE  DuenoEnCopia(b, i)' <=> DuenoEnCopia(b, i) \/ (i = n /\ b \in bs)
    OBVIOUS
  <2>1. CASE i = n
    BY <2>1, <1>3, <1>4, <1>5, <1>6 DEF DuenoEnCopia
  <2>2. CASE i # n
    BY <2>2, <1>3, <1>4, <1>5 DEF DuenoEnCopia
  <2>3. QED
    BY <2>1, <2>2
<1>8. n \in Nat
  BY <1>3
<1> HIDE DEF n
<1>9. \A p, i : ~ Volvio(p, i) /\ ~ Volvio(p, i)'
  BY <1>1 DEF Volvio
<1>10. \A b, p, i : DuenoEnSwap(b, p, i)' = DuenoEnSwap(b, p, i)
  BY <1>1 DEF DuenoEnSwap
<1>11. Exacto => \A b \in bs : ~ TieneDueno(b)
  BY <1>2 DEF Exacto
<1>12. UnSoloSwap' = UnSoloSwap
  BY <1>1 DEF UnSoloSwap
<1>13. UnSoloDueno /\ Exacto => UnSoloDueno'
  <2> SUFFICES ASSUME UnSoloDueno, Exacto, NEW b \in Bloques
               PROVE  /\ \A p, q \in Pids, i, j \in Nat :
                           DuenoEnSwap(b, p, i)' /\ DuenoEnSwap(b, q, j)' => p = q /\ i = j
                      /\ \A i, j \in Nat : DuenoEnCopia(b, i)' /\ DuenoEnCopia(b, j)' => i = j
                      /\ \A p \in Pids, i, j \in Nat : ~ (DuenoEnSwap(b, p, i)' /\ DuenoEnCopia(b, j)')
    BY DEF UnSoloDueno
  <2>1. b \in bs => /\ \A p \in Pids, i \in Nat : ~ DuenoEnSwap(b, p, i)
                    /\ \A i \in Nat : ~ DuenoEnCopia(b, i)
    BY <1>9, <1>11 DEF TieneDueno
  <2>2. /\ \A p, q \in Pids, i, j \in Nat :
             DuenoEnSwap(b, p, i) /\ DuenoEnSwap(b, q, j) => p = q /\ i = j
        /\ \A i, j \in Nat : DuenoEnCopia(b, i) /\ DuenoEnCopia(b, j) => i = j
        /\ \A p \in Pids, i, j \in Nat : ~ (DuenoEnSwap(b, p, i) /\ DuenoEnCopia(b, j))
    BY DEF UnSoloDueno
  <2>3. \A i \in Nat : DuenoEnCopia(b, i)' <=> DuenoEnCopia(b, i) \/ (i = n /\ b \in bs)
    BY <1>7
  <2>4. \A p, i : DuenoEnSwap(b, p, i)' = DuenoEnSwap(b, p, i)
    BY <1>10
  <2>5. QED
    BY <2>1, <2>2, <2>3, <2>4
<1>14. Exacto => Exacto'
  <2> SUFFICES ASSUME Exacto, NEW b \in Bloques
               PROVE  b \in swap_bloques_usados' <=> TieneDueno(b)'
    BY DEF Exacto
  <2>1. TieneDueno(b)' <=> TieneDueno(b) \/ b \in bs
    BY <1>7, <1>8, <1>9, <1>10 DEF TieneDueno
  <2>2. QED
    BY <2>1, <1>1 DEF Exacto
<1>15. ListasDelSwap'
  BY <1>1 DEF BloquesInv, ListasDelSwap
<1>16. AntesDelSwap'
  BY <1>1 DEF BloquesInv, AntesDelSwap
<1>17. QED
  BY <1>12, <1>13, <1>14, <1>15, <1>16 DEF BloquesInv

\* Blocks of the copy under way, by owner.
LEMMA BloquesDeCopia ==
  ASSUME TypeOK
  PROVE  \A b : b \in BloquesDe(copia) <=> \E i \in Nat : DuenoEnCopia(b, i)
<1>1. copia \in Seq(SegmentoSwap)
  BY DEF TypeOK
<1>2. DOMAIN copia \subseteq Nat
  BY <1>1, LenProperties
<1>3. QED
  BY <1>2 DEF BloquesDe, DuenoEnCopia

\* proceso_suspender fails: what is unmarked was owned by the copy only.
LEMMA BloquesRollback ==
  ASSUME TypeOK, BloquesInv, SuspenderRollback
  PROVE  BloquesInv'
<1>1. /\ pc = "susp_copiar" /\ pc' = "libre" /\ copia' = <<>>
      /\ fd_swap' = fd_swap /\ swap_estado' = swap_estado
      /\ procesos_en_swap' = procesos_en_swap /\ segmentos_swap' = segmentos_swap
      /\ swap_bloques_usados' = swap_bloques_usados \ BloquesDe(copia)
  BY DEF SuspenderRollback, Terminar, peers
<1>2. \A b, i : ~ DuenoEnCopia(b, i)'
  BY <1>1 DEF DuenoEnCopia
<1>3. \A b, p, i : DuenoEnSwap(b, p, i)' = DuenoEnSwap(b, p, i)
  BY <1>1 DEF DuenoEnSwap
<1>4. \A p, i : ~ Volvio(p, i) /\ ~ Volvio(p, i)'
  BY <1>1 DEF Volvio
<1>5. UnSoloSwap' = UnSoloSwap
  BY <1>1 DEF UnSoloSwap
<1>6. UnSoloDueno => UnSoloDueno'
  BY <1>2, <1>3 DEF UnSoloDueno
<1>7. UnSoloDueno /\ Exacto => Exacto'
  <2> SUFFICES ASSUME UnSoloDueno, Exacto, NEW b \in Bloques
               PROVE  b \in swap_bloques_usados' <=> TieneDueno(b)'
    BY DEF Exacto
  <2>1. b \in swap_bloques_usados'
          <=> b \in swap_bloques_usados /\ ~ \E i \in Nat : DuenoEnCopia(b, i)
    BY <1>1, BloquesDeCopia
  <2>2. TieneDueno(b)' <=> \E p \in Pids : \E i \in Nat : DuenoEnSwap(b, p, i)
    BY <1>2, <1>3, <1>4 DEF TieneDueno
  <2>3. TieneDueno(b) <=> \/ \E p \in Pids : \E i \in Nat : DuenoEnSwap(b, p, i)
                          \/ \E i \in Nat : DuenoEnCopia(b, i)
    BY <1>4 DEF TieneDueno
  <2>4. \A p \in Pids, i, j \in Nat : ~ (DuenoEnSwap(b, p, i) /\ DuenoEnCopia(b, j))
    BY DEF UnSoloDueno
  <2>5. b \in swap_bloques_usados <=> TieneDueno(b)
    BY DEF Exacto
  <2>6. QED
    BY <2>1, <2>2, <2>3, <2>4, <2>5
<1>8. ListasDelSwap'
  BY <1>1 DEF BloquesInv, ListasDelSwap
<1>9. AntesDelSwap'
  BY <1>1 DEF BloquesInv, AntesDelSwap
<1>10. QED
  BY <1>5, <1>6, <1>7, <1>8, <1>9 DEF BloquesInv

\* proceso_suspender ends: the copy becomes the list of the process, which had
\* none.
LEMMA BloquesLiberarRam ==
  ASSUME TypeOK, BloquesInv, SuspenderLiberar, NEW r \in Pids, r = pedido.pid
  PROVE  BloquesInv'
<1>1. /\ pc = "susp_copiar" /\ pc' = "libre" /\ copia' = <<>>
      /\ fd_swap' = fd_swap /\ swap_estado' = swap_estado
      /\ procesos_en_swap' = procesos_en_swap \cup {r}
      /\ segmentos_swap' = [segmentos_swap EXCEPT ![r] = copia]
      /\ swap_bloques_usados' = swap_bloques_usados
  BY DEF SuspenderLiberar, Terminar, peers
<1>2. segmentos_swap[r] = <<>>
  BY <1>1 DEF BloquesInv, ListasDelSwap
<1>3. segmentos_swap'[r] = copia /\ \A q \in Pids \ {r} : segmentos_swap'[q] = segmentos_swap[q]
  BY <1>1 DEF TypeOK
<1>4. \A b, i : ~ DuenoEnSwap(b, r, i)
  BY <1>2 DEF DuenoEnSwap
<1>5. \A b, i : DuenoEnSwap(b, r, i)' = DuenoEnCopia(b, i)
  BY <1>3 DEF DuenoEnSwap, DuenoEnCopia
<1>6. \A b, i : \A q \in Pids \ {r} : DuenoEnSwap(b, q, i)' = DuenoEnSwap(b, q, i)
  BY <1>3 DEF DuenoEnSwap
<1>7. \A b, i : ~ DuenoEnCopia(b, i)'
  BY <1>1 DEF DuenoEnCopia
<1>8. \A p, i : ~ Volvio(p, i) /\ ~ Volvio(p, i)'
  BY <1>1 DEF Volvio
<1>9. UnSoloSwap' = UnSoloSwap
  BY <1>1 DEF UnSoloSwap
<1>10. UnSoloDueno => UnSoloDueno'
  <2> SUFFICES ASSUME UnSoloDueno, NEW b \in Bloques
               PROVE  /\ \A p, q \in Pids, i, j \in Nat :
                           DuenoEnSwap(b, p, i)' /\ DuenoEnSwap(b, q, j)' => p = q /\ i = j
                      /\ \A i, j \in Nat : DuenoEnCopia(b, i)' /\ DuenoEnCopia(b, j)' => i = j
                      /\ \A p \in Pids, i, j \in Nat : ~ (DuenoEnSwap(b, p, i)' /\ DuenoEnCopia(b, j)')
    BY DEF UnSoloDueno
  <2>1. /\ \A p, q \in Pids, i, j \in Nat :
             DuenoEnSwap(b, p, i) /\ DuenoEnSwap(b, q, j) => p = q /\ i = j
        /\ \A i, j \in Nat : DuenoEnCopia(b, i) /\ DuenoEnCopia(b, j) => i = j
        /\ \A p \in Pids, i, j \in Nat : ~ (DuenoEnSwap(b, p, i) /\ DuenoEnCopia(b, j))
    BY DEF UnSoloDueno
  <2>2. \A i : /\ DuenoEnSwap(b, r, i)' = DuenoEnCopia(b, i)
              /\ \A q \in Pids \ {r} : DuenoEnSwap(b, q, i)' = DuenoEnSwap(b, q, i)
    BY <1>5, <1>6
  <2>3. ASSUME NEW p \in Pids, NEW q \in Pids, NEW i \in Nat, NEW j \in Nat,
               DuenoEnSwap(b, p, i)', DuenoEnSwap(b, q, j)'
        PROVE  p = q /\ i = j
    <3>1. CASE p = r /\ q = r
      BY <2>1, <2>2, <2>3, <3>1
    <3>2. CASE p = r /\ q # r
      BY <2>1, <2>2, <2>3, <3>2
    <3>3. CASE p # r /\ q = r
      BY <2>1, <2>2, <2>3, <3>3
    <3>4. CASE p # r /\ q # r
      BY <2>1, <2>2, <2>3, <3>4
    <3>5. QED
      BY <3>1, <3>2, <3>3, <3>4
  <2>4. QED
    BY <2>3, <1>7
<1>11. \A b \in Bloques : TieneDueno(b)' <=> TieneDueno(b)
  BY <1>4, <1>5, <1>6, <1>7, <1>8 DEF TieneDueno
<1>12. Exacto => Exacto'
  BY <1>1, <1>11 DEF Exacto
<1>13. ListasDelSwap'
  BY <1>1, <1>3 DEF BloquesInv, ListasDelSwap
<1>14. AntesDelSwap'
  BY <1>1 DEF BloquesInv, AntesDelSwap
<1>15. QED
  BY <1>9, <1>10, <1>12, <1>13, <1>14 DEF BloquesInv

-----------------------------------------------------------------------------
\* proceso_dessuspender, one segment: the blocks that are unmarked were owned by
\* that segment only, and it has come back.
LEMMA BloquesRestaurar ==
  ASSUME TypeOK, BloquesInv, DessRestaurar, NEW r \in Pids, r = pedido.pid,
         NEW n \in Nat, n = restaurados + 1
  PROVE  BloquesInv'
<1>1. /\ pc = "dess_restaurar" /\ pc' = pc /\ pedido' = pedido /\ copia' = copia
      /\ fd_swap' = fd_swap /\ swap_estado' = swap_estado
      /\ procesos_en_swap' = procesos_en_swap /\ segmentos_swap' = segmentos_swap
      /\ restaurados' = n /\ restaurados \in Nat
      /\ swap_bloques_usados' = swap_bloques_usados \ segmentos_swap[r][n].bloques
  BY DEF DessRestaurar, EnSwap, peers, TypeOK
<1>2. n \in DOMAIN segmentos_swap[r]
  BY SegmentosSwapTipo DEF DessRestaurar, EnSwap, TypeOK
<1>3. \A b : b \in segmentos_swap[r][n].bloques <=> DuenoEnSwap(b, r, n)
  BY <1>2 DEF DuenoEnSwap
<1>4. copia = <<>> /\ copia' = <<>>
  BY <1>1 DEF BloquesInv, ListasDelSwap
<1>5. \A b, i : ~ DuenoEnCopia(b, i) /\ ~ DuenoEnCopia(b, i)'
  BY <1>4 DEF DuenoEnCopia
<1>6. \A b, p, i : DuenoEnSwap(b, p, i)' = DuenoEnSwap(b, p, i)
  BY <1>1 DEF DuenoEnSwap
<1>7. \A p : \A i \in Nat : Volvio(p, i)' <=> Volvio(p, i) \/ (p = r /\ i = n)
  BY <1>1 DEF Volvio
<1>8. ~ Volvio(r, n)
  BY <1>1 DEF Volvio
<1>9. UnSoloSwap' = UnSoloSwap
  BY <1>1 DEF UnSoloSwap
<1>10. UnSoloDueno => UnSoloDueno'
  BY <1>5, <1>6 DEF UnSoloDueno
<1>11. UnSoloDueno /\ Exacto => Exacto'
  <2> SUFFICES ASSUME UnSoloDueno, Exacto, NEW b \in Bloques
               PROVE  b \in swap_bloques_usados' <=> TieneDueno(b)'
    BY DEF Exacto
  <2>1. b \in swap_bloques_usados' <=> b \in swap_bloques_usados /\ ~ DuenoEnSwap(b, r, n)
    BY <1>1, <1>3
  <2>2. TieneDueno(b) <=> \E p \in Pids : \E i \in Nat : DuenoEnSwap(b, p, i) /\ ~ Volvio(p, i)
    BY <1>5 DEF TieneDueno
  <2>3. TieneDueno(b)' <=> \E p \in Pids : \E i \in Nat :
                             DuenoEnSwap(b, p, i) /\ ~ Volvio(p, i) /\ ~ (p = r /\ i = n)
    BY <1>5, <1>6, <1>7 DEF TieneDueno
  <2>4. \A p \in Pids, i \in Nat :
          DuenoEnSwap(b, r, n) /\ DuenoEnSwap(b, p, i) => p = r /\ i = n
    BY DEF UnSoloDueno
  <2>5. b \in swap_bloques_usados <=> TieneDueno(b)
    BY DEF Exacto
  <2>6. QED
    BY <2>1, <2>2, <2>3, <2>4, <2>5
<1>12. ListasDelSwap'
  BY <1>1 DEF BloquesInv, ListasDelSwap
<1>13. AntesDelSwap'
  BY <1>1 DEF BloquesInv, AntesDelSwap
<1>14. QED
  BY <1>9, <1>10, <1>11, <1>12, <1>13 DEF BloquesInv

\* proceso_dessuspender ends: every segment of the list that is freed has come
\* back.
LEMMA BloquesDessFin ==
  ASSUME TypeOK, BloquesInv, DessFin, NEW r \in Pids, r = pedido.pid
  PROVE  BloquesInv'
<1>1. /\ pc = "dess_restaurar" /\ pc' = "libre" /\ copia' = <<>>
      /\ fd_swap' = fd_swap /\ swap_estado' = swap_estado
      /\ procesos_en_swap' = procesos_en_swap \ {r}
      /\ segmentos_swap' = [segmentos_swap EXCEPT ![r] = <<>>]
      /\ swap_bloques_usados' = swap_bloques_usados
      /\ restaurados = Len(segmentos_swap[r])
  BY DEF DessFin, Terminar, EnSwap, peers
<1>2. copia = <<>>
  BY <1>1 DEF BloquesInv, ListasDelSwap
<1>3. \A b, i : ~ DuenoEnCopia(b, i) /\ ~ DuenoEnCopia(b, i)'
  BY <1>1, <1>2 DEF DuenoEnCopia
<1>4. segmentos_swap'[r] = <<>> /\ \A q \in Pids \ {r} : segmentos_swap'[q] = segmentos_swap[q]
  BY <1>1 DEF TypeOK
<1>5. \A b, i : ~ DuenoEnSwap(b, r, i)'
  BY <1>4 DEF DuenoEnSwap
<1>6. \A b, i : \A q \in Pids \ {r} : DuenoEnSwap(b, q, i)' = DuenoEnSwap(b, q, i)
  BY <1>4 DEF DuenoEnSwap
<1>7. \A b, i : DuenoEnSwap(b, r, i) => Volvio(r, i)
  BY <1>1, SegmentosSwapTipo DEF DuenoEnSwap, Volvio
<1>8. \A q, i : ~ Volvio(q, i)' /\ (q # r => ~ Volvio(q, i))
  BY <1>1 DEF Volvio
<1>9. UnSoloSwap' = UnSoloSwap
  BY <1>1 DEF UnSoloSwap
<1>10. UnSoloDueno => UnSoloDueno'
  BY <1>3, <1>5, <1>6 DEF UnSoloDueno
<1>11. \A b \in Bloques : TieneDueno(b)' <=> TieneDueno(b)
  <2> SUFFICES ASSUME NEW b \in Bloques PROVE TieneDueno(b)' <=> TieneDueno(b)
    OBVIOUS
  <2>1. TieneDueno(b) <=> \E q \in Pids \ {r} : \E i \in Nat : DuenoEnSwap(b, q, i)
    BY <1>3, <1>7, <1>8 DEF TieneDueno
  <2>2. TieneDueno(b)' <=> \E q \in Pids \ {r} : \E i \in Nat : DuenoEnSwap(b, q, i)
    BY <1>3, <1>5, <1>6, <1>8 DEF TieneDueno
  <2>3. QED
    BY <2>1, <2>2
<1>12. Exacto => Exacto'
  BY <1>1, <1>11 DEF Exacto
<1>13. ListasDelSwap'
  BY <1>1, <1>4 DEF BloquesInv, ListasDelSwap
<1>14. AntesDelSwap'
  BY <1>1 DEF BloquesInv, AntesDelSwap
<1>15. QED
  BY <1>9, <1>10, <1>12, <1>13, <1>14 DEF BloquesInv

-----------------------------------------------------------------------------
\* swap_registrar clears the bitmap: if it is the first SWAP, nothing was
\* suspended, and if it is not, nothing is promised.
LEMMA BloquesRegistrar ==
  ASSUME TypeOK, BloquesInv, NEW s \in Swaps, SwapRegistrar(s)
  PROVE  BloquesInv'
<1>1. /\ pc \notin {"susp_copiar", "dess_restaurar"} /\ pc' = pc
      /\ pedido' = pedido /\ copia' = copia
      /\ swap_estado[s] = "no" /\ swap_estado' = [swap_estado EXCEPT ![s] = "vivo"]
      /\ procesos_en_swap' = procesos_en_swap /\ segmentos_swap' = segmentos_swap
      /\ swap_bloques_usados' = {}
  BY DEF SwapRegistrar, MutexContextosLibre, ksLocals
<1>2. swap_estado'[s] = "vivo" /\ \A t \in Swaps \ {s} : swap_estado'[t] = swap_estado[t]
  BY <1>1 DEF TypeOK
<1>3. UnSoloSwap' => \A t \in Swaps : swap_estado[t] = "no"
  BY <1>1, <1>2 DEF UnSoloSwap
<1>4. UnSoloSwap' => \A p \in Pids : segmentos_swap'[p] = <<>>
  BY <1>1, <1>3 DEF BloquesInv, AntesDelSwap, ListasDelSwap
<1>5. copia' = <<>>
  BY <1>1 DEF BloquesInv, ListasDelSwap
<1>6. \A b, i : ~ DuenoEnCopia(b, i)'
  BY <1>5 DEF DuenoEnCopia
<1>7. UnSoloSwap' => \A b, i : \A p \in Pids : ~ DuenoEnSwap(b, p, i)'
  BY <1>4 DEF DuenoEnSwap
<1>8. UnSoloSwap' => UnSoloDueno'
  BY <1>6, <1>7 DEF UnSoloDueno
<1>9. UnSoloSwap' => Exacto'
  BY <1>1, <1>6, <1>7 DEF Exacto, TieneDueno
<1>10. ListasDelSwap'
  BY <1>1 DEF BloquesInv, ListasDelSwap
<1>11. AntesDelSwap'
  BY <1>2 DEF AntesDelSwap
<1>12. QED
  BY <1>8, <1>9, <1>10, <1>11 DEF BloquesInv

\* A SWAP goes away: the bitmap and the lists stay as they are.
LEMMA BloquesSwapSeVa ==
  ASSUME TypeOK, BloquesInv, NEW s \in Swaps, SwapCae(s) \/ SwapDesregistrar(s)
  PROVE  BloquesInv'
<1>1. /\ pc' = pc /\ pedido' = pedido /\ copia' = copia /\ restaurados' = restaurados
      /\ procesos_en_swap' = procesos_en_swap /\ segmentos_swap' = segmentos_swap
      /\ swap_bloques_usados' = swap_bloques_usados
  BY DEF SwapCae, SwapDesregistrar, ksLocals, swapVars
<1>2. /\ swap_estado[s] # "no" /\ swap_estado'[s] # "no"
      /\ \A t \in Swaps \ {s} : swap_estado'[t] = swap_estado[t]
  BY DEF SwapCae, SwapDesregistrar, TypeOK
<1>3. UnSoloSwap' => UnSoloSwap
  BY <1>2 DEF UnSoloSwap
<1>4. \A p, i : Volvio(p, i)' = Volvio(p, i)
  BY <1>1 DEF Volvio
<1>5. \A b, p, i : DuenoEnSwap(b, p, i)' = DuenoEnSwap(b, p, i)
  BY <1>1 DEF DuenoEnSwap
<1>6. \A b, i : DuenoEnCopia(b, i)' = DuenoEnCopia(b, i)
  BY <1>1 DEF DuenoEnCopia
<1>7. UnSoloDueno => UnSoloDueno'
  BY <1>5, <1>6 DEF UnSoloDueno
<1>8. Exacto => Exacto'
  BY <1>1, <1>4, <1>5, <1>6 DEF Exacto, TieneDueno
<1>9. ListasDelSwap'
  BY <1>1 DEF BloquesInv, ListasDelSwap
<1>10. AntesDelSwap'
  BY <1>2 DEF AntesDelSwap
<1>11. QED
  BY <1>3, <1>7, <1>8, <1>9, <1>10 DEF BloquesInv

-----------------------------------------------------------------------------
\* The arrival of a request of the KS.
LEMMA BloquesAtender ==
  ASSUME TypeOK, BloquesInv, NEW p \in Pids, Atender(p)
  PROVE  BloquesInv'
<1>1. CASE CrearProceso(p)
  BY <1>1, BloquesQuietos DEF CrearProceso, ksLocals, peers
<1>2. CASE ProcesoLiberarMemoria(p)
  BY <1>2, BloquesLiberar
<1>3. ASSUME NEW i \in Ids, NEW t \in Tamanios,
             CrearSegmentoOK(p, i, t) \/ CrearSegmentoError(p, i, t)
      PROVE  BloquesInv'
  BY <1>3, BloquesQuietos DEF CrearSegmentoOK, CrearSegmentoError, ksLocals, peers
<1>4. ASSUME NEW i \in Ids, NEW t \in Tamanios, CrearSegmentoCompactar(p, i, t)
      PROVE  BloquesInv'
  <2>1. pc = "libre" /\ pc' = "confirmar" /\ copia' = copia
        /\ UNCHANGED <<swapVars, swap_estado>>
    BY <1>4 DEF CrearSegmentoCompactar, peers
  <2>2. copia' = <<>>
    BY <2>1 DEF BloquesInv, ListasDelSwap
  <2>3. QED
    BY <2>1, <2>2, BloquesSinTocar
<1>5. ASSUME NEW i \in Ids, SegmentoEliminar(p, i) \/ SegmentoEliminarError(p, i)
      PROVE  BloquesInv'
  BY <1>5, BloquesQuietos DEF SegmentoEliminar, SegmentoEliminarError, ksLocals, peers
<1>6. CASE Suspender(p)
  <2>1. CASE fd_swap = SinSwap
    BY <1>6, <2>1, BloquesQuietos DEF Suspender, peers
  <2>2. CASE fd_swap # SinSwap
    <3>1. pc = "libre" /\ pc' = "susp_entrar" /\ copia' = copia
          /\ UNCHANGED <<swapVars, swap_estado>>
      BY <1>6, <2>2 DEF Suspender, peers
    <3>2. copia' = <<>> /\ ~ \A s \in Swaps : swap_estado[s] = "no"
      BY <3>1, <2>2 DEF BloquesInv, ListasDelSwap, AntesDelSwap
    <3>3. QED
      BY <3>1, <3>2, BloquesSinTocar
  <2>3. QED
    BY <2>1, <2>2
<1>7. CASE Dessuspender(p)
  <2>1. CASE p \notin procesos_en_swap
    BY <1>7, <2>1, BloquesQuietos DEF Dessuspender, peers
  <2>2. CASE p \in procesos_en_swap
    <3>1. pc = "libre" /\ pc' = "dess_asignar" /\ copia' = copia
          /\ UNCHANGED <<swapVars, swap_estado>>
      BY <1>7, <2>2 DEF Dessuspender, peers
    <3>2. copia' = <<>> /\ ~ \A s \in Swaps : swap_estado[s] = "no"
      BY <3>1, <2>2 DEF BloquesInv, ListasDelSwap, AntesDelSwap
    <3>3. QED
      BY <3>1, <3>2, BloquesSinTocar
  <2>3. QED
    BY <2>1, <2>2
<1>8. ASSUME NEW k \in 1 .. MaxSegmentos, EscribirDatos(p, k)
      PROVE  BloquesInv'
  BY <1>8, BloquesQuietos DEF EscribirDatos, ksLocals, peers
<1>9. QED
  BY <1>1, <1>2, <1>3, <1>4, <1>5, <1>6, <1>7, <1>8 DEF Atender

\* A step of the thread that serves the KS, inside a request.
LEMMA BloquesContinuar ==
  ASSUME TypeOK, BloquesInv, Continuar
  PROVE  BloquesInv'
<1>1. CASE \/ ContextoEliminar \/ SuspenderSinCopiar \/ ReintentarCrear \/ DessRollback
  <2>1. pc \notin {"susp_copiar", "dess_restaurar"} /\ Terminar
        /\ UNCHANGED <<swapVars, swap_estado>>
    BY <1>1 DEF ContextoEliminar, SuspenderSinCopiar, ReintentarCrear, DessRollback, peers
  <2>2. QED
    BY <2>1, BloquesSinTocar DEF Terminar
<1>2. CASE ConfirmacionRecibida \/ CompactarFin
  <2>1. pc \in {"confirmar", "compactar"} /\ pc' \in {"compactar", "reintentar"}
        /\ copia' = copia /\ UNCHANGED <<swapVars, swap_estado>>
    BY <1>2 DEF ConfirmacionRecibida, CompactarFin, ksLocals, peers
  <2>2. copia' = <<>>
    BY <2>1 DEF BloquesInv, ListasDelSwap
  <2>3. QED
    BY <2>1, <2>2, BloquesSinTocar
<1>3. ASSUME NEW p \in Pids, NEW k \in 1 .. MaxSegmentos, CompactarSegmento(p, k)
      PROVE  BloquesInv'
  BY <1>3, BloquesQuietos DEF CompactarSegmento, peers
<1>4. ASSUME NEW p \in Pids, NEW k \in 1 .. MaxSegmentos, CompactarFalla(p, k)
      PROVE  BloquesInv'
  <2>1. pc = "compactar" /\ pc' = "reintentar" /\ copia' = copia
        /\ UNCHANGED <<swapVars, swap_estado>>
    BY <1>4 DEF CompactarFalla, ksLocals, peers
  <2>2. copia' = <<>>
    BY <2>1 DEF BloquesInv, ListasDelSwap
  <2>3. QED
    BY <2>1, <2>2, BloquesSinTocar
<1>5. CASE SuspenderEntrar
  <2>1. pc = "susp_entrar" /\ pc' = "susp_copiar" /\ copia' = <<>> /\ pedido' = pedido
        /\ pedido.pid \notin procesos_en_swap /\ UNCHANGED <<swapVars, swap_estado>>
    BY <1>5 DEF SuspenderEntrar, peers
  <2>2. ~ \A s \in Swaps : swap_estado[s] = "no"
    BY <2>1 DEF BloquesInv, AntesDelSwap
  <2>3. QED
    BY <2>1, <2>2, BloquesSinTocar
<1>6. CASE SuspenderCopiar
  BY <1>6, BloquesCopiar
<1>7. CASE SuspenderRollback
  BY <1>7, BloquesRollback
<1>8. CASE SuspenderLiberar
  <2>1. pedido.pid \in Pids
    BY <1>8 DEF SuspenderLiberar, TypeOK
  <2>2. QED
    BY <1>8, <2>1, BloquesLiberarRam
<1>9. CASE DessAsignar
  BY <1>9, BloquesQuietos DEF DessAsignar, peers
<1>10. CASE DessAsignado
  <2>1. pc = "dess_asignar" /\ pc' = "dess_restaurar" /\ copia' = copia
        /\ restaurados' = 0 /\ UNCHANGED <<swapVars, swap_estado>>
    BY <1>10 DEF DessAsignado, peers
  <2>2. copia' = <<>> /\ ~ \A s \in Swaps : swap_estado[s] = "no"
    BY <2>1 DEF BloquesInv, ListasDelSwap, AntesDelSwap
  <2>3. QED
    BY <2>1, <2>2, BloquesSinTocar
<1>11. CASE DessRestaurar
  <2>1. pedido.pid \in Pids /\ restaurados + 1 \in Nat
    BY <1>11 DEF DessRestaurar, TypeOK
  <2>2. QED
    BY <1>11, <2>1, BloquesRestaurar
<1>12. CASE DessFin
  <2>1. pedido.pid \in Pids
    BY <1>12 DEF DessFin, TypeOK
  <2>2. QED
    BY <1>12, <2>1, BloquesDessFin
<1>13. QED
  BY <1>1, <1>2, <1>3, <1>4, <1>5, <1>6, <1>7, <1>8, <1>9, <1>10, <1>11, <1>12
     DEF Continuar

\* A step of another thread or of a peer.
LEMMA BloquesEntorno ==
  ASSUME TypeOK, BloquesInv, Entorno
  PROVE  BloquesInv'
<1>1. CASE ConfirmacionRechazada
  <2>1. pc = "confirmar" /\ Terminar /\ UNCHANGED <<swapVars, swap_estado>>
    BY <1>1 DEF ConfirmacionRechazada, peers
  <2>2. QED
    BY <2>1, BloquesSinTocar DEF Terminar
<1>2. ASSUME NEW p \in Pids, NEW k \in 1 .. MaxSegmentos, CpuEscribe(p, k)
      PROVE  BloquesInv'
  BY <1>2, BloquesQuietos DEF CpuEscribe, ksLocals, peers
<1>3. ASSUME NEW f \in Sticks,
             MemoryStickAgregar(f) \/ StickCae(f) \/ MemoryStickEliminar(f)
      PROVE  BloquesInv'
  BY <1>3, BloquesQuietos DEF MemoryStickAgregar, StickCae, MemoryStickEliminar, ksLocals
<1>4. ASSUME NEW s \in Swaps, SwapRegistrar(s)
      PROVE  BloquesInv'
  BY <1>4, BloquesRegistrar
<1>5. ASSUME NEW s \in Swaps, SwapCae(s) \/ SwapDesregistrar(s)
      PROVE  BloquesInv'
  BY <1>5, BloquesSwapSeVa
<1>6. QED
  BY <1>1, <1>2, <1>3, <1>4, <1>5 DEF Entorno

\* Nothing is marked and nobody is suspended at the start.
LEMMA BloquesInicial ==
  ASSUME Init
  PROVE  BloquesInv
<1>1. \A b, i : ~ DuenoEnCopia(b, i)
  BY DEF Init, DuenoEnCopia
<1>2. \A b, i : \A p \in Pids : ~ DuenoEnSwap(b, p, i)
  BY DEF Init, DuenoEnSwap
<1>3. UnSoloDueno /\ Exacto
  BY <1>1, <1>2 DEF Init, UnSoloDueno, Exacto, TieneDueno
<1>4. ListasDelSwap /\ AntesDelSwap
  BY DEF Init, ListasDelSwap, AntesDelSwap
<1>5. QED
  BY <1>3, <1>4 DEF BloquesInv

-----------------------------------------------------------------------------
\* The bitmap and its owners, in every state.
THEOREM BloquesConDueno == Spec => []BloquesInv
<1>1. Init => BloquesInv
  BY BloquesInicial
<1>2. TipoInv /\ BloquesInv /\ [Next]_vars => BloquesInv'
  <2> SUFFICES ASSUME TypeOK, BloquesInv, [Next]_vars PROVE BloquesInv'
    BY DEF TipoInv
  <2>1. CASE UNCHANGED vars
    BY <2>1, BloquesQuietos DEF vars, ksLocals, peers
  <2>2. CASE Next
    BY <2>2, BloquesAtender, BloquesContinuar, BloquesEntorno DEF Next
  <2>3. QED
    BY <2>1, <2>2
<1>3. QED
  BY <1>1, <1>2, TipoInvariante, PTL DEF Spec

\* The blocks of the segments that have not come back yet.
LEMMA BloquesQueFaltan ==
  ASSUME TypeOK, Locales, pc = "dess_restaurar", NEW r \in Pids, r = pedido.pid, NEW b
  PROVE  b \in BloquesDe(SubSeq(EnSwap, restaurados + 1, Len(EnSwap)))
           <=> \E i \in Nat : DuenoEnSwap(b, r, i) /\ ~ Volvio(r, i)
<1> DEFINE s == segmentos_swap[r]
           resto == SubSeq(s, restaurados + 1, Len(s))
<1>1. /\ Len(s) \in Nat /\ DOMAIN s = 1 .. Len(s)
      /\ \A i \in 1 .. Len(s) : s[i] \in SegmentoSwap
  BY SegmentosSwapTipo
<1>2. restaurados \in Nat /\ restaurados <= Len(s)
  BY DEF Locales, EnSwap, TypeOK
<1>3. \A i \in Nat : DuenoEnSwap(b, r, i) /\ ~ Volvio(r, i)
                       <=> i \in 1 .. Len(s) /\ i > restaurados /\ b \in s[i].bloques
  BY <1>1, <1>2 DEF DuenoEnSwap, Volvio
<1>4. resto = SubSeq(EnSwap, restaurados + 1, Len(EnSwap))
  BY DEF EnSwap
<1> HIDE DEF s
<1>5. /\ resto \in Seq(SegmentoSwap)
      /\ Len(resto) = Len(s) - restaurados
      /\ \A j \in 1 .. Len(s) - restaurados : resto[j] = s[restaurados + j]
  <2>1. /\ restaurados + 1 \in Int /\ Len(s) \in Int
        /\ \A i \in restaurados + 1 .. Len(s) : s[i] \in SegmentoSwap
    BY <1>1, <1>2
  <2>2. /\ resto \in Seq(SegmentoSwap)
        /\ Len(resto) = IF restaurados + 1 <= Len(s)
                        THEN Len(s) - (restaurados + 1) + 1 ELSE 0
        /\ \A j \in 1 .. Len(s) - (restaurados + 1) + 1 :
             resto[j] = s[restaurados + 1 + j - 1]
    BY <2>1, SubSeqProperties
  <2> HIDE DEF resto
  <2>3. ASSUME NEW j \in 1 .. Len(s) - restaurados
        PROVE  resto[j] = s[restaurados + j]
    <3>1. j \in 1 .. Len(s) - (restaurados + 1) + 1 /\ restaurados + 1 + j - 1 = restaurados + j
      BY <1>1, <1>2
    <3>2. resto[j] = s[restaurados + 1 + j - 1]
      BY <2>2, <3>1
    <3>3. QED
      BY <3>1, <3>2
  <2>4. Len(resto) = Len(s) - restaurados
    <3> DEFINE n == Len(s)
               m == Len(resto)
    <3>1. n \in Nat /\ restaurados \in Nat /\ restaurados <= n
      BY <1>1, <1>2
    <3>2. m = IF restaurados + 1 <= n THEN n - (restaurados + 1) + 1 ELSE 0
      BY <2>2
    <3> HIDE DEF n, m
    <3>3. m = n - restaurados
      BY <3>1, <3>2
    <3>4. QED
      BY <3>3 DEF n, m
  <2>5. QED
    BY <2>2, <2>3, <2>4
<1> HIDE DEF resto
<1>6. DOMAIN resto = 1 .. Len(s) - restaurados
  BY <1>5, LenProperties
<1>7. b \in BloquesDe(resto)
        <=> \E j \in 1 .. Len(s) - restaurados : b \in s[restaurados + j].bloques
  BY <1>5, <1>6 DEF BloquesDe
<1>8. ASSUME NEW j \in 1 .. Len(s) - restaurados
      PROVE  /\ restaurados + j \in Nat /\ restaurados + j \in 1 .. Len(s)
             /\ restaurados + j > restaurados
  BY <1>1, <1>2
<1>9. ASSUME NEW i \in 1 .. Len(s), i > restaurados
      PROVE  /\ i - restaurados \in 1 .. Len(s) - restaurados
             /\ restaurados + (i - restaurados) = i
  BY <1>1, <1>2, <1>9
<1>10. (\E j \in 1 .. Len(s) - restaurados : b \in s[restaurados + j].bloques)
         <=> \E i \in Nat : i \in 1 .. Len(s) /\ i > restaurados /\ b \in s[i].bloques
  <2>1. ASSUME NEW j \in 1 .. Len(s) - restaurados, b \in s[restaurados + j].bloques
        PROVE  \E i \in Nat : i \in 1 .. Len(s) /\ i > restaurados /\ b \in s[i].bloques
    BY <1>8, <2>1
  <2>2. ASSUME NEW i \in 1 .. Len(s), i > restaurados, b \in s[i].bloques
        PROVE  \E j \in 1 .. Len(s) - restaurados : b \in s[restaurados + j].bloques
    <3>1. /\ i - restaurados \in 1 .. Len(s) - restaurados
          /\ restaurados + (i - restaurados) = i
      BY <1>9, <2>2
    <3>2. b \in s[restaurados + (i - restaurados)].bloques
      BY <2>2, <3>1
    <3>3. QED
      BY <3>1, <3>2
  <2>3. QED
    BY <2>1, <2>2
<1>11. QED
  BY <1>3, <1>4, <1>7, <1>10

\* The owner of a block, in the words of BloquesDeSwap.
LEMMA DuenosEnPalabras ==
  ASSUME TypeOK, Locales, NEW b
  PROVE  TieneDueno(b) <=>
           \/ \E p \in {q \in Pids : ~ (pc = "dess_restaurar" /\ q = pedido.pid)} :
                b \in BloquesDe(segmentos_swap[p])
           \/ b \in BloquesDe(copia)
           \/ /\ pc = "dess_restaurar"
              /\ b \in BloquesDe(SubSeq(EnSwap, restaurados + 1, Len(EnSwap)))
<1> DEFINE quietos == {q \in Pids : ~ (pc = "dess_restaurar" /\ q = pedido.pid)}
           EnProceso(p) == \E i \in Nat : DuenoEnSwap(b, p, i) /\ ~ Volvio(p, i)
<1>1. ASSUME NEW p \in quietos
      PROVE  b \in BloquesDe(segmentos_swap[p]) <=> EnProceso(p)
  <2>1. DOMAIN segmentos_swap[p] \subseteq Nat
    BY SegmentosSwapTipo
  <2>2. b \in BloquesDe(segmentos_swap[p]) <=> \E i \in Nat : DuenoEnSwap(b, p, i)
    BY <2>1 DEF BloquesDe, DuenoEnSwap
  <2>3. \A i : ~ Volvio(p, i)
    BY DEF Volvio
  <2>4. QED
    BY <2>2, <2>3
<1>2. b \in BloquesDe(copia) <=> \E i \in Nat : DuenoEnCopia(b, i)
  BY BloquesDeCopia
<1>3. TieneDueno(b) <=> \/ \E p \in Pids : EnProceso(p)
                        \/ b \in BloquesDe(copia)
  BY <1>2 DEF TieneDueno
<1>4. CASE pc = "dess_restaurar"
  <2>1. pedido.pid \in Pids
    BY <1>4 DEF TypeOK
  <2>2. b \in BloquesDe(SubSeq(EnSwap, restaurados + 1, Len(EnSwap))) <=> EnProceso(pedido.pid)
    BY <1>4, <2>1, BloquesQueFaltan
  <2> HIDE DEF EnProceso
  <2>3. Pids = quietos \cup {pedido.pid}
    BY <2>1
  <2> HIDE DEF quietos
  <2>4. (\E p \in Pids : EnProceso(p))
          <=> (\E p \in quietos : EnProceso(p)) \/ EnProceso(pedido.pid)
    BY <2>3
  <2>5. TieneDueno(b) <=> \/ \E p \in quietos : b \in BloquesDe(segmentos_swap[p])
                          \/ b \in BloquesDe(copia)
                          \/ b \in BloquesDe(SubSeq(EnSwap, restaurados + 1, Len(EnSwap)))
    BY <1>1, <1>3, <2>2, <2>4
  <2>6. QED
    BY <1>4, <2>5 DEF quietos
<1>5. CASE pc # "dess_restaurar"
  <2> HIDE DEF EnProceso
  <2>1. Pids = quietos
    BY <1>5
  <2> HIDE DEF quietos
  <2>2. TieneDueno(b) <=> \/ \E p \in quietos : b \in BloquesDe(segmentos_swap[p])
                          \/ b \in BloquesDe(copia)
    BY <1>1, <1>3, <2>1
  <2>3. QED
    BY <1>5, <2>2 DEF quietos
<1>6. QED
  BY <1>4, <1>5

\* An owned block is a block.
LEMMA BloquesConTipo ==
  ASSUME TypeOK, NEW b, TieneDueno(b)
  PROVE  b \in Bloques
<1>1. ASSUME NEW p \in Pids, NEW i \in Nat, DuenoEnSwap(b, p, i) PROVE b \in Bloques
  BY <1>1, SegmentosSwapTipo DEF DuenoEnSwap, SegmentoSwap
<1>2. ASSUME NEW i \in Nat, DuenoEnCopia(b, i) PROVE b \in Bloques
  <2>1. copia \in Seq(SegmentoSwap)
    BY DEF TypeOK
  <2>2. i \in 1 .. Len(copia)
    BY <1>2, <2>1, LenProperties DEF DuenoEnCopia
  <2>3. copia[i] \in SegmentoSwap
    BY <2>1, <2>2, ElementOfSeq
  <2>4. QED
    BY <1>2, <2>3 DEF DuenoEnCopia, SegmentoSwap
<1>3. QED
  BY <1>1, <1>2 DEF TieneDueno

\* A bitmap that is exact makes BloquesDeSwap true.
LEMMA ExactoEsBloquesDeSwap ==
  ASSUME TypeOK, Locales, BloquesInv
  PROVE  BloquesDeSwap
<1> SUFFICES ASSUME UnSoloSwap PROVE BloquesDeSwap
  BY DEF BloquesDeSwap
<1> DEFINE quietos == {q \in Pids : ~ (pc = "dess_restaurar" /\ q = pedido.pid)}
           faltan == IF pc = "dess_restaurar"
                     THEN BloquesDe(SubSeq(EnSwap, restaurados + 1, Len(EnSwap))) ELSE {}
           todos == (UNION {BloquesDe(segmentos_swap[p]) : p \in quietos})
                      \cup BloquesDe(copia) \cup faltan
<1>1. UnSoloDueno /\ Exacto
  BY DEF BloquesInv
<1>2. ASSUME NEW b PROVE b \in todos <=> TieneDueno(b)
  <2>1. b \in UNION {BloquesDe(segmentos_swap[p]) : p \in quietos}
          <=> \E p \in quietos : b \in BloquesDe(segmentos_swap[p])
    OBVIOUS
  <2>2. b \in faltan <=> /\ pc = "dess_restaurar"
                         /\ b \in BloquesDe(SubSeq(EnSwap, restaurados + 1, Len(EnSwap)))
    OBVIOUS
  <2>3. b \in todos <=> \/ \E p \in quietos : b \in BloquesDe(segmentos_swap[p])
                        \/ b \in BloquesDe(copia)
                        \/ b \in faltan
    BY <2>1
  <2> HIDE DEF faltan, todos
  <2>4. QED
    BY <2>2, <2>3, DuenosEnPalabras
<1>3. swap_bloques_usados = todos
  <2> HIDE DEF todos
  <2>1. \A b : b \in todos => b \in Bloques
    BY <1>2, BloquesConTipo
  <2>2. swap_bloques_usados \subseteq Bloques
    BY DEF TypeOK
  <2>3. \A b : b \in swap_bloques_usados <=> b \in todos
    BY <1>1, <1>2, <2>1, <2>2 DEF Exacto
  <2>4. QED
    BY <2>3
<1>4. ASSUME NEW p \in Pids, NEW q \in Pids, NEW i \in DOMAIN segmentos_swap[p],
             NEW j \in DOMAIN segmentos_swap[q], p # q \/ i # j
      PROVE  segmentos_swap[p][i].bloques \cap segmentos_swap[q][j].bloques = {}
  <2> SUFFICES ASSUME NEW b, b \in segmentos_swap[p][i].bloques,
                      b \in segmentos_swap[q][j].bloques
               PROVE  FALSE
    OBVIOUS
  <2>1. i \in Nat /\ j \in Nat
    BY SegmentosSwapTipo
  <2>2. DuenoEnSwap(b, p, i) /\ DuenoEnSwap(b, q, j)
    BY DEF DuenoEnSwap
  <2>3. b \in Bloques
    BY SegmentosSwapTipo DEF SegmentoSwap
  <2>4. QED
    BY <1>1, <1>4, <2>1, <2>2, <2>3 DEF UnSoloDueno
<1>5. QED
  BY <1>3, <1>4 DEF BloquesDeSwap

\* The bitmap of the SWAP is exact whatever fails, as long as one SWAP connected:
\* a block is marked if and only if a segment of a suspended process, or of the
\* suspension under way, is in it, and no block is in two segments.  In particular
\* the rollback of a copy that fails half way leaks nothing and frees nobody
\* else's blocks.
THEOREM BloquesExactos == Spec => []BloquesDeSwap
<1>1. TipoInv /\ BloquesInv => BloquesDeSwap
  BY ExactoEsBloquesDeSwap DEF TipoInv
<1>2. QED
  BY <1>1, TipoInvariante, BloquesConDueno, PTL

-----------------------------------------------------------------------------
(* One owner for every byte.                                                *)

\* No two segments hold address a; ar gives the areas of each process.
Solos(ar, a) ==
  /\ \A p \in Pids : UnoSolo(ar[p], a)
  /\ \A p, q \in Pids : Cubre(ar[p], a) /\ Cubre(ar[q], a) => p = q

EnSegmento(ar, a) == \E p \in Pids : Cubre(ar[p], a)

\* Address a has one owner when it is in memory and none otherwise: a hole of
\* hs, an area of rs, which a de-suspension has taken, or a segment.
Reparto(hs, rs, ar, total, a) ==
  /\ UnoSolo(hs, a) /\ UnoSolo(rs, a) /\ Solos(ar, a)
  /\ ~ (Cubre(hs, a) /\ Cubre(rs, a))
  /\ ~ (Cubre(hs, a) /\ EnSegmento(ar, a))
  /\ ~ (Cubre(rs, a) /\ EnSegmento(ar, a))
  /\ a < total <=> Cubre(hs, a) \/ Cubre(rs, a) \/ EnSegmento(ar, a)

\* Half way through compactar: the segments in mov fill the memory up to d, the
\* other ones are where they were, from d on.
AMedias(ar, mov, d, total) ==
  /\ d <= total
  /\ \A p \in Pids : \A k \in 1 .. Len(ar[p]) :
       /\ <<p, k>> \in mov => ar[p][k].base + ar[p][k].tamanio <= d
       /\ <<p, k>> \notin mov /\ ar[p][k].tamanio > 0 =>
            d <= ar[p][k].base /\ ar[p][k].base + ar[p][k].tamanio <= total
  /\ \A a \in 0 .. d - 1 : EnSegmento(ar, a)

\* The addresses from d on that no segment still to be placed holds: what the
\* compaction will have gathered in one hole when it ends.
Restante(ar, mov, d, total) ==
  {a \in d .. total - 1 :
     \A p \in Pids : \A k \in 1 .. Len(ar[p]) :
       <<p, k>> \notin mov => ~ EnHueco(ar[p], a, k)}

\* The next segment of the sorted list: one of lowest base of those that are
\* not placed yet.
Proximo(ar, mov, p, k) ==
  /\ <<p, k>> \notin mov
  /\ \A q \in Pids : \A j \in 1 .. Len(ar[q]) :
       <<q, j>> \notin mov => ar[p][k].base <= ar[q][j].base

-----------------------------------------------------------------------------
\* Changing the segments of one process by one that no other segment meets.
LEMMA SolosCambiar ==
  ASSUME NEW ar \in [Pids -> Seq(Hueco)], NEW p \in Pids, NEW l \in Seq(Hueco),
         NEW a \in Nat, Solos(ar, a), UnoSolo(l, a),
         Cubre(l, a) => Cubre(ar[p], a) \/ ~ EnSegmento(ar, a)
  PROVE  LET n == [ar EXCEPT ![p] = l] IN
         /\ n \in [Pids -> Seq(Hueco)]
         /\ Solos(n, a)
         /\ EnSegmento(n, a) <=>
              Cubre(l, a) \/ (EnSegmento(ar, a) /\ ~ Cubre(ar[p], a))
<1> DEFINE n == [ar EXCEPT ![p] = l]
<1>1. n \in [Pids -> Seq(Hueco)] /\ n[p] = l /\ \A q \in Pids : q # p => n[q] = ar[q]
  OBVIOUS
<1> HIDE DEF n
<1>2. Solos(n, a)
  BY <1>1 DEF Solos, EnSegmento
<1>3. EnSegmento(n, a) <=> Cubre(l, a) \/ (EnSegmento(ar, a) /\ ~ Cubre(ar[p], a))
  BY <1>1 DEF Solos, EnSegmento
<1>4. QED
  BY <1>1, <1>2, <1>3 DEF n

\* No area, no address.
LEMMA VaciaNoCubre ==
  ASSUME NEW a
  PROVE  ~ Cubre(<<>>, a) /\ UnoSolo(<<>>, a)
<1>1. Len(<<>>) = 0
  BY EmptySeq
<1>2. \A i \in 1 .. Len(<<>>) : FALSE
  BY <1>1
<1>3. QED
  BY <1>2 DEF Cubre, UnoSolo

\* proceso_liberar_memoria and the second phase of proceso_suspender: the areas
\* of a process go to the free list.
LEMMA RepartoLiberar ==
  ASSUME NEW hs \in Seq(Hueco), NEW rs \in Seq(Hueco), NEW ar \in [Pids -> Seq(Hueco)],
         NEW total \in Nat, NEW a \in Nat, Reparto(hs, rs, ar, total, a), NEW p \in Pids
  PROVE  Reparto(hs \o ar[p], rs, [ar EXCEPT ![p] = <<>>], total, a)
<1> DEFINE n == [ar EXCEPT ![p] = <<>>]
<1>1. <<>> \in Seq(Hueco)
  BY EmptySeq
<1>2. Solos(n, a) /\ (EnSegmento(n, a) <=> EnSegmento(ar, a) /\ ~ Cubre(ar[p], a))
  BY <1>1, VaciaNoCubre, SolosCambiar DEF Reparto
<1>3. Cubre(ar[p], a) => EnSegmento(ar, a)
  BY DEF EnSegmento
<1>4. /\ Cubre(hs \o ar[p], a) <=> Cubre(hs, a) \/ Cubre(ar[p], a)
      /\ UnoSolo(hs \o ar[p], a)
  <2>1. ar[p] \in Seq(Hueco) /\ UnoSolo(ar[p], a)
    BY DEF Reparto, Solos
  <2>2. QED
    BY <1>3, <2>1, ConcatenarCubre DEF Reparto
<1> HIDE DEF n
<1>5. Reparto(hs \o ar[p], rs, n, total, a)
  BY <1>2, <1>3, <1>4 DEF Reparto
<1>6. QED
  BY <1>5 DEF n

\* segmento_crear: the front of a hole becomes a segment.
LEMMA RepartoCrear ==
  ASSUME NEW hs \in Seq(Hueco), NEW rs \in Seq(Hueco), NEW ar \in [Pids -> Seq(Hueco)],
         NEW total \in Nat, NEW a \in Nat, Reparto(hs, rs, ar, total, a), NEW p \in Pids,
         NEW i \in 1 .. Len(hs), NEW t \in Nat, hs[i].tamanio >= t
  PROVE  Reparto(HuecoOcupar(hs, i, t), rs,
                 [ar EXCEPT ![p] = Append(ar[p], [base |-> hs[i].base, tamanio |-> t])],
                 total, a)
<1> DEFINE h == [base |-> hs[i].base, tamanio |-> t]
           l == Append(ar[p], h)
           n == [ar EXCEPT ![p] = l]
           g == HuecoOcupar(hs, i, t)
<1>1. h \in Hueco /\ h.base = hs[i].base /\ h.tamanio = t
  BY HuecosNumeros DEF Hueco
<1>2. /\ Cubre(g, a) <=> Cubre(hs, a) /\ ~ EnArea(a, h.base, h.tamanio)
      /\ UnoSolo(g, a)
      /\ EnArea(a, h.base, h.tamanio) => Cubre(hs, a)
  BY <1>1, OcuparCubre DEF Reparto
<1>3. l \in Seq(Hueco)
  BY <1>1, AppendProperties
<1> HIDE DEF h
<1>4. Cubre(ar[p], a) => EnSegmento(ar, a)
  BY DEF EnSegmento
<1>5. /\ Cubre(l, a) <=> Cubre(ar[p], a) \/ EnArea(a, h.base, h.tamanio)
      /\ UnoSolo(l, a)
  <2>1. ar[p] \in Seq(Hueco) /\ UnoSolo(ar[p], a)
    BY DEF Reparto, Solos
  <2>2. ~ (Cubre(ar[p], a) /\ EnArea(a, h.base, h.tamanio))
    BY <1>2, <1>4 DEF Reparto
  <2>3. QED
    BY <1>1, <2>1, <2>2, AgregarCubre
<1> HIDE DEF l
<1>6. Cubre(l, a) => Cubre(ar[p], a) \/ ~ EnSegmento(ar, a)
  BY <1>2, <1>5 DEF Reparto
<1>7. /\ Solos(n, a)
      /\ EnSegmento(n, a) <=> Cubre(l, a) \/ (EnSegmento(ar, a) /\ ~ Cubre(ar[p], a))
  BY <1>3, <1>5, <1>6, SolosCambiar DEF Reparto
<1> HIDE DEF n, g
<1>8. Reparto(g, rs, n, total, a)
  BY <1>2, <1>4, <1>5, <1>7 DEF Reparto
<1>9. QED
  BY <1>8 DEF n, g, l, h

\* segmento_eliminar: one segment goes to the free list.
LEMMA RepartoEliminar ==
  ASSUME NEW hs \in Seq(Hueco), NEW rs \in Seq(Hueco), NEW ar \in [Pids -> Seq(Hueco)],
         NEW total \in Nat, NEW a \in Nat, Reparto(hs, rs, ar, total, a), NEW p \in Pids,
         NEW k \in 1 .. Len(ar[p])
  PROVE  Reparto(HuecoLiberar(hs, ar[p][k].base, ar[p][k].tamanio), rs,
                 [ar EXCEPT ![p] = RemoveAt(ar[p], k)], total, a)
<1> DEFINE h == [base |-> ar[p][k].base, tamanio |-> ar[p][k].tamanio]
           l == RemoveAt(ar[p], k)
           n == [ar EXCEPT ![p] = l]
           g == Append(hs, h)
<1>1. /\ ar[p] \in Seq(Hueco) /\ UnoSolo(ar[p], a)
      /\ Cubre(ar[p], a) => EnSegmento(ar, a)
  BY DEF EnSegmento, Reparto, Solos
<1>2. h \in Hueco /\ (EnArea(a, h.base, h.tamanio) <=> EnHueco(ar[p], a, k))
  <2>1. ar[p][k].base \in Nat /\ ar[p][k].tamanio \in Nat
    BY <1>1, HuecosNumeros
  <2>2. QED
    BY <2>1 DEF Hueco, EnHueco
<1>3. EnHueco(ar[p], a, k) => Cubre(ar[p], a)
  BY DEF Cubre
<1> HIDE DEF h
<1>4. /\ Cubre(g, a) <=> Cubre(hs, a) \/ EnHueco(ar[p], a, k)
      /\ UnoSolo(g, a)
  BY <1>1, <1>2, <1>3, AgregarCubre DEF Reparto
<1>5. /\ l \in Seq(Hueco)
      /\ Cubre(l, a) <=> Cubre(ar[p], a) /\ ~ EnHueco(ar[p], a, k)
      /\ UnoSolo(l, a)
  BY <1>1, QuitarCubre, RemoveAtElementos
<1> HIDE DEF l, g
<1>6. /\ Solos(n, a)
      /\ EnSegmento(n, a) <=> Cubre(l, a) \/ (EnSegmento(ar, a) /\ ~ Cubre(ar[p], a))
  BY <1>5, SolosCambiar DEF Reparto
<1> HIDE DEF n
<1>7. Reparto(g, rs, n, total, a)
  BY <1>1, <1>3, <1>4, <1>5, <1>6 DEF Reparto
<1>8. QED
  BY <1>7 DEF HuecoLiberar, n, g, l, h

\* The first phase of proceso_dessuspender: the front of a hole is taken.
LEMMA RepartoReservar ==
  ASSUME NEW hs \in Seq(Hueco), NEW rs \in Seq(Hueco), NEW ar \in [Pids -> Seq(Hueco)],
         NEW total \in Nat, NEW a \in Nat, Reparto(hs, rs, ar, total, a),
         NEW i \in 1 .. Len(hs), NEW t \in Nat, hs[i].tamanio >= t
  PROVE  Reparto(HuecoOcupar(hs, i, t),
                 Append(rs, [base |-> hs[i].base, tamanio |-> t]), ar, total, a)
<1> DEFINE h == [base |-> hs[i].base, tamanio |-> t]
           g == HuecoOcupar(hs, i, t)
           l == Append(rs, h)
<1>1. h \in Hueco /\ h.base = hs[i].base /\ h.tamanio = t
  BY HuecosNumeros DEF Hueco
<1>2. /\ Cubre(g, a) <=> Cubre(hs, a) /\ ~ EnArea(a, h.base, h.tamanio)
      /\ UnoSolo(g, a)
      /\ EnArea(a, h.base, h.tamanio) => Cubre(hs, a)
  BY <1>1, OcuparCubre DEF Reparto
<1> HIDE DEF h
<1>3. /\ Cubre(l, a) <=> Cubre(rs, a) \/ EnArea(a, h.base, h.tamanio)
      /\ UnoSolo(l, a)
  BY <1>1, <1>2, AgregarCubre DEF Reparto
<1> HIDE DEF g, l
<1>4. Reparto(g, l, ar, total, a)
  BY <1>2, <1>3 DEF Reparto
<1>5. QED
  BY <1>4 DEF g, l, h

\* Its rollback: what was taken goes back to the free list.
LEMMA RepartoDevolver ==
  ASSUME NEW hs \in Seq(Hueco), NEW rs \in Seq(Hueco), NEW ar \in [Pids -> Seq(Hueco)],
         NEW total \in Nat, NEW a \in Nat, Reparto(hs, rs, ar, total, a)
  PROVE  Reparto(hs \o rs, <<>>, ar, total, a)
<1>1. /\ Cubre(hs \o rs, a) <=> Cubre(hs, a) \/ Cubre(rs, a)
      /\ UnoSolo(hs \o rs, a)
  BY ConcatenarCubre DEF Reparto
<1>2. QED
  BY <1>1, VaciaNoCubre DEF Reparto

\* Its second phase: the first area taken becomes a segment.
LEMMA RepartoRestaurar ==
  ASSUME NEW hs \in Seq(Hueco), NEW rs \in Seq(Hueco), NEW ar \in [Pids -> Seq(Hueco)],
         NEW total \in Nat, NEW a \in Nat, Reparto(hs, rs, ar, total, a), NEW p \in Pids,
         Len(rs) # 0
  PROVE  Reparto(hs, RemoveAt(rs, 1),
                 [ar EXCEPT ![p] = Append(ar[p], rs[1])], total, a)
<1> DEFINE l == Append(ar[p], rs[1])
           n == [ar EXCEPT ![p] = l]
<1>1. 1 \in 1 .. Len(rs) /\ rs[1] \in Hueco
  <2>1. 1 \in 1 .. Len(rs)
    BY HuecosNumeros
  <2>2. QED
    BY <2>1, HuecosNumeros
<1>2. /\ Cubre(RemoveAt(rs, 1), a) <=> Cubre(rs, a) /\ ~ EnHueco(rs, a, 1)
      /\ UnoSolo(RemoveAt(rs, 1), a)
      /\ EnHueco(rs, a, 1) => Cubre(rs, a)
  BY <1>1, QuitarCubre DEF Reparto, Cubre
<1>3. /\ ar[p] \in Seq(Hueco) /\ UnoSolo(ar[p], a)
      /\ Cubre(ar[p], a) => EnSegmento(ar, a)
  BY DEF EnSegmento, Reparto, Solos
<1>4. /\ l \in Seq(Hueco)
      /\ Cubre(l, a) <=> Cubre(ar[p], a) \/ EnHueco(rs, a, 1)
      /\ UnoSolo(l, a)
  <2>1. ~ (Cubre(ar[p], a) /\ EnHueco(rs, a, 1))
    BY <1>2, <1>3 DEF Reparto
  <2>2. l \in Seq(Hueco)
    BY <1>1, <1>3, AppendProperties
  <2>3. QED
    BY <1>1, <1>3, <2>1, <2>2, AgregarCubre DEF EnHueco
<1> HIDE DEF l
<1>5. Cubre(l, a) => Cubre(ar[p], a) \/ ~ EnSegmento(ar, a)
  BY <1>2, <1>4 DEF Reparto
<1>6. /\ Solos(n, a)
      /\ EnSegmento(n, a) <=> Cubre(l, a) \/ (EnSegmento(ar, a) /\ ~ Cubre(ar[p], a))
  BY <1>4, <1>5, SolosCambiar DEF Reparto
<1> HIDE DEF n
<1>7. Reparto(hs, RemoveAt(rs, 1), n, total, a)
  BY <1>2, <1>3, <1>4, <1>6 DEF Reparto
<1>8. QED
  BY <1>7 DEF n, l

\* memory_stick_agregar: the new memory is free.
LEMMA RepartoExtender ==
  ASSUME NEW hs \in Seq(Hueco), NEW rs \in Seq(Hueco), NEW ar \in [Pids -> Seq(Hueco)],
         NEW total \in Nat, NEW a \in Nat, Reparto(hs, rs, ar, total, a), NEW t \in Nat
  PROVE  Reparto(HuecosExtender(hs, total, t), rs, ar, total + t, a)
<1> DEFINE g == HuecosExtender(hs, total, t)
<1>1. EnArea(a, total, t) <=> ~ (a < total) /\ a < total + t
  BY DEF EnArea
<1>2. /\ Cubre(g, a) <=> Cubre(hs, a) \/ EnArea(a, total, t)
      /\ UnoSolo(g, a)
  <2>1. ~ (Cubre(hs, a) /\ EnArea(a, total, t))
    BY <1>1 DEF Reparto
  <2>2. QED
    BY <2>1, ExtenderCubre DEF Reparto
<1> HIDE DEF g
<1>3. a < total => a < total + t
  OBVIOUS
<1>4. Reparto(g, rs, ar, total + t, a)
  BY <1>1, <1>2, <1>3 DEF Reparto
<1>5. QED
  BY <1>4 DEF g

-----------------------------------------------------------------------------
\* compactar starts: every segment is in memory and still to be placed.
LEMMA CompactarEmpieza ==
  ASSUME NEW hs \in Seq(Hueco), NEW rs \in Seq(Hueco), NEW ar \in [Pids -> Seq(Hueco)],
         NEW total \in Nat, \A a \in Nat : Reparto(hs, rs, ar, total, a)
  PROVE  AMedias(ar, {}, 0, total)
<1>1. ASSUME NEW p \in Pids, NEW k \in 1 .. Len(ar[p]), ar[p][k].tamanio > 0
      PROVE  0 <= ar[p][k].base /\ ar[p][k].base + ar[p][k].tamanio <= total
  <2> DEFINE b == ar[p][k].base
             t == ar[p][k].tamanio
             a == b + t - 1
  <2>1. b \in Nat /\ t \in Nat
    BY HuecosNumeros
  <2>2. a \in Nat /\ EnHueco(ar[p], a, k)
    <3> SUFFICES a \in Nat /\ EnArea(a, b, t)
      BY DEF EnHueco
    <3> HIDE DEF b, t
    <3>1. t > 0
      BY <1>1 DEF t
    <3>2. QED
      BY <2>1, <3>1 DEF EnArea
  <2>3. EnSegmento(ar, a)
    BY <2>2 DEF EnSegmento, Cubre
  <2> HIDE DEF a
  <2>4. a < total
    BY <2>2, <2>3 DEF Reparto
  <2> HIDE DEF b, t
  <2>5. 0 <= b /\ b + t <= total
    BY <2>1, <2>4 DEF a
  <2>6. QED
    BY <2>5 DEF b, t
<1>2. \A a \in 0 .. 0 - 1 : FALSE
  OBVIOUS
<1>3. QED
  BY <1>1, <1>2 DEF AMedias

\* A stick arrives meanwhile.
LEMMA AMediasExtender ==
  ASSUME NEW ar \in [Pids -> Seq(Hueco)], NEW mov, NEW d \in Nat, NEW total \in Nat,
         NEW t \in Nat, AMedias(ar, mov, d, total)
  PROVE  AMedias(ar, mov, d, total + t)
<1>1. \A p \in Pids : \A k \in 1 .. Len(ar[p]) : ar[p][k].base \in Nat /\ ar[p][k].tamanio \in Nat
  BY HuecosNumeros
<1>2. QED
  BY <1>1 DEF AMedias

\* The segment that is placed now does not run over any other one: the ones
\* already placed end before d, the ones still to be placed start later than
\* it does, and it only moves towards lower addresses.
LEMMA DestinoLibre ==
  ASSUME NEW ar \in [Pids -> Seq(Hueco)], NEW mov, NEW d \in Nat, NEW total \in Nat,
         AMedias(ar, mov, d, total), NEW a \in Nat, Solos(ar, a),
         NEW p \in Pids, NEW k \in 1 .. Len(ar[p]), Proximo(ar, mov, p, k),
         EnArea(a, d, ar[p][k].tamanio),
         NEW q \in Pids, NEW j \in 1 .. Len(ar[q]), EnHueco(ar[q], a, j)
  PROVE  q = p /\ j = k
<1>1. /\ ar[p][k].base \in Nat /\ ar[p][k].tamanio \in Nat
      /\ ar[q][j].base \in Nat /\ ar[q][j].tamanio \in Nat
  BY HuecosNumeros
<1>2. d <= a /\ a < d + ar[p][k].tamanio
      /\ ar[q][j].base <= a /\ a < ar[q][j].base + ar[q][j].tamanio
  BY DEF EnArea, EnHueco
<1>3. <<q, j>> \notin mov
  <2> SUFFICES ASSUME <<q, j>> \in mov PROVE FALSE
    OBVIOUS
  <2>1. ar[q][j].base + ar[q][j].tamanio <= d
    BY DEF AMedias
  <2>2. QED
    BY <1>1, <1>2, <2>1
<1>4. ar[p][k].base <= ar[q][j].base
  BY <1>3 DEF Proximo
<1>5. d <= ar[p][k].base
  <2>1. ar[p][k].tamanio > 0
    BY <1>1, <1>2
  <2>2. QED
    BY <2>1 DEF AMedias, Proximo
<1>6. EnHueco(ar[p], a, k)
  BY <1>1, <1>2, <1>4, <1>5, SMTT(30) DEF EnHueco, EnArea
<1>7. q = p
  BY <1>6 DEF Solos, Cubre
<1>8. QED
  BY <1>6, <1>7 DEF Solos, UnoSolo

\* The tables after one iteration of compactar.
Colocado(ar, p, k, d) ==
  [ar EXCEPT ![p] =
     [ar[p] EXCEPT ![k] = [base |-> d, tamanio |-> ar[p][k].tamanio]]]

\* What the iteration changes in the tables, area by area.
LEMMA ColocadoAreas ==
  ASSUME NEW ar \in [Pids -> Seq(Hueco)], NEW d \in Nat,
         NEW p \in Pids, NEW k \in 1 .. Len(ar[p])
  PROVE  /\ Colocado(ar, p, k, d) \in [Pids -> Seq(Hueco)]
         /\ \A q \in Pids : Len(Colocado(ar, p, k, d)[q]) = Len(ar[q])
         /\ Colocado(ar, p, k, d)[p][k].base = d
         /\ Colocado(ar, p, k, d)[p][k].tamanio = ar[p][k].tamanio
         /\ \A q \in Pids : \A j \in 1 .. Len(ar[q]) :
              q # p \/ j # k => Colocado(ar, p, k, d)[q][j] = ar[q][j]
<1> DEFINE h == [base |-> d, tamanio |-> ar[p][k].tamanio]
           l == [ar[p] EXCEPT ![k] = h]
           n == [ar EXCEPT ![p] = l]
<1>1. ar[p] \in Seq(Hueco) /\ ar[p][k].tamanio \in Nat
  BY HuecosNumeros
<1>2. h \in Hueco /\ h.base = d /\ h.tamanio = ar[p][k].tamanio
  BY <1>1 DEF Hueco
<1> HIDE DEF h
<1>3. /\ l \in Seq(Hueco) /\ Len(l) = Len(ar[p])
      /\ l[k] = h
      /\ \A j \in 1 .. Len(ar[p]) : j # k => l[j] = ar[p][j]
  BY <1>1, <1>2, ExceptSeq
<1> HIDE DEF l
<1>4. n \in [Pids -> Seq(Hueco)] /\ n[p] = l /\ \A q \in Pids : q # p => n[q] = ar[q]
  BY <1>3
<1> HIDE DEF n
<1>5. /\ n \in [Pids -> Seq(Hueco)]
      /\ \A q \in Pids : Len(n[q]) = Len(ar[q])
      /\ n[p][k].base = d
      /\ n[p][k].tamanio = ar[p][k].tamanio
      /\ \A q \in Pids : \A j \in 1 .. Len(ar[q]) :
           q # p \/ j # k => n[q][j] = ar[q][j]
  BY <1>2, <1>3, <1>4
<1>6. n = Colocado(ar, p, k, d)
  BY DEF Colocado, n, l, h
<1>7. QED
  BY <1>5, <1>6

\* One iteration of compactar keeps the segments apart.
LEMMA ColocarSolos ==
  ASSUME NEW ar \in [Pids -> Seq(Hueco)], NEW mov, NEW d \in Nat, NEW total \in Nat,
         AMedias(ar, mov, d, total), NEW a \in Nat, Solos(ar, a),
         NEW p \in Pids, NEW k \in 1 .. Len(ar[p]), Proximo(ar, mov, p, k)
  PROVE  /\ Solos(Colocado(ar, p, k, d), a)
         /\ EnSegmento(Colocado(ar, p, k, d), a) <=>
              \/ EnArea(a, d, ar[p][k].tamanio)
              \/ EnSegmento(ar, a) /\ ~ EnHueco(ar[p], a, k)
<1> DEFINE h == [base |-> d, tamanio |-> ar[p][k].tamanio]
           l == [ar[p] EXCEPT ![k] = h]
           n == [ar EXCEPT ![p] = l]
<1>1. ar[p] \in Seq(Hueco) /\ ar[p][k].tamanio \in Nat /\ UnoSolo(ar[p], a)
  BY HuecosNumeros DEF Solos
<1>2. h \in Hueco /\ h.base = d /\ h.tamanio = ar[p][k].tamanio
  BY <1>1 DEF Hueco
<1> HIDE DEF h
<1>3. ASSUME EnArea(a, d, ar[p][k].tamanio), NEW q \in Pids, Cubre(ar[q], a)
      PROVE  q = p /\ EnHueco(ar[p], a, k)
  <2>1. PICK j \in 1 .. Len(ar[q]) : EnHueco(ar[q], a, j)
    BY <1>3 DEF Cubre
  <2>2. q = p /\ j = k
    BY <1>3, <2>1, DestinoLibre
  <2>3. QED
    BY <2>1, <2>2
<1>4. /\ Cubre(l, a) <=> \/ EnArea(a, h.base, h.tamanio)
                         \/ Cubre(ar[p], a) /\ ~ EnHueco(ar[p], a, k)
      /\ UnoSolo(l, a)
  <2>1. EnArea(a, h.base, h.tamanio) => EnHueco(ar[p], a, k) \/ ~ Cubre(ar[p], a)
    BY <1>2, <1>3
  <2>2. QED
    BY <1>1, <1>2, <2>1, CambiarCubre
<1>5. l \in Seq(Hueco)
  BY <1>1, <1>2, ExceptSeq
<1> HIDE DEF l
<1>6. Cubre(l, a) => Cubre(ar[p], a) \/ ~ EnSegmento(ar, a)
  BY <1>2, <1>3, <1>4 DEF EnSegmento
<1>7. /\ Solos(n, a)
      /\ EnSegmento(n, a) <=> Cubre(l, a) \/ (EnSegmento(ar, a) /\ ~ Cubre(ar[p], a))
  BY <1>4, <1>5, <1>6, SolosCambiar
<1>8. n = Colocado(ar, p, k, d)
  BY DEF Colocado, l, h
<1> HIDE DEF n
<1>9. Cubre(ar[p], a) => EnSegmento(ar, a)
  BY DEF EnSegmento
<1>10. EnHueco(ar[p], a, k) => Cubre(ar[p], a)
  BY DEF Cubre
<1>11. QED
  BY <1>2, <1>4, <1>7, <1>8, <1>9, <1>10

\* One iteration of compactar: destino advances by the size of the segment.
LEMMA ColocarAMedias ==
  ASSUME NEW ar \in [Pids -> Seq(Hueco)], NEW mov, NEW d \in Nat, NEW total \in Nat,
         AMedias(ar, mov, d, total), \A a \in Nat : Solos(ar, a),
         NEW p \in Pids, NEW k \in 1 .. Len(ar[p]), Proximo(ar, mov, p, k)
  PROVE  /\ AMedias(Colocado(ar, p, k, d), mov \cup {<<p, k>>},
                    d + ar[p][k].tamanio, total)
         /\ ar[p][k].tamanio > 0 => /\ d <= ar[p][k].base
                                    /\ ar[p][k].base + ar[p][k].tamanio <= total
<1> DEFINE n == Colocado(ar, p, k, d)
           m == mov \cup {<<p, k>>}
           b == ar[p][k].base
           t == ar[p][k].tamanio
           e == d + t
<1>1. b \in Nat /\ t \in Nat /\ e \in Nat
  BY HuecosNumeros
<1>2. t > 0 => d <= b /\ b + t <= total
  BY DEF AMedias, Proximo
<1>3. /\ n \in [Pids -> Seq(Hueco)]
      /\ \A q \in Pids : Len(n[q]) = Len(ar[q])
      /\ n[p][k].base = d
      /\ n[p][k].tamanio = t
      /\ \A q \in Pids : \A j \in 1 .. Len(ar[q]) :
           q # p \/ j # k => n[q][j] = ar[q][j]
  BY ColocadoAreas, SMTT(30)
<1>4. d <= total
  BY DEF AMedias
<1> HIDE DEF n
<1>5. e <= total
  <2> HIDE DEF b, t
  <2>1. QED
    BY <1>1, <1>2, <1>4
<1>6. ASSUME NEW q \in Pids, NEW j \in 1 .. Len(n[q])
      PROVE  /\ <<q, j>> \in m => n[q][j].base + n[q][j].tamanio <= e
             /\ <<q, j>> \notin m /\ n[q][j].tamanio > 0 =>
                  e <= n[q][j].base /\ n[q][j].base + n[q][j].tamanio <= total
  <2>1. j \in 1 .. Len(ar[q]) /\ ar[q][j].base \in Nat /\ ar[q][j].tamanio \in Nat
    BY <1>3, HuecosNumeros
  <2>2. CASE q = p /\ j = k
    <3>1. <<q, j>> \in m
      BY <2>2
    <3> HIDE DEF m, b, t
    <3>2. QED
      BY <1>1, <1>3, <2>2, <3>1
  <2>3. CASE q # p \/ j # k
    <3>1. n[q][j] = ar[q][j]
      BY <1>3, <2>1, <2>3
    <3>2. <<q, j>> \in m <=> <<q, j>> \in mov
      BY <2>3
    <3>3. <<q, j>> \in mov => ar[q][j].base + ar[q][j].tamanio <= d
      BY <2>1 DEF AMedias
    <3>4. ASSUME <<q, j>> \notin mov, ar[q][j].tamanio > 0
          PROVE  /\ e <= ar[q][j].base
                 /\ ar[q][j].base + ar[q][j].tamanio <= total
      <4>1. d <= ar[q][j].base /\ ar[q][j].base + ar[q][j].tamanio <= total
        BY <2>1, <3>4 DEF AMedias
      <4>2. b <= ar[q][j].base
        BY <2>1, <3>4 DEF Proximo
      <4>3. EnHueco(ar[q], ar[q][j].base, j)
        BY <2>1, <3>4 DEF EnHueco, EnArea
      <4>4. ~ EnHueco(ar[p], ar[q][j].base, k)
        <5> SUFFICES ASSUME EnHueco(ar[p], ar[q][j].base, k) PROVE FALSE
          OBVIOUS
        <5>1. q = p
          BY <2>1, <4>3 DEF Solos, Cubre
        <5>2. j = k
          BY <2>1, <4>3, <5>1 DEF Solos, UnoSolo
        <5>3. QED
          BY <2>3, <5>1, <5>2
      <4>5. ~ (b <= ar[q][j].base /\ ar[q][j].base < b + t)
        BY <4>4 DEF EnHueco, EnArea
      <4> HIDE DEF b, t
      <4>6. e <= ar[q][j].base
        <5>1. CASE t = 0
          BY <1>1, <2>1, <4>1, <5>1
        <5>2. CASE t > 0
          BY <1>1, <1>2, <2>1, <4>2, <4>5, <5>2
        <5>3. QED
          BY <1>1, <5>1, <5>2
      <4>7. QED
        BY <4>1, <4>6
    <3> HIDE DEF m, b, t
    <3>5. QED
      BY <1>1, <2>1, <3>1, <3>2, <3>3, <3>4
  <2>4. QED
    BY <2>2, <2>3
<1>7. ASSUME NEW a \in 0 .. e - 1
      PROVE  EnSegmento(n, a)
  <2>1. a \in Nat
    BY <1>1
  <2>2. EnSegmento(n, a) <=> EnArea(a, d, t) \/ (EnSegmento(ar, a) /\ ~ EnHueco(ar[p], a, k))
    BY <2>1, ColocarSolos DEF n
  <2>3. CASE a < d
    <3>1. EnSegmento(ar, a)
      BY <2>1, <2>3 DEF AMedias
    <3>2. ~ EnHueco(ar[p], a, k)
      <4>1. EnHueco(ar[p], a, k) <=> b <= a /\ a < b + t
        BY DEF EnHueco, EnArea
      <4> HIDE DEF b, t
      <4>2. QED
        BY <1>1, <1>2, <2>1, <2>3, <4>1
    <3>3. QED
      BY <2>2, <3>1, <3>2
  <2>4. CASE ~ (a < d)
    <3> HIDE DEF t
    <3>1. EnArea(a, d, t)
      BY <1>1, <2>1, <2>4 DEF EnArea
    <3>2. QED
      BY <2>2, <3>1
  <2>5. QED
    BY <2>3, <2>4
<1> HIDE DEF m, b, t, e
<1>8. AMedias(n, m, e, total)
  BY <1>5, <1>6, <1>7 DEF AMedias
<1>9. QED
  BY <1>2, <1>8 DEF n, m, e, b, t

\* compactar ends: huecos_reconstruir leaves one hole from destino on, and that
\* is what no segment holds.
LEMMA CompactarTermina ==
  ASSUME NEW ar \in [Pids -> Seq(Hueco)], NEW mov, NEW d \in Nat, NEW total \in Nat,
         AMedias(ar, mov, d, total),
         \A p \in Pids : \A k \in 1 .. Len(ar[p]) : <<p, k>> \in mov,
         NEW a \in Nat, Solos(ar, a)
  PROVE  Reparto(HuecosReconstruir(d, total), <<>>, ar, total, a)
<1>1. /\ Cubre(HuecosReconstruir(d, total), a) <=> d <= a /\ a < total
      /\ UnoSolo(HuecosReconstruir(d, total), a)
  BY ReconstruirCubre
<1>2. ~ Cubre(<<>>, a) /\ UnoSolo(<<>>, a)
  BY VaciaNoCubre
<1>3. EnSegmento(ar, a) <=> a < d
  <2>1. ASSUME NEW p \in Pids, NEW k \in 1 .. Len(ar[p]), EnHueco(ar[p], a, k)
        PROVE  a < d
    <3>1. ar[p][k].base \in Nat /\ ar[p][k].tamanio \in Nat
      BY HuecosNumeros
    <3>2. ar[p][k].base + ar[p][k].tamanio <= d
      BY DEF AMedias
    <3>3. a < ar[p][k].base + ar[p][k].tamanio
      BY <2>1 DEF EnHueco, EnArea
    <3>4. QED
      BY <3>1, <3>2, <3>3
  <2>2. a < d => EnSegmento(ar, a)
    BY DEF AMedias
  <2>3. QED
    BY <2>1, <2>2 DEF EnSegmento, Cubre
<1>4. d <= total
  BY DEF AMedias
<1>5. a < total <=> (d <= a /\ a < total) \/ a < d
  BY <1>4
<1>6. ~ ((d <= a /\ a < total) /\ a < d)
  OBVIOUS
<1>7. QED
  BY <1>1, <1>2, <1>3, <1>5, <1>6 DEF Reparto

-----------------------------------------------------------------------------
\* What is left to gather is finite.
LEMMA RestanteFinito ==
  ASSUME NEW ar, NEW mov, NEW d \in Nat, NEW total \in Nat
  PROVE  /\ IsFiniteSet(Restante(ar, mov, d, total))
         /\ Cardinality(Restante(ar, mov, d, total)) \in Nat
<1>1. IsFiniteSet(d .. total - 1)
  BY FS_Interval
<1>2. Restante(ar, mov, d, total) \in SUBSET (d .. total - 1)
  BY DEF Restante
<1>3. IsFiniteSet(Restante(ar, mov, d, total))
  BY <1>1, <1>2, FS_Subset
<1>4. QED
  BY <1>3, FS_CardinalityType

\* The bytes of an area, counted.
LEMMA AreaCuenta ==
  ASSUME NEW b \in Nat, NEW t \in Nat
  PROVE  /\ IsFiniteSet(b .. b + t - 1)
         /\ Cardinality(b .. b + t - 1) = t
         /\ \A a \in Nat : EnArea(a, b, t) <=> a \in b .. b + t - 1
<1>1. b \in Int /\ b + t - 1 \in Int
  OBVIOUS
<1>2. /\ IsFiniteSet(b .. b + t - 1)
      /\ Cardinality(b .. b + t - 1) = IF b > b + t - 1 THEN 0 ELSE (b + t - 1) - b + 1
  BY <1>1, FS_Interval
<1>3. Cardinality(b .. b + t - 1) = t
  BY <1>2
<1>4. \A a \in Nat : EnArea(a, b, t) <=> a \in b .. b + t - 1
  BY DEF EnArea
<1>5. QED
  BY <1>2, <1>3, <1>4

\* When the compaction is asked for, it is what huecos_total_libre counted.
LEMMA RestanteInicial ==
  ASSUME NEW hs \in Seq(Hueco), NEW ar \in [Pids -> Seq(Hueco)],
         NEW total \in Nat, \A a \in Nat : Reparto(hs, <<>>, ar, total, a)
  PROVE  HuecosTotalLibre(hs) = Cardinality(Restante(ar, {}, 0, total))
<1>1. \A a \in Nat : UnoSolo(hs, a)
  BY DEF Reparto
<1>2. ASSUME NEW a \in Nat
      PROVE  a \in Restante(ar, {}, 0, total) <=> Cubre(hs, a)
  <2>1. a \in Restante(ar, {}, 0, total) <=> a < total /\ ~ EnSegmento(ar, a)
    BY DEF Restante, EnSegmento, Cubre
  <2>2. Reparto(hs, <<>>, ar, total, a) /\ ~ Cubre(<<>>, a)
    BY VaciaNoCubre
  <2>3. QED
    BY <2>1, <2>2 DEF Reparto
<1>3. Restante(ar, {}, 0, total) \subseteq Nat
  BY DEF Restante
<1>4. Restante(ar, {}, 0, total) = {a \in Nat : Cubre(hs, a)}
  BY <1>2, <1>3
<1>5. QED
  BY <1>1, <1>4, TotalLibreCuenta

\* A stick that arrives meanwhile only adds to it.
LEMMA RestanteExtender ==
  ASSUME NEW ar, NEW mov, NEW d \in Nat, NEW total \in Nat, NEW t \in Nat
  PROVE  Cardinality(Restante(ar, mov, d, total))
           <= Cardinality(Restante(ar, mov, d, total + t))
<1>1. IsFiniteSet(Restante(ar, mov, d, total + t))
  BY RestanteFinito
<1>2. \A a \in d .. total - 1 : a \in d .. (total + t) - 1
  OBVIOUS
<1>3. Restante(ar, mov, d, total) \in SUBSET Restante(ar, mov, d, total + t)
  BY <1>2 DEF Restante
<1>4. QED
  BY <1>1, <1>3, FS_Subset

\* One iteration of compactar gains the bytes the segment leaves and loses the
\* ones it takes.
LEMMA RestanteColocar ==
  ASSUME NEW ar \in [Pids -> Seq(Hueco)], NEW mov, NEW d \in Nat, NEW total \in Nat,
         AMedias(ar, mov, d, total), \A a \in Nat : Solos(ar, a),
         NEW p \in Pids, NEW k \in 1 .. Len(ar[p]), Proximo(ar, mov, p, k)
  PROVE  Cardinality(Restante(Colocado(ar, p, k, d), mov \cup {<<p, k>>},
                              d + ar[p][k].tamanio, total))
           = Cardinality(Restante(ar, mov, d, total))
<1> DEFINE n == Colocado(ar, p, k, d)
           m == mov \cup {<<p, k>>}
           b == ar[p][k].base
           t == ar[p][k].tamanio
           R == Restante(ar, mov, d, total)
           RR == Restante(n, m, d + t, total)
           I == b .. b + t - 1
           J == d .. d + t - 1
<1>1. b \in Nat /\ t \in Nat /\ d + t \in Nat
  BY HuecosNumeros
<1>2. /\ IsFiniteSet(I) /\ Cardinality(I) = t
      /\ IsFiniteSet(J) /\ Cardinality(J) = t
      /\ \A a \in Nat : (a \in I <=> EnArea(a, b, t)) /\ (a \in J <=> EnArea(a, d, t))
  BY <1>1, AreaCuenta
<1>3. t > 0 => d <= b /\ b + t <= total
  BY ColocarAMedias
<1>4. /\ \A q \in Pids : Len(n[q]) = Len(ar[q])
      /\ \A q \in Pids : \A j \in 1 .. Len(ar[q]) : q # p \/ j # k => n[q][j] = ar[q][j]
  <2> HIDE DEF m, b, t, R, RR, I, J
  <2>1. QED
    BY ColocadoAreas, SMTT(30) DEF n
<1>5. ASSUME NEW a \in Nat
      PROVE  /\ a \in R <=> /\ d <= a /\ a < total
                            /\ \A q \in Pids : \A j \in 1 .. Len(ar[q]) :
                                 <<q, j>> \notin mov => ~ EnHueco(ar[q], a, j)
             /\ a \in RR <=> /\ d + t <= a /\ a < total
                             /\ \A q \in Pids : \A j \in 1 .. Len(ar[q]) :
                                  <<q, j>> \notin m => ~ EnHueco(ar[q], a, j)
  <2>1. a \in R <=> /\ d <= a /\ a < total
                    /\ \A q \in Pids : \A j \in 1 .. Len(ar[q]) :
                         <<q, j>> \notin mov => ~ EnHueco(ar[q], a, j)
    BY DEF Restante
  <2>2. ASSUME NEW q \in Pids, NEW j \in 1 .. Len(ar[q]), <<q, j>> \notin m
        PROVE  EnHueco(n[q], a, j) <=> EnHueco(ar[q], a, j)
    <3>1. q # p \/ j # k
      BY <2>2
    <3>2. n[q][j] = ar[q][j]
      BY <1>4, <3>1
    <3>3. QED
      BY <3>2 DEF EnHueco
  <2>3. a \in RR <=> /\ d + t <= a /\ a < total
                     /\ \A q \in Pids : \A j \in 1 .. Len(n[q]) :
                          <<q, j>> \notin m => ~ EnHueco(n[q], a, j)
    <3> HIDE DEF n, m, t
    <3>1. QED
      BY <1>1 DEF Restante
  <2> HIDE DEF n, m, t, RR, R
  <2>4. QED
    BY <1>4, <2>1, <2>2, <2>3
<1>6. R \subseteq Nat /\ RR \subseteq Nat
  <2> HIDE DEF n, m, t
  <2>1. QED
    BY <1>1 DEF Restante
<1>7. \A q, j : <<q, j>> \notin m <=> <<q, j>> \notin mov /\ (q # p \/ j # k)
  OBVIOUS
<1>8. \A a \in Nat : a \in I <=> EnHueco(ar[p], a, k)
  BY <1>2 DEF EnHueco
<1>9. I \subseteq Nat /\ J \subseteq Nat
  <2> HIDE DEF b, t
  <2>1. QED
    BY <1>1
<1> HIDE DEF n, m, b, t, R, RR, I, J
<1>10. R \cap I = {}
  BY <1>5, <1>6, <1>8 DEF Proximo
<1>11. RR \cap J = {}
  <2>1. ASSUME NEW a \in Nat, a \in RR, a \in J PROVE FALSE
    <3>1. d + t <= a
      BY <1>5, <2>1
    <3>2. a < d + t
      BY <1>2, <2>1 DEF EnArea
    <3>3. QED
      BY <1>1, <3>1, <3>2
  <2>2. QED
    BY <1>6, <2>1
<1>12. ASSUME NEW a \in Nat
       PROVE  a \in R \cup I <=> a \in RR \cup J
  <2>1. ASSUME a \in R PROVE a \in RR \cup J
    <3>1. CASE a < d + t
      BY <1>2, <1>5, <2>1, <3>1 DEF EnArea
    <3>2. CASE ~ (a < d + t)
      <4>1. d + t <= a
        BY <1>1, <3>2
      <4>2. QED
        BY <1>5, <1>7, <2>1, <4>1
    <3>3. QED
      BY <3>1, <3>2
  <2>2. ASSUME a \in I PROVE a \in RR \cup J
    <3>0. d <= a /\ a < total
      <4>1. b <= a /\ a < b + t
        BY <1>2, <2>2 DEF EnArea
      <4>2. QED
        BY <1>1, <1>3, <4>1
    <3>1. CASE a < d + t
      BY <1>2, <3>0, <3>1 DEF EnArea
    <3>2. CASE ~ (a < d + t)
      <4>1. d + t <= a
        BY <1>1, <3>2
      <4>2. ASSUME NEW q \in Pids, NEW j \in 1 .. Len(ar[q]), <<q, j>> \notin m,
                   EnHueco(ar[q], a, j)
            PROVE  FALSE
        <5>1. EnHueco(ar[p], a, k)
          BY <1>8, <2>2
        <5>2. q = p
          BY <4>2, <5>1 DEF Solos, Cubre
        <5>3. j = k
          BY <4>2, <5>1, <5>2 DEF Solos, UnoSolo
        <5>4. QED
          BY <1>7, <4>2, <5>2, <5>3
      <4>3. QED
        BY <1>5, <3>0, <4>1, <4>2
    <3>3. QED
      BY <3>1, <3>2
  <2>3. ASSUME a \in RR PROVE a \in R \cup I
    <3>1. CASE a \in I
      BY <3>1
    <3>2. CASE a \notin I
      <4>1. d + t <= a /\ a < total
        BY <1>5, <2>3
      <4>2. d <= a
        BY <1>1, <4>1
      <4>3. ASSUME NEW q \in Pids, NEW j \in 1 .. Len(ar[q]), <<q, j>> \notin mov
            PROVE  ~ EnHueco(ar[q], a, j)
        BY <1>5, <1>7, <1>8, <2>3, <3>2, <4>3
      <4>4. QED
        BY <1>5, <4>1, <4>2, <4>3
    <3>3. QED
      BY <3>1, <3>2
  <2>4. ASSUME a \in J PROVE a \in R \cup I
    <3>1. d <= a /\ a < d + t /\ EnArea(a, d, t)
      BY <1>2, <2>4 DEF EnArea
    <3>2. a < total
      <4>1. t > 0
        BY <1>1, <3>1
      <4>2. QED
        BY <1>1, <1>3, <3>1, <4>1
    <3>3. ASSUME NEW q \in Pids, NEW j \in 1 .. Len(ar[q]), <<q, j>> \notin mov,
                 EnHueco(ar[q], a, j)
          PROVE  a \in I
      <4>1. q = p /\ j = k
        BY <3>1, <3>3, DestinoLibre DEF t
      <4>2. QED
        BY <1>8, <3>3, <4>1
    <3>4. QED
      BY <1>5, <3>1, <3>2, <3>3
  <2>5. QED
    BY <2>1, <2>2, <2>3, <2>4
<1>13. R \cup I = RR \cup J
  BY <1>6, <1>9, <1>12
<1>14. /\ IsFiniteSet(R) /\ Cardinality(R) \in Nat
       /\ IsFiniteSet(RR) /\ Cardinality(RR) \in Nat
  BY <1>1, RestanteFinito DEF R, RR
<1>15. Cardinality(R \cup I) = Cardinality(R) + t
  <2>1. Cardinality(R \cup I) = Cardinality(R) + Cardinality(I) - Cardinality(R \cap I)
    BY <1>2, <1>14, FS_Union
  <2>2. Cardinality(R \cap I) = 0
    BY <1>10, FS_EmptySet
  <2>3. QED
    BY <1>1, <1>2, <1>14, <2>1, <2>2
<1>16. Cardinality(RR \cup J) = Cardinality(RR) + t
  <2>1. Cardinality(RR \cup J) = Cardinality(RR) + Cardinality(J) - Cardinality(RR \cap J)
    BY <1>2, <1>14, FS_Union
  <2>2. Cardinality(RR \cap J) = 0
    BY <1>11, FS_EmptySet
  <2>3. QED
    BY <1>1, <1>2, <1>14, <2>1, <2>2
<1>17. Cardinality(RR) = Cardinality(R)
  <2>1. Cardinality(R \cup I) = Cardinality(RR \cup J)
    BY <1>13
  <2>2. Cardinality(R) + t = Cardinality(RR) + t
    BY <1>15, <1>16, <2>1
  <2>3. \A x, y, z \in Nat : x + z = y + z => y = x
    OBVIOUS
  <2>4. QED
    BY <1>1, <1>14, <2>2, <2>3
<1>18. QED
  BY <1>17 DEF RR, R, n, m, t

\* When every segment is placed it is one area, from destino on.
LEMMA RestanteFinal ==
  ASSUME NEW ar, NEW mov, NEW d \in Nat, NEW total \in Nat, d <= total,
         \A p \in Pids : \A k \in 1 .. Len(ar[p]) : <<p, k>> \in mov
  PROVE  Cardinality(Restante(ar, mov, d, total)) = total - d
<1>1. Restante(ar, mov, d, total) = d .. total - 1
  BY DEF Restante
<1>2. Cardinality(d .. total - 1) = IF d > total - 1 THEN 0 ELSE (total - 1) - d + 1
  BY FS_Interval
<1>3. QED
  BY <1>1, <1>2

-----------------------------------------------------------------------------
(* The state.                                                               *)

\* The areas of a segment table, in its order.
AreasDe(l) == [i \in 1 .. Len(l) |-> [base |-> l[i].base, tamanio |-> l[i].limite]]

Areas == [p \in Pids |-> HuecosDe(p)]

\* What proceso_dessuspender has taken and not yet written in the table, as
\* the list of areas that its rollback would free: bases bs for the segments
\* ss, the first r of them written.
Reservadas(bs, ss, r) ==
  [j \in 1 .. Len(bs) - r |-> [base |-> bs[r + j], tamanio |-> ss[r + j].limite]]

ListaReservas == Reservadas(bases, EnSwap, restaurados)

\* The sticks in the list answer, and memoria_total is the sum of their sizes.
TamaniosEnLista ==
  [j \in DOMAIN lista_memory_sticks |-> TamStick[lista_memory_sticks[j]]]

SticksEnLista ==
  /\ \A k \in DOMAIN lista_memory_sticks :
       stick_estado[lista_memory_sticks[k]] = "vivo"
  /\ memoria_total = Sumas(TamaniosEnLista)[Len(TamaniosEnLista)]

\* Who has segments, in memory or in the SWAP, and what the process of the
\* request under way is known to be.
Contextos ==
  /\ \A p \in Pids : p \notin contextos => tabla[p] = <<>>
  /\ procesos_en_swap \subseteq contextos
  /\ pc \in {"dess_asignar", "dess_restaurar"} => pedido.pid \in procesos_en_swap
  /\ pc = "susp_copiar" => pedido.pid \in contextos
  /\ pc = "finalizar" => /\ tabla[pedido.pid] = <<>>
                         /\ pedido.pid \notin procesos_en_swap
  /\ pc \in {"confirmar", "compactar", "reintentar"} =>
       /\ pedido.pid \in contextos
       /\ ~ (SegmentMaxSize > 0 /\ pedido.tam > SegmentMaxSize)
  /\ pc \notin {"compactar", "reintentar"} => destino = 0 /\ movidos = {}

\* Every address has its owner; a compaction leaves the free list stale until
\* it ends.
Memoria ==
  SinSticksCaidos =>
    /\ SticksEnLista
    /\ pc # "compactar" =>
         \A a \in Nat : Reparto(lista_huecos, ListaReservas, Areas, memoria_total, a)
    /\ pc = "compactar" => /\ AMedias(Areas, movidos, destino, memoria_total)
                           /\ \A a \in Nat : Solos(Areas, a)

\* The bytes that were counted when the compaction was asked for are there, and
\* in one hole when it has ended.
Alcanza ==
  SinSticksCaidos =>
    /\ pc \in {"confirmar", "compactar"} =>
         pedido.tam <= Cardinality(Restante(Areas, movidos, destino, memoria_total))
    /\ pc = "reintentar" /\ pedido.tam > 0 =>
         \E i \in 1 .. Len(lista_huecos) : pedido.tam <= lista_huecos[i].tamanio

MemoriaInv == TipoInv /\ Contextos /\ Memoria /\ Alcanza

-----------------------------------------------------------------------------
\* The areas of a table are a list as long as the table.
LEMMA AreasDeTipo ==
  ASSUME NEW l \in Seq(Segmento)
  PROVE  /\ AreasDe(l) \in Seq(Hueco)
         /\ Len(AreasDe(l)) = Len(l)
         /\ \A i \in 1 .. Len(l) :
              AreasDe(l)[i] = [base |-> l[i].base, tamanio |-> l[i].limite]
<1>1. Len(l) \in Nat /\ \A i \in 1 .. Len(l) : l[i] \in Segmento
  BY LenProperties, ElementOfSeq
<1>2. AreasDe(l) \in [1 .. Len(l) -> Hueco]
  BY <1>1 DEF AreasDe, Segmento, Hueco
<1>3. QED
  BY <1>1, <1>2, FuncionEsSeq, ZenonT(60) DEF AreasDe

\* What the operations on a table do to its areas: a segment is added, taken
\* out, moved, written.
LEMMA AreasDeOperaciones ==
  ASSUME NEW l \in Seq(Segmento)
  PROVE  /\ AreasDe(<<>>) = <<>>
         /\ \A s \in Segmento :
              AreasDe(Append(l, s))
                = Append(AreasDe(l), [base |-> s.base, tamanio |-> s.limite])
         /\ \A k \in 1 .. Len(l) : AreasDe(RemoveAt(l, k)) = RemoveAt(AreasDe(l), k)
         /\ \A k \in 1 .. Len(l), s \in Segmento :
              AreasDe([l EXCEPT ![k] = s])
                = [AreasDe(l) EXCEPT ![k] = [base |-> s.base, tamanio |-> s.limite]]
         /\ \A k \in 1 .. Len(l), s \in Segmento :
              s.base = l[k].base /\ s.limite = l[k].limite =>
                AreasDe([l EXCEPT ![k] = s]) = AreasDe(l)
<1>0. /\ Len(l) \in Nat
      /\ AreasDe(l) \in Seq(Hueco)
      /\ Len(AreasDe(l)) = Len(l)
      /\ \A i \in 1 .. Len(l) :
           AreasDe(l)[i] = [base |-> l[i].base, tamanio |-> l[i].limite]
  BY LenProperties, AreasDeTipo
<1>1. AreasDe(<<>>) = <<>>
  <2>1. <<>> \in Seq(Segmento) /\ Len(<<>>) = 0
    BY EmptySeq
  <2>2. AreasDe(<<>>) \in Seq(Hueco) /\ Len(AreasDe(<<>>)) = 0
    BY <2>1, AreasDeTipo
  <2>3. QED
    BY <2>2, EmptySeq
<1>2. ASSUME NEW s \in Segmento
      PROVE  AreasDe(Append(l, s))
               = Append(AreasDe(l), [base |-> s.base, tamanio |-> s.limite])
  <2> DEFINE h == [base |-> s.base, tamanio |-> s.limite]
             x == Append(l, s)
             y == Append(AreasDe(l), h)
  <2>1. h \in Hueco
    BY DEF Segmento, Hueco
  <2>2. /\ x \in Seq(Segmento) /\ Len(x) = Len(l) + 1
        /\ \A i \in 1 .. Len(l) : x[i] = l[i]
        /\ x[Len(l) + 1] = s
    BY AppendProperties
  <2>3. /\ y \in Seq(Hueco) /\ Len(y) = Len(l) + 1
        /\ \A i \in 1 .. Len(l) : y[i] = AreasDe(l)[i]
        /\ y[Len(l) + 1] = h
    BY <1>0, <2>1, AppendProperties
  <2> HIDE DEF x, y
  <2>4. /\ AreasDe(x) \in Seq(Hueco) /\ Len(AreasDe(x)) = Len(x)
        /\ \A i \in 1 .. Len(x) : AreasDe(x)[i] = [base |-> x[i].base, tamanio |-> x[i].limite]
    BY <2>2, AreasDeTipo
  <2>5. ASSUME NEW i \in 1 .. Len(x) PROVE AreasDe(x)[i] = y[i]
    <3>1. CASE i \in 1 .. Len(l)
      BY <1>0, <2>2, <2>3, <2>4, <3>1, ZenonT(60)
    <3>2. CASE i = Len(l) + 1
      BY <2>2, <2>3, <2>4, <3>2
    <3>3. QED
      BY <1>0, <2>2, <3>1, <3>2
  <2>6. AreasDe(x) = y
    BY <2>2, <2>3, <2>4, <2>5, SeqEqual
  <2>7. QED
    BY <2>6 DEF x, y
<1>3. ASSUME NEW k \in 1 .. Len(l)
      PROVE  AreasDe(RemoveAt(l, k)) = RemoveAt(AreasDe(l), k)
  <2> DEFINE x == RemoveAt(l, k)
             y == RemoveAt(AreasDe(l), k)
  <2>1. /\ x \in Seq(Segmento) /\ Len(x) = Len(l) - 1
        /\ \A i \in 1 .. Len(l) - 1 : x[i] = IF i < k THEN l[i] ELSE l[i + 1]
    BY RemoveAtElementos
  <2>2. /\ y \in Seq(Hueco) /\ Len(y) = Len(l) - 1
        /\ \A i \in 1 .. Len(l) - 1 :
             y[i] = IF i < k THEN AreasDe(l)[i] ELSE AreasDe(l)[i + 1]
    <3> HIDE DEF y
    <3>1. k \in 1 .. Len(AreasDe(l))
      BY <1>0
    <3>2. QED
      BY <1>0, <3>1, RemoveAtElementos DEF y
  <2> HIDE DEF x, y
  <2>3. /\ AreasDe(x) \in Seq(Hueco) /\ Len(AreasDe(x)) = Len(x)
        /\ \A i \in 1 .. Len(x) : AreasDe(x)[i] = [base |-> x[i].base, tamanio |-> x[i].limite]
    BY <2>1, AreasDeTipo
  <2>4. ASSUME NEW i \in 1 .. Len(x) PROVE AreasDe(x)[i] = y[i]
    <3>1. i \in 1 .. Len(l) - 1 /\ i \in 1 .. Len(l) /\ i + 1 \in 1 .. Len(l)
      BY <1>0, <2>1
    <3>2. CASE i < k
      BY <1>0, <2>1, <2>2, <2>3, <3>1, <3>2
    <3>3. CASE ~ (i < k)
      BY <1>0, <2>1, <2>2, <2>3, <3>1, <3>3
    <3>4. QED
      BY <3>2, <3>3
  <2>5. AreasDe(x) = y
    BY <2>1, <2>2, <2>3, <2>4, SeqEqual
  <2>6. QED
    BY <2>5 DEF x, y
<1>4. ASSUME NEW k \in 1 .. Len(l), NEW s \in Segmento
      PROVE  AreasDe([l EXCEPT ![k] = s])
               = [AreasDe(l) EXCEPT ![k] = [base |-> s.base, tamanio |-> s.limite]]
  <2> DEFINE h == [base |-> s.base, tamanio |-> s.limite]
             x == [l EXCEPT ![k] = s]
             y == [AreasDe(l) EXCEPT ![k] = h]
  <2>1. h \in Hueco
    BY DEF Segmento, Hueco
  <2>2. /\ x \in Seq(Segmento) /\ Len(x) = Len(l)
        /\ \A i \in 1 .. Len(l) : x[i] = IF i = k THEN s ELSE l[i]
    BY ExceptSeq
  <2>3. /\ y \in Seq(Hueco) /\ Len(y) = Len(l)
        /\ \A i \in 1 .. Len(l) : y[i] = IF i = k THEN h ELSE AreasDe(l)[i]
    BY <1>0, <2>1, ExceptSeq
  <2> HIDE DEF x, y
  <2>4. /\ AreasDe(x) \in Seq(Hueco) /\ Len(AreasDe(x)) = Len(x)
        /\ \A i \in 1 .. Len(x) : AreasDe(x)[i] = [base |-> x[i].base, tamanio |-> x[i].limite]
    BY <2>2, AreasDeTipo
  <2>5. ASSUME NEW i \in 1 .. Len(x) PROVE AreasDe(x)[i] = y[i]
    <3>1. CASE i = k
      BY <2>2, <2>3, <2>4, <3>1
    <3>2. CASE i # k
      BY <1>0, <2>2, <2>3, <2>4, <3>2
    <3>3. QED
      BY <3>1, <3>2
  <2>6. AreasDe(x) = y
    BY <2>2, <2>3, <2>4, <2>5, SeqEqual
  <2>7. QED
    BY <2>6 DEF x, y, h
<1>5. ASSUME NEW k \in 1 .. Len(l), NEW s \in Segmento,
             s.base = l[k].base, s.limite = l[k].limite
      PROVE  AreasDe([l EXCEPT ![k] = s]) = AreasDe(l)
  <2> DEFINE x == [l EXCEPT ![k] = s]
  <2>1. /\ x \in Seq(Segmento) /\ Len(x) = Len(l)
        /\ \A i \in 1 .. Len(l) : x[i] = IF i = k THEN s ELSE l[i]
    BY ExceptSeq
  <2> HIDE DEF x
  <2>2. /\ AreasDe(x) \in Seq(Hueco) /\ Len(AreasDe(x)) = Len(x)
        /\ \A i \in 1 .. Len(x) : AreasDe(x)[i] = [base |-> x[i].base, tamanio |-> x[i].limite]
    BY <2>1, AreasDeTipo
  <2>3. ASSUME NEW i \in 1 .. Len(x) PROVE AreasDe(x)[i] = AreasDe(l)[i]
    <3>1. x[i].base = l[i].base /\ x[i].limite = l[i].limite
      BY <1>5, <2>1
    <3>2. QED
      BY <1>0, <2>1, <2>2, <3>1
  <2>4. AreasDe(x) = AreasDe(l)
    BY <1>0, <2>1, <2>2, <2>3, SeqEqual
  <2>5. QED
    BY <2>4 DEF x
<1>6. QED
  BY <1>1, <1>2, <1>3, <1>4, <1>5

\* The areas of every process are lists of holes, position by position those of
\* its segments.
LEMMA AreasTipo ==
  ASSUME TypeOK
  PROVE  /\ Areas \in [Pids -> Seq(Hueco)]
         /\ \A p \in Pids : /\ Areas[p] = AreasDe(tabla[p])
                            /\ Areas[p] = HuecosDe(p)
                            /\ Len(Areas[p]) = Len(tabla[p])
                            /\ DOMAIN tabla[p] = 1 .. Len(Areas[p])
         /\ \A p \in Pids : \A k \in 1 .. Len(Areas[p]) :
              /\ Areas[p][k].base = tabla[p][k].base
              /\ Areas[p][k].tamanio = tabla[p][k].limite
              /\ tabla[p][k].base \in Nat
              /\ tabla[p][k].limite \in Nat
<1>1. ASSUME NEW p \in Pids
      PROVE  /\ HuecosDe(p) \in Seq(Hueco)
             /\ HuecosDe(p) = AreasDe(tabla[p])
             /\ Len(HuecosDe(p)) = Len(tabla[p])
             /\ DOMAIN tabla[p] = 1 .. Len(tabla[p])
             /\ \A k \in 1 .. Len(tabla[p]) :
                  /\ HuecosDe(p)[k] = [base |-> tabla[p][k].base, tamanio |-> tabla[p][k].limite]
                  /\ tabla[p][k] \in Segmento
  BY TablaTipo, AreasDeTipo DEF HuecosDe, AreasDe
<1>2. \A p \in Pids : Areas[p] = HuecosDe(p)
  BY DEF Areas
<1>3. Areas \in [Pids -> Seq(Hueco)]
  BY <1>1 DEF Areas
<1>4. ASSUME NEW p \in Pids, NEW k \in 1 .. Len(Areas[p])
      PROVE  /\ Areas[p][k].base = tabla[p][k].base
             /\ Areas[p][k].tamanio = tabla[p][k].limite
             /\ tabla[p][k].base \in Nat
             /\ tabla[p][k].limite \in Nat
  <2>1. Areas[p] = HuecosDe(p) /\ k \in 1 .. Len(tabla[p])
    BY <1>1, <1>2
  <2>2. tabla[p][k] \in Segmento
    BY <1>1, <2>1
  <2>3. HuecosDe(p)[k] = [base |-> tabla[p][k].base, tamanio |-> tabla[p][k].limite]
    BY <1>1, <2>1
  <2>4. QED
    BY <2>1, <2>2, <2>3 DEF Segmento
<1>5. QED
  BY <1>1, <1>2, <1>3, <1>4

\* A step that changes the table of one process changes its areas.
LEMMA AreasCambian ==
  ASSUME TypeOK, NEW p \in Pids, NEW l, tabla' = [tabla EXCEPT ![p] = l]
  PROVE  Areas' = [Areas EXCEPT ![p] = AreasDe(l)]
<1>1. \A q \in Pids : tabla'[q] = IF q = p THEN l ELSE tabla[q]
  BY DEF TypeOK
<1>2. Areas' = [q \in Pids |-> AreasDe(tabla'[q])]
  BY DEF Areas, HuecosDe, AreasDe
<1>3. Areas = [q \in Pids |-> AreasDe(tabla[q])]
  BY DEF Areas, HuecosDe, AreasDe
<1>4. \A q \in Pids : AreasDe(tabla'[q]) = IF q = p THEN AreasDe(l) ELSE AreasDe(tabla[q])
  BY <1>1
<1>5. QED
  BY <1>2, <1>3, <1>4

\* The areas taken, as a list.
LEMMA ReservadasTipo ==
  ASSUME NEW bs \in Seq(Nat), NEW ss, NEW r \in 0 .. Len(bs),
         \A j \in 1 .. Len(bs) : ss[j].limite \in Nat
  PROVE  /\ Reservadas(bs, ss, r) \in Seq(Hueco)
         /\ Len(Reservadas(bs, ss, r)) = Len(bs) - r
         /\ \A j \in 1 .. Len(bs) - r :
              Reservadas(bs, ss, r)[j] = [base |-> bs[r + j], tamanio |-> ss[r + j].limite]
<1> DEFINE n == Len(bs) - r
<1>1. Len(bs) \in Nat /\ \A j \in 1 .. Len(bs) : bs[j] \in Nat
  BY LenProperties, ElementOfSeq
<1>2. n \in Nat
  BY <1>1
<1>3. ASSUME NEW j \in 1 .. n
      PROVE  [base |-> bs[r + j], tamanio |-> ss[r + j].limite] \in Hueco
  <2>1. r + j \in 1 .. Len(bs)
    BY <1>1
  <2>2. QED
    BY <1>1, <2>1 DEF Hueco
<1>4. Reservadas(bs, ss, r) \in [1 .. n -> Hueco]
  BY <1>3 DEF Reservadas
<1> HIDE DEF n
<1>5. Reservadas(bs, ss, r) \in Seq(Hueco) /\ Len(Reservadas(bs, ss, r)) = n
  BY <1>2, <1>4, FuncionEsSeq
<1>6. QED
  BY <1>5 DEF Reservadas, n

\* One more area is taken.
LEMMA ReservadasAgregar ==
  ASSUME NEW bs \in Seq(Nat), NEW ss, NEW b \in Nat,
         \A j \in 1 .. Len(bs) + 1 : ss[j].limite \in Nat
  PROVE  Reservadas(Append(bs, b), ss, 0)
           = Append(Reservadas(bs, ss, 0), [base |-> b, tamanio |-> ss[Len(bs) + 1].limite])
<1> DEFINE h == [base |-> b, tamanio |-> ss[Len(bs) + 1].limite]
           c == Append(bs, b)
           x == Reservadas(c, ss, 0)
           z == Reservadas(bs, ss, 0)
           y == Append(z, h)
<1>1. Len(bs) \in Nat
  BY LenProperties
<1>2. /\ c \in Seq(Nat) /\ Len(c) = Len(bs) + 1
      /\ \A i \in 1 .. Len(bs) : c[i] = bs[i]
      /\ c[Len(bs) + 1] = b
  BY AppendProperties
<1>3. h \in Hueco
  BY <1>1 DEF Hueco
<1>4. /\ z \in Seq(Hueco) /\ Len(z) = Len(bs)
      /\ \A j \in 1 .. Len(bs) : z[j] = [base |-> bs[j], tamanio |-> ss[j].limite]
  <2>1. 0 \in 0 .. Len(bs) /\ \A j \in 1 .. Len(bs) : ss[j].limite \in Nat
    BY <1>1
  <2>2. /\ z \in Seq(Hueco) /\ Len(z) = Len(bs) - 0
        /\ \A j \in 1 .. Len(bs) - 0 :
             z[j] = [base |-> bs[0 + j], tamanio |-> ss[0 + j].limite]
    BY <2>1, ReservadasTipo
  <2>3. QED
    BY <1>1, <2>2
<1> HIDE DEF z
<1>5. /\ y \in Seq(Hueco) /\ Len(y) = Len(bs) + 1
      /\ \A j \in 1 .. Len(bs) : y[j] = z[j]
      /\ y[Len(bs) + 1] = h
  BY <1>3, <1>4, AppendProperties
<1> HIDE DEF c, y
<1>6. /\ x \in Seq(Hueco) /\ Len(x) = Len(bs) + 1
      /\ \A j \in 1 .. Len(bs) + 1 : x[j] = [base |-> c[j], tamanio |-> ss[j].limite]
  <2>1. 0 \in 0 .. Len(c) /\ \A j \in 1 .. Len(c) : ss[j].limite \in Nat
    BY <1>1, <1>2
  <2>2. /\ x \in Seq(Hueco) /\ Len(x) = Len(c) - 0
        /\ \A j \in 1 .. Len(c) - 0 :
             x[j] = [base |-> c[0 + j], tamanio |-> ss[0 + j].limite]
    BY <1>2, <2>1, ReservadasTipo
  <2>3. QED
    BY <1>1, <1>2, <2>2
<1> HIDE DEF x
<1>7. ASSUME NEW j \in 1 .. Len(bs) + 1 PROVE x[j] = y[j]
  <2>1. CASE j \in 1 .. Len(bs)
    BY <1>2, <1>4, <1>5, <1>6, <2>1, ZenonT(60)
  <2>2. CASE j = Len(bs) + 1
    BY <1>2, <1>5, <1>6, <2>2
  <2>3. QED
    BY <1>1, <2>1, <2>2
<1>8. x = y
  BY <1>5, <1>6, <1>7, SeqEqual
<1>9. QED
  BY <1>8 DEF x, y, z, c

\* The first of them is written in the table.
LEMMA ReservadasQuitar ==
  ASSUME NEW bs \in Seq(Nat), NEW ss, NEW r \in 0 .. Len(bs) - 1,
         \A j \in 1 .. Len(bs) : ss[j].limite \in Nat
  PROVE  /\ Len(Reservadas(bs, ss, r)) # 0
         /\ Reservadas(bs, ss, r)[1] = [base |-> bs[r + 1], tamanio |-> ss[r + 1].limite]
         /\ Reservadas(bs, ss, r + 1) = RemoveAt(Reservadas(bs, ss, r), 1)
<1> DEFINE z == Reservadas(bs, ss, r)
           x == Reservadas(bs, ss, r + 1)
           y == RemoveAt(z, 1)
           n == Len(bs) - r
<1>1. Len(bs) \in Nat /\ n \in Nat /\ n # 0
  BY LenProperties
<1>2. /\ z \in Seq(Hueco) /\ Len(z) = n
      /\ \A j \in 1 .. n : z[j] = [base |-> bs[r + j], tamanio |-> ss[r + j].limite]
  <2>1. r \in 0 .. Len(bs)
    BY <1>1
  <2>2. QED
    BY <2>1, ReservadasTipo
<1>3. /\ x \in Seq(Hueco) /\ Len(x) = n - 1
      /\ \A j \in 1 .. n - 1 : x[j] = [base |-> bs[r + 1 + j], tamanio |-> ss[r + 1 + j].limite]
  <2>1. r + 1 \in 0 .. Len(bs)
    BY <1>1
  <2>2. /\ x \in Seq(Hueco) /\ Len(x) = Len(bs) - (r + 1)
        /\ \A j \in 1 .. Len(bs) - (r + 1) :
             x[j] = [base |-> bs[r + 1 + j], tamanio |-> ss[r + 1 + j].limite]
    BY <2>1, ReservadasTipo
  <2>3. Len(bs) - (r + 1) = n - 1
    BY <1>1
  <2>4. QED
    BY <2>2, <2>3
<1> HIDE DEF x, z
<1>4. 1 \in 1 .. Len(z)
  BY <1>1, <1>2
<1>5. /\ y \in Seq(Hueco) /\ Len(y) = n - 1
      /\ \A j \in 1 .. n - 1 : y[j] = IF j < 1 THEN z[j] ELSE z[j + 1]
  BY <1>2, <1>4, RemoveAtElementos
<1> HIDE DEF y
<1>6. ASSUME NEW j \in 1 .. n - 1 PROVE x[j] = y[j]
  <2>1. y[j] = z[j + 1] /\ j + 1 \in 1 .. n
    BY <1>1, <1>5
  <2>2. z[j + 1] = [base |-> bs[r + (j + 1)], tamanio |-> ss[r + (j + 1)].limite]
    BY <1>2, <2>1
  <2>3. r + (j + 1) = r + 1 + j
    OBVIOUS
  <2>4. QED
    BY <1>3, <2>1, <2>2, <2>3
<1>7. x = y
  BY <1>3, <1>5, <1>6, SeqEqual
<1>8. z[1] = [base |-> bs[r + 1], tamanio |-> ss[r + 1].limite]
  BY <1>1, <1>2
<1>9. QED
  BY <1>1, <1>2, <1>7, <1>8 DEF x, y, z

\* What the segments of the areas taken are known to be.
LEMMA ReservasHay ==
  ASSUME TipoInv
  PROVE  /\ bases \in Seq(Nat) /\ Len(bases) \in Nat
         /\ restaurados \in 0 .. Len(bases)
         /\ pc \in {"dess_asignar", "dess_restaurar"} =>
              /\ pedido.pid \in Pids
              /\ Len(EnSwap) \in Nat /\ Len(bases) <= Len(EnSwap)
              /\ \A j \in 1 .. Len(EnSwap) : EnSwap[j] \in SegmentoSwap
              /\ \A j \in 1 .. Len(EnSwap) : EnSwap[j].limite \in Nat
         /\ \A j \in 1 .. Len(bases) : EnSwap[j].limite \in Nat
<1>1. bases \in Seq(Nat) /\ Len(bases) \in Nat
  BY LenProperties DEF TipoInv, TypeOK
<1>2. CASE pc \notin {"dess_asignar", "dess_restaurar"}
  <2>1. Len(bases) = 0 /\ restaurados = 0
    BY <1>2, EmptySeq DEF TipoInv, Locales
  <2>2. QED
    BY <1>1, <1>2, <2>1
<1>3. CASE pc \in {"dess_asignar", "dess_restaurar"}
  <2>1. pedido.pid \in Pids
    BY <1>3 DEF TipoInv, TypeOK
  <2>2. Len(EnSwap) \in Nat /\ \A i \in 1 .. Len(EnSwap) : EnSwap[i] \in SegmentoSwap
    BY <2>1, SegmentosSwapTipo DEF TipoInv, EnSwap
  <2>3. \A i \in 1 .. Len(EnSwap) : EnSwap[i].limite \in Nat
    BY <2>2 DEF SegmentoSwap
  <2>4. Len(bases) <= Len(EnSwap) /\ restaurados \in 0 .. Len(bases)
    BY <1>1, <1>3, <2>2 DEF TipoInv, TypeOK, Locales
  <2>5. QED
    BY <1>1, <2>1, <2>2, <2>3, <2>4
<1>4. QED
  BY <1>2, <1>3

\* There are none outside a de-suspension.
LEMMA ReservasTipo ==
  ASSUME TipoInv
  PROVE  /\ ListaReservas \in Seq(Hueco)
         /\ Len(ListaReservas) = Len(bases) - restaurados
         /\ \A j \in 1 .. Len(bases) - restaurados :
              ListaReservas[j] = [base    |-> bases[restaurados + j],
                                  tamanio |-> EnSwap[restaurados + j].limite]
         /\ Len(bases) - restaurados = 0 => ListaReservas = <<>>
<1>1. /\ ListaReservas \in Seq(Hueco)
      /\ Len(ListaReservas) = Len(bases) - restaurados
      /\ \A j \in 1 .. Len(bases) - restaurados :
           ListaReservas[j] = [base    |-> bases[restaurados + j],
                               tamanio |-> EnSwap[restaurados + j].limite]
  BY ReservasHay, ReservadasTipo DEF ListaReservas
<1>2. QED
  BY <1>1, EmptySeq

\* The same for a request that is not a de-suspension.
LEMMA SinReservas ==
  ASSUME TipoInv, pc \notin {"dess_asignar", "dess_restaurar"}
  PROVE  ListaReservas = <<>>
<1>1. Len(bases) - restaurados = 0
  BY EmptySeq DEF TipoInv, Locales
<1>2. QED
  BY <1>1, ReservasTipo

-----------------------------------------------------------------------------
\* memory_stick_localizar finds every address below memoria_total, in a stick
\* that answers.
LEMMA TodoAlcanzable ==
  ASSUME TypeOK, ConstantesOK, NulosOK, SticksEnLista, NEW dir \in Nat, dir < memoria_total
  PROVE  Alcanzable(dir)
<1> DEFINE ts == TamaniosEnLista
           ks == {k \in DOMAIN lista_memory_sticks : CaeEn(dir, k) # {}}
           kk == CHOOSE k \in ks : TRUE
<1>1. /\ Len(lista_memory_sticks) \in Nat
      /\ DOMAIN lista_memory_sticks = 1 .. Len(lista_memory_sticks)
      /\ \A k \in 1 .. Len(lista_memory_sticks) : lista_memory_sticks[k] \in Sticks
  BY LenProperties, ElementOfSeq DEF TypeOK
<1>2. \A k \in 1 .. Len(lista_memory_sticks) : TamStick[lista_memory_sticks[k]] \in Nat
  BY <1>1 DEF ConstantesOK
<1>3. /\ ts \in Seq(Nat) /\ Len(ts) = Len(lista_memory_sticks)
      /\ \A k \in 1 .. Len(ts) : ts[k] = TamStick[lista_memory_sticks[k]]
  <2>1. ts \in [1 .. Len(lista_memory_sticks) -> Nat]
    BY <1>1, <1>2 DEF TamaniosEnLista
  <2>2. Len(ts) = Len(lista_memory_sticks) /\ ts \in Seq(Nat)
    BY <1>1, <2>1, FuncionEsSeq
  <2>3. QED
    BY <1>1, <2>2 DEF TamaniosEnLista
<1>4. dir < Sumas(ts)[Len(ts)]
  BY DEF SticksEnLista
<1> HIDE DEF ts
<1>5. PICK k \in 1 .. Len(ts) : Sumas(ts)[k - 1] <= dir /\ dir < Sumas(ts)[k - 1] + ts[k]
  BY <1>3, <1>4, SumasTramo
<1>6. Acumulado(k) = Sumas(ts)[k - 1]
  BY DEF Acumulado, TamaniosEnLista, ts
<1>7. Sumas(ts)[k - 1] \in Nat
  <2>1. k - 1 \in 0 .. Len(ts)
    BY <1>1, <1>3
  <2>2. QED
    BY <1>3, <2>1, SumasPasoAPaso
<1>8. dir - Sumas(ts)[k - 1] \in CaeEn(dir, k)
  <2>1. TamStick[lista_memory_sticks[k]] = ts[k] /\ ts[k] \in Nat
    BY <1>2, <1>3
  <2>2. dir - Sumas(ts)[k - 1] \in 0 .. TamStick[lista_memory_sticks[k]] - 1
    BY <1>5, <1>7, <2>1
  <2>3. QED
    BY <1>6, <1>7, <2>2 DEF CaeEn
<1>9. k \in ks
  BY <1>1, <1>3, <1>8
<1>10. kk \in DOMAIN lista_memory_sticks
  BY <1>9
<1>11. MemoryStickLocalizar(dir).fd = lista_memory_sticks[kk]
  BY <1>9 DEF MemoryStickLocalizar
<1> HIDE DEF ks, kk
<1>12. lista_memory_sticks[kk] \in Sticks /\ stick_estado[lista_memory_sticks[kk]] = "vivo"
  BY <1>1, <1>10 DEF SticksEnLista
<1>13. MemoryStickLocalizar(dir) # SinStick
  BY <1>11, <1>12 DEF SinStick, NulosOK
<1>14. QED
  BY <1>11, <1>12, <1>13 DEF Alcanzable

\* So does a copy of any area of the memory.
LEMMA PuedeAccederTodo ==
  ASSUME TypeOK, ConstantesOK, NulosOK, SticksEnLista,
         NEW b \in Nat, NEW t \in Nat, t > 0 => b + t <= memoria_total
  PROVE  PuedeAcceder(b, t)
<1> SUFFICES ASSUME NEW o \in 0 .. t - 1 PROVE Alcanzable(b + o)
  BY DEF PuedeAcceder
<1>1. b + o \in Nat /\ b + o < memoria_total
  BY DEF TypeOK
<1>2. QED
  BY <1>1, TodoAlcanzable

\* memory_stick_agregar keeps memoria_total the sum of the sizes.
LEMMA SticksEnListaAgregar ==
  ASSUME TypeOK, ConstantesOK, SticksEnLista, NEW f \in Sticks,
         stick_estado' = [stick_estado EXCEPT ![f] = "vivo"],
         lista_memory_sticks' = Append(lista_memory_sticks, f),
         memoria_total' = memoria_total + TamStick[f]
  PROVE  SticksEnLista'
<1> DEFINE l == lista_memory_sticks
           m == Append(lista_memory_sticks, f)
           tl == [j \in DOMAIN l |-> TamStick[l[j]]]
           tm == [j \in DOMAIN m |-> TamStick[m[j]]]
<1>1. /\ Len(l) \in Nat /\ DOMAIN l = 1 .. Len(l)
      /\ \A k \in 1 .. Len(l) : l[k] \in Sticks
  BY LenProperties, ElementOfSeq DEF TypeOK
<1>2. /\ m \in Seq(Sticks) /\ Len(m) = Len(l) + 1
      /\ \A k \in 1 .. Len(l) : m[k] = l[k]
      /\ m[Len(l) + 1] = f
  BY AppendProperties DEF TypeOK
<1>3. DOMAIN m = 1 .. Len(m) /\ \A k \in 1 .. Len(m) : m[k] \in Sticks
  BY <1>2, LenProperties, ElementOfSeq
<1> HIDE DEF l, m
<1>4. /\ tl \in Seq(Nat) /\ Len(tl) = Len(l)
      /\ \A k \in 1 .. Len(l) : tl[k] = TamStick[l[k]]
  <2>1. tl \in [1 .. Len(l) -> Nat]
    BY <1>1 DEF ConstantesOK
  <2>2. QED
    BY <1>1, <2>1, FuncionEsSeq
<1>5. /\ tm \in Seq(Nat) /\ Len(tm) = Len(m)
      /\ \A k \in 1 .. Len(m) : tm[k] = TamStick[m[k]]
  <2>1. tm \in [1 .. Len(m) -> Nat]
    BY <1>3 DEF ConstantesOK
  <2>2. Len(m) \in Nat
    BY <1>1, <1>2
  <2>3. QED
    BY <1>3, <2>1, <2>2, FuncionEsSeq
<1> HIDE DEF tl, tm
<1>6. Len(tm) = Len(tl) + 1 /\ tm[Len(tm)] = TamStick[f]
      /\ \A k \in 1 .. Len(tl) : tm[k] = tl[k]
  BY <1>1, <1>2, <1>4, <1>5
<1>7. Sumas(tm)[Len(tm)] = Sumas(tl)[Len(tl)] + TamStick[f]
  <2>1. Len(tm) = Len(tl) + 1
    BY <1>6
  <2>2. \A k \in 1 .. Len(tl) : tm[k] = tl[k]
    BY <1>6
  <2>3. tl \in Seq(Nat) /\ tm \in Seq(Nat)
    BY <1>4, <1>5
  <2>4. Sumas(tm)[Len(tm)] = Sumas(tl)[Len(tl)] + tm[Len(tm)]
    BY <2>1, <2>2, <2>3, SumasAgregar
  <2>5. QED
    BY <1>6, <2>4
<1>8. TamaniosEnLista = tl /\ TamaniosEnLista' = tm
  BY DEF TamaniosEnLista, tl, tm, l, m
<1>9. memoria_total' = Sumas(tm)[Len(tm)]
  BY <1>7, <1>8 DEF SticksEnLista
<1>10. \A k \in DOMAIN lista_memory_sticks' : stick_estado'[lista_memory_sticks'[k]] = "vivo"
  <2>1. lista_memory_sticks' = m
    BY DEF m
  <2>2. \A k \in 1 .. Len(l) : stick_estado[l[k]] = "vivo"
    BY <1>1 DEF SticksEnLista, l
  <2>3. \A k \in 1 .. Len(m) : k \in 1 .. Len(l) \/ k = Len(l) + 1
    BY <1>1, <1>2
  <2>4. QED
    BY <1>1, <1>2, <1>3, <2>1, <2>2, <2>3 DEF TypeOK
<1>11. QED
  BY <1>8, <1>9, <1>10 DEF SticksEnLista

-----------------------------------------------------------------------------
\* A step that leaves areas, holes and sticks alone, and either the compaction
\* under way too or does not enter one.
LEMMA MemoriaQuieta ==
  ASSUME Memoria, Alcanza, Areas' = Areas, ListaReservas' = ListaReservas,
         UNCHANGED <<lista_huecos, lista_memory_sticks, memoria_total, stick_estado>>,
         \/ UNCHANGED <<pc, pedido, destino, movidos>>
         \/ pc # "compactar" /\ pc' \notin {"confirmar", "compactar", "reintentar"}
  PROVE  Memoria' /\ Alcanza'
<1>1. SinSticksCaidos' <=> SinSticksCaidos
  BY DEF SinSticksCaidos
<1>2. SticksEnLista' <=> SticksEnLista
  BY DEF SticksEnLista, TamaniosEnLista
<1>3. Memoria'
  BY <1>1, <1>2 DEF Memoria
<1>4. Alcanza'
  BY <1>1 DEF Alcanza
<1>5. QED
  BY <1>3, <1>4

\* The end of a request forgets the areas.
LEMMA ReservasVacias ==
  ASSUME bases' = <<>>, restaurados' = 0
  PROVE  ListaReservas' = <<>>
<1>1. Len(bases') - restaurados' = 0
  BY EmptySeq
<1>2. ListaReservas' \in [1 .. 0 -> Hueco]
  BY <1>1 DEF ListaReservas, Reservadas
<1>3. ListaReservas' \in Seq(Hueco) /\ Len(ListaReservas') = 0
  BY <1>2, FuncionEsSeq
<1>4. QED
  BY <1>3, EmptySeq

\* A request that is not a de-suspension takes no areas.
LEMMA ReservasNinguna ==
  ASSUME TipoInv, pc \notin {"dess_asignar", "dess_restaurar"},
         UNCHANGED <<bases, restaurados>> \/ (bases' = <<>> /\ restaurados' = 0)
  PROVE  /\ ListaReservas = <<>> /\ ListaReservas' = <<>>
         /\ bases' = <<>> /\ restaurados' = 0
<1>1. bases' = <<>> /\ restaurados' = 0
  BY DEF TipoInv, Locales
<1>2. ListaReservas = <<>>
  BY SinReservas
<1>3. ListaReservas' = <<>>
  BY <1>1, ReservasVacias
<1>4. QED
  BY <1>1, <1>2, <1>3

\* What a process writes in a segment leaves its area alone.
LEMMA EscribirAreas ==
  ASSUME TypeOK, NEW p \in Pids, NEW k \in DOMAIN tabla[p], EscribirSegmento(p, k)
  PROVE  Areas' = Areas
<1> DEFINE s == [tabla[p][k] EXCEPT !.dato = p]
           l == [tabla[p] EXCEPT ![k] = s]
<1>1. tabla[p] \in Seq(Segmento) /\ k \in 1 .. Len(tabla[p]) /\ tabla[p][k] \in Segmento
  BY TablaTipo
<1>2. s \in Segmento /\ s.base = tabla[p][k].base /\ s.limite = tabla[p][k].limite
  BY <1>1 DEF Segmento
<1>3. tabla' = [tabla EXCEPT ![p] = l]
  BY <1>1 DEF EscribirSegmento, TypeOK
<1> HIDE DEF s
<1>4. AreasDe(l) = AreasDe(tabla[p])
  BY <1>1, <1>2, AreasDeOperaciones
<1> HIDE DEF l
<1>5. Areas' = [Areas EXCEPT ![p] = AreasDe(l)]
  BY <1>3, AreasCambian
<1>6. Areas \in [Pids -> Seq(Hueco)] /\ Areas[p] = AreasDe(tabla[p])
  BY AreasTipo
<1>7. QED
  BY <1>4, <1>5, <1>6

\* A table that is emptied when it was empty already.
LEMMA VaciarVacia ==
  ASSUME TypeOK, NEW p \in Pids, tabla[p] = <<>>, tabla' = [tabla EXCEPT ![p] = <<>>]
  PROVE  Areas' = Areas
<1>1. tabla' = tabla
  BY DEF TypeOK
<1>2. QED
  BY <1>1 DEF Areas, HuecosDe

-----------------------------------------------------------------------------
\* Outside a compaction it is enough to follow the owners of one address.
LEMMA MemoriaPaso ==
  ASSUME Memoria, pc # "compactar", pc' \notin {"confirmar", "compactar", "reintentar"},
         UNCHANGED <<lista_memory_sticks, memoria_total, stick_estado>>,
         \A a \in Nat : Reparto(lista_huecos, ListaReservas, Areas, memoria_total, a) =>
                        Reparto(lista_huecos', ListaReservas', Areas', memoria_total, a)
  PROVE  Memoria' /\ Alcanza'
<1>1. SinSticksCaidos' <=> SinSticksCaidos
  BY DEF SinSticksCaidos
<1>2. SticksEnLista' <=> SticksEnLista
  BY DEF SticksEnLista, TamaniosEnLista
<1>3. Memoria'
  BY <1>1, <1>2 DEF Memoria
<1>4. Alcanza'
  BY <1>1 DEF Alcanza
<1>5. QED
  BY <1>3, <1>4

\* The segments of one process become holes.
LEMMA LiberarReparte ==
  ASSUME TipoInv, NEW p \in Pids, ListaReservas' = ListaReservas,
         tabla' = [tabla EXCEPT ![p] = <<>>],
         lista_huecos' = lista_huecos \o HuecosDe(p)
  PROVE  \A a \in Nat : Reparto(lista_huecos, ListaReservas, Areas, memoria_total, a) =>
                        Reparto(lista_huecos', ListaReservas', Areas', memoria_total, a)
<1>1. /\ lista_huecos \in Seq(Hueco) /\ memoria_total \in Nat
      /\ Areas \in [Pids -> Seq(Hueco)] /\ Areas[p] = HuecosDe(p)
      /\ ListaReservas \in Seq(Hueco)
  BY AreasTipo, ReservasTipo DEF TipoInv, TypeOK
<1>2. <<>> \in Seq(Segmento) /\ AreasDe(<<>>) = <<>>
  BY EmptySeq, AreasDeOperaciones
<1>3. Areas' = [Areas EXCEPT ![p] = <<>>]
  <2>1. TypeOK
    BY DEF TipoInv
  <2>2. Areas' = [Areas EXCEPT ![p] = AreasDe(<<>>)]
    BY <2>1, AreasCambian
  <2>3. QED
    BY <1>2, <2>2
<1>4. QED
  BY <1>1, <1>3, RepartoLiberar

\* segmento_crear takes the front of a hole.
LEMMA OcuparReparte ==
  ASSUME TipoInv, ConstantesOK, NEW p \in Pids, NEW i \in Ids, NEW t \in Nat,
         ListaReservas' = ListaReservas, ResultadoCrear(p, t) = "OK", OcuparYAnotar(p, i, t)
  PROVE  \A a \in Nat : Reparto(lista_huecos, ListaReservas, Areas, memoria_total, a) =>
                        Reparto(lista_huecos', ListaReservas', Areas', memoria_total, a)
<1> DEFINE h == Buscar(t)
           s == [id |-> i, base |-> lista_huecos[h].base, limite |-> t, dato |-> Nada]
           l == Append(tabla[p], s)
<1>1. /\ lista_huecos \in Seq(Hueco) /\ memoria_total \in Nat
      /\ Areas \in [Pids -> Seq(Hueco)] /\ Areas[p] = AreasDe(tabla[p])
      /\ ListaReservas \in Seq(Hueco) /\ tabla[p] \in Seq(Segmento)
  BY AreasTipo, ReservasTipo, TablaTipo DEF TipoInv, TypeOK
<1>2. h # SinHueco
  BY DEF ResultadoCrear
<1>3. h \in 1 .. Len(lista_huecos) /\ lista_huecos[h].tamanio >= t
  BY <1>1, <1>2, BuscarHuecoEntra DEF Buscar, TipoInv, TypeOK
<1>4. lista_huecos[h] \in Hueco
  BY <1>1, <1>3, ElementOfSeq
<1>5. s \in Segmento /\ s.base = lista_huecos[h].base /\ s.limite = t
  BY <1>4 DEF Segmento, Hueco
<1>6. tabla' = [tabla EXCEPT ![p] = l] /\ lista_huecos' = HuecoOcupar(lista_huecos, h, t)
  BY DEF OcuparYAnotar, TipoInv, TypeOK
<1> HIDE DEF s, h
<1>7. AreasDe(l) = Append(Areas[p], [base |-> lista_huecos[h].base, tamanio |-> t])
  BY <1>1, <1>5, AreasDeOperaciones
<1> HIDE DEF l
<1>8. Areas' = [Areas EXCEPT ![p] = AreasDe(l)]
  BY <1>6, AreasCambian DEF TipoInv
<1>9. QED
  BY <1>1, <1>3, <1>6, <1>7, <1>8, RepartoCrear

\* segmento_eliminar gives the area back.
LEMMA EliminarReparte ==
  ASSUME TipoInv, NEW p \in Pids, NEW k \in 1 .. Len(tabla[p]), ListaReservas' = ListaReservas,
         lista_huecos' = HuecoLiberar(lista_huecos, tabla[p][k].base, tabla[p][k].limite),
         tabla' = [tabla EXCEPT ![p] = RemoveAt(@, k)]
  PROVE  \A a \in Nat : Reparto(lista_huecos, ListaReservas, Areas, memoria_total, a) =>
                        Reparto(lista_huecos', ListaReservas', Areas', memoria_total, a)
<1> DEFINE l == RemoveAt(tabla[p], k)
<1>1. /\ lista_huecos \in Seq(Hueco) /\ memoria_total \in Nat
      /\ Areas \in [Pids -> Seq(Hueco)] /\ Areas[p] = AreasDe(tabla[p])
      /\ ListaReservas \in Seq(Hueco) /\ tabla[p] \in Seq(Segmento)
  BY AreasTipo, ReservasTipo, TablaTipo DEF TipoInv, TypeOK
<1>2. /\ k \in 1 .. Len(Areas[p])
      /\ Areas[p][k].base = tabla[p][k].base
      /\ Areas[p][k].tamanio = tabla[p][k].limite
  BY AreasTipo DEF TipoInv
<1>3. tabla' = [tabla EXCEPT ![p] = l]
  BY DEF TipoInv, TypeOK
<1>4. AreasDe(l) = RemoveAt(Areas[p], k)
  BY <1>1, AreasDeOperaciones
<1> HIDE DEF l
<1>5. Areas' = [Areas EXCEPT ![p] = AreasDe(l)]
  BY <1>3, AreasCambian DEF TipoInv
<1>6. QED
  BY <1>1, <1>2, <1>4, <1>5, RepartoEliminar

-----------------------------------------------------------------------------
\* A request arrives.
LEMMA MemoriaAtender ==
  ASSUME MemoriaInv, ConstantesOK, NEW p \in Pids, Atender(p)
  PROVE  Memoria' /\ Alcanza'
<1> USE DEF MemoriaInv
<1>0. pc = "libre"
  BY DEF Atender, CrearProceso, ProcesoLiberarMemoria, CrearSegmentoOK, CrearSegmentoError,
         CrearSegmentoCompactar, SegmentoEliminar, SegmentoEliminarError, Suspender,
         Dessuspender, EscribirDatos
<1>00. UNCHANGED <<bases, restaurados>> /\ pc' \in {"libre", "finalizar", "confirmar",
                                                  "susp_entrar", "dess_asignar"}
  BY <1>0 DEF Atender, CrearProceso, ProcesoLiberarMemoria, CrearSegmentoOK, CrearSegmentoError,
         CrearSegmentoCompactar, SegmentoEliminar, SegmentoEliminarError, Suspender,
         Dessuspender, EscribirDatos, ksLocals
<1>a. ListaReservas = <<>> /\ ListaReservas' = ListaReservas
  BY <1>0, <1>00, ReservasNinguna
<1>1. CASE CrearProceso(p)
  <2>1. p \notin contextos /\ tabla' = [tabla EXCEPT ![p] = <<>>]
    BY <1>1 DEF CrearProceso
  <2>2. Areas' = Areas
    BY <2>1, VaciarVacia DEF Contextos, TipoInv
  <2>3. UNCHANGED <<lista_huecos, lista_memory_sticks, memoria_total, stick_estado,
                    pc, pedido, destino, movidos>>
    BY <1>1 DEF CrearProceso, memVars, ksLocals, peers
  <2>4. QED
    BY <1>a, <2>2, <2>3, MemoriaQuieta
<1>2. CASE ProcesoLiberarMemoria(p)
  <2>1. /\ tabla' = [tabla EXCEPT ![p] = <<>>]
        /\ lista_huecos' = lista_huecos \o HuecosDe(p)
        /\ UNCHANGED <<lista_memory_sticks, memoria_total, stick_estado>>
        /\ pc' = "finalizar"
    BY <1>2 DEF ProcesoLiberarMemoria, peers
  <2>2. \A a \in Nat : Reparto(lista_huecos, ListaReservas, Areas, memoria_total, a) =>
                       Reparto(lista_huecos', ListaReservas', Areas', memoria_total, a)
    BY <1>a, <2>1, LiberarReparte
  <2>3. QED
    BY <1>0, <2>1, <2>2, MemoriaPaso
<1>3. ASSUME NEW i \in Ids, NEW t \in Tamanios, CrearSegmentoOK(p, i, t)
      PROVE  Memoria' /\ Alcanza'
  <2>1. /\ ResultadoCrear(p, t) = "OK" /\ OcuparYAnotar(p, i, t)
        /\ UNCHANGED <<lista_memory_sticks, memoria_total, stick_estado>>
        /\ pc' = "libre"
    BY <1>0, <1>3 DEF CrearSegmentoOK, peers
  <2>2. t \in Nat
    BY DEF ConstantesOK
  <2>3. \A a \in Nat : Reparto(lista_huecos, ListaReservas, Areas, memoria_total, a) =>
                       Reparto(lista_huecos', ListaReservas', Areas', memoria_total, a)
    BY <1>a, <2>1, <2>2, OcuparReparte
  <2>4. QED
    BY <1>0, <2>1, <2>3, MemoriaPaso
<1>4. ASSUME NEW i \in Ids, NEW t \in Tamanios, CrearSegmentoError(p, i, t)
      PROVE  Memoria' /\ Alcanza'
  <2>1. UNCHANGED <<tabla, lista_huecos, lista_memory_sticks, memoria_total, stick_estado,
                    pc, pedido, destino, movidos>>
    BY <1>4 DEF CrearSegmentoError, tablas, memVars, ksLocals, peers
  <2>2. Areas' = Areas
    BY <2>1 DEF Areas, HuecosDe
  <2>3. QED
    BY <1>a, <2>1, <2>2, MemoriaQuieta
<1>5. ASSUME NEW i \in Ids, NEW t \in Tamanios, CrearSegmentoCompactar(p, i, t)
      PROVE  Memoria' /\ Alcanza'
  <2>1. /\ UNCHANGED <<tabla, lista_huecos, lista_memory_sticks, memoria_total, stick_estado,
                       destino, movidos>>
        /\ pc' = "confirmar" /\ pedido'.tam = t
        /\ ResultadoCrear(p, t) = "COMPACTAR"
    BY <1>5 DEF CrearSegmentoCompactar, tablas, memVars, peers
  <2>2. Areas' = Areas
    BY <2>1 DEF Areas, HuecosDe
  <2>3. SinSticksCaidos' <=> SinSticksCaidos
    BY <2>1 DEF SinSticksCaidos
  <2>4. SticksEnLista' <=> SticksEnLista
    BY <2>1 DEF SticksEnLista, TamaniosEnLista
  <2>5. Memoria'
    BY <1>0, <1>a, <2>1, <2>2, <2>3, <2>4 DEF Memoria
  <2>6. ASSUME SinSticksCaidos
        PROVE  t <= Cardinality(Restante(Areas, movidos, destino, memoria_total))
    <3>1. HuecosTotalLibre(lista_huecos) >= t
      BY <2>1 DEF ResultadoCrear
    <3>2. \A a \in Nat : Reparto(lista_huecos, <<>>, Areas, memoria_total, a)
      BY <1>0, <1>a, <2>6 DEF Memoria
    <3>3. /\ lista_huecos \in Seq(Hueco) /\ Areas \in [Pids -> Seq(Hueco)]
          /\ memoria_total \in Nat
      BY AreasTipo DEF TipoInv, TypeOK
    <3>4. HuecosTotalLibre(lista_huecos) = Cardinality(Restante(Areas, {}, 0, memoria_total))
      BY <3>2, <3>3, RestanteInicial
    <3>5. destino = 0 /\ movidos = {}
      BY <1>0 DEF Contextos
    <3>6. QED
      BY <3>1, <3>4, <3>5
  <2>7. Alcanza'
    BY <2>1, <2>2, <2>3, <2>6 DEF Alcanza
  <2>8. QED
    BY <2>5, <2>7
<1>6. ASSUME NEW i \in Ids, SegmentoEliminar(p, i)
      PROVE  Memoria' /\ Alcanza'
  <2>1. PICK k \in 1 .. Len(tabla[p]) :
          /\ lista_huecos' = HuecoLiberar(lista_huecos, tabla[p][k].base, tabla[p][k].limite)
          /\ tabla' = [tabla EXCEPT ![p] = RemoveAt(@, k)]
    BY <1>6 DEF SegmentoEliminar
  <2>2. /\ UNCHANGED <<lista_memory_sticks, memoria_total, stick_estado>>
        /\ pc' = "libre"
    BY <1>0, <1>6 DEF SegmentoEliminar, peers
  <2>3. \A a \in Nat : Reparto(lista_huecos, ListaReservas, Areas, memoria_total, a) =>
                       Reparto(lista_huecos', ListaReservas', Areas', memoria_total, a)
    BY <1>a, <2>1, EliminarReparte
  <2>4. QED
    BY <1>0, <2>2, <2>3, MemoriaPaso
<1>7. CASE \/ \E i \in Ids : SegmentoEliminarError(p, i)
           \/ Suspender(p)
           \/ Dessuspender(p)
  <2>1. /\ UNCHANGED <<tabla, lista_huecos, lista_memory_sticks, memoria_total, stick_estado>>
        /\ pc' \notin {"confirmar", "compactar", "reintentar"}
    BY <1>0, <1>7 DEF SegmentoEliminarError, Suspender, Dessuspender, tablas, memVars, ksLocals, peers
  <2>2. Areas' = Areas
    BY <2>1 DEF Areas, HuecosDe
  <2>3. QED
    BY <1>0, <1>a, <2>1, <2>2, MemoriaQuieta
<1>8. ASSUME NEW k \in 1 .. MaxSegmentos, EscribirDatos(p, k)
      PROVE  Memoria' /\ Alcanza'
  <2>1. /\ UNCHANGED <<lista_huecos, lista_memory_sticks, memoria_total, stick_estado,
                       pc, pedido, destino, movidos>>
        /\ k \in DOMAIN tabla[p] /\ EscribirSegmento(p, k)
    BY <1>8 DEF EscribirDatos, memVars, ksLocals, peers
  <2>2. Areas' = Areas
    BY <2>1, EscribirAreas DEF TipoInv
  <2>3. QED
    BY <1>a, <2>1, <2>2, MemoriaQuieta
<1>9. QED
  BY <1>1, <1>2, <1>3, <1>4, <1>5, <1>6, <1>7, <1>8 DEF Atender

-----------------------------------------------------------------------------
\* Every segment is in the list that compactar makes: a process without a
\* context has none.
LEMMA SegmentoListado ==
  ASSUME TypeOK, Contextos, NEW q \in Pids, NEW j \in 1 .. Len(Areas[q]),
         <<q, j>> \notin movidos
  PROVE  <<q, j>> \in Pendientes
<1>1. j \in DOMAIN tabla[q]
  BY AreasTipo
<1>2. q \in contextos
  <2>1. SUFFICES ASSUME q \notin contextos PROVE FALSE
    OBVIOUS
  <2>2. tabla[q] = <<>>
    BY <2>1 DEF Contextos
  <2>3. Len(Areas[q]) = 0
    BY <2>2, AreasTipo, EmptySeq
  <2>4. QED
    BY <2>3
<1>3. QED
  BY <1>1, <1>2 DEF Pendientes, Listados

\* The segment compactar takes next is the next one of the sorted list.
LEMMA SiguienteProximo ==
  ASSUME TypeOK, Contextos, NEW p, NEW k, Siguiente(p, k)
  PROVE  /\ p \in Pids /\ k \in 1 .. Len(Areas[p])
         /\ Proximo(Areas, movidos, p, k)
<1>1. p \in Pids /\ <<p, k>> \notin movidos /\ k \in 1 .. Len(tabla[p])
  BY SiguienteTipo
<1>2. k \in 1 .. Len(Areas[p])
  BY <1>1, AreasTipo
<1>3. ASSUME NEW q \in Pids, NEW j \in 1 .. Len(Areas[q]), <<q, j>> \notin movidos
      PROVE  Areas[p][k].base <= Areas[q][j].base
  <2>1. <<q, j>> \in Pendientes
    BY <1>3, SegmentoListado
  <2>2. tabla[p][k].base <= tabla[<<q, j>>[1]][<<q, j>>[2]].base
    BY <2>1 DEF Siguiente
  <2>3. tabla[p][k].base <= tabla[q][j].base
    BY <2>2
  <2>4. QED
    BY <1>1, <1>2, <2>3, AreasTipo
<1>4. QED
  BY <1>1, <1>2, <1>3 DEF Proximo

\* What it does to the areas.
LEMMA ColocarTabla ==
  ASSUME TypeOK, NEW p \in Pids, NEW k \in 1 .. Len(Areas[p]),
         tabla' = [tabla EXCEPT ![p][k].base = destino]
  PROVE  Areas' = Colocado(Areas, p, k, destino)
<1> DEFINE s == [tabla[p][k] EXCEPT !.base = destino]
           l == [tabla[p] EXCEPT ![k] = s]
<1>1. /\ tabla[p] \in Seq(Segmento) /\ k \in 1 .. Len(tabla[p]) /\ tabla[p][k] \in Segmento
      /\ Areas \in [Pids -> Seq(Hueco)] /\ Areas[p] = AreasDe(tabla[p])
      /\ Areas[p][k].tamanio = tabla[p][k].limite
      /\ destino \in Nat
  BY TablaTipo, AreasTipo DEF TypeOK
<1>2. s \in Segmento /\ s.base = destino /\ s.limite = tabla[p][k].limite
  BY <1>1 DEF Segmento
<1>3. tabla' = [tabla EXCEPT ![p] = l]
  BY <1>1 DEF TypeOK
<1> HIDE DEF s
<1>4. AreasDe(l) = [Areas[p] EXCEPT ![k] = [base |-> destino, tamanio |-> Areas[p][k].tamanio]]
  <2>1. AreasDe([tabla[p] EXCEPT ![k] = s])
          = [AreasDe(tabla[p]) EXCEPT ![k] = [base |-> s.base, tamanio |-> s.limite]]
    BY <1>1, <1>2, AreasDeOperaciones, ZenonT(60)
  <2>2. QED
    BY <1>1, <1>2, <2>1
<1> HIDE DEF l
<1>5. Areas' = [Areas EXCEPT ![p] = AreasDe(l)]
  BY <1>3, AreasCambian
<1>6. QED
  BY <1>4, <1>5 DEF Colocado

\* One iteration of compactar.
LEMMA MemoriaCompactarSegmento ==
  ASSUME MemoriaInv, NEW p \in Pids, NEW k, CompactarSegmento(p, k)
  PROVE  Memoria' /\ Alcanza'
<1> USE DEF MemoriaInv
<1>1. /\ pc = "compactar" /\ pc' = "compactar" /\ Siguiente(p, k)
      /\ UNCHANGED <<lista_memory_sticks, memoria_total, stick_estado, pedido>>
      /\ tabla' = [tabla EXCEPT ![p][k].base = destino]
      /\ destino' = destino + tabla[p][k].limite
      /\ movidos' = movidos \cup {<<p, k>>}
  BY DEF CompactarSegmento, memVars, peers
<1>2. k \in 1 .. Len(Areas[p]) /\ Proximo(Areas, movidos, p, k)
  BY <1>1, SiguienteProximo DEF TipoInv
<1>3. /\ Areas \in [Pids -> Seq(Hueco)] /\ Areas[p][k].tamanio = tabla[p][k].limite
      /\ destino \in Nat /\ memoria_total \in Nat
  BY <1>2, AreasTipo DEF TipoInv, TypeOK
<1>4. Areas' = Colocado(Areas, p, k, destino)
  BY <1>1, <1>2, ColocarTabla DEF TipoInv
<1>5. SinSticksCaidos' <=> SinSticksCaidos
  BY <1>1 DEF SinSticksCaidos
<1>6. SticksEnLista' <=> SticksEnLista
  BY <1>1 DEF SticksEnLista, TamaniosEnLista
<1>7. CASE ~ SinSticksCaidos
  BY <1>5, <1>7 DEF Memoria, Alcanza
<1>8. CASE SinSticksCaidos
  <2>1. /\ SticksEnLista
        /\ AMedias(Areas, movidos, destino, memoria_total)
        /\ \A a \in Nat : Solos(Areas, a)
        /\ pedido.tam <= Cardinality(Restante(Areas, movidos, destino, memoria_total))
    BY <1>1, <1>8 DEF Memoria, Alcanza
  <2>2. AMedias(Areas', movidos', destino', memoria_total)
    <3>1. AMedias(Colocado(Areas, p, k, destino), movidos \cup {<<p, k>>},
                  destino + Areas[p][k].tamanio, memoria_total)
      BY <1>2, <1>3, <2>1, ColocarAMedias
    <3>2. QED
      BY <1>1, <1>3, <1>4, <3>1
  <2>3. \A a \in Nat : Solos(Areas', a)
    BY <1>2, <1>3, <1>4, <2>1, ColocarSolos
  <2>4. Cardinality(Restante(Areas', movidos', destino', memoria_total))
          = Cardinality(Restante(Areas, movidos, destino, memoria_total))
    <3>1. Cardinality(Restante(Colocado(Areas, p, k, destino), movidos \cup {<<p, k>>},
                               destino + Areas[p][k].tamanio, memoria_total))
            = Cardinality(Restante(Areas, movidos, destino, memoria_total))
      BY <1>2, <1>3, <2>1, RestanteColocar
    <3>2. QED
      BY <1>1, <1>3, <1>4, <3>1
  <2>5. Memoria'
    BY <1>1, <1>6, <2>1, <2>2, <2>3 DEF Memoria
  <2>6. Alcanza'
    BY <1>1, <2>1, <2>4 DEF Alcanza
  <2>7. QED
    BY <2>5, <2>6
<1>9. QED
  BY <1>7, <1>8

\* No copy of compactar fails while every stick answers.
LEMMA CompactarNoFalla ==
  ASSUME MemoriaInv, ConstantesOK, NulosOK, NEW p \in Pids, NEW k, CompactarFalla(p, k)
  PROVE  ~ SinSticksCaidos
<1> USE DEF MemoriaInv
<1> DEFINE t == tabla[p][k].limite
<1>1. /\ pc = "compactar" /\ Siguiente(p, k) /\ UNCHANGED stick_estado
      /\ ~ PuedeAcceder(tabla[p][k].base, t) \/ ~ PuedeAcceder(destino, t)
  BY DEF CompactarFalla, peers
<1>2. k \in 1 .. Len(Areas[p]) /\ Proximo(Areas, movidos, p, k)
  BY <1>1, SiguienteProximo DEF TipoInv
<1>3. /\ Areas \in [Pids -> Seq(Hueco)] /\ Areas[p][k].tamanio = t
      /\ Areas[p][k].base = tabla[p][k].base
      /\ tabla[p][k].base \in Nat /\ t \in Nat
      /\ destino \in Nat /\ memoria_total \in Nat
  BY <1>2, AreasTipo DEF TipoInv, TypeOK
<1> HIDE DEF t
<1>4. QED
  <2>1. SUFFICES ASSUME SinSticksCaidos PROVE FALSE
    OBVIOUS
  <2>2. /\ SticksEnLista
        /\ AMedias(Areas, movidos, destino, memoria_total)
        /\ \A a \in Nat : Solos(Areas, a)
    BY <1>1, <2>1 DEF Memoria
  <2>3. t > 0 => /\ destino <= tabla[p][k].base
                 /\ tabla[p][k].base + t <= memoria_total
    BY <1>2, <1>3, <2>2, ColocarAMedias
  <2>4. /\ t > 0 => tabla[p][k].base + t <= memoria_total
        /\ t > 0 => destino + t <= memoria_total
    BY <1>3, <2>3
  <2>5. PuedeAcceder(tabla[p][k].base, t)
    BY <1>3, <2>2, <2>4, PuedeAccederTodo DEF TipoInv
  <2>6. PuedeAcceder(destino, t)
    BY <1>3, <2>2, <2>4, PuedeAccederTodo DEF TipoInv
  <2>7. QED
    BY <1>1, <2>5, <2>6

\* So an aborted compaction owes nothing.
LEMMA MemoriaCompactarFalla ==
  ASSUME MemoriaInv, ConstantesOK, NulosOK, NEW p \in Pids, NEW k, CompactarFalla(p, k)
  PROVE  Memoria' /\ Alcanza'
<1>1. ~ SinSticksCaidos /\ UNCHANGED stick_estado
  BY CompactarNoFalla DEF CompactarFalla, peers
<1>2. ~ SinSticksCaidos'
  BY <1>1 DEF SinSticksCaidos
<1>3. QED
  BY <1>2 DEF Memoria, Alcanza

\* compactar ends: what is above the last segment placed is the only hole.
LEMMA MemoriaCompactarFin ==
  ASSUME MemoriaInv, CompactarFin
  PROVE  Memoria' /\ Alcanza'
<1> USE DEF MemoriaInv
<1>1. /\ pc = "compactar" /\ pc' = "reintentar" /\ Pendientes = {}
      /\ lista_huecos' = HuecosReconstruir(destino, memoria_total)
      /\ UNCHANGED <<tabla, lista_memory_sticks, memoria_total, stick_estado, pedido,
                     bases, restaurados>>
  BY DEF CompactarFin, tablas, ksLocals, peers
<1>2. Areas' = Areas
  BY <1>1 DEF Areas, HuecosDe
<1>3. ListaReservas' = <<>>
  BY <1>1, ReservasNinguna
<1>4. SinSticksCaidos' <=> SinSticksCaidos
  BY <1>1 DEF SinSticksCaidos
<1>5. SticksEnLista' <=> SticksEnLista
  BY <1>1 DEF SticksEnLista, TamaniosEnLista
<1>6. CASE ~ SinSticksCaidos
  BY <1>4, <1>6 DEF Memoria, Alcanza
<1>7. CASE SinSticksCaidos
  <2>1. /\ SticksEnLista
        /\ AMedias(Areas, movidos, destino, memoria_total)
        /\ \A a \in Nat : Solos(Areas, a)
        /\ pedido.tam <= Cardinality(Restante(Areas, movidos, destino, memoria_total))
    BY <1>1, <1>7 DEF Memoria, Alcanza
  <2>2. \A p \in Pids : \A k \in 1 .. Len(Areas[p]) : <<p, k>> \in movidos
    BY <1>1, SegmentoListado DEF TipoInv
  <2>3. /\ Areas \in [Pids -> Seq(Hueco)] /\ destino \in Nat /\ memoria_total \in Nat
        /\ pedido.tam \in Nat
    BY AreasTipo DEF TipoInv, TypeOK, Pedido
  <2>4. \A a \in Nat : Reparto(lista_huecos', <<>>, Areas, memoria_total, a)
    BY <1>1, <2>1, <2>2, <2>3, CompactarTermina
  <2>5. Memoria'
    BY <1>1, <1>2, <1>3, <1>5, <2>1, <2>4 DEF Memoria
  <2>6. destino <= memoria_total
    BY <2>1 DEF AMedias
  <2>7. pedido.tam <= memoria_total - destino
    <3>1. Cardinality(Restante(Areas, movidos, destino, memoria_total))
            = memoria_total - destino
      BY <2>2, <2>3, <2>6, RestanteFinal
    <3>2. QED
      BY <2>1, <3>1
  <2>8. ASSUME pedido.tam > 0
        PROVE  \E i \in 1 .. Len(lista_huecos') : pedido.tam <= lista_huecos'[i].tamanio
    <3>1. lista_huecos' = << [base |-> destino, tamanio |-> memoria_total - destino] >>
      BY <1>1, <2>3, <2>7, <2>8 DEF HuecosReconstruir
    <3>2. /\ Len(lista_huecos') = 1
          /\ lista_huecos'[1] = [base |-> destino, tamanio |-> memoria_total - destino]
      BY <3>1
    <3>3. QED
      BY <2>7, <3>2
  <2>9. Alcanza'
    BY <1>1, <2>8 DEF Alcanza
  <2>10. QED
    BY <2>5, <2>9
<1>8. QED
  BY <1>6, <1>7

\* segmento_crear once more, after the compaction.
LEMMA MemoriaReintentarCrear ==
  ASSUME MemoriaInv, ConstantesOK, ReintentarCrear
  PROVE  Memoria' /\ Alcanza'
<1> USE DEF MemoriaInv
<1>1. /\ pc = "reintentar" /\ pc' = "libre" /\ bases' = <<>> /\ restaurados' = 0
      /\ UNCHANGED <<lista_memory_sticks, memoria_total, stick_estado>>
  BY DEF ReintentarCrear, Terminar, peers
<1>2. ListaReservas' = ListaReservas
  BY <1>1, ReservasNinguna
<1>3. CASE ResultadoCrear(pedido.pid, pedido.tam) = "OK"
  <2>1. OcuparYAnotar(pedido.pid, pedido.id, pedido.tam)
    BY <1>3 DEF ReintentarCrear
  <2>2. pedido.pid \in Pids /\ pedido.id \in Ids /\ pedido.tam \in Nat
    BY <1>1 DEF TipoInv, TypeOK, Pedido
  <2>3. \A a \in Nat : Reparto(lista_huecos, ListaReservas, Areas, memoria_total, a) =>
                       Reparto(lista_huecos', ListaReservas', Areas', memoria_total, a)
    BY <1>2, <1>3, <2>1, <2>2, OcuparReparte
  <2>4. QED
    BY <1>1, <2>3, MemoriaPaso
<1>4. CASE ResultadoCrear(pedido.pid, pedido.tam) # "OK"
  <2>1. UNCHANGED <<tabla, lista_huecos>>
    BY <1>4 DEF ReintentarCrear
  <2>2. Areas' = Areas
    BY <2>1 DEF Areas, HuecosDe
  <2>3. QED
    BY <1>1, <1>2, <2>1, <2>2, MemoriaQuieta
<1>5. QED
  BY <1>3, <1>4

\* proceso_dessuspender takes an area for the next segment.
LEMMA MemoriaDessAsignar ==
  ASSUME MemoriaInv, DessAsignar
  PROVE  Memoria' /\ Alcanza'
<1> USE DEF MemoriaInv
<1> DEFINE t == EnSwap[Len(bases) + 1].limite
           h == Buscar(t)
           r == [base |-> lista_huecos[h].base, tamanio |-> t]
<1>1. /\ pc = "dess_asignar" /\ pc' = "dess_asignar" /\ Len(bases) < Len(EnSwap)
      /\ UNCHANGED <<tabla, lista_memory_sticks, memoria_total, stick_estado,
                     segmentos_swap, pedido, restaurados>>
      /\ h # SinHueco
      /\ bases' = Append(bases, lista_huecos[h].base)
      /\ lista_huecos' = HuecoOcupar(lista_huecos, h, t)
  BY DEF DessAsignar, tablas, swapVars, peers
<1>2. /\ bases \in Seq(Nat) /\ Len(bases) \in Nat
      /\ \A j \in 1 .. Len(bases) + 1 : EnSwap[j].limite \in Nat
      /\ t \in Nat
  BY <1>1, ReservasHay
<1>3. restaurados = 0
  BY <1>1 DEF TipoInv, Locales
<1>4. /\ lista_huecos \in Seq(Hueco) /\ memoria_total \in Nat
      /\ Areas \in [Pids -> Seq(Hueco)] /\ ListaReservas \in Seq(Hueco)
      /\ allocation_best_fit \in BOOLEAN
  BY AreasTipo, ReservasTipo DEF TipoInv, TypeOK
<1>5. h \in 1 .. Len(lista_huecos) /\ lista_huecos[h].tamanio >= t
  BY <1>1, <1>2, <1>4, BuscarHuecoEntra DEF Buscar
<1>6. lista_huecos[h] \in Hueco
  BY <1>4, <1>5, ElementOfSeq
<1>7. lista_huecos[h].base \in Nat
  BY <1>6 DEF Hueco
<1>8. EnSwap' = EnSwap
  BY <1>1 DEF EnSwap
<1> HIDE DEF h
<1>9. ListaReservas' = Append(ListaReservas, r)
  <2>1. Reservadas(Append(bases, lista_huecos[h].base), EnSwap, 0)
          = Append(Reservadas(bases, EnSwap, 0), r)
    BY <1>2, <1>7, ReservadasAgregar
  <2>2. QED
    BY <1>1, <1>3, <1>8, <2>1 DEF ListaReservas
<1>10. Areas' = Areas
  BY <1>1 DEF Areas, HuecosDe
<1> HIDE DEF t
<1>11. \A a \in Nat : Reparto(lista_huecos, ListaReservas, Areas, memoria_total, a) =>
                      Reparto(lista_huecos', ListaReservas', Areas', memoria_total, a)
  BY <1>1, <1>2, <1>4, <1>5, <1>9, <1>10, RepartoReservar
<1>12. QED
  BY <1>1, <1>11, MemoriaPaso

\* One segment does not fit: the areas taken are given back.
LEMMA MemoriaDessRollback ==
  ASSUME MemoriaInv, DessRollback
  PROVE  Memoria' /\ Alcanza'
<1> USE DEF MemoriaInv
<1>1. /\ pc = "dess_asignar" /\ pc' = "libre" /\ bases' = <<>> /\ restaurados' = 0
      /\ UNCHANGED <<tabla, lista_memory_sticks, memoria_total, stick_estado>>
      /\ lista_huecos' = lista_huecos \o
           [j \in 1 .. Len(bases) |-> [base |-> bases[j], tamanio |-> EnSwap[j].limite]]
  BY DEF DessRollback, Terminar, tablas, peers
<1>2. restaurados = 0 /\ Len(bases) \in Nat
  BY <1>1, ReservasHay DEF TipoInv, Locales
<1>3. ListaReservas
        = [j \in 1 .. Len(bases) |-> [base |-> bases[j], tamanio |-> EnSwap[j].limite]]
  <2>1. Len(bases) - 0 = Len(bases) /\ \A j \in 1 .. Len(bases) : 0 + j = j
    BY <1>2
  <2>2. QED
    BY <1>2, <2>1 DEF ListaReservas, Reservadas
<1>4. lista_huecos' = lista_huecos \o ListaReservas
  BY <1>1, <1>3
<1>5. ListaReservas' = <<>>
  BY <1>1, ReservasVacias
<1>6. Areas' = Areas
  BY <1>1 DEF Areas, HuecosDe
<1>7. /\ lista_huecos \in Seq(Hueco) /\ memoria_total \in Nat
      /\ Areas \in [Pids -> Seq(Hueco)] /\ ListaReservas \in Seq(Hueco)
  BY AreasTipo, ReservasTipo DEF TipoInv, TypeOK
<1>8. \A a \in Nat : Reparto(lista_huecos, ListaReservas, Areas, memoria_total, a) =>
                     Reparto(lista_huecos', ListaReservas', Areas', memoria_total, a)
  BY <1>4, <1>5, <1>6, <1>7, RepartoDevolver
<1>9. QED
  BY <1>1, <1>8, MemoriaPaso

\* One segment comes back to the table, in the area taken for it.
LEMMA MemoriaDessRestaurar ==
  ASSUME MemoriaInv, DessRestaurar
  PROVE  Memoria' /\ Alcanza'
<1> USE DEF MemoriaInv
<1> DEFINE p  == pedido.pid
           ss == EnSwap[restaurados + 1]
           b  == bases[restaurados + 1]
           s  == [id |-> ss.id, base |-> b, limite |-> ss.limite, dato |-> ss.dato]
           l  == Append(tabla[p], s)
           r  == [base |-> b, tamanio |-> ss.limite]
<1>1. /\ pc = "dess_restaurar" /\ pc' = "dess_restaurar" /\ restaurados < Len(EnSwap)
      /\ UNCHANGED <<lista_huecos, lista_memory_sticks, memoria_total, stick_estado,
                     segmentos_swap, pedido, bases>>
      /\ restaurados' = restaurados + 1
      /\ tabla' = [tabla EXCEPT ![p] = Append(@, s)]
  BY DEF DessRestaurar, memVars, peers
<1>2. /\ bases \in Seq(Nat) /\ Len(bases) \in Nat
      /\ \A j \in 1 .. Len(bases) : EnSwap[j].limite \in Nat
      /\ Len(bases) = Len(EnSwap)
      /\ restaurados \in 0 .. Len(bases) - 1
      /\ p \in Pids
  BY <1>1, ReservasHay DEF TipoInv, Locales
<1>3. restaurados + 1 \in 1 .. Len(bases)
  BY <1>2
<1>4. ss \in SegmentoSwap /\ b \in Nat
  BY <1>1, <1>2, <1>3, ReservasHay, ElementOfSeq
<1>5. s \in Segmento /\ s.base = b /\ s.limite = ss.limite
  BY <1>4 DEF Segmento, SegmentoSwap
<1>6. /\ lista_huecos \in Seq(Hueco) /\ memoria_total \in Nat
      /\ Areas \in [Pids -> Seq(Hueco)] /\ ListaReservas \in Seq(Hueco)
      /\ Areas[p] = AreasDe(tabla[p]) /\ tabla[p] \in Seq(Segmento)
  BY <1>2, AreasTipo, ReservasTipo, TablaTipo DEF TipoInv, TypeOK
<1>7. /\ Len(ListaReservas) # 0
      /\ ListaReservas[1] = r
      /\ ListaReservas' = RemoveAt(ListaReservas, 1)
  <2>1. /\ Len(Reservadas(bases, EnSwap, restaurados)) # 0
        /\ Reservadas(bases, EnSwap, restaurados)[1] = r
        /\ Reservadas(bases, EnSwap, restaurados + 1)
             = RemoveAt(Reservadas(bases, EnSwap, restaurados), 1)
    BY <1>2, ReservadasQuitar
  <2>2. EnSwap' = EnSwap
    BY <1>1 DEF EnSwap
  <2>3. QED
    BY <1>1, <2>1, <2>2 DEF ListaReservas
<1>8. tabla' = [tabla EXCEPT ![p] = l]
  BY <1>1, <1>2 DEF TipoInv, TypeOK
<1> HIDE DEF s, ss, b
<1>9. AreasDe(l) = Append(Areas[p], r)
  <2>1. AreasDe(Append(tabla[p], s))
          = Append(AreasDe(tabla[p]), [base |-> s.base, tamanio |-> s.limite])
    BY <1>5, <1>6, AreasDeOperaciones
  <2>2. QED
    BY <1>5, <1>6, <2>1
<1> HIDE DEF l, r, p
<1>10. Areas' = [Areas EXCEPT ![p] = AreasDe(l)]
  BY <1>2, <1>8, AreasCambian DEF TipoInv
<1>11. \A a \in Nat : Reparto(lista_huecos, ListaReservas, Areas, memoria_total, a) =>
                      Reparto(lista_huecos', ListaReservas', Areas', memoria_total, a)
  BY <1>1, <1>2, <1>6, <1>7, <1>9, <1>10, RepartoRestaurar
<1>12. QED
  BY <1>1, <1>11, MemoriaPaso

\* The KS thread goes on.
LEMMA MemoriaContinuar ==
  ASSUME MemoriaInv, ConstantesOK, NulosOK, Continuar
  PROVE  Memoria' /\ Alcanza'
<1> USE DEF MemoriaInv
<1>1. CASE ContextoEliminar
  <2>1. /\ pc = "finalizar" /\ pc' = "libre" /\ bases' = <<>> /\ restaurados' = 0
        /\ tabla' = [tabla EXCEPT ![pedido.pid] = <<>>]
        /\ UNCHANGED <<lista_huecos, lista_memory_sticks, memoria_total, stick_estado>>
    BY <1>1 DEF ContextoEliminar, Terminar, memVars, peers
  <2>2. pedido.pid \in Pids /\ tabla[pedido.pid] = <<>>
    BY <2>1 DEF TipoInv, TypeOK, Contextos
  <2>3. Areas' = Areas
    BY <2>1, <2>2, VaciarVacia DEF TipoInv
  <2>4. ListaReservas' = ListaReservas
    BY <2>1, ReservasNinguna
  <2>5. QED
    BY <2>1, <2>3, <2>4, MemoriaQuieta
<1>2. CASE ConfirmacionRecibida
  <2>1. /\ pc = "confirmar" /\ pc' = "compactar" /\ destino' = 0 /\ movidos' = {}
        /\ UNCHANGED <<tabla, lista_memory_sticks, memoria_total, stick_estado, pedido>>
    BY <1>2 DEF ConfirmacionRecibida, tablas, memVars, peers
  <2>2. Areas' = Areas
    BY <2>1 DEF Areas, HuecosDe
  <2>3. SinSticksCaidos' <=> SinSticksCaidos
    BY <2>1 DEF SinSticksCaidos
  <2>4. SticksEnLista' <=> SticksEnLista
    BY <2>1 DEF SticksEnLista, TamaniosEnLista
  <2>5. ASSUME SinSticksCaidos
        PROVE  AMedias(Areas, {}, 0, memoria_total) /\ \A a \in Nat : Solos(Areas, a)
    <3>1. \A a \in Nat : Reparto(lista_huecos, ListaReservas, Areas, memoria_total, a)
      BY <2>1, <2>5 DEF Memoria
    <3>2. /\ lista_huecos \in Seq(Hueco) /\ Areas \in [Pids -> Seq(Hueco)]
          /\ memoria_total \in Nat /\ ListaReservas \in Seq(Hueco)
      BY AreasTipo, ReservasTipo DEF TipoInv, TypeOK
    <3>3. AMedias(Areas, {}, 0, memoria_total)
      BY <3>1, <3>2, CompactarEmpieza
    <3>4. QED
      BY <3>1, <3>3 DEF Reparto
  <2>6. Memoria'
    BY <2>1, <2>2, <2>3, <2>4, <2>5 DEF Memoria
  <2>7. destino = 0 /\ movidos = {}
    BY <2>1 DEF Contextos
  <2>8. Alcanza'
    BY <2>1, <2>2, <2>3, <2>7 DEF Alcanza
  <2>9. QED
    BY <2>6, <2>8
<1>3. ASSUME NEW p \in Pids, NEW k \in 1 .. MaxSegmentos,
             CompactarSegmento(p, k) \/ CompactarFalla(p, k)
      PROVE  Memoria' /\ Alcanza'
  BY <1>3, MemoriaCompactarSegmento, MemoriaCompactarFalla
<1>4. CASE CompactarFin
  BY <1>4, MemoriaCompactarFin
<1>5. CASE ReintentarCrear
  BY <1>5, MemoriaReintentarCrear
<1>6. CASE SuspenderSinCopiar \/ SuspenderEntrar \/ SuspenderCopiar \/ SuspenderRollback
  <2>1. /\ pc \in {"susp_entrar", "susp_copiar"}
        /\ pc' \notin {"confirmar", "compactar", "reintentar"}
        /\ UNCHANGED <<tabla, lista_huecos, lista_memory_sticks, memoria_total, stick_estado>>
        /\ UNCHANGED <<bases, restaurados>> \/ (bases' = <<>> /\ restaurados' = 0)
    BY <1>6 DEF SuspenderSinCopiar, SuspenderEntrar, SuspenderCopiar, SuspenderRollback,
                Terminar, tablas, memVars, peers
  <2>2. Areas' = Areas
    BY <2>1 DEF Areas, HuecosDe
  <2>3. ListaReservas' = ListaReservas
    BY <2>1, ReservasNinguna
  <2>4. QED
    BY <2>1, <2>2, <2>3, MemoriaQuieta
<1>7. CASE SuspenderLiberar
  <2>1. /\ pc = "susp_copiar" /\ pc' = "libre" /\ bases' = <<>> /\ restaurados' = 0
        /\ lista_huecos' = lista_huecos \o HuecosDe(pedido.pid)
        /\ tabla' = [tabla EXCEPT ![pedido.pid] = <<>>]
        /\ UNCHANGED <<lista_memory_sticks, memoria_total, stick_estado>>
    BY <1>7 DEF SuspenderLiberar, Terminar, peers
  <2>2. pedido.pid \in Pids
    BY <2>1 DEF TipoInv, TypeOK
  <2>3. ListaReservas' = ListaReservas
    BY <2>1, ReservasNinguna
  <2>4. \A a \in Nat : Reparto(lista_huecos, ListaReservas, Areas, memoria_total, a) =>
                       Reparto(lista_huecos', ListaReservas', Areas', memoria_total, a)
    BY <2>1, <2>2, <2>3, LiberarReparte
  <2>5. QED
    BY <2>1, <2>4, MemoriaPaso
<1>8. CASE DessAsignar \/ DessRollback \/ DessRestaurar
  BY <1>8, MemoriaDessAsignar, MemoriaDessRollback, MemoriaDessRestaurar
<1>9. CASE DessAsignado
  <2>1. /\ pc = "dess_asignar" /\ pc' = "dess_restaurar" /\ restaurados' = 0
        /\ UNCHANGED <<tabla, lista_huecos, lista_memory_sticks, memoria_total, stick_estado,
                       segmentos_swap, pedido, bases>>
    BY <1>9 DEF DessAsignado, tablas, memVars, swapVars, peers
  <2>2. Areas' = Areas
    BY <2>1 DEF Areas, HuecosDe
  <2>3. ListaReservas' = ListaReservas
    <3>1. restaurados = 0
      BY <2>1 DEF TipoInv, Locales
    <3>2. QED
      BY <2>1, <3>1 DEF ListaReservas, EnSwap
  <2>4. QED
    BY <2>1, <2>2, <2>3, MemoriaQuieta
<1>10. CASE DessFin
  <2>1. /\ pc = "dess_restaurar" /\ pc' = "libre" /\ bases' = <<>> /\ restaurados' = 0
        /\ restaurados = Len(EnSwap)
        /\ UNCHANGED <<tabla, lista_huecos, lista_memory_sticks, memoria_total, stick_estado>>
    BY <1>10 DEF DessFin, Terminar, tablas, memVars, peers
  <2>2. Areas' = Areas
    BY <2>1 DEF Areas, HuecosDe
  <2>3. ListaReservas = <<>>
    <3>1. Len(bases) = Len(EnSwap) /\ Len(bases) \in Nat
      BY <2>1, ReservasHay DEF TipoInv, Locales
    <3>2. Len(bases) - restaurados = 0
      BY <2>1, <3>1
    <3>3. QED
      BY <3>2, ReservasTipo
  <2>4. ListaReservas' = ListaReservas
    BY <2>1, <2>3, ReservasVacias
  <2>5. QED
    BY <2>1, <2>2, <2>4, MemoriaQuieta
<1>11. QED
  BY <1>1, <1>2, <1>3, <1>4, <1>5, <1>6, <1>7, <1>8, <1>9, <1>10 DEF Continuar

\* huecos_extender makes no hole smaller.
LEMMA ExtenderCrece ==
  ASSUME NEW hs \in Seq(Hueco), NEW b \in Nat, NEW t \in Nat, NEW i \in 1 .. Len(hs)
  PROVE  /\ i \in 1 .. Len(HuecosExtender(hs, b, t))
         /\ hs[i].tamanio \in Nat
         /\ HuecosExtender(hs, b, t)[i].tamanio \in Nat
         /\ hs[i].tamanio <= HuecosExtender(hs, b, t)[i].tamanio
<1>1. Len(hs) \in Nat /\ \A j \in 1 .. Len(hs) : hs[j] \in Hueco
  BY LenProperties, ElementOfSeq
<1>2. hs[i].tamanio \in Nat
  BY <1>1 DEF Hueco
<1> DEFINE h == [base |-> hs[Len(hs)].base, tamanio |-> hs[Len(hs)].tamanio + t]
           g == [base |-> b, tamanio |-> t]
<1>3. h \in Hueco /\ g \in Hueco
  BY <1>1 DEF Hueco
<1>4. /\ [hs EXCEPT ![Len(hs)] = h] \in Seq(Hueco)
      /\ Len([hs EXCEPT ![Len(hs)] = h]) = Len(hs)
      /\ [hs EXCEPT ![Len(hs)] = h][i] = IF i = Len(hs) THEN h ELSE hs[i]
  <2>1. Len(hs) \in 1 .. Len(hs)
    BY <1>1
  <2>2. QED
    BY <1>3, <2>1, ExceptSeq
<1>5. /\ Append(hs, g)[i] = hs[i]
      /\ Len(Append(hs, g)) = Len(hs) + 1
  BY <1>3, AppendProperties
<1>6. i \in 1 .. Len(hs) + 1
  BY <1>1
<1>7. h.tamanio = hs[Len(hs)].tamanio + t
  OBVIOUS
<1> HIDE DEF h, g
<1>8. CASE HuecosExtender(hs, b, t) = [hs EXCEPT ![Len(hs)] = h]
  <2>1. HuecosExtender(hs, b, t)[i].tamanio \in Nat
    BY <1>1, <1>2, <1>3, <1>4, <1>8 DEF Hueco
  <2>2. hs[i].tamanio <= HuecosExtender(hs, b, t)[i].tamanio
    <3>1. CASE i = Len(hs)
      <4>1. HuecosExtender(hs, b, t)[i] = h
        BY <1>4, <1>8, <3>1
      <4>2. h.tamanio = hs[i].tamanio + t
        BY <1>7, <3>1
      <4>3. QED
        BY <1>2, <4>1, <4>2
    <3>2. CASE i # Len(hs)
      <4>1. HuecosExtender(hs, b, t)[i] = hs[i]
        BY <1>4, <1>8, <3>2
      <4>2. QED
        BY <1>2, <4>1
    <3>3. QED
      BY <3>1, <3>2
  <2>3. QED
    BY <1>2, <1>4, <1>8, <2>1, <2>2
<1>9. CASE HuecosExtender(hs, b, t) = Append(hs, g)
  BY <1>2, <1>5, <1>6, <1>9
<1>10. QED
  BY <1>8, <1>9 DEF HuecosExtender, h, g

\* memory_stick_agregar: the new memory is one more hole, or makes the last one
\* longer, in the middle of a compaction too.
LEMMA MemoriaStickAgregar ==
  ASSUME MemoriaInv, ConstantesOK, NulosOK, NEW f \in Sticks, MemoryStickAgregar(f)
  PROVE  Memoria' /\ Alcanza'
<1> USE DEF MemoriaInv
<1> DEFINE t == TamStick[f]
<1>1. /\ stick_estado[f] = "no"
      /\ stick_estado' = [stick_estado EXCEPT ![f] = "vivo"]
      /\ lista_memory_sticks' = Append(lista_memory_sticks, f)
      /\ lista_huecos' = HuecosExtender(lista_huecos, memoria_total, t)
      /\ memoria_total' = memoria_total + t
      /\ UNCHANGED <<tabla, segmentos_swap, pc, pedido, destino, movidos, bases, restaurados>>
  BY DEF MemoryStickAgregar, tablas, swapVars, ksLocals
<1>2. Areas' = Areas /\ ListaReservas' = ListaReservas
  BY <1>1 DEF Areas, HuecosDe, ListaReservas, EnSwap
<1>3. SinSticksCaidos' <=> SinSticksCaidos
  BY <1>1 DEF SinSticksCaidos, TipoInv, TypeOK
<1>4. /\ lista_huecos \in Seq(Hueco) /\ Areas \in [Pids -> Seq(Hueco)]
      /\ memoria_total \in Nat /\ ListaReservas \in Seq(Hueco) /\ t \in Nat
      /\ destino \in Nat /\ pedido.tam \in Nat
  BY AreasTipo, ReservasTipo DEF TipoInv, TypeOK, ConstantesOK, Pedido
<1>5. CASE ~ SinSticksCaidos
  BY <1>3, <1>5 DEF Memoria, Alcanza
<1>6. CASE SinSticksCaidos
  <2>1. SticksEnLista'
    <3>1. SticksEnLista
      BY <1>6 DEF Memoria
    <3>2. QED
      BY <1>1, <3>1, SticksEnListaAgregar DEF TipoInv
  <2>2. ASSUME pc # "compactar", NEW a \in Nat
        PROVE  Reparto(lista_huecos', ListaReservas', Areas', memoria_total', a)
    <3>1. Reparto(lista_huecos, ListaReservas, Areas, memoria_total, a)
      BY <1>6, <2>2 DEF Memoria
    <3> HIDE DEF t
    <3>2. QED
      BY <1>1, <1>2, <1>4, <3>1, RepartoExtender
  <2>3. ASSUME pc = "compactar"
        PROVE  /\ AMedias(Areas', movidos', destino', memoria_total')
               /\ \A a \in Nat : Solos(Areas', a)
    <3>1. AMedias(Areas, movidos, destino, memoria_total) /\ \A a \in Nat : Solos(Areas, a)
      BY <1>6, <2>3 DEF Memoria
    <3> HIDE DEF t
    <3>2. QED
      BY <1>1, <1>2, <1>4, <3>1, AMediasExtender
  <2>4. Memoria'
    BY <1>1, <2>1, <2>2, <2>3 DEF Memoria
  <2>5. ASSUME pc \in {"confirmar", "compactar"}
        PROVE  pedido'.tam <= Cardinality(Restante(Areas', movidos', destino', memoria_total'))
    <3>1. pedido.tam <= Cardinality(Restante(Areas, movidos, destino, memoria_total))
      BY <1>6, <2>5 DEF Alcanza
    <3> HIDE DEF t
    <3>2. Cardinality(Restante(Areas, movidos, destino, memoria_total))
            <= Cardinality(Restante(Areas, movidos, destino, memoria_total + t))
      BY <1>4, RestanteExtender
    <3>3. /\ Cardinality(Restante(Areas, movidos, destino, memoria_total)) \in Nat
          /\ Cardinality(Restante(Areas, movidos, destino, memoria_total + t)) \in Nat
      <4>1. memoria_total + t \in Nat
        BY <1>4
      <4>2. QED
        BY <1>4, <4>1, RestanteFinito
    <3>4. pedido.tam <= Cardinality(Restante(Areas, movidos, destino, memoria_total + t))
      BY <1>4, <3>1, <3>2, <3>3
    <3>5. QED
      BY <1>1, <1>2, <3>4
  <2>6. ASSUME pc = "reintentar", pedido.tam > 0
        PROVE  \E i \in 1 .. Len(lista_huecos') : pedido.tam <= lista_huecos'[i].tamanio
    <3>1. PICK i \in 1 .. Len(lista_huecos) : pedido.tam <= lista_huecos[i].tamanio
      BY <1>6, <2>6 DEF Alcanza
    <3> HIDE DEF t
    <3>2. i \in 1 .. Len(lista_huecos') /\ lista_huecos[i].tamanio <= lista_huecos'[i].tamanio
      BY <1>1, <1>4, ExtenderCrece
    <3>3. lista_huecos[i].tamanio \in Nat /\ lista_huecos'[i].tamanio \in Nat
      BY <1>1, <1>4, ExtenderCrece
    <3>4. QED
      BY <1>4, <3>1, <3>2, <3>3
  <2>7. Alcanza'
    BY <1>1, <2>5, <2>6 DEF Alcanza
  <2>8. QED
    BY <2>4, <2>7
<1>7. QED
  BY <1>5, <1>6

\* The other threads and the processes at the other end of the sockets.
LEMMA MemoriaEntorno ==
  ASSUME MemoriaInv, ConstantesOK, NulosOK, Entorno
  PROVE  Memoria' /\ Alcanza'
<1> USE DEF MemoriaInv
<1>1. CASE ConfirmacionRechazada
  <2>1. /\ pc = "confirmar" /\ pc' = "libre" /\ bases' = <<>> /\ restaurados' = 0
        /\ UNCHANGED <<tabla, lista_huecos, lista_memory_sticks, memoria_total, stick_estado>>
    BY <1>1 DEF ConfirmacionRechazada, Terminar, tablas, memVars, peers
  <2>2. Areas' = Areas
    BY <2>1 DEF Areas, HuecosDe
  <2>3. ListaReservas' = ListaReservas
    BY <2>1, ReservasNinguna
  <2>4. QED
    BY <2>1, <2>2, <2>3, MemoriaQuieta
<1>2. ASSUME NEW p \in Pids, NEW k \in 1 .. MaxSegmentos, CpuEscribe(p, k)
      PROVE  Memoria' /\ Alcanza'
  <2>1. /\ UNCHANGED <<lista_huecos, lista_memory_sticks, memoria_total, stick_estado,
                       pc, pedido, destino, movidos, bases, restaurados, segmentos_swap>>
        /\ k \in DOMAIN tabla[p] /\ EscribirSegmento(p, k)
    BY <1>2 DEF CpuEscribe, memVars, swapVars, ksLocals, peers
  <2>2. Areas' = Areas
    BY <2>1, EscribirAreas DEF TipoInv
  <2>3. ListaReservas' = ListaReservas
    BY <2>1 DEF ListaReservas, EnSwap
  <2>4. QED
    BY <2>1, <2>2, <2>3, MemoriaQuieta
<1>3. ASSUME NEW f \in Sticks, MemoryStickAgregar(f)
      PROVE  Memoria' /\ Alcanza'
  BY <1>3, MemoriaStickAgregar
<1>4. ASSUME NEW f \in Sticks, StickCae(f) \/ MemoryStickEliminar(f)
      PROVE  Memoria' /\ Alcanza'
  <2>1. stick_estado' = [stick_estado EXCEPT ![f] = "caido"]
          \/ stick_estado' = [stick_estado EXCEPT ![f] = "cerrado"]
    BY <1>4 DEF StickCae, MemoryStickEliminar
  <2>2. ~ SinSticksCaidos'
    BY <2>1 DEF SinSticksCaidos, TipoInv, TypeOK
  <2>3. QED
    BY <2>2 DEF Memoria, Alcanza
<1>5. ASSUME NEW s \in Swaps, SwapRegistrar(s) \/ SwapCae(s) \/ SwapDesregistrar(s)
      PROVE  Memoria' /\ Alcanza'
  <2>1. UNCHANGED <<tabla, lista_huecos, lista_memory_sticks, memoria_total, stick_estado,
                    pc, pedido, destino, movidos, bases, restaurados, segmentos_swap>>
    BY <1>5 DEF SwapRegistrar, SwapCae, SwapDesregistrar, tablas, memVars, swapVars,
                ksLocals, peers
  <2>2. Areas' = Areas /\ ListaReservas' = ListaReservas
    BY <2>1 DEF Areas, HuecosDe, ListaReservas, EnSwap
  <2>3. QED
    BY <2>1, <2>2, MemoriaQuieta
<1>6. QED
  BY <1>1, <1>2, <1>3, <1>4, <1>5 DEF Entorno

-----------------------------------------------------------------------------
\* A process without a context has no segments, in memory or in the SWAP,
\* whatever request arrives,
LEMMA ContextosAtender ==
  ASSUME TipoInv, Contextos, NEW p \in Pids, Atender(p)
  PROVE  Contextos'
<1>1. CASE CrearProceso(p)
  BY <1>1 DEF CrearProceso, Contextos, TipoInv, TypeOK, memVars, swapVars, ksLocals
<1>2. CASE ProcesoLiberarMemoria(p)
  BY <1>2 DEF ProcesoLiberarMemoria, Contextos, TipoInv, TypeOK, PedidoNulo
<1>3. ASSUME NEW i \in Ids, NEW t \in Tamanios, CrearSegmentoOK(p, i, t)
      PROVE  Contextos'
  BY <1>3 DEF CrearSegmentoOK, OcuparYAnotar, ResultadoCrear, Contextos, TipoInv, TypeOK,
              swapVars, ksLocals
<1>4. ASSUME NEW i \in Ids, NEW t \in Tamanios, CrearSegmentoError(p, i, t)
      PROVE  Contextos'
  BY <1>4 DEF CrearSegmentoError, Contextos, tablas, swapVars, ksLocals
<1>5. ASSUME NEW i \in Ids, NEW t \in Tamanios, CrearSegmentoCompactar(p, i, t)
      PROVE  Contextos'
  BY <1>5 DEF CrearSegmentoCompactar, ResultadoCrear, Contextos, tablas, swapVars
<1>6. ASSUME NEW i \in Ids, SegmentoEliminar(p, i)
      PROVE  Contextos'
  <2>1. PICK k \in 1 .. Len(tabla[p]) : tabla' = [tabla EXCEPT ![p] = RemoveAt(@, k)]
    BY <1>6 DEF SegmentoEliminar
  <2>2. tabla[p] # <<>>
    BY <2>1, EmptySeq
  <2>3. QED
    BY <1>6, <2>1, <2>2 DEF SegmentoEliminar, Contextos, TipoInv, TypeOK, swapVars, ksLocals
<1>7. ASSUME NEW i \in Ids, SegmentoEliminarError(p, i)
      PROVE  Contextos'
  BY <1>7 DEF SegmentoEliminarError, Contextos, tablas, swapVars, ksLocals
<1>8. CASE Suspender(p)
  BY <1>8 DEF Suspender, Contextos, tablas, swapVars
<1>9. CASE Dessuspender(p)
  BY <1>9 DEF Dessuspender, Contextos, tablas, swapVars, PedidoNulo
<1>10. ASSUME NEW k \in 1 .. MaxSegmentos, EscribirDatos(p, k)
       PROVE  Contextos'
  <2>1. tabla[p] # <<>>
    BY <1>10, EmptySeq, TablaTipo DEF EscribirDatos, TipoInv
  <2>2. QED
    BY <1>10, <2>1 DEF EscribirDatos, EscribirSegmento, Contextos, TipoInv, TypeOK, swapVars,
                       ksLocals
<1>11. QED
  BY <1>1, <1>2, <1>3, <1>4, <1>5, <1>6, <1>7, <1>8, <1>9, <1>10 DEF Atender

\* goes on
LEMMA ContextosContinuar ==
  ASSUME TipoInv, Contextos, Continuar
  PROVE  Contextos'
<1>1. CASE ContextoEliminar
  BY <1>1 DEF ContextoEliminar, Terminar, Contextos, TipoInv, TypeOK, swapVars
<1>2. CASE ConfirmacionRecibida
  BY <1>2 DEF ConfirmacionRecibida, Contextos, tablas, swapVars
<1>3. ASSUME NEW p \in Pids, NEW k \in 1 .. MaxSegmentos, CompactarSegmento(p, k)
      PROVE  Contextos'
  <2>1. p \in contextos
    BY <1>3, SiguienteTipo DEF CompactarSegmento, TipoInv
  <2>2. QED
    BY <1>3, <2>1 DEF CompactarSegmento, Contextos, TipoInv, TypeOK, swapVars
<1>4. ASSUME NEW p \in Pids, NEW k \in 1 .. MaxSegmentos, CompactarFalla(p, k)
      PROVE  Contextos'
  BY <1>4 DEF CompactarFalla, Contextos, tablas, swapVars, ksLocals
<1>5. CASE CompactarFin
  BY <1>5 DEF CompactarFin, Contextos, tablas, swapVars, ksLocals
<1>6. CASE ReintentarCrear
  BY <1>6 DEF ReintentarCrear, OcuparYAnotar, Terminar, Contextos, TipoInv, TypeOK, swapVars
<1>7. CASE SuspenderSinCopiar \/ SuspenderEntrar \/ SuspenderCopiar \/ SuspenderRollback
  BY <1>7 DEF SuspenderSinCopiar, SuspenderEntrar, SuspenderCopiar, SuspenderRollback,
              Terminar, Contextos, tablas, swapVars
<1>8. CASE SuspenderLiberar
  BY <1>8 DEF SuspenderLiberar, Terminar, Contextos, TipoInv, TypeOK
<1>9. CASE DessAsignar \/ DessRollback \/ DessAsignado
  BY <1>9 DEF DessAsignar, DessRollback, DessAsignado, Terminar, Contextos, tablas, swapVars
<1>10. CASE DessRestaurar
  <2>1. pedido.pid \in contextos
    BY <1>10 DEF DessRestaurar, Contextos
  <2>2. QED
    BY <1>10, <2>1 DEF DessRestaurar, Contextos, TipoInv, TypeOK
<1>11. CASE DessFin
  BY <1>11 DEF DessFin, Terminar, Contextos, tablas
<1>12. QED
  BY <1>1, <1>2, <1>3, <1>4, <1>5, <1>6, <1>7, <1>8, <1>9, <1>10, <1>11 DEF Continuar

\* or is met by the other threads.
LEMMA ContextosEntorno ==
  ASSUME TipoInv, Contextos, Entorno
  PROVE  Contextos'
<1>1. CASE ConfirmacionRechazada
  BY <1>1 DEF ConfirmacionRechazada, Terminar, Contextos, tablas, swapVars
<1>2. ASSUME NEW p \in Pids, NEW k \in 1 .. MaxSegmentos, CpuEscribe(p, k)
      PROVE  Contextos'
  <2>1. tabla[p] # <<>>
    BY <1>2, EmptySeq, TablaTipo DEF CpuEscribe, TipoInv
  <2>2. QED
    BY <1>2, <2>1 DEF CpuEscribe, EscribirSegmento, Contextos, TipoInv, TypeOK, swapVars,
                      ksLocals
<1>3. ASSUME NEW f \in Sticks, MemoryStickAgregar(f) \/ StickCae(f) \/ MemoryStickEliminar(f)
      PROVE  Contextos'
  BY <1>3 DEF MemoryStickAgregar, StickCae, MemoryStickEliminar, Contextos, tablas, swapVars,
              ksLocals
<1>4. ASSUME NEW s \in Swaps, SwapRegistrar(s) \/ SwapCae(s) \/ SwapDesregistrar(s)
      PROVE  Contextos'
  BY <1>4 DEF SwapRegistrar, SwapCae, SwapDesregistrar, Contextos, tablas, swapVars, ksLocals
<1>5. QED
  BY <1>1, <1>2, <1>3, <1>4 DEF Entorno

-----------------------------------------------------------------------------
\* No memory yet: nobody owns anything.
LEMMA MemoriaInicial ==
  ASSUME ConstantesOK, Init
  PROVE  MemoriaInv
<1>1. TipoInv
  BY TipoInicial
<1>2. Contextos
  BY DEF Init, Contextos
<1>3. Areas = [p \in Pids |-> <<>>]
  <2>1. \A p \in Pids : Areas[p] = AreasDe(<<>>)
    BY <1>1, AreasTipo DEF TipoInv, Init
  <2>2. AreasDe(<<>>) = <<>>
    <3>1. <<>> \in Seq(Segmento)
      BY EmptySeq
    <3>2. QED
      BY <3>1, AreasDeOperaciones
  <2>3. QED
    BY <2>1, <2>2 DEF Areas
<1>4. ListaReservas = <<>>
  BY <1>1, SinReservas DEF Init
<1>5. SticksEnLista
  <2>1. TamaniosEnLista \in [1 .. 0 -> Nat]
    BY EmptySeq DEF TamaniosEnLista, Init
  <2>2. TamaniosEnLista \in Seq(Nat) /\ Len(TamaniosEnLista) = 0
    BY <2>1, FuncionEsSeq
  <2>3. Sumas(TamaniosEnLista)[0] = 0
    BY <2>2, SumasPasoAPaso
  <2>4. QED
    BY <2>2, <2>3 DEF SticksEnLista, Init
<1>6. ASSUME NEW a \in Nat
      PROVE  Reparto(<<>>, <<>>, Areas, 0, a)
  BY <1>3, VaciaNoCubre DEF Reparto, Solos, EnSegmento
<1>7. Memoria
  BY <1>4, <1>5, <1>6 DEF Memoria, Init
<1>8. Alcanza
  BY DEF Alcanza, Init
<1>9. QED
  BY <1>1, <1>2, <1>7, <1>8 DEF MemoriaInv

\* Whatever the requests and the disconnections, and in whatever order: every
\* address has one owner, and the bytes that a compaction was asked for are
\* there when it ends.
THEOREM MemoriaInvariante == Spec => []MemoriaInv
<1>1. Init => MemoriaInv
  BY MemoriaInicial, ConstantesOK
<1>2. MemoriaInv /\ [Next]_vars => MemoriaInv'
  <2> SUFFICES ASSUME MemoriaInv, [Next]_vars PROVE MemoriaInv'
    OBVIOUS
  <2> USE DEF MemoriaInv
  <2>1. ASSUME NEW p \in Pids, Atender(p) PROVE MemoriaInv'
    BY <2>1, TipoAtender, ContextosAtender, MemoriaAtender, ConstantesOK
  <2>2. CASE Continuar
    BY <2>2, TipoContinuar, ContextosContinuar, MemoriaContinuar, ConstantesOK, NulosOK
  <2>3. CASE Entorno
    BY <2>3, TipoEntorno, ContextosEntorno, MemoriaEntorno, ConstantesOK, NulosOK
  <2>4. CASE UNCHANGED vars
    <3>1. UNCHANGED <<contextos, tabla, lista_huecos, lista_memory_sticks, memoria_total,
                      procesos_en_swap, segmentos_swap, pc, pedido, destino, movidos,
                      bases, restaurados, stick_estado>>
      BY <2>4 DEF vars, tablas, memVars, swapVars, ksLocals, peers
    <3>2. TipoInv'
      BY <2>4 DEF TipoInv, TypeOK, Locales, EnSwap, vars, tablas, memVars, swapVars,
                  ksLocals, peers, datos
    <3>3. Contextos'
      BY <3>1 DEF Contextos
    <3>4. Areas' = Areas /\ ListaReservas' = ListaReservas
      BY <3>1 DEF Areas, HuecosDe, ListaReservas, EnSwap
    <3>5. Memoria' /\ Alcanza'
      BY <3>1, <3>4, MemoriaQuieta
    <3>6. QED
      BY <3>2, <3>3, <3>5
  <2>5. QED
    BY <2>1, <2>2, <2>3, <2>4 DEF Next
<1>3. QED
  BY <1>1, <1>2, PTL DEF Spec

\* No byte belongs to two segments, in the middle of a compaction either.
THEOREM SegmentosSinPisarse == Spec => []SegmentosDisjuntos
<1>1. MemoriaInv => SegmentosDisjuntos
  <2> SUFFICES ASSUME MemoriaInv, SinSticksCaidos,
                      NEW p \in Pids, NEW q \in Pids,
                      NEW i \in DOMAIN tabla[p], NEW j \in DOMAIN tabla[q], p # q \/ i # j
               PROVE  Disjuntas(tabla[p][i].base, tabla[p][i].limite,
                                tabla[q][j].base, tabla[q][j].limite)
    BY DEF SegmentosDisjuntos
  <2>1. TypeOK
    BY DEF MemoriaInv, TipoInv
  <2>2. /\ i \in 1 .. Len(Areas[p]) /\ j \in 1 .. Len(Areas[q])
        /\ Areas[p][i].base = tabla[p][i].base /\ Areas[p][i].tamanio = tabla[p][i].limite
        /\ Areas[q][j].base = tabla[q][j].base /\ Areas[q][j].tamanio = tabla[q][j].limite
        /\ tabla[p][i].base \in Nat /\ tabla[p][i].limite \in Nat
        /\ tabla[q][j].base \in Nat /\ tabla[q][j].limite \in Nat
    BY <2>1, AreasTipo
  <2>3. ASSUME NEW a \in Nat
        PROVE  ~ (EnHueco(Areas[p], a, i) /\ EnHueco(Areas[q], a, j))
    <3>1. Solos(Areas, a)
      BY DEF MemoriaInv, Memoria, Reparto
    <3>2. CASE p = q
      BY <2>2, <3>1, <3>2 DEF Solos, UnoSolo
    <3>3. CASE p # q
      BY <2>2, <3>1, <3>3 DEF Solos, Cubre
    <3>4. QED
      BY <3>2, <3>3
  <2>4. \A a \in Nat : ~ (/\ EnArea(a, tabla[p][i].base, tabla[p][i].limite)
                          /\ EnArea(a, tabla[q][j].base, tabla[q][j].limite))
    BY <2>2, <2>3 DEF EnHueco
  <2>5. QED
    BY <2>2, <2>4, DisjuntasPorDireccion
<1>2. QED
  BY <1>1, MemoriaInvariante, PTL

\* The areas taken, one by one: r counts from the first segment of the process.
LEMMA ReservaArea ==
  ASSUME TipoInv, NEW r \in Reservas
  PROVE  /\ r - restaurados \in 1 .. Len(ListaReservas)
         /\ ListaReservas[r - restaurados].base = bases[r]
         /\ ListaReservas[r - restaurados].tamanio = EnSwap[r].limite
         /\ bases[r] \in Nat /\ EnSwap[r].limite \in Nat
<1>1. /\ bases \in Seq(Nat) /\ Len(bases) \in Nat /\ restaurados \in 0 .. Len(bases)
      /\ \A j \in 1 .. Len(bases) : EnSwap[j].limite \in Nat
      /\ \A j \in 1 .. Len(bases) : bases[j] \in Nat
  BY ReservasHay, ElementOfSeq
<1>2. r \in 1 .. Len(bases) /\ r - restaurados \in 1 .. Len(bases) - restaurados
  BY <1>1 DEF Reservas
<1>3. restaurados + (r - restaurados) = r
  BY <1>1, <1>2
<1>4. /\ Len(ListaReservas) = Len(bases) - restaurados
      /\ ListaReservas[r - restaurados] = [base |-> bases[r], tamanio |-> EnSwap[r].limite]
  BY <1>2, <1>3, ReservasTipo
<1>5. QED
  BY <1>1, <1>2, <1>4

\* A hole overlaps nothing, the areas of a de-suspension under way included.
THEOREM HuecosSinPisar == Spec => []HuecosLibres
<1>1. MemoriaInv => HuecosLibres
  <2> SUFFICES ASSUME MemoriaInv, SinSticksCaidos, pc # "compactar",
                      NEW i \in DOMAIN lista_huecos
               PROVE  /\ \A j \in DOMAIN lista_huecos : i # j =>
                           Disjuntas(lista_huecos[i].base, lista_huecos[i].tamanio,
                                     lista_huecos[j].base, lista_huecos[j].tamanio)
                      /\ \A p \in Pids : \A k \in DOMAIN tabla[p] :
                           Disjuntas(lista_huecos[i].base, lista_huecos[i].tamanio,
                                     tabla[p][k].base, tabla[p][k].limite)
                      /\ \A r \in Reservas :
                           Disjuntas(lista_huecos[i].base, lista_huecos[i].tamanio,
                                     bases[r], EnSwap[r].limite)
    BY DEF HuecosLibres
  <2>1. TypeOK /\ TipoInv
    BY DEF MemoriaInv, TipoInv
  <2>2. \A a \in Nat : Reparto(lista_huecos, ListaReservas, Areas, memoria_total, a)
    BY DEF MemoriaInv, Memoria
  <2>3. \A j \in DOMAIN lista_huecos :
          /\ j \in 1 .. Len(lista_huecos)
          /\ lista_huecos[j].base \in Nat /\ lista_huecos[j].tamanio \in Nat
    BY <2>1, HuecosNumeros DEF TypeOK
  <2>4. ASSUME NEW j \in DOMAIN lista_huecos, i # j
        PROVE  Disjuntas(lista_huecos[i].base, lista_huecos[i].tamanio,
                         lista_huecos[j].base, lista_huecos[j].tamanio)
    <3>1. \A a \in Nat : ~ (EnHueco(lista_huecos, a, i) /\ EnHueco(lista_huecos, a, j))
      BY <2>2, <2>3, <2>4 DEF Reparto, UnoSolo
    <3>2. QED
      BY <2>3, <3>1, DisjuntasPorDireccion DEF EnHueco
  <2>5. ASSUME NEW p \in Pids, NEW k \in DOMAIN tabla[p]
        PROVE  Disjuntas(lista_huecos[i].base, lista_huecos[i].tamanio,
                         tabla[p][k].base, tabla[p][k].limite)
    <3>1. /\ k \in 1 .. Len(Areas[p])
          /\ Areas[p][k].base = tabla[p][k].base /\ Areas[p][k].tamanio = tabla[p][k].limite
          /\ tabla[p][k].base \in Nat /\ tabla[p][k].limite \in Nat
      BY <2>1, AreasTipo
    <3>2. \A a \in Nat : ~ (EnHueco(lista_huecos, a, i) /\ EnHueco(Areas[p], a, k))
      BY <2>2, <2>3, <3>1 DEF Reparto, EnSegmento, Cubre
    <3>3. \A a \in Nat : ~ (/\ EnArea(a, lista_huecos[i].base, lista_huecos[i].tamanio)
                            /\ EnArea(a, tabla[p][k].base, tabla[p][k].limite))
      BY <3>1, <3>2 DEF EnHueco
    <3>4. QED
      BY <2>3, <3>1, <3>3, DisjuntasPorDireccion
  <2>6. ASSUME NEW r \in Reservas
        PROVE  Disjuntas(lista_huecos[i].base, lista_huecos[i].tamanio,
                         bases[r], EnSwap[r].limite)
    <3> DEFINE k == r - restaurados
    <3>1. /\ k \in 1 .. Len(ListaReservas)
          /\ ListaReservas[k].base = bases[r] /\ ListaReservas[k].tamanio = EnSwap[r].limite
          /\ bases[r] \in Nat /\ EnSwap[r].limite \in Nat
      BY <2>1, ReservaArea
    <3> HIDE DEF k
    <3>2. \A a \in Nat : ~ (EnHueco(lista_huecos, a, i) /\ EnHueco(ListaReservas, a, k))
      BY <2>2, <2>3, <3>1 DEF Reparto, Cubre
    <3>3. \A a \in Nat : ~ (/\ EnArea(a, lista_huecos[i].base, lista_huecos[i].tamanio)
                            /\ EnArea(a, bases[r], EnSwap[r].limite))
      BY <3>1, <3>2 DEF EnHueco
    <3>4. QED
      BY <2>3, <3>1, <3>3, DisjuntasPorDireccion
  <2>7. QED
    BY <2>4, <2>5, <2>6
<1>2. QED
  BY <1>1, MemoriaInvariante, PTL

\* No byte of the sticks is lost.
THEOREM NadaSePierde == Spec => []SinFugas
<1>1. MemoriaInv => SinFugas
  <2> SUFFICES ASSUME MemoriaInv, SinSticksCaidos, pc # "compactar",
                      NEW a \in 0 .. memoria_total - 1
               PROVE  \/ \E i \in DOMAIN lista_huecos :
                           EnArea(a, lista_huecos[i].base, lista_huecos[i].tamanio)
                      \/ \E p \in Pids : \E k \in DOMAIN tabla[p] :
                           EnArea(a, tabla[p][k].base, tabla[p][k].limite)
                      \/ \E r \in Reservas : EnArea(a, bases[r], EnSwap[r].limite)
    BY DEF SinFugas
  <2>1. TypeOK /\ TipoInv
    BY DEF MemoriaInv, TipoInv
  <2>2. a \in Nat /\ a < memoria_total
    BY <2>1 DEF TypeOK
  <2>3. Reparto(lista_huecos, ListaReservas, Areas, memoria_total, a)
    BY <2>2 DEF MemoriaInv, Memoria
  <2>4. Cubre(lista_huecos, a) \/ Cubre(ListaReservas, a) \/ EnSegmento(Areas, a)
    BY <2>2, <2>3 DEF Reparto
  <2>5. CASE Cubre(lista_huecos, a)
    <3>1. DOMAIN lista_huecos = 1 .. Len(lista_huecos)
      BY <2>1, HuecosNumeros DEF TypeOK
    <3>2. QED
      BY <2>5, <3>1 DEF Cubre, EnHueco
  <2>6. CASE EnSegmento(Areas, a)
    <3>0. PICK p \in Pids : Cubre(Areas[p], a)
      BY <2>6 DEF EnSegmento
    <3>1. PICK k \in 1 .. Len(Areas[p]) : EnArea(a, Areas[p][k].base, Areas[p][k].tamanio)
      BY <3>0 DEF Cubre, EnHueco
    <3>2. /\ k \in DOMAIN tabla[p]
          /\ Areas[p][k].base = tabla[p][k].base /\ Areas[p][k].tamanio = tabla[p][k].limite
      BY <2>1, AreasTipo
    <3>3. EnArea(a, tabla[p][k].base, tabla[p][k].limite)
      BY <3>1, <3>2
    <3>4. QED
      BY <3>2, <3>3
  <2>7. CASE Cubre(ListaReservas, a)
    <3>1. PICK k \in 1 .. Len(ListaReservas) :
            EnArea(a, ListaReservas[k].base, ListaReservas[k].tamanio)
      BY <2>7 DEF Cubre, EnHueco
    <3>2. /\ Len(ListaReservas) = Len(bases) - restaurados
          /\ Len(bases) \in Nat /\ restaurados \in 0 .. Len(bases)
      BY <2>1, ReservasHay, ReservasTipo
    <3>3. restaurados + k \in Reservas /\ (restaurados + k) - restaurados = k
      BY <3>2 DEF Reservas
    <3>4. /\ ListaReservas[k].base = bases[restaurados + k]
          /\ ListaReservas[k].tamanio = EnSwap[restaurados + k].limite
      BY <2>1, <3>3, ReservaArea
    <3>5. QED
      BY <3>1, <3>3, <3>4
  <2>8. QED
    BY <2>4, <2>5, <2>6, <2>7
<1>2. QED
  BY <1>1, MemoriaInvariante, PTL

\* The segment that asked for the compaction fits after it.
THEOREM CompactarAlcanzaSiempre == Spec => []CompactarAlcanza
<1>1. MemoriaInv => CompactarAlcanza
  <2> SUFFICES ASSUME MemoriaInv, pedido.tam > 0, SinSticksCaidos, pc = "reintentar"
               PROVE  ResultadoCrear(pedido.pid, pedido.tam) = "OK"
    BY DEF CompactarAlcanza
  <2>1. PICK i \in 1 .. Len(lista_huecos) : pedido.tam <= lista_huecos[i].tamanio
    BY DEF MemoriaInv, Alcanza
  <2>2. /\ lista_huecos \in Seq(Hueco) /\ pedido.tam \in Nat
        /\ allocation_best_fit \in BOOLEAN
    BY DEF MemoriaInv, TipoInv, TypeOK, Pedido
  <2>3. Buscar(pedido.tam) # SinHueco
    BY <2>1, <2>2, BuscarHuecoEncuentra DEF Buscar
  <2>4. /\ pedido.pid \in contextos
        /\ ~ (SegmentMaxSize > 0 /\ pedido.tam > SegmentMaxSize)
    BY DEF MemoriaInv, Contextos
  <2>5. QED
    BY <2>3, <2>4 DEF ResultadoCrear
<1>2. QED
  BY <1>1, MemoriaInvariante, PTL

-----------------------------------------------------------------------------
(* What is in the bytes.  Where a byte is does not depend on how it got     *)
(* there, so the contents follow from the owners: a step that moves a       *)
(* segment writes its bytes where it goes and over no other segment, a copy *)
(* to the SWAP takes blocks nobody has, and what comes back goes to an area *)
(* that was free.  First the arithmetic: blocks in order, sums of sizes.    *)

\* The numbers of a set of blocks below b.
Menores(L, b) == {c \in L : c < b}

\* Counting the elements below one is a number, and one more element in
\* between counts.
LEMMA MenoresCuenta ==
  ASSUME NEW L \in SUBSET Nat, IsFiniteSet(L)
  PROVE  /\ \A b \in Nat : /\ IsFiniteSet(Menores(L, b))
                           /\ Cardinality(Menores(L, b)) \in Nat
                           /\ Cardinality(Menores(L, b)) <= Cardinality(L)
         /\ \A b, c \in L : b < c => Cardinality(Menores(L, b)) < Cardinality(Menores(L, c))
         /\ \A b \in L : Cardinality(Menores(L, b)) < Cardinality(L)
<1>1. ASSUME NEW b \in Nat
      PROVE  /\ IsFiniteSet(Menores(L, b))
             /\ Cardinality(Menores(L, b)) \in Nat
             /\ Cardinality(Menores(L, b)) <= Cardinality(L)
  <2>1. Menores(L, b) \in SUBSET L
    BY DEF Menores
  <2>2. QED
    BY <2>1, FS_Subset, FS_CardinalityType
<1>2. ASSUME NEW b \in L, NEW T, IsFiniteSet(T), Menores(L, b) \subseteq T, b \in T
      PROVE  Cardinality(Menores(L, b)) < Cardinality(T)
  <2> DEFINE M == Menores(L, b)
  <2>1. IsFiniteSet(M) /\ Cardinality(M) \in Nat
    BY <1>1
  <2>2. b \notin M
    BY DEF Menores
  <2>3. IsFiniteSet(M \cup {b}) /\ Cardinality(M \cup {b}) = Cardinality(M) + 1
    BY <2>1, <2>2, FS_AddElement
  <2>4. M \cup {b} \in SUBSET T
    BY <1>2
  <2>5. Cardinality(M \cup {b}) <= Cardinality(T) /\ Cardinality(T) \in Nat
    BY <1>2, <2>4, FS_Subset, FS_CardinalityType
  <2> HIDE DEF M
  <2>6. Cardinality(M) < Cardinality(T)
    BY <2>1, <2>3, <2>5
  <2>7. QED
    BY <2>6 DEF M
<1>3. ASSUME NEW b \in L, NEW c \in L, b < c
      PROVE  Cardinality(Menores(L, b)) < Cardinality(Menores(L, c))
  <2>1. b \in Nat /\ c \in Nat /\ IsFiniteSet(Menores(L, c))
    BY <1>1
  <2>2. \A x \in L : x < b => x < c
    BY <1>3
  <2>3. Menores(L, b) \subseteq Menores(L, c) /\ b \in Menores(L, c)
    BY <1>3, <2>2 DEF Menores
  <2>4. QED
    BY <1>2, <2>1, <2>3
<1>4. ASSUME NEW b \in L
      PROVE  Cardinality(Menores(L, b)) < Cardinality(L)
  <2>1. Menores(L, b) \subseteq L
    BY DEF Menores
  <2>2. QED
    BY <1>2, <2>1
<1>5. QED
  BY <1>1, <1>3, <1>4

\* Every position below the number of elements is the position of one of them.
LEMMA MenoresTodas ==
  ASSUME NEW L \in SUBSET Nat, IsFiniteSet(L), NEW i \in Nat, i < Cardinality(L)
  PROVE  \E b \in L : Cardinality(Menores(L, b)) = i
<1> DEFINE B == {j \in Nat : \E b \in L : Cardinality(Menores(L, b)) = j}
<1>1. Cardinality(L) \in Nat /\ L # {}
  BY FS_CardinalityType, FS_EmptySet
<1>2. 0 \in B
  <2>1. PICK b \in L : \A c \in L : b <= c
    BY <1>1, MinimoNat
  <2>2. Menores(L, b) = {}
    <3>1. \A c \in L : ~ (c < b)
      BY <2>1
    <3>2. QED
      BY <3>1 DEF Menores
  <2>3. Cardinality(Menores(L, b)) = 0
    BY <2>2, FS_EmptySet
  <2>4. QED
    BY <2>3
<1>3. ASSUME NEW j \in 0 .. i - 1, j \in B
      PROVE  j + 1 \in B
  <2>1. PICK b \in L : Cardinality(Menores(L, b)) = j
    BY <1>3
  <2> DEFINE M == Menores(L, b)
             R == {c \in L : b < c}
  <2>2. IsFiniteSet(M) /\ b \notin M
    <3>1. b \in Nat
      OBVIOUS
    <3>2. QED
      BY <3>1, MenoresCuenta DEF Menores
  <2>3. IsFiniteSet(M \cup {b}) /\ Cardinality(M \cup {b}) = j + 1
    BY <2>1, <2>2, FS_AddElement
  <2>4. R # {}
    <3>1. SUFFICES ASSUME R = {} PROVE FALSE
      OBVIOUS
    <3>2. L = M \cup {b}
      <4>1. \A c \in L : c < b \/ c = b
        BY <3>1
      <4>2. QED
        BY <4>1 DEF Menores
    <3>3. Cardinality(L) = j + 1
      BY <2>3, <3>2
    <3>4. QED
      BY <1>1, <3>3
  <2>5. PICK d \in R : \A c \in R : d <= c
    <3>1. R \in SUBSET Nat
      OBVIOUS
    <3>2. QED
      BY <2>4, <3>1, MinimoNat
  <2>6. Menores(L, d) = M \cup {b}
    <3>1. d \in L /\ b < d
      OBVIOUS
    <3>2. \A c \in L : c < d <=> c < b \/ c = b
      <4>1. ASSUME NEW c \in L PROVE c < d <=> c < b \/ c = b
        <5>1. b < c => d <= c
          BY <2>5
        <5>2. b \in Nat /\ c \in Nat /\ d \in Nat
          BY <3>1
        <5>3. QED
          BY <3>1, <5>1, <5>2
      <4>2. QED
        BY <4>1
    <3>3. QED
      BY <3>2 DEF Menores
  <2>7. Cardinality(Menores(L, d)) = j + 1 /\ d \in L
    BY <2>3, <2>6
  <2>8. QED
    BY <2>7
<1> HIDE DEF B
<1>4. 0 .. i \subseteq B
  BY <1>2, <1>3, InduccionHasta
<1>5. i \in B
  BY <1>4
<1>6. QED
  BY <1>5 DEF B

\* The first n elements are n.
LEMMA PrimerosCuenta ==
  ASSUME NEW L \in SUBSET Nat, IsFiniteSet(L), NEW n \in Nat, n <= Cardinality(L)
  PROVE  /\ IsFiniteSet({b \in L : Cardinality(Menores(L, b)) < n})
         /\ Cardinality({b \in L : Cardinality(Menores(L, b)) < n}) = n
<1> DEFINE P(k) == {b \in L : Cardinality(Menores(L, b)) < k}
           B == {k \in Nat : IsFiniteSet(P(k)) /\ Cardinality(P(k)) = k}
<1>1. /\ Cardinality(L) \in Nat
      /\ \A b \in L : b \in Nat /\ Cardinality(Menores(L, b)) \in Nat
  BY FS_CardinalityType, MenoresCuenta
<1>2. 0 \in B
  <2>1. \A b \in L : ~ (Cardinality(Menores(L, b)) < 0)
    BY <1>1
  <2>2. P(0) = {}
    BY <2>1
  <2>3. QED
    BY <2>2, FS_EmptySet
<1>3. ASSUME NEW k \in 0 .. n - 1, k \in B
      PROVE  k + 1 \in B
  <2>1. PICK b \in L : Cardinality(Menores(L, b)) = k
    <3>1. k \in Nat /\ k < Cardinality(L)
      BY <1>1
    <3>2. QED
      BY <3>1, MenoresTodas
  <2>2. \A c \in L : Cardinality(Menores(L, c)) = k => c = b
    <3>1. \A c, d \in L : c < d => Cardinality(Menores(L, c)) < Cardinality(Menores(L, d))
      BY MenoresCuenta
    <3>2. QED
      BY <1>1, <2>1, <3>1
  <2>3. P(k + 1) = P(k) \cup {b} /\ b \notin P(k)
    <3>1. \A c \in L : Cardinality(Menores(L, c)) < k + 1
                       <=> Cardinality(Menores(L, c)) < k \/ c = b
      BY <1>1, <2>1, <2>2
    <3>2. ~ (Cardinality(Menores(L, b)) < k)
      BY <2>1
    <3>3. QED
      BY <3>1, <3>2
  <2>4. IsFiniteSet(P(k)) /\ Cardinality(P(k)) = k
    BY <1>3
  <2>5. IsFiniteSet(P(k) \cup {b}) /\ Cardinality(P(k) \cup {b}) = k + 1
    BY <2>3, <2>4, FS_AddElement
  <2>6. QED
    BY <2>3, <2>5
<1> HIDE DEF B
<1>4. 0 .. n \subseteq B
  BY <1>2, <1>3, InduccionHasta
<1>5. n \in B
  BY <1>4
<1>6. QED
  BY <1>5 DEF B

\* An offset is its block times the size of a block plus the rest.
LEMMA Division ==
  ASSUME NEW o \in Nat, NEW n \in Nat \ {0}
  PROVE  /\ o \div n \in Nat /\ o % n \in 0 .. n - 1
         /\ (o \div n) * n + (o % n) = o
OBVIOUS

\* The block of an offset of t bytes is one of those that t bytes need.
LEMMA BloqueDeOffset ==
  ASSUME ConstantesOK, NEW t \in Nat, NEW o \in 0 .. t - 1
  PROVE  /\ CantidadBloques(t) \in Nat
         /\ o \div BlockSize \in Nat /\ o \div BlockSize < CantidadBloques(t)
<1> DEFINE q == o \div BlockSize
           u == t + BlockSize - 1
           w == u \div BlockSize
<1>1. BlockSize \in Nat \ {0} /\ o \in Nat /\ u \in Nat /\ o <= t - 1
  BY DEF ConstantesOK
<1>2. q \in Nat /\ q * BlockSize <= o
  BY <1>1, Division
<1> HIDE DEF u
<1>3. w \in Nat /\ u < w * BlockSize + BlockSize
  BY <1>1, Division
<1> HIDE DEF q, w
<1>4. q < w
  <2>1. SUFFICES ASSUME w <= q PROVE FALSE
    BY <1>2, <1>3
  <2>2. w * BlockSize <= q * BlockSize
    BY <1>1, <1>2, <1>3, <2>1
  <2>3. w * BlockSize \in Nat /\ q * BlockSize \in Nat
    BY <1>1, <1>2, <1>3
  <2> DEFINE x == w * BlockSize
             y == q * BlockSize
  <2>4. x \in Nat /\ y \in Nat /\ x <= y /\ y <= o /\ u < x + BlockSize
    BY <1>2, <1>3, <2>2, <2>3
  <2> HIDE DEF x, y
  <2>5. u = t + BlockSize - 1
    BY DEF u
  <2>6. QED
    BY <1>1, <2>4, <2>5
<1>5. QED
  BY <1>2, <1>3, <1>4 DEF CantidadBloques, q, w, u

-----------------------------------------------------------------------------
\* The sums of a list never go down.
LEMMA SumasCrecen ==
  ASSUME NEW a \in Seq(Nat), NEW i \in 0 .. Len(a), NEW j \in 0 .. Len(a), i <= j
  PROVE  /\ Sumas(a)[i] \in Nat /\ Sumas(a)[j] \in Nat
         /\ Sumas(a)[i] <= Sumas(a)[j]
<1> DEFINE B == {k \in Nat : i + k <= Len(a) => Sumas(a)[i] <= Sumas(a)[i + k]}
<1>1. /\ Len(a) \in Nat /\ \A k \in 1 .. Len(a) : a[k] \in Nat
      /\ \A k \in 0 .. Len(a) : Sumas(a)[k] \in Nat
      /\ \A k \in 1 .. Len(a) : Sumas(a)[k] = Sumas(a)[k - 1] + a[k]
  BY SumasPasoAPaso, LenProperties, ElementOfSeq
<1>2. 0 \in B
  BY <1>1
<1>3. ASSUME NEW k \in 0 .. j - 1, k \in B PROVE k + 1 \in B
  <2>1. SUFFICES ASSUME i + (k + 1) <= Len(a)
                 PROVE  Sumas(a)[i] <= Sumas(a)[i + (k + 1)]
    OBVIOUS
  <2>2. /\ i + (k + 1) \in 1 .. Len(a) /\ i + k \in 0 .. Len(a)
        /\ (i + (k + 1)) - 1 = i + k
    BY <1>1, <2>1
  <2>3. Sumas(a)[i + (k + 1)] = Sumas(a)[i + k] + a[i + (k + 1)]
    BY <1>1, <2>2
  <2>4. Sumas(a)[i] <= Sumas(a)[i + k]
    BY <1>1, <1>3, <2>2
  <2>5. /\ Sumas(a)[i] \in Nat /\ Sumas(a)[i + k] \in Nat /\ a[i + (k + 1)] \in Nat
    BY <1>1, <2>2
  <2>6. QED
    BY <2>3, <2>4, <2>5
<1> HIDE DEF B
<1>4. 0 .. j \subseteq B
  <2>1. j \in Nat
    BY <1>1
  <2>2. \A k \in 0 .. j - 1 : k \in B => k + 1 \in B
    BY <1>3
  <2>3. QED
    BY <1>2, <2>1, <2>2, InduccionHasta
<1>5. j - i \in 0 .. j /\ i + (j - i) = j /\ j <= Len(a)
  BY <1>1
<1>6. j - i \in B
  BY <1>4, <1>5
<1>7. Sumas(a)[i] <= Sumas(a)[i + (j - i)]
  BY <1>5, <1>6 DEF B
<1>8. QED
  BY <1>1, <1>5, <1>7

\* A number falls in one stretch of the sums only.
LEMMA SumasTramoUnico ==
  ASSUME NEW a \in Seq(Nat), NEW d \in Nat, NEW j \in 1 .. Len(a), NEW k \in 1 .. Len(a),
         Sumas(a)[j - 1] <= d, d < Sumas(a)[j - 1] + a[j],
         Sumas(a)[k - 1] <= d, d < Sumas(a)[k - 1] + a[k]
  PROVE  j = k
<1>1. ASSUME NEW x \in 1 .. Len(a), NEW y \in 1 .. Len(a), x < y,
             d < Sumas(a)[x - 1] + a[x], Sumas(a)[y - 1] <= d
      PROVE  FALSE
  <2>1. /\ Len(a) \in Nat /\ x \in 0 .. Len(a) /\ y - 1 \in 0 .. Len(a) /\ x <= y - 1
    BY <1>1, LenProperties
  <2>2. /\ Sumas(a)[x] \in Nat /\ Sumas(a)[y - 1] \in Nat
        /\ Sumas(a)[x] <= Sumas(a)[y - 1]
    BY <2>1, SumasCrecen
  <2>3. Sumas(a)[x] = Sumas(a)[x - 1] + a[x]
    BY SumasPasoAPaso
  <2>4. d < Sumas(a)[x]
    BY <1>1, <2>3
  <2>5. Sumas(a)[y - 1] <= d
    BY <1>1
  <2>6. QED
    BY ONLY d \in Nat, <2>2, <2>4, <2>5
<1>2. ~ (j < k) /\ ~ (k < j)
  BY <1>1
<1>3. QED
  BY <1>2

-----------------------------------------------------------------------------
\* Every connection is in the list once.
SinRepetidos ==
  SinSticksCaidos =>
    \A i, j \in DOMAIN lista_memory_sticks :
      lista_memory_sticks[i] = lista_memory_sticks[j] => i = j

\* Position, in the list of sticks, and offset of an address.
Cae(dir, k, x) ==
  /\ k \in DOMAIN lista_memory_sticks
  /\ x \in 0 .. TamStick[lista_memory_sticks[k]] - 1
  /\ dir = Acumulado(k) + x

\* What memory_stick_localizar returns is where the address is.
LEMMA LocalizarCae ==
  ASSUME TypeOK, ConstantesOK, NEW dir \in Nat, MemoryStickLocalizar(dir) # SinStick
  PROVE  \E k, x : /\ Cae(dir, k, x)
                   /\ MemoryStickLocalizar(dir)
                        = [fd |-> lista_memory_sticks[k], offset |-> x]
<1> DEFINE ks == {k \in DOMAIN lista_memory_sticks : CaeEn(dir, k) # {}}
           kk == CHOOSE k \in ks : TRUE
           xx == CHOOSE x \in CaeEn(dir, kk) : TRUE
<1>1. ks # {}
  BY DEF MemoryStickLocalizar
<1>2. kk \in DOMAIN lista_memory_sticks /\ CaeEn(dir, kk) # {}
  BY <1>1
<1>3. MemoryStickLocalizar(dir) = [fd |-> lista_memory_sticks[kk], offset |-> xx]
  BY <1>1 DEF MemoryStickLocalizar
<1> HIDE DEF kk
<1>4. xx \in CaeEn(dir, kk)
  BY <1>2
<1> HIDE DEF xx
<1>5. Cae(dir, kk, xx)
  BY <1>2, <1>4 DEF Cae, CaeEn
<1>6. QED
  BY <1>3, <1>5

\* The sums of memory_stick_localizar.
LEMMA AcumuladoTipo ==
  ASSUME TypeOK, ConstantesOK
  PROVE  /\ TamaniosEnLista \in Seq(Nat)
         /\ Len(lista_memory_sticks) \in Nat
         /\ Len(TamaniosEnLista) = Len(lista_memory_sticks)
         /\ DOMAIN lista_memory_sticks = 1 .. Len(lista_memory_sticks)
         /\ \A k \in 1 .. Len(lista_memory_sticks) :
              /\ lista_memory_sticks[k] \in Sticks
              /\ TamaniosEnLista[k] = TamStick[lista_memory_sticks[k]]
              /\ TamaniosEnLista[k] \in Nat
              /\ Acumulado(k) = Sumas(TamaniosEnLista)[k - 1]
              /\ Acumulado(k) \in Nat
<1>1. /\ Len(lista_memory_sticks) \in Nat
      /\ DOMAIN lista_memory_sticks = 1 .. Len(lista_memory_sticks)
      /\ \A k \in 1 .. Len(lista_memory_sticks) : lista_memory_sticks[k] \in Sticks
  BY LenProperties, ElementOfSeq DEF TypeOK
<1>2. \A k \in 1 .. Len(lista_memory_sticks) :
        /\ TamaniosEnLista[k] = TamStick[lista_memory_sticks[k]]
        /\ TamaniosEnLista[k] \in Nat
  BY <1>1 DEF ConstantesOK, TamaniosEnLista
<1>3. TamaniosEnLista \in [1 .. Len(lista_memory_sticks) -> Nat]
  BY <1>1, <1>2 DEF TamaniosEnLista
<1>4. TamaniosEnLista \in Seq(Nat) /\ Len(TamaniosEnLista) = Len(lista_memory_sticks)
  BY <1>1, <1>3, FuncionEsSeq
<1>5. ASSUME NEW k \in 1 .. Len(lista_memory_sticks)
      PROVE  /\ Acumulado(k) = Sumas(TamaniosEnLista)[k - 1]
             /\ Acumulado(k) \in Nat
  <2>1. Acumulado(k) = Sumas(TamaniosEnLista)[k - 1]
    BY DEF Acumulado, TamaniosEnLista
  <2>2. k - 1 \in 0 .. Len(TamaniosEnLista)
    BY <1>1, <1>4
  <2>3. Sumas(TamaniosEnLista)[k - 1] \in Nat
    BY <1>4, <2>2, SumasPasoAPaso
  <2>4. QED
    BY <2>1, <2>3
<1>6. QED
  BY <1>1, <1>2, <1>4, <1>5

\* An address is in one place.
LEMMA CaeUnico ==
  ASSUME TypeOK, ConstantesOK, NEW dir \in Nat, NEW j, NEW x, NEW k, NEW y,
         Cae(dir, j, x), Cae(dir, k, y)
  PROVE  j = k /\ x = y
<1>1. /\ j \in 1 .. Len(TamaniosEnLista) /\ k \in 1 .. Len(TamaniosEnLista)
      /\ TamaniosEnLista[j] = TamStick[lista_memory_sticks[j]] /\ TamaniosEnLista[j] \in Nat
      /\ TamaniosEnLista[k] = TamStick[lista_memory_sticks[k]] /\ TamaniosEnLista[k] \in Nat
      /\ Acumulado(j) = Sumas(TamaniosEnLista)[j - 1] /\ Acumulado(j) \in Nat
      /\ Acumulado(k) = Sumas(TamaniosEnLista)[k - 1] /\ Acumulado(k) \in Nat
  BY AcumuladoTipo DEF Cae
<1>2. /\ x \in 0 .. TamaniosEnLista[j] - 1 /\ dir = Acumulado(j) + x
      /\ y \in 0 .. TamaniosEnLista[k] - 1 /\ dir = Acumulado(k) + y
  BY <1>1 DEF Cae
<1>3. /\ Sumas(TamaniosEnLista)[j - 1] <= dir
      /\ dir < Sumas(TamaniosEnLista)[j - 1] + TamaniosEnLista[j]
      /\ Sumas(TamaniosEnLista)[k - 1] <= dir
      /\ dir < Sumas(TamaniosEnLista)[k - 1] + TamaniosEnLista[k]
  <2> DEFINE A == Acumulado(j)
             B == Acumulado(k)
             S == TamaniosEnLista[j]
             T == TamaniosEnLista[k]
  <2>1. /\ A \in Nat /\ B \in Nat /\ S \in Nat /\ T \in Nat
        /\ x \in 0 .. S - 1 /\ dir = A + x
        /\ y \in 0 .. T - 1 /\ dir = B + y
    BY <1>1, <1>2
  <2> HIDE DEF A, B, S, T
  <2>2. A <= dir /\ dir < A + S /\ B <= dir /\ dir < B + T
    BY <2>1
  <2>3. QED
    BY <1>1, <2>2 DEF A, B, S, T
<1>4. j = k
  BY <1>1, <1>3, AcumuladoTipo, SumasTramoUnico
<1>5. QED
  BY <1>1, <1>2, <1>4

\* Two addresses are never the same byte.
LEMMA LocalizarInyectiva ==
  ASSUME TypeOK, ConstantesOK, SinRepetidos, SinSticksCaidos, NEW a \in Nat, NEW b \in Nat,
         MemoryStickLocalizar(a) # SinStick,
         MemoryStickLocalizar(b) = MemoryStickLocalizar(a)
  PROVE  a = b
<1>1. PICK j, x : /\ Cae(a, j, x)
                  /\ MemoryStickLocalizar(a) = [fd |-> lista_memory_sticks[j], offset |-> x]
  BY LocalizarCae
<1>2. PICK k, y : /\ Cae(b, k, y)
                  /\ MemoryStickLocalizar(b) = [fd |-> lista_memory_sticks[k], offset |-> y]
  BY LocalizarCae
<1>3. lista_memory_sticks[j] = lista_memory_sticks[k] /\ x = y
  BY <1>1, <1>2
<1>4. j = k
  BY <1>1, <1>2, <1>3 DEF SinRepetidos, Cae
<1>5. QED
  BY <1>1, <1>2, <1>3, <1>4 DEF Cae

\* The byte at an address.
Byte(a) == ram[MemoryStickLocalizar(a).fd][MemoryStickLocalizar(a).offset]

\* memoria_fisica_escribir changes the bytes of its area, each one to its byte of
\* the buffer, and no other byte.
LEMMA EscribirByte ==
  ASSUME TypeOK, ConstantesOK, NulosOK, SticksEnLista, SinRepetidos, SinSticksCaidos,
         NEW dir \in Nat, NEW t \in Nat, NEW buf, t > 0 => dir + t <= memoria_total,
         UNCHANGED lista_memory_sticks,
         ram' = MemoriaFisicaEscribir(dir, t, buf),
         NEW a \in Nat, a < memoria_total
  PROVE  Byte(a)' = IF EnArea(a, dir, t) THEN buf[a - dir] ELSE Byte(a)
<1> DEFINE l == MemoryStickLocalizar(a)
           os == {o \in 0 .. t - 1 : /\ MemoryStickLocalizar(dir + o)
                                           = [fd |-> l.fd, offset |-> l.offset]
                                     /\ PuedeAcceder(dir, o + 1)}
<1>1. l # SinStick
  BY TodoAlcanzable DEF Alcanzable
<1>2. l = [fd |-> l.fd, offset |-> l.offset]
  BY <1>1, LocalizarCae
<1>3. l.fd \in Sticks /\ l.offset \in 0 .. TamStick[l.fd] - 1
  BY <1>1, LocalizarTipo
<1>4. MemoryStickLocalizar(a)' = l
  BY DEF MemoryStickLocalizar, CaeEn, Acumulado
<1>5. Byte(a)' = ram'[l.fd][l.offset]
  BY <1>4 DEF Byte
<1>6. ram'[l.fd][l.offset] = IF os = {} THEN ram[l.fd][l.offset]
                             ELSE buf[CHOOSE o \in os : TRUE]
  BY <1>3 DEF MemoriaFisicaEscribir
<1>7. \A o \in os : o \in 0 .. t - 1 /\ dir + o = a
  <2>1. SUFFICES ASSUME NEW o \in os PROVE o \in 0 .. t - 1 /\ dir + o = a
    OBVIOUS
  <2>2. o \in 0 .. t - 1 /\ dir + o \in Nat /\ MemoryStickLocalizar(dir + o) = l
    BY <1>2
  <2>3. QED
    BY <1>1, <2>2, LocalizarInyectiva
<1>8. CASE EnArea(a, dir, t)
  <2>1. a - dir \in 0 .. t - 1 /\ dir + (a - dir) = a /\ (a - dir) + 1 \in Nat
        /\ (a - dir) + 1 <= t
    BY <1>8 DEF EnArea
  <2>2. PuedeAcceder(dir, (a - dir) + 1)
    <3>1. dir + ((a - dir) + 1) <= memoria_total
      BY <2>1 DEF TypeOK
    <3>2. QED
      BY <2>1, <3>1, PuedeAccederTodo
  <2>3. a - dir \in os
    BY <1>2, <2>1, <2>2
  <2>4. (CHOOSE o \in os : TRUE) \in os
    BY <2>3
  <2>5. (CHOOSE o \in os : TRUE) = a - dir
    <3> DEFINE c == CHOOSE o \in os : TRUE
    <3>1. c \in 0 .. t - 1 /\ dir + c = a
      BY <1>7, <2>4
    <3> HIDE DEF c
    <3>2. c = a - dir
      BY <3>1
    <3>3. QED
      BY <3>2 DEF c
  <2> HIDE DEF os
  <2>6. QED
    BY <1>5, <1>6, <1>8, <2>3, <2>5
<1>9. CASE ~ EnArea(a, dir, t)
  <2>1. os = {}
    <3>1. SUFFICES ASSUME NEW o \in os PROVE FALSE
      OBVIOUS
    <3>2. o \in 0 .. t - 1 /\ dir + o = a
      BY <1>7
    <3>3. QED
      BY <1>9, <3>2 DEF EnArea
  <2> HIDE DEF os
  <2>2. QED
    BY <1>5, <1>6, <1>9, <2>1 DEF Byte
<1>10. QED
  BY <1>8, <1>9

\* memory_stick_localizar returns where the address is.
Ubicado ==
  TypeOK => \A dir \in Nat : \A k \in Nat, x \in Nat :
    Cae(dir, k, x) =>
      MemoryStickLocalizar(dir) = [fd |-> lista_memory_sticks[k], offset |-> x]

\* In every state.
LEMMA LocalizarUbica ==
  ASSUME ConstantesOK
  PROVE  Ubicado
<1> SUFFICES ASSUME TypeOK, NEW dir \in Nat, NEW k \in Nat, NEW x \in Nat, Cae(dir, k, x)
             PROVE  MemoryStickLocalizar(dir) = [fd |-> lista_memory_sticks[k], offset |-> x]
  BY DEF Ubicado
<1> DEFINE ks == {j \in DOMAIN lista_memory_sticks : CaeEn(dir, j) # {}}
           kk == CHOOSE j \in ks : TRUE
           xx == CHOOSE y \in CaeEn(dir, kk) : TRUE
<1>1. k \in ks
  BY DEF Cae, CaeEn
<1>2. kk \in DOMAIN lista_memory_sticks /\ CaeEn(dir, kk) # {}
  BY <1>1
<1>3. MemoryStickLocalizar(dir) = [fd |-> lista_memory_sticks[kk], offset |-> xx]
  BY <1>1 DEF MemoryStickLocalizar
<1> HIDE DEF kk
<1>4. xx \in CaeEn(dir, kk)
  BY <1>2
<1> HIDE DEF xx
<1>5. Cae(dir, kk, xx)
  BY <1>2, <1>4 DEF Cae, CaeEn
<1>6. kk = k /\ xx = x
  BY <1>5, CaeUnico
<1>7. QED
  BY <1>3, <1>6

\* A stick at the end of the list moves no address.
LEMMA AgregarByte ==
  ASSUME TypeOK, ConstantesOK, NulosOK, SticksEnLista, NEW f \in Sticks,
         lista_memory_sticks' = Append(lista_memory_sticks, f),
         UNCHANGED ram, TypeOK', Ubicado',
         NEW a \in Nat, a < memoria_total
  PROVE  Byte(a)' = Byte(a)
<1> DEFINE l == lista_memory_sticks
<1>1. MemoryStickLocalizar(a) # SinStick
  BY TodoAlcanzable DEF Alcanzable
<1>2. PICK k, x : /\ Cae(a, k, x)
                  /\ MemoryStickLocalizar(a) = [fd |-> lista_memory_sticks[k], offset |-> x]
  BY <1>1, LocalizarCae
<1>3. k \in 1 .. Len(l) /\ x \in 0 .. TamStick[l[k]] - 1 /\ a = Acumulado(k) + x
  BY <1>2, AcumuladoTipo DEF Cae
<1>4. /\ Len(l) \in Nat
      /\ Len(l') = Len(l) + 1 /\ DOMAIN l' = 1 .. Len(l')
      /\ \A j \in 1 .. Len(l) : l'[j] = l[j] /\ l[j] \in Sticks
      /\ \A j \in 1 .. Len(l) + 1 : l'[j] \in Sticks
  <2>1. l \in Seq(Sticks) /\ l' \in Seq(Sticks)
    BY DEF TypeOK
  <2>2. QED
    BY <2>1, AppendProperties, LenProperties, ElementOfSeq
<1>5. /\ TamaniosEnLista \in Seq(Nat) /\ Len(TamaniosEnLista) = Len(l)
      /\ \A j \in 1 .. Len(l) : TamaniosEnLista[j] = TamStick[l[j]]
      /\ Acumulado(k) = Sumas(TamaniosEnLista)[k - 1]
  BY <1>3, AcumuladoTipo
<1>6. /\ TamaniosEnLista' \in Seq(Nat) /\ Len(TamaniosEnLista') = Len(l) + 1
      /\ \A j \in 1 .. Len(l) + 1 : TamaniosEnLista'[j] = TamStick[l'[j]]
  <2>1. TamaniosEnLista' = [j \in 1 .. Len(l) + 1 |-> TamStick[l'[j]]]
    BY <1>4 DEF TamaniosEnLista
  <2>2. TamaniosEnLista' \in [1 .. Len(l) + 1 -> Nat]
    BY <1>4, <2>1 DEF ConstantesOK
  <2>3. Len(l) + 1 \in Nat
    BY <1>4
  <2>4. QED
    BY <2>1, <2>2, <2>3, FuncionEsSeq
<1>7. Sumas(TamaniosEnLista')[k - 1] = Sumas(TamaniosEnLista)[k - 1]
  <2>1. Len(TamaniosEnLista') = Len(TamaniosEnLista) + 1
    BY <1>5, <1>6
  <2>2. \A j \in 1 .. Len(TamaniosEnLista) : TamaniosEnLista'[j] = TamaniosEnLista[j]
    <3>1. \A j \in 1 .. Len(l) : j \in 1 .. Len(l) + 1
      BY <1>4
    <3>2. QED
      BY <1>4, <1>5, <1>6, <3>1
  <2>3. \A j \in 0 .. Len(TamaniosEnLista) :
           Sumas(TamaniosEnLista')[j] = Sumas(TamaniosEnLista)[j]
    BY <1>5, <1>6, <2>1, <2>2, SumasAgregar
  <2>4. k - 1 \in 0 .. Len(TamaniosEnLista)
    BY <1>3, <1>4, <1>5
  <2>5. QED
    BY <2>3, <2>4
<1>8. Acumulado(k)' = Acumulado(k)
  <2>1. Acumulado(k)' = Sumas(TamaniosEnLista')[k - 1]
    BY DEF Acumulado, TamaniosEnLista
  <2>2. QED
    BY <1>5, <1>7, <2>1
<1>9. Cae(a, k, x)'
  <2>1. k \in 1 .. Len(l')
    BY <1>3, <1>4
  <2>2. QED
    BY <1>3, <1>4, <1>8, <2>1 DEF Cae
<1>10. k \in Nat /\ x \in Nat
  <2>1. TamStick[l[k]] \in Nat
    BY <1>3, <1>4 DEF ConstantesOK
  <2>2. QED
    BY <1>3, <2>1
<1>11. MemoryStickLocalizar(a)' = [fd |-> l'[k], offset |-> x]
  BY <1>9, <1>10 DEF Ubicado
<1>12. MemoryStickLocalizar(a)' = MemoryStickLocalizar(a)
  BY <1>2, <1>3, <1>4, <1>11
<1>13. QED
  BY <1>12 DEF Byte

-----------------------------------------------------------------------------
\* The memory, byte by byte.
Bytes == [a \in Nat |-> Byte(a)]

\* What was written over segment s is in memory m.
EnRam(m, s) ==
  s.dato # Nada => \A o \in 0 .. s.limite - 1 : m[s.base + o] = <<s.dato, o>>

\* The bytes of a segment of the SWAP are in blocks d, each one where
\* swap_leer_bloque looks for it.
EnDisco(d, ss) ==
  ss.dato # Nada => \A o \in 0 .. ss.limite - 1 :
    /\ \E b \in ss.bloques : Orden(b, ss.bloques) = o \div BlockSize
    /\ \A b \in ss.bloques : Orden(b, ss.bloques) = o \div BlockSize =>
         d[b][o % BlockSize] = <<ss.dato, o>>

\* What was written is in memory, in the SWAP or in the copy under way.
ContenidoRam ==
  \A p \in Pids : \A k \in DOMAIN tabla[p] : EnRam(Bytes, tabla[p][k])

ContenidoSwap ==
  /\ \A p \in Pids : \A i \in DOMAIN segmentos_swap[p] :
       EnDisco(disco, segmentos_swap[p][i])
  /\ \A i \in DOMAIN copia : EnDisco(disco, copia[i])

\* A SWAP that connected and did not go away is the registered one.
SwapConectado ==
  SwapSinCaidas /\ (\E s \in Swaps : swap_estado[s] # "no") => SwapResponde

\* The blocks each segment needs.
BloquesPorSegmento(segs) == [i \in DOMAIN segs |-> CantidadBloques(segs[i].limite)]

\* proceso_suspender checked that there are blocks for every segment: there still
\* are for the ones not copied yet.
BloquesAlcanzan ==
  pc = "susp_copiar" =>
    LET segs == tabla[pedido.pid] IN
    /\ Len(copia) <= Len(segs)
    /\ BloquesNecesarios(segs)
         <= Sumas(BloquesPorSegmento(segs))[Len(copia)] + Cardinality(BloquesLibres)

\* Nothing was lost: no stick, no SWAP, and no second SWAP came with a new file.
Sanos == SinSticksCaidos /\ SwapSinCaidas /\ UnSoloSwap

ContenidoInv ==
  /\ SinRepetidos
  /\ SwapConectado
  /\ BloquesAlcanzan
  /\ Sanos => ContenidoRam /\ ContenidoSwap

-----------------------------------------------------------------------------
\* The free blocks are numbers, finitely many.
LEMMA LibresTipo ==
  ASSUME TypeOK, ConstantesOK
  PROVE  /\ Bloques \in SUBSET Nat /\ IsFiniteSet(Bloques)
         /\ BloquesLibres \in SUBSET Nat /\ IsFiniteSet(BloquesLibres)
         /\ Cardinality(BloquesLibres) \in Nat
<1>1. Bloques \in SUBSET Nat /\ IsFiniteSet(Bloques)
  <2>1. 0 \in Int /\ TotalBloques - 1 \in Int
    BY DEF ConstantesOK
  <2>2. IsFiniteSet(0 .. TotalBloques - 1)
    BY <2>1, FS_Interval
  <2>3. QED
    BY <2>2 DEF Bloques, ConstantesOK
<1>2. BloquesLibres \in SUBSET Bloques
  BY DEF BloquesLibres
<1>3. QED
  BY <1>1, <1>2, FS_Subset, FS_CardinalityType

\* The blocks proceso_suspender takes: as many as it needs, numbered from zero
\* without a gap.
LEMMA PrimerosLibresOrden ==
  ASSUME TypeOK, ConstantesOK, NEW n \in Nat, n <= Cardinality(BloquesLibres)
  PROVE  /\ PrimerosLibres(n) \subseteq BloquesLibres
         /\ Cardinality(BloquesLibres \ PrimerosLibres(n)) = Cardinality(BloquesLibres) - n
         /\ \A i \in 0 .. n - 1 :
              \E b \in PrimerosLibres(n) : Orden(b, PrimerosLibres(n)) = i
<1> DEFINE L == BloquesLibres
           P == PrimerosLibres(n)
<1>1. L \in SUBSET Nat /\ IsFiniteSet(L) /\ Cardinality(L) \in Nat
  BY LibresTipo
<1>2. P = {b \in L : Cardinality(Menores(L, b)) < n}
  BY DEF PrimerosLibres, Menores
<1> HIDE DEF L, P
<1>3. IsFiniteSet(P) /\ Cardinality(P) = n /\ P \subseteq L
  <2>1. n <= Cardinality(L)
    BY DEF L
  <2>2. QED
    BY <1>1, <1>2, <2>1, PrimerosCuenta
<1>4. Cardinality(L \ P) = Cardinality(L) - n
  <2>1. L \cap P = P
    BY <1>3
  <2>2. QED
    BY <1>1, <1>3, <2>1, FS_Difference
<1>5. ASSUME NEW i \in 0 .. n - 1
      PROVE  \E b \in P : Orden(b, P) = i
  <2>1. PICK b \in L : Cardinality(Menores(L, b)) = i
    <3>1. i \in Nat /\ i < Cardinality(L)
      BY <1>1 DEF L
    <3>2. QED
      BY <1>1, <3>1, MenoresTodas
  <2>2. b \in P
    BY <1>2, <2>1
  <2>3. \A c \in L : c < b => c \in P
    <3>1. SUFFICES ASSUME NEW c \in L, c < b PROVE c \in P
      OBVIOUS
    <3>2. Cardinality(Menores(L, c)) < Cardinality(Menores(L, b))
      BY <1>1, <3>1, MenoresCuenta
    <3>3. Cardinality(Menores(L, c)) \in Nat
      BY <1>1, MenoresCuenta
    <3>4. Cardinality(Menores(L, c)) < n
      BY <2>1, <3>2, <3>3
    <3>5. QED
      BY <1>2, <3>4
  <2>4. {c \in P : c < b} = Menores(L, b)
    BY <1>3, <2>3 DEF Menores
  <2>5. QED
    BY <2>1, <2>2, <2>4 DEF Orden
<1>6. QED
  BY <1>3, <1>4, <1>5 DEF L, P

\* swap_escribir_bloque puts every byte of a segment where swap_leer_bloque looks
\* for it.
LEMMA CopiarEnDisco ==
  ASSUME TypeOK, ConstantesOK, NEW t \in Nat, NEW ss, NEW buf,
         CantidadBloques(t) <= Cardinality(BloquesLibres),
         ss.bloques = PrimerosLibres(CantidadBloques(t)), ss.limite = t,
         ss.dato # Nada => \A o \in 0 .. t - 1 : buf[o] = <<ss.dato, o>>
  PROVE  EnDisco(SwapEscribir(ss.bloques, t, buf), ss)
<1> DEFINE bs == ss.bloques
           d  == SwapEscribir(bs, t, buf)
<1>0. EnDisco(d, ss) <=>
        (ss.dato # Nada => \A o \in 0 .. t - 1 :
           /\ \E b \in bs : Orden(b, bs) = o \div BlockSize
           /\ \A b \in bs : Orden(b, bs) = o \div BlockSize =>
                d[b][o % BlockSize] = <<ss.dato, o>>)
  BY ss.limite = t, Zenon DEF EnDisco
<1> SUFFICES ASSUME ss.dato # Nada, NEW o \in 0 .. t - 1
             PROVE  /\ \E b \in bs : Orden(b, bs) = o \div BlockSize
                    /\ \A b \in bs : Orden(b, bs) = o \div BlockSize =>
                         d[b][o % BlockSize] = <<ss.dato, o>>
  BY <1>0, Zenon
<1>1. CantidadBloques(t) \in Nat /\ o \div BlockSize \in 0 .. CantidadBloques(t) - 1
  BY BloqueDeOffset
<1>2. /\ o % BlockSize \in 0 .. BlockSize - 1
      /\ (o \div BlockSize) * BlockSize + (o % BlockSize) = o
  BY Division DEF ConstantesOK
<1>3. bs \subseteq Bloques /\ \E b \in bs : Orden(b, bs) = o \div BlockSize
  <2> DEFINE n == CantidadBloques(t)
  <2>0. n \in Nat /\ n <= Cardinality(BloquesLibres) /\ bs = PrimerosLibres(n)
    BY <1>1
  <2> HIDE DEF n, bs
  <2>1. bs \subseteq BloquesLibres
    BY ONLY TypeOK, ConstantesOK, <2>0, PrimerosLibresOrden
  <2>2. \A i \in 0 .. n - 1 : \E b \in bs : Orden(b, bs) = i
    BY ONLY TypeOK, ConstantesOK, <2>0, PrimerosLibresOrden
  <2>3. BloquesLibres \subseteq Bloques
    BY DEF BloquesLibres
  <2>4. QED
    BY <1>1, <2>1, <2>2, <2>3, Zenon DEF n
<1>4. ASSUME NEW b \in bs, Orden(b, bs) = o \div BlockSize
      PROVE  d[b][o % BlockSize] = <<ss.dato, o>>
  <2> DEFINE x == o % BlockSize
             k == Orden(b, bs)
  <2>1. k * BlockSize + x = o
    BY <1>2, <1>4
  <2>2. x \in 0 .. BlockSize - 1 /\ b \in Bloques
    BY <1>2, <1>3
  <2> HIDE DEF x
  <2>3. d[b] = [y \in 0 .. BlockSize - 1 |->
                  IF k * BlockSize + y < t THEN buf[k * BlockSize + y] ELSE Cero]
    BY <2>2, <1>4 DEF SwapEscribir
  <2>4. d[b][x] = IF k * BlockSize + x < t THEN buf[k * BlockSize + x] ELSE Cero
    BY <2>2, <2>3
  <2> HIDE DEF d, k
  <2>5. d[b][x] = buf[o]
    <3>1. o < t
      OBVIOUS
    <3>2. QED
      BY <2>1, <2>4, <3>1
  <2>6. QED
    BY <2>5 DEF x, d
<1>5. QED
  BY <1>3, <1>4

\* It leaves the other segments of the SWAP alone.
LEMMA OtrosEnDisco ==
  ASSUME NEW bs, NEW t, NEW buf, NEW ss, ss.bloques \subseteq Bloques,
         ss.bloques \cap bs = {}, EnDisco(disco, ss)
  PROVE  EnDisco(SwapEscribir(bs, t, buf), ss)
<1>1. \A b \in ss.bloques : SwapEscribir(bs, t, buf)[b] = disco[b]
  BY DEF SwapEscribir
<1>2. QED
  BY <1>1 DEF EnDisco

\* swap_leer_bloque reads the bytes back.
LEMMA LeerDeDisco ==
  ASSUME SwapResponde, NEW ss, EnDisco(disco, ss), ss.dato # Nada,
         NEW o \in 0 .. ss.limite - 1
  PROVE  SwapLeer(ss.bloques, ss.limite)[o] = <<ss.dato, o>>
<1> DEFINE Q(b) == Orden(b, ss.bloques) = o \div BlockSize
           c == CHOOSE b \in ss.bloques : Q(b)
<1>1. \E b \in ss.bloques : Q(b)
  BY DEF EnDisco
<1>2. c \in ss.bloques /\ Q(c)
  BY <1>1
<1>3. SwapLeer(ss.bloques, ss.limite)[o] = disco[c][o % BlockSize]
  BY <1>1 DEF SwapLeer
<1> HIDE DEF c
<1>4. disco[c][o % BlockSize] = <<ss.dato, o>>
  BY <1>2 DEF EnDisco
<1>5. QED
  BY <1>3, <1>4

-----------------------------------------------------------------------------
\* While no stick is lost, every segment is inside the memory, in the middle of a
\* compaction too.
LEMMA SegmentoEnMemoria ==
  ASSUME MemoriaInv, SinSticksCaidos, NEW p \in Pids, NEW k \in DOMAIN tabla[p]
  PROVE  /\ tabla[p][k].base \in Nat /\ tabla[p][k].limite \in Nat
         /\ tabla[p][k].limite > 0 => tabla[p][k].base + tabla[p][k].limite <= memoria_total
<1> USE DEF MemoriaInv, TipoInv
<1> DEFINE b == tabla[p][k].base
           t == tabla[p][k].limite
           a == b + t - 1
<1>1. /\ k \in 1 .. Len(Areas[p]) /\ Areas[p][k].base = b /\ Areas[p][k].tamanio = t
      /\ b \in Nat /\ t \in Nat /\ memoria_total \in Nat
  BY AreasTipo DEF TypeOK
<1> SUFFICES ASSUME t > 0 PROVE b + t <= memoria_total
  BY <1>1
<1> HIDE DEF b, t
<1>2. a \in Nat /\ EnArea(a, b, t)
  BY <1>1 DEF EnArea
<1>3. CASE pc # "compactar"
  <2>1. EnSegmento(Areas, a)
    BY <1>1, <1>2 DEF EnSegmento, Cubre, EnHueco
  <2>2. a < memoria_total
    BY <1>2, <1>3, <2>1 DEF Memoria, Reparto
  <2>3. QED
    BY <1>1, <2>2
<1>4. CASE pc = "compactar"
  <2>1. AMedias(Areas, movidos, destino, memoria_total)
    BY <1>4 DEF Memoria
  <2>2. destino \in Nat /\ destino <= memoria_total
    BY <2>1 DEF AMedias, TypeOK
  <2>3. <<p, k>> \in movidos => b + t <= destino
    BY <1>1, <2>1 DEF AMedias
  <2>4. <<p, k>> \notin movidos => b + t <= memoria_total
    BY <1>1, <2>1 DEF AMedias
  <2>5. QED
    BY <1>1, <2>2, <2>3, <2>4
<1>5. QED
  BY <1>3, <1>4

\* And no byte is in two of them.
LEMMA SegmentosSeparados ==
  ASSUME MemoriaInv, SinSticksCaidos, NEW a \in Nat,
         NEW p \in Pids, NEW k \in DOMAIN tabla[p], NEW q \in Pids, NEW j \in DOMAIN tabla[q],
         EnArea(a, tabla[p][k].base, tabla[p][k].limite),
         EnArea(a, tabla[q][j].base, tabla[q][j].limite)
  PROVE  p = q /\ k = j
<1> USE DEF MemoriaInv, TipoInv
<1>1. Solos(Areas, a)
  BY DEF Memoria, Reparto
<1>2. /\ k \in 1 .. Len(Areas[p]) /\ EnHueco(Areas[p], a, k)
      /\ j \in 1 .. Len(Areas[q]) /\ EnHueco(Areas[q], a, j)
  BY AreasTipo DEF EnHueco
<1>3. p = q
  BY <1>1, <1>2 DEF Solos, Cubre
<1>4. QED
  BY <1>1, <1>2, <1>3 DEF Solos, UnoSolo

-----------------------------------------------------------------------------
\* A copy to memory over an area that a segment does not touch leaves what the
\* segment holds; over the segment itself, it leaves there the buffer.
LEMMA EscribirEnRam ==
  ASSUME TypeOK, ConstantesOK, NulosOK, SticksEnLista, SinRepetidos, SinSticksCaidos,
         NEW dir \in Nat, NEW t \in Nat, NEW buf, t > 0 => dir + t <= memoria_total,
         UNCHANGED lista_memory_sticks,
         ram' = MemoriaFisicaEscribir(dir, t, buf),
         NEW s, s.base \in Nat, s.limite \in Nat,
         s.limite > 0 => s.base + s.limite <= memoria_total
  PROVE  /\ (/\ EnRam(Bytes, s)
             /\ \A a \in Nat : ~ (EnArea(a, dir, t) /\ EnArea(a, s.base, s.limite)))
              => EnRam(Bytes', s)
         /\ (/\ s.base = dir /\ s.limite = t
             /\ s.dato # Nada => \A o \in 0 .. t - 1 : buf[o] = <<s.dato, o>>)
              => EnRam(Bytes', s)
<1>1. ASSUME NEW o \in 0 .. s.limite - 1
      PROVE  /\ s.base + o \in Nat /\ s.base + o < memoria_total
             /\ EnArea(s.base + o, s.base, s.limite)
             /\ Bytes'[s.base + o] = IF EnArea(s.base + o, dir, t)
                                     THEN buf[(s.base + o) - dir] ELSE Bytes[s.base + o]
  <2> DEFINE a == s.base + o
  <2>1. a \in Nat /\ a < memoria_total /\ EnArea(a, s.base, s.limite)
    BY DEF TypeOK, EnArea
  <2> HIDE DEF a
  <2>2. Byte(a)' = IF EnArea(a, dir, t) THEN buf[a - dir] ELSE Byte(a)
    BY <2>1, EscribirByte
  <2>3. Bytes[a] = Byte(a) /\ Bytes'[a] = Byte(a)'
    BY <2>1 DEF Bytes
  <2>4. Bytes'[a] = IF EnArea(a, dir, t) THEN buf[a - dir] ELSE Bytes[a]
    BY <2>2, <2>3
  <2>5. QED
    BY <2>1, <2>4 DEF a
<1>2. ASSUME EnRam(Bytes, s),
             \A a \in Nat : ~ (EnArea(a, dir, t) /\ EnArea(a, s.base, s.limite))
      PROVE  EnRam(Bytes', s)
  BY <1>1, <1>2 DEF EnRam
<1>3. ASSUME s.base = dir, s.limite = t,
             s.dato # Nada => \A o \in 0 .. t - 1 : buf[o] = <<s.dato, o>>
      PROVE  EnRam(Bytes', s)
  <2>1. ASSUME NEW o \in 0 .. s.limite - 1 PROVE Bytes'[s.base + o] = buf[o]
    <3>1. (s.base + o) - dir = o /\ EnArea(s.base + o, dir, t)
      BY <1>1, <1>3
    <3>2. QED
      BY <1>1, <3>1
  <2>2. QED
    BY <1>3, <2>1 DEF EnRam
<1>4. QED
  BY <1>2, <1>3

\* The bytes of a memory that no step writes and whose sticks stay.
LEMMA BytesQuietos ==
  ASSUME UNCHANGED <<ram, lista_memory_sticks>>
  PROVE  Bytes' = Bytes
BY DEF Bytes, Byte, MemoryStickLocalizar, CaeEn, Acumulado

\* A step after which every segment is one there was, or one nobody wrote in.
TablaHereda ==
  \A p \in Pids : \A k \in DOMAIN tabla'[p] :
    \/ tabla'[p][k].dato = Nada
    \/ \E q \in Pids : \E j \in DOMAIN tabla[q] : tabla'[p][k] = tabla[q][j]

\* The same for the segments in the SWAP; the copy under way becomes one list.
SwapHereda ==
  /\ \A p \in Pids : \A i \in DOMAIN segmentos_swap'[p] :
       \/ \E q \in Pids : \E j \in DOMAIN segmentos_swap[q] :
            segmentos_swap'[p][i] = segmentos_swap[q][j]
       \/ \E j \in DOMAIN copia : segmentos_swap'[p][i] = copia[j]
  /\ \A i \in DOMAIN copia' : \E j \in DOMAIN copia : copia'[i] = copia[j]

\* What is in memory stays there.
LEMMA RamHeredada ==
  ASSUME MemoriaInv, SinSticksCaidos, ContenidoRam, TablaHereda,
         \A a \in Nat : a < memoria_total => Bytes'[a] = Bytes[a]
  PROVE  ContenidoRam'
<1> SUFFICES ASSUME NEW p \in Pids, NEW k \in DOMAIN tabla'[p], tabla'[p][k].dato # Nada
             PROVE  EnRam(Bytes', tabla'[p][k])
  BY DEF ContenidoRam, EnRam
<1>1. PICK q \in Pids : \E j \in DOMAIN tabla[q] : tabla'[p][k] = tabla[q][j]
  BY DEF TablaHereda
<1>2. PICK j \in DOMAIN tabla[q] : tabla'[p][k] = tabla[q][j]
  BY <1>1
<1> DEFINE s == tabla[q][j]
<1>3. /\ s.base \in Nat /\ s.limite \in Nat /\ memoria_total \in Nat
      /\ s.limite > 0 => s.base + s.limite <= memoria_total
  BY SegmentoEnMemoria DEF MemoriaInv, TipoInv, TypeOK
<1>4. EnRam(Bytes, s)
  BY DEF ContenidoRam
<1> HIDE DEF s
<1>5. \A o \in 0 .. s.limite - 1 : Bytes'[s.base + o] = Bytes[s.base + o]
  <2>1. \A o \in 0 .. s.limite - 1 : s.base + o \in Nat /\ s.base + o < memoria_total
    BY <1>3
  <2>2. QED
    BY <2>1
<1>6. EnRam(Bytes', s)
  BY <1>4, <1>5 DEF EnRam
<1>7. QED
  BY <1>2, <1>6 DEF s

\* So does what is in the SWAP.
LEMMA SwapHeredado ==
  ASSUME ContenidoSwap, SwapHereda, UNCHANGED disco
  PROVE  ContenidoSwap'
<1>1. ASSUME NEW p \in Pids, NEW i \in DOMAIN segmentos_swap'[p]
      PROVE  EnDisco(disco', segmentos_swap'[p][i])
  BY DEF ContenidoSwap, SwapHereda
<1>2. ASSUME NEW i \in DOMAIN copia' PROVE EnDisco(disco', copia'[i])
  BY DEF ContenidoSwap, SwapHereda
<1>3. QED
  BY <1>1, <1>2 DEF ContenidoSwap

\* The same for one table, v before and l after.
Hereda(l, v) ==
  \A k \in DOMAIN l : l[k].dato = Nada \/ \E j \in DOMAIN v : l[k] = v[j]

\* The table of one process changes.
LEMMA TablaCambia ==
  ASSUME TypeOK, NEW p \in Pids, NEW l, tabla' = [tabla EXCEPT ![p] = l], Hereda(l, tabla[p])
  PROVE  TablaHereda
<1>1. /\ tabla'[p] = l
      /\ \A q \in Pids : q # p => tabla'[q] = tabla[q]
  BY DEF TypeOK
<1>2. QED
  BY <1>1 DEF TablaHereda, Hereda

\* It stays.
LEMMA TablaQueda ==
  ASSUME UNCHANGED tabla
  PROVE  TablaHereda
BY DEF TablaHereda

\* The lists of the SWAP stay, and the copy too or is forgotten.
LEMMA SwapQueda ==
  ASSUME UNCHANGED segmentos_swap, copia' = copia \/ copia' = <<>>
  PROVE  SwapHereda
BY DEF SwapHereda

\* The list of one process is emptied.
LEMMA SwapOlvida ==
  ASSUME TypeOK, NEW p \in Pids, segmentos_swap' = [segmentos_swap EXCEPT ![p] = <<>>],
         copia' = copia \/ copia' = <<>>
  PROVE  SwapHereda
<1>1. /\ segmentos_swap'[p] = <<>>
      /\ \A q \in Pids : q # p => segmentos_swap'[q] = segmentos_swap[q]
  BY DEF TypeOK
<1>2. QED
  BY <1>1 DEF SwapHereda

-----------------------------------------------------------------------------
\* A process writes over one of its segments, and over no other one.
LEMMA ContenidoEscribir ==
  ASSUME MemoriaInv, ConstantesOK, NulosOK, SinSticksCaidos, SinRepetidos, ContenidoRam,
         UNCHANGED <<lista_memory_sticks>>,
         NEW p \in Pids, NEW k \in DOMAIN tabla[p], EscribirSegmento(p, k)
  PROVE  ContenidoRam'
<1> USE DEF MemoriaInv, TipoInv
<1> DEFINE g == tabla[p][k]
           b == Contenido(p, g.limite)
<1>1. /\ ram' = MemoriaFisicaEscribir(g.base, g.limite, b)
      /\ tabla' = [tabla EXCEPT ![p][k].dato = p]
  BY DEF EscribirSegmento
<1>2. /\ g.base \in Nat /\ g.limite \in Nat
      /\ g.limite > 0 => g.base + g.limite <= memoria_total
  BY SegmentoEnMemoria
<1>3. SticksEnLista
  BY DEF Memoria
<1> SUFFICES ASSUME NEW q \in Pids, NEW j \in DOMAIN tabla'[q]
             PROVE  EnRam(Bytes', tabla'[q][j])
  BY DEF ContenidoRam
<1>4. /\ tabla[p] \in Seq(Segmento) /\ k \in 1 .. Len(tabla[p]) /\ g \in Segmento
      /\ tabla[p] \in [1 .. Len(tabla[p]) -> Segmento]
      /\ tabla \in [Pids -> Seq(Segmento)]
  <2>1. tabla[p] \in Seq(Segmento)
    BY TablaTipo
  <2>2. tabla[p] \in [1 .. Len(tabla[p]) -> Segmento]
    BY <2>1, LenProperties
  <2>3. k \in 1 .. Len(tabla[p]) /\ g \in Segmento
    BY TablaTipo
  <2>4. QED
    BY <2>1, <2>2, <2>3 DEF TypeOK
<1>5. j \in DOMAIN tabla[q]
  BY <1>1, <1>4
<1> HIDE DEF b
<1>6. CASE q = p /\ j = k
  <2> DEFINE s == tabla'[q][j]
  <2>1. s.base = g.base /\ s.limite = g.limite /\ s.dato = p
    BY <1>1, <1>4, <1>6 DEF Segmento
  <2> HIDE DEF s, g
  <2>2. s.dato # Nada => \A o \in 0 .. g.limite - 1 : b[o] = <<s.dato, o>>
    BY <2>1 DEF Contenido, b
  <2>3. EnRam(Bytes', s)
    BY <1>1, <1>2, <1>3, <2>1, <2>2, EscribirEnRam
  <2>4. QED
    BY <2>3 DEF s
<1>7. CASE ~ (q = p /\ j = k)
  <2> DEFINE s == tabla[q][j]
  <2>1. tabla'[q][j] = s
    BY <1>1, <1>4, <1>7
  <2>2. /\ s.base \in Nat /\ s.limite \in Nat
        /\ s.limite > 0 => s.base + s.limite <= memoria_total
        /\ EnRam(Bytes, s)
    BY <1>5, SegmentoEnMemoria DEF ContenidoRam
  <2>3. \A a \in Nat : ~ (EnArea(a, g.base, g.limite) /\ EnArea(a, s.base, s.limite))
    BY <1>5, <1>7, SegmentosSeparados
  <2> HIDE DEF s, g
  <2>4. EnRam(Bytes', s)
    BY <1>1, <1>2, <1>3, <2>2, <2>3, EscribirEnRam
  <2>5. QED
    BY <2>1, <2>4
<1>8. QED
  BY <1>6, <1>7

\* One iteration of compactar: the bytes go where the segment goes, and over no
\* other segment.
LEMMA ContenidoCompactar ==
  ASSUME MemoriaInv, ConstantesOK, NulosOK, SinSticksCaidos, SinRepetidos, ContenidoRam,
         NEW p \in Pids, NEW k, CompactarSegmento(p, k)
  PROVE  ContenidoRam'
<1> USE DEF MemoriaInv, TipoInv
<1> DEFINE g == tabla[p][k]
           b == MemoriaFisicaLeer(g.base, g.limite)
<1>1. /\ pc = "compactar" /\ Siguiente(p, k)
      /\ ram' = IF g.base = destino THEN ram ELSE MemoriaFisicaEscribir(destino, g.limite, b)
      /\ tabla' = [tabla EXCEPT ![p][k].base = destino]
      /\ UNCHANGED lista_memory_sticks
  BY DEF CompactarSegmento, memVars
<1>2. /\ k \in 1 .. Len(Areas[p]) /\ Proximo(Areas, movidos, p, k)
      /\ k \in DOMAIN tabla[p]
  BY <1>1, SiguienteProximo, AreasTipo
<1>3. /\ Areas \in [Pids -> Seq(Hueco)]
      /\ Areas[p][k].base = g.base /\ Areas[p][k].tamanio = g.limite
      /\ g.base \in Nat /\ g.limite \in Nat
      /\ destino \in Nat /\ memoria_total \in Nat
  BY <1>2, AreasTipo DEF TypeOK
<1>4. /\ SticksEnLista /\ AMedias(Areas, movidos, destino, memoria_total)
      /\ \A a \in Nat : Solos(Areas, a)
  BY <1>1 DEF Memoria
<1>5. g.limite > 0 => destino <= g.base /\ g.base + g.limite <= memoria_total
  BY <1>2, <1>3, <1>4, ColocarAMedias
<1>6. g.limite > 0 => destino + g.limite <= memoria_total
  BY <1>3, <1>5
<1> SUFFICES ASSUME NEW q \in Pids, NEW j \in DOMAIN tabla'[q]
             PROVE  EnRam(Bytes', tabla'[q][j])
  BY DEF ContenidoRam
<1>7. /\ tabla[p] \in Seq(Segmento) /\ k \in 1 .. Len(tabla[p]) /\ g \in Segmento
      /\ tabla[p] \in [1 .. Len(tabla[p]) -> Segmento]
      /\ tabla \in [Pids -> Seq(Segmento)]
  <2>1. tabla[p] \in Seq(Segmento)
    BY TablaTipo
  <2>2. tabla[p] \in [1 .. Len(tabla[p]) -> Segmento]
    BY <2>1, LenProperties
  <2>3. k \in 1 .. Len(tabla[p]) /\ g \in Segmento
    BY <1>2, TablaTipo
  <2>4. QED
    BY <2>1, <2>2, <2>3 DEF TypeOK
<1>8. j \in DOMAIN tabla[q]
  BY <1>1, <1>7
<1>9. EnRam(Bytes, g) /\ EnRam(Bytes, tabla[q][j])
  BY <1>2, <1>8 DEF ContenidoRam
<1>10. CASE g.base = destino
  <2>1. tabla'[q][j] = tabla[q][j]
    <3>1. CASE q = p /\ j = k
      BY <1>1, <1>7, <1>10, <3>1 DEF Segmento
    <3>2. CASE ~ (q = p /\ j = k)
      BY <1>1, <1>7, <3>2
    <3>3. QED
      BY <3>1, <3>2
  <2>2. Bytes' = Bytes
    BY <1>1, <1>10, BytesQuietos
  <2>3. QED
    BY <1>9, <2>1, <2>2
<1>11. CASE g.base # destino /\ q = p /\ j = k
  <2> DEFINE s == tabla'[q][j]
  <2>1. s.base = destino /\ s.limite = g.limite /\ s.dato = g.dato
    BY <1>1, <1>7, <1>11 DEF Segmento
  <2>2. g.dato # Nada => \A o \in 0 .. g.limite - 1 : b[o] = <<g.dato, o>>
    <3>1. SUFFICES ASSUME g.dato # Nada, NEW o \in 0 .. g.limite - 1
                   PROVE  b[o] = <<g.dato, o>>
      OBVIOUS
    <3>2. b[o] = Byte(g.base + o)
      BY DEF MemoriaFisicaLeer, Byte
    <3>3. Bytes[g.base + o] = <<g.dato, o>> /\ g.base + o \in Nat
      BY <1>3, <1>9, <3>1 DEF EnRam
    <3>4. QED
      BY <3>2, <3>3 DEF Bytes
  <2>3. ram' = MemoriaFisicaEscribir(destino, g.limite, b)
    BY <1>1, <1>11
  <2> HIDE DEF s, g, b
  <2>a. /\ s.base \in Nat /\ s.limite \in Nat
        /\ s.limite > 0 => s.base + s.limite <= memoria_total
        /\ s.dato # Nada => \A o \in 0 .. g.limite - 1 : b[o] = <<s.dato, o>>
    BY <1>3, <1>6, <2>1, <2>2
  <2>b. /\ TypeOK /\ SticksEnLista /\ SinRepetidos /\ SinSticksCaidos
        /\ destino \in Nat /\ g.limite \in Nat
        /\ g.limite > 0 => destino + g.limite <= memoria_total
        /\ UNCHANGED lista_memory_sticks
    BY <1>1, <1>3, <1>4, <1>6
  <2>4. EnRam(Bytes', s)
    BY ONLY ConstantesOK, NulosOK, <2>1, <2>a, <2>b, <2>3, EscribirEnRam
  <2>5. QED
    BY <2>4 DEF s
<1>12. CASE g.base # destino /\ ~ (q = p /\ j = k)
  <2> DEFINE s == tabla[q][j]
  <2>1. tabla'[q][j] = s
    BY <1>1, <1>7, <1>12
  <2>2. /\ s.base \in Nat /\ s.limite \in Nat
        /\ s.limite > 0 => s.base + s.limite <= memoria_total
        /\ EnRam(Bytes, s)
    BY <1>8, <1>9, SegmentoEnMemoria
  <2>3. ASSUME NEW a \in Nat, EnArea(a, destino, g.limite), EnArea(a, s.base, s.limite)
        PROVE  FALSE
    <3>1. j \in 1 .. Len(Areas[q]) /\ EnHueco(Areas[q], a, j)
      BY <1>8, <2>3, AreasTipo DEF EnHueco
    <3>2. EnArea(a, destino, Areas[p][k].tamanio) /\ Solos(Areas, a)
      BY <1>3, <1>4, <2>3
    <3>a. /\ p \in Pids /\ q \in Pids /\ a \in Nat
          /\ Areas \in [Pids -> Seq(Hueco)] /\ destino \in Nat /\ memoria_total \in Nat
          /\ AMedias(Areas, movidos, destino, memoria_total)
          /\ k \in 1 .. Len(Areas[p]) /\ Proximo(Areas, movidos, p, k)
      BY <1>2, <1>3, <1>4
    <3>3. q = p /\ j = k
      BY ONLY <3>1, <3>2, <3>a, DestinoLibre
    <3>4. QED
      BY <1>12, <3>3
  <2>4. ram' = MemoriaFisicaEscribir(destino, g.limite, b)
    BY <1>1, <1>12
  <2> HIDE DEF s, g, b
  <2>5. EnRam(Bytes', s)
    BY <1>1, <1>3, <1>4, <1>6, <2>2, <2>3, <2>4, EscribirEnRam
  <2>6. QED
    BY <2>1, <2>5
<1>13. QED
  BY <1>10, <1>11, <1>12

\* One segment comes back from the SWAP with its bytes, over no other segment.
LEMMA ContenidoRestaurar ==
  ASSUME MemoriaInv, ConstantesOK, NulosOK, SinSticksCaidos, SinRepetidos,
         ContenidoRam, ContenidoSwap, SwapResponde, DessRestaurar
  PROVE  ContenidoRam'
<1> USE DEF MemoriaInv, TipoInv
<1> DEFINE p  == pedido.pid
           ss == EnSwap[restaurados + 1]
           d  == bases[restaurados + 1]
           g  == [id |-> ss.id, base |-> d, limite |-> ss.limite, dato |-> ss.dato]
           b  == SwapLeer(ss.bloques, ss.limite)
<1>1. /\ pc = "dess_restaurar" /\ restaurados < Len(EnSwap)
      /\ ram' = MemoriaFisicaEscribir(d, ss.limite, b)
      /\ tabla' = [tabla EXCEPT ![p] = Append(@, g)]
      /\ UNCHANGED lista_memory_sticks
  BY DEF DessRestaurar, memVars
<1>2. /\ p \in Pids /\ Len(bases) = Len(EnSwap) /\ Len(bases) \in Nat
      /\ restaurados \in 0 .. Len(bases) - 1
  BY <1>1, ReservasHay DEF Locales
<1>3. restaurados + 1 \in Reservas /\ restaurados + 1 \in DOMAIN segmentos_swap[p]
  BY <1>2, SegmentosSwapTipo DEF Reservas, EnSwap
<1>4. /\ (restaurados + 1) - restaurados \in 1 .. Len(ListaReservas)
      /\ ListaReservas[(restaurados + 1) - restaurados].base = d
      /\ ListaReservas[(restaurados + 1) - restaurados].tamanio = ss.limite
      /\ d \in Nat /\ ss.limite \in Nat
  BY <1>3, ReservaArea
<1>5. EnDisco(disco, ss)
  BY <1>2, <1>3 DEF ContenidoSwap, EnSwap
<1>6. SticksEnLista /\ \A a \in Nat : Reparto(lista_huecos, ListaReservas, Areas, memoria_total, a)
  BY <1>1 DEF Memoria
<1> HIDE DEF d, ss, b
<1>7. \A a \in Nat : EnArea(a, d, ss.limite) => Cubre(ListaReservas, a)
  BY <1>4 DEF Cubre, EnHueco
<1>8. ss.limite > 0 => d + ss.limite <= memoria_total
  <2>1. SUFFICES ASSUME ss.limite > 0 PROVE d + ss.limite <= memoria_total
    OBVIOUS
  <2> DEFINE a == d + ss.limite - 1
  <2>2. a \in Nat /\ EnArea(a, d, ss.limite)
    BY <1>4, <2>1 DEF EnArea
  <2>3. a < memoria_total
    BY <1>6, <1>7, <2>2 DEF Reparto
  <2>4. QED
    BY <1>4, <2>3 DEF TypeOK
<1>9. /\ tabla \in [Pids -> Seq(Segmento)] /\ tabla[p] \in Seq(Segmento)
      /\ \A q \in Pids : DOMAIN tabla[q] = 1 .. Len(tabla[q])
  BY <1>2, TablaTipo DEF TypeOK
<1> HIDE DEF p
<1>10. /\ tabla'[p] = Append(tabla[p], g) /\ Len(tabla[p]) \in Nat
       /\ \A q \in Pids : q # p => tabla'[q] = tabla[q]
  BY <1>1, <1>2, <1>9, LenProperties
<1>11. DOMAIN tabla'[p] = 1 .. Len(tabla[p]) + 1
  BY <1>9, <1>10, AppendProperties
<1> SUFFICES ASSUME NEW q \in Pids, NEW j \in DOMAIN tabla'[q]
             PROVE  EnRam(Bytes', tabla'[q][j])
  BY DEF ContenidoRam
<1>12. CASE q = p /\ j = Len(tabla[p]) + 1
  <2>1. tabla'[q][j] = g
    BY <1>9, <1>10, <1>12, AppendProperties
  <2>2. g.base = d /\ g.limite = ss.limite /\ g.dato = ss.dato
    OBVIOUS
  <2> HIDE DEF g
  <2>3. g.dato # Nada => \A o \in 0 .. ss.limite - 1 : b[o] = <<g.dato, o>>
    BY <1>5, <2>2, LeerDeDisco DEF b
  <2>a. /\ g.base \in Nat /\ g.limite \in Nat
        /\ g.limite > 0 => g.base + g.limite <= memoria_total
    BY <1>4, <1>8, <2>2
  <2>b. /\ TypeOK /\ SticksEnLista /\ SinRepetidos /\ SinSticksCaidos
        /\ d \in Nat /\ ss.limite \in Nat /\ UNCHANGED lista_memory_sticks
        /\ ss.limite > 0 => d + ss.limite <= memoria_total
        /\ ram' = MemoriaFisicaEscribir(d, ss.limite, b)
    BY <1>1, <1>4, <1>6, <1>8
  <2>c. (/\ g.base = d /\ g.limite = ss.limite
         /\ g.dato # Nada => \A o \in 0 .. ss.limite - 1 : b[o] = <<g.dato, o>>)
          => EnRam(Bytes', g)
    BY ONLY ConstantesOK, NulosOK, <2>a, <2>b, EscribirEnRam
  <2>4. EnRam(Bytes', g)
    BY <2>2, <2>3, <2>c
  <2>5. QED
    BY <2>1, <2>4
<1>13. CASE ~ (q = p /\ j = Len(tabla[p]) + 1)
  <2> DEFINE s == tabla[q][j]
  <2>1. j \in DOMAIN tabla[q] /\ tabla'[q][j] = s
    <3>1. CASE q = p
      <4>1. j \in 1 .. Len(tabla[p])
        BY <1>10, <1>11, <1>13, <3>1
      <4>2. QED
        BY <1>9, <1>10, <3>1, <4>1, AppendProperties
    <3>2. CASE q # p
      BY <1>10, <3>2
    <3>3. QED
      BY <3>1, <3>2
  <2>2. /\ s.base \in Nat /\ s.limite \in Nat
        /\ s.limite > 0 => s.base + s.limite <= memoria_total
        /\ EnRam(Bytes, s)
    BY <2>1, SegmentoEnMemoria DEF ContenidoRam
  <2>3. ASSUME NEW a \in Nat, EnArea(a, d, ss.limite), EnArea(a, s.base, s.limite)
        PROVE  FALSE
    <3>1. j \in 1 .. Len(Areas[q]) /\ EnHueco(Areas[q], a, j)
      BY <2>1, <2>3, AreasTipo DEF EnHueco
    <3>2. EnSegmento(Areas, a) /\ Cubre(ListaReservas, a)
      BY <1>7, <2>3, <3>1 DEF EnSegmento, Cubre
    <3>3. QED
      BY <1>6, <3>2 DEF Reparto
  <2> HIDE DEF s
  <2>4. EnRam(Bytes', s)
    BY <1>1, <1>4, <1>6, <1>8, <2>2, <2>3, EscribirEnRam
  <2>5. QED
    BY <2>1, <2>4
<1>14. QED
  BY <1>12, <1>13

-----------------------------------------------------------------------------
\* How many blocks a segment needs, and how many all of them do.
LEMMA BloquesPorSegmentoTipo ==
  ASSUME TypeOK, ConstantesOK, NEW p \in Pids
  PROVE  LET bl == BloquesPorSegmento(tabla[p]) IN
         /\ bl \in Seq(Nat) /\ Len(bl) = Len(tabla[p]) /\ Len(bl) \in Nat
         /\ \A k \in 1 .. Len(bl) : bl[k] = CantidadBloques(tabla[p][k].limite)
         /\ \A k \in 1 .. Len(bl) : bl[k] \in Nat
         /\ BloquesNecesarios(tabla[p]) = Sumas(bl)[Len(bl)]
         /\ Sumas(bl)[0] = 0
<1> DEFINE l  == tabla[p]
           bl == BloquesPorSegmento(l)
<1>1. /\ Len(l) \in Nat /\ DOMAIN l = 1 .. Len(l)
      /\ \A k \in 1 .. Len(l) : l[k].limite \in Nat
  BY TablaTipo DEF Segmento
<1>2. ASSUME NEW t \in Nat PROVE CantidadBloques(t) \in Nat
  <2> DEFINE u == t + BlockSize - 1
  <2>1. u \in Nat /\ BlockSize \in Nat \ {0}
    BY DEF ConstantesOK
  <2> HIDE DEF u
  <2>2. u \div BlockSize \in Nat
    BY <2>1, Division
  <2>3. QED
    BY <2>2 DEF CantidadBloques, u
<1> HIDE DEF l
<1>3. /\ bl = [k \in 1 .. Len(l) |-> CantidadBloques(l[k].limite)]
      /\ bl \in [1 .. Len(l) -> Nat]
  BY <1>1, <1>2 DEF BloquesPorSegmento
<1>4. bl \in Seq(Nat) /\ Len(bl) = Len(l)
  BY <1>1, <1>3, FuncionEsSeq
<1>5. BloquesNecesarios(l) = Sumas(bl)[Len(bl)]
  BY <1>4 DEF BloquesNecesarios, BloquesPorSegmento
<1>6. Sumas(bl)[0] = 0
  BY <1>4, SumasPasoAPaso
<1>7. \A k \in 1 .. Len(bl) : bl[k] = CantidadBloques(l[k].limite) /\ bl[k] \in Nat
  BY <1>1, <1>2, <1>3, <1>4
<1>8. QED
  BY <1>1, <1>4, <1>5, <1>6, <1>7 DEF l

\* There are blocks for the segment that is copied, and after it there still are
\* for the ones that follow.
LEMMA AlcanzanCopiar ==
  ASSUME TypeOK, ConstantesOK, BloquesAlcanzan, SuspenderCopiar
  PROVE  /\ CantidadBloques(PorCopiar.limite) \in Nat
         /\ CantidadBloques(PorCopiar.limite) <= Cardinality(BloquesLibres)
         /\ BloquesAlcanzan'
<1> DEFINE p  == pedido.pid
           n  == Len(copia)
           bl == BloquesPorSegmento(tabla[p])
           c  == CantidadBloques(PorCopiar.limite)
           F  == Cardinality(BloquesLibres)
<1>1. /\ pc = "susp_copiar" /\ n < Len(tabla[p])
      /\ UNCHANGED <<tabla, pc, pedido>>
      /\ swap_bloques_usados' = swap_bloques_usados \cup PrimerosLibres(c)
      /\ \E ss : copia' = Append(copia, ss)
  BY DEF SuspenderCopiar, tablas
<1>2. p \in Pids /\ copia \in Seq(SegmentoSwap) /\ n \in Nat
  BY <1>1, LenProperties DEF TypeOK
<1>3. /\ bl \in Seq(Nat) /\ Len(bl) = Len(tabla[p]) /\ Len(bl) \in Nat
      /\ BloquesNecesarios(tabla[p]) = Sumas(bl)[Len(bl)]
  BY <1>2, BloquesPorSegmentoTipo
<1>4. n + 1 \in 1 .. Len(bl)
  BY <1>1, <1>2, <1>3
<1>5. bl[n + 1] = c /\ c \in Nat
  BY <1>2, <1>4, BloquesPorSegmentoTipo DEF PorCopiar
<1>6. Sumas(bl)[Len(bl)] <= Sumas(bl)[n] + F
  BY <1>1, <1>3 DEF BloquesAlcanzan
<1> HIDE DEF bl, c
<1>7. /\ Sumas(bl)[n] \in Nat /\ Sumas(bl)[n + 1] \in Nat /\ Sumas(bl)[Len(bl)] \in Nat
      /\ Sumas(bl)[n + 1] <= Sumas(bl)[Len(bl)]
      /\ Sumas(bl)[n + 1] = Sumas(bl)[n] + c
  <2>1. n \in 0 .. Len(bl) /\ n + 1 \in 0 .. Len(bl) /\ Len(bl) \in 0 .. Len(bl)
        /\ n + 1 <= Len(bl) /\ (n + 1) - 1 = n
    BY <1>2, <1>3, <1>4
  <2>2. /\ Sumas(bl)[n + 1] \in Nat /\ Sumas(bl)[Len(bl)] \in Nat
        /\ Sumas(bl)[n + 1] <= Sumas(bl)[Len(bl)]
    BY <1>3, <2>1, SumasCrecen
  <2>3. Sumas(bl)[n] \in Nat
    BY <1>3, <2>1, SumasPasoAPaso
  <2>4. Sumas(bl)[n + 1] = Sumas(bl)[(n + 1) - 1] + bl[n + 1]
    BY <1>3, <1>4, SumasPasoAPaso
  <2>5. QED
    BY <1>5, <2>1, <2>2, <2>3, <2>4
<1>8. F \in Nat
  BY LibresTipo
<1>9. c <= F
  BY <1>5, <1>6, <1>7, <1>8
<1>10. Cardinality(BloquesLibres') = F - c
  <2>1. BloquesLibres' = BloquesLibres \ PrimerosLibres(c)
    BY <1>1 DEF BloquesLibres
  <2>2. Cardinality(BloquesLibres \ PrimerosLibres(c)) = F - c
    BY <1>5, <1>9, PrimerosLibresOrden
  <2>3. QED
    BY <2>1, <2>2
<1>11. Len(copia') = n + 1
  BY <1>1, <1>2, AppendProperties
<1>12. BloquesAlcanzan'
  <2>1. /\ n + 1 <= Len(tabla[p])
        /\ Sumas(bl)[Len(bl)] <= Sumas(bl)[n + 1] + (F - c)
    BY <1>3, <1>4, <1>5, <1>6, <1>7, <1>8
  <2>2. tabla'[pedido'.pid] = tabla[p]
    BY <1>1
  <2>3. BloquesNecesarios(tabla[p]) = Sumas(bl)[Len(bl)]
    BY <1>3
  <2>4. BloquesNecesarios(tabla'[pedido'.pid])
          <= Sumas(BloquesPorSegmento(tabla'[pedido'.pid]))[Len(copia')]
             + Cardinality(BloquesLibres')
    BY <1>10, <1>11, <2>1, <2>2, <2>3 DEF bl
  <2>5. Len(copia') <= Len(tabla'[pedido'.pid])
    BY <1>11, <2>1, <2>2
  <2>6. QED
    BY <2>4, <2>5 DEF BloquesAlcanzan
<1>13. QED
  BY <1>5, <1>9, <1>12 DEF c

\* The segment that is copied is in the SWAP with its bytes, and no other one is
\* written over: its blocks were free.
LEMMA ContenidoCopiar ==
  ASSUME TypeOK, ConstantesOK, BloquesInv, UnSoloSwap, BloquesAlcanzan, MemoriaInv,
         SinSticksCaidos, ContenidoRam, ContenidoSwap, SuspenderCopiar
  PROVE  ContenidoSwap'
<1> DEFINE p  == pedido.pid
           n  == Len(copia)
           g  == PorCopiar
           bs == PrimerosLibres(CantidadBloques(g.limite))
           b  == MemoriaFisicaLeer(g.base, g.limite)
           ss == [id |-> g.id, limite |-> g.limite, bloques |-> bs, dato |-> g.dato]
<1>1. /\ pc = "susp_copiar" /\ n < Len(tabla[p]) /\ UNCHANGED segmentos_swap
      /\ disco' = SwapEscribir(bs, g.limite, b)
      /\ copia' = Append(copia, ss)
  BY DEF SuspenderCopiar
<1>2. /\ p \in Pids /\ copia \in Seq(SegmentoSwap) /\ n \in Nat /\ DOMAIN copia = 1 .. n
      /\ \A i \in 1 .. n : copia[i] \in SegmentoSwap
  BY <1>1, LenProperties, ElementOfSeq DEF TypeOK
<1>3. n + 1 \in DOMAIN tabla[p] /\ g = tabla[p][n + 1]
  BY <1>1, <1>2, TablaTipo DEF PorCopiar
<1>4. g.base \in Nat /\ g.limite \in Nat /\ EnRam(Bytes, g)
  BY <1>2, <1>3, SegmentoEnMemoria DEF ContenidoRam
<1>5. /\ CantidadBloques(g.limite) \in Nat
      /\ CantidadBloques(g.limite) <= Cardinality(BloquesLibres)
  BY AlcanzanCopiar
<1>6. bs \cap swap_bloques_usados = {}
  BY <1>5, PrimerosLibresOrden DEF BloquesLibres
<1> HIDE DEF g
<1>7. g.dato # Nada => \A o \in 0 .. g.limite - 1 : b[o] = <<g.dato, o>>
  <2>1. SUFFICES ASSUME g.dato # Nada, NEW o \in 0 .. g.limite - 1
                 PROVE  b[o] = <<g.dato, o>>
    OBVIOUS
  <2>2. b[o] = Byte(g.base + o)
    BY DEF MemoriaFisicaLeer, Byte
  <2>3. Bytes[g.base + o] = <<g.dato, o>> /\ g.base + o \in Nat
    BY <1>4, <2>1 DEF EnRam
  <2>4. QED
    BY <2>2, <2>3 DEF Bytes
<1>8. ss.limite = g.limite /\ ss.bloques = bs /\ ss.dato = g.dato
  OBVIOUS
<1> HIDE DEF b, ss
<1>9. EnDisco(disco', ss)
  <2>1. EnDisco(SwapEscribir(ss.bloques, g.limite, b), ss)
    BY <1>4, <1>5, <1>7, <1>8, CopiarEnDisco
  <2>2. QED
    BY <1>1, <1>8, <2>1
<1> HIDE DEF bs
<1>10. ASSUME NEW q \in Pids, NEW i \in DOMAIN segmentos_swap[q]
       PROVE  EnDisco(disco', segmentos_swap[q][i])
  <2> DEFINE x == segmentos_swap[q][i]
  <2>1. i \in Nat /\ x \in SegmentoSwap
    BY SegmentosSwapTipo
  <2>2. x.bloques \subseteq Bloques
    BY <2>1 DEF SegmentoSwap
  <2>3. x.bloques \subseteq swap_bloques_usados
    <3>1. SUFFICES ASSUME NEW d \in x.bloques PROVE d \in swap_bloques_usados
      OBVIOUS
    <3>2. DuenoEnSwap(d, q, i) /\ ~ Volvio(q, i)
      BY <1>1 DEF DuenoEnSwap, Volvio
    <3>3. TieneDueno(d) /\ d \in Bloques
      BY <2>1, <2>2, <3>2 DEF TieneDueno
    <3>4. QED
      BY <3>3 DEF BloquesInv, Exacto
  <2>4. EnDisco(disco, x) /\ x.bloques \cap bs = {}
    BY <1>6, <2>3 DEF ContenidoSwap
  <2> HIDE DEF x
  <2>5. EnDisco(disco', x)
    BY <1>1, <2>2, <2>4, OtrosEnDisco
  <2>6. QED
    BY <2>5 DEF x
<1>11. ASSUME NEW i \in 1 .. n
       PROVE  EnDisco(disco', copia[i])
  <2> DEFINE x == copia[i]
  <2>1. i \in Nat /\ x \in SegmentoSwap
    BY <1>2
  <2>2. x.bloques \subseteq Bloques
    BY <2>1 DEF SegmentoSwap
  <2>3. x.bloques \subseteq swap_bloques_usados
    <3>1. SUFFICES ASSUME NEW d \in x.bloques PROVE d \in swap_bloques_usados
      OBVIOUS
    <3>2. DuenoEnCopia(d, i)
      BY <1>2 DEF DuenoEnCopia
    <3>3. TieneDueno(d) /\ d \in Bloques
      BY <2>1, <2>2, <3>2 DEF TieneDueno
    <3>4. QED
      BY <3>3 DEF BloquesInv, Exacto
  <2>4. EnDisco(disco, x) /\ x.bloques \cap bs = {}
    BY <1>2, <1>6, <2>3 DEF ContenidoSwap
  <2> HIDE DEF x
  <2>5. EnDisco(disco', x)
    BY <1>1, <2>2, <2>4, OtrosEnDisco
  <2>6. QED
    BY <2>5 DEF x
<1>12. /\ DOMAIN copia' = 1 .. n + 1 /\ copia'[n + 1] = ss
       /\ \A i \in 1 .. n : copia'[i] = copia[i]
  BY <1>1, <1>2, AppendProperties
<1>13. \A i \in DOMAIN copia' : EnDisco(disco', copia'[i])
  <2>1. SUFFICES ASSUME NEW i \in DOMAIN copia' PROVE EnDisco(disco', copia'[i])
    OBVIOUS
  <2>2. i \in 1 .. n \/ i = n + 1
    BY <1>2, <1>12
  <2>3. QED
    BY <1>9, <1>11, <1>12, <2>2
<1>14. QED
  BY <1>1, <1>10, <1>13 DEF ContenidoSwap

-----------------------------------------------------------------------------
\* The thread that serves the KS leaves the sticks and the SWAPs alone: only the
\* blocks it needs and the contents are left to follow.
LEMMA ContenidoDelKS ==
  ASSUME ContenidoInv,
         UNCHANGED <<lista_memory_sticks, stick_estado, swap_estado, fd_swap>>,
         BloquesAlcanzan',
         Sanos => ContenidoRam' /\ ContenidoSwap'
  PROVE  ContenidoInv'
<1>1. /\ SinSticksCaidos' <=> SinSticksCaidos
      /\ SwapSinCaidas' <=> SwapSinCaidas
      /\ UnSoloSwap' <=> UnSoloSwap
  BY DEF SinSticksCaidos, SwapSinCaidas, UnSoloSwap
<1>2. SinRepetidos'
  BY <1>1 DEF ContenidoInv, SinRepetidos
<1>3. SwapConectado'
  BY <1>1 DEF ContenidoInv, SwapConectado, SwapResponde
<1>4. QED
  BY <1>1, <1>2, <1>3 DEF ContenidoInv, Sanos

\* A step that writes no byte, in memory or in the SWAP.
LEMMA ContenidoHeredado ==
  ASSUME MemoriaInv, ContenidoInv, Sanos, TablaHereda, SwapHereda,
         UNCHANGED <<ram, lista_memory_sticks, disco>>
  PROVE  ContenidoRam' /\ ContenidoSwap'
<1>1. ContenidoRam /\ ContenidoSwap /\ SinSticksCaidos
  BY DEF ContenidoInv, Sanos
<1>2. Bytes' = Bytes
  BY BytesQuietos
<1>3. ContenidoRam'
  BY <1>1, <1>2, RamHeredada
<1>4. QED
  BY <1>1, <1>3, SwapHeredado

\* The table after a segment is taken out, or added with nothing written in it.
LEMMA TablaDeSegmentos ==
  ASSUME TypeOK, NEW p \in Pids
  PROVE  /\ \A k \in 1 .. Len(tabla[p]) : tabla' = [tabla EXCEPT ![p] = RemoveAt(@, k)]
              => TablaHereda
         /\ \A s \in Segmento : s.dato = Nada /\ tabla' = [tabla EXCEPT ![p] = Append(@, s)]
              => TablaHereda
         /\ tabla' = [tabla EXCEPT ![p] = <<>>] => TablaHereda
<1> DEFINE l == tabla[p]
<1>1. l \in Seq(Segmento) /\ Len(l) \in Nat /\ DOMAIN l = 1 .. Len(l)
  BY TablaTipo
<1>a. l = tabla[p]
  OBVIOUS
<1>2. ASSUME NEW k \in 1 .. Len(l), tabla' = [tabla EXCEPT ![p] = RemoveAt(@, k)]
      PROVE  TablaHereda
  <2> DEFINE m == RemoveAt(l, k)
  <2>1. /\ m \in Seq(Segmento) /\ Len(m) = Len(l) - 1
        /\ \A i \in 1 .. Len(l) - 1 : m[i] = IF i < k THEN l[i] ELSE l[i + 1]
    BY <1>1, RemoveAtElementos
  <2>2. tabla' = [tabla EXCEPT ![p] = m]
    BY <1>2 DEF TypeOK
  <2> HIDE DEF m
  <2>3. DOMAIN m = 1 .. Len(l) - 1
    BY <2>1, LenProperties
  <2>4. \A i \in DOMAIN m : \E j \in DOMAIN l : m[i] = l[j]
    <3>1. SUFFICES ASSUME NEW i \in 1 .. Len(l) - 1 PROVE \E j \in 1 .. Len(l) : m[i] = l[j]
      BY <1>1, <2>3
    <3>2. i \in 1 .. Len(l) /\ i + 1 \in 1 .. Len(l)
      BY <1>1
    <3>3. m[i] = l[i] \/ m[i] = l[i + 1]
      BY <2>1
    <3>4. QED
      BY <3>2, <3>3
  <2>5. Hereda(m, l)
    BY <2>4 DEF Hereda
  <2>6. QED
    BY <1>a, <2>2, <2>5, TablaCambia
<1>3. ASSUME NEW s \in Segmento, s.dato = Nada, tabla' = [tabla EXCEPT ![p] = Append(@, s)]
      PROVE  TablaHereda
  <2> DEFINE m == Append(l, s)
  <2>1. tabla' = [tabla EXCEPT ![p] = m]
    BY <1>3 DEF TypeOK
  <2>2. /\ DOMAIN m = 1 .. Len(l) + 1 /\ m[Len(l) + 1] = s
        /\ \A i \in 1 .. Len(l) : m[i] = l[i]
    BY <1>1, AppendProperties
  <2> HIDE DEF m
  <2>3. \A i \in DOMAIN m : m[i].dato = Nada \/ \E j \in DOMAIN l : m[i] = l[j]
    <3>1. \A i \in DOMAIN m : i \in 1 .. Len(l) \/ i = Len(l) + 1
      BY <1>1, <2>2
    <3>2. QED
      BY <1>1, <1>3, <2>2, <3>1
  <2>4. Hereda(m, l)
    BY <2>3 DEF Hereda
  <2>5. QED
    BY <1>a, <2>1, <2>4, TablaCambia
<1>4. ASSUME tabla' = [tabla EXCEPT ![p] = <<>>]
      PROVE  TablaHereda
  <2>1. Hereda(<<>>, l)
    BY DEF Hereda
  <2>2. QED
    BY <1>a, <1>4, <2>1, TablaCambia
<1>5. QED
  BY <1>2, <1>3, <1>4

\* segmento_crear adds a segment nobody wrote in.
LEMMA TablaOcupar ==
  ASSUME TypeOK, ConstantesOK, NEW p \in Pids, NEW i \in Ids, NEW t \in Nat,
         ResultadoCrear(p, t) = "OK", OcuparYAnotar(p, i, t)
  PROVE  TablaHereda
<1> DEFINE s == [id |-> i, base |-> lista_huecos[Buscar(t)].base, limite |-> t, dato |-> Nada]
<1>1. Buscar(t) # SinHueco
  BY DEF ResultadoCrear
<1>2. Buscar(t) \in 1 .. Len(lista_huecos)
  BY <1>1, BuscarHuecoEntra DEF TypeOK, Buscar
<1>3. lista_huecos[Buscar(t)].base \in Nat
  BY <1>2, HuecosNumeros DEF TypeOK
<1>4. s \in Segmento /\ s.dato = Nada
  BY <1>3 DEF Segmento
<1>5. tabla' = [tabla EXCEPT ![p] = Append(@, s)]
  BY DEF OcuparYAnotar
<1> HIDE DEF s
<1>6. QED
  BY <1>4, <1>5, TablaDeSegmentos

\* A request of the KS arrives.
LEMMA ContenidoAtender ==
  ASSUME MemoriaInv, BloquesInv, ContenidoInv, ConstantesOK, NulosOK,
         NEW p \in Pids, Atender(p)
  PROVE  ContenidoInv'
<1>1. /\ UNCHANGED <<lista_memory_sticks, stick_estado, swap_estado, fd_swap, disco, copia>>
      /\ pc = "libre" /\ pc' # "susp_copiar"
  BY DEF Atender, CrearProceso, ProcesoLiberarMemoria, CrearSegmentoOK, CrearSegmentoError,
         CrearSegmentoCompactar, SegmentoEliminar, SegmentoEliminarError, Suspender,
         Dessuspender, EscribirDatos, ksLocals, peers, memVars, swapVars, datos
<1>2. BloquesAlcanzan'
  BY <1>1 DEF BloquesAlcanzan
<1>3. TypeOK
  BY DEF MemoriaInv, TipoInv
<1> SUFFICES ASSUME Sanos PROVE ContenidoRam' /\ ContenidoSwap'
  BY <1>1, <1>2, ContenidoDelKS
<1>4. CASE CrearProceso(p)
  <2>1. /\ tabla' = [tabla EXCEPT ![p] = <<>>] /\ UNCHANGED <<ram, segmentos_swap>>
    BY <1>4 DEF CrearProceso, swapVars, datos
  <2>2. QED
    BY <1>1, <1>3, <2>1, TablaDeSegmentos, SwapQueda, ContenidoHeredado
<1>5. CASE ProcesoLiberarMemoria(p)
  <2>1. /\ tabla' = [tabla EXCEPT ![p] = <<>>] /\ UNCHANGED ram
        /\ segmentos_swap' = [segmentos_swap EXCEPT ![p] = <<>>]
    BY <1>5 DEF ProcesoLiberarMemoria, datos
  <2>2. TablaHereda /\ SwapHereda
    BY <1>1, <1>3, <2>1, TablaDeSegmentos, SwapOlvida
  <2>3. QED
    BY <1>1, <2>1, <2>2, ContenidoHeredado
<1>6. ASSUME NEW i \in Ids, NEW t \in Tamanios, CrearSegmentoOK(p, i, t)
      PROVE  ContenidoRam' /\ ContenidoSwap'
  <2>1. /\ ResultadoCrear(p, t) = "OK" /\ OcuparYAnotar(p, i, t)
        /\ UNCHANGED <<ram, segmentos_swap>>
    BY <1>6 DEF CrearSegmentoOK, swapVars, datos
  <2>2. t \in Nat
    BY DEF ConstantesOK
  <2>3. TablaHereda /\ SwapHereda
    BY <1>1, <1>3, <2>1, <2>2, TablaOcupar, SwapQueda
  <2>4. QED
    BY <1>1, <2>1, <2>3, ContenidoHeredado
<1>7. CASE \/ \E i \in Ids, t \in Tamanios : \/ CrearSegmentoError(p, i, t)
                                            \/ CrearSegmentoCompactar(p, i, t)
           \/ \E i \in Ids : SegmentoEliminarError(p, i)
           \/ Suspender(p)
           \/ Dessuspender(p)
  <2>1. UNCHANGED <<tabla, ram, segmentos_swap>>
    BY <1>7 DEF CrearSegmentoError, CrearSegmentoCompactar, SegmentoEliminarError, Suspender,
                Dessuspender, tablas, swapVars, datos
  <2>2. QED
    BY <1>1, <2>1, TablaQueda, SwapQueda, ContenidoHeredado
<1>8. ASSUME NEW i \in Ids, SegmentoEliminar(p, i)
      PROVE  ContenidoRam' /\ ContenidoSwap'
  <2>1. /\ \E k \in 1 .. Len(tabla[p]) : tabla' = [tabla EXCEPT ![p] = RemoveAt(@, k)]
        /\ UNCHANGED <<ram, segmentos_swap>>
    BY <1>8 DEF SegmentoEliminar, swapVars, datos
  <2>2. TablaHereda /\ SwapHereda
    BY <1>1, <1>3, <2>1, TablaDeSegmentos, SwapQueda
  <2>3. QED
    BY <1>1, <2>1, <2>2, ContenidoHeredado
<1>9. ASSUME NEW k \in 1 .. MaxSegmentos, EscribirDatos(p, k)
      PROVE  ContenidoRam' /\ ContenidoSwap'
  <2>1. /\ k \in DOMAIN tabla[p] /\ EscribirSegmento(p, k) /\ UNCHANGED segmentos_swap
    BY <1>9 DEF EscribirDatos, swapVars
  <2>2. ContenidoRam /\ ContenidoSwap /\ SinSticksCaidos /\ SinRepetidos
    BY DEF ContenidoInv, Sanos
  <2>3. ContenidoRam'
    BY <1>1, <2>1, <2>2, ContenidoEscribir
  <2>4. QED
    BY <1>1, <2>1, <2>2, <2>3, SwapQueda, SwapHeredado
<1>10. QED
  BY <1>4, <1>5, <1>6, <1>7, <1>8, <1>9 DEF Atender

\* The last step of a suspension: the copies are the list of the process.
LEMMA SwapRecibeCopia ==
  ASSUME TypeOK, NEW p \in Pids, segmentos_swap' = [segmentos_swap EXCEPT ![p] = copia],
         copia' = <<>>
  PROVE  SwapHereda
<1>1. segmentos_swap \in [Pids -> Seq(SegmentoSwap)]
  BY DEF TypeOK
<1>2. ASSUME NEW q \in Pids, NEW i \in DOMAIN segmentos_swap'[q]
      PROVE  \/ \E r \in Pids : \E j \in DOMAIN segmentos_swap[r] :
                  segmentos_swap'[q][i] = segmentos_swap[r][j]
             \/ \E j \in DOMAIN copia : segmentos_swap'[q][i] = copia[j]
  <2>1. CASE q = p
    BY <1>1, <1>2, <2>1
  <2>2. CASE q # p
    BY <1>1, <1>2, <2>2
  <2>3. QED
    BY <2>1, <2>2
<1>3. DOMAIN copia' = {}
  OBVIOUS
<1>4. QED
  BY <1>2, <1>3 DEF SwapHereda

\* A suspension begins when there are blocks for every segment.
LEMMA AlcanzanEntrar ==
  ASSUME TypeOK, ConstantesOK, SuspenderEntrar
  PROVE  BloquesAlcanzan'
<1> DEFINE l == tabla[pedido.pid]
<1>1. /\ pc = "susp_entrar" /\ copia' = <<>>
      /\ BloquesNecesarios(l) <= Cardinality(BloquesLibres)
      /\ UNCHANGED <<tabla, pedido, swap_bloques_usados>>
  BY DEF SuspenderEntrar, tablas, swapVars
<1>2. pedido.pid \in Pids
  BY <1>1 DEF TypeOK
<1>3. Sumas(BloquesPorSegmento(l))[0] = 0 /\ Len(l) \in Nat
  BY <1>2, BloquesPorSegmentoTipo, TablaTipo
<1>4. Cardinality(BloquesLibres) \in Nat /\ BloquesLibres' = BloquesLibres
  BY <1>1, LibresTipo DEF BloquesLibres
<1>5. BloquesNecesarios(l) \in Nat
  BY <1>2, <1>3, BloquesPorSegmentoTipo, SumasPasoAPaso
<1>6. Len(copia') = 0 /\ tabla'[pedido'.pid] = l
  BY <1>1
<1> HIDE DEF l
<1>7. /\ Len(copia') <= Len(tabla'[pedido'.pid])
      /\ BloquesNecesarios(tabla'[pedido'.pid])
           <= Sumas(BloquesPorSegmento(tabla'[pedido'.pid]))[Len(copia')]
              + Cardinality(BloquesLibres')
  BY <1>1, <1>3, <1>4, <1>5, <1>6 DEF l
<1>8. QED
  BY <1>7 DEF BloquesAlcanzan

\* The KS thread goes on with a suspension or a return.
LEMMA ContenidoSuspension ==
  ASSUME MemoriaInv, BloquesInv, ContenidoInv, ConstantesOK, NulosOK, Sanos,
         \/ SuspenderSinCopiar \/ SuspenderEntrar
         \/ SuspenderCopiar \/ SuspenderRollback \/ SuspenderLiberar
         \/ DessAsignar \/ DessRollback \/ DessAsignado \/ DessRestaurar \/ DessFin
  PROVE  ContenidoRam' /\ ContenidoSwap'
<1>1. UNCHANGED lista_memory_sticks
  BY DEF SuspenderSinCopiar, SuspenderEntrar, SuspenderCopiar, SuspenderRollback,
         SuspenderLiberar, DessAsignar, DessRollback, DessAsignado, DessRestaurar, DessFin,
         memVars
<1>2. TypeOK /\ (pc # "libre" => pedido.pid \in Pids)
  BY DEF MemoriaInv, TipoInv, TypeOK
<1>3. ContenidoRam /\ ContenidoSwap /\ SinRepetidos /\ SinSticksCaidos /\ BloquesAlcanzan
  BY DEF ContenidoInv, Sanos
<1>4. CASE \/ SuspenderSinCopiar \/ SuspenderEntrar \/ SuspenderRollback
           \/ DessAsignar \/ DessRollback \/ DessAsignado
  <2>1. /\ UNCHANGED <<tabla, segmentos_swap, ram, disco>>
        /\ copia' = copia \/ copia' = <<>>
    BY <1>4 DEF SuspenderSinCopiar, SuspenderEntrar, SuspenderRollback, DessAsignar,
                DessRollback, DessAsignado, Terminar, tablas, swapVars, datos
  <2>2. TablaHereda /\ SwapHereda
    BY <2>1, TablaQueda, SwapQueda
  <2>3. QED
    BY <1>1, <2>1, <2>2, ContenidoHeredado
<1>5. CASE SuspenderCopiar
  <2>1. UNCHANGED <<tabla, ram>>
    BY <1>5 DEF SuspenderCopiar, tablas
  <2>2. Bytes' = Bytes
    BY <1>1, <2>1, BytesQuietos
  <2>3. ContenidoRam'
    BY <1>3, <2>1, <2>2, TablaQueda, RamHeredada
  <2>4. ContenidoSwap'
    BY <1>2, <1>3, <1>5, ContenidoCopiar DEF Sanos
  <2>5. QED
    BY <2>3, <2>4
<1>6. CASE SuspenderLiberar
  <2>1. /\ pc = "susp_copiar" /\ copia' = <<>>
        /\ tabla' = [tabla EXCEPT ![pedido.pid] = <<>>]
        /\ segmentos_swap' = [segmentos_swap EXCEPT ![pedido.pid] = copia]
        /\ UNCHANGED <<ram, disco>>
    BY <1>6 DEF SuspenderLiberar, Terminar, datos
  <2>2. TablaHereda /\ SwapHereda
    BY <1>2, <2>1, TablaDeSegmentos, SwapRecibeCopia
  <2>3. QED
    BY <1>1, <2>1, <2>2, ContenidoHeredado
<1>7. CASE DessRestaurar
  <2>1. pc = "dess_restaurar" /\ UNCHANGED <<segmentos_swap, copia, disco>>
    BY <1>7 DEF DessRestaurar
  <2>2. SwapResponde
    BY <2>1 DEF BloquesInv, AntesDelSwap, ContenidoInv, SwapConectado, Sanos
  <2>3. ContenidoRam'
    BY <1>3, <1>7, <2>2, ContenidoRestaurar
  <2>4. QED
    BY <1>3, <2>1, <2>3, SwapQueda, SwapHeredado
<1>8. CASE DessFin
  <2>1. /\ pc = "dess_restaurar" /\ copia' = <<>>
        /\ segmentos_swap' = [segmentos_swap EXCEPT ![pedido.pid] = <<>>]
        /\ UNCHANGED <<tabla, ram, disco>>
    BY <1>8 DEF DessFin, Terminar, tablas, datos
  <2>2. TablaHereda /\ SwapHereda
    BY <1>2, <2>1, TablaQueda, SwapOlvida
  <2>3. QED
    BY <1>1, <2>1, <2>2, ContenidoHeredado
<1>9. QED
  BY <1>4, <1>5, <1>6, <1>7, <1>8

\* The KS thread goes on with the end of a process or a compaction.
LEMMA ContenidoCompactacion ==
  ASSUME MemoriaInv, ContenidoInv, ConstantesOK, NulosOK, Sanos,
         \/ ContextoEliminar \/ ConfirmacionRecibida
         \/ \E p \in Pids, k \in 1 .. MaxSegmentos :
              CompactarSegmento(p, k) \/ CompactarFalla(p, k)
         \/ CompactarFin \/ ReintentarCrear
  PROVE  ContenidoRam' /\ ContenidoSwap'
<1>1. /\ UNCHANGED <<lista_memory_sticks, segmentos_swap, disco>>
      /\ copia' = copia \/ copia' = <<>>
  BY DEF ContextoEliminar, ConfirmacionRecibida, CompactarSegmento, CompactarFalla,
         CompactarFin, ReintentarCrear, Terminar, memVars, swapVars, ksLocals, datos
<1>2. TypeOK /\ (pc # "libre" => pedido.pid \in Pids)
  BY DEF MemoriaInv, TipoInv, TypeOK
<1>3. ContenidoRam /\ ContenidoSwap /\ SinRepetidos /\ SinSticksCaidos
  BY DEF ContenidoInv, Sanos
<1>4. SwapHereda
  BY <1>1, SwapQueda
<1>5. CASE ContextoEliminar
  <2>1. /\ pc = "finalizar" /\ tabla' = [tabla EXCEPT ![pedido.pid] = <<>>]
        /\ UNCHANGED ram
    BY <1>5 DEF ContextoEliminar, datos
  <2>2. TablaHereda
    BY <1>2, <2>1, TablaDeSegmentos
  <2>3. QED
    BY <1>1, <1>4, <2>1, <2>2, ContenidoHeredado
<1>6. CASE ConfirmacionRecibida \/ CompactarFin
  <2>1. UNCHANGED <<tabla, ram>>
    BY <1>6 DEF ConfirmacionRecibida, CompactarFin, tablas, datos
  <2>2. QED
    BY <1>1, <1>4, <2>1, TablaQueda, ContenidoHeredado
<1>7. ASSUME NEW p \in Pids, NEW k \in 1 .. MaxSegmentos, CompactarSegmento(p, k)
      PROVE  ContenidoRam' /\ ContenidoSwap'
  <2>1. ContenidoRam'
    BY <1>3, <1>7, ContenidoCompactar
  <2>2. QED
    BY <1>1, <1>3, <1>4, <2>1, SwapHeredado
<1>8. ASSUME NEW p \in Pids, NEW k \in 1 .. MaxSegmentos, CompactarFalla(p, k)
      PROVE  FALSE
  BY <1>3, <1>8, CompactarNoFalla
<1>9. CASE ReintentarCrear
  <2>1. /\ pc = "reintentar" /\ UNCHANGED ram
        /\ \/ /\ ResultadoCrear(pedido.pid, pedido.tam) = "OK"
              /\ OcuparYAnotar(pedido.pid, pedido.id, pedido.tam)
           \/ UNCHANGED tabla
    BY <1>9 DEF ReintentarCrear, datos
  <2>2. pedido.pid \in Pids /\ pedido.id \in Ids /\ pedido.tam \in Nat
    BY <1>2, <2>1 DEF TypeOK, Pedido
  <2>3. TablaHereda
    BY <1>2, <2>1, <2>2, TablaOcupar, TablaQueda
  <2>4. QED
    BY <1>1, <1>4, <2>1, <2>3, ContenidoHeredado
<1>10. QED
  BY <1>5, <1>6, <1>7, <1>8, <1>9

\* The KS thread goes on with the request it is serving.
LEMMA ContenidoContinuar ==
  ASSUME MemoriaInv, BloquesInv, ContenidoInv, ConstantesOK, NulosOK, Continuar
  PROVE  ContenidoInv'
<1>1. UNCHANGED <<lista_memory_sticks, stick_estado, swap_estado, fd_swap>>
  BY DEF Continuar, ContextoEliminar, ConfirmacionRecibida, CompactarSegmento,
         CompactarFalla, CompactarFin, ReintentarCrear, SuspenderSinCopiar, SuspenderEntrar,
         SuspenderCopiar, SuspenderRollback, SuspenderLiberar, DessAsignar, DessRollback,
         DessAsignado, DessRestaurar, DessFin, memVars, swapVars, peers
<1>2. TypeOK
  BY DEF MemoriaInv, TipoInv
<1>3. ASSUME SuspenderEntrar PROVE BloquesAlcanzan'
  BY <1>2, <1>3, AlcanzanEntrar
<1>4. ASSUME SuspenderCopiar PROVE BloquesAlcanzan'
  <2>1. BloquesAlcanzan
    BY DEF ContenidoInv
  <2>2. QED
    BY <1>2, <1>4, <2>1, AlcanzanCopiar
<1>5. ASSUME ~ SuspenderEntrar /\ ~ SuspenderCopiar PROVE BloquesAlcanzan'
  <2>1. pc' # "susp_copiar"
    BY <1>5 DEF Continuar, ContextoEliminar, ConfirmacionRecibida, CompactarSegmento,
                CompactarFalla, CompactarFin, ReintentarCrear, SuspenderSinCopiar,
                SuspenderRollback, SuspenderLiberar, DessAsignar, DessRollback,
                DessAsignado, DessRestaurar, DessFin, Terminar
  <2>2. QED
    BY <2>1 DEF BloquesAlcanzan
<1>6. BloquesAlcanzan'
  BY <1>3, <1>4, <1>5
<1>7. Sanos => ContenidoRam' /\ ContenidoSwap'
  BY ContenidoSuspension, ContenidoCompactacion DEF Continuar
<1>8. QED
  BY <1>1, <1>6, <1>7, ContenidoDelKS

\* A step of another thread that touches neither the blocks nor a copy.
LEMMA AlcanzanQuieto ==
  ASSUME BloquesAlcanzan, UNCHANGED <<pc, pedido, copia, swap_bloques_usados>>,
         pc = "susp_copiar" => tabla'[pedido.pid] = tabla[pedido.pid]
  PROVE  BloquesAlcanzan'
<1>1. SUFFICES ASSUME pc = "susp_copiar" PROVE BloquesAlcanzan'
  BY DEF BloquesAlcanzan
<1>2. tabla'[pedido'.pid] = tabla[pedido.pid] /\ BloquesLibres' = BloquesLibres
  BY <1>1 DEF BloquesLibres
<1>3. QED
  BY <1>1, <1>2 DEF BloquesAlcanzan

\* A process writes in a segment of its own: not in one that is being copied.
LEMMA ContenidoCpu ==
  ASSUME MemoriaInv, ContenidoInv, ConstantesOK, NulosOK, NEW p \in Pids, NEW k,
         CpuEscribe(p, k)
  PROVE  ContenidoInv'
<1>1. /\ k \in DOMAIN tabla[p] /\ EscribirSegmento(p, k) /\ (pc # "libre" => pedido.pid # p)
      /\ UNCHANGED <<lista_memory_sticks, stick_estado, swap_estado, fd_swap, pc, pedido,
                     copia, swap_bloques_usados, segmentos_swap, disco>>
  BY DEF CpuEscribe, memVars, swapVars, ksLocals, peers
<1>2. BloquesAlcanzan'
  <2>1. tabla' = [tabla EXCEPT ![p][k].dato = p] /\ tabla \in [Pids -> Seq(Segmento)]
    BY <1>1 DEF EscribirSegmento, MemoriaInv, TipoInv, TypeOK
  <2>2. pc = "susp_copiar" => pedido.pid # p /\ pedido.pid \in Pids
    BY <1>1 DEF MemoriaInv, TipoInv, TypeOK
  <2>3. pc = "susp_copiar" => tabla'[pedido.pid] = tabla[pedido.pid]
    BY <2>1, <2>2
  <2>4. QED
    BY <1>1, <2>3, AlcanzanQuieto DEF ContenidoInv
<1>3. ASSUME Sanos PROVE ContenidoRam' /\ ContenidoSwap'
  <2>1. ContenidoRam /\ ContenidoSwap /\ SinSticksCaidos /\ SinRepetidos
    BY <1>3 DEF ContenidoInv, Sanos
  <2>2. ContenidoRam'
    BY <1>1, <2>1, ContenidoEscribir
  <2>3. QED
    BY <1>1, <2>1, <2>2, SwapQueda, SwapHeredado
<1>4. QED
  BY <1>1, <1>2, <1>3, ContenidoDelKS

\* A new stick goes at the end of the list, once.
LEMMA ContenidoAgregar ==
  ASSUME MemoriaInv, ContenidoInv, ConstantesOK, NulosOK, TypeOK', Ubicado',
         NEW f \in Sticks, MemoryStickAgregar(f)
  PROVE  ContenidoInv'
<1>1. /\ stick_estado[f] = "no"
      /\ stick_estado' = [stick_estado EXCEPT ![f] = "vivo"]
      /\ lista_memory_sticks' = Append(lista_memory_sticks, f)
      /\ UNCHANGED <<tabla, swap_estado, fd_swap, pc, pedido, copia, swap_bloques_usados,
                     segmentos_swap, ram, disco>>
  BY DEF MemoryStickAgregar, tablas, swapVars, ksLocals, datos
<1>2. TypeOK
  BY DEF MemoriaInv, TipoInv
<1>3. SinSticksCaidos' <=> SinSticksCaidos
  BY <1>1, <1>2 DEF SinSticksCaidos, TypeOK
<1>4. SinRepetidos'
  <2>1. SUFFICES ASSUME SinSticksCaidos
                 PROVE  \A i, j \in DOMAIN lista_memory_sticks' :
                          lista_memory_sticks'[i] = lista_memory_sticks'[j] => i = j
    BY <1>3 DEF SinRepetidos
  <2> DEFINE l == lista_memory_sticks
             n == Len(lista_memory_sticks)
  <2>2. l \in Seq(Sticks) /\ n \in Nat /\ DOMAIN l = 1 .. n
    BY <1>2, LenProperties DEF TypeOK
  <2>3. /\ DOMAIN l' = 1 .. n + 1 /\ l'[n + 1] = f
        /\ \A i \in 1 .. n : l'[i] = l[i]
    BY <1>1, <2>2, AppendProperties
  <2>4. \A i \in 1 .. n : l[i] # f
    BY <1>1, <2>1, <2>2 DEF MemoriaInv, Memoria, SticksEnLista
  <2>5. \A i, j \in 1 .. n : l[i] = l[j] => i = j
    BY <2>1, <2>2 DEF ContenidoInv, SinRepetidos
  <2>6. SUFFICES ASSUME NEW i \in 1 .. n + 1, NEW j \in 1 .. n + 1, l'[i] = l'[j]
                 PROVE  i = j
    BY <2>3
  <2> HIDE DEF l, n
  <2>7. /\ i \in 1 .. n \/ i = n + 1
        /\ j \in 1 .. n \/ j = n + 1
    BY <2>2
  <2>8. QED
    BY <2>3, <2>4, <2>5, <2>6, <2>7
<1>5. SwapConectado'
  BY <1>1 DEF ContenidoInv, SwapConectado, SwapSinCaidas, SwapResponde
<1>6. BloquesAlcanzan'
  BY <1>1, AlcanzanQuieto DEF ContenidoInv
<1>7. ASSUME Sanos' PROVE ContenidoRam' /\ ContenidoSwap'
  <2>1. Sanos
    BY <1>1, <1>3, <1>7 DEF Sanos, SwapSinCaidas, UnSoloSwap
  <2>2. ContenidoRam /\ ContenidoSwap /\ SinSticksCaidos /\ SticksEnLista
    BY <2>1 DEF ContenidoInv, Sanos, MemoriaInv, Memoria
  <2>3. ASSUME NEW a \in Nat, a < memoria_total PROVE Bytes'[a] = Bytes[a]
    <3>1. Byte(a)' = Byte(a)
      BY <1>1, <1>2, <2>2, <2>3, AgregarByte
    <3>2. QED
      BY <3>1 DEF Bytes
  <2>4. ContenidoRam'
    BY <1>1, <2>2, <2>3, TablaQueda, RamHeredada
  <2>5. QED
    BY <1>1, <2>2, <2>4, SwapQueda, SwapHeredado
<1>8. QED
  BY <1>4, <1>5, <1>6, <1>7 DEF ContenidoInv

\* A stick that is lost owes nothing.
LEMMA ContenidoStickSeVa ==
  ASSUME MemoriaInv, ContenidoInv, NEW f \in Sticks, StickCae(f) \/ MemoryStickEliminar(f)
  PROVE  ContenidoInv'
<1>1. /\ \E e \in {"caido", "cerrado"} : stick_estado' = [stick_estado EXCEPT ![f] = e]
      /\ UNCHANGED <<tabla, swap_estado, fd_swap, pc, pedido, copia, swap_bloques_usados>>
  BY DEF StickCae, MemoryStickEliminar, tablas, swapVars, ksLocals
<1>2. stick_estado \in [Sticks -> Estados]
  BY DEF MemoriaInv, TipoInv, TypeOK
<1>3. ~ SinSticksCaidos'
  BY <1>1, <1>2 DEF SinSticksCaidos
<1>4. SwapConectado'
  BY <1>1 DEF ContenidoInv, SwapConectado, SwapSinCaidas, SwapResponde
<1>5. BloquesAlcanzan'
  BY <1>1, AlcanzanQuieto DEF ContenidoInv
<1>6. QED
  BY <1>3, <1>4, <1>5 DEF ContenidoInv, SinRepetidos, Sanos

\* A SWAP comes with a new file: nothing was in another one.
LEMMA ContenidoRegistrar ==
  ASSUME MemoriaInv, BloquesInv, ContenidoInv, NulosOK, NEW s \in Swaps, SwapRegistrar(s)
  PROVE  ContenidoInv'
<1>1. /\ pc # "susp_copiar" /\ swap_estado[s] = "no" /\ fd_swap' = s
      /\ swap_estado' = [swap_estado EXCEPT ![s] = "vivo"]
      /\ UNCHANGED <<tabla, lista_memory_sticks, stick_estado, pc, copia, segmentos_swap, ram>>
  BY DEF SwapRegistrar, MutexContextosLibre, tablas, memVars, ksLocals
<1>2. swap_estado \in [Swaps -> Estados]
  BY DEF MemoriaInv, TipoInv, TypeOK
<1>3. SinSticksCaidos' <=> SinSticksCaidos
  BY <1>1 DEF SinSticksCaidos
<1>4. SinRepetidos'
  BY <1>1, <1>3 DEF ContenidoInv, SinRepetidos
<1>5. fd_swap' # SinSwap /\ swap_estado'[fd_swap'] = "vivo"
  BY <1>1, <1>2 DEF NulosOK
<1>6. SwapConectado'
  BY <1>5 DEF SwapConectado, SwapResponde
<1>7. BloquesAlcanzan'
  BY <1>1 DEF BloquesAlcanzan
<1>8. ASSUME Sanos' PROVE ContenidoRam' /\ ContenidoSwap'
  <2>1. \A r \in Swaps : swap_estado[r] = "no"
    <3>1. SUFFICES ASSUME NEW r \in Swaps, swap_estado[r] # "no" PROVE FALSE
      OBVIOUS
    <3>2. swap_estado'[s] # "no" /\ swap_estado'[r] # "no"
      BY <1>1, <1>2, <3>1
    <3>3. r = s
      BY <1>8, <3>2 DEF Sanos, UnSoloSwap
    <3>4. QED
      BY <1>1, <3>1, <3>3
  <2>2. Sanos
    BY <1>3, <1>8, <2>1 DEF Sanos, SwapSinCaidas, UnSoloSwap
  <2>3. ContenidoRam /\ SinSticksCaidos
    BY <2>2 DEF ContenidoInv, Sanos
  <2>4. (\A p \in Pids : segmentos_swap[p] = <<>>) /\ copia = <<>>
    BY <1>1, <2>1 DEF BloquesInv, AntesDelSwap, ListasDelSwap
  <2>5. ContenidoSwap'
    BY <1>1, <2>4 DEF ContenidoSwap
  <2>6. Bytes' = Bytes
    BY <1>1, BytesQuietos
  <2>7. ContenidoRam'
    BY <1>1, <2>3, <2>6, TablaQueda, RamHeredada
  <2>8. QED
    BY <2>5, <2>7
<1>9. QED
  BY <1>4, <1>6, <1>7, <1>8 DEF ContenidoInv

\* A SWAP that goes away owes nothing.
LEMMA ContenidoSwapSeVa ==
  ASSUME MemoriaInv, ContenidoInv, NEW s \in Swaps, SwapCae(s) \/ SwapDesregistrar(s)
  PROVE  ContenidoInv'
<1>1. /\ \E e \in {"caido", "cerrado"} : swap_estado' = [swap_estado EXCEPT ![s] = e]
      /\ UNCHANGED <<tabla, lista_memory_sticks, stick_estado, pc, pedido, copia,
                     swap_bloques_usados>>
  BY DEF SwapCae, SwapDesregistrar, tablas, memVars, swapVars, ksLocals
<1>2. swap_estado \in [Swaps -> Estados]
  BY DEF MemoriaInv, TipoInv, TypeOK
<1>3. ~ SwapSinCaidas'
  BY <1>1, <1>2 DEF SwapSinCaidas
<1>4. SinRepetidos'
  BY <1>1 DEF ContenidoInv, SinRepetidos, SinSticksCaidos
<1>5. BloquesAlcanzan'
  BY <1>1, AlcanzanQuieto DEF ContenidoInv
<1>6. QED
  BY <1>3, <1>4, <1>5 DEF ContenidoInv, SwapConectado, Sanos

\* The other threads and the processes at the other end of the sockets.
LEMMA ContenidoEntorno ==
  ASSUME MemoriaInv, BloquesInv, ContenidoInv, ConstantesOK, NulosOK, TypeOK', Ubicado',
         Entorno
  PROVE  ContenidoInv'
<1>1. CASE ConfirmacionRechazada
  <2>1. /\ UNCHANGED <<tabla, lista_memory_sticks, stick_estado, swap_estado, fd_swap, ram,
                       disco, segmentos_swap>>
        /\ pc' # "susp_copiar" /\ copia' = <<>>
    BY <1>1 DEF ConfirmacionRechazada, Terminar, tablas, memVars, swapVars, peers, datos
  <2>2. BloquesAlcanzan'
    BY <2>1 DEF BloquesAlcanzan
  <2>3. TablaHereda /\ SwapHereda
    BY <2>1, TablaQueda, SwapQueda
  <2>4. Sanos => ContenidoRam' /\ ContenidoSwap'
    BY <2>1, <2>3, ContenidoHeredado
  <2>5. QED
    BY <2>1, <2>2, <2>4, ContenidoDelKS
<1>2. ASSUME NEW p \in Pids, NEW k, CpuEscribe(p, k) PROVE ContenidoInv'
  BY <1>2, ContenidoCpu
<1>3. ASSUME NEW f \in Sticks,
             MemoryStickAgregar(f) \/ StickCae(f) \/ MemoryStickEliminar(f)
      PROVE  ContenidoInv'
  BY <1>3, ContenidoAgregar, ContenidoStickSeVa
<1>4. ASSUME NEW s \in Swaps, SwapRegistrar(s) \/ SwapCae(s) \/ SwapDesregistrar(s)
      PROVE  ContenidoInv'
  BY <1>4, ContenidoRegistrar, ContenidoSwapSeVa
<1>5. QED
  BY <1>1, <1>2, <1>3, <1>4 DEF Entorno

-----------------------------------------------------------------------------
\* At the start there is nothing to lose.
LEMMA ContenidoInicial ==
  ASSUME Init
  PROVE  ContenidoInv
<1>1. DOMAIN lista_memory_sticks = {} /\ DOMAIN copia = {}
  BY DEF Init
<1>2. \A p \in Pids : DOMAIN tabla[p] = {} /\ DOMAIN segmentos_swap[p] = {}
  BY DEF Init
<1>3. ContenidoRam /\ ContenidoSwap
  BY <1>1, <1>2 DEF ContenidoRam, ContenidoSwap
<1>4. SinRepetidos
  BY <1>1 DEF SinRepetidos
<1>5. SwapConectado /\ BloquesAlcanzan
  BY DEF SwapConectado, BloquesAlcanzan, Init
<1>6. QED
  BY <1>3, <1>4, <1>5 DEF ContenidoInv

\* Nothing moves.
LEMMA ContenidoQuieto ==
  ASSUME MemoriaInv, ContenidoInv, UNCHANGED vars
  PROVE  ContenidoInv'
<1>1. UNCHANGED <<tabla, lista_memory_sticks, stick_estado, swap_estado, fd_swap, pc, pedido,
                  copia, swap_bloques_usados, segmentos_swap, ram, disco>>
  BY DEF vars, tablas, memVars, swapVars, ksLocals, peers, datos
<1>2. BloquesAlcanzan'
  BY <1>1, AlcanzanQuieto DEF ContenidoInv
<1>3. Sanos => ContenidoRam' /\ ContenidoSwap'
  BY <1>1, TablaQueda, SwapQueda, ContenidoHeredado
<1>4. QED
  BY <1>1, <1>2, <1>3, ContenidoDelKS

\* Wherever a segment goes, compacted, suspended and back, its bytes go with it.
THEOREM ContenidoInvariante == Spec => []ContenidoInv
<1>1. Init => ContenidoInv
  BY ContenidoInicial
<1>2. Ubicado
  BY LocalizarUbica, ConstantesOK
<1>3. MemoriaInv /\ MemoriaInv' /\ BloquesInv /\ Ubicado' /\ ContenidoInv /\ [Next]_vars
        => ContenidoInv'
  <2> SUFFICES ASSUME MemoriaInv, MemoriaInv', BloquesInv, Ubicado', ContenidoInv, [Next]_vars
               PROVE  ContenidoInv'
    OBVIOUS
  <2>1. ASSUME NEW p \in Pids, Atender(p) PROVE ContenidoInv'
    BY <2>1, ContenidoAtender, ConstantesOK, NulosOK
  <2>2. CASE Continuar
    BY <2>2, ContenidoContinuar, ConstantesOK, NulosOK
  <2>3. CASE Entorno
    <3>1. TypeOK'
      BY DEF MemoriaInv, TipoInv
    <3>2. QED
      BY <2>3, <3>1, ContenidoEntorno, ConstantesOK, NulosOK
  <2>4. CASE UNCHANGED vars
    BY <2>4, ContenidoQuieto
  <2>5. QED
    BY <2>1, <2>2, <2>3, <2>4 DEF Next
<1>4. QED
  BY <1>1, <1>2, <1>3, MemoriaInvariante, BloquesConDueno, PTL DEF Spec

\* What a process wrote in a segment is what the segment holds, at its present
\* address, after any number of compactions, suspensions and returns, as long as
\* no stick and no SWAP was lost and no second SWAP came with an empty file.
THEOREM ContenidoSinPerder == Spec => [](UnSoloSwap => ContenidoIntacto)
<1>1. MemoriaInv /\ ContenidoInv => (UnSoloSwap => ContenidoIntacto)
  <2> SUFFICES ASSUME MemoriaInv, ContenidoInv, UnSoloSwap, SinSticksCaidos, SwapSinCaidas,
                      NEW p \in Pids, NEW k \in DOMAIN tabla[p], tabla[p][k].dato # Nada
               PROVE  MemoriaFisicaLeer(tabla[p][k].base, tabla[p][k].limite)
                        = Contenido(tabla[p][k].dato, tabla[p][k].limite)
    BY DEF ContenidoIntacto
  <2> DEFINE s == tabla[p][k]
  <2>1. s.base \in Nat /\ s.limite \in Nat
    BY SegmentoEnMemoria
  <2>2. EnRam(Bytes, s)
    BY DEF ContenidoInv, Sanos, ContenidoRam
  <2>3. s.dato # Nada
    OBVIOUS
  <2> HIDE DEF s
  <2>4. \A o \in 0 .. s.limite - 1 : Byte(s.base + o) = <<s.dato, o>>
    <3>1. SUFFICES ASSUME NEW o \in 0 .. s.limite - 1 PROVE Byte(s.base + o) = <<s.dato, o>>
      OBVIOUS
    <3>2. s.base + o \in Nat
      BY <2>1
    <3>3. Bytes[s.base + o] = <<s.dato, o>>
      BY <2>2, <2>3 DEF EnRam
    <3>4. QED
      BY <3>2, <3>3 DEF Bytes
  <2>5. MemoriaFisicaLeer(s.base, s.limite) = Contenido(s.dato, s.limite)
    BY <2>4 DEF MemoriaFisicaLeer, Contenido, Byte
  <2>6. QED
    BY <2>5 DEF s
<1>2. QED
  BY <1>1, MemoriaInvariante, ContenidoInvariante, PTL

=============================================================================
