-------------------------------- MODULE Mmu --------------------------------
(***************************************************************************)
(* How a CPU gets from a logical address to bytes of the Memory Sticks:    *)
(* the MMU (cpu/src/mmu.c) and the list of sticks it keeps                 *)
(* (cpu/src/memoria.c).                                                    *)
(***************************************************************************)
EXTENDS Registros, FiniteSets

CONSTANTS
  TamMaxSegmento,    \* SEGMENT_MAX_SIZE
  TamSticks          \* size of each stick, in the order they connect

ASSUME MmuOK ==
  /\ TamMaxSegmento \in Nat \ {0}
  /\ TamSticks \in Seq(Nat \ {0})

-----------------------------------------------------------------------------
(* mmu.c.                                                                   *)

\* buscar_segmento_por_id: the first of the table with that id, if any.
BuscarSegmento(tabla, id) ==
  {i \in DOMAIN tabla : /\ tabla[i].id = id
                        /\ \A j \in 1 .. i - 1 : tabla[j].id # id}

\* traducir_direccion: the physical address, or none (Segmentation Fault).
Traducir(tabla, dl, tam) ==
  {(tabla[i].base + (dl % TamMaxSegmento)) % Palabra :
     i \in {j \in BuscarSegmento(tabla, dl \div TamMaxSegmento) :
              ((dl % TamMaxSegmento) + tam) % Palabra <= tabla[j].limite}}

-----------------------------------------------------------------------------
(* The sticks.                                                              *)

\* Where the bytes of a stick begin in the physical memory: the sizes of those
\* that connected before it.
Base[s \in 1 .. Len(TamSticks) + 1] ==
  IF s = 1 THEN 0 ELSE Base[s - 1] + TamSticks[s - 1]

Total == Base[Len(TamSticks) + 1]

\* actualizar_memory_sticks: the sticks the Kernel Memory knows, each with its
\* base, but those that do not take the connection.
ActualizarMemorySticks(n, escuchan) ==
  {[stick |-> s, base |-> Base[s]] : s \in (1 .. n) \cap escuchan}

\* buscar_stick_por_direccion.
BuscarStick(lista, d) ==
  {e \in lista : e.base <= d /\ d < e.base + TamSticks[e.stick]}

\* leer_memoria and escribir_memoria go from stick to stick; when the address is
\* in none that is known the list is asked for again (buscar_o_refrescar_stick),
\* as it is when the list is empty.  The list that byte i is looked for in is the
\* one the CPU has, or, once a byte was not found, actual: what the Kernel Memory
\* answers.
ListaDeByte(lista, d, i, actual) ==
  IF \E j \in 1 .. i : BuscarStick(lista, (d + j - 1) % Palabra) = {} THEN actual ELSE lista

\* Bytes of the sticks behind the tam bytes from d on, one set for each: empty
\* when no stick that can be reached has it.
Alcanza(lista, d, tam, actual) ==
  LET en(i) == (d + i - 1) % Palabra
  IN  [i \in 1 .. tam |->
         {Base[e.stick] + (en(i) - e.base) :
            e \in BuscarStick(ListaDeByte(lista, d, i, actual), en(i))}]

\* When the list is asked for again the bases go on from where it ended.
MutUltimaLista(lista, d, tam, actual) ==
  LET nueva == ListaDeByte(lista, d, tam, actual)
  IN  IF nueva = lista THEN nueva
      ELSE {[e EXCEPT !.base = @ + Base[Cardinality(lista) + 1]] : e \in nueva}

\* The list the CPU is left with: the last one asked for, if any was.
UltimaLista(lista, d, tam, actual) == ListaDeByte(lista, d, tam, actual)

AccesoPosible(lugares) == \A i \in DOMAIN lugares : lugares[i] # {}

UnicoDe(S) == CHOOSE x \in S : TRUE

LeerMemoria(ram, lugares) == [i \in DOMAIN lugares |-> ram[UnicoDe(lugares[i])]]

EscribirMemoria(ram, lugares, datos) ==
  [g \in DOMAIN ram |->
     IF \E i \in DOMAIN lugares : g \in lugares[i]
     THEN datos[CHOOSE i \in DOMAIN lugares : g \in lugares[i]]
     ELSE ram[g]]
=============================================================================
