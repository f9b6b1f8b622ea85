------------------------------ MODULE Maquina ------------------------------
(***************************************************************************)
(* What the system promises to a program: that it runs as if it were alone *)
(* on a CPU of its own, with its registers, with segments that are its     *)
(* own, and with its requests served one after the other.  Nothing here    *)
(* knows of quanta, of other CPUs, of physical addresses, of compaction or *)
(* of the SWAP.  Module Ejecucion implements it.                           *)
(*                                                                         *)
(* A memory access may fail, and a request for memory be refused: the      *)
(* program ends.  Once memory of a program has been used or taken by       *)
(* mistake, which ajena tells, nothing is promised any more to anybody.    *)
(***************************************************************************)
EXTENDS Registros, SequencesExt

CONSTANTS
  Procesos,
  Programas,         \* what a process may be made of
  TamMaxSegmento

VARIABLES proceso, ajena

Nada == [op |-> "NADA"]

\* A segment is its id and its bytes.
Inicio(programa) ==
  [programa |-> programa, registros |-> EnCero, segmentos |-> <<>>, pedido |-> Nada,
   pantalla |-> <<>>, vivo |-> TRUE]

Fin(s) == [Inicio(<<>>) EXCEPT !.vivo = FALSE, !.pantalla = s.pantalla]

-----------------------------------------------------------------------------
(* Memory.                                                                  *)

\* The segment of an address, when the access is within it.
Segmento(s, dl, tam) ==
  {i \in DOMAIN s.segmentos :
     /\ s.segmentos[i].id = dl \div TamMaxSegmento
     /\ \A j \in 1 .. i - 1 : s.segmentos[j].id # s.segmentos[i].id
     /\ (dl % TamMaxSegmento) + tam <= Len(s.segmentos[i].bytes)}

Lee(s, i, dl, tam) ==
  [k \in 1 .. tam |-> s.segmentos[i].bytes[(dl % TamMaxSegmento) + k]]

Escribe(s, i, dl, datos) ==
  [s EXCEPT !.segmentos[i].bytes =
     [k \in DOMAIN @ |->
        LET d == k - (dl % TamMaxSegmento)
        IN  IF d \in DOMAIN datos THEN datos[d] ELSE @[k]]]

-----------------------------------------------------------------------------
(* Instructions: each is the set of the states it may leave the process in. *)

Sigue(s) == [s EXCEPT !.registros = Avanzar(@)]

MovIn(s, i) ==
  LET dl == s.registros["SI"]
      tam == TamanioRegistro(i.r)
  IN  {[s EXCEPT !.registros = Avanzar(Setear(@, i.r, DeBytes(Lee(s, g, dl, tam))))] :
         g \in Segmento(s, dl, tam)}

MovOut(s, i) ==
  LET dl == s.registros["DI"]
      tam == TamanioRegistro(i.r)
  IN  {Sigue(Escribe(s, g, dl, EnBytes(s.registros[i.r], tam))) :
         g \in Segmento(s, dl, tam)}

CopyMem(s, i) ==
  LET tam == s.registros[i.r]
      si == s.registros["SI"]
      di == s.registros["DI"]
  IN  IF tam = 0 THEN {Sigue(s)}
      ELSE {Sigue(Escribe(s, h, di, Lee(s, g, si, tam))) :
              g \in Segmento(s, si, tam), h \in Segmento(s, di, tam)}

\* The request is made; what it does comes later (Servido).
Pide(s, x) == {[Sigue(s) EXCEPT !.pedido = x]}

\* STDIN and STDOUT of an address of the process; of nothing, they do nothing.
PideDatos(s, i) ==
  LET dl == s.registros[i.r]
      tam == s.registros[i.s]
  IN  IF tam = 0 THEN {Sigue(s)}
      ELSE UNION {Pide(s, [op |-> i.op, dl |-> dl, tam |-> tam]) :
                    g \in Segmento(s, dl, tam)}

Instruccion(s, i) ==
  CASE i.op \in Comunes -> {[s EXCEPT !.registros = Comun(@, i)]}
    [] i.op = "MOV_IN"    -> MovIn(s, i)
    [] i.op = "MOV_OUT"   -> MovOut(s, i)
    [] i.op = "COPY_MEM"  -> CopyMem(s, i)
    [] i.op \in {"STDIN", "STDOUT"} -> PideDatos(s, i)
    [] i.op = "SLEEP"     -> Pide(s, [op |-> "SLEEP"])
    [] i.op = "MEM_ALLOC" -> Pide(s, [op |-> "MEM_ALLOC", id |-> i.id, tam |-> i.tam])
    [] i.op = "MEM_FREE"  -> Pide(s, [op |-> "MEM_FREE", id |-> i.id])
    [] i.op = "EXIT"      -> {}

\* An instruction that has nowhere to go ends the process: EXIT, a segmentation
\* fault, the end of the program.
Ejecuta(s) ==
  LET pc == s.registros["PC"]
      hecho == IF pc < Len(s.programa) THEN Instruccion(s, s.programa[pc + 1]) ELSE {}
  IN  IF hecho = {} THEN {Fin(s)} ELSE hecho

\* What can go wrong with the memory and is not of the program's making.
PuedeFallar(s) ==
  \/ s.pedido.op = "MEM_ALLOC"
  \/ /\ s.pedido = Nada
     /\ s.registros["PC"] < Len(s.programa)
     /\ s.programa[s.registros["PC"] + 1].op \in {"MOV_IN", "MOV_OUT", "COPY_MEM"}

-----------------------------------------------------------------------------
(* Requests.                                                                *)

Hecho(s) == [s EXCEPT !.pedido = Nada]

\* The bytes of a new segment are whatever was there.
Creado(s) ==
  {[Hecho(s) EXCEPT !.segmentos = Append(@, [id |-> s.pedido.id, bytes |-> b])] :
     b \in [1 .. s.pedido.tam -> Bytes]}

Eliminado(s) ==
  LET g == {i \in DOMAIN s.segmentos :
              /\ s.segmentos[i].id = s.pedido.id
              /\ \A j \in 1 .. i - 1 : s.segmentos[j].id # s.pedido.id}
  IN  IF g = {} THEN {Fin(s)}
      ELSE {[Hecho(s) EXCEPT !.segmentos = RemoveAt(@, i)] : i \in g}

\* Any input may come.
Leido(s) ==
  {Hecho(Escribe(s, g, s.pedido.dl, b)) :
     g \in Segmento(s, s.pedido.dl, s.pedido.tam), b \in [1 .. s.pedido.tam -> Bytes]}

Mostrado(s) ==
  {[Hecho(s) EXCEPT !.pantalla = Lee(s, g, s.pedido.dl, s.pedido.tam)] :
     g \in Segmento(s, s.pedido.dl, s.pedido.tam)}

Servido(s) ==
  CASE s.pedido.op = "SLEEP"     -> {Hecho(s)}
    [] s.pedido.op = "MEM_ALLOC" -> Creado(s)
    [] s.pedido.op = "MEM_FREE"  -> Eliminado(s)
    [] s.pedido.op = "STDIN"     -> Leido(s)
    [] s.pedido.op = "STDOUT"    -> Mostrado(s)

-----------------------------------------------------------------------------
Siguientes(s) ==
  (IF s.pedido = Nada THEN Ejecuta(s) ELSE Servido(s))
    \cup (IF PuedeFallar(s) THEN {Fin(s)} ELSE {})

Init ==
  /\ \E q \in [Procesos -> Programas] : proceso = [p \in Procesos |-> Inicio(q[p])]
  /\ ajena = FALSE

Avanza(p) ==
  /\ proceso[p].vivo
  /\ \E s \in Siguientes(proceso[p]) : proceso' = [proceso EXCEPT ![p] = s]
  /\ UNCHANGED ajena

\* Once TRUE it is TRUE for good.
SinPromesa == ajena'

Next == (~ ajena /\ \E p \in Procesos : Avanza(p)) \/ SinPromesa

Spec == Init /\ [][Next]_<<proceso, ajena>>
=============================================================================
