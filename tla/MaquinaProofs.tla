---------------------------- MODULE MaquinaProofs ----------------------------
(***************************************************************************)
(* The execution of a program by CPUs, Kernel Memory, sticks, SWAP and     *)
(* devices implements the machine of module Maquina, on which each program *)
(* runs as if it were alone, for any number of CPUs, processes, sticks and *)
(* devices, any widths and any programs.                                   *)
(*                                                                         *)
(* What a program sees of its memory is Vista: its segments, each with its *)
(* bytes, wherever these are, in the sticks or in the SWAP.  Each step of  *)
(* Ejecucion is shown to be one instruction of one program (Pasa) or of    *)
(* none (NadiePasa), and then every Vista but that one stays.              *)
(*                                                                         *)
(* An access that is made changes no other segment: a size that makes the  *)
(* translation wrap reaches behind the memory (DesbordeImposible), so the  *)
(* bytes are those of one segment of the table, and segments are apart     *)
(* (Memoria, in EjecucionProofs).  A suspension, a de-suspension and a     *)
(* compaction change where every byte of a segment is and not what it      *)
(* holds.  The addresses that may be of before are those of the processes  *)
(* in movidos: what waits for a device keeps the right one otherwise       *)
(* (KsEnSuLugar), and a CPU has the right table (TablaFiel).  The steps    *)
(* that use an old one set memoria_ajena, from where on nothing is         *)
(* promised.                                                               *)
(***************************************************************************)
EXTENDS EjecucionProofs

-----------------------------------------------------------------------------
(* The machine of one program (module Maquina).                             *)

\* The registers of the machine are those of a CPU.
LEMMA MismosRegistros ==
  /\ M!Nada = Nada /\ M!EnCero = EnCero /\ M!Comunes = Comunes /\ M!Bytes = Bytes
  /\ \A r : M!TamanioRegistro(r) = TamanioRegistro(r)
  /\ \A regs, r, v : M!Setear(regs, r, v) = Setear(regs, r, v)
  /\ \A regs : M!Avanzar(regs) = Avanzar(regs)
  /\ \A regs, i : M!Comun(regs, i) = Comun(regs, i)
  /\ \A v, n : M!EnBytes(v, n) = EnBytes(v, n)
  /\ \A b : M!DeBytes(b) = DeBytes(b)
<1>1. M!Nada = Nada /\ M!EnCero = EnCero /\ M!Comunes = Comunes /\ M!Bytes = Bytes
  BY DEF M!Nada, Nada, M!EnCero, EnCero, M!Comunes, Comunes, M!Bytes, Bytes, M!Nombre, Nombre,
         M!DeUnByte, DeUnByte, M!DeUnaPalabra, DeUnaPalabra
<1>2. \A r : M!TamanioRegistro(r) = TamanioRegistro(r)
  BY DEF M!TamanioRegistro, TamanioRegistro, M!DeUnByte, DeUnByte
<1>3. \A regs, r, v : M!Setear(regs, r, v) = Setear(regs, r, v)
  BY DEF M!Setear, Setear, M!DeUnByte, DeUnByte, M!Palabra, Palabra
<1>4. \A regs : M!Avanzar(regs) = Avanzar(regs)
  BY <1>3 DEF M!Avanzar, Avanzar
<1>5. \A regs, i : M!Comun(regs, i) = Comun(regs, i)
  BY <1>3, <1>4 DEF M!Comun, Comun
<1>6. \A v, n : M!EnBytes(v, n) = EnBytes(v, n)
  BY DEF M!EnBytes, EnBytes
<1>7. \A b : M!DeBytes(b) = DeBytes(b)
  BY Zenon DEF M!DeBytes, DeBytes
<1>8. QED
  BY <1>1, <1>2, <1>3, <1>4, <1>5, <1>6, <1>7

\* A state of the machine, from what it has.
Maq(programa, registros, segmentos, pedido_, pantalla_, vivo) ==
  [programa |-> programa, registros |-> registros, segmentos |-> segmentos,
   pedido |-> pedido_, pantalla |-> pantalla_, vivo |-> vivo]

\* One field changes.
LEMMA MaqCambia ==
  \A a, b, c, d, e, f, g :
    /\ [Maq(a, b, c, d, e, f) EXCEPT !.vivo = g] = Maq(a, b, c, d, e, g)
    /\ [Maq(a, b, c, d, e, f) EXCEPT !.pantalla = g] = Maq(a, b, c, d, g, f)
    /\ [Maq(a, b, c, d, e, f) EXCEPT !.pedido = g] = Maq(a, b, c, g, e, f)
    /\ [Maq(a, b, c, d, e, f) EXCEPT !.segmentos = g] = Maq(a, b, g, d, e, f)
    /\ [Maq(a, b, c, d, e, f) EXCEPT !.registros = g] = Maq(a, g, c, d, e, f)
  BY DEF Maq

\* The program has ended.
Acabado(pantalla_) == Maq(<<>>, EnCero, <<>>, Nada, pantalla_, FALSE)

\* The segment of a machine in which an access is.
Donde(segs, dl, tam) ==
  {i \in DOMAIN segs :
     /\ segs[i].id = dl \div TamMaxSegmento
     /\ \A j \in 1 .. i - 1 : segs[j].id # segs[i].id
     /\ (dl % TamMaxSegmento) + tam <= Len(segs[i].bytes)}

\* What is written in one of them.
Escrito(segs, i, dl, datos) ==
  [segs EXCEPT ![i].bytes =
     [k \in DOMAIN @ |->
        LET d == k - (dl % TamMaxSegmento)
        IN  IF d \in DOMAIN datos THEN datos[d] ELSE @[k]]]

Leido(segs, i, dl, tam) == [k \in 1 .. tam |-> segs[i].bytes[(dl % TamMaxSegmento) + k]]

\* The operators of Maquina on such a state.
LEMMA MaquinaDe ==
  ASSUME NEW pr, NEW re, NEW se, NEW pe, NEW pa, NEW vi
  PROVE  LET s == Maq(pr, re, se, pe, pa, vi) IN
         /\ s.programa = pr /\ s.registros = re /\ s.segmentos = se /\ s.pedido = pe
         /\ M!Fin(s) = Acabado(pa)
         /\ \A dl, n : M!Segmento(s, dl, n) = Donde(se, dl, n)
         /\ \A i, dl, n : M!Lee(s, i, dl, n) = Leido(se, i, dl, n)
         /\ \A i, dl, datos : M!Escribe(s, i, dl, datos)
                                = Maq(pr, re, Escrito(se, i, dl, datos), pe, pa, vi)
         /\ M!Sigue(s) = Maq(pr, Avanzar(re), se, pe, pa, vi)
         /\ \A x : M!Pide(s, x) = {Maq(pr, Avanzar(re), se, x, pa, vi)}
         /\ M!Hecho(s) = Maq(pr, re, se, Nada, pa, vi)
<1> DEFINE s == Maq(pr, re, se, pe, pa, vi)
<1>1. s = [programa |-> pr, registros |-> re, segmentos |-> se, pedido |-> pe,
           pantalla |-> pa, vivo |-> vi]
  BY DEF Maq
<1>2. s.programa = pr /\ s.registros = re /\ s.segmentos = se /\ s.pedido = pe /\ s.pantalla = pa
  BY <1>1
<1>3. M!Fin(s) = Acabado(pa)
  <2>1. PICK v : v = <<>>
    OBVIOUS
  <2>2. PICK si : si = TRUE
    OBVIOUS
  <2>3. PICK no : no = FALSE
    OBVIOUS
  <2>4. PICK z, n : z = EnCero /\ n = Nada
    OBVIOUS
  <2>5. M!Inicio(v) = Maq(v, z, v, n, v, si)
    BY <2>1, <2>2, <2>4, MismosRegistros, Zenon DEF M!Inicio, Maq
  <2>6. M!Fin(s) = [M!Inicio(v) EXCEPT !.vivo = no, !.pantalla = pa]
    BY <1>2, <2>1, <2>3, Zenon DEF M!Fin
  <2>7. [Maq(v, z, v, n, v, si) EXCEPT !.vivo = no] = Maq(v, z, v, n, v, no)
    BY MaqCambia
  <2>8. [Maq(v, z, v, n, v, no) EXCEPT !.pantalla = pa] = Maq(v, z, v, n, pa, no)
    BY MaqCambia
  <2>9. M!Fin(s) = Maq(v, z, v, n, pa, no)
    BY <2>5, <2>6, <2>7, <2>8
  <2>10. QED
    BY <2>1, <2>3, <2>4, <2>9, Zenon DEF Acabado
<1>4. \A dl, n : M!Segmento(s, dl, n) = Donde(se, dl, n)
  BY <1>2 DEF M!Segmento, Donde
<1>5. \A i, dl, n : M!Lee(s, i, dl, n) = Leido(se, i, dl, n)
  BY <1>2 DEF M!Lee, Leido
<1>6. \A i, dl, datos : M!Escribe(s, i, dl, datos)
                          = Maq(pr, re, Escrito(se, i, dl, datos), pe, pa, vi)
  <2> SUFFICES ASSUME NEW i, NEW dl, NEW datos
               PROVE  M!Escribe(s, i, dl, datos)
                        = Maq(pr, re, Escrito(se, i, dl, datos), pe, pa, vi)
    OBVIOUS
  <2>1. M!Escribe(s, i, dl, datos) = [s EXCEPT !.segmentos = Escrito(se, i, dl, datos)]
    BY <1>2, Zenon DEF M!Escribe, Escrito
  <2>2. QED
    BY <1>1, <2>1 DEF Maq
<1>7. M!Sigue(s) = Maq(pr, Avanzar(re), se, pe, pa, vi)
  BY <1>1, MismosRegistros DEF M!Sigue, Maq
<1>8. \A x : M!Pide(s, x) = {Maq(pr, Avanzar(re), se, x, pa, vi)}
  BY <1>7 DEF M!Pide, Maq
<1>9. M!Hecho(s) = Maq(pr, re, se, Nada, pa, vi)
  BY <1>1, MismosRegistros DEF M!Hecho, Maq
<1>10. QED
  BY <1>2, <1>3, <1>4, <1>5, <1>6, <1>7, <1>8, <1>9

\* A machine that waits for nothing executes the instruction at its PC; what that may
\* be.
LEMMA PasoInstruccion ==
  ASSUME NEW pr, NEW re, NEW se, NEW pa, NEW vi, re["PC"] < Len(pr),
         NEW t \in M!Instruccion(Maq(pr, re, se, Nada, pa, vi), pr[re["PC"] + 1])
  PROVE  t \in M!Siguientes(Maq(pr, re, se, Nada, pa, vi))
<1> DEFINE s == Maq(pr, re, se, Nada, pa, vi)
<1>1. s.programa = pr /\ s.registros = re /\ s.pedido = M!Nada
  BY MaquinaDe, MismosRegistros
<1> HIDE DEF s
<1>2. M!Ejecuta(s) = M!Instruccion(s, pr[re["PC"] + 1])
  BY <1>1 DEF M!Ejecuta, s
<1>3. QED
  BY <1>1, <1>2 DEF M!Siguientes, s

\* It ends when there is no instruction, when the instruction has nowhere to go, and
\* whenever it uses the memory.
LEMMA PasoFin ==
  ASSUME NEW pr, NEW re, NEW se, NEW pa, NEW vi,
         \/ ~ (re["PC"] < Len(pr))
         \/ M!Instruccion(Maq(pr, re, se, Nada, pa, vi), pr[re["PC"] + 1]) = {}
         \/ pr[re["PC"] + 1].op \in {"MOV_IN", "MOV_OUT", "COPY_MEM"}
  PROVE  Acabado(pa) \in M!Siguientes(Maq(pr, re, se, Nada, pa, vi))
<1> DEFINE s == Maq(pr, re, se, Nada, pa, vi)
<1>1. s.programa = pr /\ s.registros = re /\ s.pedido = M!Nada /\ M!Fin(s) = Acabado(pa)
  BY MaquinaDe, MismosRegistros
<1> HIDE DEF s
<1>2. CASE ~ (re["PC"] < Len(pr))
  <2>1. M!Ejecuta(s) = {M!Fin(s)}
    BY <1>1, <1>2 DEF M!Ejecuta
  <2>2. QED
    BY <1>1, <2>1 DEF M!Siguientes, s
<1>3. CASE re["PC"] < Len(pr) /\ M!Instruccion(s, pr[re["PC"] + 1]) = {}
  <2>1. M!Ejecuta(s) = {M!Fin(s)}
    BY <1>1, <1>3 DEF M!Ejecuta
  <2>2. QED
    BY <1>1, <2>1 DEF M!Siguientes, s
<1>4. CASE re["PC"] < Len(pr) /\ pr[re["PC"] + 1].op \in {"MOV_IN", "MOV_OUT", "COPY_MEM"}
  <2>1. M!PuedeFallar(s)
    BY <1>1, <1>4 DEF M!PuedeFallar
  <2>2. QED
    BY <1>1, <2>1 DEF M!Siguientes, s
<1>5. QED
  BY <1>2, <1>3, <1>4 DEF s

-----------------------------------------------------------------------------
(* What a process is for its program, from the variables.                   *)

Corriendo == {"ejecuta", "chequea"}

\* Its registers, and its segments with their bytes.
RegDe(cpus, ctx, p) ==
  LET S == {c \in Cpus : cpus[c].pid = p /\ cpus[c].estado \in Corriendo}
  IN  IF S # {} THEN cpus[UnicoDe(S)].registros ELSE ctx[p].registros

SegDe(bajados, tabla, m) ==
  bajados \o [i \in DOMAIN tabla |->
                [id |-> tabla[i].id,
                 bytes |-> [k \in 1 .. tabla[i].limite |-> m[tabla[i].base + k - 1]]]]

\* Vista, from the variables before and after a step.
LEMMA VistaDe ==
  ASSUME NEW p \in Pids
  PROVE  /\ Vista(p) = Maq(contextos[p].instrucciones, RegDe(cpu, contextos, p),
                           SegDe(swap[p], contextos[p].tabla, ram), SinDireccion(pedido[p]),
                           pantalla[p], estado[p] # "EXIT")
         /\ Vista(p)' = Maq(contextos'[p].instrucciones, RegDe(cpu', contextos', p),
                            SegDe(swap'[p], contextos'[p].tabla, ram'), SinDireccion(pedido'[p]),
                            pantalla'[p], estado'[p] # "EXIT")
<1>1. Vista(p) = Maq(contextos[p].instrucciones, RegDe(cpu, contextos, p),
                           SegDe(swap[p], contextos[p].tabla, ram), SinDireccion(pedido[p]),
                           pantalla[p], estado[p] # "EXIT")
  BY DEF Vista, Maq, RegDe, SegDe, Corre, Contenido, Corriendo
<1>2. Vista(p)' = Maq(contextos'[p].instrucciones, RegDe(cpu', contextos', p),
                            SegDe(swap'[p], contextos'[p].tabla, ram'), SinDireccion(pedido'[p]),
                            pantalla'[p], estado'[p] # "EXIT")
  BY DEF Vista, Maq, RegDe, SegDe, Corre, Contenido, Corriendo, SinDireccion
<1>3. QED
  BY <1>1, <1>2

\* The CPU that executes it has its registers; without one, they are in the context.
LEMMA RegDeUna ==
  ASSUME NEW K, NEW C, NEW p, NEW c \in Cpus, K[c].pid = p, K[c].estado \in Corriendo,
         \A d \in Cpus \ {c} : K[d].pid # p
  PROVE  RegDe(K, C, p) = K[c].registros
<1> DEFINE S == {d \in Cpus : K[d].pid = p /\ K[d].estado \in Corriendo}
<1>1. S = {c}
  OBVIOUS
<1>2. S # {} /\ UnicoDe(S) = c
  BY <1>1 DEF UnicoDe
<1> HIDE DEF S
<1>3. RegDe(K, C, p) = IF S # {} THEN K[UnicoDe(S)].registros ELSE C[p].registros
  BY DEF RegDe, S
<1>4. QED
  BY <1>2, <1>3

\* No CPU executes it: they are in the context.
LEMMA RegDeNinguna ==
  ASSUME NEW K, NEW C, NEW p,
         \A d \in Cpus : K[d].pid = p => K[d].estado \notin Corriendo
  PROVE  RegDe(K, C, p) = C[p].registros
  BY DEF RegDe

\* What other CPUs do is nothing to them.
LEMMA RegDeIgual ==
  ASSUME NEW K, NEW L, NEW C, NEW D, NEW p, D[p].registros = C[p].registros,
         \A d \in Cpus :
           /\ (K[d].pid = p /\ K[d].estado \in Corriendo)
                <=> (L[d].pid = p /\ L[d].estado \in Corriendo)
           /\ K[d].pid = p /\ K[d].estado \in Corriendo => L[d].registros = K[d].registros
  PROVE  RegDe(L, D, p) = RegDe(K, C, p)
<1> DEFINE S == {d \in Cpus : K[d].pid = p /\ K[d].estado \in Corriendo}
           T == {d \in Cpus : L[d].pid = p /\ L[d].estado \in Corriendo}
<1>1. S = T
  OBVIOUS
<1>2. S # {} => UnicoDe(S) \in S
  BY DEF UnicoDe
<1>3. \A d \in S : L[d].registros = K[d].registros
  OBVIOUS
<1>4. /\ RegDe(K, C, p) = IF S # {} THEN K[UnicoDe(S)].registros ELSE C[p].registros
      /\ RegDe(L, D, p) = IF T # {} THEN L[UnicoDe(T)].registros ELSE D[p].registros
  BY DEF RegDe
<1> HIDE DEF S, T
<1>5. QED
  BY <1>1, <1>2, <1>3, <1>4

\* The same bytes, the same segments.
LEMMA SegDeIgual ==
  ASSUME NEW w, NEW t, NEW m, NEW n,
         \A i \in DOMAIN t : \A k \in 1 .. t[i].limite :
           n[t[i].base + k - 1] = m[t[i].base + k - 1]
  PROVE  SegDe(w, t, n) = SegDe(w, t, m)
<1>1. \A i \in DOMAIN t :
        [k \in 1 .. t[i].limite |-> n[t[i].base + k - 1]]
          = [k \in 1 .. t[i].limite |-> m[t[i].base + k - 1]]
  OBVIOUS
<1>2. [i \in DOMAIN t |-> [id |-> t[i].id,
                           bytes |-> [k \in 1 .. t[i].limite |-> n[t[i].base + k - 1]]]]
        = [i \in DOMAIN t |-> [id |-> t[i].id,
                           bytes |-> [k \in 1 .. t[i].limite |-> m[t[i].base + k - 1]]]]
  BY <1>1
<1>3. QED
  BY <1>2 DEF SegDe

\* Nothing before a list, and nothing behind it.
LEMMA NadaAntes ==
  ASSUME NEW n \in Nat, NEW S, NEW f \in [1 .. n -> S]
  PROVE  <<>> \o f = f /\ f \o <<>> = f
<1>1. f \in Seq(S) /\ Len(f) = n /\ f = [i \in 1 .. n |-> f[i]]
  OBVIOUS
<1>2. QED
  BY <1>1

\* The segments of a process that has nothing in the SWAP, and of one that has nothing
\* in the memory.
LEMMA SegDeEntera ==
  ASSUME MemInv, NEW p \in Pids
  PROVE  /\ \A m : SegDe(<<>>, contextos[p].tabla, m) =
              [i \in DOMAIN contextos[p].tabla |->
                 [id |-> contextos[p].tabla[i].id,
                  bytes |-> [k \in 1 .. contextos[p].tabla[i].limite |->
                               m[contextos[p].tabla[i].base + k - 1]]]]
         /\ SegDe(<<>>, contextos[p].tabla, ram) = Bajado(p)
         /\ \A w \in Seq(Guardado) : \A m : SegDe(w, <<>>, m) = w
<1>1. PICK n \in Nat : DOMAIN contextos[p].tabla = 1 .. n
  BY DEF MemInv, Memoria, Tipos, ContextoReal
<1>2. ASSUME NEW m
      PROVE  SegDe(<<>>, contextos[p].tabla, m) =
              [i \in DOMAIN contextos[p].tabla |->
                 [id |-> contextos[p].tabla[i].id,
                  bytes |-> [k \in 1 .. contextos[p].tabla[i].limite |->
                               m[contextos[p].tabla[i].base + k - 1]]]]
  <2> DEFINE e(i) == [id |-> contextos[p].tabla[i].id,
                      bytes |-> [k \in 1 .. contextos[p].tabla[i].limite |->
                                   m[contextos[p].tabla[i].base + k - 1]]]
             S == {e(i) : i \in 1 .. n}
  <2>1. \A i \in 1 .. n : e(i) \in S
    OBVIOUS
  <2>2. SegDe(<<>>, contextos[p].tabla, m) = <<>> \o [i \in 1 .. n |-> e(i)]
    BY <1>1 DEF SegDe
  <2> HIDE DEF S
  <2>3. PICK f : f = [i \in 1 .. n |-> e(i)]
    OBVIOUS
  <2>4. f \in [1 .. n -> S]
    BY <2>1, <2>3
  <2>5. <<>> \o f = f
    BY <2>4, NadaAntes
  <2>6. QED
    BY <1>1, <2>2, <2>3, <2>5
<1>3. SegDe(<<>>, contextos[p].tabla, ram) = Bajado(p)
  BY <1>2 DEF Bajado, Contenido
<1>4. ASSUME NEW w \in Seq(Guardado), NEW m
      PROVE  SegDe(w, <<>>, m) = w
  <2> DEFINE f(z) == [i \in DOMAIN z |->
                        [id |-> z[i].id,
                         bytes |-> [k \in 1 .. z[i].limite |-> m[z[i].base + k - 1]]]]
  <2>1. \A z : z = <<>> => f(z) = <<>>
    OBVIOUS
  <2>2. \A z : SegDe(w, z, m) = w \o f(z)
    BY DEF SegDe
  <2> HIDE DEF f
  <2>3. SegDe(w, <<>>, m) = w \o <<>>
    BY <2>1, <2>2
  <2>4. QED
    BY <2>3
<1>5. QED
  BY <1>2, <1>3, <1>4

-----------------------------------------------------------------------------
(* Accesses, as a program sees them.                                        *)

\* The segment of an access, in the memory and in the machine.
LEMMA CabeReal ==
  ASSUME MemInv, NEW p \in Pids, NEW dl \in Nat, NEW tam \in Nat
  PROVE  LET t == contextos[p].tabla
             off == dl % TamMaxSegmento
         IN
         /\ Donde(Bajado(p), dl, tam) = Caben(t, dl, tam)
         /\ off \in Nat
         /\ \A g \in Caben(t, dl, tam) :
              /\ g \in DOMAIN t /\ t[g].base \in Nat /\ t[g].limite \in Nat
              /\ off + tam <= t[g].limite
              /\ t[g].base + t[g].limite <= Total /\ Total \in Nat
<1> DEFINE t == contextos[p].tabla
           off == dl % TamMaxSegmento
<1>1. off \in Nat
  BY Desplazamiento
<1>2. DOMAIN Bajado(p) = DOMAIN t
  BY DEF Bajado
<1>3. \A i \in DOMAIN t : /\ Bajado(p)[i].id = t[i].id
                          /\ Len(Bajado(p)[i].bytes) = t[i].limite
  <2> SUFFICES ASSUME NEW i \in DOMAIN t
               PROVE  Bajado(p)[i].id = t[i].id /\ Len(Bajado(p)[i].bytes) = t[i].limite
    OBVIOUS
  <2>1. Bajado(p)[i] = [id |-> t[i].id, bytes |-> Contenido(t[i])]
    BY DEF Bajado
  <2>2. Len(Contenido(t[i])) = t[i].limite
    BY ContenidoReal
  <2>3. QED
    BY <2>1, <2>2
<1>4. \A i \in DOMAIN t : i \in Nat /\ \A j \in 1 .. i - 1 : j \in DOMAIN t
  <2>1. t \in Seq(SegmentoReal)
    BY DEF MemInv, Memoria, Tipos, ContextoReal
  <2>2. DOMAIN t = 1 .. Len(t) /\ Len(t) \in Nat
    BY <2>1
  <2>3. QED
    BY <2>2
<1>5. Donde(Bajado(p), dl, tam) = Caben(t, dl, tam)
  <2>1. \A i \in DOMAIN t : t[i].id = dl \div TamMaxSegmento =>
          ((\A j \in 1 .. i - 1 : Bajado(p)[j].id # Bajado(p)[i].id)
             <=> (\A j \in 1 .. i - 1 : t[j].id # dl \div TamMaxSegmento))
    BY <1>3, <1>4
  <2> HIDE DEF t, off
  <2>2. Donde(Bajado(p), dl, tam) =
          {i \in DOMAIN t : /\ t[i].id = dl \div TamMaxSegmento
                            /\ \A j \in 1 .. i - 1 : Bajado(p)[j].id # Bajado(p)[i].id
                            /\ off + tam <= t[i].limite}
    BY <1>2, <1>3 DEF Donde, off
  <2>3. Caben(t, dl, tam) =
          {i \in DOMAIN t : /\ t[i].id = dl \div TamMaxSegmento
                            /\ \A j \in 1 .. i - 1 : t[j].id # dl \div TamMaxSegmento
                            /\ off + tam <= t[i].limite}
    BY DEF Caben, BuscarSegmento, off
  <2>4. QED
    BY <2>1, <2>2, <2>3
<1>6. ASSUME NEW g \in Caben(t, dl, tam)
      PROVE  /\ g \in DOMAIN t /\ t[g].base \in Nat /\ t[g].limite \in Nat
             /\ off + tam <= t[g].limite
             /\ t[g].base + t[g].limite <= Total /\ Total \in Nat
  <2>1. g \in DOMAIN t /\ off + tam <= t[g].limite
    BY DEF Caben, BuscarSegmento
  <2>2. QED
    BY <2>1, ContenidoReal
<1>7. QED
  BY <1>1, <1>5, <1>6

\* A byte of a segment, one of an access to it, and one that is not in it.
LEMMA ByteDelSegmento ==
  ASSUME NEW b \in Nat, NEW n \in Nat, NEW T \in Nat, b + n <= T, NEW k \in 1 .. n
  PROVE  b + k - 1 \in 0 .. T - 1 /\ b + k - 1 \in b .. b + n - 1
  OBVIOUS

\* The addresses of an access and the places in the segment.
LEMMA ByteDelAcceso ==
  ASSUME NEW b \in Nat, NEW n \in Nat, NEW off \in Nat, NEW tam \in Nat, off + tam <= n,
         NEW k \in 1 .. n
  PROVE  /\ (b + k - 1) - (b + off) + 1 = k - off
         /\ (b + off <= b + k - 1 /\ b + k - 1 < b + off + tam) <=> k - off \in 1 .. tam
  OBVIOUS

\* An access within a segment touches nothing else.
LEMMA ByteAjeno ==
  ASSUME NEW b \in Nat, NEW n \in Nat, NEW off \in Nat, NEW tam \in Nat, off + tam <= n,
         NEW T \in Nat, NEW a \in 0 .. T - 1, a \notin b .. b + n - 1
  PROVE  ~ (b + off <= a /\ a < b + off + tam)
  OBVIOUS

\* The physical address of an access that begins in a segment of a process.
Fisica(p, g, dl) == contextos[p].tabla[g].base + (dl % TamMaxSegmento)

\* What a program reads is what is in the memory.
LEMMA LeidoEs ==
  ASSUME MemInv, NEW p \in Pids, NEW dl \in Nat, NEW tam \in Nat,
         NEW g \in Caben(contextos[p].tabla, dl, tam)
  PROVE  Leido(Bajado(p), g, dl, tam)
           = [k \in 1 .. tam |-> ram[Fisica(p, g, dl) + k - 1]]
<1> DEFINE t == contextos[p].tabla
<1>a. /\ dl % TamMaxSegmento \in Nat
      /\ g \in DOMAIN t /\ t[g].base \in Nat /\ t[g].limite \in Nat
      /\ (dl % TamMaxSegmento) + tam <= t[g].limite
  BY CabeReal
<1>1. PICK off \in Nat : off = dl % TamMaxSegmento
  BY <1>a
<1>b. PICK b \in Nat : b = t[g].base
  BY <1>a
<1>c. PICK n \in Nat : n = t[g].limite
  BY <1>a
<1>2. b = t[g].base /\ n = t[g].limite /\ g \in DOMAIN t /\ off + tam <= n
  BY <1>a, <1>1, <1>b, <1>c
<1>3. Bajado(p)[g].bytes = [k \in 1 .. n |-> ram[b + k - 1]]
  <2>1. Bajado(p)[g] = [id |-> t[g].id, bytes |-> Contenido(t[g])]
    BY <1>2 DEF Bajado
  <2>2. Contenido(t[g]) = [k \in 1 .. n |-> ram[b + k - 1]]
    BY <1>2 DEF Contenido
  <2>3. QED
    BY <2>1, <2>2
<1>4. \A k \in 1 .. tam : off + k \in 1 .. n /\ b + (off + k) - 1 = b + off + k - 1
  BY <1>1, <1>2
<1>5. \A k \in 1 .. tam : Bajado(p)[g].bytes[off + k] = ram[b + off + k - 1]
  BY <1>3, <1>4
<1> HIDE DEF t
<1>6. Leido(Bajado(p), g, dl, tam) = [k \in 1 .. tam |-> ram[b + off + k - 1]]
  BY <1>1, <1>5 DEF Leido
<1>7. QED
  BY <1>1, <1>2, <1>6 DEF Fisica, t

TantosBytes(tam) == [1 .. tam -> Bytes]

\* The memory after some bytes have been written from an address on.
SeEscribio(m, df, tam, datos) ==
  \A a \in 0 .. Total - 1 :
    m[a] = IF df <= a /\ a < df + tam THEN datos[a - df + 1] ELSE ram[a]

\* What a program writes is in its segment, and no other segment has those bytes.
LEMMA EscritoEs ==
  ASSUME MemInv, NEW p \in Pids, NEW dl \in Nat, NEW tam \in Nat,
         NEW g \in Caben(contextos[p].tabla, dl, tam), NEW datos \in TantosBytes(tam), NEW m,
         SeEscribio(m, Fisica(p, g, dl), tam, datos)
  PROVE  /\ SegDe(<<>>, contextos[p].tabla, m) = Escrito(Bajado(p), g, dl, datos)
         /\ \A q \in Pids \ {p} :
              SegDe(swap[q], contextos[q].tabla, m) = SegDe(swap[q], contextos[q].tabla, ram)
<1> DEFINE t == contextos[p].tabla
<1>d. PICK df : df = t[g].base + (dl % TamMaxSegmento)
  OBVIOUS
<1>e. \A a \in 0 .. Total - 1 :
        m[a] = IF df <= a /\ a < df + tam THEN datos[a - df + 1] ELSE ram[a]
  BY <1>d DEF SeEscribio, Fisica
<1>t. datos \in [1 .. tam -> Bytes]
  BY DEF TantosBytes
<1>a. /\ dl % TamMaxSegmento \in Nat
      /\ g \in DOMAIN t /\ t[g].base \in Nat /\ t[g].limite \in Nat
      /\ (dl % TamMaxSegmento) + tam <= t[g].limite
      /\ t[g].base + t[g].limite <= Total /\ Total \in Nat
  BY CabeReal
<1>1. PICK off \in Nat : off = dl % TamMaxSegmento
  BY <1>a
<1>b. PICK b \in Nat : b = t[g].base
  BY <1>a
<1>c. PICK n \in Nat : n = t[g].limite
  BY <1>a
<1>2. /\ b = t[g].base /\ n = t[g].limite /\ g \in DOMAIN t
      /\ off + tam <= n /\ b + n <= Total /\ Total \in Nat
  BY <1>a, <1>1, <1>b, <1>c
<1>3. df = b + off /\ df \in Nat
  BY <1>1, <1>2, <1>d
<1>L. Lugar(t[g]) = b .. b + n - 1
  BY <1>2 DEF Lugar
\* A byte of another segment is not written.
<1>4. ASSUME NEW q \in Pids, NEW i \in DOMAIN contextos[q].tabla, q # p \/ i # g,
             NEW k \in 1 .. contextos[q].tabla[i].limite
      PROVE  m[contextos[q].tabla[i].base + k - 1] = ram[contextos[q].tabla[i].base + k - 1]
  <2> DEFINE u == contextos[q].tabla[i]
  <2>a. u.base \in Nat /\ u.limite \in Nat /\ u.base + u.limite <= Total
    BY ContenidoReal
  <2>b. PICK c \in Nat : c = u.base
    BY <2>a
  <2>c. PICK h \in Nat : h = u.limite
    BY <2>a
  <2>1. c = u.base /\ h = u.limite /\ c + h <= Total /\ k \in 1 .. h
    BY <2>a, <2>b, <2>c
  <2>2. PICK a : a = c + k - 1
    OBVIOUS
  <2>l. Lugar(u) = c .. c + h - 1
    BY <2>1 DEF Lugar
  <2>3. a \in 0 .. Total - 1 /\ a \in Lugar(u)
    BY <1>2, <2>1, <2>2, <2>l, ByteDelSegmento
  <2>4. a \notin Lugar(t[g])
    BY <1>2, <1>4, <2>3 DEF MemInv, Memoria, Separados
  <2>5. ~ (df <= a /\ a < df + tam)
    BY <1>2, <1>3, <1>L, <2>3, <2>4, ByteAjeno
  <2>6. QED
    BY <1>e, <2>1, <2>2, <2>3, <2>5
<1>5. ASSUME NEW q \in Pids \ {p}
      PROVE  SegDe(swap[q], contextos[q].tabla, m) = SegDe(swap[q], contextos[q].tabla, ram)
  <2>1. \A i \in DOMAIN contextos[q].tabla : \A k \in 1 .. contextos[q].tabla[i].limite :
           m[contextos[q].tabla[i].base + k - 1] = ram[contextos[q].tabla[i].base + k - 1]
    BY <1>4
  <2>2. QED
    BY <2>1, SegDeIgual
<1>6. \A k \in 1 .. n :
        m[b + k - 1] = IF k - off \in 1 .. tam THEN datos[k - off] ELSE ram[b + k - 1]
  <2> SUFFICES ASSUME NEW k \in 1 .. n
               PROVE  m[b + k - 1] = IF k - off \in 1 .. tam THEN datos[k - off] ELSE ram[b + k - 1]
    OBVIOUS
  <2>1. PICK a : a = b + k - 1
    OBVIOUS
  <2>2. a \in 0 .. Total - 1 /\ a - df + 1 = k - off
        /\ (df <= a /\ a < df + tam <=> k - off \in 1 .. tam)
    <3>1. a \in 0 .. Total - 1
      BY <1>2, <2>1, ByteDelSegmento
    <3>2. /\ (b + k - 1) - (b + off) + 1 = k - off
          /\ (b + off <= b + k - 1 /\ b + k - 1 < b + off + tam) <=> k - off \in 1 .. tam
      <4>1. /\ b \in Nat /\ n \in Nat /\ off \in Nat /\ tam \in Nat /\ off + tam <= n
            /\ k \in 1 .. n
        BY <1>2
      <4>2. QED
        BY <4>1, ByteDelAcceso, Zenon
    <3>3. QED
      BY <1>3, <2>1, <3>1, <3>2
  <2>3. QED
    BY <1>e, <2>1, <2>2
<1> DEFINE V == Bajado(p)
           W == [i \in DOMAIN t |-> [id |-> t[i].id,
                   bytes |-> [k \in 1 .. t[i].limite |-> m[t[i].base + k - 1]]]]
<1>7. SegDe(<<>>, t, m) = W
  <2>1. \A u : SegDe(<<>>, t, u) =
          [i \in DOMAIN t |-> [id |-> t[i].id,
             bytes |-> [k \in 1 .. t[i].limite |-> u[t[i].base + k - 1]]]]
    BY SegDeEntera
  <2>2. QED
    BY <2>1
<1>8. \A i \in DOMAIN t : V[i] = [id |-> t[i].id, bytes |-> Contenido(t[i])]
  BY DEF Bajado
<1>9. DOMAIN V = DOMAIN t /\ V = [i \in DOMAIN t |-> V[i]]
  BY DEF Bajado
<1>v. V[g].bytes = [k \in 1 .. n |-> ram[b + k - 1]] /\ V[g].id = t[g].id
  <2>1. V[g] = [id |-> t[g].id, bytes |-> Contenido(t[g])]
    BY <1>2, <1>8
  <2>2. Contenido(t[g]) = [k \in 1 .. n |-> ram[b + k - 1]]
    BY <1>2 DEF Contenido
  <2>3. QED
    BY <2>1, <2>2
<1>w. \A i \in DOMAIN t : i # g => W[i] = V[i]
  <2> SUFFICES ASSUME NEW i \in DOMAIN t, i # g PROVE W[i] = V[i]
    OBVIOUS
  <2>1. [k \in 1 .. t[i].limite |-> m[t[i].base + k - 1]]
          = [k \in 1 .. t[i].limite |-> ram[t[i].base + k - 1]]
    BY <1>4
  <2>2. QED
    BY <1>8, <2>1 DEF Contenido
<1>x. W[g] = [id |-> t[g].id, bytes |-> [k \in 1 .. n |-> m[b + k - 1]]]
  BY <1>2
<1> DEFINE E == Escrito(V, g, dl, datos)
           B == [k \in 1 .. n |-> IF k - off \in 1 .. tam THEN datos[k - off] ELSE ram[b + k - 1]]
<1>y. E = [V EXCEPT ![g].bytes = B]
  <2>1. E = [V EXCEPT ![g].bytes =
               [k \in DOMAIN V[g].bytes |->
                  IF k - off \in DOMAIN datos THEN datos[k - off] ELSE V[g].bytes[k]]]
    BY <1>1 DEF Escrito
  <2>2. [k \in DOMAIN V[g].bytes |->
           IF k - off \in DOMAIN datos THEN datos[k - off] ELSE V[g].bytes[k]] = B
    <3>1. DOMAIN datos = 1 .. tam
      BY <1>t
    <3> HIDE DEF V
    <3>2. QED
      BY <1>v, <3>1
  <2>3. QED
    BY <2>1, <2>2
<1>z. [k \in 1 .. n |-> m[b + k - 1]] = B
  BY <1>6
<1> HIDE DEF V, W, E, B, t
<1>10. [V EXCEPT ![g].bytes = B] = W
  <2>1. V[g] = [id |-> t[g].id, bytes |-> V[g].bytes]
    <3>1. PICK x, y : x = Contenido(t[g]) /\ y = t[g].id
      OBVIOUS
    <3>2. V[g] = [id |-> y, bytes |-> x]
      BY <1>2, <1>8, <3>1
    <3>3. QED
      BY <3>1, <3>2
  <2>2. [V[g] EXCEPT !.bytes = B] = [id |-> t[g].id, bytes |-> B]
    BY <2>1
  <2>3. W[g] = [V[g] EXCEPT !.bytes = B]
    BY <1>x, <1>z, <2>2
  <2>4. W = [i \in DOMAIN t |-> W[i]] /\ DOMAIN W = DOMAIN t
    BY DEF W
  <2>5. [V EXCEPT ![g].bytes = B] = [i \in DOMAIN V |-> IF i = g THEN [V[g] EXCEPT !.bytes = B] ELSE V[i]]
    BY <1>9
  <2>6. QED
    BY <1>2, <1>9, <1>w, <2>3, <2>4, <2>5
<1>11. QED
  BY <1>5, <1>7, <1>y, <1>10 DEF E, V, t

-----------------------------------------------------------------------------
(* Steps of the system and steps of the machines.                           *)

\* What a step may be for the machines: of one of them, or of none.
Pasa(p) ==
  /\ Vista(p).vivo /\ Vista(p)' \in M!Siguientes(Vista(p))
  /\ \A q \in Pids \ {p} : Vista(q)' = Vista(q)

NadiePasa == \A q \in Pids : Vista(q)' = Vista(q)

\* Such a step is one of module Maquina.
LEMMA PasoDeMaquina ==
  ASSUME NadiePasa \/ \E p \in Pids : Pasa(p), ~ memoria_ajena, UNCHANGED memoria_ajena
  PROVE  [M!Next]_<<[p \in Pids |-> Vista(p)], memoria_ajena>>
<1> DEFINE v == [p \in Pids |-> Vista(p)]
           w == [p \in Pids |-> Vista(p)']
<1>1. v' = w
  OBVIOUS
<1>2. CASE NadiePasa
  <2>1. v' = v
    BY <1>2 DEF NadiePasa
  <2>2. QED
    BY <2>1
<1>3. ASSUME NEW p \in Pids, Pasa(p)
      PROVE  M!Next
  <2>1. v[p] = Vista(p)
    OBVIOUS
  <2>2. w = [v EXCEPT ![p] = Vista(p)']
    BY <1>3 DEF Pasa
  <2>3. M!Avanza(p)
    BY <1>1, <1>3, <2>1, <2>2 DEF Pasa, M!Avanza
  <2>4. QED
    BY <2>3 DEF M!Next
<1>4. QED
  BY <1>2, <1>3

\* A process that has not ended, and one that has.
LEMMA VivoEs ==
  ASSUME NEW a, NEW b, NEW c, NEW d, NEW e, NEW x
  PROVE  /\ x # "EXIT" => Maq(a, b, c, d, e, x # "EXIT") = Maq(a, b, c, d, e, TRUE)
         /\ x = "EXIT" => Maq(a, b, c, d, e, x # "EXIT") = Maq(a, b, c, d, e, FALSE)
<1>1. x # "EXIT" => (x # "EXIT") = TRUE
  OBVIOUS
<1>2. x = "EXIT" => (x # "EXIT") = FALSE
  OBVIOUS
<1>3. QED
  BY <1>1, <1>2, Zenon

\* The CPUs have a process as they had it: nobody runs it now who did not, nor the
\* other way about, and its registers are the same.
CpusIgual(q) ==
  \A d \in Cpus :
    /\ (cpu[d].pid = q /\ cpu[d].estado \in Corriendo)
         <=> (cpu'[d].pid = q /\ cpu'[d].estado \in Corriendo)
    /\ cpu[d].pid = q /\ cpu[d].estado \in Corriendo => cpu'[d].registros = cpu[d].registros

\* What a CPU does with one process is nothing to the others.
LEMMA CpusAjenas ==
  ASSUME cpu \in [Cpus -> CpuReal], NEW c \in Cpus, NEW p, NEW q \in Pids, q # p,
         cpu[c].pid \in {p, Nadie}, cpu'[c].pid \in {p, Nadie},
         \A d \in Cpus \ {c} : cpu'[d] = cpu[d]
  PROVE  CpusIgual(q)
<1>1. cpu[c].pid # q /\ cpu'[c].pid # q
  BY EjecucionOK
<1>2. QED
  BY <1>1 DEF CpusIgual

\* A process of which nothing changes that its program sees.
LEMMA VistaIgual ==
  ASSUME NEW q \in Pids, CpusIgual(q),
         contextos'[q].instrucciones = contextos[q].instrucciones,
         contextos'[q].registros = contextos[q].registros,
         SegDe(swap'[q], contextos'[q].tabla, ram') = SegDe(swap[q], contextos[q].tabla, ram),
         SinDireccion(pedido'[q]) = SinDireccion(pedido[q]),
         pantalla'[q] = pantalla[q],
         (estado'[q] = "EXIT") <=> (estado[q] = "EXIT")
  PROVE  Vista(q)' = Vista(q)
<1>1. RegDe(cpu', contextos', q) = RegDe(cpu, contextos, q)
  BY RegDeIgual DEF CpusIgual
<1>2. \A a, b, d, e, f : Maq(a, b, d, e, f, estado'[q] # "EXIT")
                           = Maq(a, b, d, e, f, estado[q] # "EXIT")
  <2>1. (estado'[q] # "EXIT") = (estado[q] # "EXIT")
    OBVIOUS
  <2>2. QED
    BY <2>1, Zenon
<1>3. QED
  BY <1>1, <1>2, VistaDe

\* The same, when only the bytes of the memory change, if anything.
LEMMA VistaQuieta ==
  ASSUME NEW q \in Pids, CpusIgual(q), contextos'[q] = contextos[q], swap'[q] = swap[q],
         SegDe(swap[q], contextos[q].tabla, ram') = SegDe(swap[q], contextos[q].tabla, ram),
         pedido'[q] = pedido[q], pantalla'[q] = pantalla[q], estado'[q] = estado[q]
  PROVE  Vista(q)' = Vista(q)
  BY VistaIgual

\* A CPU that executes has the machine of its process before it.
LEMMA EjecutaVista ==
  ASSUME Anchos, MemInv, ~ memoria_ajena, NEW c \in Cpus, cpu[c].estado = "ejecuta"
  PROVE  LET p == cpu[c].pid IN
         /\ Vista(p) = Maq(Instrucciones(c), Reg(c), Bajado(p), Nada, pantalla[p], TRUE)
         /\ Vista(p).vivo
         /\ \A d \in Cpus \ {c} : cpu[d].pid # p
<1> DEFINE p == cpu[c].pid
<1>1. /\ p \in Pids /\ estado[p] = "EXEC" /\ pedido[p] = Nada /\ swap[p] = <<>>
  BY CpuEjecuta
<1>2. \A d \in Cpus \ {c} : cpu[d].pid # p
  BY ProcesoEnCpu
<1>3. RegDe(cpu, contextos, p) = Reg(c)
  <2>1. cpu[c].estado \in Corriendo
    BY DEF Corriendo
  <2>2. QED
    BY <1>2, <2>1, RegDeUna DEF Reg
<1>4. SegDe(swap[p], contextos[p].tabla, ram) = Bajado(p)
  BY <1>1, SegDeEntera
<1>5. SinDireccion(pedido[p]) = Nada
  BY <1>1 DEF SinDireccion, Nada
<1>6. Vista(p) = Maq(Instrucciones(c), Reg(c), Bajado(p), Nada, pantalla[p], estado[p] # "EXIT")
  BY <1>1, <1>3, <1>4, <1>5, VistaDe DEF Instrucciones
<1>7. Vista(p) = Maq(Instrucciones(c), Reg(c), Bajado(p), Nada, pantalla[p], TRUE)
  BY <1>1, <1>6, VivoEs
<1>8. Vista(p).vivo
  BY <1>7 DEF Maq
<1>9. QED
  BY <1>2, <1>7, <1>8

-----------------------------------------------------------------------------
(* What the ends of an instruction are for the machines.                    *)

\* An instruction goes on: its process has other registers, and other bytes if any.
LEMMA ContinuarVista ==
  ASSUME Anchos, MemInv, ~ memoria_ajena, NEW c \in Cpus, NEW p \in Pids, p = cpu[c].pid,
         cpu[c].estado = "ejecuta",
         NEW r, NEW l, Continuar(c, r, l),
         UNCHANGED <<contextos, swap, estado, pedido, pantalla>>,
         \A q \in Pids \ {p} :
           SegDe(swap[q], contextos[q].tabla, ram') = SegDe(swap[q], contextos[q].tabla, ram)
  PROVE  /\ Vista(p)' = Maq(Instrucciones(c), r, SegDe(<<>>, contextos[p].tabla, ram'), Nada,
                            pantalla[p], TRUE)
         /\ \A q \in Pids \ {p} : Vista(q)' = Vista(q)
<1>1. /\ p \in Pids /\ estado[p] = "EXEC" /\ pedido[p] = Nada /\ swap[p] = <<>>
  BY CpuEjecuta
<1>2. cpu \in [Cpus -> CpuReal]
  BY DEF MemInv, Memoria, Tipos
<1>3. /\ cpu'[c].pid = p /\ cpu'[c].registros = r /\ cpu'[c].estado = "chequea"
      /\ \A d \in Cpus \ {c} : cpu'[d] = cpu[d]
  <2>1. cpu' = [cpu EXCEPT ![c] = [cpu[c] EXCEPT !.registros = r, !.lista = l,
                                                 !.estado = "chequea"]]
    BY DEF Continuar
  <2>2. cpu'[c] = [cpu[c] EXCEPT !.registros = r, !.lista = l, !.estado = "chequea"]
    BY <1>2, <2>1
  <2>3. cpu[c] \in CpuReal
    BY <1>2
  <2>4. \A d \in Cpus \ {c} : cpu'[d] = cpu[d]
    BY <1>2, <2>1
  <2>5. QED
    BY <2>2, <2>3, <2>4 DEF CpuReal
<1>4. \A d \in Cpus \ {c} : cpu[d].pid # p
  BY EjecutaVista
<1>5. RegDe(cpu', contextos', p) = r
  <2>1. cpu'[c].estado \in Corriendo /\ \A d \in Cpus \ {c} : cpu'[d].pid # p
    BY <1>3, <1>4 DEF Corriendo
  <2>2. QED
    BY <1>3, <2>1, RegDeUna
<1>6. SinDireccion(pedido'[p]) = Nada
  BY <1>1 DEF SinDireccion, Nada
<1>7. Vista(p)' = Maq(Instrucciones(c), r, SegDe(<<>>, contextos[p].tabla, ram'), Nada,
                      pantalla[p], estado[p] # "EXIT")
  BY <1>1, <1>5, <1>6, VistaDe DEF Instrucciones
<1>8. Vista(p)' = Maq(Instrucciones(c), r, SegDe(<<>>, contextos[p].tabla, ram'), Nada,
                      pantalla[p], TRUE)
  BY <1>1, <1>7, VivoEs
<1>9. ASSUME NEW q \in Pids \ {p}
      PROVE  Vista(q)' = Vista(q)
  <2>1. CpusIgual(q)
    BY <1>2, <1>3, CpusAjenas
  <2>2. QED
    BY <2>1, VistaQuieta
<1>10. QED
  BY <1>8, <1>9

\* The process ends.
LEMMA TerminarVista ==
  ASSUME Anchos, MemInv, ~ memoria_ajena, NEW c \in Cpus, NEW p \in Pids, p = cpu[c].pid,
         cpu[c].estado \in EnCurso, NEW l, Terminar(c, l)
  PROVE  /\ Vista(p)' = Acabado(pantalla[p])
         /\ \A q \in Pids \ {p} : Vista(q)' = Vista(q)
<1>1. /\ p \in Pids /\ swap[p] = <<>> /\ \A d \in Cpus \ {c} : cpu[d].pid # p
  BY ProcesoEnCpu DEF EnCurso
<1>2. /\ cpu \in [Cpus -> CpuReal] /\ contextos \in [Pids -> ContextoReal]
      /\ swap \in [Pids -> Seq(Guardado)]
      /\ estado \in [Pids -> EstadosProceso] /\ pedido \in [Pids -> PedidosReales]
  BY DEF MemInv, Memoria, Tipos
<1>3. /\ estado' = [estado EXCEPT ![p] = "EXIT"]
      /\ contextos' = [contextos EXCEPT ![p] = SinContexto]
      /\ pedido' = [pedido EXCEPT ![p] = Nada]
      /\ cpu' = [cpu EXCEPT ![c] = Libre(l)]
      /\ swap' = [swap EXCEPT ![p] = <<>>]
      /\ UNCHANGED <<ram, pantalla>>
  BY DEF Terminar
<1>4. /\ cpu'[c].pid = Nadie /\ \A d \in Cpus \ {c} : cpu'[d] = cpu[d]
  BY <1>2, <1>3 DEF Libre
<1>5. RegDe(cpu', contextos', p) = EnCero
  <2>1. \A d \in Cpus : cpu'[d].pid # p
    BY <1>1, <1>4, EjecucionOK
  <2>2. contextos'[p].registros = EnCero
    BY <1>1, <1>2, <1>3 DEF SinContexto, Contexto
  <2>3. QED
    BY <2>1, <2>2, RegDeNinguna
<1>6. SegDe(swap'[p], contextos'[p].tabla, ram') = <<>>
  <2>1. swap'[p] = <<>> /\ contextos'[p].tabla = <<>>
    BY <1>1, <1>2, <1>3 DEF SinContexto, Contexto
  <2>2. \A w \in Seq(Guardado) : \A m : SegDe(w, <<>>, m) = w
    BY <1>1, SegDeEntera
  <2>3. \A m : SegDe(<<>>, <<>>, m) = <<>>
    <3>1. <<>> \in Seq(Guardado)
      OBVIOUS
    <3>2. QED
      BY <2>2, <3>1
  <2>4. QED
    BY <2>1, <2>3
<1>7. /\ SinDireccion(pedido'[p]) = Nada /\ contextos'[p].instrucciones = <<>>
      /\ pantalla'[p] = pantalla[p] /\ estado'[p] = "EXIT"
  BY <1>1, <1>2, <1>3 DEF SinDireccion, Nada, SinContexto, Contexto
<1>8. Vista(p)' = Maq(<<>>, EnCero, <<>>, Nada, pantalla[p], estado'[p] # "EXIT")
  BY <1>1, <1>5, <1>6, <1>7, VistaDe
<1>9. Vista(p)' = Acabado(pantalla[p])
  BY <1>7, <1>8, VivoEs DEF Acabado
<1>10. ASSUME NEW q \in Pids \ {p}
       PROVE  Vista(q)' = Vista(q)
  <2>1. CpusIgual(q)
    BY <1>2, <1>4, CpusAjenas
  <2>2. /\ contextos'[q] = contextos[q] /\ estado'[q] = estado[q] /\ pedido'[q] = pedido[q]
        /\ ram' = ram /\ swap'[q] = swap[q] /\ pantalla' = pantalla
    BY <1>2, <1>3
  <2>3. QED
    BY <2>1, <2>2, VistaQuieta
<1>11. QED
  BY <1>9, <1>10

\* It asks for something: its registers are those of the next instruction, in the
\* context, and it waits.
LEMMA PedirVista ==
  ASSUME Anchos, MemInv, ~ memoria_ajena, NEW c \in Cpus, NEW p \in Pids, p = cpu[c].pid,
         cpu[c].estado = "ejecuta",
         NEW x, PedirYEsperar(c, x) \/ Bloquear(c, x)
  PROVE  /\ Vista(p)' = Maq(Instrucciones(c), Avanzar(Reg(c)), Bajado(p), SinDireccion(x),
                            pantalla[p], TRUE)
         /\ \A q \in Pids \ {p} : Vista(q)' = Vista(q)
<1>1. /\ p \in Pids /\ estado[p] = "EXEC" /\ pedido[p] = Nada /\ swap[p] = <<>>
  BY CpuEjecuta
<1>2. /\ cpu \in [Cpus -> CpuReal] /\ contextos \in [Pids -> ContextoReal]
      /\ estado \in [Pids -> EstadosProceso] /\ pedido \in [Pids -> PedidosReales]
  BY DEF MemInv, Memoria, Tipos
<1>a. \A d \in Cpus \ {c} : cpu[d].pid # p
  BY EjecutaVista
<1>3. PICK r : r = Avanzar(Reg(c))
  OBVIOUS
<1>4. /\ contextos' = [contextos EXCEPT ![p].registros = r]
      /\ pedido' = [pedido EXCEPT ![p] = x]
      /\ estado' = estado \/ estado' = [estado EXCEPT ![p] = "BLOCK"]
      /\ UNCHANGED <<memVars, pantalla>>
  BY <1>3 DEF PedirYEsperar, Bloquear, GuardarContexto
<1>5. /\ cpu'[c].pid \in {p, Nadie} /\ cpu'[c].estado \notin Corriendo
      /\ \A d \in Cpus \ {c} : cpu'[d] = cpu[d]
  <2>1. CASE PedirYEsperar(c, x)
    <3>1. cpu' = [cpu EXCEPT ![c] = [cpu[c] EXCEPT !.registros = r, !.estado = "respuesta"]]
      BY <1>3, <2>1 DEF PedirYEsperar, Reg
    <3>2. cpu'[c] = [cpu[c] EXCEPT !.registros = r, !.estado = "respuesta"]
      BY <1>2, <3>1
    <3>3. cpu[c] \in CpuReal
      BY <1>2
    <3>4. \A d \in Cpus \ {c} : cpu'[d] = cpu[d]
      BY <1>2, <3>1
    <3>5. QED
      BY <3>2, <3>3, <3>4 DEF CpuReal, Corriendo
  <2>2. CASE Bloquear(c, x)
    BY <1>2, <2>2 DEF Bloquear, Soltar, Libre, Corriendo
  <2>3. QED
    BY <2>1, <2>2
<1>6. RegDe(cpu', contextos', p) = r
  <2>1. \A d \in Cpus : cpu'[d].pid = p => cpu'[d].estado \notin Corriendo
    BY <1>a, <1>5
  <2>2. contextos'[p].registros = r
    BY <1>1, <1>2, <1>4 DEF ContextoReal
  <2>3. QED
    BY <2>1, <2>2, RegDeNinguna
<1>7. /\ contextos'[p].instrucciones = Instrucciones(c)
      /\ contextos'[p].tabla = contextos[p].tabla
      /\ pedido'[p] = x /\ pantalla'[p] = pantalla[p] /\ estado'[p] # "EXIT"
      /\ swap'[p] = <<>> /\ ram' = ram
  BY <1>1, <1>2, <1>4 DEF ContextoReal, Instrucciones, memVars
<1>8. SegDe(swap'[p], contextos'[p].tabla, ram') = Bajado(p)
  BY <1>1, <1>7, SegDeEntera
<1>9. Vista(p)' = Maq(Instrucciones(c), r, Bajado(p), SinDireccion(x), pantalla[p],
                      estado'[p] # "EXIT")
  BY <1>1, <1>6, <1>7, <1>8, VistaDe
<1>10. Vista(p)' = Maq(Instrucciones(c), r, Bajado(p), SinDireccion(x), pantalla[p], TRUE)
  BY <1>7, <1>9, VivoEs
<1>11. ASSUME NEW q \in Pids \ {p}
       PROVE  Vista(q)' = Vista(q)
  <2>1. CpusIgual(q)
    BY <1>2, <1>5, CpusAjenas
  <2>2. /\ contextos'[q] = contextos[q] /\ estado'[q] = estado[q] /\ pedido'[q] = pedido[q]
        /\ ram' = ram /\ swap' = swap /\ pantalla' = pantalla
    BY <1>2, <1>4 DEF memVars
  <2>3. QED
    BY <2>1, <2>2, VistaQuieta
<1>12. QED
  BY <1>3, <1>10, <1>11

-----------------------------------------------------------------------------
(* Each instruction does what it does to the machine of its process.        *)

\* The machine of the process that a CPU executes, with other registers, segments and
\* request; and the one it is.
Con(c, regs, segs, x) ==
  Maq(Instrucciones(c), regs, segs, x, pantalla[cpu[c].pid], TRUE)

MaqDe(c) == Con(c, Reg(c), Bajado(cpu[c].pid), Nada)

\* What the instructions do to it.
LEMMA HaceInstruccion ==
  ASSUME NEW c \in Cpus, NEW i, NEW re, re = Reg(c), NEW se, se = Bajado(cpu[c].pid)
  PROVE  /\ i.op \in Comunes => Con(c, Comun(re, i), se, Nada) \in M!Instruccion(MaqDe(c), i)
         /\ i.op = "MOV_IN" =>
              \A g \in Donde(se, re["SI"], TamanioRegistro(i.r)) :
                Con(c, Avanzar(Setear(re, i.r,
                         DeBytes(Leido(se, g, re["SI"], TamanioRegistro(i.r))))), se, Nada)
                  \in M!Instruccion(MaqDe(c), i)
         /\ i.op = "MOV_OUT" =>
              \A g \in Donde(se, re["DI"], TamanioRegistro(i.r)) :
                Con(c, Avanzar(re),
                    Escrito(se, g, re["DI"], EnBytes(re[i.r], TamanioRegistro(i.r))), Nada)
                  \in M!Instruccion(MaqDe(c), i)
         /\ i.op = "COPY_MEM" =>
              /\ re[i.r] = 0 => Con(c, Avanzar(re), se, Nada) \in M!Instruccion(MaqDe(c), i)
              /\ re[i.r] # 0 =>
                   \A g \in Donde(se, re["SI"], re[i.r]), h \in Donde(se, re["DI"], re[i.r]) :
                     Con(c, Avanzar(re),
                         Escrito(se, h, re["DI"], Leido(se, g, re["SI"], re[i.r])), Nada)
                       \in M!Instruccion(MaqDe(c), i)
         /\ i.op \in {"STDIN", "STDOUT"} =>
              /\ re[i.s] = 0 => Con(c, Avanzar(re), se, Nada) \in M!Instruccion(MaqDe(c), i)
              /\ re[i.s] # 0 =>
                   IF Donde(se, re[i.r], re[i.s]) = {} THEN M!Instruccion(MaqDe(c), i) = {}
                   ELSE Con(c, Avanzar(re), se, [op |-> i.op, dl |-> re[i.r], tam |-> re[i.s]])
                          \in M!Instruccion(MaqDe(c), i)
         /\ i.op = "SLEEP" =>
              Con(c, Avanzar(re), se, [op |-> "SLEEP"]) \in M!Instruccion(MaqDe(c), i)
         /\ i.op = "MEM_ALLOC" =>
              Con(c, Avanzar(re), se, [op |-> "MEM_ALLOC", id |-> i.id, tam |-> i.tam])
                \in M!Instruccion(MaqDe(c), i)
         /\ i.op = "MEM_FREE" =>
              Con(c, Avanzar(re), se, [op |-> "MEM_FREE", id |-> i.id])
                \in M!Instruccion(MaqDe(c), i)
         /\ i.op = "EXIT" => M!Instruccion(MaqDe(c), i) = {}
<1>p. PICK pr, pa, pe : pr = Instrucciones(c) /\ pa = pantalla[cpu[c].pid] /\ pe = Nada
  OBVIOUS
<1>q. PICK vi : vi = TRUE
  OBVIOUS
<1>k. \A r, x, y : Con(c, r, x, y) = Maq(pr, r, x, y, pa, vi)
  BY <1>p, <1>q, Zenon DEF Con
<1> DEFINE s == Maq(pr, re, se, pe, pa, vi)
<1>1. /\ s.programa = pr /\ s.registros = re /\ s.segmentos = se /\ s.pedido = pe
      /\ \A dl, n : M!Segmento(s, dl, n) = Donde(se, dl, n)
      /\ \A g, dl, n : M!Lee(s, g, dl, n) = Leido(se, g, dl, n)
      /\ \A g, dl, datos : M!Escribe(s, g, dl, datos)
                             = Maq(pr, re, Escrito(se, g, dl, datos), pe, pa, vi)
      /\ M!Sigue(s) = Maq(pr, Avanzar(re), se, pe, pa, vi)
      /\ \A x : M!Pide(s, x) = {Maq(pr, Avanzar(re), se, x, pa, vi)}
  BY MaquinaDe
<1>2. \A g, dl, datos : M!Sigue(M!Escribe(s, g, dl, datos))
                          = Maq(pr, Avanzar(re), Escrito(se, g, dl, datos), pe, pa, vi)
  BY <1>1, MaquinaDe
<1>3. \A r : [s EXCEPT !.registros = r] = Maq(pr, r, se, pe, pa, vi)
  BY MaqCambia
<1>m. MaqDe(c) = s
  BY <1>p, <1>k DEF MaqDe
<1> HIDE DEF s
<1>4. ASSUME i.op \in Comunes
      PROVE  M!Instruccion(s, i) = {Maq(pr, Comun(re, i), se, pe, pa, vi)}
  <2>1. M!Instruccion(s, i) = {[s EXCEPT !.registros = M!Comun(s.registros, i)]}
    <3>1. i.op \in M!Comunes
      BY <1>4, MismosRegistros
    <3>2. i.op \notin {"MOV_IN", "MOV_OUT", "COPY_MEM", "STDIN", "STDOUT", "SLEEP", "MEM_ALLOC",
                      "MEM_FREE", "EXIT"}
      BY <1>4 DEF Comunes
    <3>3. QED
      BY <3>1, <3>2 DEF M!Instruccion
  <2>2. QED
    BY <1>1, <1>3, <2>1, MismosRegistros
<1>d. i.op \in {"MOV_IN", "MOV_OUT", "COPY_MEM", "STDIN", "STDOUT", "SLEEP", "MEM_ALLOC",
                "MEM_FREE", "EXIT"} => i.op \notin M!Comunes
  BY MismosRegistros DEF Comunes
<1>5. ASSUME i.op = "MOV_IN"
      PROVE  M!Instruccion(s, i) =
                {Maq(pr, Avanzar(Setear(re, i.r,
                           DeBytes(Leido(se, g, re["SI"], TamanioRegistro(i.r))))),
                     se, pe, pa, vi) :
                   g \in Donde(se, re["SI"], TamanioRegistro(i.r))}
  <2>1. M!Instruccion(s, i) = M!MovIn(s, i)
    BY <1>5, <1>d DEF M!Instruccion
  <2>2. M!MovIn(s, i) =
          {[s EXCEPT !.registros = M!Avanzar(M!Setear(s.registros, i.r,
               M!DeBytes(M!Lee(s, g, s.registros["SI"], M!TamanioRegistro(i.r)))))] :
             g \in M!Segmento(s, s.registros["SI"], M!TamanioRegistro(i.r))}
    BY Zenon DEF M!MovIn
  <2>3. PICK dl, tam : dl = re["SI"] /\ tam = TamanioRegistro(i.r)
    OBVIOUS
  <2>4. M!MovIn(s, i) =
          {[s EXCEPT !.registros = M!Avanzar(M!Setear(re, i.r, M!DeBytes(M!Lee(s, g, dl, tam))))] :
             g \in M!Segmento(s, dl, tam)}
    <3>1. s.registros = re /\ M!TamanioRegistro(i.r) = tam
      BY <1>1, <2>3, MismosRegistros
    <3>2. QED
      BY <2>2, <2>3, <3>1
  <2>5. \A g : [s EXCEPT !.registros = M!Avanzar(M!Setear(re, i.r, M!DeBytes(M!Lee(s, g, dl, tam))))]
                = Maq(pr, Avanzar(Setear(re, i.r, DeBytes(Leido(se, g, dl, tam)))), se, pe, pa, vi)
    BY <1>1, <1>3, MismosRegistros
  <2>6. M!Segmento(s, dl, tam) = Donde(se, dl, tam)
    BY <1>1
  <2> DEFINE F(g) == [s EXCEPT !.registros =
                        M!Avanzar(M!Setear(re, i.r, M!DeBytes(M!Lee(s, g, dl, tam))))]
             H(g) == Maq(pr, Avanzar(Setear(re, i.r, DeBytes(Leido(se, g, dl, tam)))), se, pe, pa, vi)
  <2>7. /\ M!MovIn(s, i) = {F(g) : g \in Donde(se, dl, tam)}
        /\ \A g : F(g) = H(g)
    BY <2>4, <2>5, <2>6
  <2> HIDE DEF F, H
  <2>8. M!MovIn(s, i) = {H(g) : g \in Donde(se, dl, tam)}
    BY <2>7
  <2>9. QED
    BY <2>1, <2>3, <2>8 DEF H
<1>6. ASSUME i.op = "MOV_OUT"
      PROVE  M!Instruccion(s, i) =
                {Maq(pr, Avanzar(re),
                     Escrito(se, g, re["DI"], EnBytes(re[i.r], TamanioRegistro(i.r))),
                     pe, pa, vi) :
                   g \in Donde(se, re["DI"], TamanioRegistro(i.r))}
  <2>1. M!Instruccion(s, i) = M!MovOut(s, i)
    BY <1>6, <1>d DEF M!Instruccion
  <2>2. QED
    BY <1>1, <1>2, <2>1, MismosRegistros DEF M!MovOut
<1>7. ASSUME i.op = "COPY_MEM"
      PROVE  /\ re[i.r] = 0 =>
                   M!Instruccion(s, i) = {Maq(pr, Avanzar(re), se, pe, pa, vi)}
             /\ re[i.r] # 0 =>
                   /\ \A g \in Donde(se, re["SI"], re[i.r]), h \in Donde(se, re["DI"], re[i.r]) :
                        Maq(pr, Avanzar(re),
                            Escrito(se, h, re["DI"], Leido(se, g, re["SI"], re[i.r])), pe, pa, vi)
                          \in M!Instruccion(s, i)
                   /\ \/ Donde(se, re["SI"], re[i.r]) = {}
                      \/ Donde(se, re["DI"], re[i.r]) = {}
                      => M!Instruccion(s, i) = {}
  <2>1. M!Instruccion(s, i) = M!CopyMem(s, i)
    BY <1>7, <1>d DEF M!Instruccion
  <2>2. s.registros = re
    BY <1>1
  <2>3. CASE re[i.r] = 0
    BY <1>1, <2>1, <2>2, <2>3 DEF M!CopyMem
  <2>4. CASE re[i.r] # 0
    <3> DEFINE G == M!Segmento(s, s.registros["SI"], s.registros[i.r])
               H == M!Segmento(s, s.registros["DI"], s.registros[i.r])
               Copia(g, h) == M!Sigue(M!Escribe(s, h, s.registros["DI"],
                                M!Lee(s, g, s.registros["SI"], s.registros[i.r])))
    <3>1. s.registros[i.r] # 0
      BY <2>2, <2>4
    <3>2. M!CopyMem(s, i) = {Copia(g, h) : g \in G, h \in H}
      BY <3>1 DEF M!CopyMem
    <3>3. G = Donde(se, re["SI"], re[i.r]) /\ H = Donde(se, re["DI"], re[i.r])
      BY <1>1
    <3>4. ASSUME NEW g, NEW h
          PROVE  Copia(g, h) = Maq(pr, Avanzar(re),
                            Escrito(se, h, re["DI"], Leido(se, g, re["SI"], re[i.r])), pe, pa, vi)
      BY <1>1, <1>2
    <3> HIDE DEF G, H, Copia
    <3>5. /\ \A g \in G, h \in H : Copia(g, h) \in M!CopyMem(s, i)
          /\ G = {} \/ H = {} => M!CopyMem(s, i) = {}
      BY <3>2
    <3>6. QED
      BY <2>1, <2>4, <3>3, <3>4, <3>5
  <2>5. QED
    BY <2>3, <2>4
<1>8. ASSUME i.op \in {"STDIN", "STDOUT"}
      PROVE  M!Instruccion(s, i) =
                IF re[i.s] = 0 THEN {Maq(pr, Avanzar(re), se, pe, pa, vi)}
                ELSE UNION {{Maq(pr, Avanzar(re), se,
                                 [op |-> i.op, dl |-> re[i.r], tam |-> re[i.s]], pa, vi)} :
                              g \in Donde(se, re[i.r], re[i.s])}
  <2>1. M!Instruccion(s, i) = M!PideDatos(s, i)
    BY <1>8, <1>d DEF M!Instruccion
  <2>2. QED
    BY <1>1, <2>1 DEF M!PideDatos
<1>9. ASSUME i.op = "SLEEP"
      PROVE  M!Instruccion(s, i) = {Maq(pr, Avanzar(re), se, [op |-> "SLEEP"], pa, vi)}
  BY <1>1, <1>9, <1>d DEF M!Instruccion
<1>10. ASSUME i.op = "MEM_ALLOC"
       PROVE  M!Instruccion(s, i) =
                {Maq(pr, Avanzar(re), se, [op |-> "MEM_ALLOC", id |-> i.id, tam |-> i.tam], pa, vi)}
  BY <1>1, <1>10, <1>d DEF M!Instruccion
<1>11. ASSUME i.op = "MEM_FREE"
       PROVE  M!Instruccion(s, i) =
                {Maq(pr, Avanzar(re), se, [op |-> "MEM_FREE", id |-> i.id], pa, vi)}
  BY <1>1, <1>11, <1>d DEF M!Instruccion
<1>12. ASSUME i.op = "EXIT"
       PROVE  M!Instruccion(s, i) = {}
  BY <1>12, <1>d DEF M!Instruccion
<1>13. CASE i.op \in Comunes
  BY <1>p, <1>k, <1>m, <1>4, <1>13 DEF Comunes
<1>14. CASE i.op = "MOV_IN"
  BY <1>p, <1>k, <1>m, <1>5, <1>14 DEF Comunes
<1>15. CASE i.op = "MOV_OUT"
  BY <1>p, <1>k, <1>m, <1>6, <1>15 DEF Comunes
<1>16. CASE i.op = "COPY_MEM"
  BY <1>p, <1>k, <1>m, <1>7, <1>16 DEF Comunes
<1>17. CASE i.op \in {"STDIN", "STDOUT"}
  <2>1. PICK x : x = [op |-> i.op, dl |-> re[i.r], tam |-> re[i.s]]
    OBVIOUS
  <2>2. M!Instruccion(s, i) =
          IF re[i.s] = 0 THEN {Maq(pr, Avanzar(re), se, pe, pa, vi)}
          ELSE UNION {{Maq(pr, Avanzar(re), se, x, pa, vi)} : g \in Donde(se, re[i.r], re[i.s])}
    BY <1>8, <1>17, <2>1
  <2>3. QED
    BY <1>p, <1>k, <1>m, <1>17, <2>1, <2>2 DEF Comunes
<1>18. CASE i.op = "SLEEP"
  BY <1>p, <1>k, <1>m, <1>9, <1>18 DEF Comunes
<1>19. CASE i.op = "MEM_ALLOC"
  BY <1>p, <1>k, <1>m, <1>10, <1>19 DEF Comunes
<1>20. CASE i.op = "MEM_FREE"
  BY <1>p, <1>k, <1>m, <1>11, <1>20 DEF Comunes
<1>21. CASE i.op = "EXIT"
  BY <1>p, <1>k, <1>m, <1>12, <1>21 DEF Comunes
<1>22. CASE i.op \notin Comunes \cup {"MOV_IN", "MOV_OUT", "COPY_MEM", "STDIN", "STDOUT", "SLEEP",
                                     "MEM_ALLOC", "MEM_FREE", "EXIT"}
  BY <1>22
<1>23. QED
  BY <1>13, <1>14, <1>15, <1>16, <1>17, <1>18, <1>19, <1>20, <1>21, <1>22

\* An instruction that is done is a step of that machine.
LEMMA SeHace ==
  ASSUME Anchos, MemInv, ~ memoria_ajena, NEW c \in Cpus, NEW p \in Pids, p = cpu[c].pid, HayInstruccion(c),
         Vista(p)' \in M!Instruccion(MaqDe(c), Instr(c)),
         \A q \in Pids \ {p} : Vista(q)' = Vista(q)
  PROVE  Pasa(p)
<1>1. Vista(p) = MaqDe(c) /\ Vista(p).vivo
  BY EjecutaVista DEF HayInstruccion, MaqDe, Con
<1>2. Reg(c)["PC"] < Len(Instrucciones(c)) /\ Instr(c) = Instrucciones(c)[Reg(c)["PC"] + 1]
  BY DEF HayInstruccion, Instr
<1>3. Vista(p)' \in M!Siguientes(MaqDe(c))
  <2>1. PICK t : t = Vista(p)'
    OBVIOUS
  <2>2. t \in M!Siguientes(MaqDe(c))
    BY <1>2, <2>1, PasoInstruccion DEF MaqDe, Con
  <2>3. QED
    BY <2>1, <2>2
<1>4. QED
  BY <1>1, <1>3 DEF Pasa

\* So is one that ends the process: there is none, it has nowhere to go, or it uses the
\* memory, which may fail.
LEMMA SeAcaba ==
  ASSUME Anchos, MemInv, ~ memoria_ajena, NEW c \in Cpus, cpu[c].estado = "ejecuta", NEW l, Terminar(c, l),
         \/ ~ HayInstruccion(c)
         \/ M!Instruccion(MaqDe(c), Instr(c)) = {}
         \/ Instr(c).op \in {"MOV_IN", "MOV_OUT", "COPY_MEM"}
  PROVE  \E p \in Pids : Pasa(p)
<1>1. PICK p \in Pids : p = cpu[c].pid
  BY CpuEjecuta
<1>2. Vista(p) = MaqDe(c) /\ Vista(p).vivo
  BY <1>1, EjecutaVista DEF MaqDe, Con
<1>3. /\ Vista(p)' = Acabado(pantalla[p])
      /\ \A q \in Pids \ {p} : Vista(q)' = Vista(q)
  BY <1>1, TerminarVista DEF EnCurso
<1>4. Instr(c) = Instrucciones(c)[Reg(c)["PC"] + 1]
  BY DEF Instr
<1>5. ~ HayInstruccion(c) => ~ (Reg(c)["PC"] < Len(Instrucciones(c)))
  BY DEF HayInstruccion
<1>6. Acabado(pantalla[p]) \in M!Siguientes(MaqDe(c))
  BY <1>1, <1>4, <1>5, PasoFin DEF MaqDe, Con
<1>7. QED
  BY <1>2, <1>3, <1>6 DEF Pasa

\* What is written in some bytes of the memory is written in a segment of a process, and
\* in nothing of another.
SeEscribeEn(p, g, dl, tam, lugares) ==
  \A datos \in [1 .. tam -> Bytes] :
    /\ SegDe(<<>>, contextos[p].tabla, EscribirMemoria(ram, lugares, datos))
         = Escrito(Bajado(p), g, dl, datos)
    /\ \A q \in Pids \ {p} :
         SegDe(swap[q], contextos[q].tabla, EscribirMemoria(ram, lugares, datos))
           = SegDe(swap[q], contextos[q].tabla, ram)

\* The segments that a process has now.
LEMMA TablaReal ==
  ASSUME MemInv, NEW p \in Pids
  PROVE  /\ contextos[p].tabla \in Seq(SegmentoReal)
         /\ \A i \in DOMAIN contextos[p].tabla :
              contextos[p].tabla[i].base + contextos[p].tabla[i].limite <= Total
<1>1. contextos[p].tabla \in Seq(SegmentoReal)
  BY DEF MemInv, Memoria, Tipos, ContextoReal
<1>2. QED
  BY <1>1, ContenidoReal

\* The translation is the one of the table that the process has now, unless the access is
\* one that counts as of an old table.
LEMMA UsaReal ==
  ASSUME Anchos, MemInv, ~ memoria_ajena', NEW c \in Cpus, cpu[c].estado = "ejecuta",
         NEW p \in Pids, p = cpu[c].pid, NEW dls, NEW tam, Accede(c, dls, tam)
  PROVE  \A dl \in dls : Usa(c, dl, tam) = Traducir(contextos[p].tabla, dl, tam)
<1>1. ~ TablaVieja(c, dls, tam)
  BY DEF Accede
<1>2. CASE p \in movidos
  BY <1>1, <1>2 DEF TablaVieja
<1>3. CASE p \notin movidos
  BY <1>3, CpuEjecuta DEF Usa
<1>4. QED
  BY <1>2, <1>3

\* The MMU looks at ids and sizes only.
LEMMA LimitesCaben ==
  ASSUME NEW t \in Seq(SegmentoReal), NEW u \in Seq(SegmentoReal), Limites(t) = Limites(u), NEW dl, NEW tam
  PROVE  Caben(t, dl, tam) = Caben(u, dl, tam)
<1>1. DOMAIN t = DOMAIN u
  BY DEF Limites
<1>2. \A i \in DOMAIN t : t[i].id = u[i].id /\ t[i].limite = u[i].limite
  BY <1>1 DEF Limites
<1>3. \A i \in DOMAIN t : \A j \in 1 .. i - 1 : j \in DOMAIN t
  <2>1. PICK n \in Nat : DOMAIN t = 1 .. n
    OBVIOUS
  <2>2. QED
    BY <2>1
<1>4. QED
  BY <1>1, <1>2, <1>3 DEF Caben, BuscarSegmento

\* An access that the MMU accepts is one to a segment of the machine: what is read is
\* what it has, and what is written is written there and nowhere else.
LEMMA AccesoVista ==
  ASSUME Anchos, MemInv, ~ memoria_ajena, NEW c \in Cpus, cpu[c].estado = "ejecuta",
         NEW p \in Pids, p = cpu[c].pid,
         NEW dl \in Palabras, NEW tam \in Nat \ {0},
         (dl % TamMaxSegmento) + tam < Palabra,
         Usa(c, dl, tam) = Traducir(contextos[p].tabla, dl, tam),
         NEW df \in Usa(c, dl, tam), NEW l \in Lista, ListaFiel(l),
         NEW lugares, lugares = Alcanza(l, df, tam, Actual)
  PROVE  \E g \in Donde(Bajado(p), dl, tam) :
           AccesoPosible(lugares) =>
             /\ LeerMemoria(ram, lugares) = Leido(Bajado(p), g, dl, tam)
             /\ SeEscribeEn(p, g, dl, tam, lugares)
<1>a. dl % TamMaxSegmento \in Nat /\ df \in 0 .. Total - 1
  BY AccesoReal
<1>b. AccesoPosible(Alcanza(l, df, tam, Actual)) =>
        /\ LeerMemoria(ram, Alcanza(l, df, tam, Actual)) = [k \in 1 .. tam |-> ram[df + k - 1]]
        /\ \A datos \in [1 .. tam -> Bytes] :
             EscribirMemoria(ram, Alcanza(l, df, tam, Actual), datos)
               = [g \in 0 .. Total - 1 |->
                    IF df <= g /\ g < df + tam THEN datos[g - df + 1] ELSE ram[g]]
  BY AccesoReal
<1>1. /\ dl % TamMaxSegmento \in Nat /\ df \in 0 .. Total - 1
      /\ AccesoPosible(lugares) =>
           /\ LeerMemoria(ram, lugares) = [k \in 1 .. tam |-> ram[df + k - 1]]
           /\ \A datos \in [1 .. tam -> Bytes] :
                EscribirMemoria(ram, lugares, datos)
                  = [g \in 0 .. Total - 1 |->
                       IF df <= g /\ g < df + tam THEN datos[g - df + 1] ELSE ram[g]]
  BY <1>a, <1>b
<1>2. /\ contextos[p].tabla \in Seq(SegmentoReal)
      /\ \A i \in DOMAIN contextos[p].tabla :
           contextos[p].tabla[i].base + contextos[p].tabla[i].limite <= Total
  BY TablaReal
<1>c. Traducir(contextos[p].tabla, dl, tam)
        = {contextos[p].tabla[i].base + (dl % TamMaxSegmento) :
             i \in Caben(contextos[p].tabla, dl, tam)}
  BY <1>2, TraducirSinVuelta
<1>3. dl \in Nat /\ tam \in Nat
  BY DEF Palabras
<1>4. PICK g \in Caben(contextos[p].tabla, dl, tam) :
        df = contextos[p].tabla[g].base + (dl % TamMaxSegmento)
  BY <1>c
<1>5. g \in Donde(Bajado(p), dl, tam)
  BY <1>3, CabeReal
<1>6. ASSUME AccesoPosible(lugares)
      PROVE  LeerMemoria(ram, lugares) = Leido(Bajado(p), g, dl, tam)
  <2>1. Leido(Bajado(p), g, dl, tam) = [k \in 1 .. tam |-> ram[Fisica(p, g, dl) + k - 1]]
    BY <1>3, <1>4, LeidoEs
  <2>2. LeerMemoria(ram, lugares) = [k \in 1 .. tam |-> ram[df + k - 1]]
    BY <1>1, <1>6
  <2>3. df = Fisica(p, g, dl)
    BY <1>4 DEF Fisica
  <2>4. QED
    BY <2>1, <2>2, <2>3
<1>7. ASSUME AccesoPosible(lugares), NEW datos \in [1 .. tam -> Bytes]
      PROVE  /\ SegDe(<<>>, contextos[p].tabla, EscribirMemoria(ram, lugares, datos))
                  = Escrito(Bajado(p), g, dl, datos)
             /\ \A q \in Pids \ {p} :
                  SegDe(swap[q], contextos[q].tabla, EscribirMemoria(ram, lugares, datos))
                    = SegDe(swap[q], contextos[q].tabla, ram)
  <2>1. PICK m : m = EscribirMemoria(ram, lugares, datos)
    OBVIOUS
  <2>2. SeEscribio(m, df, tam, datos)
    <3>1. m = [h \in 0 .. Total - 1 |->
                 IF df <= h /\ h < df + tam THEN datos[h - df + 1] ELSE ram[h]]
      BY <1>1, <1>7, <2>1, Zenon
    <3>2. QED
      BY <3>1 DEF SeEscribio
  <2>3. /\ SegDe(<<>>, contextos[p].tabla, m) = Escrito(Bajado(p), g, dl, datos)
        /\ \A q \in Pids \ {p} :
             SegDe(swap[q], contextos[q].tabla, m) = SegDe(swap[q], contextos[q].tabla, ram)
    <3>1. /\ p \in Pids /\ dl \in Nat /\ tam \in Nat /\ g \in Caben(contextos[p].tabla, dl, tam)
          /\ datos \in TantosBytes(tam)
          /\ SeEscribio(m, Fisica(p, g, dl), tam, datos)
      BY <1>3, <1>4, <1>7, <2>2 DEF TantosBytes, Fisica
    <3>2. QED
      BY <3>1, EscritoEs
  <2>4. QED
    BY <2>1, <2>3
<1>8. AccesoPosible(lugares) => SeEscribeEn(p, g, dl, tam, lugares)
  BY <1>7 DEF SeEscribeEn
<1>9. QED
  BY <1>5, <1>6, <1>8

\* One that it does not accept is to no segment.
LEMMA FaltaVista ==
  ASSUME Anchos, MemInv, ~ memoria_ajena, NEW c \in Cpus, cpu[c].estado = "ejecuta",
         NEW dl \in Palabras, NEW tam \in Nat \ {0}, Usa(c, dl, tam) = {}
  PROVE  Donde(Bajado(cpu[c].pid), dl, tam) = {}
<1>1. PICK p \in Pids : p = cpu[c].pid
  BY CpuEjecuta
<1>2. PICK t \in Seq(SegmentoReal), u \in Seq(SegmentoReal) :
        t = cpu[c].tabla /\ u = contextos[p].tabla
  BY <1>1, CpuEjecuta, TablaReal
<1>3. \A i \in DOMAIN t : t[i].base + t[i].limite <= Total
  BY <1>2, CpuEjecuta
<1>4. dl \in Nat /\ tam \in Nat
  BY DEF Palabras
<1>5. Donde(Bajado(p), dl, tam) = Caben(u, dl, tam)
  BY <1>2, <1>4, CabeReal
<1>6. CASE (dl % TamMaxSegmento) + tam < Palabra
  <2>1. Traducir(t, dl, tam) = {t[i].base + (dl % TamMaxSegmento) : i \in Caben(t, dl, tam)}
    BY <1>3, <1>6, TraducirSinVuelta
  <2>2. Caben(t, dl, tam) = {}
    BY <1>2, <2>1 DEF Usa
  <2>3. u = <<>> \/ Limites(t) = Limites(u)
    BY <1>1, <1>2 DEF MemInv, TablaEntera, EnteraDe
  <2>4. u = <<>> => Caben(u, dl, tam) = {}
    BY DEF Caben, BuscarSegmento
  <2>5. QED
    BY <1>1, <1>5, <2>2, <2>3, <2>4, LimitesCaben
<1>7. CASE ~ ((dl % TamMaxSegmento) + tam < Palabra)
  <2>1. PICK off \in Nat : off = dl % TamMaxSegmento
    BY <1>4, Desplazamiento
  <2>2. \A i \in DOMAIN u : u[i].limite \in Nat /\ u[i].limite <= TamMaxSegmento
    <3>1. \A i \in DOMAIN u : u[i] \in SegmentoReal
      OBVIOUS
    <3>2. QED
      BY <3>1, MmuOK DEF SegmentoReal
  <2>3. TamMaxSegmento \in Nat /\ Palabra \in Nat /\ TamMaxSegmento < Palabra
    BY TotalCabe, AnchosOK DEF Anchos
  <2>4. \A i \in DOMAIN u : ~ (off + tam <= u[i].limite)
    BY <1>4, <1>7, <2>1, <2>2, <2>3
  <2>5. QED
    BY <1>1, <1>5, <2>1, <2>4 DEF Caben, BuscarSegmento
<1>8. QED
  BY <1>6, <1>7

\* An instruction that goes on leaves its machine with other registers and segments.
LEMMA SigueVista ==
  ASSUME Anchos, MemInv, ~ memoria_ajena, NEW c \in Cpus, NEW p \in Pids, p = cpu[c].pid, HayInstruccion(c),
         NEW r, NEW l, Continuar(c, r, l), NEW segs,
         UNCHANGED <<contextos, swap, estado, pedido, pantalla>>,
         SegDe(<<>>, contextos[p].tabla, ram') = segs,
         \A q \in Pids \ {p} :
           SegDe(swap[q], contextos[q].tabla, ram') = SegDe(swap[q], contextos[q].tabla, ram),
         Con(c, r, segs, Nada) \in M!Instruccion(MaqDe(c), Instr(c))
  PROVE  Pasa(p)
<1>1. cpu[c].estado = "ejecuta"
  BY DEF HayInstruccion
<1>2. /\ Vista(p)' = Maq(Instrucciones(c), r, SegDe(<<>>, contextos[p].tabla, ram'), Nada,
                         pantalla[p], TRUE)
      /\ \A q \in Pids \ {p} : Vista(q)' = Vista(q)
  BY <1>1, ContinuarVista
<1>3. Vista(p)' = Con(c, r, segs, Nada)
  BY <1>2 DEF Con
<1>4. QED
  BY <1>2, <1>3, SeHace

\* The same, when no byte changes.
LEMMA SigueIgual ==
  ASSUME Anchos, MemInv, ~ memoria_ajena, NEW c \in Cpus, NEW p \in Pids, p = cpu[c].pid, HayInstruccion(c),
         NEW r, NEW l, Continuar(c, r, l),
         UNCHANGED <<contextos, memVars, estado, pedido, pantalla>>,
         Con(c, r, Bajado(p), Nada) \in M!Instruccion(MaqDe(c), Instr(c))
  PROVE  Pasa(p)
<1>1. ram' = ram /\ UNCHANGED <<contextos, swap, estado, pedido, pantalla>>
  BY DEF memVars
<1>2. SegDe(<<>>, contextos[p].tabla, ram') = Bajado(p)
  BY <1>1, SegDeEntera
<1>3. \A q \in Pids \ {p} :
        SegDe(swap[q], contextos[q].tabla, ram') = SegDe(swap[q], contextos[q].tabla, ram)
  BY <1>1
<1>4. QED
  BY <1>1, <1>2, <1>3, SigueVista

\* An instruction that asks for something leaves it with the request.
LEMMA PideVista ==
  ASSUME Anchos, MemInv, ~ memoria_ajena, NEW c \in Cpus, NEW p \in Pids, p = cpu[c].pid, HayInstruccion(c),
         NEW x, PedirYEsperar(c, x) \/ Bloquear(c, x),
         Con(c, Avanzar(Reg(c)), Bajado(p), SinDireccion(x)) \in M!Instruccion(MaqDe(c), Instr(c))
  PROVE  Pasa(p)
<1>1. cpu[c].estado = "ejecuta"
  BY DEF HayInstruccion
<1>2. /\ Vista(p)' = Maq(Instrucciones(c), Avanzar(Reg(c)), Bajado(p), SinDireccion(x),
                         pantalla[p], TRUE)
      /\ \A q \in Pids \ {p} : Vista(q)' = Vista(q)
  BY <1>1, PedirVista
<1>3. Vista(p)' = Con(c, Avanzar(Reg(c)), Bajado(p), SinDireccion(x))
  BY <1>2 DEF Con
<1>4. QED
  BY <1>2, <1>3, SeHace

\* NOOP, SET, SUM, SUB, JNZ.
LEMMA ComunVista ==
  ASSUME Anchos, MemInv, ~ memoria_ajena, NEW c \in Cpus, NEW p \in Pids, p = cpu[c].pid, EjecutarComun(c)
  PROVE  Pasa(p)
<1>1. /\ HayInstruccion(c) /\ cpu[c].estado = "ejecuta" /\ Instr(c).op \in Comunes
      /\ Continuar(c, Comun(Reg(c), Instr(c)), cpu[c].lista)
      /\ UNCHANGED <<contextos, swap, estado, pedido, pantalla>> /\ ram' = ram
  BY DEF EjecutarComun, HayInstruccion, memVars
<1>2. Con(c, Comun(Reg(c), Instr(c)), Bajado(p), Nada) \in M!Instruccion(MaqDe(c), Instr(c))
  BY <1>1, HaceInstruccion
<1>3. UNCHANGED <<contextos, memVars, estado, pedido, pantalla>>
  BY DEF EjecutarComun
<1>4. QED
  BY <1>1, <1>2, <1>3, SigueIgual

\* EXIT, and the end of the program.
LEMMA ExitVista ==
  ASSUME Anchos, MemInv, ~ memoria_ajena, NEW c \in Cpus, EjecutarExit(c)
  PROVE  \E p \in Pids : Pasa(p)
<1>1. cpu[c].estado = "ejecuta" /\ Terminar(c, cpu[c].lista)
  BY DEF EjecutarExit
<1>2. Instr(c).op = "EXIT" \/ ~ HayInstruccion(c)
  BY DEF EjecutarExit, Toca
<1>3. Instr(c).op = "EXIT" => M!Instruccion(MaqDe(c), Instr(c)) = {}
  BY HaceInstruccion
<1>4. QED
  BY <1>1, <1>2, <1>3, SeAcaba

\* MOV_IN.
LEMMA MovInVista ==
  ASSUME Anchos, MemInv, ~ memoria_ajena, ~ memoria_ajena', NEW c \in Cpus, EjecutarMovIn(c)
  PROVE  \E p \in Pids : Pasa(p)
<1> DEFINE i == Instr(c)
           tam == TamanioRegistro(i.r)
           dl == Reg(c)["SI"]
<1>1. HayInstruccion(c) /\ cpu[c].estado = "ejecuta" /\ i.op = "MOV_IN"
  BY DEF EjecutarMovIn, Toca, HayInstruccion
<1>2. i.r \in Nombre /\ Reg(c) \in Registro
  BY <1>1, InstruccionReal, CpuEjecuta
<1>3. dl \in Palabras
  BY <1>2, RegistroValor DEF Nombre, DeUnaPalabra
<1>4. tam \in Nat \ {0} /\ (dl % TamMaxSegmento) + tam < Palabra
  BY <1>2, <1>3, TamanioChico
<1>5. cpu[c].lista \in Lista /\ ListaFiel(cpu[c].lista)
  BY ListasReales
<1>6. PICK p \in Pids : p = cpu[c].pid
  BY <1>1, CpuEjecuta
<1>7. ASSUME NEW l, Terminar(c, l)
      PROVE  \E q \in Pids : Pasa(q)
  BY <1>1, <1>7, SeAcaba
<1>8. ASSUME NEW df \in Usa(c, dl, tam),
             AccesoPosible(Alcanza(cpu[c].lista, df, tam, Actual)),
             Continuar(c, Avanzar(Setear(Reg(c), i.r, DeBytes(LeerMemoria(ram,
                            Alcanza(cpu[c].lista, df, tam, Actual))))),
                       UltimaLista(cpu[c].lista, df, tam, Actual)),
             Accede(c, {dl}, tam), UNCHANGED <<contextos, memVars, estado, pedido, pantalla>>
      PROVE  Pasa(p)
  <2>1. PICK lugares : lugares = Alcanza(cpu[c].lista, df, tam, Actual)
    OBVIOUS
  <2>a. Usa(c, dl, tam) = Traducir(contextos[p].tabla, dl, tam)
    BY <1>1, <1>6, <1>8, UsaReal
  <2>2. PICK g \in Donde(Bajado(p), dl, tam) :
          LeerMemoria(ram, lugares) = Leido(Bajado(p), g, dl, tam)
    BY <1>1, <1>3, <1>4, <1>5, <1>6, <1>8, <2>a, <2>1, AccesoVista
  <2>3. PICK r : r = Avanzar(Setear(Reg(c), i.r, DeBytes(Leido(Bajado(p), g, dl, tam))))
    OBVIOUS
  <2>4. Continuar(c, r, UltimaLista(cpu[c].lista, df, tam, Actual))
    BY <1>8, <2>1, <2>2, <2>3
  <2>5. Con(c, r, Bajado(p), Nada) \in M!Instruccion(MaqDe(c), i)
    BY <1>1, <1>6, <2>3, HaceInstruccion
  <2>6. UNCHANGED <<contextos, memVars, estado, pedido, pantalla>>
    BY <1>8
  <2>7. QED
    BY <1>1, <1>6, <2>4, <2>5, <2>6, SigueIgual
<1>9. QED
  BY <1>6, <1>7, <1>8 DEF EjecutarMovIn, Falta

\* MOV_OUT.
LEMMA MovOutVista ==
  ASSUME Anchos, MemInv, ~ memoria_ajena, ~ memoria_ajena', NEW c \in Cpus, EjecutarMovOut(c)
  PROVE  \E p \in Pids : Pasa(p)
<1> DEFINE i == Instr(c)
           tam == TamanioRegistro(i.r)
           dl == Reg(c)["DI"]
           datos == EnBytes(Reg(c)[i.r], tam)
<1>1. HayInstruccion(c) /\ cpu[c].estado = "ejecuta" /\ i.op = "MOV_OUT"
  BY DEF EjecutarMovOut, Toca, HayInstruccion
<1>2. i.r \in Nombre /\ Reg(c) \in Registro
  BY <1>1, InstruccionReal, CpuEjecuta
<1>3. dl \in Palabras
  BY <1>2, RegistroValor DEF Nombre, DeUnaPalabra
<1>4. tam \in Nat \ {0} /\ (dl % TamMaxSegmento) + tam < Palabra
  BY <1>2, <1>3, TamanioChico
<1>5. cpu[c].lista \in Lista /\ ListaFiel(cpu[c].lista)
  BY ListasReales
<1>6. PICK p \in Pids : p = cpu[c].pid
  BY <1>1, CpuEjecuta
<1>d. datos \in [1 .. tam -> Bytes]
  BY <1>2, <1>4, RegistroValor, EnBytesTipo
<1>7. ASSUME NEW l, Terminar(c, l)
      PROVE  \E q \in Pids : Pasa(q)
  BY <1>1, <1>7, SeAcaba
<1>8. ASSUME NEW df \in Usa(c, dl, tam),
             AccesoPosible(Alcanza(cpu[c].lista, df, tam, Actual)),
             ram' = EscribirMemoria(ram, Alcanza(cpu[c].lista, df, tam, Actual), datos),
             Continuar(c, Avanzar(Reg(c)), UltimaLista(cpu[c].lista, df, tam, Actual)),
             Accede(c, {dl}, tam), UNCHANGED <<contextos, swap, estado, pedido, pantalla>>
      PROVE  Pasa(p)
  <2>1. PICK lugares : lugares = Alcanza(cpu[c].lista, df, tam, Actual)
    OBVIOUS
  <2>a. Usa(c, dl, tam) = Traducir(contextos[p].tabla, dl, tam)
    BY <1>1, <1>6, <1>8, UsaReal
  <2>2. PICK g \in Donde(Bajado(p), dl, tam) : SeEscribeEn(p, g, dl, tam, lugares)
    BY <1>1, <1>3, <1>4, <1>5, <1>6, <1>8, <2>a, <2>1, AccesoVista
  <2>3. PICK b : b = datos
    OBVIOUS
  <2>4. /\ SegDe(<<>>, contextos[p].tabla, ram') = Escrito(Bajado(p), g, dl, b)
        /\ \A q \in Pids \ {p} :
             SegDe(swap[q], contextos[q].tabla, ram') = SegDe(swap[q], contextos[q].tabla, ram)
    BY <1>8, <1>d, <2>1, <2>2, <2>3 DEF SeEscribeEn
  <2>5. UNCHANGED <<contextos, swap, estado, pedido, pantalla>>
    BY <1>8
  <2>6. Con(c, Avanzar(Reg(c)), Escrito(Bajado(p), g, dl, b), Nada) \in M!Instruccion(MaqDe(c), i)
    BY <1>1, <1>6, <2>3, HaceInstruccion
  <2>7. QED
    BY <1>1, <1>6, <1>8, <2>4, <2>5, <2>6, SigueVista
<1>9. QED
  BY <1>6, <1>7, <1>8 DEF EjecutarMovOut, Falta

\* COPY_MEM: what is read is written, whatever sticks each half was found in.
LEMMA CopyMemVista ==
  ASSUME Anchos, MemInv, ~ memoria_ajena, ~ memoria_ajena', NEW c \in Cpus, EjecutarCopyMem(c)
  PROVE  \E p \in Pids : Pasa(p)
<1> DEFINE i == Instr(c)
           tam == Reg(c)[i.r]
           si == Reg(c)["SI"]
           di == Reg(c)["DI"]
<1>1. HayInstruccion(c) /\ cpu[c].estado = "ejecuta" /\ i.op = "COPY_MEM"
  BY DEF EjecutarCopyMem, Toca, HayInstruccion
<1>2. i.r \in Nombre /\ Reg(c) \in Registro
  BY <1>1, InstruccionReal, CpuEjecuta
<1>3. si \in Palabras /\ di \in Palabras /\ tam \in Nat
  BY <1>2, RegistroValor DEF Nombre, DeUnaPalabra
<1>5. cpu[c].lista \in Lista /\ ListaFiel(cpu[c].lista)
  BY ListasReales
<1>6. PICK p \in Pids : p = cpu[c].pid
  BY <1>1, CpuEjecuta
<1>7. ASSUME NEW l, Terminar(c, l)
      PROVE  \E q \in Pids : Pasa(q)
  BY <1>1, <1>7, SeAcaba
<1>8. ASSUME tam = 0, Continuar(c, Avanzar(Reg(c)), cpu[c].lista),
             UNCHANGED <<contextos, memVars, estado, pedido, pantalla>>
      PROVE  Pasa(p)
  <2>1. Con(c, Avanzar(Reg(c)), Bajado(p), Nada) \in M!Instruccion(MaqDe(c), i)
    BY <1>1, <1>6, <1>8, HaceInstruccion
  <2>2. QED
    BY <1>1, <1>6, <1>8, <2>1, SigueIgual
<1>9. ASSUME tam > 0, NEW df \in Usa(c, si, tam), NEW dg \in Usa(c, di, tam),
             NEW de, de = Alcanza(cpu[c].lista, df, tam, Actual),
             NEW media, media = UltimaLista(cpu[c].lista, df, tam, Actual),
             NEW a, a = Alcanza(media, dg, tam, Actual),
             NEW lista, AccesoPosible(de), AccesoPosible(a),
             ram' = EscribirMemoria(ram, a, LeerMemoria(ram, de)),
             Continuar(c, Avanzar(Reg(c)), lista),
             Accede(c, {si, di}, tam), UNCHANGED <<contextos, swap, estado, pedido, pantalla>>
      PROVE  Pasa(p)
  <2>1. tam \in Nat \ {0}
    BY <1>3, <1>9
  <2>2. PICK datos : datos = LeerMemoria(ram, de)
    OBVIOUS
  <2>a. /\ Usa(c, si, tam) = Traducir(contextos[p].tabla, si, tam)
        /\ Usa(c, di, tam) = Traducir(contextos[p].tabla, di, tam)
    BY <1>1, <1>6, <1>9, UsaReal
  <2>b. media \in Lista /\ ListaFiel(media)
    BY <1>5, <1>9, ListaDespues
  \* What wraps is not read: there is less memory than that.
  <2>c. (si % TamMaxSegmento) + tam < Palabra /\ (di % TamMaxSegmento) + tam < Palabra
    BY <1>1, <1>3, <1>5, <1>9, <2>1, <2>b, AccesoSinVuelta
  <2>3. datos \in [1 .. tam -> Bytes]
    BY <1>1, <1>3, <1>5, <1>9, <2>1, <2>2, <2>c, AccesoReal
  <2>4. PICK g \in Donde(Bajado(p), si, tam) : datos = Leido(Bajado(p), g, si, tam)
    BY <1>1, <1>3, <1>5, <1>6, <1>9, <2>1, <2>2, <2>a, <2>c, AccesoVista
  <2>5. PICK h \in Donde(Bajado(p), di, tam) : SeEscribeEn(p, h, di, tam, a)
    BY <1>1, <1>3, <1>6, <1>9, <2>1, <2>a, <2>b, <2>c, AccesoVista
  <2>6. /\ SegDe(<<>>, contextos[p].tabla, ram') = Escrito(Bajado(p), h, di, datos)
        /\ \A q \in Pids \ {p} :
             SegDe(swap[q], contextos[q].tabla, ram') = SegDe(swap[q], contextos[q].tabla, ram)
    BY <1>9, <2>2, <2>3, <2>5 DEF SeEscribeEn
  <2>7. UNCHANGED <<contextos, swap, estado, pedido, pantalla>>
    BY <1>9
  <2>8. Con(c, Avanzar(Reg(c)), Escrito(Bajado(p), h, di, datos), Nada)
          \in M!Instruccion(MaqDe(c), i)
    BY <1>1, <1>6, <2>1, <2>4, HaceInstruccion
  <2>9. QED
    BY <1>1, <1>6, <1>9, <2>6, <2>7, <2>8, SigueVista
<1>10. QED
  BY <1>6, <1>7, <1>8, <1>9 DEF EjecutarCopyMem, Falta

\* MEM_ALLOC, MEM_FREE and SLEEP: the request is made.
LEMMA PedidoVista ==
  ASSUME Anchos, MemInv, ~ memoria_ajena, NEW c \in Cpus, EjecutarSyscallMemoria(c) \/ EjecutarSleep(c)
  PROVE  \E p \in Pids : Pasa(p)
<1>1. HayInstruccion(c) /\ cpu[c].estado = "ejecuta"
  BY DEF EjecutarSyscallMemoria, EjecutarSleep, Toca, HayInstruccion
<1>2. PICK p \in Pids : p = cpu[c].pid
  BY <1>1, CpuEjecuta
<1>3. PICK i : i = Instr(c)
  OBVIOUS
<1>4. ASSUME NEW x, PedirYEsperar(c, x) \/ Bloquear(c, x), x.op \notin {"STDIN", "STDOUT"},
             Con(c, Avanzar(Reg(c)), Bajado(p), x) \in M!Instruccion(MaqDe(c), i)
      PROVE  Pasa(p)
  <2>1. SinDireccion(x) = x
    BY <1>4 DEF SinDireccion
  <2>2. QED
    BY <1>1, <1>2, <1>3, <1>4, <2>1, PideVista
<1>5. CASE Toca(c, "MEM_ALLOC") /\ PedirYEsperar(c, [op |-> "MEM_ALLOC", id |-> i.id, tam |-> i.tam])
  <2>1. Con(c, Avanzar(Reg(c)), Bajado(p), [op |-> "MEM_ALLOC", id |-> i.id, tam |-> i.tam])
          \in M!Instruccion(MaqDe(c), i)
    BY <1>2, <1>3, <1>5, HaceInstruccion DEF Toca
  <2>2. QED
    BY <1>4, <1>5, <2>1
<1>6. CASE Toca(c, "MEM_FREE") /\ PedirYEsperar(c, [op |-> "MEM_FREE", id |-> i.id])
  <2>1. Con(c, Avanzar(Reg(c)), Bajado(p), [op |-> "MEM_FREE", id |-> i.id])
          \in M!Instruccion(MaqDe(c), i)
    BY <1>2, <1>3, <1>6, HaceInstruccion DEF Toca
  <2>2. QED
    BY <1>4, <1>6, <2>1
<1>7. CASE EjecutarSleep(c)
  <2>1. Con(c, Avanzar(Reg(c)), Bajado(p), [op |-> "SLEEP"]) \in M!Instruccion(MaqDe(c), i)
    BY <1>2, <1>3, <1>7, HaceInstruccion DEF EjecutarSleep, Toca
  <2>2. QED
    BY <1>4, <1>7, <2>1 DEF EjecutarSleep
<1>8. QED
  BY <1>3, <1>5, <1>6, <1>7 DEF EjecutarSyscallMemoria

\* STDIN and STDOUT: of an address of the process, or the process ends.
LEMMA DatosVista ==
  ASSUME Anchos, MemInv, ~ memoria_ajena, ~ memoria_ajena', NEW c \in Cpus, EjecutarDatos(c)
  PROVE  \E p \in Pids : Pasa(p)
<1> DEFINE i == Instr(c)
           tam == Reg(c)[i.s]
           dl == Reg(c)[i.r]
<1>1. HayInstruccion(c) /\ cpu[c].estado = "ejecuta" /\ i.op \in {"STDIN", "STDOUT"}
  BY DEF EjecutarDatos, HayInstruccion
<1>2. i.r \in Nombre /\ i.s \in Nombre /\ Reg(c) \in Registro
  BY <1>1, InstruccionReal, CpuEjecuta
<1>3. dl \in Palabras /\ tam \in Nat
  BY <1>2, RegistroValor
<1>5. PICK p \in Pids : p = cpu[c].pid
  BY <1>1, CpuEjecuta
<1>6. CASE /\ tam = 0
           /\ Continuar(c, Avanzar(Reg(c)), cpu[c].lista)
           /\ UNCHANGED <<contextos, memVars, estado, pedido, pantalla>>
  <2>1. Con(c, Avanzar(Reg(c)), Bajado(p), Nada) \in M!Instruccion(MaqDe(c), i)
    BY <1>1, <1>5, <1>6, HaceInstruccion
  <2>2. QED
    BY <1>1, <1>5, <1>6, <2>1, SigueIgual
<1>7. CASE tam > 0 /\ Falta(c, {dl}, tam)
  <2>1. tam \in Nat \ {0} /\ Usa(c, dl, tam) = {} /\ Terminar(c, cpu[c].lista)
    BY <1>3, <1>7 DEF Falta
  <2>2. Donde(Bajado(p), dl, tam) = {}
    BY <1>1, <1>3, <1>5, <2>1, FaltaVista
  <2>3. M!Instruccion(MaqDe(c), i) = {}
    BY <1>1, <1>5, <2>1, <2>2, HaceInstruccion
  <2>4. QED
    BY <1>1, <2>1, <2>3, SeAcaba
<1>8. ASSUME tam > 0, NEW df \in Usa(c, dl, tam),
             Bloquear(c, [op |-> i.op, dl |-> dl, df |-> df, tam |-> tam]),
             ~ TablaVieja(c, {dl}, tam), ~ Desborda(dl, tam)
      PROVE  Pasa(p)
  <2>1. tam \in Nat \ {0}
    BY <1>3, <1>8
  <2>2. Donde(Bajado(p), dl, tam) # {}
    <3>1. df \in Traducir(contextos[p].tabla, dl, tam)
      BY <1>1, <1>5, <1>8, CpuEjecuta DEF Usa, TablaVieja
    <3>2. (dl % TamMaxSegmento) + tam < Palabra
      BY <1>3, <1>8, <2>1, Desplazamiento, TotalCabe DEF Desborda, Palabras
    <3>3. Caben(contextos[p].tabla, dl, tam) # {}
      BY <1>3, <2>1, <3>1, <3>2, TablaReal, TraducirSinVuelta
    <3>4. dl \in Nat /\ tam \in Nat
      BY <1>3 DEF Palabras
    <3>5. QED
      BY <3>3, <3>4, CabeReal
  <2>3. PICK x : x = [op |-> i.op, dl |-> dl, df |-> df, tam |-> tam]
    OBVIOUS
  <2>4. SinDireccion(x) = [op |-> i.op, dl |-> dl, tam |-> tam]
    BY <1>1, <2>3 DEF SinDireccion
  <2>5. Con(c, Avanzar(Reg(c)), Bajado(p), [op |-> i.op, dl |-> dl, tam |-> tam])
          \in M!Instruccion(MaqDe(c), i)
    BY <1>1, <1>5, <2>1, <2>2, HaceInstruccion
  <2>6. Bloquear(c, x)
    BY <1>8, <2>3
  <2>7. Con(c, Avanzar(Reg(c)), Bajado(p), SinDireccion(x)) \in M!Instruccion(MaqDe(c), i)
    BY <2>4, <2>5
  <2>8. QED
    BY <1>1, <1>5, <2>6, <2>7, PideVista
<1>9. QED
  BY <1>5, <1>6, <1>7, <1>8 DEF EjecutarDatos, suspVars

\* Every instruction.
LEMMA EjecutarVista ==
  ASSUME Anchos, MemInv, ~ memoria_ajena, ~ memoria_ajena', NEW c \in Cpus, Ejecutar(c)
  PROVE  \E p \in Pids : Pasa(p)
<1>1. CASE EjecutarComun(c)
  <2>1. PICK p \in Pids : p = cpu[c].pid
    BY <1>1, CpuEjecuta DEF EjecutarComun, HayInstruccion
  <2>2. QED
    BY <1>1, <2>1, ComunVista
<1>2. QED
  BY <1>1, ExitVista, MovInVista, MovOutVista, CopyMemVista, PedidoVista, DatosVista DEF Ejecutar

-----------------------------------------------------------------------------
(* What moves a process and no program sees.                                *)

\* The same registers, wherever they are, and the same of all the rest.
LEMMA VistaMisma ==
  ASSUME NEW q \in Pids, RegDe(cpu', contextos', q) = RegDe(cpu, contextos, q),
         contextos'[q].instrucciones = contextos[q].instrucciones,
         SegDe(swap'[q], contextos'[q].tabla, ram') = SegDe(swap[q], contextos[q].tabla, ram),
         SinDireccion(pedido'[q]) = SinDireccion(pedido[q]),
         pantalla'[q] = pantalla[q],
         (estado'[q] = "EXIT") <=> (estado[q] = "EXIT")
  PROVE  Vista(q)' = Vista(q)
<1>1. PICK w : w = RegDe(cpu, contextos, q)
  OBVIOUS
<1>2. PICK s : s = SegDe(swap[q], contextos[q].tabla, ram)
  OBVIOUS
<1>3. PICK x : x = SinDireccion(pedido[q])
  OBVIOUS
<1>4. Vista(q) = Maq(contextos[q].instrucciones, w, s, x, pantalla[q], estado[q] # "EXIT")
  BY <1>1, <1>2, <1>3, VistaDe
<1>5. Vista(q)' = Maq(contextos[q].instrucciones, w, s, x, pantalla[q], estado'[q] # "EXIT")
  BY <1>1, <1>2, <1>3, VistaDe
<1>6. QED
  BY <1>4, <1>5, VivoEs

\* OP_EJECUTAR_PROCESO: the CPU has not asked for the context yet.
LEMMA DespacharVista ==
  ASSUME MemInv, NEW c \in Cpus, NEW p \in Pids, Despachar(c, p)
  PROVE  NadiePasa
<1>1. /\ cpu \in [Cpus -> CpuReal] /\ estado \in [Pids -> EstadosProceso]
  BY DEF MemInv, Memoria, Tipos
<1>2. /\ cpu[c].estado = "libre" /\ estado[p] = "READY"
      /\ estado' = [estado EXCEPT ![p] = "EXEC"]
      /\ cpu' = [cpu EXCEPT ![c].estado = "asignada", ![c].pid = p]
      /\ UNCHANGED <<contextos, ram, swap, pedido, pantalla>>
  BY DEF Despachar, memVars
<1>3. /\ cpu'[c].estado = "asignada" /\ \A d \in Cpus \ {c} : cpu'[d] = cpu[d]
  <2>1. cpu' = [cpu EXCEPT ![c] = [cpu[c] EXCEPT !.estado = "asignada", !.pid = p]]
    BY <1>2
  <2>2. cpu'[c] = [cpu[c] EXCEPT !.estado = "asignada", !.pid = p] /\ cpu[c] \in CpuReal
    BY <1>1, <2>1
  <2>3. \A d \in Cpus \ {c} : cpu'[d] = cpu[d]
    BY <1>1, <2>1
  <2>4. QED
    BY <2>2, <2>3 DEF CpuReal
<1>4. ASSUME NEW q \in Pids
      PROVE  Vista(q)' = Vista(q)
  <2>1. CpusIgual(q)
    BY <1>2, <1>3 DEF CpusIgual, Corriendo
  <2>2. (estado'[q] = "EXIT") <=> (estado[q] = "EXIT")
    BY <1>1, <1>2
  <2>3. QED
    BY <1>2, <2>1, <2>2, VistaIgual
<1>5. QED
  BY <1>4 DEF NadiePasa

\* obtener_contexto: the registers that arrive are those that the Kernel Memory had.
LEMMA ObtenerVista ==
  ASSUME MemInv, NEW c \in Cpus, ObtenerContexto(c)
  PROVE  NadiePasa
<1>1. cpu \in [Cpus -> CpuReal]
  BY DEF MemInv, Memoria, Tipos
<1>2. PICK p \in Pids : p = cpu[c].pid
  BY ProcesoEnCpu DEF ObtenerContexto
<1>3. \A d \in Cpus \ {c} : cpu[d].pid # p
  BY <1>2, ProcesoEnCpu DEF ObtenerContexto
<1>4. PICK e : e = IF cpu[c].estado = "asignada" THEN "ejecuta" ELSE "chequea"
  OBVIOUS
<1>5. /\ cpu[c].estado \in {"asignada", "refresca"} /\ e \in Corriendo
      /\ UNCHANGED <<contextos, ram, swap, estado, pedido, pantalla>>
  BY <1>4 DEF ObtenerContexto, memVars, Corriendo
<1>6. /\ cpu'[c].estado = e /\ cpu'[c].pid = p
      /\ cpu'[c].registros = contextos[p].registros
      /\ \A d \in Cpus \ {c} : cpu'[d] = cpu[d]
  <2>1. PICK r : r = contextos[cpu[c].pid].registros
    OBVIOUS
  <2>2. PICK t : t = contextos[cpu[c].pid].tabla
    OBVIOUS
  <2>3. cpu' = [cpu EXCEPT ![c] = [cpu[c] EXCEPT !.registros = r, !.tabla = t, !.estado = e]]
    BY <1>4, <2>1, <2>2 DEF ObtenerContexto
  <2>4. cpu'[c] = [cpu[c] EXCEPT !.registros = r, !.tabla = t, !.estado = e] /\ cpu[c] \in CpuReal
    BY <1>1, <2>3
  <2>5. \A d \in Cpus \ {c} : cpu'[d] = cpu[d]
    BY <1>1, <2>3
  <2>6. QED
    BY <1>2, <2>1, <2>4, <2>5 DEF CpuReal
<1>7. RegDe(cpu, contextos, p) = contextos[p].registros
  <2>1. \A d \in Cpus : cpu[d].pid = p => cpu[d].estado \notin Corriendo
    BY <1>3, <1>5 DEF Corriendo
  <2>2. QED
    BY <2>1, RegDeNinguna
<1>8. RegDe(cpu', contextos', p) = contextos[p].registros
  <2>1. \A d \in Cpus \ {c} : cpu'[d].pid # p
    BY <1>3, <1>6
  <2>2. RegDe(cpu', contextos', p) = cpu'[c].registros
    BY <1>5, <1>6, <2>1, RegDeUna
  <2>3. QED
    BY <1>6, <2>2
<1>9. Vista(p)' = Vista(p)
  BY <1>5, <1>7, <1>8, VistaMisma
<1>10. ASSUME NEW q \in Pids \ {p}
       PROVE  Vista(q)' = Vista(q)
  <2>1. CpusIgual(q)
    BY <1>1, <1>2, <1>6, CpusAjenas
  <2>2. QED
    BY <1>5, <2>1, VistaIgual
<1>11. QED
  BY <1>9, <1>10 DEF NadiePasa

\* check_interrupt: without an interrupt the CPU goes on with what it has.
LEMMA NoInterrumpirVista ==
  ASSUME MemInv, NEW c \in Cpus, NoInterrumpir(c)
  PROVE  NadiePasa
<1>1. cpu \in [Cpus -> CpuReal]
  BY DEF MemInv, Memoria, Tipos
<1>2. /\ cpu[c].estado = "chequea"
      /\ cpu' = [cpu EXCEPT ![c].estado = "ejecuta"]
      /\ UNCHANGED <<contextos, ram, swap, estado, pedido, pantalla>>
  BY DEF NoInterrumpir, memVars
<1>3. /\ cpu'[c] = [cpu[c] EXCEPT !.estado = "ejecuta"] /\ cpu[c] \in CpuReal
      /\ \A d \in Cpus \ {c} : cpu'[d] = cpu[d]
  BY <1>1, <1>2
<1>4. cpu'[c].estado = "ejecuta" /\ cpu'[c].pid = cpu[c].pid /\ cpu'[c].registros = cpu[c].registros
  BY <1>3 DEF CpuReal
<1>5. ASSUME NEW q \in Pids
      PROVE  Vista(q)' = Vista(q)
  <2>1. CpusIgual(q)
    BY <1>2, <1>3, <1>4 DEF CpusIgual, Corriendo
  <2>2. QED
    BY <1>2, <2>1, VistaIgual
<1>6. QED
  BY <1>5 DEF NadiePasa

\* check_interrupt: what is saved is what the CPU had.
LEMMA InterrumpirVista ==
  ASSUME MemInv, NEW c \in Cpus, Interrumpir(c)
  PROVE  NadiePasa
<1>1. /\ cpu \in [Cpus -> CpuReal] /\ contextos \in [Pids -> ContextoReal]
      /\ estado \in [Pids -> EstadosProceso]
  BY DEF MemInv, Memoria, Tipos
<1>2. PICK p \in Pids : p = cpu[c].pid
  BY ProcesoEnCpu DEF Interrumpir
<1>3. /\ estado[p] # "EXIT" /\ \A d \in Cpus \ {c} : cpu[d].pid # p
  BY <1>2, ProcesoEnCpu DEF Interrumpir
<1>4. /\ cpu[c].estado = "chequea"
      /\ contextos' = [contextos EXCEPT ![p].registros = cpu[c].registros]
      /\ estado' = [estado EXCEPT ![p] = "READY"]
      /\ UNCHANGED <<ram, swap, pedido, pantalla>>
  BY <1>2 DEF Interrumpir, GuardarContexto, Reg, memVars
<1>5. cpu'[c].pid = Nadie /\ \A d \in Cpus \ {c} : cpu'[d] = cpu[d]
  BY <1>1 DEF Interrumpir, Soltar, Libre
<1>6. /\ contextos'[p].registros = cpu[c].registros
      /\ contextos'[p].instrucciones = contextos[p].instrucciones
      /\ contextos'[p].tabla = contextos[p].tabla
      /\ \A q \in Pids \ {p} : contextos'[q] = contextos[q]
  BY <1>1, <1>4 DEF ContextoReal
<1>7. RegDe(cpu, contextos, p) = cpu[c].registros
  <2>1. cpu[c].estado \in Corriendo
    BY <1>4 DEF Corriendo
  <2>2. QED
    BY <1>2, <1>3, <2>1, RegDeUna
<1>8. RegDe(cpu', contextos', p) = cpu[c].registros
  <2>1. \A d \in Cpus : cpu'[d].pid # p
    BY <1>3, <1>5, EjecucionOK
  <2>2. RegDe(cpu', contextos', p) = contextos'[p].registros
    BY <2>1, RegDeNinguna
  <2>3. QED
    BY <1>6, <2>2
<1>9. Vista(p)' = Vista(p)
  <2>1. estado'[p] = "READY"
    BY <1>1, <1>4
  <2>2. QED
    BY <1>3, <1>4, <1>6, <1>7, <1>8, <2>1, VistaMisma
<1>10. ASSUME NEW q \in Pids \ {p}
       PROVE  Vista(q)' = Vista(q)
  <2>1. CpusIgual(q)
    BY <1>1, <1>2, <1>5, CpusAjenas
  <2>2. estado'[q] = estado[q]
    BY <1>1, <1>4
  <2>3. QED
    BY <1>4, <1>6, <2>1, <2>2, VistaQuieta
<1>11. QED
  BY <1>9, <1>10 DEF NadiePasa

\* Every step of a CPU.
LEMMA PasoCpuVista ==
  ASSUME Anchos, MemInv, ~ memoria_ajena, ~ memoria_ajena', NEW c \in Cpus, PasoCpu(c)
  PROVE  NadiePasa \/ \E p \in Pids : Pasa(p)
<1>1. CASE \E p \in Pids : Despachar(c, p)
  BY <1>1, DespacharVista
<1>2. CASE ObtenerContexto(c)
  BY <1>2, ObtenerVista
<1>3. CASE NoInterrumpir(c)
  BY <1>3, NoInterrumpirVista
<1>4. CASE Interrumpir(c)
  BY <1>4, InterrumpirVista
<1>5. CASE Ejecutar(c)
  BY <1>5, EjecutarVista
<1>6. QED
  BY <1>1, <1>2, <1>3, <1>4, <1>5 DEF PasoCpu

-----------------------------------------------------------------------------
(* What an answer is for the machine of a program.                          *)

\* A machine that waits for something: what may be served to it.
LEMMA PasoServido ==
  ASSUME NEW pr, NEW re, NEW se, NEW x, NEW pa, NEW vi, x.op # "NADA",
         NEW t \in M!Servido(Maq(pr, re, se, x, pa, vi))
  PROVE  t \in M!Siguientes(Maq(pr, re, se, x, pa, vi))
<1>1. Maq(pr, re, se, x, pa, vi).pedido = x
  BY MaquinaDe
<1>2. x # M!Nada
  BY DEF M!Nada
<1>3. QED
  BY <1>1, <1>2 DEF M!Siguientes

\* A request for memory may be refused.
LEMMA PasoNegado ==
  ASSUME NEW pr, NEW re, NEW se, NEW x, NEW pa, NEW vi, x.op = "MEM_ALLOC"
  PROVE  Acabado(pa) \in M!Siguientes(Maq(pr, re, se, x, pa, vi))
<1> DEFINE s == Maq(pr, re, se, x, pa, vi)
<1>1. s.pedido = x /\ M!Fin(s) = Acabado(pa)
  BY MaquinaDe
<1> HIDE DEF s
<1>2. M!PuedeFallar(s)
  BY <1>1 DEF M!PuedeFallar
<1>3. QED
  BY <1>1, <1>2 DEF M!Siguientes, s

\* A segment of a machine, of some bytes.
SegmentoDe(id_, bytes_) == [id |-> id_, bytes |-> bytes_]

\* MEM_ALLOC: a segment of any bytes.
LEMMA ServidoCrear ==
  ASSUME NEW pr, NEW re, NEW se, NEW x, NEW pa, NEW vi, x.op = "MEM_ALLOC",
         NEW b \in TantosBytes(x.tam)
  PROVE  Maq(pr, re, Append(se, SegmentoDe(x.id, b)), Nada, pa, vi)
           \in M!Siguientes(Maq(pr, re, se, x, pa, vi))
<1> DEFINE s == Maq(pr, re, se, x, pa, vi)
<1>1. /\ s.pedido = x /\ M!Hecho(s) = Maq(pr, re, se, Nada, pa, vi)
  BY MaquinaDe
<1>2. PICK n : n = Append(se, SegmentoDe(x.id, b))
  OBVIOUS
<1>3. [M!Hecho(s) EXCEPT !.segmentos = Append(@, [id |-> x.id, bytes |-> b])]
        = Maq(pr, re, n, Nada, pa, vi)
  <2>1. PICK h : h = Maq(pr, re, se, Nada, pa, vi)
    OBVIOUS
  <2>2. h.segmentos = se /\ [h EXCEPT !.segmentos = n] = Maq(pr, re, n, Nada, pa, vi)
    BY <2>1, MaqCambia, MaquinaDe
  <2>3. [h EXCEPT !.segmentos = Append(@, [id |-> x.id, bytes |-> b])] = [h EXCEPT !.segmentos = n]
    BY <1>2, <2>2 DEF SegmentoDe
  <2>4. QED
    BY <1>1, <2>1, <2>2, <2>3
<1>4. b \in [1 .. s.pedido.tam -> M!Bytes]
  BY <1>1, MismosRegistros DEF TantosBytes
<1> HIDE DEF s
<1>5. Maq(pr, re, n, Nada, pa, vi) \in M!Creado(s)
  BY <1>1, <1>3, <1>4 DEF M!Creado
<1>6. M!Servido(s) = M!Creado(s)
  BY <1>1 DEF M!Servido
<1>7. QED
  BY <1>2, <1>5, <1>6, PasoServido DEF s

\* MEM_FREE: the segment goes, or, if there is none, the program ends.
LEMMA ServidoEliminar ==
  ASSUME NEW pr, NEW re, NEW se, NEW x, NEW pa, NEW vi, x.op = "MEM_FREE"
  PROVE  /\ BuscarSegmento(se, x.id) = {} =>
              Acabado(pa) \in M!Siguientes(Maq(pr, re, se, x, pa, vi))
         /\ \A i \in BuscarSegmento(se, x.id) :
              Maq(pr, re, RemoveAt(se, i), Nada, pa, vi)
                \in M!Siguientes(Maq(pr, re, se, x, pa, vi))
<1> DEFINE s == Maq(pr, re, se, x, pa, vi)
<1>1. /\ s.pedido = x /\ s.segmentos = se /\ M!Fin(s) = Acabado(pa)
      /\ M!Hecho(s) = Maq(pr, re, se, Nada, pa, vi)
  BY MaquinaDe
<1>2. {i \in DOMAIN se : /\ se[i].id = x.id
                         /\ \A j \in 1 .. i - 1 : se[j].id # x.id}
        = BuscarSegmento(se, x.id)
  BY DEF BuscarSegmento
<1>3. M!Servido(s) = M!Eliminado(s)
  <2> HIDE DEF s
  <2>1. QED
    BY <1>1 DEF M!Servido
<1>4. ASSUME BuscarSegmento(se, x.id) = {}
      PROVE  Acabado(pa) \in M!Siguientes(s)
  <2> HIDE DEF s
  <2>1. M!Eliminado(s) = {M!Fin(s)}
    BY <1>1, <1>2, <1>4 DEF M!Eliminado
  <2>2. QED
    BY <1>1, <1>3, <2>1, PasoServido DEF s
<1>5. ASSUME NEW i \in BuscarSegmento(se, x.id)
      PROVE  Maq(pr, re, RemoveAt(se, i), Nada, pa, vi) \in M!Siguientes(s)
  <2>1. PICK n : n = RemoveAt(se, i)
    OBVIOUS
  <2>2. M!RemoveAt(se, i) = n
    BY <2>1 DEF M!RemoveAt, RemoveAt
  <2>3. [M!Hecho(s) EXCEPT !.segmentos = M!RemoveAt(@, i)] = Maq(pr, re, n, Nada, pa, vi)
    <3>1. PICK h : h = Maq(pr, re, se, Nada, pa, vi)
      OBVIOUS
    <3>2. h.segmentos = se /\ [h EXCEPT !.segmentos = n] = Maq(pr, re, n, Nada, pa, vi)
      BY <3>1, MaqCambia, MaquinaDe
    <3>3. [h EXCEPT !.segmentos = M!RemoveAt(@, i)] = [h EXCEPT !.segmentos = n]
      BY <2>2, <3>2
    <3>4. QED
      BY <1>1, <3>1, <3>2, <3>3
  <2> HIDE DEF s
  <2>4. M!Eliminado(s)
          = {[M!Hecho(s) EXCEPT !.segmentos = M!RemoveAt(@, j)] : j \in BuscarSegmento(se, x.id)}
    BY <1>1, <1>2, <1>5 DEF M!Eliminado
  <2>5. Maq(pr, re, n, Nada, pa, vi) \in M!Eliminado(s)
    BY <1>5, <2>3, <2>4
  <2>6. QED
    BY <1>3, <2>1, <2>5, PasoServido DEF s
<1>6. QED
  BY <1>4, <1>5

\* SLEEP, STDIN of any bytes, STDOUT of those of a segment.
LEMMA ServidoIo ==
  ASSUME NEW pr, NEW re, NEW se, NEW x, NEW pa, NEW vi
  PROVE  /\ x.op = "SLEEP" =>
              Maq(pr, re, se, Nada, pa, vi) \in M!Siguientes(Maq(pr, re, se, x, pa, vi))
         /\ x.op = "STDIN" =>
              \A g \in Donde(se, x.dl, x.tam), b \in TantosBytes(x.tam) :
                Maq(pr, re, Escrito(se, g, x.dl, b), Nada, pa, vi)
                  \in M!Siguientes(Maq(pr, re, se, x, pa, vi))
         /\ x.op = "STDOUT" =>
              \A g \in Donde(se, x.dl, x.tam) :
                Maq(pr, re, se, Nada, Leido(se, g, x.dl, x.tam), vi)
                  \in M!Siguientes(Maq(pr, re, se, x, pa, vi))
<1> DEFINE s == Maq(pr, re, se, x, pa, vi)
<1>1. /\ s.pedido = x /\ M!Hecho(s) = Maq(pr, re, se, Nada, pa, vi)
      /\ M!Segmento(s, x.dl, x.tam) = Donde(se, x.dl, x.tam)
  BY MaquinaDe
<1>2. ASSUME x.op = "SLEEP"
      PROVE  Maq(pr, re, se, Nada, pa, vi) \in M!Siguientes(s)
  <2> HIDE DEF s
  <2>1. M!Servido(s) = {M!Hecho(s)}
    BY <1>1, <1>2 DEF M!Servido
  <2>2. QED
    BY <1>1, <1>2, <2>1, PasoServido DEF s
<1>3. ASSUME x.op = "STDIN", NEW g \in Donde(se, x.dl, x.tam), NEW b \in TantosBytes(x.tam)
      PROVE  Maq(pr, re, Escrito(se, g, x.dl, b), Nada, pa, vi) \in M!Siguientes(s)
  <2>1. PICK n : n = Escrito(se, g, x.dl, b)
    OBVIOUS
  <2>2. M!Escribe(s, g, x.dl, b) = Maq(pr, re, n, x, pa, vi)
    BY <2>1, MaquinaDe
  <2>3. M!Hecho(Maq(pr, re, n, x, pa, vi)) = Maq(pr, re, n, Nada, pa, vi)
    BY MaquinaDe
  <2>4. b \in [1 .. x.tam -> M!Bytes]
    BY <1>3, MismosRegistros DEF TantosBytes
  <2> HIDE DEF s
  <2>5. Maq(pr, re, n, Nada, pa, vi) \in M!Leido(s)
    BY <1>1, <1>3, <2>2, <2>3, <2>4 DEF M!Leido
  <2>6. M!Servido(s) = M!Leido(s)
    BY <1>1, <1>3 DEF M!Servido
  <2>7. QED
    BY <1>3, <2>1, <2>5, <2>6, PasoServido DEF s
<1>4. ASSUME x.op = "STDOUT", NEW g \in Donde(se, x.dl, x.tam)
      PROVE  Maq(pr, re, se, Nada, Leido(se, g, x.dl, x.tam), vi) \in M!Siguientes(s)
  <2>1. PICK n : n = Leido(se, g, x.dl, x.tam)
    OBVIOUS
  <2>2. M!Lee(s, g, x.dl, x.tam) = n
    BY <2>1, MaquinaDe
  <2>3. [M!Hecho(s) EXCEPT !.pantalla = n] = Maq(pr, re, se, Nada, n, vi)
    BY <1>1, MaqCambia
  <2> HIDE DEF s
  <2>4. Maq(pr, re, se, Nada, n, vi) \in M!Mostrado(s)
    BY <1>1, <1>4, <2>2, <2>3 DEF M!Mostrado
  <2>5. M!Servido(s) = M!Mostrado(s)
    BY <1>1, <1>4 DEF M!Servido
  <2>6. QED
    BY <1>4, <2>1, <2>4, <2>5, PasoServido DEF s
<1>5. QED
  BY <1>2, <1>3, <1>4

-----------------------------------------------------------------------------
(* The bytes of a table.                                                    *)

Lleno(s, m) == SegmentoDe(s.id, [k \in 1 .. s.limite |-> m[s.base + k - 1]])

Llenos(t, m) == [i \in DOMAIN t |-> Lleno(t[i], m)]

\* They are what a program has of it.
LEMMA SegDeLlenos ==
  ASSUME NEW S, NEW t \in Seq(S), NEW m
  PROVE  /\ SegDe(<<>>, t, m) = Llenos(t, m)
         /\ Llenos(t, m) \in Seq({Lleno(t[i], m) : i \in DOMAIN t})
         /\ DOMAIN Llenos(t, m) = DOMAIN t /\ Len(Llenos(t, m)) = Len(t)
<1> DEFINE T == {Lleno(t[i], m) : i \in DOMAIN t}
<1>1. PICK n \in Nat : DOMAIN t = 1 .. n /\ Len(t) = n
  OBVIOUS
<1>2. \A i \in 1 .. n : Lleno(t[i], m) \in T
  BY <1>1
<1> HIDE DEF T
<1>3. Llenos(t, m) \in [1 .. n -> T]
  BY <1>1, <1>2 DEF Llenos
<1>4. <<>> \o Llenos(t, m) = Llenos(t, m)
  BY <1>3, NadaAntes
<1>5. SegDe(<<>>, t, m) = <<>> \o Llenos(t, m)
  BY DEF SegDe, Llenos, Lleno, SegmentoDe
<1>6. Llenos(t, m) \in Seq(T) /\ DOMAIN Llenos(t, m) = 1 .. n /\ Len(Llenos(t, m)) = n
  BY <1>3
<1>7. QED
  BY <1>1, <1>4, <1>5, <1>6 DEF T

\* segmento_crear: one more at the end.
LEMMA LlenosMas ==
  ASSUME NEW S, NEW t \in Seq(S), NEW n \in S, NEW m
  PROVE  Llenos(Append(t, n), m) = Append(Llenos(t, m), Lleno(n, m))
<1>1. PICK a \in Nat : Len(t) = a
  OBVIOUS
<1>2. /\ DOMAIN Append(t, n) = 1 .. a + 1
      /\ \A i \in 1 .. a : Append(t, n)[i] = t[i]
      /\ Append(t, n)[a + 1] = n
      /\ DOMAIN t = 1 .. a
  BY <1>1
<1>3. PICK u : u = Append(t, n)
  OBVIOUS
<1>4. Llenos(u, m) = [i \in 1 .. a + 1 |-> Lleno(u[i], m)]
  BY <1>2, <1>3 DEF Llenos
<1>5. PICK f : f = Llenos(t, m)
  OBVIOUS
<1>6. PICK x : x = Lleno(n, m)
  OBVIOUS
<1>7. PICK V : f \in Seq(V) /\ Len(f) = a
  BY <1>1, <1>5, SegDeLlenos
<1>8. f \in Seq(V \cup {x}) /\ x \in V \cup {x}
  <2>1. f \in [1 .. a -> V]
    BY <1>1, <1>7
  <2>2. f \in [1 .. a -> V \cup {x}]
    BY <2>1
  <2>3. QED
    BY <1>1, <2>2
<1>9. Append(f, x) = [i \in 1 .. a + 1 |-> IF i <= a THEN f[i] ELSE x]
  <2>1. /\ Append(f, x) \in Seq(V \cup {x}) /\ Len(Append(f, x)) = a + 1
        /\ Append(f, x)[a + 1] = x
        /\ \A i \in 1 .. a : Append(f, x)[i] = f[i]
    BY <1>7, <1>8
  <2>2. Append(f, x) = [i \in 1 .. a + 1 |-> Append(f, x)[i]]
    <3>1. PICK w, W : w = Append(f, x) /\ W = V \cup {x}
      OBVIOUS
    <3>2. w \in Seq(W) /\ Len(w) = a + 1
      BY <2>1, <3>1
    <3>3. w \in [1 .. a + 1 -> W]
      BY <1>1, <3>2
    <3>4. w = [i \in 1 .. a + 1 |-> w[i]]
      BY <3>3
    <3>5. QED
      BY <3>1, <3>4
  <2>3. \A i \in 1 .. a + 1 : Append(f, x)[i] = IF i <= a THEN f[i] ELSE x
    BY <1>1, <2>1
  <2> DEFINE G(i) == Append(f, x)[i]
             H(i) == IF i <= a THEN f[i] ELSE x
  <2>4. \A i \in 1 .. a + 1 : G(i) = H(i)
    BY <2>3
  <2>5. Append(f, x) = [i \in 1 .. a + 1 |-> G(i)]
    BY <2>2
  <2> HIDE DEF G
  <2>6. QED
    BY <2>4, <2>5
<1>10. \A i \in 1 .. a : f[i] = Lleno(t[i], m)
  BY <1>2, <1>5 DEF Llenos
<1> DEFINE G(i) == Lleno(u[i], m)
           H(i) == IF i <= a THEN f[i] ELSE x
<1>11. \A i \in 1 .. a + 1 : G(i) = H(i)
  BY <1>1, <1>2, <1>3, <1>6, <1>10
<1>12. /\ Llenos(u, m) = [i \in 1 .. a + 1 |-> G(i)]
       /\ Append(f, x) = [i \in 1 .. a + 1 |-> H(i)]
  BY <1>4, <1>9
<1> HIDE DEF G, H
<1>13. QED
  BY <1>3, <1>5, <1>6, <1>11, <1>12

\* segmento_eliminar: one less.
LEMMA LlenosMenos ==
  ASSUME NEW S, NEW t \in Seq(S), NEW k \in DOMAIN t, NEW m
  PROVE  /\ Llenos(RemoveAt(t, k), m) = RemoveAt(Llenos(t, m), k)
         /\ RemoveAt(t, k) \in Seq(S)
<1>1. PICK a \in Nat : Len(t) = a /\ DOMAIN t = 1 .. a /\ k \in 1 .. a
  OBVIOUS
<1>2. PICK u : u = RemoveAt(t, k)
  OBVIOUS
<1>3. u \in Seq(S) /\ Len(u) = a - 1 /\ \A i \in 1 .. a - 1 : u[i] = IF i < k THEN t[i] ELSE t[i + 1]
  BY <1>1, <1>2, RemoveAtElementos
<1>4. PICK f : f = Llenos(t, m)
  OBVIOUS
<1>5. PICK V : f \in Seq(V) /\ Len(f) = a
  BY <1>1, <1>4, SegDeLlenos
<1>6. PICK g : g = RemoveAt(f, k)
  OBVIOUS
<1>7. g \in Seq(V) /\ Len(g) = a - 1 /\ \A i \in 1 .. a - 1 : g[i] = IF i < k THEN f[i] ELSE f[i + 1]
  BY <1>1, <1>5, <1>6, RemoveAtElementos
<1>8. \A i \in 1 .. a : f[i] = Lleno(t[i], m)
  BY <1>1, <1>4 DEF Llenos
<1> DEFINE G(i) == g[i]
           H(i) == Lleno(u[i], m)
<1>9. ASSUME NEW i \in 1 .. a - 1
      PROVE  G(i) = H(i)
  <2>1. i \in 1 .. a /\ i + 1 \in 1 .. a
    BY <1>1
  <2>2. CASE i < k
    BY <1>3, <1>7, <1>8, <2>1, <2>2
  <2>3. CASE ~ (i < k)
    BY <1>3, <1>7, <1>8, <2>1, <2>3
  <2>4. QED
    BY <2>2, <2>3
<1>10. g = [i \in 1 .. a - 1 |-> G(i)]
  BY <1>1, <1>7
<1>11. Llenos(u, m) = [i \in 1 .. a - 1 |-> H(i)]
  <2>1. DOMAIN u = 1 .. a - 1
    BY <1>1, <1>3
  <2>2. QED
    BY <2>1 DEF Llenos
<1> HIDE DEF G, H
<1>12. g = Llenos(u, m)
  BY <1>9, <1>10, <1>11
<1>13. QED
  BY <1>2, <1>3, <1>4, <1>6, <1>12

\* The segments of a process, and which of them has an id.
LEMMA LlenosDe ==
  ASSUME MemInv, NEW p \in Pids
  PROVE  /\ contextos[p].tabla \in Seq(SegmentoReal)
         /\ Bajado(p) = Llenos(contextos[p].tabla, ram)
         /\ \A id : BuscarSegmento(Bajado(p), id) = BuscarSegmento(contextos[p].tabla, id)
<1>1. contextos[p].tabla \in Seq(SegmentoReal)
  BY DEF MemInv, Memoria, Tipos, ContextoReal
<1>2. Bajado(p) = Llenos(contextos[p].tabla, ram)
  BY DEF Bajado, Contenido, Llenos, Lleno, SegmentoDe
<1>3. PICK n \in Nat : DOMAIN contextos[p].tabla = 1 .. n
  BY <1>1
<1>4. DOMAIN Bajado(p) = 1 .. n /\ \A i \in 1 .. n : Bajado(p)[i].id = contextos[p].tabla[i].id
  BY <1>3 DEF Bajado
<1>5. ASSUME NEW id
      PROVE  BuscarSegmento(Bajado(p), id) = BuscarSegmento(contextos[p].tabla, id)
  <2>1. \A i \in 1 .. n : \A j \in 1 .. i - 1 : j \in 1 .. n
    BY <1>3
  <2>2. QED
    BY <1>3, <1>4, <2>1 DEF BuscarSegmento
<1>6. QED
  BY <1>1, <1>2, <1>5

-----------------------------------------------------------------------------
(* The answers of the Kernel Memory.                                        *)

\* A CPU in a MEM_ALLOC or a MEM_FREE has saved the machine of its process, and the
\* request is in it.
LEMMA EsperaVista ==
  ASSUME MemInv, ~ memoria_ajena, NEW c \in Cpus, NEW p \in Pids, p = cpu[c].pid,
         cpu[c].estado \in {"respuesta", "compacta"},
         pedido[p].op \in {"MEM_ALLOC", "MEM_FREE"}
  PROVE  /\ Vista(p) = Maq(contextos[p].instrucciones, contextos[p].registros, Bajado(p),
                           pedido[p], pantalla[p], TRUE)
         /\ Vista(p).vivo
         /\ \A d \in Cpus \ {c} : cpu[d].pid # p
<1>1. /\ swap[p] = <<>> /\ estado[p] # "EXIT" /\ \A d \in Cpus \ {c} : cpu[d].pid # p
  BY ProcesoEnCpu
<1>2. RegDe(cpu, contextos, p) = contextos[p].registros
  <2>1. \A d \in Cpus : cpu[d].pid = p => cpu[d].estado \notin Corriendo
    BY <1>1 DEF Corriendo
  <2>2. QED
    BY <2>1, RegDeNinguna
<1>3. SegDe(swap[p], contextos[p].tabla, ram) = Bajado(p)
  BY <1>1, SegDeEntera
<1>4. SinDireccion(pedido[p]) = pedido[p]
  BY DEF SinDireccion
<1>5. Vista(p) = Maq(contextos[p].instrucciones, contextos[p].registros, Bajado(p), pedido[p],
                     pantalla[p], estado[p] # "EXIT")
  BY <1>2, <1>3, <1>4, VistaDe
<1>6. Vista(p) = Maq(contextos[p].instrucciones, contextos[p].registros, Bajado(p), pedido[p],
                     pantalla[p], TRUE)
  BY <1>1, <1>5, VivoEs
<1>7. Vista(p).vivo
  BY <1>6 DEF Maq
<1>8. QED
  BY <1>1, <1>6, <1>7

\* Segments and bytes change, no program and no register; those of the others stay, but
\* for where they are.
SegmentosCambian(p) ==
  /\ \A q \in Pids : /\ contextos'[q].instrucciones = contextos[q].instrucciones
                     /\ contextos'[q].registros = contextos[q].registros
  /\ \A q \in Pids \ {p} :
       SegDe(swap[q], contextos'[q].tabla, ram') = SegDe(swap[q], contextos[q].tabla, ram)
  /\ UNCHANGED <<swap, pantalla>>

\* OP_OK or OP_FIN_COMPACTACION: the process waits no longer.
LEMMA RespondeVista ==
  ASSUME MemInv, ~ memoria_ajena, NEW c \in Cpus, NEW p \in Pids, p = cpu[c].pid,
         cpu[c].estado \in {"respuesta", "compacta"},
         pedido[p].op \in {"MEM_ALLOC", "MEM_FREE"},
         NEW e, e \notin Corriendo, Responde(c, e), SegmentosCambian(p),
         estado'[p] # "EXIT", \A q \in Pids \ {p} : estado'[q] = estado[q],
         NEW segs, SegDe(<<>>, contextos'[p].tabla, ram') = segs,
         Maq(contextos[p].instrucciones, contextos[p].registros, segs, Nada, pantalla[p], TRUE)
           \in M!Siguientes(Maq(contextos[p].instrucciones, contextos[p].registros, Bajado(p),
                                pedido[p], pantalla[p], TRUE))
  PROVE  Pasa(p)
<1>1. /\ cpu \in [Cpus -> CpuReal] /\ pedido \in [Pids -> PedidosReales]
  BY DEF MemInv, Memoria, Tipos
<1>2. swap[p] = <<>>
  BY ProcesoEnCpu
<1>3. \A d \in Cpus \ {c} : cpu[d].pid # p
  BY EsperaVista
<1>4. /\ cpu' = [cpu EXCEPT ![c].estado = e]
      /\ pedido' = [pedido EXCEPT ![p] = Nada]
  BY DEF Responde
<1>5. /\ cpu'[c] = [cpu[c] EXCEPT !.estado = e] /\ cpu[c] \in CpuReal
      /\ \A d \in Cpus \ {c} : cpu'[d] = cpu[d]
  BY <1>1, <1>4
<1>6. cpu'[c].estado = e /\ cpu'[c].pid = p
  BY <1>5 DEF CpuReal
<1>7. RegDe(cpu', contextos', p) = contextos[p].registros
  <2>1. \A d \in Cpus : cpu'[d].pid = p => cpu'[d].estado \notin Corriendo
    BY <1>3, <1>5, <1>6
  <2>2. RegDe(cpu', contextos', p) = contextos'[p].registros
    BY <2>1, RegDeNinguna
  <2>3. QED
    BY <2>2 DEF SegmentosCambian
<1>8. /\ SinDireccion(pedido'[p]) = Nada /\ contextos'[p].instrucciones = contextos[p].instrucciones
      /\ pantalla'[p] = pantalla[p] /\ swap'[p] = <<>>
  BY <1>1, <1>2, <1>4 DEF SinDireccion, Nada, SegmentosCambian
<1>9. Vista(p)' = Maq(contextos[p].instrucciones, contextos[p].registros, segs, Nada, pantalla[p],
                      estado'[p] # "EXIT")
  BY <1>7, <1>8, VistaDe
<1>10. Vista(p)' = Maq(contextos[p].instrucciones, contextos[p].registros, segs, Nada, pantalla[p],
                       TRUE)
  BY <1>9, VivoEs
<1>11. ASSUME NEW q \in Pids \ {p}
       PROVE  Vista(q)' = Vista(q)
  <2>1. CpusIgual(q)
    BY <1>1, <1>5, <1>6, CpusAjenas
  <2>2. pedido'[q] = pedido[q]
    BY <1>1, <1>4
  <2>3. QED
    BY <2>1, <2>2, VistaIgual DEF SegmentosCambian
<1>12. Vista(p).vivo /\ Vista(p)' \in M!Siguientes(Vista(p))
  BY <1>10, EsperaVista
<1>13. QED
  BY <1>11, <1>12 DEF Pasa

\* OP_ERROR: the process ends.
LEMMA NegarVista ==
  ASSUME Anchos, MemInv, ~ memoria_ajena, NEW c \in Cpus, NEW p \in Pids, p = cpu[c].pid,
         cpu[c].estado = "respuesta", pedido[p].op \in {"MEM_ALLOC", "MEM_FREE"},
         NEW l, Terminar(c, l),
         \/ pedido[p].op = "MEM_ALLOC"
         \/ BuscarSegmento(contextos[p].tabla, pedido[p].id) = {}
  PROVE  Pasa(p)
<1>1. /\ Vista(p)' = Acabado(pantalla[p]) /\ \A q \in Pids \ {p} : Vista(q)' = Vista(q)
  BY TerminarVista DEF EnCurso
<1>2. Vista(p).vivo
  BY EsperaVista
<1>3. Acabado(pantalla[p])
        \in M!Siguientes(Maq(contextos[p].instrucciones, contextos[p].registros, Bajado(p),
                             pedido[p], pantalla[p], TRUE))
  <2>1. CASE pedido[p].op = "MEM_ALLOC"
    BY <2>1, PasoNegado
  <2>2. CASE pedido[p].op = "MEM_FREE" /\ BuscarSegmento(contextos[p].tabla, pedido[p].id) = {}
    <3>1. BuscarSegmento(Bajado(p), pedido[p].id) = {}
      BY <2>2, LlenosDe
    <3>2. QED
      BY <2>2, <3>1, ServidoEliminar
  <2>3. QED
    BY <2>1, <2>2
<1>4. Vista(p)' \in M!Siguientes(Vista(p))
  BY <1>1, <1>3, EsperaVista
<1>5. QED
  BY <1>1, <1>2, <1>4 DEF Pasa

\* segmento_crear: too large, or not enough memory.
LEMMA SegmentoErrorVista ==
  ASSUME Anchos, MemInv, ~ memoria_ajena, NEW c \in Cpus, SegmentoError(c)
  PROVE  \E p \in Pids : Pasa(p)
<1>1. PICK p \in Pids : p = cpu[c].pid
  BY ProcesoEnCpu DEF SegmentoError, Espera
<1>2. /\ cpu[c].estado = "respuesta" /\ pedido[p].op = "MEM_ALLOC"
      /\ Terminar(c, cpu[c].lista)
  BY <1>1 DEF SegmentoError, Espera
<1>3. Pasa(p)
  BY <1>1, <1>2, NegarVista
<1>4. QED
  BY <1>3

\* segmento_crear: the bytes of the new segment are those of its place.
LEMMA CrearVista ==
  ASSUME MemInv, ~ memoria_ajena, NEW c \in Cpus, NEW p \in Pids, p = cpu[c].pid,
         cpu[c].estado \in {"respuesta", "compacta"}, pedido[p].op = "MEM_ALLOC",
         NEW e, e \notin Corriendo, Responde(c, e), SegmentosCambian(p),
         estado'[p] # "EXIT", \A q \in Pids \ {p} : estado'[q] = estado[q],
         NEW t \in Seq(SegmentoReal), Llenos(t, ram') = Bajado(p),
         NEW n \in SegmentoReal, n.id = pedido[p].id, n.limite = pedido[p].tam,
         n.base + n.limite <= Total, Total \in Nat,
         ram' \in [0 .. Total - 1 -> Bytes],
         contextos'[p].tabla = Append(t, n)
  PROVE  Pasa(p)
<1>1. SegDe(<<>>, contextos'[p].tabla, ram') = Append(Bajado(p), Lleno(n, ram'))
  <2>1. PICK m : m = ram'
    OBVIOUS
  <2>2. Append(t, n) \in Seq(SegmentoReal)
    OBVIOUS
  <2>3. SegDe(<<>>, Append(t, n), m) = Llenos(Append(t, n), m)
    BY <2>2, SegDeLlenos
  <2>4. Llenos(Append(t, n), m) = Append(Llenos(t, m), Lleno(n, m))
    BY LlenosMas
  <2>5. QED
    BY <2>1, <2>3, <2>4
<1>2. PICK b : b = [k \in 1 .. n.limite |-> ram'[n.base + k - 1]]
  OBVIOUS
<1>3. Lleno(n, ram') = SegmentoDe(pedido[p].id, b)
  BY <1>2 DEF Lleno
<1>4. b \in TantosBytes(pedido[p].tam)
  <2>1. n.base \in Nat /\ n.limite \in Nat
    BY MmuOK DEF SegmentoReal
  <2>2. \A k \in 1 .. n.limite : n.base + k - 1 \in 0 .. Total - 1
    BY <2>1, ByteDelSegmento
  <2>3. \A k \in 1 .. n.limite : ram'[n.base + k - 1] \in Bytes
    BY <2>2
  <2>4. QED
    BY <1>2, <2>3 DEF TantosBytes
<1>5. Maq(contextos[p].instrucciones, contextos[p].registros,
          Append(Bajado(p), SegmentoDe(pedido[p].id, b)), Nada, pantalla[p], TRUE)
        \in M!Siguientes(Maq(contextos[p].instrucciones, contextos[p].registros, Bajado(p),
                             pedido[p], pantalla[p], TRUE))
  BY <1>4, ServidoCrear
<1>6. QED
  BY <1>1, <1>3, <1>5, RespondeVista

\* A hole is in the memory of the sticks.
LEMMA HuecoReal ==
  ASSUME Tipos, NEW tam \in Nat, NEW b \in HuecosPara(tam)
  PROVE  b \in Nat /\ b + tam <= Total /\ Total \in Nat
<1>1. sticks \in 1 .. Len(TamSticks)
  BY DEF Tipos
<1>2. Base[sticks + 1] \in Nat /\ Total \in Nat /\ Base[sticks + 1] <= Total
  BY <1>1, MemoriaDe
<1>3. b \in Libres /\ b .. b + tam - 1 \subseteq Libres
  BY DEF HuecosPara
<1>4. \A g \in Libres : g \in 0 .. Base[sticks + 1] - 1
  BY DEF Libres
<1>5. b \in Nat /\ b < Base[sticks + 1]
  BY <1>2, <1>3, <1>4
<1>6. CASE tam = 0
  BY <1>2, <1>5, <1>6
<1>7. CASE tam # 0
  <2>1. b + tam - 1 \in b .. b + tam - 1
    BY <1>5, <1>7
  <2>2. b + tam - 1 \in 0 .. Base[sticks + 1] - 1
    BY <1>3, <1>4, <2>1
  <2>3. QED
    BY <1>2, <1>5, <2>2
<1>8. QED
  BY <1>6, <1>7

\* segmento_crear.
LEMMA SegmentoCrearVista ==
  ASSUME MemInv, ~ memoria_ajena, NEW c \in Cpus, SegmentoCrear(c)
  PROVE  \E p \in Pids : Pasa(p)
<1>1. PICK p \in Pids : p = cpu[c].pid
  BY ProcesoEnCpu DEF SegmentoCrear, Espera
<1>2. PICK x : x = pedido[p]
  OBVIOUS
<1>3. /\ cpu[c].estado = "respuesta" /\ x.op = "MEM_ALLOC" /\ x.tam <= TamMaxSegmento
      /\ Responde(c, "refresca") /\ UNCHANGED <<memVars, estado, pantalla, suspVars>>
  BY <1>1, <1>2 DEF SegmentoCrear, Espera
<1>4. x.id \in Nat /\ x.tam \in Nat
  BY <1>2, <1>3, PedidoDeCrear
<1>5. PICK b \in HuecosPara(x.tam) :
        contextos' = [contextos EXCEPT ![p].tabla =
                        Append(@, [id |-> x.id, base |-> b, limite |-> x.tam])]
  BY <1>1, <1>2 DEF SegmentoCrear
<1>6. /\ Tipos /\ contextos \in [Pids -> ContextoReal] /\ ram \in [0 .. Total - 1 -> Bytes]
  BY DEF MemInv, Memoria, Tipos
<1>7. b \in Nat /\ b + x.tam <= Total /\ Total \in Nat
  BY <1>4, <1>6, HuecoReal
<1>8. PICK n : n = [id |-> x.id, base |-> b, limite |-> x.tam]
  OBVIOUS
<1>9. /\ n \in SegmentoReal /\ n.id = x.id /\ n.limite = x.tam /\ n.base + n.limite <= Total
  <2>1. x.tam \in 0 .. TamMaxSegmento
    BY <1>3, <1>4, MmuOK
  <2>2. QED
    BY <1>4, <1>7, <1>8, <2>1 DEF SegmentoReal
<1>10. PICK t \in Seq(SegmentoReal) : t = contextos[p].tabla
  BY LlenosDe
<1>11. /\ contextos' = [contextos EXCEPT ![p].tabla = Append(t, n)]
  BY <1>5, <1>8, <1>10
<1>12. /\ contextos'[p].tabla = Append(t, n)
       /\ \A q \in Pids : /\ contextos'[q].instrucciones = contextos[q].instrucciones
                          /\ contextos'[q].registros = contextos[q].registros
       /\ \A q \in Pids \ {p} : contextos'[q] = contextos[q]
  BY <1>6, <1>11 DEF ContextoReal
<1>13. SegmentosCambian(p)
  BY <1>3, <1>12 DEF SegmentosCambian, memVars
<1>14. /\ ram' = ram /\ estado'[p] # "EXIT" /\ \A q \in Pids \ {p} : estado'[q] = estado[q]
  BY <1>1, <1>3, ProcesoEnCpu DEF memVars
<1>15. Llenos(t, ram') = Bajado(p)
  BY <1>10, <1>14, LlenosDe
<1>16. "refresca" \notin Corriendo
  BY DEF Corriendo
<1>17. ram' \in [0 .. Total - 1 -> Bytes]
  BY <1>6, <1>14
<1>18. Pasa(p)
  BY <1>1, <1>2, <1>3, <1>7, <1>9, <1>12, <1>13, <1>14, <1>15, <1>16, <1>17, CrearVista
<1>19. QED
  BY <1>18

\* segmento_eliminar.
LEMMA SegmentoEliminarVista ==
  ASSUME Anchos, MemInv, ~ memoria_ajena, NEW c \in Cpus, SegmentoEliminar(c)
  PROVE  \E p \in Pids : Pasa(p)
<1>1. PICK p \in Pids : p = cpu[c].pid
  BY ProcesoEnCpu DEF SegmentoEliminar, Espera
<1>2. /\ cpu[c].estado = "respuesta" /\ pedido[p].op = "MEM_FREE"
  BY <1>1 DEF SegmentoEliminar, Espera
<1>3. CASE BuscarSegmento(contextos[p].tabla, pedido[p].id) = {} /\ Terminar(c, cpu[c].lista)
  <2>1. Pasa(p)
    BY <1>1, <1>2, <1>3, NegarVista
  <2>2. QED
    BY <2>1
<1>4. ASSUME NEW i \in BuscarSegmento(contextos[p].tabla, pedido[p].id),
             contextos' = [contextos EXCEPT ![p].tabla = RemoveAt(@, i)],
             Responde(c, "refresca"), UNCHANGED <<memVars, estado, pantalla, suspVars>>
      PROVE  \E q \in Pids : Pasa(q)
  <2>1. contextos \in [Pids -> ContextoReal]
    BY DEF MemInv, Memoria, Tipos
  <2>2. PICK t \in Seq(SegmentoReal) : t = contextos[p].tabla
    BY LlenosDe
  <2>3. i \in DOMAIN t
    BY <1>4, <2>2 DEF BuscarSegmento
  <2>4. PICK u : u = RemoveAt(t, i)
    OBVIOUS
  <2>5. /\ contextos'[p].tabla = u
        /\ \A q \in Pids : /\ contextos'[q].instrucciones = contextos[q].instrucciones
                           /\ contextos'[q].registros = contextos[q].registros
        /\ \A q \in Pids \ {p} : contextos'[q] = contextos[q]
    BY <1>4, <2>1, <2>2, <2>4 DEF ContextoReal
  <2>6. SegmentosCambian(p)
    BY <1>4, <2>5 DEF SegmentosCambian, memVars
  <2>7. /\ ram' = ram /\ estado'[p] # "EXIT" /\ \A q \in Pids \ {p} : estado'[q] = estado[q]
    BY <1>1, <1>2, <1>4, ProcesoEnCpu DEF memVars
  <2>8. SegDe(<<>>, u, ram) = RemoveAt(Bajado(p), i)
    <3>1. Llenos(u, ram) = RemoveAt(Llenos(t, ram), i) /\ u \in Seq(SegmentoReal)
      BY <2>3, <2>4, LlenosMenos
    <3>2. SegDe(<<>>, u, ram) = Llenos(u, ram)
      BY <3>1, SegDeLlenos
    <3>3. QED
      BY <2>2, <3>1, <3>2, LlenosDe
  <2>9. PICK segs : segs = RemoveAt(Bajado(p), i)
    OBVIOUS
  <2>10. SegDe(<<>>, contextos'[p].tabla, ram') = segs
    BY <2>5, <2>7, <2>8, <2>9
  <2>11. Maq(contextos[p].instrucciones, contextos[p].registros, segs, Nada, pantalla[p], TRUE)
           \in M!Siguientes(Maq(contextos[p].instrucciones, contextos[p].registros, Bajado(p),
                                pedido[p], pantalla[p], TRUE))
    <3>1. i \in BuscarSegmento(Bajado(p), pedido[p].id)
      BY <1>4, LlenosDe
    <3>2. QED
      BY <1>2, <2>9, <3>1, ServidoEliminar
  <2>12. "refresca" \notin Corriendo
    BY DEF Corriendo
  <2>13. Pasa(p)
    BY <1>1, <1>2, <1>4, <2>6, <2>7, <2>10, <2>11, <2>12, RespondeVista
  <2>14. QED
    BY <2>13
<1>5. QED
  BY <1>1, <1>3, <1>4 DEF SegmentoEliminar

\* segmento_crear: the process waits for a compaction, with the same request.
LEMMA PedirCompactarVista ==
  ASSUME MemInv, NEW c \in Cpus, PedirCompactar(c)
  PROVE  NadiePasa
<1>1. /\ cpu \in [Cpus -> CpuReal] /\ estado \in [Pids -> EstadosProceso]
  BY DEF MemInv, Memoria, Tipos
<1>2. PICK p \in Pids : p = cpu[c].pid
  BY ProcesoEnCpu DEF PedirCompactar, Espera
<1>3. /\ cpu[c].estado = "respuesta"
      /\ estado' = [estado EXCEPT ![p] = "BLOCK"]
      /\ cpu' = [cpu EXCEPT ![c].estado = "compacta"]
      /\ UNCHANGED <<contextos, memVars, pedido, pantalla, suspVars>>
  BY <1>2 DEF PedirCompactar, Espera
<1>4. estado[p] # "EXIT"
  BY <1>2, <1>3, ProcesoEnCpu
<1>5. /\ cpu'[c] = [cpu[c] EXCEPT !.estado = "compacta"] /\ cpu[c] \in CpuReal
      /\ \A d \in Cpus \ {c} : cpu'[d] = cpu[d]
  BY <1>1, <1>3
<1>6. cpu'[c].estado = "compacta"
  BY <1>5 DEF CpuReal
<1>7. ASSUME NEW q \in Pids
      PROVE  Vista(q)' = Vista(q)
  <2>1. CpusIgual(q)
    BY <1>3, <1>5, <1>6 DEF CpusIgual, Corriendo
  <2>2. (estado'[q] = "EXIT") <=> (estado[q] = "EXIT")
    BY <1>1, <1>3, <1>4
  <2>3. QED
    BY <1>3, <2>1, <2>2, VistaIgual DEF memVars
<1>8. QED
  BY <1>7 DEF NadiePasa

\* compactar: the segments of every process have in their new places what they had.
LEMMA CompactarLlenos ==
  ASSUME MemInv, NEW c \in Cpus, Compactar(c), NEW q \in Pids
  PROVE  Llenos(Movido(q), ram') = Llenos(contextos[q].tabla, ram)
<1>1. PICK t \in Seq(SegmentoReal) : t = contextos[q].tabla
  BY LlenosDe
<1>2. PICK a \in Nat : DOMAIN t = 1 .. a
  BY <1>1
<1>3. PICK u : u = Movido(q)
  OBVIOUS
<1>4. DOMAIN u = 1 .. a
  BY <1>1, <1>2, <1>3 DEF Movido
<1>5. ASSUME NEW i \in 1 .. a
      PROVE  Lleno(u[i], ram') = Lleno(t[i], ram)
  <2>1. PICK s : s = <<q, i>>
    OBVIOUS
  <2>2. s \in Segmentos /\ Seg(s) = t[i]
    BY <1>1, <1>2, <2>1 DEF Segmentos, Seg
  <2>3. Seg(s).base \in Nat /\ Seg(s).limite \in Nat /\ Seg(s) \in SegmentoReal
    BY <2>2, SegReal DEF MemInv, Memoria
  <2>4. NuevaBase(s) \in Nat
    BY <2>2, BasesNuevas DEF MemInv, Memoria
  <2>5. \A k \in 0 .. Seg(s).limite - 1 : ram'[NuevaBase(s) + k] = ram[Seg(s).base + k]
    BY <2>2, CompactarBytes
  <2>6. PICK v, l, b : v = NuevaBase(s) /\ l = Seg(s).limite /\ b = Seg(s).base
    OBVIOUS
  <2>7. u[i] = [t[i] EXCEPT !.base = v]
    BY <1>1, <1>2, <1>3, <2>1, <2>6 DEF Movido
  <2>8. u[i].base = v /\ u[i].limite = l /\ u[i].id = t[i].id /\ t[i].base = b /\ t[i].limite = l
    BY <2>2, <2>3, <2>6, <2>7 DEF SegmentoReal
  <2>9. \A k \in 1 .. l : ram'[v + k - 1] = ram[b + k - 1]
    <3> SUFFICES ASSUME NEW k \in 1 .. l
                 PROVE  ram'[v + k - 1] = ram[b + k - 1]
      OBVIOUS
    <3>1. k - 1 \in 0 .. l - 1 /\ v + (k - 1) = v + k - 1 /\ b + (k - 1) = b + k - 1
      BY <2>3, <2>4, <2>6
    <3>2. ram'[v + (k - 1)] = ram[b + (k - 1)]
      BY <2>5, <2>6, <3>1
    <3>3. QED
      BY <3>1, <3>2
  <2>10. QED
    BY <2>8, <2>9 DEF Lleno
<1> DEFINE G(i) == Lleno(u[i], ram')
           H(i) == Lleno(t[i], ram)
<1>6. \A i \in 1 .. a : G(i) = H(i)
  BY <1>5
<1>7. Llenos(u, ram') = [i \in 1 .. a |-> G(i)] /\ Llenos(t, ram) = [i \in 1 .. a |-> H(i)]
  BY <1>2, <1>4 DEF Llenos
<1> HIDE DEF G, H
<1>8. QED
  BY <1>1, <1>3, <1>6, <1>7

\* Two tables with the same bytes are the same to a program.
LEMMA SegDeDeLlenos ==
  ASSUME NEW w, NEW t, NEW m, NEW u, NEW n, Llenos(u, n) = Llenos(t, m)
  PROVE  SegDe(w, u, n) = SegDe(w, t, m)
<1>1. SegDe(w, u, n) = w \o Llenos(u, n) /\ SegDe(w, t, m) = w \o Llenos(t, m)
  BY DEF SegDe, Llenos, Lleno, SegmentoDe
<1>2. QED
  BY <1>1

\* compactar, segmento_crear and OP_FIN_COMPACTACION: what was asked for is created, and
\* nobody sees that anything has moved.
LEMMA CompactarVista ==
  ASSUME MemInv, ~ memoria_ajena, NEW c \in Cpus, Compactar(c)
  PROVE  \E p \in Pids : Pasa(p)
<1>1. PICK p \in Pids : p = cpu[c].pid
  BY CompactarTablas
<1>2. PICK n : n = [id |-> pedido[p].id, base |-> Cardinality(Ocupados),
                    limite |-> pedido[p].tam]
  OBVIOUS
<1>3. PICK t : t = Movido(p)
  OBVIOUS
<1>4. /\ pedido[p].op = "MEM_ALLOC" /\ n \in SegmentoReal /\ t \in Seq(SegmentoReal)
      /\ contextos' = [q \in Pids |-> [contextos[q] EXCEPT !.tabla =
           IF q = p THEN Append(Movido(q), n) ELSE Movido(q)]]
  BY <1>1, <1>2, <1>3, CompactarTablas
<1>5. /\ cpu[c].estado = "compacta" /\ Responde(c, "asignada")
      /\ estado' = [estado EXCEPT ![p] = "EXEC"]
      /\ UNCHANGED <<sticks, escuchan, swap, pantalla>>
  BY <1>1, Zenon DEF Compactar
<1>6. /\ Tipos /\ contextos \in [Pids -> ContextoReal] /\ estado \in [Pids -> EstadosProceso]
  BY DEF MemInv, Memoria, Tipos
<1>7. /\ n.id = pedido[p].id /\ n.limite = pedido[p].tam
      /\ n.base + n.limite <= Total /\ Total \in Nat
  <2>1. sticks \in 1 .. Len(TamSticks)
    BY <1>6 DEF Tipos
  <2>2. Base[sticks + 1] \in Nat /\ Total \in Nat /\ Base[sticks + 1] <= Total
    BY <2>1, MemoriaDe
  <2>3. /\ Cardinality(Ocupados) \in Nat /\ Cardinality(Libres) \in Nat
        /\ Cardinality(Ocupados) + Cardinality(Libres) = Base[sticks + 1]
    BY TodosLosBytes DEF MemInv, Memoria
  <2>4. pedido[p].tam \in Nat
    BY <1>4, PedidoDeCrear
  <2>5. pedido[p].tam <= Cardinality(Libres)
    BY <1>1, <1>5 DEF MemInv, Memoria, Entrara
  <2>6. n.base = Cardinality(Ocupados) /\ n.limite = pedido[p].tam /\ n.id = pedido[p].id
    BY <1>2
  <2>7. QED
    BY <2>2, <2>3, <2>4, <2>5, <2>6
<1>8. /\ contextos'[p].tabla = Append(t, n)
      /\ \A q \in Pids : /\ contextos'[q].instrucciones = contextos[q].instrucciones
                         /\ contextos'[q].registros = contextos[q].registros
      /\ \A q \in Pids \ {p} : contextos'[q].tabla = Movido(q)
  <2>1. PICK a : a = Append(t, n)
    OBVIOUS
  <2>2. \A q \in Pids : contextos'[q] = [contextos[q] EXCEPT !.tabla =
           IF q = p THEN a ELSE Movido(q)]
    BY <1>3, <1>4, <2>1
  <2>3. QED
    BY <1>6, <2>1, <2>2 DEF ContextoReal
<1>9. SegmentosCambian(p)
  <2>1. ASSUME NEW q \in Pids \ {p}
        PROVE  SegDe(swap[q], contextos'[q].tabla, ram') = SegDe(swap[q], contextos[q].tabla, ram)
    <3>1. Llenos(Movido(q), ram') = Llenos(contextos[q].tabla, ram)
      BY CompactarLlenos
    <3>2. PICK u, m : u = Movido(q) /\ m = ram'
      OBVIOUS
    <3>3. SegDe(swap[q], u, m) = SegDe(swap[q], contextos[q].tabla, ram)
      BY <3>1, <3>2, SegDeDeLlenos
    <3>4. QED
      BY <1>8, <3>2, <3>3
  <2>2. QED
    BY <1>5, <1>8, <2>1 DEF SegmentosCambian
<1>10. Llenos(t, ram') = Bajado(p)
  <2>1. Llenos(Movido(p), ram') = Llenos(contextos[p].tabla, ram)
    BY CompactarLlenos
  <2>2. QED
    BY <1>3, <2>1, LlenosDe
<1>11. ram' \in [0 .. Total - 1 -> Bytes]
  BY CompactarBytes
<1>12. /\ estado'[p] # "EXIT" /\ \A q \in Pids \ {p} : estado'[q] = estado[q]
  BY <1>5, <1>6
<1>13. "asignada" \notin Corriendo
  BY DEF Corriendo
<1>14. Pasa(p)
  BY <1>1, <1>4, <1>5, <1>7, <1>8, <1>9, <1>10, <1>11, <1>12, <1>13, CrearVista
<1>15. QED
  BY <1>14

\* Every answer of the Kernel Memory.
LEMMA PasoMemoriaVista ==
  ASSUME Anchos, MemInv, ~ memoria_ajena, NEW c \in Cpus, PasoMemoria(c)
  PROVE  NadiePasa \/ \E p \in Pids : Pasa(p)
<1>1. CASE SegmentoCrear(c)
  BY <1>1, SegmentoCrearVista
<1>2. CASE SegmentoError(c)
  BY <1>2, SegmentoErrorVista
<1>3. CASE SegmentoEliminar(c)
  BY <1>3, SegmentoEliminarVista
<1>4. CASE PedirCompactar(c)
  BY <1>4, PedirCompactarVista
<1>5. CASE Compactar(c)
  BY <1>5, CompactarVista
<1>6. QED
  BY <1>1, <1>2, <1>3, <1>4, <1>5 DEF PasoMemoria

-----------------------------------------------------------------------------
(* Devices.                                                                 *)

\* The machine of a process that waits for a device.
EnEsperaDe(p, segs, x, pant) ==
  Maq(contextos[p].instrucciones, contextos[p].registros, segs, x, pant, TRUE)

\* No CPU has it: its registers are those of the context.
LEMMA IoVista ==
  ASSUME MemInv, NEW p \in Pids, pedido[p].op \in DeIo
  PROVE  /\ Vista(p) = EnEsperaDe(p, SegDe(swap[p], contextos[p].tabla, ram),
                                  SinDireccion(pedido[p]), pantalla[p])
         /\ Vista(p).vivo
<1>1. /\ estado[p] # "EXIT" /\ \A c \in Cpus : cpu[c].pid # p
  BY EsperaDispositivo
<1>2. RegDe(cpu, contextos, p) = contextos[p].registros
  BY <1>1, RegDeNinguna
<1>3. PICK s, x : s = SegDe(swap[p], contextos[p].tabla, ram) /\ x = SinDireccion(pedido[p])
  OBVIOUS
<1>4. Vista(p) = Maq(contextos[p].instrucciones, contextos[p].registros, s, x, pantalla[p],
                     estado[p] # "EXIT")
  BY <1>2, <1>3, VistaDe
<1>5. Vista(p) = Maq(contextos[p].instrucciones, contextos[p].registros, s, x, pantalla[p], TRUE)
  BY <1>1, <1>4, VivoEs
<1>6. Vista(p).vivo
  BY <1>5 DEF Maq
<1>7. QED
  BY <1>3, <1>5, <1>6 DEF EnEsperaDe

\* manejar_fin_io: the request has been served, and nobody else sees it.
LEMMA DespertarVista ==
  ASSUME MemInv, NEW p \in Pids, pedido[p].op \in DeIo, Despertar(p),
         UNCHANGED <<contextos, swap, cpu>>,
         NEW segs, SegDe(swap[p], contextos[p].tabla, ram') = segs,
         \A q \in Pids \ {p} :
           /\ SegDe(swap[q], contextos[q].tabla, ram') = SegDe(swap[q], contextos[q].tabla, ram)
           /\ pantalla'[q] = pantalla[q],
         NEW pant, pantalla'[p] = pant,
         EnEsperaDe(p, segs, Nada, pant)
           \in M!Siguientes(EnEsperaDe(p, SegDe(swap[p], contextos[p].tabla, ram),
                                       SinDireccion(pedido[p]), pantalla[p]))
  PROVE  Pasa(p)
<1>1. /\ estado \in [Pids -> EstadosProceso] /\ pedido \in [Pids -> PedidosReales]
  BY DEF MemInv, Memoria, Tipos
<1>2. /\ estado[p] # "EXIT" /\ \A c \in Cpus : cpu[c].pid # p
  BY EsperaDispositivo
<1>3. RegDe(cpu', contextos', p) = contextos[p].registros
  <2>1. RegDe(cpu, contextos, p) = contextos[p].registros
    BY <1>2, RegDeNinguna
  <2>2. QED
    BY <2>1
<1>4. /\ SinDireccion(pedido'[p]) = Nada /\ estado'[p] # "EXIT"
      /\ \A q \in Pids \ {p} : pedido'[q] = pedido[q] /\ estado'[q] = estado[q]
  BY <1>1 DEF Despertar, SinDireccion, Nada
<1>5. Vista(p)' = Maq(contextos[p].instrucciones, contextos[p].registros, segs, Nada, pant,
                      estado'[p] # "EXIT")
  BY <1>3, <1>4, VistaDe
<1>6. Vista(p)' = EnEsperaDe(p, segs, Nada, pant)
  BY <1>4, <1>5, VivoEs DEF EnEsperaDe
<1>7. ASSUME NEW q \in Pids \ {p}
      PROVE  Vista(q)' = Vista(q)
  <2>1. CpusIgual(q)
    BY DEF CpusIgual
  <2>2. QED
    BY <1>4, <2>1, VistaQuieta
<1>8. Vista(p).vivo /\ Vista(p)' \in M!Siguientes(Vista(p))
  BY <1>6, IoVista
<1>9. QED
  BY <1>7, <1>8 DEF Pasa

\* ejecutar_io_sleep.
LEMMA FinSleepVista ==
  ASSUME MemInv, NEW p \in Pids, FinSleep(p)
  PROVE  Pasa(p)
<1>1. /\ pedido[p].op = "SLEEP" /\ Despertar(p)
      /\ UNCHANGED <<contextos, memVars, pantalla, cpu>>
  BY DEF FinSleep
<1>2. PICK s : s = SegDe(swap[p], contextos[p].tabla, ram)
  OBVIOUS
<1>3. SinDireccion(pedido[p]).op = "SLEEP"
  BY <1>1 DEF SinDireccion
<1>4. PICK x : x = SinDireccion(pedido[p])
  OBVIOUS
<1>5. EnEsperaDe(p, s, Nada, pantalla[p]) \in M!Siguientes(EnEsperaDe(p, s, x, pantalla[p]))
  BY <1>3, <1>4, ServidoIo DEF EnEsperaDe
<1>6. pedido[p].op \in DeIo
  BY <1>1 DEF DeIo
<1>7. QED
  BY <1>1, <1>2, <1>4, <1>5, <1>6, DespertarVista DEF memVars

\* The address that was kept is the one of the process, unless its segments went
\* elsewhere meanwhile.
KsEnSuLugar ==
  \A p \in Pids :
    /\ pedido[p].op \in {"STDIN", "STDOUT"} /\ p \notin movidos
    /\ ~ Desborda(pedido[p].dl, pedido[p].tam)
    => EnSuLugar(p)

\* The access of a request, in the machine: the segment where the address that was kept
\* is.
LEMMA AccesoIo ==
  ASSUME Anchos, MemInv, ~ memoria_ajena,
         NEW p \in Pids, pedido[p].op \in {"STDIN", "STDOUT"},
         ~ Desborda(pedido[p].dl, pedido[p].tam), EnSuLugar(p)
  PROVE  /\ pedido[p].dl \in Nat /\ pedido[p].tam \in Nat /\ pedido[p].df \in Nat
         /\ SegDe(swap[p], contextos[p].tabla, ram) = Bajado(p) /\ swap[p] = <<>>
         /\ \E g \in Caben(contextos[p].tabla, pedido[p].dl, pedido[p].tam) :
              /\ g \in Donde(Bajado(p), pedido[p].dl, pedido[p].tam)
              /\ pedido[p].df = Fisica(p, g, pedido[p].dl)
<1>1. PICK x : x = pedido[p]
  OBVIOUS
<1>2. /\ x.dl \in Palabras /\ x.tam \in Nat \ {0} /\ x.df \in Nat /\ swap[p] = <<>>
      /\ \E i \in Caben(contextos[p].tabla, x.dl, x.tam) :
           x.df = contextos[p].tabla[i].base + (x.dl % TamMaxSegmento)
  BY <1>1, DireccionReal
<1>3. PICK dl \in Nat, tam \in Nat : dl = x.dl /\ tam = x.tam
  BY <1>2 DEF Palabras
<1>4. PICK g \in Caben(contextos[p].tabla, dl, tam) : x.df = Fisica(p, g, dl)
  BY <1>2, <1>3 DEF Fisica
<1>5. g \in Donde(Bajado(p), dl, tam)
  BY CabeReal
<1>6. SegDe(swap[p], contextos[p].tabla, ram) = Bajado(p)
  BY <1>2, SegDeEntera
<1>7. QED
  BY <1>1, <1>2, <1>3, <1>4, <1>5, <1>6

\* ejecutar_io_stdin: the bytes that came are in the segment of the process, and in no
\* other.
LEMMA FinStdinVista ==
  ASSUME Anchos, MemInv, KsEnSuLugar, ~ memoria_ajena, ~ memoria_ajena',
         NEW p \in Pids, FinStdin(p)
  PROVE  Pasa(p)
<1>a. EnSuLugar(p) /\ ~ Desborda(pedido[p].dl, pedido[p].tam)
  BY DEF FinStdin, AccedeKs, KsEnSuLugar
<1>1. /\ pedido[p].op = "STDIN" /\ Despertar(p)
      /\ UNCHANGED <<contextos, swap, pantalla, cpu>>
  BY DEF FinStdin
<1>2. PICK dl \in Nat, tam \in Nat, df \in Nat :
        dl = pedido[p].dl /\ tam = pedido[p].tam /\ df = pedido[p].df
  BY <1>a, <1>1, AccesoIo
<1>3. PICK g \in Caben(contextos[p].tabla, dl, tam) :
        g \in Donde(Bajado(p), dl, tam) /\ df = Fisica(p, g, dl)
  BY <1>a, <1>1, <1>2, AccesoIo
<1>4. PICK b \in [1 .. tam -> Bytes] :
        ram' = [a \in DOMAIN ram |-> IF a - df + 1 \in DOMAIN b THEN b[a - df + 1] ELSE ram[a]]
  BY <1>2 DEF FinStdin
<1>5. SeEscribio(ram', df, tam, b)
  <2>1. ram \in [0 .. Total - 1 -> Bytes]
    BY DEF MemInv, Memoria, Tipos
  <2>2. ASSUME NEW a \in 0 .. Total - 1
        PROVE  a - df + 1 \in 1 .. tam <=> (df <= a /\ a < df + tam)
    BY <1>2
  <2>3. \A a \in 0 .. Total - 1 :
          ram'[a] = IF a - df + 1 \in 1 .. tam THEN b[a - df + 1] ELSE ram[a]
    BY <1>4, <2>1
  <2>4. QED
    BY <2>2, <2>3 DEF SeEscribio
<1>6. b \in TantosBytes(tam)
  BY <1>4 DEF TantosBytes
<1>7. PICK m : m = ram'
  OBVIOUS
<1>8. /\ SegDe(<<>>, contextos[p].tabla, m) = Escrito(Bajado(p), g, dl, b)
      /\ \A q \in Pids \ {p} :
           SegDe(swap[q], contextos[q].tabla, m) = SegDe(swap[q], contextos[q].tabla, ram)
  <2>1. SeEscribio(m, Fisica(p, g, dl), tam, b)
    BY <1>3, <1>5, <1>7
  <2>2. QED
    BY <1>6, <2>1, EscritoEs
<1>9. PICK segs : segs = Escrito(Bajado(p), g, dl, b)
  OBVIOUS
<1>10. swap[p] = <<>> /\ SegDe(swap[p], contextos[p].tabla, ram) = Bajado(p)
  BY <1>a, <1>1, AccesoIo
<1>11. PICK x : x = SinDireccion(pedido[p])
  OBVIOUS
<1>12. x.op = "STDIN" /\ x.dl = dl /\ x.tam = tam
  BY <1>1, <1>2, <1>11 DEF SinDireccion
<1>13. EnEsperaDe(p, segs, Nada, pantalla[p])
         \in M!Siguientes(EnEsperaDe(p, Bajado(p), x, pantalla[p]))
  <2>1. PICK pr, re, se, pa : /\ pr = contextos[p].instrucciones /\ re = contextos[p].registros
                              /\ se = Bajado(p) /\ pa = pantalla[p]
    OBVIOUS
  <2>2. \A h \in Donde(se, x.dl, x.tam), z \in TantosBytes(x.tam) :
          Maq(pr, re, Escrito(se, h, x.dl, z), Nada, pa, TRUE)
            \in M!Siguientes(Maq(pr, re, se, x, pa, TRUE))
    BY <1>12, ServidoIo
  <2>3. Maq(pr, re, Escrito(se, g, dl, b), Nada, pa, TRUE)
          \in M!Siguientes(Maq(pr, re, se, x, pa, TRUE))
    BY <1>3, <1>6, <1>12, <2>1, <2>2
  <2>4. QED
    BY <1>9, <2>1, <2>3 DEF EnEsperaDe
<1>14. pedido[p].op \in DeIo
  BY <1>1 DEF DeIo
<1>15. QED
  BY <1>1, <1>7, <1>8, <1>9, <1>10, <1>11, <1>13, <1>14, DespertarVista

\* ejecutar_io_stdout: what is shown is what the segment of the process has.
LEMMA FinStdoutVista ==
  ASSUME Anchos, MemInv, KsEnSuLugar, ~ memoria_ajena, ~ memoria_ajena',
         NEW p \in Pids, FinStdout(p)
  PROVE  Pasa(p)
<1>a. EnSuLugar(p) /\ ~ Desborda(pedido[p].dl, pedido[p].tam)
  BY DEF FinStdout, AccedeKs, KsEnSuLugar
<1>1. /\ pedido[p].op = "STDOUT" /\ Despertar(p)
      /\ UNCHANGED <<contextos, memVars, cpu>>
      /\ pantalla' = [pantalla EXCEPT ![p] =
           [k \in 1 .. pedido[p].tam |-> ram[pedido[p].df + k - 1]]]
  BY DEF FinStdout
<1>2. PICK dl \in Nat, tam \in Nat, df \in Nat :
        dl = pedido[p].dl /\ tam = pedido[p].tam /\ df = pedido[p].df
  BY <1>a, <1>1, AccesoIo
<1>3. PICK g \in Caben(contextos[p].tabla, dl, tam) :
        g \in Donde(Bajado(p), dl, tam) /\ df = Fisica(p, g, dl)
  BY <1>a, <1>1, <1>2, AccesoIo
<1>4. PICK pant : pant = [k \in 1 .. tam |-> ram[df + k - 1]]
  OBVIOUS
<1>5. Leido(Bajado(p), g, dl, tam) = pant
  <2>1. Leido(Bajado(p), g, dl, tam) = [k \in 1 .. tam |-> ram[Fisica(p, g, dl) + k - 1]]
    BY LeidoEs
  <2>2. QED
    BY <1>3, <1>4, <2>1
<1>6. pantalla'[p] = pant /\ \A q \in Pids \ {p} : pantalla'[q] = pantalla[q]
  <2>1. pantalla \in [Pids -> Seq(Bytes)]
    BY DEF MemInv, Memoria, Tipos
  <2>2. QED
    BY <1>1, <1>2, <1>4, <2>1
<1>7. SegDe(swap[p], contextos[p].tabla, ram) = Bajado(p)
  BY <1>a, <1>1, AccesoIo
<1>8. PICK x : x = SinDireccion(pedido[p])
  OBVIOUS
<1>9. x.op = "STDOUT" /\ x.dl = dl /\ x.tam = tam
  BY <1>1, <1>2, <1>8 DEF SinDireccion
<1>10. EnEsperaDe(p, Bajado(p), Nada, pant)
         \in M!Siguientes(EnEsperaDe(p, Bajado(p), x, pantalla[p]))
  <2>1. PICK pr, re, se, pa : /\ pr = contextos[p].instrucciones /\ re = contextos[p].registros
                              /\ se = Bajado(p) /\ pa = pantalla[p]
    OBVIOUS
  <2>2. \A h \in Donde(se, x.dl, x.tam) :
          Maq(pr, re, se, Nada, Leido(se, h, x.dl, x.tam), TRUE)
            \in M!Siguientes(Maq(pr, re, se, x, pa, TRUE))
    BY <1>9, ServidoIo
  <2>3. Maq(pr, re, se, Nada, pant, TRUE) \in M!Siguientes(Maq(pr, re, se, x, pa, TRUE))
    BY <1>3, <1>5, <1>9, <2>1, <2>2
  <2>4. QED
    BY <2>1, <2>3 DEF EnEsperaDe
<1>11. pedido[p].op \in DeIo
  BY <1>1 DEF DeIo
<1>12. PICK segs : segs = Bajado(p)
  OBVIOUS
<1>13. QED
  BY <1>1, <1>6, <1>7, <1>8, <1>10, <1>11, <1>12, DespertarVista DEF memVars

-----------------------------------------------------------------------------
(* Suspension.                                                              *)

\* Steps that leave every process what its program sees.
LEMMA NadieSeMueve ==
  ASSUME UNCHANGED <<cpu, pedido, pantalla>>,
         \A q \in Pids :
           /\ contextos'[q].instrucciones = contextos[q].instrucciones
           /\ contextos'[q].registros = contextos[q].registros
           /\ SegDe(swap'[q], contextos'[q].tabla, ram') = SegDe(swap[q], contextos[q].tabla, ram)
           /\ (estado'[q] = "EXIT") <=> (estado[q] = "EXIT")
  PROVE  NadiePasa
<1>1. ASSUME NEW q \in Pids
      PROVE  Vista(q)' = Vista(q)
  <2>1. CpusIgual(q)
    BY DEF CpusIgual
  <2>2. QED
    BY <2>1, VistaIgual
<1>2. QED
  BY <1>1 DEF NadiePasa

\* hilo_suspension.
LEMMA SuspenderVista ==
  ASSUME MemInv, NEW p \in Pids, Suspender(p)
  PROVE  NadiePasa
<1>1. estado \in [Pids -> EstadosProceso]
  BY DEF MemInv, Memoria, Tipos
<1>2. /\ estado[p] = "BLOCK" /\ estado' = [estado EXCEPT ![p] = "SUSP_BLOCK"]
      /\ UNCHANGED <<contextos, memVars, pedido, pantalla, cpu>>
  BY DEF Suspender
<1>3. \A q \in Pids : (estado'[q] = "EXIT") <=> (estado[q] = "EXIT")
  BY <1>1, <1>2
<1>4. QED
  BY <1>2, <1>3, NadieSeMueve DEF memVars

\* proceso_suspender: the segments are in the SWAP with the bytes they had.
LEMMA ProcesoSuspenderVista ==
  ASSUME MemInv, NEW p \in Pids, ProcesoSuspender(p)
  PROVE  NadiePasa
<1>1. /\ UNCHANGED <<ram, estado, pedido, pantalla, cpu>>
      /\ \/ /\ swap[p] = <<>>
            /\ swap' = [swap EXCEPT ![p] = Bajado(p)]
            /\ contextos' = [contextos EXCEPT ![p].tabla = <<>>]
         \/ UNCHANGED <<swap, contextos>>
  BY DEF ProcesoSuspender, Bajado
<1>2. CASE UNCHANGED <<swap, contextos>>
  BY <1>1, <1>2, NadieSeMueve
<1>3. CASE /\ swap[p] = <<>>
           /\ swap' = [swap EXCEPT ![p] = Bajado(p)]
           /\ contextos' = [contextos EXCEPT ![p].tabla = <<>>]
  <2>1. /\ swap \in [Pids -> Seq(Guardado)] /\ contextos \in [Pids -> ContextoReal]
    BY DEF MemInv, Memoria, Tipos
  <2>3. /\ swap'[p] = Bajado(p) /\ contextos'[p].tabla = <<>>
        /\ \A q \in Pids : /\ contextos'[q].instrucciones = contextos[q].instrucciones
                           /\ contextos'[q].registros = contextos[q].registros
        /\ \A q \in Pids \ {p} : swap'[q] = swap[q] /\ contextos'[q] = contextos[q]
    BY <1>3, <2>1 DEF ContextoReal
  <2>4. SegDe(<<>>, contextos[p].tabla, ram) = Bajado(p)
    BY SegDeEntera
  <2>5. SegDe(Bajado(p), <<>>, ram) = Bajado(p)
    <3>1. \A w \in Seq(Guardado) : \A m : SegDe(w, <<>>, m) = w
      BY SegDeEntera
    <3>2. QED
      BY <3>1, BajadoReal
  <2>6. SegDe(swap'[p], contextos'[p].tabla, ram') = SegDe(swap[p], contextos[p].tabla, ram)
    BY <1>1, <1>3, <2>3, <2>4, <2>5
  <2>7. \A q \in Pids :
          SegDe(swap'[q], contextos'[q].tabla, ram') = SegDe(swap[q], contextos[q].tabla, ram)
    BY <1>1, <2>3, <2>6
  <2>8. QED
    BY <1>1, <2>3, <2>7, NadieSeMueve
<1>4. QED
  BY <1>1, <1>2, <1>3

\* proceso_dessuspender: what the other processes have in the memory stays.
LEMMA SubidoAjeno ==
  ASSUME MemInv, NEW p \in Pids, NEW nuevos, Subido(p, nuevos), NEW q \in Pids
  PROVE  \A w : SegDe(w, contextos[q].tabla, ram') = SegDe(w, contextos[q].tabla, ram)
<1>1. PICK t \in Seq(SegmentoReal) : t = contextos[q].tabla
  BY LlenosDe
<1>2. ASSUME NEW i \in DOMAIN t, NEW k \in 1 .. t[i].limite
      PROVE  ram'[t[i].base + k - 1] = ram[t[i].base + k - 1]
  <2>1. PICK b \in Nat, n \in Nat : b = t[i].base /\ n = t[i].limite /\ b + n <= Total /\ Total \in Nat
    BY <1>1, ContenidoReal
  <2>2. k \in 1 .. n
    BY <1>2, <2>1
  <2>3. b + k - 1 \in 0 .. Total - 1 /\ b + k - 1 \in b .. b + n - 1
    BY <2>1, <2>2, ByteDelSegmento
  <2>4. b + k - 1 \notin Libres
    <3>1. Lugar(t[i]) \cap Libres = {}
      BY <1>1, OcupadoNoLibre
    <3>2. Lugar(t[i]) = b .. b + n - 1
      BY <2>1 DEF Lugar
    <3>3. QED
      BY <2>3, <3>1, <3>2
  <2>5. ram'[b + k - 1] = ram[b + k - 1]
    BY <2>3, <2>4 DEF Subido
  <2>6. QED
    BY <2>1, <2>5
<1>3. PICK m : m = ram'
  OBVIOUS
<1>4. \A i \in DOMAIN t : \A k \in 1 .. t[i].limite : m[t[i].base + k - 1] = ram[t[i].base + k - 1]
  BY <1>2, <1>3
<1>5. \A w : SegDe(w, t, m) = SegDe(w, t, ram)
  BY <1>4, SegDeIgual
<1>6. QED
  BY <1>1, <1>3, <1>5

\* Its own segments come back with what the SWAP had of them.
LEMMA SubidoPropio ==
  ASSUME MemInv, ~ memoria_ajena, NEW p \in Pids, NEW nuevos \in Seq(SegmentoReal), Subido(p, nuevos)
  PROVE  SegDe(<<>>, contextos[p].tabla \o nuevos, ram') = SegDe(swap[p], contextos[p].tabla, ram)
<1>1. PICK w \in Seq(Guardado) : w = swap[p]
  BY DEF MemInv, Memoria, Tipos
<1>2. PICK n \in Nat : DOMAIN w = 1 .. n /\ Len(w) = n
  OBVIOUS
<1>3. DOMAIN nuevos = 1 .. n
  BY <1>1, <1>2 DEF Subido
<1>4. CASE w = <<>>
  <2>1. n = 0
    BY <1>2, <1>4
  <2>2. nuevos = <<>>
    BY <1>3, <2>1
  <2>3. contextos[p].tabla \o nuevos = contextos[p].tabla
    <3>1. contextos[p].tabla \in Seq(SegmentoReal)
      BY LlenosDe
    <3>2. QED
      BY <2>2, <3>1
  <2>4. SegDe(<<>>, contextos[p].tabla, ram') = SegDe(<<>>, contextos[p].tabla, ram)
    BY SubidoAjeno
  <2>5. QED
    BY <1>1, <1>4, <2>3, <2>4
<1>5. CASE w # <<>>
  <2>1. contextos[p].tabla = <<>>
    BY <1>1, <1>5 DEF MemInv, EnSwap
  <2>2. contextos[p].tabla \o nuevos = nuevos
    BY <2>1
  <2>3. PICK m : m = ram'
    OBVIOUS
  <2>4. ASSUME NEW i \in 1 .. n
        PROVE  Lleno(nuevos[i], m) = w[i]
    <3>1. w[i] \in Guardado
      BY <1>2
    <3>2. PICK b : b = w[i].bytes
      OBVIOUS
    <3>3. b \in Seq(Bytes) /\ w[i] = SegmentoDe(w[i].id, b)
      BY <3>1, <3>2 DEF Guardado, SegmentoDe
    <3>4. /\ nuevos[i].id = w[i].id /\ nuevos[i].limite = Len(b)
          /\ \A k \in 1 .. nuevos[i].limite : m[nuevos[i].base + k - 1] = b[k]
      BY <1>1, <1>3, <2>3, <3>2 DEF Subido
    <3>5. [k \in 1 .. nuevos[i].limite |-> m[nuevos[i].base + k - 1]] = [k \in 1 .. Len(b) |-> b[k]]
      BY <3>4
    <3>6. b = [k \in 1 .. Len(b) |-> b[k]]
      BY <3>3
    <3>7. QED
      BY <3>3, <3>4, <3>5, <3>6 DEF Lleno
  <2>5. Llenos(nuevos, m) = w
    <3> DEFINE G(i) == Lleno(nuevos[i], m)
               H(i) == w[i]
    <3>1. \A i \in 1 .. n : G(i) = H(i)
      BY <2>4
    <3>2. Llenos(nuevos, m) = [i \in 1 .. n |-> G(i)]
      BY <1>3 DEF Llenos
    <3>3. w = [i \in 1 .. n |-> H(i)]
      BY <1>2
    <3> HIDE DEF G, H
    <3>4. QED
      BY <3>1, <3>2, <3>3
  <2>6. SegDe(<<>>, nuevos, m) = w
    BY <2>5, SegDeLlenos
  <2>7. SegDe(w, <<>>, ram) = w
    <3>1. \A z \in Seq(Guardado) : \A y : SegDe(z, <<>>, y) = z
      BY SegDeEntera
    <3>2. QED
      BY <3>1
  <2>8. QED
    BY <1>1, <2>1, <2>2, <2>3, <2>6, <2>7
<1>6. QED
  BY <1>4, <1>5

\* proceso_dessuspender, intentar_dessuspender_procesos.
LEMMA DessuspenderVista ==
  ASSUME Anchos, MemInv, ~ memoria_ajena, NEW p \in Pids, Dessuspender(p)
  PROVE  NadiePasa
<1>1. PICK nuevos \in Seq(SegmentoReal) : Subido(p, nuevos)
  BY DessuspenderHecho
<1>2. /\ estado[p] = "SUSP_READY" /\ estado' = [estado EXCEPT ![p] = "READY"]
      /\ swap' = [swap EXCEPT ![p] = <<>>]
      /\ UNCHANGED <<pedido, pantalla, cpu>>
  BY Zenon DEF Dessuspender
<1>3. /\ swap \in [Pids -> Seq(Guardado)] /\ contextos \in [Pids -> ContextoReal]
      /\ estado \in [Pids -> EstadosProceso]
  BY DEF MemInv, Memoria, Tipos
<1>4. PICK u : u = contextos[p].tabla \o nuevos
  OBVIOUS
<1>5. contextos' = [contextos EXCEPT ![p].tabla = u]
  BY <1>1, <1>4 DEF Subido
<1>6. /\ swap'[p] = <<>> /\ contextos'[p].tabla = u
      /\ \A q \in Pids : /\ contextos'[q].instrucciones = contextos[q].instrucciones
                         /\ contextos'[q].registros = contextos[q].registros
      /\ \A q \in Pids \ {p} : swap'[q] = swap[q] /\ contextos'[q] = contextos[q]
  BY <1>2, <1>3, <1>5 DEF ContextoReal
<1>7. SegDe(swap'[p], contextos'[p].tabla, ram') = SegDe(swap[p], contextos[p].tabla, ram)
  <2>1. SegDe(<<>>, contextos[p].tabla \o nuevos, ram') = SegDe(swap[p], contextos[p].tabla, ram)
    BY <1>1, SubidoPropio
  <2>2. QED
    BY <1>4, <1>6, <2>1
<1>8. ASSUME NEW q \in Pids \ {p}
      PROVE  SegDe(swap'[q], contextos'[q].tabla, ram') = SegDe(swap[q], contextos[q].tabla, ram)
  <2>1. \A w : SegDe(w, contextos[q].tabla, ram') = SegDe(w, contextos[q].tabla, ram)
    BY <1>1, SubidoAjeno
  <2>2. QED
    BY <1>6, <2>1
<1>9. \A q \in Pids : (estado'[q] = "EXIT") <=> (estado[q] = "EXIT")
  BY <1>2, <1>3
<1>10. QED
  BY <1>2, <1>6, <1>7, <1>8, <1>9, NadieSeMueve

\* Every step of a device, of a suspension or of its end.
LEMMA PasoProcesoVista ==
  ASSUME Anchos, MemInv, KsEnSuLugar, ~ memoria_ajena, ~ memoria_ajena',
         NEW p \in Pids, PasoProceso(p)
  PROVE  NadiePasa \/ \E q \in Pids : Pasa(q)
<1>1. CASE FinSleep(p)
  BY <1>1, FinSleepVista
<1>2. CASE FinStdin(p)
  BY <1>2, FinStdinVista
<1>3. CASE FinStdout(p)
  BY <1>3, FinStdoutVista
<1>4. CASE KsCae(p)
  BY <1>4, NadieSeMueve DEF KsCae, memVars
<1>5. CASE Suspender(p)
  BY <1>5, SuspenderVista
<1>6. CASE ProcesoSuspender(p)
  BY <1>6, ProcesoSuspenderVista
<1>7. CASE Dessuspender(p)
  BY <1>7, DessuspenderVista
<1>8. QED
  BY <1>1, <1>2, <1>3, <1>4, <1>5, <1>6, <1>7 DEF PasoProceso

\* A stick joins, or listens.
LEMMA PasoStickVista ==
  ASSUME PasoStick
  PROVE  NadiePasa
  BY NadieSeMueve DEF PasoStick, Conectar, Escuchar

-----------------------------------------------------------------------------
(* The addresses that the Kernel Scheduler keeps.                           *)

DeDatos == {"STDIN", "STDOUT"}

\* The request of a process, its segments and what is remembered of it stay.
Quieto(p) ==
  /\ pedido'[p] = pedido[p] /\ contextos'[p].tabla = contextos[p].tabla
  /\ p \in movidos => p \in movidos'

\* What a step may do to a request of STDIN or STDOUT.
PedidoSeguro(p) ==
  \/ Quieto(p)
  \/ pedido'[p].op \notin DeDatos
  \/ p \in movidos'
  \/ Desborda(pedido'[p].dl, pedido'[p].tam)
  \/ EnSuLugar(p)'

\* A step that leaves the requests as they are, and the segments.
LEMMA NadiePide ==
  ASSUME UNCHANGED <<contextos, pedido, movidos>>, NEW p \in Pids
  PROVE  PedidoSeguro(p)
  BY DEF PedidoSeguro, Quieto

\* A CPU, or the answer to it, changes the request of one process; the others keep theirs.
LEMMA PideUno ==
  ASSUME Tipos, NEW p \in Pids, NEW x, pedido' = [pedido EXCEPT ![p] = x],
         x.op \notin DeDatos \/ PedidoSeguro(p),
         \A q \in Pids \ {p} : contextos'[q].tabla = contextos[q].tabla,
         movidos \subseteq movidos', NEW q \in Pids
  PROVE  PedidoSeguro(q)
<1>1. pedido'[p] = x /\ \A r \in Pids \ {p} : pedido'[r] = pedido[r]
  BY DEF Tipos
<1>2. QED
  BY <1>1 DEF PedidoSeguro, Quieto

\* The process of a CPU ends.
LEMMA TerminarSeguro ==
  ASSUME Tipos, NEW c \in Cpus, cpu[c].pid \in Pids, NEW l, Terminar(c, l), NEW q \in Pids
  PROVE  PedidoSeguro(q)
<1>1. /\ pedido' = [pedido EXCEPT ![cpu[c].pid] = Nada] /\ UNCHANGED movidos
      /\ \A r \in Pids \ {cpu[c].pid} : contextos'[r] = contextos[r]
  BY DEF Terminar, suspVars, avisoVars, Tipos
<1>2. Nada.op \notin DeDatos
  BY DEF Nada, DeDatos
<1>3. QED
  BY <1>1, <1>2, PideUno

\* A process asks: its segments stay.
LEMMA PedirSeguro ==
  ASSUME Tipos, NEW c \in Cpus, cpu[c].pid \in Pids, NEW r, GuardarContexto(c, r),
         NEW x, x.op \notin DeDatos, pedido' = [pedido EXCEPT ![cpu[c].pid] = x],
         UNCHANGED movidos, NEW q \in Pids
  PROVE  PedidoSeguro(q)
<1>1. \A s \in Pids \ {cpu[c].pid} : contextos'[s] = contextos[s]
  BY DEF GuardarContexto, Tipos
<1>2. QED
  BY <1>1, PideUno

\* ejecutar_syscall_stdin, ejecutar_syscall_stdout: the address is the one that the table
\* of the process gives, if its segments have not gone elsewhere.
LEMMA DatosSeguro ==
  ASSUME Anchos, MemInv, NEW c \in Cpus, EjecutarDatos(c), NEW q \in Pids
  PROVE  PedidoSeguro(q)
<1>1. /\ cpu[c].estado = "ejecuta"
      /\ Reg(c) \in Registro /\ cpu[c].pid \in Pids
      /\ cpu[c].pid \notin movidos => cpu[c].tabla = contextos[cpu[c].pid].tabla
      /\ cpu[c].tabla \in Seq(SegmentoReal)
      /\ \A i \in DOMAIN cpu[c].tabla : cpu[c].tabla[i].base + cpu[c].tabla[i].limite <= Total
  <2>1. cpu[c].estado = "ejecuta"
    BY DEF EjecutarDatos, HayInstruccion
  <2>2. QED
    BY <2>1, CpuEjecuta
<1>2. Tipos
  BY DEF MemInv, Memoria
<1>3. HayInstruccion(c) /\ Instr(c).op \in DeDatos
  BY DEF EjecutarDatos, DeDatos
<1>4. PICK p \in Pids : p = cpu[c].pid
  BY <1>1
<1>5. PICK dl, tam : dl = Reg(c)[Instr(c).r] /\ tam = Reg(c)[Instr(c).s]
  OBVIOUS
<1>6. dl \in Palabras /\ tam \in Palabras
  <2>1. Instr(c).r \in Nombre /\ Instr(c).s \in Nombre
    BY <1>3, InstruccionReal
  <2>2. QED
    BY <1>1, <1>5, <2>1 DEF Registro
<1>7. \/ UNCHANGED <<contextos, pedido, movidos>>
      \/ Terminar(c, cpu[c].lista)
      \/ /\ tam > 0
         /\ \E df \in Usa(c, dl, tam) :
              Bloquear(c, [op |-> Instr(c).op, dl |-> dl, df |-> df, tam |-> tam])
  BY <1>5, Zenon DEF EjecutarDatos, suspVars, avisoVars, Falta
<1>8. ASSUME tam > 0, NEW df \in Usa(c, dl, tam),
             Bloquear(c, [op |-> Instr(c).op, dl |-> dl, df |-> df, tam |-> tam])
      PROVE  PedidoSeguro(q)
  <2>1. PICK x : x = [op |-> Instr(c).op, dl |-> dl, df |-> df, tam |-> tam]
    OBVIOUS
  <2>2. /\ GuardarContexto(c, Avanzar(Reg(c))) /\ UNCHANGED movidos
        /\ pedido' = [pedido EXCEPT ![p] = x]
    BY <1>4, <1>8, <2>1 DEF Bloquear, avisoVars
  <2>3. /\ pedido'[p] = x /\ contextos'[p].tabla = contextos[p].tabla
        /\ \A r \in Pids \ {p} : contextos'[r] = contextos[r]
    BY <1>2, <1>4, <2>2 DEF GuardarContexto, Tipos, ContextoReal
  <2>4. ASSUME p \notin movidos, ~ Desborda(dl, tam)
        PROVE  EnSuLugar(p)'
    <3>1. PICK t \in Seq(SegmentoReal) : t = contextos[p].tabla
      BY <1>1, <1>4, <2>4
    <3>2. df \in Traducir(t, dl, tam)
      BY <1>1, <1>4, <1>8, <2>4, <3>1 DEF Usa
    <3>3. Traducir(t, dl, tam) = {df}
      <4>1. PICK n \in Nat \ {0} : n = tam
        BY <1>6, <1>8 DEF Palabras
      <4>2. dl % TamMaxSegmento \in Nat /\ (dl % TamMaxSegmento) + n < Palabra
        <5>1. dl \in Nat /\ dl % TamMaxSegmento \in Nat
          BY <1>6, MmuOK DEF Palabras
        <5>2. Palabra \in Nat
          BY Potencias
        <5>3. QED
          BY <2>4, <4>1, <5>1, <5>2 DEF Desborda
      <4>3. \A i \in DOMAIN t : t[i].base + t[i].limite <= Total
        BY <1>1, <1>4, <2>4, <3>1
      <4>4. /\ Traducir(t, dl, n) = {t[i].base + (dl % TamMaxSegmento) : i \in Caben(t, dl, n)}
            /\ \A i, j \in Caben(t, dl, n) : i = j
        BY <1>6, <4>2, <4>3, TraducirSinVuelta
      <4>5. QED
        BY <3>2, <4>1, <4>4
    <3>4. contextos'[p].tabla = t /\ pedido'[p].dl = dl /\ pedido'[p].tam = tam /\ pedido'[p].df = df
      BY <2>1, <2>3, <3>1
    <3>5. QED
      BY <3>3, <3>4 DEF EnSuLugar
  <2>5. PedidoSeguro(p)
    <3>1. pedido'[p].dl = dl /\ pedido'[p].tam = tam
      BY <2>1, <2>3
    <3>2. QED
      BY <2>2, <2>4, <3>1 DEF PedidoSeguro
  <2>6. QED
    BY <1>2, <2>2, <2>3, <2>5, PideUno
<1>9. QED
  BY <1>1, <1>2, <1>5, <1>7, <1>8, NadiePide, TerminarSeguro

\* Every step of a CPU.
LEMMA PasoCpuSeguro ==
  ASSUME Anchos, MemInv, NEW c \in Cpus, PasoCpu(c), NEW q \in Pids
  PROVE  PedidoSeguro(q)
<1>1. Tipos
  BY DEF MemInv, Memoria
<1>2. CASE \E p \in Pids : Despachar(c, p)
  BY <1>2, NadiePide DEF Despachar, suspVars, avisoVars
<1>3. CASE ObtenerContexto(c)
  <2>1. /\ UNCHANGED <<contextos, pedido>> /\ movidos' = movidos \ {cpu[c].pid}
        /\ cpu[c].estado \in {"asignada", "refresca"}
    BY <1>3 DEF ObtenerContexto
  <2>2. pedido[cpu[c].pid] = Nada
    BY <2>1 DEF MemInv, Memoria, SinPedido
  <2>3. CASE q = cpu[c].pid
    BY <2>1, <2>2, <2>3 DEF PedidoSeguro, Nada, DeDatos
  <2>4. CASE q # cpu[c].pid
    BY <2>1, <2>4 DEF PedidoSeguro, Quieto
  <2>5. QED
    BY <2>3, <2>4
<1>4. CASE NoInterrumpir(c)
  BY <1>4, NadiePide DEF NoInterrumpir, suspVars, avisoVars
<1>5. CASE Interrumpir(c)
  <2>1. cpu[c].pid \in Pids
    <3>1. cpu[c].estado # "libre"
      BY <1>5 DEF Interrumpir
    <3>2. QED
      BY <3>1, ProcesoEnCpu
  <2>2. GuardarContexto(c, Reg(c)) /\ UNCHANGED <<pedido, movidos>>
    BY <1>5 DEF Interrumpir, suspVars, avisoVars
  <2>3. contextos'[q].tabla = contextos[q].tabla
    BY <1>1, <2>1, <2>2 DEF GuardarContexto, Tipos, ContextoReal
  <2>4. QED
    BY <2>2, <2>3 DEF PedidoSeguro, Quieto
<1>6. ASSUME Ejecutar(c)
      PROVE  PedidoSeguro(q)
  <2>1. cpu[c].pid \in Pids
    <3>1. cpu[c].estado = "ejecuta"
      BY <1>6, EjecutarReal DEF EfectoReal
    <3>2. QED
      BY <3>1, CpuEjecuta
  <2>2. CASE EjecutarComun(c)
    BY <2>2, NadiePide DEF EjecutarComun, suspVars, avisoVars
  <2>3. CASE EjecutarExit(c)
    BY <1>1, <2>1, <2>3, TerminarSeguro DEF EjecutarExit
  <2>4. CASE EjecutarMovIn(c)
    <3>1. UNCHANGED <<contextos, pedido, movidos>> \/ \E l : Terminar(c, l)
      BY <2>4, Zenon DEF EjecutarMovIn, Falta, avisoVars
    <3>2. QED
      BY <1>1, <2>1, <3>1, NadiePide, TerminarSeguro
  <2>5. CASE EjecutarMovOut(c)
    <3>1. UNCHANGED <<contextos, pedido, movidos>> \/ \E l : Terminar(c, l)
      BY <2>5, Zenon DEF EjecutarMovOut, Falta, avisoVars
    <3>2. QED
      BY <1>1, <2>1, <3>1, NadiePide, TerminarSeguro
  <2>6. CASE EjecutarCopyMem(c)
    <3>1. UNCHANGED <<contextos, pedido, movidos>> \/ \E l : Terminar(c, l)
      BY <2>6, Zenon DEF EjecutarCopyMem, Falta, suspVars, avisoVars
    <3>2. QED
      BY <1>1, <2>1, <3>1, NadiePide, TerminarSeguro
  <2>7. CASE EjecutarSyscallMemoria(c)
    <3>1. PICK x : x.op \notin DeDatos /\ PedirYEsperar(c, x)
      BY <2>7 DEF EjecutarSyscallMemoria, DeDatos
    <3>2. /\ GuardarContexto(c, Avanzar(Reg(c))) /\ UNCHANGED movidos
          /\ pedido' = [pedido EXCEPT ![cpu[c].pid] = x]
      BY <3>1 DEF PedirYEsperar, suspVars, avisoVars
    <3>3. QED
      BY <1>1, <2>1, <3>1, <3>2, PedirSeguro
  <2>8. CASE EjecutarSleep(c)
    <3>1. PICK x : x.op \notin DeDatos /\ Bloquear(c, x)
      BY <2>8 DEF EjecutarSleep, DeDatos
    <3>2. /\ GuardarContexto(c, Avanzar(Reg(c))) /\ UNCHANGED movidos
          /\ pedido' = [pedido EXCEPT ![cpu[c].pid] = x]
      BY <3>1 DEF Bloquear, avisoVars
    <3>3. QED
      BY <1>1, <2>1, <3>1, <3>2, PedirSeguro
  <2>9. CASE EjecutarDatos(c)
    BY <2>9, DatosSeguro
  <2>10. QED
    BY <1>6, <2>2, <2>3, <2>4, <2>5, <2>6, <2>7, <2>8, <2>9 DEF Ejecutar
<1>7. QED
  BY <1>2, <1>3, <1>4, <1>5, <1>6 DEF PasoCpu

\* compactar: the requests whose addresses are no longer so are remembered.
LEMMA CompactarSeguro ==
  ASSUME MemInv, NEW c \in Cpus, Compactar(c), NEW q \in Pids
  PROVE  PedidoSeguro(q)
<1>1. PICK p \in Pids : p = cpu[c].pid
  BY CompactarTablas
<1>2. pedido' = [pedido EXCEPT ![p] = Nada]
  BY <1>1, Zenon DEF Compactar, Responde
<1>3. pedido \in [Pids -> PedidosReales]
  BY DEF MemInv, Memoria, Tipos
<1>4. CASE q = p
  BY <1>2, <1>3, <1>4 DEF PedidoSeguro, Nada, DeDatos
<1>5. CASE q # p
  <2>1. \E movidas, u :
          /\ contextos' = [movidas EXCEPT ![cpu[c].pid].tabla = u]
          /\ DOMAIN movidas = Pids
          /\ movidos' = movidos \cup {r \in Pids : movidas[r] # contextos[r]}
    <3> DEFINE seg(s) == contextos[s[1]].tabla[s[2]]
               nueva == [s \in Segmentos |->
                     Cardinality(UNION {Lugar(seg(t)) : t \in {u \in Segmentos : seg(u).base < seg(s).base}})]
               m == [r \in Pids |-> [contextos[r] EXCEPT !.tabla =
                       [i \in DOMAIN @ |-> [@[i] EXCEPT !.base = nueva[<<r, i>>]]]]]
    <3>1. /\ contextos' = [m EXCEPT ![cpu[c].pid].tabla =
              Append(@, [id |-> pedido[cpu[c].pid].id, base |-> Cardinality(Ocupados),
                         limite |-> pedido[cpu[c].pid].tam])]
          /\ movidos' = movidos \cup {r \in Pids : m[r] # contextos[r]}
      BY Zenon DEF Compactar
    <3>2. DOMAIN m = Pids
      OBVIOUS
    <3> HIDE DEF m
    <3>3. \E u : contextos' = [m EXCEPT ![cpu[c].pid].tabla = u]
      BY <3>1
    <3>4. QED
      BY <3>1, <3>2, <3>3
  <2>2. PICK movidas, u :
          /\ contextos' = [movidas EXCEPT ![p].tabla = u]
          /\ DOMAIN movidas = Pids
          /\ movidos' = movidos \cup {r \in Pids : movidas[r] # contextos[r]}
    BY <1>1, <2>1
  <2>3. contextos'[q] = movidas[q]
    BY <1>5, <2>2
  <2>4. contextos'[q] = contextos[q] \/ q \in movidos'
    BY <2>2, <2>3
  <2>5. pedido'[q] = pedido[q] /\ (q \in movidos => q \in movidos')
    BY <1>2, <1>3, <1>5, <2>2
  <2>6. QED
    BY <2>4, <2>5 DEF PedidoSeguro, Quieto
<1>6. QED
  BY <1>4, <1>5

\* Every answer of the Kernel Memory to a CPU.
LEMMA PasoMemoriaSeguro ==
  ASSUME Anchos, MemInv, NEW c \in Cpus, PasoMemoria(c), NEW q \in Pids
  PROVE  PedidoSeguro(q)
<1>1. CASE Compactar(c)
  BY <1>1, CompactarSeguro
<1>2. CASE PedirCompactar(c)
  BY <1>2, NadiePide DEF PedirCompactar, suspVars, avisoVars
<1>3. ASSUME ~ Compactar(c), SegmentoCrear(c) \/ SegmentoError(c) \/ SegmentoEliminar(c)
      PROVE  PedidoSeguro(q)
  <2>1. Tipos
    BY DEF MemInv, Memoria
  <2>2. cpu[c].estado = "respuesta"
    BY <1>3 DEF SegmentoCrear, SegmentoError, SegmentoEliminar, Espera
  <2>3. PICK p \in Pids : p = cpu[c].pid
    BY <2>2, ProcesoEnCpu
  <2>4. \A r \in Pids \ {p} : contextos'[r] = contextos[r]
    BY <1>3, <2>3, PasoMemoriaAparta DEF Aparta
  <2>5. pedido' = [pedido EXCEPT ![p] = Nada] /\ UNCHANGED movidos
    <3>1. \A l : Terminar(c, l) => pedido' = [pedido EXCEPT ![p] = Nada] /\ UNCHANGED movidos
      BY <2>3 DEF Terminar, suspVars, avisoVars
    <3>2. CASE SegmentoCrear(c)
      BY <2>3, <3>2, Zenon DEF SegmentoCrear, Responde, suspVars, avisoVars
    <3>3. CASE SegmentoError(c)
      BY <3>1, <3>3 DEF SegmentoError
    <3>4. CASE SegmentoEliminar(c)
      <4>1. \/ Terminar(c, cpu[c].lista)
            \/ Responde(c, "refresca") /\ UNCHANGED suspVars
        BY <3>4, Zenon DEF SegmentoEliminar
      <4>2. QED
        BY <2>3, <3>1, <4>1 DEF Responde, suspVars, avisoVars
    <3>5. QED
      BY <1>3, <3>2, <3>3, <3>4
  <2>6. Nada.op \notin DeDatos
    BY DEF Nada, DeDatos
  <2>7. QED
    BY <2>1, <2>4, <2>5, <2>6, PideUno
<1>4. QED
  BY <1>1, <1>2, <1>3 DEF PasoMemoria

\* Every step of a device, of a suspension or of its end.
LEMMA PasoProcesoSeguro ==
  ASSUME MemInv, NEW p \in Pids, PasoProceso(p), NEW q \in Pids
  PROVE  PedidoSeguro(q)
<1>1. /\ pedido \in [Pids -> PedidosReales] /\ contextos \in [Pids -> ContextoReal]
  BY DEF MemInv, Memoria, Tipos
<1>2. CASE FinSleep(p) \/ FinStdin(p) \/ FinStdout(p)
  <2>1. pedido' = [pedido EXCEPT ![p] = Nada] /\ UNCHANGED <<contextos, movidos>>
    BY <1>2 DEF FinSleep, FinStdin, FinStdout, Despertar, suspVars, avisoVars
  <2>2. QED
    BY <1>1, <2>1 DEF PedidoSeguro, Quieto, Nada, DeDatos
<1>3. CASE KsCae(p)
  BY <1>3, NadiePide DEF KsCae
<1>4. CASE Suspender(p)
  BY <1>4, NadiePide DEF Suspender
<1>5. CASE ProcesoSuspender(p)
  <2>1. /\ UNCHANGED pedido
        /\ \/ movidos' = movidos \cup {p} /\ contextos' = [contextos EXCEPT ![p].tabla = <<>>]
           \/ UNCHANGED <<contextos, movidos>>
    BY <1>5 DEF ProcesoSuspender
  <2>2. QED
    BY <1>1, <2>1 DEF PedidoSeguro, Quieto
<1>6. CASE Dessuspender(p)
  <2>1. /\ estado[p] = "SUSP_READY" /\ UNCHANGED <<pedido, movidos>>
        /\ \E u : contextos' = [contextos EXCEPT ![p].tabla = u]
    BY <1>6, Zenon DEF Dessuspender, suspVars, avisoVars
  <2>2. CASE q = p
    BY <2>1, <2>2 DEF MemInv, Memoria, SinPedido, PedidoSeguro, Nada, DeDatos
  <2>3. CASE q # p
    BY <1>1, <2>1, <2>3 DEF PedidoSeguro, Quieto
  <2>4. QED
    BY <2>2, <2>3
<1>7. QED
  BY <1>2, <1>3, <1>4, <1>5, <1>6 DEF PasoProceso

\* At the beginning nobody waits for a device.
LEMMA KsInicial ==
  ASSUME Init
  PROVE  KsEnSuLugar
  BY DEF Init, Nada, KsEnSuLugar

\* The address that was kept stays the one of the process for as long as its segments stay.
LEMMA KsConserva ==
  ASSUME Anchos, MemInv, KsEnSuLugar, [Next]_vars
  PROVE  KsEnSuLugar'
<1>1. ASSUME NEW p \in Pids
      PROVE  PedidoSeguro(p)
  <2>1. CASE \E c \in Cpus : PasoCpu(c)
    BY <2>1, PasoCpuSeguro
  <2>2. CASE \E c \in Cpus : PasoMemoria(c)
    BY <2>2, PasoMemoriaSeguro
  <2>3. CASE \E q \in Pids : PasoProceso(q)
    BY <2>3, PasoProcesoSeguro
  <2>4. CASE PasoStick \/ UNCHANGED vars
    BY <2>4, PasoStickAparta, NadiePide
  <2>5. QED
    BY <2>1, <2>2, <2>3, <2>4 DEF Next
<1>2. ASSUME NEW p \in Pids, pedido'[p].op \in DeDatos, p \notin movidos',
             ~ Desborda(pedido'[p].dl, pedido'[p].tam)
      PROVE  EnSuLugar(p)'
  <2>1. CASE Quieto(p)
    <3>1. EnSuLugar(p)
      BY <1>2, <2>1 DEF Quieto, DeDatos, KsEnSuLugar
    <3>2. QED
      BY <2>1, <3>1 DEF Quieto, EnSuLugar
  <2>2. QED
    BY <1>1, <1>2, <2>1 DEF PedidoSeguro
<1>3. QED
  BY <1>2 DEF KsEnSuLugar, DeDatos, Desborda

-----------------------------------------------------------------------------
(* The machine of every program.                                            *)

\* Every step of the system is one of a machine, or no machine sees it.
LEMMA PasoVista ==
  ASSUME Anchos, MemInv, KsEnSuLugar, [Next]_vars
  PROVE  [M!Next]_<<[p \in Pids |-> Vista(p)], memoria_ajena>>
<1>1. CASE memoria_ajena'
  BY <1>1 DEF M!Next, M!SinPromesa
<1>2. CASE ~ memoria_ajena'
  <2>1. ~ memoria_ajena
    BY <1>2, AjenaCrece
  <2>2. UNCHANGED memoria_ajena
    <3>1. memoria_ajena \in BOOLEAN
      BY DEF MemInv, Memoria, Tipos
    <3>2. MemInv'
      BY MemConserva
    <3>3. memoria_ajena' \in BOOLEAN
      BY <3>2 DEF MemInv, Memoria, Tipos
    <3>4. QED
      BY <1>2, <2>1, <3>1, <3>3
  <2>3. NadiePasa \/ \E p \in Pids : Pasa(p)
    <3>1. CASE \E c \in Cpus : PasoCpu(c)
      BY <1>2, <2>1, <3>1, PasoCpuVista
    <3>2. CASE \E c \in Cpus : PasoMemoria(c)
      BY <2>1, <3>2, PasoMemoriaVista
    <3>3. CASE \E p \in Pids : PasoProceso(p)
      BY <1>2, <2>1, <3>3, PasoProcesoVista
    <3>4. CASE PasoStick
      BY <3>4, PasoStickVista
    <3>5. CASE UNCHANGED vars
      BY <3>5, NadieSeMueve DEF vars
    <3>6. QED
      BY <3>1, <3>2, <3>3, <3>4, <3>5 DEF Next
  <2>4. QED
    BY <2>1, <2>2, <2>3, PasoDeMaquina
<1>3. QED
  BY <1>1, <1>2

\* At the beginning every process is the machine of its program.
LEMMA InicioVista ==
  ASSUME Anchos, Init
  PROVE  M!Init
<1>1. PICK q \in [Pids -> Programas] : contextos = [p \in Pids |-> Contexto(q[p])]
  BY DEF Init
<1>2. /\ swap = [p \in Pids |-> <<>>] /\ estado = [p \in Pids |-> "READY"]
      /\ pedido = [p \in Pids |-> Nada] /\ pantalla = [p \in Pids |-> <<>>]
      /\ \A c \in Cpus : cpu[c].estado = "libre"
  BY DEF Init, Libre
<1>3. ASSUME NEW p \in Pids
      PROVE  Vista(p) = M!Inicio(q[p])
  <2>1. /\ contextos[p].instrucciones = q[p] /\ contextos[p].registros = EnCero
        /\ contextos[p].tabla = <<>>
    BY <1>1 DEF Contexto
  <2>2. RegDe(cpu, contextos, p) = EnCero
    <3>1. \A d \in Cpus : cpu[d].pid = p => cpu[d].estado \notin Corriendo
      BY <1>2 DEF Corriendo
    <3>2. QED
      BY <2>1, <3>1, RegDeNinguna
  <2>3. SegDe(swap[p], contextos[p].tabla, ram) = <<>>
    <3>1. MemInv
      BY MemInicial
    <3>2. \A w \in Seq(Guardado) : \A m : SegDe(w, <<>>, m) = w
      BY <3>1, SegDeEntera
    <3>3. <<>> \in Seq(Guardado)
      OBVIOUS
    <3>4. QED
      BY <1>2, <2>1, <3>2, <3>3
  <2>4. SinDireccion(pedido[p]) = Nada /\ pantalla[p] = <<>> /\ estado[p] # "EXIT"
    BY <1>2 DEF SinDireccion, Nada
  <2>5. Vista(p) = Maq(q[p], EnCero, <<>>, Nada, <<>>, estado[p] # "EXIT")
    BY <2>1, <2>2, <2>3, <2>4, VistaDe
  <2>6. Vista(p) = Maq(q[p], EnCero, <<>>, Nada, <<>>, TRUE)
    BY <2>4, <2>5, VivoEs
  <2>7. M!Inicio(q[p]) = Maq(q[p], EnCero, <<>>, Nada, <<>>, TRUE)
    <3>1. PICK si, z, v, n : si = TRUE /\ z = EnCero /\ v = <<>> /\ n = Nada
      OBVIOUS
    <3>2. M!Inicio(q[p]) = Maq(q[p], z, v, n, v, si)
      BY <3>1, MismosRegistros, Zenon DEF M!Inicio, Maq
    <3>3. QED
      BY <3>1, <3>2
  <2>8. QED
    BY <2>6, <2>7
<1>4. [p \in Pids |-> Vista(p)] = [p \in Pids |-> M!Inicio(q[p])]
  <2> DEFINE F(p) == Vista(p)
             H(p) == M!Inicio(q[p])
  <2>1. \A p \in Pids : F(p) = H(p)
    BY <1>3
  <2> HIDE DEF F, H
  <2>2. [p \in Pids |-> F(p)] = [p \in Pids |-> H(p)]
    BY <2>1
  <2>3. QED
    BY <2>2 DEF F, H
<1>5. memoria_ajena = FALSE
  BY DEF Init
<1>6. QED
  BY <1>4, <1>5 DEF M!Init

\* Whatever CPU, quantum, compaction or suspension moves it, every program runs as on a
\* machine of its own: each step of the system is one instruction or one answer of one
\* program, as module Maquina has it, or is seen by none.  No step gives a program the
\* bytes or the registers of another one (obtener_contexto, traducir_direccion), and what
\* compactar and the SWAP move arrives whole.  The code loses this, for good, the first
\* time that it uses memory through an address of before a compaction or a suspension
\* (traducir_direccion with the table of a CPU that missed its interrupt, the
\* io_direccion_fisica of a STDIN or STDOUT), takes the segments of a process that has come
\* back (hilo_suspension) or lets a STDIN or STDOUT through with a size that wraps; and in
\* no other way.
THEOREM EjecucionImplementaMaquina ==
  ASSUME Anchos
  PROVE  Spec => ComoSiSola
<1>1. Init => MemInv /\ KsEnSuLugar
  BY MemInicial, KsInicial
<1>2. MemInv /\ KsEnSuLugar /\ [Next]_vars => MemInv' /\ KsEnSuLugar'
  BY MemConserva, KsConserva
<1>3. Init => M!Init
  BY InicioVista
<1>4. MemInv /\ KsEnSuLugar /\ [Next]_vars
        => [M!Next]_<<[p \in Pids |-> Vista(p)], memoria_ajena>>
  BY PasoVista
<1>5. QED
  BY <1>1, <1>2, <1>3, <1>4, PTL DEF Spec, ComoSiSola, M!Spec

=============================================================================
