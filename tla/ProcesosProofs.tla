--------------------------- MODULE ProcesosProofs ---------------------------
(***************************************************************************)
(* What the functions of module Procesos do to the record of the Kernel    *)
(* Scheduler, for every number of processes, CPUs, queues and mutexes.     *)
(***************************************************************************)
EXTENDS Procesos, HuecosProofs

-----------------------------------------------------------------------------
(* Lists made of sets.                                                      *)

\* A finite set as a list has its elements, each of them once.
LEMMA SetToSeqEs ==
  ASSUME NEW S, IsFiniteSet(S)
  PROVE  /\ SetToSeq(S) \in Seq(S) /\ Len(SetToSeq(S)) = Cardinality(S)
         /\ Cardinality(S) \in Nat
         /\ \A i, j \in 1 .. Cardinality(S) : SetToSeq(S)[i] = SetToSeq(S)[j] => i = j
         /\ \A x \in S : \E i \in 1 .. Cardinality(S) : SetToSeq(S)[i] = x
<1> DEFINE n == Cardinality(S)
           f == SetToSeq(S)
<1>1. n \in Nat /\ ExistsBijection(1 .. n, S)
  BY FS_CardinalityType
<1>2. \E g \in [1 .. n -> S] : IsInjective(g)
  BY <1>1 DEF ExistsBijection, Bijection, Injection
<1>3. f \in [1 .. n -> S] /\ IsInjective(f)
  BY <1>2 DEF SetToSeq
<1>4. f \in Injection(1 .. n, S)
  BY <1>3 DEF Injection
<1>5. IsFiniteSet(1 .. n) /\ Cardinality(1 .. n) = n
  BY <1>1, FS_Interval
<1> HIDE DEF f, n
<1>6. f \in Surjection(1 .. n, S)
  BY <1>4, <1>5, FS_Injection DEF n
<1>7. \A x \in S : \E i \in 1 .. n : f[i] = x
  BY <1>6 DEF Surjection
<1>8. f \in Seq(S) /\ Len(f) = n
  BY <1>1, <1>3, FuncionEsSeq
<1>9. \A i, j \in 1 .. n : f[i] = f[j] => i = j
  BY <1>3 DEF IsInjective
<1>10. QED
  BY <1>1, <1>7, <1>8, <1>9 DEF f, n

\* A finite set of numbers in order.
LEMMA PorOrdenEs ==
  ASSUME NEW S \in SUBSET Nat, IsFiniteSet(S)
  PROVE  /\ PorOrden(S) \in Seq(S) /\ Len(PorOrden(S)) = Cardinality(S)
         /\ \A i, j \in 1 .. Len(PorOrden(S)) : PorOrden(S)[i] = PorOrden(S)[j] => i = j
<1> DEFINE Creciente(s, n) == \A i, j \in 1 .. n : i < j => s[i] < s[j]
           Hay(T, n) == \E s \in [1 .. n -> T] : Creciente(s, n)
           N == Cardinality(S)
           B == {n \in 0 .. N : \A T \in SUBSET S : Cardinality(T) = n => Hay(T, n)}
<1>1. N \in Nat
  BY FS_CardinalityType
<1>2. 0 \in B
  <2>1. ASSUME NEW T \in SUBSET S PROVE Hay(T, 0)
    <3>1. [i \in 1 .. 0 |-> 0] \in [1 .. 0 -> T] /\ Creciente([i \in 1 .. 0 |-> 0], 0)
      OBVIOUS
    <3> HIDE DEF Creciente
    <3>2. QED
      BY <3>1
  <2> HIDE DEF Hay
  <2>2. QED
    BY <1>1, <2>1
<1>3. ASSUME NEW n \in 0 .. N - 1, n \in B PROVE n + 1 \in B
  <2>0. n \in Nat /\ n + 1 \in 0 .. N /\ n + 1 # 0
    BY <1>1
  <2>1. ASSUME NEW T \in SUBSET S, Cardinality(T) = n + 1 PROVE Hay(T, n + 1)
    <3>1. IsFiniteSet(T) /\ T # {} /\ T \in SUBSET Nat
      BY <2>0, <2>1, FS_Subset, FS_EmptySet
    <3>2. PICK m \in T : \A x \in T : m <= x
      BY <3>1, MinimoNat
    <3>3. Cardinality(T \ {m}) = n
      <4>1. Cardinality(T \ {m}) = Cardinality(T) - 1
        BY <3>1, FS_RemoveElement
      <4>2. QED
        BY <2>0, <2>1, <4>1
    <3>4. Hay(T \ {m}, n)
      <4> HIDE DEF Hay
      <4>1. QED
        BY <1>3, <3>3
    <3>5. PICK s \in [1 .. n -> T \ {m}] : Creciente(s, n)
      BY <3>4
    <3> DEFINE g == [i \in 1 .. n + 1 |-> IF i = 1 THEN m ELSE s[i - 1]]
    <3>6. \A i \in 1 .. n + 1 : i # 1 => i - 1 \in 1 .. n
      BY <2>0
    <3>7. g \in [1 .. n + 1 -> T]
      BY <3>2, <3>6
    <3>8. ASSUME NEW i \in 1 .. n + 1, NEW j \in 1 .. n + 1, i < j PROVE g[i] < g[j]
      <4>1. j # 1 /\ j - 1 \in 1 .. n
        BY <2>0, <3>6, <3>8
      <4>2. s[j - 1] \in T \ {m} /\ g[j] = s[j - 1]
        BY <4>1
      <4>3. CASE i = 1
        <5>1. g[i] = m /\ m <= g[j] /\ m # g[j] /\ m \in Nat /\ g[j] \in Nat
          BY <3>1, <3>2, <4>2, <4>3
        <5> HIDE DEF g
        <5>2. QED
          BY <5>1
      <4>4. CASE i # 1
        <5>1. i - 1 \in 1 .. n /\ i - 1 < j - 1
          BY <2>0, <3>6, <3>8, <4>4
        <5>2. s[i - 1] < s[j - 1]
          BY <3>5, <4>1, <5>1
        <5>3. QED
          BY <4>2, <4>4, <5>2
      <4>5. QED
        BY <4>3, <4>4
    <3>9. Creciente(g, n + 1)
      BY <3>8
    <3> HIDE DEF g, Creciente
    <3>10. QED
      BY <3>7, <3>9
  <2> HIDE DEF Hay
  <2>2. QED
    BY <2>0, <2>1
<1>4. Hay(S, N)
  <2> HIDE DEF B
  <2>1. 0 .. N \subseteq B
    BY <1>1, <1>2, <1>3, InduccionHasta
  <2>2. N \in B
    BY <1>1, <2>1
  <2> USE DEF B
  <2> HIDE DEF Hay
  <2>3. QED
    BY <2>2
<1>5. PorOrden(S) = CHOOSE s \in [1 .. N -> S] : Creciente(s, N)
  BY DEF PorOrden
<1>6. PorOrden(S) \in [1 .. N -> S] /\ Creciente(PorOrden(S), N)
  <2> HIDE DEF Creciente, N
  <2>1. QED
    BY <1>4, <1>5
<1>7. PorOrden(S) \in Seq(S) /\ Len(PorOrden(S)) = N
  BY <1>1, <1>6, FuncionEsSeq
<1>8. ASSUME NEW i \in 1 .. N, NEW j \in 1 .. N, PorOrden(S)[i] = PorOrden(S)[j]
      PROVE  i = j
  <2> DEFINE s == PorOrden(S)
  <2>1. s[i] \in Nat /\ s[j] \in Nat
    BY <1>6
  <2>2. ~ (s[i] < s[j]) /\ ~ (s[j] < s[i])
    BY <1>8, <2>1
  <2>3. ~ (i < j) /\ ~ (j < i)
    BY <1>6, <2>2
  <2>4. QED
    BY <1>1, <2>3
<1>9. QED
  BY <1>7, <1>8

-----------------------------------------------------------------------------
(* What the functions of module Procesos return.                            *)

\* The record ks, with the free CPUs in L.
TipoKs(L) ==
  [estado : [Pids -> EstadosProceso],
   prioridad : [Pids -> Colas],
   cpu : [Pids -> Cpus \cup {Nulo}],
   timer : [Pids -> BOOLEAN],
   colas_ready : [Colas -> Seq(Pids)],
   exec : SUBSET Pids, block : SUBSET Pids, susp_block : SUBSET Pids,
   susp_ready : Seq(Pids),
   cpus_libres : Seq(L),
   sem_ready : Nat,
   lista_mutex : Seq(Mutexes),
   pid_dueno : [Mutexes -> Pids \cup {Nadie}],
   cola_espera : [Mutexes -> Seq(Pids)],
   cola_io : [TiposIo -> Seq(Pids)]]

\* encolar_en_ready.
LEMMA EncolarTipo ==
  ASSUME NEW L, NEW k \in TipoKs(L), NEW p \in Pids
  PROVE  Encolar(k, p) \in TipoKs(L)
<1> DEFINE q == k.prioridad[p]
           colas == [k.colas_ready EXCEPT ![q] = Append(@, p)]
<1>1. /\ k.colas_ready \in [Colas -> Seq(Pids)] /\ k.sem_ready \in Nat
      /\ q \in Colas
  BY DEF TipoKs
<1>2. Append(k.colas_ready[q], p) \in Seq(Pids)
  BY <1>1, AppendProperties
<1>3. colas \in [Colas -> Seq(Pids)] /\ k.sem_ready + 1 \in Nat
  BY <1>1, <1>2
<1>4. Encolar(k, p) = [k EXCEPT !.colas_ready = colas, !.sem_ready = @ + 1]
  BY DEF Encolar
<1> HIDE DEF colas
<1>5. QED
  BY <1>3, <1>4 DEF TipoKs

\* A process leaves lista_exec, a CPU is free, a timer is cancelled.
LEMMA SacarTipo ==
  ASSUME NEW L, NEW k \in TipoKs(L), NEW p \in Pids
  PROVE  /\ \A e \in EstadosProceso : SacarDeExec(k, p, e) \in TipoKs(L)
         /\ \A c \in L : LiberarCpu(k, c) \in TipoKs(L)
         /\ CancelarTimer(k, p) \in TipoKs(L)
<1>1. \A e \in EstadosProceso : SacarDeExec(k, p, e) \in TipoKs(L)
  BY DEF TipoKs, SacarDeExec
<1>2. ASSUME NEW c \in L PROVE LiberarCpu(k, c) \in TipoKs(L)
  <2>1. Append(k.cpus_libres, c) \in Seq(L)
    BY AppendProperties DEF TipoKs
  <2>2. QED
    BY <2>1 DEF TipoKs, LiberarCpu
<1>3. CancelarTimer(k, p) \in TipoKs(L)
  BY DEF TipoKs, CancelarTimer
<1>4. QED
  BY <1>1, <1>2, <1>3

\* bloquear_proceso.
LEMMA BloquearTipo ==
  ASSUME NEW L, NEW k \in TipoKs(L), NEW p \in Pids, k.cpu[p] \in L
  PROVE  Bloquear(k, p) \in TipoKs(L)
<1>1. [SacarDeExec(k, p, "BLOCK") EXCEPT !.block = @ \cup {p}, !.timer[p] = TRUE] \in TipoKs(L)
  BY DEF TipoKs, SacarDeExec, EstadosProceso
<1>2. QED
  BY <1>1, SacarTipo DEF Bloquear

\* mover_proceso_de_block_a_ready and what else a waker does.
LEMMA DespertarTipo ==
  ASSUME NEW L, NEW k \in TipoKs(L), NEW p \in Pids, NEW e
  PROVE  Despertar(k, p, e) \in TipoKs(L)
<1>1. [k EXCEPT !.block = @ \ {p}, !.estado[p] = "READY"] \in TipoKs(L)
  BY DEF TipoKs, EstadosProceso
<1>2. Append(k.susp_ready, p) \in Seq(Pids)
  BY AppendProperties DEF TipoKs
<1>3. SuspBlockASuspReady(k, p) \in TipoKs(L)
  BY <1>2 DEF TipoKs, EstadosProceso, SuspBlockASuspReady
<1>4. QED
  BY <1>1, <1>3, EncolarTipo DEF Despertar, BlockAReady

\* obtener_proximo_proceso_ready: the first queue that has a process has a first
\* one.
LEMMA PrimeroDeReady ==
  ASSUME NEW L, NEW k \in TipoKs(L), ConProcesos(k) # {}
  PROVE  LET q == Min(ConProcesos(k)) IN
         /\ q \in Colas
         /\ k.colas_ready[q] \in Seq(Pids) /\ k.colas_ready[q] # <<>>
         /\ Head(k.colas_ready[q]) \in Pids
         /\ Tail(k.colas_ready[q]) \in Seq(Pids)
<1> DEFINE q == Min(ConProcesos(k))
<1>1. ConProcesos(k) \in SUBSET Nat
  BY ProcesosOK DEF ConProcesos
<1>2. \E x \in ConProcesos(k) : \A y \in ConProcesos(k) : x <= y
  BY <1>1, MinimoNat
<1>3. q \in ConProcesos(k)
  BY <1>2 DEF Min
<1>4. q \in Colas /\ k.colas_ready[q] \in Seq(Pids) /\ k.colas_ready[q] # <<>>
  BY <1>3 DEF ConProcesos, TipoKs
<1> HIDE DEF q
<1>5. Head(k.colas_ready[q]) \in Pids /\ Tail(k.colas_ready[q]) \in Seq(Pids)
  BY <1>4, HeadTailProperties
<1>6. QED
  BY <1>4, <1>5 DEF q

\* planificador_corto_plazo.
LEMMA PlanificarTipo ==
  ASSUME NEW L \in SUBSET (Cpus \cup {Nulo}), NEW k \in TipoKs(L), ConProcesos(k) # {},
         k.cpus_libres # <<>>, k.sem_ready > 0
  PROVE  Planificar(k) \in TipoKs(L)
<1> DEFINE q == Min(ConProcesos(k))
           p == Head(k.colas_ready[q])
           c == Head(k.cpus_libres)
           resto == Tail(k.colas_ready[q])
           libres == Tail(k.cpus_libres)
<1>1. q \in Colas /\ p \in Pids /\ resto \in Seq(Pids)
  BY PrimeroDeReady
<1>2. k.cpus_libres \in Seq(L)
  BY DEF TipoKs
<1>3. c \in L /\ libres \in Seq(L)
  BY <1>2, HeadTailProperties
<1>4. c \in Cpus \cup {Nulo}
  BY <1>3
<1> DEFINE colas == [k.colas_ready EXCEPT ![q] = resto]
           estados == [k.estado EXCEPT ![p] = "EXEC"]
           cpus == [k.cpu EXCEPT ![p] = c]
           exec == k.exec \cup {p}
           sem == k.sem_ready - 1
<1>5. Planificar(k) = [k EXCEPT !.colas_ready = colas, !.cpus_libres = libres,
                                !.exec = exec, !.estado = estados,
                                !.cpu = cpus, !.sem_ready = sem]
  BY DEF Planificar
<1>6. sem \in Nat
  BY DEF TipoKs
<1> HIDE DEF q, p, c, resto, libres
<1>7. /\ colas \in [Colas -> Seq(Pids)] /\ estados \in [Pids -> EstadosProceso]
      /\ cpus \in [Pids -> Cpus \cup {Nulo}] /\ exec \in SUBSET Pids
  BY <1>1, <1>4 DEF TipoKs, EstadosProceso
<1> HIDE DEF colas, estados, cpus, exec, sem
<1>8. QED
  BY <1>1, <1>3, <1>5, <1>6, <1>7 DEF TipoKs

-----------------------------------------------------------------------------
(* Who is in a list.                                                        *)

Tiene(s, x) == \E i \in DOMAIN s : s[i] = x

Distintos(s) == \A i, j \in DOMAIN s : s[i] = s[j] => i = j

\* One more, at the end.
LEMMA TieneAgregado ==
  ASSUME NEW S, NEW s \in Seq(S), NEW x
  PROVE  /\ \A y : Tiene(Append(s, x), y) <=> Tiene(s, y) \/ y = x
         /\ Distintos(s) /\ ~ Tiene(s, x) => Distintos(Append(s, x))
<1> DEFINE b == Append(s, x)
           n == Len(s) + 1
<1>1. /\ \A i \in DOMAIN s : i \in DOMAIN b /\ b[i] = s[i] /\ i < n
      /\ \A i \in DOMAIN b : (i = n /\ b[i] = x) \/ (i \in DOMAIN s /\ b[i] = s[i])
  BY MensajeAgregado
<1>2. n \in DOMAIN b /\ b[n] = x
  <2>1. s \in Seq(S \cup {x}) /\ x \in S \cup {x}
    OBVIOUS
  <2>2. b \in Seq(S \cup {x}) /\ Len(b) = n /\ b[n] = x /\ Len(s) \in Nat
    BY <2>1, AppendProperties, LenProperties
  <2>3. QED
    BY <2>2, LenProperties
<1> HIDE DEF b, n
<1>3. \A y : Tiene(b, y) <=> Tiene(s, y) \/ y = x
  BY <1>1, <1>2 DEF Tiene
<1>4. Distintos(s) /\ ~ Tiene(s, x) => Distintos(b)
  BY <1>1 DEF Tiene, Distintos
<1>5. QED
  BY <1>3, <1>4 DEF b

\* The first one leaves.
LEMMA TieneQuitado ==
  ASSUME NEW S, NEW s \in Seq(S), s # <<>>
  PROVE  /\ \A y : Tiene(s, y) <=> y = Head(s) \/ Tiene(Tail(s), y)
         /\ Distintos(s) => Distintos(Tail(s)) /\ ~ Tiene(Tail(s), Head(s))
         /\ Head(s) \in S /\ Tail(s) \in Seq(S)
<1> DEFINE t == Tail(s)
           m == Head(s)
<1>1. /\ \A i \in DOMAIN t : i + 1 \in DOMAIN s /\ t[i] = s[i + 1]
      /\ 1 \in DOMAIN s /\ m = s[1] /\ Len(t) = Len(s) - 1 /\ Len(s) \in Nat
      /\ t \in Seq(S) /\ DOMAIN t = 1 .. Len(s) - 1 /\ DOMAIN s = 1 .. Len(s)
  BY MensajeQuitado
<1>2. m \in S
  BY HeadTailProperties
<1> HIDE DEF t, m
<1>3. \A i \in DOMAIN s : i = 1 \/ (i - 1 \in DOMAIN t /\ t[i - 1] = s[i])
  <2>1. \A i \in DOMAIN s : i # 1 => i - 1 \in DOMAIN t /\ (i - 1) + 1 = i
    BY <1>1
  <2>2. QED
    BY <1>1, <2>1
<1>4. \A y : Tiene(s, y) <=> y = m \/ Tiene(t, y)
  BY <1>1, <1>3 DEF Tiene
<1>5. ASSUME Distintos(s) PROVE Distintos(t) /\ ~ Tiene(t, m)
  <2>1. ASSUME NEW i \in DOMAIN t, NEW j \in DOMAIN t, t[i] = t[j] PROVE i = j
    <3>1. i + 1 = j + 1
      BY <1>1, <1>5, <2>1 DEF Distintos
    <3>2. QED
      BY <1>1, <3>1
  <2>2. ASSUME NEW i \in DOMAIN t, t[i] = m PROVE FALSE
    <3>1. i + 1 = 1
      BY <1>1, <1>5, <2>2 DEF Distintos
    <3>2. QED
      BY <1>1, <3>1
  <2>3. QED
    BY <2>1, <2>2 DEF Distintos, Tiene
<1>6. QED
  BY <1>1, <1>2, <1>4, <1>5 DEF t, m

\* One more, before the others.
LEMMA TieneAlFrente ==
  ASSUME NEW S, NEW s \in Seq(S), NEW x \in S
  PROVE  /\ \A y : Tiene(<<x>> \o s, y) <=> Tiene(s, y) \/ y = x
         /\ Distintos(s) /\ ~ Tiene(s, x) => Distintos(<<x>> \o s)
<1> DEFINE b == <<x>> \o s
<1>1. /\ \A i \in DOMAIN s : i \in Int /\ i + 1 \in DOMAIN b /\ b[i + 1] = s[i]
      /\ \A i \in DOMAIN b : i = 1 \/ (i - 1 \in DOMAIN s /\ b[i] = s[i - 1])
      /\ 1 \in DOMAIN b /\ b[1] = x
      /\ \A i \in DOMAIN b : i \in Int
  <2>1. <<x>> \in Seq(S) /\ Len(<<x>>) = 1 /\ <<x>>[1] = x /\ Len(s) \in Nat
        /\ DOMAIN s = 1 .. Len(s)
    BY LenProperties
  <2>2. /\ b \in Seq(S) /\ Len(b) = 1 + Len(s)
        /\ \A i \in 1 .. 1 + Len(s) : b[i] = IF i <= 1 THEN <<x>>[i] ELSE s[i - 1]
    <3>1. /\ b \in Seq(S) /\ Len(b) = Len(<<x>>) + Len(s)
          /\ \A i \in 1 .. Len(<<x>>) + Len(s) :
               b[i] = IF i <= Len(<<x>>) THEN <<x>>[i] ELSE s[i - Len(<<x>>)]
      BY <2>1, ConcatProperties
    <3> HIDE DEF b
    <3>2. QED
      BY <2>1, <3>1
  <2>3. DOMAIN b = 1 .. 1 + Len(s)
    BY <2>2, LenProperties
  <2> HIDE DEF b
  <2>4. \A i \in DOMAIN b : i = 1 \/ (i - 1 \in DOMAIN s /\ b[i] = s[i - 1])
    BY <2>1, <2>2, <2>3
  <2>5. 1 \in DOMAIN b /\ b[1] = x
    BY <2>1, <2>2, <2>3
  <2>6. ASSUME NEW i \in DOMAIN s PROVE i + 1 \in DOMAIN b /\ b[i + 1] = s[i]
    <3>1. i \in Int /\ i + 1 \in 1 .. 1 + Len(s) /\ ~ (i + 1 <= 1) /\ (i + 1) - 1 = i
      BY <2>1
    <3>2. QED
      BY <2>2, <2>3, <3>1
  <2>7. QED
    BY <2>1, <2>3, <2>4, <2>5, <2>6
<1> HIDE DEF b
<1>2. \A y : Tiene(b, y) <=> Tiene(s, y) \/ y = x
  BY <1>1 DEF Tiene
<1>3. ASSUME Distintos(s), ~ Tiene(s, x), NEW i \in DOMAIN b, NEW j \in DOMAIN b, b[i] = b[j]
      PROVE  i = j
  <2>1. CASE i = 1 \/ j = 1
    BY <1>1, <1>3, <2>1 DEF Tiene
  <2>2. CASE i # 1 /\ j # 1
    <3>1. i - 1 \in DOMAIN s /\ j - 1 \in DOMAIN s /\ s[i - 1] = s[j - 1]
      BY <1>1, <1>3, <2>2
    <3>2. i - 1 = j - 1
      BY <1>3, <3>1 DEF Distintos
    <3>3. QED
      BY <1>1, <3>2
  <2>3. QED
    BY <2>1, <2>2
<1>4. QED
  BY <1>2, <1>3 DEF b, Distintos

\* list_remove_element: the element leaves a list that has it once at most.
LEMMA TieneSacado ==
  ASSUME NEW S, NEW s \in Seq(S), NEW x, Distintos(s)
  PROVE  /\ RemoveFirst(s, x) \in Seq(S) /\ Distintos(RemoveFirst(s, x))
         /\ \A y : Tiene(RemoveFirst(s, x), y) <=> Tiene(s, y) /\ y # x
<1> DEFINE I == {i \in 1 .. Len(s) : s[i] = x}
           k == Min(I)
           t == RemoveAt(s, k)
           n == Len(s)
<1>0. n \in Nat /\ DOMAIN s = 1 .. n
  BY LenProperties
<1>1. CASE I = {}
  <2>1. RemoveFirst(s, x) = s
    BY <1>1 DEF RemoveFirst
  <2>2. ~ Tiene(s, x)
    BY <1>0, <1>1 DEF Tiene
  <2>3. QED
    BY <2>1, <2>2
<1>2. CASE I # {}
  <2>1. RemoveFirst(s, x) = t
    BY <1>2 DEF RemoveFirst, SelectInSeq
  <2>2. k \in I
    <3>1. \E m \in I : \A j \in I : m <= j
      <4>1. I \in SUBSET Nat
        BY <1>0
      <4> HIDE DEF I
      <4>2. QED
        BY <1>2, <4>1, MinimoNat
    <3> HIDE DEF I
    <3>2. QED
      BY <3>1 DEF Min
  <2>3. k \in 1 .. n /\ s[k] = x
    BY <2>2
  <2> HIDE DEF k, I
  <2>4. /\ t \in Seq(S) /\ Len(t) = n - 1
        /\ \A i \in 1 .. n - 1 : t[i] = IF i < k THEN s[i] ELSE s[i + 1]
    BY <2>3, RemoveAtElementos
  <2> HIDE DEF t
  <2>5. DOMAIN t = 1 .. n - 1
    BY <2>4, LenProperties
  <2> HIDE DEF n
  <2>6. \A i \in 1 .. n : i # k => \E j \in 1 .. n - 1 : t[j] = s[i]
    <3>1. ASSUME NEW i \in 1 .. n, i # k PROVE \E j \in 1 .. n - 1 : t[j] = s[i]
      <4>1. CASE i < k
        BY <1>0, <2>3, <2>4, <4>1
      <4>2. CASE i > k
        <5>1. i - 1 \in 1 .. n - 1 /\ ~ (i - 1 < k) /\ (i - 1) + 1 = i
          BY <1>0, <2>3, <4>2
        <5>2. t[i - 1] = s[i]
          BY <2>4, <5>1
        <5>3. QED
          BY <5>1, <5>2
      <4>3. QED
        BY <1>0, <2>3, <3>1, <4>1, <4>2
    <3>2. QED
      BY <3>1
  <2>7. \A i \in 1 .. n - 1 : /\ i < k => i \in 1 .. n /\ i # k
                              /\ ~ (i < k) => i + 1 \in 1 .. n /\ i + 1 # k
    BY <1>0, <2>3
  <2>8. \A i \in 1 .. n - 1 : t[i] # x
    BY <1>0, <2>3, <2>4, <2>7 DEF Distintos
  <2>9. \A y : Tiene(t, y) <=> Tiene(s, y) /\ y # x
    <3>1. ASSUME NEW y, Tiene(t, y) PROVE Tiene(s, y) /\ y # x
      BY <1>0, <2>4, <2>5, <2>7, <2>8, <3>1 DEF Tiene
    <3>2. ASSUME NEW y, Tiene(s, y), y # x PROVE Tiene(t, y)
      BY <1>0, <2>3, <2>5, <2>6, <3>2 DEF Tiene
    <3>3. QED
      BY <3>1, <3>2
  <2>10. ASSUME NEW i \in 1 .. n - 1, NEW j \in 1 .. n - 1, t[i] = t[j] PROVE i = j
    <3> DEFINE o(l) == IF l < k THEN l ELSE l + 1
    <3>1. o(i) \in DOMAIN s /\ o(j) \in DOMAIN s /\ t[i] = s[o(i)] /\ t[j] = s[o(j)]
      BY <1>0, <2>4, <2>7
    <3> HIDE DEF o
    <3>2. o(i) = o(j)
      BY <2>10, <3>1 DEF Distintos
    <3>3. QED
      BY <1>0, <2>3, <3>2 DEF o
  <2>11. QED
    BY <2>1, <2>4, <2>5, <2>9, <2>10 DEF Distintos
<1>3. QED
  BY <1>1, <1>2

-----------------------------------------------------------------------------
\* The lists the scheduler starts with.
LEMMA KsInicial ==
  ASSUME KsInit, IsFiniteSet(Cpus), NEW L, Cpus \subseteq L
  PROVE  /\ ks \in TipoKs(L)
         /\ \A q \in Colas :
              LET cola == ks.colas_ready[q] IN
              /\ cola \in Seq({p \in Pids : PrioridadOriginal[p] = q})
              /\ \A i, j \in 1 .. Len(cola) : cola[i] = cola[j] => i = j
         /\ \A i, j \in 1 .. Len(ks.cpus_libres) : ks.cpus_libres[i] = ks.cpus_libres[j] => i = j
<1> DEFINE De(q) == {p \in Pids : PrioridadOriginal[p] = q}
           colas == [q \in Colas |-> PorOrden(De(q))]
           libres == SetToSeq(Cpus)
           estados == [p \in Pids |-> "READY"]
           cpus == [p \in Pids |-> Nulo]
           timers == [p \in Pids |-> FALSE]
           duenos == [m \in Mutexes |-> Nadie]
           esperas == [m \in Mutexes |-> <<>>]
           ios == [t \in TiposIo |-> <<>>]
           n == Cardinality(Pids)
<1>1. ks = [estado |-> estados, prioridad |-> PrioridadOriginal, cpu |-> cpus,
            timer |-> timers, colas_ready |-> colas, exec |-> {}, block |-> {},
            susp_block |-> {}, susp_ready |-> <<>>, cpus_libres |-> libres,
            sem_ready |-> n, lista_mutex |-> <<>>, pid_dueno |-> duenos,
            cola_espera |-> esperas, cola_io |-> ios]
  BY DEF KsInit
<1>2. ASSUME NEW q \in Colas
      PROVE  /\ PorOrden(De(q)) \in Seq(De(q)) /\ PorOrden(De(q)) \in Seq(Pids)
             /\ \A i, j \in 1 .. Len(PorOrden(De(q))) :
                  PorOrden(De(q))[i] = PorOrden(De(q))[j] => i = j
  <2>1. De(q) \in SUBSET Nat /\ IsFiniteSet(De(q)) /\ De(q) \subseteq Pids
    BY ProcesosOK, FS_Subset
  <2> HIDE DEF De
  <2>2. QED
    BY <2>1, PorOrdenEs
<1>3. /\ libres \in Seq(Cpus)
      /\ \A i, j \in 1 .. Len(libres) : libres[i] = libres[j] => i = j
  BY SetToSeqEs
<1>4. libres \in Seq(L)
  BY <1>3
<1>5. colas \in [Colas -> Seq(Pids)] /\ \A q \in Colas : colas[q] = PorOrden(De(q))
  BY <1>2
<1>6. n \in Nat /\ PrioridadOriginal \in [Pids -> Colas]
  BY ProcesosOK, FS_CardinalityType
<1>7. /\ estados \in [Pids -> EstadosProceso] /\ cpus \in [Pids -> Cpus \cup {Nulo}]
      /\ timers \in [Pids -> BOOLEAN] /\ duenos \in [Mutexes -> Pids \cup {Nadie}]
      /\ esperas \in [Mutexes -> Seq(Pids)] /\ ios \in [TiposIo -> Seq(Pids)]
      /\ <<>> \in Seq(Pids) /\ <<>> \in Seq(Mutexes)
  BY DEF EstadosProceso
<1> HIDE DEF colas, libres, estados, cpus, timers, duenos, esperas, ios, n
<1>8. ks \in TipoKs(L)
  BY <1>1, <1>4, <1>5, <1>6, <1>7 DEF TipoKs
<1>10. ks.colas_ready = colas /\ ks.cpus_libres = libres
  BY <1>1
<1> HIDE DEF De
<1>11. \A q \in Colas : /\ colas[q] \in Seq(De(q))
                        /\ \A i, j \in 1 .. Len(colas[q]) : colas[q][i] = colas[q][j] => i = j
  BY <1>2, <1>5
<1>12. QED
  BY <1>3, <1>8, <1>10, <1>11 DEF De
=============================================================================
