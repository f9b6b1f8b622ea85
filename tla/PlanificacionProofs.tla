------------------------- MODULE PlanificacionProofs -------------------------
(***************************************************************************)
(* The short-term scheduler and the CPUs, for every number of processes,   *)
(* CPUs, queues and timers: every process in its list and every CPU in one *)
(* pair of hands (UnaSolaLista, CpuDeUno), the two semaphores worth what   *)
(* the lists hold (TokensReady, TokensCpus), the timers (TimerVivo), the   *)
(* messages of the CPUs (EjecucionUnica) and the life of a process         *)
(* (CicloDeVida).                                                          *)
(***************************************************************************)
EXTENDS Planificacion, HuecosProofs

-----------------------------------------------------------------------------
(* How many times an element is in a list.                                  *)

\* A list has an element a number of times, and none when it is not there.
LEMMA VecesNumero ==
  ASSUME NEW S, NEW s \in Seq(S), NEW e
  PROVE  /\ IsFiniteSet({i \in DOMAIN s : s[i] = e})
         /\ Veces(e, s) \in Nat
         /\ EnLista(e, s) <=> Veces(e, s) > 0
<1> DEFINE donde == {i \in DOMAIN s : s[i] = e}
<1>1. DOMAIN s = 1 .. Len(s) /\ Len(s) \in Nat
  BY LenProperties
<1>2. IsFiniteSet(1 .. Len(s))
  BY <1>1, FS_Interval
<1>3. IsFiniteSet(donde)
  BY <1>1, <1>2, FS_Subset
<1>4. Cardinality(donde) \in Nat /\ (Cardinality(donde) = 0 <=> donde = {})
  BY <1>3, FS_CardinalityType, FS_EmptySet
<1>5. EnLista(e, s) <=> donde # {}
  BY DEF EnLista
<1>6. Veces(e, s) = Cardinality(donde)
  BY DEF Veces
<1>7. QED
  BY <1>3, <1>4, <1>5, <1>6

\* The empty list has nothing, and a list of one has it once.
LEMMA VecesDePocos ==
  ASSUME NEW e, NEW x
  PROVE  /\ Veces(e, <<>>) = 0
         /\ Veces(e, <<x>>) = IF x = e THEN 1 ELSE 0
<1>1. {i \in DOMAIN <<>> : <<>>[i] = e} = {}
  OBVIOUS
<1>2. {i \in DOMAIN <<x>> : <<x>>[i] = e} = IF x = e THEN {1} ELSE {}
  OBVIOUS
<1>3. QED
  BY <1>1, <1>2, FS_EmptySet, FS_Singleton DEF Veces

\* list_add.
LEMMA VecesAgregar ==
  ASSUME NEW S, NEW s \in Seq(S), NEW x \in S, NEW e
  PROVE  /\ Append(s, x) \in Seq(S)
         /\ Veces(e, Append(s, x)) = Veces(e, s) + (IF x = e THEN 1 ELSE 0)
<1> DEFINE n == Append(s, x)
           antes == {i \in DOMAIN s : s[i] = e}
           ahora == {i \in DOMAIN n : n[i] = e}
<1>1. /\ n \in Seq(S) /\ Len(n) = Len(s) + 1
      /\ \A i \in 1 .. Len(s) : n[i] = s[i]
      /\ n[Len(s) + 1] = x
  BY AppendProperties
<1>2. Len(s) \in Nat /\ DOMAIN s = 1 .. Len(s) /\ DOMAIN n = 1 .. Len(s) + 1
  BY <1>1, LenProperties
<1>3. IsFiniteSet(antes)
  BY VecesNumero
<1>33. Len(s) + 1 \notin antes
  BY <1>2
<1> HIDE DEF n
<1>4. ahora = IF x = e THEN antes \cup {Len(s) + 1} ELSE antes
  BY <1>1, <1>2
<1>5. Veces(e, n) = Cardinality(ahora) /\ Veces(e, s) = Cardinality(antes)
  BY DEF Veces
<1>6. Cardinality(antes) \in Nat
  BY <1>3, FS_CardinalityType
<1> HIDE DEF antes, ahora
<1>7. Cardinality(ahora) = Cardinality(antes) + (IF x = e THEN 1 ELSE 0)
  <2>1. CASE x = e
    <3>1. Cardinality(antes \cup {Len(s) + 1}) = Cardinality(antes) + 1
      BY <1>3, <1>33, FS_AddElement
    <3>2. QED
      BY <1>4, <2>1, <3>1
  <2>2. CASE x # e
    BY <1>4, <1>6, <2>2
  <2>3. QED
    BY <2>1, <2>2
<1>8. QED
  BY <1>1, <1>5, <1>7 DEF n

\* A list without the element at k has everything else as many times.
LEMMA VecesSin ==
  ASSUME NEW S, NEW s \in Seq(S), NEW k \in 1 .. Len(s), NEW e,
         NEW r \in Seq(S), Len(r) = Len(s) - 1,
         \A i \in 1 .. Len(s) - 1 : r[i] = IF i < k THEN s[i] ELSE s[i + 1]
  PROVE  Veces(e, r) = Veces(e, s) - (IF s[k] = e THEN 1 ELSE 0)
<1> DEFINE antes == {i \in DOMAIN s : s[i] = e}
           ahora == {i \in DOMAIN r : r[i] = e}
           f == [i \in ahora |-> IF i < k THEN i ELSE i + 1]
<1>1. Len(s) \in Nat /\ DOMAIN s = 1 .. Len(s) /\ DOMAIN r = 1 .. Len(s) - 1
  BY LenProperties
<1>2. IsFiniteSet(antes) /\ IsFiniteSet(ahora) /\ Cardinality(antes) \in Nat
  BY VecesNumero, FS_CardinalityType
<1>3. f \in Bijection(ahora, antes \ {k})
  <2>1. f \in [ahora -> antes \ {k}]
    BY <1>1
  <2>2. \A i, j \in ahora : f[i] = f[j] => i = j
    BY <1>1
  <2>3. ASSUME NEW j \in antes \ {k} PROVE \E i \in ahora : f[i] = j
    <3>1. CASE j < k
      <4>1. j \in ahora /\ f[j] = j
        BY <1>1, <2>3, <3>1
      <4>2. QED
        BY <4>1
    <3>2. CASE ~ (j < k)
      <4>1. j - 1 \in 1 .. Len(s) - 1 /\ ~ (j - 1 < k) /\ (j - 1) + 1 = j
        BY <1>1, <2>3, <3>2
      <4>2. r[j - 1] = s[j] /\ j - 1 \in ahora
        BY <1>1, <2>3, <4>1
      <4>3. f[j - 1] = j
        BY <4>1, <4>2
      <4>4. QED
        BY <4>2, <4>3
    <3>3. QED
      BY <3>1, <3>2
  <2> HIDE DEF f, antes, ahora
  <2>4. QED
    BY <2>1, <2>2, <2>3 DEF Bijection, Injection, Surjection, IsInjective
<1>4. ExistsBijection(ahora, antes \ {k})
  BY <1>3 DEF ExistsBijection
<1>5. k \in antes <=> s[k] = e
  BY <1>1
<1>6. Veces(e, r) = Cardinality(ahora) /\ Veces(e, s) = Cardinality(antes)
  BY DEF Veces
<1> HIDE DEF antes, ahora, f
<1>7. Cardinality(ahora) = Cardinality(antes \ {k})
  BY <1>2, <1>4, FS_Bijection
<1>8. Cardinality(antes \ {k}) = Cardinality(antes) - (IF s[k] = e THEN 1 ELSE 0)
  <2>1. Cardinality(antes \ {k}) =
          IF k \in antes THEN Cardinality(antes) - 1 ELSE Cardinality(antes)
    BY <1>2, FS_RemoveElement
  <2>2. QED
    BY <1>2, <1>5, <2>1
<1>9. QED
  BY <1>6, <1>7, <1>8

\* list_remove of the first.
LEMMA VecesTail ==
  ASSUME NEW S, NEW s \in Seq(S), s # <<>>, NEW e
  PROVE  /\ Head(s) \in S /\ EnLista(Head(s), s)
         /\ Tail(s) \in Seq(S) /\ Len(Tail(s)) = Len(s) - 1
         /\ Veces(e, Tail(s)) = Veces(e, s) - (IF Head(s) = e THEN 1 ELSE 0)
<1>1. /\ Head(s) \in S /\ Head(s) = s[1]
      /\ Tail(s) \in Seq(S) /\ Len(Tail(s)) = Len(s) - 1
      /\ \A i \in 1 .. Len(s) - 1 : Tail(s)[i] = s[i + 1]
  BY HeadTailProperties, EmptySeq
<1>2. 1 \in 1 .. Len(s) /\ DOMAIN s = 1 .. Len(s) /\ Len(s) \in Nat
  BY LenProperties, EmptySeq
<1>3. ASSUME NEW i \in 1 .. Len(s) - 1
      PROVE  Tail(s)[i] = IF i < 1 THEN s[i] ELSE s[i + 1]
  BY <1>1, <1>2
<1> DEFINE r == Tail(s)
<1> HIDE DEF r
<1>4. Veces(e, r) = Veces(e, s) - (IF s[1] = e THEN 1 ELSE 0)
  <2>1. /\ r \in Seq(S) /\ Len(r) = Len(s) - 1
        /\ \A i \in 1 .. Len(s) - 1 : r[i] = IF i < 1 THEN s[i] ELSE s[i + 1]
    BY <1>1, <1>3 DEF r
  <2>2. QED
    BY <1>2, <2>1, VecesSin
<1>5. EnLista(Head(s), s)
  BY <1>1, <1>2 DEF EnLista
<1>6. QED
  BY <1>1, <1>4, <1>5 DEF r

\* list_remove_element: the first that is equal, if there is one.
LEMMA VecesQuitar ==
  ASSUME NEW S, NEW s \in Seq(S), NEW x, NEW e
  PROVE  /\ RemoveFirst(s, x) \in Seq(S)
         /\ Veces(e, RemoveFirst(s, x)) =
              Veces(e, s) - (IF x = e /\ EnLista(e, s) THEN 1 ELSE 0)
<1>0. DOMAIN s = 1 .. Len(s) /\ Len(s) \in Nat
  BY LenProperties
<1>1. CASE EnLista(x, s)
  <2> DEFINE iguales == {i \in 1 .. Len(s) : s[i] = x}
             k == Min(iguales)
  <2>1. iguales \subseteq 1 .. Len(s) /\ iguales # {} /\ iguales \in SUBSET Nat
    BY <1>0, <1>1 DEF EnLista
  <2>2. RemoveFirst(s, x) = RemoveAt(s, k)
    BY <1>0, <1>1, <2>1 DEF RemoveFirst, SelectInSeq, EnLista
  <2> HIDE DEF iguales
  <2>3. \E i \in iguales : \A j \in iguales : i <= j
    BY <2>1, MinimoNat
  <2>4. k \in iguales
    BY <2>3 DEF Min
  <2>5. k \in 1 .. Len(s) /\ s[k] = x
    BY <2>4 DEF iguales
  <2> HIDE DEF k
  <2>6. /\ RemoveAt(s, k) \in Seq(S) /\ Len(RemoveAt(s, k)) = Len(s) - 1
        /\ \A i \in 1 .. Len(s) - 1 :
             RemoveAt(s, k)[i] = IF i < k THEN s[i] ELSE s[i + 1]
    BY <2>5, RemoveAtElementos
  <2>7. Veces(e, RemoveAt(s, k)) = Veces(e, s) - (IF s[k] = e THEN 1 ELSE 0)
    BY <2>5, <2>6, VecesSin
  <2>8. x = e => EnLista(e, s)
    BY <1>1
  <2>9. QED
    BY <2>2, <2>5, <2>6, <2>7, <2>8
<1>2. CASE ~ EnLista(x, s)
  <2>1. RemoveFirst(s, x) = s
    BY <1>0, <1>2 DEF RemoveFirst, EnLista
  <2>2. Veces(e, s) \in Nat
    BY VecesNumero
  <2>3. QED
    BY <1>2, <2>1, <2>2
<1>3. QED
  BY <1>1, <1>2

-----------------------------------------------------------------------------
(* The invariant of the lists and of the threads.                           *)

Hilo == [pc : {"no", "recibir", "avisar", "fq_fin", "exit_fin", "init_nuevo",
               "init_fin", "postear", "desc_fin", "cerrado"},
         luego : {"fq_fin", "init_fin", "desc_fin", "nada"},
         pid : Pids \cup {Nadie},
         cpu : Cpus \cup {Nulo},
         planificable : BOOLEAN,
         aviso : [cpu : Cpus \cup {Nulo}, pid : Pids \cup {Nadie}]]

\* A thread, with e the states of the processes: it has a CPU when it is going
\* to free one, a process to plan only where it tells the planner of it, and
\* the process it works on is in the state it left it in.
HiloOK(h, e) ==
  /\ h.pc \in {"fq_fin", "exit_fin"} \/ h.luego = "fq_fin" => h.cpu \in Cpus
  /\ h.luego = "fq_fin" => h.pc \in {"avisar", "fq_fin"}
  /\ h.luego = "desc_fin" => h.pc \in {"avisar", "desc_fin"}
  /\ h.pc = "avisar" => h.luego # "nada"
  /\ h.planificable =>
       h.pc \in {"avisar", "fq_fin", "init_fin", "desc_fin", "postear"}
  /\ h.pc = "init_nuevo" => h.pid \in Pids /\ e[h.pid] = "NEW"
  /\ h.pc = "exit_fin" => h.pid \in Pids /\ e[h.pid] = "EXIT"

HilosInv ==
  /\ \A c \in Cpus : HiloOK(hilo_cpu[c], estado)
  /\ \A c, d \in Cpus :
       /\ hilo_cpu[c].pc = "init_nuevo" /\ hilo_cpu[d].pc = "init_nuevo"
       /\ hilo_cpu[c].pid = hilo_cpu[d].pid
       => c = d

\* The numbers not given yet are of no process, a process that runs has a CPU,
\* and one that points to a timer has not ended and is one that can be planned.
ProcesosInv ==
  \A p \in Pids :
    /\ p >= proximo_pid => estado[p] = "SIN_CREAR"
    /\ estado[p] = "EXEC" => cpu[p] \in Cpus
    /\ timer[p] # Nulo => estado[p] \in {"EXEC", "READY"} /\ Planificable(p)

EnvioInv ==
  planificador.pc = "enviar" => planificador.pid \in Pids /\ planificador.cpu \in Cpus

\* The parts of KsTipo.
ProcesosTipo ==
  /\ estado \in [Pids -> EstadosProceso]
  /\ prioridad \in [Pids -> Prioridades \cup {0}]
  /\ cpu \in [Pids -> Cpus \cup {Nulo}]
  /\ timer \in [Pids -> Timers \cup {Nulo}]
  /\ proximo_pid \in Nat

ListasTipo ==
  /\ lista_new \in Seq(Pids)
  /\ colas_ready \in [Colas -> Seq(Pids)]
  /\ lista_ready_invalida \in Seq(Pids)
  /\ lista_exec \in Seq(Pids)

SemTipo ==
  /\ sem_hay_procesos_ready \in Nat
  /\ sem_hay_cpus_libres \in Nat
  /\ sem_puede_planificar \in Nat

Planes == [pc : {"ready", "cpus", "puede", "enviar"},
           pid : Pids \cup {Nadie}, cpu : Cpus \cup {Nulo},
           timer : Timers \cup {Nulo}]

Quantums == [estado : {"libre", "creado", "corre", "vencido"},
             pid : Pids \cup {Nadie}, cpu : Cpus \cup {Nulo}]

PlanInv == TypeOK /\ UnaSolaLista /\ ProcesosInv /\ HilosInv /\ EnvioInv

\* The parts make the whole, before a step and after it.
LEMMA PartesTipo ==
  /\ KsTipo <=> /\ ProcesosTipo /\ ListasTipo /\ SemTipo
                /\ lista_cpus_libres \in Seq(Cpus)
                /\ planificador \in Planes /\ hilo_cpu \in [Cpus -> Hilo]
                /\ timers \in [Timers -> Quantums] /\ ks_caido \in BOOLEAN
  /\ KsTipo' <=> /\ ProcesosTipo' /\ ListasTipo' /\ SemTipo'
                 /\ lista_cpus_libres' \in Seq(Cpus)
                 /\ planificador' \in Planes /\ hilo_cpu' \in [Cpus -> Hilo]
                 /\ timers' \in [Timers -> Quantums] /\ ks_caido' \in BOOLEAN
BY DEF KsTipo, ProcesosTipo, ListasTipo, SemTipo, Planes, Hilo, Quantums

-----------------------------------------------------------------------------
(* Types of what the operations send, receive and move.                     *)

\* enviar_entero to a CPU leaves lists of messages.
LEMMA AlCpuTipo ==
  ASSUME NEW canal \in [Cpus -> Seq(MensajeKs)], NEW c, NEW op \in OpsKs,
         NEW p \in Pids \cup {Nadie}
  PROVE  AlCpu(canal, c, op, p) \in [Cpus -> Seq(MensajeKs)]
<1>1. [op |-> op, pid |-> p] \in MensajeKs
  BY DEF MensajeKs
<1>2. \A d \in Cpus : Append(canal[d], [op |-> op, pid |-> p]) \in Seq(MensajeKs)
  BY <1>1, AppendProperties
<1>3. QED
  BY <1>2 DEF AlCpu

\* enviar_entero to the Kernel Scheduler leaves lists of messages.
LEMMA AlKsTipo ==
  ASSUME CanalesTipo, NEW c, NEW op \in OpsCpu, NEW p \in Pids \cup {Nadie},
         NEW prio \in Prioridades \cup {0}
  PROVE  AlKs(c, op, p, prio) \in [Cpus -> Seq(MensajeCpu)]
<1>1. [op |-> op, pid |-> p, prioridad |-> prio] \in MensajeCpu
  BY DEF MensajeCpu
<1>2. \A d \in Cpus :
        Append(de_cpu[d], [op |-> op, pid |-> p, prioridad |-> prio]) \in Seq(MensajeCpu)
  BY <1>1, AppendProperties DEF CanalesTipo
<1>3. QED
  BY <1>2 DEF AlKs, CanalesTipo

\* recibir_entero: a message comes out and the others stay.
LEMMA RecibeTipo ==
  ASSUME CanalesTipo, NEW c \in Cpus, NEW op, Recibe(c, op)
  PROVE  /\ Head(de_cpu[c]) \in MensajeCpu
         /\ Head(de_cpu[c]).pid \in Pids \cup {Nadie}
         /\ Head(de_cpu[c]).prioridad \in Prioridades \cup {0}
         /\ de_cpu' \in [Cpus -> Seq(MensajeCpu)]
<1>1. de_cpu[c] \in Seq(MensajeCpu) /\ de_cpu[c] # <<>>
  BY DEF CanalesTipo, Recibe
<1>2. Head(de_cpu[c]) \in MensajeCpu /\ Tail(de_cpu[c]) \in Seq(MensajeCpu)
  BY <1>1, HeadTailProperties
<1>3. de_cpu' \in [Cpus -> Seq(MensajeCpu)]
  BY <1>2 DEF CanalesTipo, Recibe
<1>4. Head(de_cpu[c]).pid \in Pids \cup {Nadie}
      /\ Head(de_cpu[c]).prioridad \in Prioridades \cup {0}
  BY <1>2 DEF MensajeCpu
<1>5. QED
  BY <1>2, <1>3, <1>4

\* The queue of a process that can be planned is one of the queues.
LEMMA ColaDeProceso ==
  ASSUME KsTipo, NEW p \in Pids, Planificable(p)
  PROVE  ColaDe(p) \in Colas
<1>1. CASE Cmn
  BY <1>1 DEF Planificable, ColaDe
<1>2. CASE ~ Cmn
  BY <1>2 DEF ColaDe, Colas, CantidadColas
<1>3. QED
  BY <1>1, <1>2

\* What the list of a process says of its state, and the other way round.
LEMMA EstadoPorLista ==
  ASSUME PlanInv, NEW p \in Pids
  PROVE  /\ EnLista(p, lista_exec) <=> estado[p] = "EXEC"
         /\ EnLista(p, lista_new) <=> estado[p] = "NEW"
         /\ \A q \in Colas : EnLista(p, colas_ready[q]) <=>
              estado[p] = "READY" /\ Planificable(p) /\ q = ColaDe(p)
         /\ EnReady(p) <=> estado[p] = "READY" /\ Planificable(p)
<1>1. /\ lista_exec \in Seq(Pids) /\ lista_new \in Seq(Pids)
      /\ \A q \in Colas : colas_ready[q] \in Seq(Pids)
  BY DEF PlanInv, TypeOK, KsTipo
<1>2. /\ Veces(p, lista_new) = IF estado[p] = "NEW" THEN 1 ELSE 0
      /\ Veces(p, lista_exec) = IF estado[p] = "EXEC" THEN 1 ELSE 0
      /\ \A q \in Colas : Veces(p, colas_ready[q]) =
           IF estado[p] = "READY" /\ Planificable(p) /\ q = ColaDe(p) THEN 1 ELSE 0
  BY DEF PlanInv, UnaSolaLista
<1>3. /\ EnLista(p, lista_exec) <=> Veces(p, lista_exec) > 0
      /\ EnLista(p, lista_new) <=> Veces(p, lista_new) > 0
  BY <1>1, VecesNumero
<1>4. \A q \in Colas : EnLista(p, colas_ready[q]) <=> Veces(p, colas_ready[q]) > 0
  BY <1>1, VecesNumero
<1>5. /\ EnLista(p, lista_exec) <=> estado[p] = "EXEC"
      /\ EnLista(p, lista_new) <=> estado[p] = "NEW"
      /\ \A q \in Colas : EnLista(p, colas_ready[q]) <=>
           estado[p] = "READY" /\ Planificable(p) /\ q = ColaDe(p)
  BY <1>2, <1>3, <1>4
<1>6. Planificable(p) => ColaDe(p) \in Colas
  BY ColaDeProceso DEF PlanInv, TypeOK
<1>7. QED
  BY <1>5, <1>6 DEF EnReady

\* What is in a list of processes is a process.
LEMMA EnListaTipo ==
  ASSUME NEW S, NEW s \in Seq(S), NEW e, EnLista(e, s)
  PROVE  e \in S
<1>1. \A i \in DOMAIN s : s[i] \in S
  BY LenProperties, ElementOfSeq
<1>2. QED
  BY <1>1 DEF EnLista

\* AvisoPor is an interrupt for a process that runs, or none.
LEMMA AvisoPorTipo ==
  ASSUME KsTipo, NEW p, NEW exec \in Seq(Pids)
  PROVE  AvisoPor(p, exec) \in [cpu : Cpus \cup {Nulo}, pid : Pids \cup {Nadie}]
<1> DEFINE peores == {i \in DOMAIN exec : EsPeor(exec, i) /\ prioridad[exec[i]] > prioridad[p]}
           k == CHOOSE i \in peores : TRUE
<1>1. \A i \in DOMAIN exec : exec[i] \in Pids
  BY LenProperties, ElementOfSeq
<1>2. CASE peores # {}
  <2>1. k \in DOMAIN exec
    BY <1>2
  <2>2. exec[k] \in Pids
    BY <1>1, <2>1
  <2>3. cpu[exec[k]] \in Cpus \cup {Nulo}
    BY <2>2 DEF KsTipo
  <2>4. [cpu |-> cpu[exec[k]], pid |-> exec[k]]
          \in [cpu : Cpus \cup {Nulo}, pid : Pids \cup {Nadie}]
    BY <2>2, <2>3
  <2>5. AvisoPor(p, exec) \in {[cpu |-> cpu[exec[k]], pid |-> exec[k]], SinAviso}
    BY DEF AvisoPor
  <2>6. QED
    BY <2>4, <2>5 DEF SinAviso
<1>3. CASE peores = {}
  BY <1>3 DEF AvisoPor, SinAviso
<1>4. QED
  BY <1>2, <1>3

-----------------------------------------------------------------------------
(* What the steps that the actions have in common do to the invariant.      *)

\* A step of the thread of c that leaves the processes of the other threads in
\* their states.
LEMMA HilosPaso ==
  ASSUME KsTipo, HilosInv, NEW c \in Cpus, NEW h \in Hilo,
         hilo_cpu' = [hilo_cpu EXCEPT ![c] = h],
         HiloOK(h, estado'),
         \A p \in Pids : estado[p] = "EXIT" => estado'[p] = "EXIT",
         \A d \in Cpus \ {c} : hilo_cpu[d].pc = "init_nuevo" =>
           /\ estado'[hilo_cpu[d].pid] = "NEW"
           /\ h.pc = "init_nuevo" => h.pid # hilo_cpu[d].pid
  PROVE  hilo_cpu' \in [Cpus -> Hilo] /\ HilosInv'
<1>1. hilo_cpu \in [Cpus -> Hilo]
  BY DEF KsTipo, Hilo
<1>2. hilo_cpu' \in [Cpus -> Hilo]
  BY <1>1
<1>3. hilo_cpu'[c] = h /\ \A d \in Cpus \ {c} : hilo_cpu'[d] = hilo_cpu[d]
  BY <1>1
<1>4. ASSUME NEW d \in Cpus PROVE HiloOK(hilo_cpu'[d], estado')
  <2>1. CASE d = c
    BY <1>3, <2>1
  <2>2. CASE d # c
    BY <1>3, <2>2 DEF HilosInv, HiloOK
  <2>3. QED
    BY <2>1, <2>2
<1>5. ASSUME NEW d \in Cpus, NEW f \in Cpus,
             hilo_cpu'[d].pc = "init_nuevo", hilo_cpu'[f].pc = "init_nuevo",
             hilo_cpu'[d].pid = hilo_cpu'[f].pid
      PROVE  d = f
  BY <1>3, <1>5 DEF HilosInv
<1>6. HilosInv'
  BY <1>4, <1>5 DEF HilosInv
<1>7. QED
  BY <1>2, <1>6

\* encolar_en_ready: p is in the queue of its priority, or in
\* lista_ready_invalida, once more, and the thread goes on at luego or sends an
\* interrupt first.
LEMMA EncolarEfecto ==
  ASSUME KsTipo, NEW c \in Cpus, NEW p \in Pids, NEW exec \in Seq(Pids),
         NEW luego \in {"fq_fin", "init_fin", "desc_fin"},
         EncolarEnReady(c, p, exec, luego)
  PROVE  /\ colas_ready' \in [Colas -> Seq(Pids)]
         /\ lista_ready_invalida' \in Seq(Pids)
         /\ \A x \in Pids :
              Veces(x, lista_ready_invalida') = Veces(x, lista_ready_invalida)
                + (IF x = p /\ ~ Planificable(p) THEN 1 ELSE 0)
         /\ \A x \in Pids : \A q \in Colas :
              Veces(x, colas_ready'[q]) = Veces(x, colas_ready[q])
                + (IF x = p /\ Planificable(p) /\ q = ColaDe(p) THEN 1 ELSE 0)
         /\ \E h \in Hilo :
              /\ hilo_cpu' = [hilo_cpu EXCEPT ![c] = h]
              /\ h.pc \in {luego, "avisar"} /\ h.luego = luego
              /\ h.pid = p /\ h.cpu = cpu[p]
              /\ h.planificable <=> Planificable(p)
<1>1. /\ lista_ready_invalida \in Seq(Pids)
      /\ \A q \in Colas : colas_ready[q] \in Seq(Pids)
      /\ colas_ready \in [Colas -> Seq(Pids)]
  BY DEF KsTipo
<1>2. \A x \in Pids :
        /\ Veces(x, lista_ready_invalida) \in Nat
        /\ \A q \in Colas : Veces(x, colas_ready[q]) \in Nat
  BY <1>1, VecesNumero
<1>3. Planificable(p) => ColaDe(p) \in Colas
  BY ColaDeProceso
<1>4. \A x \in Pids :
        /\ Append(lista_ready_invalida, p) \in Seq(Pids)
        /\ Veces(x, Append(lista_ready_invalida, p)) =
             Veces(x, lista_ready_invalida) + (IF p = x THEN 1 ELSE 0)
  BY <1>1, VecesAgregar
<1>5. \A x \in Pids : \A q \in Colas :
        /\ Append(colas_ready[q], p) \in Seq(Pids)
        /\ Veces(x, Append(colas_ready[q], p)) =
             Veces(x, colas_ready[q]) + (IF p = x THEN 1 ELSE 0)
  BY <1>1, VecesAgregar
<1>6. /\ colas_ready' \in [Colas -> Seq(Pids)]
      /\ lista_ready_invalida' \in Seq(Pids)
      /\ \A x \in Pids :
           Veces(x, lista_ready_invalida') = Veces(x, lista_ready_invalida)
             + (IF x = p /\ ~ Planificable(p) THEN 1 ELSE 0)
      /\ \A x \in Pids : \A q \in Colas :
           Veces(x, colas_ready'[q]) = Veces(x, colas_ready[q])
             + (IF x = p /\ Planificable(p) /\ q = ColaDe(p) THEN 1 ELSE 0)
  <2>1. CASE Planificable(p)
    <3>1. /\ colas_ready' = [colas_ready EXCEPT ![ColaDe(p)] = Append(@, p)]
          /\ lista_ready_invalida' = lista_ready_invalida
      BY <2>1 DEF EncolarEnReady
    <3>2. \A q \in Colas : colas_ready'[q] =
            IF q = ColaDe(p) THEN Append(colas_ready[q], p) ELSE colas_ready[q]
      BY <1>1, <3>1
    <3>3. colas_ready' \in [Colas -> Seq(Pids)]
      BY <1>1, <1>3, <1>5, <2>1, <3>1
    <3>4. QED
      BY <1>1, <1>2, <1>5, <2>1, <3>1, <3>2, <3>3
  <2>2. CASE ~ Planificable(p)
    <3>1. /\ colas_ready' = colas_ready
          /\ lista_ready_invalida' = Append(lista_ready_invalida, p)
      BY <2>2 DEF EncolarEnReady
    <3>2. QED
      BY <1>1, <1>2, <1>4, <2>2, <3>1
  <2>3. QED
    BY <2>1, <2>2
<1>7. \E h \in Hilo :
        /\ hilo_cpu' = [hilo_cpu EXCEPT ![c] = h]
        /\ h.pc \in {luego, "avisar"} /\ h.luego = luego
        /\ h.pid = p /\ h.cpu = cpu[p]
        /\ h.planificable <=> Planificable(p)
  <2> DEFINE b == Planificable(p)
             aviso == AvisoPor(p, exec)
             h == [pc |-> IF aviso = SinAviso THEN luego ELSE "avisar",
                   luego |-> luego, pid |-> p, cpu |-> cpu[p],
                   planificable |-> b, aviso |-> aviso]
  <2>1. hilo_cpu' = [hilo_cpu EXCEPT ![c] = h]
    BY DEF EncolarEnReady
  <2>2. b \in BOOLEAN
    BY DEF Planificable
  <2>3. aviso \in [cpu : Cpus \cup {Nulo}, pid : Pids \cup {Nadie}]
    BY AvisoPorTipo
  <2>4. cpu[p] \in Cpus \cup {Nulo}
    BY DEF KsTipo
  <2> HIDE DEF b, aviso
  <2>5. h \in Hilo
    BY <2>2, <2>3, <2>4 DEF Hilo
  <2>6. /\ h.pc \in {luego, "avisar"} /\ h.luego = luego
        /\ h.pid = p /\ h.cpu = cpu[p] /\ h.planificable = b
    OBVIOUS
  <2> HIDE DEF h
  <2>7. h.planificable <=> Planificable(p)
    BY <2>6 DEF b
  <2>8. QED
    BY <2>1, <2>5, <2>6, <2>7
<1>8. QED
  BY <1>6, <1>7

\* A process that goes to READY from NEW or EXEC: it leaves the list of its
\* state and is in the queue of its priority or in lista_ready_invalida.
LEMMA PasaAReady ==
  ASSUME KsTipo, UnaSolaLista, NEW p \in Pids,
         estado[p] \in {"NEW", "EXEC"},
         estado' = [estado EXCEPT ![p] = "READY"], prioridad' = prioridad,
         \A x \in Pids :
           /\ Veces(x, lista_new') = Veces(x, lista_new)
                - (IF x = p /\ estado[p] = "NEW" THEN 1 ELSE 0)
           /\ Veces(x, lista_exec') = Veces(x, lista_exec)
                - (IF x = p /\ estado[p] = "EXEC" THEN 1 ELSE 0)
           /\ Veces(x, lista_ready_invalida') = Veces(x, lista_ready_invalida)
                + (IF x = p /\ ~ Planificable(p) THEN 1 ELSE 0)
           /\ \A q \in Colas :
                Veces(x, colas_ready'[q]) = Veces(x, colas_ready[q])
                  + (IF x = p /\ Planificable(p) /\ q = ColaDe(p) THEN 1 ELSE 0)
  PROVE  UnaSolaLista'
<1>1. \A x \in Pids : estado'[x] = IF x = p THEN "READY" ELSE estado[x]
  BY DEF KsTipo
<1>2. \A x \in Pids : (Planificable(x)' <=> Planificable(x)) /\ ColaDe(x)' = ColaDe(x)
  BY DEF Planificable, ColaDe
<1>3. ASSUME NEW x \in Pids
      PROVE  /\ Veces(x, lista_new') = IF estado'[x] = "NEW" THEN 1 ELSE 0
             /\ Veces(x, lista_exec') = IF estado'[x] = "EXEC" THEN 1 ELSE 0
             /\ Veces(x, lista_ready_invalida') =
                  IF estado'[x] = "READY" /\ ~ Planificable(x) THEN 1 ELSE 0
             /\ \A q \in Colas : Veces(x, colas_ready'[q]) =
                  IF estado'[x] = "READY" /\ Planificable(x) /\ q = ColaDe(x)
                  THEN 1 ELSE 0
  <2>1. /\ Veces(x, lista_new) = IF estado[x] = "NEW" THEN 1 ELSE 0
        /\ Veces(x, lista_exec) = IF estado[x] = "EXEC" THEN 1 ELSE 0
        /\ Veces(x, lista_ready_invalida) =
             IF estado[x] = "READY" /\ ~ Planificable(x) THEN 1 ELSE 0
        /\ \A q \in Colas : Veces(x, colas_ready[q]) =
             IF estado[x] = "READY" /\ Planificable(x) /\ q = ColaDe(x) THEN 1 ELSE 0
    BY DEF UnaSolaLista
  <2>2. CASE x = p
    BY <1>1, <2>1, <2>2
  <2>3. CASE x # p
    BY <1>1, <2>1, <2>3
  <2>4. QED
    BY <2>2, <2>3
<1>4. QED
  BY <1>2, <1>3 DEF UnaSolaLista

\* Nothing happens to the processes and their lists.
LEMMA ListasQuietas ==
  ASSUME UnaSolaLista, ProcesosInv,
         UNCHANGED <<procesoVars, lista_new, colas_ready, lista_ready_invalida,
                     lista_exec>>
  PROVE  UnaSolaLista' /\ ProcesosInv'
<1>1. \A x : (Planificable(x)' <=> Planificable(x)) /\ ColaDe(x)' = ColaDe(x)
  BY DEF Planificable, ColaDe, procesoVars
<1>2. UnaSolaLista'
  BY <1>1 DEF UnaSolaLista, procesoVars
<1>3. ProcesosInv'
  BY <1>1 DEF ProcesosInv, procesoVars
<1>4. QED
  BY <1>2, <1>3

-----------------------------------------------------------------------------
(* Every step preserves the invariant.                                      *)

\* A thread that has nothing in hand.
LEMMA HiloEnTipo ==
  ASSUME NEW pc \in {"recibir", "postear", "cerrado"}, NEW e
  PROVE  HiloEn(pc) \in Hilo /\ HiloOK(HiloEn(pc), e)
BY DEF HiloEn, Hilo, HiloOK, SinAviso

\* A step of the thread of c that moves no process.
LEMMA HiloSolo ==
  ASSUME PlanInv, NEW c \in Cpus, NEW h \in Hilo, HiloOK(h, estado),
         h.pc # "init_nuevo",
         hilo_cpu' = [hilo_cpu EXCEPT ![c] = h], estado' = estado
  PROVE  hilo_cpu' \in [Cpus -> Hilo] /\ HilosInv'
<1>1. KsTipo /\ HilosInv
  BY DEF PlanInv, TypeOK
<1>2. \A d \in Cpus \ {c} : hilo_cpu[d].pc = "init_nuevo" =>
        estado'[hilo_cpu[d].pid] = "NEW"
  BY <1>1 DEF HilosInv, HiloOK
<1>3. QED
  BY <1>1, <1>2, HilosPaso

\* The planner takes its tokens.
LEMMA PlanEspera ==
  ASSUME PlanInv, PlanificadorEsperaReady \/ PlanificadorEsperaCpu, UNCHANGED cpuVars
  PROVE  PlanInv'
<1> USE DEF PlanInv
<1>1. UnaSolaLista' /\ ProcesosInv'
  <2>1. UNCHANGED <<procesoVars, lista_new, colas_ready, lista_ready_invalida,
                    lista_exec>>
    BY DEF PlanificadorEsperaReady, PlanificadorEsperaCpu, listaVars
  <2>2. QED
    BY <2>1, ListasQuietas
<1>2. TypeOK'
  <2>1. planificador' \in Planes
    BY PartesTipo DEF TypeOK, Planes, PlanificadorEsperaReady, PlanificadorEsperaCpu
  <2>2. SemTipo'
    BY PartesTipo DEF TypeOK, SemTipo, PlanificadorEsperaReady, PlanificadorEsperaCpu
  <2>3. CanalesTipo' /\ CpuTipo'
    BY DEF TypeOK, CanalesTipo, CpuTipo, cpuVars, canales, PlanificadorEsperaReady,
           PlanificadorEsperaCpu
  <2>4. KsTipo'
    BY <2>1, <2>2, PartesTipo
       DEF TypeOK, ProcesosTipo, ListasTipo, procesoVars, listaVars,
           PlanificadorEsperaReady, PlanificadorEsperaCpu
  <2>5. QED
    BY <2>3, <2>4 DEF TypeOK
<1>3. HilosInv'
  BY DEF HilosInv, procesoVars, PlanificadorEsperaReady, PlanificadorEsperaCpu
<1>4. EnvioInv'
  BY DEF EnvioInv, PlanificadorEsperaReady, PlanificadorEsperaCpu, TypeOK, KsTipo
<1>5. QED
  BY <1>1, <1>2, <1>3, <1>4

\* The planner sends a process to its CPU.
LEMMA PlanEnviar ==
  ASSUME PlanInv, PlanificadorEnviar, UNCHANGED cpuVars
  PROVE  PlanInv'
<1> USE DEF PlanInv
<1>1. UnaSolaLista' /\ ProcesosInv'
  <2>1. UNCHANGED <<procesoVars, lista_new, colas_ready, lista_ready_invalida,
                    lista_exec>>
    BY DEF PlanificadorEnviar, listaVars
  <2>2. QED
    BY <2>1, ListasQuietas
<1>2. a_cpu' \in [Cpus -> Seq(MensajeKs)]
  <2>1. a_cpu \in [Cpus -> Seq(MensajeKs)] /\ planificador.pid \in Pids \cup {Nadie}
    BY DEF TypeOK, CanalesTipo, KsTipo
  <2>2. \A d : AlCpu(a_cpu, d, "EJECUTAR_PROCESO", planificador.pid)
                 \in [Cpus -> Seq(MensajeKs)]
    BY <2>1, AlCpuTipo DEF OpsKs
  <2>3. QED
    BY <2>1, <2>2 DEF PlanificadorEnviar
<1>3. timers' \in [Timers -> Quantums]
  BY PartesTipo DEF PlanificadorEnviar, TypeOK, Quantums
<1>4. TypeOK'
  <2>1. planificador' \in Planes
    BY DEF Planes, PlanificadorEnviar
  <2>2. SemTipo'
    BY PartesTipo DEF TypeOK, SemTipo, PlanificadorEnviar
  <2>3. CanalesTipo' /\ CpuTipo'
    BY <1>2 DEF TypeOK, CanalesTipo, CpuTipo, cpuVars, PlanificadorEnviar
  <2>4. KsTipo'
    BY <1>3, <2>1, <2>2, PartesTipo
       DEF TypeOK, ProcesosTipo, ListasTipo, procesoVars, listaVars, PlanificadorEnviar
  <2>5. QED
    BY <2>3, <2>4 DEF TypeOK
<1>5. HilosInv' /\ EnvioInv'
  BY DEF HilosInv, EnvioInv, procesoVars, PlanificadorEnviar
<1>6. QED
  BY <1>1, <1>4, <1>5

\* The queue the planner takes a process from has one.
LEMMA PrimeraColaTiene ==
  ASSUME KsTipo, ConProcesos # {}
  PROVE  PrimeraCola \in Colas /\ colas_ready[PrimeraCola] # <<>>
<1>1. ConProcesos \in SUBSET Nat
  BY DEF ConProcesos, Colas
<1>2. \E q \in ConProcesos : \A r \in ConProcesos : q <= r
  BY <1>1, MinimoNat
<1>3. PrimeraCola \in ConProcesos
  BY <1>2 DEF PrimeraCola
<1>4. QED
  BY <1>3 DEF ConProcesos

\* The planner takes a process from its queue, and it is the one of its queue,
\* READY, that it takes.
LEMMA ElegirEfecto ==
  ASSUME PlanInv, ConProcesos # {}, NEW q, q = PrimeraCola
  PROVE  /\ q \in Colas /\ colas_ready[q] \in Seq(Pids) /\ colas_ready[q] # <<>>
         /\ Head(colas_ready[q]) \in Pids
         /\ estado[Head(colas_ready[q])] = "READY"
         /\ Planificable(Head(colas_ready[q]))
         /\ q = ColaDe(Head(colas_ready[q]))
         /\ Tail(colas_ready[q]) \in Seq(Pids)
         /\ \A x \in Pids : Veces(x, Tail(colas_ready[q])) =
              Veces(x, colas_ready[q]) - (IF Head(colas_ready[q]) = x THEN 1 ELSE 0)
<1>1. q \in Colas /\ colas_ready[q] \in Seq(Pids) /\ colas_ready[q] # <<>>
  BY PrimeraColaTiene DEF PlanInv, TypeOK, KsTipo
<1>2. /\ Head(colas_ready[q]) \in Pids /\ EnLista(Head(colas_ready[q]), colas_ready[q])
      /\ Tail(colas_ready[q]) \in Seq(Pids)
      /\ \A x \in Pids : Veces(x, Tail(colas_ready[q])) =
           Veces(x, colas_ready[q]) - (IF Head(colas_ready[q]) = x THEN 1 ELSE 0)
  BY <1>1, VecesTail
<1>3. /\ estado[Head(colas_ready[q])] = "READY"
      /\ Planificable(Head(colas_ready[q])) /\ q = ColaDe(Head(colas_ready[q]))
  BY <1>1, <1>2, EstadoPorLista
<1>4. QED
  BY <1>1, <1>2, <1>3

\* The planner takes a READY process, or has none, or no CPU.
LEMMA PlanElegir ==
  ASSUME PlanInv, PlanificadorElegir, UNCHANGED cpuVars
  PROVE  PlanInv'
<1> DEFINE q == PrimeraCola
           p == Head(colas_ready[q])
           c == Head(lista_cpus_libres)
           rr == AlgoritmoDe(q) = "RR"
           t == IF rr THEN CHOOSE x \in TimersLibres : TRUE ELSE Nulo
<1>1. KsTipo /\ CanalesTipo /\ CpuTipo /\ HilosInv /\ UnaSolaLista /\ ProcesosInv /\ EnvioInv
  BY DEF PlanInv, TypeOK
<1>2. CanalesTipo' /\ CpuTipo' /\ UNCHANGED <<hilo_cpu, sem_hay_procesos_ready>>
  BY <1>1 DEF CanalesTipo, CpuTipo, cpuVars, canales, PlanificadorElegir
<1>3. CASE ConProcesos = {}
  <2>1. /\ planificador' = [planificador EXCEPT !.pc = "ready"]
        /\ sem_hay_cpus_libres' = sem_hay_cpus_libres + 1
        /\ UNCHANGED <<procesoVars, listaVars, sem_puede_planificar, timers, ks_caido>>
    BY <1>3 DEF PlanificadorElegir
  <2>2. UnaSolaLista' /\ ProcesosInv'
    BY <1>1, <2>1, ListasQuietas DEF listaVars
  <2>3. planificador' \in Planes
    BY <1>1, <2>1, PartesTipo DEF Planes
  <2>4. KsTipo'
    BY <1>1, <1>2, <2>1, <2>3, PartesTipo
       DEF ProcesosTipo, ListasTipo, SemTipo, procesoVars, listaVars
  <2>5. HilosInv' /\ EnvioInv'
    BY <1>1, <1>2, <2>1, <2>3 DEF HilosInv, EnvioInv, procesoVars, KsTipo
  <2>6. QED
    BY <1>2, <2>2, <2>4, <2>5 DEF PlanInv, TypeOK
<1>4. CASE ConProcesos # {} /\ lista_cpus_libres = <<>>
  <2>1. ks_caido' = TRUE /\ UNCHANGED <<procesoVars, listaVars, semVars, planificador, timers>>
    BY <1>4 DEF PlanificadorElegir
  <2>2. UnaSolaLista' /\ ProcesosInv'
    BY <1>1, <2>1, ListasQuietas DEF listaVars
  <2>3. KsTipo'
    BY <1>1, <1>2, <2>1, PartesTipo
       DEF ProcesosTipo, ListasTipo, SemTipo, procesoVars, listaVars, semVars
  <2>4. HilosInv' /\ EnvioInv'
    BY <1>1, <1>2, <2>1 DEF HilosInv, EnvioInv, procesoVars
  <2>5. QED
    BY <1>2, <2>2, <2>3, <2>4 DEF PlanInv, TypeOK
<1>5. CASE ConProcesos # {} /\ lista_cpus_libres # <<>>
  <2>1. /\ rr => TimersLibres # {}
        /\ sem_puede_planificar' = sem_puede_planificar - 1
        /\ colas_ready' = [colas_ready EXCEPT ![q] = Tail(@)]
        /\ lista_cpus_libres' = Tail(lista_cpus_libres)
        /\ lista_exec' = Append(lista_exec, p)
        /\ estado' = [estado EXCEPT ![p] = "EXEC"]
        /\ cpu' = [cpu EXCEPT ![p] = c]
        /\ timer' = IF rr THEN [timer EXCEPT ![p] = t] ELSE timer
        /\ timers' = IF rr THEN [timers EXCEPT ![t] =
                       [estado |-> "creado", pid |-> p, cpu |-> c]]
                     ELSE timers
        /\ planificador' = [pc |-> "enviar", pid |-> p, cpu |-> c, timer |-> t]
        /\ UNCHANGED <<prioridad, proximo_pid, lista_new,
                       lista_ready_invalida, sem_hay_cpus_libres, ks_caido>>
    BY <1>5 DEF PlanificadorElegir
  <2>2. sem_puede_planificar > 0
    BY DEF PlanificadorElegir
  <2>3. /\ q \in Colas /\ p \in Pids /\ estado[p] = "READY" /\ Planificable(p)
        /\ q = ColaDe(p) /\ Tail(colas_ready[q]) \in Seq(Pids)
        /\ \A x \in Pids : Veces(x, Tail(colas_ready[q])) =
             Veces(x, colas_ready[q]) - (IF p = x THEN 1 ELSE 0)
    BY <1>5, ElegirEfecto
  <2>4. c \in Cpus /\ Tail(lista_cpus_libres) \in Seq(Cpus)
    BY <1>1, <1>5, HeadTailProperties DEF KsTipo
  <2>5. t \in Timers \cup {Nulo} /\ (rr => t \in Timers)
    BY <2>1 DEF TimersLibres
  <2>6. /\ Append(lista_exec, p) \in Seq(Pids)
        /\ \A x \in Pids : Veces(x, Append(lista_exec, p)) =
             Veces(x, lista_exec) + (IF p = x THEN 1 ELSE 0)
    <3>1. lista_exec \in Seq(Pids)
      BY <1>1 DEF KsTipo
    <3>2. QED
      BY <2>3, <3>1, VecesAgregar
  <2> HIDE DEF q, p, c, rr, t
  <2>7. ProcesosTipo'
    BY <1>1, <2>1, <2>3, <2>4, <2>5, PartesTipo DEF ProcesosTipo, EstadosProceso
  <2>8. ListasTipo'
    BY <1>1, <2>1, <2>3, <2>6, PartesTipo DEF ListasTipo
  <2>9. SemTipo'
    BY <1>1, <1>2, <2>1, <2>2, PartesTipo DEF SemTipo
  <2>10. planificador' \in Planes
    BY <2>1, <2>3, <2>4, <2>5 DEF Planes
  <2>11. timers' \in [Timers -> Quantums]
    <3>1. [estado |-> "creado", pid |-> p, cpu |-> c] \in Quantums
      BY <2>3, <2>4 DEF Quantums
    <3>2. QED
      BY <1>1, <2>1, <3>1, PartesTipo
  <2>12. KsTipo'
    BY <1>1, <1>2, <2>1, <2>4, <2>7, <2>8, <2>9, <2>10, <2>11, PartesTipo
  <2>13. \A x \in Pids : estado'[x] = IF x = p THEN "EXEC" ELSE estado[x]
    BY <1>1, <2>1, <2>3 DEF KsTipo
  <2>14. \A x \in Pids : (Planificable(x)' <=> Planificable(x)) /\ ColaDe(x)' = ColaDe(x)
    BY <2>1 DEF Planificable, ColaDe
  <2>15. UnaSolaLista'
    <3>1. \A r \in Colas : colas_ready'[r] =
            IF r = q THEN Tail(colas_ready[r]) ELSE colas_ready[r]
      BY <1>1, <2>1 DEF KsTipo
    <3>2. ASSUME NEW x \in Pids
          PROVE  /\ Veces(x, lista_new') = IF estado'[x] = "NEW" THEN 1 ELSE 0
                 /\ Veces(x, lista_exec') = IF estado'[x] = "EXEC" THEN 1 ELSE 0
                 /\ Veces(x, lista_ready_invalida') =
                      IF estado'[x] = "READY" /\ ~ Planificable(x) THEN 1 ELSE 0
                 /\ \A r \in Colas : Veces(x, colas_ready'[r]) =
                      IF estado'[x] = "READY" /\ Planificable(x) /\ r = ColaDe(x)
                      THEN 1 ELSE 0
      <4>1. /\ Veces(x, lista_new) = IF estado[x] = "NEW" THEN 1 ELSE 0
            /\ Veces(x, lista_exec) = IF estado[x] = "EXEC" THEN 1 ELSE 0
            /\ Veces(x, lista_ready_invalida) =
                 IF estado[x] = "READY" /\ ~ Planificable(x) THEN 1 ELSE 0
            /\ \A r \in Colas : Veces(x, colas_ready[r]) =
                 IF estado[x] = "READY" /\ Planificable(x) /\ r = ColaDe(x) THEN 1 ELSE 0
        BY <1>1 DEF UnaSolaLista
      <4>2. CASE x = p
        BY <2>1, <2>3, <2>6, <2>13, <3>1, <4>1, <4>2
      <4>3. CASE x # p
        BY <2>1, <2>3, <2>6, <2>13, <3>1, <4>1, <4>3
      <4>4. QED
        BY <4>2, <4>3
    <3>3. QED
      BY <2>14, <3>2 DEF UnaSolaLista
  <2>16. ProcesosInv'
    BY <1>1, <2>1, <2>3, <2>4, <2>13, <2>14 DEF ProcesosInv, KsTipo
  <2>17. HilosInv'
    <3>1. \A x \in Pids : /\ estado[x] = "NEW" => estado'[x] = "NEW"
                          /\ estado[x] = "EXIT" => estado'[x] = "EXIT"
      BY <2>3, <2>13
    <3>2. QED
      BY <1>1, <1>2, <3>1 DEF HilosInv, HiloOK
  <2>18. EnvioInv'
    BY <2>1, <2>3, <2>4 DEF EnvioInv
  <2>19. QED
    BY <1>2, <2>12, <2>15, <2>16, <2>17, <2>18 DEF PlanInv, TypeOK
<1>6. QED
  BY <1>3, <1>4, <1>5

\* The quantum of a timer ends, and the interrupt is sent.
LEMMA PlanQuantum ==
  ASSUME PlanInv, NEW t \in Timers, HiloQuantum(t), UNCHANGED cpuVars
  PROVE  PlanInv'
<1>1. KsTipo /\ CanalesTipo /\ CpuTipo /\ HilosInv /\ UnaSolaLista /\ ProcesosInv /\ EnvioInv
  BY DEF PlanInv, TypeOK
<1>2. timers \in [Timers -> Quantums] /\ timers[t] \in Quantums
  BY <1>1, PartesTipo
<1>3. /\ UNCHANGED <<de_cpu, estado, prioridad, cpu, proximo_pid, listaVars, semVars,
                     planificador, hilo_cpu, ks_caido>>
      /\ timers' \in [Timers -> Quantums]
      /\ timer' = timer \/ timer' = [timer EXCEPT ![timers[t].pid] = Nulo]
      /\ a_cpu' \in [Cpus -> Seq(MensajeKs)]
  <2>1. SinTimer \in Quantums /\ [timers[t] EXCEPT !.estado = "vencido"] \in Quantums
    BY <1>2 DEF SinTimer, Quantums
  <2>2. CASE HiloQuantumVence(t)
    BY <1>1, <1>2, <2>1, <2>2 DEF HiloQuantumVence, canales, CanalesTipo
  <2>3. CASE HiloQuantumInterrumpe(t)
    <3>1. timers[t].pid \in Pids \cup {Nadie}
      BY <1>2 DEF Quantums
    <3>2. AlCpu(a_cpu, timers[t].cpu, "INTERRUMPIR_PROCESO", timers[t].pid)
            \in [Cpus -> Seq(MensajeKs)]
      BY <1>1, <3>1, AlCpuTipo DEF CanalesTipo, OpsKs
    <3>3. QED
      BY <1>2, <2>1, <2>3, <3>2 DEF HiloQuantumInterrumpe, procesoVars
  <2>4. QED
    BY <2>2, <2>3 DEF HiloQuantum
<1>4. timer' \in [Pids -> Timers \cup {Nulo}]
      /\ \A x \in Pids : timer'[x] # Nulo => timer'[x] = timer[x]
  BY <1>1, <1>3 DEF KsTipo
<1>5. KsTipo'
  BY <1>1, <1>3, <1>4, PartesTipo DEF ProcesosTipo, ListasTipo, SemTipo, listaVars, semVars
<1>6. CanalesTipo' /\ CpuTipo'
  BY <1>1, <1>3 DEF CanalesTipo, CpuTipo, cpuVars
<1>7. \A x \in Pids : (Planificable(x)' <=> Planificable(x)) /\ ColaDe(x)' = ColaDe(x)
  BY <1>3 DEF Planificable, ColaDe
<1>8. UnaSolaLista'
  BY <1>1, <1>3, <1>7 DEF UnaSolaLista, listaVars
<1>9. ProcesosInv'
  BY <1>1, <1>3, <1>4, <1>7 DEF ProcesosInv
<1>10. HilosInv' /\ EnvioInv'
  BY <1>1, <1>3 DEF HilosInv, EnvioInv
<1>11. QED
  BY <1>5, <1>6, <1>8, <1>9, <1>10 DEF PlanInv, TypeOK

\* A thread that moves no process: the semaphores, the free CPUs and what is
\* said to the CPUs change.
LEMMA PlanHilo ==
  ASSUME PlanInv, NEW c \in Cpus, UNCHANGED cpuVars,
         \/ Avisar(c) \/ Postear(c) \/ ManejarFinQuantumFin(c) \/ FinalizaFin(c)
         \/ ManejarInitProcError(c) \/ ManejarSyscallSinProceso(c)
         \/ ManejarInitProcFin(c) \/ DesconectarCpuFin(c)
  PROVE  PlanInv'
<1> DEFINE g == hilo_cpu[c]
<1>1. KsTipo /\ CanalesTipo /\ CpuTipo /\ HilosInv /\ UnaSolaLista /\ ProcesosInv /\ EnvioInv
  BY DEF PlanInv, TypeOK
<1>2. g \in Hilo /\ HiloOK(g, estado) /\ hilo_cpu \in [Cpus -> Hilo]
  BY <1>1, PartesTipo DEF HilosInv
<1>3. UNCHANGED <<estado, prioridad, timer, lista_new, colas_ready,
                  lista_ready_invalida, lista_exec, planificador, timers, ks_caido>>
  BY DEF Avisar, Postear, ManejarFinQuantumFin, FinalizaFin, ManejarInitProcError,
         ManejarSyscallSinProceso, ManejarInitProcFin, DesconectarCpuFin, procesoVars,
         listaVars, semVars, hiloVars, ksVars
<1>4. CpuTipo'
  BY <1>1 DEF CpuTipo, cpuVars
<1>5. de_cpu' \in [Cpus -> Seq(MensajeCpu)]
  BY <1>1, RecibeTipo
     DEF CanalesTipo, canales, Avisar, Postear, ManejarFinQuantumFin, FinalizaFin,
         ManejarInitProcError, ManejarSyscallSinProceso, ManejarInitProcFin,
         DesconectarCpuFin
<1>6. a_cpu' \in [Cpus -> Seq(MensajeKs)]
  <2>1. a_cpu \in [Cpus -> Seq(MensajeKs)] /\ g.aviso.pid \in Pids \cup {Nadie}
    BY <1>1, <1>2 DEF CanalesTipo, Hilo
  <2>2. /\ AlCpu(a_cpu, g.aviso.cpu, "INTERRUMPIR_PROCESO", g.aviso.pid)
             \in [Cpus -> Seq(MensajeKs)]
        /\ AlCpu(a_cpu, c, "ERROR", Nadie) \in [Cpus -> Seq(MensajeKs)]
        /\ AlCpu(a_cpu, c, "OK", Nadie) \in [Cpus -> Seq(MensajeKs)]
    BY <2>1, AlCpuTipo DEF OpsKs
  <2>3. QED
    BY <2>1, <2>2
       DEF canales, Avisar, Postear, ManejarFinQuantumFin, FinalizaFin,
           ManejarInitProcError, ManejarSyscallSinProceso, ManejarInitProcFin,
           DesconectarCpuFin
<1>7. hilo_cpu' \in [Cpus -> Hilo] /\ HilosInv'
  <2>1. ASSUME NEW h \in Hilo, HiloOK(h, estado), h.pc # "init_nuevo",
               hilo_cpu' = [hilo_cpu EXCEPT ![c] = h]
        PROVE  hilo_cpu' \in [Cpus -> Hilo] /\ HilosInv'
    BY <1>3, <2>1, HiloSolo
  <2>2. \A pc \in {"recibir", "postear", "cerrado"} :
          HiloEn(pc) \in Hilo /\ HiloOK(HiloEn(pc), estado) /\ HiloEn(pc).pc = pc
    BY HiloEnTipo DEF HiloEn
  <2>3. CASE Avisar(c)
    <3> DEFINE h == [g EXCEPT !.pc = g.luego, !.aviso = SinAviso]
    <3>1. hilo_cpu' = [hilo_cpu EXCEPT ![c] = h] /\ g.pc = "avisar"
      BY <1>2, <2>3 DEF Avisar
    <3>2. h \in Hilo /\ HiloOK(h, estado) /\ h.pc # "init_nuevo"
      BY <1>2, <3>1 DEF HiloOK, Hilo, SinAviso
    <3>3. QED
      BY <2>1, <3>1, <3>2
  <2>4. CASE ManejarFinQuantumFin(c)
    <3> DEFINE h == [HiloEn("postear") EXCEPT !.planificable = g.planificable]
    <3>1. hilo_cpu' = [hilo_cpu EXCEPT ![c] = h]
      BY <2>4 DEF ManejarFinQuantumFin
    <3>2. h \in Hilo /\ HiloOK(h, estado) /\ h.pc # "init_nuevo"
      BY <1>2 DEF HiloOK, Hilo, HiloEn, SinAviso
    <3>3. QED
      BY <2>1, <3>1, <3>2
  <2>5. CASE Postear(c) \/ ManejarInitProcFin(c)
    <3>1. hilo_cpu' = [hilo_cpu EXCEPT ![c] = HiloEn("recibir")]
      BY <2>5 DEF Postear, ManejarInitProcFin
    <3>2. QED
      BY <2>1, <2>2, <3>1
  <2>6. CASE FinalizaFin(c)
    <3>1. hilo_cpu' = [hilo_cpu EXCEPT ![c] = HiloEn("postear")]
      BY <2>6 DEF FinalizaFin
    <3>2. QED
      BY <2>1, <2>2, <3>1
  <2>7. CASE DesconectarCpuFin(c)
    <3>1. hilo_cpu' = [hilo_cpu EXCEPT ![c] = HiloEn("cerrado")]
      BY <2>7 DEF DesconectarCpuFin
    <3>2. QED
      BY <2>1, <2>2, <3>1
  <2>8. CASE ManejarInitProcError(c) \/ ManejarSyscallSinProceso(c)
    BY <1>1, <1>2, <1>3, <2>8
       DEF HilosInv, hiloVars, ksVars, ManejarInitProcError, ManejarSyscallSinProceso
  <2>9. QED
    BY <2>3, <2>4, <2>5, <2>6, <2>7, <2>8
<1>8. SemTipo'
  BY <1>1, PartesTipo
     DEF SemTipo, semVars, ksVars, Avisar, Postear, ManejarFinQuantumFin, FinalizaFin,
         ManejarInitProcError, ManejarSyscallSinProceso, ManejarInitProcFin,
         DesconectarCpuFin
<1>9. lista_cpus_libres' \in Seq(Cpus)
  <2>1. CASE ManejarFinQuantumFin(c) \/ FinalizaFin(c)
    <3>1. g.cpu \in Cpus
      BY <1>2, <2>1 DEF HiloOK, ManejarFinQuantumFin, FinalizaFin
    <3>2. lista_cpus_libres' = Append(lista_cpus_libres, g.cpu)
      BY <2>1 DEF ManejarFinQuantumFin, FinalizaFin
    <3>3. QED
      BY <1>1, <3>1, <3>2, AppendProperties DEF KsTipo
  <2>2. CASE ~ (ManejarFinQuantumFin(c) \/ FinalizaFin(c))
    BY <1>1, <2>2
       DEF KsTipo, listaVars, ksVars, Avisar, Postear, ManejarInitProcError,
           ManejarSyscallSinProceso, ManejarInitProcFin, DesconectarCpuFin
  <2>3. QED
    BY <2>1, <2>2
<1>10. /\ proximo_pid' \in Nat /\ proximo_pid' >= proximo_pid
       /\ cpu' = cpu \/ FinalizaFin(c)
  BY <1>1
     DEF KsTipo, procesoVars, ksVars, Avisar, Postear, ManejarFinQuantumFin, FinalizaFin,
         ManejarInitProcError, ManejarSyscallSinProceso, ManejarInitProcFin,
         DesconectarCpuFin
<1>11. cpu' \in [Pids -> Cpus \cup {Nulo}]
       /\ \A x \in Pids : estado[x] = "EXEC" => cpu'[x] = cpu[x]
  <2>1. cpu \in [Pids -> Cpus \cup {Nulo}]
    BY <1>1 DEF KsTipo
  <2>2. CASE FinalizaFin(c)
    <3>1. g.pid \in Pids /\ estado[g.pid] = "EXIT"
      BY <1>2, <2>2 DEF HiloOK, FinalizaFin
    <3>2. cpu' = [cpu EXCEPT ![g.pid] = Nulo]
      BY <2>2 DEF FinalizaFin
    <3>3. QED
      BY <2>1, <3>1, <3>2
  <2>3. QED
    BY <1>10, <2>1, <2>2
<1>12. ProcesosTipo' /\ ListasTipo'
  BY <1>1, <1>3, <1>10, <1>11, PartesTipo DEF ProcesosTipo, ListasTipo
<1>13. KsTipo'
  BY <1>1, <1>3, <1>7, <1>8, <1>9, <1>12, PartesTipo
<1>14. \A x \in Pids : (Planificable(x)' <=> Planificable(x)) /\ ColaDe(x)' = ColaDe(x)
  BY <1>3 DEF Planificable, ColaDe
<1>15. UnaSolaLista'
  BY <1>1, <1>3, <1>14 DEF UnaSolaLista
<1>16. ProcesosInv'
  <2>1. \A x \in Pids : x >= proximo_pid' => x >= proximo_pid
    BY <1>1, <1>10, PlanificacionOK DEF KsTipo
  <2>2. QED
    BY <1>1, <1>3, <1>11, <1>14, <2>1 DEF ProcesosInv
<1>17. EnvioInv'
  BY <1>1, <1>3 DEF EnvioInv
<1>18. QED
  BY <1>4, <1>5, <1>6, <1>7, <1>13, <1>15, <1>16, <1>17 DEF PlanInv, TypeOK, CanalesTipo

\* A CPU connects.
LEMMA PlanConectar ==
  ASSUME PlanInv, NEW c \in Cpus, Conectar(c)
  PROVE  PlanInv'
<1>1. KsTipo /\ CanalesTipo /\ CpuTipo /\ HilosInv /\ UnaSolaLista /\ ProcesosInv /\ EnvioInv
  BY DEF PlanInv, TypeOK
<1>2. /\ lista_cpus_libres' = Append(lista_cpus_libres, c)
      /\ hilo_cpu' = [hilo_cpu EXCEPT ![c] = HiloEn("postear")]
      /\ UNCHANGED <<canales, procesoVars, lista_new, colas_ready,
                     lista_ready_invalida, lista_exec, semVars, planificador, timers,
                     ks_caido>>
      /\ cpu_estado' = [cpu_estado EXCEPT ![c] = "espera"]
      /\ UNCHANGED <<cpu_pid, interrupcion_pendiente_pid, ciclos>>
  BY DEF Conectar, AtenderCpu, CpuConecta
<1>3. UnaSolaLista' /\ ProcesosInv'
  BY <1>1, <1>2, ListasQuietas
<1>4. hilo_cpu' \in [Cpus -> Hilo] /\ HilosInv'
  <2>1. HiloEn("postear") \in Hilo /\ HiloOK(HiloEn("postear"), estado)
        /\ HiloEn("postear").pc # "init_nuevo"
    BY HiloEnTipo DEF HiloEn
  <2>2. QED
    BY <1>2, <2>1, HiloSolo DEF procesoVars
<1>5. lista_cpus_libres' \in Seq(Cpus)
  BY <1>1, <1>2, AppendProperties DEF KsTipo
<1>6. KsTipo'
  BY <1>1, <1>2, <1>4, <1>5, PartesTipo
     DEF ProcesosTipo, ListasTipo, SemTipo, procesoVars, semVars
<1>7. CanalesTipo' /\ CpuTipo'
  BY <1>1, <1>2 DEF CanalesTipo, CpuTipo, canales, EstadosCpu
<1>8. EnvioInv'
  BY <1>1, <1>2 DEF EnvioInv
<1>9. QED
  BY <1>3, <1>4, <1>6, <1>7, <1>8 DEF PlanInv, TypeOK

\* A process goes back to READY from its CPU, or for the first time: the step
\* of a thread that ends with encolar_en_ready.
LEMMA PlanEncolar ==
  ASSUME PlanInv, CanalesTipo', CpuTipo', NEW c \in Cpus, NEW p \in Pids,
         NEW luego \in {"fq_fin", "init_fin", "desc_fin"}, NEW exec \in Seq(Pids),
         estado[p] \in {"NEW", "EXEC"},
         estado[p] = "NEW" => hilo_cpu[c].pc = "init_nuevo" /\ hilo_cpu[c].pid = p,
         luego = "fq_fin" => estado[p] = "EXEC",
         EncolarEnReady(c, p, exec, luego),
         \/ lista_new' = RemoveFirst(lista_new, p)
         \/ lista_new' = lista_new /\ estado[p] # "NEW",
         \/ lista_exec' = RemoveFirst(lista_exec, p)
         \/ lista_exec' = lista_exec /\ estado[p] # "EXEC",
         estado' = [estado EXCEPT ![p] = "READY"],
         cpu' = cpu \/ cpu' = [cpu EXCEPT ![p] = Nulo],
         timer' = timer \/ timer' = [timer EXCEPT ![p] = Nulo],
         lista_cpus_libres' = lista_cpus_libres
           \/ lista_cpus_libres' = RemoveFirst(lista_cpus_libres, c),
         \/ sem_hay_cpus_libres' = sem_hay_cpus_libres
         \/ sem_hay_cpus_libres > 0 /\ sem_hay_cpus_libres' = sem_hay_cpus_libres - 1,
         UNCHANGED <<prioridad, proximo_pid, sem_hay_procesos_ready,
                     sem_puede_planificar, planificador, timers, ks_caido>>
  PROVE  PlanInv'
<1>1. KsTipo /\ HilosInv /\ UnaSolaLista /\ ProcesosInv /\ EnvioInv
  BY DEF PlanInv, TypeOK
<1>2. /\ colas_ready' \in [Colas -> Seq(Pids)]
      /\ lista_ready_invalida' \in Seq(Pids)
      /\ \A x \in Pids :
           Veces(x, lista_ready_invalida') = Veces(x, lista_ready_invalida)
             + (IF x = p /\ ~ Planificable(p) THEN 1 ELSE 0)
      /\ \A x \in Pids : \A q \in Colas :
           Veces(x, colas_ready'[q]) = Veces(x, colas_ready[q])
             + (IF x = p /\ Planificable(p) /\ q = ColaDe(p) THEN 1 ELSE 0)
  BY <1>1, EncolarEfecto
<1>3. PICK h \in Hilo :
        /\ hilo_cpu' = [hilo_cpu EXCEPT ![c] = h]
        /\ h.pc \in {luego, "avisar"} /\ h.luego = luego
        /\ h.pid = p /\ h.cpu = cpu[p]
        /\ h.planificable <=> Planificable(p)
  BY <1>1, EncolarEfecto
<1>4. \A x \in Pids : estado'[x] = IF x = p THEN "READY" ELSE estado[x]
  BY <1>1 DEF KsTipo
<1>5. hilo_cpu' \in [Cpus -> Hilo] /\ HilosInv'
  <2>1. luego = "fq_fin" => cpu[p] \in Cpus
    BY <1>1 DEF ProcesosInv
  <2>2. HiloOK(h, estado')
    BY <1>3, <2>1 DEF HiloOK
  <2>3. \A x \in Pids : estado[x] = "EXIT" => estado'[x] = "EXIT"
    BY <1>4
  <2>4. \A d \in Cpus \ {c} : hilo_cpu[d].pc = "init_nuevo" =>
          hilo_cpu[d].pid \in Pids /\ estado[hilo_cpu[d].pid] = "NEW"
    BY <1>1 DEF HilosInv, HiloOK
  <2>5. \A d \in Cpus \ {c} : hilo_cpu[d].pc = "init_nuevo" => hilo_cpu[d].pid # p
    BY <1>1, <2>4 DEF HilosInv
  <2>6. h.pc # "init_nuevo"
    BY <1>3
  <2>7. \A d \in Cpus \ {c} : hilo_cpu[d].pc = "init_nuevo" =>
          estado'[hilo_cpu[d].pid] = "NEW"
    BY <1>4, <2>4, <2>5
  <2>8. hilo_cpu' = [hilo_cpu EXCEPT ![c] = h]
    BY <1>3
  <2>9. QED
    BY <1>1, <2>2, <2>3, <2>6, <2>7, <2>8, HilosPaso, ZenonT(60)
<1>6. /\ lista_new' \in Seq(Pids)
      /\ \A x \in Pids : Veces(x, lista_new') = Veces(x, lista_new)
           - (IF x = p /\ estado[p] = "NEW" THEN 1 ELSE 0)
  <2>1. lista_new \in Seq(Pids) /\ (EnLista(p, lista_new) <=> estado[p] = "NEW")
    BY <1>1, EstadoPorLista DEF KsTipo
  <2>2. /\ RemoveFirst(lista_new, p) \in Seq(Pids)
        /\ \A x \in Pids : Veces(x, RemoveFirst(lista_new, p)) =
             Veces(x, lista_new) - (IF p = x /\ EnLista(x, lista_new) THEN 1 ELSE 0)
    BY <2>1, VecesQuitar
  <2>3. \A x \in Pids : Veces(x, lista_new) \in Nat
    BY <2>1, VecesNumero
  <2>4. QED
    BY <2>1, <2>2, <2>3
<1>7. /\ lista_exec' \in Seq(Pids)
      /\ \A x \in Pids : Veces(x, lista_exec') = Veces(x, lista_exec)
           - (IF x = p /\ estado[p] = "EXEC" THEN 1 ELSE 0)
  <2>1. lista_exec \in Seq(Pids) /\ (EnLista(p, lista_exec) <=> estado[p] = "EXEC")
    BY <1>1, EstadoPorLista DEF KsTipo
  <2>2. /\ RemoveFirst(lista_exec, p) \in Seq(Pids)
        /\ \A x \in Pids : Veces(x, RemoveFirst(lista_exec, p)) =
             Veces(x, lista_exec) - (IF p = x /\ EnLista(x, lista_exec) THEN 1 ELSE 0)
    BY <2>1, VecesQuitar
  <2>3. \A x \in Pids : Veces(x, lista_exec) \in Nat
    BY <2>1, VecesNumero
  <2>4. QED
    BY <2>1, <2>2, <2>3
<1>8. UnaSolaLista'
  BY <1>1, <1>2, <1>6, <1>7, PasaAReady
<1>9. /\ cpu' \in [Pids -> Cpus \cup {Nulo}]
      /\ \A x \in Pids \ {p} : cpu'[x] = cpu[x]
      /\ timer' \in [Pids -> Timers \cup {Nulo}]
      /\ \A x \in Pids : timer'[x] # Nulo => timer[x] # Nulo
  BY <1>1 DEF KsTipo
<1>10. ProcesosTipo'
  BY <1>1, <1>9, PartesTipo DEF ProcesosTipo, EstadosProceso
<1>11. ListasTipo'
  BY <1>2, <1>6, <1>7 DEF ListasTipo
<1>12. SemTipo'
  <2>1. SemTipo
    BY <1>1, PartesTipo
  <2>2. sem_hay_cpus_libres' \in Nat
    BY <2>1 DEF SemTipo
  <2>3. QED
    BY <2>1, <2>2 DEF SemTipo
<1>13. lista_cpus_libres' \in Seq(Cpus)
  <2>1. lista_cpus_libres \in Seq(Cpus)
    BY <1>1, PartesTipo
  <2>2. RemoveFirst(lista_cpus_libres, c) \in Seq(Cpus)
    BY <2>1, VecesQuitar
  <2>3. QED
    BY <2>1, <2>2
<1>14. KsTipo'
  BY <1>1, <1>5, <1>10, <1>11, <1>12, <1>13, PartesTipo
<1>15. \A x \in Pids : Planificable(x)' <=> Planificable(x)
  BY DEF Planificable
<1>16. ProcesosInv'
  BY <1>1, <1>4, <1>9, <1>15 DEF ProcesosInv
<1>17. EnvioInv'
  BY <1>1 DEF EnvioInv
<1>18. QED
  BY <1>5, <1>8, <1>14, <1>16, <1>17 DEF PlanInv, TypeOK

\* manejar_fin_quantum.
LEMMA PlanFinQuantum ==
  ASSUME PlanInv, NEW c \in Cpus, ManejarFinQuantum(c), UNCHANGED cpuVars
  PROVE  PlanInv'
<1> DEFINE p == Head(de_cpu[c]).pid
<1>1. KsTipo /\ CanalesTipo /\ CpuTipo /\ HilosInv /\ UnaSolaLista /\ ProcesosInv /\ EnvioInv
  BY DEF PlanInv, TypeOK
<1>2. CanalesTipo' /\ CpuTipo'
  BY <1>1, RecibeTipo DEF CanalesTipo, CpuTipo, cpuVars, ManejarFinQuantum
<1>3. /\ UNCHANGED <<prioridad, timer, proximo_pid, lista_new, lista_cpus_libres,
                     semVars, planificador, timers, ks_caido>>
  BY DEF ManejarFinQuantum
<1>4. CASE EnLista(p, lista_exec)
  <2>1. p \in Pids
    BY <1>1, <1>4, EnListaTipo DEF KsTipo
  <2>2. estado[p] = "EXEC"
    BY <1>4, <2>1, EstadoPorLista
  <2>3. /\ lista_exec' = RemoveFirst(lista_exec, p)
        /\ estado' = [estado EXCEPT ![p] = "READY"]
        /\ cpu' = [cpu EXCEPT ![p] = Nulo]
        /\ EncolarEnReady(c, p, RemoveFirst(lista_exec, p), "fq_fin")
    BY <1>4 DEF ManejarFinQuantum
  <2>4. RemoveFirst(lista_exec, p) \in Seq(Pids)
    BY <1>1, VecesQuitar DEF KsTipo
  <2> HIDE DEF p
  <2>5. QED
    BY <1>2, <1>3, <2>1, <2>2, <2>3, <2>4, PlanEncolar DEF semVars
<1>5. CASE ~ EnLista(p, lista_exec)
  <2>1. UNCHANGED <<lista_exec, estado, cpu, colas_ready, lista_ready_invalida, hilo_cpu>>
    BY <1>5 DEF ManejarFinQuantum
  <2>2. UnaSolaLista' /\ ProcesosInv'
    BY <1>1, <1>3, <2>1, ListasQuietas DEF procesoVars
  <2>3. KsTipo'
    BY <1>1, <1>3, <2>1, PartesTipo DEF ProcesosTipo, ListasTipo, SemTipo, semVars
  <2>4. HilosInv' /\ EnvioInv'
    BY <1>1, <1>3, <2>1 DEF HilosInv, EnvioInv
  <2>5. QED
    BY <1>2, <2>2, <2>3, <2>4 DEF PlanInv, TypeOK
<1>6. QED
  BY <1>4, <1>5

\* mover_proceso_a_ready.
LEMMA PlanMover ==
  ASSUME PlanInv, NEW c \in Cpus, MoverProcesoAReady(c), UNCHANGED cpuVars
  PROVE  PlanInv'
<1> DEFINE p == hilo_cpu[c].pid
<1>1. KsTipo /\ CanalesTipo /\ CpuTipo /\ HilosInv
  BY DEF PlanInv, TypeOK
<1>2. CanalesTipo' /\ CpuTipo'
  BY <1>1 DEF CanalesTipo, CpuTipo, cpuVars, canales, MoverProcesoAReady
<1>3. hilo_cpu[c].pc = "init_nuevo"
  BY DEF MoverProcesoAReady
<1>4. p \in Pids /\ estado[p] = "NEW"
  BY <1>1, <1>3 DEF HilosInv, HiloOK
<1>5. /\ lista_new' = RemoveFirst(lista_new, p)
      /\ estado' = [estado EXCEPT ![p] = "READY"]
      /\ EncolarEnReady(c, p, lista_exec, "init_fin")
      /\ UNCHANGED <<prioridad, cpu, timer, proximo_pid, lista_exec, lista_cpus_libres,
                     semVars, planificador, timers, ks_caido>>
  BY DEF MoverProcesoAReady
<1>6. lista_exec \in Seq(Pids)
  BY <1>1 DEF KsTipo
<1>7. QED
  BY <1>2, <1>3, <1>4, <1>5, <1>6, PlanEncolar DEF semVars

\* The process that desconectar_cpu finds in lista_exec.
LEMMA DesconectarProceso ==
  ASSUME PlanInv, NEW c \in Cpus, DesconectarCpu(c), EnLaCpu(c) # {}
  PROVE  \E p \in Pids :
           /\ EnLista(p, lista_exec) /\ cpu[p] = c
           /\ lista_exec' = RemoveFirst(lista_exec, p)
           /\ estado' = [estado EXCEPT ![p] = "READY"]
           /\ cpu' = [cpu EXCEPT ![p] = Nulo]
           /\ timer' = [timer EXCEPT ![p] = Nulo]
           /\ EncolarEnReady(c, p, RemoveFirst(lista_exec, p), "desc_fin")
<1> DEFINE donde == CHOOSE i \in EnLaCpu(c) : \A j \in EnLaCpu(c) : i <= j
           p == lista_exec[donde]
<1>1. /\ lista_exec' = RemoveFirst(lista_exec, p)
      /\ estado' = [estado EXCEPT ![p] = "READY"]
      /\ cpu' = [cpu EXCEPT ![p] = Nulo]
      /\ timer' = [timer EXCEPT ![p] = Nulo]
      /\ EncolarEnReady(c, p, RemoveFirst(lista_exec, p), "desc_fin")
  BY DEF DesconectarCpu
<1>2. lista_exec \in Seq(Pids)
  BY DEF PlanInv, TypeOK, KsTipo
<1>3. donde \in DOMAIN lista_exec /\ cpu[p] = c
  <2>1. EnLaCpu(c) \in SUBSET Nat
    BY <1>2, LenProperties DEF EnLaCpu
  <2>2. \E i \in EnLaCpu(c) : \A j \in EnLaCpu(c) : i <= j
    BY <2>1, MinimoNat
  <2>3. donde \in EnLaCpu(c)
    BY <2>2
  <2>4. QED
    BY <2>3 DEF EnLaCpu
<1> HIDE DEF donde
<1>4. EnLista(p, lista_exec) /\ p \in Pids
  <2>1. EnLista(p, lista_exec)
    BY <1>3 DEF EnLista
  <2>2. QED
    BY <1>2, <2>1, EnListaTipo
<1> HIDE DEF p
<1>5. QED
  BY <1>1, <1>3, <1>4

\* desconectar_cpu.
LEMMA PlanDesconectar ==
  ASSUME PlanInv, NEW c \in Cpus, DesconectarCpu(c), UNCHANGED cpuVars
  PROVE  PlanInv'
<1> DEFINE donde == CHOOSE i \in EnLaCpu(c) : \A j \in EnLaCpu(c) : i <= j
           p == lista_exec[donde]
<1>1. KsTipo /\ CanalesTipo /\ CpuTipo /\ HilosInv /\ UnaSolaLista /\ ProcesosInv /\ EnvioInv
  BY DEF PlanInv, TypeOK
<1>2. CanalesTipo' /\ CpuTipo'
  BY <1>1, RecibeTipo DEF CanalesTipo, CpuTipo, cpuVars, DesconectarCpu
<1>3. /\ lista_cpus_libres' = RemoveFirst(lista_cpus_libres, c)
      /\ \/ sem_hay_cpus_libres' = sem_hay_cpus_libres
         \/ sem_hay_cpus_libres > 0 /\ sem_hay_cpus_libres' = sem_hay_cpus_libres - 1
      /\ UNCHANGED <<prioridad, proximo_pid, lista_new, sem_hay_procesos_ready,
                     sem_puede_planificar, planificador, timers, ks_caido>>
  BY DEF DesconectarCpu
<1>4. CASE EnLaCpu(c) # {}
  <2>1. /\ lista_exec' = RemoveFirst(lista_exec, p)
        /\ estado' = [estado EXCEPT ![p] = "READY"]
        /\ cpu' = [cpu EXCEPT ![p] = Nulo]
        /\ timer' = [timer EXCEPT ![p] = Nulo]
        /\ EncolarEnReady(c, p, RemoveFirst(lista_exec, p), "desc_fin")
    BY <1>4 DEF DesconectarCpu
  <2>2. donde \in DOMAIN lista_exec
    <3>1. EnLaCpu(c) \in SUBSET Nat
      BY <1>1, LenProperties DEF EnLaCpu, KsTipo
    <3>2. \E i \in EnLaCpu(c) : \A j \in EnLaCpu(c) : i <= j
      BY <1>4, <3>1, MinimoNat
    <3>3. donde \in EnLaCpu(c)
      BY <3>2
    <3>4. QED
      BY <3>3 DEF EnLaCpu
  <2> HIDE DEF donde
  <2>3. EnLista(p, lista_exec) /\ p \in Pids
    <3>1. EnLista(p, lista_exec)
      BY <2>2 DEF EnLista
    <3>2. QED
      BY <1>1, <3>1, EnListaTipo DEF KsTipo
  <2> HIDE DEF p
  <2>4. estado[p] = "EXEC"
    BY <2>3, EstadoPorLista
  <2>5. RemoveFirst(lista_exec, p) \in Seq(Pids)
    BY <1>1, VecesQuitar DEF KsTipo
  <2>6. QED
    BY <1>2, <1>3, <2>1, <2>3, <2>4, <2>5, PlanEncolar
<1>5. CASE EnLaCpu(c) = {}
  <2>1. /\ hilo_cpu' = [hilo_cpu EXCEPT ![c] = HiloEn("cerrado")]
        /\ UNCHANGED <<lista_exec, estado, cpu, timer, colas_ready, lista_ready_invalida>>
    BY <1>5 DEF DesconectarCpu
  <2>2. UnaSolaLista' /\ ProcesosInv'
    BY <1>1, <1>3, <2>1, ListasQuietas DEF procesoVars
  <2>3. hilo_cpu' \in [Cpus -> Hilo] /\ HilosInv'
    <3>1. HiloEn("cerrado") \in Hilo /\ HiloOK(HiloEn("cerrado"), estado)
          /\ HiloEn("cerrado").pc # "init_nuevo"
      BY HiloEnTipo DEF HiloEn
    <3>2. QED
      BY <2>1, <3>1, HiloSolo
  <2>4. SemTipo'
    BY <1>1, <1>3, PartesTipo DEF SemTipo
  <2>5. lista_cpus_libres' \in Seq(Cpus)
    BY <1>1, <1>3, VecesQuitar DEF KsTipo
  <2>6. KsTipo'
    BY <1>1, <1>3, <2>1, <2>3, <2>4, <2>5, PartesTipo DEF ProcesosTipo, ListasTipo
  <2>7. EnvioInv'
    BY <1>1, <1>3 DEF EnvioInv
  <2>8. QED
    BY <1>2, <2>2, <2>3, <2>6, <2>7 DEF PlanInv, TypeOK
<1>6. QED
  BY <1>4, <1>5

\* manejar_proceso_exit and manejar_seg_fault.
LEMMA PlanFinaliza ==
  ASSUME PlanInv, NEW c \in Cpus, NEW op, Finaliza(c, op), UNCHANGED cpuVars
  PROVE  PlanInv'
<1> DEFINE p == Head(de_cpu[c]).pid
<1>1. KsTipo /\ CanalesTipo /\ CpuTipo /\ HilosInv /\ UnaSolaLista /\ ProcesosInv /\ EnvioInv
  BY DEF PlanInv, TypeOK
<1>2. CanalesTipo' /\ CpuTipo'
  BY <1>1, RecibeTipo DEF CanalesTipo, CpuTipo, cpuVars, Finaliza
<1>3. UNCHANGED <<prioridad, cpu, proximo_pid, lista_new, colas_ready,
                  lista_ready_invalida, lista_cpus_libres, semVars, planificador,
                  timers, ks_caido>>
  BY DEF Finaliza
<1>4. CASE EnLista(p, lista_exec)
  <2>1. p \in Pids
    BY <1>1, <1>4, EnListaTipo DEF KsTipo
  <2>2. estado[p] = "EXEC"
    BY <1>4, <2>1, EstadoPorLista
  <2> DEFINE h == [HiloEn("exit_fin") EXCEPT !.pid = p, !.cpu = cpu[p]]
  <2>3. /\ lista_exec' = RemoveFirst(lista_exec, p)
        /\ estado' = [estado EXCEPT ![p] = "EXIT"]
        /\ timer' = [timer EXCEPT ![p] = Nulo]
        /\ hilo_cpu' = [hilo_cpu EXCEPT ![c] = h]
    BY <1>4 DEF Finaliza
  <2> HIDE DEF p
  <2>4. cpu[p] \in Cpus
    BY <1>1, <2>1, <2>2 DEF ProcesosInv
  <2>5. \A x \in Pids : estado'[x] = IF x = p THEN "EXIT" ELSE estado[x]
    BY <1>1, <2>1, <2>3 DEF KsTipo
  <2>6. h \in Hilo /\ HiloOK(h, estado') /\ h.pc = "exit_fin"
    BY <2>1, <2>4, <2>5 DEF HiloEn, Hilo, HiloOK, SinAviso
  <2> HIDE DEF h
  <2>7. hilo_cpu' \in [Cpus -> Hilo] /\ HilosInv'
    <3>1. \A d \in Cpus \ {c} : hilo_cpu[d].pc = "init_nuevo" =>
            hilo_cpu[d].pid \in Pids /\ estado[hilo_cpu[d].pid] = "NEW"
      BY <1>1 DEF HilosInv, HiloOK
    <3>2. \A d \in Cpus \ {c} : hilo_cpu[d].pc = "init_nuevo" =>
            estado'[hilo_cpu[d].pid] = "NEW"
      BY <2>2, <2>5, <3>1
    <3>3. \A x \in Pids : estado[x] = "EXIT" => estado'[x] = "EXIT"
      BY <2>5
    <3>4. QED
      BY <1>1, <2>3, <2>6, <3>2, <3>3, HilosPaso
  <2>8. /\ lista_exec' \in Seq(Pids)
        /\ \A x \in Pids : Veces(x, lista_exec') = Veces(x, lista_exec)
             - (IF x = p THEN 1 ELSE 0)
    <3>1. lista_exec \in Seq(Pids) /\ EnLista(p, lista_exec)
      BY <1>1, <1>4 DEF KsTipo, p
    <3>2. /\ RemoveFirst(lista_exec, p) \in Seq(Pids)
          /\ \A x \in Pids : Veces(x, RemoveFirst(lista_exec, p)) =
               Veces(x, lista_exec) - (IF p = x /\ EnLista(x, lista_exec) THEN 1 ELSE 0)
      BY <3>1, VecesQuitar
    <3>3. QED
      BY <2>3, <3>1, <3>2
  <2>9. \A x \in Pids : (Planificable(x)' <=> Planificable(x)) /\ ColaDe(x)' = ColaDe(x)
    BY <1>3 DEF Planificable, ColaDe
  <2>10. UnaSolaLista'
    <3>1. ASSUME NEW x \in Pids
          PROVE  /\ Veces(x, lista_new) = IF estado'[x] = "NEW" THEN 1 ELSE 0
                 /\ Veces(x, lista_exec') = IF estado'[x] = "EXEC" THEN 1 ELSE 0
                 /\ Veces(x, lista_ready_invalida) =
                      IF estado'[x] = "READY" /\ ~ Planificable(x) THEN 1 ELSE 0
                 /\ \A r \in Colas : Veces(x, colas_ready[r]) =
                      IF estado'[x] = "READY" /\ Planificable(x) /\ r = ColaDe(x)
                      THEN 1 ELSE 0
      <4>1. /\ Veces(x, lista_new) = IF estado[x] = "NEW" THEN 1 ELSE 0
            /\ Veces(x, lista_exec) = IF estado[x] = "EXEC" THEN 1 ELSE 0
            /\ Veces(x, lista_ready_invalida) =
                 IF estado[x] = "READY" /\ ~ Planificable(x) THEN 1 ELSE 0
            /\ \A r \in Colas : Veces(x, colas_ready[r]) =
                 IF estado[x] = "READY" /\ Planificable(x) /\ r = ColaDe(x) THEN 1 ELSE 0
        BY <1>1 DEF UnaSolaLista
      <4>2. CASE x = p
        BY <2>2, <2>5, <2>8, <4>1, <4>2
      <4>3. CASE x # p
        BY <2>5, <2>8, <4>1, <4>3
      <4>4. QED
        BY <4>2, <4>3
    <3>2. QED
      BY <1>3, <2>9, <3>1 DEF UnaSolaLista
  <2>11. ProcesosInv'
    BY <1>1, <1>3, <2>1, <2>2, <2>3, <2>5, <2>9 DEF ProcesosInv, KsTipo
  <2>12. ProcesosTipo' /\ ListasTipo' /\ SemTipo'
    BY <1>1, <1>3, <2>1, <2>3, <2>8, PartesTipo
       DEF ProcesosTipo, ListasTipo, SemTipo, semVars, EstadosProceso
  <2>13. KsTipo'
    BY <1>1, <1>3, <2>7, <2>12, PartesTipo
  <2>14. EnvioInv'
    BY <1>1, <1>3 DEF EnvioInv
  <2>15. QED
    BY <1>2, <2>7, <2>10, <2>11, <2>13, <2>14 DEF PlanInv, TypeOK
<1>5. CASE ~ EnLista(p, lista_exec)
  <2>1. UNCHANGED <<lista_exec, estado, timer, hilo_cpu>>
    BY <1>5 DEF Finaliza
  <2>2. UnaSolaLista' /\ ProcesosInv'
    BY <1>1, <1>3, <2>1, ListasQuietas DEF procesoVars
  <2>3. KsTipo'
    BY <1>1, <1>3, <2>1, PartesTipo DEF ProcesosTipo, ListasTipo, SemTipo, semVars
  <2>4. HilosInv' /\ EnvioInv'
    BY <1>1, <1>3, <2>1 DEF HilosInv, EnvioInv
  <2>5. QED
    BY <1>2, <2>2, <2>3, <2>4 DEF PlanInv, TypeOK
<1>6. QED
  BY <1>4, <1>5

\* manejar_init_proc: the number that is given is of no process.
LEMMA PlanInitProc ==
  ASSUME PlanInv, NEW c \in Cpus, ManejarInitProc(c), UNCHANGED cpuVars
  PROVE  PlanInv'
<1> DEFINE p == proximo_pid
           h == [HiloEn("init_nuevo") EXCEPT !.pid = proximo_pid]
<1>1. KsTipo /\ CanalesTipo /\ CpuTipo /\ HilosInv /\ UnaSolaLista /\ ProcesosInv /\ EnvioInv
  BY DEF PlanInv, TypeOK
<1>2. /\ Recibe(c, "INIT_PROC") /\ p \in Pids
      /\ estado' = [estado EXCEPT ![p] = "NEW"]
      /\ prioridad' = [prioridad EXCEPT ![p] = Head(de_cpu[c]).prioridad]
      /\ lista_new' = Append(lista_new, p)
      /\ proximo_pid' = p + 1
      /\ hilo_cpu' = [hilo_cpu EXCEPT ![c] = h]
      /\ UNCHANGED <<a_cpu, cpu, timer, colas_ready, lista_ready_invalida, lista_exec,
                     lista_cpus_libres, semVars, planificador, timers, ks_caido>>
  BY DEF ManejarInitProc
<1>3. CanalesTipo' /\ CpuTipo' /\ Head(de_cpu[c]).prioridad \in Prioridades \cup {0}
  BY <1>1, <1>2, RecibeTipo DEF CanalesTipo, CpuTipo, cpuVars
<1>4. p \in Nat /\ estado[p] = "SIN_CREAR" /\ timer[p] = Nulo
  BY <1>1, <1>2 DEF KsTipo, ProcesosInv
<1>5. /\ Append(lista_new, p) \in Seq(Pids)
      /\ \A x \in Pids : Veces(x, Append(lista_new, p)) =
           Veces(x, lista_new) + (IF p = x THEN 1 ELSE 0)
  <2>1. lista_new \in Seq(Pids)
    BY <1>1 DEF KsTipo
  <2>2. QED
    BY <1>2, <2>1, VecesAgregar
<1>6. \A x \in Pids : /\ estado'[x] = IF x = p THEN "NEW" ELSE estado[x]
                      /\ x # p => prioridad'[x] = prioridad[x]
  BY <1>1, <1>2 DEF KsTipo
<1>7. h \in Hilo /\ HiloOK(h, estado') /\ h.pc = "init_nuevo" /\ h.pid = p
  BY <1>2, <1>6 DEF HiloEn, Hilo, HiloOK, SinAviso
<1> HIDE DEF p, h
<1>8. hilo_cpu' \in [Cpus -> Hilo] /\ HilosInv'
  <2>1. \A d \in Cpus \ {c} : hilo_cpu[d].pc = "init_nuevo" =>
          hilo_cpu[d].pid \in Pids /\ estado[hilo_cpu[d].pid] = "NEW"
    BY <1>1 DEF HilosInv, HiloOK
  <2>2. \A d \in Cpus \ {c} : hilo_cpu[d].pc = "init_nuevo" =>
          estado'[hilo_cpu[d].pid] = "NEW" /\ h.pid # hilo_cpu[d].pid
    BY <1>4, <1>6, <1>7, <2>1
  <2>3. \A x \in Pids : estado[x] = "EXIT" => estado'[x] = "EXIT"
    BY <1>4, <1>6
  <2>4. QED
    BY <1>1, <1>2, <1>7, <2>2, <2>3, HilosPaso, ZenonT(60)
<1>9. \A x \in Pids \ {p} :
        (Planificable(x)' <=> Planificable(x)) /\ ColaDe(x)' = ColaDe(x)
  BY <1>6 DEF Planificable, ColaDe
<1>10. UnaSolaLista'
  <2>1. ASSUME NEW x \in Pids
        PROVE  /\ Veces(x, lista_new') = IF estado'[x] = "NEW" THEN 1 ELSE 0
               /\ Veces(x, lista_exec) = IF estado'[x] = "EXEC" THEN 1 ELSE 0
               /\ Veces(x, lista_ready_invalida) =
                    IF estado'[x] = "READY" /\ ~ Planificable(x)' THEN 1 ELSE 0
               /\ \A r \in Colas : Veces(x, colas_ready[r]) =
                    IF estado'[x] = "READY" /\ Planificable(x)' /\ r = ColaDe(x)'
                    THEN 1 ELSE 0
    <3>1. /\ Veces(x, lista_new) = IF estado[x] = "NEW" THEN 1 ELSE 0
          /\ Veces(x, lista_exec) = IF estado[x] = "EXEC" THEN 1 ELSE 0
          /\ Veces(x, lista_ready_invalida) =
               IF estado[x] = "READY" /\ ~ Planificable(x) THEN 1 ELSE 0
          /\ \A r \in Colas : Veces(x, colas_ready[r]) =
               IF estado[x] = "READY" /\ Planificable(x) /\ r = ColaDe(x) THEN 1 ELSE 0
      BY <1>1 DEF UnaSolaLista
    <3>2. CASE x = p
      BY <1>2, <1>4, <1>5, <1>6, <3>1, <3>2
    <3>3. CASE x # p
      BY <1>2, <1>5, <1>6, <1>9, <3>1, <3>3
    <3>4. QED
      BY <3>2, <3>3
  <2>2. QED
    BY <1>2, <2>1 DEF UnaSolaLista
<1>11. ProcesosInv'
  <2>1. ASSUME NEW x \in Pids
        PROVE  /\ x >= proximo_pid' => estado'[x] = "SIN_CREAR"
               /\ estado'[x] = "EXEC" => cpu'[x] \in Cpus
               /\ timer'[x] # Nulo => estado'[x] \in {"EXEC", "READY"} /\ Planificable(x)'
    <3>1. CASE x = p
      BY <1>2, <1>4, <1>6, <3>1
    <3>2. CASE x # p
      <4>1. x >= proximo_pid' => x >= proximo_pid
        BY <1>2, <1>4, PlanificacionOK DEF p
      <4>2. QED
        BY <1>1, <1>2, <1>6, <1>9, <3>2, <4>1 DEF ProcesosInv
    <3>3. QED
      BY <3>1, <3>2
  <2>2. QED
    BY <2>1 DEF ProcesosInv
<1>12. ProcesosTipo' /\ ListasTipo' /\ SemTipo'
  BY <1>1, <1>2, <1>3, <1>4, <1>5, PartesTipo
     DEF ProcesosTipo, ListasTipo, SemTipo, semVars, EstadosProceso
<1>13. KsTipo'
  BY <1>1, <1>2, <1>8, <1>12, PartesTipo
<1>14. EnvioInv'
  BY <1>1, <1>2 DEF EnvioInv
<1>15. QED
  BY <1>3, <1>8, <1>10, <1>11, <1>13, <1>14 DEF PlanInv, TypeOK

\* What a CPU leaves of its variables and its connection.
LEMMA CpuTipos ==
  ASSUME CanalesTipo, CpuTipo, NEW c \in Cpus, CpuPaso(c) \/ CpuSeApaga(c)
  PROVE  CanalesTipo' /\ CpuTipo'
<1>1. /\ a_cpu \in [Cpus -> Seq(MensajeKs)] /\ de_cpu \in [Cpus -> Seq(MensajeCpu)]
      /\ cpu_estado \in [Cpus -> EstadosCpu] /\ cpu_pid \in [Cpus -> Pids \cup {Nadie}]
      /\ interrupcion_pendiente_pid \in [Cpus -> Pids \cup {Nadie}]
      /\ ciclos \in [Pids -> 0 .. Ciclos]
  BY DEF CanalesTipo, CpuTipo
<1>2. a_cpu[c] # <<>> => /\ Primero(c) \in MensajeKs /\ Tail(a_cpu[c]) \in Seq(MensajeKs)
                         /\ Primero(c).pid \in Pids \cup {Nadie}
  <2>1. a_cpu[c] # <<>> => Primero(c) \in MensajeKs /\ Tail(a_cpu[c]) \in Seq(MensajeKs)
    BY <1>1, HeadTailProperties DEF Primero
  <2>2. QED
    BY <2>1 DEF MensajeKs
<1>3. \A op \in OpsCpu : \A prio \in Prioridades \cup {0} :
        AlKs(c, op, cpu_pid[c], prio) \in [Cpus -> Seq(MensajeCpu)]
  BY <1>1, AlKsTipo
<1>4. AlKs(c, "FIN_CONEXION", Nadie, 0) \in [Cpus -> Seq(MensajeCpu)]
  BY AlKsTipo DEF OpsCpu
<1>5. ASSUME NEW op \in OpsCpu, AvisarFinAScheduler(c, op)
      PROVE  /\ de_cpu' \in [Cpus -> Seq(MensajeCpu)]
             /\ cpu_estado' \in [Cpus -> EstadosCpu]
             /\ cpu_pid' \in [Cpus -> Pids \cup {Nadie}]
  <2>1. 0 \in Prioridades \cup {0}
    OBVIOUS
  <2>2. de_cpu' \in [Cpus -> Seq(MensajeCpu)]
    BY <1>3, <1>5, <2>1 DEF AvisarFinAScheduler
  <2>3. QED
    BY <1>1, <1>5, <2>2 DEF AvisarFinAScheduler, EstadosCpu
<1>6. ASSUME NEW canal \in Seq(MensajeKs), CheckInterrupt(c, canal)
      PROVE  /\ CanalesTipo' /\ cpu_estado' \in [Cpus -> EstadosCpu]
             /\ cpu_pid' \in [Cpus -> Pids \cup {Nadie}]
             /\ interrupcion_pendiente_pid' \in [Cpus -> Pids \cup {Nadie}]
  <2>1. canal # <<>> => Tail(canal) \in Seq(MensajeKs)
    BY HeadTailProperties
  <2>2. a_cpu' \in [Cpus -> Seq(MensajeKs)]
    BY <1>1, <1>6, <2>1 DEF CheckInterrupt
  <2>3. interrupcion_pendiente_pid' \in [Cpus -> Pids \cup {Nadie}]
    BY <1>1, <1>6 DEF CheckInterrupt
  <2>4. CASE PideInterrupcion(c, canal)
    <3>1. AvisarFinAScheduler(c, "PROCESO_FIN_QUANTUM")
      BY <1>6, <2>4 DEF CheckInterrupt
    <3>2. QED
      BY <1>5, <2>2, <2>3, <3>1 DEF CanalesTipo, OpsCpu
  <2>5. CASE ~ PideInterrupcion(c, canal)
    BY <1>1, <1>6, <2>2, <2>3, <2>5 DEF CheckInterrupt, CanalesTipo, EstadosCpu
  <2>6. QED
    BY <2>4, <2>5
<1>7. OtroCiclo(c) => ciclos' \in [Pids -> 0 .. Ciclos]
  <2>1. CASE cpu_pid[c] \in Pids
    <3>1. ciclos[cpu_pid[c]] \in 0 .. Ciclos
      BY <1>1, <2>1
    <3>2. ciclos[cpu_pid[c]] < Ciclos => ciclos[cpu_pid[c]] + 1 \in 0 .. Ciclos
      BY <3>1, CiclosOK
    <3>3. QED
      BY <1>1, <3>2 DEF OtroCiclo
  <2>2. CASE cpu_pid[c] \notin Pids
    BY <1>1, <2>2 DEF OtroCiclo
  <2>3. QED
    BY <2>1, <2>2
<1>8. CASE CpuRecibeProceso(c) \/ CpuDescarta(c) \/ RespuestaInterrumpida(c)
  BY <1>1, <1>2, <1>8
     DEF CpuRecibeProceso, CpuDescarta, RespuestaInterrumpida, EsperaRespuesta,
         cpuVars, CanalesTipo, CpuTipo, EstadosCpu
<1>9. CASE EjecutarComun(c)
  BY <1>1, <1>6, <1>7, <1>9 DEF EjecutarComun, CpuTipo
<1>10. ASSUME NEW prio \in Prioridades, EjecutarSyscallInitProc(c, prio)
       PROVE  CanalesTipo' /\ CpuTipo'
  <2>1. de_cpu' \in [Cpus -> Seq(MensajeCpu)]
    BY <1>3, <1>10 DEF EjecutarSyscallInitProc, OpsCpu
  <2>2. QED
    BY <1>1, <1>7, <1>10, <2>1
       DEF EjecutarSyscallInitProc, CanalesTipo, CpuTipo, EstadosCpu
<1>11. CASE EjecutarExit(c) \/ EjecutarSegFault(c)
  BY <1>1, <1>5, <1>11 DEF EjecutarExit, EjecutarSegFault, CanalesTipo, CpuTipo, OpsCpu
<1>12. CASE RespuestaOk(c)
  BY <1>1, <1>2, <1>6, <1>12 DEF RespuestaOk, EsperaRespuesta, CpuTipo
<1>13. CASE RespuestaError(c)
  <2>1. a_cpu' \in [Cpus -> Seq(MensajeKs)]
    BY <1>1, <1>2, <1>13 DEF RespuestaError, EsperaRespuesta
  <2>2. QED
    BY <1>1, <1>5, <1>13, <2>1 DEF RespuestaError, CanalesTipo, CpuTipo, OpsCpu
<1>14. CASE CpuSeApaga(c)
  BY <1>1, <1>4, <1>14 DEF CpuSeApaga, CanalesTipo, CpuTipo, EstadosCpu
<1>15. QED
  BY <1>8, <1>9, <1>10, <1>11, <1>12, <1>13, <1>14 DEF CpuPaso

\* A CPU does its part.
LEMMA PlanCpu ==
  ASSUME PlanInv, NEW c \in Cpus, PasoCpu(c) \/ Apagar(c)
  PROVE  PlanInv'
<1>1. UNCHANGED ksVars /\ (CpuPaso(c) \/ CpuSeApaga(c))
  BY DEF PasoCpu, Apagar
<1>2. CanalesTipo' /\ CpuTipo'
  BY <1>1, CpuTipos DEF PlanInv, TypeOK
<1>3. UnaSolaLista' /\ ProcesosInv'
  BY <1>1, ListasQuietas DEF PlanInv, ksVars, listaVars
<1>4. KsTipo'
  BY <1>1, PartesTipo
     DEF PlanInv, TypeOK, ProcesosTipo, ListasTipo, SemTipo, ksVars, procesoVars,
         listaVars, semVars, hiloVars
<1>5. HilosInv' /\ EnvioInv'
  BY <1>1 DEF PlanInv, HilosInv, EnvioInv, ksVars, procesoVars, hiloVars
<1>6. QED
  BY <1>2, <1>3, <1>4, <1>5 DEF PlanInv, TypeOK

\* Nothing happens.
LEMMA PlanQuieto ==
  ASSUME PlanInv, UNCHANGED vars
  PROVE  PlanInv'
<1>1. UNCHANGED ksVars /\ UNCHANGED canales /\ UNCHANGED cpuVars
  BY DEF vars
<1>2. CanalesTipo' /\ CpuTipo'
  BY <1>1 DEF PlanInv, TypeOK, CanalesTipo, CpuTipo, canales, cpuVars
<1>3. UnaSolaLista' /\ ProcesosInv'
  BY <1>1, ListasQuietas DEF PlanInv, ksVars, listaVars
<1>4. KsTipo'
  BY <1>1, PartesTipo
     DEF PlanInv, TypeOK, ProcesosTipo, ListasTipo, SemTipo, ksVars, procesoVars,
         listaVars, semVars, hiloVars
<1>5. HilosInv' /\ EnvioInv'
  BY <1>1 DEF PlanInv, HilosInv, EnvioInv, ksVars, procesoVars, hiloVars
<1>6. QED
  BY <1>2, <1>3, <1>4, <1>5 DEF PlanInv, TypeOK

\* Every step.
LEMMA PlanPaso ==
  ASSUME PlanInv, [Next]_vars
  PROVE  PlanInv'
<1>1. CASE PasoPlanificador
  <2>1. UNCHANGED cpuVars /\ Planificador
    BY <1>1 DEF PasoPlanificador, Ks
  <2>2. QED
    BY <2>1, PlanEspera, PlanEnviar, PlanElegir DEF Planificador
<1>2. ASSUME NEW t \in Timers, PasoHiloQuantum(t)
      PROVE  PlanInv'
  BY <1>2, PlanQuantum DEF PasoHiloQuantum, Ks
<1>3. ASSUME NEW c \in Cpus, PasoHiloCpu(c)
      PROVE  PlanInv'
  <2>1. UNCHANGED cpuVars /\ HiloCpu(c)
    BY <1>3 DEF PasoHiloCpu, Ks
  <2>2. QED
    BY <2>1, PlanHilo, PlanFinQuantum, PlanMover, PlanDesconectar, PlanFinaliza,
       PlanInitProc
       DEF HiloCpu, ManejarProcesoExit, ManejarSegFault
<1>4. ASSUME NEW c \in Cpus, Conectar(c) \/ PasoCpu(c) \/ Apagar(c)
      PROVE  PlanInv'
  BY <1>4, PlanConectar, PlanCpu
<1>5. CASE UNCHANGED vars
  BY <1>5, PlanQuieto
<1>6. QED
  BY <1>1, <1>2, <1>3, <1>4, <1>5 DEF Next

\* The invariant holds when the scheduler starts.
LEMMA PlanInicial ==
  ASSUME Init
  PROVE  PlanInv
<1> USE PlanificacionOK
<1>1. CanalesTipo /\ CpuTipo
  BY CiclosOK DEF Init, CanalesInit, CpuInit, CanalesTipo, CpuTipo, EstadosCpu
<1>2. /\ estado = [p \in Pids |-> IF p = 0 THEN "READY" ELSE "SIN_CREAR"]
      /\ prioridad = [p \in Pids |-> 0]
      /\ cpu = [p \in Pids |-> Nulo] /\ timer = [p \in Pids |-> Nulo]
      /\ proximo_pid = 1
      /\ lista_new = <<>> /\ lista_exec = <<>> /\ lista_cpus_libres = <<>>
      /\ colas_ready = [q \in Colas |-> IF q = 0 THEN <<0>> ELSE <<>>]
      /\ lista_ready_invalida = IF 0 \in Colas THEN <<>> ELSE <<0>>
      /\ sem_hay_procesos_ready \in Nat /\ sem_hay_cpus_libres = 0
      /\ sem_puede_planificar = 1
      /\ planificador = [pc |-> "ready", pid |-> Nadie, cpu |-> Nulo, timer |-> Nulo]
      /\ hilo_cpu = [c \in Cpus |-> HiloEn("no")]
      /\ timers = [t \in Timers |-> SinTimer]
      /\ ks_caido = FALSE
  BY DEF Init, KsInit
<1>3. <<0>> \in Seq(Pids) /\ <<>> \in Seq(Pids) /\ <<>> \in Seq(Cpus)
  OBVIOUS
<1>4. HiloEn("no") \in Hilo /\ SinTimer \in Quantums
  BY DEF HiloEn, Hilo, SinAviso, SinTimer, Quantums
<1>5. ProcesosTipo
  BY <1>2 DEF ProcesosTipo, EstadosProceso
<1>6. ListasTipo /\ SemTipo
  BY <1>2, <1>3 DEF ListasTipo, SemTipo
<1>7. KsTipo
  BY <1>2, <1>3, <1>4, <1>5, <1>6, PartesTipo DEF Planes
<1>8. 0 \in Colas <=> Planificable(0)
  <2>1. prioridad[0] = 0
    BY <1>2
  <2>2. ~ Cmn => 0 \in Colas
    BY DEF Colas, CantidadColas
  <2>3. QED
    BY <2>1, <2>2 DEF Planificable
<1>9. Planificable(0) => ColaDe(0) = 0
  BY <1>2 DEF ColaDe
<1>10. UnaSolaLista
  <2>1. \A x : Veces(x, <<>>) = 0 /\ Veces(x, <<0>>) = IF 0 = x THEN 1 ELSE 0
    BY VecesDePocos
  <2>2. ASSUME NEW x \in Pids
        PROVE  /\ Veces(x, lista_new) = IF estado[x] = "NEW" THEN 1 ELSE 0
               /\ Veces(x, lista_exec) = IF estado[x] = "EXEC" THEN 1 ELSE 0
               /\ Veces(x, lista_ready_invalida) =
                    IF estado[x] = "READY" /\ ~ Planificable(x) THEN 1 ELSE 0
               /\ \A q \in Colas : Veces(x, colas_ready[q]) =
                    IF estado[x] = "READY" /\ Planificable(x) /\ q = ColaDe(x)
                    THEN 1 ELSE 0
    <3>1. CASE x = 0
      BY <1>2, <1>8, <1>9, <2>1, <3>1
    <3>2. CASE x # 0
      BY <1>2, <2>1, <3>2
    <3>3. QED
      BY <3>1, <3>2
  <2>3. QED
    BY <2>2 DEF UnaSolaLista
<1>11. ProcesosInv
  <2>1. \A x \in Pids : /\ x \in Nat /\ timer[x] = Nulo
                        /\ estado[x] = IF x = 0 THEN "READY" ELSE "SIN_CREAR"
    BY <1>2
  <2>2. proximo_pid = 1
    BY <1>2
  <2>3. \A x \in Pids : x >= proximo_pid => x # 0
    BY <2>1, <2>2
  <2>4. QED
    BY <2>1, <2>3 DEF ProcesosInv
<1>12. HilosInv /\ EnvioInv
  <2>1. \A c \in Cpus : hilo_cpu[c] = HiloEn("no")
    BY <1>2
  <2>2. /\ HiloEn("no").pc = "no" /\ HiloEn("no").luego = "nada"
        /\ HiloEn("no").planificable = FALSE
    BY DEF HiloEn
  <2>3. HiloOK(HiloEn("no"), estado)
    BY <2>2 DEF HiloOK
  <2>4. HilosInv
    BY <2>1, <2>2, <2>3 DEF HilosInv
  <2>5. planificador.pc = "ready"
    BY <1>2
  <2>6. QED
    BY <2>4, <2>5 DEF EnvioInv
<1>13. QED
  BY <1>1, <1>7, <1>10, <1>11, <1>12 DEF PlanInv, TypeOK

\* The invariant of the lists and the threads holds always.
LEMMA PlanSiempre == Spec => []PlanInv
<1>1. PlanInv /\ [Next]_vars => PlanInv'
  BY PlanPaso
<1>2. Init => PlanInv
  BY PlanInicial
<1>3. QED
  BY <1>1, <1>2, PTL DEF Spec

\* Every variable of the scheduler, its threads and the CPUs has the values it
\* is meant to have (TypeOK): the CPU a thread gives back is one.
THEOREM TiposPlanificacion == Spec => []TypeOK
<1>1. PlanInv => TypeOK
  BY DEF PlanInv
<1>2. QED
  BY <1>1, PlanSiempre, PTL

\* A process is in the list of its state, once, and in no other one, whatever
\* the planner, the quantums and the threads of the CPUs do and whichever CPUs
\* leave (encolar_en_ready, mover_proceso_a_ready, desconectar_cpu).
THEOREM CadaUnoEnSuLista == Spec => []UnaSolaLista
<1>1. PlanInv => UnaSolaLista
  BY DEF PlanInv
<1>2. QED
  BY <1>1, PlanSiempre, PTL

-----------------------------------------------------------------------------
(* Every CPU in one pair of hands.                                          *)

\* h is about to free c.
Libera(h, c) ==
  /\ h.cpu = c
  /\ h.pc \in {"fq_fin", "exit_fin"} \/ h.luego = "fq_fin"

EnEjecucion(c) == {p \in Pids : estado[p] = "EXEC" /\ cpu[p] = c}

Liberadores(c) == {d \in Cpus : Libera(hilo_cpu[d], c)}

\* In how many hands c is: the list of free ones, a process, a thread.
Manos(c) ==
  Veces(c, lista_cpus_libres) + Cardinality(EnEjecucion(c)) + Cardinality(Liberadores(c))

\* The thread has not found its CPU gone.
Conectada(h) == h.pc \notin {"no", "cerrado"} /\ h.luego # "desc_fin"

\* A CPU that left may come back to the list of free ones, once: the thread of
\* another CPU may have it in hand.
CpusInv ==
  \A c \in Cpus :
    /\ Manos(c) <= 1
    /\ hilo_cpu[c].pc = "no" => Manos(c) = 0
    /\ Conectada(hilo_cpu[c]) => Manos(c) = 1

\* The processes that were created are finitely many.
LEMMA CreadosFinitos ==
  ASSUME PlanInv, NEW T, T \subseteq {p \in Pids : estado[p] # "SIN_CREAR"}
  PROVE  IsFiniteSet(T)
<1>1. proximo_pid \in Nat /\ ProcesosInv
  BY DEF PlanInv, TypeOK, KsTipo
<1>2. ASSUME NEW p \in T PROVE p \in Nat /\ p <= proximo_pid
  <2>1. p \in Pids /\ estado[p] # "SIN_CREAR"
    OBVIOUS
  <2>2. p \in Nat
    BY <2>1, PlanificacionOK
  <2>3. ~ (p >= proximo_pid)
    BY <1>1, <2>1 DEF ProcesosInv
  <2>4. QED
    BY <1>1, <2>2, <2>3
<1>3. T \in SUBSET Nat /\ \A p \in T : p <= proximo_pid
  BY <1>2
<1>4. QED
  BY <1>1, <1>3, FS_BoundedSetOfNaturals

\* The hands can be counted.
LEMMA ManosNumeros ==
  ASSUME PlanInv, NEW c
  PROVE  /\ Veces(c, lista_cpus_libres) \in Nat
         /\ IsFiniteSet(EnEjecucion(c)) /\ Cardinality(EnEjecucion(c)) \in Nat
         /\ IsFiniteSet(Liberadores(c)) /\ Cardinality(Liberadores(c)) \in Nat
<1>1. Veces(c, lista_cpus_libres) \in Nat
  <2>1. lista_cpus_libres \in Seq(Cpus)
    BY DEF PlanInv, TypeOK, KsTipo
  <2>2. QED
    BY <2>1, VecesNumero
<1>2. IsFiniteSet(EnEjecucion(c))
  BY CreadosFinitos DEF EnEjecucion
<1>3. IsFiniteSet(Liberadores(c))
  BY FS_Subset, PlanificacionOK DEF Liberadores
<1>4. QED
  BY <1>1, <1>2, <1>3, FS_CardinalityType

\* A step that passes no CPU from hand to hand.
LEMMA CpusQuietas ==
  ASSUME CpusInv, lista_cpus_libres' = lista_cpus_libres,
         \A c \in Cpus :
           /\ EnEjecucion(c)' = EnEjecucion(c)
           /\ \A d \in Cpus : Libera(hilo_cpu'[d], c) <=> Libera(hilo_cpu[d], c)
           /\ hilo_cpu'[c].pc = "no" => hilo_cpu[c].pc = "no"
           /\ Conectada(hilo_cpu'[c]) => Conectada(hilo_cpu[c])
  PROVE  CpusInv'
<1>1. \A c \in Cpus : Liberadores(c)' = Liberadores(c)
  BY DEF Liberadores
<1>2. \A c \in Cpus : Manos(c)' = Manos(c)
  BY <1>1 DEF Manos
<1>3. QED
  BY <1>2 DEF CpusInv

\* A step of the thread of c that only says where it goes on.
LEMMA CpusHiloSolo ==
  ASSUME PlanInv, CpusInv, NEW c \in Cpus, NEW h,
         hilo_cpu' = [hilo_cpu EXCEPT ![c] = h],
         lista_cpus_libres' = lista_cpus_libres,
         \A k \in Cpus : EnEjecucion(k)' = EnEjecucion(k),
         \A k \in Cpus : Libera(h, k) <=> Libera(hilo_cpu[c], k),
         h.pc # "no", Conectada(h) => Conectada(hilo_cpu[c])
  PROVE  CpusInv'
<1>1. \A d \in Cpus : hilo_cpu'[d] = IF d = c THEN h ELSE hilo_cpu[d]
  BY DEF PlanInv, TypeOK, KsTipo
<1>2. QED
  BY <1>1, CpusQuietas

\* A CPU connects: it is free.
LEMMA CpusConectar ==
  ASSUME PlanInv, CpusInv, NEW c \in Cpus, Conectar(c)
  PROVE  CpusInv'
<1>1. /\ hilo_cpu[c].pc = "no"
      /\ lista_cpus_libres' = Append(lista_cpus_libres, c)
      /\ hilo_cpu' = [hilo_cpu EXCEPT ![c] = HiloEn("postear")]
      /\ UNCHANGED <<estado, cpu>>
  BY DEF Conectar, AtenderCpu, procesoVars
<1>2. HiloOK(hilo_cpu[c], estado) /\ hilo_cpu \in [Cpus -> Hilo]
      /\ lista_cpus_libres \in Seq(Cpus)
  BY PartesTipo DEF PlanInv, TypeOK, HilosInv
<1>3. \A d \in Cpus : hilo_cpu'[d] = IF d = c THEN HiloEn("postear") ELSE hilo_cpu[d]
  BY <1>1, <1>2
<1>4. /\ HiloEn("postear").pc = "postear" /\ HiloEn("postear").luego = "nada"
      /\ HiloEn("postear").cpu = Nulo
  BY DEF HiloEn
<1>5. ASSUME NEW k \in Cpus
      PROVE  /\ Manos(k)' = Manos(k) + (IF k = c THEN 1 ELSE 0)
             /\ Manos(k) \in Nat
  <2>1. EnEjecucion(k)' = EnEjecucion(k)
    BY <1>1 DEF EnEjecucion
  <2>2. Liberadores(k)' = Liberadores(k)
    BY <1>1, <1>2, <1>3, <1>4, PlanificacionOK DEF Liberadores, Libera, HiloOK
  <2>3. Veces(k, lista_cpus_libres') =
          Veces(k, lista_cpus_libres) + (IF c = k THEN 1 ELSE 0)
    BY <1>1, <1>2, VecesAgregar
  <2>4. QED
    BY <2>1, <2>2, <2>3, ManosNumeros DEF Manos
<1>6. QED
  BY <1>1, <1>3, <1>4, <1>5 DEF CpusInv, Conectada

\* The planner gives a free CPU to a process.
LEMMA CpusElegir ==
  ASSUME PlanInv, CpusInv, PlanificadorElegir
  PROVE  CpusInv'
<1>1. hilo_cpu' = hilo_cpu
  BY DEF PlanificadorElegir
<1>2. CASE ConProcesos = {} \/ lista_cpus_libres = <<>>
  <2>1. UNCHANGED <<procesoVars, listaVars>>
    BY <1>2 DEF PlanificadorElegir
  <2>2. \A k \in Cpus : EnEjecucion(k)' = EnEjecucion(k)
    BY <2>1 DEF EnEjecucion, procesoVars
  <2>3. QED
    BY <1>1, <2>1, <2>2, CpusQuietas DEF listaVars
<1>3. CASE ConProcesos # {} /\ lista_cpus_libres # <<>>
  <2> DEFINE p == Head(colas_ready[PrimeraCola])
             c == Head(lista_cpus_libres)
  <2>1. /\ lista_cpus_libres' = Tail(lista_cpus_libres)
        /\ estado' = [estado EXCEPT ![p] = "EXEC"]
        /\ cpu' = [cpu EXCEPT ![p] = c]
    BY <1>3 DEF PlanificadorElegir
  <2>2. p \in Pids /\ estado[p] = "READY"
    BY <1>3, ElegirEfecto
  <2>3. lista_cpus_libres \in Seq(Cpus) /\ estado \in [Pids -> EstadosProceso]
        /\ cpu \in [Pids -> Cpus \cup {Nulo}]
    BY DEF PlanInv, TypeOK, KsTipo
  <2>4. \A k \in Cpus : Veces(k, Tail(lista_cpus_libres)) =
          Veces(k, lista_cpus_libres) - (IF c = k THEN 1 ELSE 0)
    BY <1>3, <2>3, VecesTail
  <2> HIDE DEF p, c
  <2>5. ASSUME NEW k \in Cpus
        PROVE  Manos(k)' = Manos(k)
    <3>1. EnEjecucion(k)' = IF k = c THEN EnEjecucion(k) \cup {p} ELSE EnEjecucion(k)
      BY <2>1, <2>2, <2>3 DEF EnEjecucion
    <3>2. p \notin EnEjecucion(k)
      BY <2>2 DEF EnEjecucion
    <3>3. Cardinality(EnEjecucion(k) \cup {p}) = Cardinality(EnEjecucion(k)) + 1
      BY <3>2, ManosNumeros, FS_AddElement
    <3>4. Cardinality(EnEjecucion(k)') =
            Cardinality(EnEjecucion(k)) + (IF k = c THEN 1 ELSE 0)
      BY <3>1, <3>3, ManosNumeros
    <3>5. Liberadores(k)' = Liberadores(k)
      BY <1>1 DEF Liberadores
    <3>6. QED
      BY <2>1, <2>4, <3>4, <3>5, ManosNumeros DEF Manos
  <2>6. QED
    BY <1>1, <2>5 DEF CpusInv
<1>4. QED
  BY <1>2, <1>3

\* A process leaves its CPU and the thread of c has it in hand.
LEMMA CpusDejar ==
  ASSUME PlanInv, CpusInv, NEW c \in Cpus, NEW p \in Pids, NEW h,
         hilo_cpu[c].pc = "recibir", estado[p] = "EXEC",
         hilo_cpu' = [hilo_cpu EXCEPT ![c] = h],
         h.cpu = cpu[p], h.pc # "no",
         \/ h.pc = "exit_fin" /\ h.luego = "nada"
         \/ h.luego = "fq_fin",
         lista_cpus_libres' = lista_cpus_libres,
         \A k \in Cpus : EnEjecucion(k)' = EnEjecucion(k) \ {p}
  PROVE  CpusInv'
<1>1. HiloOK(hilo_cpu[c], estado) /\ hilo_cpu \in [Cpus -> Hilo] /\ cpu[p] \in Cpus
  BY PartesTipo DEF PlanInv, TypeOK, HilosInv, ProcesosInv
<1>2. \A d \in Cpus : hilo_cpu'[d] = IF d = c THEN h ELSE hilo_cpu[d]
  BY <1>1
<1>3. \A k \in Cpus : ~ Libera(hilo_cpu[c], k) /\ (Libera(h, k) <=> k = cpu[p])
  BY <1>1 DEF Libera, HiloOK
<1>4. ASSUME NEW k \in Cpus
      PROVE  Manos(k)' = Manos(k)
  <2>1. Liberadores(k)' = IF k = cpu[p] THEN Liberadores(k) \cup {c} ELSE Liberadores(k)
    BY <1>2, <1>3 DEF Liberadores
  <2>2. c \notin Liberadores(k)
    BY <1>3 DEF Liberadores
  <2>3. p \in EnEjecucion(k) <=> k = cpu[p]
    BY DEF EnEjecucion
  <2>4. Cardinality(Liberadores(k) \cup {c}) = Cardinality(Liberadores(k)) + 1
    BY <2>2, ManosNumeros, FS_AddElement
  <2>5. Cardinality(EnEjecucion(k) \ {p}) =
          IF p \in EnEjecucion(k) THEN Cardinality(EnEjecucion(k)) - 1
          ELSE Cardinality(EnEjecucion(k))
    BY ManosNumeros, FS_RemoveElement
  <2>6. Cardinality(Liberadores(k)') =
          Cardinality(Liberadores(k)) + (IF k = cpu[p] THEN 1 ELSE 0)
    BY <2>1, <2>4, ManosNumeros
  <2>7. Cardinality(EnEjecucion(k)') =
          Cardinality(EnEjecucion(k)) - (IF k = cpu[p] THEN 1 ELSE 0)
    <3>1. EnEjecucion(k)' = EnEjecucion(k) \ {p}
      OBVIOUS
    <3>2. QED
      BY <2>3, <2>5, <3>1, ManosNumeros
  <2>8. QED
    BY <2>6, <2>7, ManosNumeros DEF Manos
<1>5. \A d \in Cpus : /\ hilo_cpu'[d].pc = "no" => hilo_cpu[d].pc = "no"
                      /\ Conectada(hilo_cpu'[d]) => Conectada(hilo_cpu[d])
  BY <1>1, <1>2 DEF Conectada, HiloOK
<1>6. QED
  BY <1>4, <1>5 DEF CpusInv

\* The thread of c frees the CPU it has in hand.
LEMMA CpusLiberar ==
  ASSUME PlanInv, CpusInv, NEW c \in Cpus, NEW h, NEW f \in Cpus,
         \A k \in Cpus : Libera(hilo_cpu[c], k) <=> k = f,
         hilo_cpu' = [hilo_cpu EXCEPT ![c] = h],
         \A k \in Cpus : ~ Libera(h, k),
         h.pc # "no", Conectada(hilo_cpu[c]),
         lista_cpus_libres' = Append(lista_cpus_libres, f),
         \A k \in Cpus : EnEjecucion(k)' = EnEjecucion(k)
  PROVE  CpusInv'
<1>1. hilo_cpu \in [Cpus -> Hilo] /\ lista_cpus_libres \in Seq(Cpus)
  BY PartesTipo DEF PlanInv, TypeOK
<1>2. \A d \in Cpus : hilo_cpu'[d] = IF d = c THEN h ELSE hilo_cpu[d]
  BY <1>1
<1>3. \A k \in Cpus : (Libera(hilo_cpu[c], k) <=> k = f) /\ ~ Libera(h, k)
  OBVIOUS
<1>4. ASSUME NEW k \in Cpus
      PROVE  Manos(k)' = Manos(k)
  <2>1. Liberadores(k)' = Liberadores(k) \ {c}
    BY <1>2, <1>3 DEF Liberadores
  <2>2. c \in Liberadores(k) <=> k = f
    BY <1>3 DEF Liberadores
  <2>3. Cardinality(Liberadores(k) \ {c}) =
          IF c \in Liberadores(k) THEN Cardinality(Liberadores(k)) - 1
          ELSE Cardinality(Liberadores(k))
    BY ManosNumeros, FS_RemoveElement
  <2>4. Veces(k, lista_cpus_libres') =
          Veces(k, lista_cpus_libres) + (IF f = k THEN 1 ELSE 0)
    BY <1>1, VecesAgregar
  <2>5. Cardinality(Liberadores(k)') =
          Cardinality(Liberadores(k)) - (IF f = k THEN 1 ELSE 0)
    BY <2>1, <2>2, <2>3, ManosNumeros
  <2>6. Cardinality(EnEjecucion(k)') = Cardinality(EnEjecucion(k))
    OBVIOUS
  <2>7. Manos(k)' = Veces(k, lista_cpus_libres') + Cardinality(EnEjecucion(k)')
                    + Cardinality(Liberadores(k)')
    BY DEF Manos
  <2>8. /\ Veces(k, lista_cpus_libres) \in Nat
        /\ Cardinality(EnEjecucion(k)) \in Nat /\ Cardinality(Liberadores(k)) \in Nat
    BY ManosNumeros
  <2>9. QED
    BY <2>4, <2>5, <2>6, <2>7, <2>8 DEF Manos
<1>5. \A d \in Cpus : /\ hilo_cpu'[d].pc = "no" => hilo_cpu[d].pc = "no"
                      /\ Conectada(hilo_cpu'[d]) => Conectada(hilo_cpu[d])
  BY <1>2
<1>6. QED
  BY <1>4, <1>5 DEF CpusInv

\* The thread of c finds its CPU gone: it is in no hands that the thread sees.
LEMMA CpusDesconectar ==
  ASSUME PlanInv, CpusInv, NEW c \in Cpus, DesconectarCpu(c)
  PROVE  CpusInv'
<1>1. /\ hilo_cpu[c].pc = "recibir"
      /\ lista_cpus_libres' = RemoveFirst(lista_cpus_libres, c)
  BY DEF DesconectarCpu, Recibe
<1>2. /\ HiloOK(hilo_cpu[c], estado) /\ hilo_cpu \in [Cpus -> Hilo]
      /\ lista_cpus_libres \in Seq(Cpus) /\ lista_exec \in Seq(Pids)
      /\ estado \in [Pids -> EstadosProceso] /\ cpu \in [Pids -> Cpus \cup {Nulo}]
      /\ KsTipo
  BY PartesTipo DEF PlanInv, TypeOK, HilosInv, KsTipo
<1>3. \E h : /\ hilo_cpu' = [hilo_cpu EXCEPT ![c] = h]
             /\ h.pc \in {"cerrado", "desc_fin", "avisar"}
             /\ h.luego = IF h.pc = "cerrado" THEN "nada" ELSE "desc_fin"
             /\ \A k \in Cpus : EnEjecucion(k)' = EnEjecucion(k) \/ k = c
             /\ EnEjecucion(c)' \subseteq EnEjecucion(c)
  <2>1. CASE EnLaCpu(c) = {}
    <3>1. hilo_cpu' = [hilo_cpu EXCEPT ![c] = HiloEn("cerrado")] /\ UNCHANGED <<estado, cpu>>
      BY <2>1 DEF DesconectarCpu
    <3>2. HiloEn("cerrado").pc = "cerrado" /\ HiloEn("cerrado").luego = "nada"
      BY DEF HiloEn
    <3>3. \A k \in Cpus : EnEjecucion(k)' = EnEjecucion(k)
      BY <3>1 DEF EnEjecucion
    <3>4. QED
      BY <3>1, <3>2, <3>3
  <2>2. CASE EnLaCpu(c) # {}
    <3> DEFINE donde == CHOOSE i \in EnLaCpu(c) : \A j \in EnLaCpu(c) : i <= j
               p == lista_exec[donde]
    <3>1. /\ estado' = [estado EXCEPT ![p] = "READY"]
          /\ cpu' = [cpu EXCEPT ![p] = Nulo]
          /\ EncolarEnReady(c, p, RemoveFirst(lista_exec, p), "desc_fin")
      BY <2>2 DEF DesconectarCpu
    <3>2. donde \in EnLaCpu(c)
      <4>1. EnLaCpu(c) \in SUBSET Nat
        BY <1>2, LenProperties DEF EnLaCpu
      <4>2. \E i \in EnLaCpu(c) : \A j \in EnLaCpu(c) : i <= j
        BY <2>2, <4>1, MinimoNat
      <4>3. QED
        BY <4>2
    <3> HIDE DEF donde
    <3>3. p \in Pids /\ cpu[p] = c
      <4>1. donde \in DOMAIN lista_exec /\ cpu[p] = c
        BY <3>2 DEF EnLaCpu
      <4>2. \A i \in DOMAIN lista_exec : lista_exec[i] \in Pids
        BY <1>2, LenProperties, ElementOfSeq
      <4>3. QED
        BY <4>1, <4>2
    <3> HIDE DEF p
    <3>4. RemoveFirst(lista_exec, p) \in Seq(Pids)
      BY <1>2, VecesQuitar
    <3>5. PICK h \in Hilo : /\ hilo_cpu' = [hilo_cpu EXCEPT ![c] = h]
                            /\ h.pc \in {"desc_fin", "avisar"} /\ h.luego = "desc_fin"
      BY <1>2, <3>1, <3>3, <3>4, EncolarEfecto
    <3>6. \A k \in Cpus : EnEjecucion(k)' = EnEjecucion(k) \/ k = c
      BY <1>2, <3>1, <3>3, PlanificacionOK DEF EnEjecucion
    <3>7. EnEjecucion(c)' \subseteq EnEjecucion(c)
      BY <1>2, <3>1, <3>3 DEF EnEjecucion
    <3>8. h.luego = IF h.pc = "cerrado" THEN "nada" ELSE "desc_fin"
      BY <3>5
    <3>9. QED
      BY <3>5, <3>6, <3>7, <3>8
  <2>3. QED
    BY <2>1, <2>2
<1>4. PICK h : /\ hilo_cpu' = [hilo_cpu EXCEPT ![c] = h]
               /\ h.pc \in {"cerrado", "desc_fin", "avisar"}
               /\ h.luego = IF h.pc = "cerrado" THEN "nada" ELSE "desc_fin"
               /\ \A k \in Cpus : EnEjecucion(k)' = EnEjecucion(k) \/ k = c
               /\ EnEjecucion(c)' \subseteq EnEjecucion(c)
  BY <1>3
<1>5. \A d \in Cpus : hilo_cpu'[d] = IF d = c THEN h ELSE hilo_cpu[d]
  BY <1>2, <1>4
<1>6. \A k \in Cpus : Liberadores(k)' = Liberadores(k)
  <2>1. \A k \in Cpus : ~ Libera(hilo_cpu[c], k) /\ ~ Libera(h, k)
    BY <1>1, <1>2, <1>4 DEF Libera, HiloOK
  <2>2. QED
    BY <1>5, <2>1 DEF Liberadores
<1>7. ~ Conectada(h) /\ h.pc # "no"
  BY <1>4 DEF Conectada
<1>8. \A k \in Cpus : Veces(k, lista_cpus_libres') = Veces(k, lista_cpus_libres)
        - (IF c = k /\ EnLista(k, lista_cpus_libres) THEN 1 ELSE 0)
  BY <1>1, <1>2, VecesQuitar
<1>9. \A k \in Cpus \ {c} : Manos(k)' = Manos(k)
  <2>1. ASSUME NEW k \in Cpus \ {c} PROVE Manos(k)' = Manos(k)
    <3>1. Veces(k, lista_cpus_libres) \in Nat
      BY ManosNumeros
    <3>2. Veces(k, lista_cpus_libres') = Veces(k, lista_cpus_libres)
      BY <1>8, <3>1
    <3>3. QED
      BY <1>4, <1>6, <3>2 DEF Manos
  <2>2. QED
    BY <2>1
<1>10. Manos(c)' <= 1
  <2>1. Cardinality(EnEjecucion(c)') \in Nat
        /\ Cardinality(EnEjecucion(c)') <= Cardinality(EnEjecucion(c))
    BY <1>4, ManosNumeros, FS_Subset, FS_CardinalityType
  <2>2. /\ Veces(c, lista_cpus_libres') \in Int
        /\ Veces(c, lista_cpus_libres') <= Veces(c, lista_cpus_libres)
    BY <1>8, ManosNumeros
  <2>3. Manos(c) <= 1
    BY DEF CpusInv
  <2>4. QED
    BY <1>6, <2>1, <2>2, <2>3, ManosNumeros DEF Manos
<1>11. QED
  BY <1>5, <1>7, <1>9, <1>10 DEF CpusInv

\* A step of the thread of c that passes no CPU on.
LEMMA CpusHilo ==
  ASSUME PlanInv, CpusInv, NEW c \in Cpus,
         \/ Avisar(c) \/ Postear(c) \/ ManejarInitProc(c) \/ ManejarInitProcError(c)
         \/ ManejarSyscallSinProceso(c) \/ ManejarInitProcFin(c) \/ DesconectarCpuFin(c)
  PROVE  CpusInv'
<1>1. HiloOK(hilo_cpu[c], estado) /\ hilo_cpu[c] \in Hilo /\ hilo_cpu \in [Cpus -> Hilo]
  BY PartesTipo DEF PlanInv, TypeOK, HilosInv
<1>2. \A pc \in {"recibir", "cerrado", "postear"} :
        HiloEn(pc).pc = pc /\ HiloEn(pc).luego = "nada" /\ HiloEn(pc).cpu = Nulo
  BY DEF HiloEn
<1>3. CASE Avisar(c)
  <2> DEFINE h == [hilo_cpu[c] EXCEPT !.pc = hilo_cpu[c].luego, !.aviso = SinAviso]
  <2>1. /\ hilo_cpu[c].pc = "avisar" /\ UNCHANGED <<estado, cpu, lista_cpus_libres>>
        /\ hilo_cpu' = [hilo_cpu EXCEPT ![c] = h]
    BY <1>1, <1>3 DEF Avisar, procesoVars, listaVars
  <2>2. h.pc = hilo_cpu[c].luego /\ h.luego = hilo_cpu[c].luego /\ h.cpu = hilo_cpu[c].cpu
    BY <1>1 DEF Hilo
  <2>3. hilo_cpu[c].luego \in {"fq_fin", "init_fin", "desc_fin"}
    BY <1>1, <2>1 DEF Hilo, HiloOK
  <2> HIDE DEF h
  <2>4. \A k \in Cpus : Libera(h, k) <=> Libera(hilo_cpu[c], k)
    BY <2>1, <2>2, <2>3 DEF Libera
  <2>5. h.pc # "no" /\ (Conectada(h) => Conectada(hilo_cpu[c]))
    BY <2>1, <2>2, <2>3 DEF Conectada
  <2>6. \A k \in Cpus : EnEjecucion(k)' = EnEjecucion(k)
    BY <2>1 DEF EnEjecucion
  <2>7. QED
    BY <2>1, <2>4, <2>5, <2>6, CpusHiloSolo
<1>4. CASE Postear(c) \/ ManejarInitProcFin(c) \/ DesconectarCpuFin(c)
  <2>1. PICK pc \in {"recibir", "cerrado"} :
          hilo_cpu' = [hilo_cpu EXCEPT ![c] = HiloEn(pc)]
          /\ (pc = "recibir" => hilo_cpu[c].pc \in {"postear", "init_fin"})
    BY <1>4 DEF Postear, ManejarInitProcFin, DesconectarCpuFin
  <2>2. UNCHANGED <<estado, cpu, lista_cpus_libres>>
        /\ hilo_cpu[c].pc \in {"postear", "init_fin", "desc_fin"}
    BY <1>4 DEF Postear, ManejarInitProcFin, DesconectarCpuFin, procesoVars, listaVars
  <2>3. /\ HiloEn(pc).pc = pc /\ HiloEn(pc).luego = "nada" /\ HiloEn(pc).cpu = Nulo
    BY <1>2
  <2>4. \A k \in Cpus : Libera(HiloEn(pc), k) <=> Libera(hilo_cpu[c], k)
    BY <1>1, <2>2, <2>3, PlanificacionOK DEF Libera, HiloOK
  <2>5. HiloEn(pc).pc # "no" /\ (Conectada(HiloEn(pc)) => Conectada(hilo_cpu[c]))
    BY <1>1, <2>1, <2>3 DEF Conectada, HiloOK
  <2>6. \A k \in Cpus : EnEjecucion(k)' = EnEjecucion(k)
    BY <2>2 DEF EnEjecucion
  <2>7. QED
    BY <2>1, <2>2, <2>4, <2>5, <2>6, CpusHiloSolo
<1>5. CASE ManejarInitProc(c)
  <2> DEFINE h == [HiloEn("init_nuevo") EXCEPT !.pid = proximo_pid]
  <2>1. /\ hilo_cpu[c].pc = "recibir" /\ proximo_pid \in Pids
        /\ hilo_cpu' = [hilo_cpu EXCEPT ![c] = h]
        /\ estado' = [estado EXCEPT ![proximo_pid] = "NEW"]
        /\ UNCHANGED <<cpu, lista_cpus_libres>>
    BY <1>5 DEF ManejarInitProc, Recibe
  <2>2. h.pc = "init_nuevo" /\ h.luego = "nada" /\ h.cpu = Nulo
    BY DEF HiloEn
  <2> HIDE DEF h
  <2>3. estado \in [Pids -> EstadosProceso] /\ estado[proximo_pid] = "SIN_CREAR"
    BY <2>1 DEF PlanInv, TypeOK, KsTipo, ProcesosInv
  <2>4. \A k \in Cpus : EnEjecucion(k)' = EnEjecucion(k)
    BY <2>1, <2>3 DEF EnEjecucion
  <2>5. \A k \in Cpus : Libera(h, k) <=> Libera(hilo_cpu[c], k)
    BY <1>1, <2>1, <2>2, PlanificacionOK DEF Libera, HiloOK
  <2>6. h.pc # "no" /\ (Conectada(h) => Conectada(hilo_cpu[c]))
    BY <1>1, <2>1, <2>2 DEF Conectada, HiloOK
  <2>7. QED
    BY <2>1, <2>4, <2>5, <2>6, CpusHiloSolo
<1>6. CASE ManejarInitProcError(c) \/ ManejarSyscallSinProceso(c)
  <2>1. UNCHANGED <<estado, cpu, lista_cpus_libres, hilo_cpu>>
    BY <1>6 DEF ManejarInitProcError, ManejarSyscallSinProceso, ksVars, procesoVars,
                listaVars, hiloVars
  <2>2. \A k \in Cpus : EnEjecucion(k)' = EnEjecucion(k)
    BY <2>1 DEF EnEjecucion
  <2>3. QED
    BY <2>1, <2>2, CpusQuietas
<1>7. QED
  BY <1>3, <1>4, <1>5, <1>6

\* A step of the thread of c that moves a process.
LEMMA CpusMover ==
  ASSUME PlanInv, CpusInv, NEW c \in Cpus, MoverProcesoAReady(c)
  PROVE  CpusInv'
<1> DEFINE p == hilo_cpu[c].pid
<1>1. /\ HiloOK(hilo_cpu[c], estado) /\ hilo_cpu \in [Cpus -> Hilo] /\ KsTipo
      /\ lista_exec \in Seq(Pids) /\ estado \in [Pids -> EstadosProceso]
      /\ cpu \in [Pids -> Cpus \cup {Nulo}]
  BY PartesTipo DEF PlanInv, TypeOK, HilosInv, KsTipo
<1>2. /\ hilo_cpu[c].pc = "init_nuevo"
      /\ estado' = [estado EXCEPT ![p] = "READY"]
      /\ EncolarEnReady(c, p, lista_exec, "init_fin")
      /\ UNCHANGED <<cpu, lista_cpus_libres>>
  BY DEF MoverProcesoAReady
<1>3. p \in Pids /\ estado[p] = "NEW" /\ hilo_cpu[c].luego \notin {"fq_fin", "desc_fin"}
  BY <1>1, <1>2 DEF HiloOK
<1> HIDE DEF p
<1>4. PICK h \in Hilo : /\ hilo_cpu' = [hilo_cpu EXCEPT ![c] = h]
                        /\ h.pc \in {"init_fin", "avisar"} /\ h.luego = "init_fin"
  BY <1>1, <1>2, <1>3, EncolarEfecto
<1>5. \A k \in Cpus : EnEjecucion(k)' = EnEjecucion(k)
  BY <1>1, <1>2, <1>3 DEF EnEjecucion
<1>6. \A k \in Cpus : Libera(h, k) <=> Libera(hilo_cpu[c], k)
  BY <1>2, <1>3, <1>4 DEF Libera
<1>7. h.pc # "no" /\ (Conectada(h) => Conectada(hilo_cpu[c]))
  BY <1>2, <1>3, <1>4 DEF Conectada
<1>8. QED
  BY <1>2, <1>4, <1>5, <1>6, <1>7, CpusHiloSolo

\* manejar_fin_quantum, manejar_proceso_exit and manejar_seg_fault: the process
\* leaves its CPU, and the thread is to free it.
LEMMA CpusSacar ==
  ASSUME PlanInv, CpusInv, NEW c \in Cpus, NEW op,
         ManejarFinQuantum(c) \/ Finaliza(c, op)
  PROVE  CpusInv'
<1> DEFINE p == Head(de_cpu[c]).pid
<1>1. /\ KsTipo /\ hilo_cpu[c].pc = "recibir" /\ lista_exec \in Seq(Pids)
      /\ estado \in [Pids -> EstadosProceso] /\ cpu \in [Pids -> Cpus \cup {Nulo}]
      /\ lista_cpus_libres' = lista_cpus_libres
  BY DEF PlanInv, TypeOK, KsTipo, ManejarFinQuantum, Finaliza, Recibe
<1>2. CASE ~ EnLista(p, lista_exec)
  <2>1. UNCHANGED <<estado, cpu, hilo_cpu>>
    BY <1>2 DEF ManejarFinQuantum, Finaliza
  <2>2. \A k \in Cpus : EnEjecucion(k)' = EnEjecucion(k)
    BY <2>1 DEF EnEjecucion
  <2>3. QED
    BY <1>1, <2>1, <2>2, CpusQuietas
<1>3. CASE EnLista(p, lista_exec)
  <2>1. p \in Pids
    BY <1>1, <1>3, EnListaTipo
  <2>2. estado[p] = "EXEC"
    BY <1>3, <2>1, EstadoPorLista
  <2>3. CASE ManejarFinQuantum(c)
    <3>1. /\ estado' = [estado EXCEPT ![p] = "READY"]
          /\ cpu' = [cpu EXCEPT ![p] = Nulo]
          /\ EncolarEnReady(c, p, RemoveFirst(lista_exec, p), "fq_fin")
      BY <1>3, <2>3 DEF ManejarFinQuantum
    <3>2. RemoveFirst(lista_exec, p) \in Seq(Pids)
      BY <1>1, VecesQuitar
    <3> HIDE DEF p
    <3>3. PICK h \in Hilo : /\ hilo_cpu' = [hilo_cpu EXCEPT ![c] = h]
                            /\ h.pc \in {"fq_fin", "avisar"} /\ h.luego = "fq_fin"
                            /\ h.cpu = cpu[p]
      BY <1>1, <2>1, <3>1, <3>2, EncolarEfecto
    <3>4. \A k \in Cpus : EnEjecucion(k)' = EnEjecucion(k) \ {p}
      BY <1>1, <2>1, <3>1 DEF EnEjecucion
    <3>5. QED
      BY <1>1, <2>1, <2>2, <3>3, <3>4, CpusDejar
  <2>4. CASE Finaliza(c, op)
    <3> DEFINE h == [HiloEn("exit_fin") EXCEPT !.pid = p, !.cpu = cpu[p]]
    <3>1. /\ estado' = [estado EXCEPT ![p] = "EXIT"] /\ cpu' = cpu
          /\ hilo_cpu' = [hilo_cpu EXCEPT ![c] = h]
      BY <1>3, <2>4 DEF Finaliza
    <3>2. h.pc = "exit_fin" /\ h.luego = "nada" /\ h.cpu = cpu[p]
      BY DEF HiloEn
    <3> HIDE DEF p, h
    <3>3. \A k \in Cpus : EnEjecucion(k)' = EnEjecucion(k) \ {p}
      BY <1>1, <2>1, <3>1 DEF EnEjecucion
    <3>4. QED
      BY <1>1, <2>1, <2>2, <3>1, <3>2, <3>3, CpusDejar
  <2>5. QED
    BY <2>3, <2>4
<1>4. QED
  BY <1>2, <1>3

\* The end of manejar_fin_quantum, manejar_proceso_exit and manejar_seg_fault.
LEMMA CpusDevolver ==
  ASSUME PlanInv, CpusInv, NEW c \in Cpus, ManejarFinQuantumFin(c) \/ FinalizaFin(c)
  PROVE  CpusInv'
<1>1. /\ HiloOK(hilo_cpu[c], estado) /\ cpu \in [Pids -> Cpus \cup {Nulo}]
      /\ lista_cpus_libres' = Append(lista_cpus_libres, hilo_cpu[c].cpu)
  BY DEF PlanInv, TypeOK, HilosInv, KsTipo, ManejarFinQuantumFin, FinalizaFin
<1>2. /\ HiloEn("postear").pc = "postear" /\ HiloEn("postear").cpu = Nulo
      /\ HiloEn("postear").luego = "nada"
  BY DEF HiloEn
<1>3. CASE ManejarFinQuantumFin(c)
  <2> DEFINE h == [HiloEn("postear") EXCEPT !.planificable = hilo_cpu[c].planificable]
  <2>1. /\ hilo_cpu[c].pc = "fq_fin" /\ hilo_cpu' = [hilo_cpu EXCEPT ![c] = h]
        /\ UNCHANGED <<estado, cpu>>
    BY <1>3 DEF ManejarFinQuantumFin, procesoVars
  <2>2. h.pc = "postear" /\ h.luego = "nada" /\ h.cpu = Nulo
    BY DEF HiloEn
  <2> HIDE DEF h
  <2>3. \A k \in Cpus : EnEjecucion(k)' = EnEjecucion(k)
    BY <2>1 DEF EnEjecucion
  <2>4. /\ \A k \in Cpus : Libera(hilo_cpu[c], k) <=> k = hilo_cpu[c].cpu
        /\ hilo_cpu[c].cpu \in Cpus /\ Conectada(hilo_cpu[c])
    BY <1>1, <2>1 DEF Libera, HiloOK, Conectada
  <2>5. \A k \in Cpus : ~ Libera(h, k)
    BY <2>2 DEF Libera
  <2>6. QED
    BY <1>1, <2>1, <2>2, <2>3, <2>4, <2>5, CpusLiberar
<1>4. CASE FinalizaFin(c)
  <2>1. /\ hilo_cpu[c].pc = "exit_fin"
        /\ hilo_cpu' = [hilo_cpu EXCEPT ![c] = HiloEn("postear")]
        /\ cpu' = [cpu EXCEPT ![hilo_cpu[c].pid] = Nulo] /\ estado' = estado
    BY <1>4 DEF FinalizaFin
  <2>2. estado[hilo_cpu[c].pid] = "EXIT"
    BY <1>1, <2>1 DEF HiloOK
  <2>3. \A k \in Cpus : EnEjecucion(k)' = EnEjecucion(k)
    BY <1>1, <2>1, <2>2 DEF EnEjecucion
  <2>4. /\ \A k \in Cpus : Libera(hilo_cpu[c], k) <=> k = hilo_cpu[c].cpu
        /\ hilo_cpu[c].cpu \in Cpus /\ Conectada(hilo_cpu[c])
    BY <1>1, <2>1 DEF Libera, HiloOK, Conectada
  <2>5. \A k \in Cpus : ~ Libera(HiloEn("postear"), k)
    BY <1>2 DEF Libera
  <2>6. QED
    BY <1>1, <1>2, <2>1, <2>3, <2>4, <2>5, CpusLiberar
<1>5. QED
  BY <1>3, <1>4

\* Every step.
LEMMA CpusPaso ==
  ASSUME PlanInv, CpusInv, [Next]_vars
  PROVE  CpusInv'
<1>1. CASE UNCHANGED <<estado, cpu, lista_cpus_libres, hilo_cpu>>
  <2>1. \A k \in Cpus : EnEjecucion(k)' = EnEjecucion(k)
    BY <1>1 DEF EnEjecucion
  <2>2. QED
    BY <1>1, <2>1, CpusQuietas
<1>2. CASE PasoPlanificador
  <2>1. Planificador
    BY <1>2 DEF PasoPlanificador, Ks
  <2>2. PlanificadorElegir \/ UNCHANGED <<estado, cpu, lista_cpus_libres, hilo_cpu>>
    BY <2>1 DEF Planificador, PlanificadorEsperaReady, PlanificadorEsperaCpu,
                PlanificadorEnviar, procesoVars, listaVars
  <2>3. QED
    BY <1>1, <2>2, CpusElegir
<1>3. ASSUME NEW t \in Timers, PasoHiloQuantum(t)
      PROVE  CpusInv'
  <2>1. UNCHANGED <<estado, cpu, lista_cpus_libres, hilo_cpu>>
    BY <1>3 DEF PasoHiloQuantum, Ks, HiloQuantum, HiloQuantumVence,
                HiloQuantumInterrumpe, procesoVars, listaVars
  <2>2. QED
    BY <1>1, <2>1
<1>4. ASSUME NEW c \in Cpus, PasoHiloCpu(c)
      PROVE  CpusInv'
  <2>1. HiloCpu(c)
    BY <1>4 DEF PasoHiloCpu, Ks
  <2>2. QED
    BY <2>1, CpusHilo, CpusMover, CpusSacar, CpusDevolver, CpusDesconectar
       DEF HiloCpu, ManejarProcesoExit, ManejarSegFault
<1>5. ASSUME NEW c \in Cpus, PasoCpu(c) \/ Apagar(c)
      PROVE  CpusInv'
  <2>1. UNCHANGED ksVars
    BY <1>5 DEF PasoCpu, Apagar
  <2>2. QED
    BY <1>1, <2>1 DEF ksVars, procesoVars, listaVars, hiloVars
<1>6. CASE UNCHANGED vars
  BY <1>1, <1>6 DEF vars, ksVars, procesoVars, listaVars, hiloVars
<1>7. QED
  BY <1>2, <1>3, <1>4, <1>5, <1>6, CpusConectar DEF Next

\* No CPU has connected when the scheduler starts.
LEMMA CpusInicial ==
  ASSUME Init
  PROVE  CpusInv
<1>1. estado = [p \in Pids |-> IF p = 0 THEN "READY" ELSE "SIN_CREAR"]
  BY DEF Init, KsInit
<1>2. lista_cpus_libres = <<>> /\ hilo_cpu = [c \in Cpus |-> HiloEn("no")]
  BY DEF Init, KsInit
<1>3. /\ HiloEn("no").pc = "no" /\ HiloEn("no").luego = "nada"
  BY DEF HiloEn
<1>4. ASSUME NEW c \in Cpus PROVE Manos(c) = 0
  <2>1. EnEjecucion(c) = {} /\ Liberadores(c) = {}
    <3>1. ASSUME NEW p \in Pids PROVE estado[p] # "EXEC"
      <4>1. CASE p = 0
        BY <1>1, <4>1
      <4>2. CASE p # 0
        BY <1>1, <4>2
      <4>3. QED
        BY <4>1, <4>2
    <3>2. \A d \in Cpus : hilo_cpu[d].pc = "no" /\ hilo_cpu[d].luego = "nada"
      BY <1>2, <1>3
    <3>3. \A d \in Cpus : ~ Libera(hilo_cpu[d], c)
      BY <3>2 DEF Libera
    <3>4. QED
      BY <3>1, <3>3 DEF EnEjecucion, Liberadores
  <2>2. Veces(c, <<>>) = 0
    BY VecesDePocos
  <2>3. QED
    BY <1>2, <2>1, <2>2, FS_EmptySet DEF Manos
<1>5. \A c \in Cpus : hilo_cpu[c] = HiloEn("no")
  BY <1>2
<1>6. QED
  BY <1>3, <1>4, <1>5 DEF CpusInv, Conectada

\* The lists of processes and the hands of the CPUs, in every state.
LEMMA CpusSiempre == Spec => [](PlanInv /\ CpusInv)
<1>1. PlanInv /\ CpusInv /\ [Next]_vars => PlanInv' /\ CpusInv'
  BY PlanPaso, CpusPaso
<1>2. Init => PlanInv /\ CpusInv
  BY PlanInicial, CpusInicial
<1>3. QED
  BY <1>1, <1>2, PTL DEF Spec

\* A CPU that is connected is free, or runs one process, or is in the hands of
\* the thread that is to free it, and of one of them only: planificador_corto_plazo,
\* the handlers of atender_cpu and desconectar_cpu neither lose a CPU nor give
\* it twice (CpuDeUno).
THEOREM CadaCpuDeUno == Spec => []CpuDeUno
<1>1. CpusInv => CpuDeUno
  <2> SUFFICES ASSUME CpusInv, NEW c \in Cpus,
                      hilo_cpu[c].pc \notin {"no", "cerrado"} /\ hilo_cpu[c].luego # "desc_fin"
               PROVE  Veces(c, lista_cpus_libres)
                        + Cardinality({p \in Pids : estado[p] = "EXEC" /\ cpu[p] = c})
                        + Cardinality({d \in Cpus : hilo_cpu[d].cpu = c
                                         /\ (hilo_cpu[d].pc \in {"fq_fin", "exit_fin"}
                                             \/ hilo_cpu[d].luego = "fq_fin")}) = 1
    BY Zenon DEF CpuDeUno
  <2>1. Manos(c) = 1
    BY DEF CpusInv, Conectada
  <2>2. Liberadores(c) =
          {d \in Cpus : hilo_cpu[d].cpu = c
                        /\ (hilo_cpu[d].pc \in {"fq_fin", "exit_fin"}
                            \/ hilo_cpu[d].luego = "fq_fin")}
    BY DEF Liberadores, Libera
  <2>3. QED
    BY <2>1, <2>2 DEF Manos, EnEjecucion
<1>2. QED
  BY <1>1, CpusSiempre, PTL

-----------------------------------------------------------------------------
(* The timers.                                                              *)

\* The pointers of the processes and the structures do not change, or only one
\* process forgets its own.
LEMMA TimersQuietos ==
  ASSUME PlanInv, TimerVivo, timers' = timers,
         \/ timer' = timer
         \/ \E p \in Pids : timer' = [timer EXCEPT ![p] = Nulo]
  PROVE  TimerVivo'
BY DEF PlanInv, TypeOK, KsTipo, TimerVivo

\* The planner takes a structure that nobody has.
LEMMA TimersElegir ==
  ASSUME PlanInv, TimerVivo, PlanificadorElegir
  PROVE  TimerVivo'
<1>1. timer \in [Pids -> Timers \cup {Nulo}] /\ timers \in [Timers -> Quantums]
  BY PartesTipo DEF PlanInv, TypeOK, KsTipo
<1>2. CASE ConProcesos = {} \/ lista_cpus_libres = <<>>
  <2>1. timer' = timer /\ timers' = timers
    BY <1>2 DEF PlanificadorElegir, procesoVars
  <2>2. QED
    BY <2>1, TimersQuietos
<1>3. CASE ConProcesos # {} /\ lista_cpus_libres # <<>>
  <2> DEFINE q == PrimeraCola
             p == Head(colas_ready[q])
             c == Head(lista_cpus_libres)
             t == CHOOSE x \in TimersLibres : TRUE
  <2>1. CASE AlgoritmoDe(q) = "RR"
    <3>1. /\ TimersLibres # {}
          /\ timer' = [timer EXCEPT ![p] = t]
          /\ timers' = [timers EXCEPT ![t] = [estado |-> "creado", pid |-> p, cpu |-> c]]
      BY <1>3, <2>1 DEF PlanificadorElegir
    <3>2. t \in TimersLibres
      BY <3>1
    <3>3. p \in Pids
      BY <1>3, ElegirEfecto
    <3> HIDE DEF p, c, t
    <3>4. t \in Timers /\ timers[t].estado = "libre"
      BY <3>2 DEF TimersLibres
    <3>5. timers'[t].estado = "creado" /\ timers'[t].pid = p
      BY <1>1, <3>1, <3>4
    <3>6. \A u \in Timers \ {t} : timers'[u] = timers[u]
      BY <1>1, <3>1, <3>4
    <3>7. \A x \in Pids : timer'[x] = IF x = p THEN t ELSE timer[x]
      BY <1>1, <3>1, <3>3
    <3>8. \A x \in Pids : timer[x] # Nulo =>
            /\ timer[x] \in Timers \ {t}
            /\ timers[timer[x]].estado \in {"creado", "corre"}
            /\ timers[timer[x]].pid = x
      BY <1>1, <3>4 DEF TimerVivo
    <3>9. ASSUME NEW x \in Pids, timer'[x] # Nulo
          PROVE  /\ timers'[timer'[x]].estado \in {"creado", "corre"}
                 /\ timers'[timer'[x]].pid = x
      <4>1. CASE x = p
        BY <3>5, <3>7, <4>1
      <4>2. CASE x # p
        BY <3>6, <3>7, <3>8, <3>9, <4>2
      <4>3. QED
        BY <4>1, <4>2
    <3>10. QED
      BY <3>9 DEF TimerVivo
  <2>2. CASE AlgoritmoDe(q) # "RR"
    <3>1. timer' = timer /\ timers' = timers
      BY <1>3, <2>2 DEF PlanificadorElegir
    <3>2. QED
      BY <3>1, TimersQuietos
  <2>3. QED
    BY <2>1, <2>2
<1>4. QED
  BY <1>2, <1>3

\* The planner starts the thread of the timer it made.
LEMMA TimersEnviar ==
  ASSUME PlanInv, TimerVivo, PlanificadorEnviar
  PROVE  TimerVivo'
<1>1. timer \in [Pids -> Timers \cup {Nulo}] /\ timers \in [Timers -> Quantums]
      /\ planificador \in Planes
  BY PartesTipo DEF PlanInv, TypeOK, KsTipo
<1>2. timer' = timer
  BY DEF PlanificadorEnviar, procesoVars
<1>3. CASE planificador.timer = Nulo
  BY <1>2, <1>3, TimersQuietos DEF PlanificadorEnviar
<1>4. CASE planificador.timer # Nulo
  <2> DEFINE t == planificador.timer
  <2>1. t \in Timers
    BY <1>1, <1>4 DEF Planes
  <2>2. timers' = [timers EXCEPT ![t].estado = "corre"]
    BY <1>4 DEF PlanificadorEnviar
  <2> HIDE DEF t
  <2>3. \A u \in Timers : /\ timers'[u].pid = timers[u].pid
                          /\ timers'[u].estado = IF u = t THEN "corre" ELSE timers[u].estado
    BY <1>1, <2>1, <2>2 DEF Quantums
  <2>4. QED
    BY <1>1, <1>2, <2>3 DEF TimerVivo
<1>5. QED
  BY <1>3, <1>4

\* hilo_quantum: the structure that is freed is one that no process points to.
LEMMA TimersQuantum ==
  ASSUME PlanInv, TimerVivo, NEW t \in Timers, HiloQuantum(t)
  PROVE  TimerVivo'
<1>1. timer \in [Pids -> Timers \cup {Nulo}] /\ timers \in [Timers -> Quantums]
  BY PartesTipo DEF PlanInv, TypeOK, KsTipo
<1>2. \A x \in Pids : timer[x] # Nulo =>
        /\ timer[x] \in Timers
        /\ timers[timer[x]].estado \in {"creado", "corre"} /\ timers[timer[x]].pid = x
  BY <1>1 DEF TimerVivo
<1>3. CASE HiloQuantumVence(t) /\ Vigente(t)
  <2>1. /\ timer' = [timer EXCEPT ![timers[t].pid] = Nulo]
        /\ timers' = [timers EXCEPT ![t].estado = "vencido"]
    BY <1>3 DEF HiloQuantumVence
  <2>2. \A u \in Timers \ {t} : timers'[u] = timers[u]
    BY <1>1, <2>1
  <2>3. \A x \in Pids : timer'[x] = IF x = timers[t].pid THEN Nulo ELSE timer[x]
    BY <1>1, <2>1
  <2>4. \A x \in Pids : timer'[x] # Nulo => timer'[x] = timer[x] /\ timer[x] \in Timers \ {t}
    BY <1>2, <2>3
  <2>5. QED
    BY <1>2, <2>2, <2>4 DEF TimerVivo
<1>4. CASE HiloQuantumVence(t) /\ ~ Vigente(t)
  <2>1. /\ timer' = timer /\ timers' = [timers EXCEPT ![t] = SinTimer]
    BY <1>4 DEF HiloQuantumVence
  <2>2. ASSUME NEW x \in Pids, timer[x] = t
        PROVE  FALSE
    <3>1. timers[t].pid = x /\ timer[x] # Nulo
      BY <1>2, <2>2, PlanificacionOK
    <3>2. estado[x] \in {"EXEC", "READY"} /\ Planificable(x)
      BY <3>1 DEF PlanInv, ProcesosInv
    <3>3. EnLista(x, lista_exec) \/ EnReady(x)
      BY <3>2, EstadoPorLista
    <3>4. Buscable(x)
      BY <3>3 DEF Buscable, EnReady
    <3>5. QED
      BY <1>4, <2>2, <3>1, <3>4 DEF Vigente
  <2>3. \A u \in Timers \ {t} : timers'[u] = timers[u]
    BY <1>1, <2>1
  <2>4. QED
    BY <1>2, <2>1, <2>2, <2>3 DEF TimerVivo
<1>5. CASE HiloQuantumInterrumpe(t)
  <2>1. /\ timers[t].estado = "vencido" /\ timer' = timer
        /\ timers' = [timers EXCEPT ![t] = SinTimer]
    BY <1>5 DEF HiloQuantumInterrumpe, procesoVars
  <2>2. \A u \in Timers \ {t} : timers'[u] = timers[u]
    BY <1>1, <2>1
  <2>3. QED
    BY <1>2, <2>1, <2>2 DEF TimerVivo
<1>6. QED
  BY <1>3, <1>4, <1>5 DEF HiloQuantum

\* The threads of the CPUs free no structure; a process that ends, or whose CPU
\* leaves, forgets its timer.
LEMMA TimersHilo ==
  ASSUME PlanInv, TimerVivo, NEW c \in Cpus, HiloCpu(c)
  PROVE  TimerVivo'
<1>1. timers' = timers
  BY DEF HiloCpu, Avisar, Postear, ManejarFinQuantum, ManejarFinQuantumFin,
         ManejarProcesoExit, ManejarSegFault, Finaliza, FinalizaFin, ManejarInitProc,
         ManejarInitProcError, ManejarSyscallSinProceso, MoverProcesoAReady,
         ManejarInitProcFin, DesconectarCpu, DesconectarCpuFin, ksVars, hiloVars
<1>2. \/ timer' = timer
      \/ \E p : timer' = [timer EXCEPT ![p] = Nulo]
  BY DEF HiloCpu, Avisar, Postear, ManejarFinQuantum, ManejarFinQuantumFin,
         ManejarProcesoExit, ManejarSegFault, Finaliza, FinalizaFin, ManejarInitProc,
         ManejarInitProcError, ManejarSyscallSinProceso, MoverProcesoAReady,
         ManejarInitProcFin, DesconectarCpu, DesconectarCpuFin, ksVars, procesoVars
<1>3. timer \in [Pids -> Timers \cup {Nulo}]
  BY DEF PlanInv, TypeOK, KsTipo
<1>4. \/ timer' = timer
      \/ \E p \in Pids : timer' = [timer EXCEPT ![p] = Nulo]
  BY <1>2, <1>3
<1>5. QED
  BY <1>1, <1>4, TimersQuietos

\* Every step.
LEMMA TimersPaso ==
  ASSUME PlanInv, TimerVivo, [Next]_vars
  PROVE  TimerVivo'
<1>1. CASE timer' = timer /\ timers' = timers
  BY <1>1, TimersQuietos
<1>2. CASE PasoPlanificador
  <2>1. Planificador
    BY <1>2 DEF PasoPlanificador, Ks
  <2>2. \/ PlanificadorElegir \/ PlanificadorEnviar
        \/ timer' = timer /\ timers' = timers
    BY <2>1 DEF Planificador, PlanificadorEsperaReady, PlanificadorEsperaCpu,
                procesoVars
  <2>3. QED
    BY <1>1, <2>2, TimersElegir, TimersEnviar
<1>3. ASSUME NEW t \in Timers, PasoHiloQuantum(t)
      PROVE  TimerVivo'
  BY <1>3, TimersQuantum DEF PasoHiloQuantum, Ks
<1>4. ASSUME NEW c \in Cpus, PasoHiloCpu(c)
      PROVE  TimerVivo'
  BY <1>4, TimersHilo DEF PasoHiloCpu, Ks
<1>5. ASSUME NEW c \in Cpus, Conectar(c) \/ PasoCpu(c) \/ Apagar(c)
      PROVE  TimerVivo'
  <2>1. timer' = timer /\ timers' = timers
    BY <1>5 DEF Conectar, AtenderCpu, PasoCpu, Apagar, ksVars, procesoVars, hiloVars
  <2>2. QED
    BY <1>1, <2>1
<1>6. CASE UNCHANGED vars
  BY <1>1, <1>6 DEF vars, ksVars, procesoVars, hiloVars
<1>7. QED
  BY <1>2, <1>3, <1>4, <1>5, <1>6 DEF Next

\* The timers, in every state.
LEMMA TimersSiempre == Spec => [](PlanInv /\ TimerVivo)
<1>1. PlanInv /\ TimerVivo /\ [Next]_vars => PlanInv' /\ TimerVivo'
  BY PlanPaso, TimersPaso
<1>2. Init => PlanInv /\ TimerVivo
  BY PlanInicial DEF Init, KsInit, TimerVivo
<1>3. QED
  BY <1>1, <1>2, PTL DEF Spec

\* The timer a process points to is a structure that is alive and was made for
\* it: hilo_quantum, which frees its own when it ends, never leaves a process
\* with a pointer to freed memory, nor takes one that malloc gave again for the
\* old one (TimerVivo).
THEOREM TimerSiempreVivo == Spec => []TimerVivo
BY TimersSiempre, PTL

-----------------------------------------------------------------------------
(* The tokens of sem_hay_procesos_ready.                                    *)

ParaPlanificar == {p \in Pids : estado[p] = "READY" /\ Planificable(p)}

PorAvisar == {c \in Cpus : hilo_cpu[c].planificable}

Uno(b) == IF b THEN 1 ELSE 0

\* The token the planner has taken.
Tomado == IF planificador.pc \in {"cpus", "puede"} THEN 1 ELSE 0

TokensInv ==
  sem_hay_procesos_ready + Tomado + Cardinality(PorAvisar) = Cardinality(ParaPlanificar)

\* What the equation of sem_hay_procesos_ready adds up are numbers.
LEMMA TokensNumeros ==
  ASSUME PlanInv
  PROVE  /\ sem_hay_procesos_ready \in Nat /\ Tomado \in Nat
         /\ IsFiniteSet(PorAvisar) /\ Cardinality(PorAvisar) \in Nat
         /\ IsFiniteSet(ParaPlanificar) /\ Cardinality(ParaPlanificar) \in Nat
<1>1. sem_hay_procesos_ready \in Nat /\ Tomado \in Nat
  BY DEF PlanInv, TypeOK, KsTipo, Tomado
<1>2. IsFiniteSet(PorAvisar)
  BY FS_Subset, PlanificacionOK DEF PorAvisar
<1>3. ParaPlanificar \subseteq {p \in Pids : estado[p] # "SIN_CREAR"}
  BY DEF ParaPlanificar
<1>4. IsFiniteSet(ParaPlanificar)
  BY <1>3, CreadosFinitos
<1>5. QED
  BY <1>1, <1>2, <1>4, FS_CardinalityType

\* The processes that can be planned are the ones of the queues.
LEMMA TokensDeCola ==
  ASSUME PlanInv, TokensInv
  PROVE  TokensReady
<1>1. {p \in Pids : EnReady(p)} = ParaPlanificar
  BY EstadoPorLista DEF ParaPlanificar
<1>2. {c \in Cpus : hilo_cpu[c].planificable} = PorAvisar
  BY DEF PorAvisar
<1>3. QED
  BY <1>1, <1>2 DEF TokensInv, TokensReady, Tomado

\* A step that leaves the states and the priorities alone.
LEMMA ParaPlanificarQuieto ==
  ASSUME estado' = estado, prioridad' = prioridad
  PROVE  ParaPlanificar' = ParaPlanificar
BY DEF ParaPlanificar, Planificable

\* A process that is not READY becomes READY, or something else.
LEMMA ParaPlanificarCambia ==
  ASSUME PlanInv, NEW p \in Pids, NEW e, estado[p] # "READY",
         estado' = [estado EXCEPT ![p] = e], prioridad' = prioridad
  PROVE  Cardinality(ParaPlanificar') = Cardinality(ParaPlanificar)
           + (IF e = "READY" /\ Planificable(p) THEN 1 ELSE 0)
<1>1. \A x \in Pids : estado'[x] = IF x = p THEN e ELSE estado[x]
  BY DEF PlanInv, TypeOK, KsTipo
<1>2. \A x \in Pids : Planificable(x)' <=> Planificable(x)
  BY DEF Planificable
<1>3. p \notin ParaPlanificar
  BY DEF ParaPlanificar
<1>4. CASE e = "READY" /\ Planificable(p)
  <2>1. ParaPlanificar' = ParaPlanificar \cup {p}
    BY <1>1, <1>2, <1>4 DEF ParaPlanificar
  <2>2. Cardinality(ParaPlanificar \cup {p}) = Cardinality(ParaPlanificar) + 1
    BY <1>3, TokensNumeros, FS_AddElement
  <2>3. QED
    BY <1>4, <2>1, <2>2
<1>5. CASE ~ (e = "READY" /\ Planificable(p))
  <2>1. ParaPlanificar' = ParaPlanificar
    BY <1>1, <1>2, <1>5 DEF ParaPlanificar
  <2>2. Cardinality(ParaPlanificar) \in Nat
    BY TokensNumeros
  <2>3. QED
    BY <1>5, <2>1, <2>2
<1>6. QED
  BY <1>4, <1>5

\* A step of the thread of c: as many processes in the queues as tokens more on
\* their way.
LEMMA TokensHilo ==
  ASSUME PlanInv, TokensInv, NEW c \in Cpus, NEW h,
         hilo_cpu' = [hilo_cpu EXCEPT ![c] = h], planificador' = planificador,
         sem_hay_procesos_ready' \in Nat, Cardinality(ParaPlanificar') \in Nat,
         sem_hay_procesos_ready' + Uno(h.planificable) + Cardinality(ParaPlanificar)
           = sem_hay_procesos_ready + Uno(hilo_cpu[c].planificable)
               + Cardinality(ParaPlanificar')
  PROVE  TokensInv'
<1>1. \A k \in Cpus : hilo_cpu'[k] = IF k = c THEN h ELSE hilo_cpu[k]
  BY DEF PlanInv, TypeOK, KsTipo
<1>2. IsFiniteSet(PorAvisar) /\ Cardinality(PorAvisar) \in Nat
  BY TokensNumeros
<1>3. c \in PorAvisar <=> hilo_cpu[c].planificable
  BY DEF PorAvisar
<1>4. Cardinality(PorAvisar \cup {c}) =
        IF c \in PorAvisar THEN Cardinality(PorAvisar) ELSE Cardinality(PorAvisar) + 1
  BY <1>2, FS_AddElement
<1>5. Cardinality(PorAvisar \ {c}) =
        IF c \in PorAvisar THEN Cardinality(PorAvisar) - 1 ELSE Cardinality(PorAvisar)
  BY <1>2, FS_RemoveElement
<1>6. Cardinality(PorAvisar') =
        Cardinality(PorAvisar) + Uno(h.planificable) - Uno(hilo_cpu[c].planificable)
  <2>1. CASE h.planificable
    <3>1. PorAvisar' = PorAvisar \cup {c}
      BY <1>1, <2>1 DEF PorAvisar
    <3>2. QED
      BY <1>2, <1>3, <1>4, <2>1, <3>1 DEF Uno
  <2>2. CASE ~ h.planificable
    <3>1. PorAvisar' = PorAvisar \ {c}
      BY <1>1, <2>2 DEF PorAvisar
    <3>2. QED
      BY <1>2, <1>3, <1>5, <2>2, <3>1 DEF Uno
  <2>3. QED
    BY <2>1, <2>2
<1>7. Tomado' = Tomado
  BY DEF Tomado
<1>8. Uno(h.planificable) \in Nat /\ Uno(hilo_cpu[c].planificable) \in Nat
  BY DEF Uno
<1>9. QED
  BY <1>2, <1>6, <1>7, <1>8, TokensNumeros DEF TokensInv

\* The planner waits for a token, and gives back none.
LEMMA TokensPlanificador ==
  ASSUME PlanInv, TokensInv, Planificador
  PROVE  TokensInv'
<1>1. hilo_cpu' = hilo_cpu
  BY DEF Planificador, PlanificadorEsperaReady, PlanificadorEsperaCpu,
         PlanificadorElegir, PlanificadorEnviar
<1>2. PorAvisar' = PorAvisar
  BY <1>1 DEF PorAvisar
<1>3. planificador \in Planes
  BY PartesTipo DEF PlanInv, TypeOK
<1>4. CASE PlanificadorEsperaReady
  <2>1. /\ planificador.pc = "ready" /\ planificador'.pc = "cpus"
        /\ sem_hay_procesos_ready' = sem_hay_procesos_ready - 1
        /\ estado' = estado /\ prioridad' = prioridad
    BY <1>3, <1>4 DEF PlanificadorEsperaReady, procesoVars, Planes
  <2>2. Tomado = 0 /\ Tomado' = 1
    BY <2>1 DEF Tomado
  <2>3. QED
    BY <1>2, <2>1, <2>2, TokensNumeros, ParaPlanificarQuieto DEF TokensInv
<1>5. CASE PlanificadorEsperaCpu \/ PlanificadorEnviar
  <2>1. /\ sem_hay_procesos_ready' = sem_hay_procesos_ready
        /\ estado' = estado /\ prioridad' = prioridad
        /\ \/ planificador.pc = "cpus" /\ planificador'.pc = "puede"
           \/ planificador.pc = "enviar" /\ planificador'.pc = "ready"
    BY <1>3, <1>5 DEF PlanificadorEsperaCpu, PlanificadorEnviar, procesoVars, Planes
  <2>2. Tomado' = Tomado
    BY <2>1 DEF Tomado
  <2>3. QED
    BY <1>2, <2>1, <2>2, ParaPlanificarQuieto DEF TokensInv
<1>6. CASE PlanificadorElegir
  <2>1. planificador.pc = "puede" /\ sem_hay_procesos_ready' = sem_hay_procesos_ready
    BY <1>6 DEF PlanificadorElegir
  <2>2. Tomado = 1
    BY <2>1 DEF Tomado
  <2>3. ConProcesos # {}
    <3>1. Cardinality(ParaPlanificar) # 0
      BY <2>2, TokensNumeros DEF TokensInv
    <3>2. ParaPlanificar # {}
      BY <3>1, FS_EmptySet
    <3>3. PICK p \in Pids : estado[p] = "READY" /\ Planificable(p)
      BY <3>2 DEF ParaPlanificar
    <3>4. EnReady(p)
      BY <3>3, EstadoPorLista
    <3>5. PICK q \in Colas : EnLista(p, colas_ready[q])
      BY <3>4 DEF EnReady
    <3>6. colas_ready[q] # <<>>
      BY <3>5 DEF EnLista
    <3>7. QED
      BY <3>6 DEF ConProcesos
  <2>4. CASE lista_cpus_libres = <<>>
    <3>1. estado' = estado /\ prioridad' = prioridad /\ planificador' = planificador
      BY <1>6, <2>3, <2>4 DEF PlanificadorElegir, procesoVars
    <3>2. Tomado' = Tomado
      BY <3>1 DEF Tomado
    <3>3. QED
      BY <1>2, <2>1, <3>1, <3>2, ParaPlanificarQuieto DEF TokensInv
  <2>5. CASE lista_cpus_libres # <<>>
    <3> DEFINE p == Head(colas_ready[PrimeraCola])
    <3>1. /\ estado' = [estado EXCEPT ![p] = "EXEC"] /\ prioridad' = prioridad
          /\ planificador'.pc = "enviar"
      BY <1>6, <2>3, <2>5 DEF PlanificadorElegir
    <3>2. p \in Pids /\ estado[p] = "READY" /\ Planificable(p)
      BY <2>3, ElegirEfecto
    <3> HIDE DEF p
    <3>3. \A x \in Pids : estado'[x] = IF x = p THEN "EXEC" ELSE estado[x]
      BY <3>1 DEF PlanInv, TypeOK, KsTipo
    <3>4. \A x \in Pids : Planificable(x)' <=> Planificable(x)
      BY <3>1 DEF Planificable
    <3>5. ParaPlanificar' = ParaPlanificar \ {p} /\ p \in ParaPlanificar
      BY <3>2, <3>3, <3>4 DEF ParaPlanificar
    <3>6. Cardinality(ParaPlanificar \ {p}) = Cardinality(ParaPlanificar) - 1
      BY <3>5, TokensNumeros, FS_RemoveElement
    <3>7. Tomado' = 0
      BY <3>1 DEF Tomado
    <3>8. QED
      BY <1>2, <2>1, <2>2, <3>5, <3>6, <3>7, TokensNumeros DEF TokensInv
  <2>6. QED
    BY <2>4, <2>5
<1>7. QED
  BY <1>4, <1>5, <1>6 DEF Planificador

\* The threads of the CPUs that put no process in a queue.
LEMMA TokensSinEncolar ==
  ASSUME PlanInv, TokensInv, NEW c \in Cpus, NEW op,
         \/ Avisar(c) \/ Postear(c) \/ ManejarFinQuantumFin(c) \/ FinalizaFin(c)
         \/ Finaliza(c, op) \/ ManejarInitProc(c) \/ ManejarInitProcError(c)
         \/ ManejarSyscallSinProceso(c) \/ ManejarInitProcFin(c)
         \/ DesconectarCpuFin(c)
  PROVE  TokensInv'
<1>1. /\ HiloOK(hilo_cpu[c], estado) /\ hilo_cpu[c] \in Hilo /\ hilo_cpu \in [Cpus -> Hilo]
      /\ estado \in [Pids -> EstadosProceso] /\ lista_exec \in Seq(Pids)
      /\ prioridad \in [Pids -> Prioridades \cup {0}]
  BY PartesTipo DEF PlanInv, TypeOK, HilosInv, KsTipo
<1>2. /\ Uno(hilo_cpu[c].planificable) \in Nat
      /\ ~ hilo_cpu[c].planificable => Uno(hilo_cpu[c].planificable) = 0
  BY DEF Uno
<1>3. Cardinality(ParaPlanificar) \in Nat /\ sem_hay_procesos_ready \in Nat
  BY TokensNumeros
<1>4. \A pc \in {"recibir", "cerrado", "postear"} : Uno(HiloEn(pc).planificable) = 0
  BY DEF HiloEn, Uno
<1>5. CASE Avisar(c)
  <2> DEFINE h == [hilo_cpu[c] EXCEPT !.pc = hilo_cpu[c].luego, !.aviso = SinAviso]
  <2>1. /\ UNCHANGED <<estado, prioridad, sem_hay_procesos_ready, planificador>>
        /\ hilo_cpu' = [hilo_cpu EXCEPT ![c] = h]
    BY <1>1, <1>5 DEF Avisar, procesoVars, semVars
  <2>2. h.planificable = hilo_cpu[c].planificable
    BY <1>1 DEF Hilo
  <2> HIDE DEF h
  <2>3. ParaPlanificar' = ParaPlanificar
    BY <2>1, ParaPlanificarQuieto
  <2>4. Uno(h.planificable) = Uno(hilo_cpu[c].planificable)
    BY <2>2
  <2>5. QED
    BY <1>3, <2>1, <2>3, <2>4, TokensHilo
<1>6. CASE Postear(c) \/ ManejarInitProcFin(c) \/ DesconectarCpuFin(c)
  <2>1. PICK pc \in {"recibir", "cerrado"} : hilo_cpu' = [hilo_cpu EXCEPT ![c] = HiloEn(pc)]
    BY <1>6 DEF Postear, ManejarInitProcFin, DesconectarCpuFin
  <2>2. /\ UNCHANGED <<estado, prioridad, planificador>>
        /\ sem_hay_procesos_ready' = sem_hay_procesos_ready
                                       + (IF hilo_cpu[c].planificable THEN 1 ELSE 0)
    BY <1>6 DEF Postear, ManejarInitProcFin, DesconectarCpuFin, procesoVars
  <2>3. sem_hay_procesos_ready' = sem_hay_procesos_ready + Uno(hilo_cpu[c].planificable)
    BY <2>2 DEF Uno
  <2>4. ParaPlanificar' = ParaPlanificar
    BY <2>2, ParaPlanificarQuieto
  <2>5. Uno(HiloEn(pc).planificable) = 0
    BY <1>4
  <2>6. sem_hay_procesos_ready' + Uno(HiloEn(pc).planificable) + Cardinality(ParaPlanificar)
          = sem_hay_procesos_ready + Uno(hilo_cpu[c].planificable)
              + Cardinality(ParaPlanificar')
    BY <1>2, <1>3, <2>3, <2>4, <2>5
  <2>7. sem_hay_procesos_ready' \in Nat /\ Cardinality(ParaPlanificar') \in Nat
    BY <1>2, <1>3, <2>3, <2>4
  <2>8. QED
    BY <2>1, <2>2, <2>6, <2>7, TokensHilo
<1>7. CASE ManejarFinQuantumFin(c)
  <2> DEFINE h == [HiloEn("postear") EXCEPT !.planificable = hilo_cpu[c].planificable]
  <2>1. /\ UNCHANGED <<estado, prioridad, sem_hay_procesos_ready, planificador>>
        /\ hilo_cpu' = [hilo_cpu EXCEPT ![c] = h]
    BY <1>7 DEF ManejarFinQuantumFin, procesoVars, semVars
  <2>2. h.planificable = hilo_cpu[c].planificable
    BY DEF HiloEn
  <2> HIDE DEF h
  <2>3. ParaPlanificar' = ParaPlanificar
    BY <2>1, ParaPlanificarQuieto
  <2>4. Uno(h.planificable) = Uno(hilo_cpu[c].planificable)
    BY <2>2
  <2>5. QED
    BY <1>3, <2>1, <2>3, <2>4, TokensHilo
<1>8. CASE FinalizaFin(c)
  <2>1. /\ hilo_cpu[c].pc = "exit_fin"
        /\ UNCHANGED <<estado, prioridad, sem_hay_procesos_ready, planificador>>
        /\ hilo_cpu' = [hilo_cpu EXCEPT ![c] = HiloEn("postear")]
    BY <1>8 DEF FinalizaFin, semVars
  <2>2. Uno(hilo_cpu[c].planificable) = 0
    BY <1>1, <1>2, <2>1 DEF HiloOK
  <2>3. ParaPlanificar' = ParaPlanificar
    BY <2>1, ParaPlanificarQuieto
  <2>4. Uno(HiloEn("postear").planificable) = 0
    BY <1>4
  <2>5. QED
    BY <1>3, <2>1, <2>2, <2>3, <2>4, TokensHilo
<1>9. CASE UNCHANGED <<estado, prioridad, sem_hay_procesos_ready, planificador, hilo_cpu>>
  BY <1>9, ParaPlanificarQuieto DEF TokensInv, PorAvisar, Tomado
<1>10. CASE ManejarInitProcError(c) \/ ManejarSyscallSinProceso(c)
  BY <1>9, <1>10 DEF ManejarInitProcError, ManejarSyscallSinProceso, ksVars,
                     procesoVars, semVars, hiloVars
<1>11. CASE Finaliza(c, op)
  <2> DEFINE p == Head(de_cpu[c]).pid
             h == [HiloEn("exit_fin") EXCEPT !.pid = p, !.cpu = cpu[p]]
  <2>1. CASE ~ EnLista(p, lista_exec)
    BY <1>9, <1>11, <2>1 DEF Finaliza, semVars
  <2>2. CASE EnLista(p, lista_exec)
    <3>1. /\ hilo_cpu[c].pc = "recibir"
          /\ estado' = [estado EXCEPT ![p] = "EXIT"]
          /\ hilo_cpu' = [hilo_cpu EXCEPT ![c] = h]
          /\ UNCHANGED <<prioridad, sem_hay_procesos_ready, planificador>>
      BY <1>11, <2>2 DEF Finaliza, Recibe, semVars
    <3>2. p \in Pids
      BY <1>1, <2>2, EnListaTipo
    <3>3. estado[p] = "EXEC"
      BY <2>2, <3>2, EstadoPorLista
    <3>4. Uno(h.planificable) = 0
      BY DEF HiloEn, Uno
    <3> HIDE DEF p, h
    <3>5. Uno(hilo_cpu[c].planificable) = 0
      BY <1>1, <1>2, <3>1 DEF HiloOK
    <3>6. Cardinality(ParaPlanificar') = Cardinality(ParaPlanificar)
      <4>1. Cardinality(ParaPlanificar') = Cardinality(ParaPlanificar)
              + (IF "EXIT" = "READY" /\ Planificable(p) THEN 1 ELSE 0)
        <5>1. prioridad' = prioridad /\ estado' = [estado EXCEPT ![p] = "EXIT"]
              /\ estado[p] # "READY"
          BY <3>1, <3>3
        <5>2. QED
          BY <3>2, <5>1, ParaPlanificarCambia
      <4>2. QED
        BY <1>3, <4>1
    <3>7. QED
      BY <1>3, <3>1, <3>4, <3>5, <3>6, TokensHilo
  <2>3. QED
    BY <2>1, <2>2
<1>12. CASE ManejarInitProc(c)
  <2> DEFINE p == proximo_pid
             h == [HiloEn("init_nuevo") EXCEPT !.pid = proximo_pid]
  <2>1. /\ hilo_cpu[c].pc = "recibir" /\ p \in Pids
        /\ estado' = [estado EXCEPT ![p] = "NEW"]
        /\ prioridad' = [prioridad EXCEPT ![p] = Head(de_cpu[c]).prioridad]
        /\ hilo_cpu' = [hilo_cpu EXCEPT ![c] = h]
        /\ UNCHANGED <<sem_hay_procesos_ready, planificador>>
    BY <1>12 DEF ManejarInitProc, Recibe, semVars
  <2>2. estado[p] = "SIN_CREAR"
    BY <2>1 DEF PlanInv, TypeOK, KsTipo, ProcesosInv
  <2>3. Uno(h.planificable) = 0
    BY DEF HiloEn, Uno
  <2> HIDE DEF p, h
  <2>4. Uno(hilo_cpu[c].planificable) = 0
    BY <1>1, <1>2, <2>1 DEF HiloOK
  <2>5. ParaPlanificar' = ParaPlanificar
    BY <1>1, <2>1, <2>2 DEF ParaPlanificar, Planificable
  <2>6. QED
    BY <1>3, <2>1, <2>3, <2>4, <2>5, TokensHilo
<1>13. QED
  BY <1>5, <1>6, <1>7, <1>8, <1>10, <1>11, <1>12

\* encolar_en_ready: a process more in the queues, and the thread that put it
\* there is to tell the planner.
LEMMA TokensEncolar ==
  ASSUME PlanInv, TokensInv, NEW c \in Cpus, NEW p \in Pids, NEW exec \in Seq(Pids),
         NEW luego \in {"fq_fin", "init_fin", "desc_fin"},
         EncolarEnReady(c, p, exec, luego),
         estado[p] \in {"NEW", "EXEC"}, estado' = [estado EXCEPT ![p] = "READY"],
         hilo_cpu[c].pc \in {"recibir", "init_nuevo"},
         UNCHANGED <<prioridad, planificador, sem_hay_procesos_ready>>
  PROVE  TokensInv'
<1>1. KsTipo /\ HiloOK(hilo_cpu[c], estado)
  BY DEF PlanInv, TypeOK, HilosInv
<1>2. PICK h \in Hilo : /\ hilo_cpu' = [hilo_cpu EXCEPT ![c] = h]
                        /\ h.planificable <=> Planificable(p)
  BY <1>1, EncolarEfecto
<1>3. Uno(hilo_cpu[c].planificable) = 0
  BY <1>1 DEF HiloOK, Uno
<1>4. Cardinality(ParaPlanificar) \in Nat /\ sem_hay_procesos_ready \in Nat
  BY TokensNumeros
<1>5. Cardinality(ParaPlanificar') = Cardinality(ParaPlanificar)
                                       + (IF Planificable(p) THEN 1 ELSE 0)
  BY ParaPlanificarCambia
<1>6. Cardinality(ParaPlanificar') = Cardinality(ParaPlanificar) + Uno(h.planificable)
      /\ Uno(h.planificable) \in Nat
  BY <1>2, <1>5 DEF Uno
<1>7. sem_hay_procesos_ready' + Uno(h.planificable) + Cardinality(ParaPlanificar)
        = sem_hay_procesos_ready + Uno(hilo_cpu[c].planificable)
            + Cardinality(ParaPlanificar')
  BY <1>3, <1>4, <1>6
<1>8. sem_hay_procesos_ready' \in Nat /\ Cardinality(ParaPlanificar') \in Nat
  BY <1>4, <1>6
<1>9. QED
  BY <1>2, <1>7, <1>8, TokensHilo

\* The threads of the CPUs that put a process in a queue.
LEMMA TokensEncolan ==
  ASSUME PlanInv, TokensInv, NEW c \in Cpus,
         ManejarFinQuantum(c) \/ MoverProcesoAReady(c) \/ DesconectarCpu(c)
  PROVE  TokensInv'
<1>1. /\ KsTipo /\ lista_exec \in Seq(Pids) /\ HiloOK(hilo_cpu[c], estado)
  BY DEF PlanInv, TypeOK, KsTipo, HilosInv
<1>2. CASE ManejarFinQuantum(c)
  <2> DEFINE p == Head(de_cpu[c]).pid
  <2>1. CASE ~ EnLista(p, lista_exec)
    <3>1. UNCHANGED <<estado, prioridad, sem_hay_procesos_ready, planificador, hilo_cpu>>
      BY <1>2, <2>1 DEF ManejarFinQuantum, semVars
    <3>2. QED
      BY <3>1, ParaPlanificarQuieto DEF TokensInv, PorAvisar, Tomado
  <2>2. CASE EnLista(p, lista_exec)
    <3>1. /\ hilo_cpu[c].pc = "recibir"
          /\ estado' = [estado EXCEPT ![p] = "READY"]
          /\ EncolarEnReady(c, p, RemoveFirst(lista_exec, p), "fq_fin")
          /\ UNCHANGED <<prioridad, planificador, sem_hay_procesos_ready>>
      BY <1>2, <2>2 DEF ManejarFinQuantum, Recibe, semVars
    <3>2. p \in Pids
      BY <1>1, <2>2, EnListaTipo
    <3>3. estado[p] = "EXEC"
      BY <2>2, <3>2, EstadoPorLista
    <3>4. RemoveFirst(lista_exec, p) \in Seq(Pids)
      BY <1>1, VecesQuitar
    <3> HIDE DEF p
    <3>5. QED
      BY <3>1, <3>2, <3>3, <3>4, TokensEncolar
  <2>3. QED
    BY <2>1, <2>2
<1>3. CASE MoverProcesoAReady(c)
  <2> DEFINE p == hilo_cpu[c].pid
  <2>1. /\ hilo_cpu[c].pc = "init_nuevo"
        /\ estado' = [estado EXCEPT ![p] = "READY"]
        /\ EncolarEnReady(c, p, lista_exec, "init_fin")
        /\ UNCHANGED <<prioridad, planificador, sem_hay_procesos_ready>>
    BY <1>3 DEF MoverProcesoAReady, semVars
  <2>2. p \in Pids /\ estado[p] = "NEW"
    BY <1>1, <2>1 DEF HiloOK
  <2> HIDE DEF p
  <2>3. QED
    BY <1>1, <2>1, <2>2, TokensEncolar
<1>4. CASE DesconectarCpu(c)
  <2>1. hilo_cpu[c].pc = "recibir"
        /\ UNCHANGED <<prioridad, planificador, sem_hay_procesos_ready>>
    BY <1>4 DEF DesconectarCpu, Recibe
  <2>2. CASE EnLaCpu(c) = {}
    <3>1. hilo_cpu' = [hilo_cpu EXCEPT ![c] = HiloEn("cerrado")] /\ estado' = estado
      BY <1>4, <2>2 DEF DesconectarCpu
    <3>2. Uno(hilo_cpu[c].planificable) = 0
      BY <1>1, <2>1 DEF HiloOK, Uno
    <3>3. Uno(HiloEn("cerrado").planificable) = 0
      BY DEF HiloEn, Uno
    <3>4. ParaPlanificar' = ParaPlanificar
      BY <2>1, <3>1, ParaPlanificarQuieto
    <3>5. QED
      BY <2>1, <3>1, <3>2, <3>3, <3>4, TokensNumeros, TokensHilo
  <2>3. CASE EnLaCpu(c) # {}
    <3>1. PICK p \in Pids : /\ EnLista(p, lista_exec)
                            /\ estado' = [estado EXCEPT ![p] = "READY"]
                            /\ EncolarEnReady(c, p, RemoveFirst(lista_exec, p), "desc_fin")
      BY <1>4, <2>3, DesconectarProceso
    <3>2. estado[p] = "EXEC"
      BY <3>1, EstadoPorLista
    <3>3. RemoveFirst(lista_exec, p) \in Seq(Pids)
      BY <1>1, VecesQuitar
    <3>4. QED
      BY <2>1, <3>1, <3>2, <3>3, TokensEncolar
  <2>4. QED
    BY <2>2, <2>3
<1>5. QED
  BY <1>2, <1>3, <1>4

\* Every step.
LEMMA TokensPaso ==
  ASSUME PlanInv, TokensInv, [Next]_vars
  PROVE  TokensInv'
<1>1. CASE UNCHANGED <<estado, prioridad, sem_hay_procesos_ready, planificador, hilo_cpu>>
  BY <1>1, ParaPlanificarQuieto DEF TokensInv, PorAvisar, Tomado
<1>2. CASE PasoPlanificador
  BY <1>2, TokensPlanificador DEF PasoPlanificador, Ks
<1>3. ASSUME NEW t \in Timers, PasoHiloQuantum(t)
      PROVE  TokensInv'
  BY <1>1, <1>3 DEF PasoHiloQuantum, Ks, HiloQuantum, HiloQuantumVence,
                    HiloQuantumInterrumpe, procesoVars, semVars
<1>4. ASSUME NEW c \in Cpus, PasoHiloCpu(c)
      PROVE  TokensInv'
  <2>1. HiloCpu(c)
    BY <1>4 DEF PasoHiloCpu, Ks
  <2>2. QED
    BY <2>1, TokensSinEncolar, TokensEncolan DEF HiloCpu, ManejarProcesoExit, ManejarSegFault
<1>5. ASSUME NEW c \in Cpus, Conectar(c)
      PROVE  TokensInv'
  <2>1. /\ hilo_cpu[c].pc = "no" /\ hilo_cpu' = [hilo_cpu EXCEPT ![c] = HiloEn("postear")]
        /\ UNCHANGED <<estado, prioridad, planificador, sem_hay_procesos_ready>>
    BY <1>5 DEF Conectar, AtenderCpu, procesoVars, semVars
  <2>2. Uno(hilo_cpu[c].planificable) = 0
    BY <2>1 DEF PlanInv, HilosInv, HiloOK, Uno
  <2>3. Uno(HiloEn("postear").planificable) = 0
    BY DEF HiloEn, Uno
  <2>4. ParaPlanificar' = ParaPlanificar
    BY <2>1, ParaPlanificarQuieto
  <2>5. QED
    BY <2>1, <2>2, <2>3, <2>4, TokensNumeros, TokensHilo
<1>6. ASSUME NEW c \in Cpus, PasoCpu(c) \/ Apagar(c)
      PROVE  TokensInv'
  BY <1>1, <1>6 DEF PasoCpu, Apagar, ksVars, procesoVars, semVars, hiloVars
<1>7. CASE UNCHANGED vars
  BY <1>1, <1>7 DEF vars, ksVars, procesoVars, semVars, hiloVars
<1>8. QED
  BY <1>2, <1>3, <1>4, <1>5, <1>6, <1>7 DEF Next

\* The first process is in its queue, and its token in the semaphore.
LEMMA TokensInicial ==
  ASSUME Init
  PROVE  TokensInv
<1>1. /\ estado = [p \in Pids |-> IF p = 0 THEN "READY" ELSE "SIN_CREAR"]
      /\ sem_hay_procesos_ready = IF 0 \in Colas THEN 1 ELSE 0
  BY DEF Init, KsInit
<1>2. prioridad = [p \in Pids |-> 0]
      /\ planificador = [pc |-> "ready", pid |-> Nadie, cpu |-> Nulo, timer |-> Nulo]
      /\ hilo_cpu = [c \in Cpus |-> HiloEn("no")]
  BY DEF Init, KsInit
<1>3. 0 \in Pids /\ Pids \subseteq Nat
  BY PlanificacionOK
<1>4. 0 \in Colas <=> Planificable(0)
  <2>1. prioridad[0] = 0
    BY <1>2, <1>3
  <2>2. ~ Cmn => 0 \in Colas
    BY DEF Colas, CantidadColas
  <2>3. QED
    BY <2>1, <2>2 DEF Planificable
<1>5. ~ HiloEn("no").planificable
  BY DEF HiloEn
<1>6. PorAvisar = {} /\ Tomado = 0
  BY <1>2, <1>5 DEF PorAvisar, Tomado
<1>7. ParaPlanificar = IF 0 \in Colas THEN {0} ELSE {}
  <2>1. estado[0] = "READY"
    BY <1>1, <1>3
  <2>2. ASSUME NEW p \in Pids, p # 0 PROVE estado[p] # "READY"
    BY <1>1, <2>2
  <2>3. QED
    BY <1>3, <1>4, <2>1, <2>2 DEF ParaPlanificar
<1>8. Cardinality(PorAvisar) = 0
      /\ Cardinality(ParaPlanificar) = IF 0 \in Colas THEN 1 ELSE 0
  BY <1>6, <1>7, FS_EmptySet, FS_Singleton
<1>9. QED
  BY <1>1, <1>6, <1>8 DEF TokensInv

\* The equation of sem_hay_procesos_ready, in every state.
LEMMA TokensSiempre == Spec => [](PlanInv /\ TokensInv)
<1>1. PlanInv /\ TokensInv /\ [Next]_vars => PlanInv' /\ TokensInv'
  BY PlanPaso, TokensPaso
<1>2. Init => PlanInv /\ TokensInv
  BY PlanInicial, TokensInicial
<1>3. QED
  BY <1>1, <1>2, PTL DEF Spec

\* sem_hay_procesos_ready counts the processes of the queues, but for the token
\* the planner has taken and those the threads have still to post: encolar_en_ready
\* and the posts after it lose none and add none, whatever the algorithm, and the
\* planner never finds the queues empty (TokensReady).
THEOREM UnTokenPorProceso == Spec => []TokensReady
<1>1. PlanInv /\ TokensInv => TokensReady
  BY TokensDeCola
<1>2. QED
  BY <1>1, TokensSiempre, PTL

-----------------------------------------------------------------------------
(* The tokens of sem_hay_cpus_libres.                                       *)

SinApagadas == \A c \in Cpus : cpu_estado[c] # "apagada"

\* Only a CPU that was stopped closes its connection.
ApagadasInv ==
  \A c \in Cpus : \A i \in DOMAIN de_cpu[c] :
    de_cpu[c][i].op = "FIN_CONEXION" => cpu_estado[c] = "apagada"

PorPostear == {c \in Cpus : hilo_cpu[c].pc = "postear"}

\* One when the thread is about to post, to add up.
VaAPostear(h) == IF h.pc = "postear" THEN 1 ELSE 0

\* The token the planner has taken.
Llevado == IF planificador.pc = "puede" THEN 1 ELSE 0

\* How many CPUs the list has.
Libres == Len(lista_cpus_libres)

LibresInv == sem_hay_cpus_libres + Llevado + Cardinality(PorPostear) = Libres

\* What a CPU does to its state and to its connection.
LEMMA CpuEfecto ==
  ASSUME CpuTipo, NEW c \in Cpus, CpuPaso(c)
  PROVE  /\ cpu_estado[c] \in {"espera", "ejecuta", "respuesta"}
         /\ \A d \in Cpus : \/ cpu_estado'[d] = cpu_estado[d]
                            \/ d = c /\ cpu_estado'[d] \in {"espera", "ejecuta", "respuesta"}
         /\ \/ de_cpu' = de_cpu
            \/ \E op \in OpsCpu \ {"FIN_CONEXION"} : \E p, prio : de_cpu' = AlKs(c, op, p, prio)
<1>1. cpu_estado \in [Cpus -> EstadosCpu]
  BY DEF CpuTipo
<1>2. \A op : AvisarFinAScheduler(c, op) =>
        /\ cpu_estado' = [cpu_estado EXCEPT ![c] = "espera"]
        /\ \E p, prio : de_cpu' = AlKs(c, op, p, prio)
  BY DEF AvisarFinAScheduler
<1>3. {"PROCESO_EXIT", "PROCESO_SEG_FAULT", "PROCESO_FIN_QUANTUM", "INIT_PROC"}
        \subseteq OpsCpu \ {"FIN_CONEXION"}
  BY DEF OpsCpu
<1>4. ASSUME NEW canal, CheckInterrupt(c, canal)
      PROVE  /\ \E e \in {"espera", "ejecuta"} : cpu_estado' = [cpu_estado EXCEPT ![c] = e]
             /\ \/ de_cpu' = de_cpu
                \/ \E p, prio : de_cpu' = AlKs(c, "PROCESO_FIN_QUANTUM", p, prio)
  <2>1. CASE PideInterrupcion(c, canal)
    BY <1>2, <1>4, <2>1 DEF CheckInterrupt
  <2>2. CASE ~ PideInterrupcion(c, canal)
    BY <1>4, <2>2 DEF CheckInterrupt
  <2>3. QED
    BY <2>1, <2>2
<1>5. CASE CpuRecibeProceso(c) \/ CpuDescarta(c) \/ RespuestaInterrumpida(c)
  BY <1>1, <1>5 DEF CpuRecibeProceso, CpuDescarta, RespuestaInterrumpida,
                    EsperaRespuesta, cpuVars
<1>6. CASE EjecutarComun(c) \/ RespuestaOk(c)
  <2>1. cpu_estado[c] \in {"espera", "ejecuta", "respuesta"}
    BY <1>6 DEF EjecutarComun, RespuestaOk, OtroCiclo, EsperaRespuesta
  <2>2. \E canal : CheckInterrupt(c, canal)
    BY <1>6 DEF EjecutarComun, RespuestaOk
  <2>3. /\ \E e \in {"espera", "ejecuta"} : cpu_estado' = [cpu_estado EXCEPT ![c] = e]
        /\ \/ de_cpu' = de_cpu
           \/ \E p, prio : de_cpu' = AlKs(c, "PROCESO_FIN_QUANTUM", p, prio)
    BY <1>4, <2>2
  <2>4. \A d \in Cpus : \/ cpu_estado'[d] = cpu_estado[d]
                        \/ d = c /\ cpu_estado'[d] \in {"espera", "ejecuta", "respuesta"}
    BY <1>1, <2>3
  <2>5. QED
    BY <1>3, <2>1, <2>3, <2>4
<1>7. ASSUME NEW prio \in Prioridades, EjecutarSyscallInitProc(c, prio)
      PROVE  /\ cpu_estado[c] = "ejecuta"
             /\ cpu_estado' = [cpu_estado EXCEPT ![c] = "respuesta"]
             /\ \E p, pr : de_cpu' = AlKs(c, "INIT_PROC", p, pr)
  BY <1>7 DEF EjecutarSyscallInitProc, OtroCiclo
<1>8. CASE \E prio \in Prioridades : EjecutarSyscallInitProc(c, prio)
  <2>1. /\ cpu_estado[c] = "ejecuta"
        /\ cpu_estado' = [cpu_estado EXCEPT ![c] = "respuesta"]
        /\ \E p, pr : de_cpu' = AlKs(c, "INIT_PROC", p, pr)
    BY <1>7, <1>8
  <2>2. QED
    BY <1>1, <1>3, <2>1
<1>9. CASE EjecutarExit(c) \/ EjecutarSegFault(c) \/ RespuestaError(c)
  <2>1. cpu_estado[c] \in {"espera", "ejecuta", "respuesta"}
    BY <1>9 DEF EjecutarExit, EjecutarSegFault, RespuestaError, EsperaRespuesta
  <2>2. \E op \in {"PROCESO_EXIT", "PROCESO_SEG_FAULT"} : AvisarFinAScheduler(c, op)
    BY <1>9 DEF EjecutarExit, EjecutarSegFault, RespuestaError
  <2>3. PICK op \in {"PROCESO_EXIT", "PROCESO_SEG_FAULT"} : AvisarFinAScheduler(c, op)
    BY <2>2
  <2>4. /\ cpu_estado' = [cpu_estado EXCEPT ![c] = "espera"]
        /\ \E p, prio : de_cpu' = AlKs(c, op, p, prio)
    BY <1>2, <2>3
  <2>5. QED
    BY <1>1, <1>3, <2>1, <2>4
<1>10. QED
  BY <1>5, <1>6, <1>8, <1>9 DEF CpuPaso

\* recibir_entero takes messages and adds none.
LEMMA RecibeResto ==
  ASSUME CanalesTipo, NEW c \in Cpus, NEW op, Recibe(c, op)
  PROVE  \A d \in Cpus : \A i \in DOMAIN de_cpu'[d] :
           \E j \in DOMAIN de_cpu[d] : de_cpu'[d][i] = de_cpu[d][j]
<1>1. /\ de_cpu \in [Cpus -> Seq(MensajeCpu)]
      /\ de_cpu[c] # <<>> /\ de_cpu' = [de_cpu EXCEPT ![c] = Tail(@)]
  BY DEF CanalesTipo, Recibe
<1>2. \A d \in Cpus \ {c} : de_cpu'[d] = de_cpu[d]
  BY <1>1
<1>3. de_cpu[c] \in Seq(MensajeCpu) /\ de_cpu'[c] = Tail(de_cpu[c])
  BY <1>1
<1>4. ASSUME NEW i \in DOMAIN Tail(de_cpu[c])
      PROVE  i + 1 \in DOMAIN de_cpu[c] /\ Tail(de_cpu[c])[i] = de_cpu[c][i + 1]
  BY <1>1, <1>3, HeadTailProperties, LenProperties
<1>5. QED
  BY <1>2, <1>3, <1>4

\* A thread of the Kernel Scheduler takes messages of the CPUs, if anything.
LEMMA KsRecibe ==
  ASSUME CanalesTipo, NEW c \in Cpus, HiloCpu(c)
  PROVE  de_cpu' = de_cpu \/ \E op : Recibe(c, op)
BY DEF HiloCpu, Avisar, Postear, ManejarFinQuantum, ManejarFinQuantumFin,
       ManejarProcesoExit, ManejarSegFault, Finaliza, FinalizaFin, ManejarInitProc,
       ManejarInitProcError, ManejarSyscallSinProceso, MoverProcesoAReady,
       ManejarInitProcFin, DesconectarCpu, DesconectarCpuFin, canales

\* What a CPU that was stopped leaves behind does not go away, so a state without
\* stopped CPUs comes from one without them.
LEMMA ApagadasPaso ==
  ASSUME PlanInv, ApagadasInv, [Next]_vars
  PROVE  ApagadasInv' /\ (SinApagadas' => SinApagadas)
<1>1. CanalesTipo /\ CpuTipo
  BY DEF PlanInv, TypeOK
<1>2. ASSUME cpu_estado' = cpu_estado,
             \A d \in Cpus : \A i \in DOMAIN de_cpu'[d] :
               \E j \in DOMAIN de_cpu[d] : de_cpu'[d][i] = de_cpu[d][j]
      PROVE  ApagadasInv' /\ (SinApagadas' => SinApagadas)
  BY <1>2 DEF ApagadasInv, SinApagadas
<1>3. CASE de_cpu' = de_cpu /\ cpu_estado' = cpu_estado
  BY <1>3 DEF ApagadasInv, SinApagadas
<1>4. CASE PasoPlanificador
  BY <1>3, <1>4 DEF PasoPlanificador, Ks, Planificador, PlanificadorEsperaReady,
                    PlanificadorEsperaCpu, PlanificadorElegir, PlanificadorEnviar,
                    cpuVars, canales
<1>5. ASSUME NEW t \in Timers, PasoHiloQuantum(t)
      PROVE  ApagadasInv' /\ (SinApagadas' => SinApagadas)
  BY <1>3, <1>5 DEF PasoHiloQuantum, Ks, HiloQuantum, HiloQuantumVence,
                    HiloQuantumInterrumpe, cpuVars, canales
<1>6. ASSUME NEW c \in Cpus, PasoHiloCpu(c)
      PROVE  ApagadasInv' /\ (SinApagadas' => SinApagadas)
  <2>1. cpu_estado' = cpu_estado /\ HiloCpu(c)
    BY <1>6 DEF PasoHiloCpu, Ks, cpuVars
  <2>2. CASE de_cpu' = de_cpu
    BY <1>3, <2>1, <2>2
  <2>3. CASE \E op : Recibe(c, op)
    BY <1>1, <1>2, <2>1, <2>3, RecibeResto
  <2>4. QED
    BY <1>1, <2>1, <2>2, <2>3, KsRecibe
<1>7. ASSUME NEW c \in Cpus, Conectar(c)
      PROVE  ApagadasInv' /\ (SinApagadas' => SinApagadas)
  <2>1. /\ cpu_estado[c] = "sin_conectar" /\ cpu_estado' = [cpu_estado EXCEPT ![c] = "espera"]
        /\ de_cpu' = de_cpu
    BY <1>7 DEF Conectar, AtenderCpu, CpuConecta, canales
  <2>2. \A d \in Cpus : cpu_estado'[d] = IF d = c THEN "espera" ELSE cpu_estado[d]
    BY <1>1, <2>1 DEF CpuTipo
  <2>3. QED
    BY <2>1, <2>2 DEF ApagadasInv, SinApagadas
<1>8. ASSUME NEW c \in Cpus, PasoCpu(c) \/ Apagar(c)
      PROVE  ApagadasInv' /\ (SinApagadas' => SinApagadas)
  <2>1. de_cpu \in [Cpus -> Seq(MensajeCpu)]
    BY <1>1 DEF CanalesTipo
  <2>2. ASSUME NEW op, NEW p, NEW prio, de_cpu' = AlKs(c, op, p, prio)
        PROVE  /\ \A d \in Cpus \ {c} : de_cpu'[d] = de_cpu[d]
               /\ \A i \in DOMAIN de_cpu'[c] :
                    \/ de_cpu'[c][i].op = op
                    \/ i \in DOMAIN de_cpu[c] /\ de_cpu'[c][i] = de_cpu[c][i]
    <3>1. de_cpu' = [de_cpu EXCEPT ![c] =
                       Append(de_cpu[c], [op |-> op, pid |-> p, prioridad |-> prio])]
      BY <2>2 DEF AlKs
    <3>2. /\ \A d \in Cpus \ {c} : de_cpu'[d] = de_cpu[d]
          /\ de_cpu'[c] = Append(de_cpu[c], [op |-> op, pid |-> p, prioridad |-> prio])
      BY <2>1, <3>1
    <3>3. de_cpu[c] \in Seq(MensajeCpu)
      BY <2>1
    <3> DEFINE m == [op |-> op, pid |-> p, prioridad |-> prio]
    <3>4. m.op = op
      OBVIOUS
    <3> HIDE DEF m
    <3>5. \A i \in DOMAIN Append(de_cpu[c], m) :
            \/ Append(de_cpu[c], m)[i] = m
            \/ i \in DOMAIN de_cpu[c] /\ Append(de_cpu[c], m)[i] = de_cpu[c][i]
      BY <3>3
    <3>6. QED
      BY <3>2, <3>4, <3>5 DEF m
  <2>3. CASE PasoCpu(c)
    <3>1. CpuPaso(c)
      BY <2>3 DEF PasoCpu
    <3>2. /\ cpu_estado[c] \in {"espera", "ejecuta", "respuesta"}
          /\ \A d \in Cpus : \/ cpu_estado'[d] = cpu_estado[d]
                             \/ d = c /\ cpu_estado'[d] \in {"espera", "ejecuta", "respuesta"}
          /\ \/ de_cpu' = de_cpu
             \/ \E op \in OpsCpu \ {"FIN_CONEXION"} : \E p, prio : de_cpu' = AlKs(c, op, p, prio)
      BY <1>1, <3>1, CpuEfecto
    <3>3. SinApagadas' => SinApagadas
      BY <3>2 DEF SinApagadas
    <3>4. \A i \in DOMAIN de_cpu[c] : de_cpu[c][i].op # "FIN_CONEXION"
      BY <3>2 DEF ApagadasInv
    <3>5. CASE de_cpu' = de_cpu
      BY <3>2, <3>3, <3>4, <3>5 DEF ApagadasInv
    <3>6. CASE \E op \in OpsCpu \ {"FIN_CONEXION"} : \E p, prio : de_cpu' = AlKs(c, op, p, prio)
      <4>1. PICK op, p, prio : op # "FIN_CONEXION" /\ de_cpu' = AlKs(c, op, p, prio)
        BY <3>6
      <4>2. /\ \A d \in Cpus \ {c} : de_cpu'[d] = de_cpu[d]
            /\ \A i \in DOMAIN de_cpu'[c] : de_cpu'[c][i].op # "FIN_CONEXION"
        BY <2>2, <3>4, <4>1
      <4>3. QED
        BY <3>2, <3>3, <4>2 DEF ApagadasInv
    <3>7. QED
      BY <3>2, <3>5, <3>6
  <2>4. CASE Apagar(c)
    <3>1. /\ cpu_estado' = [cpu_estado EXCEPT ![c] = "apagada"]
          /\ de_cpu' = AlKs(c, "FIN_CONEXION", Nadie, 0)
      BY <2>4 DEF Apagar, CpuSeApaga
    <3>2. \A d \in Cpus : cpu_estado'[d] = IF d = c THEN "apagada" ELSE cpu_estado[d]
      BY <1>1, <3>1 DEF CpuTipo
    <3>3. \A d \in Cpus \ {c} : de_cpu'[d] = de_cpu[d]
      BY <2>2, <3>1
    <3>4. QED
      BY <3>2, <3>3 DEF ApagadasInv, SinApagadas
  <2>5. QED
    BY <1>8, <2>3, <2>4
<1>9. CASE UNCHANGED vars
  BY <1>3, <1>9 DEF vars, canales, cpuVars
<1>10. QED
  BY <1>4, <1>5, <1>6, <1>7, <1>8, <1>9 DEF Next

\* What the equation of sem_hay_cpus_libres adds up are numbers.
LEMMA LibresNumeros ==
  ASSUME PlanInv
  PROVE  /\ sem_hay_cpus_libres \in Nat /\ Llevado \in Nat
         /\ IsFiniteSet(PorPostear) /\ Cardinality(PorPostear) \in Nat
         /\ Len(lista_cpus_libres) \in Nat
<1>1. /\ sem_hay_cpus_libres \in Nat /\ Llevado \in Nat
      /\ Len(lista_cpus_libres) \in Nat
  BY LenProperties DEF PlanInv, TypeOK, KsTipo, Llevado
<1>2. IsFiniteSet(PorPostear)
  BY FS_Subset, PlanificacionOK DEF PorPostear
<1>3. QED
  BY <1>1, <1>2, FS_CardinalityType

\* A step of the thread of c: as many CPUs in the list as tokens more on their
\* way.
LEMMA LibresHilo ==
  ASSUME PlanInv, LibresInv, NEW c \in Cpus, NEW h,
         hilo_cpu' = [hilo_cpu EXCEPT ![c] = h], planificador' = planificador,
         sem_hay_cpus_libres' \in Nat, Libres' \in Nat,
         sem_hay_cpus_libres' + VaAPostear(h) + Libres
           = sem_hay_cpus_libres + VaAPostear(hilo_cpu[c])
               + Libres'
  PROVE  LibresInv'
<1>1. \A k \in Cpus : hilo_cpu'[k] = IF k = c THEN h ELSE hilo_cpu[k]
  BY DEF PlanInv, TypeOK, KsTipo
<1>2. IsFiniteSet(PorPostear) /\ Cardinality(PorPostear) \in Nat
  BY LibresNumeros
<1>3. c \in PorPostear <=> hilo_cpu[c].pc = "postear"
  BY DEF PorPostear
<1>4. Cardinality(PorPostear \cup {c}) =
        IF c \in PorPostear THEN Cardinality(PorPostear) ELSE Cardinality(PorPostear) + 1
  BY <1>2, FS_AddElement
<1>5. Cardinality(PorPostear \ {c}) =
        IF c \in PorPostear THEN Cardinality(PorPostear) - 1 ELSE Cardinality(PorPostear)
  BY <1>2, FS_RemoveElement
<1>6. Cardinality(PorPostear') =
        Cardinality(PorPostear) + VaAPostear(h) - VaAPostear(hilo_cpu[c])
  <2>1. CASE h.pc = "postear"
    <3>1. PorPostear' = PorPostear \cup {c}
      BY <1>1, <2>1 DEF PorPostear
    <3>2. QED
      BY <1>2, <1>3, <1>4, <2>1, <3>1 DEF VaAPostear
  <2>2. CASE h.pc # "postear"
    <3>1. PorPostear' = PorPostear \ {c}
      BY <1>1, <2>2 DEF PorPostear
    <3>2. QED
      BY <1>2, <1>3, <1>5, <2>2, <3>1 DEF VaAPostear
  <2>3. QED
    BY <2>1, <2>2
<1>7. Llevado' = Llevado
  BY DEF Llevado
<1>8. VaAPostear(h) \in Nat /\ VaAPostear(hilo_cpu[c]) \in Nat
  BY DEF VaAPostear
<1>9. /\ sem_hay_cpus_libres \in Nat /\ Llevado \in Nat /\ Libres \in Nat
      /\ sem_hay_cpus_libres + Llevado + Cardinality(PorPostear) = Libres
  BY LibresNumeros DEF LibresInv, Libres
<1>10. QED
  BY <1>2, <1>6, <1>7, <1>8, <1>9 DEF LibresInv

\* A step of the thread of a CPU that neither posts nor comes to post leaves the
\* equation as it is.
LEMMA LibresHiloSolo ==
  ASSUME PlanInv, LibresInv, NEW c \in Cpus, NEW h,
         hilo_cpu' = [hilo_cpu EXCEPT ![c] = h],
         UNCHANGED <<planificador, sem_hay_cpus_libres, lista_cpus_libres>>,
         hilo_cpu[c].pc # "postear", h.pc # "postear"
  PROVE  LibresInv'
<1>1. VaAPostear(h) = 0 /\ VaAPostear(hilo_cpu[c]) = 0
  BY DEF VaAPostear
<1>2. sem_hay_cpus_libres' \in Nat /\ Libres' \in Nat
  BY LibresNumeros DEF Libres
<1>3. sem_hay_cpus_libres' + VaAPostear(h) + Libres
        = sem_hay_cpus_libres + VaAPostear(hilo_cpu[c]) + Libres'
  BY <1>1 DEF Libres
<1>4. QED
  BY <1>2, <1>3, LibresHilo

\* The planner takes a free CPU for the token it has.
LEMMA LibresPlanificador ==
  ASSUME PlanInv, LibresInv, Planificador
  PROVE  LibresInv'
<1>1. hilo_cpu' = hilo_cpu
  BY DEF Planificador, PlanificadorEsperaReady, PlanificadorEsperaCpu,
         PlanificadorElegir, PlanificadorEnviar
<1>2. PorPostear' = PorPostear
  BY <1>1 DEF PorPostear
<1>3. planificador \in Planes
  BY PartesTipo DEF PlanInv, TypeOK
<1>4. CASE PlanificadorEsperaReady \/ PlanificadorEnviar
  <2>1. /\ sem_hay_cpus_libres' = sem_hay_cpus_libres
        /\ lista_cpus_libres' = lista_cpus_libres
        /\ planificador.pc # "puede" /\ planificador'.pc # "puede"
    BY <1>3, <1>4 DEF PlanificadorEsperaReady, PlanificadorEnviar, listaVars, Planes
  <2>2. Llevado' = Llevado
    BY <2>1 DEF Llevado
  <2>3. QED
    BY <1>2, <2>1, <2>2 DEF LibresInv, Libres
<1>5. CASE PlanificadorEsperaCpu
  <2>1. /\ sem_hay_cpus_libres' = sem_hay_cpus_libres - 1
        /\ lista_cpus_libres' = lista_cpus_libres
        /\ planificador.pc = "cpus" /\ planificador'.pc = "puede"
    BY <1>3, <1>5 DEF PlanificadorEsperaCpu, listaVars, Planes
  <2>2. Llevado = 0 /\ Llevado' = 1
    BY <2>1 DEF Llevado
  <2>3. QED
    BY <1>2, <2>1, <2>2, LibresNumeros DEF LibresInv, Libres
<1>6. CASE PlanificadorElegir
  <2>1. planificador.pc = "puede"
    BY <1>6 DEF PlanificadorElegir
  <2>2. Llevado = 1
    BY <2>1 DEF Llevado
  <2>3. CASE ConProcesos = {}
    <3>1. /\ sem_hay_cpus_libres' = sem_hay_cpus_libres + 1
          /\ lista_cpus_libres' = lista_cpus_libres /\ planificador'.pc = "ready"
      BY <1>3, <1>6, <2>3 DEF PlanificadorElegir, listaVars, Planes
    <3>2. Llevado' = 0
      BY <3>1 DEF Llevado
    <3>3. QED
      BY <1>2, <2>2, <3>1, <3>2, LibresNumeros DEF LibresInv, Libres
  <2>4. CASE ConProcesos # {}
    <3>1. lista_cpus_libres # <<>>
      <4>1. Len(lista_cpus_libres) # 0
        BY <2>2, LibresNumeros DEF LibresInv, Libres
      <4>2. QED
        BY <4>1
    <3>2. /\ sem_hay_cpus_libres' = sem_hay_cpus_libres
          /\ lista_cpus_libres' = Tail(lista_cpus_libres) /\ planificador'.pc = "enviar"
      BY <1>6, <2>4, <3>1 DEF PlanificadorElegir
    <3>3. lista_cpus_libres \in Seq(Cpus)
      BY DEF PlanInv, TypeOK, KsTipo
    <3>4. Len(Tail(lista_cpus_libres)) = Len(lista_cpus_libres) - 1
      BY <3>1, <3>3, HeadTailProperties
    <3>5. Llevado' = 0
      BY <3>2 DEF Llevado
    <3>6. /\ sem_hay_cpus_libres \in Nat /\ Cardinality(PorPostear) \in Nat
          /\ Len(lista_cpus_libres) \in Nat
          /\ sem_hay_cpus_libres + 1 + Cardinality(PorPostear) = Len(lista_cpus_libres)
      BY <2>2, LibresNumeros DEF LibresInv, Libres
    <3>7. sem_hay_cpus_libres' + Llevado' + Cardinality(PorPostear') = Len(lista_cpus_libres')
      BY <1>2, <3>2, <3>4, <3>5, <3>6
    <3>8. QED
      BY <3>7 DEF LibresInv, Libres
  <2>5. QED
    BY <2>3, <2>4
<1>7. QED
  BY <1>4, <1>5, <1>6 DEF Planificador

\* The threads free a CPU and then post, or do neither.
LEMMA LibresHilos ==
  ASSUME PlanInv, LibresInv, ApagadasInv, SinApagadas, NEW c \in Cpus,
         HiloCpu(c) \/ AtenderCpu(c)
  PROVE  LibresInv'
<1>1. /\ HiloOK(hilo_cpu[c], estado) /\ hilo_cpu[c] \in Hilo /\ hilo_cpu \in [Cpus -> Hilo]
      /\ lista_exec \in Seq(Pids) /\ lista_cpus_libres \in Seq(Cpus) /\ KsTipo
  BY PartesTipo DEF PlanInv, TypeOK, HilosInv, KsTipo
<1>2. /\ \A pc \in {"recibir", "cerrado"} : HiloEn(pc).pc # "postear"
      /\ HiloEn("postear").pc = "postear"
  BY DEF HiloEn
<1>3. \A k \in Cpus : /\ Append(lista_cpus_libres, k) \in Seq(Cpus)
                      /\ Len(Append(lista_cpus_libres, k)) = Len(lista_cpus_libres) + 1
  BY <1>1
<1>4. CASE UNCHANGED <<hilo_cpu, planificador, sem_hay_cpus_libres, lista_cpus_libres>>
  BY <1>4 DEF LibresInv, PorPostear, Llevado, Libres
<1>5. CASE Avisar(c)
  <2> DEFINE h == [hilo_cpu[c] EXCEPT !.pc = hilo_cpu[c].luego, !.aviso = SinAviso]
  <2>1. /\ hilo_cpu[c].pc = "avisar" /\ hilo_cpu' = [hilo_cpu EXCEPT ![c] = h]
        /\ UNCHANGED <<planificador, sem_hay_cpus_libres, lista_cpus_libres>>
    BY <1>1, <1>5 DEF Avisar, semVars, listaVars
  <2>2. h.pc # "postear"
    BY <1>1 DEF Hilo
  <2> HIDE DEF h
  <2>3. hilo_cpu[c].pc # "postear"
    BY <2>1
  <2>4. QED
    BY <2>1, <2>2, <2>3, LibresHiloSolo
<1>6. CASE Postear(c)
  <2>1. /\ hilo_cpu[c].pc = "postear" /\ hilo_cpu' = [hilo_cpu EXCEPT ![c] = HiloEn("recibir")]
        /\ sem_hay_cpus_libres' = sem_hay_cpus_libres + 1
        /\ lista_cpus_libres' = lista_cpus_libres /\ planificador' = planificador
    BY <1>6 DEF Postear, listaVars
  <2>2. VaAPostear(hilo_cpu[c]) = 1 /\ VaAPostear(HiloEn("recibir")) = 0
    BY <1>2, <2>1 DEF VaAPostear
  <2>3. sem_hay_cpus_libres' \in Nat /\ Libres' \in Nat
    BY <2>1, LibresNumeros DEF Libres
  <2>4. sem_hay_cpus_libres' + VaAPostear(HiloEn("recibir")) + Libres
          = sem_hay_cpus_libres + VaAPostear(hilo_cpu[c])
              + Libres'
    BY <2>1, <2>2, LibresNumeros DEF Libres
  <2>5. QED
    BY <2>1, <2>3, <2>4, LibresHilo
<1>7. CASE ManejarInitProcFin(c) \/ DesconectarCpuFin(c)
  <2>1. PICK pc \in {"recibir", "cerrado"} : hilo_cpu' = [hilo_cpu EXCEPT ![c] = HiloEn(pc)]
    BY <1>7 DEF ManejarInitProcFin, DesconectarCpuFin
  <2>2. hilo_cpu[c].pc # "postear"
        /\ UNCHANGED <<planificador, sem_hay_cpus_libres, lista_cpus_libres>>
    BY <1>7 DEF ManejarInitProcFin, DesconectarCpuFin, listaVars
  <2>3. QED
    BY <1>2, <2>1, <2>2, LibresHiloSolo
<1>8. CASE ManejarFinQuantumFin(c) \/ FinalizaFin(c) \/ AtenderCpu(c)
  <2>1. PICK h : hilo_cpu' = [hilo_cpu EXCEPT ![c] = h] /\ h.pc = "postear"
    <3> DEFINE h == [HiloEn("postear") EXCEPT !.planificable = hilo_cpu[c].planificable]
    <3>1. h.pc = "postear"
      BY DEF HiloEn
    <3>2. CASE ManejarFinQuantumFin(c)
      BY <3>1, <3>2 DEF ManejarFinQuantumFin
    <3>3. CASE FinalizaFin(c) \/ AtenderCpu(c)
      BY <1>2, <3>3 DEF FinalizaFin, AtenderCpu
    <3>4. QED
      BY <1>8, <3>2, <3>3
  <2>2. \E k \in Cpus : lista_cpus_libres' = Append(lista_cpus_libres, k)
    BY <1>1, <1>8 DEF ManejarFinQuantumFin, FinalizaFin, AtenderCpu, HiloOK
  <2>3. /\ hilo_cpu[c].pc # "postear"
        /\ UNCHANGED <<planificador, sem_hay_cpus_libres>>
    BY <1>8 DEF ManejarFinQuantumFin, FinalizaFin, AtenderCpu, semVars
  <2>4. Len(lista_cpus_libres') = Len(lista_cpus_libres) + 1
    BY <1>3, <2>2
  <2>5. VaAPostear(hilo_cpu[c]) = 0 /\ VaAPostear(h) = 1
    BY <2>1, <2>3 DEF VaAPostear
  <2>6. sem_hay_cpus_libres' \in Nat /\ Libres' \in Nat
    BY <2>3, <2>4, LibresNumeros DEF Libres
  <2>7. sem_hay_cpus_libres' + VaAPostear(h) + Libres
          = sem_hay_cpus_libres + VaAPostear(hilo_cpu[c])
              + Libres'
    BY <2>3, <2>4, <2>5, LibresNumeros DEF Libres
  <2>8. QED
    BY <2>1, <2>3, <2>6, <2>7, LibresHilo
<1>9. CASE \E op : Finaliza(c, op)
  <2> DEFINE p == Head(de_cpu[c]).pid
             h == [HiloEn("exit_fin") EXCEPT !.pid = p, !.cpu = cpu[p]]
  <2>1. /\ hilo_cpu[c].pc = "recibir"
        /\ UNCHANGED <<planificador, sem_hay_cpus_libres, lista_cpus_libres>>
        /\ hilo_cpu' = hilo_cpu \/ hilo_cpu' = [hilo_cpu EXCEPT ![c] = h]
    BY <1>9 DEF Finaliza, Recibe, semVars
  <2>2. h.pc # "postear"
    BY DEF HiloEn
  <2> HIDE DEF h
  <2>3. QED
    BY <1>4, <2>1, <2>2, LibresHiloSolo
<1>10. CASE ManejarInitProc(c)
  <2> DEFINE h == [HiloEn("init_nuevo") EXCEPT !.pid = proximo_pid]
  <2>1. /\ hilo_cpu[c].pc = "recibir"
        /\ UNCHANGED <<planificador, sem_hay_cpus_libres, lista_cpus_libres>>
        /\ hilo_cpu' = [hilo_cpu EXCEPT ![c] = h]
    BY <1>10 DEF ManejarInitProc, Recibe, semVars
  <2>2. h.pc # "postear"
    BY DEF HiloEn
  <2> HIDE DEF h
  <2>3. QED
    BY <2>1, <2>2, LibresHiloSolo
<1>11. CASE ManejarInitProcError(c) \/ ManejarSyscallSinProceso(c)
  BY <1>4, <1>11 DEF ManejarInitProcError, ManejarSyscallSinProceso, ksVars, listaVars,
                     semVars, hiloVars
<1>12. CASE ManejarFinQuantum(c)
  <2> DEFINE p == Head(de_cpu[c]).pid
  <2>1. /\ hilo_cpu[c].pc = "recibir"
        /\ UNCHANGED <<planificador, sem_hay_cpus_libres, lista_cpus_libres>>
    BY <1>12 DEF ManejarFinQuantum, Recibe, semVars
  <2>2. CASE ~ EnLista(p, lista_exec)
    BY <1>4, <1>12, <2>1, <2>2 DEF ManejarFinQuantum
  <2>3. CASE EnLista(p, lista_exec)
    <3>1. EncolarEnReady(c, p, RemoveFirst(lista_exec, p), "fq_fin")
      BY <1>12, <2>3 DEF ManejarFinQuantum
    <3>2. p \in Pids
      BY <1>1, <2>3, EnListaTipo
    <3>3. RemoveFirst(lista_exec, p) \in Seq(Pids)
      BY <1>1, VecesQuitar
    <3> HIDE DEF p
    <3>4. PICK h \in Hilo : /\ hilo_cpu' = [hilo_cpu EXCEPT ![c] = h]
                            /\ h.pc \in {"fq_fin", "avisar"}
      BY <1>1, <3>1, <3>2, <3>3, EncolarEfecto
    <3>5. QED
      BY <2>1, <3>4, LibresHiloSolo
  <2>4. QED
    BY <2>2, <2>3
<1>13. CASE MoverProcesoAReady(c)
  <2>1. /\ hilo_cpu[c].pc = "init_nuevo"
        /\ UNCHANGED <<planificador, sem_hay_cpus_libres, lista_cpus_libres>>
        /\ EncolarEnReady(c, hilo_cpu[c].pid, lista_exec, "init_fin")
    BY <1>13 DEF MoverProcesoAReady, semVars
  <2>2. hilo_cpu[c].pid \in Pids
    BY <1>1, <2>1 DEF HiloOK
  <2>3. PICK h \in Hilo : /\ hilo_cpu' = [hilo_cpu EXCEPT ![c] = h]
                          /\ h.pc \in {"init_fin", "avisar"}
    BY <1>1, <2>1, <2>2, EncolarEfecto
  <2>4. QED
    BY <2>1, <2>3, LibresHiloSolo
<1>14. ~ DesconectarCpu(c)
  <2>1. CASE DesconectarCpu(c)
    <3>1. de_cpu[c] # <<>> /\ Head(de_cpu[c]).op = "FIN_CONEXION"
      BY <2>1 DEF DesconectarCpu, Recibe
    <3>2. de_cpu[c] \in Seq(MensajeCpu)
      BY DEF PlanInv, TypeOK, CanalesTipo
    <3>3. 1 \in DOMAIN de_cpu[c] /\ Head(de_cpu[c]) = de_cpu[c][1]
      BY <3>1, <3>2
    <3>4. QED
      BY <3>1, <3>3 DEF ApagadasInv, SinApagadas
  <2>2. QED
    BY <2>1
<1>15. QED
  BY <1>5, <1>6, <1>7, <1>8, <1>9, <1>10, <1>11, <1>12, <1>13, <1>14
     DEF HiloCpu, ManejarProcesoExit, ManejarSegFault

\* Every step.
LEMMA LibresPaso ==
  ASSUME PlanInv, LibresInv, ApagadasInv, SinApagadas, [Next]_vars
  PROVE  LibresInv'
<1>1. CASE UNCHANGED <<hilo_cpu, planificador, sem_hay_cpus_libres, lista_cpus_libres>>
  BY <1>1 DEF LibresInv, PorPostear, Llevado, Libres
<1>2. CASE PasoPlanificador
  BY <1>2, LibresPlanificador DEF PasoPlanificador, Ks
<1>3. ASSUME NEW t \in Timers, PasoHiloQuantum(t)
      PROVE  LibresInv'
  BY <1>1, <1>3 DEF PasoHiloQuantum, Ks, HiloQuantum, HiloQuantumVence,
                    HiloQuantumInterrumpe, listaVars, semVars
<1>4. ASSUME NEW c \in Cpus, PasoHiloCpu(c) \/ Conectar(c)
      PROVE  LibresInv'
  BY <1>4, LibresHilos DEF PasoHiloCpu, Ks, Conectar
<1>5. ASSUME NEW c \in Cpus, PasoCpu(c) \/ Apagar(c)
      PROVE  LibresInv'
  BY <1>1, <1>5 DEF PasoCpu, Apagar, ksVars, listaVars, semVars, hiloVars
<1>6. CASE UNCHANGED vars
  BY <1>1, <1>6 DEF vars, ksVars, listaVars, semVars, hiloVars
<1>7. QED
  BY <1>2, <1>3, <1>4, <1>5, <1>6 DEF Next

\* No CPU is free when the scheduler starts, and none was stopped.
LEMMA LibresInicial ==
  ASSUME Init
  PROVE  LibresInv /\ ApagadasInv
<1>1. /\ sem_hay_cpus_libres = 0 /\ lista_cpus_libres = <<>>
      /\ planificador = [pc |-> "ready", pid |-> Nadie, cpu |-> Nulo, timer |-> Nulo]
      /\ hilo_cpu = [c \in Cpus |-> HiloEn("no")]
  BY DEF Init, KsInit
<1>2. HiloEn("no").pc = "no"
  BY DEF HiloEn
<1>3. PorPostear = {} /\ Llevado = 0
  BY <1>1, <1>2 DEF PorPostear, Llevado
<1>4. Cardinality(PorPostear) = 0 /\ Len(<<>>) = 0
  BY <1>3, FS_EmptySet
<1>5. LibresInv
  BY <1>1, <1>3, <1>4 DEF LibresInv, Libres
<1>6. ApagadasInv
  BY DEF Init, CanalesInit, ApagadasInv
<1>7. QED
  BY <1>5, <1>6

\* The equation of sem_hay_cpus_libres, as long as no CPU was stopped.
LEMMA LibresSiempre == Spec => [](PlanInv /\ ApagadasInv /\ (SinApagadas => LibresInv))
<1> DEFINE Inv == PlanInv /\ ApagadasInv /\ (SinApagadas => LibresInv)
<1>1. Inv /\ [Next]_vars => Inv'
  BY PlanPaso, ApagadasPaso, LibresPaso
<1>2. Init => Inv
  BY PlanInicial, LibresInicial
<1>3. QED
  BY <1>1, <1>2, PTL DEF Spec

\* As long as no CPU was stopped, sem_hay_cpus_libres counts the CPUs of
\* lista_cpus_libres, but for the token the planner has taken and those the
\* threads have still to post: a handler that frees a CPU posts it once
\* (TokensCpus).
THEOREM UnTokenPorCpu == Spec => []TokensCpus
<1>1. (SinApagadas => LibresInv) => TokensCpus
  BY DEF SinApagadas, LibresInv, Libres, TokensCpus, Llevado, PorPostear
<1>2. QED
  BY <1>1, LibresSiempre, PTL

-----------------------------------------------------------------------------
(* The life of a process: the scheduler implements CicloDeVida.             *)

\* Two processes that run are on two CPUs.
LEMMA EjecutanEnDistintas ==
  ASSUME PlanInv, CpusInv, NEW p \in Pids, NEW q \in Pids,
         estado[p] = "EXEC", estado[q] = "EXEC", cpu[p] = cpu[q]
  PROVE  p = q
<1>1. cpu[p] \in Cpus
  BY DEF PlanInv, ProcesosInv
<1> DEFINE c == cpu[p]
<1>2. IsFiniteSet(EnEjecucion(c)) /\ Cardinality(EnEjecucion(c)) <= 1
  <2>1. /\ Veces(c, lista_cpus_libres) \in Nat
        /\ IsFiniteSet(EnEjecucion(c)) /\ Cardinality(EnEjecucion(c)) \in Nat
        /\ Cardinality(Liberadores(c)) \in Nat
    BY ManosNumeros
  <2>2. Veces(c, lista_cpus_libres) + Cardinality(EnEjecucion(c)) + Cardinality(Liberadores(c)) <= 1
    BY <1>1 DEF CpusInv, Manos
  <2>3. QED
    BY <2>1, <2>2
<1>3. {p, q} \subseteq EnEjecucion(c)
  BY DEF EnEjecucion
<1>4. Cardinality({p, q}) <= 1 /\ IsFiniteSet({p, q})
  <2>1. Cardinality({p, q}) <= Cardinality(EnEjecucion(c)) /\ IsFiniteSet({p, q})
    BY <1>2, <1>3, FS_Subset
  <2>2. Cardinality({p, q}) \in Nat /\ Cardinality(EnEjecucion(c)) \in Nat
    BY <1>2, <2>1, FS_CardinalityType
  <2>3. QED
    BY <1>2, <2>1, <2>2
<1>5. ASSUME p # q PROVE FALSE
  <2>1. Cardinality({p}) = 1 /\ IsFiniteSet({p})
    BY FS_Singleton
  <2>2. Cardinality({p} \cup {q}) = Cardinality({p}) + 1
    BY <1>5, <2>1, FS_AddElement
  <2>3. {p} \cup {q} = {p, q}
    OBVIOUS
  <2>4. QED
    BY <1>4, <2>1, <2>2, <2>3
<1>6. QED
  BY <1>5

\* No process runs on a CPU that is free.
LEMMA NadieEnLibre ==
  ASSUME PlanInv, CpusInv, NEW c \in Cpus, Veces(c, lista_cpus_libres) > 0
  PROVE  EnEjecucion(c) = {}
<1>1. /\ Veces(c, lista_cpus_libres) \in Nat
      /\ IsFiniteSet(EnEjecucion(c)) /\ Cardinality(EnEjecucion(c)) \in Nat
      /\ Cardinality(Liberadores(c)) \in Nat
  BY ManosNumeros
<1>2. Veces(c, lista_cpus_libres) + Cardinality(EnEjecucion(c)) + Cardinality(Liberadores(c)) <= 1
  BY DEF CpusInv, Manos
<1>3. Cardinality(EnEjecucion(c)) = 0
  BY <1>1, <1>2
<1>4. QED
  BY <1>1, <1>3, FS_EmptySet

\* With a free CPU there are fewer processes running than CPUs.
LEMMA HayLugar ==
  ASSUME PlanInv, CpusInv, lista_cpus_libres # <<>>
  PROVE  Cardinality({p \in Pids : estado[p] = "EXEC"}) < Cardinality(Cpus)
<1> DEFINE corren == {p \in Pids : estado[p] = "EXEC"}
           libre == Head(lista_cpus_libres)
           otras == Cpus \ {libre}
           f == [p \in corren |-> cpu[p]]
<1>1. libre \in Cpus /\ EnLista(libre, lista_cpus_libres)
  <2>1. lista_cpus_libres \in Seq(Cpus)
    BY DEF PlanInv, TypeOK, KsTipo
  <2>2. QED
    BY <2>1, VecesTail
<1>2. EnEjecucion(libre) = {}
  <2>1. lista_cpus_libres \in Seq(Cpus)
    BY DEF PlanInv, TypeOK, KsTipo
  <2>2. Veces(libre, lista_cpus_libres) > 0
    BY <1>1, <2>1, VecesNumero
  <2>3. QED
    BY <1>1, <2>2, NadieEnLibre
<1>3. f \in Injection(corren, otras)
  <2>1. ASSUME NEW p \in corren PROVE cpu[p] \in otras
    <3>1. p \in Pids /\ estado[p] = "EXEC"
      OBVIOUS
    <3>2. cpu[p] \in Cpus
      BY <3>1 DEF PlanInv, ProcesosInv
    <3>3. cpu[p] # libre
      BY <1>2, <3>1 DEF EnEjecucion
    <3>4. QED
      BY <3>2, <3>3
  <2>2. \A p, q \in corren : cpu[p] = cpu[q] => p = q
    BY EjecutanEnDistintas
  <2>3. f \in [corren -> otras]
    BY <2>1
  <2>4. \A p, q \in DOMAIN f : f[p] = f[q] => p = q
    BY <2>2
  <2> HIDE DEF f, corren, otras
  <2>5. QED
    BY <2>3, <2>4 DEF Injection, IsInjective
<1>4. IsFiniteSet(otras) /\ IsFiniteSet(Cpus) /\ Cardinality(otras) = Cardinality(Cpus) - 1
  BY <1>1, FS_RemoveElement, PlanificacionOK
<1>5. IsFiniteSet(corren) /\ Cardinality(corren) <= Cardinality(otras)
  <2> HIDE DEF f, corren, otras
  <2>1. QED
    BY <1>3, <1>4, FS_Injection
<1>6. Cardinality(corren) \in Nat /\ Cardinality(Cpus) \in Nat
  BY <1>4, <1>5, FS_CardinalityType
<1> HIDE DEF corren, otras
<1>7. Cardinality(corren) < Cardinality(Cpus)
  BY <1>4, <1>5, <1>6
<1>8. QED
  BY <1>7 DEF corren

\* CicloDeVida counts as this module does.
LEMMA MismaCardinalidad == \A S : Ciclo!Cardinality(S) = Cardinality(S)
BY DEF Ciclo!Cardinality, Cardinality

\* The planner dispatches a process.
LEMMA CicloElegir ==
  ASSUME PlanInv, CpusInv, PlanificadorElegir
  PROVE  [Ciclo!Next]_estado
<1>1. CASE estado' = estado
  BY <1>1
<1>2. CASE ConProcesos # {} /\ lista_cpus_libres # <<>>
  <2> DEFINE q == PrimeraCola
             p == Head(colas_ready[q])
  <2>1. estado' = [estado EXCEPT ![p] = "EXEC"]
    BY <1>2 DEF PlanificadorElegir
  <2>2. p \in Pids /\ estado[p] = "READY"
    BY <1>2, ElegirEfecto
  <2> HIDE DEF p
  <2>3. Ciclo!Cardinality(Ciclo!EnEstado("EXEC")) < Cardinality(Cpus)
    BY <1>2, HayLugar, MismaCardinalidad DEF Ciclo!EnEstado
  <2>4. Ciclo!Despachar(p)
    BY <2>1, <2>2, <2>3 DEF Ciclo!Despachar, Ciclo!Pasa
  <2>5. QED
    BY <2>2, <2>4 DEF Ciclo!Next
<1>3. QED
  BY <1>1, <1>2 DEF PlanificadorElegir, procesoVars

\* The thread of a CPU takes a process out of EXEC, creates one or admits it.
LEMMA CicloHilo ==
  ASSUME PlanInv, NEW c \in Cpus, HiloCpu(c)
  PROVE  [Ciclo!Next]_estado
<1>1. CASE estado' = estado
  BY <1>1
<1>2. ASSUME NEW p, EnLista(p, lista_exec), estado' = [estado EXCEPT ![p] = "READY"]
      PROVE  [Ciclo!Next]_estado
  <2>1. p \in Pids /\ estado[p] = "EXEC"
    <3>1. lista_exec \in Seq(Pids)
      BY DEF PlanInv, TypeOK, KsTipo
    <3>2. p \in Pids
      BY <1>2, <3>1, EnListaTipo
    <3>3. QED
      BY <1>2, <3>2, EstadoPorLista
  <2>2. Ciclo!Desalojar(p)
    BY <1>2, <2>1 DEF Ciclo!Desalojar, Ciclo!Pasa
  <2>3. QED
    BY <2>1, <2>2 DEF Ciclo!Next
<1>3. CASE ManejarFinQuantum(c)
  BY <1>1, <1>2, <1>3 DEF ManejarFinQuantum
<1>4. CASE DesconectarCpu(c)
  <2>1. CASE EnLaCpu(c) = {}
    BY <1>1, <1>4, <2>1 DEF DesconectarCpu
  <2>2. CASE EnLaCpu(c) # {}
    BY <1>2, <1>4, <2>2, DesconectarProceso
  <2>3. QED
    BY <2>1, <2>2
<1>5. ASSUME NEW op, Finaliza(c, op)
      PROVE  [Ciclo!Next]_estado
  <2> DEFINE p == Head(de_cpu[c]).pid
  <2>1. CASE EnLista(p, lista_exec)
    <3>1. estado' = [estado EXCEPT ![p] = "EXIT"]
      BY <1>5, <2>1 DEF Finaliza
    <3> HIDE DEF p
    <3>2. lista_exec \in Seq(Pids)
      BY DEF PlanInv, TypeOK, KsTipo
    <3>3. p \in Pids
      BY <2>1, <3>2, EnListaTipo
    <3>4. estado[p] = "EXEC"
      BY <2>1, <3>3, EstadoPorLista
    <3>5. Ciclo!Terminar(p)
      BY <3>1, <3>4 DEF Ciclo!Terminar, Ciclo!Pasa
    <3>6. QED
      BY <3>3, <3>5 DEF Ciclo!Next
  <2>2. CASE ~ EnLista(p, lista_exec)
    BY <1>1, <1>5, <2>2 DEF Finaliza
  <2>3. QED
    BY <2>1, <2>2
<1>6. CASE ManejarInitProc(c)
  <2>1. proximo_pid \in Pids /\ estado' = [estado EXCEPT ![proximo_pid] = "NEW"]
    BY <1>6 DEF ManejarInitProc
  <2>2. estado[proximo_pid] = "SIN_CREAR"
    BY <2>1, PlanificacionOK DEF PlanInv, ProcesosInv
  <2>3. Ciclo!Crear(proximo_pid)
    BY <2>1, <2>2 DEF Ciclo!Crear, Ciclo!Pasa
  <2>4. QED
    BY <2>1, <2>3 DEF Ciclo!Next
<1>7. CASE MoverProcesoAReady(c)
  <2> DEFINE p == hilo_cpu[c].pid
  <2>1. hilo_cpu[c].pc = "init_nuevo" /\ estado' = [estado EXCEPT ![p] = "READY"]
    BY <1>7 DEF MoverProcesoAReady
  <2>2. p \in Pids /\ estado[p] = "NEW"
    BY <2>1 DEF PlanInv, HilosInv, HiloOK
  <2>3. Ciclo!Admitir(p)
    BY <2>1, <2>2 DEF Ciclo!Admitir, Ciclo!Pasa
  <2>4. QED
    BY <2>2, <2>3 DEF Ciclo!Next
<1>8. QED
  BY <1>1, <1>3, <1>4, <1>5, <1>6, <1>7
     DEF HiloCpu, Avisar, Postear, ManejarFinQuantumFin, ManejarProcesoExit,
         ManejarSegFault, FinalizaFin, ManejarInitProcError,
         ManejarSyscallSinProceso, ManejarInitProcFin, DesconectarCpuFin,
         procesoVars, ksVars

\* Every step of the scheduler and the CPUs is a step of CicloDeVida, or one
\* that it does not see.
LEMMA CicloPaso ==
  ASSUME PlanInv, CpusInv, [Next]_vars
  PROVE  [Ciclo!Next]_estado
<1>1. CASE estado' = estado
  BY <1>1
<1>2. CASE PasoPlanificador
  <2>1. Planificador
    BY <1>2 DEF PasoPlanificador, Ks
  <2>2. PlanificadorElegir \/ estado' = estado
    BY <2>1 DEF Planificador, PlanificadorEsperaReady, PlanificadorEsperaCpu,
                PlanificadorEnviar, procesoVars
  <2>3. QED
    BY <1>1, <2>2, CicloElegir
<1>3. ASSUME NEW t \in Timers, PasoHiloQuantum(t)
      PROVE  estado' = estado
  BY <1>3 DEF PasoHiloQuantum, Ks, HiloQuantum, HiloQuantumVence,
              HiloQuantumInterrumpe, procesoVars
<1>4. ASSUME NEW c \in Cpus, PasoHiloCpu(c)
      PROVE  [Ciclo!Next]_estado
  BY <1>4, CicloHilo DEF PasoHiloCpu, Ks
<1>5. ASSUME NEW c \in Cpus, Conectar(c) \/ PasoCpu(c) \/ Apagar(c)
      PROVE  estado' = estado
  BY <1>5 DEF Conectar, AtenderCpu, PasoCpu, Apagar, ksVars, procesoVars
<1>6. CASE UNCHANGED vars
  BY <1>1, <1>6 DEF vars, ksVars, procesoVars
<1>7. QED
  BY <1>1, <1>2, <1>3, <1>4, <1>5, <1>6 DEF Next

\* The scheduler, with its queues, semaphores and threads, and the CPUs, with
\* what they send and the ones that leave, make of every process what CicloDeVida
\* says: it goes along the edges of t_estado, one process at a time, and no
\* more processes run than there are CPUs.
THEOREM ImplementaCicloDeVida == Spec => CicloDeVida
<1>1. Init => Ciclo!Init
  <2> SUFFICES ASSUME Init PROVE estado \in [Pids -> {"SIN_CREAR", "READY"}]
    BY DEF Ciclo!Init
  <2>1. QED
    BY DEF Init, KsInit
<1>2. PlanInv /\ CpusInv /\ [Next]_vars => [Ciclo!Next]_estado
  BY CicloPaso
<1>3. QED
  BY <1>1, <1>2, CpusSiempre, PTL DEF Spec, CicloDeVida, Ciclo!Spec

-----------------------------------------------------------------------------
(* A process on one CPU: what a CPU is sent, runs and says.                 *)

\* c is the CPU of p, which runs, with e the states of the processes and u their
\* CPUs.
EnCurso(e, u, p, c) == p \in Pids /\ e[p] = "EXEC" /\ u[p] = c

Orden(m) == m.op = "EJECUTAR_PROCESO"

UnaOrden(s) == \A i, j \in DOMAIN s : Orden(s[i]) /\ Orden(s[j]) => i = j

SinOrdenes(s) == \A i \in DOMAIN s : ~ Orden(s[i])

\* The CPU says that it leaves its process.
Final(m) == m.op \in {"PROCESO_EXIT", "PROCESO_SEG_FAULT", "PROCESO_FIN_QUANTUM"}

Activa(e) == e \in {"ejecuta", "respuesta"}

\* The planner is about to send a process to c.
PorEnviar(c) == planificador.pc = "enviar" /\ planificador.cpu = c

SinDesconectar(h) == h.pc \notin {"cerrado", "desc_fin"} /\ h.luego # "desc_fin"

\* The process of c is in one place: with the planner, on its way, on the CPU,
\* or in the last message of the CPU; and it is a process that runs on c.
EjecDe(c) ==
  /\ UnaOrden(a_cpu[c])
  /\ \A i \in DOMAIN a_cpu[c] : Orden(a_cpu[c][i]) => EnCurso(estado, cpu, a_cpu[c][i].pid, c)
  /\ \A i \in DOMAIN de_cpu[c] :
       /\ EnCurso(estado, cpu, de_cpu[c][i].pid, c)
       /\ Final(de_cpu[c][i]) => i = Len(de_cpu[c]) /\ cpu_pid[c] = Nadie
  /\ cpu_pid[c] # Nadie => EnCurso(estado, cpu, cpu_pid[c], c)
  /\ Activa(cpu_estado[c]) <=> cpu_pid[c] # Nadie
  /\ ~ SinOrdenes(a_cpu[c]) => cpu_pid[c] = Nadie /\ de_cpu[c] = <<>>
  /\ PorEnviar(c) => /\ SinOrdenes(a_cpu[c]) /\ cpu_pid[c] = Nadie /\ de_cpu[c] = <<>>
                     /\ EnCurso(estado, cpu, planificador.pid, c)
  /\ SinDesconectar(hilo_cpu[c])

EjecInv == \A c \in Cpus : EjecDe(c)

\* Neither a message that is no order nor the reading of one adds an order.
LEMMA OrdenesAgregar ==
  ASSUME NEW S, NEW s \in Seq(S), NEW m, ~ Orden(m)
  PROVE  /\ UnaOrden(s) => UnaOrden(Append(s, m))
         /\ SinOrdenes(s) => SinOrdenes(Append(s, m))
         /\ \A i \in DOMAIN Append(s, m) :
              Orden(Append(s, m)[i]) => i \in DOMAIN s /\ Append(s, m)[i] = s[i]
<1> DEFINE n == Append(s, m)
<1>1. \A i \in DOMAIN n : \/ n[i] = m
                          \/ i \in DOMAIN s /\ n[i] = s[i]
  BY MensajeAgregado
<1> HIDE DEF n
<1>2. \A i \in DOMAIN n : Orden(n[i]) => i \in DOMAIN s /\ n[i] = s[i]
  BY <1>1
<1>3. UnaOrden(s) => UnaOrden(n)
  BY <1>2 DEF UnaOrden
<1>4. SinOrdenes(s) => SinOrdenes(n)
  BY <1>2 DEF SinOrdenes
<1>5. QED
  BY <1>2, <1>3, <1>4 DEF n

\* A channel from which a message was read has no more orders than before, and
\* none when the one that was read is an order.
LEMMA OrdenesQuitar ==
  ASSUME NEW S, NEW s \in Seq(S), s # <<>>
  PROVE  /\ UnaOrden(s) => UnaOrden(Tail(s))
         /\ SinOrdenes(s) => SinOrdenes(Tail(s))
         /\ UnaOrden(s) /\ Orden(Head(s)) => SinOrdenes(Tail(s))
<1> DEFINE n == Tail(s)
<1>1. /\ \A i \in DOMAIN n : i + 1 \in DOMAIN s /\ n[i] = s[i + 1]
      /\ 1 \in DOMAIN s /\ Head(s) = s[1]
      /\ DOMAIN n = 1 .. Len(s) - 1 /\ Len(s) \in Nat
  BY MensajeQuitado
<1> HIDE DEF n
<1>2. SinOrdenes(s) => SinOrdenes(n)
  BY <1>1 DEF SinOrdenes
<1>3. UnaOrden(s) => UnaOrden(n)
  <2> SUFFICES ASSUME UnaOrden(s), NEW i \in DOMAIN n, NEW j \in DOMAIN n,
                      Orden(n[i]), Orden(n[j])
               PROVE  i = j
    BY DEF UnaOrden
  <2>1. i + 1 \in DOMAIN s /\ j + 1 \in DOMAIN s /\ Orden(s[i + 1]) /\ Orden(s[j + 1])
    BY <1>1
  <2>2. i + 1 = j + 1
    BY <2>1 DEF UnaOrden
  <2>3. i \in Nat /\ j \in Nat
    BY <1>1
  <2>4. QED
    BY <2>2, <2>3
<1>4. UnaOrden(s) /\ Orden(Head(s)) => SinOrdenes(n)
  <2> SUFFICES ASSUME UnaOrden(s), Orden(Head(s)), NEW i \in DOMAIN n, Orden(n[i])
               PROVE  FALSE
    BY DEF SinOrdenes
  <2>1. i + 1 \in DOMAIN s /\ Orden(s[i + 1]) /\ Orden(s[1]) /\ 1 \in DOMAIN s
    BY <1>1
  <2>2. i + 1 = 1
    BY <2>1 DEF UnaOrden
  <2>3. i \in Nat /\ i >= 1
    BY <1>1
  <2>4. QED
    BY <2>2, <2>3
<1>5. QED
  BY <1>2, <1>3, <1>4 DEF n

\* A step that gives c no process and leaves it the one it has: it may read a
\* message of either side and be sent one that is no order.
LEMMA EjecSigue ==
  ASSUME CanalesTipo, NEW c \in Cpus, EjecDe(c),
         \A p : EnCurso(estado, cpu, p, c) => EnCurso(estado', cpu', p, c),
         \/ a_cpu'[c] = a_cpu[c]
         \/ \E m : ~ Orden(m) /\ a_cpu'[c] = Append(a_cpu[c], m)
         \/ a_cpu[c] # <<>> /\ a_cpu'[c] = Tail(a_cpu[c]),
         de_cpu'[c] = de_cpu[c] \/ (de_cpu[c] # <<>> /\ de_cpu'[c] = Tail(de_cpu[c])),
         cpu_pid'[c] = cpu_pid[c], Activa(cpu_estado'[c]) <=> Activa(cpu_estado[c]),
         PorEnviar(c)' => PorEnviar(c) /\ planificador' = planificador,
         SinDesconectar(hilo_cpu'[c])
  PROVE  EjecDe(c)'
<1>1. a_cpu[c] \in Seq(MensajeKs) /\ de_cpu[c] \in Seq(MensajeCpu)
  BY DEF CanalesTipo
<1>2. /\ UnaOrden(a_cpu'[c]) /\ (SinOrdenes(a_cpu[c]) => SinOrdenes(a_cpu'[c]))
      /\ \A i \in DOMAIN a_cpu'[c] : Orden(a_cpu'[c][i]) =>
           \E j \in DOMAIN a_cpu[c] : a_cpu'[c][i] = a_cpu[c][j]
  <2>1. UnaOrden(a_cpu[c])
    BY DEF EjecDe
  <2>2. CASE a_cpu'[c] = a_cpu[c]
    BY <2>1, <2>2
  <2>3. CASE \E m : ~ Orden(m) /\ a_cpu'[c] = Append(a_cpu[c], m)
    BY <1>1, <2>1, <2>3, OrdenesAgregar
  <2>4. CASE a_cpu[c] # <<>> /\ a_cpu'[c] = Tail(a_cpu[c])
    <3>1. \A i \in DOMAIN Tail(a_cpu[c]) :
            i + 1 \in DOMAIN a_cpu[c] /\ Tail(a_cpu[c])[i] = a_cpu[c][i + 1]
      BY <1>1, <2>4, MensajeQuitado
    <3>2. UnaOrden(Tail(a_cpu[c])) /\ (SinOrdenes(a_cpu[c]) => SinOrdenes(Tail(a_cpu[c])))
      BY <1>1, <2>1, <2>4, OrdenesQuitar
    <3>3. QED
      BY <2>4, <3>1, <3>2
  <2>5. QED
    BY <2>2, <2>3, <2>4
<1>3. /\ \A i \in DOMAIN de_cpu'[c] : \E j \in DOMAIN de_cpu[c] :
           /\ de_cpu'[c][i] = de_cpu[c][j]
           /\ j = Len(de_cpu[c]) => i = Len(de_cpu'[c])
      /\ de_cpu[c] = <<>> => de_cpu'[c] = <<>>
  <2>1. CASE de_cpu'[c] = de_cpu[c]
    BY <2>1
  <2>2. CASE de_cpu[c] # <<>> /\ de_cpu'[c] = Tail(de_cpu[c])
    <3> DEFINE s == de_cpu[c]
               n == Tail(s)
    <3>1. /\ \A i \in DOMAIN n : i + 1 \in DOMAIN s /\ n[i] = s[i + 1]
          /\ Len(n) = Len(s) - 1 /\ Len(s) \in Nat
          /\ DOMAIN n = 1 .. Len(s) - 1
      BY <1>1, <2>2, MensajeQuitado
    <3>2. de_cpu'[c] = n
      BY <2>2
    <3> HIDE DEF n
    <3>3. ASSUME NEW i \in DOMAIN n
          PROVE  i + 1 \in DOMAIN s /\ n[i] = s[i + 1] /\ (i + 1 = Len(s) => i = Len(n))
      BY <3>1
    <3>4. QED
      BY <2>2, <3>2, <3>3
  <2>3. QED
    BY <2>1, <2>2
<1>4. \A i \in DOMAIN a_cpu'[c] :
        Orden(a_cpu'[c][i]) => EnCurso(estado', cpu', a_cpu'[c][i].pid, c)
  BY <1>2 DEF EjecDe
<1>5. \A i \in DOMAIN de_cpu'[c] :
        /\ EnCurso(estado', cpu', de_cpu'[c][i].pid, c)
        /\ Final(de_cpu'[c][i]) => i = Len(de_cpu'[c]) /\ cpu_pid'[c] = Nadie
  BY <1>3 DEF EjecDe
<1>6. cpu_pid'[c] # Nadie => EnCurso(estado', cpu', cpu_pid'[c], c)
  BY DEF EjecDe
<1>7. ~ SinOrdenes(a_cpu'[c]) => cpu_pid'[c] = Nadie /\ de_cpu'[c] = <<>>
  BY <1>2, <1>3 DEF EjecDe
<1>8. PorEnviar(c)' => /\ SinOrdenes(a_cpu'[c]) /\ cpu_pid'[c] = Nadie /\ de_cpu'[c] = <<>>
                       /\ EnCurso(estado', cpu', planificador'.pid, c)
  BY <1>2, <1>3 DEF EjecDe
<1>9. Activa(cpu_estado'[c]) <=> cpu_pid'[c] # Nadie
  BY DEF EjecDe
<1>10. QED
  BY <1>2, <1>4, <1>5, <1>6, <1>7, <1>8, <1>9 DEF EjecDe

\* A process that leaves a CPU or changes state leaves alone the ones of the
\* other CPUs.
LEMMA EnCursoDeOtros ==
  ASSUME KsTipo, NEW c \in Cpus, NEW p \in Pids, NEW e, NEW x,
         estado' = [estado EXCEPT ![p] = e], cpu' = cpu \/ cpu' = [cpu EXCEPT ![p] = x],
         estado[p] # "EXEC" \/ cpu[p] # c
  PROVE  \A q : EnCurso(estado, cpu, q, c) => EnCurso(estado', cpu', q, c)
<1>1. ASSUME NEW q \in Pids, q # p
      PROVE  estado'[q] = estado[q] /\ cpu'[q] = cpu[q]
  BY <1>1 DEF KsTipo
<1>2. QED
  BY <1>1 DEF EnCurso

\* enviar_entero to one CPU.
LEMMA AlCpuMensaje ==
  ASSUME CanalesTipo, NEW k, NEW op, NEW p, a_cpu' = AlCpu(a_cpu, k, op, p)
  PROVE  \A c \in Cpus : a_cpu'[c] = IF c = k THEN Append(a_cpu[c], [op |-> op, pid |-> p])
                                     ELSE a_cpu[c]
BY DEF CanalesTipo, AlCpu

\* The planner takes a process for a CPU that has none, and sends it.
LEMMA EjecElegir ==
  ASSUME PlanInv, CpusInv, EjecInv, PlanificadorElegir, UNCHANGED cpuVars
  PROVE  EjecInv'
<1>1. CanalesTipo /\ KsTipo
  BY DEF PlanInv, TypeOK
<1>2. a_cpu' = a_cpu /\ de_cpu' = de_cpu /\ hilo_cpu' = hilo_cpu
      /\ cpu_pid' = cpu_pid /\ cpu_estado' = cpu_estado
  BY DEF PlanificadorElegir, canales, cpuVars
<1>3. CASE ConProcesos = {} \/ lista_cpus_libres = <<>>
  <2>1. estado' = estado /\ cpu' = cpu
    BY <1>3 DEF PlanificadorElegir, procesoVars
  <2>2. planificador.pc = "puede" /\ planificador'.pc # "enviar"
    <3>1. planificador \in Planes
      BY <1>1, PartesTipo
    <3>2. QED
      BY <1>3, <3>1 DEF PlanificadorElegir, Planes
  <2>3. \A c \in Cpus : \A p : EnCurso(estado, cpu, p, c) => EnCurso(estado', cpu', p, c)
    BY <2>1 DEF EnCurso
  <2>4. \A c \in Cpus : ~ PorEnviar(c)'
    BY <2>2 DEF PorEnviar
  <2>5. ASSUME NEW c \in Cpus PROVE EjecDe(c)'
    <3>1. EjecDe(c) /\ SinDesconectar(hilo_cpu'[c])
      BY <1>2 DEF EjecInv, EjecDe
    <3>2. QED
      BY <1>1, <1>2, <2>3, <2>4, <3>1, EjecSigue
  <2>6. QED
    BY <2>5 DEF EjecInv
<1>4. CASE ConProcesos # {} /\ lista_cpus_libres # <<>>
  <2>1. PICK p \in Pids, k \in Cpus :
          /\ estado[p] = "READY" /\ Veces(k, lista_cpus_libres) > 0
          /\ estado' = [estado EXCEPT ![p] = "EXEC"] /\ cpu' = [cpu EXCEPT ![p] = k]
          /\ planificador'.pc = "enviar" /\ planificador'.pid = p /\ planificador'.cpu = k
    <3> DEFINE x == Head(colas_ready[PrimeraCola])
               d == Head(lista_cpus_libres)
    <3>1. /\ estado' = [estado EXCEPT ![x] = "EXEC"] /\ cpu' = [cpu EXCEPT ![x] = d]
          /\ planificador'.pc = "enviar" /\ planificador'.pid = x /\ planificador'.cpu = d
      BY <1>4 DEF PlanificadorElegir
    <3>2. x \in Pids /\ estado[x] = "READY"
      BY <1>4, ElegirEfecto
    <3>3. lista_cpus_libres \in Seq(Cpus)
      BY <1>1 DEF KsTipo
    <3>4. d \in Cpus /\ EnLista(d, lista_cpus_libres)
      BY <1>4, <3>3, VecesTail
    <3>5. Veces(d, lista_cpus_libres) > 0
      BY <3>3, <3>4, VecesNumero
    <3> HIDE DEF x, d
    <3>6. QED
      BY <3>1, <3>2, <3>4, <3>5
  <2>2. p \in Pids /\ estado[p] = "READY"
    BY <2>1
  <2>3. k \in Cpus /\ Veces(k, lista_cpus_libres) > 0
    BY <2>1
  <2>4. \A q : ~ EnCurso(estado, cpu, q, k)
    <3>1. EnEjecucion(k) = {}
      BY <2>3, NadieEnLibre
    <3>2. QED
      BY <3>1 DEF EnCurso, EnEjecucion
  <2>5. \A c \in Cpus : \A q : EnCurso(estado, cpu, q, c) => EnCurso(estado', cpu', q, c)
    BY <1>1, <2>1, <2>2, EnCursoDeOtros
  <2>6. EnCurso(estado', cpu', p, k)
    BY <1>1, <2>1, <2>2, <2>3 DEF EnCurso, KsTipo
  <2>7. ASSUME NEW c \in Cpus, c # k PROVE EjecDe(c)'
    <3>1. EjecDe(c) /\ SinDesconectar(hilo_cpu'[c])
      BY <1>2 DEF EjecInv, EjecDe
    <3>2. ~ PorEnviar(c)'
      BY <2>1, <2>7 DEF PorEnviar
    <3>3. QED
      BY <1>1, <1>2, <2>5, <3>1, <3>2, EjecSigue
  <2>8. EjecDe(k)'
    <3>1. EjecDe(k)
      BY <2>3 DEF EjecInv
    <3>2. SinOrdenes(a_cpu[k]) /\ cpu_pid[k] = Nadie
      BY <2>4, <3>1 DEF EjecDe, SinOrdenes
    <3>3. de_cpu[k] = <<>>
      <4>1. de_cpu[k] \in Seq(MensajeCpu)
        BY <1>1, <2>3 DEF CanalesTipo
      <4>2. DOMAIN de_cpu[k] = {}
        BY <2>4, <3>1 DEF EjecDe
      <4>3. QED
        BY <4>1, <4>2, MensajeQuitado
    <3>4. PorEnviar(k)' =>
            /\ SinOrdenes(a_cpu'[k]) /\ cpu_pid'[k] = Nadie /\ de_cpu'[k] = <<>>
            /\ EnCurso(estado', cpu', planificador'.pid, k)
      BY <1>2, <2>1, <2>6, <3>2, <3>3
    <3>5. /\ UnaOrden(a_cpu'[k])
          /\ \A i \in DOMAIN a_cpu'[k] :
               Orden(a_cpu'[k][i]) => EnCurso(estado', cpu', a_cpu'[k][i].pid, k)
          /\ Activa(cpu_estado'[k]) <=> cpu_pid'[k] # Nadie
          /\ SinDesconectar(hilo_cpu'[k])
      BY <1>2, <3>1, <3>2 DEF EjecDe, SinOrdenes
    <3>6. \A i \in DOMAIN de_cpu'[k] :
            /\ EnCurso(estado', cpu', de_cpu'[k][i].pid, k)
            /\ Final(de_cpu'[k][i]) => i = Len(de_cpu'[k]) /\ cpu_pid'[k] = Nadie
      BY <1>2, <3>3
    <3>7. /\ cpu_pid'[k] # Nadie => EnCurso(estado', cpu', cpu_pid'[k], k)
          /\ ~ SinOrdenes(a_cpu'[k]) => cpu_pid'[k] = Nadie /\ de_cpu'[k] = <<>>
      BY <1>2, <3>2
    <3>8. QED
      BY <3>4, <3>5, <3>6, <3>7 DEF EjecDe
  <2>9. ASSUME NEW c \in Cpus PROVE EjecDe(c)'
    <3>1. CASE c # k
      BY <2>7, <3>1
    <3>2. CASE c = k
      BY <2>8, <3>2
    <3>3. QED
      BY <3>1, <3>2
  <2>10. QED
    BY <2>9 DEF EjecInv
<1>5. QED
  BY <1>3, <1>4

\* enviar_proceso_a_cpu: the process that the planner had in hand is on its way to
\* a CPU that had none.
LEMMA EjecEnviar ==
  ASSUME PlanInv, EjecInv, PlanificadorEnviar, UNCHANGED cpuVars
  PROVE  EjecInv'
<1>1. CanalesTipo /\ KsTipo
  BY DEF PlanInv, TypeOK
<1>2. PICK k \in Cpus, p \in Pids : /\ planificador.pc = "enviar"
                                   /\ planificador.cpu = k /\ planificador.pid = p
  BY DEF PlanificadorEnviar, PlanInv, EnvioInv
<1>3. /\ de_cpu' = de_cpu /\ hilo_cpu' = hilo_cpu /\ estado' = estado /\ cpu' = cpu
      /\ cpu_pid' = cpu_pid /\ cpu_estado' = cpu_estado /\ planificador'.pc = "ready"
  BY DEF PlanificadorEnviar, procesoVars, cpuVars
<1>4. EjecDe(k) /\ PorEnviar(k)
  BY <1>2 DEF EjecInv, PorEnviar
<1>5. /\ SinOrdenes(a_cpu[k]) /\ cpu_pid[k] = Nadie /\ de_cpu[k] = <<>>
      /\ EnCurso(estado, cpu, p, k) /\ SinDesconectar(hilo_cpu[k])
      /\ Activa(cpu_estado[k]) <=> cpu_pid[k] # Nadie
  BY <1>2, <1>4 DEF EjecDe
<1>6. a_cpu' = AlCpu(a_cpu, k, "EJECUTAR_PROCESO", p)
  BY <1>2, <1>5 DEF PlanificadorEnviar, SinDesconectar
<1>7. \A c \in Cpus : a_cpu'[c] = IF c = k THEN Append(a_cpu[c], [op |-> "EJECUTAR_PROCESO", pid |-> p])
                                  ELSE a_cpu[c]
  BY <1>1, <1>6, AlCpuMensaje
<1>8. \A c \in Cpus : ~ PorEnviar(c)'
  BY <1>3 DEF PorEnviar
<1>9. ASSUME NEW c \in Cpus, c # k PROVE EjecDe(c)'
  <2>1. EjecDe(c) /\ SinDesconectar(hilo_cpu'[c])
    BY <1>3 DEF EjecInv, EjecDe
  <2>2. a_cpu'[c] = a_cpu[c]
    BY <1>7, <1>9
  <2>3. \A q : EnCurso(estado, cpu, q, c) => EnCurso(estado', cpu', q, c)
    BY <1>3
  <2>4. QED
    BY <1>1, <1>3, <1>8, <2>1, <2>2, <2>3, EjecSigue
<1>10. EjecDe(k)'
  <2> DEFINE m == [op |-> "EJECUTAR_PROCESO", pid |-> p]
             s == a_cpu[k]
             n == Append(s, m)
  <2>1. m.pid = p /\ Orden(m)
    BY DEF Orden
  <2>2. a_cpu'[k] = n
    BY <1>7
  <2>3. s \in Seq(MensajeKs)
    BY <1>1 DEF CanalesTipo
  <2> HIDE DEF m
  <2>4. \A i \in DOMAIN n : \/ i = Len(s) + 1 /\ n[i] = m
                            \/ i \in DOMAIN s /\ n[i] = s[i]
    BY <2>3, MensajeAgregado
  <2> HIDE DEF n
  <2>5. \A i \in DOMAIN n : Orden(n[i]) => i = Len(s) + 1 /\ n[i] = m
    BY <1>5, <2>4 DEF SinOrdenes
  <2>6. /\ UnaOrden(a_cpu'[k])
        /\ \A i \in DOMAIN a_cpu'[k] :
             Orden(a_cpu'[k][i]) => EnCurso(estado', cpu', a_cpu'[k][i].pid, k)
    BY <1>3, <1>5, <2>1, <2>2, <2>5 DEF UnaOrden
  <2>7. /\ \A i \in DOMAIN de_cpu'[k] :
             /\ EnCurso(estado', cpu', de_cpu'[k][i].pid, k)
             /\ Final(de_cpu'[k][i]) => i = Len(de_cpu'[k]) /\ cpu_pid'[k] = Nadie
        /\ cpu_pid'[k] # Nadie => EnCurso(estado', cpu', cpu_pid'[k], k)
        /\ Activa(cpu_estado'[k]) <=> cpu_pid'[k] # Nadie
        /\ ~ SinOrdenes(a_cpu'[k]) => cpu_pid'[k] = Nadie /\ de_cpu'[k] = <<>>
        /\ SinDesconectar(hilo_cpu'[k])
    BY <1>3, <1>5
  <2>8. QED
    BY <1>8, <2>6, <2>7 DEF EjecDe
<1>11. ASSUME NEW c \in Cpus PROVE EjecDe(c)'
  BY <1>9, <1>10
<1>12. QED
  BY <1>11 DEF EjecInv

\* recibir_entero, at every CPU.
LEMMA RecibeDe ==
  ASSUME CanalesTipo, NEW c \in Cpus, NEW op, Recibe(c, op)
  PROVE  /\ de_cpu[c] \in Seq(MensajeCpu) /\ de_cpu[c] # <<>> /\ Head(de_cpu[c]).op = op
         /\ \A d \in Cpus : de_cpu'[d] = IF d = c THEN Tail(de_cpu[c]) ELSE de_cpu[d]
BY DEF CanalesTipo, Recibe

\* A step of a thread that takes no process off its CPU.
LEMMA EjecHiloSigue ==
  ASSUME CanalesTipo, EjecInv, NEW c \in Cpus, UNCHANGED <<cpuVars, planificador>>,
         \A d \in Cpus : \A p : EnCurso(estado, cpu, p, d) => EnCurso(estado', cpu', p, d),
         \/ a_cpu' = a_cpu
         \/ \E k, op, p : op # "EJECUTAR_PROCESO" /\ a_cpu' = AlCpu(a_cpu, k, op, p),
         de_cpu' = de_cpu \/ \E op : Recibe(c, op),
         \A d \in Cpus : SinDesconectar(hilo_cpu'[d])
  PROVE  EjecInv'
<1>1. cpu_pid' = cpu_pid /\ cpu_estado' = cpu_estado /\ planificador' = planificador
  BY DEF cpuVars
<1>2. ASSUME NEW d \in Cpus
      PROVE  \/ a_cpu'[d] = a_cpu[d]
             \/ \E m : ~ Orden(m) /\ a_cpu'[d] = Append(a_cpu[d], m)
  <2>1. CASE a_cpu' = a_cpu
    BY <2>1
  <2>2. CASE \E k, op, p : op # "EJECUTAR_PROCESO" /\ a_cpu' = AlCpu(a_cpu, k, op, p)
    <3>1. PICK k, op, p : op # "EJECUTAR_PROCESO" /\ a_cpu' = AlCpu(a_cpu, k, op, p)
      BY <2>2
    <3>2. a_cpu'[d] = IF d = k THEN Append(a_cpu[d], [op |-> op, pid |-> p]) ELSE a_cpu[d]
      BY <3>1, AlCpuMensaje
    <3>3. ~ Orden([op |-> op, pid |-> p])
      BY <3>1 DEF Orden
    <3>4. QED
      BY <3>2, <3>3
  <2>3. QED
    BY <2>1, <2>2
<1>3. \A d \in Cpus : de_cpu'[d] = de_cpu[d] \/ (de_cpu[d] # <<>> /\ de_cpu'[d] = Tail(de_cpu[d]))
  <2>1. CASE de_cpu' = de_cpu
    BY <2>1
  <2>2. CASE \E op : Recibe(c, op)
    BY <2>2, RecibeDe
  <2>3. QED
    BY <2>1, <2>2
<1>4. ASSUME NEW d \in Cpus PROVE EjecDe(d)'
  <2>1. EjecDe(d) /\ SinDesconectar(hilo_cpu'[d])
    BY DEF EjecInv
  <2>2. PorEnviar(d)' => PorEnviar(d) /\ planificador' = planificador
    BY <1>1 DEF PorEnviar
  <2>3. /\ \A p : EnCurso(estado, cpu, p, d) => EnCurso(estado', cpu', p, d)
        /\ de_cpu'[d] = de_cpu[d] \/ (de_cpu[d] # <<>> /\ de_cpu'[d] = Tail(de_cpu[d]))
        /\ cpu_pid'[d] = cpu_pid[d] /\ (Activa(cpu_estado'[d]) <=> Activa(cpu_estado[d]))
    BY <1>1, <1>3
  <2>4. \/ a_cpu'[d] = a_cpu[d]
        \/ \E m : ~ Orden(m) /\ a_cpu'[d] = Append(a_cpu[d], m)
    BY <1>2
  <2>5. QED
    BY <2>1, <2>2, <2>3, <2>4, EjecSigue
<1>5. QED
  BY <1>4 DEF EjecInv

\* The Kernel Scheduler takes a process off the CPU that has said that it
\* leaves it.
LEMMA EjecSale ==
  ASSUME CanalesTipo, KsTipo, EjecInv, NEW c \in Cpus, UNCHANGED <<cpuVars, planificador>>,
         NEW op, Recibe(c, op), Final(Head(de_cpu[c])), a_cpu' = a_cpu,
         NEW p, p = Head(de_cpu[c]).pid, NEW e, NEW x,
         estado' = [estado EXCEPT ![p] = e], cpu' = cpu \/ cpu' = [cpu EXCEPT ![p] = x],
         \A d \in Cpus : SinDesconectar(hilo_cpu'[d])
  PROVE  EjecInv'
<1>1. cpu_pid' = cpu_pid /\ cpu_estado' = cpu_estado /\ planificador' = planificador
  BY DEF cpuVars
<1>2. /\ de_cpu[c] \in Seq(MensajeCpu) /\ de_cpu[c] # <<>>
      /\ \A d \in Cpus : de_cpu'[d] = IF d = c THEN Tail(de_cpu[c]) ELSE de_cpu[d]
  BY RecibeDe
<1>3. /\ 1 \in DOMAIN de_cpu[c] /\ Head(de_cpu[c]) = de_cpu[c][1]
      /\ DOMAIN Tail(de_cpu[c]) = 1 .. Len(de_cpu[c]) - 1 /\ Len(de_cpu[c]) \in Nat
      /\ Tail(de_cpu[c]) \in Seq(MensajeCpu)
  BY <1>2, MensajeQuitado
<1>4. EjecDe(c)
  BY DEF EjecInv
<1>5. /\ EnCurso(estado, cpu, p, c) /\ 1 = Len(de_cpu[c]) /\ cpu_pid[c] = Nadie
  BY <1>3, <1>4 DEF EjecDe
<1>6. SinOrdenes(a_cpu[c]) /\ ~ PorEnviar(c)
  BY <1>2, <1>4 DEF EjecDe
<1>7. de_cpu'[c] = <<>>
  <2>1. Len(de_cpu[c]) = 1 /\ Len(Tail(de_cpu[c])) = Len(de_cpu[c]) - 1
    BY <1>2, <1>5, MensajeQuitado
  <2>2. Tail(de_cpu[c]) = <<>>
    <3>1. Len(Tail(de_cpu[c])) = 0
      BY <2>1
    <3>2. QED
      BY <1>3, <3>1, EmptySeq
  <2>3. QED
    BY <1>2, <2>2
<1>8. EjecDe(c)'
  <2>1. /\ UnaOrden(a_cpu'[c]) /\ SinDesconectar(hilo_cpu'[c])
        /\ \A i \in DOMAIN a_cpu'[c] :
             Orden(a_cpu'[c][i]) => EnCurso(estado', cpu', a_cpu'[c][i].pid, c)
        /\ Activa(cpu_estado'[c]) <=> cpu_pid'[c] # Nadie
    BY <1>1, <1>4, <1>6 DEF EjecDe, SinOrdenes
  <2>2. /\ \A i \in DOMAIN de_cpu'[c] :
             /\ EnCurso(estado', cpu', de_cpu'[c][i].pid, c)
             /\ Final(de_cpu'[c][i]) => i = Len(de_cpu'[c]) /\ cpu_pid'[c] = Nadie
        /\ cpu_pid'[c] # Nadie => EnCurso(estado', cpu', cpu_pid'[c], c)
        /\ ~ SinOrdenes(a_cpu'[c]) => cpu_pid'[c] = Nadie /\ de_cpu'[c] = <<>>
    BY <1>1, <1>5, <1>7
  <2>3. ~ PorEnviar(c)'
    BY <1>1, <1>6 DEF PorEnviar
  <2>4. QED
    BY <2>1, <2>2, <2>3 DEF EjecDe
<1>9. ASSUME NEW d \in Cpus, d # c PROVE EjecDe(d)'
  <2>1. EjecDe(d) /\ SinDesconectar(hilo_cpu'[d])
    BY DEF EjecInv
  <2>2. p \in Pids /\ cpu[p] # d
    BY <1>5, <1>9 DEF EnCurso
  <2>3. \A q : EnCurso(estado, cpu, q, d) => EnCurso(estado', cpu', q, d)
    BY <2>2, EnCursoDeOtros
  <2>4. PorEnviar(d)' => PorEnviar(d) /\ planificador' = planificador
    BY <1>1 DEF PorEnviar
  <2>5. /\ a_cpu'[d] = a_cpu[d] /\ de_cpu'[d] = de_cpu[d]
        /\ cpu_pid'[d] = cpu_pid[d] /\ (Activa(cpu_estado'[d]) <=> Activa(cpu_estado[d]))
    BY <1>1, <1>2, <1>9
  <2>6. QED
    BY <2>1, <2>3, <2>4, <2>5, EjecSigue
<1>10. ASSUME NEW d \in Cpus PROVE EjecDe(d)'
  <2>1. CASE d # c
    BY <1>9, <2>1
  <2>2. CASE d = c
    BY <1>8, <2>2
  <2>3. QED
    BY <2>1, <2>2
<1>11. QED
  BY <1>10 DEF EjecInv

\* encolar_en_ready for a handler that is not desconectar_cpu.
LEMMA EncolarSinDesconectar ==
  ASSUME NEW c, NEW p, NEW exec, NEW luego \in {"fq_fin", "init_fin"},
         EncolarEnReady(c, p, exec, luego)
  PROVE  \E h : SinDesconectar(h) /\ hilo_cpu' = [hilo_cpu EXCEPT ![c] = h]
<1> DEFINE h == [pc |-> IF AvisoPor(p, exec) = SinAviso THEN luego ELSE "avisar",
                 luego |-> luego, pid |-> p, cpu |-> cpu[p],
                 planificable |-> Planificable(p), aviso |-> AvisoPor(p, exec)]
<1>1. hilo_cpu' = [hilo_cpu EXCEPT ![c] = h]
  BY DEF EncolarEnReady
<1>2. h.pc \in {luego, "avisar"} /\ h.luego = luego
  OBVIOUS
<1> HIDE DEF h
<1>3. SinDesconectar(h)
  BY <1>2 DEF SinDesconectar
<1>4. QED
  BY <1>1, <1>3

\* A thread of the Kernel Scheduler, while no CPU was stopped.
LEMMA EjecHilo ==
  ASSUME PlanInv, ApagadasInv, SinApagadas, EjecInv, NEW c \in Cpus, HiloCpu(c),
         UNCHANGED cpuVars
  PROVE  EjecInv'
<1>1. CanalesTipo /\ KsTipo
  BY DEF PlanInv, TypeOK
<1>2. hilo_cpu \in [Cpus -> Hilo]
  BY <1>1 DEF KsTipo, Hilo
<1>3. /\ SinDesconectar(hilo_cpu[c]) /\ HiloOK(hilo_cpu[c], estado)
      /\ \A d \in Cpus : SinDesconectar(hilo_cpu[d])
  BY DEF EjecInv, EjecDe, PlanInv, HilosInv
<1>4. planificador' = planificador
  BY DEF HiloCpu, Avisar, Postear, ManejarFinQuantum, ManejarFinQuantumFin,
         ManejarProcesoExit, ManejarSegFault, Finaliza, FinalizaFin, ManejarInitProc,
         ManejarInitProcError, ManejarSyscallSinProceso, MoverProcesoAReady,
         ManejarInitProcFin, DesconectarCpu, DesconectarCpuFin, hiloVars, ksVars
<1>5. ASSUME NEW h, SinDesconectar(h), hilo_cpu' = [hilo_cpu EXCEPT ![c] = h]
      PROVE  \A d \in Cpus : SinDesconectar(hilo_cpu'[d])
  BY <1>2, <1>3, <1>5
<1>6. ASSUME NEW pc \in {"recibir", "postear", "exit_fin", "init_nuevo"}
      PROVE  SinDesconectar(HiloEn(pc))
  BY <1>6 DEF HiloEn, SinDesconectar
<1>7. ASSUME estado' = estado, cpu' = cpu
      PROVE  \A d \in Cpus : \A p : EnCurso(estado, cpu, p, d) => EnCurso(estado', cpu', p, d)
  BY <1>7
<1>8. CASE Avisar(c) \/ ManejarInitProcFin(c)
  <2>1. /\ \E k, op, p : op # "EJECUTAR_PROCESO" /\ a_cpu' = AlCpu(a_cpu, k, op, p)
        /\ de_cpu' = de_cpu /\ estado' = estado /\ cpu' = cpu
    BY <1>8 DEF Avisar, ManejarInitProcFin, procesoVars
  <2>2. \E h : SinDesconectar(h) /\ hilo_cpu' = [hilo_cpu EXCEPT ![c] = h]
    <3>1. CASE Avisar(c)
      <4>1. hilo_cpu' = [hilo_cpu EXCEPT ![c] =
              [hilo_cpu[c] EXCEPT !.pc = hilo_cpu[c].luego, !.aviso = SinAviso]]
        BY <1>2, <3>1 DEF Avisar, Hilo
      <4>2. hilo_cpu[c] \in Hilo
        BY <1>2
      <4> DEFINE h == [hilo_cpu[c] EXCEPT !.pc = hilo_cpu[c].luego, !.aviso = SinAviso]
      <4>3. h.pc = hilo_cpu[c].luego /\ h.luego = hilo_cpu[c].luego
        BY <4>2 DEF Hilo
      <4>4. hilo_cpu[c].luego \in {"fq_fin", "init_fin", "desc_fin", "nada"}
        BY <4>2 DEF Hilo
      <4>5. SinDesconectar(h)
        BY <1>3, <4>3, <4>4 DEF SinDesconectar
      <4>6. QED
        BY <4>1, <4>5
    <3>2. CASE ManejarInitProcFin(c)
      BY <1>6, <3>2 DEF ManejarInitProcFin
    <3>3. QED
      BY <1>8, <3>1, <3>2
  <2>3. \A d \in Cpus : SinDesconectar(hilo_cpu'[d])
    BY <1>5, <2>2
  <2>4. QED
    BY <1>1, <1>4, <1>7, <2>1, <2>3, EjecHiloSigue
<1>9. CASE Postear(c) \/ ManejarFinQuantumFin(c)
  <2>1. a_cpu' = a_cpu /\ de_cpu' = de_cpu /\ estado' = estado /\ cpu' = cpu
    BY <1>9 DEF Postear, ManejarFinQuantumFin, procesoVars, canales
  <2>2. \E h : SinDesconectar(h) /\ hilo_cpu' = [hilo_cpu EXCEPT ![c] = h]
    <3>1. SinDesconectar([HiloEn("postear") EXCEPT !.planificable = hilo_cpu[c].planificable])
      BY DEF SinDesconectar, HiloEn
    <3>2. QED
      BY <1>6, <1>9, <3>1 DEF Postear, ManejarFinQuantumFin
  <2>3. \A d \in Cpus : SinDesconectar(hilo_cpu'[d])
    BY <1>5, <2>2
  <2>4. QED
    BY <1>1, <1>4, <1>7, <2>1, <2>3, EjecHiloSigue
<1>10. CASE FinalizaFin(c)
  <2>1. /\ a_cpu' = a_cpu /\ de_cpu' = de_cpu /\ estado' = estado
        /\ cpu' = [cpu EXCEPT ![hilo_cpu[c].pid] = Nulo]
        /\ hilo_cpu' = [hilo_cpu EXCEPT ![c] = HiloEn("postear")]
        /\ hilo_cpu[c].pc = "exit_fin"
    BY <1>10 DEF FinalizaFin, canales
  <2>2. hilo_cpu[c].pid \in Pids /\ estado[hilo_cpu[c].pid] = "EXIT"
    BY <1>3, <2>1 DEF HiloOK
  <2>3. \A d \in Cpus : \A p : EnCurso(estado, cpu, p, d) => EnCurso(estado', cpu', p, d)
    <3>1. \A q \in Pids : q # hilo_cpu[c].pid => cpu'[q] = cpu[q]
      BY <1>1, <2>1 DEF KsTipo
    <3>2. QED
      BY <2>1, <2>2, <3>1 DEF EnCurso
  <2>4. \A d \in Cpus : SinDesconectar(hilo_cpu'[d])
    BY <1>5, <1>6, <2>1
  <2>5. QED
    BY <1>1, <1>4, <2>1, <2>3, <2>4, EjecHiloSigue
<1>11. CASE ManejarInitProc(c)
  <2>1. /\ Recibe(c, "INIT_PROC") /\ proximo_pid \in Pids
        /\ a_cpu' = a_cpu /\ cpu' = cpu
        /\ estado' = [estado EXCEPT ![proximo_pid] = "NEW"]
        /\ hilo_cpu' = [hilo_cpu EXCEPT ![c] = [HiloEn("init_nuevo") EXCEPT !.pid = proximo_pid]]
    BY <1>11 DEF ManejarInitProc
  <2>2. estado[proximo_pid] = "SIN_CREAR"
    BY <2>1, PlanificacionOK DEF PlanInv, ProcesosInv
  <2>3. \A d \in Cpus : \A p : EnCurso(estado, cpu, p, d) => EnCurso(estado', cpu', p, d)
    BY <1>1, <2>1, <2>2, EnCursoDeOtros
  <2>4. SinDesconectar([HiloEn("init_nuevo") EXCEPT !.pid = proximo_pid])
    BY DEF SinDesconectar, HiloEn
  <2>5. \A d \in Cpus : SinDesconectar(hilo_cpu'[d])
    BY <1>5, <2>1, <2>4
  <2>6. QED
    BY <1>1, <1>4, <2>1, <2>3, <2>5, EjecHiloSigue
<1>12. CASE ManejarInitProcError(c) \/ ManejarSyscallSinProceso(c)
  <2>1. /\ \/ a_cpu' = a_cpu
           \/ \E k, op, p : op # "EJECUTAR_PROCESO" /\ a_cpu' = AlCpu(a_cpu, k, op, p)
        /\ \E op : Recibe(c, op)
        /\ estado' = estado /\ cpu' = cpu /\ hilo_cpu' = hilo_cpu
    BY <1>12 DEF ManejarInitProcError, ManejarSyscallSinProceso, ksVars, procesoVars, hiloVars
  <2>2. QED
    BY <1>1, <1>3, <1>4, <1>7, <2>1, EjecHiloSigue
<1>13. CASE MoverProcesoAReady(c)
  <2>1. PICK p : p = hilo_cpu[c].pid
    OBVIOUS
  <2>2. /\ a_cpu' = a_cpu /\ de_cpu' = de_cpu /\ cpu' = cpu
        /\ estado' = [estado EXCEPT ![p] = "READY"] /\ hilo_cpu[c].pc = "init_nuevo"
        /\ EncolarEnReady(c, p, lista_exec, "init_fin")
    BY <1>13, <2>1 DEF MoverProcesoAReady, canales
  <2>3. p \in Pids /\ estado[p] = "NEW"
    BY <1>3, <2>1, <2>2 DEF HiloOK
  <2>4. \A d \in Cpus : \A q : EnCurso(estado, cpu, q, d) => EnCurso(estado', cpu', q, d)
    BY <1>1, <2>2, <2>3, EnCursoDeOtros
  <2>5. \A d \in Cpus : SinDesconectar(hilo_cpu'[d])
    BY <1>5, <2>2, EncolarSinDesconectar
  <2>6. QED
    BY <1>1, <1>4, <2>2, <2>4, <2>5, EjecHiloSigue
<1>14. ASSUME NEW op, Recibe(c, op), a_cpu' = a_cpu, UNCHANGED <<estado, cpu, hilo_cpu>>
       PROVE  EjecInv'
  BY <1>1, <1>3, <1>4, <1>7, <1>14, EjecHiloSigue
<1>15. CASE ManejarFinQuantum(c)
  <2>1. PICK p : p = Head(de_cpu[c]).pid
    OBVIOUS
  <2>2. Recibe(c, "PROCESO_FIN_QUANTUM") /\ a_cpu' = a_cpu
    BY <1>15 DEF ManejarFinQuantum
  <2>3. CASE ~ EnLista(p, lista_exec)
    BY <1>14, <1>15, <2>1, <2>2, <2>3 DEF ManejarFinQuantum
  <2>4. CASE EnLista(p, lista_exec)
    <3>1. /\ estado' = [estado EXCEPT ![p] = "READY"] /\ cpu' = [cpu EXCEPT ![p] = Nulo]
          /\ EncolarEnReady(c, p, RemoveFirst(lista_exec, p), "fq_fin")
      BY <1>15, <2>1, <2>4 DEF ManejarFinQuantum
    <3>2. \A d \in Cpus : SinDesconectar(hilo_cpu'[d])
      BY <1>5, <3>1, EncolarSinDesconectar
    <3>3. Final(Head(de_cpu[c]))
      BY <2>2 DEF Recibe, Final
    <3>4. QED
      BY <1>1, <1>4, <2>1, <2>2, <3>1, <3>2, <3>3, EjecSale
  <2>5. QED
    BY <2>3, <2>4
<1>16. ASSUME NEW op \in {"PROCESO_EXIT", "PROCESO_SEG_FAULT"}, Finaliza(c, op)
       PROVE  EjecInv'
  <2>1. PICK p : p = Head(de_cpu[c]).pid
    OBVIOUS
  <2>2. Recibe(c, op) /\ a_cpu' = a_cpu /\ cpu' = cpu
    BY <1>16 DEF Finaliza
  <2>3. CASE ~ EnLista(p, lista_exec)
    BY <1>14, <1>16, <2>1, <2>2, <2>3 DEF Finaliza
  <2>4. CASE EnLista(p, lista_exec)
    <3>1. /\ estado' = [estado EXCEPT ![p] = "EXIT"]
          /\ hilo_cpu' = [hilo_cpu EXCEPT ![c] =
                            [HiloEn("exit_fin") EXCEPT !.pid = p, !.cpu = cpu[p]]]
      BY <1>16, <2>1, <2>4 DEF Finaliza
    <3>2. SinDesconectar([HiloEn("exit_fin") EXCEPT !.pid = p, !.cpu = cpu[p]])
      BY DEF SinDesconectar, HiloEn
    <3>3. \A d \in Cpus : SinDesconectar(hilo_cpu'[d])
      BY <1>5, <3>1, <3>2
    <3>4. Final(Head(de_cpu[c]))
      BY <1>16, <2>2 DEF Recibe, Final
    <3>5. QED
      BY <1>1, <1>4, <2>1, <2>2, <3>1, <3>3, <3>4, EjecSale
  <2>5. QED
    BY <2>3, <2>4
<1>17. ~ DesconectarCpu(c) /\ ~ DesconectarCpuFin(c)
  <2>1. ASSUME Recibe(c, "FIN_CONEXION") PROVE FALSE
    <3>1. de_cpu[c] \in Seq(MensajeCpu) /\ de_cpu[c] # <<>> /\ Head(de_cpu[c]).op = "FIN_CONEXION"
      BY <1>1, <2>1, RecibeDe
    <3>2. 1 \in DOMAIN de_cpu[c] /\ Head(de_cpu[c]) = de_cpu[c][1]
      BY <3>1, MensajeQuitado
    <3>3. QED
      BY <3>1, <3>2 DEF ApagadasInv, SinApagadas
  <2>2. QED
    BY <1>3, <2>1 DEF DesconectarCpu, DesconectarCpuFin, SinDesconectar
<1>18. QED
  BY <1>8, <1>9, <1>10, <1>11, <1>12, <1>13, <1>15, <1>16, <1>17
     DEF HiloCpu, ManejarProcesoExit, ManejarSegFault

\* A message to the Kernel Scheduler.
LEMMA AlKsMensaje ==
  ASSUME CanalesTipo, NEW c \in Cpus, NEW op, NEW p, NEW prio, de_cpu' = AlKs(c, op, p, prio)
  PROVE  \E m : /\ m.op = op /\ m.pid = p
                /\ \A d \in Cpus : de_cpu'[d] = IF d = c THEN Append(de_cpu[c], m) ELSE de_cpu[d]
<1> DEFINE m == [op |-> op, pid |-> p, prioridad |-> prio]
<1>1. m.op = op /\ m.pid = p
  OBVIOUS
<1>2. de_cpu' = [de_cpu EXCEPT ![c] = Append(de_cpu[c], m)]
  BY DEF AlKs
<1> HIDE DEF m
<1>3. \A d \in Cpus : de_cpu'[d] = IF d = c THEN Append(de_cpu[c], m) ELSE de_cpu[d]
  BY <1>2 DEF CanalesTipo
<1>4. QED
  BY <1>1, <1>3

\* How a cycle of the CPU that runs a process ends: the CPU goes on with it, or
\* asks the Kernel Scheduler for something, or leaves it.
CpuTermina(c) ==
  \/ /\ de_cpu' = de_cpu /\ cpu_pid' = cpu_pid
     /\ \E e : Activa(e) /\ cpu_estado' = [cpu_estado EXCEPT ![c] = e]
  \/ /\ \E prio : de_cpu' = AlKs(c, "INIT_PROC", cpu_pid[c], prio)
     /\ cpu_pid' = cpu_pid
     /\ \E e : Activa(e) /\ cpu_estado' = [cpu_estado EXCEPT ![c] = e]
  \/ /\ \E op \in {"PROCESO_EXIT", "PROCESO_SEG_FAULT", "PROCESO_FIN_QUANTUM"} :
          de_cpu' = AlKs(c, op, cpu_pid[c], 0)
     /\ cpu_pid' = [cpu_pid EXCEPT ![c] = Nadie]
     /\ cpu_estado' = [cpu_estado EXCEPT ![c] = "espera"]

\* The CPU reads at most what is left of its connection.
LEMMA CpuRevisa ==
  ASSUME CanalesTipo, CpuTipo, NEW c \in Cpus, NEW canal \in Seq(MensajeKs), SinOrdenes(canal),
         CheckInterrupt(c, canal)
  PROVE  /\ SinOrdenes(a_cpu'[c])
         /\ \A d \in Cpus \ {c} : a_cpu'[d] = a_cpu[d]
         /\ CpuTermina(c)
<1>1. canal # <<>> => SinOrdenes(Tail(canal))
  BY OrdenesQuitar
<1>2. \E s : SinOrdenes(s) /\ a_cpu' = [a_cpu EXCEPT ![c] = s]
  BY <1>1 DEF CheckInterrupt
<1>3. SinOrdenes(a_cpu'[c]) /\ \A d \in Cpus \ {c} : a_cpu'[d] = a_cpu[d]
  BY <1>2 DEF CanalesTipo
<1>4. CASE PideInterrupcion(c, canal)
  BY <1>3, <1>4 DEF CheckInterrupt, AvisarFinAScheduler, CpuTermina
<1>5. CASE ~ PideInterrupcion(c, canal)
  <2>1. /\ cpu_estado' = [cpu_estado EXCEPT ![c] = "ejecuta"]
        /\ de_cpu' = de_cpu /\ cpu_pid' = cpu_pid
    BY <1>5 DEF CheckInterrupt
  <2>2. Activa("ejecuta")
    BY DEF Activa
  <2>3. QED
    BY <1>3, <2>1, <2>2 DEF CpuTermina
<1>6. QED
  BY <1>4, <1>5

\* A step of a CPU that runs a process; it has been sent no other.
LEMMA CpuTrabaja ==
  ASSUME CanalesTipo, CpuTipo, NEW c \in Cpus, SinOrdenes(a_cpu[c]),
         \/ EjecutarComun(c) \/ \E prio \in Prioridades : EjecutarSyscallInitProc(c, prio)
         \/ EjecutarExit(c) \/ EjecutarSegFault(c) \/ RespuestaOk(c) \/ RespuestaError(c)
  PROVE  /\ SinOrdenes(a_cpu'[c])
         /\ \A d \in Cpus \ {c} : a_cpu'[d] = a_cpu[d]
         /\ CpuTermina(c)
<1>1. a_cpu[c] \in Seq(MensajeKs)
  BY DEF CanalesTipo
<1>2. CASE EjecutarComun(c)
  BY <1>1, <1>2, CpuRevisa DEF EjecutarComun
<1>3. CASE RespuestaOk(c)
  <2>1. a_cpu[c] # <<>> /\ CheckInterrupt(c, Tail(a_cpu[c]))
    BY <1>3 DEF RespuestaOk, EsperaRespuesta
  <2>2. Tail(a_cpu[c]) \in Seq(MensajeKs) /\ SinOrdenes(Tail(a_cpu[c]))
    BY <1>1, <2>1, OrdenesQuitar, MensajeQuitado
  <2>3. QED
    BY <2>1, <2>2, CpuRevisa
<1>4. CASE \E prio \in Prioridades : EjecutarSyscallInitProc(c, prio)
  <2>1. Activa("respuesta")
    BY DEF Activa
  <2>2. QED
    BY <1>4, <2>1 DEF EjecutarSyscallInitProc, CpuTermina
<1>5. CASE EjecutarExit(c) \/ EjecutarSegFault(c)
  BY <1>5 DEF EjecutarExit, EjecutarSegFault, AvisarFinAScheduler, CpuTermina
<1>6. CASE RespuestaError(c)
  <2>1. /\ a_cpu[c] # <<>> /\ a_cpu' = [a_cpu EXCEPT ![c] = Tail(a_cpu[c])]
        /\ AvisarFinAScheduler(c, "PROCESO_EXIT")
    BY <1>6 DEF RespuestaError, EsperaRespuesta
  <2>2. a_cpu'[c] = Tail(a_cpu[c]) /\ \A d \in Cpus \ {c} : a_cpu'[d] = a_cpu[d]
    BY <2>1 DEF CanalesTipo
  <2>3. SinOrdenes(Tail(a_cpu[c]))
    BY <1>1, <2>1, OrdenesQuitar
  <2>4. QED
    BY <2>1, <2>2, <2>3 DEF AvisarFinAScheduler, CpuTermina
<1>7. QED
  BY <1>2, <1>3, <1>4, <1>5, <1>6

\* The CPU takes the process it was sent.
LEMMA EjecRecibe ==
  ASSUME CanalesTipo, CpuTipo, NEW c \in Cpus, EjecDe(c), CpuRecibeProceso(c),
         UNCHANGED <<estado, cpu, planificador, hilo_cpu>>
  PROVE  EjecDe(c)'
<1>1. /\ a_cpu[c] \in Seq(MensajeKs) /\ a_cpu[c] # <<>> /\ Orden(Head(a_cpu[c]))
      /\ a_cpu'[c] = Tail(a_cpu[c]) /\ de_cpu' = de_cpu
      /\ cpu_estado'[c] = "ejecuta" /\ cpu_pid'[c] = Head(a_cpu[c]).pid
  BY DEF CpuRecibeProceso, Primero, CanalesTipo, CpuTipo, Orden
<1>2. 1 \in DOMAIN a_cpu[c] /\ Head(a_cpu[c]) = a_cpu[c][1]
  BY <1>1, MensajeQuitado
<1>3. /\ EnCurso(estado, cpu, cpu_pid'[c], c) /\ UnaOrden(a_cpu[c]) /\ ~ SinOrdenes(a_cpu[c])
  BY <1>1, <1>2 DEF EjecDe, SinOrdenes
<1>4. cpu_pid[c] = Nadie /\ de_cpu[c] = <<>> /\ ~ PorEnviar(c)
  BY <1>3 DEF EjecDe
<1>5. SinOrdenes(a_cpu'[c]) /\ UnaOrden(a_cpu'[c])
  BY <1>1, <1>3, OrdenesQuitar
<1>6. cpu_pid'[c] # Nadie
  BY <1>3, PlanificacionOK DEF EnCurso, Nadie
<1>7. /\ \A i \in DOMAIN a_cpu'[c] :
           Orden(a_cpu'[c][i]) => EnCurso(estado', cpu', a_cpu'[c][i].pid, c)
      /\ \A i \in DOMAIN de_cpu'[c] :
           /\ EnCurso(estado', cpu', de_cpu'[c][i].pid, c)
           /\ Final(de_cpu'[c][i]) => i = Len(de_cpu'[c]) /\ cpu_pid'[c] = Nadie
  BY <1>1, <1>4, <1>5 DEF SinOrdenes
<1>8. /\ cpu_pid'[c] # Nadie => EnCurso(estado', cpu', cpu_pid'[c], c)
      /\ Activa(cpu_estado'[c]) <=> cpu_pid'[c] # Nadie
      /\ ~ SinOrdenes(a_cpu'[c]) => cpu_pid'[c] = Nadie /\ de_cpu'[c] = <<>>
      /\ SinDesconectar(hilo_cpu'[c])
  BY <1>1, <1>3, <1>5, <1>6 DEF Activa, EjecDe
<1>9. ~ PorEnviar(c)'
  BY <1>4 DEF PorEnviar
<1>10. QED
  BY <1>5, <1>7, <1>8, <1>9 DEF EjecDe

\* The CPU runs its process, asks for something, or leaves it and says so.
LEMMA EjecTrabaja ==
  ASSUME CanalesTipo, CpuTipo, NEW c \in Cpus, EjecDe(c), Activa(cpu_estado[c]),
         SinOrdenes(a_cpu'[c]), CpuTermina(c),
         UNCHANGED <<estado, cpu, planificador, hilo_cpu>>
  PROVE  EjecDe(c)'
<1>1. /\ cpu_pid[c] # Nadie /\ EnCurso(estado, cpu, cpu_pid[c], c) /\ ~ PorEnviar(c)
      /\ de_cpu[c] \in Seq(MensajeCpu)
      /\ \A i \in DOMAIN de_cpu[c] :
           EnCurso(estado, cpu, de_cpu[c][i].pid, c) /\ ~ Final(de_cpu[c][i])
      /\ SinDesconectar(hilo_cpu[c])
  BY DEF EjecDe, CanalesTipo
<1>2. /\ UnaOrden(a_cpu'[c]) /\ SinDesconectar(hilo_cpu'[c])
      /\ \A i \in DOMAIN a_cpu'[c] :
           Orden(a_cpu'[c][i]) => EnCurso(estado', cpu', a_cpu'[c][i].pid, c)
      /\ ~ SinOrdenes(a_cpu'[c]) => cpu_pid'[c] = Nadie /\ de_cpu'[c] = <<>>
  BY <1>1 DEF UnaOrden, SinOrdenes
<1>3. ~ PorEnviar(c)'
  BY <1>1 DEF PorEnviar
<1>4. ASSUME NEW m, de_cpu'[c] = Append(de_cpu[c], m), m.pid = cpu_pid[c],
             Final(m) => cpu_pid'[c] = Nadie
      PROVE  \A i \in DOMAIN de_cpu'[c] :
               /\ EnCurso(estado', cpu', de_cpu'[c][i].pid, c)
               /\ Final(de_cpu'[c][i]) => i = Len(de_cpu'[c]) /\ cpu_pid'[c] = Nadie
  <2>1. /\ Len(Append(de_cpu[c], m)) = Len(de_cpu[c]) + 1
        /\ \A i \in DOMAIN Append(de_cpu[c], m) :
             \/ i = Len(de_cpu[c]) + 1 /\ Append(de_cpu[c], m)[i] = m
             \/ i \in DOMAIN de_cpu[c] /\ Append(de_cpu[c], m)[i] = de_cpu[c][i]
    BY <1>1, MensajeAgregado
  <2>2. QED
    BY <1>1, <1>4, <2>1
<1>5. CASE /\ de_cpu' = de_cpu /\ cpu_pid' = cpu_pid
           /\ \E e : Activa(e) /\ cpu_estado' = [cpu_estado EXCEPT ![c] = e]
  <2>1. Activa(cpu_estado'[c])
    BY <1>5 DEF CpuTipo
  <2>2. QED
    BY <1>1, <1>2, <1>3, <1>5, <2>1 DEF EjecDe
<1>6. CASE /\ \E prio : de_cpu' = AlKs(c, "INIT_PROC", cpu_pid[c], prio)
           /\ cpu_pid' = cpu_pid
           /\ \E e : Activa(e) /\ cpu_estado' = [cpu_estado EXCEPT ![c] = e]
  <2>1. Activa(cpu_estado'[c])
    BY <1>6 DEF CpuTipo
  <2>2. \E m : m.op = "INIT_PROC" /\ m.pid = cpu_pid[c] /\ de_cpu'[c] = Append(de_cpu[c], m)
    <3>1. PICK prio : de_cpu' = AlKs(c, "INIT_PROC", cpu_pid[c], prio)
      BY <1>6
    <3>2. PICK m : /\ m.op = "INIT_PROC" /\ m.pid = cpu_pid[c]
                   /\ \A d \in Cpus : de_cpu'[d] = IF d = c THEN Append(de_cpu[c], m) ELSE de_cpu[d]
      BY <3>1, AlKsMensaje
    <3>3. de_cpu'[c] = Append(de_cpu[c], m)
      BY <3>2
    <3>4. QED
      BY <3>2, <3>3
  <2>3. \A i \in DOMAIN de_cpu'[c] :
          /\ EnCurso(estado', cpu', de_cpu'[c][i].pid, c)
          /\ Final(de_cpu'[c][i]) => i = Len(de_cpu'[c]) /\ cpu_pid'[c] = Nadie
    BY <1>4, <2>2 DEF Final
  <2>4. QED
    BY <1>1, <1>2, <1>3, <1>6, <2>1, <2>3 DEF EjecDe
<1>7. CASE /\ \E op \in {"PROCESO_EXIT", "PROCESO_SEG_FAULT", "PROCESO_FIN_QUANTUM"} :
                de_cpu' = AlKs(c, op, cpu_pid[c], 0)
           /\ cpu_pid' = [cpu_pid EXCEPT ![c] = Nadie]
           /\ cpu_estado' = [cpu_estado EXCEPT ![c] = "espera"]
  <2>1. ~ Activa(cpu_estado'[c]) /\ cpu_pid'[c] = Nadie
    BY <1>7 DEF CpuTipo, Activa
  <2>2. \E m : m.pid = cpu_pid[c] /\ de_cpu'[c] = Append(de_cpu[c], m)
    <3>1. PICK op : de_cpu' = AlKs(c, op, cpu_pid[c], 0)
      BY <1>7
    <3>2. PICK m : /\ m.pid = cpu_pid[c]
                   /\ \A d \in Cpus : de_cpu'[d] = IF d = c THEN Append(de_cpu[c], m) ELSE de_cpu[d]
      BY <3>1, AlKsMensaje
    <3>3. de_cpu'[c] = Append(de_cpu[c], m)
      BY <3>2
    <3>4. QED
      BY <3>2, <3>3
  <2>3. \A i \in DOMAIN de_cpu'[c] :
          /\ EnCurso(estado', cpu', de_cpu'[c][i].pid, c)
          /\ Final(de_cpu'[c][i]) => i = Len(de_cpu'[c]) /\ cpu_pid'[c] = Nadie
    BY <1>4, <2>1, <2>2
  <2>4. QED
    BY <1>2, <1>3, <2>1, <2>3 DEF EjecDe
<1>8. QED
  BY <1>5, <1>6, <1>7 DEF CpuTermina

\* A step of a CPU: what it had is what it runs, or what it says in its last
\* message (main, ciclo_instruccion).
LEMMA EjecCpu ==
  ASSUME PlanInv, EjecInv, NEW c \in Cpus, CpuPaso(c), UNCHANGED ksVars
  PROVE  EjecInv'
<1>1. CanalesTipo /\ CpuTipo
  BY DEF PlanInv, TypeOK
<1>2. UNCHANGED <<estado, cpu, planificador, hilo_cpu>>
  BY DEF ksVars, procesoVars, hiloVars
<1>3. EjecDe(c)
  BY DEF EjecInv
<1>4. ASSUME NEW d \in Cpus, a_cpu'[d] = a_cpu[d], de_cpu'[d] = de_cpu[d],
             cpu_pid'[d] = cpu_pid[d], cpu_estado'[d] = cpu_estado[d]
      PROVE  EjecDe(d)'
  <2>1. EjecDe(d) /\ SinDesconectar(hilo_cpu'[d])
    BY <1>2 DEF EjecInv, EjecDe
  <2>2. PorEnviar(d)' => PorEnviar(d) /\ planificador' = planificador
    BY <1>2 DEF PorEnviar
  <2>3. \A p : EnCurso(estado, cpu, p, d) => EnCurso(estado', cpu', p, d)
    BY <1>2
  <2>4. QED
    BY <1>1, <1>4, <2>1, <2>2, <2>3, EjecSigue
<1>5. EjecDe(c)' /\ \A d \in Cpus \ {c} :
        /\ a_cpu'[d] = a_cpu[d] /\ de_cpu'[d] = de_cpu[d]
        /\ cpu_pid'[d] = cpu_pid[d] /\ cpu_estado'[d] = cpu_estado[d]
  <2>1. CASE CpuRecibeProceso(c)
    <3>1. EjecDe(c)'
      BY <1>1, <1>2, <1>3, <2>1, EjecRecibe
    <3>2. QED
      BY <1>1, <2>1, <3>1 DEF CpuRecibeProceso, CanalesTipo, CpuTipo
  <2>2. CASE CpuDescarta(c) \/ RespuestaInterrumpida(c)
    <3>1. /\ a_cpu[c] # <<>> /\ a_cpu' = [a_cpu EXCEPT ![c] = Tail(a_cpu[c])]
          /\ de_cpu' = de_cpu /\ cpu_pid' = cpu_pid /\ cpu_estado' = cpu_estado
      BY <2>2 DEF CpuDescarta, RespuestaInterrumpida, EsperaRespuesta, cpuVars
    <3>2. a_cpu'[c] = Tail(a_cpu[c]) /\ \A d \in Cpus \ {c} : a_cpu'[d] = a_cpu[d]
      BY <1>1, <3>1 DEF CanalesTipo
    <3>3. SinDesconectar(hilo_cpu'[c])
      BY <1>2, <1>3 DEF EjecDe
    <3>4. PorEnviar(c)' => PorEnviar(c) /\ planificador' = planificador
      BY <1>2 DEF PorEnviar
    <3>5. \A p : EnCurso(estado, cpu, p, c) => EnCurso(estado', cpu', p, c)
      BY <1>2
    <3>6. EjecDe(c)'
      BY <1>1, <1>3, <3>1, <3>2, <3>3, <3>4, <3>5, EjecSigue
    <3>7. QED
      BY <3>1, <3>2, <3>6
  <2>3. CASE \/ EjecutarComun(c) \/ \E prio \in Prioridades : EjecutarSyscallInitProc(c, prio)
             \/ EjecutarExit(c) \/ EjecutarSegFault(c) \/ RespuestaOk(c) \/ RespuestaError(c)
    <3>1. Activa(cpu_estado[c])
      BY <2>3 DEF EjecutarComun, EjecutarSyscallInitProc, EjecutarExit, EjecutarSegFault,
                  RespuestaOk, RespuestaError, OtroCiclo, EsperaRespuesta, Activa
    <3>2. SinOrdenes(a_cpu[c])
      BY <1>3, <3>1 DEF EjecDe
    <3>3. /\ SinOrdenes(a_cpu'[c]) /\ CpuTermina(c)
          /\ \A d \in Cpus \ {c} : a_cpu'[d] = a_cpu[d]
      BY <1>1, <2>3, <3>2, CpuTrabaja
    <3>4. EjecDe(c)'
      BY <1>1, <1>2, <1>3, <3>1, <3>3, EjecTrabaja
    <3>5. \A d \in Cpus \ {c} : de_cpu'[d] = de_cpu[d]
      BY <1>1, <3>3, AlKsMensaje DEF CpuTermina
    <3>6. \A d \in Cpus \ {c} : cpu_pid'[d] = cpu_pid[d] /\ cpu_estado'[d] = cpu_estado[d]
      BY <1>1, <3>3 DEF CpuTermina, CpuTipo
    <3>7. QED
      BY <3>3, <3>4, <3>5, <3>6
  <2>4. QED
    BY <2>1, <2>2, <2>3 DEF CpuPaso
<1>6. ASSUME NEW d \in Cpus PROVE EjecDe(d)'
  <2>1. CASE d = c
    BY <1>5, <2>1
  <2>2. CASE d # c
    BY <1>4, <1>5, <2>2
  <2>3. QED
    BY <2>1, <2>2
<1>7. QED
  BY <1>6 DEF EjecInv

\* A CPU that connects has no process.
LEMMA EjecConectar ==
  ASSUME PlanInv, EjecInv, NEW c \in Cpus, Conectar(c)
  PROVE  EjecInv'
<1>1. CanalesTipo /\ KsTipo /\ CpuTipo
  BY DEF PlanInv, TypeOK
<1>2. /\ UNCHANGED <<a_cpu, de_cpu, estado, cpu, planificador, cpu_pid>>
      /\ hilo_cpu' = [hilo_cpu EXCEPT ![c] = HiloEn("postear")]
      /\ cpu_estado[c] = "sin_conectar" /\ cpu_estado' = [cpu_estado EXCEPT ![c] = "espera"]
  BY DEF Conectar, AtenderCpu, CpuConecta, procesoVars, canales
<1>3. \A d \in Cpus : /\ hilo_cpu'[d] = IF d = c THEN HiloEn("postear") ELSE hilo_cpu[d]
                      /\ cpu_estado'[d] = IF d = c THEN "espera" ELSE cpu_estado[d]
  BY <1>1, <1>2 DEF KsTipo, CpuTipo
<1>4. SinDesconectar(HiloEn("postear"))
  BY DEF SinDesconectar, HiloEn
<1>5. ASSUME NEW d \in Cpus PROVE EjecDe(d)'
  <2>1. EjecDe(d)
    BY DEF EjecInv
  <2>2. SinDesconectar(hilo_cpu'[d])
    BY <1>3, <1>4, <2>1 DEF EjecDe
  <2>3. Activa(cpu_estado'[d]) <=> Activa(cpu_estado[d])
    BY <1>2, <1>3 DEF Activa
  <2>4. PorEnviar(d)' => PorEnviar(d) /\ planificador' = planificador
    BY <1>2 DEF PorEnviar
  <2>5. /\ \A p : EnCurso(estado, cpu, p, d) => EnCurso(estado', cpu', p, d)
        /\ a_cpu'[d] = a_cpu[d] /\ de_cpu'[d] = de_cpu[d] /\ cpu_pid'[d] = cpu_pid[d]
    BY <1>2
  <2>6. QED
    BY <1>1, <2>1, <2>2, <2>3, <2>4, <2>5, EjecSigue
<1>6. QED
  BY <1>5 DEF EjecInv

\* Every step keeps each process of a CPU in one place, as long as no CPU was
\* stopped.
LEMMA EjecPaso ==
  ASSUME PlanInv, CpusInv, ApagadasInv, EjecInv, SinApagadas, SinApagadas', [Next]_vars
  PROVE  EjecInv'
<1>1. CanalesTipo /\ KsTipo
  BY DEF PlanInv, TypeOK
<1>2. ASSUME UNCHANGED <<de_cpu, estado, cpu, hilo_cpu, cpuVars>>, planificador'.pc # "enviar",
             \/ a_cpu' = a_cpu
             \/ \E k, op, p : op # "EJECUTAR_PROCESO" /\ a_cpu' = AlCpu(a_cpu, k, op, p)
      PROVE  EjecInv'
  <2>1. cpu_pid' = cpu_pid /\ cpu_estado' = cpu_estado
    BY <1>2 DEF cpuVars
  <2>2. ASSUME NEW d \in Cpus PROVE EjecDe(d)'
    <3>1. EjecDe(d) /\ SinDesconectar(hilo_cpu'[d])
      BY <1>2 DEF EjecInv, EjecDe
    <3>2. ~ PorEnviar(d)'
      BY <1>2 DEF PorEnviar
    <3>3. \/ a_cpu'[d] = a_cpu[d]
          \/ \E m : ~ Orden(m) /\ a_cpu'[d] = Append(a_cpu[d], m)
      <4>1. CASE a_cpu' = a_cpu
        BY <4>1
      <4>2. CASE \E k, op, p : op # "EJECUTAR_PROCESO" /\ a_cpu' = AlCpu(a_cpu, k, op, p)
        <5>1. PICK k, op, p : op # "EJECUTAR_PROCESO" /\ a_cpu' = AlCpu(a_cpu, k, op, p)
          BY <4>2
        <5>2. a_cpu'[d] = IF d = k THEN Append(a_cpu[d], [op |-> op, pid |-> p]) ELSE a_cpu[d]
          BY <1>1, <5>1, AlCpuMensaje
        <5>3. ~ Orden([op |-> op, pid |-> p])
          BY <5>1 DEF Orden
        <5>4. QED
          BY <5>2, <5>3
      <4>3. QED
        BY <1>2, <4>1, <4>2
    <3>4. /\ \A p : EnCurso(estado, cpu, p, d) => EnCurso(estado', cpu', p, d)
          /\ de_cpu'[d] = de_cpu[d] /\ cpu_pid'[d] = cpu_pid[d]
          /\ Activa(cpu_estado'[d]) <=> Activa(cpu_estado[d])
      BY <1>2, <2>1
    <3>5. QED
      BY <1>1, <3>1, <3>2, <3>3, <3>4, EjecSigue
  <2>3. QED
    BY <2>2 DEF EjecInv
<1>3. CASE PasoPlanificador
  <2>1. Planificador /\ UNCHANGED cpuVars
    BY <1>3 DEF PasoPlanificador, Ks
  <2>2. CASE PlanificadorEsperaReady \/ PlanificadorEsperaCpu
    <3>1. UNCHANGED <<a_cpu, de_cpu, estado, cpu, hilo_cpu>>
      BY <2>2 DEF PlanificadorEsperaReady, PlanificadorEsperaCpu, canales, procesoVars
    <3>2. planificador'.pc # "enviar"
      <4>1. planificador \in Planes
        BY <1>1, PartesTipo
      <4>2. QED
        BY <2>2, <4>1 DEF PlanificadorEsperaReady, PlanificadorEsperaCpu, Planes
    <3>3. QED
      BY <1>2, <2>1, <3>1, <3>2
  <2>3. QED
    BY <2>1, <2>2, EjecElegir, EjecEnviar DEF Planificador
<1>4. ASSUME NEW t \in Timers, PasoHiloQuantum(t)
      PROVE  EjecInv'
  <2>1. /\ UNCHANGED <<de_cpu, estado, cpu, hilo_cpu, cpuVars, planificador>>
        /\ \/ a_cpu' = a_cpu
           \/ \E k, op, p : op # "EJECUTAR_PROCESO" /\ a_cpu' = AlCpu(a_cpu, k, op, p)
    BY <1>4 DEF PasoHiloQuantum, Ks, HiloQuantum, HiloQuantumVence, HiloQuantumInterrumpe,
                canales, procesoVars
  <2>2. \A d \in Cpus : /\ SinDesconectar(hilo_cpu'[d])
                        /\ \A p : EnCurso(estado, cpu, p, d) => EnCurso(estado', cpu', p, d)
    BY <2>1 DEF EjecInv, EjecDe
  <2>3. CASE Cpus = {}
    BY <2>3 DEF EjecInv
  <2>4. CASE Cpus # {}
    <3>1. PICK c \in Cpus : TRUE
      BY <2>4
    <3>2. QED
      BY <1>1, <2>1, <2>2, <3>1, EjecHiloSigue
  <2>5. QED
    BY <2>3, <2>4
<1>5. ASSUME NEW c \in Cpus, PasoHiloCpu(c)
      PROVE  EjecInv'
  BY <1>5, EjecHilo DEF PasoHiloCpu, Ks
<1>6. ASSUME NEW c \in Cpus, PasoCpu(c)
      PROVE  EjecInv'
  BY <1>6, EjecCpu DEF PasoCpu
<1>7. ASSUME NEW c \in Cpus, Apagar(c)
      PROVE  FALSE
  <2>1. cpu_estado'[c] = "apagada"
    BY <1>7 DEF Apagar, CpuSeApaga, PlanInv, TypeOK, CpuTipo
  <2>2. QED
    BY <2>1 DEF SinApagadas
<1>8. CASE UNCHANGED vars
  <2>1. UNCHANGED <<a_cpu, de_cpu, estado, cpu, hilo_cpu, planificador, cpu_pid, cpu_estado>>
    BY <1>8 DEF vars, canales, ksVars, procesoVars, hiloVars, cpuVars
  <2>2. QED
    BY <2>1 DEF EjecInv, EjecDe, PorEnviar
<1>9. QED
  BY <1>3, <1>4, <1>5, <1>6, <1>7, <1>8, EjecConectar DEF Next

\* At the beginning no CPU has a process.
LEMMA EjecInicial ==
  ASSUME Init
  PROVE  EjecInv
<1>1. /\ a_cpu = [c \in Cpus |-> <<>>] /\ de_cpu = [c \in Cpus |-> <<>>]
      /\ cpu_pid = [c \in Cpus |-> Nadie] /\ cpu_estado = [c \in Cpus |-> "sin_conectar"]
      /\ planificador.pc = "ready" /\ hilo_cpu = [c \in Cpus |-> HiloEn("no")]
  BY DEF Init, CanalesInit, CpuInit, KsInit
<1>2. SinDesconectar(HiloEn("no")) /\ ~ Activa("sin_conectar")
  BY DEF SinDesconectar, HiloEn, Activa
<1>3. ASSUME NEW c \in Cpus PROVE EjecDe(c)
  <2>1. /\ a_cpu[c] = <<>> /\ de_cpu[c] = <<>> /\ cpu_pid[c] = Nadie
        /\ cpu_estado[c] = "sin_conectar" /\ hilo_cpu[c] = HiloEn("no")
    BY <1>1
  <2>2. \A i \in DOMAIN <<>> : FALSE
    OBVIOUS
  <2>3. /\ UnaOrden(a_cpu[c]) /\ SinOrdenes(a_cpu[c])
        /\ \A i \in DOMAIN a_cpu[c] : FALSE
        /\ \A i \in DOMAIN de_cpu[c] : FALSE
    BY <2>1, <2>2 DEF UnaOrden, SinOrdenes
  <2>4. ~ PorEnviar(c)
    BY <1>1 DEF PorEnviar
  <2>5. QED
    BY <1>2, <2>1, <2>3, <2>4 DEF EjecDe
<1>4. QED
  BY <1>3 DEF EjecInv

\* Where the process of a CPU is, in every state without stopped CPUs.
LEMMA EjecSiempre ==
  Spec => [](PlanInv /\ CpusInv /\ ApagadasInv /\ (SinApagadas => EjecInv))
<1> DEFINE Inv == PlanInv /\ CpusInv /\ ApagadasInv /\ (SinApagadas => EjecInv)
<1>1. Inv /\ [Next]_vars => Inv'
  BY PlanPaso, CpusPaso, ApagadasPaso, EjecPaso
<1>2. Init => Inv
  BY PlanInicial, CpusInicial, LibresInicial, EjecInicial
<1>3. QED
  BY <1>1, <1>2, PTL DEF Spec

\* As long as no CPU was stopped, what a CPU runs, and what it has told the
\* Kernel Scheduler and was not read yet, is about the process that the Kernel
\* Scheduler has in EXEC on that CPU: late interrupts, timers that end and
\* answers that cross never put a process on two CPUs, nor make a handler work
\* on a process that has left (EjecucionUnica).
THEOREM UnSoloProcesoPorCpu == Spec => [](SinApagadas => EjecucionUnica)
<1>1. PlanInv /\ EjecInv => EjecucionUnica
  <2> SUFFICES ASSUME PlanInv, EjecInv, NEW c \in Cpus
               PROVE  /\ cpu_pid[c] # Nadie =>
                           estado[cpu_pid[c]] = "EXEC" /\ cpu[cpu_pid[c]] = c
                      /\ \A i \in DOMAIN de_cpu[c] : de_cpu[c][i].pid # Nadie =>
                           estado[de_cpu[c][i].pid] = "EXEC" /\ cpu[de_cpu[c][i].pid] = c
    BY DEF EjecucionUnica
  <2>1. QED
    BY DEF EjecInv, EjecDe, EnCurso
<1>2. QED
  BY <1>1, EjecSiempre, PTL
=============================================================================
