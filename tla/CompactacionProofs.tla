------------------------- MODULE CompactacionProofs -------------------------
(***************************************************************************)
(* The CPUs and the Kernel Scheduler while processes ask for memory, for   *)
(* every number of processes, CPUs and queues.                             *)
(***************************************************************************)
EXTENDS Compactacion, ProcesosProofs

-----------------------------------------------------------------------------
\* encolar_al_frente_de_ready.
LEMMA AlFrenteTipo ==
  ASSUME NEW L, NEW k \in TipoKs(L), NEW p \in Pids
  PROVE  EncolarAlFrente(k, p) \in TipoKs(L)
<1> DEFINE q == k.prioridad[p]
           frente == [k.colas_ready EXCEPT ![q] = <<p>> \o @]
<1>1. /\ k.colas_ready \in [Colas -> Seq(Pids)] /\ k.sem_ready \in Nat
      /\ q \in Colas
  BY DEF TipoKs
<1>2. <<p>> \o k.colas_ready[q] \in Seq(Pids)
  BY <1>1, ConcatProperties
<1>3. frente \in [Colas -> Seq(Pids)] /\ k.sem_ready + 1 \in Nat
  BY <1>1, <1>2
<1>4. EncolarAlFrente(k, p) = [k EXCEPT !.colas_ready = frente, !.sem_ready = @ + 1]
  BY DEF EncolarAlFrente
<1> HIDE DEF frente
<1>5. QED
  BY <1>3, <1>4 DEF TipoKs

-----------------------------------------------------------------------------
(* What a CPU does, seen from its connection: a is what waits for it, d     *)
(* what waits for the Kernel Scheduler, e where main is, p its process, i   *)
(* the interrupt it keeps and v whether its segment table is old; 1 after.  *)

Sale(op, d, p, d1, e1, p1) ==
  /\ d1 = Append(d, [op |-> op, pid |-> p, prioridad |-> 0])
  /\ e1 = "espera" /\ p1 = Nadie

Pide(a, p, i) ==
  IF i # Nadie THEN i = p
  ELSE a # <<>> /\ Head(a).op = "INTERRUMPIR_PROCESO" /\ Head(a).pid = p

Revisa(a, d, p, i, a1, d1, e1, p1, i1) ==
  /\ i1 = Nadie
  /\ a1 = IF i # Nadie \/ a = <<>> THEN a ELSE Tail(a)
  /\ \/ Pide(a, p, i) /\ Sale("PROCESO_FIN_QUANTUM", d, p, d1, e1, p1)
     \/ ~ Pide(a, p, i) /\ e1 = "ejecuta" /\ d1 = d /\ p1 = p

Mem == {"MEM_ALLOC", "MEM_FREE"}

CpuVa(a, d, e, p, i, v, a1, d1, e1, p1, i1, v1) ==
  \/ /\ e = "espera" /\ a # <<>> /\ a1 = Tail(a) /\ d1 = d /\ i1 = i
     /\ \/ Head(a).op = "EJECUTAR_PROCESO" /\ e1 = "ejecuta" /\ p1 = Head(a).pid /\ v1 = FALSE
        \/ Head(a).op # "EJECUTAR_PROCESO" /\ e1 = e /\ p1 = p /\ v1 = v
  \/ /\ e = "ejecuta" /\ a1 = a /\ i1 = i /\ v1 = v
     /\ \/ \E op \in Mem :
             /\ d1 = Append(d, [op |-> op, pid |-> p, prioridad |-> 0])
             /\ e1 = "respuesta" /\ p1 = p
        \/ \E op \in {"PROCESO_EXIT", "PROCESO_SEG_FAULT", "IO_SLEEP"} :
             Sale(op, d, p, d1, e1, p1)
  \/ /\ e = "ejecuta" /\ v1 = v /\ Revisa(a, d, p, i, a1, d1, e1, p1, i1)
  \/ /\ e = "respuesta" /\ a # <<>> /\ Head(a).op = "OK" /\ v1 = FALSE
     /\ Revisa(Tail(a), d, p, i, a1, d1, e1, p1, i1)
  \/ /\ e = "respuesta" /\ a # <<>> /\ a1 = Tail(a)
     /\ \/ /\ Head(a).op = "INTERRUMPIR_PROCESO" /\ i1 = Head(a).pid
           /\ d1 = d /\ e1 = e /\ p1 = p /\ v1 = v
        \/ /\ Head(a).op \notin {"INTERRUMPIR_PROCESO", "OK", "BLOQUEADO"}
           /\ Sale("PROCESO_EXIT", d, p, d1, e1, p1) /\ i1 = i /\ v1 = v
        \/ /\ Head(a).op = "BLOQUEADO" /\ e1 = "espera" /\ p1 = Nadie
           /\ d1 = d /\ i1 = i /\ v1 = v

\* A CPU changes what is its own and nothing else of the CPUs.
CpuPropia(c) ==
  /\ a_cpu' = [a_cpu EXCEPT ![c] = a_cpu'[c]]
  /\ de_cpu' = [de_cpu EXCEPT ![c] = de_cpu'[c]]
  /\ cpu_estado' = [cpu_estado EXCEPT ![c] = cpu_estado'[c]]
  /\ cpu_pid' = [cpu_pid EXCEPT ![c] = cpu_pid'[c]]
  /\ interrupcion_pendiente_pid' =
       [interrupcion_pendiente_pid EXCEPT ![c] = interrupcion_pendiente_pid'[c]]
  /\ tabla_vieja' \in SUBSET Cpus /\ \A d \in Cpus \ {c} : d \in tabla_vieja' <=> d \in tabla_vieja
  /\ ciclos' \in [Pids -> 0 .. Ciclos]

\* Every step of a CPU is one of those (CpuMemoriaPaso).
LEMMA CpuEfecto ==
  ASSUME CanalesTipo, CpuTipo, tabla_vieja \in SUBSET Cpus, NEW c \in Cpus, CpuMemoriaPaso(c)
  PROVE  /\ CpuPropia(c)
         /\ CpuVa(a_cpu[c], de_cpu[c], cpu_estado[c], cpu_pid[c],
                  interrupcion_pendiente_pid[c], c \in tabla_vieja,
                  a_cpu'[c], de_cpu'[c], cpu_estado'[c], cpu_pid'[c],
                  interrupcion_pendiente_pid'[c], c \in tabla_vieja')
<1> DEFINE a == a_cpu[c]
           d == de_cpu[c]
           p == cpu_pid[c]
           i == interrupcion_pendiente_pid[c]
           Efecto == CpuVa(a, d, cpu_estado[c], p, i, c \in tabla_vieja,
                           a_cpu'[c], de_cpu'[c], cpu_estado'[c], cpu_pid'[c],
                           interrupcion_pendiente_pid'[c], c \in tabla_vieja')
<1>1. /\ a_cpu \in [Cpus -> Seq(MensajeKs)] /\ de_cpu \in [Cpus -> Seq(MensajeCpu)]
      /\ cpu_estado \in [Cpus -> EstadosCpu] /\ cpu_pid \in [Cpus -> Pids \cup {Nadie}]
      /\ interrupcion_pendiente_pid \in [Cpus -> Pids \cup {Nadie}]
      /\ ciclos \in [Pids -> 0 .. Ciclos]
  BY DEF CanalesTipo, CpuTipo
<1>2. OtroCiclo(c) => ciclos' \in [Pids -> 0 .. Ciclos] /\ cpu_estado[c] = "ejecuta"
  <2>1. CASE p \in Pids
    <3>1. ciclos[p] \in 0 .. Ciclos
      BY <1>1, <2>1
    <3>2. ciclos[p] < Ciclos => ciclos[p] + 1 \in 0 .. Ciclos
      BY <3>1, CiclosOK
    <3>3. QED
      BY <1>1, <3>2 DEF OtroCiclo
  <2>2. CASE p \notin Pids
    BY <1>1, <2>2 DEF OtroCiclo
  <2>3. QED
    BY <2>1, <2>2
<1>3. ASSUME NEW op, AvisarFinAScheduler(c, op)
      PROVE  /\ Sale(op, d, p, de_cpu'[c], cpu_estado'[c], cpu_pid'[c])
             /\ de_cpu' = [de_cpu EXCEPT ![c] = de_cpu'[c]]
             /\ cpu_estado' = [cpu_estado EXCEPT ![c] = cpu_estado'[c]]
             /\ cpu_pid' = [cpu_pid EXCEPT ![c] = cpu_pid'[c]]
  BY <1>1, <1>3 DEF AvisarFinAScheduler, AlKs, Sale
<1>4. ASSUME NEW canal, CheckInterrupt(c, canal)
      PROVE  /\ Revisa(canal, d, p, i, a_cpu'[c], de_cpu'[c], cpu_estado'[c], cpu_pid'[c],
                       interrupcion_pendiente_pid'[c])
             /\ a_cpu' = [a_cpu EXCEPT ![c] = a_cpu'[c]]
             /\ de_cpu' = [de_cpu EXCEPT ![c] = de_cpu'[c]]
             /\ cpu_estado' = [cpu_estado EXCEPT ![c] = cpu_estado'[c]]
             /\ cpu_pid' = [cpu_pid EXCEPT ![c] = cpu_pid'[c]]
             /\ interrupcion_pendiente_pid' =
                  [interrupcion_pendiente_pid EXCEPT ![c] = interrupcion_pendiente_pid'[c]]
  <2>1. PideInterrupcion(c, canal) <=> Pide(canal, p, i)
    BY DEF PideInterrupcion, Pide
  <2>2. /\ interrupcion_pendiente_pid' = [interrupcion_pendiente_pid EXCEPT ![c] = Nadie]
        /\ interrupcion_pendiente_pid'[c] = Nadie
        /\ a_cpu' = [a_cpu EXCEPT ![c] = a_cpu'[c]]
        /\ a_cpu'[c] = IF i # Nadie \/ canal = <<>> THEN canal ELSE Tail(canal)
    BY <1>1, <1>4 DEF CheckInterrupt
  <2>3. CASE PideInterrupcion(c, canal)
    <3>1. AvisarFinAScheduler(c, "PROCESO_FIN_QUANTUM")
      BY <1>4, <2>3 DEF CheckInterrupt
    <3>2. QED
      BY <1>3, <2>1, <2>2, <2>3, <3>1 DEF Revisa
  <2>4. CASE ~ PideInterrupcion(c, canal)
    <3>1. /\ cpu_estado' = [cpu_estado EXCEPT ![c] = "ejecuta"]
          /\ de_cpu' = de_cpu /\ cpu_pid' = cpu_pid
      BY <1>4, <2>4 DEF CheckInterrupt
    <3>2. QED
      BY <1>1, <2>1, <2>2, <2>4, <3>1 DEF Revisa
  <2>5. QED
    BY <2>3, <2>4
<1>5. UNCHANGED tabla_vieja \/ ObtenerContexto(c) =>
        /\ tabla_vieja' \in SUBSET Cpus
        /\ \A x \in Cpus \ {c} : x \in tabla_vieja' <=> x \in tabla_vieja
  BY DEF ObtenerContexto
<1>6. ObtenerContexto(c) => (c \in tabla_vieja') = FALSE
  BY DEF ObtenerContexto
<1>7. CASE Recibe(c)
  <2>1. Efecto
    BY <1>1, <1>6, <1>7 DEF Recibe, CpuRecibeProceso, Primero, CpuVa
  <2>2. CpuPropia(c)
    BY <1>1, <1>5, <1>7 DEF Recibe, CpuRecibeProceso, CpuPropia
  <2>3. QED
    BY <2>1, <2>2
<1>8. CASE RespuestaMemoria(c)
  <2>1. CheckInterrupt(c, Tail(a)) /\ cpu_estado[c] = "respuesta" /\ a # <<>> /\ Head(a).op = "OK"
        /\ ciclos' = ciclos /\ ObtenerContexto(c)
    BY <1>8 DEF RespuestaMemoria, RespuestaOk, EsperaRespuesta, Primero
  <2>2. Efecto
    BY <1>4, <1>6, <2>1 DEF CpuVa
  <2>3. CpuPropia(c)
    BY <1>1, <1>4, <1>5, <2>1 DEF CpuPropia
  <2>4. QED
    BY <2>2, <2>3
<1>9. CASE RespuestaBloqueado(c)
  <2>1. Efecto
    BY <1>1, <1>9 DEF RespuestaBloqueado, EsperaRespuesta, Primero, CpuVa
  <2>2. CpuPropia(c)
    BY <1>1, <1>5, <1>9 DEF RespuestaBloqueado, CpuPropia
  <2>3. QED
    BY <2>1, <2>2
<1>10. ASSUME NEW op \in Mem, EjecutarSyscallMemoria(c, op)
       PROVE  Efecto /\ CpuPropia(c)
  <2>1. Efecto
    BY <1>1, <1>2, <1>10 DEF EjecutarSyscallMemoria, AlKs, CpuVa
  <2>2. CpuPropia(c)
    BY <1>1, <1>2, <1>5, <1>10 DEF EjecutarSyscallMemoria, AlKs, CpuPropia
  <2>3. QED
    BY <2>1, <2>2
<1>11. ASSUME NEW op \in {"PROCESO_EXIT", "PROCESO_SEG_FAULT", "IO_SLEEP"},
              cpu_estado[c] = "ejecuta", AvisarFinAScheduler(c, op),
              UNCHANGED <<a_cpu, interrupcion_pendiente_pid, tabla_vieja>>,
              ciclos' \in [Pids -> 0 .. Ciclos]
       PROVE  Efecto /\ CpuPropia(c)
  <2>1. Efecto
    BY <1>3, <1>11 DEF CpuVa
  <2>2. CpuPropia(c)
    BY <1>1, <1>3, <1>5, <1>11 DEF CpuPropia
  <2>3. QED
    BY <2>1, <2>2
<1>12. CASE EjecutarSyscallSleep(c)
  BY <1>2, <1>11, <1>12 DEF EjecutarSyscallSleep
<1>13. CASE UNCHANGED tabla_vieja /\ (EjecutarExit(c) \/ EjecutarSegFault(c))
  BY <1>1, <1>11, <1>13 DEF EjecutarExit, EjecutarSegFault
<1>14. CASE UNCHANGED tabla_vieja /\ CpuDescarta(c)
  <2>1. Efecto
    BY <1>1, <1>14 DEF CpuDescarta, Primero, CpuVa, cpuVars
  <2>2. CpuPropia(c)
    BY <1>1, <1>5, <1>14 DEF CpuDescarta, CpuPropia, cpuVars
  <2>3. QED
    BY <2>1, <2>2
<1>15. CASE UNCHANGED tabla_vieja /\ EjecutarComun(c)
  <2>1. CheckInterrupt(c, a) /\ OtroCiclo(c) /\ tabla_vieja' = tabla_vieja
    BY <1>15 DEF EjecutarComun
  <2>2. Efecto
    BY <1>2, <1>4, <2>1 DEF CpuVa
  <2>3. CpuPropia(c)
    BY <1>1, <1>2, <1>4, <1>5, <2>1 DEF CpuPropia
  <2>4. QED
    BY <2>2, <2>3
<1>16. CASE UNCHANGED tabla_vieja /\ RespuestaInterrumpida(c)
  <2>1. Efecto
    BY <1>1, <1>16 DEF RespuestaInterrumpida, EsperaRespuesta, Primero, CpuVa
  <2>2. CpuPropia(c)
    BY <1>1, <1>5, <1>16 DEF RespuestaInterrumpida, CpuPropia
  <2>3. QED
    BY <2>1, <2>2
<1>17. CASE UNCHANGED tabla_vieja /\ RespuestaError(c)
  <2>1. /\ AvisarFinAScheduler(c, "PROCESO_EXIT") /\ cpu_estado[c] = "respuesta" /\ a # <<>>
        /\ Head(a).op \notin {"INTERRUMPIR_PROCESO", "OK", "BLOQUEADO"}
        /\ a_cpu' = [a_cpu EXCEPT ![c] = Tail(a)]
        /\ UNCHANGED <<interrupcion_pendiente_pid, ciclos, tabla_vieja>>
    BY <1>17 DEF RespuestaError, EsperaRespuesta, Primero
  <2>2. Efecto
    BY <1>1, <1>3, <2>1 DEF CpuVa
  <2>3. CpuPropia(c)
    BY <1>1, <1>3, <1>5, <2>1 DEF CpuPropia
  <2>4. QED
    BY <2>2, <2>3
<1>18. Efecto /\ CpuPropia(c)
  BY <1>7, <1>8, <1>9, <1>10, <1>12, <1>13, <1>14, <1>15, <1>16, <1>17 DEF CpuMemoriaPaso, Mem
<1>19. QED
  BY <1>18

-----------------------------------------------------------------------------
(* The types, and whose turn to plan it is.                                 *)

\* The messages, the threads and the planner as they really are: an order, a
\* syscall and a thread that handles one have a process.
Orden(m) == m.op = "EJECUTAR_PROCESO"

Mensaje == {m \in MensajeKs : Orden(m) => m.pid \in Pids}

Finitos == {"PROCESO_EXIT", "PROCESO_SEG_FAULT", "PROCESO_FIN_QUANTUM",
            "MEM_ALLOC", "MEM_FREE", "IO_SLEEP"}

Aviso == [op : Finitos, pid : Pids, prioridad : Prioridades \cup {0}]

Hilo == [pc : {"recibir", "atender", "syscall", "detener", "desalojar",
               "confirmar", "finalizar", "liberar", "sin_respuesta"},
         op : OpsCpu \cup {"nada"}, pid : Pids \cup {Nadie}]

HiloConPid == {h \in Hilo : h.pc \notin {"recibir", "sin_respuesta"} => h.pid \in Pids}

Avisos == {"FIN_COMPACTACION", "MEMORIA_CORRUPTA"}

Libres == Cpus \cup {Nulo}

CpuInv ==
  /\ CpuTipo
  /\ tabla_vieja \in SUBSET Cpus
  /\ a_cpu \in [Cpus -> Seq(Mensaje)]
  /\ de_cpu \in [Cpus -> Seq(Aviso)]
  /\ \A c \in Cpus : cpu_estado[c] \in {"ejecuta", "respuesta"} => cpu_pid[c] \in Pids

HilosInv ==
  /\ sem_puede_planificar \in 0 .. 1
  /\ planificador \in [pid : Pids, cpu : Libres] \cup {Ninguno}
  /\ hilo_cpu \in [Cpus -> HiloConPid]
  /\ oyente \in [pc : {"leer", "ejecutar", "interrumpir"}, avisos : SUBSET (Libres \X Pids)]
  /\ esperando \in [pid : Pids, cpu : Cpus] \cup {Ninguno}
  /\ compactando \in BOOLEAN

MemoriaInv ==
  /\ km \in {"libre", "confirmacion"}
  /\ mutex_perdido \in BOOLEAN
  /\ con_segmentos \in SUBSET Pids
  /\ notificaciones \in Seq(Avisos)
  /\ stick_vivo \in BOOLEAN

FinInv ==
  /\ bsod_activo \in BOOLEAN /\ ks_terminado \in BOOLEAN /\ ks_caido \in BOOLEAN
  /\ cpus_pendientes_bsod \in Int

TipoInv == CpuInv /\ ks \in TipoKs(Libres) /\ HilosInv /\ MemoriaInv /\ FinInv

\* Those messages are messages.
LEMMA CpuCanales ==
  ASSUME CpuInv
  PROVE  CanalesTipo /\ CpuTipo /\ tabla_vieja \in SUBSET Cpus
<1>1. Mensaje \subseteq MensajeKs /\ Aviso \subseteq MensajeCpu
  BY DEF Mensaje, MensajeKs, Aviso, MensajeCpu, Finitos, OpsCpu
<1>2. Seq(Mensaje) \subseteq Seq(MensajeKs) /\ Seq(Aviso) \subseteq Seq(MensajeCpu)
  BY <1>1
<1>3. QED
  BY <1>2 DEF CpuInv, CanalesTipo

\* A CPU keeps the types of what it has.
LEMMA CpuTipos ==
  ASSUME CpuInv, NEW c \in Cpus, CpuMemoriaPaso(c)
  PROVE  CpuInv'
<1> DEFINE a == a_cpu[c]
           d == de_cpu[c]
           p == cpu_pid[c]
           i == interrupcion_pendiente_pid[c]
<1>0. CanalesTipo
  BY CpuCanales
<1>1. /\ CpuPropia(c)
      /\ CpuVa(a, d, cpu_estado[c], p, i, c \in tabla_vieja,
               a_cpu'[c], de_cpu'[c], cpu_estado'[c], cpu_pid'[c],
               interrupcion_pendiente_pid'[c], c \in tabla_vieja')
  BY <1>0, CpuEfecto DEF CpuInv
<1>2. /\ a \in Seq(Mensaje) /\ d \in Seq(Aviso)
      /\ cpu_estado[c] \in EstadosCpu /\ p \in Pids \cup {Nadie} /\ i \in Pids \cup {Nadie}
      /\ cpu_estado[c] \in {"ejecuta", "respuesta"} => p \in Pids
  BY DEF CpuInv, CpuTipo
<1> DEFINE Bien(a1, d1, e1, p1, i1) ==
             /\ a1 \in Seq(Mensaje) /\ d1 \in Seq(Aviso)
             /\ e1 \in EstadosCpu /\ p1 \in Pids \cup {Nadie} /\ i1 \in Pids \cup {Nadie}
             /\ e1 \in {"ejecuta", "respuesta"} => p1 \in Pids
<1>3. ASSUME NEW a1, NEW d1, NEW e1, NEW p1, NEW i1, NEW v, NEW v1,
             CpuVa(a, d, cpu_estado[c], p, i, v, a1, d1, e1, p1, i1, v1)
      PROVE  Bien(a1, d1, e1, p1, i1)
  <2> DEFINE e == cpu_estado[c]
  <2>1. a # <<>> => /\ Tail(a) \in Seq(Mensaje) /\ Head(a) \in Mensaje
                    /\ Head(a).pid \in Pids \cup {Nadie}
                    /\ Head(a).op = "EJECUTAR_PROCESO" => Head(a).pid \in Pids
    <3>1. a # <<>> => Tail(a) \in Seq(Mensaje) /\ Head(a) \in Mensaje
      BY <1>2, HeadTailProperties
    <3>2. QED
      BY <3>1 DEF Mensaje, MensajeKs, Orden
  <2>2. ASSUME NEW op \in Finitos, p \in Pids
        PROVE  Append(d, [op |-> op, pid |-> p, prioridad |-> 0]) \in Seq(Aviso)
    <3>1. [op |-> op, pid |-> p, prioridad |-> 0] \in Aviso
      BY <2>2 DEF Aviso
    <3>2. QED
      BY <1>2, <3>1, AppendProperties
  <2>3. ASSUME NEW op \in Finitos, p \in Pids, Sale(op, d, p, d1, e1, p1),
               a1 \in Seq(Mensaje), i1 \in Pids \cup {Nadie}
        PROVE  Bien(a1, d1, e1, p1, i1)
    BY <2>2, <2>3 DEF Sale, EstadosCpu
  <2>4. ASSUME NEW b \in Seq(Mensaje), p \in Pids, Revisa(b, d, p, i, a1, d1, e1, p1, i1)
        PROVE  Bien(a1, d1, e1, p1, i1)
    <3>1. a1 \in Seq(Mensaje)
      BY <2>4, HeadTailProperties DEF Revisa
    <3>2. i1 \in Pids \cup {Nadie}
      BY <2>4 DEF Revisa
    <3>3. CASE Sale("PROCESO_FIN_QUANTUM", d, p, d1, e1, p1)
      BY <2>3, <2>4, <3>1, <3>2, <3>3 DEF Finitos
    <3>4. CASE e1 = "ejecuta" /\ d1 = d /\ p1 = p
      BY <1>2, <2>4, <3>1, <3>2, <3>4 DEF EstadosCpu
    <3>5. QED
      BY <2>4, <3>3, <3>4 DEF Revisa
  <2>5. CASE e = "espera" /\ a # <<>> /\ a1 = Tail(a) /\ d1 = d /\ i1 = i /\
             (\/ Head(a).op = "EJECUTAR_PROCESO" /\ e1 = "ejecuta" /\ p1 = Head(a).pid
              \/ e1 = e /\ p1 = p)
    BY <1>2, <2>1, <2>5 DEF EstadosCpu
  <2>6. CASE e = "ejecuta" /\ a1 = a /\ i1 = i /\
             (\/ \E op \in Mem :
                   /\ d1 = Append(d, [op |-> op, pid |-> p, prioridad |-> 0])
                   /\ e1 = "respuesta" /\ p1 = p
              \/ \E op \in {"PROCESO_EXIT", "PROCESO_SEG_FAULT", "IO_SLEEP"} :
                   Sale(op, d, p, d1, e1, p1))
    <3>1. p \in Pids
      BY <1>2, <2>6
    <3>2. CASE \E op \in Mem : /\ d1 = Append(d, [op |-> op, pid |-> p, prioridad |-> 0])
                               /\ e1 = "respuesta" /\ p1 = p
      BY <1>2, <2>2, <2>6, <3>1, <3>2 DEF Mem, Finitos, EstadosCpu
    <3>3. CASE \E op \in {"PROCESO_EXIT", "PROCESO_SEG_FAULT", "IO_SLEEP"} :
                 Sale(op, d, p, d1, e1, p1)
      <4>1. PICK op \in {"PROCESO_EXIT", "PROCESO_SEG_FAULT", "IO_SLEEP"} :
              Sale(op, d, p, d1, e1, p1)
        BY <3>3
      <4>2. op \in Finitos
        BY DEF Finitos
      <4>3. QED
        BY <1>2, <2>3, <2>6, <3>1, <4>1, <4>2
    <3>4. QED
      BY <2>6, <3>2, <3>3
  <2>7. CASE e = "ejecuta" /\ Revisa(a, d, p, i, a1, d1, e1, p1, i1)
    BY <1>2, <2>4, <2>7
  <2>8. CASE e = "respuesta" /\ a # <<>> /\ Revisa(Tail(a), d, p, i, a1, d1, e1, p1, i1)
    BY <1>2, <2>1, <2>4, <2>8
  <2>9. CASE e = "respuesta" /\ a # <<>> /\ a1 = Tail(a) /\
             (\/ i1 = Head(a).pid /\ d1 = d /\ e1 = e /\ p1 = p
              \/ Sale("PROCESO_EXIT", d, p, d1, e1, p1) /\ i1 = i
              \/ e1 = "espera" /\ p1 = Nadie /\ d1 = d /\ i1 = i)
    <3>1. p \in Pids /\ a1 \in Seq(Mensaje) /\ Head(a).pid \in Pids \cup {Nadie}
      BY <1>2, <2>1, <2>9
    <3>2. CASE Sale("PROCESO_EXIT", d, p, d1, e1, p1) /\ i1 = i
      BY <1>2, <2>3, <3>1, <3>2 DEF Finitos
    <3>3. CASE i1 = Head(a).pid /\ d1 = d /\ e1 = e /\ p1 = p
      BY <1>2, <3>1, <3>3
    <3>4. CASE e1 = "espera" /\ p1 = Nadie /\ d1 = d /\ i1 = i
      BY <1>2, <3>1, <3>4 DEF EstadosCpu
    <3>5. QED
      BY <2>9, <3>2, <3>3, <3>4
  <2> HIDE DEF Bien, e, p, i, a, d
  <2>10. QED
    BY <1>3, <2>5, <2>6, <2>7, <2>8, <2>9 DEF CpuVa, e
<1>4. Bien(a_cpu'[c], de_cpu'[c], cpu_estado'[c], cpu_pid'[c], interrupcion_pendiente_pid'[c])
  <2> HIDE DEF Bien
  <2>1. QED
    BY <1>1, <1>3
<1>5. QED
  BY <1>1, <1>4 DEF CpuInv, CpuTipo, CpuPropia

\* Threads that are stopping the planning, the CPUs or the memory.
Parada == {"desalojar", "confirmar"}

SinFin(s) == \A i \in DOMAIN s : s[i] # "FIN_COMPACTACION"

UnFin(s) ==
  \A i, j \in DOMAIN s : s[i] = "FIN_COMPACTACION" /\ s[j] = "FIN_COMPACTACION" => i = j

\* The right to plan, from DetenerPlanificacion to FinEjecuta: the process that
\* waits for a compaction has one thread, notification or listener in charge.
TurnoInv ==
  /\ \A c \in Cpus :
       hilo_cpu[c].pc \in Parada =>
         /\ esperando # Ninguno /\ esperando.cpu = c
         /\ SinFin(notificaciones) /\ oyente.pc # "ejecutar"
  /\ UnFin(notificaciones)
  /\ ~ SinFin(notificaciones) => esperando # Ninguno /\ oyente.pc # "ejecutar"
  /\ oyente.pc = "ejecutar" => esperando # Ninguno
  /\ sem_puede_planificar + (IF planificador # Ninguno THEN 1 ELSE 0)
       + (IF esperando # Ninguno THEN 1 ELSE 0) = 1

PlanInv == TipoInv /\ (~ ks_caido => TurnoInv)

\* A thread goes on: only its own record changes.
LEMMA HiloPasa ==
  ASSUME hilo_cpu \in [Cpus -> HiloConPid], NEW c \in Cpus,
         \/ Recibir(c)
         \/ \E pc \in {"atender", "syscall", "detener", "desalojar", "confirmar",
                       "finalizar", "liberar", "sin_respuesta"} :
              Al(c, pc) /\ hilo_cpu[c].pid \in Pids
  PROVE  hilo_cpu' \in [Cpus -> HiloConPid]
<1>1. hilo_cpu[c] \in Hilo /\ HiloEn("recibir") \in HiloConPid
  BY DEF HiloConPid, Hilo, HiloEn
<1>2. ASSUME NEW pc \in {"atender", "syscall", "detener", "desalojar", "confirmar",
                         "finalizar", "liberar", "sin_respuesta"},
             hilo_cpu[c].pid \in Pids
      PROVE  [hilo_cpu[c] EXCEPT !.pc = pc] \in HiloConPid
  BY <1>1, <1>2 DEF HiloConPid, Hilo
<1>3. CASE Recibir(c)
  BY <1>1, <1>3 DEF Recibir
<1>4. ASSUME NEW pc \in {"atender", "syscall", "detener", "desalojar", "confirmar",
                         "finalizar", "liberar", "sin_respuesta"},
             Al(c, pc), hilo_cpu[c].pid \in Pids
      PROVE  hilo_cpu' \in [Cpus -> HiloConPid]
  BY <1>2, <1>4 DEF Al
<1>5. QED
  BY <1>3, <1>4

\* A thread that has something in hand has a process.
LEMMA HiloTienePid ==
  ASSUME hilo_cpu \in [Cpus -> HiloConPid], NEW c \in Cpus,
         hilo_cpu[c].pc \notin {"recibir", "sin_respuesta"}
  PROVE  hilo_cpu[c].pid \in Pids /\ PidDe(c) \in Pids
BY DEF HiloConPid, PidDe

\* What the Kernel Scheduler sends to a CPU.
LEMMA EnviaTipo ==
  ASSUME NEW canal \in [Cpus -> Seq(Mensaje)], NEW c,
         NEW op \in OpsKs, NEW p \in Pids \cup {Nadie}, op = "EJECUTAR_PROCESO" => p \in Pids
  PROVE  AlCpu(canal, c, op, p) \in [Cpus -> Seq(Mensaje)]
<1>1. [op |-> op, pid |-> p] \in Mensaje
  BY DEF Mensaje, MensajeKs, Orden
<1>2. \A x \in Cpus : Append(canal[x], [op |-> op, pid |-> p]) \in Seq(Mensaje)
  BY <1>1, AppendProperties
<1>3. QED
  BY <1>2 DEF AlCpu

\* desalojar_todas_las_cpus: interrupts behind what was sent before.
Suspensiones(quienes, c) ==
  {[op |-> "INTERRUMPIR_PROCESO", pid |-> p] : p \in {q \in Pids : <<c, q>> \in quienes}}

\* They are finitely many, each of them a message.
LEMMA SuspensionesFinitas ==
  ASSUME NEW quienes, NEW c
  PROVE  /\ IsFiniteSet(Suspensiones(quienes, c))
         /\ Suspensiones(quienes, c) \in SUBSET Mensaje
<1> DEFINE S == {q \in Pids : <<c, q>> \in quienes}
           Inter(p) == [op |-> "INTERRUMPIR_PROCESO", pid |-> p]
<1>1. IsFiniteSet(S)
  BY ProcesosOK, FS_Subset
<1>2. Suspensiones(quienes, c) = {Inter(p) : p \in S}
  BY DEF Suspensiones
<1>3. IsFiniteSet({Inter(p) : p \in S})
  <2> DEFINE T == {Inter(p) : p \in S}
             f == [p \in S |-> Inter(p)]
  <2>1. f \in [S -> T] /\ \A t \in T : \E p \in S : f[p] = t
    OBVIOUS
  <2> HIDE DEF T, f, S
  <2>2. f \in Surjection(S, T)
    BY <2>1 DEF Surjection
  <2>3. IsFiniteSet(T)
    BY <1>1, <2>2, FS_Surjection
  <2>4. QED
    BY <2>3 DEF T
<1>4. \A p \in S : Inter(p) \in Mensaje
  BY DEF Mensaje, MensajeKs, OpsKs, Orden
<1>5. QED
  BY <1>2, <1>3, <1>4

\* What each CPU is sent.
LEMMA InterrumpirTipo ==
  ASSUME NEW canal \in [Cpus -> Seq(Mensaje)], NEW quienes
  PROVE  /\ Interrumpir(canal, quienes) \in [Cpus -> Seq(Mensaje)]
         /\ \A c \in Cpus : /\ Interrumpir(canal, quienes)[c] =
                                 canal[c] \o SetToSeq(Suspensiones(quienes, c))
                            /\ SetToSeq(Suspensiones(quienes, c)) \in Seq(Mensaje)
<1>1. ASSUME NEW c \in Cpus
      PROVE  SetToSeq(Suspensiones(quienes, c)) \in Seq(Mensaje)
  <2>1. /\ IsFiniteSet(Suspensiones(quienes, c))
        /\ Suspensiones(quienes, c) \in SUBSET Mensaje
    BY SuspensionesFinitas
  <2>2. SetToSeq(Suspensiones(quienes, c)) \in Seq(Suspensiones(quienes, c))
    BY <2>1, SetToSeqEs
  <2>3. QED
    BY <2>1, <2>2
<1>2. \A c \in Cpus : canal[c] \o SetToSeq(Suspensiones(quienes, c)) \in Seq(Mensaje)
  BY <1>1, ConcatProperties
<1>3. Interrumpir(canal, quienes) =
        [c \in Cpus |-> canal[c] \o SetToSeq(Suspensiones(quienes, c))]
  BY DEF Interrumpir, Suspensiones
<1>4. QED
  BY <1>1, <1>2, <1>3

\* The CPUs and what they have been sent, when they do nothing.
LEMMA CpuQuieta ==
  ASSUME CpuInv, SinCpu, de_cpu' = de_cpu, a_cpu' \in [Cpus -> Seq(Mensaje)]
  PROVE  CpuInv'
BY DEF CpuInv, CpuTipo, SinCpu, cpuVars

\* planificador_corto_plazo keeps the types.
LEMMA TipoPlanificador ==
  ASSUME TipoInv, Planificador
  PROVE  TipoInv'
<1>1. CASE PlanificadorElige
  <2>1. CpuInv' /\ MemoriaInv' /\ FinInv'
    BY <1>1 DEF PlanificadorElige, TipoInv, CpuInv, CpuTipo, MemoriaInv, FinInv, SinCpu,
                cpuVars, canales, kmVars, finVars
  <2>2. CASE ConProcesos(ks) = {}
    <3>1. ks' = [ks EXCEPT !.sem_ready = @ - 1] /\ ks.sem_ready > 0
      BY <1>1, <2>2 DEF PlanificadorElige
    <3>2. ks.sem_ready - 1 \in Nat
      BY <3>1 DEF TipoInv, TipoKs
    <3>3. ks' \in TipoKs(Libres)
      BY <3>1, <3>2 DEF TipoInv, TipoKs
    <3>4. HilosInv'
      BY <1>1, <2>2 DEF PlanificadorElige, TipoInv, HilosInv, planVars, compVars
    <3>5. QED
      BY <2>1, <3>3, <3>4 DEF TipoInv
  <2>3. CASE ConProcesos(ks) # {}
    <3> DEFINE p == Head(ks.colas_ready[Min(ConProcesos(ks))])
               c == Head(ks.cpus_libres)
    <3>1. ks' = Planificar(ks) /\ planificador' = [pid |-> p, cpu |-> c]
          /\ sem_puede_planificar' = 0 /\ ks.cpus_libres # <<>> /\ ks.sem_ready > 0
          /\ UNCHANGED <<hilo_cpu, oyente, compVars>>
      BY <1>1, <2>3 DEF PlanificadorElige
    <3>2. ks \in TipoKs(Libres)
      BY DEF TipoInv
    <3>3. ks' \in TipoKs(Libres)
      BY <2>3, <3>1, <3>2, PlanificarTipo DEF Libres
    <3>4. p \in Pids
      BY <2>3, <3>2, PrimeroDeReady
    <3>5. c \in Libres
      <4>1. ks.cpus_libres \in Seq(Libres)
        BY <3>2 DEF TipoKs
      <4>2. QED
        BY <3>1, <4>1, HeadTailProperties
    <3>6. HilosInv'
      <4> HIDE DEF p, c
      <4>1. QED
        BY <3>1, <3>4, <3>5 DEF TipoInv, HilosInv, compVars
    <3>7. QED
      BY <2>1, <3>3, <3>6 DEF TipoInv
  <2>4. QED
    BY <2>2, <2>3
<1>2. CASE PlanificadorEnvia
  <2>1. planificador.pid \in Pids
    BY <1>2 DEF PlanificadorEnvia, TipoInv, HilosInv
  <2>2. a_cpu' \in [Cpus -> Seq(Mensaje)]
    <3>1. AlCpu(a_cpu, planificador.cpu, "EJECUTAR_PROCESO", planificador.pid)
            \in [Cpus -> Seq(Mensaje)]
      BY <2>1, EnviaTipo DEF TipoInv, CpuInv, OpsKs
    <3>2. QED
      BY <1>2, <3>1 DEF PlanificadorEnvia, TipoInv, CpuInv
  <2>3. CpuInv'
    BY <1>2, <2>2, CpuQuieta DEF TipoInv, PlanificadorEnvia
  <2>4. MemoriaInv' /\ ks' \in TipoKs(Libres)
    BY <1>2 DEF PlanificadorEnvia, TipoInv, MemoriaInv, kmVars
  <2>5. FinInv'
    BY <1>2 DEF PlanificadorEnvia, TipoInv, FinInv, finVars, UsaLiberado
  <2>6. HilosInv'
    BY <1>2 DEF PlanificadorEnvia, TipoInv, HilosInv, compVars
  <2>7. QED
    BY <2>3, <2>4, <2>5, <2>6 DEF TipoInv
<1>3. QED
  BY <1>1, <1>2 DEF Planificador

\* atender_cpu takes a message.
LEMMA TipoAtender ==
  ASSUME TipoInv, NEW c \in Cpus, AtenderCpu(c)
  PROVE  TipoInv'
<1> DEFINE m == Head(de_cpu[c])
<1>1. de_cpu \in [Cpus -> Seq(Aviso)] /\ de_cpu[c] # <<>>
      /\ de_cpu' = [de_cpu EXCEPT ![c] = Tail(@)] /\ a_cpu' = a_cpu /\ SinCpu
  BY DEF TipoInv, CpuInv, AtenderCpu
<1>2. m \in Aviso /\ Tail(de_cpu[c]) \in Seq(Aviso)
  BY <1>1, HeadTailProperties
<1>3. CpuInv'
  BY <1>1, <1>2 DEF TipoInv, CpuInv, CpuTipo, SinCpu, cpuVars
<1>4. m.op \in OpsCpu /\ m.pid \in Pids
  BY <1>2 DEF Aviso, OpsCpu, Finitos
<1> HIDE DEF m
<1>5. \A pc \in {"atender", "syscall"} : [pc |-> pc, op |-> m.op, pid |-> m.pid] \in HiloConPid
  BY <1>4 DEF HiloConPid, Hilo
<1>6. hilo_cpu' \in [Cpus -> HiloConPid] /\ FinInv'
  <2>1. hilo_cpu \in [Cpus -> HiloConPid] /\ FinInv
    BY DEF TipoInv, HilosInv
  <2>2. CASE m.op \in Finales /\ bsod_activo
    <3>1. /\ cpus_pendientes_bsod' = cpus_pendientes_bsod - 1
          /\ ks_terminado' = (cpus_pendientes_bsod = 1)
          /\ UNCHANGED <<hilo_cpu, bsod_activo, ks_caido>>
      BY <2>2 DEF AtenderCpu, m, Finales, Syscalls
    <3>2. ks_terminado' \in BOOLEAN
      BY <3>1, Zenon
    <3>3. QED
      BY <2>1, <3>1, <3>2 DEF FinInv
  <2>3. CASE m.op \in Finales /\ ~ bsod_activo
    <3>1. hilo_cpu' = [hilo_cpu EXCEPT ![c] = [pc |-> "atender", op |-> m.op, pid |-> m.pid]]
          /\ UNCHANGED finVars
      BY <2>3 DEF AtenderCpu, m, Finales, Syscalls
    <3>2. QED
      BY <1>5, <2>1, <3>1 DEF FinInv, finVars
  <2>4. CASE m.op \notin Finales
    <3>1. \/ hilo_cpu' = [hilo_cpu EXCEPT ![c] = [pc |-> "syscall", op |-> m.op, pid |-> m.pid]]
          \/ hilo_cpu' = hilo_cpu
      BY <2>4 DEF AtenderCpu, m
    <3>2. UNCHANGED finVars
      BY <2>4 DEF AtenderCpu, m
    <3>3. QED
      BY <1>5, <2>1, <3>1, <3>2 DEF FinInv, finVars
  <2>5. QED
    BY <2>2, <2>3, <2>4
<1>7. MemoriaInv' /\ ks' \in TipoKs(Libres)
  BY DEF AtenderCpu, TipoInv, MemoriaInv, kmVars
<1>8. HilosInv'
  BY <1>6 DEF AtenderCpu, TipoInv, HilosInv, planVars, compVars
<1>9. QED
  BY <1>3, <1>6, <1>7, <1>8 DEF TipoInv

\* The end of a quantum and of a process, and the syscalls, in the hands of the
\* thread of its CPU.
LEMMA TipoManejar ==
  ASSUME TipoInv, NEW c \in Cpus,
         ManejarFinQuantum(c) \/ ManejarProcesoExit(c) \/ ExitFinaliza(c) \/ ExitLibera(c)
           \/ ManejarIoSleep(c)
  PROVE  TipoInv'
<1>1. /\ ks \in TipoKs(Libres) /\ hilo_cpu \in [Cpus -> HiloConPid] /\ c \in Libres
      /\ MemoriaInv /\ HilosInv /\ FinInv /\ CpuInv
  BY DEF TipoInv, HilosInv, Libres
<1>2. /\ PidDe(c) \in Pids /\ hilo_cpu[c].pid \in Pids
  BY <1>1, HiloTienePid
     DEF ManejarFinQuantum, ManejarProcesoExit, ExitFinaliza, ExitLibera, ManejarIoSleep, En
<1>3. CpuInv'
  BY <1>1, CpuQuieta
     DEF ManejarFinQuantum, ManejarProcesoExit, ExitFinaliza, ExitLibera, ManejarIoSleep,
         canales, CpuInv
<1>4. hilo_cpu' \in [Cpus -> HiloConPid]
  BY <1>1, <1>2, HiloPasa
     DEF ManejarFinQuantum, ManejarProcesoExit, ExitFinaliza, ExitLibera, ManejarIoSleep,
         PedidoTomadoPorConfirmacion
<1>5. HilosInv' /\ FinInv'
  BY <1>1, <1>4
     DEF ManejarFinQuantum, ManejarProcesoExit, ExitFinaliza, ExitLibera, ManejarIoSleep,
         HilosInv, FinInv, planVars, compVars, finVars, UsaLiberado
<1>6. MemoriaInv'
  BY <1>1, <1>2
     DEF ManejarFinQuantum, ManejarProcesoExit, ExitFinaliza, ExitLibera, ManejarIoSleep,
         MemoriaInv, kmVars, PedidoTomadoPorConfirmacion
<1>7. ks' \in TipoKs(Libres)
  <2>1. CASE ManejarFinQuantum(c)
    <3>1. SacarDeExec(ks, PidDe(c), "READY") \in TipoKs(Libres)
      BY <1>1, <1>2, SacarTipo DEF EstadosProceso
    <3>2. /\ LiberarCpu(Encolar(SacarDeExec(ks, PidDe(c), "READY"), PidDe(c)), c) \in TipoKs(Libres)
          /\ LiberarCpu(EncolarAlFrente(SacarDeExec(ks, PidDe(c), "READY"), PidDe(c)), c)
               \in TipoKs(Libres)
      BY <1>1, <1>2, <3>1, EncolarTipo, AlFrenteTipo, SacarTipo
    <3>3. QED
      BY <1>1, <2>1, <3>2 DEF ManejarFinQuantum
  <2>2. CASE ManejarProcesoExit(c)
    <3>1. CancelarTimer(SacarDeExec(ks, PidDe(c), "EXIT"), PidDe(c)) \in TipoKs(Libres)
      BY <1>1, <1>2, SacarTipo DEF EstadosProceso
    <3>2. QED
      BY <1>1, <2>2, <3>1 DEF ManejarProcesoExit
  <2>3. CASE ExitFinaliza(c)
    BY <1>1, <2>3 DEF ExitFinaliza
  <2>4. CASE ExitLibera(c)
    BY <1>1, <2>4, SacarTipo, <1>2 DEF ExitLibera
  <2>5. CASE ManejarIoSleep(c)
    <3> DEFINE k == Bloquear(ks, PidDe(c))
    <3>1. ks.cpu[PidDe(c)] \in Libres
      BY <1>1, <1>2 DEF TipoKs, Libres
    <3>2. k \in TipoKs(Libres)
      BY <1>1, <1>2, <3>1, BloquearTipo
    <3>3. ks' = ks \/ ks' = [k EXCEPT !.cola_io["SLEEP"] = Append(@, PidDe(c))]
      BY <2>5 DEF ManejarIoSleep
    <3> HIDE DEF k
    <3>4. k.cola_io["SLEEP"] \in Seq(Pids)
      BY <3>2, PedidosOK DEF TipoKs
    <3>5. Append(k.cola_io["SLEEP"], PidDe(c)) \in Seq(Pids)
      BY <1>2, <3>4, AppendProperties
    <3>6. [k EXCEPT !.cola_io["SLEEP"] = Append(@, PidDe(c))] \in TipoKs(Libres)
      BY <3>2, <3>5 DEF TipoKs
    <3>7. QED
      BY <1>1, <3>3, <3>6
  <2>6. QED
    BY <2>1, <2>2, <2>3, <2>4, <2>5
<1>8. QED
  BY <1>3, <1>5, <1>6, <1>7 DEF TipoInv

\* manejar_syscall_memoria, up to its answer.
LEMMA TipoPedir ==
  ASSUME TipoInv, NEW c \in Cpus,
         PedirSegmentoOk(c) \/ PedirSegmentoError(c) \/ PedirSegmentoCompactar(c)
           \/ EliminarSegmento(c) \/ SyscallMemoriaPerdida(c)
  PROVE  TipoInv'
<1>1. /\ ks \in TipoKs(Libres) /\ hilo_cpu \in [Cpus -> HiloConPid]
      /\ MemoriaInv /\ HilosInv /\ FinInv /\ CpuInv /\ a_cpu \in [Cpus -> Seq(Mensaje)]
  BY DEF TipoInv, HilosInv, CpuInv
<1>2. /\ PidDe(c) \in Pids /\ hilo_cpu[c].pid \in Pids
  BY <1>1, HiloTienePid
     DEF PedirSegmentoOk, PedirSegmentoError, PedirSegmentoCompactar, EliminarSegmento,
         SyscallMemoriaPerdida, MemoriaLibre, En
<1>3. /\ SinCpu /\ de_cpu' = de_cpu /\ UNCHANGED <<ks, planVars, oyente, compVars>>
      /\ a_cpu' = a_cpu \/ \E op \in {"OK", "ERROR", "BLOQUEADO"} : Contesta(c, op)
      /\ UNCHANGED finVars \/ UsaLiberado
  BY DEF PedirSegmentoOk, PedirSegmentoError, PedirSegmentoCompactar, EliminarSegmento,
         SyscallMemoriaPerdida, SinPlan, canales
<1>4. CpuInv'
  <2>1. \A op \in {"OK", "ERROR", "BLOQUEADO"} :
          AlCpu(a_cpu, c, op, Nadie) \in [Cpus -> Seq(Mensaje)]
    BY <1>1, EnviaTipo DEF OpsKs
  <2>2. a_cpu' \in [Cpus -> Seq(Mensaje)]
    BY <1>1, <1>3, <2>1 DEF Contesta
  <2>3. QED
    BY <1>1, <1>3, <2>2, CpuQuieta
<1>5. hilo_cpu' \in [Cpus -> HiloConPid]
  <2>1. CASE Recibir(c)
    BY <1>1, <2>1, HiloPasa
  <2>2. CASE \E pc \in {"detener", "sin_respuesta"} : Al(c, pc)
    BY <1>1, <1>2, <2>2, HiloPasa
  <2>3. CASE hilo_cpu' = hilo_cpu
    BY <1>1, <2>3
  <2>4. QED
    BY <2>1, <2>2, <2>3
       DEF PedirSegmentoOk, PedirSegmentoError, PedirSegmentoCompactar, EliminarSegmento,
           SyscallMemoriaPerdida, PedidoTomadoPorConfirmacion
<1>6. HilosInv' /\ ks' \in TipoKs(Libres)
  BY <1>1, <1>3, <1>5 DEF HilosInv, planVars, compVars
<1>7. FinInv'
  BY <1>1, <1>3 DEF FinInv, finVars, UsaLiberado
<1>8. MemoriaInv'
  <2>1. /\ con_segmentos' \in SUBSET Pids /\ UNCHANGED <<notificaciones, stick_vivo>>
    BY <1>1, <1>2
       DEF PedirSegmentoOk, PedirSegmentoError, PedirSegmentoCompactar, EliminarSegmento,
           SyscallMemoriaPerdida, PedidoTomadoPorConfirmacion, MemoriaInv, kmVars
  <2>2. km' \in {"libre", "confirmacion"} /\ mutex_perdido' \in BOOLEAN
    BY <1>1
       DEF PedirSegmentoOk, PedirSegmentoError, PedirSegmentoCompactar, EliminarSegmento,
           SyscallMemoriaPerdida, PedidoTomadoPorConfirmacion, MemoriaInv, kmVars
  <2>3. QED
    BY <1>1, <2>1, <2>2 DEF MemoriaInv
<1>9. QED
  BY <1>4, <1>6, <1>7, <1>8 DEF TipoInv

\* The compaction, as the thread of the CPU does it.
LEMMA TipoCompactar ==
  ASSUME TipoInv, NEW c \in Cpus,
         DetenerPlanificacion(c) \/ DesalojarTodasLasCpus(c) \/ Compactar(c)
  PROVE  TipoInv'
<1>1. /\ ks \in TipoKs(Libres) /\ hilo_cpu \in [Cpus -> HiloConPid]
      /\ MemoriaInv /\ HilosInv /\ FinInv /\ CpuInv /\ a_cpu \in [Cpus -> Seq(Mensaje)]
  BY DEF TipoInv, HilosInv, CpuInv
<1>2. /\ PidDe(c) \in Pids /\ hilo_cpu[c].pid \in Pids
  BY <1>1, HiloTienePid DEF DetenerPlanificacion, DesalojarTodasLasCpus, Compactar, En
<1>3. hilo_cpu' \in [Cpus -> HiloConPid]
  BY <1>1, <1>2, HiloPasa DEF DetenerPlanificacion, DesalojarTodasLasCpus, Compactar
<1>4. CASE DetenerPlanificacion(c)
  <2>1. CpuInv'
    BY <1>1, <1>4, CpuQuieta DEF DetenerPlanificacion, canales, CpuInv
  <2>2. MemoriaInv'
    BY <1>1, <1>4 DEF DetenerPlanificacion, MemoriaInv, kmVars
  <2>3. FinInv'
    BY <1>1, <1>4 DEF DetenerPlanificacion, FinInv, finVars, UsaLiberado
  <2>4. esperando' \in [pid : Pids, cpu : Cpus] \cup {Ninguno} /\ compactando' \in BOOLEAN
    <3>1. \/ esperando' = esperando /\ compactando' = compactando
          \/ esperando' = [pid |-> PidDe(c), cpu |-> c] /\ compactando' = TRUE
      BY <1>4 DEF DetenerPlanificacion, compVars
    <3>2. [pid |-> PidDe(c), cpu |-> c] \in [pid : Pids, cpu : Cpus]
      BY <1>2
    <3>3. /\ esperando \in [pid : Pids, cpu : Cpus] \cup {Ninguno}
          /\ compactando \in BOOLEAN
      BY <1>1 DEF HilosInv
    <3>4. QED
      BY <3>1, <3>2, <3>3
  <2>5. HilosInv'
    BY <1>1, <1>3, <1>4, <2>4 DEF DetenerPlanificacion, HilosInv
  <2>6. ks' \in TipoKs(Libres)
    <3> DEFINE k == SacarDeExec(ks, PidDe(c), "BLOCK")
    <3>1. k \in TipoKs(Libres)
      BY <1>1, <1>2, SacarTipo DEF EstadosProceso
    <3>2. ks' = ks \/ ks' = [k EXCEPT !.block = @ \cup {PidDe(c)}]
      BY <1>4 DEF DetenerPlanificacion
    <3> HIDE DEF k
    <3>3. [k EXCEPT !.block = @ \cup {PidDe(c)}] \in TipoKs(Libres)
      BY <1>2, <3>1 DEF TipoKs
    <3>4. QED
      BY <1>1, <3>2, <3>3
  <2>7. QED
    BY <2>1, <2>2, <2>3, <2>5, <2>6 DEF TipoInv
<1>5. CASE DesalojarTodasLasCpus(c)
  <2>1. a_cpu' \in [Cpus -> Seq(Mensaje)]
    BY <1>1, <1>5, InterrumpirTipo DEF DesalojarTodasLasCpus
  <2>2. CpuInv'
    BY <1>1, <1>5, <2>1, CpuQuieta DEF DesalojarTodasLasCpus
  <2>3. MemoriaInv' /\ FinInv' /\ ks' \in TipoKs(Libres)
    BY <1>1, <1>5 DEF DesalojarTodasLasCpus, MemoriaInv, kmVars, FinInv, finVars
  <2>4. HilosInv'
    BY <1>1, <1>3, <1>5 DEF DesalojarTodasLasCpus, HilosInv, planVars, compVars
  <2>5. QED
    BY <2>2, <2>3, <2>4 DEF TipoInv
<1>6. CASE Compactar(c)
  <2>1. tabla_vieja' \in SUBSET Cpus
    BY <1>1, <1>6 DEF Compactar, CpuInv
  <2>2. CpuInv'
    BY <1>1, <1>6, <2>1 DEF Compactar, CpuInv, CpuTipo, cpuVars, canales
  <2>3. notificaciones' \in Seq(Avisos)
    BY <1>1, <1>6, AppendProperties DEF Compactar, MemoriaInv, Avisos
  <2>4. con_segmentos' \in SUBSET Pids
    BY <1>1, <1>2, <1>6 DEF Compactar, MemoriaInv
  <2>5. MemoriaInv'
    BY <1>1, <1>6, <2>3, <2>4 DEF Compactar, MemoriaInv
  <2>6. FinInv' /\ ks' \in TipoKs(Libres)
    BY <1>1, <1>6 DEF Compactar, FinInv, finVars
  <2>7. HilosInv'
    BY <1>1, <1>3, <1>6 DEF Compactar, HilosInv, planVars, compVars
  <2>8. QED
    BY <2>2, <2>5, <2>6, <2>7 DEF TipoInv
<1>7. QED
  BY <1>4, <1>5, <1>6

\* The thread of a device, and a Memory Stick that goes away.
LEMMA TipoIo ==
  ASSUME TipoInv, FinIo \/ StickSeVa
  PROVE  TipoInv'
<1>1. /\ ks \in TipoKs(Libres) /\ MemoriaInv /\ HilosInv /\ FinInv /\ CpuInv
  BY DEF TipoInv
<1>2. CpuInv' /\ HilosInv'
  BY <1>1 DEF FinIo, StickSeVa, CpuInv, CpuTipo, HilosInv, SinCpu, cpuVars, canales, planVars,
              compVars
<1>3. FinInv'
  BY <1>1 DEF FinIo, StickSeVa, FinInv, finVars, UsaLiberado
<1>4. MemoriaInv'
  <2>1. StickSeVa => Append(notificaciones, "MEMORIA_CORRUPTA") \in Seq(Avisos)
    BY <1>1, AppendProperties DEF MemoriaInv, Avisos
  <2>2. QED
    BY <1>1, <2>1 DEF FinIo, StickSeVa, MemoriaInv, kmVars
<1>5. CASE StickSeVa
  BY <1>1, <1>2, <1>3, <1>4, <1>5 DEF StickSeVa, TipoInv
<1>6. CASE FinIo
  <2> DEFINE p == Head(ks.cola_io["SLEEP"])
             cola == Tail(ks.cola_io["SLEEP"])
             k0 == [ks EXCEPT !.cola_io["SLEEP"] = cola]
  <2>1. ks.cola_io["SLEEP"] \in Seq(Pids) /\ ks.cola_io["SLEEP"] # <<>>
    BY <1>1, <1>6, PedidosOK DEF TipoKs, FinIo
  <2>2. p \in Pids /\ cola \in Seq(Pids)
    BY <2>1, HeadTailProperties
  <2>3. ks' = ks \/ ks' = Despertar(CancelarTimer(k0, p), p, ks.estado[p])
    BY <1>6 DEF FinIo
  <2> HIDE DEF p, cola
  <2>4. k0 \in TipoKs(Libres)
    BY <1>1, <2>2 DEF TipoKs
  <2> HIDE DEF k0
  <2>5. Despertar(CancelarTimer(k0, p), p, ks.estado[p]) \in TipoKs(Libres)
    BY <2>2, <2>4, SacarTipo, DespertarTipo
  <2>6. ks' \in TipoKs(Libres)
    BY <1>1, <2>3, <2>5
  <2>7. QED
    BY <1>2, <1>3, <1>4, <2>6 DEF TipoInv
<1>7. QED
  BY <1>5, <1>6

\* hilo_escuchar_memoria.
LEMMA TipoOyente ==
  ASSUME TipoInv, TurnoInv, HiloEscucharMemoria
  PROVE  TipoInv'
<1>1. /\ ks \in TipoKs(Libres) /\ MemoriaInv /\ HilosInv /\ FinInv /\ CpuInv
      /\ a_cpu \in [Cpus -> Seq(Mensaje)]
  BY DEF TipoInv, CpuInv
<1>2. ASSUME NEW que \in Avisos, Lee(que)
      PROVE  MemoriaInv'
  <2>1. notificaciones' \in Seq(Avisos)
    BY <1>1, <1>2, HeadTailProperties DEF Lee, MemoriaInv
  <2>2. QED
    BY <1>1, <1>2, <2>1 DEF Lee, MemoriaInv
<1>3. CASE FinCompactacion
  <2>1. MemoriaInv'
    BY <1>2, <1>3 DEF FinCompactacion, Avisos
  <2>2. CpuInv'
    BY <1>1, <1>3, CpuQuieta DEF FinCompactacion, canales
  <2>3. FinInv'
    BY <1>1, <1>3 DEF FinCompactacion, FinInv, finVars, UsaLiberado
  <2>4. HilosInv'
    BY <1>1, <1>3 DEF FinCompactacion, HilosInv, planVars
  <2>5. ~ SinFin(notificaciones)
    <3>1. 1 \in DOMAIN notificaciones /\ notificaciones[1] = "FIN_COMPACTACION"
      BY <1>1, <1>3, MensajeQuitado DEF FinCompactacion, Lee, MemoriaInv
    <3>2. QED
      BY <3>1 DEF SinFin
  <2>6. esperando \in [pid : Pids, cpu : Cpus]
    BY <1>1, <2>5 DEF TurnoInv, HilosInv
  <2>7. ks' \in TipoKs(Libres)
    <3> DEFINE estados == [ks.estado EXCEPT ![esperando.pid] = "EXEC"]
               cpus == [ks.cpu EXCEPT ![esperando.pid] = esperando.cpu]
               exec == ks.exec \cup {esperando.pid}
               block == ks.block \ {esperando.pid}
    <3>1. \/ ks' = ks
          \/ ks' = [ks EXCEPT !.estado = estados, !.cpu = cpus, !.exec = exec, !.block = block]
      BY <1>3 DEF FinCompactacion
    <3>2. /\ estados \in [Pids -> EstadosProceso] /\ cpus \in [Pids -> Cpus \cup {Nulo}]
          /\ exec \in SUBSET Pids /\ block \in SUBSET Pids
      <4>1. /\ ks.estado \in [Pids -> EstadosProceso] /\ ks.cpu \in [Pids -> Cpus \cup {Nulo}]
            /\ ks.exec \in SUBSET Pids /\ ks.block \in SUBSET Pids
            /\ esperando.pid \in Pids /\ esperando.cpu \in Cpus
        BY <1>1, <2>6 DEF TipoKs
      <4>2. QED
        BY <4>1 DEF EstadosProceso
    <3> HIDE DEF estados, cpus, exec, block
    <3>3. CASE ks' = [ks EXCEPT !.estado = estados, !.cpu = cpus, !.exec = exec,
                                !.block = block]
      BY <1>1, <3>2, <3>3 DEF TipoKs
    <3>4. QED
      BY <1>1, <3>1, <3>3
  <2>8. QED
    BY <2>1, <2>2, <2>3, <2>4, <2>7 DEF TipoInv
<1>4. CASE FinEjecuta
  <2>1. esperando \in [pid : Pids, cpu : Cpus]
    BY <1>1, <1>4 DEF FinEjecuta, TurnoInv, HilosInv
  <2>2. AlCpu(a_cpu, esperando.cpu, "EJECUTAR_PROCESO", esperando.pid) \in [Cpus -> Seq(Mensaje)]
    BY <1>1, <2>1, EnviaTipo DEF OpsKs
  <2>3. CpuInv'
    BY <1>1, <1>4, <2>2, CpuQuieta DEF FinEjecuta
  <2>4. MemoriaInv' /\ ks' \in TipoKs(Libres) /\ FinInv'
    BY <1>1, <1>4 DEF FinEjecuta, MemoriaInv, FinInv, kmVars, finVars
  <2>5. HilosInv'
    BY <1>1, <1>4 DEF FinEjecuta, HilosInv
  <2>6. QED
    BY <2>3, <2>4, <2>5 DEF TipoInv
<1>5. CASE ManejarBsod
  <2>1. MemoriaInv'
    BY <1>2, <1>5 DEF ManejarBsod, Avisos
  <2>2. CpuInv'
    BY <1>1, <1>5, CpuQuieta DEF ManejarBsod, canales
  <2>3. FinInv'
    <3>1. ks.exec \in SUBSET Pids
      BY <1>1 DEF TipoKs
    <3>2. Cardinality(ks.exec) \in Nat
      BY <3>1, ProcesosOK, FS_Subset, FS_CardinalityType
    <3>3. QED
      BY <1>1, <1>5, <3>2 DEF ManejarBsod, FinInv
  <2>4. HilosInv'
    <3>1. EnEjecucion \in SUBSET (Libres \X Pids)
      BY <1>1 DEF EnEjecucion, TipoKs, Libres
    <3>2. QED
      BY <1>1, <1>5, <3>1 DEF ManejarBsod, HilosInv, planVars, compVars
  <2>5. ks' \in TipoKs(Libres)
    <3> DEFINE estados == [p \in Pids |-> "EXIT"]
               cpus == [p \in Pids |-> Nulo]
               colas == [q \in Colas |-> <<>>]
    <3>1. ks' = [ks EXCEPT !.estado = estados, !.cpu = cpus, !.colas_ready = colas,
                           !.exec = {}, !.block = {}]
      BY <1>5 DEF ManejarBsod
    <3>2. /\ estados \in [Pids -> EstadosProceso] /\ cpus \in [Pids -> Cpus \cup {Nulo}]
          /\ colas \in [Colas -> Seq(Pids)]
      BY DEF EstadosProceso
    <3> HIDE DEF estados, cpus, colas
    <3>3. QED
      BY <1>1, <3>1, <3>2 DEF TipoKs
  <2>6. QED
    BY <2>1, <2>2, <2>3, <2>4, <2>5 DEF TipoInv
<1>6. CASE BsodInterrumpe
  <2>1. CpuInv'
    BY <1>1, <1>6, InterrumpirTipo, CpuQuieta DEF BsodInterrumpe
  <2>2. MemoriaInv' /\ ks' \in TipoKs(Libres)
    BY <1>1, <1>6 DEF BsodInterrumpe, MemoriaInv, kmVars
  <2>3. ks_terminado' \in BOOLEAN
    BY <1>6, Zenon DEF BsodInterrumpe
  <2>4. FinInv'
    BY <1>1, <1>6, <2>3 DEF BsodInterrumpe, FinInv
  <2>5. HilosInv'
    BY <1>1, <1>6 DEF BsodInterrumpe, HilosInv, planVars, compVars
  <2>6. QED
    BY <2>1, <2>2, <2>4, <2>5 DEF TipoInv
<1>7. QED
  BY <1>3, <1>4, <1>5, <1>6 DEF HiloEscucharMemoria

\* A step that no thread takes to or from where the planning is stopped.
LEMMA TurnoQuieto ==
  ASSUME TurnoInv, UNCHANGED <<planVars, esperando, notificaciones, oyente>>,
         \A c \in Cpus : hilo_cpu'[c].pc \in Parada => hilo_cpu[c].pc \in Parada
  PROVE  TurnoInv'
BY DEF TurnoInv, planVars

\* planificador_corto_plazo and the turn.
LEMMA TurnoPlanificador ==
  ASSUME TipoInv, TurnoInv, Planificador
  PROVE  ks_caido' \/ TurnoInv'
<1>1. UNCHANGED <<hilo_cpu, oyente, esperando, notificaciones>>
  BY DEF Planificador, PlanificadorElige, PlanificadorEnvia, kmVars, compVars
<1>2. CASE PlanificadorElige
  <2>1. CASE ConProcesos(ks) = {}
    BY <1>1, <1>2, <2>1, TurnoQuieto DEF PlanificadorElige
  <2>2. CASE ConProcesos(ks) # {}
    <3> DEFINE p == Head(ks.colas_ready[Min(ConProcesos(ks))])
    <3>1. p \in Pids /\ p # Nadie
      <4>1. p \in Pids
        BY <2>2, PrimeroDeReady DEF TipoInv
      <4>2. QED
        BY <4>1, ProcesosOK DEF Nadie
    <3>2. /\ planificador = Ninguno /\ sem_puede_planificar = 1 /\ sem_puede_planificar' = 0
          /\ planificador' = [pid |-> p, cpu |-> Head(ks.cpus_libres)]
      BY <1>2, <2>2 DEF PlanificadorElige
    <3> HIDE DEF p
    <3>3. planificador' # Ninguno
      BY <3>1, <3>2 DEF Ninguno
    <3>4. QED
      BY <1>1, <3>2, <3>3 DEF TurnoInv
  <2>3. QED
    BY <2>1, <2>2
<1>3. CASE PlanificadorEnvia
  <2>1. planificador # Ninguno /\ planificador' = Ninguno /\ sem_puede_planificar' = 1
    BY <1>3 DEF PlanificadorEnvia
  <2>2. sem_puede_planificar \in 0 .. 1
    BY DEF TipoInv, HilosInv
  <2>3. esperando = Ninguno /\ sem_puede_planificar = 0
    BY <2>1, <2>2 DEF TurnoInv
  <2>4. QED
    BY <1>1, <2>1, <2>3 DEF TurnoInv
<1>4. QED
  BY <1>2, <1>3 DEF Planificador

\* The threads of the CPUs and the turn.
LEMMA TurnoHilo ==
  ASSUME TipoInv, TurnoInv, NEW c \in Cpus, HiloCpu(c)
  PROVE  ks_caido' \/ TurnoInv'
<1>1. hilo_cpu \in [Cpus -> HiloConPid] /\ sem_puede_planificar \in 0 .. 1
  BY DEF TipoInv, HilosInv
<1>2. ASSUME UNCHANGED <<planVars, esperando, notificaciones, oyente>>,
             \/ Recibir(c) \/ hilo_cpu' = hilo_cpu
             \/ \E pc \in {"finalizar", "liberar", "sin_respuesta", "detener"} : Al(c, pc)
             \/ Al(c, "confirmar") /\ En(c, "desalojar")
             \/ \E pc \in {"atender", "syscall"} : \E op, pid :
                  hilo_cpu' = [hilo_cpu EXCEPT ![c] = [pc |-> pc, op |-> op, pid |-> pid]]
      PROVE  TurnoInv'
  <2>1. \A d \in Cpus : hilo_cpu'[d].pc \in Parada => hilo_cpu[d].pc \in Parada
    <3>1. hilo_cpu[c] \in Hilo
      BY <1>1 DEF HiloConPid
    <3>2. CASE Recibir(c) \/ hilo_cpu' = hilo_cpu
      BY <1>1, <3>2 DEF Recibir, Parada, HiloEn
    <3>3. CASE \E pc \in {"finalizar", "liberar", "sin_respuesta", "detener"} : Al(c, pc)
      BY <1>1, <3>1, <3>3 DEF Al, Parada, Hilo
    <3>4. CASE Al(c, "confirmar") /\ En(c, "desalojar")
      BY <1>1, <3>1, <3>4 DEF Al, En, Parada, Hilo
    <3>5. CASE \E pc \in {"atender", "syscall"} : \E op, pid :
                 hilo_cpu' = [hilo_cpu EXCEPT ![c] = [pc |-> pc, op |-> op, pid |-> pid]]
      BY <1>1, <3>5 DEF Parada
    <3>6. QED
      BY <1>2, <3>2, <3>3, <3>4, <3>5
  <2>2. QED
    BY <1>2, <2>1, TurnoQuieto
<1>3. CASE AtenderCpu(c)
  <2> DEFINE m == Head(de_cpu[c])
             h(pc) == [pc |-> pc, op |-> m.op, pid |-> m.pid]
  <2>1. UNCHANGED <<planVars, esperando, notificaciones, oyente>>
    BY <1>3 DEF AtenderCpu, kmVars, compVars
  <2>2. \/ hilo_cpu' = hilo_cpu
        \/ \E pc \in {"atender", "syscall"} :
             hilo_cpu' = [hilo_cpu EXCEPT ![c] = [pc |-> pc, op |-> m.op, pid |-> m.pid]]
    <3>1. \/ hilo_cpu' = hilo_cpu
          \/ hilo_cpu' = [hilo_cpu EXCEPT ![c] = [pc |-> "atender", op |-> m.op, pid |-> m.pid]]
          \/ hilo_cpu' = [hilo_cpu EXCEPT ![c] = [pc |-> "syscall", op |-> m.op, pid |-> m.pid]]
      BY <1>3 DEF AtenderCpu
    <3> HIDE DEF m
    <3>2. QED
      BY <3>1
  <2> HIDE DEF m
  <2>3. QED
    BY <1>2, <2>1, <2>2
<1>4. CASE ManejarFinQuantum(c) \/ ManejarProcesoExit(c) \/ ExitFinaliza(c) \/ ExitLibera(c)
             \/ ManejarIoSleep(c)
  <2>1. UNCHANGED <<planVars, esperando, notificaciones, oyente>>
    BY <1>4
       DEF ManejarFinQuantum, ManejarProcesoExit, ExitFinaliza, ExitLibera, ManejarIoSleep,
           kmVars, compVars, PedidoTomadoPorConfirmacion
  <2>2. Recibir(c) \/ \E pc \in {"finalizar", "liberar", "sin_respuesta", "detener"} : Al(c, pc)
    BY <1>4
       DEF ManejarFinQuantum, ManejarProcesoExit, ExitFinaliza, ExitLibera, ManejarIoSleep,
           PedidoTomadoPorConfirmacion
  <2>3. QED
    BY <1>2, <2>1, <2>2
<1>5. CASE PedirSegmentoOk(c) \/ PedirSegmentoError(c) \/ PedirSegmentoCompactar(c)
             \/ EliminarSegmento(c) \/ SyscallMemoriaPerdida(c)
  <2>1. UNCHANGED <<planVars, esperando, notificaciones, oyente>>
    BY <1>5
       DEF PedirSegmentoOk, PedirSegmentoError, PedirSegmentoCompactar, EliminarSegmento,
           SyscallMemoriaPerdida, PedidoTomadoPorConfirmacion, SinPlan, kmVars, compVars
  <2>2. \/ Recibir(c) \/ hilo_cpu' = hilo_cpu
        \/ \E pc \in {"finalizar", "liberar", "sin_respuesta", "detener"} : Al(c, pc)
    BY <1>5
       DEF PedirSegmentoOk, PedirSegmentoError, PedirSegmentoCompactar, EliminarSegmento,
           SyscallMemoriaPerdida, PedidoTomadoPorConfirmacion
  <2>3. QED
    BY <1>2, <2>1, <2>2
<1>6. CASE DetenerPlanificacion(c)
  <2>1. CASE bsod_activo
    BY <1>6, <2>1 DEF DetenerPlanificacion, UsaLiberado
  <2>2. CASE ~ bsod_activo
    <3>1. /\ sem_puede_planificar = 1 /\ sem_puede_planificar' = 0
          /\ esperando' = [pid |-> PidDe(c), cpu |-> c]
          /\ UNCHANGED <<planificador, oyente, notificaciones>>
          /\ hilo_cpu' = [hilo_cpu EXCEPT ![c].pc = "desalojar"]
      BY <1>6, <2>2 DEF DetenerPlanificacion, kmVars, Al
    <3>2. planificador = Ninguno /\ esperando = Ninguno
      BY <3>1 DEF TurnoInv
    <3>3. esperando' # Ninguno /\ esperando'.cpu = c
      BY <3>1, PedidosOK DEF Ninguno
    <3>4. \A d \in Cpus : hilo_cpu'[d].pc \in Parada => d = c
      BY <1>1, <3>1, <3>2 DEF TurnoInv
    <3>5. SinFin(notificaciones) /\ oyente.pc # "ejecutar"
      BY <3>2 DEF TurnoInv
    <3>6. QED
      BY <3>1, <3>2, <3>3, <3>4, <3>5 DEF TurnoInv
  <2>3. QED
    BY <2>1, <2>2
<1>7. CASE DesalojarTodasLasCpus(c)
  BY <1>2, <1>7 DEF DesalojarTodasLasCpus, kmVars, compVars
<1>8. CASE Compactar(c)
  <2>1. /\ hilo_cpu[c].pc \in Parada
        /\ notificaciones' = Append(notificaciones, "FIN_COMPACTACION")
        /\ Recibir(c) /\ UNCHANGED <<planVars, oyente, esperando>>
    BY <1>8 DEF Compactar, compVars, En, Parada
  <2>2. /\ esperando # Ninguno /\ esperando.cpu = c /\ SinFin(notificaciones)
        /\ oyente.pc # "ejecutar"
    BY <2>1 DEF TurnoInv
  <2>3. \A d \in Cpus : hilo_cpu'[d].pc \notin Parada
    <3>1. \A d \in Cpus : hilo_cpu[d].pc \in Parada => d = c
      BY <2>2 DEF TurnoInv
    <3>2. QED
      BY <1>1, <2>1, <3>1 DEF Recibir, HiloEn, Parada
  <2>4. UnFin(notificaciones')
    <3>1. notificaciones \in Seq(Avisos)
      BY DEF TipoInv, MemoriaInv
    <3>2. \A i \in DOMAIN notificaciones' :
            notificaciones'[i] = "FIN_COMPACTACION" => i = Len(notificaciones) + 1
      BY <2>1, <2>2, <3>1, MensajeAgregado DEF SinFin
    <3>3. QED
      BY <3>2 DEF UnFin
  <2>5. QED
    BY <2>1, <2>2, <2>3, <2>4 DEF TurnoInv, planVars
<1>9. QED
  BY <1>3, <1>4, <1>5, <1>6, <1>7, <1>8 DEF HiloCpu

\* A notification read, and one more of a stick.
LEMMA FinLeido ==
  ASSUME notificaciones \in Seq(Avisos), UnFin(notificaciones), NEW que \in Avisos, Lee(que)
  PROVE  /\ UnFin(notificaciones')
         /\ que = "FIN_COMPACTACION" => ~ SinFin(notificaciones) /\ SinFin(notificaciones')
         /\ SinFin(notificaciones) => SinFin(notificaciones')
<1> DEFINE s == notificaciones
           t == Tail(s)
<1>1. s # <<>> /\ Head(s) = que /\ notificaciones' = t
  BY DEF Lee
<1>2. /\ \A i \in DOMAIN t : i + 1 \in DOMAIN s /\ t[i] = s[i + 1] /\ i \in Int /\ i >= 1
      /\ 1 \in DOMAIN s /\ s[1] = que
  BY <1>1, MensajeQuitado
<1> HIDE DEF s, t
<1>3. UnFin(t)
  <2>1. ASSUME NEW i \in DOMAIN t, NEW j \in DOMAIN t, t[i] = "FIN_COMPACTACION",
               t[j] = "FIN_COMPACTACION"
        PROVE  i = j
    <3>1. i + 1 = j + 1
      BY <1>2, <2>1 DEF UnFin, s
    <3>2. QED
      BY <1>2, <3>1
  <2>2. QED
    BY <2>1 DEF UnFin
<1>4. que = "FIN_COMPACTACION" => ~ SinFin(s)
  BY <1>2 DEF SinFin
<1>5. ASSUME que = "FIN_COMPACTACION", NEW i \in DOMAIN t, t[i] = "FIN_COMPACTACION"
      PROVE  FALSE
  <2>1. i + 1 = 1
    BY <1>2, <1>5 DEF UnFin, s
  <2>2. QED
    BY <1>2, <2>1
<1>6. que = "FIN_COMPACTACION" => SinFin(t)
  BY <1>5 DEF SinFin
<1>7. SinFin(s) => SinFin(t)
  BY <1>2 DEF SinFin
<1>8. QED
  BY <1>1, <1>3, <1>4, <1>6, <1>7 DEF s

\* hilo_escuchar_memoria and a Memory Stick, and the turn.
LEMMA TurnoOyente ==
  ASSUME TipoInv, TurnoInv, HiloEscucharMemoria \/ StickSeVa
  PROVE  ks_caido' \/ TurnoInv'
<1>1. /\ notificaciones \in Seq(Avisos) /\ sem_puede_planificar \in 0 .. 1
      /\ oyente \in [pc : {"leer", "ejecutar", "interrumpir"}, avisos : SUBSET (Libres \X Pids)]
      /\ UnFin(notificaciones)
  BY DEF TipoInv, MemoriaInv, HilosInv, TurnoInv
<1>2. hilo_cpu' = hilo_cpu
  BY DEF HiloEscucharMemoria, FinCompactacion, FinEjecuta, ManejarBsod, BsodInterrumpe, StickSeVa
<1>3. CASE FinCompactacion
  <2>1. /\ UnFin(notificaciones') /\ SinFin(notificaciones') /\ ~ SinFin(notificaciones)
    BY <1>1, <1>3, FinLeido DEF FinCompactacion, Avisos
  <2>2. /\ oyente'.pc = "ejecutar" /\ UNCHANGED <<planVars, esperando>>
    BY <1>1, <1>3 DEF FinCompactacion
  <2>3. esperando # Ninguno /\ \A c \in Cpus : hilo_cpu[c].pc \notin Parada
    BY <2>1 DEF TurnoInv
  <2>4. QED
    BY <1>2, <2>1, <2>2, <2>3 DEF TurnoInv, planVars
<1>4. CASE FinEjecuta
  <2>1. /\ oyente.pc = "ejecutar" /\ oyente'.pc = "leer" /\ sem_puede_planificar' = 1
        /\ esperando' = Ninguno /\ UNCHANGED <<planificador, notificaciones>>
    BY <1>1, <1>4 DEF FinEjecuta, kmVars
  <2>2. esperando # Ninguno /\ SinFin(notificaciones)
        /\ \A c \in Cpus : hilo_cpu[c].pc \notin Parada
    BY <2>1 DEF TurnoInv
  <2>3. planificador = Ninguno
    BY <1>1, <2>2 DEF TurnoInv
  <2>4. QED
    BY <1>2, <2>1, <2>2, <2>3 DEF TurnoInv
<1>5. CASE ManejarBsod
  <2>1. Lee("MEMORIA_CORRUPTA") /\ oyente'.pc # "ejecutar" /\ oyente.pc # "ejecutar"
        /\ UNCHANGED <<planVars, esperando>>
    BY <1>5 DEF ManejarBsod, compVars, Lee
  <2>2. UnFin(notificaciones') /\ (SinFin(notificaciones) => SinFin(notificaciones'))
    BY <1>1, <2>1, FinLeido DEF Avisos
  <2>3. QED
    BY <1>2, <2>1, <2>2 DEF TurnoInv, planVars
<1>6. CASE BsodInterrumpe
  <2>1. oyente'.pc = "leer" /\ UNCHANGED <<planVars, esperando, notificaciones>>
    BY <1>6 DEF BsodInterrumpe, kmVars, compVars
  <2>2. oyente.pc # "ejecutar"
    BY <1>6 DEF BsodInterrumpe
  <2>3. QED
    BY <1>2, <2>1, <2>2 DEF TurnoInv, planVars
<1>7. CASE StickSeVa
  <2>1. notificaciones' = Append(notificaciones, "MEMORIA_CORRUPTA")
        /\ UNCHANGED <<planVars, esperando, oyente>>
    BY <1>7 DEF StickSeVa, compVars
  <2>2. /\ \A i \in DOMAIN notificaciones :
             i \in DOMAIN notificaciones' /\ notificaciones'[i] = notificaciones[i]
        /\ \A i \in DOMAIN notificaciones' : notificaciones'[i] = "FIN_COMPACTACION" =>
             i \in DOMAIN notificaciones /\ notificaciones'[i] = notificaciones[i]
    BY <1>1, <2>1, MensajeAgregado
  <2>3. UnFin(notificaciones') /\ (SinFin(notificaciones') <=> SinFin(notificaciones))
    BY <1>1, <2>2 DEF UnFin, SinFin
  <2>4. QED
    BY <1>2, <2>1, <2>3 DEF TurnoInv, planVars
<1>8. QED
  BY <1>3, <1>4, <1>5, <1>6, <1>7 DEF HiloEscucharMemoria

\* Nothing that the scheduler and its threads have changes with a CPU.
LEMMA PlanCpu ==
  ASSUME PlanInv, NEW c \in Cpus, PasoCpu(c)
  PROVE  PlanInv'
<1>1. UNCHANGED <<ks, planVars, hilo_cpu, oyente, kmVars, compVars, finVars>>
  BY DEF PasoCpu
<1>2. CpuInv'
  BY CpuTipos DEF PlanInv, TipoInv, PasoCpu
<1>3. ks' \in TipoKs(Libres) /\ HilosInv' /\ MemoriaInv' /\ FinInv'
  BY <1>1 DEF PlanInv, TipoInv, HilosInv, MemoriaInv, FinInv, planVars, kmVars, compVars, finVars
<1>4. ~ ks_caido => TurnoInv'
  BY <1>1, TurnoQuieto DEF PlanInv, kmVars, compVars
<1>5. ks_caido' = ks_caido
  BY <1>1 DEF finVars
<1>6. QED
  BY <1>2, <1>3, <1>4, <1>5 DEF PlanInv, TipoInv

\* Every step.
LEMMA PlanPaso ==
  ASSUME PlanInv, [Next]_vars
  PROVE  PlanInv'
<1>1. CASE PasoPlanificador
  BY <1>1, TipoPlanificador, TurnoPlanificador DEF PlanInv, PasoPlanificador, Vivo
<1>2. ASSUME NEW c \in Cpus, PasoHilo(c) PROVE PlanInv'
  <2>1. HiloCpu(c) /\ TipoInv /\ TurnoInv
    BY <1>2 DEF PasoHilo, Vivo, PlanInv
  <2>2. TipoInv'
    BY <2>1, TipoAtender, TipoManejar, TipoPedir, TipoCompactar DEF HiloCpu
  <2>3. QED
    BY <2>1, <2>2, TurnoHilo DEF PlanInv
<1>3. ASSUME NEW c \in Cpus, PasoCpu(c) PROVE PlanInv'
  BY <1>3, PlanCpu
<1>4. CASE PasoIo
  <2>1. FinIo /\ TipoInv /\ TurnoInv
    BY <1>4 DEF PasoIo, Vivo, PlanInv
  <2>2. UNCHANGED <<planVars, esperando, notificaciones, oyente, hilo_cpu>>
    BY <2>1 DEF FinIo, kmVars, compVars
  <2>3. TurnoInv'
    BY <2>1, <2>2, TurnoQuieto
  <2>4. QED
    BY <2>1, <2>3, TipoIo DEF PlanInv
<1>5. CASE PasoOyente
  BY <1>5, TipoOyente, TurnoOyente DEF PasoOyente, Vivo, PlanInv
<1>6. CASE PasoStick
  BY <1>6, TipoIo, TurnoOyente DEF PasoStick, Vivo, PlanInv
<1>7. CASE UNCHANGED vars
  <2>1. UNCHANGED <<ks, canales, cpuVars, tabla_vieja, planVars, hilo_cpu, oyente, kmVars,
                    compVars, finVars>>
    BY <1>7 DEF vars
  <2>2. CpuInv' /\ ks' \in TipoKs(Libres)
    BY <2>1 DEF PlanInv, TipoInv, CpuInv, CpuTipo, canales, cpuVars
  <2>3. HilosInv' /\ MemoriaInv' /\ FinInv'
    BY <2>1 DEF PlanInv, TipoInv, HilosInv, MemoriaInv, FinInv, planVars, kmVars, compVars,
                finVars
  <2>4. ~ ks_caido => TurnoInv'
    BY <2>1, TurnoQuieto DEF PlanInv, kmVars, compVars
  <2>5. ks_caido' = ks_caido
    BY <2>1 DEF finVars
  <2>6. QED
    BY <2>2, <2>3, <2>4, <2>5 DEF PlanInv, TipoInv
<1>8. QED
  BY <1>1, <1>2, <1>3, <1>4, <1>5, <1>6, <1>7 DEF Next

\* The invariant holds when the CPUs are connected.
LEMMA PlanInicial ==
  ASSUME Init
  PROVE  PlanInv
<1>1. CanalesInit /\ PedidosInit /\ KsInit
  BY DEF Init, PedidosInit
<1>2. CpuInv
  BY <1>1, CiclosUsadosOK DEF Init, CanalesInit, CpuInv, CpuTipo, EstadosCpu
<1>3. ks \in TipoKs(Libres)
  <2>1. Cpus \subseteq Libres
    BY DEF Libres
  <2>2. QED
    BY <1>1, <2>1, PedidosOK, KsInicial
<1>4. HiloEn("recibir") \in HiloConPid /\ HiloEn("recibir").pc = "recibir"
  BY DEF HiloEn, HiloConPid, Hilo
<1>5. HilosInv
  <2>1. [pc |-> "leer", avisos |-> {}]
          \in [pc : {"leer", "ejecutar", "interrumpir"}, avisos : SUBSET (Libres \X Pids)]
    OBVIOUS
  <2>2. /\ sem_puede_planificar = 1 /\ planificador = Ninguno /\ esperando = Ninguno
        /\ oyente = [pc |-> "leer", avisos |-> {}] /\ compactando = FALSE
        /\ hilo_cpu \in [Cpus -> HiloConPid]
    BY <1>1, <1>4 DEF PedidosInit
  <2>3. compactando \in BOOLEAN
    BY <2>2, Zenon
  <2>4. sem_puede_planificar \in 0 .. 1
    BY <2>2
  <2>5. /\ planificador \in [pid : Pids, cpu : Libres] \cup {Ninguno}
        /\ esperando \in [pid : Pids, cpu : Cpus] \cup {Ninguno}
        /\ oyente \in [pc : {"leer", "ejecutar", "interrumpir"},
                       avisos : SUBSET (Libres \X Pids)]
    BY <2>1, <2>2, Zenon
  <2>6. QED
    BY <2>2, <2>3, <2>4, <2>5, Zenon DEF HilosInv
<1>6. MemoriaInv /\ FinInv
  <2>1. /\ km = "libre" /\ mutex_perdido = FALSE /\ con_segmentos = {} /\ stick_vivo = TRUE
        /\ notificaciones = <<>>
    BY <1>1 DEF PedidosInit
  <2>2. mutex_perdido \in BOOLEAN /\ stick_vivo \in BOOLEAN
    BY <2>1, Zenon
  <2>3. notificaciones \in Seq(Avisos) /\ con_segmentos \in SUBSET Pids
        /\ km \in {"libre", "confirmacion"}
    BY <2>1
  <2>4. MemoriaInv
    BY <2>2, <2>3, Zenon DEF MemoriaInv
  <2>5. bsod_activo = FALSE /\ ks_terminado = FALSE /\ ks_caido = FALSE
        /\ cpus_pendientes_bsod = 0
    BY <1>1 DEF PedidosInit
  <2>6. bsod_activo \in BOOLEAN /\ ks_terminado \in BOOLEAN /\ ks_caido \in BOOLEAN
    BY <2>5, Zenon
  <2>7. cpus_pendientes_bsod \in Int
    BY <2>5
  <2>8. QED
    BY <2>4, <2>6, <2>7, Zenon DEF FinInv
<1>7. TurnoInv
  BY <1>1, <1>4 DEF PedidosInit, TurnoInv, Parada, SinFin, UnFin
<1>8. QED
  BY <1>2, <1>3, <1>5, <1>6, <1>7 DEF PlanInv, TipoInv

\* Every state of the specification satisfies it.
LEMMA PlanSiempre == Spec => []PlanInv
<1>1. PlanInv /\ [Next]_vars => PlanInv'
  BY PlanPaso
<1>2. Init => PlanInv
  BY PlanInicial
<1>3. QED
  BY <1>1, <1>2, PTL DEF Spec

\* The right to plan is with nobody, with the planner or with one compaction
\* (UnSoloPlanificador), however the requests of memory, their answers and the
\* notifications of the Kernel Memory come: sem_puede_planificar is neither posted
\* twice nor lost.
THEOREM UnoSoloPlanifica == Spec => []UnSoloPlanificador
<1>1. PlanInv => UnSoloPlanificador
  BY DEF PlanInv, TurnoInv, UnSoloPlanificador, Vivo
<1>2. QED
  BY <1>1, PlanSiempre, PTL

-----------------------------------------------------------------------------
(* The messages that wait for a CPU: an order, an answer before it, and     *)
(* interrupts.                                                              *)

Respuesta(m) == m.op \in {"OK", "ERROR", "BLOQUEADO"}

SinOrdenes(s) == \A i \in DOMAIN s : ~ Orden(s[i])

SinRespuestas(s) == \A i \in DOMAIN s : ~ Respuesta(s[i])

SinBloqueado(s) == \A i \in DOMAIN s : s[i].op # "BLOQUEADO"

OrdenesEn(s, S) == \A i \in DOMAIN s : Orden(s[i]) => s[i].pid \in S

Forma(s) ==
  \A i, j \in DOMAIN s :
    /\ Orden(s[i]) /\ Orden(s[j]) => i = j
    /\ Respuesta(s[i]) /\ Respuesta(s[j]) => i = j
    /\ Respuesta(s[i]) /\ Orden(s[j]) => i < j

\* A process that is blocked has been answered.
LEMMA BloqueadoEsRespuesta ==
  ASSUME NEW s, SinRespuestas(s)
  PROVE  SinBloqueado(s)
BY DEF SinRespuestas, SinBloqueado, Respuesta

\* The first message is read.
LEMMA Leido ==
  ASSUME NEW a \in Seq(Mensaje), a # <<>>
  PROVE  LET m == Head(a)
             t == Tail(a) IN
         /\ t \in Seq(Mensaje) /\ m \in Mensaje /\ m.op \in OpsKs
         /\ SinOrdenes(a) <=> ~ Orden(m) /\ SinOrdenes(t)
         /\ SinRespuestas(a) <=> ~ Respuesta(m) /\ SinRespuestas(t)
         /\ SinBloqueado(a) <=> m.op # "BLOQUEADO" /\ SinBloqueado(t)
         /\ \A S : OrdenesEn(a, S) <=> (Orden(m) => m.pid \in S) /\ OrdenesEn(t, S)
         /\ Forma(a) => /\ Forma(t)
                        /\ Orden(m) => SinOrdenes(t) /\ SinRespuestas(t)
                        /\ Respuesta(m) => SinRespuestas(t)
<1> DEFINE m == Head(a)
           t == Tail(a)
<1>1. /\ t \in Seq(Mensaje) /\ m \in Mensaje
      /\ \A i \in DOMAIN t : i + 1 \in DOMAIN a /\ t[i] = a[i + 1] /\ i \in Int /\ i >= 1
      /\ 1 \in DOMAIN a /\ m = a[1]
      /\ \A i \in DOMAIN a : i \in Int /\ (i = 1 \/ (i - 1 \in DOMAIN t /\ t[i - 1] = a[i]))
  <2>1. /\ \A i \in DOMAIN t : i + 1 \in DOMAIN a /\ t[i] = a[i + 1]
        /\ 1 \in DOMAIN a /\ m = a[1] /\ Len(t) = Len(a) - 1 /\ Len(a) \in Nat
        /\ t \in Seq(Mensaje) /\ DOMAIN t = 1 .. Len(a) - 1 /\ DOMAIN a = 1 .. Len(a)
    BY MensajeQuitado
  <2>2. m \in Mensaje
    BY HeadTailProperties
  <2> HIDE DEF m, t
  <2>3. \A i \in DOMAIN a : i # 1 => i - 1 \in DOMAIN t /\ (i - 1) + 1 = i
    BY <2>1
  <2>4. \A i \in DOMAIN a : i # 1 => i - 1 \in DOMAIN t /\ t[i - 1] = a[i]
    BY <2>1, <2>3
  <2>5. QED
    BY <2>1, <2>2, <2>4
<1> HIDE DEF m, t
<1>2. m.op \in OpsKs
  BY <1>1 DEF Mensaje, MensajeKs
<1>3. SinOrdenes(a) <=> ~ Orden(m) /\ SinOrdenes(t)
  BY <1>1 DEF SinOrdenes
<1>4. SinRespuestas(a) <=> ~ Respuesta(m) /\ SinRespuestas(t)
  BY <1>1 DEF SinRespuestas
<1>5. SinBloqueado(a) <=> m.op # "BLOQUEADO" /\ SinBloqueado(t)
  BY <1>1 DEF SinBloqueado
<1>6. \A S : OrdenesEn(a, S) <=> (Orden(m) => m.pid \in S) /\ OrdenesEn(t, S)
  BY <1>1 DEF OrdenesEn
<1>7. ASSUME Forma(a) PROVE Forma(t)
  <2>1. ASSUME NEW i \in DOMAIN t, NEW j \in DOMAIN t
        PROVE  /\ Orden(t[i]) /\ Orden(t[j]) => i = j
               /\ Respuesta(t[i]) /\ Respuesta(t[j]) => i = j
               /\ Respuesta(t[i]) /\ Orden(t[j]) => i < j
    <3>1. /\ Orden(t[i]) /\ Orden(t[j]) => i + 1 = j + 1
          /\ Respuesta(t[i]) /\ Respuesta(t[j]) => i + 1 = j + 1
          /\ Respuesta(t[i]) /\ Orden(t[j]) => i + 1 < j + 1
      BY <1>1, <1>7 DEF Forma
    <3>2. i \in Int /\ j \in Int
      BY <1>1
    <3>3. QED
      BY <3>1, <3>2
  <2>2. QED
    BY <2>1 DEF Forma
<1>8. ASSUME Forma(a), NEW i \in DOMAIN t
      PROVE  /\ Orden(m) => ~ Orden(t[i]) /\ ~ Respuesta(t[i])
             /\ Respuesta(m) => ~ Respuesta(t[i])
  <2>1. i + 1 \in DOMAIN a /\ t[i] = a[i + 1] /\ i + 1 # 1 /\ ~ (i + 1 < 1)
    BY <1>1
  <2>2. QED
    BY <1>1, <1>8, <2>1 DEF Forma
<1>9. Forma(a) => /\ Orden(m) => SinOrdenes(t) /\ SinRespuestas(t)
                  /\ Respuesta(m) => SinRespuestas(t)
  BY <1>8 DEF SinOrdenes, SinRespuestas
<1>10. QED
  BY <1>1, <1>2, <1>3, <1>4, <1>5, <1>6, <1>7, <1>9 DEF m, t

\* A message is sent.
LEMMA Enviado ==
  ASSUME NEW a \in Seq(Mensaje), NEW m
  PROVE  LET b == Append(a, m) IN
         /\ SinOrdenes(b) <=> SinOrdenes(a) /\ ~ Orden(m)
         /\ SinRespuestas(b) <=> SinRespuestas(a) /\ ~ Respuesta(m)
         /\ SinBloqueado(b) <=> SinBloqueado(a) /\ m.op # "BLOQUEADO"
         /\ \A S : OrdenesEn(b, S) <=> OrdenesEn(a, S) /\ (Orden(m) => m.pid \in S)
         /\ /\ Forma(a) /\ (Orden(m) => SinOrdenes(a) /\ ~ Respuesta(m))
            /\ (Respuesta(m) => SinOrdenes(a) /\ SinRespuestas(a))
            => Forma(b)
<1> DEFINE b == Append(a, m)
           n == Len(a) + 1
<1>1. /\ \A i \in DOMAIN a : i \in DOMAIN b /\ b[i] = a[i] /\ i < n
      /\ \A i \in DOMAIN b : (i = n /\ b[i] = m) \/ (i \in DOMAIN a /\ b[i] = a[i])
      /\ n \in DOMAIN b /\ b[n] = m
  <2>1. /\ \A i \in DOMAIN a : i \in DOMAIN b /\ b[i] = a[i]
        /\ \A i \in DOMAIN b : (i = n /\ b[i] = m) \/ (i \in DOMAIN a /\ b[i] = a[i])
        /\ Len(b) = n /\ Len(a) \in Nat /\ DOMAIN a = 1 .. Len(a)
    BY MensajeAgregado
  <2>2. b \in Seq(Mensaje \cup {m}) /\ b[n] = m
    <3>1. a \in Seq(Mensaje \cup {m}) /\ m \in Mensaje \cup {m}
      OBVIOUS
    <3>2. QED
      BY <3>1, AppendProperties
  <2>3. DOMAIN b = 1 .. n
    BY <2>1, <2>2, LenProperties
  <2> HIDE DEF b
  <2>4. QED
    BY <2>1, <2>2, <2>3
<1> HIDE DEF b, n
<1>2. SinOrdenes(b) <=> SinOrdenes(a) /\ ~ Orden(m)
  BY <1>1 DEF SinOrdenes
<1>3. SinRespuestas(b) <=> SinRespuestas(a) /\ ~ Respuesta(m)
  BY <1>1 DEF SinRespuestas
<1>4. SinBloqueado(b) <=> SinBloqueado(a) /\ m.op # "BLOQUEADO"
  BY <1>1 DEF SinBloqueado
<1>5. \A S : OrdenesEn(b, S) <=> OrdenesEn(a, S) /\ (Orden(m) => m.pid \in S)
  BY <1>1 DEF OrdenesEn
<1>6. ASSUME Forma(a), Orden(m) => SinOrdenes(a) /\ ~ Respuesta(m),
             Respuesta(m) => SinOrdenes(a) /\ SinRespuestas(a),
             NEW i \in DOMAIN b, NEW j \in DOMAIN b
      PROVE  /\ Orden(b[i]) /\ Orden(b[j]) => i = j
             /\ Respuesta(b[i]) /\ Respuesta(b[j]) => i = j
             /\ Respuesta(b[i]) /\ Orden(b[j]) => i < j
  <2>1. CASE i \in DOMAIN a /\ j \in DOMAIN a
    BY <1>1, <1>6, <2>1 DEF Forma
  <2>2. CASE i \in DOMAIN a /\ j = n
    BY <1>1, <1>6, <2>2 DEF SinOrdenes, SinRespuestas
  <2>3. CASE i = n /\ j \in DOMAIN a
    BY <1>1, <1>6, <2>3 DEF SinOrdenes, SinRespuestas
  <2>4. CASE i = n /\ j = n
    BY <1>1, <1>6, <2>4
  <2>5. QED
    BY <1>1, <2>1, <2>2, <2>3, <2>4
<1>7. /\ Forma(a) /\ (Orden(m) => SinOrdenes(a) /\ ~ Respuesta(m))
      /\ (Respuesta(m) => SinOrdenes(a) /\ SinRespuestas(a))
      => Forma(b)
  BY <1>6 DEF Forma
<1>8. QED
  BY <1>2, <1>3, <1>4, <1>5, <1>7 DEF b

\* Interrupts are sent: they change nothing of that.
LEMMA Interrumpido ==
  ASSUME NEW a \in Seq(Mensaje), NEW t \in Seq(Mensaje),
         \A i \in DOMAIN t : t[i].op = "INTERRUMPIR_PROCESO"
  PROVE  LET b == a \o t IN
         /\ SinOrdenes(b) <=> SinOrdenes(a)
         /\ SinRespuestas(b) <=> SinRespuestas(a)
         /\ SinBloqueado(b) <=> SinBloqueado(a)
         /\ \A S : OrdenesEn(b, S) <=> OrdenesEn(a, S)
         /\ Forma(a) => Forma(b)
<1> DEFINE b == a \o t
<1>1. /\ \A i \in DOMAIN a : i \in DOMAIN b /\ b[i] = a[i]
      /\ \A i \in DOMAIN b : \/ i \in DOMAIN a /\ b[i] = a[i]
                             \/ b[i].op = "INTERRUMPIR_PROCESO"
  <2>1. Len(a) \in Nat /\ Len(t) \in Nat /\ DOMAIN a = 1 .. Len(a) /\ DOMAIN t = 1 .. Len(t)
    BY LenProperties
  <2>2. /\ b \in Seq(Mensaje) /\ Len(b) = Len(a) + Len(t)
        /\ \A i \in 1 .. Len(a) + Len(t) :
             b[i] = IF i <= Len(a) THEN a[i] ELSE t[i - Len(a)]
    BY ConcatProperties
  <2>3. DOMAIN b = 1 .. Len(a) + Len(t)
    BY <2>2, LenProperties
  <2> HIDE DEF b
  <2>4. ASSUME NEW i \in DOMAIN b, i \notin DOMAIN a PROVE b[i].op = "INTERRUMPIR_PROCESO"
    <3>1. i - Len(a) \in DOMAIN t /\ ~ (i <= Len(a))
      BY <2>1, <2>3, <2>4
    <3>2. b[i] = t[i - Len(a)]
      BY <2>2, <2>3, <3>1
    <3>3. QED
      BY <3>1, <3>2
  <2>5. \A i \in DOMAIN a : i \in DOMAIN b /\ b[i] = a[i]
    BY <2>1, <2>2, <2>3
  <2>6. QED
    BY <2>4, <2>5
<1> HIDE DEF b
<1>2. \A i \in DOMAIN b : i \in DOMAIN a \/ (~ Orden(b[i]) /\ ~ Respuesta(b[i]))
  BY <1>1 DEF Orden, Respuesta
<1>3. (SinOrdenes(b) <=> SinOrdenes(a)) /\ (SinRespuestas(b) <=> SinRespuestas(a))
  BY <1>1, <1>2 DEF SinOrdenes, SinRespuestas
<1>4. SinBloqueado(b) <=> SinBloqueado(a)
  BY <1>1 DEF SinBloqueado
<1>5. \A S : OrdenesEn(b, S) <=> OrdenesEn(a, S)
  BY <1>1, <1>2 DEF OrdenesEn
<1>6. Forma(a) => Forma(b)
  BY <1>1, <1>2 DEF Forma
<1>7. QED
  BY <1>3, <1>4, <1>5, <1>6 DEF b

\* Nothing waits but interrupts.
Vacio(a) == SinOrdenes(a) /\ SinRespuestas(a)

\* The connection of a CPU and the thread that serves it: a what waits for the
\* CPU, d what waits for the thread, e and p the CPU, h the thread.
Canal(a, d, e, p, h) ==
  /\ Forma(a)
  /\ e \in {"espera", "ejecuta", "respuesta"} /\ (e = "espera" <=> p = Nadie)
  /\ d # <<>> => /\ Tail(d) = <<>> /\ h.pc = "recibir" /\ Vacio(a)
                 /\ Head(d).op \in Mem => e = "respuesta"
                 /\ Head(d).op \notin Mem => e = "espera"
  /\ e = "ejecuta" => h.pc = "recibir" /\ d = <<>> /\ Vacio(a)
  /\ ~ SinRespuestas(a) => e = "respuesta"
  /\ ~ SinOrdenes(a) => h.pc = "recibir" /\ (e = "espera" \/ ~ SinBloqueado(a))
  /\ h.pc \in {"atender", "finalizar", "liberar"} => e = "espera"
  /\ h.pc = "syscall" => /\ h.op \in Mem => e = "respuesta" /\ Vacio(a)
                         /\ h.op \notin Mem => e = "espera"
  /\ h.pc \in {"detener", "desalojar", "confirmar"} => e = "espera" \/ ~ SinBloqueado(a)
  /\ h.pc = "sin_respuesta" => SinRespuestas(a)

\* What the CPU runs, and what its messages speak of, is in S.
Lleva(a, d, p, S) ==
  /\ OrdenesEn(a, S)
  /\ p # Nadie /\ SinBloqueado(a) => p \in S
  /\ d # <<>> => Head(d).pid \in S

\* The CPU runs nothing, or will not once it has read its answer.
Detenida(a, d, e) == d = <<>> /\ SinOrdenes(a) /\ (e = "espera" \/ ~ SinBloqueado(a))

\* It runs nothing and will not.
Quieta(a, d, e) == d = <<>> /\ SinOrdenes(a) /\ e = "espera"

\* It runs a process, or will, or has ended it and has not told.
Activa(a, d, p) ==
  \/ ~ SinOrdenes(a)
  \/ p # Nadie /\ SinBloqueado(a)
  \/ d # <<>> /\ Head(d).op \in Finales

\* A process leaves a CPU that has nothing but interrupts to read.
LEMMA SaleCanal ==
  ASSUME NEW a, NEW d, NEW e, NEW p, NEW p0 \in Pids, NEW op \in Finitos \ Mem, NEW h,
         Vacio(a), h.pc = "recibir", Sale(op, <<>>, p0, d, e, p)
  PROVE  Canal(a, d, e, p, h) /\ \A S : p0 \in S => Lleva(a, d, p, S)
<1> DEFINE m == [op |-> op, pid |-> p0, prioridad |-> 0]
<1>1. e = "espera" /\ p = Nadie /\ d = Append(<<>>, m) /\ m.op = op /\ m.pid = p0
  BY DEF Sale
<1> HIDE DEF m
<1>2. d # <<>> /\ Head(d) = m /\ Tail(d) = <<>>
  BY <1>1
<1>3. SinBloqueado(a) /\ Forma(a)
  BY BloqueadoEsRespuesta DEF Vacio, SinOrdenes, SinRespuestas, Forma
<1>4. Canal(a, d, e, p, h)
  BY <1>1, <1>2, <1>3 DEF Canal, Vacio
<1>5. \A S : OrdenesEn(a, S)
  BY DEF OrdenesEn, SinOrdenes, Vacio
<1>6. QED
  BY <1>1, <1>2, <1>4, <1>5 DEF Lleva

\* A process runs on a CPU that has nothing but interrupts to read.
LEMMA EjecutaCanal ==
  ASSUME NEW a, NEW p \in Pids, NEW h, Vacio(a), h.pc = "recibir"
  PROVE  Canal(a, <<>>, "ejecuta", p, h) /\ \A S : p \in S => Lleva(a, <<>>, p, S)
<1>1. SinBloqueado(a) /\ Forma(a)
  BY BloqueadoEsRespuesta DEF Vacio, SinOrdenes, SinRespuestas, Forma
<1>2. p # Nadie
  BY ProcesosOK DEF Nadie
<1>3. Canal(a, <<>>, "ejecuta", p, h)
  BY <1>1, <1>2 DEF Canal, Vacio
<1>4. \A S : OrdenesEn(a, S)
  BY DEF OrdenesEn, SinOrdenes, Vacio
<1>5. QED
  BY <1>3, <1>4 DEF Lleva

\* check_interrupt.
LEMMA RevisaCanal ==
  ASSUME NEW b \in Seq(Mensaje), NEW p0 \in Pids, NEW i, NEW h, Vacio(b), h.pc = "recibir",
         NEW a, NEW d, NEW e, NEW p, NEW j, Revisa(b, <<>>, p0, i, a, d, e, p, j)
  PROVE  Canal(a, d, e, p, h) /\ \A S : p0 \in S => Lleva(a, d, p, S)
<1>1. Vacio(a)
  BY Leido DEF Revisa, Vacio
<1>2. CASE Sale("PROCESO_FIN_QUANTUM", <<>>, p0, d, e, p)
  BY <1>1, <1>2, SaleCanal DEF Finitos, Mem
<1>3. CASE e = "ejecuta" /\ d = <<>> /\ p = p0
  BY <1>1, <1>3, EjecutaCanal
<1>4. QED
  BY <1>2, <1>3 DEF Revisa

\* What a step of a CPU keeps.
LEMMA CanalCpu ==
  ASSUME NEW a \in Seq(Mensaje), NEW d \in Seq(Aviso), NEW e, NEW p \in Pids \cup {Nadie},
         NEW i, NEW v, NEW h \in Hilo,
         NEW a1, NEW d1, NEW e1, NEW p1, NEW i1, NEW v1,
         CpuVa(a, d, e, p, i, v, a1, d1, e1, p1, i1, v1),
         Canal(a, d, e, p, h)
  PROVE  /\ Canal(a1, d1, e1, p1, h)
         /\ \A S : Lleva(a, d, p, S) => Lleva(a1, d1, p1, S)
         /\ Detenida(a, d, e) => Detenida(a1, d1, e1)
         /\ Quieta(a, d, e) => Quieta(a1, d1, e1)
         /\ Activa(a1, d1, p1) => Activa(a, d, p)
<1> DEFINE m == Head(a)
           t == Tail(a)
           Va == /\ Canal(a1, d1, e1, p1, h)
                 /\ \A S : Lleva(a, d, p, S) => Lleva(a1, d1, p1, S)
                 /\ Detenida(a, d, e) => Detenida(a1, d1, e1)
                 /\ Quieta(a, d, e) => Quieta(a1, d1, e1)
                 /\ Activa(a1, d1, p1) => Activa(a, d, p)
<1>1. a # <<>> =>
        /\ t \in Seq(Mensaje) /\ m \in Mensaje /\ m.op \in OpsKs
        /\ SinOrdenes(a) <=> ~ Orden(m) /\ SinOrdenes(t)
        /\ SinRespuestas(a) <=> ~ Respuesta(m) /\ SinRespuestas(t)
        /\ SinBloqueado(a) <=> m.op # "BLOQUEADO" /\ SinBloqueado(t)
        /\ \A S : OrdenesEn(a, S) <=> (Orden(m) => m.pid \in S) /\ OrdenesEn(t, S)
        /\ Forma(a) => /\ Forma(t)
                       /\ Orden(m) => SinOrdenes(t) /\ SinRespuestas(t)
                       /\ Respuesta(m) => SinRespuestas(t)
  BY Leido
<1>2. SinRespuestas(a) => SinBloqueado(a)
  BY BloqueadoEsRespuesta
<1>3. SinRespuestas(t) => SinBloqueado(t)
  BY BloqueadoEsRespuesta
<1>4. m \in Mensaje => /\ Orden(m) => m.pid \in Pids /\ ~ Respuesta(m)
                       /\ Orden(m) <=> m.op = "EJECUTAR_PROCESO"
                       /\ m.op = "BLOQUEADO" => Respuesta(m)
                       /\ Respuesta(m) <=> m.op \in {"OK", "ERROR", "BLOQUEADO"}
  BY DEF Mensaje, Orden, Respuesta
<1>5. p \in Pids <=> p # Nadie
  BY ProcesosOK DEF Nadie
<1> HIDE DEF m, t
<1>6. ASSUME e = "espera", a # <<>>, a1 = t, d1 = d, m.op = "EJECUTAR_PROCESO",
             e1 = "ejecuta", p1 = m.pid
      PROVE  Va
  <2>1. Orden(m) /\ m.pid \in Pids /\ ~ SinOrdenes(a)
    BY <1>1, <1>4, <1>6
  <2>2. Vacio(t) /\ h.pc = "recibir" /\ d = <<>>
    BY <1>1, <1>6, <2>1 DEF Canal, Vacio
  <2>3. Canal(a1, d1, e1, p1, h) /\ \A S : p1 \in S => Lleva(a1, d1, p1, S)
    BY <1>6, <2>1, <2>2, EjecutaCanal
  <2>4. \A S : Lleva(a, d, p, S) => p1 \in S
    BY <1>1, <1>6, <2>1 DEF Lleva
  <2>5. QED
    BY <2>1, <2>3, <2>4 DEF Detenida, Quieta, Activa
<1>7. ASSUME e = "espera", a # <<>>, a1 = t, d1 = d, m.op # "EJECUTAR_PROCESO", e1 = e, p1 = p
      PROVE  Va
  <2>1. ~ Orden(m) /\ SinRespuestas(a) /\ SinRespuestas(t) /\ p = Nadie
    BY <1>1, <1>4, <1>7 DEF Canal
  <2>2. /\ SinOrdenes(t) <=> SinOrdenes(a)
        /\ SinBloqueado(a) /\ SinBloqueado(t) /\ Forma(t)
        /\ \A S : OrdenesEn(a, S) => OrdenesEn(t, S)
    <3>1. Forma(a)
      BY DEF Canal
    <3>2. QED
      BY <1>1, <1>2, <1>3, <1>7, <2>1, <3>1
  <2>3. Canal(a1, d1, e1, p1, h)
    BY <1>7, <2>1, <2>2 DEF Canal, Vacio
  <2>4. QED
    BY <1>7, <2>1, <2>2, <2>3 DEF Lleva, Detenida, Quieta, Activa
<1>8. ASSUME e = "ejecuta"
      PROVE  /\ Vacio(a) /\ h.pc = "recibir" /\ d = <<>> /\ p \in Pids
             /\ \A S : Lleva(a, d, p, S) => p \in S
             /\ ~ Detenida(a, d, e) /\ ~ Quieta(a, d, e) /\ Activa(a, d, p)
  BY <1>2, <1>5, <1>8 DEF Canal, Vacio, Lleva, Detenida, Quieta, Activa
<1>9. ASSUME e = "ejecuta", a1 = a, NEW op \in Mem,
             d1 = Append(d, [op |-> op, pid |-> p, prioridad |-> 0]), e1 = "respuesta", p1 = p
      PROVE  Va
  <2> DEFINE x == [op |-> op, pid |-> p, prioridad |-> 0]
  <2>1. x.op \in Mem /\ x.pid = p /\ d1 = Append(<<>>, x)
    BY <1>8, <1>9
  <2> HIDE DEF x
  <2>2. d1 # <<>> /\ Head(d1) = x /\ Tail(d1) = <<>>
    BY <2>1
  <2>3. Forma(a) /\ p # Nadie
    BY <1>5, <1>8, <1>9 DEF Canal
  <2>4. Canal(a1, d1, e1, p1, h)
    BY <1>8, <1>9, <2>1, <2>2, <2>3 DEF Canal, Vacio
  <2>5. \A S : Lleva(a, d, p, S) => Lleva(a1, d1, p1, S)
    BY <1>8, <1>9, <2>1, <2>2 DEF Lleva
  <2>6. QED
    BY <1>8, <1>9, <2>4, <2>5
<1>10. ASSUME e = "ejecuta", a1 = a, NEW op \in {"PROCESO_EXIT", "PROCESO_SEG_FAULT", "IO_SLEEP"},
              Sale(op, d, p, d1, e1, p1)
       PROVE  Va
  <2>1. Canal(a1, d1, e1, p1, h) /\ \A S : p \in S => Lleva(a1, d1, p1, S)
    BY <1>8, <1>10, SaleCanal DEF Finitos, Mem
  <2>2. QED
    BY <1>8, <1>10, <2>1
<1>11. ASSUME e = "ejecuta", Revisa(a, d, p, i, a1, d1, e1, p1, i1) PROVE Va
  <2>1. Canal(a1, d1, e1, p1, h) /\ \A S : p \in S => Lleva(a1, d1, p1, S)
    BY <1>8, <1>11, RevisaCanal
  <2>2. QED
    BY <1>8, <1>11, <2>1
<1>12. ASSUME e = "respuesta", a # <<>>, m.op \notin {"INTERRUMPIR_PROCESO", "BLOQUEADO"}
       PROVE  /\ m.op \in {"OK", "ERROR"}
              /\ Vacio(t) /\ h.pc = "recibir" /\ d = <<>> /\ p \in Pids
              /\ \A S : Lleva(a, d, p, S) => p \in S
              /\ ~ Detenida(a, d, e) /\ ~ Quieta(a, d, e) /\ Activa(a, d, p)
  <2>1. Respuesta(m)
    <3>1. CASE Orden(m)
      <4>1. SinBloqueado(t) /\ m.op # "BLOQUEADO"
        BY <1>1, <1>3, <1>12, <3>1 DEF Canal
      <4>2. SinBloqueado(a) /\ ~ SinOrdenes(a)
        BY <1>1, <1>12, <3>1, <4>1
      <4>3. QED
        BY <1>12, <4>2 DEF Canal
    <3>2. CASE ~ Orden(m)
      BY <1>1, <1>4, <1>12, <3>2 DEF OpsKs
    <3>3. QED
      BY <3>1, <3>2
  <2>2. SinRespuestas(t) /\ ~ SinRespuestas(a) /\ p # Nadie
    BY <1>1, <1>12, <2>1 DEF Canal
  <2>3. SinBloqueado(a)
    BY <1>1, <1>3, <1>12, <2>2
  <2>4. SinOrdenes(a) /\ SinOrdenes(t)
    BY <1>1, <1>12, <2>3 DEF Canal
  <2>5. h.pc = "recibir"
    <3>1. h.pc \notin {"atender", "finalizar", "liberar", "syscall", "detener", "desalojar",
                       "confirmar", "sin_respuesta"}
      BY <1>12, <2>2, <2>3 DEF Canal, Vacio
    <3>2. QED
      BY <3>1 DEF Hilo
  <2>6. d = <<>>
    BY <2>2 DEF Canal, Vacio
  <2>7. QED
    BY <1>4, <1>5, <1>12, <1>1, <2>1, <2>2, <2>3, <2>4, <2>5, <2>6
       DEF Vacio, Lleva, Detenida, Quieta, Activa
<1>13. ASSUME e = "respuesta", a # <<>>, m.op = "OK", Revisa(t, d, p, i, a1, d1, e1, p1, i1)
       PROVE  Va
  <2>1. Canal(a1, d1, e1, p1, h) /\ \A S : p \in S => Lleva(a1, d1, p1, S)
    BY <1>1, <1>12, <1>13, RevisaCanal
  <2>2. QED
    BY <1>12, <1>13, <2>1
<1>14. ASSUME e = "respuesta", a # <<>>, a1 = t,
              m.op \notin {"INTERRUMPIR_PROCESO", "OK", "BLOQUEADO"},
              Sale("PROCESO_EXIT", d, p, d1, e1, p1)
       PROVE  Va
  <2>1. Canal(a1, d1, e1, p1, h) /\ \A S : p \in S => Lleva(a1, d1, p1, S)
    BY <1>1, <1>12, <1>14, SaleCanal DEF Finitos, Mem
  <2>2. QED
    BY <1>12, <1>14, <2>1
<1>15. ASSUME e = "respuesta", a # <<>>, a1 = t, m.op = "INTERRUMPIR_PROCESO",
              d1 = d, e1 = e, p1 = p
       PROVE  Va
  <2>1. ~ Orden(m) /\ ~ Respuesta(m)
    BY <1>1, <1>4, <1>15
  <2>2. /\ SinOrdenes(t) <=> SinOrdenes(a)
        /\ SinRespuestas(t) <=> SinRespuestas(a)
        /\ SinBloqueado(t) <=> SinBloqueado(a)
        /\ Forma(t) /\ \A S : OrdenesEn(t, S) <=> OrdenesEn(a, S)
    BY <1>1, <1>15, <2>1 DEF Canal
  <2>3. Canal(a1, d1, e1, p1, h)
    BY <1>15, <2>2 DEF Canal, Vacio
  <2>4. QED
    BY <1>15, <2>2, <2>3 DEF Lleva, Detenida, Quieta, Activa
<1>16. ASSUME e = "respuesta", a # <<>>, a1 = t, m.op = "BLOQUEADO", e1 = "espera",
              p1 = Nadie, d1 = d
       PROVE  Va
  <2>1. Respuesta(m) /\ ~ Orden(m)
    BY <1>1, <1>4, <1>16
  <2>2. /\ ~ SinRespuestas(a) /\ SinRespuestas(t) /\ Forma(t) /\ ~ SinBloqueado(a)
        /\ SinOrdenes(t) <=> SinOrdenes(a)
        /\ \A S : OrdenesEn(a, S) => OrdenesEn(t, S)
    BY <1>1, <1>16, <2>1 DEF Canal
  <2>3. d = <<>>
    BY <2>2 DEF Canal, Vacio
  <2>4. h.pc = "syscall" => FALSE
    BY <1>16, <2>2 DEF Canal, Vacio
  <2>5. Canal(a1, d1, e1, p1, h)
    BY <1>16, <2>2, <2>3, <2>4 DEF Canal, Vacio
  <2>6. QED
    BY <1>16, <2>2, <2>3, <2>5 DEF Lleva, Detenida, Quieta, Activa
<1> HIDE DEF Va
<1>17. Va
  BY <1>6, <1>7, <1>9, <1>10, <1>11, <1>13, <1>14, <1>15, <1>16 DEF CpuVa, m, t
<1>18. QED
  BY <1>17 DEF Va

-----------------------------------------------------------------------------
(* The lists: each process in the list of its state, each CPU free once.    *)

\* The processes that the scheduler has in EXEC on a CPU.
AquiEn(k, c) == {p \in k.exec : k.cpu[p] = c}

\* What the lists say of each process; w waits for a compaction.
KsBien(k, w) ==
  /\ \A p \in Pids : (p \in k.exec <=> k.estado[p] = "EXEC")
                     /\ (p \in k.block <=> k.estado[p] = "BLOCK")
  /\ \A p \in k.exec : k.cpu[p] \in Cpus
  /\ \A p, r \in k.exec : k.cpu[p] = k.cpu[r] => p = r
  /\ \A q \in Colas :
       /\ Distintos(k.colas_ready[q])
       /\ \A p \in Pids : Tiene(k.colas_ready[q], p) =>
            k.estado[p] = "READY" /\ k.prioridad[p] = q
  /\ Distintos(k.cola_io["SLEEP"])
  /\ \A p \in Pids : Tiene(k.cola_io["SLEEP"], p) => k.estado[p] = "BLOCK" /\ p # w
  /\ Distintos(k.cpus_libres)
  /\ w # Nadie => k.estado[w] = "BLOCK"

\* A process goes to state e, to CPU c if that is EXEC.
Pasa(k, k1, p, e, c, w, w1) ==
  /\ k1.estado = [k.estado EXCEPT ![p] = e]
  /\ k1.prioridad = k.prioridad
  /\ k1.exec = IF e = "EXEC" THEN k.exec \cup {p} ELSE k.exec \ {p}
  /\ k1.block = IF e = "BLOCK" THEN k.block \cup {p} ELSE k.block \ {p}
  /\ \A r \in Pids : r # p => k1.cpu[r] = k.cpu[r]
  /\ e = "EXEC" => k1.cpu[p] = c /\ c \in Cpus /\ AquiEn(k, c) = {}
  /\ \A q \in Colas :
       /\ Distintos(k1.colas_ready[q])
       /\ \A r \in Pids : Tiene(k1.colas_ready[q], r) =>
            \/ r # p /\ Tiene(k.colas_ready[q], r)
            \/ r = p /\ e = "READY" /\ q = k.prioridad[p]
  /\ Distintos(k1.cola_io["SLEEP"])
  /\ \A r \in Pids : Tiene(k1.cola_io["SLEEP"], r) =>
       \/ r # p /\ Tiene(k.cola_io["SLEEP"], r)
       \/ r = p /\ e = "BLOCK" /\ w1 # p
  /\ Distintos(k1.cpus_libres)
  /\ w1 = Nadie \/ (w1 = w /\ w # p) \/ (w1 = p /\ e = "BLOCK")

\* Where the processes are after it.
AquiPasa(k, k1, p, e, c) ==
  /\ \A d \in Cpus : e # "EXEC" \/ d # c => AquiEn(k1, d) = AquiEn(k, d) \ {p}
  /\ e = "EXEC" => AquiEn(k1, c) = {p}

\* A process in another state and another list leaves all of them right.
LEMMA ProcesoPasa ==
  ASSUME NEW k \in TipoKs(Cpus), NEW k1 \in TipoKs(Cpus), NEW w \in Pids \cup {Nadie},
         NEW w1, NEW p \in Pids, NEW e, NEW c, KsBien(k, w), Pasa(k, k1, p, e, c, w, w1)
  PROVE  /\ KsBien(k1, w1)
         /\ AquiPasa(k, k1, p, e, c)
<1>1. /\ k.estado \in [Pids -> EstadosProceso] /\ k.exec \in SUBSET Pids /\ k.block \in SUBSET Pids
      /\ k1.exec \in SUBSET Pids
  BY DEF TipoKs
<1>2. k1.estado[p] = e /\ \A r \in Pids : r # p => k1.estado[r] = k.estado[r]
  BY <1>1 DEF Pasa
<1>3. \A r \in Pids : (r \in k1.exec <=> k1.estado[r] = "EXEC")
                      /\ (r \in k1.block <=> k1.estado[r] = "BLOCK")
  BY <1>1, <1>2 DEF Pasa, KsBien
<1>4. \A r \in k1.exec : \/ r # p /\ r \in k.exec /\ k1.cpu[r] = k.cpu[r]
                         \/ r = p /\ e = "EXEC" /\ k1.cpu[r] = c
  BY <1>1 DEF Pasa
<1>5. \A r \in k1.exec : k1.cpu[r] \in Cpus
  BY <1>4 DEF Pasa, KsBien
<1>6. \A r, s \in k1.exec : k1.cpu[r] = k1.cpu[s] => r = s
  BY <1>4 DEF Pasa, KsBien, AquiEn
<1>7. \A q \in Colas :
        /\ Distintos(k1.colas_ready[q])
        /\ \A r \in Pids : Tiene(k1.colas_ready[q], r) =>
             k1.estado[r] = "READY" /\ k1.prioridad[r] = q
  BY <1>2 DEF Pasa, KsBien
<1>8. \A r \in Pids : Tiene(k1.cola_io["SLEEP"], r) => k1.estado[r] = "BLOCK" /\ r # w1
  <2>1. Nadie \notin Pids
    BY ProcesosOK DEF Nadie
  <2>2. ASSUME NEW r \in Pids, Tiene(k1.cola_io["SLEEP"], r)
        PROVE  k1.estado[r] = "BLOCK" /\ r # w1
    <3>1. CASE r # p /\ Tiene(k.cola_io["SLEEP"], r)
      <4>1. k.estado[r] = "BLOCK" /\ r # w
        BY <3>1 DEF KsBien
      <4>2. w1 = Nadie \/ w1 = w \/ w1 = p
        BY DEF Pasa
      <4>3. QED
        BY <1>2, <2>1, <3>1, <4>1, <4>2
    <3>2. CASE r = p /\ e = "BLOCK" /\ w1 # p
      BY <1>2, <3>2
    <3>3. QED
      BY <2>2, <3>1, <3>2 DEF Pasa
  <2>3. QED
    BY <2>2
<1>9. w1 # Nadie => k1.estado[w1] = "BLOCK"
  BY <1>2 DEF Pasa, KsBien
<1>10. Distintos(k1.cola_io["SLEEP"]) /\ Distintos(k1.cpus_libres)
  BY DEF Pasa
<1>11. KsBien(k1, w1)
  BY <1>3, <1>5, <1>6, <1>7, <1>8, <1>9, <1>10 DEF KsBien
<1>12. ASSUME NEW d \in Cpus, e # "EXEC" \/ d # c PROVE AquiEn(k1, d) = AquiEn(k, d) \ {p}
  <2>1. \A r : r \in AquiEn(k1, d) <=> r \in AquiEn(k, d) \ {p}
    BY <1>1, <1>4, <1>12 DEF AquiEn, Pasa
  <2>2. QED
    BY <2>1
<1>13. ASSUME e = "EXEC" PROVE AquiEn(k1, c) = {p}
  <2>1. \A r : r \in AquiEn(k1, c) <=> r = p
    BY <1>4, <1>13 DEF AquiEn, Pasa
  <2>2. QED
    BY <2>1
<1>14. QED
  BY <1>11, <1>12, <1>13 DEF AquiPasa

\* A CPU has one process, a process one CPU.
LEMMA AquiUno ==
  ASSUME NEW k, NEW w, KsBien(k, w), NEW c, NEW p \in AquiEn(k, c)
  PROVE  /\ p \in k.exec /\ k.cpu[p] = c /\ AquiEn(k, c) = {p}
         /\ \A d : d # c => AquiEn(k, d) \ {p} = AquiEn(k, d)
<1>1. p \in k.exec /\ k.cpu[p] = c
  BY DEF AquiEn
<1>2. \A r : r \in AquiEn(k, c) => r = p
  BY <1>1 DEF AquiEn, KsBien
<1>3. ASSUME NEW d, d # c PROVE p \notin AquiEn(k, d)
  BY <1>1, <1>3 DEF AquiEn
<1>4. QED
  BY <1>1, <1>2, <1>3

\* The lists are as they were.
LEMMA ListasIguales ==
  ASSUME NEW k \in TipoKs(Cpus), NEW w, KsBien(k, w), NEW p \in Pids,
         k.estado[p] \notin {"READY", "BLOCK"}
  PROVE  /\ \A q \in Colas : /\ Distintos(k.colas_ready[q])
                             /\ \A r \in Pids : Tiene(k.colas_ready[q], r) => r # p
         /\ Distintos(k.cola_io["SLEEP"]) /\ Distintos(k.cpus_libres)
         /\ \A r \in Pids : Tiene(k.cola_io["SLEEP"], r) => r # p
BY DEF KsBien

\* From k to k1 process p goes to state e; of the CPUs only c is concerned, which
\* then has S.
Mueve(k, k1, w, p, e, c, S) ==
  /\ k1 \in TipoKs(Cpus) /\ KsBien(k1, w)
  /\ k1.estado = [k.estado EXCEPT ![p] = e]
  /\ AquiEn(k1, c) = S
  /\ \A d \in Cpus : d # c => AquiEn(k1, d) = AquiEn(k, d)

\* CPU c is one more that is free.
ConCpu(k, k1, c) == \A d : Tiene(k1.cpus_libres, d) <=> Tiene(k.cpus_libres, d) \/ d = c

\* manejar_fin_quantum: the process is READY again, its CPU is free.
LEMMA FinQuantumKs ==
  ASSUME NEW k \in TipoKs(Cpus), NEW w \in Pids \cup {Nadie}, KsBien(k, w),
         NEW c \in Cpus, NEW p \in AquiEn(k, c), ~ Tiene(k.cpus_libres, c), NEW k0, NEW k1,
         k0 \in {Encolar(SacarDeExec(k, p, "READY"), p),
                 EncolarAlFrente(SacarDeExec(k, p, "READY"), p)},
         k1 = LiberarCpu(k0, c)
  PROVE  /\ Mueve(k, k1, w, p, "READY", c, {})
         /\ ConCpu(k, k1, c)
<1> DEFINE q == k.prioridad[p]
           k2 == SacarDeExec(k, p, "READY")
<1>1. p \in Pids /\ q \in Colas /\ k.colas_ready \in [Colas -> Seq(Pids)]
      /\ k.cpus_libres \in Seq(Cpus) /\ k.exec \in SUBSET Pids /\ k.cpu \in [Pids -> Cpus \cup {Nulo}]
      /\ k.block \in SUBSET Pids
  BY DEF TipoKs, AquiEn
<1>2. /\ AquiEn(k, c) = {p} /\ \A d : d # c => AquiEn(k, d) \ {p} = AquiEn(k, d)
      /\ k.estado[p] = "EXEC" /\ p \notin k.block
  <2>1. p \in k.exec /\ AquiEn(k, c) = {p} /\ \A d : d # c => AquiEn(k, d) \ {p} = AquiEn(k, d)
    BY AquiUno
  <2>2. QED
    BY <1>1, <2>1 DEF KsBien
<1>3. k1 \in TipoKs(Cpus) /\ k0 \in TipoKs(Cpus) /\ k2 \in TipoKs(Cpus)
  <2>1. k2 \in TipoKs(Cpus)
    BY <1>1, SacarTipo DEF EstadosProceso
  <2> HIDE DEF k2
  <2>2. k0 \in TipoKs(Cpus)
    BY <1>1, <2>1, EncolarTipo, AlFrenteTipo DEF k2
  <2>3. QED
    BY <1>1, <2>1, <2>2, SacarTipo
<1>4. /\ k2.exec = k.exec \ {p} /\ k2.estado = [k.estado EXCEPT ![p] = "READY"]
      /\ k2.cpu = [k.cpu EXCEPT ![p] = Nulo] /\ k2.block = k.block
      /\ k2.prioridad = k.prioridad /\ k2.cola_io = k.cola_io /\ k2.cpus_libres = k.cpus_libres
      /\ k2.colas_ready = k.colas_ready
  BY DEF SacarDeExec, TipoKs
<1> HIDE DEF k2
<1>5. /\ k0.exec = k2.exec /\ k0.estado = k2.estado /\ k0.cpu = k2.cpu /\ k0.block = k2.block
      /\ k0.prioridad = k2.prioridad /\ k0.cola_io = k2.cola_io
      /\ k0.cpus_libres = k2.cpus_libres
      /\ \/ k0.colas_ready = [k2.colas_ready EXCEPT ![k2.prioridad[p]] = Append(@, p)]
         \/ k0.colas_ready = [k2.colas_ready EXCEPT ![k2.prioridad[p]] = <<p>> \o @]
  <2> DEFINE Resto == /\ k0.exec = k2.exec /\ k0.estado = k2.estado /\ k0.cpu = k2.cpu
                      /\ k0.block = k2.block /\ k0.prioridad = k2.prioridad
                      /\ k0.cola_io = k2.cola_io /\ k0.cpus_libres = k2.cpus_libres
  <2>1. CASE k0 = Encolar(k2, p)
    <3>1. k0.colas_ready = [k2.colas_ready EXCEPT ![k2.prioridad[p]] = Append(@, p)]
      BY <1>3, <2>1 DEF Encolar, TipoKs
    <3>2. Resto
      BY <1>3, <2>1 DEF Encolar, TipoKs
    <3>3. QED
      BY <3>1, <3>2
  <2>2. CASE k0 = EncolarAlFrente(k2, p)
    <3>1. k0.colas_ready = [k2.colas_ready EXCEPT ![k2.prioridad[p]] = <<p>> \o @]
      BY <1>3, <2>2 DEF EncolarAlFrente, TipoKs
    <3>2. Resto
      BY <1>3, <2>2 DEF EncolarAlFrente, TipoKs
    <3>3. QED
      BY <3>1, <3>2
  <2>3. QED
    BY <2>1, <2>2 DEF k2
<1>6. /\ k1.exec = k0.exec /\ k1.estado = k0.estado /\ k1.cpu = k0.cpu /\ k1.block = k0.block
      /\ k1.prioridad = k0.prioridad /\ k1.cola_io = k0.cola_io
      /\ k1.colas_ready = k0.colas_ready /\ k1.cpus_libres = Append(k0.cpus_libres, c)
  BY <1>3 DEF LiberarCpu, TipoKs
<1>7. /\ \A r \in Colas : r # q => k1.colas_ready[r] = k.colas_ready[r]
      /\ \/ k1.colas_ready[q] = Append(k.colas_ready[q], p)
         \/ k1.colas_ready[q] = <<p>> \o k.colas_ready[q]
  <2>1. \/ k1.colas_ready = [k.colas_ready EXCEPT ![q] = Append(@, p)]
        \/ k1.colas_ready = [k.colas_ready EXCEPT ![q] = <<p>> \o @]
    BY <1>4, <1>5, <1>6
  <2> HIDE DEF q
  <2>2. CASE k1.colas_ready = [k.colas_ready EXCEPT ![q] = Append(@, p)]
    BY <1>1, <2>2
  <2>3. CASE k1.colas_ready = [k.colas_ready EXCEPT ![q] = <<p>> \o @]
    BY <1>1, <2>3
  <2>4. QED
    BY <2>1, <2>2, <2>3
<1>8. \A r \in Colas : /\ Distintos(k.colas_ready[r])
                       /\ \A s \in Pids : Tiene(k.colas_ready[r], s) => s # p
  BY <1>1, <1>2, ListasIguales
<1>9. /\ Distintos(k1.colas_ready[q])
      /\ \A s : Tiene(k1.colas_ready[q], s) <=> Tiene(k.colas_ready[q], s) \/ s = p
  <2>1. k.colas_ready[q] \in Seq(Pids) /\ ~ Tiene(k.colas_ready[q], p)
        /\ Distintos(k.colas_ready[q])
    BY <1>1, <1>8
  <2> HIDE DEF q
  <2>2. CASE k1.colas_ready[q] = Append(k.colas_ready[q], p)
    BY <2>1, <2>2, TieneAgregado
  <2>3. CASE k1.colas_ready[q] = <<p>> \o k.colas_ready[q]
    BY <1>1, <2>1, <2>3, TieneAlFrente
  <2>4. QED
    BY <1>7, <2>2, <2>3
<1>10. /\ Distintos(k1.cpus_libres)
       /\ \A d : Tiene(k1.cpus_libres, d) <=> Tiene(k.cpus_libres, d) \/ d = c
  <2>1. k1.cpus_libres = Append(k.cpus_libres, c) /\ Distintos(k.cpus_libres)
    BY <1>4, <1>5, <1>6 DEF KsBien
  <2>2. QED
    BY <1>1, <2>1, TieneAgregado
<1>11. w # p
  <2>1. w # Nadie => k.estado[w] = "BLOCK"
    BY DEF KsBien
  <2>2. p # Nadie
    BY <1>1, ProcesosOK DEF Nadie
  <2>3. QED
    BY <1>2, <2>1, <2>2
<1>12. Pasa(k, k1, p, "READY", c, w, w)
  <2>1. \A r \in Colas : /\ Distintos(k1.colas_ready[r])
                         /\ \A s \in Pids : Tiene(k1.colas_ready[r], s) =>
                              \/ s # p /\ Tiene(k.colas_ready[r], s)
                              \/ s = p /\ r = k.prioridad[p]
    BY <1>7, <1>8, <1>9
  <2>2. /\ k1.estado = [k.estado EXCEPT ![p] = "READY"] /\ k1.prioridad = k.prioridad
        /\ k1.exec = k.exec \ {p} /\ k1.block = k.block /\ k1.cola_io = k.cola_io
        /\ \A r \in Pids : r # p => k1.cpu[r] = k.cpu[r]
    BY <1>1, <1>4, <1>5, <1>6
  <2>3. Distintos(k1.cola_io["SLEEP"]) /\ \A r \in Pids : Tiene(k.cola_io["SLEEP"], r) => r # p
    BY <1>1, <1>2, <2>2, ListasIguales
  <2>4. k.block \ {p} = k.block
    BY <1>2
  <2>5. QED
    BY <1>10, <1>11, <2>1, <2>2, <2>3, <2>4 DEF Pasa
<1>13. /\ KsBien(k1, w)
       /\ \A d \in Cpus : AquiEn(k1, d) = AquiEn(k, d) \ {p}
  <2>1. KsBien(k1, w) /\ AquiPasa(k, k1, p, "READY", c)
    BY <1>1, <1>3, <1>12, ProcesoPasa
  <2>2. QED
    BY <2>1 DEF AquiPasa
<1>14. QED
  BY <1>2, <1>3, <1>4, <1>5, <1>6, <1>10, <1>13 DEF Mueve, ConCpu

\* What is known of a process in EXEC.
LEMMA EnExec ==
  ASSUME NEW k \in TipoKs(Cpus), NEW w \in Pids \cup {Nadie}, KsBien(k, w),
         NEW c, NEW p \in AquiEn(k, c)
  PROVE  /\ p \in Pids /\ p \in k.exec /\ k.cpu[p] = c /\ k.estado[p] = "EXEC"
         /\ p \notin k.block /\ w # p
         /\ AquiEn(k, c) = {p} /\ \A d : d # c => AquiEn(k, d) \ {p} = AquiEn(k, d)
         /\ \A q \in Colas : /\ Distintos(k.colas_ready[q])
                             /\ \A r \in Pids : Tiene(k.colas_ready[q], r) => r # p
         /\ Distintos(k.cola_io["SLEEP"]) /\ Distintos(k.cpus_libres)
         /\ \A r \in Pids : Tiene(k.cola_io["SLEEP"], r) => r # p
<1>1. /\ p \in k.exec /\ k.cpu[p] = c
      /\ AquiEn(k, c) = {p} /\ \A d : d # c => AquiEn(k, d) \ {p} = AquiEn(k, d)
  BY AquiUno
<1>2. p \in Pids /\ k.estado[p] = "EXEC" /\ p \notin k.block
  BY <1>1 DEF TipoKs, KsBien
<1>3. w # p
  <2>1. w # Nadie => k.estado[w] = "BLOCK"
    BY DEF KsBien
  <2>2. p # Nadie
    BY <1>2, ProcesosOK DEF Nadie
  <2>3. QED
    BY <1>2, <2>1, <2>2
<1>4. QED
  BY <1>1, <1>2, <1>3, ListasIguales

\* manejar_proceso_exit: the process ends.
LEMMA ExitKs ==
  ASSUME NEW k \in TipoKs(Cpus), NEW w \in Pids \cup {Nadie}, KsBien(k, w),
         NEW c \in Cpus, NEW p \in AquiEn(k, c), NEW k1,
         k1 = CancelarTimer(SacarDeExec(k, p, "EXIT"), p)
  PROVE  /\ Mueve(k, k1, w, p, "EXIT", c, {})
         /\ k1.cpus_libres = k.cpus_libres
<1> DEFINE k0 == SacarDeExec(k, p, "EXIT")
<1>1. /\ p \in Pids /\ p \notin k.block /\ w # p
      /\ AquiEn(k, c) = {p} /\ \A d : d # c => AquiEn(k, d) \ {p} = AquiEn(k, d)
      /\ \A q \in Colas : /\ Distintos(k.colas_ready[q])
                          /\ \A r \in Pids : Tiene(k.colas_ready[q], r) => r # p
      /\ Distintos(k.cola_io["SLEEP"]) /\ Distintos(k.cpus_libres)
      /\ \A r \in Pids : Tiene(k.cola_io["SLEEP"], r) => r # p
  BY EnExec
<1>2. k0 \in TipoKs(Cpus)
  BY <1>1, SacarTipo DEF EstadosProceso
<1>3. /\ k0.exec = k.exec \ {p} /\ k0.estado = [k.estado EXCEPT ![p] = "EXIT"]
      /\ k0.cpu = [k.cpu EXCEPT ![p] = Nulo] /\ k0.block = k.block
      /\ k0.prioridad = k.prioridad /\ k0.cola_io = k.cola_io /\ k0.cpus_libres = k.cpus_libres
      /\ k0.colas_ready = k.colas_ready
  BY DEF SacarDeExec, TipoKs
<1> HIDE DEF k0
<1>4. k1 \in TipoKs(Cpus)
  BY <1>1, <1>2, SacarTipo DEF k0
<1>5. /\ k1.exec = k0.exec /\ k1.estado = k0.estado /\ k1.cpu = k0.cpu /\ k1.block = k0.block
      /\ k1.prioridad = k0.prioridad /\ k1.cola_io = k0.cola_io
      /\ k1.colas_ready = k0.colas_ready /\ k1.cpus_libres = k0.cpus_libres
  BY <1>2 DEF CancelarTimer, TipoKs, k0
<1>6. /\ k1.estado = [k.estado EXCEPT ![p] = "EXIT"] /\ k1.prioridad = k.prioridad
      /\ k1.exec = k.exec \ {p} /\ k1.block = k.block /\ k1.cola_io = k.cola_io
      /\ k1.colas_ready = k.colas_ready /\ k1.cpus_libres = k.cpus_libres
      /\ \A r \in Pids : r # p => k1.cpu[r] = k.cpu[r]
  <2>1. \A r \in Pids : r # p => k0.cpu[r] = k.cpu[r]
    BY <1>3 DEF TipoKs
  <2>2. QED
    BY <1>3, <1>5, <2>1
<1>7. Pasa(k, k1, p, "EXIT", c, w, w)
  <2>1. k.block \ {p} = k.block
    BY <1>1
  <2>2. QED
    BY <1>1, <1>6, <2>1 DEF Pasa
<1>8. KsBien(k1, w) /\ AquiPasa(k, k1, p, "EXIT", c)
  BY <1>1, <1>4, <1>7, ProcesoPasa
<1>9. QED
  BY <1>1, <1>4, <1>6, <1>8 DEF AquiPasa, Mueve

\* A CPU is free.
LEMMA LiberarKs ==
  ASSUME NEW k \in TipoKs(Cpus), NEW w, KsBien(k, w), NEW c \in Cpus, NEW k1,
         ~ Tiene(k.cpus_libres, c), k1 = LiberarCpu(k, c)
  PROVE  /\ k1 \in TipoKs(Cpus) /\ KsBien(k1, w) /\ k1.estado = k.estado
         /\ \A d \in Cpus : AquiEn(k1, d) = AquiEn(k, d)
         /\ ConCpu(k, k1, c)
<1>1. k1 \in TipoKs(Cpus)
  <2>1. Append(k.cpus_libres, c) \in Seq(Cpus)
    BY AppendProperties DEF TipoKs
  <2>2. QED
    BY <2>1 DEF TipoKs, LiberarCpu
<1>2. /\ k1.exec = k.exec /\ k1.estado = k.estado /\ k1.cpu = k.cpu /\ k1.block = k.block
      /\ k1.prioridad = k.prioridad /\ k1.cola_io = k.cola_io
      /\ k1.colas_ready = k.colas_ready /\ k1.cpus_libres = Append(k.cpus_libres, c)
  BY DEF LiberarCpu, TipoKs
<1>3. /\ Distintos(k1.cpus_libres)
      /\ \A d : Tiene(k1.cpus_libres, d) <=> Tiene(k.cpus_libres, d) \/ d = c
  <2>1. Distintos(k.cpus_libres) /\ k.cpus_libres \in Seq(Cpus)
    BY DEF KsBien, TipoKs
  <2>2. QED
    BY <1>2, <2>1, TieneAgregado
<1>4. KsBien(k1, w)
  BY <1>2, <1>3 DEF KsBien
<1>5. QED
  BY <1>1, <1>2, <1>3, <1>4 DEF AquiEn, ConCpu

\* OP_IO_SLEEP: the process is blocked and its CPU is free.
LEMMA SleepKs ==
  ASSUME NEW k \in TipoKs(Cpus), NEW w \in Pids \cup {Nadie}, KsBien(k, w),
         NEW c \in Cpus, NEW p \in AquiEn(k, c), ~ Tiene(k.cpus_libres, c), NEW k1,
         k1 = [Bloquear(k, p) EXCEPT !.cola_io["SLEEP"] = Append(@, p)]
  PROVE  /\ Mueve(k, k1, w, p, "BLOCK", c, {})
         /\ ConCpu(k, k1, c)
<1> DEFINE k0 == Bloquear(k, p)
           io == [k0.cola_io EXCEPT !["SLEEP"] = Append(@, p)]
<1>1. /\ p \in Pids /\ k.cpu[p] = c /\ w # p
      /\ AquiEn(k, c) = {p} /\ \A d : d # c => AquiEn(k, d) \ {p} = AquiEn(k, d)
      /\ \A q \in Colas : /\ Distintos(k.colas_ready[q])
                          /\ \A r \in Pids : Tiene(k.colas_ready[q], r) => r # p
      /\ Distintos(k.cola_io["SLEEP"]) /\ Distintos(k.cpus_libres)
      /\ \A r \in Pids : Tiene(k.cola_io["SLEEP"], r) => r # p
  BY EnExec
<1>2. k0 \in TipoKs(Cpus)
  BY <1>1, BloquearTipo
<1>3. /\ k0.exec = k.exec \ {p} /\ k0.estado = [k.estado EXCEPT ![p] = "BLOCK"]
      /\ k0.cpu = [k.cpu EXCEPT ![p] = Nulo] /\ k0.block = k.block \cup {p}
      /\ k0.prioridad = k.prioridad /\ k0.cola_io = k.cola_io
      /\ k0.cpus_libres = Append(k.cpus_libres, c) /\ k0.colas_ready = k.colas_ready
  BY <1>1 DEF Bloquear, LiberarCpu, SacarDeExec, TipoKs
<1> HIDE DEF k0
<1>4. io \in [TiposIo -> Seq(Pids)] /\ io["SLEEP"] = Append(k.cola_io["SLEEP"], p)
  <2>1. k.cola_io \in [TiposIo -> Seq(Pids)] /\ "SLEEP" \in TiposIo
    BY PedidosOK DEF TipoKs
  <2>2. Append(k.cola_io["SLEEP"], p) \in Seq(Pids)
    BY <1>1, <2>1, AppendProperties
  <2>3. QED
    BY <1>3, <2>1, <2>2
<1>5. k1 = [k0 EXCEPT !.cola_io = io]
  BY DEF k0
<1> HIDE DEF io
<1>6. /\ k1 \in TipoKs(Cpus)
      /\ k1.exec = k0.exec /\ k1.estado = k0.estado /\ k1.cpu = k0.cpu /\ k1.block = k0.block
      /\ k1.prioridad = k0.prioridad /\ k1.cola_io = io
      /\ k1.colas_ready = k0.colas_ready /\ k1.cpus_libres = k0.cpus_libres
  BY <1>2, <1>4, <1>5 DEF TipoKs
<1>7. /\ k1.estado = [k.estado EXCEPT ![p] = "BLOCK"] /\ k1.prioridad = k.prioridad
      /\ k1.exec = k.exec \ {p} /\ k1.block = k.block \cup {p}
      /\ k1.colas_ready = k.colas_ready /\ k1.cpus_libres = Append(k.cpus_libres, c)
      /\ k1.cola_io["SLEEP"] = Append(k.cola_io["SLEEP"], p)
      /\ \A r \in Pids : r # p => k1.cpu[r] = k.cpu[r]
  <2>1. \A r \in Pids : r # p => k0.cpu[r] = k.cpu[r]
    BY <1>3 DEF TipoKs
  <2>2. QED
    BY <1>3, <1>4, <1>6, <2>1
<1>8. /\ Distintos(k1.cpus_libres)
      /\ \A d : Tiene(k1.cpus_libres, d) <=> Tiene(k.cpus_libres, d) \/ d = c
  <2>1. /\ k.cpus_libres \in Seq(Cpus) /\ Distintos(k.cpus_libres)
        /\ k1.cpus_libres = Append(k.cpus_libres, c)
    BY <1>1, <1>7 DEF TipoKs
  <2>2. /\ Distintos(Append(k.cpus_libres, c))
        /\ \A d : Tiene(Append(k.cpus_libres, c), d) <=> Tiene(k.cpus_libres, d) \/ d = c
    BY <2>1, TieneAgregado
  <2>3. QED
    BY <2>1, <2>2, Zenon
<1>9. /\ Distintos(k1.cola_io["SLEEP"])
      /\ \A r : Tiene(k1.cola_io["SLEEP"], r) <=> Tiene(k.cola_io["SLEEP"], r) \/ r = p
  <2>1. k.cola_io["SLEEP"] \in Seq(Pids)
    BY PedidosOK DEF TipoKs
  <2>2. /\ ~ Tiene(k.cola_io["SLEEP"], p) /\ Distintos(k.cola_io["SLEEP"])
        /\ k1.cola_io["SLEEP"] = Append(k.cola_io["SLEEP"], p)
    BY <1>1, <1>7
  <2>3. LET s == k.cola_io["SLEEP"] IN
        /\ Distintos(Append(s, p))
        /\ \A r : Tiene(Append(s, p), r) <=> Tiene(s, r) \/ r = p
    BY <2>1, <2>2, TieneAgregado
  <2>4. QED
    BY <2>2, <2>3, Zenon
<1>10. Pasa(k, k1, p, "BLOCK", c, w, w)
  BY <1>1, <1>7, <1>8, <1>9 DEF Pasa
<1>11. KsBien(k1, w) /\ AquiPasa(k, k1, p, "BLOCK", c)
  BY <1>1, <1>6, <1>10, ProcesoPasa
<1>12. QED
  BY <1>1, <1>6, <1>7, <1>8, <1>11 DEF AquiPasa, Mueve, ConCpu

\* From k to k1 process p, which slept, is READY; no CPU is concerned.
Despierta(k, k1, w, p) ==
  /\ k1 \in TipoKs(Cpus) /\ KsBien(k1, w)
  /\ p \in Pids /\ k.estado[p] = "BLOCK" /\ k1.estado = [k.estado EXCEPT ![p] = "READY"]
  /\ p # w
  /\ \A d \in Cpus : AquiEn(k1, d) = AquiEn(k, d)
  /\ k1.cpus_libres = k.cpus_libres

\* The device ends: the process is READY again.
LEMMA DespertarKs ==
  ASSUME NEW k \in TipoKs(Cpus), NEW w \in Pids \cup {Nadie}, KsBien(k, w),
         k.cola_io["SLEEP"] # <<>>, NEW p, p = Head(k.cola_io["SLEEP"]), NEW k1,
         k1 = Despertar(CancelarTimer([k EXCEPT !.cola_io["SLEEP"] = Tail(@)], p), p,
                        k.estado[p])
  PROVE  Despierta(k, k1, w, p)
<1> DEFINE io == [k.cola_io EXCEPT !["SLEEP"] = Tail(@)]
           ka == [k EXCEPT !.cola_io = io]
           kb == CancelarTimer(ka, p)
           kc == [kb EXCEPT !.block = @ \ {p}, !.estado[p] = "READY"]
           q == k.prioridad[p]
<1>1. /\ k.cola_io \in [TiposIo -> Seq(Pids)] /\ "SLEEP" \in TiposIo
      /\ k.cola_io["SLEEP"] \in Seq(Pids)
  BY PedidosOK DEF TipoKs
<1>2. /\ p \in Pids /\ Tail(k.cola_io["SLEEP"]) \in Seq(Pids)
      /\ \A r : Tiene(k.cola_io["SLEEP"], r) <=> r = p \/ Tiene(Tail(k.cola_io["SLEEP"]), r)
      /\ Distintos(Tail(k.cola_io["SLEEP"])) /\ ~ Tiene(Tail(k.cola_io["SLEEP"]), p)
  <2>1. Distintos(k.cola_io["SLEEP"])
    BY DEF KsBien
  <2>2. QED
    BY <1>1, <2>1, TieneQuitado
<1>3. k.estado[p] = "BLOCK" /\ p # w
  BY <1>2 DEF KsBien
<1>4. io \in [TiposIo -> Seq(Pids)] /\ io["SLEEP"] = Tail(k.cola_io["SLEEP"])
  BY <1>1, <1>2
<1> HIDE DEF io
<1>5. /\ ka \in TipoKs(Cpus)
      /\ ka.exec = k.exec /\ ka.estado = k.estado /\ ka.cpu = k.cpu /\ ka.block = k.block
      /\ ka.prioridad = k.prioridad /\ ka.cola_io = io /\ ka.cpus_libres = k.cpus_libres
      /\ ka.colas_ready = k.colas_ready
  BY <1>4 DEF TipoKs
<1> HIDE DEF ka
<1>6. /\ kb \in TipoKs(Cpus)
      /\ kb.exec = ka.exec /\ kb.estado = ka.estado /\ kb.cpu = ka.cpu /\ kb.block = ka.block
      /\ kb.prioridad = ka.prioridad /\ kb.cola_io = ka.cola_io
      /\ kb.cpus_libres = ka.cpus_libres /\ kb.colas_ready = ka.colas_ready
  BY <1>2, <1>5 DEF TipoKs, CancelarTimer
<1>7. k1 = Encolar(kc, p)
  <2>1. k1 = Despertar(kb, p, "BLOCK")
    BY <1>3 DEF ka, io
  <2> HIDE DEF kb
  <2>2. QED
    BY <2>1 DEF Despertar, BlockAReady
<1> HIDE DEF kb
<1>8. /\ kc \in TipoKs(Cpus)
      /\ kc.exec = kb.exec /\ kc.estado = [kb.estado EXCEPT ![p] = "READY"] /\ kc.cpu = kb.cpu
      /\ kc.block = kb.block \ {p}
      /\ kc.prioridad = kb.prioridad /\ kc.cola_io = kb.cola_io
      /\ kc.cpus_libres = kb.cpus_libres /\ kc.colas_ready = kb.colas_ready
  BY <1>2, <1>6 DEF TipoKs, EstadosProceso
<1> HIDE DEF kc
<1>9. k1 \in TipoKs(Cpus)
  BY <1>2, <1>7, <1>8, EncolarTipo
<1>10. /\ k1.exec = kc.exec /\ k1.estado = kc.estado /\ k1.cpu = kc.cpu /\ k1.block = kc.block
       /\ k1.prioridad = kc.prioridad /\ k1.cola_io = kc.cola_io
       /\ k1.cpus_libres = kc.cpus_libres
       /\ k1.colas_ready = [kc.colas_ready EXCEPT ![kc.prioridad[p]] = Append(@, p)]
  <2>1. /\ k1.exec = kc.exec /\ k1.estado = kc.estado /\ k1.cpu = kc.cpu
        /\ k1.block = kc.block /\ k1.prioridad = kc.prioridad
        /\ k1.cola_io = kc.cola_io /\ k1.cpus_libres = kc.cpus_libres
    BY <1>7, <1>8 DEF Encolar, TipoKs
  <2>2. k1.colas_ready = [kc.colas_ready EXCEPT ![kc.prioridad[p]] = Append(@, p)]
    BY <1>7, <1>8 DEF Encolar, TipoKs
  <2>3. QED
    BY <2>1, <2>2
<1>11. /\ k1.exec = k.exec /\ k1.estado = [k.estado EXCEPT ![p] = "READY"] /\ k1.cpu = k.cpu
       /\ k1.block = k.block \ {p} /\ k1.prioridad = k.prioridad
       /\ k1.cola_io["SLEEP"] = Tail(k.cola_io["SLEEP"]) /\ k1.cpus_libres = k.cpus_libres
       /\ k1.colas_ready = [k.colas_ready EXCEPT ![q] = Append(@, p)]
  <2>1. kc.prioridad = k.prioridad /\ kc.colas_ready = k.colas_ready
    BY <1>5, <1>6, <1>8
  <2>2. kb.estado = k.estado /\ kb.block = k.block /\ kb.cpu = k.cpu
        /\ kb.cola_io = io /\ kb.cpus_libres = k.cpus_libres /\ kb.exec = k.exec
    BY <1>5, <1>6
  <2>3. k1.colas_ready = [k.colas_ready EXCEPT ![q] = Append(@, p)]
    BY <1>10, <2>1
  <2>4. k1.cola_io["SLEEP"] = Tail(k.cola_io["SLEEP"])
    <3>1. k1.cola_io = kc.cola_io
      BY <1>10
    <3>2. k1.cola_io = io
      BY <1>8, <2>2, <3>1
    <3>3. QED
      BY <1>4, <3>2
  <2>5. k1.estado = [k.estado EXCEPT ![p] = "READY"] /\ k1.block = k.block \ {p}
    BY <1>8, <1>10, <2>2
  <2>6. /\ k1.exec = k.exec /\ k1.cpu = k.cpu /\ k1.prioridad = k.prioridad
        /\ k1.cpus_libres = k.cpus_libres
    BY <1>8, <1>10, <2>1, <2>2
  <2>7. QED
    BY <2>3, <2>4, <2>5, <2>6
<1>12. /\ q \in Colas /\ k.colas_ready \in [Colas -> Seq(Pids)]
       /\ k.colas_ready[q] \in Seq(Pids)
  BY <1>2 DEF TipoKs
<1>13. \A r \in Colas : /\ Distintos(k.colas_ready[r])
                        /\ \A s \in Pids : Tiene(k.colas_ready[r], s) => s # p
  BY <1>2, <1>3 DEF KsBien
<1>14. /\ Distintos(Append(k.colas_ready[q], p))
       /\ \A s : Tiene(Append(k.colas_ready[q], p), s) <=> Tiene(k.colas_ready[q], s) \/ s = p
  <2>1. ~ Tiene(k.colas_ready[q], p) /\ Distintos(k.colas_ready[q])
    BY <1>2, <1>12, <1>13
  <2> HIDE DEF q
  <2>2. QED
    BY <1>12, <2>1, TieneAgregado
<1>15. \A r \in Colas : /\ Distintos(k1.colas_ready[r])
                        /\ \A s \in Pids : Tiene(k1.colas_ready[r], s) =>
                             \/ s # p /\ Tiene(k.colas_ready[r], s)
                             \/ s = p /\ r = k.prioridad[p]
  <2>1. \A r \in Colas : k1.colas_ready[r] = IF r = q THEN Append(k.colas_ready[q], p)
                                             ELSE k.colas_ready[r]
    BY <1>11, <1>12
  <2> HIDE DEF q
  <2>2. ASSUME NEW r \in Colas, NEW s \in Pids
        PROVE  /\ Distintos(k1.colas_ready[r])
               /\ Tiene(k1.colas_ready[r], s) =>
                    (s # p /\ Tiene(k.colas_ready[r], s)) \/ (s = p /\ r = q)
    <3>1. CASE r = q
      BY <1>13, <1>14, <2>1, <3>1
    <3>2. CASE r # q
      BY <1>13, <2>1, <3>2
    <3>3. QED
      BY <3>1, <3>2
  <2>3. \A r \in Colas : Distintos(k1.colas_ready[r])
    BY <1>2, <2>2
  <2>4. QED
    BY <2>2, <2>3 DEF q
<1>16. Distintos(k.cpus_libres) /\ p \notin k.exec
  BY <1>2, <1>3 DEF KsBien
<1>17. Pasa(k, k1, p, "READY", Nulo, w, w)
  <2>1. k.exec \ {p} = k.exec
    BY <1>16
  <2>2. Distintos(k1.cola_io["SLEEP"])
        /\ \A r \in Pids : Tiene(k1.cola_io["SLEEP"], r) => r # p /\ Tiene(k.cola_io["SLEEP"], r)
    BY <1>2, <1>11
  <2>3. k1.estado = [k.estado EXCEPT ![p] = "READY"] /\ k1.prioridad = k.prioridad
    BY <1>11
  <2>4. k1.exec = k.exec /\ k1.block = k.block \ {p} /\ k1.cpu = k.cpu
        /\ k1.cpus_libres = k.cpus_libres
    BY <1>11
  <2>5. QED
    BY <1>3, <1>15, <1>16, <2>1, <2>2, <2>3, <2>4 DEF Pasa
<1>18. KsBien(k1, w)
  BY <1>2, <1>9, <1>17, ProcesoPasa
<1>19. \A d \in Cpus : AquiEn(k1, d) = AquiEn(k, d)
  BY <1>11 DEF AquiEn
<1>20. QED
  BY <1>2, <1>3, <1>9, <1>11, <1>18, <1>19 DEF Despierta

\* From k to k1 process p, which was READY, is EXEC on CPU c, which was free.
Elegido(k, k1, w, p, c) ==
  /\ Mueve(k, k1, w, p, "EXEC", c, {p})
  /\ p \in Pids /\ k.estado[p] = "READY" /\ c \in Cpus /\ Tiene(k.cpus_libres, c)
  /\ \A d : Tiene(k1.cpus_libres, d) => Tiene(k.cpus_libres, d) /\ d # c

\* planificador_corto_plazo: the first process of the first queue, on the first
\* free CPU.
LEMMA PlanificarKs ==
  ASSUME NEW k \in TipoKs(Cpus), NEW w \in Pids \cup {Nadie}, KsBien(k, w),
         ConProcesos(k) # {}, k.cpus_libres # <<>>, k.sem_ready > 0,
         NEW p, p = Head(k.colas_ready[Min(ConProcesos(k))]),
         NEW c, c = Head(k.cpus_libres), AquiEn(k, c) = {}
  PROVE  Elegido(k, Planificar(k), w, p, c)
<1> DEFINE q == Min(ConProcesos(k))
           k1 == Planificar(k)
<1>1. /\ q \in Colas /\ p \in Pids /\ k.colas_ready[q] \in Seq(Pids)
      /\ k.colas_ready[q] # <<>> /\ p = Head(k.colas_ready[q])
  BY PrimeroDeReady
<1>2. /\ k1.exec = k.exec \cup {p} /\ k1.estado = [k.estado EXCEPT ![p] = "EXEC"]
      /\ k1.cpu = [k.cpu EXCEPT ![p] = c] /\ k1.block = k.block
      /\ k1.prioridad = k.prioridad /\ k1.cola_io = k.cola_io
      /\ k1.cpus_libres = Tail(k.cpus_libres)
      /\ k1.colas_ready = [k.colas_ready EXCEPT ![q] = Tail(@)]
  BY DEF Planificar, TipoKs
<1>3. k1 \in TipoKs(Cpus)
  BY PlanificarTipo
<1> HIDE DEF q, k1
<1>4. k.colas_ready \in [Colas -> Seq(Pids)] /\ k.cpu \in [Pids -> Cpus \cup {Nulo}]
      /\ k.cpus_libres \in Seq(Cpus)
  BY DEF TipoKs
<1>5. /\ c \in Cpus
      /\ Distintos(Tail(k.cpus_libres)) /\ ~ Tiene(Tail(k.cpus_libres), c)
      /\ \A d : Tiene(k.cpus_libres, d) <=> d = c \/ Tiene(Tail(k.cpus_libres), d)
  <2>1. Distintos(k.cpus_libres)
    BY DEF KsBien
  <2>2. QED
    BY <1>4, <2>1, TieneQuitado
<1>6. /\ Distintos(Tail(k.colas_ready[q])) /\ ~ Tiene(Tail(k.colas_ready[q]), p)
      /\ \A r : Tiene(k.colas_ready[q], r) <=> r = p \/ Tiene(Tail(k.colas_ready[q]), r)
  <2>1. Distintos(k.colas_ready[q])
    BY <1>1 DEF KsBien
  <2>2. QED
    BY <1>1, <2>1, TieneQuitado
<1>7. k.estado[p] = "READY" /\ k.prioridad[p] = q
  BY <1>1, <1>6 DEF KsBien
<1>8. \A r \in Colas : k1.colas_ready[r] = IF r = q THEN Tail(k.colas_ready[q])
                                           ELSE k.colas_ready[r]
  BY <1>1, <1>2, <1>4
<1>9. \A r \in Colas : /\ Distintos(k1.colas_ready[r])
                       /\ \A s \in Pids : Tiene(k1.colas_ready[r], s) =>
                            s # p /\ Tiene(k.colas_ready[r], s)
  <2>1. ASSUME NEW r \in Colas
        PROVE  /\ Distintos(k1.colas_ready[r])
               /\ \A s \in Pids : Tiene(k1.colas_ready[r], s) =>
                    s # p /\ Tiene(k.colas_ready[r], s)
    <3>1. CASE r = q
      BY <1>6, <1>8, <3>1
    <3>2. CASE r # q
      <4>1. k1.colas_ready[r] = k.colas_ready[r] /\ Distintos(k.colas_ready[r])
        BY <1>8, <3>2 DEF KsBien
      <4>2. ~ Tiene(k.colas_ready[r], p)
        BY <1>1, <1>7, <3>2 DEF KsBien
      <4>3. QED
        BY <4>1, <4>2
    <3>3. QED
      BY <3>1, <3>2
  <2>2. QED
    BY <2>1
<1>10. /\ p \notin k.block /\ w # p /\ Distintos(k.cola_io["SLEEP"])
       /\ \A r \in Pids : Tiene(k.cola_io["SLEEP"], r) => r # p
  <2>1. w # Nadie => k.estado[w] = "BLOCK"
    BY DEF KsBien
  <2>2. p # Nadie
    BY <1>1, ProcesosOK DEF Nadie
  <2>3. QED
    BY <1>1, <1>7, <2>1, <2>2 DEF KsBien
<1>11. Pasa(k, k1, p, "EXEC", c, w, w)
  <2>1. k.block \ {p} = k.block
    BY <1>10
  <2>2. \A r \in Pids : r # p => k1.cpu[r] = k.cpu[r]
    BY <1>2, <1>4
  <2>3. k1.cpu[p] = c
    BY <1>1, <1>2, <1>4
  <2>4. /\ k1.estado = [k.estado EXCEPT ![p] = "EXEC"] /\ k1.prioridad = k.prioridad
        /\ k1.exec = k.exec \cup {p} /\ k1.block = k.block /\ k1.cola_io = k.cola_io
    BY <1>2
  <2>5. Distintos(k1.cpus_libres)
    BY <1>2, <1>5
  <2>6. QED
    BY <1>5, <1>9, <1>10, <2>1, <2>2, <2>3, <2>4, <2>5 DEF Pasa
<1>12. KsBien(k1, w) /\ AquiPasa(k, k1, p, "EXEC", c)
  BY <1>1, <1>3, <1>11, ProcesoPasa
<1>13. AquiEn(k1, c) = {p} /\ \A d \in Cpus : d # c => AquiEn(k1, d) = AquiEn(k, d)
  <2>1. \A d : p \notin AquiEn(k, d)
    BY <1>1, <1>7 DEF AquiEn, KsBien
  <2>2. \A d : AquiEn(k, d) \ {p} = AquiEn(k, d)
    BY <2>1
  <2>3. QED
    BY <1>12, <2>2 DEF AquiPasa
<1>14. \A d : Tiene(k1.cpus_libres, d) <=> Tiene(k.cpus_libres, d) /\ d # c
  BY <1>2, <1>5
<1>15. QED
  BY <1>1, <1>2, <1>3, <1>5, <1>7, <1>12, <1>13, <1>14 DEF k1, Mueve, Elegido

\* A process waits for a compaction and keeps its CPU.
LEMMA DetenerKs ==
  ASSUME NEW k \in TipoKs(Cpus), KsBien(k, Nadie),
         NEW c \in Cpus, NEW p \in AquiEn(k, c), NEW k1,
         k1 = [SacarDeExec(k, p, "BLOCK") EXCEPT !.block = @ \cup {p}]
  PROVE  /\ Mueve(k, k1, p, p, "BLOCK", c, {})
         /\ k1.cpus_libres = k.cpus_libres
<1>1. /\ p \in Pids /\ p \notin k.block
      /\ AquiEn(k, c) = {p} /\ \A d : d # c => AquiEn(k, d) \ {p} = AquiEn(k, d)
      /\ \A q \in Colas : /\ Distintos(k.colas_ready[q])
                          /\ \A r \in Pids : Tiene(k.colas_ready[q], r) => r # p
      /\ Distintos(k.cola_io["SLEEP"]) /\ Distintos(k.cpus_libres)
      /\ \A r \in Pids : Tiene(k.cola_io["SLEEP"], r) => r # p
  BY EnExec
<1>2. k1 \in TipoKs(Cpus)
  BY <1>1 DEF TipoKs, SacarDeExec, EstadosProceso
<1>3. /\ k1.exec = k.exec \ {p} /\ k1.estado = [k.estado EXCEPT ![p] = "BLOCK"]
      /\ k1.cpu = [k.cpu EXCEPT ![p] = Nulo] /\ k1.block = k.block \cup {p}
      /\ k1.prioridad = k.prioridad /\ k1.cola_io = k.cola_io /\ k1.cpus_libres = k.cpus_libres
      /\ k1.colas_ready = k.colas_ready
  BY DEF SacarDeExec, TipoKs
<1>4. \A r \in Pids : r # p => k1.cpu[r] = k.cpu[r]
  BY <1>3 DEF TipoKs
<1>5. Pasa(k, k1, p, "BLOCK", c, Nadie, p)
  BY <1>1, <1>3, <1>4 DEF Pasa
<1>6. KsBien(k1, p) /\ AquiPasa(k, k1, p, "BLOCK", c)
  BY <1>1, <1>2, <1>5, ProcesoPasa
<1>7. QED
  BY <1>1, <1>2, <1>3, <1>6 DEF AquiPasa, Mueve

\* Process p is EXEC again, on CPU c.
Retoma(k, p, c) ==
  [k EXCEPT !.estado[p] = "EXEC", !.cpu[p] = c, !.exec = @ \cup {p}, !.block = @ \ {p}]

\* The process that waited for a compaction is EXEC again on its CPU.
LEMMA RetomarKs ==
  ASSUME NEW k \in TipoKs(Cpus), NEW p \in Pids, KsBien(k, p),
         NEW c \in Cpus, AquiEn(k, c) = {}
  PROVE  /\ Mueve(k, Retoma(k, p, c), Nadie, p, "EXEC", c, {p}) /\ k.estado[p] = "BLOCK"
         /\ Retoma(k, p, c).cpus_libres = k.cpus_libres
<1> DEFINE k1 == Retoma(k, p, c)
<1>1. /\ k.estado[p] = "BLOCK"
      /\ \A q \in Colas : /\ Distintos(k.colas_ready[q])
                          /\ \A r \in Pids : Tiene(k.colas_ready[q], r) => r # p
      /\ Distintos(k.cola_io["SLEEP"]) /\ Distintos(k.cpus_libres)
      /\ \A r \in Pids : Tiene(k.cola_io["SLEEP"], r) => r # p
  <2>1. p # Nadie
    BY ProcesosOK DEF Nadie
  <2>2. QED
    BY <2>1 DEF KsBien
<1>2. k1 \in TipoKs(Cpus)
  BY DEF TipoKs, EstadosProceso, Retoma
<1>3. /\ k1.exec = k.exec \cup {p} /\ k1.estado = [k.estado EXCEPT ![p] = "EXEC"]
      /\ k1.cpu = [k.cpu EXCEPT ![p] = c] /\ k1.block = k.block \ {p}
      /\ k1.prioridad = k.prioridad /\ k1.cola_io = k.cola_io /\ k1.cpus_libres = k.cpus_libres
      /\ k1.colas_ready = k.colas_ready
  BY DEF TipoKs, Retoma
<1> HIDE DEF k1
<1>4. k1.cpu[p] = c /\ \A r \in Pids : r # p => k1.cpu[r] = k.cpu[r]
  BY <1>3 DEF TipoKs
<1>5. Pasa(k, k1, p, "EXEC", c, p, Nadie)
  BY <1>1, <1>3, <1>4 DEF Pasa
<1>6. KsBien(k1, Nadie) /\ AquiPasa(k, k1, p, "EXEC", c)
  BY <1>2, <1>5, ProcesoPasa
<1>7. \A d : AquiEn(k, d) \ {p} = AquiEn(k, d)
  <2>1. \A d : p \notin AquiEn(k, d)
    BY <1>1 DEF AquiEn, KsBien
  <2>2. QED
    BY <2>1
<1>8. QED
  BY <1>1, <1>2, <1>3, <1>6, <1>7 DEF AquiPasa, Mueve, k1

-----------------------------------------------------------------------------
(* The steps of the scheduler, seen from the connection of one CPU.         *)

\* The thread goes on without a message.
LEMMA CanalHilo ==
  ASSUME NEW a, NEW d, NEW e, NEW p, NEW h, NEW h1, Canal(a, d, e, p, h),
         \/ h1.pc = "recibir"
         \/ h1.pc \in {"finalizar", "liberar"} /\ h.pc \in {"atender", "finalizar"}
         \/ h1.pc = "sin_respuesta" /\ h.pc = "finalizar"
         \/ h1.pc = "sin_respuesta" /\ h.pc = "syscall" /\ h.op \in Mem
         \/ h1.pc \in {"desalojar", "confirmar"} /\ h.pc \in {"detener", "desalojar"}
  PROVE  Canal(a, d, e, p, h1)
<1>1. CASE h1.pc = "recibir"
  BY <1>1 DEF Canal
<1>2. CASE h1.pc \in {"finalizar", "liberar"} /\ h.pc \in {"atender", "finalizar"}
  BY <1>2 DEF Canal
<1>3. CASE h1.pc = "sin_respuesta" /\ h.pc = "finalizar"
  BY <1>3 DEF Canal
<1>4. CASE h1.pc = "sin_respuesta" /\ h.pc = "syscall" /\ h.op \in Mem
  BY <1>4 DEF Canal, Vacio
<1>5. CASE h1.pc \in {"desalojar", "confirmar"} /\ h.pc \in {"detener", "desalojar"}
  BY <1>5 DEF Canal
<1>6. QED
  BY <1>1, <1>2, <1>3, <1>4, <1>5

\* The thread reads what the CPU has sent.
LEMMA CanalAtiende ==
  ASSUME NEW a, NEW d, NEW e, NEW p, NEW h, NEW h1, Canal(a, d, e, p, h), d # <<>>,
         \/ h1 = h
         \/ h1.pc = "atender" /\ Head(d).op \notin Mem
         \/ h1.pc = "syscall" /\ h1.op = Head(d).op
  PROVE  Canal(a, Tail(d), e, p, h1) /\ Tail(d) = <<>>
<1>1. /\ Tail(d) = <<>> /\ h.pc = "recibir" /\ Vacio(a)
      /\ Head(d).op \in Mem => e = "respuesta"
      /\ Head(d).op \notin Mem => e = "espera"
  BY DEF Canal
<1>2. CASE h1 = h
  BY <1>1, <1>2 DEF Canal
<1>3. CASE h1.pc = "atender" /\ Head(d).op \notin Mem
  BY <1>1, <1>3 DEF Canal, Vacio
<1>4. CASE h1.pc = "syscall" /\ h1.op = Head(d).op
  BY <1>1, <1>4 DEF Canal, Vacio
<1>5. QED
  BY <1>1, <1>2, <1>3, <1>4

\* The thread answers a syscall of memory.
LEMMA CanalContesta ==
  ASSUME NEW a \in Seq(Mensaje), NEW d, NEW e, NEW p, NEW h, NEW h1, NEW m,
         Canal(a, d, e, p, h), h.pc = "syscall", h.op \in Mem,
         \/ m.op \in {"OK", "ERROR"} /\ h1.pc = "recibir"
         \/ m.op = "BLOQUEADO" /\ h1.pc = "detener"
  PROVE  /\ Canal(Append(a, m), d, e, p, h1)
         /\ \A S : Lleva(a, d, p, S) => Lleva(Append(a, m), d, p, S)
<1> DEFINE b == Append(a, m)
<1>1. /\ Respuesta(m) /\ ~ Orden(m)
      /\ m.op = "BLOQUEADO" <=> h1.pc = "detener"
  BY DEF Respuesta, Orden
<1>2. Vacio(a) /\ e = "respuesta" /\ d = <<>> /\ Forma(a)
  BY DEF Canal
<1>3. /\ SinOrdenes(b) /\ ~ SinRespuestas(b) /\ Forma(b)
      /\ SinBloqueado(b) <=> SinBloqueado(a) /\ m.op # "BLOQUEADO"
      /\ \A S : OrdenesEn(b, S) <=> OrdenesEn(a, S)
  BY <1>1, <1>2, Enviado DEF Vacio
<1> HIDE DEF b
<1>4. (e = "espera" <=> p = Nadie) /\ e \in {"espera", "ejecuta", "respuesta"}
  BY DEF Canal
<1>5. Canal(b, d, e, p, h1)
  BY <1>1, <1>2, <1>3, <1>4 DEF Canal
<1>6. \A S : Lleva(a, d, p, S) => Lleva(b, d, p, S)
  BY <1>2, <1>3 DEF Lleva
<1>7. QED
  BY <1>5, <1>6 DEF b

\* A CPU that runs nothing is sent a process.
LEMMA CanalOrden ==
  ASSUME NEW a \in Seq(Mensaje), NEW d, NEW e, NEW p, NEW h, NEW m,
         Canal(a, d, e, p, h), h.pc = "recibir", Detenida(a, d, e), Orden(m)
  PROVE  /\ Canal(Append(a, m), d, e, p, h)
         /\ \A S : m.pid \in S => Lleva(Append(a, m), d, p, S)
<1> DEFINE b == Append(a, m)
<1>1. ~ Respuesta(m) /\ m.op # "BLOQUEADO"
  BY DEF Respuesta, Orden
<1>2. SinOrdenes(a) /\ d = <<>> /\ Forma(a) /\ (e = "espera" \/ ~ SinBloqueado(a))
  BY DEF Canal, Detenida
<1>3. /\ ~ SinOrdenes(b) /\ (SinRespuestas(b) <=> SinRespuestas(a)) /\ Forma(b)
      /\ SinBloqueado(b) <=> SinBloqueado(a)
      /\ \A S : OrdenesEn(b, S) <=> OrdenesEn(a, S) /\ m.pid \in S
  BY <1>1, <1>2, Enviado
<1> HIDE DEF b
<1>4. e # "ejecuta"
  <2>1. SinRespuestas(a) => SinBloqueado(a)
    BY BloqueadoEsRespuesta
  <2>2. QED
    BY <1>2, <2>1 DEF Canal, Vacio
<1>5. Canal(b, d, e, p, h)
  BY <1>2, <1>3, <1>4 DEF Canal
<1>6. \A S : OrdenesEn(a, S)
  BY <1>2 DEF OrdenesEn, SinOrdenes
<1>7. p # Nadie => ~ SinBloqueado(b)
  BY <1>2, <1>3 DEF Canal
<1>8. \A S : m.pid \in S => Lleva(b, d, p, S)
  BY <1>2, <1>3, <1>6, <1>7 DEF Lleva
<1>9. QED
  BY <1>5, <1>8 DEF b

\* Interrupts are sent.
LEMMA CanalInterrumpido ==
  ASSUME NEW a \in Seq(Mensaje), NEW d, NEW e, NEW p, NEW h, NEW t \in Seq(Mensaje),
         \A i \in DOMAIN t : t[i].op = "INTERRUMPIR_PROCESO"
  PROVE  /\ Canal(a, d, e, p, h) => Canal(a \o t, d, e, p, h)
         /\ \A S : Lleva(a, d, p, S) => Lleva(a \o t, d, p, S)
         /\ Detenida(a, d, e) => Detenida(a \o t, d, e)
         /\ Quieta(a, d, e) => Quieta(a \o t, d, e)
         /\ Activa(a \o t, d, p) => Activa(a, d, p)
<1> DEFINE b == a \o t
<1>1. /\ SinOrdenes(b) <=> SinOrdenes(a)
      /\ SinRespuestas(b) <=> SinRespuestas(a)
      /\ SinBloqueado(b) <=> SinBloqueado(a)
      /\ \A S : OrdenesEn(b, S) <=> OrdenesEn(a, S)
      /\ Forma(a) => Forma(b)
  BY Interrumpido
<1> HIDE DEF b
<1>2. Canal(a, d, e, p, h) => Canal(b, d, e, p, h)
  BY <1>1 DEF Canal, Vacio
<1>3. QED
  BY <1>1, <1>2 DEF Lleva, Detenida, Quieta, Activa, b

-----------------------------------------------------------------------------
(* The CPUs, the threads and the lists together.                            *)

Aqui(c) == AquiEn(ks, c)

CanalDe(c) == Canal(a_cpu[c], de_cpu[c], cpu_estado[c], cpu_pid[c], hilo_cpu[c])

LlevaDe(c) == Lleva(a_cpu[c], de_cpu[c], cpu_pid[c], Aqui(c))

DetenidaEn(c) ==
  /\ Detenida(a_cpu[c], de_cpu[c], cpu_estado[c])
  /\ hilo_cpu[c].pc \in {"recibir"} \cup Parada

Ociosa(c) == Quieta(a_cpu[c], de_cpu[c], cpu_estado[c]) /\ hilo_cpu[c].pc = "recibir"

Activas == {c \in Cpus : Activa(a_cpu[c], de_cpu[c], cpu_pid[c])}

\* The process that waits for a compaction, until it is EXEC again.
Espera == IF esperando # Ninguno /\ oyente.pc # "ejecutar" THEN esperando.pid ELSE Nadie

SinCorrupta(s) == \A i \in DOMAIN s : s[i] # "MEMORIA_CORRUPTA"

UnaCorrupta(s) ==
  \A i, j \in DOMAIN s : s[i] = "MEMORIA_CORRUPTA" /\ s[j] = "MEMORIA_CORRUPTA" => i = j

\* Every connection is as its CPU and its thread leave it; the CPU whose process
\* waits for a compaction runs nothing.
CanalesInv ==
  /\ \A c \in Cpus : CanalDe(c)
  /\ esperando # Ninguno => DetenidaEn(esperando.cpu)

\* The memory is lost once.
PerdidaInv ==
  /\ oyente.pc = "interrumpir" => bsod_activo
  /\ oyente.pc = "ejecutar" => ~ bsod_activo
  /\ bsod_activo => ~ stick_vivo /\ SinCorrupta(notificaciones)
  /\ ~ SinCorrupta(notificaciones) => ~ stick_vivo
  /\ UnaCorrupta(notificaciones)

\* What a CPU runs, and what its thread has in hand, the scheduler has in EXEC on
\* that CPU; a CPU that is free or chosen runs nothing.
CpuKs(c) ==
  /\ LlevaDe(c)
  /\ hilo_cpu[c].pc \in {"atender", "syscall", "detener"} => hilo_cpu[c].pid \in Aqui(c)
  /\ hilo_cpu[c].pc \in {"finalizar", "liberar"} => Aqui(c) = {}
  /\ esperando.cpu = c =>
       IF oyente.pc = "ejecutar" THEN esperando.pid \in Aqui(c) ELSE Aqui(c) = {}
  /\ planificador.cpu = c => Ociosa(c) /\ planificador.pid \in Aqui(c)
  /\ Tiene(ks.cpus_libres, c) => Ociosa(c) /\ Aqui(c) = {} /\ esperando.cpu # c

ListasInv == KsBien(ks, Espera) /\ \A c \in Cpus : CpuKs(c)

\* After BSOD nothing is planned, and each CPU that runs a process is counted.
BsodInv ==
  /\ ks.exec = {} /\ \A q \in Colas : ks.colas_ready[q] = <<>>
  /\ Cardinality(Activas) <= cpus_pendientes_bsod
  /\ oyente.pc = "interrumpir" /\ oyente.avisos = {} => Activas = {}

TiposInv ==
  /\ ks \in TipoKs(Cpus)
  /\ planificador \in [pid : Pids, cpu : Cpus] \cup {Ninguno}
  /\ oyente.avisos \in SUBSET (Cpus \X Pids)

BienInv ==
  /\ CanalesInv /\ PerdidaInv
  /\ ~ bsod_activo => ListasInv
  /\ bsod_activo => BsodInv

\* The end of the Kernel Scheduler, either way.
FinalInv ==
  /\ ks_terminado => Activas = {} /\ ~ ks_caido
  /\ ks_caido => bsod_activo

CompInv == PlanInv /\ TiposInv /\ FinalInv /\ (~ ks_caido => BienInv)

\* CPU d and its connection go on: it is given no process, and one that runs
\* nothing goes on running nothing.
SigueCanal(d) ==
  /\ Canal(a_cpu'[d], de_cpu'[d], cpu_estado'[d], cpu_pid'[d], hilo_cpu'[d])
  /\ \A S : Lleva(a_cpu[d], de_cpu[d], cpu_pid[d], S)
              => Lleva(a_cpu'[d], de_cpu'[d], cpu_pid'[d], S)
  /\ Detenida(a_cpu[d], de_cpu[d], cpu_estado[d]) /\ hilo_cpu[d].pc \in {"recibir"} \cup Parada
       => Detenida(a_cpu'[d], de_cpu'[d], cpu_estado'[d])
          /\ hilo_cpu'[d].pc \in {"recibir"} \cup Parada
  /\ Quieta(a_cpu[d], de_cpu[d], cpu_estado[d]) /\ hilo_cpu[d].pc = "recibir"
       => Quieta(a_cpu'[d], de_cpu'[d], cpu_estado'[d]) /\ hilo_cpu'[d].pc = "recibir"
  /\ Activa(a_cpu'[d], de_cpu'[d], cpu_pid'[d]) => Activa(a_cpu[d], de_cpu[d], cpu_pid[d])

\* Its thread too, and it takes nothing new in hand.
Sigue(d) ==
  /\ SigueCanal(d)
  /\ hilo_cpu'[d].pc \in {"atender", "syscall", "detener"} =>
       hilo_cpu[d].pc \in {"atender", "syscall", "detener"} /\ hilo_cpu'[d].pid = hilo_cpu[d].pid
  /\ hilo_cpu'[d].pc \in {"finalizar", "liberar"} => hilo_cpu[d].pc \in {"finalizar", "liberar"}

\* What a CPU has does not change.
Igual(d) ==
  /\ a_cpu'[d] = a_cpu[d] /\ de_cpu'[d] = de_cpu[d]
  /\ cpu_estado'[d] = cpu_estado[d] /\ cpu_pid'[d] = cpu_pid[d]

\* Nothing happens to a CPU and its thread.
LEMMA SigueIgual ==
  ASSUME NEW d, CanalDe(d), Igual(d), hilo_cpu'[d] = hilo_cpu[d]
  PROVE  Sigue(d)
BY DEF Sigue, SigueCanal, CanalDe, Igual

\* The thread of a CPU goes on without a message.
LEMMA SigueHilo ==
  ASSUME NEW c, CanalDe(c), Igual(c), NEW h1, hilo_cpu'[c] = h1,
         \/ h1.pc = "recibir"
         \/ h1.pc = "liberar" /\ hilo_cpu[c].pc = "finalizar"
         \/ h1.pc = "sin_respuesta" /\ hilo_cpu[c].pc = "finalizar"
         \/ h1.pc = "sin_respuesta" /\ hilo_cpu[c].pc = "syscall" /\ hilo_cpu[c].op \in Mem
         \/ h1.pc = "desalojar" /\ hilo_cpu[c].pc = "detener"
  PROVE  Sigue(c)
<1> DEFINE a == a_cpu[c]
           d == de_cpu[c]
           e == cpu_estado[c]
           p == cpu_pid[c]
           h == hilo_cpu[c]
<1>1. a_cpu'[c] = a /\ de_cpu'[c] = d /\ cpu_estado'[c] = e /\ cpu_pid'[c] = p
  BY DEF Igual
<1>2. Canal(a, d, e, p, h1)
  BY CanalHilo DEF CanalDe
<1>3. h.pc \in {"recibir"} \cup Parada => h1.pc \in {"recibir"} \cup Parada
  BY DEF Parada
<1> HIDE DEF a, d, e, p, h
<1>4. /\ h1.pc \in {"atender", "syscall", "detener"} => FALSE
      /\ h1.pc \in {"finalizar", "liberar"} => h.pc \in {"finalizar", "liberar"}
      /\ h.pc = "recibir" => h1.pc = "recibir"
  BY DEF h
<1>5. QED
  BY <1>1, <1>2, <1>3, <1>4 DEF Sigue, SigueCanal, a, d, e, p, h

\* A CPU takes a step.
LEMMA SigueCpu ==
  ASSUME CpuInv, HilosInv, CanalesInv, NEW c \in Cpus, CpuMemoriaPaso(c), hilo_cpu' = hilo_cpu
  PROVE  \A d \in Cpus : Sigue(d)
<1>1. CanalesTipo /\ CpuTipo /\ tabla_vieja \in SUBSET Cpus
  BY CpuCanales
<1>2. CpuPropia(c)
  BY <1>1, CpuEfecto
<1>3. /\ CpuVa(a_cpu[c], de_cpu[c], cpu_estado[c], cpu_pid[c],
               interrupcion_pendiente_pid[c], c \in tabla_vieja,
               a_cpu'[c], de_cpu'[c], cpu_estado'[c], cpu_pid'[c],
               interrupcion_pendiente_pid'[c], c \in tabla_vieja')
  BY <1>1, CpuEfecto
<1>4. /\ a_cpu[c] \in Seq(Mensaje) /\ de_cpu[c] \in Seq(Aviso) /\ cpu_pid[c] \in Pids \cup {Nadie}
      /\ hilo_cpu[c] \in Hilo
  BY DEF CpuInv, CpuTipo, HilosInv, HiloConPid
<1>5. Canal(a_cpu[c], de_cpu[c], cpu_estado[c], cpu_pid[c], hilo_cpu[c])
  BY DEF CanalesInv, CanalDe
<1>6. /\ Canal(a_cpu'[c], de_cpu'[c], cpu_estado'[c], cpu_pid'[c], hilo_cpu[c])
      /\ \A S : Lleva(a_cpu[c], de_cpu[c], cpu_pid[c], S)
                  => Lleva(a_cpu'[c], de_cpu'[c], cpu_pid'[c], S)
      /\ Detenida(a_cpu[c], de_cpu[c], cpu_estado[c])
           => Detenida(a_cpu'[c], de_cpu'[c], cpu_estado'[c])
      /\ Quieta(a_cpu[c], de_cpu[c], cpu_estado[c])
           => Quieta(a_cpu'[c], de_cpu'[c], cpu_estado'[c])
      /\ Activa(a_cpu'[c], de_cpu'[c], cpu_pid'[c]) => Activa(a_cpu[c], de_cpu[c], cpu_pid[c])
  <2> DEFINE v == c \in tabla_vieja
             v1 == c \in tabla_vieja'
             a1 == a_cpu'[c]
             d1 == de_cpu'[c]
             e1 == cpu_estado'[c]
             p1 == cpu_pid'[c]
             i1 == interrupcion_pendiente_pid'[c]
             a == a_cpu[c]
             d == de_cpu[c]
             e == cpu_estado[c]
             p == cpu_pid[c]
             i == interrupcion_pendiente_pid[c]
             h == hilo_cpu[c]
  <2>1. /\ CpuVa(a, d, e, p, i, v, a1, d1, e1, p1, i1, v1) /\ Canal(a, d, e, p, h)
        /\ a \in Seq(Mensaje) /\ d \in Seq(Aviso) /\ p \in Pids \cup {Nadie} /\ h \in Hilo
    BY <1>3, <1>4, <1>5
  <2> HIDE DEF v, v1, a1, d1, e1, p1, i1, a, d, e, p, i, h
  <2>2. /\ Canal(a1, d1, e1, p1, h)
        /\ \A S : Lleva(a, d, p, S) => Lleva(a1, d1, p1, S)
        /\ Detenida(a, d, e) => Detenida(a1, d1, e1)
        /\ Quieta(a, d, e) => Quieta(a1, d1, e1)
        /\ Activa(a1, d1, p1) => Activa(a, d, p)
    BY <2>1, CanalCpu
  <2>3. QED
    BY <2>2 DEF a1, d1, e1, p1, a, d, e, p, h
<1>7. Sigue(c)
  BY <1>6 DEF Sigue, SigueCanal
<1>8. ASSUME NEW d \in Cpus, d # c PROVE Sigue(d)
  <2>1. Igual(d)
    BY <1>2, <1>8 DEF CpuPropia, Igual, CpuInv, CpuTipo
  <2>2. QED
    BY <2>1, SigueIgual DEF CanalesInv
<1>9. QED
  BY <1>7, <1>8

\* The connections, when every CPU goes on.
LEMMA SigueCanales ==
  ASSUME CanalesInv, \A d \in Cpus : SigueCanal(d), HilosInv,
         esperando' = esperando \/ esperando' = Ninguno
  PROVE  CanalesInv' /\ Activas' \in SUBSET Activas
<1>1. ASSUME NEW c \in Cpus PROVE CanalDe(c)' /\ (DetenidaEn(c) => DetenidaEn(c)')
  <2>1. SigueCanal(c)
    OBVIOUS
  <2>2. QED
    BY <2>1 DEF SigueCanal, CanalDe, DetenidaEn
<1>2. (esperando # Ninguno => DetenidaEn(esperando.cpu))'
  <2>1. ASSUME esperando' # Ninguno PROVE DetenidaEn(esperando.cpu)' /\ esperando' = esperando
    <3>1. esperando' = esperando /\ esperando # Ninguno /\ esperando.cpu \in Cpus
      BY <2>1 DEF HilosInv
    <3>2. DetenidaEn(esperando.cpu)
      BY <3>1 DEF CanalesInv
    <3>3. SigueCanal(esperando.cpu)
      BY <3>1
    <3>4. Detenida(a_cpu'[esperando.cpu], de_cpu'[esperando.cpu], cpu_estado'[esperando.cpu])
          /\ hilo_cpu'[esperando.cpu].pc \in {"recibir"} \cup Parada
      BY <3>2, <3>3 DEF SigueCanal, DetenidaEn
    <3>5. QED
      BY <3>1, <3>4 DEF DetenidaEn
  <2>2. QED
    BY <2>1
<1>3. CanalesInv'
  BY <1>1, <1>2 DEF CanalesInv
<1>4. Activas' \in SUBSET Activas
  BY DEF SigueCanal, Activas
<1>5. QED
  BY <1>3, <1>4

\* A CPU that goes on, and whose process and place in the lists do not change.
LEMMA CpuKsSigue ==
  ASSUME NEW d \in Cpus, CpuKs(d), Sigue(d),
         AquiEn(ks', d) = AquiEn(ks, d),
         Tiene(ks'.cpus_libres, d) => Tiene(ks.cpus_libres, d),
         esperando'.cpu = d =>
           esperando' = esperando /\ (oyente'.pc = "ejecutar" <=> oyente.pc = "ejecutar"),
         planificador'.cpu = d => planificador' = planificador
  PROVE  CpuKs(d)'
<1>1. Lleva(a_cpu'[d], de_cpu'[d], cpu_pid'[d], AquiEn(ks', d))
  BY DEF CpuKs, LlevaDe, Aqui, Sigue, SigueCanal
<1>2. /\ hilo_cpu'[d].pc \in {"atender", "syscall", "detener"} => hilo_cpu'[d].pid \in AquiEn(ks', d)
      /\ hilo_cpu'[d].pc \in {"finalizar", "liberar"} => AquiEn(ks', d) = {}
  BY DEF CpuKs, Aqui, Sigue, SigueCanal
<1>3. esperando'.cpu = d =>
        IF oyente'.pc = "ejecutar" THEN esperando'.pid \in AquiEn(ks', d)
        ELSE AquiEn(ks', d) = {}
  BY DEF CpuKs, Aqui
<1>4. planificador'.cpu = d =>
        /\ Quieta(a_cpu'[d], de_cpu'[d], cpu_estado'[d]) /\ hilo_cpu'[d].pc = "recibir"
        /\ planificador'.pid \in AquiEn(ks', d)
  BY DEF CpuKs, Aqui, Sigue, SigueCanal, Ociosa
<1>5. Tiene(ks'.cpus_libres, d) =>
        /\ Quieta(a_cpu'[d], de_cpu'[d], cpu_estado'[d]) /\ hilo_cpu'[d].pc = "recibir"
        /\ AquiEn(ks', d) = {} /\ esperando'.cpu # d
  BY DEF CpuKs, Aqui, Sigue, SigueCanal, Ociosa
<1>6. QED
  BY <1>1, <1>2, <1>3, <1>4, <1>5 DEF CpuKs, LlevaDe, Aqui, Ociosa

\* The lists do not change and every CPU goes on.
LEMMA SigueListas ==
  ASSUME ListasInv, \A d \in Cpus : Sigue(d), UNCHANGED <<ks, planVars, oyente, esperando>>
  PROVE  ListasInv'
<1>1. \A d \in Cpus : CpuKs(d)'
  BY CpuKsSigue DEF ListasInv, planVars
<1>2. Espera' = Espera
  BY DEF Espera
<1>3. KsBien(ks, Espera)
  BY DEF ListasInv
<1>4. KsBien(ks', Espera')
  BY <1>2, <1>3
<1>5. QED
  BY <1>1, <1>4 DEF ListasInv

\* After BSOD no CPU is given a process.
LEMMA SigueBsod ==
  ASSUME BsodInv, FinInv, Activas' \in SUBSET Activas, ks'.exec = ks.exec,
         ks'.colas_ready = ks.colas_ready, cpus_pendientes_bsod' = cpus_pendientes_bsod,
         oyente'.pc = "interrumpir" /\ oyente'.avisos = {} => oyente' = oyente
  PROVE  BsodInv'
<1>1. IsFiniteSet(Activas)
  BY PedidosOK, FS_Subset DEF Activas
<1>2. Cardinality(Activas') <= Cardinality(Activas) /\ Cardinality(Activas) \in Nat
      /\ Cardinality(Activas') \in Nat
  <2>1. IsFiniteSet(Activas')
    BY <1>1, FS_Subset
  <2>2. QED
    BY <1>1, <2>1, FS_Subset, FS_CardinalityType
<1>3. Cardinality(Activas) <= cpus_pendientes_bsod /\ cpus_pendientes_bsod \in Int
  BY DEF BsodInv, FinInv
<1>4. Cardinality(Activas') <= cpus_pendientes_bsod'
  BY <1>2, <1>3
<1>5. oyente'.pc = "interrumpir" /\ oyente'.avisos = {} => Activas' = {}
  BY DEF BsodInv
<1>6. QED
  BY <1>4, <1>5 DEF BsodInv

\* One more notification.
LEMMA CorruptaAgregada ==
  ASSUME NEW s \in Seq(Avisos), NEW m \in Avisos, UnaCorrupta(s)
  PROVE  /\ m = "FIN_COMPACTACION" =>
              (SinCorrupta(Append(s, m)) <=> SinCorrupta(s)) /\ UnaCorrupta(Append(s, m))
         /\ SinCorrupta(s) => UnaCorrupta(Append(s, m))
<1> DEFINE t == Append(s, m)
           n == Len(s) + 1
<1>1. /\ \A i \in DOMAIN s : i \in DOMAIN t /\ t[i] = s[i]
      /\ \A i \in DOMAIN t : (i = n /\ t[i] = m) \/ (i \in DOMAIN s /\ t[i] = s[i])
  BY MensajeAgregado
<1> HIDE DEF t, n
<1>2. m = "FIN_COMPACTACION" => (SinCorrupta(t) <=> SinCorrupta(s))
  BY <1>1 DEF SinCorrupta
<1>3. m = "FIN_COMPACTACION" => UnaCorrupta(t)
  BY <1>1 DEF UnaCorrupta
<1>4. SinCorrupta(s) => UnaCorrupta(t)
  BY <1>1 DEF SinCorrupta, UnaCorrupta
<1>5. QED
  BY <1>2, <1>3, <1>4 DEF t

\* A notification read.
LEMMA CorruptaLeida ==
  ASSUME NEW s \in Seq(Avisos), s # <<>>, UnaCorrupta(s)
  PROVE  /\ UnaCorrupta(Tail(s))
         /\ SinCorrupta(s) => SinCorrupta(Tail(s)) /\ Head(s) # "MEMORIA_CORRUPTA"
         /\ Head(s) = "MEMORIA_CORRUPTA" => SinCorrupta(Tail(s))
         /\ Head(s) # "MEMORIA_CORRUPTA" /\ SinCorrupta(Tail(s)) => SinCorrupta(s)
<1> DEFINE t == Tail(s)
           m == Head(s)
<1>1. /\ \A i \in DOMAIN t : i + 1 \in DOMAIN s /\ t[i] = s[i + 1] /\ i \in Int /\ i + 1 # 1
      /\ 1 \in DOMAIN s /\ s[1] = m
      /\ \A i \in DOMAIN s : i = 1 \/ (i - 1 \in DOMAIN t /\ t[i - 1] = s[i])
  <2>1. /\ \A i \in DOMAIN t : i + 1 \in DOMAIN s /\ t[i] = s[i + 1]
        /\ 1 \in DOMAIN s /\ s[1] = m /\ Len(s) \in Nat
        /\ DOMAIN t = 1 .. Len(s) - 1 /\ DOMAIN s = 1 .. Len(s)
    BY MensajeQuitado
  <2> HIDE DEF t, m
  <2>2. \A i \in DOMAIN s : i # 1 => i - 1 \in DOMAIN t /\ (i - 1) + 1 = i
    BY <2>1
  <2>3. QED
    BY <2>1, <2>2
<1> HIDE DEF t, m
<1>2. UnaCorrupta(t)
  <2>1. ASSUME NEW i \in DOMAIN t, NEW j \in DOMAIN t, t[i] = "MEMORIA_CORRUPTA",
               t[j] = "MEMORIA_CORRUPTA"
        PROVE  i = j
    <3>1. i + 1 = j + 1
      BY <1>1, <2>1 DEF UnaCorrupta
    <3>2. QED
      BY <1>1, <3>1
  <2>2. QED
    BY <2>1 DEF UnaCorrupta
<1>3. SinCorrupta(s) => SinCorrupta(t) /\ m # "MEMORIA_CORRUPTA"
  BY <1>1 DEF SinCorrupta
<1>4. m = "MEMORIA_CORRUPTA" => SinCorrupta(t)
  <2>1. ASSUME m = "MEMORIA_CORRUPTA", NEW i \in DOMAIN t, t[i] = "MEMORIA_CORRUPTA" PROVE FALSE
    <3>1. i + 1 = 1
      BY <1>1, <2>1 DEF UnaCorrupta
    <3>2. QED
      BY <1>1, <3>1
  <2>2. QED
    BY <2>1 DEF SinCorrupta
<1>5. m # "MEMORIA_CORRUPTA" /\ SinCorrupta(t) => SinCorrupta(s)
  BY <1>1 DEF SinCorrupta
<1>6. QED
  BY <1>2, <1>3, <1>4, <1>5 DEF t, m

\* What is known before a step, and what has to hold after it.
Antes == TipoInv /\ TurnoInv /\ TiposInv /\ BienInv /\ Vivo

Despues == TiposInv /\ FinalInv /\ (~ ks_caido => BienInv)

\* A step that no list notices.
LEMMA PasoSigue ==
  ASSUME Antes, \A d \in Cpus : Sigue(d), PerdidaInv',
         UNCHANGED <<ks, planVars, oyente, esperando, finVars>>
  PROVE  Despues'
<1>1. CanalesInv' /\ Activas' \in SUBSET Activas
  BY SigueCanales DEF Antes, BienInv, TipoInv, Sigue
<1>2. ~ bsod_activo' => ListasInv'
  BY SigueListas DEF Antes, BienInv, finVars
<1>3. bsod_activo' => BsodInv'
  <2>1. /\ bsod_activo' = bsod_activo /\ cpus_pendientes_bsod' = cpus_pendientes_bsod
        /\ ks' = ks /\ oyente' = oyente
    BY DEF finVars
  <2>2. QED
    BY <1>1, <2>1, SigueBsod DEF Antes, BienInv, TipoInv
<1>4. TiposInv'
  BY DEF Antes, TiposInv, planVars
<1>5. FinalInv'
  BY DEF Antes, FinalInv, Vivo, finVars
<1>6. QED
  BY <1>1, <1>2, <1>3, <1>4, <1>5 DEF Despues, BienInv

\* The notifications do not change.
LEMMA PerdidaIgual ==
  ASSUME PerdidaInv, UNCHANGED <<stick_vivo, notificaciones, bsod_activo>>,
         oyente'.pc = "interrumpir" => bsod_activo, oyente'.pc = "ejecutar" => ~ bsod_activo
  PROVE  PerdidaInv'
BY DEF PerdidaInv

\* A thread goes on: where it is, and the others.
LEMMA HiloVa ==
  ASSUME hilo_cpu \in [Cpus -> HiloConPid], NEW c \in Cpus
  PROVE  /\ Recibir(c) => /\ hilo_cpu'[c].pc = "recibir"
                          /\ \A d \in Cpus : d # c => hilo_cpu'[d] = hilo_cpu[d]
         /\ \A pc : Al(c, pc) => /\ hilo_cpu'[c].pc = pc
                                 /\ hilo_cpu'[c].pid = hilo_cpu[c].pid
                                 /\ \A d \in Cpus : d # c => hilo_cpu'[d] = hilo_cpu[d]
         /\ \A d \in Cpus : hilo_cpu[d] \in Hilo
<1>1. \A d \in Cpus : hilo_cpu[d] \in Hilo
  BY DEF HiloConPid
<1>2. Recibir(c) => /\ hilo_cpu'[c].pc = "recibir"
                    /\ \A d \in Cpus : d # c => hilo_cpu'[d] = hilo_cpu[d]
  BY DEF Recibir, HiloEn
<1>3. ASSUME NEW pc, Al(c, pc)
      PROVE  /\ hilo_cpu'[c].pc = pc /\ hilo_cpu'[c].pid = hilo_cpu[c].pid
             /\ \A d \in Cpus : d # c => hilo_cpu'[d] = hilo_cpu[d]
  <2>1. hilo_cpu'[c] = [hilo_cpu[c] EXCEPT !.pc = pc]
    BY <1>3 DEF Al
  <2>2. hilo_cpu'[c].pc = pc /\ hilo_cpu'[c].pid = hilo_cpu[c].pid
    BY <1>1, <2>1 DEF Hilo
  <2>3. QED
    BY <1>3, <2>2 DEF Al
<1>4. QED
  BY <1>1, <1>2, <1>3

\* A thread goes on without a message, and every CPU.
LEMMA SigueHilos ==
  ASSUME Antes, NEW c \in Cpus, UNCHANGED <<canales, cpuVars>>,
         \/ Recibir(c)
         \/ Al(c, "liberar") /\ En(c, "finalizar")
         \/ Al(c, "sin_respuesta") /\ En(c, "finalizar")
         \/ Al(c, "sin_respuesta") /\ En(c, "syscall") /\ hilo_cpu[c].op \in Mem
         \/ Al(c, "desalojar") /\ En(c, "detener")
  PROVE  \A d \in Cpus : Sigue(d)
<1>1. hilo_cpu \in [Cpus -> HiloConPid] /\ \A d \in Cpus : CanalDe(d) /\ Igual(d)
  BY DEF Antes, TipoInv, HilosInv, BienInv, CanalesInv, Igual, canales, cpuVars
<1>2. /\ \/ hilo_cpu'[c].pc = "recibir"
         \/ hilo_cpu'[c].pc = "liberar" /\ hilo_cpu[c].pc = "finalizar"
         \/ hilo_cpu'[c].pc = "sin_respuesta" /\ hilo_cpu[c].pc = "finalizar"
         \/ /\ hilo_cpu'[c].pc = "sin_respuesta" /\ hilo_cpu[c].pc = "syscall"
            /\ hilo_cpu[c].op \in Mem
         \/ hilo_cpu'[c].pc = "desalojar" /\ hilo_cpu[c].pc = "detener"
      /\ \A d \in Cpus : d # c => hilo_cpu'[d] = hilo_cpu[d]
  BY <1>1, HiloVa DEF En
<1>3. Sigue(c)
  BY <1>1, <1>2, SigueHilo
<1>4. \A d \in Cpus : d # c => Sigue(d)
  BY <1>1, <1>2, SigueIgual
<1>5. QED
  BY <1>3, <1>4

\* A syscall of memory is answered.
LEMMA SigueContesta ==
  ASSUME Antes, NEW c \in Cpus, UNCHANGED <<de_cpu, cpuVars>>,
         En(c, "syscall"), hilo_cpu[c].op \in Mem,
         \/ (Contesta(c, "OK") \/ Contesta(c, "ERROR")) /\ Recibir(c)
         \/ Contesta(c, "BLOQUEADO") /\ Al(c, "detener")
  PROVE  \A d \in Cpus : Sigue(d)
<1>1. /\ hilo_cpu \in [Cpus -> HiloConPid] /\ a_cpu \in [Cpus -> Seq(Mensaje)]
      /\ \A d \in Cpus : CanalDe(d)
  BY DEF Antes, TipoInv, CpuInv, HilosInv, BienInv, CanalesInv
<1>2. PICK op \in {"OK", "ERROR", "BLOQUEADO"} :
        /\ a_cpu' = AlCpu(a_cpu, c, op, Nadie)
        /\ \/ op \in {"OK", "ERROR"} /\ Recibir(c)
           \/ op = "BLOQUEADO" /\ Al(c, "detener")
  BY DEF Contesta
<1> DEFINE m == [op |-> op, pid |-> Nadie]
           a == a_cpu[c]
           d0 == de_cpu[c]
           e == cpu_estado[c]
           p == cpu_pid[c]
           h == hilo_cpu[c]
           h1 == hilo_cpu'[c]
<1>3. /\ a_cpu'[c] = Append(a, m) /\ de_cpu'[c] = d0 /\ cpu_estado'[c] = e /\ cpu_pid'[c] = p
      /\ \A d \in Cpus : d # c => Igual(d)
  BY <1>1, <1>2 DEF AlCpu, Igual, cpuVars
<1>4. /\ m.op = op /\ h.pc = "syscall" /\ h.op \in Mem
      /\ \/ m.op \in {"OK", "ERROR"} /\ h1.pc = "recibir"
         \/ m.op = "BLOQUEADO" /\ h1.pc = "detener" /\ h1.pid = h.pid
      /\ \A d \in Cpus : d # c => hilo_cpu'[d] = hilo_cpu[d]
  BY <1>1, <1>2, HiloVa DEF En
<1>5. a \in Seq(Mensaje) /\ Canal(a, d0, e, p, h)
  BY <1>1 DEF CanalDe
<1> HIDE DEF m, a, d0, e, p, h, h1
<1>6. /\ Canal(Append(a, m), d0, e, p, h1)
      /\ \A S : Lleva(a, d0, p, S) => Lleva(Append(a, m), d0, p, S)
  BY <1>4, <1>5, CanalContesta
<1>7. ~ Orden(m) /\ Vacio(a) /\ e = "respuesta" /\ d0 = <<>>
  BY <1>4, <1>5 DEF Canal, Orden
<1>8. /\ SinOrdenes(Append(a, m)) <=> SinOrdenes(a) /\ ~ Orden(m)
      /\ SinBloqueado(Append(a, m)) <=> SinBloqueado(a) /\ m.op # "BLOQUEADO"
  BY <1>5, Enviado
<1>9. ~ Quieta(a, d0, e)
  BY <1>7 DEF Quieta
<1>10. Activa(Append(a, m), d0, p) => Activa(a, d0, p)
  BY <1>7, <1>8 DEF Activa
<1>11. h.pc \notin {"recibir"} \cup Parada
  BY <1>4 DEF Parada
<1>12. Sigue(c)
  BY <1>3, <1>4, <1>6, <1>9, <1>10, <1>11 DEF Sigue, SigueCanal, a, d0, e, p, h, h1
<1>13. \A d \in Cpus : d # c => Sigue(d)
  BY <1>1, <1>3, <1>4, SigueIgual
<1>14. QED
  BY <1>12, <1>13

\* What desalojar_todas_las_cpus and manejar_bsod send to a CPU are interrupts.
LEMMA SonInterrupciones ==
  ASSUME a_cpu \in [Cpus -> Seq(Mensaje)], NEW quienes, a_cpu' = Interrumpir(a_cpu, quienes),
         NEW c \in Cpus
  PROVE  \E t \in Seq(Mensaje) : /\ a_cpu'[c] = a_cpu[c] \o t
                                 /\ \A i \in DOMAIN t : t[i].op = "INTERRUMPIR_PROCESO"
<1> DEFINE S == Suspensiones(quienes, c)
           t == SetToSeq(S)
<1>1. t \in Seq(Mensaje) /\ a_cpu'[c] = a_cpu[c] \o t
  BY InterrumpirTipo
<1>2. ASSUME NEW m \in S PROVE m.op = "INTERRUMPIR_PROCESO"
  <2>1. PICK p \in {q \in Pids : <<c, q>> \in quienes} :
          m = [op |-> "INTERRUMPIR_PROCESO", pid |-> p]
    BY DEF Suspensiones
  <2>2. QED
    BY <2>1
<1>3. IsFiniteSet(S)
  BY SuspensionesFinitas
<1> HIDE DEF S
<1>4. t \in Seq(S)
  BY <1>3, SetToSeqEs
<1> HIDE DEF t
<1>5. \A i \in DOMAIN t : t[i] \in S
  BY <1>4, ElementOfSeq, LenProperties
<1>6. QED
  BY <1>1, <1>2, <1>5

\* Interrupts are sent, and every CPU goes on.
LEMMA SigueInterrumpe ==
  ASSUME Antes, NEW quienes, a_cpu' = Interrumpir(a_cpu, quienes), UNCHANGED <<de_cpu, cpuVars>>,
         \/ hilo_cpu' = hilo_cpu
         \/ \E c \in Cpus : En(c, "desalojar") /\ Al(c, "confirmar")
  PROVE  \A d \in Cpus : Sigue(d)
<1> SUFFICES ASSUME NEW c \in Cpus PROVE Sigue(c)
  OBVIOUS
<1>1. /\ hilo_cpu \in [Cpus -> HiloConPid] /\ a_cpu \in [Cpus -> Seq(Mensaje)] /\ CanalDe(c)
  BY DEF Antes, TipoInv, CpuInv, HilosInv, BienInv, CanalesInv
<1>2. PICK t \in Seq(Mensaje) : /\ a_cpu'[c] = a_cpu[c] \o t
                                /\ \A i \in DOMAIN t : t[i].op = "INTERRUMPIR_PROCESO"
  BY <1>1, SonInterrupciones
<1> DEFINE a == a_cpu[c]
           d0 == de_cpu[c]
           e == cpu_estado[c]
           p == cpu_pid[c]
           h == hilo_cpu[c]
           h1 == hilo_cpu'[c]
<1>3. /\ a_cpu'[c] = a \o t /\ de_cpu'[c] = d0 /\ cpu_estado'[c] = e /\ cpu_pid'[c] = p
  BY <1>1, <1>2 DEF cpuVars
<1>4. h1 = h \/ (h1.pc = "confirmar" /\ h.pc = "desalojar")
  BY <1>1, HiloVa DEF En
<1>5. a \in Seq(Mensaje) /\ Canal(a, d0, e, p, h)
  BY <1>1 DEF CanalDe
<1> HIDE DEF a, d0, e, p, h, h1
<1>6. /\ Canal(a \o t, d0, e, p, h)
      /\ \A S : Lleva(a, d0, p, S) => Lleva(a \o t, d0, p, S)
      /\ Detenida(a, d0, e) => Detenida(a \o t, d0, e)
      /\ Quieta(a, d0, e) => Quieta(a \o t, d0, e)
      /\ Activa(a \o t, d0, p) => Activa(a, d0, p)
  BY <1>2, <1>5, CanalInterrumpido
<1>7. Canal(a \o t, d0, e, p, h1)
  BY <1>4, <1>6, CanalHilo
<1>8. /\ h.pc \in {"recibir"} \cup Parada => h1.pc \in {"recibir"} \cup Parada
      /\ h.pc = "recibir" => h1.pc = "recibir"
      /\ h1.pc \in {"atender", "syscall", "detener"} => h1 = h
      /\ h1.pc \in {"finalizar", "liberar"} => h1 = h
  BY <1>4 DEF Parada
<1>9. QED
  BY <1>3, <1>6, <1>7, <1>8 DEF Sigue, SigueCanal, a, d0, e, p, h, h1

-----------------------------------------------------------------------------
(* Every step keeps the invariant.                                          *)

\* A step of a CPU.
LEMMA DespuesCpu ==
  ASSUME Antes, NEW c \in Cpus, PasoCpu(c)
  PROVE  Despues'
<1>1. CpuMemoriaPaso(c) /\ UNCHANGED <<ks, planVars, hilo_cpu, oyente, kmVars, compVars, finVars>>
  BY DEF PasoCpu
<1>2. \A d \in Cpus : Sigue(d)
  BY <1>1, SigueCpu DEF Antes, TipoInv, BienInv
<1>3. PerdidaInv'
  BY <1>1, PerdidaIgual DEF Antes, BienInv, PerdidaInv, kmVars, finVars
<1>4. QED
  BY <1>1, <1>2, <1>3, PasoSigue DEF compVars

\* The requests of memory and their answers.
LEMMA DespuesMemoria ==
  ASSUME Antes, NEW c \in Cpus,
         \/ ExitFinaliza(c) \/ PedirSegmentoOk(c) \/ PedirSegmentoError(c)
         \/ PedirSegmentoCompactar(c) \/ EliminarSegmento(c) \/ DesalojarTodasLasCpus(c)
         \/ Compactar(c)
  PROVE  Despues'
<1>1. UNCHANGED <<ks, planVars, oyente, esperando, finVars, cpuVars>>
  BY DEF ExitFinaliza, PedirSegmentoOk, PedirSegmentoError, PedirSegmentoCompactar,
         EliminarSegmento, DesalojarTodasLasCpus, Compactar, SinPlan, SinCpu, compVars
<1>2. \A d \in Cpus : Sigue(d)
  <2>1. CASE ExitFinaliza(c)
    <3>1. UNCHANGED canales /\ En(c, "finalizar") /\ (Al(c, "sin_respuesta") \/ Al(c, "liberar"))
      BY <2>1 DEF ExitFinaliza, PedidoTomadoPorConfirmacion
    <3>2. QED
      BY <1>1, <3>1, SigueHilos
  <2>2. CASE PedirSegmentoOk(c) \/ PedirSegmentoError(c)
    <3>1. /\ UNCHANGED de_cpu /\ En(c, "syscall") /\ hilo_cpu[c].op \in Mem
          /\ (Contesta(c, "OK") \/ Contesta(c, "ERROR")) /\ Recibir(c)
      BY <2>2 DEF PedirSegmentoOk, PedirSegmentoError, MemoriaLibre, SinPlan, Mem
    <3>2. QED
      BY <1>1, <3>1, SigueContesta
  <2>3. CASE PedirSegmentoCompactar(c)
    <3>1. /\ UNCHANGED de_cpu /\ En(c, "syscall") /\ hilo_cpu[c].op \in Mem
          /\ Contesta(c, "BLOQUEADO") /\ Al(c, "detener")
      BY <2>3 DEF PedirSegmentoCompactar, MemoriaLibre, SinPlan, Mem
    <3>2. QED
      BY <1>1, <3>1, SigueContesta
  <2>4. CASE EliminarSegmento(c)
    <3>1. /\ UNCHANGED de_cpu /\ En(c, "syscall") /\ hilo_cpu[c].op \in Mem
          /\ (Contesta(c, "OK") \/ Contesta(c, "ERROR")) /\ Recibir(c)
      BY <2>4 DEF EliminarSegmento, MemoriaLibre, SinPlan, Mem
    <3>2. QED
      BY <1>1, <3>1, SigueContesta
  <2>5. CASE DesalojarTodasLasCpus(c)
    <3>1. /\ a_cpu' = Interrumpir(a_cpu, EnEjecucion) /\ UNCHANGED de_cpu
          /\ En(c, "desalojar") /\ Al(c, "confirmar")
      BY <2>5 DEF DesalojarTodasLasCpus
    <3>2. QED
      BY <1>1, <3>1, SigueInterrumpe
  <2>6. CASE Compactar(c)
    <3>1. UNCHANGED canales /\ Recibir(c)
      BY <2>6 DEF Compactar
    <3>2. QED
      BY <1>1, <3>1, SigueHilos
  <2>7. QED
    BY <2>1, <2>2, <2>3, <2>4, <2>5, <2>6
<1>3. PerdidaInv'
  <2>1. CASE Compactar(c)
    <3>1. /\ notificaciones' = Append(notificaciones, "FIN_COMPACTACION")
          /\ UNCHANGED <<stick_vivo, oyente, finVars>>
      BY <2>1 DEF Compactar
    <3>2. notificaciones \in Seq(Avisos) /\ PerdidaInv
      BY DEF Antes, TipoInv, MemoriaInv, BienInv
    <3>3. /\ SinCorrupta(notificaciones') <=> SinCorrupta(notificaciones)
          /\ UnaCorrupta(notificaciones')
      BY <3>1, <3>2, CorruptaAgregada DEF PerdidaInv, Avisos
    <3>4. QED
      BY <3>1, <3>2, <3>3 DEF PerdidaInv, finVars
  <2>2. CASE ~ Compactar(c)
    <3>1. UNCHANGED <<stick_vivo, notificaciones>>
      BY <2>2 DEF ExitFinaliza, PedidoTomadoPorConfirmacion, PedirSegmentoOk,
                  PedirSegmentoError, PedirSegmentoCompactar, EliminarSegmento,
                  DesalojarTodasLasCpus, kmVars
    <3>2. QED
      BY <1>1, <3>1, PerdidaIgual DEF Antes, BienInv, PerdidaInv, finVars
  <2>3. QED
    BY <2>1, <2>2
<1>4. QED
  BY <1>1, <1>2, <1>3, PasoSigue

\* What is known of a CPU and its thread before a step.
LEMMA DeCpu ==
  ASSUME Antes, NEW c \in Cpus
  PROVE  /\ CanalDe(c) /\ hilo_cpu[c] \in Hilo /\ hilo_cpu \in [Cpus -> HiloConPid]
         /\ c # Nulo /\ Espera \in Pids \cup {Nadie} /\ ks \in TipoKs(Cpus)
         /\ esperando.cpu = c => esperando # Ninguno /\ DetenidaEn(c)
         /\ planificador.cpu = c => planificador # Ninguno
         /\ ~ bsod_activo => CpuKs(c) /\ KsBien(ks, Espera)
         /\ bsod_activo => BsodInv
<1>1. CanalDe(c) /\ (~ bsod_activo => CpuKs(c) /\ KsBien(ks, Espera)) /\ (bsod_activo => BsodInv)
  BY DEF Antes, BienInv, CanalesInv, ListasInv
<1>2. /\ hilo_cpu[c] \in Hilo /\ hilo_cpu \in [Cpus -> HiloConPid] /\ c # Nulo
      /\ ks \in TipoKs(Cpus) /\ esperando \in [pid : Pids, cpu : Cpus] \cup {Ninguno}
  BY PedidosOK DEF Antes, TipoInv, HilosInv, HiloConPid, TiposInv
<1>3. Ninguno.cpu = Nulo
  BY DEF Ninguno
<1>4. Espera \in Pids \cup {Nadie}
  BY <1>2 DEF Espera
<1>5. esperando # Ninguno => DetenidaEn(esperando.cpu)
  BY DEF Antes, BienInv, CanalesInv
<1>6. QED
  BY <1>1, <1>2, <1>3, <1>4, <1>5

\* A thread that has something in hand, and no syscall of memory: its CPU runs
\* nothing.
LEMMA EnManoQuieta ==
  ASSUME NEW a, NEW d, NEW e, NEW p, NEW h, Canal(a, d, e, p, h)
  PROVE  /\ h.pc \in {"atender", "finalizar", "liberar"} => Quieta(a, d, e)
         /\ h.pc = "syscall" /\ h.op \notin Mem => Quieta(a, d, e)
         /\ h.pc = "detener" => Detenida(a, d, e)
         /\ Detenida(a, d, e) => \A S : Lleva(a, d, p, S)
         /\ Quieta(a, d, e) => Detenida(a, d, e)
         /\ Lleva(a, d, p, {}) => ~ Activa(a, d, p)
<1>1. h.pc \in {"atender", "finalizar", "liberar"} => Quieta(a, d, e)
  BY DEF Canal, Quieta
<1>2. h.pc = "syscall" /\ h.op \notin Mem => Quieta(a, d, e)
  BY DEF Canal, Quieta
<1>3. h.pc = "detener" => Detenida(a, d, e)
  BY DEF Canal, Detenida
<1>4. Detenida(a, d, e) => \A S : Lleva(a, d, p, S)
  <2>1. ASSUME Detenida(a, d, e), NEW S PROVE Lleva(a, d, p, S)
    <3>1. OrdenesEn(a, S)
      BY <2>1 DEF Detenida, OrdenesEn, SinOrdenes
    <3>2. d = <<>> /\ (p # Nadie => ~ SinBloqueado(a))
      BY <2>1 DEF Canal, Detenida
    <3>3. QED
      BY <3>1, <3>2 DEF Lleva
  <2>2. QED
    BY <2>1
<1>5. Quieta(a, d, e) => Detenida(a, d, e)
  BY DEF Quieta, Detenida
<1>6. Lleva(a, d, p, {}) => ~ Activa(a, d, p)
  BY DEF Lleva, Activa, OrdenesEn, SinOrdenes
<1>7. QED
  BY <1>1, <1>2, <1>3, <1>4, <1>5, <1>6

\* A step that changes the lists and leaves the rest to the threads.
LEMMA PasoKs ==
  ASSUME Antes, ~ bsod_activo, \A d \in Cpus : SigueCanal(d),
         UNCHANGED <<planVars, oyente, esperando, notificaciones, stick_vivo, finVars>>,
         ks' \in TipoKs(Cpus), KsBien(ks', Espera), \A d \in Cpus : CpuKs(d)'
  PROVE  Despues'
<1>1. CanalesInv'
  BY SigueCanales DEF Antes, BienInv, TipoInv
<1>2. PerdidaInv'
  BY PerdidaIgual DEF Antes, BienInv, PerdidaInv, finVars
<1>3. Espera' = Espera
  BY DEF Espera
<1>4. ListasInv'
  BY <1>3 DEF ListasInv
<1>5. TiposInv'
  BY DEF Antes, TiposInv, planVars
<1>6. FinalInv'
  BY DEF Antes, FinalInv, Vivo, finVars
<1>7. QED
  BY <1>1, <1>2, <1>4, <1>5, <1>6 DEF Despues, BienInv, finVars

\* A thread leaves its CPU with nothing to run.
LEMMA CpuSinNada ==
  ASSUME Antes, ~ bsod_activo, NEW c \in Cpus, UNCHANGED <<canales, cpuVars>>, Recibir(c),
         hilo_cpu[c].pc \in {"atender", "liberar"}
           \/ (hilo_cpu[c].pc = "syscall" /\ hilo_cpu[c].op \notin Mem),
         UNCHANGED <<planVars, esperando>>, AquiEn(ks', c) = {}
  PROVE  CpuKs(c)'
<1>1. /\ CanalDe(c) /\ CpuKs(c) /\ hilo_cpu \in [Cpus -> HiloConPid]
      /\ esperando.cpu = c => DetenidaEn(c)
  BY DeCpu
<1>2. Quieta(a_cpu[c], de_cpu[c], cpu_estado[c])
      /\ \A S : Lleva(a_cpu[c], de_cpu[c], cpu_pid[c], S)
  <2>1. Canal(a_cpu[c], de_cpu[c], cpu_estado[c], cpu_pid[c], hilo_cpu[c])
    BY <1>1 DEF CanalDe
  <2>2. QED
    BY <2>1, EnManoQuieta
<1>3. hilo_cpu[c].pc \notin {"recibir"} \cup Parada
  BY DEF Parada
<1>4. esperando.cpu # c
  BY <1>1, <1>3 DEF DetenidaEn
<1>5. planificador.cpu # c
  BY <1>1, <1>3 DEF CpuKs, Ociosa
<1>6. hilo_cpu'[c].pc = "recibir"
  BY <1>1, HiloVa
<1>7. /\ Lleva(a_cpu'[c], de_cpu'[c], cpu_pid'[c], AquiEn(ks', c))
      /\ Quieta(a_cpu'[c], de_cpu'[c], cpu_estado'[c])
  BY <1>2 DEF canales, cpuVars
<1>8. esperando'.cpu # c /\ planificador'.cpu # c
  BY <1>4, <1>5 DEF planVars
<1>9. QED
  BY <1>6, <1>7, <1>8 DEF CpuKs, LlevaDe, Aqui, Ociosa

\* A thread that has something in hand has a process of its CPU, which is not
\* free.
LEMMA EnManoKs ==
  ASSUME Antes, ~ bsod_activo, NEW c \in Cpus, hilo_cpu[c].pc # "recibir"
  PROVE  /\ ~ Tiene(ks.cpus_libres, c) /\ planificador.cpu # c
         /\ hilo_cpu[c].pc \in {"atender", "syscall", "detener"} => PidDe(c) \in AquiEn(ks, c)
         /\ hilo_cpu[c].pc \in {"finalizar", "liberar"} => AquiEn(ks, c) = {}
         /\ hilo_cpu[c].pc \notin Parada => esperando.cpu # c
<1>1. CpuKs(c) /\ (esperando.cpu = c => DetenidaEn(c))
  BY DeCpu
<1>2. QED
  BY <1>1 DEF CpuKs, Ociosa, Aqui, PidDe, DetenidaEn

\* The CPUs, when only the thread and the CPU c are concerned.
LEMMA OtrasCpus ==
  ASSUME Antes, ~ bsod_activo, NEW c \in Cpus, \A d \in Cpus : d # c => Sigue(d), CpuKs(c)',
         UNCHANGED <<planVars, esperando, oyente>>,
         \A d \in Cpus : d # c => /\ AquiEn(ks', d) = AquiEn(ks, d)
                                  /\ Tiene(ks'.cpus_libres, d) => Tiene(ks.cpus_libres, d)
  PROVE  \A d \in Cpus : CpuKs(d)'
<1>1. ASSUME NEW d \in Cpus, d # c PROVE CpuKs(d)'
  <2>1. CpuKs(d) /\ Sigue(d)
    BY <1>1 DEF Antes, BienInv, ListasInv
  <2>2. QED
    BY <1>1, <2>1, CpuKsSigue DEF planVars
<1>2. QED
  BY <1>1

\* manejar_fin_quantum.
LEMMA DespuesFinQuantum ==
  ASSUME Antes, NEW c \in Cpus, ManejarFinQuantum(c)
  PROVE  Despues'
<1> DEFINE p == PidDe(c)
           k == SacarDeExec(ks, p, "READY")
<1>1. /\ hilo_cpu[c].pc = "atender" /\ Recibir(c)
      /\ UNCHANGED <<canales, cpuVars, planVars, oyente, kmVars, esperando, finVars>>
      /\ p \notin ks.exec => ks' = ks
      /\ p \in ks.exec => \/ ks' = LiberarCpu(EncolarAlFrente(k, p), c)
                          \/ ks' = LiberarCpu(Encolar(k, p), c)
  BY DEF ManejarFinQuantum, En, SinCpu, compVars
<1>2. \A d \in Cpus : Sigue(d)
  BY <1>1, SigueHilos
<1>3. CASE bsod_activo
  <2>1. ks' = ks
    BY <1>1, <1>3, DeCpu DEF BsodInv
  <2>2. PerdidaInv'
    BY <1>1, PerdidaIgual DEF Antes, BienInv, PerdidaInv, kmVars, finVars
  <2>3. QED
    BY <1>1, <1>2, <2>1, <2>2, PasoSigue
<1>4. CASE ~ bsod_activo
  <2>1. /\ p \in AquiEn(ks, c) /\ ~ Tiene(ks.cpus_libres, c)
        /\ ks \in TipoKs(Cpus) /\ KsBien(ks, Espera) /\ Espera \in Pids \cup {Nadie}
    BY <1>1, <1>4, EnManoKs, DeCpu
  <2>2. p \in ks.exec
    BY <2>1 DEF AquiEn
  <2>3. Mueve(ks, ks', Espera, p, "READY", c, {}) /\ ConCpu(ks, ks', c)
    <3>1. PICK k0 \in {Encolar(k, p), EncolarAlFrente(k, p)} : ks' = LiberarCpu(k0, c)
      BY <1>1, <2>2
    <3>2. QED
      BY <2>1, <3>1, FinQuantumKs
  <2>4. CpuKs(c)'
    BY <1>1, <1>4, <2>3, CpuSinNada DEF Mueve
  <2>5. \A d \in Cpus : CpuKs(d)'
    BY <1>1, <1>2, <1>4, <2>3, <2>4, OtrasCpus DEF Mueve, ConCpu
  <2>6. QED
    BY <1>1, <1>2, <1>4, <2>3, <2>5, PasoKs DEF Sigue, kmVars, Mueve
<1>5. QED
  BY <1>3, <1>4

\* manejar_proceso_exit.
LEMMA DespuesExit ==
  ASSUME Antes, NEW c \in Cpus, ManejarProcesoExit(c)
  PROVE  Despues'
<1> DEFINE p == PidDe(c)
<1>1. /\ hilo_cpu[c].pc = "atender"
      /\ UNCHANGED <<canales, cpuVars, planVars, oyente, kmVars, esperando, finVars>>
      /\ p \notin ks.exec => ks' = ks /\ Recibir(c)
      /\ p \in ks.exec => /\ ks' = CancelarTimer(SacarDeExec(ks, p, "EXIT"), p)
                          /\ Al(c, "finalizar")
  BY DEF ManejarProcesoExit, En, SinCpu, compVars
<1>2. CASE bsod_activo
  <2>1. ks' = ks /\ Recibir(c)
    BY <1>1, <1>2, DeCpu DEF BsodInv
  <2>2. PerdidaInv'
    BY <1>1, PerdidaIgual DEF Antes, BienInv, PerdidaInv, kmVars, finVars
  <2>3. \A d \in Cpus : Sigue(d)
    BY <1>1, <2>1, SigueHilos
  <2>4. QED
    BY <1>1, <2>1, <2>2, <2>3, PasoSigue
<1>3. CASE ~ bsod_activo
  <2>1. /\ p \in AquiEn(ks, c) /\ ~ Tiene(ks.cpus_libres, c)
        /\ esperando.cpu # c /\ planificador.cpu # c
    BY <1>1, <1>3, EnManoKs DEF Parada
  <2>2. /\ ks \in TipoKs(Cpus) /\ KsBien(ks, Espera) /\ Espera \in Pids \cup {Nadie}
        /\ CanalDe(c) /\ CpuKs(c) /\ hilo_cpu \in [Cpus -> HiloConPid]
    BY <1>3, DeCpu
  <2>3. /\ ks' = CancelarTimer(SacarDeExec(ks, p, "EXIT"), p) /\ Al(c, "finalizar")
    BY <1>1, <2>1 DEF AquiEn
  <2>4. Mueve(ks, ks', Espera, p, "EXIT", c, {}) /\ ks'.cpus_libres = ks.cpus_libres
    BY <2>1, <2>2, <2>3, ExitKs
  <2>5. /\ hilo_cpu'[c].pc = "finalizar"
        /\ \A d \in Cpus : d # c => hilo_cpu'[d] = hilo_cpu[d]
    BY <2>2, <2>3, HiloVa
  <2>6. \A d \in Cpus : CanalDe(d) /\ Igual(d)
    BY <1>1, DeCpu DEF canales, cpuVars, Igual
  <2>7. \A d \in Cpus : d # c => Sigue(d)
    BY <2>5, <2>6, SigueIgual
  <2>8. SigueCanal(c)
    <3>1. Canal(a_cpu[c], de_cpu[c], cpu_estado[c], cpu_pid[c], hilo_cpu'[c])
      BY <1>1, <2>2, <2>5, CanalHilo DEF CanalDe
    <3>2. hilo_cpu[c].pc \notin {"recibir"} \cup Parada
      BY <1>1 DEF Parada
    <3>3. Igual(c)
      BY <2>6
    <3>4. QED
      BY <3>1, <3>2, <3>3 DEF SigueCanal, Igual
  <2>9. CpuKs(c)'
    <3>1. Canal(a_cpu[c], de_cpu[c], cpu_estado[c], cpu_pid[c], hilo_cpu[c])
      BY <2>2 DEF CanalDe
    <3>2. Lleva(a_cpu[c], de_cpu[c], cpu_pid[c], AquiEn(ks', c))
      BY <1>1, <3>1, EnManoQuieta
    <3>3. Lleva(a_cpu'[c], de_cpu'[c], cpu_pid'[c], AquiEn(ks', c))
      BY <2>6, <3>2 DEF Igual
    <3>4. esperando'.cpu # c /\ planificador'.cpu # c /\ ~ Tiene(ks'.cpus_libres, c)
      BY <1>1, <2>1, <2>4 DEF planVars
    <3>5. QED
      BY <2>4, <2>5, <3>3, <3>4 DEF Mueve, CpuKs, LlevaDe, Aqui
  <2>10. \A d \in Cpus : CpuKs(d)'
    BY <1>1, <1>3, <2>4, <2>7, <2>9, OtrasCpus DEF Mueve
  <2>11. \A d \in Cpus : SigueCanal(d)
    BY <2>7, <2>8 DEF Sigue
  <2>12. QED
    BY <1>1, <1>3, <2>4, <2>10, <2>11, PasoKs DEF kmVars, Mueve
<1>4. QED
  BY <1>2, <1>3

\* After BSOD the lists do not matter.
LEMMA PasoBsod ==
  ASSUME Antes, bsod_activo, \A d \in Cpus : SigueCanal(d),
         UNCHANGED <<planVars, oyente, esperando, notificaciones, stick_vivo, finVars>>,
         ks' \in TipoKs(Cpus), ks'.exec = ks.exec, ks'.colas_ready = ks.colas_ready
  PROVE  Despues'
<1>1. CanalesInv' /\ Activas' \in SUBSET Activas
  BY SigueCanales DEF Antes, BienInv, TipoInv
<1>2. PerdidaInv'
  BY PerdidaIgual DEF Antes, BienInv, PerdidaInv, finVars
<1>3. BsodInv'
  <2>1. cpus_pendientes_bsod' = cpus_pendientes_bsod /\ oyente' = oyente
    BY DEF finVars
  <2>2. QED
    BY <1>1, <2>1, SigueBsod DEF Antes, BienInv, TipoInv
<1>4. TiposInv' /\ FinalInv'
  BY DEF Antes, TiposInv, FinalInv, Vivo, planVars, finVars
<1>5. QED
  BY <1>1, <1>2, <1>3, <1>4 DEF Despues, BienInv, finVars

\* The scheduler uses a process that was freed.
LEMMA PasoCaido ==
  ASSUME Antes, bsod_activo, UsaLiberado, UNCHANGED <<ks, planificador>>,
         oyente'.avisos = oyente.avisos
  PROVE  Despues'
BY DEF Antes, Despues, TiposInv, FinalInv, UsaLiberado, Vivo

\* The CPU of a process that ended is free.
LEMMA DespuesLibera ==
  ASSUME Antes, NEW c \in Cpus, ExitLibera(c)
  PROVE  Despues'
<1>1. /\ hilo_cpu[c].pc = "liberar" /\ Recibir(c) /\ ks' = LiberarCpu(ks, c)
      /\ UNCHANGED <<canales, cpuVars, planVars, oyente, kmVars, esperando, finVars>>
  BY DEF ExitLibera, En, SinCpu, compVars
<1>2. \A d \in Cpus : Sigue(d)
  BY <1>1, SigueHilos
<1>3. ks \in TipoKs(Cpus)
  BY DEF Antes, TiposInv
<1>4. CASE bsod_activo
  <2>1. Append(ks.cpus_libres, c) \in Seq(Cpus)
    BY <1>3, AppendProperties DEF TipoKs
  <2>2. ks' \in TipoKs(Cpus) /\ ks'.exec = ks.exec /\ ks'.colas_ready = ks.colas_ready
    BY <1>1, <1>3, <2>1 DEF TipoKs, LiberarCpu
  <2>3. QED
    BY <1>1, <1>2, <1>4, <2>2, PasoBsod DEF Sigue, kmVars
<1>5. CASE ~ bsod_activo
  <2>1. ~ Tiene(ks.cpus_libres, c) /\ AquiEn(ks, c) = {} /\ KsBien(ks, Espera)
    BY <1>1, <1>5, EnManoKs, DeCpu
  <2>2. /\ ks' \in TipoKs(Cpus) /\ KsBien(ks', Espera)
        /\ \A d \in Cpus : AquiEn(ks', d) = AquiEn(ks, d)
        /\ ConCpu(ks, ks', c)
    BY <1>1, <1>3, <2>1, LiberarKs
  <2>3. CpuKs(c)'
    BY <1>1, <1>5, <2>1, <2>2, CpuSinNada
  <2>4. \A d \in Cpus : CpuKs(d)'
    BY <1>1, <1>2, <1>5, <2>2, <2>3, OtrasCpus DEF ConCpu
  <2>5. QED
    BY <1>1, <1>2, <1>5, <2>2, <2>4, PasoKs DEF Sigue, kmVars
<1>6. QED
  BY <1>4, <1>5

\* OP_IO_SLEEP.
LEMMA DespuesSleep ==
  ASSUME Antes, NEW c \in Cpus, ManejarIoSleep(c)
  PROVE  Despues'
<1>1. /\ hilo_cpu[c].pc = "syscall" /\ hilo_cpu[c].op \notin Mem /\ Recibir(c)
      /\ UNCHANGED <<canales, cpuVars, planVars, oyente, kmVars, esperando>>
      /\ bsod_activo => UsaLiberado /\ ks' = ks
      /\ ~ bsod_activo =>
           /\ ks' = [Bloquear(ks, PidDe(c)) EXCEPT !.cola_io["SLEEP"] = Append(@, PidDe(c))]
           /\ UNCHANGED finVars
  BY DEF ManejarIoSleep, En, SinCpu, compVars, Mem
<1>2. CASE bsod_activo
  BY <1>1, <1>2, PasoCaido DEF planVars
<1>3. CASE ~ bsod_activo
  <2> DEFINE p == PidDe(c)
  <2>1. \A d \in Cpus : Sigue(d)
    BY <1>1, SigueHilos
  <2>2. /\ p \in AquiEn(ks, c) /\ ~ Tiene(ks.cpus_libres, c)
        /\ ks \in TipoKs(Cpus) /\ KsBien(ks, Espera) /\ Espera \in Pids \cup {Nadie}
    BY <1>1, <1>3, EnManoKs, DeCpu
  <2>3. Mueve(ks, ks', Espera, p, "BLOCK", c, {}) /\ ConCpu(ks, ks', c)
    <3>1. ks' = [Bloquear(ks, p) EXCEPT !.cola_io["SLEEP"] = Append(@, p)]
      BY <1>1, <1>3
    <3> HIDE DEF p
    <3>2. QED
      BY <2>2, <3>1, SleepKs
  <2>4. CpuKs(c)'
    BY <1>1, <1>3, <2>3, CpuSinNada DEF Mueve
  <2>5. \A d \in Cpus : CpuKs(d)'
    BY <1>1, <1>3, <2>1, <2>3, <2>4, OtrasCpus DEF Mueve, ConCpu
  <2>6. QED
    BY <1>1, <1>3, <2>1, <2>3, <2>5, PasoKs DEF Sigue, kmVars, Mueve
<1>4. QED
  BY <1>2, <1>3

\* A syscall of memory that is never answered.
LEMMA DespuesPerdida ==
  ASSUME Antes, NEW c \in Cpus, SyscallMemoriaPerdida(c)
  PROVE  Despues'
<1>1. /\ UNCHANGED <<ks, canales, cpuVars, planVars, oyente, esperando>>
      /\ En(c, "syscall") /\ hilo_cpu[c].op \in Mem
      /\ \/ PedidoTomadoPorConfirmacion(c) /\ UNCHANGED finVars
         \/ bsod_activo /\ UsaLiberado
  BY DEF SyscallMemoriaPerdida, SinCpu, compVars, Mem
<1>2. CASE bsod_activo /\ UsaLiberado
  BY <1>1, <1>2, PasoCaido DEF planVars
<1>3. CASE PedidoTomadoPorConfirmacion(c) /\ UNCHANGED finVars
  <2>1. Al(c, "sin_respuesta") /\ UNCHANGED <<notificaciones, stick_vivo>>
    BY <1>3 DEF PedidoTomadoPorConfirmacion
  <2>2. \A d \in Cpus : Sigue(d)
    BY <1>1, <2>1, SigueHilos
  <2>3. PerdidaInv'
    BY <1>1, <1>3, <2>1, PerdidaIgual DEF Antes, BienInv, PerdidaInv, finVars
  <2>4. QED
    BY <1>1, <1>3, <2>2, <2>3, PasoSigue
<1>4. QED
  BY <1>1, <1>2, <1>3

\* detener_planificacion: the process waits for the compaction.
LEMMA DespuesDetener ==
  ASSUME Antes, NEW c \in Cpus, DetenerPlanificacion(c)
  PROVE  Despues'
<1>1. /\ En(c, "detener") /\ Al(c, "desalojar") /\ sem_puede_planificar = 1
      /\ UNCHANGED <<canales, cpuVars, planificador, oyente, kmVars>>
      /\ bsod_activo => UsaLiberado /\ ks' = ks
      /\ ~ bsod_activo =>
           /\ ks' = [SacarDeExec(ks, PidDe(c), "BLOCK") EXCEPT !.block = @ \cup {PidDe(c)}]
           /\ esperando' = [pid |-> PidDe(c), cpu |-> c]
           /\ UNCHANGED finVars
  BY DEF DetenerPlanificacion, SinCpu
<1>2. CASE bsod_activo
  BY <1>1, <1>2, PasoCaido
<1>3. CASE ~ bsod_activo
  <2> DEFINE p == PidDe(c)
  <2>1. \A d \in Cpus : Sigue(d)
    BY <1>1, SigueHilos
  <2>2. esperando = Ninguno /\ planificador = Ninguno /\ oyente.pc # "ejecutar"
    BY <1>1 DEF Antes, TurnoInv
  <2>3. Espera = Nadie
    BY <2>2 DEF Espera
  <2>4. /\ p \in AquiEn(ks, c) /\ ~ Tiene(ks.cpus_libres, c)
        /\ ks \in TipoKs(Cpus) /\ KsBien(ks, Nadie)
        /\ CanalDe(c) /\ hilo_cpu \in [Cpus -> HiloConPid] /\ p \in Pids
    BY <1>1, <1>3, <2>3, EnManoKs, DeCpu, HiloTienePid DEF En
  <2>5. Mueve(ks, ks', p, p, "BLOCK", c, {}) /\ ks'.cpus_libres = ks.cpus_libres
    <3>1. ks' = [SacarDeExec(ks, p, "BLOCK") EXCEPT !.block = @ \cup {p}]
      BY <1>1, <1>3
    <3> HIDE DEF p
    <3>2. QED
      BY <2>4, <3>1, DetenerKs
  <2>6. esperando' = [pid |-> p, cpu |-> c] /\ esperando' # Ninguno /\ esperando'.cpu = c
        /\ esperando'.pid = p /\ planificador' = Ninguno /\ c # Nulo
    BY <1>1, <1>3, <2>2, PedidosOK DEF Ninguno
  <2>7. hilo_cpu'[c].pc = "desalojar"
    BY <1>1, <2>4, HiloVa
  <2>8. Detenida(a_cpu[c], de_cpu[c], cpu_estado[c])
        /\ \A S : Lleva(a_cpu[c], de_cpu[c], cpu_pid[c], S)
    <3>1. Canal(a_cpu[c], de_cpu[c], cpu_estado[c], cpu_pid[c], hilo_cpu[c])
      BY <2>4 DEF CanalDe
    <3>2. QED
      BY <1>1, <3>1, EnManoQuieta DEF En
  <2>9. CpuKs(c)'
    <3>1. Lleva(a_cpu'[c], de_cpu'[c], cpu_pid'[c], AquiEn(ks', c))
      BY <1>1, <2>8 DEF canales, cpuVars
    <3>2. planificador'.cpu # c /\ ~ Tiene(ks'.cpus_libres, c) /\ AquiEn(ks', c) = {}
          /\ oyente'.pc # "ejecutar"
      BY <1>1, <2>2, <2>4, <2>5, <2>6 DEF Ninguno, Mueve
    <3>3. QED
      BY <2>7, <3>1, <3>2 DEF CpuKs, LlevaDe, Aqui
  <2>10. ASSUME NEW d \in Cpus, d # c PROVE CpuKs(d)'
    <3>1. /\ CpuKs(d) /\ Sigue(d)
          /\ AquiEn(ks', d) = AquiEn(ks, d) /\ ks'.cpus_libres = ks.cpus_libres
          /\ esperando'.cpu # d /\ planificador' = planificador
      BY <1>1, <1>3, <2>1, <2>5, <2>6, <2>10 DEF Antes, BienInv, ListasInv, Mueve
    <3>2. QED
      BY <3>1, CpuKsSigue
  <2>11. KsBien(ks', Espera')
    BY <1>1, <2>2, <2>5, <2>6 DEF Espera, Mueve
  <2>12. CanalesInv'
    <3>1. \A d \in Cpus : CanalDe(d)'
      BY <2>1 DEF Sigue, SigueCanal, CanalDe
    <3>2. Detenida(a_cpu'[c], de_cpu'[c], cpu_estado'[c])
      BY <1>1, <2>8 DEF canales, cpuVars
    <3>3. QED
      BY <2>6, <2>7, <3>1, <3>2 DEF CanalesInv, DetenidaEn, Parada
  <2>13. PerdidaInv'
    BY <1>1, <1>3, PerdidaIgual DEF Antes, BienInv, PerdidaInv, finVars, kmVars
  <2>14. TiposInv' /\ FinalInv'
    BY <1>1, <1>3, <2>5 DEF Antes, TiposInv, FinalInv, Vivo, finVars, Mueve
  <2>15. QED
    BY <1>1, <1>3, <2>9, <2>10, <2>11, <2>12, <2>13, <2>14
       DEF Despues, BienInv, ListasInv, finVars
<1>4. QED
  BY <1>2, <1>3

\* A CPU whose message is read goes on.
LEMMA SigueAtiende ==
  ASSUME Antes, NEW c \in Cpus, AtenderCpu(c)
  PROVE  /\ \A d \in Cpus : SigueCanal(d)
         /\ \A d \in Cpus : d # c => Sigue(d)
         /\ hilo_cpu'[c].pc \in {"atender", "syscall"} => hilo_cpu'[c].pid = Head(de_cpu[c]).pid
         /\ hilo_cpu'[c].pc \in {"recibir", "atender", "syscall"}
         /\ de_cpu'[c] = <<>> /\ de_cpu[c] # <<>> /\ UNCHANGED <<a_cpu, cpuVars>>
<1>1. /\ de_cpu \in [Cpus -> Seq(Aviso)] /\ hilo_cpu \in [Cpus -> HiloConPid]
      /\ \A d \in Cpus : CanalDe(d)
  BY DEF Antes, TipoInv, CpuInv, HilosInv, BienInv, CanalesInv
<1> DEFINE a == a_cpu[c]
           d0 == de_cpu[c]
           e == cpu_estado[c]
           p == cpu_pid[c]
           h == hilo_cpu[c]
           h1 == hilo_cpu'[c]
           m == Head(d0)
<1>2. /\ h.pc = "recibir" /\ d0 # <<>> /\ de_cpu' = [de_cpu EXCEPT ![c] = Tail(@)]
      /\ UNCHANGED <<a_cpu, cpuVars>>
  BY DEF AtenderCpu, En, SinCpu
<1>3. /\ \A d \in Cpus : d # c => hilo_cpu'[d] = hilo_cpu[d]
      /\ \/ h1 = h
         \/ h1 = [pc |-> "atender", op |-> m.op, pid |-> m.pid] /\ m.op \in Finales
         \/ h1 = [pc |-> "syscall", op |-> m.op, pid |-> m.pid]
  <2>1. \/ hilo_cpu' = hilo_cpu
        \/ /\ m.op \in Finales
           /\ hilo_cpu' = [hilo_cpu EXCEPT ![c] = [pc |-> "atender", op |-> m.op, pid |-> m.pid]]
        \/ hilo_cpu' = [hilo_cpu EXCEPT ![c] = [pc |-> "syscall", op |-> m.op, pid |-> m.pid]]
    BY DEF AtenderCpu
  <2> HIDE DEF m, d0
  <2>2. QED
    BY <1>1, <2>1
<1>4. /\ a_cpu'[c] = a /\ de_cpu'[c] = Tail(d0) /\ cpu_estado'[c] = e /\ cpu_pid'[c] = p
      /\ \A d \in Cpus : d # c => Igual(d)
  BY <1>1, <1>2 DEF Igual, cpuVars
<1>5. Canal(a, d0, e, p, h)
  BY <1>1 DEF CanalDe
<1> HIDE DEF a, d0, e, p, h, h1
<1>6. \/ h1 = h
      \/ h1.pc = "atender" /\ Head(d0).op \notin Mem /\ h1.pid = m.pid
      \/ h1.pc = "syscall" /\ h1.op = Head(d0).op /\ h1.pid = m.pid
  BY <1>3 DEF Finales, Mem
<1>7. Canal(a, Tail(d0), e, p, h1) /\ Tail(d0) = <<>>
  BY <1>2, <1>5, <1>6, CanalAtiende
<1>8. SigueCanal(c)
  <2>1. \A S : Lleva(a, d0, p, S) => Lleva(a, <<>>, p, S)
    BY DEF Lleva
  <2>2. ~ Detenida(a, d0, e) /\ ~ Quieta(a, d0, e)
    BY <1>2 DEF Detenida, Quieta
  <2>3. Activa(a, <<>>, p) => Activa(a, d0, p)
    BY DEF Activa
  <2>4. QED
    BY <1>4, <1>7, <2>1, <2>2, <2>3 DEF SigueCanal, a, d0, e, p, h, h1
<1>9. \A d \in Cpus : d # c => Sigue(d)
  BY <1>1, <1>3, <1>4, SigueIgual
<1>10. \A d \in Cpus : SigueCanal(d)
  BY <1>8, <1>9 DEF Sigue
<1>11. h1.pc \in {"atender", "syscall"} => h1.pid = m.pid
  BY <1>2, <1>6
<1>12. h1.pc \in {"recibir", "atender", "syscall"}
  BY <1>2, <1>6
<1>13. QED
  BY <1>2, <1>4, <1>7, <1>9, <1>10, <1>11, <1>12 DEF d0, h1

\* atender_cpu, when no process was lost.
LEMMA AtenderVivo ==
  ASSUME Antes, NEW c \in Cpus, AtenderCpu(c), ~ bsod_activo
  PROVE  Despues'
<1>1. UNCHANGED <<ks, planVars, oyente, esperando, notificaciones, stick_vivo, finVars>>
  BY DEF AtenderCpu, kmVars, compVars
<1>2. /\ \A d \in Cpus : SigueCanal(d)
      /\ \A d \in Cpus : d # c => Sigue(d)
      /\ hilo_cpu'[c].pc \in {"atender", "syscall"} => hilo_cpu'[c].pid = Head(de_cpu[c]).pid
      /\ hilo_cpu'[c].pc \in {"recibir", "atender", "syscall"}
      /\ de_cpu'[c] = <<>> /\ de_cpu[c] # <<>>
  BY SigueAtiende
<1>3. /\ CpuKs(c) /\ (esperando.cpu = c => DetenidaEn(c)) /\ ks \in TipoKs(Cpus)
      /\ KsBien(ks, Espera)
  BY DeCpu
<1>4. esperando.cpu # c /\ planificador.cpu # c /\ ~ Tiene(ks.cpus_libres, c)
  BY <1>2, <1>3 DEF CpuKs, DetenidaEn, Ociosa, Detenida, Quieta
<1>5. CpuKs(c)'
  <2>1. Lleva(a_cpu[c], de_cpu[c], cpu_pid[c], AquiEn(ks, c))
    BY <1>3 DEF CpuKs, LlevaDe, Aqui
  <2>2. SigueCanal(c)
    BY <1>2
  <2>3. Lleva(a_cpu'[c], de_cpu'[c], cpu_pid'[c], AquiEn(ks', c))
    BY <1>1, <2>1, <2>2 DEF SigueCanal
  <2>4. Head(de_cpu[c]).pid \in AquiEn(ks, c)
    BY <1>2, <2>1 DEF Lleva
  <2>5. /\ hilo_cpu'[c].pc \in {"atender", "syscall", "detener"} =>
             hilo_cpu'[c].pid \in AquiEn(ks', c)
        /\ hilo_cpu'[c].pc \notin {"finalizar", "liberar"}
    BY <1>1, <1>2, <2>4
  <2>6. esperando'.cpu # c /\ planificador'.cpu # c /\ ~ Tiene(ks'.cpus_libres, c)
    BY <1>1, <1>4 DEF planVars
  <2>7. QED
    BY <2>3, <2>5, <2>6 DEF CpuKs, LlevaDe, Aqui
<1>6. \A d \in Cpus : CpuKs(d)'
  BY <1>1, <1>2, <1>5, OtrasCpus
<1>7. QED
  BY <1>1, <1>2, <1>3, <1>6, PasoKs

\* One element less.
LEMMA UnoMenos ==
  ASSUME NEW S, NEW T \in SUBSET S, IsFiniteSet(S), NEW c \in S, c \notin T, NEW n \in Int,
         Cardinality(S) <= n
  PROVE  Cardinality(T) <= n - 1 /\ (n = 1 => T = {})
<1>1. /\ IsFiniteSet(S \ {c}) /\ Cardinality(S \ {c}) = Cardinality(S) - 1
      /\ T \in SUBSET (S \ {c})
  BY FS_RemoveElement
<1>2. /\ IsFiniteSet(T) /\ Cardinality(T) <= Cardinality(S \ {c})
  BY <1>1, FS_Subset
<1>3. /\ Cardinality(S) \in Nat /\ Cardinality(T) \in Nat
      /\ Cardinality(T) = 0 <=> T = {}
  BY <1>2, FS_CardinalityType, FS_EmptySet
<1>4. QED
  BY <1>1, <1>2, <1>3

\* atender_cpu.
LEMMA DespuesAtender ==
  ASSUME Antes, NEW c \in Cpus, AtenderCpu(c)
  PROVE  Despues'
<1>1. UNCHANGED <<ks, planVars, oyente, esperando, notificaciones, stick_vivo>>
  BY DEF AtenderCpu, kmVars, compVars
<1>2. \A d \in Cpus : SigueCanal(d)
  BY SigueAtiende
<1>3. CASE ~ bsod_activo
  BY <1>3, AtenderVivo
<1>4. CASE bsod_activo /\ UNCHANGED finVars
  <2>1. ks \in TipoKs(Cpus)
    BY DEF Antes, TiposInv
  <2>2. QED
    BY <1>1, <1>2, <1>4, <2>1, PasoBsod
<1>5. CASE bsod_activo /\ ~ UNCHANGED finVars
  <2>1. /\ Head(de_cpu[c]).op \in Finales
        /\ cpus_pendientes_bsod' = cpus_pendientes_bsod - 1
        /\ ks_terminado' = (cpus_pendientes_bsod = 1)
        /\ UNCHANGED <<bsod_activo, ks_caido>>
    BY <1>5 DEF AtenderCpu
  <2>2. CanalesInv' /\ Activas' \in SUBSET Activas
    BY <1>1, <1>2, SigueCanales DEF Antes, BienInv, TipoInv
  <2>3. /\ de_cpu'[c] = <<>> /\ de_cpu[c] # <<>> /\ UNCHANGED <<a_cpu, cpuVars>>
        /\ CanalDe(c) /\ BsodInv
    BY <1>5, SigueAtiende, DeCpu
  <2>4. c \in Activas
    BY <2>1, <2>3 DEF Activas, Activa
  <2>5. c \notin Activas'
    <3>1. Head(de_cpu[c]).op \notin Mem
      BY <2>1 DEF Finales, Mem
    <3>2. SinOrdenes(a_cpu[c]) /\ cpu_pid[c] = Nadie
      BY <2>3, <3>1 DEF CanalDe, Canal, Vacio
    <3>3. ~ Activa(a_cpu'[c], de_cpu'[c], cpu_pid'[c])
      BY <2>3, <3>2 DEF Activa, cpuVars
    <3>4. QED
      BY <3>3 DEF Activas
  <2>6. IsFiniteSet(Activas) /\ cpus_pendientes_bsod \in Int
        /\ Cardinality(Activas) <= cpus_pendientes_bsod
    <3>1. IsFiniteSet(Activas)
      BY PedidosOK, FS_Subset DEF Activas
    <3>2. QED
      BY <2>3, <3>1 DEF BsodInv, Antes, TipoInv, FinInv
  <2>7. /\ Cardinality(Activas') <= cpus_pendientes_bsod'
        /\ ks_terminado' => Activas' = {}
    BY <2>1, <2>2, <2>4, <2>5, <2>6, UnoMenos
  <2>8. ~ (oyente.pc = "interrumpir" /\ oyente.avisos = {})
    BY <2>3, <2>4 DEF BsodInv
  <2>9. BsodInv'
    BY <1>1, <2>3, <2>7, <2>8 DEF BsodInv
  <2>10. PerdidaInv'
    BY <1>1, <2>1, PerdidaIgual DEF Antes, BienInv, PerdidaInv
  <2>11. TiposInv' /\ FinalInv'
    BY <1>1, <1>5, <2>1, <2>7 DEF Antes, TiposInv, FinalInv, Vivo, planVars
  <2>12. QED
    BY <1>5, <2>1, <2>2, <2>9, <2>10, <2>11 DEF Despues, BienInv
<1>6. QED
  BY <1>3, <1>4, <1>5

\* The device ends.
LEMMA DespuesIo ==
  ASSUME Antes, FinIo
  PROVE  Despues'
<1> DEFINE p == Head(ks.cola_io["SLEEP"])
<1>1. /\ UNCHANGED <<canales, cpuVars, hilo_cpu, planVars, oyente, kmVars, esperando>>
      /\ ks.cola_io["SLEEP"] # <<>>
      /\ bsod_activo => UsaLiberado /\ ks' = ks
      /\ ~ bsod_activo =>
           /\ ks' = Despertar(CancelarTimer([ks EXCEPT !.cola_io["SLEEP"] = Tail(@)], p), p,
                              ks.estado[p])
           /\ UNCHANGED finVars
  BY DEF FinIo, SinCpu, compVars
<1>2. CASE bsod_activo
  BY <1>1, <1>2, PasoCaido DEF planVars
<1>3. CASE ~ bsod_activo
  <2>1. /\ ks \in TipoKs(Cpus) /\ KsBien(ks, Espera) /\ Espera \in Pids \cup {Nadie}
        /\ \A d \in Cpus : CanalDe(d) /\ CpuKs(d)
    <3>1. \A d \in Cpus : CanalDe(d) /\ CpuKs(d)
      BY <1>3 DEF Antes, BienInv, CanalesInv, ListasInv
    <3>2. ks \in TipoKs(Cpus) /\ KsBien(ks, Espera)
      BY <1>3 DEF Antes, BienInv, ListasInv, TiposInv
    <3>3. Espera \in Pids \cup {Nadie}
      BY DEF Antes, TipoInv, HilosInv, Espera, Ninguno
    <3>4. QED
      BY <3>1, <3>2, <3>3
  <2>2. Despierta(ks, ks', Espera, p)
    <3>1. ks' = Despertar(CancelarTimer([ks EXCEPT !.cola_io["SLEEP"] = Tail(@)], p), p,
                          ks.estado[p])
      BY <1>1, <1>3
    <3>2. p = Head(ks.cola_io["SLEEP"])
      OBVIOUS
    <3> HIDE DEF p
    <3>3. QED
      BY <1>1, <2>1, <3>1, <3>2, DespertarKs
  <2>3. \A d \in Cpus : Sigue(d)
    BY <1>1, <2>1, SigueIgual DEF Igual, canales, cpuVars
  <2>4. \A d \in Cpus : CpuKs(d)'
    <3>1. /\ ks'.cpus_libres = ks.cpus_libres
          /\ \A d \in Cpus : AquiEn(ks', d) = AquiEn(ks, d)
      BY <2>2 DEF Despierta
    <3>2. planificador' = planificador /\ esperando' = esperando /\ oyente' = oyente
      BY <1>1 DEF planVars
    <3>3. QED
      BY <2>1, <2>3, <3>1, <3>2, CpuKsSigue
  <2>5. QED
    BY <1>1, <1>3, <2>2, <2>3, <2>4, PasoKs DEF Despierta, Sigue, kmVars
<1>4. QED
  BY <1>2, <1>3

\* The lists change, and who plans with them.
LEMMA PasoLista ==
  ASSUME Antes, ~ bsod_activo, CanalesInv', PerdidaInv', UNCHANGED finVars,
         ks' \in TipoKs(Cpus), KsBien(ks', Espera'), \A d \in Cpus : CpuKs(d)',
         planificador' \in [pid : Pids, cpu : Cpus] \cup {Ninguno},
         oyente'.avisos = oyente.avisos
  PROVE  Despues'
<1>1. ListasInv'
  BY DEF ListasInv
<1>2. TiposInv' /\ FinalInv'
  BY DEF Antes, TiposInv, FinalInv, Vivo, finVars
<1>3. QED
  BY <1>1, <1>2 DEF Despues, BienInv, finVars

\* Nobody waits for a compaction while the planner chooses and sends.
LEMMA NadieEspera ==
  ASSUME Antes, sem_puede_planificar = 1 \/ planificador # Ninguno
  PROVE  /\ esperando = Ninguno /\ oyente.pc # "ejecutar" /\ Espera = Nadie
         /\ \A c \in Cpus : esperando.cpu # c
<1>1. esperando = Ninguno /\ oyente.pc # "ejecutar"
  <2>1. sem_puede_planificar \in 0 .. 1
    BY DEF Antes, TipoInv, HilosInv
  <2>2. esperando = Ninguno
    BY <2>1 DEF Antes, TurnoInv
  <2>3. QED
    BY <2>2 DEF Antes, TurnoInv
<1>2. Ninguno.cpu = Nulo /\ Nulo \notin Cpus
  BY PedidosOK DEF Ninguno
<1>3. QED
  BY <1>1, <1>2 DEF Espera

\* planificador_corto_plazo finds no process.
LEMMA DespuesSinProceso ==
  ASSUME Antes, PlanificadorElige, ConProcesos(ks) = {}
  PROVE  Despues'
<1>1. /\ UNCHANGED <<canales, cpuVars, hilo_cpu, planVars, oyente, kmVars, esperando, finVars>>
      /\ ks' = [ks EXCEPT !.sem_ready = @ - 1] /\ ks.sem_ready > 0
  BY DEF PlanificadorElige, SinCpu, compVars
<1>2. ks \in TipoKs(Cpus)
  BY DEF Antes, TiposInv
<1>3. ks' \in TipoKs(Cpus)
  <2>1. ks.sem_ready - 1 \in Nat
    BY <1>1, <1>2 DEF TipoKs
  <2>2. QED
    BY <1>1, <1>2, <2>1 DEF TipoKs
<1>4. /\ ks'.exec = ks.exec /\ ks'.colas_ready = ks.colas_ready /\ ks'.estado = ks.estado
      /\ ks'.prioridad = ks.prioridad /\ ks'.block = ks.block /\ ks'.cpu = ks.cpu
      /\ ks'.cola_io = ks.cola_io /\ ks'.cpus_libres = ks.cpus_libres
  BY <1>1, <1>2 DEF TipoKs
<1>5. \A d \in Cpus : Sigue(d)
  <2>1. \A d \in Cpus : CanalDe(d)
    BY DEF Antes, BienInv, CanalesInv
  <2>2. QED
    BY <1>1, <2>1, SigueIgual DEF Igual, canales, cpuVars
<1>6. CASE bsod_activo
  BY <1>1, <1>3, <1>4, <1>5, <1>6, PasoBsod DEF Sigue, kmVars
<1>7. CASE ~ bsod_activo
  <2>1. KsBien(ks, Espera) /\ \A d \in Cpus : CpuKs(d)
    BY <1>7 DEF Antes, BienInv, ListasInv
  <2>2. KsBien(ks', Espera)
    BY <1>4, <2>1 DEF KsBien
  <2>3. \A d \in Cpus : AquiEn(ks', d) = AquiEn(ks, d)
    BY <1>4 DEF AquiEn
  <2>4. \A d \in Cpus : CpuKs(d)'
    BY <1>1, <1>4, <1>5, <2>1, <2>3, CpuKsSigue DEF planVars
  <2>5. QED
    BY <1>1, <1>3, <1>5, <1>7, <2>2, <2>4, PasoKs DEF Sigue, kmVars
<1>8. QED
  BY <1>6, <1>7

\* planificador_corto_plazo chooses a process and a CPU.
LEMMA DespuesElige ==
  ASSUME Antes, PlanificadorElige, ConProcesos(ks) # {}
  PROVE  Despues'
<1> SUFFICES ASSUME NEW p, p = Head(ks.colas_ready[Min(ConProcesos(ks))]),
                    NEW c, c = Head(ks.cpus_libres)
             PROVE  Despues'
  OBVIOUS
<1>1. /\ UNCHANGED <<canales, cpuVars, hilo_cpu, oyente, kmVars, esperando, finVars>>
      /\ ks' = Planificar(ks) /\ ks.sem_ready > 0 /\ ks.cpus_libres # <<>>
      /\ planificador' = [pid |-> p, cpu |-> c]
      /\ sem_puede_planificar = 1
  BY DEF PlanificadorElige, SinCpu, compVars
<1>2. ~ bsod_activo
  BY DEF Antes, BienInv, BsodInv, ConProcesos
<1>3. /\ ks \in TipoKs(Cpus) /\ KsBien(ks, Espera)
      /\ \A d \in Cpus : CanalDe(d) /\ CpuKs(d)
  BY <1>2 DEF Antes, BienInv, ListasInv, TiposInv, CanalesInv
<1>4. /\ esperando = Ninguno /\ Espera = Nadie /\ \A d \in Cpus : esperando.cpu # d
  BY <1>1, NadieEspera
<1>5. Tiene(ks.cpus_libres, c) /\ c \in Cpus
  BY <1>1, <1>3, TieneQuitado DEF TipoKs
<1>6. Ociosa(c) /\ AquiEn(ks, c) = {}
  BY <1>3, <1>5 DEF CpuKs, Aqui
<1>7. Elegido(ks, ks', Espera, p, c)
  <2>1. Espera \in Pids \cup {Nadie}
    BY <1>4
  <2>2. Elegido(ks, Planificar(ks), Espera, p, c)
    BY <1>1, <1>3, <1>6, <2>1, PlanificarKs
  <2>3. QED
    BY <1>1, <2>2
<1>8. \A d \in Cpus : Sigue(d)
  BY <1>1, <1>3, SigueIgual DEF Igual, canales, cpuVars
<1>9. CpuKs(c)'
  <2>1. Lleva(a_cpu[c], de_cpu[c], cpu_pid[c], AquiEn(ks', c))
    <3>1. Canal(a_cpu[c], de_cpu[c], cpu_estado[c], cpu_pid[c], hilo_cpu[c])
      BY <1>3, <1>5 DEF CanalDe
    <3>2. Quieta(a_cpu[c], de_cpu[c], cpu_estado[c])
      BY <1>6 DEF Ociosa
    <3>3. QED
      BY <3>1, <3>2, EnManoQuieta
  <2>2. Lleva(a_cpu'[c], de_cpu'[c], cpu_pid'[c], AquiEn(ks', c))
    BY <1>1, <2>1 DEF canales, cpuVars
  <2>3. /\ Quieta(a_cpu'[c], de_cpu'[c], cpu_estado'[c]) /\ hilo_cpu'[c].pc = "recibir"
    BY <1>1, <1>6 DEF Ociosa, canales, cpuVars
  <2>4. planificador'.pid \in AquiEn(ks', c) /\ ~ Tiene(ks'.cpus_libres, c)
        /\ esperando'.cpu # c
    BY <1>1, <1>4, <1>5, <1>7 DEF Mueve, Elegido
  <2>5. /\ hilo_cpu'[c].pc \notin {"atender", "syscall", "detener"}
        /\ hilo_cpu'[c].pc \notin {"finalizar", "liberar"}
    BY <2>3
  <2>6. (planificador.cpu = c => Ociosa(c) /\ planificador.pid \in Aqui(c))'
    BY <2>3, <2>4 DEF Ociosa, Aqui
  <2>7. QED
    BY <2>2, <2>4, <2>5, <2>6 DEF CpuKs, LlevaDe, Aqui
<1>10. ASSUME NEW d \in Cpus, d # c PROVE CpuKs(d)'
  <2>1. /\ AquiEn(ks', d) = AquiEn(ks, d) /\ esperando'.cpu # d /\ planificador'.cpu # d
        /\ Tiene(ks'.cpus_libres, d) => Tiene(ks.cpus_libres, d)
    BY <1>1, <1>4, <1>7, <1>10 DEF Mueve, Elegido
  <2>2. CpuKs(d) /\ Sigue(d)
    BY <1>3, <1>8
  <2>3. QED
    BY <2>1, <2>2, CpuKsSigue
<1>11. CanalesInv'
  BY <1>1, <1>8, SigueCanales DEF Antes, BienInv, TipoInv, Sigue
<1>12. PerdidaInv'
  BY <1>1, PerdidaIgual DEF Antes, BienInv, PerdidaInv, finVars, kmVars
<1>13. ks' \in TipoKs(Cpus) /\ KsBien(ks', Espera')
  <2>1. Espera' = Espera
    BY <1>1 DEF Espera
  <2>2. QED
    BY <1>7, <2>1 DEF Mueve, Elegido
<1>14. planificador' \in [pid : Pids, cpu : Cpus] \cup {Ninguno}
  BY <1>1, <1>5, <1>7 DEF Elegido
<1>15. \A d \in Cpus : CpuKs(d)'
  BY <1>9, <1>10
<1>16. oyente'.avisos = oyente.avisos /\ UNCHANGED finVars
  BY <1>1
<1>17. QED
  BY <1>2, <1>11, <1>12, <1>13, <1>14, <1>15, <1>16, PasoLista

\* A CPU that runs nothing is sent a process, and every other one goes on.
LEMMA OrdenEnviada ==
  ASSUME Antes, NEW c \in Cpus, NEW p \in Pids,
         a_cpu' = AlCpu(a_cpu, c, "EJECUTAR_PROCESO", p),
         UNCHANGED <<de_cpu, cpuVars, hilo_cpu>>, DetenidaEn(c), hilo_cpu[c].pc = "recibir"
  PROVE  /\ \A d \in Cpus : CanalDe(d)'
         /\ \A d \in Cpus : d # c => Sigue(d)
         /\ \A S : p \in S => Lleva(a_cpu'[c], de_cpu'[c], cpu_pid'[c], S)
<1>1. /\ a_cpu \in [Cpus -> Seq(Mensaje)] /\ \A d \in Cpus : CanalDe(d)
  BY DEF Antes, TipoInv, CpuInv, BienInv, CanalesInv
<1> DEFINE m == [op |-> "EJECUTAR_PROCESO", pid |-> p]
           a == a_cpu[c]
           d0 == de_cpu[c]
           e == cpu_estado[c]
           q == cpu_pid[c]
           h == hilo_cpu[c]
<1>2. /\ a_cpu'[c] = Append(a, m) /\ de_cpu'[c] = d0 /\ cpu_estado'[c] = e /\ cpu_pid'[c] = q
      /\ hilo_cpu'[c] = h /\ \A d \in Cpus : d # c => Igual(d) /\ hilo_cpu'[d] = hilo_cpu[d]
  BY <1>1 DEF AlCpu, Igual, cpuVars
<1>3. /\ a \in Seq(Mensaje) /\ Canal(a, d0, e, q, h) /\ h.pc = "recibir" /\ Detenida(a, d0, e)
      /\ Orden(m) /\ m.pid = p
  BY <1>1 DEF CanalDe, DetenidaEn, Orden
<1> HIDE DEF m, a, d0, e, q, h
<1>4. /\ Canal(Append(a, m), d0, e, q, h)
      /\ \A S : m.pid \in S => Lleva(Append(a, m), d0, q, S)
  BY <1>3, CanalOrden
<1>5. CanalDe(c)'
  BY <1>2, <1>4 DEF CanalDe
<1>6. \A d \in Cpus : d # c => Sigue(d)
  BY <1>1, <1>2, SigueIgual
<1>7. \A d \in Cpus : d # c => CanalDe(d)'
  BY <1>6 DEF Sigue, SigueCanal, CanalDe
<1>8. \A S : p \in S => Lleva(a_cpu'[c], de_cpu'[c], cpu_pid'[c], S)
  BY <1>2, <1>3, <1>4
<1>9. QED
  BY <1>5, <1>6, <1>7, <1>8

\* The process is sent.
LEMMA DespuesEnvia ==
  ASSUME Antes, PlanificadorEnvia
  PROVE  Despues'
<1>1. /\ planificador # Ninguno /\ planificador' = Ninguno
      /\ UNCHANGED <<ks, de_cpu, cpuVars, hilo_cpu, oyente, kmVars, esperando>>
      /\ bsod_activo => UsaLiberado
      /\ ~ bsod_activo =>
           /\ a_cpu' = AlCpu(a_cpu, planificador.cpu, "EJECUTAR_PROCESO", planificador.pid)
           /\ UNCHANGED finVars
  BY DEF PlanificadorEnvia, SinCpu, compVars
<1>2. CASE bsod_activo
  BY <1>1, <1>2 DEF Antes, Despues, TiposInv, FinalInv, UsaLiberado, Vivo
<1>3. CASE ~ bsod_activo
  <2>1. planificador \in [pid : Pids, cpu : Cpus]
    BY <1>1 DEF Antes, TiposInv
  <2> SUFFICES ASSUME NEW c \in Cpus, c = planificador.cpu, NEW p \in Pids, p = planificador.pid
               PROVE  Despues'
    BY <2>1
  <2>2. /\ ks \in TipoKs(Cpus) /\ KsBien(ks, Espera)
        /\ \A d \in Cpus : CanalDe(d) /\ CpuKs(d)
    BY <1>3 DEF Antes, BienInv, ListasInv, TiposInv, CanalesInv
  <2>3. /\ esperando = Ninguno /\ Espera = Nadie /\ \A d \in Cpus : esperando.cpu # d
    BY <1>1, NadieEspera
  <2>4. Ociosa(c) /\ p \in Aqui(c) /\ ~ Tiene(ks.cpus_libres, c)
    BY <2>2 DEF CpuKs
  <2>5. DetenidaEn(c) /\ hilo_cpu[c].pc = "recibir"
    BY <2>4 DEF Ociosa, DetenidaEn, Quieta, Detenida
  <2>6. /\ \A d \in Cpus : CanalDe(d)'
        /\ \A d \in Cpus : d # c => Sigue(d)
        /\ \A S : p \in S => Lleva(a_cpu'[c], de_cpu'[c], cpu_pid'[c], S)
    BY <1>1, <1>3, <2>5, OrdenEnviada
  <2>7. planificador' = Ninguno /\ \A d \in Cpus : planificador'.cpu # d
    BY <1>1, PedidosOK DEF Ninguno
  <2>8. CpuKs(c)'
    <3>1. Lleva(a_cpu'[c], de_cpu'[c], cpu_pid'[c], AquiEn(ks', c))
      BY <1>1, <2>4, <2>6 DEF Aqui
    <3>2. hilo_cpu'[c].pc = "recibir" /\ esperando'.cpu # c /\ planificador'.cpu # c
          /\ ~ Tiene(ks'.cpus_libres, c)
      BY <1>1, <2>3, <2>4, <2>5, <2>7
    <3>3. QED
      BY <3>1, <3>2 DEF CpuKs, LlevaDe, Aqui
  <2>9. ASSUME NEW d \in Cpus, d # c PROVE CpuKs(d)'
    <3>1. /\ CpuKs(d) /\ Sigue(d) /\ ks' = ks /\ esperando'.cpu # d /\ planificador'.cpu # d
      BY <1>1, <2>2, <2>3, <2>6, <2>7, <2>9
    <3>2. QED
      BY <3>1, CpuKsSigue
  <2>10. CanalesInv'
    BY <1>1, <2>3, <2>6 DEF CanalesInv
  <2>11. PerdidaInv'
    BY <1>1, <1>3, PerdidaIgual DEF Antes, BienInv, PerdidaInv, finVars, kmVars
  <2>12. ks' \in TipoKs(Cpus) /\ KsBien(ks', Espera')
    <3>1. Espera' = Espera
      BY <1>1 DEF Espera
    <3>2. QED
      BY <1>1, <2>2, <3>1
  <2>13. \A d \in Cpus : CpuKs(d)'
    BY <2>8, <2>9
  <2>14. QED
    BY <1>1, <1>3, <2>7, <2>10, <2>11, <2>12, <2>13, PasoLista
<1>4. QED
  BY <1>2, <1>3

\* planificador_corto_plazo.
LEMMA DespuesPlanificador ==
  ASSUME Antes, Planificador
  PROVE  Despues'
BY DespuesSinProceso, DespuesElige, DespuesEnvia DEF Planificador

\* OP_FIN_COMPACTACION: the process that waited is EXEC again.
LEMMA DespuesFinCompactacion ==
  ASSUME Antes, FinCompactacion
  PROVE  Despues'
<1>1. /\ Lee("FIN_COMPACTACION") /\ oyente' = [oyente EXCEPT !.pc = "ejecutar"]
      /\ UNCHANGED <<canales, cpuVars, planVars, hilo_cpu, esperando>>
      /\ bsod_activo => UsaLiberado /\ ks' = ks
      /\ ~ bsod_activo =>
           /\ ks' = [ks EXCEPT !.estado[esperando.pid] = "EXEC",
                               !.cpu[esperando.pid] = esperando.cpu,
                               !.exec = @ \cup {esperando.pid},
                               !.block = @ \ {esperando.pid}]
           /\ UNCHANGED finVars
  BY DEF FinCompactacion, SinCpu
<1>2. /\ oyente'.pc = "ejecutar" /\ oyente'.avisos = oyente.avisos /\ oyente.pc = "leer"
  BY <1>1 DEF Antes, TipoInv, HilosInv, Lee
<1>3. CASE bsod_activo
  BY <1>1, <1>2, <1>3, PasoCaido DEF planVars
<1>4. CASE ~ bsod_activo
  <2>1. /\ esperando # Ninguno /\ planificador = Ninguno
        /\ \A d \in Cpus : hilo_cpu[d].pc \notin Parada
    <3>1. ~ SinFin(notificaciones)
      BY <1>1, FinLeido DEF Antes, TipoInv, MemoriaInv, TurnoInv, Avisos
    <3>2. sem_puede_planificar \in 0 .. 1 /\ esperando # Ninguno
      BY <3>1 DEF Antes, TipoInv, HilosInv, TurnoInv
    <3>3. planificador = Ninguno
      BY <3>2 DEF Antes, TurnoInv
    <3>4. QED
      BY <3>1, <3>2, <3>3 DEF Antes, TurnoInv
  <2>2. esperando \in [pid : Pids, cpu : Cpus]
    BY <2>1 DEF Antes, TipoInv, HilosInv
  <2> SUFFICES ASSUME NEW c \in Cpus, c = esperando.cpu, NEW p \in Pids, p = esperando.pid
               PROVE  Despues'
    BY <2>2
  <2>3. /\ ks \in TipoKs(Cpus) /\ KsBien(ks, Espera)
        /\ \A d \in Cpus : CanalDe(d) /\ CpuKs(d)
    BY <1>4 DEF Antes, BienInv, ListasInv, TiposInv, CanalesInv
  <2>4. Espera = p /\ Espera' = Nadie
    BY <1>1, <1>2, <2>1 DEF Espera
  <2>5. AquiEn(ks, c) = {} /\ ~ Tiene(ks.cpus_libres, c)
    BY <1>2, <2>3 DEF CpuKs, Aqui
  <2>6. DetenidaEn(c) /\ hilo_cpu[c].pc = "recibir"
    BY <2>1 DEF Antes, BienInv, CanalesInv, DetenidaEn
  <2>7. /\ Mueve(ks, ks', Nadie, p, "EXEC", c, {p}) /\ ks'.cpus_libres = ks.cpus_libres
    <3>1. ks' = Retoma(ks, p, c)
      BY <1>1, <1>4 DEF Retoma
    <3>2. KsBien(ks, p)
      BY <2>3, <2>4
    <3>3. QED
      BY <2>3, <2>5, <3>1, <3>2, RetomarKs
  <2>8. \A d \in Cpus : Sigue(d)
    BY <1>1, <2>3, SigueIgual DEF Igual, canales, cpuVars
  <2>9. CpuKs(c)'
    <3>1. Lleva(a_cpu'[c], de_cpu'[c], cpu_pid'[c], AquiEn(ks', c))
      <4>1. Canal(a_cpu[c], de_cpu[c], cpu_estado[c], cpu_pid[c], hilo_cpu[c])
        BY <2>3 DEF CanalDe
      <4>2. Detenida(a_cpu[c], de_cpu[c], cpu_estado[c])
        BY <2>6 DEF DetenidaEn
      <4>3. Lleva(a_cpu[c], de_cpu[c], cpu_pid[c], AquiEn(ks', c))
        BY <4>1, <4>2, EnManoQuieta
      <4>4. QED
        BY <1>1, <4>3 DEF canales, cpuVars
    <3>2. hilo_cpu'[c].pc = "recibir" /\ planificador'.cpu # c
          /\ ~ Tiene(ks'.cpus_libres, c) /\ esperando'.pid \in AquiEn(ks', c)
      BY <1>1, <2>1, <2>5, <2>6, <2>7, PedidosOK DEF Mueve, Ninguno, planVars
    <3>3. oyente'.pc = "ejecutar"
      BY <1>2
    <3>4. QED
      BY <3>1, <3>2, <3>3 DEF CpuKs, LlevaDe, Aqui
  <2>10. ASSUME NEW d \in Cpus, d # c PROVE CpuKs(d)'
    <3>1. /\ CpuKs(d) /\ Sigue(d) /\ esperando'.cpu # d /\ planificador' = planificador
          /\ AquiEn(ks', d) = AquiEn(ks, d) /\ ks'.cpus_libres = ks.cpus_libres
      BY <1>1, <2>3, <2>7, <2>8, <2>10 DEF Mueve, planVars
    <3>2. QED
      BY <3>1, CpuKsSigue
  <2>11. CanalesInv'
    BY <1>1, <2>8, SigueCanales DEF Antes, BienInv, TipoInv, Sigue
  <2>12. PerdidaInv'
    <3>1. /\ notificaciones \in Seq(Avisos) /\ notificaciones # <<>> /\ PerdidaInv
          /\ notificaciones' = Tail(notificaciones) /\ stick_vivo' = stick_vivo
      BY <1>1 DEF Antes, TipoInv, MemoriaInv, BienInv, Lee
    <3>2. /\ UnaCorrupta(notificaciones')
          /\ SinCorrupta(notificaciones) => SinCorrupta(notificaciones')
      BY <3>1, CorruptaLeida DEF PerdidaInv
    <3>3. QED
      BY <1>1, <1>2, <1>4, <3>1, <3>2 DEF PerdidaInv, finVars
  <2>13. ks' \in TipoKs(Cpus) /\ KsBien(ks', Espera')
    BY <2>4, <2>7 DEF Mueve
  <2>14. \A d \in Cpus : CpuKs(d)'
    BY <2>9, <2>10
  <2>15. planificador' \in [pid : Pids, cpu : Cpus] \cup {Ninguno}
    BY <1>1, <2>1 DEF planVars
  <2>16. QED
    BY <1>1, <1>2, <1>4, <2>11, <2>12, <2>13, <2>14, <2>15, PasoLista
<1>5. QED
  BY <1>3, <1>4

\* Its CPU gets it back.
LEMMA DespuesFinEjecuta ==
  ASSUME Antes, FinEjecuta
  PROVE  Despues'
<1>1. /\ oyente.pc = "ejecutar" /\ oyente' = [oyente EXCEPT !.pc = "leer"]
      /\ a_cpu' = AlCpu(a_cpu, esperando.cpu, "EJECUTAR_PROCESO", esperando.pid)
      /\ esperando' = Ninguno
      /\ UNCHANGED <<ks, de_cpu, cpuVars, hilo_cpu, planificador, kmVars, finVars>>
  BY DEF FinEjecuta, SinCpu
<1>2. /\ oyente'.pc = "leer" /\ oyente'.avisos = oyente.avisos
  BY <1>1 DEF Antes, TipoInv, HilosInv
<1>3. ~ bsod_activo
  BY <1>1 DEF Antes, BienInv, PerdidaInv
<1>4. /\ esperando # Ninguno /\ planificador = Ninguno
      /\ \A d \in Cpus : hilo_cpu[d].pc \notin Parada
  <2>1. sem_puede_planificar \in 0 .. 1 /\ esperando # Ninguno
    BY <1>1 DEF Antes, TipoInv, HilosInv, TurnoInv
  <2>2. planificador = Ninguno
    BY <2>1 DEF Antes, TurnoInv
  <2>3. QED
    BY <1>1, <2>1, <2>2 DEF Antes, TurnoInv
<1>5. esperando \in [pid : Pids, cpu : Cpus]
  BY <1>4 DEF Antes, TipoInv, HilosInv
<1> SUFFICES ASSUME NEW c \in Cpus, c = esperando.cpu, NEW p \in Pids, p = esperando.pid
             PROVE  Despues'
  BY <1>5
<1>6. /\ ks \in TipoKs(Cpus) /\ KsBien(ks, Espera)
      /\ \A d \in Cpus : CanalDe(d) /\ CpuKs(d)
  BY <1>3 DEF Antes, BienInv, ListasInv, TiposInv, CanalesInv
<1>7. p \in Aqui(c) /\ ~ Tiene(ks.cpus_libres, c)
  BY <1>1, <1>6 DEF CpuKs
<1>8. DetenidaEn(c) /\ hilo_cpu[c].pc = "recibir"
  BY <1>4 DEF Antes, BienInv, CanalesInv, DetenidaEn
<1>9. /\ \A d \in Cpus : CanalDe(d)'
      /\ \A d \in Cpus : d # c => Sigue(d)
      /\ \A S : p \in S => Lleva(a_cpu'[c], de_cpu'[c], cpu_pid'[c], S)
  <2>1. a_cpu' = AlCpu(a_cpu, c, "EJECUTAR_PROCESO", p) /\ UNCHANGED <<de_cpu, cpuVars, hilo_cpu>>
    BY <1>1
  <2>2. QED
    BY <1>8, <2>1, OrdenEnviada
<1>10. \A d \in Cpus : planificador'.cpu # d /\ esperando'.cpu # d
  BY <1>1, <1>4, PedidosOK DEF Ninguno
<1>11. CpuKs(c)'
  <2>1. Lleva(a_cpu'[c], de_cpu'[c], cpu_pid'[c], AquiEn(ks', c))
    BY <1>1, <1>7, <1>9 DEF Aqui
  <2>2. hilo_cpu'[c].pc = "recibir" /\ esperando'.cpu # c /\ planificador'.cpu # c
        /\ ~ Tiene(ks'.cpus_libres, c)
    BY <1>1, <1>7, <1>8, <1>10
  <2>3. QED
    BY <2>1, <2>2 DEF CpuKs, LlevaDe, Aqui
<1>12. ASSUME NEW d \in Cpus, d # c PROVE CpuKs(d)'
  <2>1. /\ CpuKs(d) /\ Sigue(d) /\ ks' = ks /\ esperando'.cpu # d /\ planificador'.cpu # d
    BY <1>1, <1>6, <1>9, <1>10, <1>12
  <2>2. QED
    BY <2>1, CpuKsSigue
<1>13. CanalesInv'
  BY <1>1, <1>9 DEF CanalesInv
<1>14. PerdidaInv'
  BY <1>1, <1>2, PerdidaIgual DEF Antes, BienInv, PerdidaInv, finVars, kmVars
<1>15. ks' \in TipoKs(Cpus) /\ KsBien(ks', Espera')
  <2>1. Espera = Nadie /\ Espera' = Nadie
    BY <1>1 DEF Espera
  <2>2. QED
    BY <1>1, <1>6, <2>1
<1>16. \A d \in Cpus : CpuKs(d)'
  BY <1>11, <1>12
<1>17. planificador' \in [pid : Pids, cpu : Cpus] \cup {Ninguno}
  BY <1>1, <1>4
<1>18. QED
  BY <1>1, <1>2, <1>3, <1>13, <1>14, <1>15, <1>16, <1>17, PasoLista

\* The CPUs that run a process are no more than the processes in EXEC.
LEMMA ActivasContadas ==
  ASSUME Antes, ~ bsod_activo
  PROVE  /\ Cardinality(Activas) <= Cardinality(ks.exec)
         /\ ks.exec = {} => Activas = {}
<1> DEFINE T == {ks.cpu[p] : p \in ks.exec}
           f == [p \in ks.exec |-> ks.cpu[p]]
<1>1. IsFiniteSet(ks.exec)
  BY ProcesosOK, FS_Subset DEF Antes, TiposInv, TipoKs
<1>2. f \in Surjection(ks.exec, T)
  BY DEF Surjection
<1>3. IsFiniteSet(T) /\ Cardinality(T) <= Cardinality(ks.exec)
  <2> HIDE DEF T, f
  <2>1. QED
    BY <1>1, <1>2, FS_Surjection
<1>4. ASSUME NEW c \in Activas PROVE c \in T
  <2>1. c \in Cpus /\ Activa(a_cpu[c], de_cpu[c], cpu_pid[c])
    BY DEF Activas
  <2>2. /\ Canal(a_cpu[c], de_cpu[c], cpu_estado[c], cpu_pid[c], hilo_cpu[c])
        /\ Lleva(a_cpu[c], de_cpu[c], cpu_pid[c], AquiEn(ks, c))
    BY <2>1, DeCpu DEF CpuKs, LlevaDe, Aqui, CanalDe
  <2>3. AquiEn(ks, c) # {}
    BY <2>1, <2>2, EnManoQuieta
  <2>4. QED
    BY <2>3 DEF AquiEn
<1>5. Activas \in SUBSET T
  BY <1>4
<1>6. Cardinality(Activas) <= Cardinality(ks.exec)
  <2> HIDE DEF T
  <2>1. /\ Cardinality(Activas) <= Cardinality(T)
        /\ IsFiniteSet(Activas)
    BY <1>3, <1>5, FS_Subset
  <2>2. Cardinality(Activas) \in Nat /\ Cardinality(T) \in Nat /\ Cardinality(ks.exec) \in Nat
    BY <1>1, <1>3, <2>1, FS_CardinalityType
  <2>3. QED
    BY <1>3, <2>1, <2>2
<1>7. ks.exec = {} => Activas = {}
  BY <1>5
<1>8. QED
  BY <1>6, <1>7

\* manejar_bsod.
LEMMA DespuesManejarBsod ==
  ASSUME Antes, ManejarBsod
  PROVE  Despues'
<1>1. /\ Lee("MEMORIA_CORRUPTA") /\ bsod_activo' = TRUE
      /\ cpus_pendientes_bsod' = Cardinality(ks.exec)
      /\ oyente' = [pc |-> "interrumpir", avisos |-> EnEjecucion]
      /\ UNCHANGED <<canales, cpuVars, planVars, hilo_cpu, esperando, ks_terminado, ks_caido>>
  BY DEF ManejarBsod, SinCpu, compVars
<1>2. /\ notificaciones \in Seq(Avisos) /\ notificaciones # <<>> /\ PerdidaInv
      /\ notificaciones' = Tail(notificaciones) /\ stick_vivo' = stick_vivo
      /\ Head(notificaciones) = "MEMORIA_CORRUPTA"
  BY <1>1 DEF Antes, TipoInv, MemoriaInv, BienInv, Lee
<1>3. /\ ~ SinCorrupta(notificaciones) /\ SinCorrupta(notificaciones')
      /\ UnaCorrupta(notificaciones')
  BY <1>2, CorruptaLeida DEF PerdidaInv
<1>4. ~ bsod_activo /\ ~ stick_vivo
  BY <1>2, <1>3 DEF PerdidaInv
<1>5. PerdidaInv'
  BY <1>1, <1>2, <1>3, <1>4 DEF PerdidaInv
<1>6. /\ ks \in TipoKs(Cpus) /\ KsBien(ks, Espera)
      /\ \A d \in Cpus : CanalDe(d)
  BY <1>4 DEF Antes, BienInv, ListasInv, TiposInv, CanalesInv
<1>7. /\ ks' \in TipoKs(Cpus) /\ ks'.exec = {}
      /\ \A q \in Colas : ks'.colas_ready[q] = <<>>
  <2> DEFINE estados == [p \in Pids |-> "EXIT"]
             cpus == [p \in Pids |-> Nulo]
             colas == [q \in Colas |-> <<>>]
  <2>1. ks' = [ks EXCEPT !.estado = estados, !.cpu = cpus, !.colas_ready = colas,
                         !.exec = {}, !.block = {}]
    BY DEF ManejarBsod
  <2>2. /\ estados \in [Pids -> EstadosProceso] /\ cpus \in [Pids -> Cpus \cup {Nulo}]
        /\ colas \in [Colas -> Seq(Pids)] /\ \A q \in Colas : colas[q] = <<>>
    BY DEF EstadosProceso
  <2> HIDE DEF estados, cpus, colas
  <2>3. ks'.colas_ready = colas /\ ks'.exec = {}
    BY <1>6, <2>1 DEF TipoKs
  <2>4. QED
    BY <1>6, <2>1, <2>2, <2>3 DEF TipoKs
<1>8. EnEjecucion \in SUBSET (Cpus \X Pids)
  BY <1>6 DEF EnEjecucion, TipoKs, KsBien
<1>9. TiposInv' /\ FinalInv'
  <2>1. oyente'.avisos = EnEjecucion
    BY <1>1
  <2>2. planificador' = planificador
    BY <1>1 DEF planVars
  <2>3. TiposInv'
    BY <1>7, <1>8, <2>1, <2>2 DEF Antes, TiposInv
  <2>4. FinalInv'
    BY <1>1 DEF Antes, FinalInv, Vivo
  <2>5. QED
    BY <2>3, <2>4
<1>10. \A d \in Cpus : Sigue(d)
  BY <1>1, <1>6, SigueIgual DEF Igual, canales, cpuVars
<1>11. CanalesInv'
  BY <1>1, <1>10, SigueCanales DEF Antes, BienInv, TipoInv, Sigue
<1>12. Activas' = Activas
  BY <1>1 DEF Activas, canales, cpuVars
<1>13. BsodInv'
  <2>1. /\ Cardinality(Activas') <= cpus_pendientes_bsod'
        /\ ks.exec = {} => Activas' = {}
    BY <1>1, <1>4, <1>12, ActivasContadas
  <2>2. oyente'.avisos = {} => ks.exec = {}
    BY <1>1 DEF EnEjecucion
  <2>3. QED
    BY <1>7, <2>1, <2>2 DEF BsodInv
<1>14. QED
  BY <1>1, <1>5, <1>9, <1>11, <1>13 DEF Despues, BienInv

\* The CPUs that ran a process are interrupted.
LEMMA DespuesBsodInterrumpe ==
  ASSUME Antes, BsodInterrumpe
  PROVE  Despues'
<1>1. /\ oyente.pc = "interrumpir" /\ a_cpu' = Interrumpir(a_cpu, oyente.avisos)
      /\ ks_terminado' = (oyente.avisos = {}) /\ oyente' = [pc |-> "leer", avisos |-> {}]
      /\ UNCHANGED <<ks, de_cpu, cpuVars, planVars, hilo_cpu, kmVars, esperando, bsod_activo,
                     cpus_pendientes_bsod, ks_caido>>
  BY DEF BsodInterrumpe, SinCpu, compVars
<1>2. bsod_activo /\ BsodInv /\ FinInv
  BY <1>1 DEF Antes, BienInv, PerdidaInv, TipoInv
<1>3. \A d \in Cpus : Sigue(d)
  BY <1>1, SigueInterrumpe
<1>4. CanalesInv' /\ Activas' \in SUBSET Activas
  BY <1>1, <1>3, SigueCanales DEF Antes, BienInv, TipoInv, Sigue
<1>5. PerdidaInv'
  BY <1>1, PerdidaIgual DEF Antes, BienInv, PerdidaInv, kmVars
<1>6. BsodInv'
  BY <1>1, <1>2, <1>4, SigueBsod
<1>7. TiposInv'
  BY <1>1 DEF Antes, TiposInv, planVars
<1>8. FinalInv'
  <2>1. ks_terminado' => Activas' = {}
    BY <1>1, <1>2, <1>4 DEF BsodInv
  <2>2. ~ ks_caido'
    BY <1>1 DEF Antes, Vivo
  <2>3. QED
    BY <2>1, <2>2 DEF FinalInv
<1>9. QED
  BY <1>1, <1>2, <1>4, <1>5, <1>6, <1>7, <1>8 DEF Despues, BienInv

\* A Memory Stick goes away.
LEMMA DespuesStick ==
  ASSUME Antes, StickSeVa
  PROVE  Despues'
<1>1. /\ stick_vivo /\ ~ stick_vivo' /\ notificaciones' = Append(notificaciones, "MEMORIA_CORRUPTA")
      /\ UNCHANGED <<ks, canales, cpuVars, planVars, hilo_cpu, oyente, esperando, finVars>>
  BY DEF StickSeVa, SinCpu, compVars
<1>2. notificaciones \in Seq(Avisos) /\ PerdidaInv
  BY DEF Antes, TipoInv, MemoriaInv, BienInv
<1>3. SinCorrupta(notificaciones) /\ ~ bsod_activo
  BY <1>1, <1>2 DEF PerdidaInv
<1>4. UnaCorrupta(notificaciones')
  BY <1>1, <1>2, <1>3, CorruptaAgregada DEF PerdidaInv, Avisos
<1>5. PerdidaInv'
  BY <1>1, <1>2, <1>3, <1>4 DEF PerdidaInv, finVars
<1>6. \A d \in Cpus : Sigue(d)
  <2>1. \A d \in Cpus : CanalDe(d)
    BY DEF Antes, BienInv, CanalesInv
  <2>2. QED
    BY <1>1, <2>1, SigueIgual DEF Igual, canales, cpuVars
<1>7. QED
  BY <1>1, <1>5, <1>6, PasoSigue

\* hilo_escuchar_memoria.
LEMMA DespuesOyente ==
  ASSUME Antes, HiloEscucharMemoria
  PROVE  Despues'
BY DespuesFinCompactacion, DespuesFinEjecuta, DespuesManejarBsod, DespuesBsodInterrumpe
   DEF HiloEscucharMemoria

\* The thread of a CPU.
LEMMA DespuesHilo ==
  ASSUME Antes, NEW c \in Cpus, HiloCpu(c)
  PROVE  Despues'
<1>1. CASE AtenderCpu(c)
  BY <1>1, DespuesAtender
<1>2. CASE ManejarFinQuantum(c)
  BY <1>2, DespuesFinQuantum
<1>3. CASE ManejarProcesoExit(c)
  BY <1>3, DespuesExit
<1>4. CASE ExitLibera(c)
  BY <1>4, DespuesLibera
<1>5. CASE ManejarIoSleep(c)
  BY <1>5, DespuesSleep
<1>6. CASE SyscallMemoriaPerdida(c)
  BY <1>6, DespuesPerdida
<1>7. CASE DetenerPlanificacion(c)
  BY <1>7, DespuesDetener
<1>8. CASE \/ ExitFinaliza(c) \/ PedirSegmentoOk(c) \/ PedirSegmentoError(c)
           \/ PedirSegmentoCompactar(c) \/ EliminarSegmento(c) \/ DesalojarTodasLasCpus(c)
           \/ Compactar(c)
  BY <1>8, DespuesMemoria
<1>9. QED
  BY <1>1, <1>2, <1>3, <1>4, <1>5, <1>6, <1>7, <1>8 DEF HiloCpu

-----------------------------------------------------------------------------
(* The induction.                                                           *)

\* The lists when the CPUs are connected.
LEMMA KsBienInicial ==
  ASSUME KsInit
  PROVE  KsBien(ks, Nadie)
<1> DEFINE De(q) == {p \in Pids : PrioridadOriginal[p] = q}
<1>1. /\ ks.estado = [p \in Pids |-> "READY"] /\ ks.prioridad = PrioridadOriginal
      /\ ks.exec = {} /\ ks.block = {} /\ ks.cola_io = [t \in TiposIo |-> <<>>]
  BY DEF KsInit
<1>2. ks.cola_io["SLEEP"] = <<>>
  BY <1>1, PedidosOK
<1>3. /\ \A q \in Colas :
           LET cola == ks.colas_ready[q] IN
           /\ cola \in Seq(De(q))
           /\ \A i, j \in 1 .. Len(cola) : cola[i] = cola[j] => i = j
      /\ ks.cpus_libres \in Seq(Cpus)
      /\ \A i, j \in 1 .. Len(ks.cpus_libres) : ks.cpus_libres[i] = ks.cpus_libres[j] => i = j
  BY PedidosOK, KsInicial DEF TipoKs
<1>4. ASSUME NEW q \in Colas
      PROVE  /\ Distintos(ks.colas_ready[q])
             /\ \A p \in Pids : Tiene(ks.colas_ready[q], p) =>
                  ks.estado[p] = "READY" /\ ks.prioridad[p] = q
  <2> DEFINE cola == ks.colas_ready[q]
  <2>1. cola \in Seq(De(q)) /\ \A i, j \in 1 .. Len(cola) : cola[i] = cola[j] => i = j
    BY <1>3
  <2> HIDE DEF cola
  <2>2. DOMAIN cola = 1 .. Len(cola) /\ \A i \in DOMAIN cola : cola[i] \in De(q)
    BY <2>1
  <2>3. Distintos(cola) /\ \A p : Tiene(cola, p) => p \in De(q)
    BY <2>1, <2>2 DEF Distintos, Tiene
  <2>4. QED
    BY <1>1, <2>3 DEF cola
<1>5. Distintos(ks.cpus_libres)
  BY <1>3 DEF Distintos
<1>6. Distintos(ks.cola_io["SLEEP"]) /\ \A p : ~ Tiene(ks.cola_io["SLEEP"], p)
  BY <1>2 DEF Distintos, Tiene
<1>7. QED
  BY <1>1, <1>4, <1>5, <1>6 DEF KsBien

\* The invariant holds when the CPUs are connected.
LEMMA CompInicial ==
  ASSUME Init
  PROVE  CompInv
<1>1. /\ CanalesInit /\ PedidosInit /\ KsInit
      /\ cpu_estado = [c \in Cpus |-> "espera"] /\ cpu_pid = [c \in Cpus |-> Nadie]
  BY DEF Init, PedidosInit
<1>2. /\ hilo_cpu = [c \in Cpus |-> HiloEn("recibir")] /\ planificador = Ninguno
      /\ esperando = Ninguno /\ oyente = [pc |-> "leer", avisos |-> {}]
      /\ notificaciones = <<>> /\ stick_vivo = TRUE
      /\ bsod_activo = FALSE /\ ks_terminado = FALSE /\ ks_caido = FALSE
  BY <1>1 DEF PedidosInit
<1>3. ASSUME NEW c \in Cpus
      PROVE  /\ a_cpu[c] = <<>> /\ de_cpu[c] = <<>> /\ cpu_estado[c] = "espera"
             /\ cpu_pid[c] = Nadie /\ hilo_cpu[c].pc = "recibir"
  BY <1>1, <1>2 DEF CanalesInit, HiloEn
<1>4. PlanInv
  BY PlanInicial
<1>5. ks \in TipoKs(Cpus) /\ ks.exec = {} /\ KsBien(ks, Nadie)
  BY <1>1, PedidosOK, KsInicial, KsBienInicial DEF KsInit
<1>6. TiposInv
  <2>1. oyente.avisos = {}
    BY <1>2
  <2>2. QED
    BY <1>2, <1>5, <2>1 DEF TiposInv
<1>7. FinalInv
  BY <1>2 DEF FinalInv
<1>8. PerdidaInv
  BY <1>2 DEF PerdidaInv, SinCorrupta, UnaCorrupta
<1>9. SinOrdenes(<<>>) /\ SinRespuestas(<<>>) /\ Forma(<<>>) /\ \A S : OrdenesEn(<<>>, S)
  BY DEF SinOrdenes, SinRespuestas, Forma, OrdenesEn
<1>10. \A c \in Cpus : CanalDe(c)
  BY <1>3, <1>9 DEF CanalDe, Canal
<1>11. CanalesInv
  BY <1>2, <1>10 DEF CanalesInv
<1>12. ASSUME NEW c \in Cpus PROVE CpuKs(c)
  <2>1. LlevaDe(c)
    BY <1>3, <1>9 DEF LlevaDe, Lleva
  <2>2. Ociosa(c)
    BY <1>3, <1>9 DEF Ociosa, Quieta
  <2>3. Aqui(c) = {}
    BY <1>5 DEF Aqui, AquiEn
  <2>4. esperando.cpu # c /\ planificador.cpu # c
    BY <1>2, PedidosOK DEF Ninguno
  <2>5. QED
    BY <1>3, <2>1, <2>2, <2>3, <2>4 DEF CpuKs
<1>13. ListasInv
  BY <1>2, <1>5, <1>12 DEF ListasInv, Espera
<1>14. QED
  BY <1>2, <1>4, <1>6, <1>7, <1>8, <1>11, <1>13 DEF CompInv, BienInv

\* Nothing happens.
LEMMA CompIgual ==
  ASSUME CompInv, UNCHANGED vars
  PROVE  CompInv'
<1>1. PlanInv'
  BY PlanPaso DEF CompInv
<1>2. UNCHANGED <<ks, a_cpu, de_cpu, cpu_estado, cpu_pid, planificador, hilo_cpu, oyente,
                  notificaciones, stick_vivo, esperando, finVars>>
  BY DEF vars, canales, cpuVars, planVars, kmVars, compVars
<1>3. TiposInv'
  BY <1>2 DEF CompInv, TiposInv
<1>4. Activas' = Activas
  BY <1>2 DEF Activas
<1>5. FinalInv'
  BY <1>2, <1>4 DEF CompInv, FinalInv, finVars
<1>6. ~ ks_caido => BienInv
  BY DEF CompInv
<1>7. CanalesInv => CanalesInv'
  BY <1>2 DEF CanalesInv, CanalDe, DetenidaEn
<1>8. PerdidaInv => PerdidaInv'
  BY <1>2 DEF PerdidaInv, finVars
<1>9. ListasInv => ListasInv'
  BY <1>2 DEF ListasInv, Espera, CpuKs, LlevaDe, Ociosa, Aqui
<1>10. BsodInv => BsodInv'
  BY <1>2, <1>4 DEF BsodInv, finVars
<1>11. QED
  BY <1>1, <1>2, <1>3, <1>5, <1>6, <1>7, <1>8, <1>9, <1>10 DEF CompInv, BienInv, finVars

\* Every step keeps the invariant.
LEMMA CompPaso ==
  ASSUME CompInv, [Next]_vars
  PROVE  CompInv'
<1>1. PlanInv'
  BY PlanPaso DEF CompInv
<1>2. CASE Next
  <2>1. Vivo
    BY <1>2 DEF Next, PasoPlanificador, PasoHilo, PasoCpu, PasoIo, PasoOyente, PasoStick
  <2>2. Antes
    BY <2>1 DEF Antes, CompInv, PlanInv, Vivo
  <2>3. Despues'
    <3>1. CASE PasoPlanificador
      BY <2>2, <3>1, DespuesPlanificador DEF PasoPlanificador
    <3>2. ASSUME NEW c \in Cpus, PasoHilo(c) PROVE Despues'
      BY <2>2, <3>2, DespuesHilo DEF PasoHilo
    <3>3. ASSUME NEW c \in Cpus, PasoCpu(c) PROVE Despues'
      BY <2>2, <3>3, DespuesCpu
    <3>4. CASE PasoIo
      BY <2>2, <3>4, DespuesIo DEF PasoIo
    <3>5. CASE PasoOyente
      BY <2>2, <3>5, DespuesOyente DEF PasoOyente
    <3>6. CASE PasoStick
      BY <2>2, <3>6, DespuesStick DEF PasoStick
    <3>7. QED
      BY <1>2, <3>1, <3>2, <3>3, <3>4, <3>5, <3>6 DEF Next
  <2>4. QED
    BY <1>1, <2>3 DEF Despues, CompInv
<1>3. QED
  BY <1>2, CompIgual

\* Every state of the specification satisfies it.
LEMMA CompSiempre == Spec => []CompInv
<1>1. CompInv /\ [Next]_vars => CompInv'
  BY CompPaso
<1>2. Init => CompInv
  BY CompInicial
<1>3. QED
  BY <1>1, <1>2, PTL DEF Spec

\* After BSOD the Kernel Scheduler does not end while a CPU runs a process: each
\* that ran one, had been sent one or had not told the end of one is counted in
\* cpus_pendientes_bsod, and is not counted twice.
THEOREM BsodEspera == Spec => []BsodEsperaATodas
<1>1. CompInv => BsodEsperaATodas
  <2> SUFFICES ASSUME CompInv, ks_terminado, NEW c \in Cpus, cpu_estado[c] = "ejecuta"
               PROVE  FALSE
    BY DEF BsodEsperaATodas
  <2>1. Activas = {} /\ BienInv
    BY DEF CompInv, FinalInv
  <2>2. Canal(a_cpu[c], de_cpu[c], cpu_estado[c], cpu_pid[c], hilo_cpu[c])
    BY <2>1 DEF BienInv, CanalesInv, CanalDe
  <2>3. cpu_pid[c] # Nadie /\ SinBloqueado(a_cpu[c])
    BY <2>2, BloqueadoEsRespuesta DEF Canal, Vacio
  <2>4. c \in Activas
    BY <2>3 DEF Activas, Activa
  <2>5. QED
    BY <2>1, <2>4
<1>2. QED
  BY <1>1, CompSiempre, PTL

\* Every variable keeps its type.  That a CPU of cpus_libres, or one that the
\* planner has chosen, is a CPU and not the NULL of a process that has none needs
\* the whole of the invariant.
THEOREM TiposCorrectos == Spec => []TypeOK
<1>1. CompInv => TypeOK
  <2> SUFFICES ASSUME CompInv PROVE TypeOK
    OBVIOUS
  <2>1. /\ CpuInv /\ HilosInv /\ MemoriaInv /\ FinInv
        /\ ks \in TipoKs(Cpus) /\ planificador \in [pid : Pids, cpu : Cpus] \cup {Ninguno}
        /\ oyente.avisos \in SUBSET (Cpus \X Pids)
    BY DEF CompInv, PlanInv, TipoInv, TiposInv
  <2>2. CanalesTipo /\ CpuTipo /\ tabla_vieja \subseteq Cpus
    BY <2>1, CpuCanales
  <2>3. KsTipo
    BY <2>1 DEF KsTipo, TipoKs
  <2>4. planificador \in [pid : Pids \cup {Nadie}, cpu : Cpus \cup {Nulo}]
    BY <2>1 DEF Ninguno
  <2>5. hilo_cpu \in [Cpus -> [pc : {"recibir", "atender", "syscall", "detener", "desalojar",
                                     "confirmar", "finalizar", "liberar", "sin_respuesta"},
                               op : OpsCpu \cup {"nada"}, pid : Pids \cup {Nadie}]]
    BY <2>1 DEF HilosInv, HiloConPid, Hilo
  <2>6. oyente \in [pc : {"leer", "ejecutar", "interrumpir"}, avisos : SUBSET (Cpus \X Pids)]
    <3>1. oyente \in [pc : {"leer", "ejecutar", "interrumpir"},
                      avisos : SUBSET (Libres \X Pids)]
      BY <2>1 DEF HilosInv
    <3>2. QED
      BY <2>1, <3>1
  <2>7. /\ sem_puede_planificar \in 0 .. 1 /\ esperando \in [pid : Pids, cpu : Cpus] \cup {Ninguno}
        /\ compactando \in BOOLEAN
    BY <2>1, Zenon DEF HilosInv
  <2>8. /\ km \in {"libre", "confirmacion"} /\ mutex_perdido \in BOOLEAN
        /\ con_segmentos \subseteq Pids /\ stick_vivo \in BOOLEAN
        /\ notificaciones \in Seq({"FIN_COMPACTACION", "MEMORIA_CORRUPTA"})
    BY <2>1, Zenon DEF MemoriaInv, Avisos
  <2>9. PedidosTipo
    BY <2>1, <2>3, <2>4, <2>5, <2>6, <2>7, <2>8, Zenon DEF PedidosTipo, FinInv
  <2>10. QED
    BY <2>2, <2>9 DEF TypeOK
<1>2. QED
  BY <1>1, CompSiempre, PTL

-----------------------------------------------------------------------------
(* The life cycle of the processes.                                         *)

\* CicloDeVida counts as this module does.
LEMMA MismaCuenta == \A S : Ciclo!Cardinality(S) = Cardinality(S)
BY DEF Ciclo!Cardinality, Cardinality

\* What the lists say when nothing was lost.
LEMMA ListasVivas ==
  ASSUME Antes, ~ bsod_activo
  PROVE  ks \in TipoKs(Cpus) /\ KsBien(ks, Espera) /\ Espera \in Pids \cup {Nadie}
<1>1. ks \in TipoKs(Cpus) /\ KsBien(ks, Espera)
  BY DEF Antes, BienInv, ListasInv, TiposInv
<1>2. Espera \in Pids \cup {Nadie}
  BY DEF Antes, TipoInv, HilosInv, Espera, Ninguno
<1>3. QED
  BY <1>1, <1>2

\* A CPU without a process leaves room for one more in EXEC.
LEMMA HayLugarEnCpu ==
  ASSUME Antes, ~ bsod_activo, NEW c \in Cpus, AquiEn(ks, c) = {}
  PROVE  Ciclo!Cardinality(Ciclo!EnEstado("EXEC")) < Cardinality(Cpus)
<1> DEFINE otras == Cpus \ {c}
           f == [p \in ks.exec |-> ks.cpu[p]]
<1>1. ks \in TipoKs(Cpus) /\ KsBien(ks, Espera)
  BY ListasVivas
<1>2. Ciclo!EnEstado("EXEC") = ks.exec
  BY <1>1 DEF Ciclo!EnEstado, KsBien, TipoKs
<1>3. f \in Injection(ks.exec, otras)
  <2>1. \A p \in ks.exec : ks.cpu[p] \in Cpus /\ ks.cpu[p] # c
    BY <1>1 DEF KsBien, AquiEn
  <2>2. f \in [ks.exec -> otras]
    BY <2>1
  <2>3. \A p, r \in ks.exec : f[p] = f[r] => p = r
    BY <1>1 DEF KsBien
  <2> HIDE DEF f, otras
  <2>4. QED
    BY <2>2, <2>3 DEF Injection, IsInjective
<1>4. IsFiniteSet(otras) /\ Cardinality(otras) = Cardinality(Cpus) - 1
  BY PedidosOK, FS_RemoveElement
<1> HIDE DEF otras, f
<1>5. IsFiniteSet(ks.exec) /\ Cardinality(ks.exec) <= Cardinality(otras)
  BY <1>3, <1>4, FS_Injection
<1>6. Cardinality(ks.exec) \in Nat /\ Cardinality(Cpus) \in Nat
  BY <1>5, PedidosOK, FS_CardinalityType
<1>7. QED
  BY <1>2, <1>4, <1>5, <1>6, MismaCuenta

\* The planner.
LEMMA CicloPlanificador ==
  ASSUME Antes, Planificador
  PROVE  [Ciclo!Next]_(ks.estado)
<1>1. ks \in TipoKs(Cpus)
  BY DEF Antes, TiposInv
<1>2. CASE PlanificadorEnvia
  BY <1>2 DEF PlanificadorEnvia
<1>3. CASE PlanificadorElige /\ ConProcesos(ks) = {}
  <2>1. ks' = [ks EXCEPT !.sem_ready = @ - 1]
    BY <1>3 DEF PlanificadorElige
  <2>2. ks'.estado = ks.estado
    BY <1>1, <2>1 DEF TipoKs
  <2>3. QED
    BY <2>2
<1>4. CASE PlanificadorElige /\ ConProcesos(ks) # {}
  <2> SUFFICES ASSUME NEW p, p = Head(ks.colas_ready[Min(ConProcesos(ks))]),
                      NEW c, c = Head(ks.cpus_libres)
               PROVE  [Ciclo!Next]_(ks.estado)
    OBVIOUS
  <2>1. ks' = Planificar(ks) /\ ks.sem_ready > 0 /\ ks.cpus_libres # <<>>
    BY <1>4 DEF PlanificadorElige
  <2>2. ~ bsod_activo
    BY <1>4 DEF Antes, BienInv, BsodInv, ConProcesos
  <2>3. /\ KsBien(ks, Espera) /\ Espera \in Pids \cup {Nadie}
    BY <2>2, ListasVivas
  <2>4. Tiene(ks.cpus_libres, c) /\ c \in Cpus
    BY <1>1, <2>1, <2>3, TieneQuitado DEF TipoKs, KsBien
  <2>5. AquiEn(ks, c) = {}
    BY <2>2, <2>4 DEF Antes, BienInv, ListasInv, CpuKs, Aqui
  <2>6. Elegido(ks, Planificar(ks), Espera, p, c)
    BY <1>1, <1>4, <2>1, <2>3, <2>5, PlanificarKs
  <2>7. p \in Pids /\ ks.estado[p] = "READY" /\ ks'.estado = [ks.estado EXCEPT ![p] = "EXEC"]
    BY <2>1, <2>6 DEF Elegido, Mueve
  <2>8. Ciclo!Cardinality(Ciclo!EnEstado("EXEC")) < Cardinality(Cpus)
    BY <2>2, <2>4, <2>5, HayLugarEnCpu
  <2>9. Ciclo!Despachar(p)
    BY <2>7, <2>8 DEF Ciclo!Despachar, Ciclo!Pasa
  <2>10. QED
    BY <2>7, <2>9 DEF Ciclo!Next
<1>5. QED
  BY <1>2, <1>3, <1>4 DEF Planificador

\* The thread of a CPU: a process leaves EXEC.
LEMMA CicloHiloCpu ==
  ASSUME Antes, NEW c \in Cpus, HiloCpu(c)
  PROVE  [Ciclo!Next]_(ks.estado)
<1> DEFINE p == PidDe(c)
<1>1. ks \in TipoKs(Cpus)
  BY DEF Antes, TiposInv
<1>2. CASE ks' = ks
  BY <1>2
<1>3. ASSUME NEW e \in {"READY", "BLOCK", "EXIT"}, NEW w, NEW k,
             p \in AquiEn(ks, c), ~ bsod_activo, Mueve(ks, ks', w, p, e, c, {})
      PROVE  [Ciclo!Next]_(ks.estado)
  <2>1. p \in Pids /\ ks.estado[p] = "EXEC"
    BY <1>1, <1>3, ListasVivas DEF AquiEn, KsBien, TipoKs
  <2>2. ks'.estado = [ks.estado EXCEPT ![p] = e]
    BY <1>3 DEF Mueve
  <2> HIDE DEF p
  <2>3. Ciclo!Desalojar(p) \/ Ciclo!Bloquear(p) \/ Ciclo!Terminar(p)
    BY <2>1, <2>2 DEF Ciclo!Desalojar, Ciclo!Bloquear, Ciclo!Terminar, Ciclo!Pasa
  <2>4. QED
    BY <2>1, <2>3 DEF Ciclo!Next
<1>4. ASSUME bsod_activo PROVE p \notin ks.exec
  BY <1>4 DEF Antes, BienInv, BsodInv
<1>5. CASE ManejarFinQuantum(c)
  <2> DEFINE k == SacarDeExec(ks, p, "READY")
  <2>1. /\ hilo_cpu[c].pc = "atender"
        /\ p \notin ks.exec => ks' = ks
        /\ p \in ks.exec => \/ ks' = LiberarCpu(EncolarAlFrente(k, p), c)
                            \/ ks' = LiberarCpu(Encolar(k, p), c)
    BY <1>5 DEF ManejarFinQuantum, En
  <2>2. CASE p \notin ks.exec
    BY <1>2, <2>1, <2>2
  <2>3. CASE p \in ks.exec
    <3>1. ~ bsod_activo
      BY <1>4, <2>3
    <3>2. p \in AquiEn(ks, c) /\ ~ Tiene(ks.cpus_libres, c)
          /\ KsBien(ks, Espera) /\ Espera \in Pids \cup {Nadie}
      BY <2>1, <3>1, EnManoKs, ListasVivas
    <3>3. PICK k0 \in {Encolar(k, p), EncolarAlFrente(k, p)} : ks' = LiberarCpu(k0, c)
      BY <2>1, <2>3
    <3>4. Mueve(ks, ks', Espera, p, "READY", c, {})
      BY <1>1, <3>2, <3>3, FinQuantumKs
    <3> HIDE DEF p
    <3>5. QED
      BY <1>3, <3>1, <3>2, <3>4
  <2>4. QED
    BY <2>2, <2>3
<1>6. CASE ManejarProcesoExit(c)
  <2>1. /\ hilo_cpu[c].pc = "atender"
        /\ p \notin ks.exec => ks' = ks
        /\ p \in ks.exec => ks' = CancelarTimer(SacarDeExec(ks, p, "EXIT"), p)
    BY <1>6 DEF ManejarProcesoExit, En
  <2>2. CASE p \notin ks.exec
    BY <1>2, <2>1, <2>2
  <2>3. CASE p \in ks.exec
    <3>1. ~ bsod_activo
      BY <1>4, <2>3
    <3>2. p \in AquiEn(ks, c) /\ KsBien(ks, Espera) /\ Espera \in Pids \cup {Nadie}
      BY <2>1, <3>1, EnManoKs, ListasVivas
    <3>3. Mueve(ks, ks', Espera, p, "EXIT", c, {})
      BY <1>1, <2>1, <2>3, <3>2, ExitKs
    <3> HIDE DEF p
    <3>4. QED
      BY <1>3, <3>1, <3>2, <3>3
  <2>4. QED
    BY <2>2, <2>3
<1>7. CASE ManejarIoSleep(c)
  <2>1. /\ hilo_cpu[c].pc = "syscall"
        /\ bsod_activo => ks' = ks
        /\ ~ bsod_activo => ks' = [Bloquear(ks, p) EXCEPT !.cola_io["SLEEP"] = Append(@, p)]
    BY <1>7 DEF ManejarIoSleep, En
  <2>2. CASE ~ bsod_activo
    <3>1. p \in AquiEn(ks, c) /\ ~ Tiene(ks.cpus_libres, c)
          /\ KsBien(ks, Espera) /\ Espera \in Pids \cup {Nadie}
      BY <2>1, <2>2, EnManoKs, ListasVivas
    <3> HIDE DEF p
    <3>2. Mueve(ks, ks', Espera, p, "BLOCK", c, {})
      BY <1>1, <2>1, <2>2, <3>1, SleepKs
    <3>3. QED
      BY <1>3, <2>2, <3>1, <3>2
  <2>3. QED
    BY <1>2, <2>1, <2>2
<1>8. CASE DetenerPlanificacion(c)
  <2>1. /\ hilo_cpu[c].pc = "detener" /\ sem_puede_planificar = 1
        /\ bsod_activo => ks' = ks
        /\ ~ bsod_activo => ks' = [SacarDeExec(ks, p, "BLOCK") EXCEPT !.block = @ \cup {p}]
    BY <1>8 DEF DetenerPlanificacion, En
  <2>2. CASE ~ bsod_activo
    <3>1. esperando = Ninguno
      BY <2>1 DEF Antes, TurnoInv
    <3>2. p \in AquiEn(ks, c) /\ KsBien(ks, Nadie)
      BY <2>1, <2>2, <3>1, EnManoKs, ListasVivas DEF Espera
    <3> HIDE DEF p
    <3>3. Mueve(ks, ks', p, p, "BLOCK", c, {})
      BY <1>1, <2>1, <2>2, <3>2, DetenerKs
    <3>4. QED
      BY <1>3, <2>2, <3>2, <3>3
  <2>3. QED
    BY <1>2, <2>1, <2>2
<1>9. CASE ExitLibera(c)
  <2>1. ks' = LiberarCpu(ks, c)
    BY <1>9 DEF ExitLibera
  <2>2. ks'.estado = ks.estado
    BY <1>1, <2>1 DEF LiberarCpu, TipoKs
  <2>3. QED
    BY <2>2
<1>10. QED
  BY <1>2, <1>5, <1>6, <1>7, <1>8, <1>9
     DEF HiloCpu, AtenderCpu, ExitFinaliza, PedirSegmentoOk, PedirSegmentoError,
         PedirSegmentoCompactar, EliminarSegmento, SyscallMemoriaPerdida,
         DesalojarTodasLasCpus, Compactar, SinPlan

\* A device ends: the process that slept is READY.
LEMMA CicloIo ==
  ASSUME Antes, FinIo
  PROVE  [Ciclo!Next]_(ks.estado)
<1> SUFFICES ASSUME NEW p, p = Head(ks.cola_io["SLEEP"]) PROVE [Ciclo!Next]_(ks.estado)
  OBVIOUS
<1>1. /\ ks.cola_io["SLEEP"] # <<>>
      /\ bsod_activo => ks' = ks
      /\ ~ bsod_activo =>
           ks' = Despertar(CancelarTimer([ks EXCEPT !.cola_io["SLEEP"] = Tail(@)], p), p,
                           ks.estado[p])
  BY DEF FinIo
<1>2. CASE bsod_activo
  BY <1>1, <1>2
<1>3. CASE ~ bsod_activo
  <2>1. ks \in TipoKs(Cpus) /\ KsBien(ks, Espera) /\ Espera \in Pids \cup {Nadie}
    BY <1>3, ListasVivas
  <2>2. Despierta(ks, ks', Espera, p)
    BY <1>1, <1>3, <2>1, DespertarKs
  <2>3. p \in Pids /\ ks.estado[p] = "BLOCK" /\ ks'.estado = [ks.estado EXCEPT ![p] = "READY"]
        /\ ks.estado \in [Pids -> EstadosProceso]
    BY <2>1, <2>2 DEF Despierta, TipoKs
  <2>4. ks'.estado = [r \in Pids |-> IF r \notin {p} THEN ks.estado[r]
                                     ELSE IF ks.estado[r] = "BLOCK" THEN "READY"
                                     ELSE "SUSP_READY"]
    BY <2>3
  <2>5. Ciclo!Despertar({p})
    BY <2>3, <2>4 DEF Ciclo!Despertar, Ciclo!EnEstado
  <2>6. {p} \in SUBSET Pids
    BY <2>3
  <2>7. QED
    BY <2>5, <2>6 DEF Ciclo!Next
<1>4. QED
  BY <1>2, <1>3

\* The notifications of the Kernel Memory: a process goes back to its CPU, or all
\* of them end.
LEMMA CicloOyente ==
  ASSUME Antes, HiloEscucharMemoria
  PROVE  [Ciclo!Next]_(ks.estado)
<1>1. ks \in TipoKs(Cpus)
  BY DEF Antes, TiposInv
<1>2. CASE FinEjecuta \/ BsodInterrumpe
  BY <1>2 DEF FinEjecuta, BsodInterrumpe
<1>3. CASE ManejarBsod
  <2> DEFINE todos == [p \in Pids |-> "EXIT"]
             cpus == [p \in Pids |-> Nulo]
             colas == [q \in Colas |-> <<>>]
  <2>1. ks' = [ks EXCEPT !.estado = todos, !.cpu = cpus, !.colas_ready = colas,
                         !.exec = {}, !.block = {}]
    BY <1>3 DEF ManejarBsod
  <2>2. todos = [p \in Pids |-> IF ks.estado[p] = "SIN_CREAR" THEN ks.estado[p] ELSE "EXIT"]
    BY <1>1 DEF TipoKs, EstadosProceso
  <2> HIDE DEF todos, cpus, colas
  <2>3. ks'.estado = todos
    BY <1>1, <2>1 DEF TipoKs
  <2>4. Ciclo!TerminarTodos
    BY <2>2, <2>3 DEF Ciclo!TerminarTodos
  <2>5. QED
    BY <2>4 DEF Ciclo!Next
<1>4. CASE FinCompactacion
  <2> SUFFICES ASSUME NEW p, p = esperando.pid, NEW c, c = esperando.cpu
               PROVE  [Ciclo!Next]_(ks.estado)
    OBVIOUS
  <2>1. /\ Lee("FIN_COMPACTACION") /\ oyente.pc = "leer"
        /\ bsod_activo => ks' = ks
        /\ ~ bsod_activo => ks' = Retoma(ks, p, c)
    BY <1>4 DEF FinCompactacion, Lee, Retoma
  <2>2. CASE bsod_activo
    BY <2>1, <2>2
  <2>3. CASE ~ bsod_activo
    <3>1. esperando # Ninguno
      BY <2>1, FinLeido DEF Antes, TipoInv, MemoriaInv, TurnoInv, Avisos, Lee
    <3>2. p \in Pids /\ c \in Cpus
      BY <3>1 DEF Antes, TipoInv, HilosInv
    <3>3. KsBien(ks, p) /\ p # Nadie
      BY <2>1, <2>3, <3>1, <3>2, ListasVivas, ProcesosOK DEF Espera, Nadie
    <3>4. AquiEn(ks, c) = {}
      BY <2>1, <2>3, <3>2 DEF Antes, BienInv, ListasInv, CpuKs, Aqui
    <3>5. ks.estado[p] = "BLOCK"
      BY <3>3 DEF KsBien
    <3>6. ks'.estado = [ks.estado EXCEPT ![p] = "EXEC"]
      BY <1>1, <2>1, <2>3 DEF Retoma, TipoKs
    <3>7. Ciclo!Cardinality(Ciclo!EnEstado("EXEC")) < Cardinality(Cpus)
      BY <2>3, <3>2, <3>4, HayLugarEnCpu
    <3>8. Ciclo!Retomar(p)
      BY <3>5, <3>6, <3>7 DEF Ciclo!Retomar, Ciclo!Pasa
    <3>9. QED
      BY <3>2, <3>8 DEF Ciclo!Next
  <2>4. QED
    BY <2>2, <2>3
<1>5. QED
  BY <1>2, <1>3, <1>4 DEF HiloEscucharMemoria

\* Every step of the scheduler, the CPUs and the memory is a step of CicloDeVida,
\* or one that it does not see.
LEMMA CicloSigue ==
  ASSUME CompInv, [Next]_vars
  PROVE  [Ciclo!Next]_(ks.estado)
<1>1. CASE UNCHANGED vars
  BY <1>1 DEF vars
<1>2. CASE Next
  <2>1. Vivo
    BY <1>2 DEF Next, PasoPlanificador, PasoHilo, PasoCpu, PasoIo, PasoOyente, PasoStick
  <2>2. Antes
    BY <2>1 DEF Antes, CompInv, PlanInv, Vivo
  <2>3. CASE PasoPlanificador
    BY <2>2, <2>3, CicloPlanificador DEF PasoPlanificador
  <2>4. ASSUME NEW c \in Cpus, PasoHilo(c) PROVE [Ciclo!Next]_(ks.estado)
    BY <2>2, <2>4, CicloHiloCpu DEF PasoHilo
  <2>5. ASSUME NEW c \in Cpus, PasoCpu(c) PROVE [Ciclo!Next]_(ks.estado)
    BY <2>5 DEF PasoCpu
  <2>6. CASE PasoIo
    BY <2>2, <2>6, CicloIo DEF PasoIo
  <2>7. CASE PasoOyente
    BY <2>2, <2>7, CicloOyente DEF PasoOyente
  <2>8. CASE PasoStick
    BY <2>8 DEF PasoStick, StickSeVa
  <2>9. QED
    BY <1>2, <2>3, <2>4, <2>5, <2>6, <2>7, <2>8 DEF Next
<1>3. QED
  BY <1>1, <1>2

\* The scheduler with compactions and BSOD implements CicloDeVida: a process goes
\* back from BLOCK to EXEC only on a CPU that had kept no other, and all of them
\* end at once when the memory is lost.
THEOREM CompactacionImplementaCiclo == Spec => CicloDeVida
<1>1. Init => Ciclo!Init
  <2> SUFFICES ASSUME Init PROVE Ciclo!Init
    OBVIOUS
  <2>1. ks.estado = [p \in Pids |-> "READY"]
    BY DEF Init, PedidosInit, KsInit
  <2>2. QED
    BY <2>1 DEF Ciclo!Init
<1>2. CompInv /\ [Next]_vars => [Ciclo!Next]_(ks.estado)
  BY CicloSigue
<1>3. QED
  BY <1>1, <1>2, CompSiempre, PTL DEF Spec, CicloDeVida, Ciclo!Spec

-----------------------------------------------------------------------------
(* The interrupts that a CPU is sent for a compaction.                      *)

Interrupcion(m) == m.op = "INTERRUMPIR_PROCESO"

\* Those before an order are for the process that the CPU runs.
Suyas(s, p) ==
  \A j \in DOMAIN s : Interrupcion(s[j]) =>
    s[j].pid = p \/ \E k \in DOMAIN s : k < j /\ Orden(s[k])

\* Those behind an order are for the process of the order.
TrasOrden(s) ==
  \A k, j \in DOMAIN s : Orden(s[k]) /\ Interrupcion(s[j]) /\ k < j => s[j].pid = s[k].pid

\* No order is the last message.
Seguidas(s) == \A k \in DOMAIN s : Orden(s[k]) => \E j \in DOMAIN s : k < j /\ Interrupcion(s[j])

HayAviso(s, p) == \E j \in DOMAIN s : Interrupcion(s[j]) /\ s[j].pid = p

\* The first message is read.
LEMMA AvisoLeido ==
  ASSUME NEW a \in Seq(Mensaje), a # <<>>
  PROVE  LET m == Head(a)
             t == Tail(a) IN
         /\ TrasOrden(a) => TrasOrden(t) /\ (Orden(m) => Suyas(t, m.pid))
         /\ TrasOrden(a) /\ Seguidas(a) /\ Orden(m) => HayAviso(t, m.pid)
         /\ Seguidas(a) => Seguidas(t)
         /\ \A p : Suyas(a, p) => /\ Interrupcion(m) => m.pid = p
                                  /\ ~ Orden(m) => Suyas(t, p)
         /\ \A p : HayAviso(a, p) <=> (Interrupcion(m) /\ m.pid = p) \/ HayAviso(t, p)
<1> DEFINE m == Head(a)
           t == Tail(a)
<1>1. /\ \A j \in DOMAIN t : j + 1 \in DOMAIN a /\ t[j] = a[j + 1] /\ j \in Int /\ j >= 1
      /\ 1 \in DOMAIN a /\ m = a[1]
      /\ \A j \in DOMAIN a : j \in Int /\ j >= 1
                             /\ (j = 1 \/ (j - 1 \in DOMAIN t /\ t[j - 1] = a[j]))
  <2>1. /\ \A j \in DOMAIN t : j + 1 \in DOMAIN a /\ t[j] = a[j + 1]
        /\ 1 \in DOMAIN a /\ m = a[1] /\ Len(t) = Len(a) - 1 /\ Len(a) \in Nat
        /\ DOMAIN t = 1 .. Len(a) - 1 /\ DOMAIN a = 1 .. Len(a)
    BY MensajeQuitado
  <2> HIDE DEF m, t
  <2>2. \A j \in DOMAIN a : j # 1 => j - 1 \in DOMAIN t /\ (j - 1) + 1 = j
    BY <2>1
  <2>3. \A j \in DOMAIN a : j # 1 => j - 1 \in DOMAIN t /\ t[j - 1] = a[j]
    BY <2>1, <2>2
  <2>4. QED
    BY <2>1, <2>3
<1> HIDE DEF m, t
<1>2. ASSUME TrasOrden(a), NEW k \in DOMAIN t, NEW j \in DOMAIN t,
             Orden(t[k]), Interrupcion(t[j]), k < j
      PROVE  t[j].pid = t[k].pid
  <2>1. k + 1 \in DOMAIN a /\ j + 1 \in DOMAIN a /\ a[k + 1] = t[k] /\ a[j + 1] = t[j]
        /\ k + 1 < j + 1
    BY <1>1, <1>2
  <2>2. QED
    BY <1>2, <2>1 DEF TrasOrden
<1>3. ASSUME TrasOrden(a), Orden(m), NEW j \in DOMAIN t, Interrupcion(t[j])
      PROVE  t[j].pid = m.pid
  <2>1. j + 1 \in DOMAIN a /\ a[j + 1] = t[j] /\ 1 < j + 1
    BY <1>1
  <2>2. QED
    BY <1>1, <1>3, <2>1 DEF TrasOrden
<1>4. TrasOrden(a) => TrasOrden(t) /\ (Orden(m) => Suyas(t, m.pid))
  BY <1>2, <1>3 DEF TrasOrden, Suyas
<1>5. ASSUME TrasOrden(a), Seguidas(a), Orden(m) PROVE HayAviso(t, m.pid)
  <2>1. PICK j \in DOMAIN a : 1 < j /\ Interrupcion(a[j])
    BY <1>1, <1>5 DEF Seguidas
  <2>2. j - 1 \in DOMAIN t /\ t[j - 1] = a[j]
    BY <1>1, <2>1
  <2>3. QED
    BY <1>3, <1>5, <2>1, <2>2 DEF HayAviso
<1>6. ASSUME Seguidas(a), NEW k \in DOMAIN t, Orden(t[k])
      PROVE  \E j \in DOMAIN t : k < j /\ Interrupcion(t[j])
  <2>1. k + 1 \in DOMAIN a /\ a[k + 1] = t[k] /\ k \in Int /\ k >= 1
    BY <1>1
  <2>2. PICK j \in DOMAIN a : k + 1 < j /\ Interrupcion(a[j])
    BY <1>6, <2>1 DEF Seguidas
  <2>3. j \in Int /\ j # 1
    BY <1>1, <2>1, <2>2
  <2>4. j - 1 \in DOMAIN t /\ t[j - 1] = a[j] /\ k < j - 1
    BY <1>1, <2>1, <2>2, <2>3
  <2>5. QED
    BY <2>2, <2>4
<1>7. ASSUME NEW p, Suyas(a, p), Interrupcion(m) PROVE m.pid = p
  <2>1. ~ \E k \in DOMAIN a : k < 1
    BY <1>1
  <2>2. QED
    BY <1>1, <1>7, <2>1 DEF Suyas
<1>8. ASSUME NEW p, Suyas(a, p), ~ Orden(m), NEW j \in DOMAIN t, Interrupcion(t[j])
      PROVE  t[j].pid = p \/ \E k \in DOMAIN t : k < j /\ Orden(t[k])
  <2>1. j + 1 \in DOMAIN a /\ a[j + 1] = t[j] /\ j \in Int
    BY <1>1
  <2>2. CASE t[j].pid # p
    <3>1. PICK k \in DOMAIN a : k < j + 1 /\ Orden(a[k])
      BY <1>8, <2>1, <2>2 DEF Suyas
    <3>2. k \in Int /\ k # 1
      BY <1>1, <1>8, <3>1
    <3>3. k - 1 \in DOMAIN t /\ t[k - 1] = a[k] /\ k - 1 < j
      BY <1>1, <2>1, <3>1, <3>2
    <3>4. QED
      BY <3>1, <3>3
  <2>3. QED
    BY <2>2
<1>9. ASSUME NEW p
      PROVE  HayAviso(a, p) <=> (Interrupcion(m) /\ m.pid = p) \/ HayAviso(t, p)
  BY <1>1 DEF HayAviso
<1>10. Seguidas(a) => Seguidas(t)
  BY <1>6 DEF Seguidas
<1>11. ASSUME NEW p, Suyas(a, p)
       PROVE  /\ Interrupcion(m) => m.pid = p
              /\ ~ Orden(m) => Suyas(t, p)
  BY <1>7, <1>8, <1>11 DEF Suyas
<1>12. QED
  BY <1>4, <1>5, <1>9, <1>10, <1>11 DEF m, t

\* A message that is no interrupt is sent.
LEMMA AvisoEnviado ==
  ASSUME NEW a \in Seq(Mensaje), NEW m, ~ Interrupcion(m)
  PROVE  LET b == Append(a, m) IN
         /\ TrasOrden(a) => TrasOrden(b)
         /\ Seguidas(a) /\ ~ Orden(m) => Seguidas(b)
         /\ \A p : Suyas(a, p) => Suyas(b, p)
         /\ \A p : HayAviso(a, p) => HayAviso(b, p)
<1> DEFINE b == Append(a, m)
           n == Len(a) + 1
<1>1. /\ \A j \in DOMAIN a : j \in DOMAIN b /\ b[j] = a[j]
      /\ \A j \in DOMAIN b : (j = n /\ b[j] = m) \/ (j \in DOMAIN a /\ b[j] = a[j] /\ j < n)
      /\ \A j \in DOMAIN b : j \in Int
  <2>1. /\ \A i \in DOMAIN a : i \in DOMAIN b /\ b[i] = a[i]
        /\ \A i \in DOMAIN b : (i = n /\ b[i] = m) \/ (i \in DOMAIN a /\ b[i] = a[i])
        /\ Len(b) = n /\ Len(a) \in Nat /\ DOMAIN a = 1 .. Len(a)
    BY MensajeAgregado
  <2> HIDE DEF b
  <2>2. QED
    BY <2>1
<1> HIDE DEF b, n
<1>2. \A j \in DOMAIN b : ~ Interrupcion(b[j]) \/ (j \in DOMAIN a /\ b[j] = a[j] /\ j < n)
  BY <1>1
<1>3. ASSUME TrasOrden(a), NEW k \in DOMAIN b, NEW j \in DOMAIN b,
             Orden(b[k]), Interrupcion(b[j]), k < j
      PROVE  b[j].pid = b[k].pid
  <2>1. j \in DOMAIN a /\ b[j] = a[j] /\ j < n
    BY <1>2, <1>3
  <2>2. n \in Int => k # n
    BY <1>1, <1>3, <2>1
  <2>3. n \in Int
    BY LenProperties DEF n
  <2>4. k \in DOMAIN a /\ b[k] = a[k]
    BY <1>1, <2>2, <2>3
  <2>5. QED
    BY <1>3, <2>1, <2>4 DEF TrasOrden
<1>4. Seguidas(a) /\ ~ Orden(m) => Seguidas(b)
  BY <1>1 DEF Seguidas
<1>5. ASSUME NEW p, Suyas(a, p) PROVE Suyas(b, p)
  BY <1>1, <1>2, <1>5 DEF Suyas
<1>6. ASSUME NEW p, HayAviso(a, p) PROVE HayAviso(b, p)
  BY <1>1, <1>6 DEF HayAviso
<1>7. TrasOrden(a) => TrasOrden(b)
  BY <1>3 DEF TrasOrden
<1>8. QED
  BY <1>4, <1>5, <1>6, <1>7 DEF b

\* The processes of S, no more than one, are interrupted.
LEMMA AvisoInterrumpe ==
  ASSUME NEW a \in Seq(Mensaje), NEW t \in Seq(Mensaje), NEW S,
         \A j \in DOMAIN t : Interrupcion(t[j]) /\ t[j].pid \in S,
         \A q \in S : HayAviso(t, q), \A q, r \in S : q = r, OrdenesEn(a, S)
  PROVE  LET b == a \o t IN
         /\ TrasOrden(a) => TrasOrden(b)
         /\ Seguidas(b)
         /\ \A p \in S : HayAviso(b, p) /\ (Suyas(a, p) => Suyas(b, p))
<1> DEFINE b == a \o t
           n == Len(a)
<1>1. /\ \A j \in DOMAIN a : j \in DOMAIN b /\ b[j] = a[j] /\ j \in Int /\ j <= n
      /\ \A j \in DOMAIN b : \/ j \in DOMAIN a /\ b[j] = a[j]
                             \/ \E i \in DOMAIN t : b[j] = t[i]
      /\ \A i \in DOMAIN t : /\ n + i \in DOMAIN b /\ b[n + i] = t[i] /\ i \in Int /\ i >= 1
      /\ \A j \in DOMAIN b : j \in Int /\ (j \in DOMAIN a <=> j <= n)
      /\ n \in Int
  <2>1. n \in Nat /\ Len(t) \in Nat /\ DOMAIN a = 1 .. n /\ DOMAIN t = 1 .. Len(t)
    BY LenProperties
  <2>2. /\ b \in Seq(Mensaje) /\ Len(b) = n + Len(t)
        /\ \A i \in 1 .. n + Len(t) : b[i] = IF i <= n THEN a[i] ELSE t[i - n]
    BY ConcatProperties
  <2>3. DOMAIN b = 1 .. n + Len(t)
    BY <2>2, LenProperties
  <2> HIDE DEF b, n
  <2>4. ASSUME NEW i \in DOMAIN t PROVE n + i \in DOMAIN b /\ b[n + i] = t[i] /\ i \in Int /\ i >= 1
    <3>1. n + i \in DOMAIN b /\ ~ (n + i <= n) /\ (n + i) - n = i /\ i \in Int /\ i >= 1
      BY <2>1, <2>3
    <3>2. b[n + i] = t[(n + i) - n]
      BY <2>2, <2>3, <3>1
    <3>3. QED
      BY <3>1, <3>2
  <2>5. ASSUME NEW j \in DOMAIN b, j \notin DOMAIN a PROVE \E i \in DOMAIN t : b[j] = t[i]
    <3>1. j - n \in DOMAIN t /\ ~ (j <= n)
      BY <2>1, <2>3, <2>5
    <3>2. b[j] = t[j - n]
      BY <2>2, <2>3, <3>1
    <3>3. QED
      BY <3>1, <3>2
  <2>6. \A j \in DOMAIN a : j \in DOMAIN b /\ b[j] = a[j] /\ j \in Int /\ j <= n
    BY <2>1, <2>2, <2>3
  <2>7. \A j \in DOMAIN b : j \in Int /\ (j \in DOMAIN a <=> j <= n)
    BY <2>1, <2>3
  <2>8. QED
    BY <2>1, <2>4, <2>5, <2>6, <2>7
<1> HIDE DEF b, n
<1>2. \A j \in DOMAIN b : j \notin DOMAIN a => Interrupcion(b[j]) /\ b[j].pid \in S
  BY <1>1
<1>3. \A j \in DOMAIN b : Orden(b[j]) => j \in DOMAIN a /\ b[j] = a[j] /\ b[j].pid \in S
  BY <1>1, <1>2 DEF Orden, Interrupcion, OrdenesEn
<1>4. ASSUME TrasOrden(a), NEW k \in DOMAIN b, NEW j \in DOMAIN b,
             Orden(b[k]), Interrupcion(b[j]), k < j
      PROVE  b[j].pid = b[k].pid
  <2>1. k \in DOMAIN a /\ b[k] = a[k] /\ b[k].pid \in S
    BY <1>3, <1>4
  <2>2. CASE j \in DOMAIN a
    <3>1. b[j] = a[j]
      BY <1>1, <2>2
    <3>2. QED
      BY <1>4, <2>1, <2>2, <3>1 DEF TrasOrden
  <2>3. CASE j \notin DOMAIN a
    BY <1>2, <2>1, <2>3
  <2>4. QED
    BY <2>2, <2>3
<1>5. ASSUME NEW p \in S PROVE HayAviso(b, p)
  <2>1. PICK i \in DOMAIN t : Interrupcion(t[i]) /\ t[i].pid = p
    BY DEF HayAviso
  <2>2. n + i \in DOMAIN b /\ b[n + i] = t[i]
    BY <1>1
  <2>3. QED
    BY <2>1, <2>2 DEF HayAviso
<1>6. ASSUME NEW k \in DOMAIN b, Orden(b[k])
      PROVE  \E j \in DOMAIN b : k < j /\ Interrupcion(b[j])
  <2>1. k \in DOMAIN a /\ b[k].pid \in S /\ k \in Int /\ k <= n
    BY <1>1, <1>3, <1>6
  <2>2. PICK i \in DOMAIN t : Interrupcion(t[i])
    BY <2>1 DEF HayAviso
  <2>3. n + i \in DOMAIN b /\ b[n + i] = t[i] /\ k < n + i
    BY <1>1, <2>1
  <2>4. QED
    BY <2>2, <2>3
<1>7. ASSUME NEW p \in S, Suyas(a, p), NEW j \in DOMAIN b, Interrupcion(b[j]), b[j].pid # p
      PROVE  \E k \in DOMAIN b : k < j /\ Orden(b[k])
  <2>1. j \in DOMAIN a /\ b[j] = a[j]
    BY <1>1, <1>2, <1>7
  <2>2. PICK k \in DOMAIN a : k < j /\ Orden(a[k])
    BY <1>7, <2>1 DEF Suyas
  <2>3. QED
    BY <1>1, <2>2
<1>8. TrasOrden(a) => TrasOrden(b)
  BY <1>4 DEF TrasOrden
<1>9. Seguidas(b)
  BY <1>6 DEF Seguidas
<1>10. ASSUME NEW p \in S, Suyas(a, p) PROVE Suyas(b, p)
  BY <1>7, <1>10 DEF Suyas
<1>11. QED
  BY <1>5, <1>8, <1>9, <1>10 DEF b

\* The process p has been told to stop: the interrupt is kept, or waits.
Avisado(s, i, p) == i = p \/ HayAviso(s, p)

\* What is so of the interrupts of a CPU that runs p, with a segment table that is
\* old or not (v).
AvisosDe(a, i, e, p, v) ==
  /\ p # Nadie /\ SinBloqueado(a) => Suyas(a, p)
  /\ TrasOrden(a)
  /\ v /\ e = "ejecuta" => Avisado(a, i, p)

\* And while a thread waits to confirm the compaction, when all have been sent.
Confirmado(a, i, p) ==
  /\ p # Nadie /\ SinBloqueado(a) => Avisado(a, i, p)
  /\ Seguidas(a)

\* check_interrupt keeps that: an interrupt that it reads is for its process.
LEMMA AvisosRevisa ==
  ASSUME NEW b \in Seq(Mensaje), NEW p0, p0 # Nadie, NEW d0, NEW i, Vacio(b),
         NEW a, NEW d, NEW e, NEW p, NEW j, Revisa(b, d0, p0, i, a, d, e, p, j),
         Suyas(b, p0), TrasOrden(b), NEW v
  PROVE  /\ (v => Avisado(b, i, p0)) => AvisosDe(a, j, e, p, v)
         /\ Avisado(b, i, p0) /\ Seguidas(b) => Confirmado(a, j, p)
<1> DEFINE m == Head(b)
           t == Tail(b)
<1>1. b # <<>> =>
         /\ TrasOrden(b) => TrasOrden(t)
         /\ Seguidas(b) => Seguidas(t)
         /\ Interrupcion(m) => m.pid = p0
         /\ ~ Orden(m) => Suyas(t, p0)
         /\ HayAviso(b, p0) <=> (Interrupcion(m) /\ m.pid = p0) \/ HayAviso(t, p0)
  BY AvisoLeido
<1>2. b # <<>> => ~ Orden(m)
  BY Leido DEF Vacio
<1>3. /\ j = Nadie
      /\ a = IF i # Nadie \/ b = <<>> THEN b ELSE t
      /\ \/ e = "espera" /\ p = Nadie
         \/ ~ Pide(b, p0, i) /\ e = "ejecuta" /\ p = p0
  BY DEF Revisa, Sale
<1> HIDE DEF m, t
<1>4. TrasOrden(a) /\ (Seguidas(b) => Seguidas(a))
  BY <1>1, <1>3
<1>5. CASE e = "espera" /\ p = Nadie
  BY <1>4, <1>5 DEF AvisosDe, Confirmado
<1>6. CASE ~ Pide(b, p0, i) /\ e = "ejecuta" /\ p = p0
  <2>1. CASE i # Nadie \/ b = <<>>
    <3>1. a = b /\ (Avisado(b, i, p0) => HayAviso(a, p))
      BY <1>3, <1>6, <2>1 DEF Pide, Avisado
    <3>2. QED
      BY <1>4, <1>6, <3>1 DEF AvisosDe, Confirmado, Avisado
  <2>2. CASE i = Nadie /\ b # <<>>
    <3>1. a = t /\ ~ Interrupcion(m)
      BY <1>1, <1>3, <1>6, <2>2 DEF Pide, Interrupcion, m
    <3>2. Suyas(a, p) /\ (Avisado(b, i, p0) => HayAviso(a, p))
      BY <1>1, <1>2, <1>6, <2>2, <3>1 DEF Avisado
    <3>3. QED
      BY <1>4, <3>2 DEF AvisosDe, Confirmado, Avisado
  <2>3. QED
    BY <2>1, <2>2
<1>7. QED
  BY <1>3, <1>5, <1>6

\* A step of a CPU keeps that.
LEMMA AvisosCpu ==
  ASSUME NEW a \in Seq(Mensaje), NEW d, NEW e, NEW p, NEW i, NEW v, NEW h,
         NEW a1, NEW d1, NEW e1, NEW p1, NEW i1, NEW v1,
         CpuVa(a, d, e, p, i, v, a1, d1, e1, p1, i1, v1),
         Canal(a, d, e, p, h), AvisosDe(a, i, e, p, v)
  PROVE  /\ AvisosDe(a1, i1, e1, p1, v1)
         /\ Confirmado(a, i, p) => Confirmado(a1, i1, p1)
<1> DEFINE m == Head(a)
           t == Tail(a)
           Va == /\ AvisosDe(a1, i1, e1, p1, v1)
                 /\ Confirmado(a, i, p) => Confirmado(a1, i1, p1)
<1>1. a # <<>> =>
        /\ t \in Seq(Mensaje) /\ m \in Mensaje
        /\ SinOrdenes(a) <=> ~ Orden(m) /\ SinOrdenes(t)
        /\ SinBloqueado(a) <=> m.op # "BLOQUEADO" /\ SinBloqueado(t)
        /\ Forma(a) => (Respuesta(m) => SinRespuestas(t))
  BY Leido
<1>2. a # <<>> =>
         /\ TrasOrden(t) /\ (Orden(m) => Suyas(t, m.pid))
         /\ Seguidas(a) /\ Orden(m) => HayAviso(t, m.pid)
         /\ Seguidas(a) => Seguidas(t)
         /\ Suyas(a, p) => /\ Interrupcion(m) => m.pid = p
                           /\ ~ Orden(m) => Suyas(t, p)
         /\ HayAviso(a, p) <=> (Interrupcion(m) /\ m.pid = p) \/ HayAviso(t, p)
  BY AvisoLeido DEF AvisosDe
<1>3. SinRespuestas(a) => SinBloqueado(a)
  BY BloqueadoEsRespuesta
<1>4. SinRespuestas(t) => SinBloqueado(t)
  BY BloqueadoEsRespuesta
<1>5. /\ p # Nadie /\ SinBloqueado(a) => Suyas(a, p)
      /\ TrasOrden(a)
      /\ v /\ e = "ejecuta" => Avisado(a, i, p)
      /\ Confirmado(a, i, p) => /\ Seguidas(a)
                                /\ p # Nadie /\ SinBloqueado(a) => Avisado(a, i, p)
  BY DEF AvisosDe, Confirmado
<1>6. /\ Forma(a) /\ (e = "espera" <=> p = Nadie)
      /\ e = "ejecuta" => Vacio(a)
      /\ ~ SinOrdenes(a) => e = "espera" \/ ~ SinBloqueado(a)
  BY DEF Canal
<1>7. Orden(m) <=> m.op = "EJECUTAR_PROCESO"
  BY DEF Orden
<1>8. Interrupcion(m) <=> m.op = "INTERRUMPIR_PROCESO"
  BY DEF Interrupcion
<1>9. Respuesta(m) <=> m.op \in {"OK", "ERROR", "BLOQUEADO"}
  BY DEF Respuesta
<1> HIDE DEF m, t
<1>10. ASSUME a # <<>>, a1 = t, p1 = Nadie, e1 # "ejecuta" PROVE Va
  BY <1>2, <1>5, <1>10 DEF AvisosDe, Confirmado
<1>11. ASSUME a1 = a, p1 = Nadie, e1 # "ejecuta" PROVE Va
  BY <1>5, <1>11 DEF AvisosDe, Confirmado
<1>12. ASSUME a # <<>>, a1 = t, i1 = i, m.op = "EJECUTAR_PROCESO", p1 = m.pid, v1 = FALSE
       PROVE  Va
  BY <1>2, <1>5, <1>7, <1>12 DEF AvisosDe, Confirmado, Avisado
<1>13. ASSUME e = "ejecuta", a1 = a, i1 = i, e1 = "respuesta", p1 = p
       PROVE  Va
  BY <1>5, <1>13 DEF AvisosDe, Confirmado
<1>14. ASSUME e = "ejecuta", v1 = v, Revisa(a, d, p, i, a1, d1, e1, p1, i1) PROVE Va
  <2>1. Vacio(a) /\ p # Nadie /\ SinBloqueado(a)
    BY <1>3, <1>6, <1>14 DEF Vacio
  <2>2. /\ (v => Avisado(a, i, p)) => AvisosDe(a1, i1, e1, p1, v)
        /\ Avisado(a, i, p) /\ Seguidas(a) => Confirmado(a1, i1, p1)
    BY <1>5, <1>14, <2>1, AvisosRevisa
  <2>3. QED
    BY <1>5, <1>14, <2>1, <2>2
<1>15. ASSUME e = "respuesta", a # <<>>, m.op = "OK", v1 = FALSE,
              Revisa(t, d, p, i, a1, d1, e1, p1, i1)
       PROVE  Va
  <2>1. Respuesta(m) /\ ~ Orden(m) /\ ~ Interrupcion(m)
    BY <1>7, <1>8, <1>9, <1>15
  <2>2. SinRespuestas(t) /\ SinBloqueado(a)
    BY <1>1, <1>4, <1>6, <1>15, <2>1
  <2>3. Vacio(t) /\ p # Nadie /\ Suyas(t, p) /\ TrasOrden(t)
    BY <1>1, <1>2, <1>5, <1>6, <1>15, <2>1, <2>2 DEF Vacio
  <2>4. Avisado(a, i, p) => Avisado(t, i, p)
    BY <1>2, <1>15, <2>1 DEF Avisado
  <2>5. /\ (v1 => Avisado(t, i, p)) => AvisosDe(a1, i1, e1, p1, v1)
        /\ Avisado(t, i, p) /\ Seguidas(t) => Confirmado(a1, i1, p1)
    BY <1>1, <1>15, <2>3, AvisosRevisa
  <2>6. QED
    BY <1>2, <1>5, <1>15, <2>2, <2>3, <2>4, <2>5
<1>16. ASSUME e = "respuesta", a # <<>>, a1 = t, m.op = "INTERRUMPIR_PROCESO",
              e1 = e, p1 = p, i1 = m.pid
       PROVE  Va
  <2>1. ~ Orden(m) /\ Interrupcion(m) /\ p # Nadie
    BY <1>6, <1>7, <1>8, <1>16
  <2>2. SinBloqueado(t) => SinBloqueado(a)
    BY <1>1, <1>16
  <2>3. SinBloqueado(t) => Suyas(t, p) /\ i1 = p
    BY <1>2, <1>5, <1>16, <2>1, <2>2
  <2>4. QED
    BY <1>2, <1>5, <1>16, <2>3 DEF AvisosDe, Confirmado, Avisado
<1>17. ASSUME e = "espera", a # <<>>, a1 = t, e1 = e, p1 = p PROVE Va
  BY <1>6, <1>10, <1>17
<1>18. ASSUME NEW op, Sale(op, d, p, d1, e1, p1), a1 = a \/ (a # <<>> /\ a1 = t) PROVE Va
  BY <1>10, <1>11, <1>18 DEF Sale
<1> HIDE DEF Va
<1>19. Va
  BY <1>10, <1>12, <1>13, <1>14, <1>15, <1>16, <1>17, <1>18 DEF CpuVa, m, t
<1>20. QED
  BY <1>19 DEF Va

AvisosEn(c) ==
  AvisosDe(a_cpu[c], interrupcion_pendiente_pid[c], cpu_estado[c], cpu_pid[c],
           c \in tabla_vieja)

ConfirmadoEn(c) == Confirmado(a_cpu[c], interrupcion_pendiente_pid[c], cpu_pid[c])

\* The interrupts have been sent and the compaction has not been confirmed.
Confirma == \E c \in Cpus : hilo_cpu[c].pc = "confirmar"

AvisosInv == ~ bsod_activo => \A c \in Cpus : AvisosEn(c) /\ (Confirma => ConfirmadoEn(c))

\* While the interrupts are sent or the compaction is to be confirmed, the planner
\* has nothing to send, the listener neither, and no other thread is there.
LEMMA ParadaSola ==
  ASSUME TipoInv, TurnoInv, NEW c \in Cpus, hilo_cpu[c].pc \in Parada
  PROVE  /\ planificador = Ninguno /\ oyente.pc # "ejecutar"
         /\ \A d \in Cpus : hilo_cpu[d].pc \in Parada => d = c
<1>1. /\ esperando # Ninguno /\ esperando.cpu = c /\ oyente.pc # "ejecutar"
      /\ \A d \in Cpus : hilo_cpu[d].pc \in Parada => esperando.cpu = d
  BY DEF TurnoInv
<1>2. /\ sem_puede_planificar + (IF planificador # Ninguno THEN 1 ELSE 0)
           + (IF esperando # Ninguno THEN 1 ELSE 0) = 1
      /\ sem_puede_planificar \in 0 .. 1
  BY DEF TurnoInv, TipoInv, HilosInv
<1>3. planificador = Ninguno
  BY <1>1, <1>2
<1>4. QED
  BY <1>1, <1>3

\* A CPU that runs a process has not been told that it is blocked.
LEMMA EjecutaSinBloqueado ==
  ASSUME NEW a, NEW d, NEW e, NEW p, NEW h, Canal(a, d, e, p, h), e = "ejecuta"
  PROVE  p # Nadie /\ SinBloqueado(a)
BY BloqueadoEsRespuesta DEF Canal, Vacio

\* The CPUs do nothing and are sent no interrupt, and an order only when no
\* compaction is to be confirmed.
LEMMA AvisosQuietos ==
  ASSUME AvisosInv, a_cpu \in [Cpus -> Seq(Mensaje)], SinCpu, bsod_activo => bsod_activo',
         Confirma' => Confirma,
         \A c \in Cpus : \/ a_cpu'[c] = a_cpu[c]
                         \/ \E m : /\ a_cpu'[c] = Append(a_cpu[c], m)
                                   /\ ~ Interrupcion(m) /\ (Orden(m) => ~ Confirma')
  PROVE  AvisosInv'
<1> SUFFICES ASSUME ~ bsod_activo', NEW c \in Cpus
             PROVE  AvisosEn(c)' /\ (Confirma' => ConfirmadoEn(c)')
  BY DEF AvisosInv
<1>1. AvisosEn(c) /\ (Confirma' => ConfirmadoEn(c))
  BY DEF AvisosInv
<1> DEFINE a == a_cpu[c]
           b == a_cpu'[c]
           i == interrupcion_pendiente_pid[c]
           e == cpu_estado[c]
           p == cpu_pid[c]
           v == c \in tabla_vieja
           z == Confirma'
<1>2. /\ AvisosEn(c)' <=> AvisosDe(b, i, e, p, v)
      /\ ConfirmadoEn(c)' <=> Confirmado(b, i, p)
  BY DEF AvisosEn, ConfirmadoEn, SinCpu, cpuVars
<1>3. AvisosDe(a, i, e, p, v) /\ (z => Confirmado(a, i, p))
  BY <1>1 DEF AvisosEn, ConfirmadoEn
<1>4. a \in Seq(Mensaje)
  OBVIOUS
<1>5. \/ b = a
      \/ \E m : b = Append(a, m) /\ ~ Interrupcion(m) /\ (Orden(m) => ~ z)
  OBVIOUS
<1> HIDE DEF a, b, i, e, p, v, z
<1>6. ASSUME NEW m, b = Append(a, m), ~ Interrupcion(m), Orden(m) => ~ z
      PROVE  AvisosDe(b, i, e, p, v) /\ (z => Confirmado(b, i, p))
  <2>1. /\ TrasOrden(a) => TrasOrden(b)
        /\ Seguidas(a) /\ ~ Orden(m) => Seguidas(b)
        /\ Suyas(a, p) => Suyas(b, p)
        /\ HayAviso(a, p) => HayAviso(b, p)
    BY <1>4, <1>6, AvisoEnviado
  <2>2. SinBloqueado(b) => SinBloqueado(a)
    BY <1>4, <1>6, Enviado
  <2>3. Avisado(a, i, p) => Avisado(b, i, p)
    BY <2>1 DEF Avisado
  <2>4. QED
    BY <1>3, <1>6, <2>1, <2>2, <2>3 DEF AvisosDe, Confirmado
<1>7. AvisosDe(b, i, e, p, v) /\ (z => Confirmado(b, i, p))
  BY <1>3, <1>5, <1>6
<1>8. QED
  BY <1>2, <1>7 DEF z

\* No other thread comes to confirm.
LEMMA HiloNoConfirma ==
  ASSUME hilo_cpu \in [Cpus -> HiloConPid], NEW c \in Cpus,
         \/ Recibir(c) \/ \E pc : pc # "confirmar" /\ Al(c, pc)
         \/ hilo_cpu' = hilo_cpu
         \/ \E h : h.pc # "confirmar" /\ hilo_cpu' = [hilo_cpu EXCEPT ![c] = h]
  PROVE  Confirma' => Confirma
<1>1. \A d \in Cpus : d # c => hilo_cpu'[d] = hilo_cpu[d]
  BY HiloVa
<1>2. hilo_cpu'[c] = hilo_cpu[c] \/ hilo_cpu'[c].pc # "confirmar"
  BY HiloVa
<1>3. QED
  BY <1>1, <1>2 DEF Confirma

\* What desalojar_todas_las_cpus sends to a CPU: one interrupt for each process
\* that is in EXEC there.
LEMMA AvisosDeEjecucion ==
  ASSUME ks.exec \in SUBSET Pids, NEW c \in Cpus
  PROVE  LET t == SetToSeq(Suspensiones(EnEjecucion, c)) IN
         /\ t \in Seq(Mensaje)
         /\ \A j \in DOMAIN t : Interrupcion(t[j]) /\ t[j].pid \in Aqui(c)
         /\ \A q \in Aqui(c) : HayAviso(t, q)
<1> DEFINE S == Suspensiones(EnEjecucion, c)
           t == SetToSeq(S)
<1>1. \A q : q \in {p \in Pids : <<c, p>> \in EnEjecucion} <=> q \in Aqui(c)
  BY DEF EnEjecucion, Aqui, AquiEn
<1>2. ASSUME NEW m \in S PROVE Interrupcion(m) /\ m.pid \in Aqui(c)
  <2>1. PICK p \in {q \in Pids : <<c, q>> \in EnEjecucion} :
          m = [op |-> "INTERRUMPIR_PROCESO", pid |-> p]
    BY DEF Suspensiones
  <2>2. p \in Aqui(c)
    BY <1>1
  <2>3. m.op = "INTERRUMPIR_PROCESO" /\ m.pid = p
    BY <2>1
  <2>4. QED
    BY <2>2, <2>3 DEF Interrupcion
<1>3. ASSUME NEW q \in Aqui(c)
      PROVE  \E m \in S : m.op = "INTERRUMPIR_PROCESO" /\ m.pid = q
  <2> DEFINE m == [op |-> "INTERRUMPIR_PROCESO", pid |-> q]
  <2>1. q \in {p \in Pids : <<c, p>> \in EnEjecucion}
    BY <1>1
  <2>2. m \in S
    BY <2>1 DEF Suspensiones
  <2>3. m.op = "INTERRUMPIR_PROCESO" /\ m.pid = q
    OBVIOUS
  <2> HIDE DEF m, S
  <2>4. QED
    BY <2>2, <2>3
<1>4. IsFiniteSet(S) /\ S \in SUBSET Mensaje
  BY SuspensionesFinitas
<1> HIDE DEF S
<1>5. /\ t \in Seq(S) /\ Len(t) = Cardinality(S)
      /\ \A x \in S : \E i \in 1 .. Cardinality(S) : t[i] = x
  BY <1>4, SetToSeqEs
<1> HIDE DEF t
<1>6. DOMAIN t = 1 .. Cardinality(S) /\ \A j \in DOMAIN t : t[j] \in S
  BY <1>5, ElementOfSeq, LenProperties
<1>7. t \in Seq(Mensaje)
  BY <1>4, <1>5
<1>8. \A j \in DOMAIN t : Interrupcion(t[j]) /\ t[j].pid \in Aqui(c)
  BY <1>2, <1>6
<1>9. ASSUME NEW q \in Aqui(c) PROVE HayAviso(t, q)
  <2>1. PICK m \in S : m.op = "INTERRUMPIR_PROCESO" /\ m.pid = q
    BY <1>3
  <2>2. PICK j \in DOMAIN t : t[j] = m
    BY <1>5, <1>6
  <2>3. QED
    BY <2>1, <2>2 DEF HayAviso, Interrupcion
<1>10. QED
  BY <1>7, <1>8, <1>9 DEF t, S

\* The interrupts are sent: each CPU that runs a process, or has been sent one,
\* has one for it.
LEMMA AvisosDesalojar ==
  ASSUME Antes, AvisosInv, NEW c0 \in Cpus, DesalojarTodasLasCpus(c0)
  PROVE  AvisosInv'
<1> SUFFICES ASSUME ~ bsod_activo', NEW c \in Cpus
             PROVE  AvisosEn(c)' /\ ConfirmadoEn(c)'
  BY DEF AvisosInv
<1>1. /\ a_cpu' = Interrumpir(a_cpu, EnEjecucion) /\ UNCHANGED <<cpuVars, tabla_vieja>>
      /\ ~ bsod_activo
  BY DEF DesalojarTodasLasCpus, SinCpu, finVars
<1>2. /\ a_cpu \in [Cpus -> Seq(Mensaje)] /\ ks.exec \in SUBSET Pids
      /\ CanalDe(c) /\ LlevaDe(c) /\ KsBien(ks, Espera) /\ AvisosEn(c)
  BY <1>1 DEF Antes, TipoInv, CpuInv, TiposInv, TipoKs, BienInv, CanalesInv, ListasInv, CpuKs,
              AvisosInv
<1> DEFINE S == Aqui(c)
           t == SetToSeq(Suspensiones(EnEjecucion, c))
           a == a_cpu[c]
           d == de_cpu[c]
           h == hilo_cpu[c]
           i == interrupcion_pendiente_pid[c]
           e == cpu_estado[c]
           p == cpu_pid[c]
           v == c \in tabla_vieja
<1>3. a_cpu'[c] = a \o t
  BY <1>1, <1>2, InterrumpirTipo
<1>4. /\ AvisosEn(c)' <=> AvisosDe(a \o t, i, e, p, v)
      /\ ConfirmadoEn(c)' <=> Confirmado(a \o t, i, p)
  BY <1>1, <1>3 DEF AvisosEn, ConfirmadoEn, cpuVars
<1>5. /\ t \in Seq(Mensaje)
      /\ \A j \in DOMAIN t : Interrupcion(t[j]) /\ t[j].pid \in S
      /\ \A q \in S : HayAviso(t, q)
  BY <1>2, AvisosDeEjecucion
<1>6. \A q, r \in S : q = r
  BY <1>2, AquiUno DEF Aqui
<1>7. AvisosDe(a, i, e, p, v) /\ Canal(a, d, e, p, h) /\ Lleva(a, d, p, S)
  BY <1>2 DEF AvisosEn, CanalDe, LlevaDe
<1>8. a \in Seq(Mensaje)
  BY <1>2
<1> HIDE DEF S, t, a, d, h, i, e, p, v
<1>9. /\ OrdenesEn(a, S)
      /\ p # Nadie /\ SinBloqueado(a) => p \in S
  BY <1>7 DEF Lleva
<1>10. /\ TrasOrden(a) => TrasOrden(a \o t)
       /\ Seguidas(a \o t)
       /\ \A q \in S : HayAviso(a \o t, q) /\ (Suyas(a, q) => Suyas(a \o t, q))
  BY <1>5, <1>6, <1>8, <1>9, AvisoInterrumpe
<1>11. SinBloqueado(a \o t) => SinBloqueado(a)
  BY <1>5, <1>8, Interrumpido DEF Interrupcion
<1>12. e = "ejecuta" => p # Nadie /\ SinBloqueado(a)
  BY <1>7, EjecutaSinBloqueado
<1> DEFINE b == a \o t
<1> HIDE DEF b
<1>13. /\ p # Nadie /\ SinBloqueado(b) => Suyas(b, p) /\ HayAviso(b, p)
       /\ e = "ejecuta" => HayAviso(b, p)
       /\ TrasOrden(b) /\ Seguidas(b)
  BY <1>7, <1>9, <1>10, <1>11, <1>12 DEF AvisosDe, b
<1>14. AvisosDe(b, i, e, p, v) /\ Confirmado(b, i, p)
  BY <1>13 DEF AvisosDe, Confirmado, Avisado
<1>15. QED
  BY <1>4, <1>14 DEF b

\* Segments are moved: the CPUs whose tables that makes old have been told.
LEMMA AvisosCompactar ==
  ASSUME Antes, AvisosInv, NEW c0 \in Cpus, Compactar(c0)
  PROVE  AvisosInv'
<1>1. /\ hilo_cpu[c0].pc = "confirmar" /\ Recibir(c0) /\ UNCHANGED <<canales, cpuVars, finVars>>
      /\ hilo_cpu \in [Cpus -> HiloConPid]
  BY DEF Compactar, En, Antes, TipoInv, HilosInv
<1>2. Confirma
  BY <1>1 DEF Confirma
<1>3. ~ Confirma'
  <2>1. /\ hilo_cpu'[c0].pc = "recibir"
        /\ \A d \in Cpus : d # c0 => hilo_cpu'[d] = hilo_cpu[d]
    BY <1>1, HiloVa
  <2>2. \A d \in Cpus : hilo_cpu[d].pc = "confirmar" => d = c0
    BY <1>1, ParadaSola DEF Parada, Antes
  <2>3. QED
    BY <2>1, <2>2 DEF Confirma
<1> SUFFICES ASSUME ~ bsod_activo', NEW c \in Cpus PROVE AvisosEn(c)'
  BY <1>3 DEF AvisosInv
<1>4. AvisosEn(c) /\ ConfirmadoEn(c) /\ CanalDe(c)
  BY <1>1, <1>2 DEF AvisosInv, finVars, Antes, BienInv, CanalesInv
<1> DEFINE a == a_cpu[c]
           d == de_cpu[c]
           h == hilo_cpu[c]
           i == interrupcion_pendiente_pid[c]
           e == cpu_estado[c]
           p == cpu_pid[c]
           v == c \in tabla_vieja
           w == c \in tabla_vieja'
<1>5. AvisosEn(c)' <=> AvisosDe(a, i, e, p, w)
  BY <1>1 DEF AvisosEn, canales, cpuVars
<1>6. AvisosDe(a, i, e, p, v) /\ Confirmado(a, i, p) /\ Canal(a, d, e, p, h)
  BY <1>4 DEF AvisosEn, ConfirmadoEn, CanalDe
<1> HIDE DEF a, d, h, i, e, p, v, w
<1>7. e = "ejecuta" => Avisado(a, i, p)
  BY <1>6, EjecutaSinBloqueado DEF Confirmado
<1>8. QED
  BY <1>5, <1>6, <1>7 DEF AvisosDe

\* A CPU goes on.
LEMMA AvisosPasoCpu ==
  ASSUME Antes, AvisosInv, NEW c0 \in Cpus, PasoCpu(c0)
  PROVE  AvisosInv'
<1>1. /\ CpuMemoriaPaso(c0)
      /\ UNCHANGED <<ks, planVars, hilo_cpu, oyente, kmVars, compVars, finVars>>
  BY DEF PasoCpu
<1>2. CpuInv
  BY DEF Antes, TipoInv
<1>3. /\ CpuPropia(c0)
      /\ CpuVa(a_cpu[c0], de_cpu[c0], cpu_estado[c0], cpu_pid[c0],
               interrupcion_pendiente_pid[c0], c0 \in tabla_vieja,
               a_cpu'[c0], de_cpu'[c0], cpu_estado'[c0], cpu_pid'[c0],
               interrupcion_pendiente_pid'[c0], c0 \in tabla_vieja')
  BY <1>1, <1>2, CpuCanales, CpuEfecto
<1>4. Confirma' <=> Confirma
  BY <1>1 DEF Confirma
<1> SUFFICES ASSUME ~ bsod_activo', NEW c \in Cpus
             PROVE  AvisosEn(c)' /\ (Confirma => ConfirmadoEn(c)')
  BY <1>4 DEF AvisosInv
<1>5. AvisosEn(c) /\ (Confirma => ConfirmadoEn(c)) /\ CanalDe(c) /\ a_cpu[c] \in Seq(Mensaje)
  BY <1>1 DEF AvisosInv, finVars, Antes, TipoInv, CpuInv, BienInv, CanalesInv
<1>6. CASE c = c0
  <2> DEFINE a == a_cpu[c]
             d == de_cpu[c]
             h == hilo_cpu[c]
             i == interrupcion_pendiente_pid[c]
             e == cpu_estado[c]
             p == cpu_pid[c]
             v == c \in tabla_vieja
             a1 == a_cpu'[c]
             d1 == de_cpu'[c]
             i1 == interrupcion_pendiente_pid'[c]
             e1 == cpu_estado'[c]
             p1 == cpu_pid'[c]
             v1 == c \in tabla_vieja'
  <2>1. /\ CpuVa(a, d, e, p, i, v, a1, d1, e1, p1, i1, v1)
        /\ AvisosDe(a, i, e, p, v) /\ Canal(a, d, e, p, h) /\ a \in Seq(Mensaje)
    BY <1>3, <1>5, <1>6 DEF AvisosEn, CanalDe
  <2>2. /\ AvisosEn(c)' <=> AvisosDe(a1, i1, e1, p1, v1)
        /\ ConfirmadoEn(c)' <=> Confirmado(a1, i1, p1)
        /\ ConfirmadoEn(c) <=> Confirmado(a, i, p)
    BY DEF AvisosEn, ConfirmadoEn
  <2> HIDE DEF a, d, h, i, e, p, v, a1, d1, i1, e1, p1, v1
  <2>3. /\ AvisosDe(a1, i1, e1, p1, v1)
        /\ Confirmado(a, i, p) => Confirmado(a1, i1, p1)
    BY <2>1, AvisosCpu
  <2>4. QED
    BY <1>5, <2>2, <2>3
<1>7. CASE c # c0
  <2>1. /\ a_cpu'[c] = a_cpu[c] /\ cpu_estado'[c] = cpu_estado[c] /\ cpu_pid'[c] = cpu_pid[c]
        /\ interrupcion_pendiente_pid'[c] = interrupcion_pendiente_pid[c]
        /\ c \in tabla_vieja' <=> c \in tabla_vieja
    BY <1>2, <1>3, <1>7 DEF CpuPropia, CpuInv, CpuTipo
  <2>2. (AvisosEn(c)' <=> AvisosEn(c)) /\ (ConfirmadoEn(c)' <=> ConfirmadoEn(c))
    BY <2>1 DEF AvisosEn, ConfirmadoEn, AvisosDe
  <2>3. QED
    BY <1>5, <2>2
<1>8. QED
  BY <1>6, <1>7

\* A thread goes on.
LEMMA AvisosHilo ==
  ASSUME Antes, AvisosInv, NEW c \in Cpus, HiloCpu(c)
  PROVE  AvisosInv'
<1>1. a_cpu \in [Cpus -> Seq(Mensaje)] /\ hilo_cpu \in [Cpus -> HiloConPid]
  BY DEF Antes, TipoInv, CpuInv, HilosInv
<1>2. ASSUME SinCpu, a_cpu' = a_cpu, bsod_activo => bsod_activo', Confirma' => Confirma
      PROVE  AvisosInv'
  BY <1>1, <1>2, AvisosQuietos
<1>3. ASSUME SinCpu, UNCHANGED finVars, Confirma' => Confirma,
             NEW op \in {"OK", "ERROR", "BLOQUEADO"}, Contesta(c, op)
      PROVE  AvisosInv'
  <2> DEFINE m == [op |-> op, pid |-> Nadie]
  <2>1. ~ Interrupcion(m) /\ ~ Orden(m)
    BY DEF Interrupcion, Orden
  <2>2. \A d \in Cpus : a_cpu'[d] = a_cpu[d] \/ a_cpu'[d] = Append(a_cpu[d], m)
    BY <1>1, <1>3 DEF Contesta, AlCpu
  <2> HIDE DEF m
  <2>3. \A d \in Cpus : \/ a_cpu'[d] = a_cpu[d]
                        \/ \E x : /\ a_cpu'[d] = Append(a_cpu[d], x)
                                  /\ ~ Interrupcion(x) /\ (Orden(x) => ~ Confirma')
    BY <2>1, <2>2
  <2>4. QED
    BY <1>1, <1>3, <2>3, AvisosQuietos DEF finVars
<1>4. \A pc \in {"finalizar", "liberar", "sin_respuesta", "detener", "desalojar"} :
        Al(c, pc) => (Confirma' => Confirma)
  BY <1>1, HiloNoConfirma
<1>5. Recibir(c) \/ hilo_cpu' = hilo_cpu => (Confirma' => Confirma)
  BY <1>1, HiloNoConfirma
<1>6. CASE AtenderCpu(c)
  <2> DEFINE m == Head(de_cpu[c])
             g(pc) == [pc |-> pc, op |-> m.op, pid |-> m.pid]
  <2>1. /\ SinCpu /\ a_cpu' = a_cpu /\ bsod_activo' = bsod_activo
        /\ \/ hilo_cpu' = hilo_cpu
           \/ hilo_cpu' = [hilo_cpu EXCEPT ![c] = g("atender")]
           \/ hilo_cpu' = [hilo_cpu EXCEPT ![c] = g("syscall")]
    BY <1>6 DEF AtenderCpu, finVars
  <2>2. g("atender").pc # "confirmar" /\ g("syscall").pc # "confirmar"
    OBVIOUS
  <2> HIDE DEF g
  <2>3. Confirma' => Confirma
    BY <1>1, <2>1, <2>2, HiloNoConfirma
  <2>4. QED
    BY <1>2, <2>1, <2>3
<1>7. CASE ManejarFinQuantum(c) \/ ExitLibera(c)
  BY <1>2, <1>5, <1>7 DEF ManejarFinQuantum, ExitLibera, canales, finVars
<1>8. CASE ManejarProcesoExit(c)
  BY <1>2, <1>4, <1>5, <1>8 DEF ManejarProcesoExit, canales, finVars
<1>9. CASE ExitFinaliza(c)
  BY <1>2, <1>4, <1>9 DEF ExitFinaliza, PedidoTomadoPorConfirmacion, canales, finVars
<1>10. CASE ManejarIoSleep(c)
  BY <1>2, <1>5, <1>10 DEF ManejarIoSleep, UsaLiberado, canales, finVars
<1>11. CASE PedirSegmentoOk(c)
  BY <1>3, <1>5, <1>11 DEF PedirSegmentoOk, SinPlan
<1>12. CASE PedirSegmentoError(c)
  BY <1>3, <1>5, <1>12 DEF PedirSegmentoError, SinPlan
<1>13. CASE PedirSegmentoCompactar(c)
  BY <1>3, <1>4, <1>13 DEF PedirSegmentoCompactar, SinPlan
<1>14. CASE EliminarSegmento(c)
  BY <1>3, <1>5, <1>14 DEF EliminarSegmento, SinPlan
<1>15. CASE SyscallMemoriaPerdida(c)
  BY <1>2, <1>4, <1>5, <1>15 DEF SyscallMemoriaPerdida, PedidoTomadoPorConfirmacion,
                                 UsaLiberado, canales, finVars
<1>16. CASE DetenerPlanificacion(c)
  BY <1>2, <1>4, <1>16 DEF DetenerPlanificacion, UsaLiberado, canales, finVars
<1>17. CASE DesalojarTodasLasCpus(c)
  BY <1>17, AvisosDesalojar
<1>18. CASE Compactar(c)
  BY <1>18, AvisosCompactar
<1>19. QED
  BY <1>6, <1>7, <1>8, <1>9, <1>10, <1>11, <1>12, <1>13, <1>14, <1>15, <1>16, <1>17, <1>18
     DEF HiloCpu

\* The planner goes on; it sends no process while a compaction is to be confirmed.
LEMMA AvisosPlanificador ==
  ASSUME Antes, AvisosInv, Planificador
  PROVE  AvisosInv'
<1>1. /\ a_cpu \in [Cpus -> Seq(Mensaje)]
      /\ SinCpu /\ hilo_cpu' = hilo_cpu /\ (bsod_activo => bsod_activo')
  BY DEF Antes, TipoInv, CpuInv, Planificador, PlanificadorElige, PlanificadorEnvia,
         UsaLiberado, finVars
<1>2. Confirma' <=> Confirma
  BY <1>1 DEF Confirma
<1>3. CASE a_cpu' = a_cpu
  BY <1>1, <1>2, <1>3, AvisosQuietos
<1>4. CASE PlanificadorEnvia /\ a_cpu' # a_cpu
  <2> DEFINE m == [op |-> "EJECUTAR_PROCESO", pid |-> planificador.pid]
  <2>1. \A d \in Cpus : a_cpu'[d] = a_cpu[d] \/ a_cpu'[d] = Append(a_cpu[d], m)
    BY <1>1, <1>4 DEF PlanificadorEnvia, AlCpu
  <2>2. ~ Interrupcion(m)
    BY DEF Interrupcion
  <2>3. ~ Confirma
    BY <1>4, ParadaSola DEF PlanificadorEnvia, Confirma, Parada, Antes
  <2> HIDE DEF m
  <2>4. QED
    BY <1>1, <1>2, <2>1, <2>2, <2>3, AvisosQuietos
<1>5. QED
  BY <1>3, <1>4 DEF Planificador, PlanificadorElige, canales

\* The listener goes on; it sends no process while a compaction is to be confirmed.
LEMMA AvisosOyente ==
  ASSUME Antes, AvisosInv, HiloEscucharMemoria
  PROVE  AvisosInv'
<1>1. a_cpu \in [Cpus -> Seq(Mensaje)]
  BY DEF Antes, TipoInv, CpuInv
<1>2. CASE FinCompactacion
  <2>1. /\ SinCpu /\ hilo_cpu' = hilo_cpu /\ a_cpu' = a_cpu /\ (bsod_activo => bsod_activo')
    BY <1>2 DEF FinCompactacion, UsaLiberado, finVars, canales
  <2>2. Confirma' => Confirma
    BY <2>1 DEF Confirma
  <2>3. QED
    BY <1>1, <2>1, <2>2, AvisosQuietos
<1>3. CASE FinEjecuta
  <2> DEFINE m == [op |-> "EJECUTAR_PROCESO", pid |-> esperando.pid]
  <2>1. /\ SinCpu /\ hilo_cpu' = hilo_cpu /\ bsod_activo' = bsod_activo
        /\ \A d \in Cpus : a_cpu'[d] = a_cpu[d] \/ a_cpu'[d] = Append(a_cpu[d], m)
    BY <1>1, <1>3 DEF FinEjecuta, AlCpu, finVars
  <2>2. ~ Interrupcion(m)
    BY DEF Interrupcion
  <2>3. ~ Confirma
    BY <1>3, ParadaSola DEF FinEjecuta, Confirma, Parada, Antes
  <2>4. ~ Confirma'
    BY <2>1, <2>3 DEF Confirma
  <2> HIDE DEF m
  <2>5. QED
    BY <1>1, <2>1, <2>2, <2>4, AvisosQuietos
<1>4. CASE ManejarBsod
  BY <1>4 DEF ManejarBsod, AvisosInv
<1>5. CASE BsodInterrumpe
  <2>1. bsod_activo /\ bsod_activo' = bsod_activo
    BY <1>5 DEF BsodInterrumpe, Antes, BienInv, PerdidaInv
  <2>2. QED
    BY <2>1 DEF AvisosInv
<1>6. QED
  BY <1>2, <1>3, <1>4, <1>5 DEF HiloEscucharMemoria

\* Every step keeps what is so of the interrupts.
LEMMA AvisosPaso ==
  ASSUME CompInv, AvisosInv, [Next]_vars
  PROVE  AvisosInv'
<1>1. ASSUME a_cpu \in [Cpus -> Seq(Mensaje)], SinCpu, a_cpu' = a_cpu, hilo_cpu' = hilo_cpu,
             bsod_activo => bsod_activo'
      PROVE  AvisosInv'
  <2>1. Confirma' => Confirma
    BY <1>1 DEF Confirma
  <2>2. QED
    BY <1>1, <2>1, AvisosQuietos
<1>2. a_cpu \in [Cpus -> Seq(Mensaje)]
  BY DEF CompInv, PlanInv, TipoInv, CpuInv
<1>3. CASE UNCHANGED vars
  <2>1. SinCpu /\ a_cpu' = a_cpu /\ hilo_cpu' = hilo_cpu /\ bsod_activo' = bsod_activo
    BY <1>3 DEF vars, SinCpu, canales, finVars
  <2>2. QED
    BY <1>1, <1>2, <2>1
<1>4. CASE Next
  <2>1. Vivo
    BY <1>4 DEF Next, PasoPlanificador, PasoHilo, PasoCpu, PasoIo, PasoOyente, PasoStick
  <2>2. Antes
    BY <2>1 DEF Antes, CompInv, PlanInv, Vivo
  <2>3. CASE PasoPlanificador
    BY <2>2, <2>3, AvisosPlanificador DEF PasoPlanificador
  <2>4. ASSUME NEW c \in Cpus, PasoHilo(c) PROVE AvisosInv'
    BY <2>2, <2>4, AvisosHilo DEF PasoHilo
  <2>5. ASSUME NEW c \in Cpus, PasoCpu(c) PROVE AvisosInv'
    BY <2>2, <2>5, AvisosPasoCpu
  <2>6. CASE PasoIo
    <3>1. SinCpu /\ a_cpu' = a_cpu /\ hilo_cpu' = hilo_cpu /\ (bsod_activo => bsod_activo')
      BY <2>6 DEF PasoIo, FinIo, UsaLiberado, canales, finVars
    <3>2. QED
      BY <1>1, <1>2, <3>1
  <2>7. CASE PasoOyente
    BY <2>2, <2>7, AvisosOyente DEF PasoOyente
  <2>8. CASE PasoStick
    <3>1. SinCpu /\ a_cpu' = a_cpu /\ hilo_cpu' = hilo_cpu /\ bsod_activo' = bsod_activo
      BY <2>8 DEF PasoStick, StickSeVa, canales, finVars
    <3>2. QED
      BY <1>1, <1>2, <3>1
  <2>9. QED
    BY <1>4, <2>3, <2>4, <2>5, <2>6, <2>7, <2>8 DEF Next
<1>5. QED
  BY <1>3, <1>4

\* A CPU that runs a process with a segment table from before a compaction has been
\* told to stop: the interrupts are sent before the compaction is confirmed, behind
\* everything that the CPU has not read, and no process is sent in between.
THEOREM AvisadaTablaVieja == Spec => []AvisadaSiTablaVieja
<1>1. Init => AvisosInv
  <2> SUFFICES ASSUME Init, NEW c \in Cpus PROVE AvisosEn(c) /\ ConfirmadoEn(c)
    BY DEF AvisosInv
  <2>1. a_cpu[c] = <<>> /\ cpu_pid[c] = Nadie /\ cpu_estado[c] # "ejecuta"
    BY DEF Init, CanalesInit
  <2>2. TrasOrden(<<>>) /\ Seguidas(<<>>)
    BY DEF TrasOrden, Seguidas
  <2>3. QED
    BY <2>1, <2>2 DEF AvisosEn, ConfirmadoEn, AvisosDe, Confirmado
<1>2. CompInv /\ AvisosInv /\ [Next]_vars => AvisosInv'
  BY AvisosPaso
<1>3. CompInv /\ AvisosInv => AvisadaSiTablaVieja
  <2> SUFFICES ASSUME CompInv, AvisosInv, NEW c \in Cpus,
                      ~ bsod_activo, c \in tabla_vieja, cpu_estado[c] = "ejecuta"
               PROVE  \/ interrupcion_pendiente_pid[c] = cpu_pid[c]
                      \/ \E i \in DOMAIN a_cpu[c] :
                           a_cpu[c][i] = [op |-> "INTERRUMPIR_PROCESO", pid |-> cpu_pid[c]]
    BY DEF AvisadaSiTablaVieja
  <2>1. Avisado(a_cpu[c], interrupcion_pendiente_pid[c], cpu_pid[c])
    BY DEF AvisosInv, AvisosEn, AvisosDe
  <2>2. CASE HayAviso(a_cpu[c], cpu_pid[c])
    <3>1. PICK i \in DOMAIN a_cpu[c] :
            a_cpu[c][i].op = "INTERRUMPIR_PROCESO" /\ a_cpu[c][i].pid = cpu_pid[c]
      BY <2>2 DEF HayAviso, Interrupcion
    <3>2. a_cpu[c] \in Seq(Mensaje)
      BY DEF CompInv, PlanInv, TipoInv, CpuInv
    <3>3. a_cpu[c][i] \in Mensaje
      BY <3>2, ElementOfSeq, LenProperties
    <3>4. a_cpu[c][i] = [op |-> "INTERRUMPIR_PROCESO", pid |-> cpu_pid[c]]
      BY <3>1, <3>3 DEF Mensaje, MensajeKs
    <3>5. QED
      BY <3>4
  <2>3. QED
    BY <2>1, <2>2 DEF Avisado
<1>4. QED
  BY <1>1, <1>2, <1>3, CompSiempre, PTL DEF Spec
=============================================================================
