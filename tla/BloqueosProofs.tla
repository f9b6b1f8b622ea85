--------------------------- MODULE BloqueosProofs ---------------------------
(***************************************************************************)
(* The processes that block, for every number of processes, CPUs, mutexes, *)
(* devices and queues.                                                     *)
(***************************************************************************)
EXTENDS Bloqueos, ProcesosProofs

-----------------------------------------------------------------------------
(* The lists of the processes.                                              *)

\* Each process is in the list of its state.
ListasBien(k) ==
  /\ \A p \in Pids :
       /\ p \in k.exec <=> k.estado[p] = "EXEC"
       /\ p \in k.block <=> k.estado[p] = "BLOCK"
       /\ p \in k.susp_block <=> k.estado[p] = "SUSP_BLOCK"
       /\ Tiene(k.susp_ready, p) <=> k.estado[p] = "SUSP_READY"
       /\ \A q \in Colas : Tiene(k.colas_ready[q], p) <=>
                             k.estado[p] = "READY" /\ k.prioridad[p] = q
  /\ Distintos(k.susp_ready)
  /\ \A q \in Colas : Distintos(k.colas_ready[q])

\* What a change of state leaves alone: the priorities, the mutexes, the queues of
\* the devices.
Quieto(k, k1) ==
  /\ k1.prioridad = k.prioridad /\ k1.lista_mutex = k.lista_mutex
  /\ k1.pid_dueno = k.pid_dueno /\ k1.cola_espera = k.cola_espera
  /\ k1.cola_io = k.cola_io

\* From k to k1 process p goes to state e.
Mueve(k, k1, p, e) ==
  /\ k1 \in TipoKs(Cpus) /\ ListasBien(k1)
  /\ k1.estado = [k.estado EXCEPT ![p] = e]
  /\ Quieto(k, k1)
  /\ \A r \in Pids : r # p => k1.cpu[r] = k.cpu[r] /\ k1.timer[r] = k.timer[r]

\* List t is s without x, and with it again if b.
Cambia(s, t, x, b) ==
  /\ Distintos(t)
  /\ \A y : Tiene(t, y) <=> (Tiene(s, y) /\ y # x) \/ (y = x /\ b)

\* A process goes from its list to the one of its new state.
LEMMA MueveListas ==
  ASSUME NEW k \in TipoKs(Cpus), NEW k1 \in TipoKs(Cpus), ListasBien(k), NEW p \in Pids, NEW e,
         k1.estado = [k.estado EXCEPT ![p] = e], k1.prioridad = k.prioridad,
         \A r \in Pids : r # p => /\ r \in k1.exec <=> r \in k.exec
                                  /\ r \in k1.block <=> r \in k.block
                                  /\ r \in k1.susp_block <=> r \in k.susp_block,
         p \in k1.exec <=> e = "EXEC", p \in k1.block <=> e = "BLOCK",
         p \in k1.susp_block <=> e = "SUSP_BLOCK",
         Cambia(k.susp_ready, k1.susp_ready, p, e = "SUSP_READY"),
         \A q \in Colas : Cambia(k.colas_ready[q], k1.colas_ready[q], p,
                                 e = "READY" /\ k.prioridad[p] = q)
  PROVE  ListasBien(k1)
<1>1. k1.estado[p] = e /\ \A r \in Pids : r # p => k1.estado[r] = k.estado[r]
  BY DEF TipoKs
<1>2. Distintos(k1.susp_ready) /\ \A q \in Colas : Distintos(k1.colas_ready[q])
  BY DEF Cambia
<1>3. ASSUME NEW r \in Pids
      PROVE  /\ Tiene(k1.susp_ready, r) <=> k1.estado[r] = "SUSP_READY"
             /\ \A q \in Colas : Tiene(k1.colas_ready[q], r) <=>
                                   k1.estado[r] = "READY" /\ k1.prioridad[r] = q
  <2>1. CASE r = p
    BY <1>1, <2>1 DEF Cambia
  <2>2. CASE r # p
    BY <1>1, <2>2 DEF Cambia, ListasBien
  <2>3. QED
    BY <2>1, <2>2
<1>4. ASSUME NEW r \in Pids
      PROVE  /\ r \in k1.exec <=> k1.estado[r] = "EXEC"
             /\ r \in k1.block <=> k1.estado[r] = "BLOCK"
             /\ r \in k1.susp_block <=> k1.estado[r] = "SUSP_BLOCK"
  <2>1. CASE r = p
    BY <1>1, <2>1
  <2>2. CASE r # p
    BY <1>1, <2>2 DEF ListasBien
  <2>3. QED
    BY <2>1, <2>2
<1>5. QED
  BY <1>2, <1>3, <1>4 DEF ListasBien

\* A list that a process is not in, and stays out of.
LEMMA CambiaNada ==
  ASSUME NEW s, NEW x, ~ Tiene(s, x), Distintos(s), NEW b \in BOOLEAN, ~ b
  PROVE  Cambia(s, s, x, b)
BY DEF Cambia

\* What the lists say of a process that is in none of two kinds.
LEMMA FueraDeListas ==
  ASSUME NEW k \in TipoKs(Cpus), ListasBien(k), NEW p \in Pids, NEW b \in BOOLEAN, ~ b
  PROVE  /\ k.estado[p] # "READY" =>
              \A q \in Colas : Cambia(k.colas_ready[q], k.colas_ready[q], p, b /\ k.prioridad[p] = q)
         /\ k.estado[p] # "SUSP_READY" => Cambia(k.susp_ready, k.susp_ready, p, b)
<1>1. Distintos(k.susp_ready) /\ \A q \in Colas : Distintos(k.colas_ready[q])
  BY DEF ListasBien
<1>2. k.estado[p] # "READY" => \A q \in Colas : ~ Tiene(k.colas_ready[q], p)
  BY DEF ListasBien
<1>3. k.estado[p] # "SUSP_READY" => ~ Tiene(k.susp_ready, p)
  BY DEF ListasBien
<1>4. QED
  BY <1>1, <1>2, <1>3 DEF Cambia

\* encolar_en_ready: the process is the last of the queue of its priority.
LEMMA EncolarColas ==
  ASSUME NEW k \in TipoKs(Cpus), NEW p \in Pids,
         \A q \in Colas : Distintos(k.colas_ready[q]) /\ ~ Tiene(k.colas_ready[q], p)
  PROVE  LET k1 == Encolar(k, p) IN
         /\ \A q \in Colas : Cambia(k.colas_ready[q], k1.colas_ready[q], p,
                                    k.prioridad[p] = q)
         /\ k1 \in TipoKs(Cpus) /\ k1.estado = k.estado /\ k1.cpu = k.cpu /\ k1.timer = k.timer
         /\ k1.exec = k.exec /\ k1.block = k.block /\ k1.susp_block = k.susp_block
         /\ k1.susp_ready = k.susp_ready /\ k1.cpus_libres = k.cpus_libres
         /\ Quieto(k, k1)
<1> DEFINE k1 == Encolar(k, p)
           n == k.prioridad[p]
           t == Append(k.colas_ready[n], p)
           cs == [k.colas_ready EXCEPT ![n] = t]
<1>1. k1 \in TipoKs(Cpus)
  BY EncolarTipo
<1>2. n \in Colas /\ k.colas_ready \in [Colas -> Seq(Pids)]
  BY DEF TipoKs
<1>3. k1 = [k EXCEPT !.colas_ready = cs, !.sem_ready = @ + 1]
  BY DEF Encolar
<1>4. \A y : Tiene(t, y) <=> Tiene(k.colas_ready[n], y) \/ y = p
  BY <1>2, TieneAgregado
<1>5. Distintos(t)
  BY <1>2, TieneAgregado
<1> HIDE DEF t
<1>6. \A q \in Colas : cs[q] = IF q = n THEN t ELSE k.colas_ready[q]
  BY <1>2
<1> HIDE DEF cs, k1
<1>7. /\ k1.colas_ready = cs /\ k1.estado = k.estado /\ k1.cpu = k.cpu /\ k1.timer = k.timer
      /\ k1.exec = k.exec /\ k1.block = k.block /\ k1.susp_block = k.susp_block
      /\ k1.susp_ready = k.susp_ready /\ k1.cpus_libres = k.cpus_libres
  BY <1>3 DEF TipoKs
<1>8. Quieto(k, k1)
  BY <1>3 DEF TipoKs, Quieto
<1>9. ASSUME NEW q \in Colas
      PROVE  Cambia(k.colas_ready[q], k1.colas_ready[q], p, n = q)
  <2>1. CASE q = n
    <3>1. k1.colas_ready[q] = t /\ ~ Tiene(k.colas_ready[q], p)
      BY <1>6, <1>7, <2>1
    <3>2. QED
      BY <1>4, <1>5, <2>1, <3>1 DEF Cambia
  <2>2. CASE q # n
    <3>1. k1.colas_ready[q] = k.colas_ready[q]
      BY <1>6, <1>7, <2>2
    <3>2. QED
      BY <2>2, <3>1 DEF Cambia
  <2>3. QED
    BY <2>1, <2>2
<1>10. QED
  BY <1>1, <1>7, <1>8, <1>9 DEF k1

\* k1 has what k has, but for the lists and the states.
Aparte(k, k1) ==
  /\ k1.cpu = k.cpu /\ k1.timer = k.timer /\ k1.cpus_libres = k.cpus_libres
  /\ Quieto(k, k1)

\* A process that was in another list goes to READY; k0 is in between.
LEMMA MueveAReady ==
  ASSUME NEW k \in TipoKs(Cpus), NEW k0 \in TipoKs(Cpus), ListasBien(k), NEW p \in Pids,
         k.estado[p] # "READY", k0.estado = [k.estado EXCEPT ![p] = "READY"],
         k0.exec = k.exec \ {p}, k0.block = k.block \ {p}, k0.susp_block = k.susp_block \ {p},
         Cambia(k.susp_ready, k0.susp_ready, p, FALSE), k0.colas_ready = k.colas_ready,
         Quieto(k, k0),
         \A r \in Pids : r # p => k0.cpu[r] = k.cpu[r] /\ k0.timer[r] = k.timer[r]
  PROVE  LET k1 == Encolar(k0, p) IN
         /\ Mueve(k, k1, p, "READY") /\ k1.exec = k0.exec /\ Aparte(k0, k1)
<1> DEFINE k1 == Encolar(k0, p)
<1>1. \A q \in Colas : Distintos(k0.colas_ready[q]) /\ ~ Tiene(k0.colas_ready[q], p)
  BY DEF ListasBien
<1>2. /\ \A q \in Colas : Cambia(k0.colas_ready[q], k1.colas_ready[q], p, k0.prioridad[p] = q)
      /\ k1 \in TipoKs(Cpus) /\ k1.estado = k0.estado /\ k1.cpu = k0.cpu /\ k1.timer = k0.timer
      /\ k1.exec = k0.exec /\ k1.block = k0.block /\ k1.susp_block = k0.susp_block
      /\ k1.susp_ready = k0.susp_ready /\ k1.cpus_libres = k0.cpus_libres
      /\ Quieto(k0, k1)
  BY <1>1, EncolarColas
<1> HIDE DEF k1
<1>3. k1.prioridad = k.prioridad /\ Quieto(k, k1)
  BY <1>2 DEF Quieto
<1>4. ListasBien(k1)
  <2>1. \A q \in Colas : Cambia(k.colas_ready[q], k1.colas_ready[q], p, "READY" = "READY" /\ k.prioridad[p] = q)
    BY <1>2 DEF Quieto, Cambia
  <2>2. Cambia(k.susp_ready, k1.susp_ready, p, "READY" = "SUSP_READY")
    BY <1>2 DEF Cambia
  <2>3. QED
    BY <1>2, <1>3, <2>1, <2>2, MueveListas
<1>5. QED
  BY <1>2, <1>3, <1>4 DEF Mueve, Aparte, k1

\* A process that runs is taken out of lista_exec; it is not in READY nor in
\* SUSP_READY.
LEMMA SacarCampos ==
  ASSUME NEW k \in TipoKs(Cpus), NEW p \in Pids, NEW e \in EstadosProceso
  PROVE  LET k1 == SacarDeExec(k, p, e) IN
         /\ k1 \in TipoKs(Cpus) /\ k1.estado = [k.estado EXCEPT ![p] = e]
         /\ k1.exec = k.exec \ {p} /\ k1.block = k.block /\ k1.susp_block = k.susp_block
         /\ k1.susp_ready = k.susp_ready /\ k1.colas_ready = k.colas_ready
         /\ k1.cpu = [k.cpu EXCEPT ![p] = Nulo] /\ k1.timer = k.timer
         /\ k1.cpus_libres = k.cpus_libres
         /\ Quieto(k, k1)
<1> DEFINE k1 == SacarDeExec(k, p, e)
<1>1. k1 \in TipoKs(Cpus)
  BY SacarTipo
<1>2. k1 = [k EXCEPT !.exec = @ \ {p}, !.estado[p] = e, !.cpu[p] = Nulo]
  BY DEF SacarDeExec
<1> HIDE DEF k1
<1>3. /\ k1.estado = [k.estado EXCEPT ![p] = e]
      /\ k1.exec = k.exec \ {p} /\ k1.block = k.block /\ k1.susp_block = k.susp_block
      /\ k1.susp_ready = k.susp_ready /\ k1.colas_ready = k.colas_ready
      /\ k1.cpu = [k.cpu EXCEPT ![p] = Nulo] /\ k1.timer = k.timer
      /\ k1.cpus_libres = k.cpus_libres
  BY <1>2 DEF TipoKs
<1>4. Quieto(k, k1)
  BY <1>2 DEF TipoKs, Quieto
<1>5. QED
  BY <1>1, <1>3, <1>4 DEF k1

\* One more free CPU, a timer cancelled: the lists are as they were.
LEMMA LiberarCampos ==
  ASSUME NEW k \in TipoKs(Cpus), NEW c \in Cpus
  PROVE  LET k1 == LiberarCpu(k, c) IN
         /\ k1 \in TipoKs(Cpus) /\ k1.estado = k.estado
         /\ k1.exec = k.exec /\ k1.block = k.block /\ k1.susp_block = k.susp_block
         /\ k1.susp_ready = k.susp_ready /\ k1.colas_ready = k.colas_ready
         /\ k1.cpu = k.cpu /\ k1.timer = k.timer
         /\ k1.cpus_libres = Append(k.cpus_libres, c)
         /\ Quieto(k, k1)
         /\ ListasBien(k) => ListasBien(k1)
<1> DEFINE k1 == LiberarCpu(k, c)
<1>1. k1 \in TipoKs(Cpus)
  <2>1. Append(k.cpus_libres, c) \in Seq(Cpus)
    BY AppendProperties DEF TipoKs
  <2>2. QED
    BY <2>1 DEF TipoKs, LiberarCpu
<1>2. /\ k1.estado = k.estado
      /\ k1.exec = k.exec /\ k1.block = k.block /\ k1.susp_block = k.susp_block
      /\ k1.susp_ready = k.susp_ready /\ k1.colas_ready = k.colas_ready
      /\ k1.cpu = k.cpu /\ k1.timer = k.timer
      /\ k1.cpus_libres = Append(k.cpus_libres, c)
  BY DEF TipoKs, LiberarCpu
<1>3. Quieto(k, k1)
  BY DEF TipoKs, LiberarCpu, Quieto
<1> HIDE DEF k1
<1>4. ListasBien(k) => ListasBien(k1)
  BY <1>2, <1>3 DEF ListasBien, Quieto
<1>5. QED
  BY <1>1, <1>2, <1>3, <1>4 DEF k1

\* cancelar_timer.
LEMMA CancelarCampos ==
  ASSUME NEW k \in TipoKs(Cpus), NEW p \in Pids
  PROVE  LET k1 == CancelarTimer(k, p) IN
         /\ k1 \in TipoKs(Cpus) /\ k1.estado = k.estado
         /\ k1.exec = k.exec /\ k1.block = k.block /\ k1.susp_block = k.susp_block
         /\ k1.susp_ready = k.susp_ready /\ k1.colas_ready = k.colas_ready
         /\ k1.cpu = k.cpu /\ k1.timer = [k.timer EXCEPT ![p] = FALSE]
         /\ k1.cpus_libres = k.cpus_libres
         /\ Quieto(k, k1)
         /\ ListasBien(k) => ListasBien(k1)
<1> DEFINE k1 == CancelarTimer(k, p)
<1>1. k1 \in TipoKs(Cpus)
  BY SacarTipo
<1>2. /\ k1.estado = k.estado
      /\ k1.exec = k.exec /\ k1.block = k.block /\ k1.susp_block = k.susp_block
      /\ k1.susp_ready = k.susp_ready /\ k1.colas_ready = k.colas_ready
      /\ k1.cpu = k.cpu /\ k1.timer = [k.timer EXCEPT ![p] = FALSE]
      /\ k1.cpus_libres = k.cpus_libres
  BY DEF TipoKs, CancelarTimer
<1>3. Quieto(k, k1)
  BY DEF TipoKs, CancelarTimer, Quieto
<1> HIDE DEF k1
<1>4. ListasBien(k) => ListasBien(k1)
  BY <1>2, <1>3 DEF ListasBien, Quieto
<1>5. QED
  BY <1>1, <1>2, <1>3, <1>4 DEF k1

-----------------------------------------------------------------------------
(* What each critical section does to the record.                           *)

\* manejar_fin_quantum: the process is READY, its CPU is free.
LEMMA FinQuantumKs ==
  ASSUME NEW k \in TipoKs(Cpus), ListasBien(k), NEW p \in Pids, k.estado[p] = "EXEC", NEW c \in Cpus
  PROVE  LET k1 == LiberarCpu(Encolar(SacarDeExec(k, p, "READY"), p), c) IN
         /\ Mueve(k, k1, p, "READY") /\ k1.exec = k.exec \ {p} /\ k1.timer = k.timer
         /\ k1.cpus_libres = Append(k.cpus_libres, c)
<1> DEFINE k0 == SacarDeExec(k, p, "READY")
           ke == Encolar(k0, p)
           k1 == LiberarCpu(ke, c)
<1>1. /\ k0 \in TipoKs(Cpus) /\ k0.estado = [k.estado EXCEPT ![p] = "READY"]
      /\ k0.exec = k.exec \ {p} /\ k0.block = k.block /\ k0.susp_block = k.susp_block
      /\ k0.susp_ready = k.susp_ready /\ k0.colas_ready = k.colas_ready
      /\ k0.cpu = [k.cpu EXCEPT ![p] = Nulo] /\ k0.timer = k.timer
      /\ k0.cpus_libres = k.cpus_libres
      /\ Quieto(k, k0)
  BY SacarCampos DEF EstadosProceso
<1> HIDE DEF k0
<1>2. /\ Mueve(k, ke, p, "READY") /\ ke.exec = k0.exec /\ Aparte(k0, ke)
  <2>1. k0.block = k.block \ {p} /\ k0.susp_block = k.susp_block \ {p}
    BY <1>1 DEF ListasBien
  <2>2. Cambia(k.susp_ready, k0.susp_ready, p, FALSE)
    BY <1>1, FueraDeListas
  <2>3. \A r \in Pids : r # p => k0.cpu[r] = k.cpu[r] /\ k0.timer[r] = k.timer[r]
    BY <1>1 DEF TipoKs
  <2>4. QED
    BY <1>1, <2>1, <2>2, <2>3, MueveAReady
<1> HIDE DEF ke
<1>3. ke \in TipoKs(Cpus) /\ ListasBien(ke)
  BY <1>2 DEF Mueve
<1>4. /\ k1 \in TipoKs(Cpus) /\ k1.estado = ke.estado /\ k1.exec = ke.exec
      /\ k1.cpu = ke.cpu /\ k1.timer = ke.timer /\ ListasBien(k1)
      /\ k1.cpus_libres = Append(ke.cpus_libres, c)
      /\ Quieto(ke, k1)
  BY <1>3, LiberarCampos
<1> HIDE DEF k1
<1>5. Mueve(k, k1, p, "READY")
  BY <1>2, <1>4 DEF Mueve, Quieto
<1>6. /\ k1.exec = k.exec \ {p} /\ k1.timer = k.timer
      /\ k1.cpus_libres = Append(k.cpus_libres, c)
  BY <1>1, <1>2, <1>4 DEF Aparte
<1>7. QED
  BY <1>5, <1>6 DEF k1, ke, k0

\* manejar_proceso_exit: the process ends, its timer is cancelled.
LEMMA ExitKs ==
  ASSUME NEW k \in TipoKs(Cpus), ListasBien(k), NEW p \in Pids, k.estado[p] = "EXEC"
  PROVE  LET k1 == CancelarTimer(SacarDeExec(k, p, "EXIT"), p) IN
         /\ Mueve(k, k1, p, "EXIT") /\ k1.exec = k.exec \ {p} /\ k1.timer[p] = FALSE
         /\ k1.cpus_libres = k.cpus_libres
<1> DEFINE k0 == SacarDeExec(k, p, "EXIT")
           k1 == CancelarTimer(k0, p)
<1>1. /\ k0 \in TipoKs(Cpus) /\ k0.estado = [k.estado EXCEPT ![p] = "EXIT"]
      /\ k0.exec = k.exec \ {p} /\ k0.block = k.block /\ k0.susp_block = k.susp_block
      /\ k0.susp_ready = k.susp_ready /\ k0.colas_ready = k.colas_ready
      /\ k0.cpu = [k.cpu EXCEPT ![p] = Nulo] /\ k0.timer = k.timer
      /\ k0.cpus_libres = k.cpus_libres
      /\ Quieto(k, k0)
  BY SacarCampos DEF EstadosProceso
<1> HIDE DEF k0
<1>2. /\ k1 \in TipoKs(Cpus) /\ k1.estado = k0.estado
      /\ k1.exec = k0.exec /\ k1.block = k0.block /\ k1.susp_block = k0.susp_block
      /\ k1.susp_ready = k0.susp_ready /\ k1.colas_ready = k0.colas_ready
      /\ k1.cpu = k0.cpu /\ k1.timer = [k0.timer EXCEPT ![p] = FALSE]
      /\ k1.cpus_libres = k0.cpus_libres
      /\ Quieto(k0, k1)
  BY <1>1, CancelarCampos
<1> HIDE DEF k1
<1>3. ListasBien(k1)
  <2>1. /\ \A q \in Colas : Cambia(k.colas_ready[q], k1.colas_ready[q], p,
                                   "EXIT" = "READY" /\ k.prioridad[p] = q)
        /\ Cambia(k.susp_ready, k1.susp_ready, p, "EXIT" = "SUSP_READY")
    BY <1>1, <1>2, FueraDeListas
  <2>2. p \notin k1.block /\ p \notin k1.susp_block
    BY <1>1, <1>2 DEF ListasBien
  <2>3. k1.prioridad = k.prioridad
    BY <1>1, <1>2 DEF Quieto
  <2>4. /\ k1 \in TipoKs(Cpus) /\ k1.estado = [k.estado EXCEPT ![p] = "EXIT"]
        /\ \A r \in Pids : r # p => /\ r \in k1.exec <=> r \in k.exec
                                    /\ r \in k1.block <=> r \in k.block
                                    /\ r \in k1.susp_block <=> r \in k.susp_block
        /\ p \in k1.exec <=> "EXIT" = "EXEC"
        /\ p \in k1.block <=> "EXIT" = "BLOCK"
        /\ p \in k1.susp_block <=> "EXIT" = "SUSP_BLOCK"
    BY <1>1, <1>2, <2>2
  <2>5. QED
    BY ONLY k \in TipoKs(Cpus), ListasBien(k), p \in Pids, <2>1, <2>3, <2>4, MueveListas
<1>4. /\ \A r \in Pids : r # p => k1.cpu[r] = k.cpu[r] /\ k1.timer[r] = k.timer[r]
      /\ k1.timer[p] = FALSE
  BY <1>1, <1>2 DEF TipoKs
<1>5. Mueve(k, k1, p, "EXIT")
  BY <1>1, <1>2, <1>3, <1>4 DEF Mueve, Quieto
<1>6. k1.exec = k.exec \ {p} /\ k1.cpus_libres = k.cpus_libres
  BY <1>1, <1>2
<1>7. QED
  BY <1>4, <1>5, <1>6 DEF k1, k0

\* bloquear_proceso: the process is BLOCK with a timer, its CPU is free.
LEMMA BloquearKs ==
  ASSUME NEW k \in TipoKs(Cpus), ListasBien(k), NEW p \in Pids, k.estado[p] = "EXEC",
         k.cpu[p] \in Cpus
  PROVE  LET k1 == Bloquear(k, p) IN
         /\ Mueve(k, k1, p, "BLOCK") /\ k1.exec = k.exec \ {p}
         /\ k1.cpus_libres = Append(k.cpus_libres, k.cpu[p])
<1> DEFINE k0 == SacarDeExec(k, p, "BLOCK")
           kb == [k0 EXCEPT !.block = @ \cup {p}, !.timer[p] = TRUE]
           c == k.cpu[p]
           k1 == LiberarCpu(kb, c)
<1>1. /\ k0 \in TipoKs(Cpus) /\ k0.estado = [k.estado EXCEPT ![p] = "BLOCK"]
      /\ k0.exec = k.exec \ {p} /\ k0.block = k.block /\ k0.susp_block = k.susp_block
      /\ k0.susp_ready = k.susp_ready /\ k0.colas_ready = k.colas_ready
      /\ k0.cpu = [k.cpu EXCEPT ![p] = Nulo] /\ k0.timer = k.timer
      /\ k0.cpus_libres = k.cpus_libres
      /\ Quieto(k, k0)
  BY SacarCampos DEF EstadosProceso
<1> HIDE DEF k0
<1>2. /\ kb \in TipoKs(Cpus) /\ kb.estado = k0.estado
      /\ kb.exec = k0.exec /\ kb.block = k0.block \cup {p} /\ kb.susp_block = k0.susp_block
      /\ kb.susp_ready = k0.susp_ready /\ kb.colas_ready = k0.colas_ready
      /\ kb.cpu = k0.cpu /\ kb.timer = [k0.timer EXCEPT ![p] = TRUE]
      /\ kb.cpus_libres = k0.cpus_libres
  BY <1>1 DEF TipoKs
<1>3. Quieto(k0, kb)
  BY <1>1 DEF TipoKs, Quieto
<1> HIDE DEF kb, c
<1>4. ListasBien(kb)
  <2>1. /\ \A q \in Colas : Cambia(k.colas_ready[q], kb.colas_ready[q], p,
                                   "BLOCK" = "READY" /\ k.prioridad[p] = q)
        /\ Cambia(k.susp_ready, kb.susp_ready, p, "BLOCK" = "SUSP_READY")
    BY <1>1, <1>2, FueraDeListas
  <2>2. p \notin kb.susp_block
    BY <1>1, <1>2 DEF ListasBien
  <2>3. kb.prioridad = k.prioridad
    BY <1>1, <1>3 DEF Quieto
  <2>4. QED
    BY <1>1, <1>2, <2>1, <2>2, <2>3, MueveListas
<1>5. c \in Cpus
  BY DEF c
<1>6. /\ k1 \in TipoKs(Cpus) /\ k1.estado = kb.estado /\ k1.exec = kb.exec
      /\ k1.cpu = kb.cpu /\ k1.timer = kb.timer
      /\ k1.cpus_libres = Append(kb.cpus_libres, c)
      /\ Quieto(kb, k1) /\ ListasBien(k1)
  BY <1>2, <1>4, <1>5, LiberarCampos
<1> HIDE DEF k1
<1>7. \A r \in Pids : r # p => k1.cpu[r] = k.cpu[r] /\ k1.timer[r] = k.timer[r]
  BY <1>1, <1>2, <1>6 DEF TipoKs
<1>8. Mueve(k, k1, p, "BLOCK")
  BY <1>1, <1>2, <1>3, <1>6, <1>7 DEF Mueve, Quieto
<1>9. k1.exec = k.exec \ {p} /\ k1.cpus_libres = Append(k.cpus_libres, c)
  BY <1>1, <1>2, <1>6
<1>10. k1 = Bloquear(k, p)
  BY DEF k1, kb, k0, c, Bloquear
<1>11. QED
  BY <1>8, <1>9, <1>10 DEF c

\* A waker that acts on the state that the process has.
LEMMA DespertarKs ==
  ASSUME NEW k \in TipoKs(Cpus), ListasBien(k), NEW p \in Pids,
         k.estado[p] \in {"BLOCK", "SUSP_BLOCK"}
  PROVE  LET k1 == Despertar(k, p, k.estado[p])
             e == IF k.estado[p] = "BLOCK" THEN "READY" ELSE "SUSP_READY" IN
         /\ Mueve(k, k1, p, e) /\ k1.exec = k.exec /\ k1.timer = k.timer
         /\ k1.cpus_libres = k.cpus_libres /\ k1.cpu = k.cpu
<1>1. CASE k.estado[p] = "BLOCK"
  <2> DEFINE k0 == [k EXCEPT !.block = @ \ {p}, !.estado[p] = "READY"]
             k1 == Encolar(k0, p)
  <2>1. /\ k0 \in TipoKs(Cpus) /\ k0.estado = [k.estado EXCEPT ![p] = "READY"]
        /\ k0.exec = k.exec /\ k0.block = k.block \ {p} /\ k0.susp_block = k.susp_block
        /\ k0.susp_ready = k.susp_ready /\ k0.colas_ready = k.colas_ready
        /\ k0.cpu = k.cpu /\ k0.timer = k.timer
        /\ k0.cpus_libres = k.cpus_libres
    BY DEF TipoKs, EstadosProceso
  <2>2. Quieto(k, k0)
    BY DEF TipoKs, Quieto
  <2> HIDE DEF k0
  <2>3. k0.exec = k.exec \ {p} /\ k0.susp_block = k.susp_block \ {p}
    BY <1>1, <2>1 DEF ListasBien
  <2>4. Cambia(k.susp_ready, k0.susp_ready, p, FALSE)
    BY <1>1, <2>1, FueraDeListas
  <2>5. Mueve(k, k1, p, "READY") /\ k1.exec = k0.exec /\ Aparte(k0, k1)
    BY <1>1, <2>1, <2>2, <2>3, <2>4, MueveAReady
  <2>6. k1 = Despertar(k, p, k.estado[p])
    BY <1>1 DEF k0, Despertar, BlockAReady
  <2> HIDE DEF k1
  <2>7. k1.exec = k.exec /\ k1.timer = k.timer /\ k1.cpus_libres = k.cpus_libres /\ k1.cpu = k.cpu
    BY <2>1, <2>5 DEF Aparte
  <2>8. QED
    BY <1>1, <2>5, <2>6, <2>7
<1>2. CASE k.estado[p] = "SUSP_BLOCK"
  <2> DEFINE t == Append(k.susp_ready, p)
             k1 == [k EXCEPT !.susp_block = @ \ {p}, !.estado[p] = "SUSP_READY",
                             !.susp_ready = t]
  <2>1. k1 = Despertar(k, p, k.estado[p])
    BY <1>2 DEF Despertar, SuspBlockASuspReady
  <2>2. t \in Seq(Pids) /\ Cambia(k.susp_ready, t, p, TRUE)
    <3>1. k.susp_ready \in Seq(Pids)
      BY DEF TipoKs
    <3>2. Distintos(k.susp_ready) /\ ~ Tiene(k.susp_ready, p)
      BY <1>2 DEF ListasBien
    <3>3. \A y : Tiene(t, y) <=> Tiene(k.susp_ready, y) \/ y = p
      BY <3>1, TieneAgregado
    <3>4. t \in Seq(Pids) /\ Distintos(t)
      BY <3>1, <3>2, AppendProperties, TieneAgregado
    <3> HIDE DEF t
    <3>5. QED
      BY <3>2, <3>3, <3>4 DEF Cambia
  <2> HIDE DEF t
  <2>3. /\ k1 \in TipoKs(Cpus) /\ k1.estado = [k.estado EXCEPT ![p] = "SUSP_READY"]
        /\ k1.exec = k.exec /\ k1.block = k.block /\ k1.susp_block = k.susp_block \ {p}
        /\ k1.susp_ready = t /\ k1.colas_ready = k.colas_ready
        /\ k1.cpu = k.cpu /\ k1.timer = k.timer
        /\ k1.cpus_libres = k.cpus_libres
    BY <2>2 DEF TipoKs, EstadosProceso
  <2>4. Quieto(k, k1)
    BY DEF TipoKs, Quieto
  <2> HIDE DEF k1
  <2>5. ListasBien(k1)
    <3>1. \A q \in Colas : Cambia(k.colas_ready[q], k1.colas_ready[q], p,
                                  "SUSP_READY" = "READY" /\ k.prioridad[p] = q)
      BY <1>2, <2>3, FueraDeListas
    <3>2. p \notin k1.block /\ p \notin k1.exec
      BY <1>2, <2>3 DEF ListasBien
    <3>3. k1.prioridad = k.prioridad
      BY <2>4 DEF Quieto
    <3>4. Cambia(k.susp_ready, k1.susp_ready, p, "SUSP_READY" = "SUSP_READY")
      BY <2>2, <2>3 DEF Cambia
    <3>5. QED
      BY <2>3, <3>1, <3>2, <3>3, <3>4, MueveListas
  <2>6. Mueve(k, k1, p, "SUSP_READY")
    BY <2>3, <2>4, <2>5 DEF Mueve
  <2>7. QED
    BY <1>2, <2>1, <2>3, <2>6
<1>3. QED
  BY <1>1, <1>2

\* planificador_corto_plazo: the first of the best queue runs on the first free
\* CPU.
LEMMA PlanificarKs ==
  ASSUME NEW k \in TipoKs(Cpus), ListasBien(k), ConProcesos(k) # {}, k.cpus_libres # <<>>,
         k.sem_ready > 0
  PROVE  LET k1 == Planificar(k)
             p == Head(k.colas_ready[Min(ConProcesos(k))]) IN
         /\ p \in Pids /\ k.estado[p] = "READY"
         /\ Mueve(k, k1, p, "EXEC") /\ k1.exec = k.exec \cup {p} /\ k1.timer = k.timer
         /\ k1.cpu[p] = Head(k.cpus_libres) /\ k1.cpus_libres = Tail(k.cpus_libres)
<1> DEFINE q == Min(ConProcesos(k))
           s == k.colas_ready[q]
           p == Head(s)
           t == Tail(s)
           c == Head(k.cpus_libres)
           libres == Tail(k.cpus_libres)
           k1 == Planificar(k)
<1>1. q \in Colas /\ s \in Seq(Pids) /\ s # <<>> /\ p \in Pids /\ t \in Seq(Pids)
  BY PrimeroDeReady
<1>2. k1 \in TipoKs(Cpus)
  BY PlanificarTipo
<1>3. k1 = [k EXCEPT !.colas_ready[q] = t, !.cpus_libres = libres,
                     !.exec = @ \cup {p}, !.estado[p] = "EXEC",
                     !.cpu[p] = c, !.sem_ready = @ - 1]
  BY DEF Planificar
<1>4. /\ \A y : Tiene(s, y) <=> y = p \/ Tiene(t, y)
      /\ Distintos(s) => Distintos(t) /\ ~ Tiene(t, p)
  <2> HIDE DEF s
  <2>1. QED
    BY <1>1, TieneQuitado
<1>5. Distintos(s) /\ Tiene(s, p) /\ k.estado[p] = "READY" /\ k.prioridad[p] = q
  <2>1. Tiene(s, p) /\ Distintos(s)
    BY <1>1, <1>4 DEF ListasBien
  <2>2. QED
    BY <1>1, <2>1 DEF ListasBien
<1>6. c \in Cpus
  BY HeadTailProperties DEF TipoKs
<1> HIDE DEF q, p, t, c, libres, k1
<1>7. /\ k1.estado = [k.estado EXCEPT ![p] = "EXEC"]
      /\ k1.exec = k.exec \cup {p} /\ k1.block = k.block /\ k1.susp_block = k.susp_block
      /\ k1.susp_ready = k.susp_ready /\ k1.colas_ready = [k.colas_ready EXCEPT ![q] = t]
      /\ k1.cpu = [k.cpu EXCEPT ![p] = c] /\ k1.timer = k.timer
      /\ k1.cpus_libres = libres
  BY <1>3 DEF TipoKs
<1>8. Quieto(k, k1)
  BY <1>3 DEF TipoKs, Quieto
<1>9. \A r \in Colas : k1.colas_ready[r] = IF r = q THEN t ELSE k.colas_ready[r]
  BY <1>1, <1>7 DEF TipoKs
<1>10. ASSUME NEW r \in Colas
       PROVE  Cambia(k.colas_ready[r], k1.colas_ready[r], p, "EXEC" = "READY" /\ k.prioridad[p] = r)
  <2>1. CASE r = q
    BY <1>4, <1>5, <1>9, <2>1 DEF Cambia
  <2>2. CASE r # q
    <3>1. k1.colas_ready[r] = k.colas_ready[r] /\ Distintos(k.colas_ready[r])
      BY <1>9, <2>2 DEF ListasBien
    <3>2. ~ Tiene(k.colas_ready[r], p)
      BY <1>1, <1>5, <2>2 DEF ListasBien
    <3>3. QED
      BY <3>1, <3>2 DEF Cambia
  <2>3. QED
    BY <2>1, <2>2
<1>11. ListasBien(k1)
  <2>1. Cambia(k.susp_ready, k1.susp_ready, p, "EXEC" = "SUSP_READY")
    BY <1>1, <1>5, <1>7, FueraDeListas
  <2>2. p \notin k1.block /\ p \notin k1.susp_block
    BY <1>1, <1>5, <1>7 DEF ListasBien
  <2>3. k1.prioridad = k.prioridad
    BY <1>8 DEF Quieto
  <2>4. QED
    BY <1>1, <1>2, <1>7, <1>10, <2>1, <2>2, <2>3, MueveListas
<1>12. /\ \A r \in Pids : r # p => k1.cpu[r] = k.cpu[r] /\ k1.timer[r] = k.timer[r]
       /\ k1.cpu[p] = c
  BY <1>1, <1>7 DEF TipoKs
<1>13. Mueve(k, k1, p, "EXEC")
  BY <1>2, <1>7, <1>8, <1>11, <1>12 DEF Mueve
<1>14. QED
  BY <1>1, <1>5, <1>7, <1>12, <1>13 DEF q, p, c, libres, k1

\* hilo_suspension: the process that waits too long is SUSP_BLOCK.
LEMMA SuspenderKs ==
  ASSUME NEW k \in TipoKs(Cpus), ListasBien(k), NEW p \in Pids, k.estado[p] = "BLOCK"
  PROVE  LET k1 == [k EXCEPT !.timer[p] = FALSE, !.block = @ \ {p},
                             !.susp_block = @ \cup {p}, !.estado[p] = "SUSP_BLOCK"] IN
         /\ Mueve(k, k1, p, "SUSP_BLOCK") /\ k1.exec = k.exec /\ k1.timer[p] = FALSE
         /\ k1.cpus_libres = k.cpus_libres /\ k1.cpu = k.cpu
<1> DEFINE k1 == [k EXCEPT !.timer[p] = FALSE, !.block = @ \ {p},
                           !.susp_block = @ \cup {p}, !.estado[p] = "SUSP_BLOCK"]
<1>1. /\ k1 \in TipoKs(Cpus) /\ k1.estado = [k.estado EXCEPT ![p] = "SUSP_BLOCK"]
      /\ k1.exec = k.exec /\ k1.block = k.block \ {p} /\ k1.susp_block = k.susp_block \cup {p}
      /\ k1.susp_ready = k.susp_ready /\ k1.colas_ready = k.colas_ready
      /\ k1.cpu = k.cpu /\ k1.timer = [k.timer EXCEPT ![p] = FALSE]
      /\ k1.cpus_libres = k.cpus_libres
  BY DEF TipoKs, EstadosProceso
<1>2. Quieto(k, k1)
  BY DEF TipoKs, Quieto
<1> HIDE DEF k1
<1>3. ListasBien(k1)
  <2>1. /\ \A q \in Colas : Cambia(k.colas_ready[q], k1.colas_ready[q], p,
                                   "SUSP_BLOCK" = "READY" /\ k.prioridad[p] = q)
        /\ Cambia(k.susp_ready, k1.susp_ready, p, "SUSP_BLOCK" = "SUSP_READY")
    BY <1>1, FueraDeListas
  <2>2. p \notin k1.block /\ p \notin k1.exec
    BY <1>1 DEF ListasBien
  <2>3. k1.prioridad = k.prioridad
    BY <1>2 DEF Quieto
  <2>4. QED
    BY <1>1, <2>1, <2>2, <2>3, MueveListas
<1>4. /\ \A r \in Pids : r # p => k1.cpu[r] = k.cpu[r] /\ k1.timer[r] = k.timer[r]
      /\ k1.timer[p] = FALSE
  BY <1>1 DEF TipoKs
<1>5. QED
  BY <1>1, <1>2, <1>3, <1>4 DEF Mueve, k1

\* intentar_dessuspender_procesos: the process that came back is READY.
LEMMA ReanudarKs ==
  ASSUME NEW k \in TipoKs(Cpus), ListasBien(k), NEW p \in Pids, k.estado[p] = "SUSP_READY"
  PROVE  LET k1 == Encolar([k EXCEPT !.susp_ready = RemoveFirst(@, p), !.estado[p] = "READY"], p) IN
         /\ Mueve(k, k1, p, "READY") /\ k1.exec = k.exec /\ k1.timer = k.timer
         /\ k1.cpus_libres = k.cpus_libres /\ k1.cpu = k.cpu
<1> DEFINE t == RemoveFirst(k.susp_ready, p)
           k0 == [k EXCEPT !.susp_ready = t, !.estado[p] = "READY"]
           k1 == Encolar(k0, p)
<1>1. t \in Seq(Pids) /\ Cambia(k.susp_ready, t, p, FALSE)
  <2>1. k.susp_ready \in Seq(Pids) /\ Distintos(k.susp_ready)
    BY DEF ListasBien, TipoKs
  <2>2. t \in Seq(Pids) /\ Distintos(t) /\ \A y : Tiene(t, y) <=> Tiene(k.susp_ready, y) /\ y # p
    BY <2>1, TieneSacado
  <2> HIDE DEF t
  <2>3. QED
    BY <2>2 DEF Cambia
<1>2. k1 = Encolar([k EXCEPT !.susp_ready = RemoveFirst(@, p), !.estado[p] = "READY"], p)
  OBVIOUS
<1> HIDE DEF t
<1>3. /\ k0 \in TipoKs(Cpus) /\ k0.estado = [k.estado EXCEPT ![p] = "READY"]
      /\ k0.exec = k.exec /\ k0.block = k.block /\ k0.susp_block = k.susp_block
      /\ k0.susp_ready = t /\ k0.colas_ready = k.colas_ready
      /\ k0.cpu = k.cpu /\ k0.timer = k.timer
      /\ k0.cpus_libres = k.cpus_libres
  BY <1>1 DEF TipoKs, EstadosProceso
<1>4. Quieto(k, k0)
  BY DEF TipoKs, Quieto
<1> HIDE DEF k0
<1>5. k0.exec = k.exec \ {p} /\ k0.block = k.block \ {p} /\ k0.susp_block = k.susp_block \ {p}
  BY <1>3 DEF ListasBien
<1>6. Mueve(k, k1, p, "READY") /\ k1.exec = k0.exec /\ Aparte(k0, k1)
  BY <1>1, <1>3, <1>4, <1>5, MueveAReady
<1> HIDE DEF k1
<1>7. k1.exec = k.exec /\ k1.timer = k.timer /\ k1.cpus_libres = k.cpus_libres /\ k1.cpu = k.cpu
  BY <1>3, <1>6 DEF Aparte
<1>8. QED
  BY <1>2, <1>6, <1>7

\* list_sort keeps what is in lista_susp_ready.
LEMMA OrdenarKs ==
  ASSUME NEW k \in TipoKs(Cpus), ListasBien(k), NEW s \in SetToSeqs(ToSet(k.susp_ready))
  PROVE  LET k1 == [k EXCEPT !.susp_ready = s] IN
         /\ k1 \in TipoKs(Cpus) /\ ListasBien(k1) /\ k1.estado = k.estado
         /\ k1.exec = k.exec /\ Aparte(k, k1)
<1> DEFINE S == ToSet(k.susp_ready)
           n == Cardinality(S)
           k1 == [k EXCEPT !.susp_ready = s]
<1>1. S \in SUBSET Pids /\ \A y : y \in S <=> Tiene(k.susp_ready, y)
  <2>1. k.susp_ready \in Seq(Pids)
    BY DEF TipoKs
  <2>2. \A i \in DOMAIN k.susp_ready : k.susp_ready[i] \in Pids
    BY <2>1, LenProperties, ElementOfSeq
  <2>3. QED
    BY <2>2 DEF ToSet, Tiene
<1>2. IsFiniteSet(S) /\ n \in Nat
  BY <1>1, ProcesosOK, FS_Subset, FS_CardinalityType
<1>3. s \in [1 .. n -> S] /\ \A i, j \in 1 .. n : i # j => s[i] # s[j]
  BY DEF SetToSeqs
<1> HIDE DEF S, n
<1>4. s \in Seq(S) /\ DOMAIN s = 1 .. n
  BY <1>2, <1>3, FuncionEsSeq
<1>5. s \in Surjection(1 .. n, S)
  <2>1. IsFiniteSet(1 .. n) /\ Cardinality(1 .. n) = n
    BY <1>2, FS_Interval
  <2>2. s \in Injection(1 .. n, S)
    BY <1>3 DEF Injection, IsInjective
  <2>3. QED
    BY <1>2, <2>1, <2>2, FS_Injection DEF n
<1>6. s \in Seq(Pids) /\ Distintos(s) /\ \A y : Tiene(s, y) <=> y \in S
  <2>1. \A y \in S : \E i \in 1 .. n : s[i] = y
    BY <1>5 DEF Surjection
  <2>2. \A i \in 1 .. n : s[i] \in S
    BY <1>3
  <2>3. s \in Seq(Pids)
    BY <1>1, <1>4
  <2>4. QED
    BY <1>3, <1>4, <2>1, <2>2, <2>3 DEF Tiene, Distintos
<1>7. /\ k1 \in TipoKs(Cpus) /\ k1.estado = k.estado
      /\ k1.exec = k.exec /\ k1.block = k.block /\ k1.susp_block = k.susp_block
      /\ k1.susp_ready = s /\ k1.colas_ready = k.colas_ready
      /\ k1.cpu = k.cpu /\ k1.timer = k.timer
      /\ k1.cpus_libres = k.cpus_libres
  BY <1>6 DEF TipoKs
<1>8. Quieto(k, k1)
  BY DEF TipoKs, Quieto
<1> HIDE DEF k1
<1>9. ListasBien(k1)
  <2>1. \A y : Tiene(k1.susp_ready, y) <=> Tiene(k.susp_ready, y)
    BY <1>1, <1>6, <1>7
  <2>2. Distintos(k1.susp_ready) /\ k1.prioridad = k.prioridad
    BY <1>6, <1>7, <1>8 DEF Quieto
  <2>3. QED
    BY <1>7, <2>1, <2>2 DEF ListasBien
<1>10. QED
  BY <1>7, <1>8, <1>9 DEF Aparte, k1

-----------------------------------------------------------------------------
(* The mutexes.                                                             *)

\* Those that wait for a mutex are the ones in its queue.
LEMMA EsperanEs ==
  ASSUME NEW k \in TipoKs(Cpus), NEW m \in Mutexes
  PROVE  /\ Esperan(k, m) \in SUBSET Pids
         /\ \A y : y \in Esperan(k, m) <=> Tiene(k.cola_espera[m], y)
<1>1. k.cola_espera[m] \in Seq(Pids)
  BY DEF TipoKs
<1>2. \A i \in DOMAIN k.cola_espera[m] : k.cola_espera[m][i] \in Pids
  BY <1>1, LenProperties, ElementOfSeq
<1>3. QED
  BY <1>2 DEF Esperan, ToSet, Tiene

\* The least of a set of numbers.
LEMMA MinEs ==
  ASSUME NEW T \in SUBSET Nat, T # {}
  PROVE  Min(T) \in T /\ \A x \in T : Min(T) <= x
<1>1. \E x \in T : \A y \in T : x <= y
  BY MinimoNat
<1>2. QED
  BY <1>1 DEF Min

\* mayor_prioridad_del_mutex.
LEMMA MayorEs ==
  ASSUME NEW k \in TipoKs(Cpus), NEW m \in Mutexes
  PROVE  /\ Esperan(k, m) = {} => MayorPrioridad(k, m) = Nadie
         /\ Esperan(k, m) # {} =>
              /\ MayorPrioridad(k, m) \in Colas /\ MayorPrioridad(k, m) # Nadie
              /\ \E w \in Esperan(k, m) : MayorPrioridad(k, m) = k.prioridad[w]
              /\ \A w \in Esperan(k, m) : MayorPrioridad(k, m) <= k.prioridad[w]
<1> DEFINE E == Esperan(k, m)
           T == {k.prioridad[p] : p \in E}
<1>1. CASE E = {}
  BY <1>1 DEF MayorPrioridad
<1>2. CASE E # {}
  <2>1. E \in SUBSET Pids
    BY EsperanEs
  <2>2. MayorPrioridad(k, m) = Min(T)
    BY <1>2 DEF MayorPrioridad
  <2> HIDE DEF E
  <2>3. T \in SUBSET Colas /\ T # {}
    BY <1>2, <2>1 DEF TipoKs
  <2>4. T \in SUBSET Nat
    BY <2>3, ProcesosOK
  <2> HIDE DEF T
  <2>5. Min(T) \in T /\ \A x \in T : Min(T) <= x
    BY <2>3, <2>4, MinEs
  <2> USE DEF T
  <2>6. (\E w \in E : Min(T) = k.prioridad[w]) /\ \A w \in E : Min(T) <= k.prioridad[w]
    BY <2>5
  <2>7. Min(T) \in Colas /\ Min(T) # Nadie
    BY <2>3, <2>4, <2>5 DEF Nadie
  <2> HIDE DEF T
  <2>8. QED
    BY <1>2, <2>2, <2>6, <2>7 DEF E
<1>3. QED
  BY <1>1, <1>2

\* Only the priority of p changes, and with it the queue where it is.
SoloPrioridad(k, k1, p) ==
  /\ k1 \in TipoKs(Cpus) /\ ListasBien(k1)
  /\ k1.estado = k.estado /\ k1.exec = k.exec /\ k1.cpu = k.cpu /\ k1.timer = k.timer
  /\ k1.cpus_libres = k.cpus_libres /\ k1.lista_mutex = k.lista_mutex
  /\ k1.pid_dueno = k.pid_dueno /\ k1.cola_espera = k.cola_espera /\ k1.cola_io = k.cola_io
  /\ \A r \in Pids : r # p => k1.prioridad[r] = k.prioridad[r]

\* The priority of a process that is not READY changes.
LEMMA CambiarPrioridadKs ==
  ASSUME NEW k \in TipoKs(Cpus), ListasBien(k), NEW p \in Pids, k.estado[p] # "READY",
         NEW v \in Colas
  PROVE  LET k1 == [k EXCEPT !.prioridad[p] = v] IN
         SoloPrioridad(k, k1, p) /\ k1.prioridad[p] = v
<1> DEFINE k1 == [k EXCEPT !.prioridad[p] = v]
<1>1. /\ k1 \in TipoKs(Cpus) /\ k1.estado = k.estado
      /\ k1.exec = k.exec /\ k1.block = k.block /\ k1.susp_block = k.susp_block
      /\ k1.susp_ready = k.susp_ready /\ k1.colas_ready = k.colas_ready
      /\ k1.cpu = k.cpu /\ k1.timer = k.timer /\ k1.cpus_libres = k.cpus_libres
  BY DEF TipoKs
<1>2. /\ k1.lista_mutex = k.lista_mutex /\ k1.pid_dueno = k.pid_dueno
      /\ k1.cola_espera = k.cola_espera /\ k1.cola_io = k.cola_io
      /\ k1.prioridad = [k.prioridad EXCEPT ![p] = v]
  BY DEF TipoKs
<1> HIDE DEF k1
<1>3. k1.prioridad[p] = v /\ \A r \in Pids : r # p => k1.prioridad[r] = k.prioridad[r]
  BY <1>2 DEF TipoKs
<1>4. ListasBien(k1)
  <2>1. ASSUME NEW r \in Pids, NEW q \in Colas
        PROVE  Tiene(k1.colas_ready[q], r) <=> k1.estado[r] = "READY" /\ k1.prioridad[r] = q
    <3>1. CASE r = p
      BY <1>1, <3>1 DEF ListasBien
    <3>2. CASE r # p
      BY <1>1, <1>3, <3>2 DEF ListasBien
    <3>3. QED
      BY <3>1, <3>2
  <2>2. QED
    BY <1>1, <2>1 DEF ListasBien
<1>5. QED
  BY <1>1, <1>2, <1>3, <1>4 DEF SoloPrioridad, k1

\* k, once p has priority v and is in the queue of that priority.
Encolado(k, p, v) ==
  [[k EXCEPT !.prioridad[p] = v] EXCEPT !.colas_ready =
     CambiarDeCola(@, p, k.prioridad[p], v)]

\* A process that is READY goes to the queue of its new priority.
LEMMA CambiarColaKs ==
  ASSUME NEW k \in TipoKs(Cpus), ListasBien(k), NEW p \in Pids, k.estado[p] = "READY",
         NEW v \in Colas, v # k.prioridad[p], NEW k1,
         k1 = Encolado(k, p, v)
  PROVE  SoloPrioridad(k, k1, p) /\ k1.prioridad[p] = v
<1> DEFINE q == k.prioridad[p]
           menos == RemoveFirst(k.colas_ready[q], p)
           mas == Append(k.colas_ready[v], p)
           cs == [k.colas_ready EXCEPT ![q] = menos, ![v] = mas]
<1>1. q \in Colas /\ k.colas_ready \in [Colas -> Seq(Pids)]
  BY DEF TipoKs
<1>2. k1 = [k EXCEPT !.prioridad[p] = v, !.colas_ready = cs]
  <2>1. CambiarDeCola(k.colas_ready, p, q, v) = cs
    BY DEF CambiarDeCola
  <2>2. k1 = [[k EXCEPT !.prioridad[p] = v] EXCEPT !.colas_ready = cs]
    BY <2>1 DEF Encolado, TipoKs
  <2> HIDE DEF cs, q
  <2>3. QED
    BY <2>2 DEF TipoKs
<1>3. menos \in Seq(Pids) /\ Cambia(k.colas_ready[q], menos, p, FALSE)
  <2>1. k.colas_ready[q] \in Seq(Pids) /\ Distintos(k.colas_ready[q])
    BY <1>1 DEF ListasBien
  <2>2. /\ menos \in Seq(Pids) /\ Distintos(menos)
        /\ \A y : Tiene(menos, y) <=> Tiene(k.colas_ready[q], y) /\ y # p
    BY <2>1, TieneSacado
  <2> HIDE DEF menos
  <2>3. QED
    BY <2>2 DEF Cambia
<1>4. mas \in Seq(Pids) /\ Cambia(k.colas_ready[v], mas, p, TRUE)
  <2>1. k.colas_ready[v] \in Seq(Pids) /\ Distintos(k.colas_ready[v])
        /\ ~ Tiene(k.colas_ready[v], p)
    BY <1>1 DEF ListasBien
  <2>2. \A y : Tiene(mas, y) <=> Tiene(k.colas_ready[v], y) \/ y = p
    BY <2>1, TieneAgregado
  <2>3. mas \in Seq(Pids) /\ Distintos(mas)
    BY <2>1, AppendProperties, TieneAgregado
  <2> HIDE DEF mas
  <2>4. QED
    BY <2>1, <2>2, <2>3 DEF Cambia
<1> HIDE DEF menos, mas, q
<1>5. /\ cs \in [Colas -> Seq(Pids)]
      /\ \A r \in Colas : cs[r] = IF r = v THEN mas ELSE IF r = q THEN menos ELSE k.colas_ready[r]
  BY <1>1, <1>3, <1>4
<1> HIDE DEF cs
<1>6. /\ k1 \in TipoKs(Cpus) /\ k1.estado = k.estado
      /\ k1.exec = k.exec /\ k1.block = k.block /\ k1.susp_block = k.susp_block
      /\ k1.susp_ready = k.susp_ready /\ k1.colas_ready = cs
      /\ k1.cpu = k.cpu /\ k1.timer = k.timer /\ k1.cpus_libres = k.cpus_libres
  BY ONLY k \in TipoKs(Cpus), p \in Pids, v \in Colas, <1>2, <1>5 DEF TipoKs
<1>7. /\ k1.lista_mutex = k.lista_mutex /\ k1.pid_dueno = k.pid_dueno
      /\ k1.cola_espera = k.cola_espera /\ k1.cola_io = k.cola_io
      /\ k1.prioridad = [k.prioridad EXCEPT ![p] = v]
  BY ONLY k \in TipoKs(Cpus), p \in Pids, v \in Colas, <1>2 DEF TipoKs
<1>8. k1.prioridad[p] = v /\ \A r \in Pids : r # p => k1.prioridad[r] = k.prioridad[r]
  BY <1>7 DEF TipoKs
<1>9. ASSUME NEW r \in Pids, NEW x \in Colas
      PROVE  Tiene(k1.colas_ready[x], r) <=> k1.estado[r] = "READY" /\ k1.prioridad[r] = x
  <2>1. Tiene(k.colas_ready[x], r) <=> k.estado[r] = "READY" /\ k.prioridad[r] = x
    BY DEF ListasBien
  <2>2. CASE x = v
    BY <1>4, <1>5, <1>6, <1>8, <2>1, <2>2 DEF Cambia
  <2>3. CASE x # v /\ x = q
    BY <1>3, <1>5, <1>6, <1>8, <2>1, <2>3 DEF Cambia
  <2>4. CASE x # v /\ x # q
    <3>1. k1.colas_ready[x] = k.colas_ready[x]
      BY <1>5, <1>6, <2>4
    <3>2. QED
      BY <1>6, <1>8, <2>1, <2>4, <3>1 DEF q
  <2>5. QED
    BY <2>2, <2>3, <2>4
<1>10. \A x \in Colas : Distintos(k1.colas_ready[x])
  BY <1>3, <1>4, <1>5, <1>6 DEF Cambia, ListasBien
<1>11. ListasBien(k1)
  BY <1>6, <1>9, <1>10 DEF ListasBien
<1>12. QED
  BY <1>6, <1>7, <1>8, <1>11 DEF SoloPrioridad

\* aplicar_herencia: p is at least as good as those that wait for m, and no better
\* than it was or one of them is.
LEMMA HerenciaKs ==
  ASSUME NEW k \in TipoKs(Cpus), ListasBien(k), NEW p \in Pids, NEW m \in Mutexes
  PROVE  LET k1 == AplicarHerencia(k, p, m) IN
         /\ SoloPrioridad(k, k1, p)
         /\ k1.prioridad[p] <= k.prioridad[p]
         /\ \A w \in Esperan(k, m) : k1.prioridad[p] <= k.prioridad[w]
         /\ \/ k1.prioridad[p] = k.prioridad[p]
            \/ \E w \in Esperan(k, m) : k1.prioridad[p] = k.prioridad[w]
<1> DEFINE v == MayorPrioridad(k, m)
           k1 == AplicarHerencia(k, p, m)
           E == Esperan(k, m)
<1>1. /\ E = {} => v = Nadie
      /\ E # {} => /\ v \in Colas /\ v # Nadie
                   /\ \E w \in E : v = k.prioridad[w]
                   /\ \A w \in E : v <= k.prioridad[w]
  BY MayorEs
<1>2. E \in SUBSET Pids
  BY EsperanEs
<1>3. k.prioridad \in [Pids -> Colas] /\ Colas \subseteq Nat
  BY ProcesosOK DEF TipoKs
<1>4. CASE v = Nadie \/ v >= k.prioridad[p]
  <2>1. k1 = k
    BY <1>4 DEF AplicarHerencia
  <2> HIDE DEF v, k1, E
  <2>2. SoloPrioridad(k, k1, p)
    BY <2>1 DEF SoloPrioridad
  <2>3. \A w \in E : k.prioridad[p] <= k.prioridad[w]
    <3>1. ASSUME NEW w \in E PROVE k.prioridad[p] <= k.prioridad[w]
      <4>1. v \in Nat /\ v >= k.prioridad[p] /\ v <= k.prioridad[w] /\ k.prioridad[w] \in Nat
            /\ k.prioridad[p] \in Nat
        BY <1>1, <1>2, <1>3, <1>4
      <4>2. QED
        BY <4>1
    <3>2. QED
      BY <3>1
  <2>4. k.prioridad[p] <= k.prioridad[p]
    <3>1. k.prioridad[p] \in Colas
      BY <1>3
    <3>2. k.prioridad[p] \in Nat
      BY <1>3, <3>1
    <3>3. QED
      BY <3>2
  <2>5. QED
    BY <2>1, <2>2, <2>3, <2>4 DEF k1, E
<1>5. CASE v # Nadie /\ ~ (v >= k.prioridad[p])
  <2>1. /\ k.estado[p] # "READY" => k1 = [k EXCEPT !.prioridad[p] = v]
        /\ k.estado[p] = "READY" =>
             k1 = [[k EXCEPT !.prioridad[p] = v] EXCEPT !.colas_ready =
                     CambiarDeCola(@, p, k.prioridad[p], v)]
    BY <1>5 DEF AplicarHerencia
  <2> HIDE DEF v, k1, E
  <2>2. v \in Colas /\ v # k.prioridad[p] /\ v <= k.prioridad[p]
    <3>1. v \in Colas
      BY <1>1, <1>5
    <3>2. v \in Nat /\ k.prioridad[p] \in Nat
      BY <1>3, <3>1
    <3>3. QED
      BY <1>5, <3>1, <3>2
  <2>3. SoloPrioridad(k, k1, p) /\ k1.prioridad[p] = v
    <3>1. CASE k.estado[p] # "READY"
      <4> DEFINE kk == [k EXCEPT !.prioridad[p] = v]
      <4>1. SoloPrioridad(k, kk, p) /\ kk.prioridad[p] = v
        BY <2>2, <3>1, CambiarPrioridadKs
      <4>2. k1 = kk
        BY <2>1, <3>1
      <4> HIDE DEF kk
      <4>3. QED
        BY <4>1, <4>2
    <3>2. CASE k.estado[p] = "READY"
      <4>1. k1 = Encolado(k, p, v)
        BY <2>1, <3>2, Zenon DEF Encolado
      <4>2. v \in Colas /\ v # k.prioridad[p]
        BY <2>2
      <4>3. QED
        BY <3>2, <4>1, <4>2, CambiarColaKs
    <3>3. QED
      BY <3>1, <3>2
  <2>4. /\ \A w \in E : v <= k.prioridad[w]
        /\ \E w \in E : v = k.prioridad[w]
    BY <1>1, <1>5
  <2>5. QED
    BY <2>2, <2>3, <2>4 DEF k1, E
<1>6. QED
  BY <1>4, <1>5

\* devolver_prioridad: p has its own priority or the best of those that still wait
\* for it.
LEMMA DevolverKs ==
  ASSUME NEW k \in TipoKs(Cpus), ListasBien(k), NEW p \in Pids, k.estado[p] # "READY"
  PROVE  LET k1 == DevolverPrioridad(k, p) IN
         /\ SoloPrioridad(k, k1, p)
         /\ k1.prioridad[p] <= PrioridadOriginal[p]
         /\ \A m \in Mutexes : Tiene(k.lista_mutex, m) /\ k.pid_dueno[m] = p =>
              \A w \in Esperan(k, m) : k1.prioridad[p] <= k.prioridad[w]
         /\ \/ k1.prioridad[p] = PrioridadOriginal[p]
            \/ \E m \in Mutexes : /\ k.pid_dueno[m] = p
                                  /\ \E w \in Esperan(k, m) : k1.prioridad[p] = k.prioridad[w]
<1> DEFINE suyos == {m \in ToSet(k.lista_mutex) : k.pid_dueno[m] = p /\ Esperan(k, m) # {}}
           T == {PrioridadOriginal[p]} \cup {MayorPrioridad(k, m) : m \in suyos}
           v == Min(T)
           k1 == DevolverPrioridad(k, p)
<1>1. k1 = [k EXCEPT !.prioridad[p] = v]
  BY DEF DevolverPrioridad
<1>2. /\ suyos \in SUBSET Mutexes
      /\ \A m : m \in suyos <=> Tiene(k.lista_mutex, m) /\ k.pid_dueno[m] = p /\ Esperan(k, m) # {}
  <2>1. k.lista_mutex \in Seq(Mutexes)
    BY DEF TipoKs
  <2>2. \A i \in DOMAIN k.lista_mutex : k.lista_mutex[i] \in Mutexes
    BY <2>1, LenProperties, ElementOfSeq
  <2>3. QED
    BY <2>2 DEF ToSet, Tiene
<1> HIDE DEF suyos, k1
<1>3. ASSUME NEW m \in suyos
      PROVE  /\ MayorPrioridad(k, m) \in Colas
             /\ \E w \in Esperan(k, m) : MayorPrioridad(k, m) = k.prioridad[w]
             /\ \A w \in Esperan(k, m) : MayorPrioridad(k, m) <= k.prioridad[w]
  BY <1>2, MayorEs
<1>4. T \in SUBSET Colas /\ T # {} /\ Colas \subseteq Nat
  BY <1>3, ProcesosOK
<1>5. T \in SUBSET Nat
  BY <1>4
<1> HIDE DEF T
<1>6. v \in T /\ \A x \in T : v <= x
  BY <1>4, <1>5, MinEs
<1> HIDE DEF v
<1>7. v \in Colas
  BY <1>4, <1>6
<1>8. SoloPrioridad(k, k1, p) /\ k1.prioridad[p] = v
  <2> DEFINE kk == [k EXCEPT !.prioridad[p] = v]
  <2>1. SoloPrioridad(k, kk, p) /\ kk.prioridad[p] = v
    BY <1>7, CambiarPrioridadKs
  <2>2. k1 = kk
    BY <1>1
  <2> HIDE DEF kk
  <2>3. QED
    BY <2>1, <2>2
<1>9. v <= PrioridadOriginal[p]
  BY <1>6 DEF T
<1>10. ASSUME NEW m \in Mutexes, Tiene(k.lista_mutex, m), k.pid_dueno[m] = p,
              NEW w \in Esperan(k, m)
       PROVE  v <= k.prioridad[w]
  <2>1. m \in suyos
    BY <1>2, <1>10
  <2>2. MayorPrioridad(k, m) \in T /\ MayorPrioridad(k, m) <= k.prioridad[w]
    BY <1>3, <1>10, <2>1 DEF T
  <2>3. v <= MayorPrioridad(k, m)
    BY <1>6, <2>2
  <2>4. v \in Nat /\ MayorPrioridad(k, m) \in Nat /\ k.prioridad[w] \in Nat
    <3>1. w \in Pids
      BY <1>10, EsperanEs
    <3>2. k.prioridad[w] \in Colas
      BY <3>1 DEF TipoKs
    <3>3. QED
      BY <1>4, <1>5, <1>7, <2>2, <3>2
  <2>5. QED
    BY <2>2, <2>3, <2>4
<1>11. \/ v = PrioridadOriginal[p]
       \/ \E m \in Mutexes : /\ k.pid_dueno[m] = p
                             /\ \E w \in Esperan(k, m) : v = k.prioridad[w]
  BY <1>2, <1>3, <1>6 DEF T
<1>12. QED
  BY <1>8, <1>9, <1>10, <1>11 DEF k1

-----------------------------------------------------------------------------
(* The CPUs.                                                                *)

\* No process runs on c.
Sola(k, c) == \A p \in k.exec : k.cpu[p] # c

\* A thread of a CPU that ends a process, or is about to block the one it runs.
Cierra(t) == t.pc \in {"finalizar", "liberar"}
EnBloqueo(k, c, t) == t.pc = "bloquear" => t.pid \in k.exec /\ k.cpu[t.pid] = c
EnCierre(k, c, t) == Cierra(t) => Sola(k, c) /\ t.pid \in Pids /\ k.estado[t.pid] = "EXIT"

\* A process has a CPU of its own while it runs, a free CPU has none; h are the
\* threads.
CpusBien(k, h) ==
  /\ \A p \in k.exec : k.cpu[p] \in Cpus
  /\ \A p, q \in k.exec : k.cpu[p] = k.cpu[q] => p = q
  /\ Distintos(k.cpus_libres)
  /\ \A c \in Cpus :
       /\ Tiene(k.cpus_libres, c) => Sola(k, c) /\ ~ Cierra(h[c])
       /\ EnBloqueo(k, c, h[c])
       /\ EnCierre(k, c, h[c])

\* A thread that neither ends nor blocks a process.
Neutro(t) == t.pc \notin {"bloquear", "finalizar", "liberar"}

\* The same processes run on the same CPUs.
LEMMA CpusIgual ==
  ASSUME NEW k \in TipoKs(Cpus), NEW k1, NEW h, NEW h1, CpusBien(k, h),
         k1.exec = k.exec, \A p \in k.exec : k1.cpu[p] = k.cpu[p],
         k1.cpus_libres = k.cpus_libres,
         \A p \in Pids : k.estado[p] = "EXIT" => k1.estado[p] = "EXIT",
         \A c \in Cpus :
           \/ h1[c] = h[c] \/ Neutro(h1[c])
           \/ h1[c].pc = "bloquear" /\ h1[c].pid \in k.exec /\ k.cpu[h1[c].pid] = c
           \/ Cierra(h[c]) /\ Cierra(h1[c]) /\ h1[c].pid = h[c].pid
  PROVE  CpusBien(k1, h1)
<1>1. ASSUME NEW c \in Cpus
      PROVE  /\ Tiene(k1.cpus_libres, c) => Sola(k1, c) /\ ~ Cierra(h1[c])
             /\ EnBloqueo(k1, c, h1[c])
             /\ EnCierre(k1, c, h1[c])
  <2>1. /\ Tiene(k.cpus_libres, c) => Sola(k, c) /\ ~ Cierra(h[c])
        /\ EnBloqueo(k, c, h[c]) /\ EnCierre(k, c, h[c])
    BY DEF CpusBien
  <2>2. Sola(k1, c) <=> Sola(k, c)
    BY DEF Sola
  <2>3. CASE h1[c] = h[c]
    BY <2>1, <2>2, <2>3 DEF EnBloqueo, EnCierre
  <2>4. CASE Neutro(h1[c])
    BY <2>1, <2>2, <2>4 DEF EnBloqueo, EnCierre, Neutro, Cierra
  <2>5. CASE h1[c].pc = "bloquear" /\ h1[c].pid \in k.exec /\ k.cpu[h1[c].pid] = c
    BY <2>1, <2>2, <2>5 DEF EnBloqueo, EnCierre, Cierra
  <2>6. CASE Cierra(h[c]) /\ Cierra(h1[c]) /\ h1[c].pid = h[c].pid
    BY <2>1, <2>2, <2>6 DEF EnBloqueo, EnCierre, Cierra
  <2>7. QED
    BY <2>3, <2>4, <2>5, <2>6
<1>2. QED
  BY <1>1 DEF CpusBien

\* A process leaves CPU c, which is free at once if b and when its thread has ended
\* the process if not.
LEMMA CpusDeja ==
  ASSUME NEW k \in TipoKs(Cpus), NEW k1, NEW h, NEW h1, CpusBien(k, h),
         NEW p \in k.exec, NEW c \in Cpus, k.cpu[p] = c, k1.exec = k.exec \ {p},
         \A r \in Pids : r # p => k1.cpu[r] = k.cpu[r],
         k.estado[p] # "EXIT",
         \A r \in Pids : k.estado[r] = "EXIT" => k1.estado[r] = "EXIT",
         \A d \in Cpus : d # c => h1[d] = h[d],
         \/ k1.cpus_libres = Append(k.cpus_libres, c) /\ Neutro(h1[c])
         \/ /\ k1.cpus_libres = k.cpus_libres /\ h1[c].pc = "finalizar" /\ h1[c].pid = p
            /\ k1.estado[p] = "EXIT"
  PROVE  CpusBien(k1, h1)
<1>1. k.exec \in SUBSET Pids /\ k.cpus_libres \in Seq(Cpus)
  BY DEF TipoKs
<1>2. \A d \in Cpus : d # c => (Sola(k1, d) <=> Sola(k, d))
  BY <1>1 DEF Sola
<1>3. Sola(k1, c)
  BY <1>1 DEF CpusBien, Sola
<1>4. ~ Tiene(k.cpus_libres, c) /\ Distintos(k.cpus_libres)
  BY DEF CpusBien, Sola
<1>5. /\ Distintos(k1.cpus_libres)
      /\ \A d \in Cpus : d # c => (Tiene(k1.cpus_libres, d) <=> Tiene(k.cpus_libres, d))
      /\ Tiene(k1.cpus_libres, c) => Neutro(h1[c])
  <2>1. CASE k1.cpus_libres = Append(k.cpus_libres, c) /\ Neutro(h1[c])
    <3>1. \A y : Tiene(Append(k.cpus_libres, c), y) <=> Tiene(k.cpus_libres, y) \/ y = c
      BY <1>1, TieneAgregado
    <3>2. Distintos(Append(k.cpus_libres, c))
      BY <1>1, <1>4, TieneAgregado
    <3>3. QED
      BY <2>1, <3>1, <3>2
  <2>2. CASE k1.cpus_libres = k.cpus_libres
    BY <1>4, <2>2
  <2>3. QED
    BY <2>1, <2>2
<1>6. ASSUME NEW d \in Cpus
      PROVE  /\ Tiene(k1.cpus_libres, d) => Sola(k1, d) /\ ~ Cierra(h1[d])
             /\ EnBloqueo(k1, d, h1[d])
             /\ EnCierre(k1, d, h1[d])
  <2>1. CASE d # c
    <3>1. /\ Tiene(k.cpus_libres, d) => Sola(k, d) /\ ~ Cierra(h[d])
          /\ EnBloqueo(k, d, h[d]) /\ EnCierre(k, d, h[d]) /\ h1[d] = h[d]
      BY <2>1 DEF CpusBien
    <3>2. EnBloqueo(k1, d, h1[d])
      BY <1>1, <2>1, <3>1 DEF EnBloqueo
    <3>3. EnCierre(k1, d, h1[d])
      BY <1>2, <2>1, <3>1 DEF EnCierre
    <3>4. QED
      BY <1>2, <1>5, <2>1, <3>1, <3>2, <3>3
  <2>2. CASE d = c
    <3>1. Tiene(k1.cpus_libres, d) => Sola(k1, d) /\ ~ Cierra(h1[d])
      BY <1>3, <1>5, <2>2 DEF Neutro, Cierra
    <3>2. EnBloqueo(k1, d, h1[d])
      BY <2>2 DEF EnBloqueo, Neutro
    <3>3. EnCierre(k1, d, h1[d])
      BY <1>1, <1>3, <2>2 DEF EnCierre, Cierra, Neutro
    <3>4. QED
      BY <3>1, <3>2, <3>3
  <2>3. QED
    BY <2>1, <2>2
<1>7. /\ \A r \in k1.exec : k1.cpu[r] \in Cpus
      /\ \A r, q \in k1.exec : k1.cpu[r] = k1.cpu[q] => r = q
  BY <1>1 DEF CpusBien
<1>8. QED
  BY <1>5, <1>6, <1>7 DEF CpusBien

\* The thread that has ended a process frees its CPU.
LEMMA CpusLibera ==
  ASSUME NEW k \in TipoKs(Cpus), NEW k1, NEW h, NEW h1, CpusBien(k, h),
         NEW c \in Cpus, Cierra(h[c]), Neutro(h1[c]), \A d \in Cpus : d # c => h1[d] = h[d],
         k1.exec = k.exec, k1.cpu = k.cpu, k1.estado = k.estado,
         k1.cpus_libres = Append(k.cpus_libres, c)
  PROVE  CpusBien(k1, h1)
<1>1. k.cpus_libres \in Seq(Cpus)
  BY DEF TipoKs
<1>2. \A d \in Cpus : Sola(k1, d) <=> Sola(k, d)
  BY DEF Sola
<1>3. Sola(k, c) /\ ~ Tiene(k.cpus_libres, c) /\ Distintos(k.cpus_libres)
  BY DEF CpusBien, EnCierre
<1>4. \A y : Tiene(k1.cpus_libres, y) <=> Tiene(k.cpus_libres, y) \/ y = c
  BY <1>1, TieneAgregado
<1>5. Distintos(k1.cpus_libres)
  BY <1>1, <1>3, TieneAgregado
<1>6. ASSUME NEW d \in Cpus
      PROVE  /\ Tiene(k1.cpus_libres, d) => Sola(k1, d) /\ ~ Cierra(h1[d])
             /\ EnBloqueo(k1, d, h1[d])
             /\ EnCierre(k1, d, h1[d])
  <2>1. CASE d # c
    BY <1>2, <1>4, <2>1 DEF CpusBien, EnBloqueo, EnCierre
  <2>2. CASE d = c
    BY <1>2, <1>3, <2>2 DEF EnBloqueo, EnCierre, Neutro, Cierra
  <2>3. QED
    BY <2>1, <2>2
<1>7. QED
  BY <1>5, <1>6 DEF CpusBien

\* A process goes to the first free CPU.
LEMMA CpusElige ==
  ASSUME NEW k \in TipoKs(Cpus), NEW k1, NEW h, CpusBien(k, h), k.cpus_libres # <<>>,
         NEW p \in Pids, p \notin k.exec, k.estado[p] # "EXIT",
         NEW c, c = Head(k.cpus_libres), k1.cpus_libres = Tail(k.cpus_libres),
         k1.exec = k.exec \cup {p}, k1.cpu[p] = c,
         \A r \in Pids : r # p => k1.cpu[r] = k.cpu[r] /\ k1.estado[r] = k.estado[r]
  PROVE  CpusBien(k1, h)
<1>1. k.cpus_libres \in Seq(Cpus) /\ k.exec \in SUBSET Pids
  BY DEF TipoKs
<1>2. /\ \A y : Tiene(k.cpus_libres, y) <=> y = c \/ Tiene(k1.cpus_libres, y)
      /\ c \in Cpus
  BY <1>1, TieneQuitado
<1>3. Distintos(k1.cpus_libres) /\ ~ Tiene(k1.cpus_libres, c)
  <2>1. Distintos(k.cpus_libres)
    BY DEF CpusBien
  <2>2. QED
    BY <1>1, <2>1, TieneQuitado
<1>4. Sola(k, c) /\ ~ Cierra(h[c])
  BY <1>2 DEF CpusBien
<1>5. \A d \in Cpus : d # c => (Sola(k1, d) <=> Sola(k, d))
  BY <1>1 DEF Sola
<1>6. ASSUME NEW d \in Cpus
      PROVE  /\ Tiene(k1.cpus_libres, d) => Sola(k1, d) /\ ~ Cierra(h[d])
             /\ EnBloqueo(k1, d, h[d])
             /\ EnCierre(k1, d, h[d])
  <2>1. /\ Tiene(k.cpus_libres, d) => Sola(k, d) /\ ~ Cierra(h[d])
        /\ EnBloqueo(k, d, h[d]) /\ EnCierre(k, d, h[d])
    BY DEF CpusBien
  <2>2. EnBloqueo(k1, d, h[d])
    BY <1>1, <2>1 DEF EnBloqueo
  <2>3. EnCierre(k1, d, h[d])
    <3>1. CASE d = c
      BY <1>4, <3>1 DEF EnCierre
    <3>2. CASE d # c
      BY <1>5, <2>1, <3>2 DEF EnCierre
    <3>3. QED
      BY <3>1, <3>2
  <2>4. Tiene(k1.cpus_libres, d) => Sola(k1, d) /\ ~ Cierra(h[d])
    BY <1>2, <1>3, <1>5, <2>1
  <2>5. QED
    BY <2>2, <2>3, <2>4
<1>7. /\ \A r \in k1.exec : k1.cpu[r] \in Cpus
      /\ \A r, q \in k1.exec : k1.cpu[r] = k1.cpu[q] => r = q
  BY <1>1, <1>2, <1>4 DEF CpusBien, Sola
<1>8. QED
  BY <1>3, <1>6, <1>7 DEF CpusBien

-----------------------------------------------------------------------------
(* Those that wake a process up.                                            *)

\* The thread of a CPU has to wake p up or to put it in the queue of a device.
HiloDespierta(t, p) == t.pid = p /\ t.pc \in {"despertar", "pedir_io"} /\ t.arg # "EXEC"

\* Despertadores, of a record k, threads h of the CPUs and threads g of the devices.
Quienes(k, h, g, p) ==
  {<<"mutex", m>> : m \in {x \in Mutexes : Tiene(k.cola_espera[x], p)}}
    \cup {<<"io", t>> : t \in {x \in TiposIo : Tiene(k.cola_io[x], p)}}
    \cup {<<"hilo_io", d>> : d \in {x \in Ios : g[x].pid = p}}
    \cup {<<"hilo_cpu", c>> : c \in {x \in Cpus : HiloDespierta(h[x], p)}}

\* The process that runs on a CPU has joined the queue of a mutex.
Entra(h, p) == \E c \in Cpus : h[c].pc = "bloquear" /\ h[c].pid = p

Espera(k, p) == k.estado[p] \in {"BLOCK", "SUSP_BLOCK"}

\* One waker at most, of a process that waits, or of one that has joined the queue
\* of a mutex; a timer only while it is BLOCK.
UnoQueDespierta(k, h, g, p) ==
  /\ \A x, y \in Quienes(k, h, g, p) : x = y
  /\ \A x \in Quienes(k, h, g, p) :
       Espera(k, p) \/ (Entra(h, p) /\ \E m \in Mutexes : x = <<"mutex", m>>)
  /\ k.timer[p] => k.estado[p] = "BLOCK"

\* What a thread has read is still so, and the timer does not run.
Vigente(k, p, e) == k.estado[p] = e /\ ~ k.timer[p]

HiloCpuBien(k, t) ==
  /\ t.pc = "despertar" => /\ t.pid \in Pids /\ t.arg \in {"BLOCK", "SUSP_BLOCK", "EXEC"}
                           /\ t.arg # "EXEC" => Vigente(k, t.pid, t.arg)
  /\ t.pc = "pedir_io" => t.pid \in Pids /\ t.arg \in TiposIo

HiloIoBien(k, t) ==
  /\ t.pc = "espera" => t.pid = Nadie
  /\ t.pc # "espera" => t.pid \in Pids
  /\ t.pc = "mover" => t.leido \in {"BLOCK", "SUSP_BLOCK"} /\ Vigente(k, t.pid, t.leido)

EsperasBien(k, h, g) ==
  /\ \A p \in Pids : UnoQueDespierta(k, h, g, p)
  /\ \A m \in Mutexes : Distintos(k.cola_espera[m])
  /\ \A t \in TiposIo : Distintos(k.cola_io[t])
  /\ \A c \in Cpus : HiloCpuBien(k, h[c])
  /\ \A d \in Ios : HiloIoBien(k, g[d])

\* A step that concerns process p and leaves the others with the wakers they had.
LEMMA EsperasPasa ==
  ASSUME NEW k, NEW h, NEW g, EsperasBien(k, h, g), NEW k1, NEW h1, NEW g1, NEW p \in Pids,
         \A r \in Pids : r # p =>
           /\ Quienes(k1, h1, g1, r) \subseteq Quienes(k, h, g, r)
           /\ k1.estado[r] = k.estado[r] /\ (k1.timer[r] => k.timer[r])
           /\ Entra(h, r) => Entra(h1, r),
         UnoQueDespierta(k1, h1, g1, p),
         \A m \in Mutexes : Distintos(k1.cola_espera[m]),
         \A t \in TiposIo : Distintos(k1.cola_io[t]),
         \A c \in Cpus : HiloCpuBien(k1, h1[c]) \/ (h1[c] = h[c] /\ ~ HiloDespierta(h[c], p)),
         \A d \in Ios : HiloIoBien(k1, g1[d]) \/ (g1[d] = g[d] /\ g[d].pid # p)
  PROVE  EsperasBien(k1, h1, g1)
<1>1. ASSUME NEW r \in Pids PROVE UnoQueDespierta(k1, h1, g1, r)
  <2>1. CASE r = p
    BY <2>1
  <2>2. CASE r # p
    <3>1. /\ UnoQueDespierta(k, h, g, r)
          /\ Quienes(k1, h1, g1, r) \subseteq Quienes(k, h, g, r)
          /\ k1.estado[r] = k.estado[r] /\ (k1.timer[r] => k.timer[r])
          /\ Entra(h, r) => Entra(h1, r)
      BY <2>2 DEF EsperasBien
    <3>2. \A x, y \in Quienes(k1, h1, g1, r) : x = y
      BY <3>1 DEF UnoQueDespierta
    <3>3. \A x \in Quienes(k1, h1, g1, r) :
            Espera(k1, r) \/ (Entra(h1, r) /\ \E m \in Mutexes : x = <<"mutex", m>>)
      BY <3>1 DEF UnoQueDespierta, Espera
    <3>4. QED
      BY <3>1, <3>2, <3>3 DEF UnoQueDespierta
  <2>3. QED
    BY <2>1, <2>2
<1>2. ASSUME NEW c \in Cpus PROVE HiloCpuBien(k1, h1[c])
  <2>1. CASE h1[c] = h[c] /\ ~ HiloDespierta(h[c], p)
    <3>1. HiloCpuBien(k, h[c])
      BY DEF EsperasBien
    <3>2. QED
      BY <2>1, <3>1 DEF HiloCpuBien, HiloDespierta, Vigente
  <2>2. QED
    BY <2>1
<1>3. ASSUME NEW d \in Ios PROVE HiloIoBien(k1, g1[d])
  <2>1. CASE g1[d] = g[d] /\ g[d].pid # p
    <3>1. HiloIoBien(k, g[d])
      BY DEF EsperasBien
    <3>2. QED
      BY <2>1, <3>1 DEF HiloIoBien, Vigente
  <2>2. QED
    BY <2>1
<1>4. QED
  BY <1>1, <1>2, <1>3 DEF EsperasBien

\* The threads of the CPUs change, the queues and the devices do not: a thread that
\* wakes nobody up adds no waker.
LEMMA QuienesHilo ==
  ASSUME NEW k, NEW h, NEW g, NEW k1, NEW h1, k1.cola_espera = k.cola_espera,
         k1.cola_io = k.cola_io, NEW p,
         \A c \in Cpus : h1[c] = h[c] \/ ~ HiloDespierta(h1[c], p)
  PROVE  Quienes(k1, h1, g, p) \subseteq Quienes(k, h, g, p)
BY DEF Quienes

\* A process that runs and whose thread has nothing else to do has no waker.
LEMMA CorreSinQuien ==
  ASSUME NEW k \in TipoKs(Cpus), ListasBien(k), NEW h, NEW g, CpusBien(k, h),
         EsperasBien(k, h, g), NEW p \in Pids, p \in k.exec, h[k.cpu[p]].pc # "bloquear"
  PROVE  /\ Quienes(k, h, g, p) = {} /\ k.estado[p] = "EXEC" /\ ~ Entra(h, p) /\ ~ k.timer[p]
         /\ \A c \in Cpus : ~ HiloDespierta(h[c], p)
         /\ \A d \in Ios : g[d].pid # p
<1>1. k.estado[p] = "EXEC"
  BY DEF ListasBien
<1>2. ~ Entra(h, p)
  BY DEF Entra, CpusBien, EnBloqueo
<1>3. UnoQueDespierta(k, h, g, p)
  BY DEF EsperasBien
<1>4. Quienes(k, h, g, p) = {} /\ ~ k.timer[p]
  BY <1>1, <1>2, <1>3 DEF UnoQueDespierta, Espera
<1>5. /\ \A c \in Cpus : ~ HiloDespierta(h[c], p)
      /\ \A d \in Ios : g[d].pid # p
  BY <1>4 DEF Quienes
<1>6. QED
  BY <1>1, <1>2, <1>4, <1>5

-----------------------------------------------------------------------------
(* The owners of the mutexes.                                               *)

\* A thread is about to pass on the mutexes of p.
Cerrado(h, p) == \E c \in Cpus : h[c].pid = p /\ Cierra(h[c])

\* A mutex that somebody waits for has an owner, which is alive or whose thread
\* will pass the mutex on.
ConDueno(k, h, m) ==
  LET d == k.pid_dueno[m] IN
  /\ d = Nadie => k.cola_espera[m] = <<>>
  /\ d # Nadie => Tiene(k.lista_mutex, m)
  /\ d # Nadie /\ k.estado[d] = "EXIT" => Cerrado(h, d)

\* The owner is as good as those that wait were at first.
Alcanza(k, m) ==
  LET d == k.pid_dueno[m] IN
  d # Nadie /\ k.estado[d] # "EXIT" =>
    \A w \in Pids : Tiene(k.cola_espera[m], w) => k.prioridad[d] <= PrioridadOriginal[w]

\* No process is worse than it was at first.
Mejora(k) == \A p \in Pids : k.prioridad[p] <= PrioridadOriginal[p]

MutexBien(k, h) == Mejora(k) /\ \A m \in Mutexes : ConDueno(k, h, m) /\ Alcanza(k, m)

\* A process that has ended is still so, and one that ends has a thread for its
\* mutexes.
Terminados(k, h, k1, h1) ==
  \A p \in Pids :
    /\ k.estado[p] = "EXIT" => k1.estado[p] = "EXIT"
    /\ k1.estado[p] = "EXIT" =>
         Cerrado(h1, p) \/ (k.estado[p] = "EXIT" /\ (Cerrado(h, p) => Cerrado(h1, p)))

\* A step that is not about the mutexes.
LEMMA MutexIgual ==
  ASSUME NEW k \in TipoKs(Cpus), NEW k1, NEW h, NEW h1, MutexBien(k, h), Quieto(k, k1),
         Terminados(k, h, k1, h1)
  PROVE  MutexBien(k1, h1)
<1>1. /\ k1.prioridad = k.prioridad /\ k1.lista_mutex = k.lista_mutex
      /\ k1.pid_dueno = k.pid_dueno /\ k1.cola_espera = k.cola_espera
  BY DEF Quieto
<1>2. ASSUME NEW m \in Mutexes PROVE ConDueno(k1, h1, m) /\ Alcanza(k1, m)
  <2>1. ConDueno(k, h, m) /\ Alcanza(k, m) /\ k.pid_dueno[m] \in Pids \cup {Nadie}
    BY DEF MutexBien, TipoKs
  <2>2. ConDueno(k1, h1, m)
    BY <1>1, <2>1 DEF ConDueno, Terminados
  <2>3. Alcanza(k1, m)
    BY <1>1, <2>1 DEF Alcanza, Terminados
  <2>4. QED
    BY <2>2, <2>3
<1>3. QED
  BY <1>1, <1>2 DEF MutexBien, Mejora

\* The priority of p does not get worse: what held of the others holds.
LEMMA AplicaAlcanza ==
  ASSUME NEW k \in TipoKs(Cpus), ListasBien(k), NEW s \in Pids, NEW m \in Mutexes,
         k.pid_dueno[m] = s, Mejora(k), \A x \in Mutexes : x # m => Alcanza(k, x)
  PROVE  LET k1 == AplicarHerencia(k, s, m) IN
         Mejora(k1) /\ \A x \in Mutexes : Alcanza(k1, x)
<1> DEFINE k1 == AplicarHerencia(k, s, m)
<1>1. /\ SoloPrioridad(k, k1, s) /\ k1.prioridad[s] <= k.prioridad[s]
      /\ \A w \in Esperan(k, m) : k1.prioridad[s] <= k.prioridad[w]
  BY HerenciaKs
<1> HIDE DEF k1
<1>2. /\ k1.estado = k.estado /\ k1.pid_dueno = k.pid_dueno /\ k1.cola_espera = k.cola_espera
      /\ \A r \in Pids : r # s => k1.prioridad[r] = k.prioridad[r]
  BY <1>1 DEF SoloPrioridad
<1>3. \A r \in Pids : /\ k.prioridad[r] \in Nat /\ k1.prioridad[r] \in Nat
                      /\ PrioridadOriginal[r] \in Nat
  <2>1. ASSUME NEW r \in Pids
        PROVE  k.prioridad[r] \in Colas /\ k1.prioridad[r] \in Colas /\ PrioridadOriginal[r] \in Colas
    BY <1>1, ProcesosOK DEF TipoKs, SoloPrioridad
  <2>2. Colas \subseteq Nat
    BY ProcesosOK
  <2>3. QED
    BY <2>1, <2>2
<1>4. \A r \in Pids : k1.prioridad[r] <= k.prioridad[r]
  <2>1. ASSUME NEW r \in Pids PROVE k1.prioridad[r] <= k.prioridad[r]
    <3>1. k1.prioridad[r] = k.prioridad[r] \/ r = s
      BY <1>2
    <3>2. QED
      BY <1>1, <1>3, <3>1
  <2>2. QED
    BY <2>1
<1>5. Mejora(k1)
  <2>1. ASSUME NEW r \in Pids PROVE k1.prioridad[r] <= PrioridadOriginal[r]
    <3>1. k1.prioridad[r] <= k.prioridad[r] /\ k.prioridad[r] <= PrioridadOriginal[r]
      BY <1>4 DEF Mejora
    <3>2. QED
      BY <1>3, <3>1
  <2>2. QED
    BY <2>1 DEF Mejora
<1>6. ASSUME NEW x \in Mutexes, k1.pid_dueno[x] # Nadie, k1.estado[k1.pid_dueno[x]] # "EXIT",
             NEW w \in Pids, Tiene(k1.cola_espera[x], w)
      PROVE  k1.prioridad[k1.pid_dueno[x]] <= PrioridadOriginal[w]
  <2> DEFINE d == k1.pid_dueno[x]
  <2>1. d = k.pid_dueno[x] /\ d \in Pids /\ Tiene(k.cola_espera[x], w)
    BY <1>2, <1>6 DEF TipoKs
  <2>2. CASE x = m
    <3>1. k1.prioridad[s] <= k.prioridad[w] /\ d = s
      BY <1>1, <2>1, <2>2, EsperanEs
    <3>2. k.prioridad[w] <= PrioridadOriginal[w]
      BY DEF Mejora
    <3> HIDE DEF d
    <3>3. k1.prioridad[d] <= PrioridadOriginal[w]
      BY <1>3, <3>1, <3>2
    <3>4. QED
      BY <3>3 DEF d
  <2>3. CASE x # m
    <3>1. k.prioridad[d] <= PrioridadOriginal[w]
      BY <1>2, <1>6, <2>1, <2>3 DEF Alcanza
    <3>2. k1.prioridad[d] <= k.prioridad[d]
      BY <1>4, <2>1
    <3> HIDE DEF d
    <3>3. k1.prioridad[d] <= PrioridadOriginal[w]
      BY <1>3, <2>1, <3>1, <3>2
    <3>4. QED
      BY <3>3 DEF d
  <2>4. QED
    BY <2>2, <2>3
<1>7. \A x \in Mutexes : Alcanza(k1, x)
  BY <1>6 DEF Alcanza
<1>8. QED
  BY <1>5, <1>7 DEF k1

\* devolver_prioridad: p is as good as those that wait for what it still owns.
LEMMA DevuelveAlcanza ==
  ASSUME NEW k \in TipoKs(Cpus), ListasBien(k), NEW p \in Pids, k.estado[p] # "READY",
         NEW m \in Mutexes, Mejora(k), \A x \in Mutexes : x # m => Alcanza(k, x),
         \A x \in Mutexes : k.pid_dueno[x] # Nadie => Tiene(k.lista_mutex, x)
  PROVE  LET k1 == DevolverPrioridad(k, p) IN
         Mejora(k1) /\ \A x \in Mutexes : x # m => Alcanza(k1, x)
<1> DEFINE k1 == DevolverPrioridad(k, p)
<1>1. /\ SoloPrioridad(k, k1, p) /\ k1.prioridad[p] <= PrioridadOriginal[p]
      /\ \A x \in Mutexes : Tiene(k.lista_mutex, x) /\ k.pid_dueno[x] = p =>
           \A w \in Esperan(k, x) : k1.prioridad[p] <= k.prioridad[w]
  BY DevolverKs
<1> HIDE DEF k1
<1>2. /\ k1.estado = k.estado /\ k1.pid_dueno = k.pid_dueno /\ k1.cola_espera = k.cola_espera
      /\ \A r \in Pids : r # p => k1.prioridad[r] = k.prioridad[r]
  BY <1>1 DEF SoloPrioridad
<1>3. \A r \in Pids : /\ k.prioridad[r] \in Nat /\ k1.prioridad[r] \in Nat
                      /\ PrioridadOriginal[r] \in Nat
  <2>1. ASSUME NEW r \in Pids
        PROVE  k.prioridad[r] \in Colas /\ k1.prioridad[r] \in Colas /\ PrioridadOriginal[r] \in Colas
    BY <1>1, ProcesosOK DEF TipoKs, SoloPrioridad
  <2>2. Colas \subseteq Nat
    BY ProcesosOK
  <2>3. QED
    BY <2>1, <2>2
<1>4. Mejora(k1)
  BY <1>1, <1>2 DEF Mejora
<1>5. ASSUME NEW x \in Mutexes, x # m, k1.pid_dueno[x] # Nadie,
             k1.estado[k1.pid_dueno[x]] # "EXIT", NEW w \in Pids, Tiene(k1.cola_espera[x], w)
      PROVE  k1.prioridad[k1.pid_dueno[x]] <= PrioridadOriginal[w]
  <2> DEFINE d == k1.pid_dueno[x]
  <2>1. d = k.pid_dueno[x] /\ d \in Pids /\ Tiene(k.cola_espera[x], w)
    BY <1>2, <1>5 DEF TipoKs
  <2>2. CASE d = p
    <3>1. k1.prioridad[p] <= k.prioridad[w]
      BY <1>1, <1>5, <2>1, <2>2, EsperanEs
    <3>2. k.prioridad[w] <= PrioridadOriginal[w]
      BY DEF Mejora
    <3> HIDE DEF d
    <3>3. k1.prioridad[d] <= PrioridadOriginal[w]
      BY <1>3, <2>2, <3>1, <3>2
    <3>4. QED
      BY <3>3 DEF d
  <2>3. CASE d # p
    <3>1. k.prioridad[d] <= PrioridadOriginal[w]
      BY <1>2, <1>5, <2>1 DEF Alcanza
    <3>2. k1.prioridad[d] = k.prioridad[d]
      BY <1>2, <2>1, <2>3
    <3> HIDE DEF d
    <3>3. QED
      BY <3>1, <3>2 DEF d
  <2>4. QED
    BY <2>2, <2>3
<1>6. \A x \in Mutexes : x # m => Alcanza(k1, x)
  BY <1>5 DEF Alcanza
<1>7. QED
  BY <1>4, <1>6 DEF k1

\* A priority better than the own one comes from somebody that waits for a mutex of
\* the process.
Vuelve(k, r) ==
  k.estado[r] # "EXIT" /\ k.prioridad[r] # PrioridadOriginal[r] =>
    \E x \in Mutexes : /\ k.pid_dueno[x] = r
                       /\ \E w \in Pids : Tiene(k.cola_espera[x], w) /\ k.prioridad[w] <= k.prioridad[r]

\* aplicar_herencia keeps that of every process.
LEMMA AplicaVuelve ==
  ASSUME NEW k \in TipoKs(Cpus), ListasBien(k), NEW s \in Pids, NEW m \in Mutexes,
         k.pid_dueno[m] = s, NEW r \in Pids, Vuelve(k, r)
  PROVE  Vuelve(AplicarHerencia(k, s, m), r)
<1> DEFINE k1 == AplicarHerencia(k, s, m)
<1>1. /\ SoloPrioridad(k, k1, s) /\ k1.prioridad[s] <= k.prioridad[s]
      /\ \/ k1.prioridad[s] = k.prioridad[s]
         \/ \E w \in Esperan(k, m) : k1.prioridad[s] = k.prioridad[w]
  BY HerenciaKs
<1> HIDE DEF k1
<1>2. /\ k1.estado = k.estado /\ k1.pid_dueno = k.pid_dueno /\ k1.cola_espera = k.cola_espera
      /\ \A q \in Pids : q # s => k1.prioridad[q] = k.prioridad[q]
  BY <1>1 DEF SoloPrioridad
<1>3. \A q \in Pids : k.prioridad[q] \in Nat /\ k1.prioridad[q] \in Nat
  <2>1. ASSUME NEW q \in Pids PROVE k.prioridad[q] \in Colas /\ k1.prioridad[q] \in Colas
    BY <1>1 DEF TipoKs, SoloPrioridad
  <2>2. Colas \subseteq Nat
    BY ProcesosOK
  <2>3. QED
    BY <2>1, <2>2
<1>4. \A q \in Pids : k1.prioridad[q] <= k.prioridad[q]
  <2>1. ASSUME NEW q \in Pids PROVE k1.prioridad[q] <= k.prioridad[q]
    <3>1. k1.prioridad[q] = k.prioridad[q] \/ q = s
      BY <1>2
    <3>2. QED
      BY <1>1, <1>3, <3>1
  <2>2. QED
    BY <2>1
<1>5. CASE k1.prioridad[r] = k.prioridad[r]
  <2>1. SUFFICES ASSUME k1.estado[r] # "EXIT", k1.prioridad[r] # PrioridadOriginal[r]
                 PROVE  \E x \in Mutexes : /\ k1.pid_dueno[x] = r
                          /\ \E w \in Pids : Tiene(k1.cola_espera[x], w) /\ k1.prioridad[w] <= k1.prioridad[r]
    BY DEF Vuelve, k1
  <2>2. PICK x \in Mutexes, w \in Pids : /\ k.pid_dueno[x] = r
                                         /\ Tiene(k.cola_espera[x], w)
                                         /\ k.prioridad[w] <= k.prioridad[r]
    BY <1>2, <1>5, <2>1 DEF Vuelve
  <2>3. k1.prioridad[w] <= k1.prioridad[r]
    BY <1>3, <1>4, <1>5, <2>2
  <2>4. QED
    BY <1>2, <2>2, <2>3
<1>6. CASE k1.prioridad[r] # k.prioridad[r]
  <2>1. r = s
    BY <1>2, <1>6
  <2>2. PICK w \in Esperan(k, m) : k1.prioridad[s] = k.prioridad[w]
    BY <1>1, <1>6, <2>1
  <2>3. w \in Pids /\ Tiene(k.cola_espera[m], w)
    BY EsperanEs
  <2>4. k1.prioridad[w] <= k1.prioridad[r]
    BY <1>3, <1>4, <2>1, <2>2, <2>3
  <2>5. QED
    BY <1>2, <2>1, <2>3, <2>4 DEF Vuelve, k1
<1>7. QED
  BY <1>5, <1>6

\* devolver_prioridad of a process that waits for no mutex.
LEMMA DevuelveVuelve ==
  ASSUME NEW k \in TipoKs(Cpus), ListasBien(k), NEW p \in Pids, k.estado[p] # "READY",
         \A x \in Mutexes : ~ Tiene(k.cola_espera[x], p),
         NEW r \in Pids, r # p => Vuelve(k, r)
  PROVE  Vuelve(DevolverPrioridad(k, p), r)
<1> DEFINE k1 == DevolverPrioridad(k, p)
<1>1. /\ SoloPrioridad(k, k1, p)
      /\ \/ k1.prioridad[p] = PrioridadOriginal[p]
         \/ \E m \in Mutexes : /\ k.pid_dueno[m] = p
                               /\ \E w \in Esperan(k, m) : k1.prioridad[p] = k.prioridad[w]
  BY DevolverKs
<1> HIDE DEF k1
<1>2. /\ k1.estado = k.estado /\ k1.pid_dueno = k.pid_dueno /\ k1.cola_espera = k.cola_espera
      /\ \A q \in Pids : q # p => k1.prioridad[q] = k.prioridad[q]
  BY <1>1 DEF SoloPrioridad
<1>3. \A q \in Pids : k.prioridad[q] \in Nat
  <2>1. ASSUME NEW q \in Pids PROVE k.prioridad[q] \in Colas
    BY DEF TipoKs
  <2>2. Colas \subseteq Nat
    BY ProcesosOK
  <2>3. QED
    BY <2>1, <2>2
<1>4. CASE r # p
  BY <1>2, <1>4 DEF Vuelve, k1
<1>5. CASE r = p /\ k1.prioridad[p] # PrioridadOriginal[p]
  <2>0. PICK m \in Mutexes : /\ k.pid_dueno[m] = p
                            /\ \E w \in Esperan(k, m) : k1.prioridad[p] = k.prioridad[w]
    BY <1>1, <1>5
  <2>1. PICK w \in Esperan(k, m) : k1.prioridad[p] = k.prioridad[w]
    BY <2>0
  <2>2. w \in Pids /\ Tiene(k.cola_espera[m], w) /\ w # p
    BY EsperanEs
  <2>3. k1.prioridad[w] <= k1.prioridad[p]
    BY <1>2, <1>3, <2>1, <2>2
  <2>4. QED
    BY <1>2, <1>5, <2>0, <2>2, <2>3 DEF Vuelve, k1
<1>6. CASE r = p /\ k1.prioridad[p] = PrioridadOriginal[p]
  BY <1>6 DEF Vuelve, k1
<1>7. QED
  BY <1>4, <1>5, <1>6

\* Mutex m goes from its owner to s, the first that waits; priorities and the timer
\* of s apart, nothing else changes.
Traspaso(k, k1, m, s) ==
  /\ k1 \in TipoKs(Cpus) /\ ListasBien(k1)
  /\ k1.estado = k.estado /\ k1.exec = k.exec /\ k1.cpu = k.cpu
  /\ k1.cpus_libres = k.cpus_libres /\ k1.lista_mutex = k.lista_mutex /\ k1.cola_io = k.cola_io
  /\ k1.pid_dueno = [k.pid_dueno EXCEPT ![m] = s]
  /\ k1.cola_espera = [k.cola_espera EXCEPT ![m] = Tail(k.cola_espera[m])]
  /\ \A r \in Pids : r # s => k1.timer[r] = k.timer[r]

\* The first that waits owns the mutex.
LEMMA CederKs ==
  ASSUME NEW k \in TipoKs(Cpus), ListasBien(k), NEW m \in Mutexes, k.cola_espera[m] # <<>>
  PROVE  LET k1 == Ceder(k, m)
             s == Head(k.cola_espera[m]) IN
         /\ s \in Pids /\ Traspaso(k, k1, m, s) /\ k1.prioridad = k.prioridad
<1> DEFINE s == Head(k.cola_espera[m])
           t == Tail(k.cola_espera[m])
           k1 == Ceder(k, m)
<1>1. s \in Pids /\ t \in Seq(Pids)
  <2>1. k.cola_espera[m] \in Seq(Pids)
    BY DEF TipoKs
  <2>2. QED
    BY <2>1, HeadTailProperties
<1>2. k1 = [k EXCEPT !.pid_dueno[m] = s, !.cola_espera[m] = t]
  BY DEF Ceder
<1> HIDE DEF s, t, k1
<1>3. /\ k1 \in TipoKs(Cpus) /\ k1.estado = k.estado
      /\ k1.exec = k.exec /\ k1.block = k.block /\ k1.susp_block = k.susp_block
      /\ k1.susp_ready = k.susp_ready /\ k1.colas_ready = k.colas_ready
      /\ k1.cpu = k.cpu /\ k1.timer = k.timer /\ k1.cpus_libres = k.cpus_libres
      /\ k1.prioridad = k.prioridad
  BY <1>1, <1>2 DEF TipoKs
<1>4. /\ k1.lista_mutex = k.lista_mutex /\ k1.cola_io = k.cola_io
      /\ k1.pid_dueno = [k.pid_dueno EXCEPT ![m] = s]
      /\ k1.cola_espera = [k.cola_espera EXCEPT ![m] = t]
  BY <1>2 DEF TipoKs
<1>5. ListasBien(k1)
  BY <1>3 DEF ListasBien
<1>6. QED
  BY <1>1, <1>3, <1>4, <1>5 DEF Traspaso, s, t, k1

\* The priority of the new owner, or of the old one, and the timer of the new one.
LEMMA TraspasoSigue ==
  ASSUME NEW k, NEW k1, NEW m \in Mutexes, NEW s \in Pids, Traspaso(k, k1, m, s)
  PROVE  /\ \A k2, p : SoloPrioridad(k1, k2, p) => Traspaso(k, k2, m, s)
         /\ LET k2 == CancelarTimer(k1, s) IN
            /\ Traspaso(k, k2, m, s) /\ k2.prioridad = k1.prioridad /\ ~ k2.timer[s]
<1>1. \A k2, p : SoloPrioridad(k1, k2, p) => Traspaso(k, k2, m, s)
  BY DEF SoloPrioridad, Traspaso
<1> DEFINE k2 == CancelarTimer(k1, s)
<1>2. k1 \in TipoKs(Cpus) /\ ListasBien(k1)
  BY DEF Traspaso
<1>3. /\ k2 \in TipoKs(Cpus) /\ k2.estado = k1.estado
      /\ k2.exec = k1.exec /\ k2.block = k1.block /\ k2.susp_block = k1.susp_block
      /\ k2.susp_ready = k1.susp_ready /\ k2.colas_ready = k1.colas_ready
      /\ k2.cpu = k1.cpu /\ k2.timer = [k1.timer EXCEPT ![s] = FALSE]
      /\ k2.cpus_libres = k1.cpus_libres
      /\ Quieto(k1, k2)
  BY <1>2, CancelarCampos
<1> HIDE DEF k2
<1>4. ListasBien(k2) /\ k2.prioridad = k1.prioridad
  BY <1>2, <1>3 DEF ListasBien, Quieto
<1>5. ~ k2.timer[s] /\ \A r \in Pids : r # s => k2.timer[r] = k1.timer[r]
  BY <1>2, <1>3 DEF TipoKs
<1>6. Traspaso(k, k2, m, s)
  BY <1>3, <1>4, <1>5 DEF Traspaso, Quieto
<1>7. QED
  BY <1>1, <1>4, <1>5, <1>6 DEF k2

\* What is left of the queue of m, and of the others.
LEMMA TraspasoColas ==
  ASSUME NEW k \in TipoKs(Cpus), NEW k1, NEW m \in Mutexes, k.cola_espera[m] # <<>>,
         NEW s \in Pids, s = Head(k.cola_espera[m]), Traspaso(k, k1, m, s)
  PROVE  /\ \A x \in Mutexes : k1.pid_dueno[x] = IF x = m THEN s ELSE k.pid_dueno[x]
         /\ \A x \in Mutexes : x # m => k1.cola_espera[x] = k.cola_espera[x]
         /\ \A y : Tiene(k.cola_espera[m], y) <=> y = s \/ Tiene(k1.cola_espera[m], y)
         /\ Distintos(k.cola_espera[m]) =>
              Distintos(k1.cola_espera[m]) /\ ~ Tiene(k1.cola_espera[m], s)
<1>1. k.cola_espera[m] \in Seq(Pids)
  BY DEF TipoKs
<1>2. /\ k1.cola_espera[m] = Tail(k.cola_espera[m])
      /\ \A x \in Mutexes : k1.pid_dueno[x] = IF x = m THEN s ELSE k.pid_dueno[x]
      /\ \A x \in Mutexes : x # m => k1.cola_espera[x] = k.cola_espera[x]
  BY DEF Traspaso, TipoKs
<1>3. /\ \A y : Tiene(k.cola_espera[m], y) <=> y = s \/ Tiene(Tail(k.cola_espera[m]), y)
      /\ Distintos(k.cola_espera[m]) =>
           Distintos(Tail(k.cola_espera[m])) /\ ~ Tiene(Tail(k.cola_espera[m]), s)
  BY <1>1, TieneQuitado
<1>4. QED
  BY <1>2, <1>3

\* A process that is in the queue of a mutex has no other waker, and waits or is
\* about to.
LEMMA EsperaMutex ==
  ASSUME NEW k, NEW h, NEW g, EsperasBien(k, h, g), NEW s \in Pids, NEW m \in Mutexes,
         Tiene(k.cola_espera[m], s)
  PROVE  /\ \A x \in Mutexes : Tiene(k.cola_espera[x], s) => x = m
         /\ \A t \in TiposIo : ~ Tiene(k.cola_io[t], s)
         /\ \A d \in Ios : g[d].pid # s
         /\ \A c \in Cpus : ~ HiloDespierta(h[c], s)
         /\ Espera(k, s) \/ Entra(h, s)
<1>1. <<"mutex", m>> \in Quienes(k, h, g, s)
  BY DEF Quienes
<1>2. UnoQueDespierta(k, h, g, s)
  BY DEF EsperasBien
<1>3. \A x \in Quienes(k, h, g, s) : x = <<"mutex", m>>
  BY <1>1, <1>2 DEF UnoQueDespierta
<1>4. \A x \in Mutexes : Tiene(k.cola_espera[x], s) => x = m
  <2>1. ASSUME NEW x \in Mutexes, Tiene(k.cola_espera[x], s) PROVE x = m
    <3>1. <<"mutex", x>> \in Quienes(k, h, g, s)
      BY <2>1 DEF Quienes
    <3>2. <<"mutex", x>> = <<"mutex", m>>
      BY <1>3, <3>1
    <3>3. QED
      BY <3>2
  <2>2. QED
    BY <2>1
<1>5. \A t \in TiposIo : ~ Tiene(k.cola_io[t], s)
  <2>1. ASSUME NEW t \in TiposIo, Tiene(k.cola_io[t], s) PROVE FALSE
    <3>1. <<"io", t>> \in Quienes(k, h, g, s)
      BY <2>1 DEF Quienes
    <3>2. <<"io", t>> = <<"mutex", m>>
      BY <1>3, <3>1
    <3>3. QED
      BY <3>2
  <2>2. QED
    BY <2>1
<1>6. \A d \in Ios : g[d].pid # s
  <2>1. ASSUME NEW d \in Ios, g[d].pid = s PROVE FALSE
    <3>1. <<"hilo_io", d>> \in Quienes(k, h, g, s)
      BY <2>1 DEF Quienes
    <3>2. <<"hilo_io", d>> = <<"mutex", m>>
      BY <1>3, <3>1
    <3>3. QED
      BY <3>2
  <2>2. QED
    BY <2>1
<1>7. \A c \in Cpus : ~ HiloDespierta(h[c], s)
  <2>1. ASSUME NEW c \in Cpus, HiloDespierta(h[c], s) PROVE FALSE
    <3>1. <<"hilo_cpu", c>> \in Quienes(k, h, g, s)
      BY <2>1 DEF Quienes
    <3>2. <<"hilo_cpu", c>> = <<"mutex", m>>
      BY <1>3, <3>1
    <3>3. QED
      BY <3>2
  <2>2. QED
    BY <2>1
<1>8. Espera(k, s) \/ Entra(h, s)
  BY <1>1, <1>2 DEF UnoQueDespierta
<1>9. QED
  BY <1>4, <1>5, <1>6, <1>7, <1>8

\* A process that does not wait and is not about to has no waker.
LEMMA SinQuien ==
  ASSUME NEW k \in TipoKs(Cpus), ListasBien(k), NEW h, NEW g, CpusBien(k, h),
         EsperasBien(k, h, g), NEW p \in Pids, k.estado[p] \notin {"BLOCK", "SUSP_BLOCK", "EXEC"}
  PROVE  Quienes(k, h, g, p) = {} /\ ~ Entra(h, p)
<1>1. p \notin k.exec
  BY DEF ListasBien
<1>2. ~ Entra(h, p)
  BY <1>1 DEF Entra, CpusBien, EnBloqueo
<1>3. UnoQueDespierta(k, h, g, p)
  BY DEF EsperasBien
<1>4. QED
  BY <1>2, <1>3 DEF UnoQueDespierta, Espera

\* To have no waker is to be in no queue and in no hand.
LEMMA NingunQuien ==
  ASSUME NEW k, NEW h, NEW g, NEW p, Quienes(k, h, g, p) = {}
  PROVE  /\ \A x \in Mutexes : ~ Tiene(k.cola_espera[x], p)
         /\ \A t \in TiposIo : ~ Tiene(k.cola_io[t], p)
         /\ \A d \in Ios : g[d].pid # p
         /\ \A c \in Cpus : ~ HiloDespierta(h[c], p)
BY DEF Quienes

\* What a process without wakers does is nothing to the wakers of the others.
LEMMA EsperasMueve ==
  ASSUME NEW k, NEW h, NEW g, EsperasBien(k, h, g), NEW k1, NEW h1, NEW p \in Pids,
         k1.cola_espera = k.cola_espera, k1.cola_io = k.cola_io,
         \A r \in Pids : r # p => /\ k1.estado[r] = k.estado[r] /\ (k1.timer[r] => k.timer[r])
                                  /\ Entra(h, r) => Entra(h1, r),
         Quienes(k, h, g, p) = {}, k1.timer[p] => k1.estado[p] = "BLOCK",
         \A c \in Cpus : h1[c] = h[c] \/ h1[c].pc \notin {"despertar", "pedir_io"}
  PROVE  EsperasBien(k1, h1, g)
<1>1. \A c \in Cpus : h1[c] = h[c] \/ (HiloCpuBien(k1, h1[c]) /\ \A r : ~ HiloDespierta(h1[c], r))
  BY DEF HiloCpuBien, HiloDespierta
<1>2. \A r : Quienes(k1, h1, g, r) \subseteq Quienes(k, h, g, r)
  BY <1>1, QuienesHilo
<1>3. UnoQueDespierta(k1, h1, g, p)
  BY <1>2 DEF UnoQueDespierta
<1>4. /\ \A c \in Cpus : ~ HiloDespierta(h[c], p)
      /\ \A d \in Ios : g[d].pid # p
  BY DEF Quienes
<1>5. /\ \A m \in Mutexes : Distintos(k1.cola_espera[m])
      /\ \A t \in TiposIo : Distintos(k1.cola_io[t])
  BY DEF EsperasBien
<1>6. QED
  BY <1>1, <1>2, <1>3, <1>4, <1>5, EsperasPasa

\* The queue of m without its first, whose timer has been cancelled.
LEMMA TraspasoQuienes ==
  ASSUME NEW k \in TipoKs(Cpus), NEW h, NEW g, EsperasBien(k, h, g), NEW m \in Mutexes,
         k.cola_espera[m] # <<>>, NEW s \in Pids, s = Head(k.cola_espera[m]), NEW k1,
         Traspaso(k, k1, m, s)
  PROVE  /\ Tiene(k.cola_espera[m], s)
         /\ \A x \in Mutexes : /\ ~ Tiene(k1.cola_espera[x], s)
                               /\ \A y : Tiene(k1.cola_espera[x], y) => Tiene(k.cola_espera[x], y)
         /\ \A x \in Mutexes : Distintos(k1.cola_espera[x])
         /\ k1.cola_io = k.cola_io
         /\ Quienes(k1, h, g, s) = {}
         /\ \A r : Quienes(k1, h, g, r) \subseteq Quienes(k, h, g, r)
<1>1. /\ \A x \in Mutexes : x # m => k1.cola_espera[x] = k.cola_espera[x]
      /\ \A y : Tiene(k.cola_espera[m], y) <=> y = s \/ Tiene(k1.cola_espera[m], y)
      /\ Distintos(k.cola_espera[m]) =>
           Distintos(k1.cola_espera[m]) /\ ~ Tiene(k1.cola_espera[m], s)
  BY TraspasoColas
<1>2. \A x \in Mutexes : Distintos(k.cola_espera[x])
  BY DEF EsperasBien
<1>3. Tiene(k.cola_espera[m], s)
  BY <1>1
<1>4. /\ \A x \in Mutexes : Tiene(k.cola_espera[x], s) => x = m
      /\ \A t \in TiposIo : ~ Tiene(k.cola_io[t], s)
      /\ \A d \in Ios : g[d].pid # s
      /\ \A c \in Cpus : ~ HiloDespierta(h[c], s)
  BY <1>3, EsperaMutex
<1>5. k1.cola_io = k.cola_io
  BY DEF Traspaso
<1>6. \A x \in Mutexes : /\ ~ Tiene(k1.cola_espera[x], s)
                         /\ \A y : Tiene(k1.cola_espera[x], y) => Tiene(k.cola_espera[x], y)
  BY <1>1, <1>2, <1>4
<1>7. \A x \in Mutexes : Distintos(k1.cola_espera[x])
  BY <1>1, <1>2
<1>8. Quienes(k1, h, g, s) = {}
  BY <1>4, <1>5, <1>6 DEF Quienes
<1>9. \A r : Quienes(k1, h, g, r) \subseteq Quienes(k, h, g, r)
  BY <1>5, <1>6 DEF Quienes
<1>10. QED
  BY <1>3, <1>5, <1>6, <1>7, <1>8, <1>9

\* The thread that passed the mutex on knows whom to wake up.
LEMMA EsperasCede ==
  ASSUME NEW k \in TipoKs(Cpus), NEW h, NEW g, EsperasBien(k, h, g), NEW m \in Mutexes,
         k.cola_espera[m] # <<>>, NEW s \in Pids, s = Head(k.cola_espera[m]), NEW k1,
         Traspaso(k, k1, m, s), ~ k1.timer[s], NEW h1, NEW c \in Cpus, h[c].pc = "recibir",
         \A d \in Cpus : d # c => h1[d] = h[d],
         h1[c].pc = "despertar", h1[c].pid = s, h1[c].arg = k.estado[s],
         k.estado[s] \in {"BLOCK", "SUSP_BLOCK", "EXEC"}
  PROVE  EsperasBien(k1, h1, g)
<1>1. /\ \A x \in Mutexes : ~ Tiene(k1.cola_espera[x], s)
      /\ \A x \in Mutexes : Distintos(k1.cola_espera[x])
      /\ k1.cola_io = k.cola_io
      /\ Quienes(k1, h, g, s) = {}
      /\ \A r : Quienes(k1, h, g, r) \subseteq Quienes(k, h, g, r)
  BY TraspasoQuienes
<1>2. k1.estado = k.estado /\ \A r \in Pids : r # s => k1.timer[r] = k.timer[r]
  BY DEF Traspaso
<1>3. ASSUME NEW r \in Pids, r # s
      PROVE  Quienes(k1, h1, g, r) \subseteq Quienes(k, h, g, r) /\ (Entra(h, r) => Entra(h1, r))
  <2>1. \A d \in Cpus : h1[d] = h[d] \/ ~ HiloDespierta(h1[d], r)
    BY <1>3 DEF HiloDespierta
  <2>2. Quienes(k1, h1, g, r) \subseteq Quienes(k1, h, g, r)
    BY <2>1, QuienesHilo
  <2>3. Entra(h, r) => Entra(h1, r)
    BY DEF Entra
  <2>4. QED
    BY <1>1, <2>2, <2>3
<1>4. \A x \in Quienes(k1, h1, g, s) : x = <<"hilo_cpu", c>> /\ k.estado[s] # "EXEC"
  <2>1. /\ \A x \in Mutexes : ~ Tiene(k1.cola_espera[x], s)
        /\ \A t \in TiposIo : ~ Tiene(k1.cola_io[t], s)
        /\ \A d \in Ios : g[d].pid # s
        /\ \A d \in Cpus : ~ HiloDespierta(h[d], s)
    BY <1>1, NingunQuien
  <2>2. \A d \in Cpus : HiloDespierta(h1[d], s) => d = c /\ k.estado[s] # "EXEC"
    BY <2>1 DEF HiloDespierta
  <2>3. QED
    BY <2>1, <2>2 DEF Quienes
<1>5. UnoQueDespierta(k1, h1, g, s)
  BY <1>2, <1>4 DEF UnoQueDespierta, Espera
<1>6. \A d \in Cpus : HiloCpuBien(k1, h1[d]) \/ (h1[d] = h[d] /\ ~ HiloDespierta(h[d], s))
  <2>1. HiloCpuBien(k1, h1[c])
    BY <1>2 DEF HiloCpuBien, Vigente
  <2>2. \A d \in Cpus : ~ HiloDespierta(h[d], s)
    BY <1>1, NingunQuien
  <2>3. QED
    BY <2>1, <2>2
<1>7. \A d \in Ios : g[d].pid # s
  BY <1>1, NingunQuien
<1>8. \A t \in TiposIo : Distintos(k1.cola_io[t])
  BY <1>1 DEF EsperasBien
<1>9. QED
  BY <1>1, <1>2, <1>3, <1>5, <1>6, <1>7, <1>8, EsperasPasa

-----------------------------------------------------------------------------
(* The steps of the threads.                                                *)

\* All of it, of a record k, threads h of the CPUs and threads g of the devices.
Bien(k, h, g) ==
  /\ k \in TipoKs(Cpus) /\ ListasBien(k) /\ CpusBien(k, h)
  /\ EsperasBien(k, h, g) /\ MutexBien(k, h)

\* The same threads end processes, and p has not ended.
LEMMA TerminadosMueve ==
  ASSUME NEW k, NEW k1, NEW h, NEW h1, NEW p \in Pids, k.estado[p] # "EXIT",
         \A r \in Pids : r # p => k1.estado[r] = k.estado[r],
         k1.estado[p] = "EXIT" => Cerrado(h1, p),
         \A c \in Cpus : Cierra(h[c]) => Cierra(h1[c]) /\ h1[c].pid = h[c].pid
  PROVE  Terminados(k, h, k1, h1)
<1>1. \A r : Cerrado(h, r) => Cerrado(h1, r)
  BY DEF Cerrado
<1>2. QED
  BY <1>1 DEF Terminados

\* planificador_corto_plazo.
LEMMA PlanificaBien ==
  ASSUME NEW k, NEW h, NEW g, Bien(k, h, g), ConProcesos(k) # {}, k.cpus_libres # <<>>,
         k.sem_ready > 0
  PROVE  LET k1 == Planificar(k)
             p == Head(k.colas_ready[Min(ConProcesos(k))]) IN
         /\ Bien(k1, h, g) /\ p \in Pids /\ k.estado[p] = "READY" /\ Mueve(k, k1, p, "EXEC")
<1> DEFINE k1 == Planificar(k)
           p == Head(k.colas_ready[Min(ConProcesos(k))])
<1>1. k \in TipoKs(Cpus) /\ ListasBien(k) /\ CpusBien(k, h) /\ EsperasBien(k, h, g) /\ MutexBien(k, h)
  BY DEF Bien
<1>2. /\ p \in Pids /\ k.estado[p] = "READY"
      /\ Mueve(k, k1, p, "EXEC") /\ k1.exec = k.exec \cup {p} /\ k1.timer = k.timer
      /\ k1.cpu[p] = Head(k.cpus_libres) /\ k1.cpus_libres = Tail(k.cpus_libres)
  BY <1>1, PlanificarKs
<1> HIDE DEF k1, p
<1>3. /\ k1 \in TipoKs(Cpus) /\ ListasBien(k1) /\ Quieto(k, k1)
      /\ k1.estado = [k.estado EXCEPT ![p] = "EXEC"]
      /\ \A r \in Pids : r # p => k1.cpu[r] = k.cpu[r]
  BY <1>2 DEF Mueve
<1>4. \A r \in Pids : k1.estado[r] = IF r = p THEN "EXEC" ELSE k.estado[r]
  BY <1>1, <1>3 DEF TipoKs
<1>5. p \notin k.exec
  BY <1>1, <1>2 DEF ListasBien
<1>6. CpusBien(k1, h)
  <2> DEFINE c == Head(k.cpus_libres)
  <2>1. c = Head(k.cpus_libres) /\ k1.cpu[p] = c /\ k1.cpus_libres = Tail(k.cpus_libres)
    BY <1>2
  <2>2. p \in Pids /\ k.estado[p] # "EXIT" /\ k1.exec = k.exec \cup {p}
    BY <1>2
  <2>3. \A r \in Pids : r # p => k1.cpu[r] = k.cpu[r] /\ k1.estado[r] = k.estado[r]
    BY <1>3, <1>4
  <2> HIDE DEF c
  <2>4. QED
    BY <1>1, <1>5, <2>1, <2>2, <2>3, CpusElige
<1>7. EsperasBien(k1, h, g)
  <2>1. Quienes(k, h, g, p) = {}
    BY <1>1, <1>2, SinQuien
  <2>2. ~ k.timer[p]
    BY <1>1, <1>2 DEF EsperasBien, UnoQueDespierta
  <2>3. k1.cola_espera = k.cola_espera /\ k1.cola_io = k.cola_io
    BY <1>3 DEF Quieto
  <2>4. QED
    BY <1>1, <1>2, <1>4, <2>1, <2>2, <2>3, EsperasMueve
<1>8. MutexBien(k1, h)
  <2>1. Terminados(k, h, k1, h)
    BY <1>2, <1>4, TerminadosMueve
  <2>2. QED
    BY <1>1, <1>3, <2>1, MutexIgual
<1>9. QED
  BY <1>2, <1>3, <1>6, <1>7, <1>8 DEF Bien, k1, p

\* manejar_fin_quantum.
LEMMA FinQuantumBien ==
  ASSUME NEW k, NEW h, NEW g, Bien(k, h, g), NEW c \in Cpus, NEW p \in Pids,
         h[c].pc = "recibir", k.cpu[p] = c, p \in k.exec
  PROVE  LET k1 == LiberarCpu(Encolar(SacarDeExec(k, p, "READY"), p), c) IN
         Bien(k1, h, g) /\ k.estado[p] = "EXEC" /\ Mueve(k, k1, p, "READY")
<1> DEFINE k1 == LiberarCpu(Encolar(SacarDeExec(k, p, "READY"), p), c)
<1>1. k \in TipoKs(Cpus) /\ ListasBien(k) /\ CpusBien(k, h) /\ EsperasBien(k, h, g) /\ MutexBien(k, h)
  BY DEF Bien
<1>2. Quienes(k, h, g, p) = {} /\ k.estado[p] = "EXEC" /\ ~ k.timer[p]
  BY <1>1, CorreSinQuien
<1>3. /\ Mueve(k, k1, p, "READY") /\ k1.exec = k.exec \ {p} /\ k1.timer = k.timer
      /\ k1.cpus_libres = Append(k.cpus_libres, c)
  BY <1>1, <1>2, FinQuantumKs
<1> HIDE DEF k1
<1>4. /\ k1 \in TipoKs(Cpus) /\ ListasBien(k1) /\ Quieto(k, k1)
      /\ k1.estado = [k.estado EXCEPT ![p] = "READY"]
      /\ \A r \in Pids : r # p => k1.cpu[r] = k.cpu[r]
  BY <1>3 DEF Mueve
<1>5. \A r \in Pids : k1.estado[r] = IF r = p THEN "READY" ELSE k.estado[r]
  BY <1>1, <1>4 DEF TipoKs
<1>6. CpusBien(k1, h)
  <2>1. Neutro(h[c]) /\ k.estado[p] # "EXIT"
    BY <1>2 DEF Neutro
  <2>2. \A r \in Pids : k.estado[r] = "EXIT" => k1.estado[r] = "EXIT"
    BY <1>2, <1>5
  <2>3. k1.exec = k.exec \ {p} /\ k1.cpus_libres = Append(k.cpus_libres, c)
    BY <1>3
  <2>4. \A r \in Pids : r # p => k1.cpu[r] = k.cpu[r]
    BY <1>4
  <2>5. k \in TipoKs(Cpus) /\ CpusBien(k, h)
    BY <1>1
  <2>6. QED
    BY <2>1, <2>2, <2>3, <2>4, <2>5, CpusDeja
<1>7. EsperasBien(k1, h, g)
  <2>1. k1.cola_espera = k.cola_espera /\ k1.cola_io = k.cola_io
    BY <1>4 DEF Quieto
  <2>2. \A r \in Pids : r # p => /\ k1.estado[r] = k.estado[r] /\ (k1.timer[r] => k.timer[r])
                                 /\ Entra(h, r) => Entra(h, r)
    BY <1>3, <1>5
  <2>3. k1.timer[p] => k1.estado[p] = "BLOCK"
    BY <1>2, <1>3
  <2>4. Quienes(k, h, g, p) = {} /\ EsperasBien(k, h, g)
    BY <1>1, <1>2
  <2>5. QED
    BY <2>1, <2>2, <2>3, <2>4, EsperasMueve
<1>8. MutexBien(k1, h)
  <2>1. Terminados(k, h, k1, h)
    BY <1>2, <1>5, TerminadosMueve
  <2>2. QED
    BY <1>1, <1>4, <2>1, MutexIgual
<1>9. QED
  BY <1>2, <1>3, <1>4, <1>6, <1>7, <1>8 DEF Bien, k1

\* manejar_proceso_exit.
LEMMA ExitBien ==
  ASSUME NEW k, NEW h, NEW g, Bien(k, h, g), NEW c \in Cpus, NEW p \in Pids,
         h[c].pc = "recibir", k.cpu[p] = c, p \in k.exec, NEW h1,
         h1[c].pc = "finalizar", h1[c].pid = p, \A d \in Cpus : d # c => h1[d] = h[d]
  PROVE  LET k1 == CancelarTimer(SacarDeExec(k, p, "EXIT"), p) IN
         Bien(k1, h1, g) /\ k.estado[p] = "EXEC" /\ Mueve(k, k1, p, "EXIT")
<1> DEFINE k1 == CancelarTimer(SacarDeExec(k, p, "EXIT"), p)
<1>1. k \in TipoKs(Cpus) /\ ListasBien(k) /\ CpusBien(k, h) /\ EsperasBien(k, h, g) /\ MutexBien(k, h)
  BY DEF Bien
<1>2. Quienes(k, h, g, p) = {} /\ k.estado[p] = "EXEC" /\ ~ k.timer[p]
  BY <1>1, CorreSinQuien
<1>3. /\ Mueve(k, k1, p, "EXIT") /\ k1.exec = k.exec \ {p} /\ k1.timer[p] = FALSE
      /\ k1.cpus_libres = k.cpus_libres
  BY <1>1, <1>2, ExitKs
<1> HIDE DEF k1
<1>4. /\ k1 \in TipoKs(Cpus) /\ ListasBien(k1) /\ Quieto(k, k1)
      /\ k1.estado = [k.estado EXCEPT ![p] = "EXIT"]
      /\ \A r \in Pids : r # p => k1.cpu[r] = k.cpu[r] /\ k1.timer[r] = k.timer[r]
  BY <1>3 DEF Mueve
<1>5. \A r \in Pids : k1.estado[r] = IF r = p THEN "EXIT" ELSE k.estado[r]
  BY <1>1, <1>4 DEF TipoKs
<1>6. CpusBien(k1, h1)
  <2>1. \A r \in Pids : k.estado[r] = "EXIT" => k1.estado[r] = "EXIT"
    BY <1>5
  <2>2. k.estado[p] # "EXIT" /\ k1.estado[p] = "EXIT"
    BY <1>2, <1>5
  <2>3. k1.exec = k.exec \ {p} /\ k1.cpus_libres = k.cpus_libres
    BY <1>3
  <2>4. \A r \in Pids : r # p => k1.cpu[r] = k.cpu[r]
    BY <1>4
  <2>5. k \in TipoKs(Cpus) /\ CpusBien(k, h)
    BY <1>1
  <2>6. QED
    BY <2>1, <2>2, <2>3, <2>4, <2>5, CpusDeja
<1>7. EsperasBien(k1, h1, g)
  <2>1. k1.cola_espera = k.cola_espera /\ k1.cola_io = k.cola_io
    BY <1>4 DEF Quieto
  <2>2. \A r : Entra(h, r) => Entra(h1, r)
    BY DEF Entra
  <2>3. \A d \in Cpus : h1[d] = h[d] \/ h1[d].pc \notin {"despertar", "pedir_io"}
    OBVIOUS
  <2>4. \A r \in Pids : r # p => /\ k1.estado[r] = k.estado[r] /\ (k1.timer[r] => k.timer[r])
                                 /\ Entra(h, r) => Entra(h1, r)
    BY <1>4, <1>5, <2>2
  <2>5. QED
    BY <1>1, <1>2, <1>3, <2>1, <2>3, <2>4, EsperasMueve
<1>8. MutexBien(k1, h1)
  <2>1. Cerrado(h1, p)
    BY DEF Cerrado, Cierra
  <2>2. \A d \in Cpus : Cierra(h[d]) => Cierra(h1[d]) /\ h1[d].pid = h[d].pid
    BY DEF Cierra
  <2>3. Terminados(k, h, k1, h1)
    BY <1>2, <1>5, <2>1, <2>2, TerminadosMueve
  <2>4. QED
    BY <1>1, <1>4, <2>3, MutexIgual
<1>9. QED
  BY <1>2, <1>3, <1>4, <1>6, <1>7, <1>8 DEF Bien, k1

\* bloquear_proceso frees the CPU of p.
LEMMA CpusBloquea ==
  ASSUME NEW k \in TipoKs(Cpus), NEW h, CpusBien(k, h), NEW k1, NEW h1, NEW p \in Pids,
         p \in k.exec, k.estado[p] = "EXEC", NEW c \in Cpus, k.cpu[p] = c,
         Mueve(k, k1, p, "BLOCK"), k1.exec = k.exec \ {p},
         k1.cpus_libres = Append(k.cpus_libres, c), Neutro(h1[c]),
         \A d \in Cpus : d # c => h1[d] = h[d]
  PROVE  CpusBien(k1, h1)
<1>1. k1.estado = [k.estado EXCEPT ![p] = "BLOCK"] /\ \A r \in Pids : r # p => k1.cpu[r] = k.cpu[r]
  BY DEF Mueve
<1>2. \A r \in Pids : k.estado[r] = "EXIT" => k1.estado[r] = "EXIT"
  BY <1>1 DEF TipoKs
<1>3. k.estado[p] # "EXIT" /\ \A r \in Pids : r # p => k1.cpu[r] = k.cpu[r]
  BY <1>1
<1>4. QED
  BY <1>2, <1>3, CpusDeja

\* OP_IO_SLEEP, OP_IO_STDIN, OP_IO_STDOUT: the thread has the process in hand.
LEMMA IoBien ==
  ASSUME NEW k, NEW h, NEW g, Bien(k, h, g), NEW c \in Cpus, NEW p \in Pids,
         h[c].pc = "recibir", k.cpu[p] = c, p \in k.exec, NEW h1,
         h1[c].pc = "pedir_io", h1[c].pid = p, h1[c].arg \in TiposIo,
         \A d \in Cpus : d # c => h1[d] = h[d]
  PROVE  LET k1 == Bloquear(k, p) IN
         Bien(k1, h1, g) /\ k.estado[p] = "EXEC" /\ Mueve(k, k1, p, "BLOCK")
<1> DEFINE k1 == Bloquear(k, p)
<1>1. k \in TipoKs(Cpus) /\ ListasBien(k) /\ CpusBien(k, h) /\ EsperasBien(k, h, g) /\ MutexBien(k, h)
  BY DEF Bien
<1>2. /\ Quienes(k, h, g, p) = {} /\ k.estado[p] = "EXEC"
      /\ \A d \in Cpus : ~ HiloDespierta(h[d], p)
      /\ \A d \in Ios : g[d].pid # p
  BY <1>1, CorreSinQuien
<1>3. /\ Mueve(k, k1, p, "BLOCK") /\ k1.exec = k.exec \ {p}
      /\ k1.cpus_libres = Append(k.cpus_libres, c)
  <2>1. k.cpu[p] \in Cpus
    OBVIOUS
  <2>2. QED
    BY <1>1, <1>2, <2>1, BloquearKs
<1> HIDE DEF k1
<1>4. /\ k1 \in TipoKs(Cpus) /\ ListasBien(k1) /\ Quieto(k, k1)
      /\ k1.estado = [k.estado EXCEPT ![p] = "BLOCK"]
      /\ \A r \in Pids : r # p => k1.timer[r] = k.timer[r]
  BY <1>3 DEF Mueve
<1>5. \A r \in Pids : k1.estado[r] = IF r = p THEN "BLOCK" ELSE k.estado[r]
  BY <1>1, <1>4 DEF TipoKs
<1>6. CpusBien(k1, h1)
  <2>1. Neutro(h1[c])
    BY DEF Neutro
  <2>2. QED
    BY <1>1, <1>2, <1>3, <2>1, CpusBloquea
<1>7. EsperasBien(k1, h1, g)
  <2>1. k1.cola_espera = k.cola_espera /\ k1.cola_io = k.cola_io
    BY <1>4 DEF Quieto
  <2>2. \A r : Entra(h, r) => Entra(h1, r)
    BY DEF Entra
  <2>3. ASSUME NEW r \in Pids, r # p PROVE Quienes(k1, h1, g, r) \subseteq Quienes(k, h, g, r)
    <3>1. \A d \in Cpus : h1[d] = h[d] \/ ~ HiloDespierta(h1[d], r)
      BY <2>3 DEF HiloDespierta
    <3>2. QED
      BY <2>1, <3>1, QuienesHilo
  <2>4. UnoQueDespierta(k1, h1, g, p)
    <3>1. /\ \A x \in Mutexes : ~ Tiene(k1.cola_espera[x], p)
          /\ \A t \in TiposIo : ~ Tiene(k1.cola_io[t], p)
          /\ \A d \in Ios : g[d].pid # p
      BY <1>2, <2>1, NingunQuien
    <3>2. \A d \in Cpus : HiloDespierta(h1[d], p) => d = c
      BY <1>2
    <3>3. \A x \in Quienes(k1, h1, g, p) : x = <<"hilo_cpu", c>>
      BY <3>1, <3>2 DEF Quienes
    <3>4. QED
      BY <1>5, <3>3 DEF UnoQueDespierta, Espera
  <2>5. \A d \in Cpus : HiloCpuBien(k1, h1[d]) \/ (h1[d] = h[d] /\ ~ HiloDespierta(h[d], p))
    BY <1>2 DEF HiloCpuBien
  <2>6. /\ \A m \in Mutexes : Distintos(k1.cola_espera[m])
        /\ \A t \in TiposIo : Distintos(k1.cola_io[t])
    BY <1>1, <2>1 DEF EsperasBien
  <2>7. \A r \in Pids : r # p =>
           /\ Quienes(k1, h1, g, r) \subseteq Quienes(k, h, g, r)
           /\ k1.estado[r] = k.estado[r] /\ (k1.timer[r] => k.timer[r])
           /\ Entra(h, r) => Entra(h1, r)
    BY <1>4, <1>5, <2>2, <2>3
  <2>8. QED
    BY <1>1, <1>2, <2>4, <2>5, <2>6, <2>7, EsperasPasa
<1>8. MutexBien(k1, h1)
  <2>1. \A d \in Cpus : Cierra(h[d]) => Cierra(h1[d]) /\ h1[d].pid = h[d].pid
    BY DEF Cierra
  <2>2. Terminados(k, h, k1, h1)
    BY <1>2, <1>5, <2>1, TerminadosMueve
  <2>3. QED
    BY <1>1, <1>4, <2>2, MutexIgual
<1>9. QED
  BY <1>2, <1>3, <1>4, <1>6, <1>7, <1>8 DEF Bien, k1

\* bloquear_proceso of a MUTEX_LOCK: the mutex will wake it up, or has given up.
LEMMA BloqueaBien ==
  ASSUME NEW k, NEW h, NEW g, Bien(k, h, g), NEW c \in Cpus, h[c].pc = "bloquear", NEW h1,
         h1[c].pc = "recibir", \A d \in Cpus : d # c => h1[d] = h[d]
  PROVE  LET p == h[c].pid
             k1 == Bloquear(k, p) IN
         Bien(k1, h1, g) /\ p \in Pids /\ k.estado[p] = "EXEC" /\ Mueve(k, k1, p, "BLOCK")
<1> DEFINE p == h[c].pid
           k1 == Bloquear(k, p)
<1>1. k \in TipoKs(Cpus) /\ ListasBien(k) /\ CpusBien(k, h) /\ EsperasBien(k, h, g) /\ MutexBien(k, h)
  BY DEF Bien
<1>2. p \in k.exec /\ k.cpu[p] = c /\ p \in Pids
  BY <1>1 DEF CpusBien, EnBloqueo, TipoKs
<1>3. k.estado[p] = "EXEC"
  BY <1>1, <1>2 DEF ListasBien
<1>4. /\ Mueve(k, k1, p, "BLOCK") /\ k1.exec = k.exec \ {p}
      /\ k1.cpus_libres = Append(k.cpus_libres, c)
  BY <1>1, <1>2, <1>3, BloquearKs
<1> HIDE DEF k1, p
<1>5. /\ k1 \in TipoKs(Cpus) /\ ListasBien(k1) /\ Quieto(k, k1)
      /\ k1.estado = [k.estado EXCEPT ![p] = "BLOCK"]
      /\ \A r \in Pids : r # p => k1.timer[r] = k.timer[r]
  BY <1>4 DEF Mueve
<1>6. \A r \in Pids : k1.estado[r] = IF r = p THEN "BLOCK" ELSE k.estado[r]
  BY <1>1, <1>5 DEF TipoKs
<1>7. CpusBien(k1, h1)
  <2>1. Neutro(h1[c])
    BY DEF Neutro
  <2>2. QED
    BY <1>1, <1>2, <1>3, <1>4, <2>1, CpusBloquea
<1>8. EsperasBien(k1, h1, g)
  <2>1. k1.cola_espera = k.cola_espera /\ k1.cola_io = k.cola_io
    BY <1>5 DEF Quieto
  <2>2. \A r : r # p /\ Entra(h, r) => Entra(h1, r)
    BY DEF Entra, p
  <2>3. ASSUME NEW r \in Pids PROVE Quienes(k1, h1, g, r) \subseteq Quienes(k, h, g, r)
    <3>1. \A d \in Cpus : h1[d] = h[d] \/ ~ HiloDespierta(h1[d], r)
      BY DEF HiloDespierta
    <3>2. QED
      BY <2>1, <3>1, QuienesHilo
  <2>4. UnoQueDespierta(k, h, g, p)
    BY <1>1, <1>2 DEF EsperasBien
  <2>5. UnoQueDespierta(k1, h1, g, p)
    BY <1>2, <1>6, <2>3, <2>4 DEF UnoQueDespierta, Espera
  <2>6. \A y \in Quienes(k, h, g, p) : \E m \in Mutexes : y = <<"mutex", m>>
    BY <1>3, <2>4 DEF UnoQueDespierta, Espera
  <2>7. /\ \A d \in Cpus : ~ HiloDespierta(h[d], p)
        /\ \A d \in Ios : g[d].pid # p
    <3>1. ASSUME NEW d \in Cpus, HiloDespierta(h[d], p) PROVE FALSE
      <4>1. <<"hilo_cpu", d>> \in Quienes(k, h, g, p)
        BY <3>1 DEF Quienes
      <4>2. PICK m \in Mutexes : <<"hilo_cpu", d>> = <<"mutex", m>>
        BY <2>6, <4>1
      <4>3. QED
        BY <4>2
    <3>2. ASSUME NEW d \in Ios, g[d].pid = p PROVE FALSE
      <4>1. <<"hilo_io", d>> \in Quienes(k, h, g, p)
        BY <3>2 DEF Quienes
      <4>2. PICK m \in Mutexes : <<"hilo_io", d>> = <<"mutex", m>>
        BY <2>6, <4>1
      <4>3. QED
        BY <4>2
    <3>3. QED
      BY <3>1, <3>2
  <2>8. \A d \in Cpus : HiloCpuBien(k1, h1[d]) \/ (h1[d] = h[d] /\ ~ HiloDespierta(h[d], p))
    BY <2>7 DEF HiloCpuBien
  <2>9. /\ \A m \in Mutexes : Distintos(k1.cola_espera[m])
        /\ \A t \in TiposIo : Distintos(k1.cola_io[t])
    BY <1>1, <2>1 DEF EsperasBien
  <2>10. \A r \in Pids : r # p =>
           /\ Quienes(k1, h1, g, r) \subseteq Quienes(k, h, g, r)
           /\ k1.estado[r] = k.estado[r] /\ (k1.timer[r] => k.timer[r])
           /\ Entra(h, r) => Entra(h1, r)
    BY <1>5, <1>6, <2>2, <2>3
  <2>11. QED
    BY <1>1, <1>2, <2>5, <2>7, <2>8, <2>9, <2>10, EsperasPasa
<1>9. MutexBien(k1, h1)
  <2>1. \A d \in Cpus : Cierra(h[d]) => Cierra(h1[d]) /\ h1[d].pid = h[d].pid
    BY DEF Cierra
  <2>2. Terminados(k, h, k1, h1)
    BY <1>2, <1>3, <1>6, <2>1, TerminadosMueve
  <2>3. QED
    BY <1>1, <1>5, <2>2, MutexIgual
<1>10. QED
  BY <1>2, <1>3, <1>4, <1>5, <1>7, <1>8, <1>9 DEF Bien, k1, p

\* The waker of a process is the only one.
LEMMA QuienUnico ==
  ASSUME NEW k, NEW h, NEW g, EsperasBien(k, h, g), NEW p \in Pids, NEW z \in Quienes(k, h, g, p)
  PROVE  /\ \A x \in Mutexes : Tiene(k.cola_espera[x], p) => z = <<"mutex", x>>
         /\ \A t \in TiposIo : Tiene(k.cola_io[t], p) => z = <<"io", t>>
         /\ \A d \in Ios : g[d].pid = p => z = <<"hilo_io", d>>
         /\ \A c \in Cpus : HiloDespierta(h[c], p) => z = <<"hilo_cpu", c>>
         /\ Espera(k, p) \/ \E m \in Mutexes : z = <<"mutex", m>>
<1>1. UnoQueDespierta(k, h, g, p)
  BY DEF EsperasBien
<1>2. /\ \A y \in Quienes(k, h, g, p) : y = z
      /\ Espera(k, p) \/ \E m \in Mutexes : z = <<"mutex", m>>
  BY <1>1 DEF UnoQueDespierta
<1>3. /\ \A x \in Mutexes : Tiene(k.cola_espera[x], p) => <<"mutex", x>> \in Quienes(k, h, g, p)
      /\ \A t \in TiposIo : Tiene(k.cola_io[t], p) => <<"io", t>> \in Quienes(k, h, g, p)
      /\ \A d \in Ios : g[d].pid = p => <<"hilo_io", d>> \in Quienes(k, h, g, p)
      /\ \A c \in Cpus : HiloDespierta(h[c], p) => <<"hilo_cpu", c>> \in Quienes(k, h, g, p)
  BY DEF Quienes
<1>4. QED
  BY <1>2, <1>3

\* A process that the thread of a CPU has in hand.
LEMMA EnManoCpu ==
  ASSUME NEW k, NEW h, NEW g, EsperasBien(k, h, g), NEW p \in Pids, NEW c \in Cpus,
         HiloDespierta(h[c], p)
  PROVE  /\ \A x \in Mutexes : ~ Tiene(k.cola_espera[x], p)
         /\ \A t \in TiposIo : ~ Tiene(k.cola_io[t], p)
         /\ \A d \in Ios : g[d].pid # p
         /\ \A d \in Cpus : HiloDespierta(h[d], p) => d = c
         /\ Espera(k, p)
<1>1. <<"hilo_cpu", c>> \in Quienes(k, h, g, p)
  BY DEF Quienes
<1>2. /\ \A x \in Mutexes : Tiene(k.cola_espera[x], p) => <<"hilo_cpu", c>> = <<"mutex", x>>
      /\ \A t \in TiposIo : Tiene(k.cola_io[t], p) => <<"hilo_cpu", c>> = <<"io", t>>
      /\ \A d \in Ios : g[d].pid = p => <<"hilo_cpu", c>> = <<"hilo_io", d>>
      /\ \A d \in Cpus : HiloDespierta(h[d], p) => <<"hilo_cpu", c>> = <<"hilo_cpu", d>>
      /\ Espera(k, p) \/ \E m \in Mutexes : <<"hilo_cpu", c>> = <<"mutex", m>>
  BY <1>1, QuienUnico
<1>3. QED
  BY <1>2

\* One that the thread of a device has in hand.
LEMMA EnManoIo ==
  ASSUME NEW k, NEW h, NEW g, EsperasBien(k, h, g), NEW p \in Pids, NEW d \in Ios, g[d].pid = p
  PROVE  /\ \A x \in Mutexes : ~ Tiene(k.cola_espera[x], p)
         /\ \A t \in TiposIo : ~ Tiene(k.cola_io[t], p)
         /\ \A e \in Ios : g[e].pid = p => e = d
         /\ \A c \in Cpus : ~ HiloDespierta(h[c], p)
         /\ Espera(k, p)
<1>1. <<"hilo_io", d>> \in Quienes(k, h, g, p)
  BY DEF Quienes
<1>2. /\ \A x \in Mutexes : Tiene(k.cola_espera[x], p) => <<"hilo_io", d>> = <<"mutex", x>>
      /\ \A t \in TiposIo : Tiene(k.cola_io[t], p) => <<"hilo_io", d>> = <<"io", t>>
      /\ \A e \in Ios : g[e].pid = p => <<"hilo_io", d>> = <<"hilo_io", e>>
      /\ \A c \in Cpus : HiloDespierta(h[c], p) => <<"hilo_io", d>> = <<"hilo_cpu", c>>
      /\ Espera(k, p) \/ \E m \in Mutexes : <<"hilo_io", d>> = <<"mutex", m>>
  BY <1>1, QuienUnico
<1>3. QED
  BY <1>2

\* One that is in the queue of the devices of a kind.
LEMMA EnColaIo ==
  ASSUME NEW k, NEW h, NEW g, EsperasBien(k, h, g), NEW p \in Pids, NEW t \in TiposIo,
         Tiene(k.cola_io[t], p)
  PROVE  /\ \A x \in Mutexes : ~ Tiene(k.cola_espera[x], p)
         /\ \A u \in TiposIo : Tiene(k.cola_io[u], p) => u = t
         /\ \A d \in Ios : g[d].pid # p
         /\ \A c \in Cpus : ~ HiloDespierta(h[c], p)
         /\ Espera(k, p)
<1>1. <<"io", t>> \in Quienes(k, h, g, p)
  BY DEF Quienes
<1>2. /\ \A x \in Mutexes : Tiene(k.cola_espera[x], p) => <<"io", t>> = <<"mutex", x>>
      /\ \A u \in TiposIo : Tiene(k.cola_io[u], p) => <<"io", t>> = <<"io", u>>
      /\ \A d \in Ios : g[d].pid = p => <<"io", t>> = <<"hilo_io", d>>
      /\ \A c \in Cpus : HiloDespierta(h[c], p) => <<"io", t>> = <<"hilo_cpu", c>>
      /\ Espera(k, p) \/ \E m \in Mutexes : <<"io", t>> = <<"mutex", m>>
  BY <1>1, QuienUnico
<1>3. QED
  BY <1>2

\* The queue of the devices of a kind changes.
LEMMA ColaIoKs ==
  ASSUME NEW k \in TipoKs(Cpus), ListasBien(k), NEW t \in TiposIo, NEW s \in Seq(Pids)
  PROVE  LET k1 == [k EXCEPT !.cola_io[t] = s] IN
         /\ k1 \in TipoKs(Cpus) /\ ListasBien(k1)
         /\ k1.estado = k.estado /\ k1.exec = k.exec /\ k1.cpu = k.cpu /\ k1.timer = k.timer
         /\ k1.cpus_libres = k.cpus_libres /\ k1.prioridad = k.prioridad
         /\ k1.lista_mutex = k.lista_mutex /\ k1.pid_dueno = k.pid_dueno
         /\ k1.cola_espera = k.cola_espera
         /\ \A u \in TiposIo : k1.cola_io[u] = IF u = t THEN s ELSE k.cola_io[u]
<1> DEFINE k1 == [k EXCEPT !.cola_io[t] = s]
<1>1. /\ k1 \in TipoKs(Cpus) /\ k1.estado = k.estado
      /\ k1.exec = k.exec /\ k1.block = k.block /\ k1.susp_block = k.susp_block
      /\ k1.susp_ready = k.susp_ready /\ k1.colas_ready = k.colas_ready
      /\ k1.cpu = k.cpu /\ k1.timer = k.timer /\ k1.cpus_libres = k.cpus_libres
      /\ k1.prioridad = k.prioridad
  BY DEF TipoKs
<1>2. /\ k1.lista_mutex = k.lista_mutex /\ k1.pid_dueno = k.pid_dueno
      /\ k1.cola_espera = k.cola_espera
      /\ \A u \in TiposIo : k1.cola_io[u] = IF u = t THEN s ELSE k.cola_io[u]
  BY DEF TipoKs
<1> HIDE DEF k1
<1>3. ListasBien(k1)
  BY <1>1 DEF ListasBien
<1>4. QED
  BY <1>1, <1>2, <1>3 DEF k1

\* Nothing of what the CPUs and the mutexes need changes.
LEMMA SinCpuNiMutex ==
  ASSUME NEW k, NEW h, NEW g, Bien(k, h, g), NEW k1, NEW h1,
         k1.estado = k.estado, k1.exec = k.exec, k1.cpu = k.cpu, k1.cpus_libres = k.cpus_libres,
         k1.prioridad = k.prioridad, k1.lista_mutex = k.lista_mutex,
         k1.pid_dueno = k.pid_dueno, k1.cola_espera = k.cola_espera,
         \A c \in Cpus : h1[c] = h[c] \/ (Neutro(h1[c]) /\ ~ Cierra(h[c]))
  PROVE  CpusBien(k1, h1) /\ MutexBien(k1, h1)
<1>1. k \in TipoKs(Cpus) /\ CpusBien(k, h) /\ MutexBien(k, h)
  BY DEF Bien
<1>2. CpusBien(k1, h1)
  <2>1. \A c \in Cpus :
           \/ h1[c] = h[c] \/ Neutro(h1[c])
           \/ h1[c].pc = "bloquear" /\ h1[c].pid \in k.exec /\ k.cpu[h1[c].pid] = c
           \/ Cierra(h[c]) /\ Cierra(h1[c]) /\ h1[c].pid = h[c].pid
    OBVIOUS
  <2>2. QED
    BY <1>1, <2>1, CpusIgual
<1>3. \A r : Cerrado(h, r) => Cerrado(h1, r)
  BY DEF Cerrado
<1>4. \A m \in Mutexes : ConDueno(k1, h1, m) /\ Alcanza(k1, m)
  BY <1>1, <1>3 DEF MutexBien, ConDueno, Alcanza
<1>5. QED
  BY <1>1, <1>2, <1>4 DEF MutexBien, Mejora

\* encolar_pedido_io: the process goes from the thread to the queue.
LEMMA EncolaIoBien ==
  ASSUME NEW k, NEW h, NEW g, Bien(k, h, g), NEW c \in Cpus, h[c].pc = "pedir_io", NEW h1,
         h1[c].pc = "recibir", \A d \in Cpus : d # c => h1[d] = h[d]
  PROVE  Bien([k EXCEPT !.cola_io[h[c].arg] = Append(@, h[c].pid)], h1, g)
<1> DEFINE p == h[c].pid
           t == h[c].arg
           s == Append(k.cola_io[t], p)
           k1 == [k EXCEPT !.cola_io[t] = s]
<1>1. k \in TipoKs(Cpus) /\ ListasBien(k) /\ EsperasBien(k, h, g)
  BY DEF Bien
<1>2. p \in Pids /\ t \in TiposIo /\ HiloDespierta(h[c], p)
  <2>1. HiloCpuBien(k, h[c])
    BY <1>1 DEF EsperasBien
  <2>2. p \in Pids /\ t \in TiposIo
    BY <2>1 DEF HiloCpuBien
  <2>3. t # "EXEC"
    BY <2>2, ProcesosOK
  <2>4. QED
    BY <2>2, <2>3 DEF HiloDespierta
<1>3. k1 = [k EXCEPT !.cola_io[h[c].arg] = Append(@, h[c].pid)]
  OBVIOUS
<1> HIDE DEF p
<1>4. /\ \A x \in Mutexes : ~ Tiene(k.cola_espera[x], p)
      /\ \A u \in TiposIo : ~ Tiene(k.cola_io[u], p)
      /\ \A d \in Ios : g[d].pid # p
      /\ \A d \in Cpus : HiloDespierta(h[d], p) => d = c
      /\ Espera(k, p)
  BY <1>1, <1>2, EnManoCpu
<1>5. s \in Seq(Pids) /\ Distintos(s) /\ \A y : Tiene(s, y) <=> Tiene(k.cola_io[t], y) \/ y = p
  <2>1. k.cola_io[t] \in Seq(Pids) /\ Distintos(k.cola_io[t])
    BY <1>1, <1>2 DEF TipoKs, EsperasBien
  <2>2. QED
    BY <1>2, <1>4, <2>1, AppendProperties, TieneAgregado
<1> HIDE DEF t, s
<1>6. /\ k1 \in TipoKs(Cpus) /\ ListasBien(k1)
      /\ k1.estado = k.estado /\ k1.exec = k.exec /\ k1.cpu = k.cpu /\ k1.timer = k.timer
      /\ k1.cpus_libres = k.cpus_libres /\ k1.prioridad = k.prioridad
      /\ k1.lista_mutex = k.lista_mutex /\ k1.pid_dueno = k.pid_dueno
      /\ k1.cola_espera = k.cola_espera
      /\ \A u \in TiposIo : k1.cola_io[u] = IF u = t THEN s ELSE k.cola_io[u]
  BY <1>1, <1>2, <1>5, ColaIoKs
<1> HIDE DEF k1
<1>7. CpusBien(k1, h1) /\ MutexBien(k1, h1)
  <2>1. \A d \in Cpus : h1[d] = h[d] \/ (Neutro(h1[d]) /\ ~ Cierra(h[d]))
    BY DEF Neutro, Cierra
  <2>2. QED
    BY <1>6, <2>1, SinCpuNiMutex
<1>8. \A d \in Cpus : ~ HiloDespierta(h1[d], p)
  BY <1>4 DEF HiloDespierta
<1>9. EsperasBien(k1, h1, g)
  <2>1. \A u \in TiposIo : Distintos(k1.cola_io[u])
    BY <1>1, <1>5, <1>6 DEF EsperasBien
  <2>2. \A m \in Mutexes : Distintos(k1.cola_espera[m])
    BY <1>1, <1>6 DEF EsperasBien
  <2>3. ASSUME NEW r \in Pids, r # p
        PROVE  /\ Quienes(k1, h1, g, r) \subseteq Quienes(k, h, g, r)
               /\ Entra(h, r) => Entra(h1, r)
    <3>1. \A d \in Cpus : HiloDespierta(h1[d], r) => HiloDespierta(h[d], r)
      BY DEF HiloDespierta
    <3>2. \A u \in TiposIo : Tiene(k1.cola_io[u], r) => Tiene(k.cola_io[u], r)
      BY <1>5, <1>6, <2>3
    <3>3. Entra(h, r) => Entra(h1, r)
      BY DEF Entra
    <3>4. QED
      BY <1>6, <3>1, <3>2, <3>3 DEF Quienes
  <2>4. UnoQueDespierta(k1, h1, g, p)
    <3>1. \A u \in TiposIo : Tiene(k1.cola_io[u], p) => u = t
      BY <1>4, <1>6
    <3>2. \A x \in Quienes(k1, h1, g, p) : x = <<"io", t>>
      BY <1>4, <1>6, <1>8, <3>1 DEF Quienes
    <3>3. Espera(k1, p) /\ (k1.timer[p] => k1.estado[p] = "BLOCK")
      BY <1>1, <1>2, <1>4, <1>6 DEF Espera, EsperasBien, UnoQueDespierta
    <3>4. QED
      BY <3>2, <3>3 DEF UnoQueDespierta
  <2>5. \A d \in Cpus : HiloCpuBien(k1, h1[d]) \/ (h1[d] = h[d] /\ ~ HiloDespierta(h[d], p))
    BY <1>4 DEF HiloCpuBien
  <2>6. \A r \in Pids : r # p =>
          /\ Quienes(k1, h1, g, r) \subseteq Quienes(k, h, g, r)
          /\ k1.estado[r] = k.estado[r] /\ (k1.timer[r] => k.timer[r])
          /\ Entra(h, r) => Entra(h1, r)
    BY <1>6, <2>3
  <2>7. QED
    BY <1>1, <1>2, <1>4, <2>1, <2>2, <2>4, <2>5, <2>6, EsperasPasa
<1>10. QED
  BY <1>3, <1>6, <1>7, <1>9 DEF Bien

\* A thread, of a CPU or of a device, that has woken up the process it had in hand:
\* its state was the one that was read.
LEMMA DespiertaBien ==
  ASSUME NEW k, NEW h, NEW g, Bien(k, h, g), NEW p \in Pids,
         k.estado[p] \in {"BLOCK", "SUSP_BLOCK"}, ~ k.timer[p], NEW h1, NEW g1,
         \A c \in Cpus : h1[c] = h[c] \/ (HiloDespierta(h[c], p) /\ h1[c].pc = "recibir"),
         \A d \in Ios : g1[d] = g[d] \/ (g[d].pid = p /\ g1[d] = Ocioso),
         \A m \in Mutexes : ~ Tiene(k.cola_espera[m], p),
         \A t \in TiposIo : ~ Tiene(k.cola_io[t], p),
         \A c \in Cpus : ~ HiloDespierta(h1[c], p), \A d \in Ios : g1[d].pid # p
  PROVE  LET k1 == Despertar(k, p, k.estado[p])
             e == IF k.estado[p] = "BLOCK" THEN "READY" ELSE "SUSP_READY" IN
         Bien(k1, h1, g1) /\ Mueve(k, k1, p, e)
<1> DEFINE k1 == Despertar(k, p, k.estado[p])
           e == IF k.estado[p] = "BLOCK" THEN "READY" ELSE "SUSP_READY"
<1>1. k \in TipoKs(Cpus) /\ ListasBien(k) /\ CpusBien(k, h) /\ EsperasBien(k, h, g) /\ MutexBien(k, h)
  BY DEF Bien
<1>2. /\ Mueve(k, k1, p, e) /\ k1.exec = k.exec /\ k1.timer = k.timer
      /\ k1.cpus_libres = k.cpus_libres /\ k1.cpu = k.cpu
  BY <1>1, DespertarKs
<1>3. e # "EXIT"
  OBVIOUS
<1> HIDE DEF k1, e
<1>4. /\ k1 \in TipoKs(Cpus) /\ ListasBien(k1) /\ Quieto(k, k1)
      /\ k1.estado = [k.estado EXCEPT ![p] = e]
  BY <1>2 DEF Mueve
<1>5. \A r \in Pids : k1.estado[r] = IF r = p THEN e ELSE k.estado[r]
  BY <1>1, <1>4 DEF TipoKs
<1>6. \A c \in Cpus : h1[c] = h[c] \/ (Neutro(h1[c]) /\ ~ Cierra(h[c]) /\ h[c].pc # "bloquear")
  BY DEF Neutro, Cierra, HiloDespierta
<1>7. CpusBien(k1, h1)
  <2>1. \A r \in Pids : k.estado[r] = "EXIT" => k1.estado[r] = "EXIT"
    BY <1>5
  <2>2. \A c \in Cpus :
           \/ h1[c] = h[c] \/ Neutro(h1[c])
           \/ h1[c].pc = "bloquear" /\ h1[c].pid \in k.exec /\ k.cpu[h1[c].pid] = c
           \/ Cierra(h[c]) /\ Cierra(h1[c]) /\ h1[c].pid = h[c].pid
    BY <1>6
  <2>3. \A r \in k.exec : k1.cpu[r] = k.cpu[r]
    BY <1>2
  <2>4. QED
    BY <1>1, <1>2, <2>1, <2>2, <2>3, CpusIgual
<1>8. EsperasBien(k1, h1, g1)
  <2>1. k1.cola_espera = k.cola_espera /\ k1.cola_io = k.cola_io
    BY <1>4 DEF Quieto
  <2>2. ASSUME NEW r \in Pids, r # p
        PROVE  /\ Quienes(k1, h1, g1, r) \subseteq Quienes(k, h, g, r)
               /\ Entra(h, r) => Entra(h1, r)
    <3>1. \A c \in Cpus : HiloDespierta(h1[c], r) => HiloDespierta(h[c], r)
      BY DEF HiloDespierta
    <3>2. \A d \in Ios : g1[d].pid = r => g[d].pid = r
      <4>1. r # Nadie
        BY ProcesosOK DEF Nadie
      <4>2. QED
        BY <4>1 DEF Ocioso
    <3>3. Entra(h, r) => Entra(h1, r)
      BY <1>6 DEF Entra
    <3>4. QED
      BY <2>1, <3>1, <3>2, <3>3 DEF Quienes
  <2>3. UnoQueDespierta(k1, h1, g1, p)
    <3>1. Quienes(k1, h1, g1, p) = {}
      BY <2>1 DEF Quienes
    <3>2. ~ k1.timer[p]
      BY <1>2
    <3>3. QED
      BY <3>1, <3>2 DEF UnoQueDespierta
  <2>4. \A c \in Cpus : HiloCpuBien(k1, h1[c]) \/ (h1[c] = h[c] /\ ~ HiloDespierta(h[c], p))
    BY DEF HiloCpuBien
  <2>5. \A d \in Ios : HiloIoBien(k1, g1[d]) \/ (g1[d] = g[d] /\ g[d].pid # p)
    BY DEF HiloIoBien, Ocioso
  <2>6. /\ \A m \in Mutexes : Distintos(k1.cola_espera[m])
        /\ \A t \in TiposIo : Distintos(k1.cola_io[t])
    BY <1>1, <2>1 DEF EsperasBien
  <2>7. \A r \in Pids : r # p =>
          /\ Quienes(k1, h1, g1, r) \subseteq Quienes(k, h, g, r)
          /\ k1.estado[r] = k.estado[r] /\ (k1.timer[r] => k.timer[r])
          /\ Entra(h, r) => Entra(h1, r)
    BY <1>2, <1>5, <2>2
  <2>8. QED
    BY <1>1, <2>3, <2>4, <2>5, <2>6, <2>7, EsperasPasa
<1>9. MutexBien(k1, h1)
  <2>1. \A c \in Cpus : Cierra(h[c]) => Cierra(h1[c]) /\ h1[c].pid = h[c].pid
    BY <1>6
  <2>2. k.estado[p] # "EXIT" /\ k1.estado[p] # "EXIT" /\ \A r \in Pids : r # p => k1.estado[r] = k.estado[r]
    BY <1>3, <1>5
  <2>3. Terminados(k, h, k1, h1)
    BY <2>1, <2>2, TerminadosMueve
  <2>4. QED
    BY <1>1, <1>4, <2>3, MutexIgual
<1>10. QED
  BY <1>2, <1>4, <1>7, <1>8, <1>9 DEF Bien, k1, e

\* The second critical section of manejar_mutex_unlock.
LEMMA UnlockDespiertaBien ==
  ASSUME NEW k, NEW h, NEW g, Bien(k, h, g), NEW c \in Cpus, h[c].pc = "despertar", NEW h1,
         h1[c].pc = "recibir", \A d \in Cpus : d # c => h1[d] = h[d]
  PROVE  LET p == h[c].pid
             k1 == Despertar(k, p, h[c].arg) IN
         /\ Bien(k1, h1, g) /\ p \in Pids
         /\ \/ k1 = k
            \/ k.estado[p] = "BLOCK" /\ Mueve(k, k1, p, "READY")
            \/ k.estado[p] = "SUSP_BLOCK" /\ Mueve(k, k1, p, "SUSP_READY")
<1> DEFINE p == h[c].pid
           a == h[c].arg
           k1 == Despertar(k, p, a)
<1>1. k \in TipoKs(Cpus) /\ ListasBien(k) /\ EsperasBien(k, h, g)
  BY DEF Bien
<1>2. p \in Pids /\ a \in {"BLOCK", "SUSP_BLOCK", "EXEC"} /\ (a # "EXEC" => Vigente(k, p, a))
  <2>1. HiloCpuBien(k, h[c])
    BY <1>1 DEF EsperasBien
  <2>2. QED
    BY <2>1 DEF HiloCpuBien
<1>3. CASE a = "EXEC"
  <2>1. k1 = k
    BY <1>3 DEF Despertar
  <2>2. \A d \in Cpus : h1[d] = h[d] \/ (Neutro(h1[d]) /\ ~ Cierra(h[d]))
    BY DEF Neutro, Cierra
  <2>3. CpusBien(k, h1) /\ MutexBien(k, h1)
    BY <2>2, SinCpuNiMutex
  <2>4. \A d \in Cpus : h1[d] = h[d] \/ (HiloCpuBien(k, h1[d]) /\ \A r : ~ HiloDespierta(h1[d], r))
    BY DEF HiloCpuBien, HiloDespierta
  <2>5. ASSUME NEW r \in Pids PROVE UnoQueDespierta(k, h1, g, r)
    <3>1. Quienes(k, h1, g, r) \subseteq Quienes(k, h, g, r)
      BY <2>4, QuienesHilo
    <3>2. Entra(h, r) => Entra(h1, r)
      BY DEF Entra
    <3>3. UnoQueDespierta(k, h, g, r)
      BY <1>1 DEF EsperasBien
    <3>4. QED
      BY <3>1, <3>2, <3>3 DEF UnoQueDespierta
  <2>6. EsperasBien(k, h1, g)
    BY <1>1, <2>4, <2>5 DEF EsperasBien
  <2>7. QED
    BY <1>1, <1>2, <2>1, <2>3, <2>6 DEF Bien
<1>4. CASE a # "EXEC"
  <2>1. k.estado[p] = a /\ ~ k.timer[p] /\ a \in {"BLOCK", "SUSP_BLOCK"} /\ HiloDespierta(h[c], p)
    BY <1>2, <1>4 DEF Vigente, HiloDespierta
  <2> HIDE DEF p, a
  <2>2. /\ \A x \in Mutexes : ~ Tiene(k.cola_espera[x], p)
        /\ \A t \in TiposIo : ~ Tiene(k.cola_io[t], p)
        /\ \A d \in Ios : g[d].pid # p
        /\ \A d \in Cpus : HiloDespierta(h[d], p) => d = c
    BY <1>1, <1>2, <2>1, EnManoCpu
  <2>3. /\ \A d \in Cpus : h1[d] = h[d] \/ (HiloDespierta(h[d], p) /\ h1[d].pc = "recibir")
        /\ \A d \in Cpus : ~ HiloDespierta(h1[d], p)
    BY <2>1, <2>2 DEF HiloDespierta
  <2> DEFINE e == IF k.estado[p] = "BLOCK" THEN "READY" ELSE "SUSP_READY"
             kd == Despertar(k, p, k.estado[p])
  <2>4. Bien(kd, h1, g) /\ Mueve(k, kd, p, e)
    BY <1>2, <2>1, <2>2, <2>3, DespiertaBien
  <2>5. kd = k1
    BY <2>1
  <2>6. CASE k.estado[p] = "BLOCK"
    BY <1>2, <2>4, <2>5, <2>6 DEF p, a
  <2>7. CASE k.estado[p] = "SUSP_BLOCK"
    BY <1>2, <2>4, <2>5, <2>7 DEF p, a
  <2>8. QED
    BY <2>1, <2>6, <2>7
<1>5. QED
  BY <1>3, <1>4

\* Only what the thread of a device holds changes.
LEMMA DispositivoQuienes ==
  ASSUME NEW k, NEW h, NEW g, NEW g1, NEW d \in Ios, \A e \in Ios : e # d => g1[e] = g[e],
         NEW r, g1[d].pid # r \/ g1[d].pid = g[d].pid
  PROVE  Quienes(k, h, g1, r) \subseteq Quienes(k, h, g, r)
BY DEF Quienes

\* atender_io takes the first of the queue.
LEMMA IoTomaBien ==
  ASSUME NEW k, NEW h, NEW g, Bien(k, h, g), NEW d \in Ios, g[d].pc = "espera",
         NEW t \in TiposIo, k.cola_io[t] # <<>>, NEW g1, \A e \in Ios : e # d => g1[e] = g[e],
         g1[d].pc = "dispositivo", g1[d].pid = Head(k.cola_io[t])
  PROVE  Bien([k EXCEPT !.cola_io[t] = Tail(@)], h, g1)
<1> DEFINE p == Head(k.cola_io[t])
           s == Tail(k.cola_io[t])
           k1 == [k EXCEPT !.cola_io[t] = s]
<1>1. k \in TipoKs(Cpus) /\ ListasBien(k) /\ EsperasBien(k, h, g)
  BY DEF Bien
<1>2. /\ p \in Pids /\ s \in Seq(Pids) /\ Distintos(s) /\ ~ Tiene(s, p)
      /\ \A y : Tiene(k.cola_io[t], y) <=> y = p \/ Tiene(s, y)
  <2>1. k.cola_io[t] \in Seq(Pids) /\ Distintos(k.cola_io[t])
    BY <1>1 DEF TipoKs, EsperasBien
  <2>2. QED
    BY <2>1, TieneQuitado
<1>3. k1 = [k EXCEPT !.cola_io[t] = Tail(@)]
  OBVIOUS
<1> HIDE DEF s
<1>4. /\ k1 \in TipoKs(Cpus) /\ ListasBien(k1)
      /\ k1.estado = k.estado /\ k1.exec = k.exec /\ k1.cpu = k.cpu /\ k1.timer = k.timer
      /\ k1.cpus_libres = k.cpus_libres /\ k1.prioridad = k.prioridad
      /\ k1.lista_mutex = k.lista_mutex /\ k1.pid_dueno = k.pid_dueno
      /\ k1.cola_espera = k.cola_espera
      /\ \A u \in TiposIo : k1.cola_io[u] = IF u = t THEN s ELSE k.cola_io[u]
  BY <1>1, <1>2, ColaIoKs
<1>5. g1[d].pid = p
  OBVIOUS
<1> HIDE DEF k1, p
<1>6. /\ \A x \in Mutexes : ~ Tiene(k.cola_espera[x], p)
      /\ \A u \in TiposIo : Tiene(k.cola_io[u], p) => u = t
      /\ \A e \in Ios : g[e].pid # p
      /\ \A c \in Cpus : ~ HiloDespierta(h[c], p)
      /\ Espera(k, p)
  BY <1>1, <1>2, EnColaIo
<1>7. CpusBien(k1, h) /\ MutexBien(k1, h)
  BY <1>4, SinCpuNiMutex
<1>8. \A u \in TiposIo : \A y : Tiene(k1.cola_io[u], y) => Tiene(k.cola_io[u], y) /\ y # p
  BY <1>2, <1>4, <1>6
<1>9. EsperasBien(k1, h, g1)
  <2>1. ASSUME NEW r \in Pids, r # p PROVE Quienes(k1, h, g1, r) \subseteq Quienes(k, h, g, r)
    <3>1. Quienes(k1, h, g, r) \subseteq Quienes(k, h, g, r)
      BY <1>4, <1>8 DEF Quienes
    <3>2. Quienes(k1, h, g1, r) \subseteq Quienes(k1, h, g, r)
      BY <1>5, <2>1, DispositivoQuienes
    <3>3. QED
      BY <3>1, <3>2
  <2>2. UnoQueDespierta(k1, h, g1, p)
    <3>1. \A e \in Ios : g1[e].pid = p => e = d
      BY <1>6
    <3>2. \A x \in Quienes(k1, h, g1, p) : x = <<"hilo_io", d>>
      BY <1>4, <1>6, <1>8, <3>1 DEF Quienes
    <3>3. Espera(k1, p) /\ (k1.timer[p] => k1.estado[p] = "BLOCK")
      BY <1>1, <1>2, <1>4, <1>6 DEF Espera, EsperasBien, UnoQueDespierta
    <3>4. QED
      BY <3>2, <3>3 DEF UnoQueDespierta
  <2>3. /\ \A m \in Mutexes : Distintos(k1.cola_espera[m])
        /\ \A u \in TiposIo : Distintos(k1.cola_io[u])
    BY <1>1, <1>2, <1>4 DEF EsperasBien
  <2>4. \A e \in Ios : HiloIoBien(k1, g1[e]) \/ (g1[e] = g[e] /\ g[e].pid # p)
    BY <1>2, <1>5, <1>6 DEF HiloIoBien
  <2>5. \A r \in Pids : r # p =>
          /\ Quienes(k1, h, g1, r) \subseteq Quienes(k, h, g, r)
          /\ k1.estado[r] = k.estado[r] /\ (k1.timer[r] => k.timer[r])
          /\ Entra(h, r) => Entra(h, r)
    BY <1>4, <2>1
  <2>6. QED
    BY <1>1, <1>2, <1>6, <2>2, <2>3, <2>4, <2>5, EsperasPasa
<1>10. QED
  BY <1>3, <1>4, <1>7, <1>9 DEF Bien

\* The device answers: the timer is cancelled and the state read.
LEMMA IoRespondeBien ==
  ASSUME NEW k, NEW h, NEW g, Bien(k, h, g), NEW d \in Ios, g[d].pc = "dispositivo", NEW g1,
         \A e \in Ios : e # d => g1[e] = g[e],
         g1[d].pc = "mover", g1[d].pid = g[d].pid, g1[d].leido = k.estado[g[d].pid]
  PROVE  LET k1 == CancelarTimer(k, g[d].pid) IN
         Bien(k1, h, g1) /\ k1.estado = k.estado /\ Quieto(k, k1) /\ g[d].pid \in Pids
<1> DEFINE p == g[d].pid
           k1 == CancelarTimer(k, p)
<1>1. k \in TipoKs(Cpus) /\ ListasBien(k) /\ EsperasBien(k, h, g)
  BY DEF Bien
<1>2. p \in Pids
  <2>1. HiloIoBien(k, g[d])
    BY <1>1 DEF EsperasBien
  <2>2. QED
    BY <2>1 DEF HiloIoBien
<1>3. g1[d].pid = p
  OBVIOUS
<1>4. g1[d].leido = k.estado[p]
  OBVIOUS
<1> HIDE DEF k1, p
<1>5. /\ \A x \in Mutexes : ~ Tiene(k.cola_espera[x], p)
      /\ \A u \in TiposIo : ~ Tiene(k.cola_io[u], p)
      /\ \A e \in Ios : g[e].pid = p => e = d
      /\ \A c \in Cpus : ~ HiloDespierta(h[c], p)
      /\ Espera(k, p)
  BY <1>1, <1>2, EnManoIo DEF p
<1>6. /\ k1 \in TipoKs(Cpus) /\ k1.estado = k.estado
      /\ k1.exec = k.exec /\ k1.block = k.block /\ k1.susp_block = k.susp_block
      /\ k1.susp_ready = k.susp_ready /\ k1.colas_ready = k.colas_ready
      /\ k1.cpu = k.cpu /\ k1.timer = [k.timer EXCEPT ![p] = FALSE]
      /\ k1.cpus_libres = k.cpus_libres /\ Quieto(k, k1)
  BY <1>1, <1>2, CancelarCampos DEF k1
<1>7. ListasBien(k1)
  BY <1>1, <1>6 DEF ListasBien, Quieto
<1>8. CpusBien(k1, h) /\ MutexBien(k1, h)
  <2>1. k1.prioridad = k.prioridad /\ k1.lista_mutex = k.lista_mutex
        /\ k1.pid_dueno = k.pid_dueno /\ k1.cola_espera = k.cola_espera
    BY <1>6 DEF Quieto
  <2>2. QED
    BY <1>6, <2>1, SinCpuNiMutex
<1>9. ~ k1.timer[p] /\ \A r \in Pids : k1.timer[r] => k.timer[r]
  BY <1>1, <1>2, <1>6 DEF TipoKs
<1>10. EsperasBien(k1, h, g1)
  <2>1. k1.cola_espera = k.cola_espera /\ k1.cola_io = k.cola_io
    BY <1>6 DEF Quieto
  <2>2. ASSUME NEW r PROVE Quienes(k1, h, g1, r) \subseteq Quienes(k, h, g, r)
    <3>1. Quienes(k1, h, g, r) \subseteq Quienes(k, h, g, r)
      BY <2>1 DEF Quienes
    <3>2. Quienes(k1, h, g1, r) \subseteq Quienes(k1, h, g, r)
      BY DispositivoQuienes
    <3>3. QED
      BY <3>1, <3>2
  <2>3. UnoQueDespierta(k1, h, g1, p)
    <3>1. \A x, y \in Quienes(k1, h, g1, p) : x = y
      BY <1>1, <1>2, <2>2 DEF EsperasBien, UnoQueDespierta
    <3>2. QED
      BY <1>5, <1>6, <1>9, <3>1 DEF UnoQueDespierta, Espera
  <2>4. /\ \A m \in Mutexes : Distintos(k1.cola_espera[m])
        /\ \A u \in TiposIo : Distintos(k1.cola_io[u])
    BY <1>1, <2>1 DEF EsperasBien
  <2>5. HiloIoBien(k1, g1[d])
    BY <1>2, <1>3, <1>4, <1>5, <1>6, <1>9 DEF HiloIoBien, Vigente, Espera
  <2>6. \A e \in Ios : HiloIoBien(k1, g1[e]) \/ (g1[e] = g[e] /\ g[e].pid # p)
    BY <1>5, <2>5
  <2>7. \A c \in Cpus : HiloCpuBien(k1, h[c]) \/ (h[c] = h[c] /\ ~ HiloDespierta(h[c], p))
    BY <1>5
  <2>8. \A r \in Pids : r # p =>
          /\ Quienes(k1, h, g1, r) \subseteq Quienes(k, h, g, r)
          /\ k1.estado[r] = k.estado[r] /\ (k1.timer[r] => k.timer[r])
          /\ Entra(h, r) => Entra(h, r)
    BY <1>6, <1>9, <2>2
  <2>9. QED
    BY <1>1, <1>2, <2>3, <2>4, <2>6, <2>7, <2>8, EsperasPasa
<1>11. QED
  BY <1>2, <1>6, <1>7, <1>8, <1>10 DEF Bien, k1, p

\* The device went away: the process is forgotten.
LEMMA IoSinBien ==
  ASSUME NEW k, NEW h, NEW g, Bien(k, h, g), NEW d \in Ios, NEW g1,
         \A e \in Ios : e # d => g1[e] = g[e], g1[d] = Ocioso
  PROVE  Bien(k, h, g1)
<1>1. k \in TipoKs(Cpus) /\ EsperasBien(k, h, g)
  BY DEF Bien
<1>2. HiloIoBien(k, g1[d])
  BY DEF HiloIoBien, Ocioso
<1>3. ASSUME NEW r \in Pids PROVE UnoQueDespierta(k, h, g1, r)
  <2>1. g1[d].pid # r
    BY ProcesosOK DEF Ocioso, Nadie
  <2>2. Quienes(k, h, g1, r) \subseteq Quienes(k, h, g, r)
    BY <2>1, DispositivoQuienes
  <2>3. UnoQueDespierta(k, h, g, r)
    BY <1>1 DEF EsperasBien
  <2>4. QED
    BY <2>2, <2>3 DEF UnoQueDespierta
<1>4. EsperasBien(k, h, g1)
  BY <1>1, <1>2, <1>3 DEF EsperasBien
<1>5. QED
  BY <1>4 DEF Bien

\* manejar_fin_io.
LEMMA FinIoBien ==
  ASSUME NEW k, NEW h, NEW g, Bien(k, h, g), NEW d \in Ios, g[d].pc = "mover", NEW g1,
         \A e \in Ios : e # d => g1[e] = g[e], g1[d] = Ocioso
  PROVE  LET p == g[d].pid
             k1 == Despertar(k, p, g[d].leido) IN
         /\ Bien(k1, h, g1) /\ p \in Pids
         /\ \/ k.estado[p] = "BLOCK" /\ Mueve(k, k1, p, "READY")
            \/ k.estado[p] = "SUSP_BLOCK" /\ Mueve(k, k1, p, "SUSP_READY")
<1> DEFINE p == g[d].pid
           a == g[d].leido
           e == IF k.estado[p] = "BLOCK" THEN "READY" ELSE "SUSP_READY"
           k1 == Despertar(k, p, k.estado[p])
<1>1. EsperasBien(k, h, g)
  BY DEF Bien
<1>2. p \in Pids /\ a = k.estado[p] /\ k.estado[p] \in {"BLOCK", "SUSP_BLOCK"} /\ ~ k.timer[p]
  <2>1. HiloIoBien(k, g[d])
    BY <1>1 DEF EsperasBien
  <2>2. QED
    BY <2>1 DEF HiloIoBien, Vigente
<1>3. k1 = Despertar(k, p, a)
  BY <1>2
<1>4. g1[d].pid # p
  BY <1>2, ProcesosOK DEF Ocioso, Nadie
<1> HIDE DEF k1, e
<1>5. /\ \A x \in Mutexes : ~ Tiene(k.cola_espera[x], p)
      /\ \A u \in TiposIo : ~ Tiene(k.cola_io[u], p)
      /\ \A b \in Ios : g[b].pid = p => b = d
      /\ \A c \in Cpus : ~ HiloDespierta(h[c], p)
  BY <1>1, <1>2, EnManoIo
<1>6. /\ \A b \in Ios : g1[b] = g[b] \/ (g[b].pid = p /\ g1[b] = Ocioso)
      /\ \A b \in Ios : g1[b].pid # p
  BY <1>4, <1>5
<1> HIDE DEF p
<1>7. Bien(k1, h, g1) /\ Mueve(k, k1, p, e)
  BY <1>2, <1>5, <1>6, DespiertaBien DEF k1, e
<1>8. CASE k.estado[p] = "BLOCK"
  BY <1>2, <1>3, <1>7, <1>8 DEF p, e
<1>9. CASE k.estado[p] = "SUSP_BLOCK"
  BY <1>2, <1>3, <1>7, <1>9 DEF p, e
<1>10. QED
  BY <1>2, <1>8, <1>9

\* hilo_suspension: only a process that is BLOCK has a timer.
LEMMA VenceBien ==
  ASSUME NEW k, NEW h, NEW g, Bien(k, h, g), NEW p \in Pids, k.timer[p]
  PROVE  LET k1 == [k EXCEPT !.timer[p] = FALSE, !.block = @ \ {p},
                             !.susp_block = @ \cup {p}, !.estado[p] = "SUSP_BLOCK"] IN
         k.estado[p] = "BLOCK" /\ Bien(k1, h, g) /\ Mueve(k, k1, p, "SUSP_BLOCK")
<1> DEFINE k1 == [k EXCEPT !.timer[p] = FALSE, !.block = @ \ {p},
                           !.susp_block = @ \cup {p}, !.estado[p] = "SUSP_BLOCK"]
<1>1. k \in TipoKs(Cpus) /\ ListasBien(k) /\ CpusBien(k, h) /\ EsperasBien(k, h, g) /\ MutexBien(k, h)
  BY DEF Bien
<1>2. UnoQueDespierta(k, h, g, p) /\ k.estado[p] = "BLOCK"
  BY <1>1 DEF EsperasBien, UnoQueDespierta
<1>3. /\ Mueve(k, k1, p, "SUSP_BLOCK") /\ k1.exec = k.exec /\ k1.timer[p] = FALSE
      /\ k1.cpus_libres = k.cpus_libres /\ k1.cpu = k.cpu
  BY <1>1, <1>2, SuspenderKs
<1> HIDE DEF k1
<1>4. /\ k1 \in TipoKs(Cpus) /\ ListasBien(k1) /\ Quieto(k, k1)
      /\ k1.estado = [k.estado EXCEPT ![p] = "SUSP_BLOCK"]
      /\ \A r \in Pids : r # p => k1.timer[r] = k.timer[r]
  BY <1>3 DEF Mueve
<1>5. \A r \in Pids : k1.estado[r] = IF r = p THEN "SUSP_BLOCK" ELSE k.estado[r]
  BY <1>1, <1>4 DEF TipoKs
<1>6. CpusBien(k1, h)
  <2>1. \A r \in Pids : k.estado[r] = "EXIT" => k1.estado[r] = "EXIT"
    BY <1>2, <1>5
  <2>2. \A r \in k.exec : k1.cpu[r] = k.cpu[r]
    BY <1>3
  <2>3. QED
    BY <1>1, <1>3, <2>1, <2>2, CpusIgual
<1>7. EsperasBien(k1, h, g)
  <2>1. k1.cola_espera = k.cola_espera /\ k1.cola_io = k.cola_io
    BY <1>4 DEF Quieto
  <2>2. \A r : Quienes(k1, h, g, r) = Quienes(k, h, g, r)
    BY <2>1 DEF Quienes
  <2>3. UnoQueDespierta(k1, h, g, p)
    BY <1>2, <1>3, <1>5, <2>2 DEF UnoQueDespierta, Espera
  <2>4. \A c \in Cpus : HiloCpuBien(k1, h[c]) \/ (h[c] = h[c] /\ ~ HiloDespierta(h[c], p))
    <3>1. ASSUME NEW c \in Cpus, HiloDespierta(h[c], p) PROVE HiloCpuBien(k1, h[c])
      <4>1. HiloCpuBien(k, h[c]) /\ h[c].pid = p /\ h[c].arg # "EXEC"
        BY <1>1, <3>1 DEF EsperasBien, HiloDespierta
      <4>2. h[c].pc # "despertar"
        BY <4>1 DEF HiloCpuBien, Vigente
      <4>3. QED
        BY <4>1, <4>2 DEF HiloCpuBien
    <3>2. QED
      BY <3>1
  <2>5. \A d \in Ios : HiloIoBien(k1, g[d]) \/ (g[d] = g[d] /\ g[d].pid # p)
    <3>1. ASSUME NEW d \in Ios, g[d].pid = p PROVE HiloIoBien(k1, g[d])
      <4>1. HiloIoBien(k, g[d])
        BY <1>1, <3>1 DEF EsperasBien
      <4>2. g[d].pc # "mover"
        BY <3>1, <4>1 DEF HiloIoBien, Vigente
      <4>3. QED
        BY <4>1, <4>2 DEF HiloIoBien
    <3>2. QED
      BY <3>1
  <2>6. /\ \A m \in Mutexes : Distintos(k1.cola_espera[m])
        /\ \A t \in TiposIo : Distintos(k1.cola_io[t])
    BY <1>1, <2>1 DEF EsperasBien
  <2>7. \A r \in Pids : r # p =>
          /\ Quienes(k1, h, g, r) \subseteq Quienes(k, h, g, r)
          /\ k1.estado[r] = k.estado[r] /\ (k1.timer[r] => k.timer[r])
          /\ Entra(h, r) => Entra(h, r)
    BY <1>4, <1>5, <2>2
  <2>8. QED
    BY <1>1, <2>3, <2>4, <2>5, <2>6, <2>7, EsperasPasa
<1>8. MutexBien(k1, h)
  <2>1. Terminados(k, h, k1, h)
    BY <1>2, <1>5, TerminadosMueve
  <2>2. QED
    BY <1>1, <1>4, <2>1, MutexIgual
<1>9. QED
  BY <1>2, <1>3, <1>4, <1>6, <1>7, <1>8 DEF Bien, k1

\* intentar_dessuspender_procesos brings a process back.
LEMMA ReanudaBien ==
  ASSUME NEW k, NEW h, NEW g, Bien(k, h, g), NEW p \in Pids, k.estado[p] = "SUSP_READY"
  PROVE  LET k1 == Encolar([k EXCEPT !.susp_ready = RemoveFirst(@, p), !.estado[p] = "READY"], p) IN
         Bien(k1, h, g) /\ Mueve(k, k1, p, "READY")
<1> DEFINE k1 == Encolar([k EXCEPT !.susp_ready = RemoveFirst(@, p), !.estado[p] = "READY"], p)
<1>1. k \in TipoKs(Cpus) /\ ListasBien(k) /\ CpusBien(k, h) /\ EsperasBien(k, h, g) /\ MutexBien(k, h)
  BY DEF Bien
<1>2. /\ Mueve(k, k1, p, "READY") /\ k1.exec = k.exec /\ k1.timer = k.timer
      /\ k1.cpus_libres = k.cpus_libres /\ k1.cpu = k.cpu
  BY <1>1, ReanudarKs
<1> HIDE DEF k1
<1>3. /\ k1 \in TipoKs(Cpus) /\ ListasBien(k1) /\ Quieto(k, k1)
      /\ k1.estado = [k.estado EXCEPT ![p] = "READY"]
  BY <1>2 DEF Mueve
<1>4. \A r \in Pids : k1.estado[r] = IF r = p THEN "READY" ELSE k.estado[r]
  BY <1>1, <1>3 DEF TipoKs
<1>5. CpusBien(k1, h)
  <2>1. \A r \in Pids : k.estado[r] = "EXIT" => k1.estado[r] = "EXIT"
    BY <1>4
  <2>2. \A r \in k.exec : k1.cpu[r] = k.cpu[r]
    BY <1>2
  <2>3. QED
    BY <1>1, <1>2, <2>1, <2>2, CpusIgual
<1>6. EsperasBien(k1, h, g)
  <2>1. Quienes(k, h, g, p) = {}
    BY <1>1, SinQuien
  <2>2. ~ k.timer[p]
    BY <1>1 DEF EsperasBien, UnoQueDespierta
  <2>3. k1.cola_espera = k.cola_espera /\ k1.cola_io = k.cola_io
    BY <1>3 DEF Quieto
  <2>4. QED
    BY <1>1, <1>2, <1>4, <2>1, <2>2, <2>3, EsperasMueve
<1>7. MutexBien(k1, h)
  <2>1. k.estado[p] # "EXIT"
    OBVIOUS
  <2>2. Terminados(k, h, k1, h)
    BY <1>4, <2>1, TerminadosMueve
  <2>3. QED
    BY <1>1, <1>3, <2>2, MutexIgual
<1>8. QED
  BY <1>2, <1>3, <1>5, <1>6, <1>7 DEF Bien, k1

\* Neither the states nor the timers nor the queues of those that wait change.
LEMMA EsperasIgual ==
  ASSUME NEW k, NEW h, NEW g, EsperasBien(k, h, g), NEW k1, NEW h1, k1.estado = k.estado,
         k1.timer = k.timer, k1.cola_espera = k.cola_espera, k1.cola_io = k.cola_io,
         \A c \in Cpus : h1[c] = h[c] \/ (h[c].pc # "bloquear" /\ h1[c].pc \notin {"despertar", "pedir_io"})
  PROVE  EsperasBien(k1, h1, g)
<1>1. ASSUME NEW r \in Pids PROVE UnoQueDespierta(k1, h1, g, r)
  <2>1. \A c \in Cpus : h1[c] = h[c] \/ ~ HiloDespierta(h1[c], r)
    BY DEF HiloDespierta
  <2>2. Quienes(k1, h1, g, r) \subseteq Quienes(k, h, g, r)
    BY <2>1, QuienesHilo
  <2>3. Entra(h, r) => Entra(h1, r)
    BY DEF Entra
  <2>4. UnoQueDespierta(k, h, g, r)
    BY DEF EsperasBien
  <2>5. QED
    BY <2>2, <2>3, <2>4 DEF UnoQueDespierta, Espera
<1>2. ASSUME NEW c \in Cpus PROVE HiloCpuBien(k1, h1[c])
  <2>1. HiloCpuBien(k, h[c])
    BY DEF EsperasBien
  <2>2. QED
    BY <2>1 DEF HiloCpuBien, Vigente
<1>3. ASSUME NEW d \in Ios PROVE HiloIoBien(k1, g[d])
  <2>1. HiloIoBien(k, g[d])
    BY DEF EsperasBien
  <2>2. QED
    BY <2>1 DEF HiloIoBien, Vigente
<1>4. QED
  BY <1>1, <1>2, <1>3 DEF EsperasBien

\* What changes is none of this: sem_hay_procesos_ready, the order of a list.
LEMMA BienIgual ==
  ASSUME NEW k, NEW h, NEW g, Bien(k, h, g), NEW k1 \in TipoKs(Cpus), ListasBien(k1),
         k1.estado = k.estado, k1.exec = k.exec, Aparte(k, k1)
  PROVE  Bien(k1, h, g)
<1>1. k1.cpu = k.cpu /\ k1.timer = k.timer /\ k1.cpus_libres = k.cpus_libres
  BY DEF Aparte
<1>2. /\ k1.prioridad = k.prioridad /\ k1.lista_mutex = k.lista_mutex
      /\ k1.pid_dueno = k.pid_dueno /\ k1.cola_espera = k.cola_espera /\ k1.cola_io = k.cola_io
  BY DEF Aparte, Quieto
<1>3. CpusBien(k1, h) /\ MutexBien(k1, h)
  BY <1>1, <1>2, SinCpuNiMutex
<1>4. EsperasBien(k, h, g)
  BY DEF Bien
<1>5. EsperasBien(k1, h, g)
  BY <1>1, <1>2, <1>4, EsperasIgual
<1>6. QED
  BY <1>3, <1>5 DEF Bien

\* A token of sem_hay_procesos_ready is taken and there is nobody to plan.
LEMMA SemBien ==
  ASSUME NEW k, NEW h, NEW g, Bien(k, h, g), k.sem_ready > 0
  PROVE  LET k1 == [k EXCEPT !.sem_ready = @ - 1] IN
         Bien(k1, h, g) /\ k1.estado = k.estado /\ Quieto(k, k1)
<1> DEFINE n == k.sem_ready - 1
           k1 == [k EXCEPT !.sem_ready = n]
<1>0. k1 = [k EXCEPT !.sem_ready = @ - 1]
  OBVIOUS
<1>1. k \in TipoKs(Cpus) /\ ListasBien(k) /\ n \in Nat
  <2>1. k \in TipoKs(Cpus) /\ ListasBien(k)
    BY DEF Bien
  <2>2. k.sem_ready \in Nat
    BY <2>1 DEF TipoKs
  <2>3. QED
    BY <2>1, <2>2
<1> HIDE DEF n
<1>2. /\ k1 \in TipoKs(Cpus) /\ k1.estado = k.estado
      /\ k1.exec = k.exec /\ k1.block = k.block /\ k1.susp_block = k.susp_block
      /\ k1.susp_ready = k.susp_ready /\ k1.colas_ready = k.colas_ready
      /\ k1.cpu = k.cpu /\ k1.timer = k.timer /\ k1.cpus_libres = k.cpus_libres
      /\ k1.prioridad = k.prioridad
  BY <1>1 DEF TipoKs
<1>3. Quieto(k, k1)
  BY <1>1 DEF TipoKs, Quieto
<1> HIDE DEF k1
<1>4. ListasBien(k1)
  BY <1>1, <1>2 DEF ListasBien
<1>5. Bien(k1, h, g)
  BY <1>2, <1>3, <1>4, BienIgual DEF Aparte
<1>6. QED
  BY <1>0, <1>2, <1>3, <1>5

\* list_sort of lista_susp_ready.
LEMMA OrdenaBien ==
  ASSUME NEW k, NEW h, NEW g, Bien(k, h, g), NEW s \in SetToSeqs(ToSet(k.susp_ready))
  PROVE  LET k1 == [k EXCEPT !.susp_ready = s] IN
         Bien(k1, h, g) /\ k1.estado = k.estado /\ Quieto(k, k1)
<1> DEFINE k1 == [k EXCEPT !.susp_ready = s]
<1>1. k \in TipoKs(Cpus) /\ ListasBien(k)
  BY DEF Bien
<1>2. /\ k1 \in TipoKs(Cpus) /\ ListasBien(k1) /\ k1.estado = k.estado
      /\ k1.exec = k.exec /\ Aparte(k, k1)
  BY <1>1, OrdenarKs
<1> HIDE DEF k1
<1>3. Bien(k1, h, g) /\ Quieto(k, k1)
  BY <1>2, BienIgual DEF Aparte
<1>4. QED
  BY <1>2, <1>3 DEF k1

\* OP_FINALIZAR_PROCESO has been answered.
LEMMA FinalizaBien ==
  ASSUME NEW k, NEW h, NEW g, Bien(k, h, g), NEW c \in Cpus, h[c].pc = "finalizar", NEW h1,
         h1[c].pc = "liberar", h1[c].pid = h[c].pid, \A d \in Cpus : d # c => h1[d] = h[d]
  PROVE  Bien(k, h1, g)
<1>1. k \in TipoKs(Cpus) /\ CpusBien(k, h) /\ EsperasBien(k, h, g) /\ MutexBien(k, h)
  BY DEF Bien
<1>2. \A d \in Cpus : h1[d] = h[d] \/ (Cierra(h[d]) /\ Cierra(h1[d]) /\ h1[d].pid = h[d].pid)
  BY DEF Cierra
<1>3. CpusBien(k, h1)
  BY <1>1, <1>2, CpusIgual
<1>4. EsperasBien(k, h1, g)
  <2>1. \A d \in Cpus : h1[d] = h[d] \/ (h[d].pc # "bloquear" /\ h1[d].pc \notin {"despertar", "pedir_io"})
    OBVIOUS
  <2>2. QED
    BY <1>1, <2>1, EsperasIgual
<1>5. MutexBien(k, h1)
  <2>1. \A r : Cerrado(h, r) => Cerrado(h1, r)
    BY <1>2 DEF Cerrado
  <2>2. QED
    BY <1>1, <2>1 DEF MutexBien, ConDueno
<1>6. QED
  BY <1>3, <1>4, <1>5 DEF Bien

\* manejar_mutex_create: one more mutex.
LEMMA CreateBien ==
  ASSUME NEW k, NEW h, NEW g, Bien(k, h, g), NEW m \in Mutexes
  PROVE  LET k1 == [k EXCEPT !.lista_mutex = Append(@, m)] IN
         /\ Bien(k1, h, g) /\ k1.estado = k.estado /\ k1.prioridad = k.prioridad
         /\ k1.pid_dueno = k.pid_dueno /\ k1.cola_espera = k.cola_espera
<1> DEFINE s == Append(k.lista_mutex, m)
           k1 == [k EXCEPT !.lista_mutex = s]
<1>1. k \in TipoKs(Cpus) /\ ListasBien(k) /\ CpusBien(k, h) /\ EsperasBien(k, h, g) /\ MutexBien(k, h)
  BY DEF Bien
<1>2. s \in Seq(Mutexes) /\ \A y : Tiene(s, y) <=> Tiene(k.lista_mutex, y) \/ y = m
  <2>1. k.lista_mutex \in Seq(Mutexes)
    BY <1>1 DEF TipoKs
  <2>2. QED
    BY <2>1, AppendProperties, TieneAgregado
<1>3. k1 = [k EXCEPT !.lista_mutex = Append(@, m)]
  OBVIOUS
<1> HIDE DEF s
<1>4. /\ k1 \in TipoKs(Cpus) /\ k1.estado = k.estado
      /\ k1.exec = k.exec /\ k1.block = k.block /\ k1.susp_block = k.susp_block
      /\ k1.susp_ready = k.susp_ready /\ k1.colas_ready = k.colas_ready
      /\ k1.cpu = k.cpu /\ k1.timer = k.timer /\ k1.cpus_libres = k.cpus_libres
      /\ k1.prioridad = k.prioridad
  BY <1>1, <1>2 DEF TipoKs
<1>5. /\ k1.lista_mutex = s /\ k1.cola_io = k.cola_io
      /\ k1.pid_dueno = k.pid_dueno /\ k1.cola_espera = k.cola_espera
  BY <1>1 DEF TipoKs
<1> HIDE DEF k1
<1>6. ListasBien(k1)
  BY <1>1, <1>4 DEF ListasBien
<1>7. CpusBien(k1, h)
  BY <1>1, <1>4, CpusIgual
<1>8. EsperasBien(k1, h, g)
  BY <1>1, <1>4, <1>5, EsperasIgual
<1>9. MutexBien(k1, h)
  <2>1. \A x \in Mutexes : ConDueno(k1, h, x) /\ Alcanza(k1, x)
    BY <1>1, <1>2, <1>4, <1>5 DEF MutexBien, ConDueno, Alcanza
  <2>2. Mejora(k1)
    BY <1>1, <1>4 DEF MutexBien, Mejora
  <2>3. QED
    BY <2>1, <2>2 DEF MutexBien
<1>10. QED
  BY <1>3, <1>4, <1>5, <1>6, <1>7, <1>8, <1>9 DEF Bien

-----------------------------------------------------------------------------
(* MUTEX_LOCK and MUTEX_UNLOCK.                                             *)

\* A mutex that nobody owns, and nobody waits for, changes owner.
LEMMA DuenoKs ==
  ASSUME NEW k \in TipoKs(Cpus), ListasBien(k), NEW m \in Mutexes, NEW d \in Pids \cup {Nadie}
  PROVE  LET k1 == [k EXCEPT !.pid_dueno[m] = d] IN
         /\ k1 \in TipoKs(Cpus) /\ ListasBien(k1)
         /\ k1.estado = k.estado /\ k1.exec = k.exec /\ k1.cpu = k.cpu /\ k1.timer = k.timer
         /\ k1.cpus_libres = k.cpus_libres /\ k1.prioridad = k.prioridad
         /\ k1.lista_mutex = k.lista_mutex /\ k1.cola_io = k.cola_io
         /\ k1.cola_espera = k.cola_espera
         /\ \A x \in Mutexes : k1.pid_dueno[x] = IF x = m THEN d ELSE k.pid_dueno[x]
<1> DEFINE k1 == [k EXCEPT !.pid_dueno[m] = d]
<1>1. /\ k1 \in TipoKs(Cpus) /\ k1.estado = k.estado
      /\ k1.exec = k.exec /\ k1.block = k.block /\ k1.susp_block = k.susp_block
      /\ k1.susp_ready = k.susp_ready /\ k1.colas_ready = k.colas_ready
      /\ k1.cpu = k.cpu /\ k1.timer = k.timer /\ k1.cpus_libres = k.cpus_libres
      /\ k1.prioridad = k.prioridad
  BY DEF TipoKs
<1>2. /\ k1.lista_mutex = k.lista_mutex /\ k1.cola_io = k.cola_io
      /\ k1.cola_espera = k.cola_espera
      /\ \A x \in Mutexes : k1.pid_dueno[x] = IF x = m THEN d ELSE k.pid_dueno[x]
  BY DEF TipoKs
<1> HIDE DEF k1
<1>3. ListasBien(k1)
  BY <1>1 DEF ListasBien
<1>4. QED
  BY <1>1, <1>2, <1>3 DEF k1

\* A free mutex is taken.
LEMMA LockLibreBien ==
  ASSUME NEW k, NEW h, NEW g, Bien(k, h, g), NEW p \in Pids, p \in k.exec,
         NEW m \in Mutexes, Tiene(k.lista_mutex, m), k.pid_dueno[m] = Nadie
  PROVE  LET k1 == [k EXCEPT !.pid_dueno[m] = p] IN
         /\ Bien(k1, h, g) /\ k1.estado = k.estado /\ k1.prioridad = k.prioridad
         /\ k1.cola_espera = k.cola_espera /\ k.cola_espera[m] = <<>>
         /\ \A x \in Mutexes : k1.pid_dueno[x] = IF x = m THEN p ELSE k.pid_dueno[x]
<1> DEFINE k1 == [k EXCEPT !.pid_dueno[m] = p]
<1>1. k \in TipoKs(Cpus) /\ ListasBien(k) /\ CpusBien(k, h) /\ EsperasBien(k, h, g) /\ MutexBien(k, h)
  BY DEF Bien
<1>2. /\ k1 \in TipoKs(Cpus) /\ ListasBien(k1)
      /\ k1.estado = k.estado /\ k1.exec = k.exec /\ k1.cpu = k.cpu /\ k1.timer = k.timer
      /\ k1.cpus_libres = k.cpus_libres /\ k1.prioridad = k.prioridad
      /\ k1.lista_mutex = k.lista_mutex /\ k1.cola_io = k.cola_io
      /\ k1.cola_espera = k.cola_espera
      /\ \A x \in Mutexes : k1.pid_dueno[x] = IF x = m THEN p ELSE k.pid_dueno[x]
  BY <1>1, DuenoKs
<1> HIDE DEF k1
<1>3. CpusBien(k1, h)
  BY <1>1, <1>2, CpusIgual
<1>4. EsperasBien(k1, h, g)
  BY <1>1, <1>2, EsperasIgual
<1>5. k.cola_espera[m] = <<>> /\ p # Nadie /\ k.estado[p] = "EXEC"
  BY <1>1, ProcesosOK DEF MutexBien, ConDueno, ListasBien, Nadie
<1>6. \A w : ~ Tiene(<<>>, w)
  BY DEF Tiene
<1>7. ASSUME NEW x \in Mutexes PROVE ConDueno(k1, h, x) /\ Alcanza(k1, x)
  <2>1. ConDueno(k, h, x) /\ Alcanza(k, x)
    BY <1>1 DEF MutexBien
  <2>2. CASE x = m
    BY <1>2, <1>5, <1>6, <2>2 DEF ConDueno, Alcanza
  <2>3. CASE x # m
    BY <1>2, <2>1, <2>3 DEF ConDueno, Alcanza
  <2>4. QED
    BY <2>2, <2>3
<1>8. MutexBien(k1, h)
  BY <1>1, <1>2, <1>7 DEF MutexBien, Mejora
<1>9. QED
  BY <1>2, <1>3, <1>4, <1>5, <1>8 DEF Bien, k1

\* A process joins the queue of a mutex.
LEMMA ColaMutexKs ==
  ASSUME NEW k \in TipoKs(Cpus), ListasBien(k), NEW m \in Mutexes, NEW p \in Pids
  PROVE  LET k1 == [k EXCEPT !.cola_espera[m] = Append(@, p)] IN
         /\ k1 \in TipoKs(Cpus) /\ ListasBien(k1)
         /\ k1.estado = k.estado /\ k1.exec = k.exec /\ k1.cpu = k.cpu /\ k1.timer = k.timer
         /\ k1.cpus_libres = k.cpus_libres /\ k1.prioridad = k.prioridad
         /\ k1.lista_mutex = k.lista_mutex /\ k1.cola_io = k.cola_io
         /\ k1.pid_dueno = k.pid_dueno
         /\ \A x \in Mutexes : \A y : Tiene(k1.cola_espera[x], y) <=>
                                        Tiene(k.cola_espera[x], y) \/ (x = m /\ y = p)
         /\ \A x \in Mutexes : Distintos(k.cola_espera[x]) /\ ~ Tiene(k.cola_espera[x], p) =>
                                 Distintos(k1.cola_espera[x])
<1> DEFINE s == Append(k.cola_espera[m], p)
           k1 == [k EXCEPT !.cola_espera[m] = s]
<1>1. /\ s \in Seq(Pids)
      /\ \A y : Tiene(s, y) <=> Tiene(k.cola_espera[m], y) \/ y = p
      /\ Distintos(k.cola_espera[m]) /\ ~ Tiene(k.cola_espera[m], p) => Distintos(s)
  <2>1. k.cola_espera[m] \in Seq(Pids)
    BY DEF TipoKs
  <2>2. QED
    BY <2>1, AppendProperties, TieneAgregado
<1>2. k1 = [k EXCEPT !.cola_espera[m] = Append(@, p)]
  OBVIOUS
<1> HIDE DEF s
<1>3. /\ k1 \in TipoKs(Cpus) /\ k1.estado = k.estado
      /\ k1.exec = k.exec /\ k1.block = k.block /\ k1.susp_block = k.susp_block
      /\ k1.susp_ready = k.susp_ready /\ k1.colas_ready = k.colas_ready
      /\ k1.cpu = k.cpu /\ k1.timer = k.timer /\ k1.cpus_libres = k.cpus_libres
      /\ k1.prioridad = k.prioridad
  BY <1>1 DEF TipoKs
<1>4. /\ k1.lista_mutex = k.lista_mutex /\ k1.cola_io = k.cola_io
      /\ k1.pid_dueno = k.pid_dueno
      /\ \A x \in Mutexes : k1.cola_espera[x] = IF x = m THEN s ELSE k.cola_espera[x]
  BY DEF TipoKs
<1> HIDE DEF k1
<1>5. ListasBien(k1)
  BY <1>3 DEF ListasBien
<1>6. \A x \in Mutexes : \A y : Tiene(k1.cola_espera[x], y) <=>
                                  Tiene(k.cola_espera[x], y) \/ (x = m /\ y = p)
  BY <1>1, <1>4
<1>7. \A x \in Mutexes : Distintos(k.cola_espera[x]) /\ ~ Tiene(k.cola_espera[x], p) =>
                           Distintos(k1.cola_espera[x])
  BY <1>1, <1>4
<1>8. QED
  BY <1>2, <1>3, <1>4, <1>5, <1>6, <1>7

\* The process p is one more in the queue of m.
SeUne(k, k1, m, p) ==
  /\ k1.estado = k.estado /\ k1.timer = k.timer /\ k1.cola_io = k.cola_io
  /\ \A x \in Mutexes : \A y : Tiene(k1.cola_espera[x], y) <=>
                                 Tiene(k.cola_espera[x], y) \/ (x = m /\ y = p)
  /\ \A x \in Mutexes : Distintos(k.cola_espera[x]) /\ ~ Tiene(k.cola_espera[x], p) =>
                          Distintos(k1.cola_espera[x])

\* The process that joins the queue of a mutex is about to block.
LEMMA EsperasLock ==
  ASSUME NEW k \in TipoKs(Cpus), ListasBien(k), NEW h, NEW g, CpusBien(k, h),
         EsperasBien(k, h, g), NEW c \in Cpus, NEW p \in Pids, NEW m \in Mutexes,
         h[c].pc = "recibir", k.cpu[p] = c, p \in k.exec, NEW h1,
         h1[c].pc = "bloquear", h1[c].pid = p, \A d \in Cpus : d # c => h1[d] = h[d], NEW k1,
         SeUne(k, k1, m, p)
  PROVE  EsperasBien(k1, h1, g)
<1> USE DEF SeUne
<1>1. /\ Quienes(k, h, g, p) = {} /\ ~ k.timer[p]
      /\ \A d \in Cpus : ~ HiloDespierta(h[d], p)
      /\ \A d \in Ios : g[d].pid # p
  BY CorreSinQuien
<1>2. /\ \A x \in Mutexes : ~ Tiene(k.cola_espera[x], p)
      /\ \A t \in TiposIo : ~ Tiene(k.cola_io[t], p)
  BY <1>1, NingunQuien
<1>3. \A d \in Cpus : \A r : HiloDespierta(h1[d], r) => HiloDespierta(h[d], r)
  BY DEF HiloDespierta
<1>4. ASSUME NEW r \in Pids, r # p
      PROVE  Quienes(k1, h1, g, r) \subseteq Quienes(k, h, g, r) /\ (Entra(h, r) => Entra(h1, r))
  <2>1. \A x \in Mutexes : Tiene(k1.cola_espera[x], r) => Tiene(k.cola_espera[x], r)
    BY <1>4
  <2>2. Entra(h, r) => Entra(h1, r)
    BY DEF Entra
  <2>3. QED
    BY <1>3, <2>1, <2>2 DEF Quienes
<1>5. UnoQueDespierta(k1, h1, g, p)
  <2>1. \A x \in Mutexes : Tiene(k1.cola_espera[x], p) => x = m
    BY <1>2
  <2>2. \A z \in Quienes(k1, h1, g, p) : z = <<"mutex", m>>
    BY <1>1, <1>2, <1>3, <2>1 DEF Quienes
  <2>3. Entra(h1, p)
    BY DEF Entra
  <2>4. QED
    BY <1>1, <2>2, <2>3 DEF UnoQueDespierta
<1>6. /\ \A x \in Mutexes : Distintos(k1.cola_espera[x])
      /\ \A t \in TiposIo : Distintos(k1.cola_io[t])
  BY <1>2 DEF EsperasBien
<1>7. \A d \in Cpus : HiloCpuBien(k1, h1[d]) \/ (h1[d] = h[d] /\ ~ HiloDespierta(h[d], p))
  BY <1>1 DEF HiloCpuBien
<1>8. \A r \in Pids : r # p =>
        /\ Quienes(k1, h1, g, r) \subseteq Quienes(k, h, g, r)
        /\ k1.estado[r] = k.estado[r] /\ (k1.timer[r] => k.timer[r])
        /\ Entra(h, r) => Entra(h1, r)
  BY <1>4
<1>9. QED
  BY <1>1, <1>5, <1>6, <1>7, <1>8, EsperasPasa

\* The owners that change have not ended, and those who waited still have one.
LEMMA MutexArma ==
  ASSUME NEW k, NEW h, NEW k1, NEW h1, MutexBien(k, h), k1.estado = k.estado,
         \A c \in Cpus : Cierra(h[c]) => Cierra(h1[c]) /\ h1[c].pid = h[c].pid,
         Mejora(k1), \A x \in Mutexes : Alcanza(k1, x),
         \A x \in Mutexes :
           /\ k1.pid_dueno[x] = Nadie => k1.cola_espera[x] = <<>>
           /\ k1.pid_dueno[x] # Nadie => Tiene(k1.lista_mutex, x)
           /\ k1.pid_dueno[x] \in {Nadie, k.pid_dueno[x]} \/ k.estado[k1.pid_dueno[x]] # "EXIT"
  PROVE  MutexBien(k1, h1)
<1>1. \A d : Cerrado(h, d) => Cerrado(h1, d)
  BY DEF Cerrado
<1>2. ASSUME NEW x \in Mutexes PROVE ConDueno(k1, h1, x)
  <2>1. ConDueno(k, h, x)
    BY DEF MutexBien
  <2>2. QED
    BY <1>1, <2>1 DEF ConDueno
<1>3. QED
  BY <1>2 DEF MutexBien

\* The thread of CPU c put process p in the queue of m, which d owns and inherits.
PoneEnCola(k, h, c, p, m, h1, d, kk, k1) ==
  /\ h[c].pc = "recibir" /\ k.cpu[p] = c /\ p \in k.exec /\ k.pid_dueno[m] # Nadie
  /\ h1[c].pc = "bloquear" /\ h1[c].pid = p /\ \A e \in Cpus : e # c => h1[e] = h[e]
  /\ d = k.pid_dueno[m]
  /\ kk = [k EXCEPT !.cola_espera[m] = Append(@, p)]
  /\ k1 = IF k.estado[d] = "EXIT" THEN kk ELSE AplicarHerencia(kk, d, m)

\* A process joins the queue of a mutex that another one owns, which inherits.
LEMMA LockEsperaBien ==
  ASSUME NEW k, NEW h, NEW g, Bien(k, h, g), NEW c \in Cpus, NEW p \in Pids,
         NEW m \in Mutexes, NEW h1, NEW d, NEW kk, NEW k1, PoneEnCola(k, h, c, p, m, h1, d, kk, k1)
  PROVE  /\ Bien(k1, h1, g) /\ k1.estado = k.estado /\ k1.pid_dueno = k.pid_dueno
         /\ \A x \in Mutexes : \A y : Tiene(k1.cola_espera[x], y) <=>
                                        Tiene(k.cola_espera[x], y) \/ (x = m /\ y = p)
         /\ \A r \in Pids : Vuelve(k, r) => Vuelve(k1, r)
<1>0. /\ h[c].pc = "recibir" /\ k.cpu[p] = c /\ p \in k.exec /\ k.pid_dueno[m] # Nadie
      /\ h1[c].pc = "bloquear" /\ h1[c].pid = p /\ \A e \in Cpus : e # c => h1[e] = h[e]
      /\ d = k.pid_dueno[m]
      /\ kk = [k EXCEPT !.cola_espera[m] = Append(@, p)]
      /\ k1 = IF k.estado[d] = "EXIT" THEN kk ELSE AplicarHerencia(kk, d, m)
  BY DEF PoneEnCola
<1>1. k \in TipoKs(Cpus) /\ ListasBien(k) /\ CpusBien(k, h) /\ EsperasBien(k, h, g) /\ MutexBien(k, h)
  BY DEF Bien
<1>2. /\ kk \in TipoKs(Cpus) /\ ListasBien(kk)
      /\ kk.estado = k.estado /\ kk.exec = k.exec /\ kk.cpu = k.cpu /\ kk.timer = k.timer
      /\ kk.cpus_libres = k.cpus_libres /\ kk.prioridad = k.prioridad
      /\ kk.lista_mutex = k.lista_mutex /\ kk.cola_io = k.cola_io
      /\ kk.pid_dueno = k.pid_dueno
      /\ \A x \in Mutexes : \A y : Tiene(kk.cola_espera[x], y) <=>
                                     Tiene(k.cola_espera[x], y) \/ (x = m /\ y = p)
      /\ \A x \in Mutexes : Distintos(k.cola_espera[x]) /\ ~ Tiene(k.cola_espera[x], p) =>
                              Distintos(kk.cola_espera[x])
  <2>1. k \in TipoKs(Cpus) /\ ListasBien(k)
    BY <1>1
  <2> DEFINE kn == [k EXCEPT !.cola_espera[m] = Append(@, p)]
  <2>2. /\ kn \in TipoKs(Cpus) /\ ListasBien(kn)
        /\ kn.estado = k.estado /\ kn.exec = k.exec /\ kn.cpu = k.cpu /\ kn.timer = k.timer
        /\ kn.cpus_libres = k.cpus_libres /\ kn.prioridad = k.prioridad
        /\ kn.lista_mutex = k.lista_mutex /\ kn.cola_io = k.cola_io
        /\ kn.pid_dueno = k.pid_dueno
        /\ \A x \in Mutexes : \A y : Tiene(kn.cola_espera[x], y) <=>
                                       Tiene(k.cola_espera[x], y) \/ (x = m /\ y = p)
        /\ \A x \in Mutexes : Distintos(k.cola_espera[x]) /\ ~ Tiene(k.cola_espera[x], p) =>
                                Distintos(kn.cola_espera[x])
    BY ONLY <2>1, ColaMutexKs
  <2>3. kn = kk
    BY <1>0
  <2> HIDE DEF kn
  <2>4. QED
    BY <2>2, <2>3
<1>3. \A x \in Mutexes : x # m => kk.cola_espera[x] = k.cola_espera[x]
  BY <1>0, <1>1 DEF TipoKs
<1>4. d \in Pids /\ kk.pid_dueno[m] = d
  BY <1>0, <1>1, <1>2 DEF TipoKs
<1>5. Mejora(kk) /\ \A x \in Mutexes : x # m => Alcanza(kk, x)
  <2>1. Mejora(k) /\ \A x \in Mutexes : Alcanza(k, x)
    BY <1>1 DEF MutexBien
  <2>2. QED
    BY <1>2, <1>3, <2>1 DEF Mejora, Alcanza
<1>6. \A r \in Pids : Vuelve(k, r) => Vuelve(kk, r)
  BY <1>2 DEF Vuelve
<1>7. /\ SoloPrioridad(kk, k1, d) /\ Mejora(k1) /\ \A x \in Mutexes : Alcanza(k1, x)
      /\ \A r \in Pids : Vuelve(kk, r) => Vuelve(k1, r)
  <2>1. CASE k.estado[d] = "EXIT"
    <3>1. k1 = kk
      BY <1>0, <2>1
    <3>2. SoloPrioridad(kk, kk, d)
      BY <1>2 DEF SoloPrioridad
    <3>3. Alcanza(kk, m)
      BY <1>2, <1>4, <2>1 DEF Alcanza
    <3>4. QED
      BY <1>5, <3>1, <3>2, <3>3
  <2>2. CASE k.estado[d] # "EXIT"
    <3>1. k1 = AplicarHerencia(kk, d, m)
      BY <1>0, <2>2
    <3>2. SoloPrioridad(kk, AplicarHerencia(kk, d, m), d)
      BY <1>2, <1>4, HerenciaKs
    <3>3. /\ Mejora(AplicarHerencia(kk, d, m))
          /\ \A x \in Mutexes : Alcanza(AplicarHerencia(kk, d, m), x)
      BY <1>2, <1>4, <1>5, AplicaAlcanza
    <3>4. \A r \in Pids : Vuelve(kk, r) => Vuelve(AplicarHerencia(kk, d, m), r)
      BY <1>2, <1>4, AplicaVuelve
    <3>5. QED
      BY <3>1, <3>2, <3>3, <3>4
  <2>3. QED
    BY <2>1, <2>2
<1>8. /\ k1 \in TipoKs(Cpus) /\ ListasBien(k1)
      /\ k1.estado = k.estado /\ k1.exec = k.exec /\ k1.cpu = k.cpu /\ k1.timer = k.timer
      /\ k1.cpus_libres = k.cpus_libres /\ k1.lista_mutex = k.lista_mutex
      /\ k1.pid_dueno = k.pid_dueno /\ k1.cola_espera = kk.cola_espera /\ k1.cola_io = k.cola_io
  BY <1>2, <1>7 DEF SoloPrioridad
<1>9. CpusBien(k1, h1)
  <2>1. \A e \in Cpus : \/ h1[e] = h[e] \/ Neutro(h1[e])
                        \/ h1[e].pc = "bloquear" /\ h1[e].pid \in k.exec /\ k.cpu[h1[e].pid] = e
                        \/ Cierra(h[e]) /\ Cierra(h1[e]) /\ h1[e].pid = h[e].pid
    BY <1>0
  <2>2. k \in TipoKs(Cpus) /\ CpusBien(k, h)
    BY <1>1
  <2>3. k1.exec = k.exec /\ k1.cpus_libres = k.cpus_libres
    BY <1>8
  <2>4. \A q \in k.exec : k1.cpu[q] = k.cpu[q]
    BY <1>8
  <2>5. \A q \in Pids : k.estado[q] = "EXIT" => k1.estado[q] = "EXIT"
    BY <1>8
  <2>6. QED
    BY ONLY <2>1, <2>2, <2>3, <2>4, <2>5, CpusIgual
<1>10. /\ \A x \in Mutexes : \A y : Tiene(k1.cola_espera[x], y) <=>
                                      Tiene(k.cola_espera[x], y) \/ (x = m /\ y = p)
       /\ \A x \in Mutexes : Distintos(k.cola_espera[x]) /\ ~ Tiene(k.cola_espera[x], p) =>
                               Distintos(k1.cola_espera[x])
  BY <1>2, <1>8
<1>11. EsperasBien(k1, h1, g)
  <2>1. ListasBien(k) /\ k \in TipoKs(Cpus)
    BY <1>1
  <2>2. CpusBien(k, h)
    BY <1>1
  <2>3. EsperasBien(k, h, g)
    BY <1>1
  <2>4. SeUne(k, k1, m, p)
    BY <1>8, <1>10 DEF SeUne
  <2>5. QED
    <3>1. h[c].pc = "recibir" /\ k.cpu[p] = c /\ p \in k.exec
      BY <1>0
    <3>2. h1[c].pc = "bloquear" /\ h1[c].pid = p
      BY <1>0
    <3>3. \A e \in Cpus : e # c => h1[e] = h[e]
      BY <1>0
    <3>4. QED
      BY ONLY <2>1, <2>2, <2>3, <2>4, <3>1, <3>2, <3>3, EsperasLock
<1>12. MutexBien(k1, h1)
  <2>1. \A e \in Cpus : Cierra(h[e]) => Cierra(h1[e]) /\ h1[e].pid = h[e].pid
    BY <1>0 DEF Cierra
  <2>2. ASSUME NEW x \in Mutexes
        PROVE  /\ k1.pid_dueno[x] = Nadie => k1.cola_espera[x] = <<>>
               /\ k1.pid_dueno[x] # Nadie => Tiene(k1.lista_mutex, x)
               /\ k1.pid_dueno[x] \in {Nadie, k.pid_dueno[x]} \/ k.estado[k1.pid_dueno[x]] # "EXIT"
    <3>1. ConDueno(k, h, x)
      BY <1>1 DEF MutexBien
    <3>2. k1.pid_dueno[x] = Nadie => x # m
      BY <1>0, <1>8
    <3>3. QED
      BY <1>0, <1>3, <1>8, <3>1, <3>2 DEF ConDueno
  <2>3. MutexBien(k, h) /\ k1.estado = k.estado
    BY <1>1, <1>8
  <2>4. Mejora(k1) /\ \A x \in Mutexes : Alcanza(k1, x)
    BY <1>7
  <2>5. QED
    BY ONLY <2>1, <2>2, <2>3, <2>4, MutexArma
<1>13. QED
  BY <1>6, <1>7, <1>8, <1>9, <1>10, <1>11, <1>12 DEF Bien

\* MUTEX_UNLOCK of a mutex that nobody waits for: it is free.
LEMMA UnlockLibreBien ==
  ASSUME NEW k, NEW h, NEW g, Bien(k, h, g), NEW c \in Cpus, NEW p \in Pids,
         h[c].pc = "recibir", k.cpu[p] = c, p \in k.exec,
         NEW m \in Mutexes, k.cola_espera[m] = <<>>
  PROVE  LET k1 == DevolverPrioridad([k EXCEPT !.pid_dueno[m] = Nadie], p) IN
         /\ Bien(k1, h, g) /\ k1.estado = k.estado /\ k1.cola_espera = k.cola_espera
         /\ \A x \in Mutexes : k1.pid_dueno[x] = IF x = m THEN Nadie ELSE k.pid_dueno[x]
         /\ (\A r \in Pids : Vuelve(k, r)) => \A r \in Pids : Vuelve(k1, r)
<1> DEFINE kk == [k EXCEPT !.pid_dueno[m] = Nadie]
           k1 == DevolverPrioridad(kk, p)
<1>1. k \in TipoKs(Cpus) /\ ListasBien(k) /\ CpusBien(k, h) /\ EsperasBien(k, h, g) /\ MutexBien(k, h)
  BY DEF Bien
<1>2. /\ kk \in TipoKs(Cpus) /\ ListasBien(kk)
      /\ kk.estado = k.estado /\ kk.exec = k.exec /\ kk.cpu = k.cpu /\ kk.timer = k.timer
      /\ kk.cpus_libres = k.cpus_libres /\ kk.prioridad = k.prioridad
      /\ kk.lista_mutex = k.lista_mutex /\ kk.cola_io = k.cola_io
      /\ kk.cola_espera = k.cola_espera
      /\ \A x \in Mutexes : kk.pid_dueno[x] = IF x = m THEN Nadie ELSE k.pid_dueno[x]
  <2>1. k \in TipoKs(Cpus) /\ ListasBien(k)
    BY <1>1
  <2>2. Nadie \in Pids \cup {Nadie}
    OBVIOUS
  <2>3. QED
    BY ONLY <2>1, <2>2, m \in Mutexes, DuenoKs DEF kk
<1> HIDE DEF kk
<1>3. /\ Quienes(k, h, g, p) = {} /\ k.estado[p] = "EXEC"
  BY <1>1, CorreSinQuien
<1>4. \A x \in Mutexes : ~ Tiene(k.cola_espera[x], p)
  BY <1>3, NingunQuien
<1>5. \A w : ~ Tiene(<<>>, w)
  BY DEF Tiene
<1>6. /\ Mejora(kk) /\ \A x \in Mutexes : x # m => Alcanza(kk, x)
      /\ \A x \in Mutexes : kk.pid_dueno[x] # Nadie => Tiene(kk.lista_mutex, x)
  <2>1. Mejora(k) /\ \A x \in Mutexes : Alcanza(k, x) /\ ConDueno(k, h, x)
    BY <1>1 DEF MutexBien
  <2>2. QED
    BY <1>2, <2>1 DEF Mejora, Alcanza, ConDueno
<1>7. kk.estado[p] # "READY"
  BY <1>2, <1>3
<1>8. SoloPrioridad(kk, k1, p)
  BY <1>2, <1>7, DevolverKs
<1>9. Mejora(k1) /\ \A x \in Mutexes : x # m => Alcanza(k1, x)
  BY <1>2, <1>6, <1>7, DevuelveAlcanza
<1>10. (\A r \in Pids : Vuelve(k, r)) => \A r \in Pids : Vuelve(k1, r)
  <2>1. \A r \in Pids : Vuelve(k, r) => Vuelve(kk, r)
    BY <1>2, <1>5 DEF Vuelve
  <2>2. \A x \in Mutexes : ~ Tiene(kk.cola_espera[x], p)
    BY <1>2, <1>4
  <2>3. QED
    BY <1>2, <1>7, <2>1, <2>2, DevuelveVuelve
<1> HIDE DEF k1
<1>11. /\ k1 \in TipoKs(Cpus) /\ ListasBien(k1)
       /\ k1.estado = k.estado /\ k1.exec = k.exec /\ k1.cpu = k.cpu /\ k1.timer = k.timer
       /\ k1.cpus_libres = k.cpus_libres /\ k1.lista_mutex = k.lista_mutex
       /\ k1.cola_espera = k.cola_espera /\ k1.cola_io = k.cola_io
       /\ \A x \in Mutexes : k1.pid_dueno[x] = IF x = m THEN Nadie ELSE k.pid_dueno[x]
  BY <1>2, <1>8 DEF SoloPrioridad
<1>12. CpusBien(k1, h)
  BY <1>1, <1>11, CpusIgual
<1>13. EsperasBien(k1, h, g)
  BY <1>1, <1>11, EsperasIgual
<1>14. MutexBien(k1, h)
  <2>1. \A x \in Mutexes : Alcanza(k1, x)
    BY <1>9, <1>11 DEF Alcanza
  <2>2. ASSUME NEW x \in Mutexes
        PROVE  /\ k1.pid_dueno[x] = Nadie => k1.cola_espera[x] = <<>>
               /\ k1.pid_dueno[x] # Nadie => Tiene(k1.lista_mutex, x)
               /\ k1.pid_dueno[x] \in {Nadie, k.pid_dueno[x]} \/ k.estado[k1.pid_dueno[x]] # "EXIT"
    <3>1. ConDueno(k, h, x)
      BY <1>1 DEF MutexBien
    <3>2. QED
      BY <1>11, <3>1 DEF ConDueno
  <2>3. QED
    BY <1>1, <1>9, <1>11, <2>1, <2>2, MutexArma
<1>15. QED
  BY <1>10, <1>11, <1>12, <1>13, <1>14 DEF Bien, k1, kk

\* A process in the queue of a mutex runs, and is about to block, or is blocked.
LEMMA EsperaEstado ==
  ASSUME NEW k \in TipoKs(Cpus), ListasBien(k), NEW h, NEW g, CpusBien(k, h),
         EsperasBien(k, h, g), NEW s \in Pids, NEW m \in Mutexes, Tiene(k.cola_espera[m], s)
  PROVE  k.estado[s] \in {"BLOCK", "SUSP_BLOCK", "EXEC"}
<1>1. Espera(k, s) \/ Entra(h, s)
  BY EsperaMutex
<1>2. Entra(h, s) => s \in k.exec
  BY DEF Entra, CpusBien, EnBloqueo
<1>3. s \in k.exec => k.estado[s] = "EXEC"
  BY DEF ListasBien
<1>4. QED
  BY <1>1, <1>2, <1>3 DEF Espera

\* What passing m on to the first that waits does not disturb.
LEMMA CederAlcanza ==
  ASSUME NEW k, NEW h, NEW g, Bien(k, h, g), NEW m \in Mutexes, k.cola_espera[m] # <<>>
  PROVE  LET k1 == Ceder(k, m)
             s == Head(k.cola_espera[m]) IN
         /\ s \in Pids /\ Traspaso(k, k1, m, s) /\ k1.prioridad = k.prioridad
         /\ k1.pid_dueno[m] = s /\ k.estado[s] \in {"BLOCK", "SUSP_BLOCK", "EXEC"}
         /\ Tiene(k.cola_espera[m], s)
         /\ Mejora(k1) /\ \A x \in Mutexes : x # m => Alcanza(k1, x)
         /\ \A x \in Mutexes : k1.pid_dueno[x] # Nadie => Tiene(k1.lista_mutex, x)
         /\ \A r \in Pids : r # k.pid_dueno[m] /\ Vuelve(k, r) => Vuelve(k1, r)
<1> DEFINE k1 == Ceder(k, m)
           s == Head(k.cola_espera[m])
<1>1. k \in TipoKs(Cpus) /\ ListasBien(k) /\ CpusBien(k, h) /\ EsperasBien(k, h, g) /\ MutexBien(k, h)
  BY DEF Bien
<1>2. s \in Pids /\ Traspaso(k, k1, m, s) /\ k1.prioridad = k.prioridad
  BY <1>1, CederKs
<1> HIDE DEF k1
<1>3. /\ \A x \in Mutexes : k1.pid_dueno[x] = IF x = m THEN s ELSE k.pid_dueno[x]
      /\ \A x \in Mutexes : x # m => k1.cola_espera[x] = k.cola_espera[x]
      /\ \A y : Tiene(k.cola_espera[m], y) <=> y = s \/ Tiene(k1.cola_espera[m], y)
  <2>1. s = Head(k.cola_espera[m])
    OBVIOUS
  <2>2. s \in Pids
    BY <1>2
  <2>3. Traspaso(k, k1, m, s)
    BY <1>2
  <2> HIDE DEF s
  <2>4. k \in TipoKs(Cpus)
    BY <1>1
  <2>5. /\ \A x \in Mutexes : k1.pid_dueno[x] = IF x = m THEN s ELSE k.pid_dueno[x]
        /\ \A x \in Mutexes : x # m => k1.cola_espera[x] = k.cola_espera[x]
        /\ \A y : Tiene(k.cola_espera[m], y) <=> y = s \/ Tiene(k1.cola_espera[m], y)
        /\ Distintos(k.cola_espera[m]) =>
             Distintos(k1.cola_espera[m]) /\ ~ Tiene(k1.cola_espera[m], s)
    BY <2>1, <2>2, <2>3, <2>4, TraspasoColas
  <2>6. QED
    BY <2>5
<1> HIDE DEF s
<1>4. k1.estado = k.estado /\ k1.lista_mutex = k.lista_mutex
  BY <1>2 DEF Traspaso
<1>5. Tiene(k.cola_espera[m], s)
  BY <1>3
<1>6. k.estado[s] \in {"BLOCK", "SUSP_BLOCK", "EXEC"}
  BY <1>1, <1>2, <1>5, EsperaEstado
<1>7. Mejora(k) /\ \A x \in Mutexes : Alcanza(k, x) /\ ConDueno(k, h, x)
  BY <1>1 DEF MutexBien
<1>8. Mejora(k1) /\ \A x \in Mutexes : x # m => Alcanza(k1, x)
  BY <1>2, <1>3, <1>4, <1>7 DEF Mejora, Alcanza
<1>9. \A x \in Mutexes : k1.pid_dueno[x] # Nadie => Tiene(k1.lista_mutex, x)
  BY <1>3, <1>4, <1>7 DEF ConDueno
<1>10. \A r \in Pids : r # k.pid_dueno[m] /\ Vuelve(k, r) => Vuelve(k1, r)
  BY <1>2, <1>3, <1>4 DEF Vuelve
<1>11. k1.pid_dueno[m] = s
  BY <1>3
<1>12. QED
  BY <1>2, <1>5, <1>6, <1>8, <1>9, <1>10, <1>11 DEF k1, s

\* MUTEX_UNLOCK of a mutex that others wait for: the first of them owns it.
LEMMA UnlockCedeBien ==
  ASSUME NEW k, NEW h, NEW g, Bien(k, h, g), NEW c \in Cpus, NEW p \in Pids,
         h[c].pc = "recibir", k.cpu[p] = c, p \in k.exec,
         NEW m \in Mutexes, k.cola_espera[m] # <<>>, NEW h1,
         h1[c].pc = "despertar", h1[c].pid = Head(k.cola_espera[m]),
         h1[c].arg = k.estado[Head(k.cola_espera[m])], \A d \in Cpus : d # c => h1[d] = h[d]
  PROVE  LET s == Head(k.cola_espera[m])
             k1 == CancelarTimer(AplicarHerencia(DevolverPrioridad(Ceder(k, m), p), s, m), s) IN
         /\ Bien(k1, h1, g) /\ Traspaso(k, k1, m, s) /\ s \in Pids
         /\ k.pid_dueno[m] = p /\ (\A r \in Pids : Vuelve(k, r)) => \A r \in Pids : Vuelve(k1, r)
<1> DEFINE s == Head(k.cola_espera[m])
           ka == Ceder(k, m)
           kb == DevolverPrioridad(ka, p)
           kc == AplicarHerencia(kb, s, m)
           k1 == CancelarTimer(kc, s)
<1>1. k \in TipoKs(Cpus) /\ ListasBien(k) /\ CpusBien(k, h) /\ EsperasBien(k, h, g) /\ MutexBien(k, h)
  BY DEF Bien
<1>2. /\ s \in Pids /\ Traspaso(k, ka, m, s) /\ ka.prioridad = k.prioridad
      /\ ka.pid_dueno[m] = s /\ k.estado[s] \in {"BLOCK", "SUSP_BLOCK", "EXEC"}
      /\ Tiene(k.cola_espera[m], s)
      /\ Mejora(ka) /\ \A x \in Mutexes : x # m => Alcanza(ka, x)
      /\ \A x \in Mutexes : ka.pid_dueno[x] # Nadie => Tiene(ka.lista_mutex, x)
      /\ \A r \in Pids : r # k.pid_dueno[m] /\ Vuelve(k, r) => Vuelve(ka, r)
  BY CederAlcanza
<1>3. Quienes(k, h, g, p) = {} /\ k.estado[p] = "EXEC"
  BY <1>1, CorreSinQuien
<1>4. \A x \in Mutexes : ~ Tiene(k.cola_espera[x], p)
  BY <1>3, NingunQuien
<1> HIDE DEF ka
<1>5. /\ ka \in TipoKs(Cpus) /\ ListasBien(ka) /\ ka.estado = k.estado
  BY <1>2 DEF Traspaso
<1>6. ka.estado[p] # "READY"
  BY <1>3, <1>5
<1>7. \A x \in Mutexes : ~ Tiene(ka.cola_espera[x], p)
  <2>1. s = Head(k.cola_espera[m])
    OBVIOUS
  <2>2. s \in Pids
    BY <1>2
  <2>3. Traspaso(k, ka, m, s)
    BY <1>2
  <2> HIDE DEF s
  <2>4. k \in TipoKs(Cpus)
    BY <1>1
  <2>5. /\ \A x \in Mutexes : ka.pid_dueno[x] = IF x = m THEN s ELSE k.pid_dueno[x]
        /\ \A x \in Mutexes : x # m => ka.cola_espera[x] = k.cola_espera[x]
        /\ \A y : Tiene(k.cola_espera[m], y) <=> y = s \/ Tiene(ka.cola_espera[m], y)
        /\ Distintos(k.cola_espera[m]) =>
             Distintos(ka.cola_espera[m]) /\ ~ Tiene(ka.cola_espera[m], s)
    BY <2>1, <2>2, <2>3, <2>4, TraspasoColas
  <2>6. QED
    BY <1>4, <2>5
<1>8. SoloPrioridad(ka, kb, p)
  BY <1>5, <1>6, DevolverKs
<1>9. Mejora(kb) /\ \A x \in Mutexes : x # m => Alcanza(kb, x)
  BY <1>2, <1>5, <1>6, DevuelveAlcanza
<1>10. k.pid_dueno[m] = p /\ (\A r \in Pids : Vuelve(k, r)) => \A r \in Pids : Vuelve(kb, r)
  <2>1. k.pid_dueno[m] = p /\ (\A r \in Pids : Vuelve(k, r)) => \A r \in Pids : r # p => Vuelve(ka, r)
    BY <1>2
  <2>2. QED
    BY <1>5, <1>6, <1>7, <2>1, DevuelveVuelve
<1> HIDE DEF kb
<1>11. kb \in TipoKs(Cpus) /\ ListasBien(kb) /\ kb.pid_dueno[m] = s
  BY <1>2, <1>8 DEF SoloPrioridad
<1>12. Traspaso(k, kb, m, s)
  BY <1>2, <1>8, TraspasoSigue
<1> HIDE DEF s
<1>13. SoloPrioridad(kb, kc, s)
  BY <1>2, <1>11, HerenciaKs
<1>14. Mejora(kc) /\ \A x \in Mutexes : Alcanza(kc, x)
  BY <1>2, <1>9, <1>11, AplicaAlcanza
<1>15. \A r \in Pids : Vuelve(kb, r) => Vuelve(kc, r)
  BY <1>2, <1>11, AplicaVuelve
<1> HIDE DEF kc
<1>16. Traspaso(k, kc, m, s)
  BY <1>2, <1>12, <1>13, TraspasoSigue
<1>17. Traspaso(k, k1, m, s) /\ k1.prioridad = kc.prioridad /\ ~ k1.timer[s]
  <2>1. s \in Pids
    BY <1>2
  <2>2. QED
    BY <1>16, <2>1, TraspasoSigue
<1>18. /\ k1.estado = kc.estado /\ k1.pid_dueno = kc.pid_dueno /\ k1.cola_espera = kc.cola_espera
  <2>1. kc \in TipoKs(Cpus)
    BY <1>16 DEF Traspaso
  <2>2. QED
    BY <1>2, <2>1, CancelarCampos DEF Quieto
<1> HIDE DEF k1
<1>19. /\ Mejora(k1) /\ \A x \in Mutexes : Alcanza(k1, x)
       /\ \A r \in Pids : Vuelve(kc, r) => Vuelve(k1, r)
  BY <1>14, <1>17, <1>18 DEF Mejora, Alcanza, Vuelve
<1>20. /\ k1 \in TipoKs(Cpus) /\ ListasBien(k1)
       /\ k1.estado = k.estado /\ k1.exec = k.exec /\ k1.cpu = k.cpu
       /\ k1.cpus_libres = k.cpus_libres /\ k1.lista_mutex = k.lista_mutex
  BY <1>17 DEF Traspaso
<1>21. CpusBien(k1, h1)
  <2>1. \A d \in Cpus : \/ h1[d] = h[d] \/ Neutro(h1[d])
                        \/ h1[d].pc = "bloquear" /\ h1[d].pid \in k.exec /\ k.cpu[h1[d].pid] = d
                        \/ Cierra(h[d]) /\ Cierra(h1[d]) /\ h1[d].pid = h[d].pid
    BY DEF Neutro
  <2>2. QED
    BY <1>1, <1>20, <2>1, CpusIgual
<1>22. EsperasBien(k1, h1, g)
  <2>1. s = Head(k.cola_espera[m]) /\ h1[c].pid = s /\ h1[c].arg = k.estado[s]
    BY DEF s
  <2>2. EsperasBien(k, h, g)
    BY <1>1
  <2>3. k \in TipoKs(Cpus)
    BY <1>1
  <2>4. Traspaso(k, k1, m, s) /\ ~ k1.timer[s]
    BY <1>17
  <2>5. s \in Pids /\ k.estado[s] \in {"BLOCK", "SUSP_BLOCK", "EXEC"}
    BY <1>2
  <2>6. QED
    BY <2>1, <2>2, <2>3, <2>4, <2>5, EsperasCede
<1>23. MutexBien(k1, h1)
  <2>1. \A d \in Cpus : Cierra(h[d]) => Cierra(h1[d]) /\ h1[d].pid = h[d].pid
    BY DEF Cierra
  <2>2. /\ \A x \in Mutexes : k1.pid_dueno[x] = IF x = m THEN s ELSE k.pid_dueno[x]
        /\ \A x \in Mutexes : x # m => k1.cola_espera[x] = k.cola_espera[x]
    BY <1>1, <1>2, <1>17, TraspasoColas DEF s
  <2>3. ASSUME NEW x \in Mutexes
        PROVE  /\ k1.pid_dueno[x] = Nadie => k1.cola_espera[x] = <<>>
               /\ k1.pid_dueno[x] # Nadie => Tiene(k1.lista_mutex, x)
               /\ k1.pid_dueno[x] \in {Nadie, k.pid_dueno[x]} \/ k.estado[k1.pid_dueno[x]] # "EXIT"
    <3>1. ConDueno(k, h, x)
      BY <1>1 DEF MutexBien
    <3>2. CASE x = m
      <4>1. s # Nadie
        BY <1>2, ProcesosOK DEF Nadie
      <4>2. QED
        BY <1>2, <1>20, <2>2, <3>1, <3>2, <4>1 DEF ConDueno
    <3>3. CASE x # m
      BY <1>20, <2>2, <3>1, <3>3 DEF ConDueno
    <3>4. QED
      BY <3>2, <3>3
  <2>4. QED
    BY <1>1, <1>19, <1>20, <2>1, <2>3, MutexArma
<1>24. QED
  BY <1>2, <1>10, <1>15, <1>17, <1>19, <1>20, <1>21, <1>22, <1>23 DEF Bien, k1, kc, kb, ka, s

-----------------------------------------------------------------------------
(* The mutexes of a process that has ended.                                 *)

\* r owns x or waits for it.
Toma(k, r, x) == k.pid_dueno[x] = r \/ Tiene(k.cola_espera[x], r)

\* No mutex is owned by one that waits for it.
SinDoble(k) == \A x \in Mutexes : ~ Tiene(k.cola_espera[x], k.pid_dueno[x])

\* A process is woken up, or nothing happens to it.
Despierto(e, f) == e = f \/ (e = "BLOCK" /\ f = "READY") \/ (e = "SUSP_BLOCK" /\ f = "SUSP_READY")

\* What the release of mutexes of p may do.
Libera(k, k1, p) ==
  /\ \A r \in Pids : Despierto(k.estado[r], k1.estado[r])
  /\ \A x \in Mutexes : k1.pid_dueno[x] = p => k.pid_dueno[x] = p
  /\ k1.exec = k.exec /\ k1.cpu = k.cpu /\ k1.cpus_libres = k.cpus_libres
  /\ k1.lista_mutex = k.lista_mutex
  /\ (\A r \in Pids : Vuelve(k, r)) => \A r \in Pids : Vuelve(k1, r)
  /\ \A r \in Pids : r # p => \A x \in Mutexes : Toma(k1, r, x) <=> Toma(k, r, x)
  /\ SinDoble(k) => SinDoble(k1)

\* The mutex goes to the first that waits, whose timer has been cancelled.
LEMMA TraspasoBien ==
  ASSUME NEW k, NEW h, NEW g, Bien(k, h, g), NEW m \in Mutexes, k.cola_espera[m] # <<>>,
         NEW s \in Pids, s = Head(k.cola_espera[m]), k.estado[s] # "EXIT", NEW k1,
         Traspaso(k, k1, m, s), ~ k1.timer[s], Mejora(k1), \A x \in Mutexes : Alcanza(k1, x)
  PROVE  Bien(k1, h, g) /\ Quienes(k1, h, g, s) = {}
<1>1. k \in TipoKs(Cpus) /\ ListasBien(k) /\ CpusBien(k, h) /\ EsperasBien(k, h, g) /\ MutexBien(k, h)
  BY DEF Bien
<1>2. /\ k1 \in TipoKs(Cpus) /\ ListasBien(k1)
      /\ k1.estado = k.estado /\ k1.exec = k.exec /\ k1.cpu = k.cpu
      /\ k1.cpus_libres = k.cpus_libres /\ k1.lista_mutex = k.lista_mutex
      /\ \A r \in Pids : k1.timer[r] => k.timer[r]
  BY DEF Traspaso
<1>3. CpusBien(k1, h)
  BY <1>1, <1>2, CpusIgual
<1>4. EsperasBien(k1, h, g) /\ Quienes(k1, h, g, s) = {}
  <2> USE <1>1
  <2>1. /\ \A x \in Mutexes : Distintos(k1.cola_espera[x])
        /\ k1.cola_io = k.cola_io
        /\ Quienes(k1, h, g, s) = {}
        /\ \A r : Quienes(k1, h, g, r) \subseteq Quienes(k, h, g, r)
    BY TraspasoQuienes
  <2>2. UnoQueDespierta(k1, h, g, s)
    BY <2>1 DEF UnoQueDespierta
  <2>3. \A t \in TiposIo : Distintos(k1.cola_io[t])
    BY <1>1, <2>1 DEF EsperasBien
  <2>4. \A c \in Cpus : HiloCpuBien(k1, h[c])
    <3>1. \A c \in Cpus : HiloCpuBien(k, h[c])
      BY <1>1 DEF EsperasBien
    <3>2. QED
      BY <1>2, <3>1 DEF HiloCpuBien, Vigente
  <2>5. \A d \in Ios : HiloIoBien(k1, g[d])
    <3>1. \A d \in Ios : HiloIoBien(k, g[d])
      BY <1>1 DEF EsperasBien
    <3>2. QED
      BY <1>2, <3>1 DEF HiloIoBien, Vigente
  <2>6. ASSUME NEW r \in Pids, r # s PROVE UnoQueDespierta(k1, h, g, r)
    <3>1. UnoQueDespierta(k, h, g, r)
      BY <1>1 DEF EsperasBien
    <3>2. Quienes(k1, h, g, r) \subseteq Quienes(k, h, g, r)
      BY <2>1
    <3>3. QED
      BY <1>2, <3>1, <3>2 DEF UnoQueDespierta, Espera
  <2>7. QED
    BY <2>1, <2>2, <2>3, <2>4, <2>5, <2>6 DEF EsperasBien
<1>5. MutexBien(k1, h)
  <2>1. /\ \A x \in Mutexes : k1.pid_dueno[x] = IF x = m THEN s ELSE k.pid_dueno[x]
        /\ \A x \in Mutexes : x # m => k1.cola_espera[x] = k.cola_espera[x]
        /\ \A y : Tiene(k.cola_espera[m], y) <=> y = s \/ Tiene(k1.cola_espera[m], y)
        /\ Distintos(k.cola_espera[m]) =>
             Distintos(k1.cola_espera[m]) /\ ~ Tiene(k1.cola_espera[m], s)
    BY <1>1, TraspasoColas
  <2>2. ASSUME NEW x \in Mutexes
        PROVE  /\ k1.pid_dueno[x] = Nadie => k1.cola_espera[x] = <<>>
               /\ k1.pid_dueno[x] # Nadie => Tiene(k1.lista_mutex, x)
               /\ k1.pid_dueno[x] \in {Nadie, k.pid_dueno[x]} \/ k.estado[k1.pid_dueno[x]] # "EXIT"
    <3>1. ConDueno(k, h, x)
      BY <1>1 DEF MutexBien
    <3>2. CASE x = m
      <4>1. s # Nadie
        BY ProcesosOK DEF Nadie
      <4>2. QED
        BY <1>2, <2>1, <3>1, <3>2, <4>1 DEF ConDueno
    <3>3. CASE x # m
      BY <1>2, <2>1, <3>1, <3>3 DEF ConDueno
    <3>4. QED
      BY <3>2, <3>3
  <2>3. QED
    BY <1>1, <1>2, <2>2, MutexArma
<1>6. QED
  BY <1>2, <1>3, <1>4, <1>5 DEF Bien

\* What passing m on changes for those who own and for those who wait.
LEMMA TraspasoToma ==
  ASSUME NEW k, NEW h, NEW g, Bien(k, h, g), NEW m \in Mutexes, k.cola_espera[m] # <<>>,
         NEW s \in Pids, s = Head(k.cola_espera[m]), NEW k1, Traspaso(k, k1, m, s)
  PROVE  /\ \A r \in Pids : r # k.pid_dueno[m] =>
              \A x \in Mutexes : Toma(k1, r, x) <=> Toma(k, r, x)
         /\ \A x \in Mutexes : x # m => \A r \in Pids : Toma(k1, r, x) <=> Toma(k, r, x)
         /\ SinDoble(k) => SinDoble(k1) /\ s # k.pid_dueno[m]
         /\ SinDoble(k) => ~ Toma(k1, k.pid_dueno[m], m)
         /\ \A x \in Mutexes : k1.pid_dueno[x] = IF x = m THEN s ELSE k.pid_dueno[x]
<1>1. k \in TipoKs(Cpus) /\ EsperasBien(k, h, g)
  BY DEF Bien
<1>2. /\ \A x \in Mutexes : k1.pid_dueno[x] = IF x = m THEN s ELSE k.pid_dueno[x]
      /\ \A x \in Mutexes : x # m => k1.cola_espera[x] = k.cola_espera[x]
      /\ \A y : Tiene(k.cola_espera[m], y) <=> y = s \/ Tiene(k1.cola_espera[m], y)
      /\ Distintos(k.cola_espera[m]) =>
           Distintos(k1.cola_espera[m]) /\ ~ Tiene(k1.cola_espera[m], s)
  BY <1>1, TraspasoColas
<1>3. Distintos(k.cola_espera[m])
  BY <1>1 DEF EsperasBien
<1>4. ASSUME NEW r \in Pids, NEW x \in Mutexes, r # k.pid_dueno[m] \/ x # m
      PROVE  Toma(k1, r, x) <=> Toma(k, r, x)
  <2>1. CASE x = m
    BY <1>2, <1>4, <2>1 DEF Toma
  <2>2. CASE x # m
    BY <1>2, <2>2 DEF Toma
  <2>3. QED
    BY <2>1, <2>2
<1>5. SinDoble(k) => SinDoble(k1) /\ s # k.pid_dueno[m] /\ ~ Toma(k1, k.pid_dueno[m], m)
  <2>1. SinDoble(k) => s # k.pid_dueno[m]
    BY <1>2 DEF SinDoble
  <2>2. SinDoble(k) => SinDoble(k1)
    BY <1>2, <1>3 DEF SinDoble
  <2>3. SinDoble(k) => ~ Tiene(k.cola_espera[m], k.pid_dueno[m])
    BY DEF SinDoble
  <2>4. QED
    BY <1>2, <2>1, <2>2, <2>3 DEF Toma
<1>6. QED
  BY <1>2, <1>4, <1>5

\* A mutex of the process that ended becomes nobody's.
LEMMA LiberaLibre ==
  ASSUME NEW k, NEW h, NEW g, Bien(k, h, g), NEW p \in Pids, k.estado[p] = "EXIT",
         NEW m \in Mutexes, k.pid_dueno[m] = p, k.cola_espera[m] = <<>>
  PROVE  LET k1 == [k EXCEPT !.pid_dueno[m] = Nadie] IN
         Bien(k1, h, g) /\ Libera(k, k1, p) /\ k1.pid_dueno[m] # p
<1> DEFINE k1 == [k EXCEPT !.pid_dueno[m] = Nadie]
<1>1. k \in TipoKs(Cpus) /\ ListasBien(k) /\ CpusBien(k, h) /\ EsperasBien(k, h, g) /\ MutexBien(k, h)
  BY DEF Bien
<1>2. /\ k1 \in TipoKs(Cpus) /\ ListasBien(k1)
      /\ k1.estado = k.estado /\ k1.exec = k.exec /\ k1.cpu = k.cpu /\ k1.timer = k.timer
      /\ k1.cpus_libres = k.cpus_libres /\ k1.prioridad = k.prioridad
      /\ k1.lista_mutex = k.lista_mutex /\ k1.cola_io = k.cola_io
      /\ k1.cola_espera = k.cola_espera
      /\ \A x \in Mutexes : k1.pid_dueno[x] = IF x = m THEN Nadie ELSE k.pid_dueno[x]
  BY <1>1, DuenoKs
<1> HIDE DEF k1
<1>3. \A w : ~ Tiene(<<>>, w)
  BY DEF Tiene
<1>4. \A x \in Mutexes : Alcanza(k, x) /\ ConDueno(k, h, x)
  BY <1>1 DEF MutexBien
<1>5. Mejora(k1) /\ \A x \in Mutexes : Alcanza(k1, x)
  BY <1>1, <1>2, <1>4 DEF Mejora, Alcanza, MutexBien
<1>6. CpusBien(k1, h)
  BY <1>1, <1>2, CpusIgual
<1>7. EsperasBien(k1, h, g)
  BY <1>1, <1>2, EsperasIgual
<1>8. MutexBien(k1, h)
  <2>1. ASSUME NEW x \in Mutexes
        PROVE  /\ k1.pid_dueno[x] = Nadie => k1.cola_espera[x] = <<>>
               /\ k1.pid_dueno[x] # Nadie => Tiene(k1.lista_mutex, x)
               /\ k1.pid_dueno[x] \in {Nadie, k.pid_dueno[x]} \/ k.estado[k1.pid_dueno[x]] # "EXIT"
    BY <1>2, <1>4 DEF ConDueno
  <2>2. QED
    BY <1>1, <1>2, <1>5, <2>1, MutexArma
<1>9. p # Nadie
  BY ProcesosOK DEF Nadie
<1>10. Libera(k, k1, p)
  <2>1. \A r \in Pids : Vuelve(k, r) => Vuelve(k1, r)
    BY <1>2, <1>3 DEF Vuelve
  <2>2. \A r \in Pids : r # p => \A x \in Mutexes : Toma(k1, r, x) <=> Toma(k, r, x)
    <3>1. \A r \in Pids : r # Nadie
      BY ProcesosOK DEF Nadie
    <3>2. QED
      BY <1>2, <3>1 DEF Toma
  <2>3. SinDoble(k) => SinDoble(k1)
    BY <1>2, <1>3 DEF SinDoble
  <2>4. QED
    BY <1>2, <1>9, <2>1, <2>2, <2>3 DEF Libera, Despierto
<1>11. QED
  BY <1>2, <1>6, <1>7, <1>8, <1>9, <1>10 DEF Bien, k1

\* A mutex of the process that ended goes to the first that waits, which wakes up.
LEMMA LiberaCede ==
  ASSUME NEW k, NEW h, NEW g, Bien(k, h, g), NEW p \in Pids, k.estado[p] = "EXIT",
         NEW m \in Mutexes, k.pid_dueno[m] = p, k.cola_espera[m] # <<>>
  PROVE  LET s == Head(k.cola_espera[m])
             k1 == Despertar(CancelarTimer(AplicarHerencia(Ceder(k, m), s, m), s), s, k.estado[s]) IN
         Bien(k1, h, g) /\ Libera(k, k1, p) /\ k1.pid_dueno[m] # p
<1> DEFINE s == Head(k.cola_espera[m])
           ka == Ceder(k, m)
           kb == AplicarHerencia(ka, s, m)
           kc == CancelarTimer(kb, s)
           k1 == Despertar(kc, s, k.estado[s])
<1>1. /\ s \in Pids /\ Traspaso(k, ka, m, s) /\ ka.prioridad = k.prioridad
      /\ ka.pid_dueno[m] = s /\ k.estado[s] \in {"BLOCK", "SUSP_BLOCK", "EXEC"}
      /\ Tiene(k.cola_espera[m], s)
      /\ Mejora(ka) /\ \A x \in Mutexes : x # m => Alcanza(ka, x)
      /\ \A x \in Mutexes : ka.pid_dueno[x] # Nadie => Tiene(ka.lista_mutex, x)
      /\ \A r \in Pids : r # k.pid_dueno[m] /\ Vuelve(k, r) => Vuelve(ka, r)
  BY CederAlcanza
<1>2. s = Head(k.cola_espera[m])
  OBVIOUS
<1> HIDE DEF s
<1> HIDE DEF ka
<1>3. ka \in TipoKs(Cpus) /\ ListasBien(ka) /\ ka.estado = k.estado
  BY <1>1 DEF Traspaso
<1>4. SoloPrioridad(ka, kb, s)
  BY <1>1, <1>3, HerenciaKs
<1>5. Mejora(kb) /\ \A x \in Mutexes : Alcanza(kb, x)
  BY <1>1, <1>3, AplicaAlcanza
<1>6. (\A r \in Pids : Vuelve(k, r)) => \A r \in Pids : Vuelve(kb, r)
  <2>1. Vuelve(ka, p)
    BY <1>3 DEF Vuelve
  <2>2. (\A r \in Pids : Vuelve(k, r)) => \A r \in Pids : Vuelve(ka, r)
    BY <1>1, <2>1
  <2>3. QED
    BY <1>1, <1>3, <2>2, AplicaVuelve
<1> HIDE DEF kb
<1>7. s \in Pids
  BY <1>1
<1>8. Traspaso(k, kb, m, s)
  BY <1>1, <1>4, <1>7, TraspasoSigue
<1>9. Traspaso(k, kc, m, s) /\ kc.prioridad = kb.prioridad /\ ~ kc.timer[s]
  BY <1>7, <1>8, TraspasoSigue
<1>10. kc.estado = kb.estado /\ kc.pid_dueno = kb.pid_dueno /\ kc.cola_espera = kb.cola_espera
  <2>1. kb \in TipoKs(Cpus)
    BY <1>8 DEF Traspaso
  <2>2. QED
    BY <1>7, <2>1, CancelarCampos DEF Quieto
<1> HIDE DEF kc
<1>11. /\ Mejora(kc) /\ \A x \in Mutexes : Alcanza(kc, x)
       /\ (\A r \in Pids : Vuelve(k, r)) => \A r \in Pids : Vuelve(kc, r)
  BY <1>5, <1>6, <1>9, <1>10 DEF Mejora, Alcanza, Vuelve
<1>12. k.estado[s] # "EXIT" /\ Traspaso(k, kc, m, s) /\ ~ kc.timer[s] /\ Mejora(kc)
  BY <1>1, <1>9, <1>11
<1>13. Bien(kc, h, g) /\ Quienes(kc, h, g, s) = {}
  BY <1>2, <1>7, <1>11, <1>12, TraspasoBien
<1>14. /\ \A r \in Pids : r # p => \A x \in Mutexes : Toma(kc, r, x) <=> Toma(k, r, x)
       /\ SinDoble(k) => SinDoble(kc)
       /\ \A x \in Mutexes : kc.pid_dueno[x] = IF x = m THEN s ELSE k.pid_dueno[x]
  BY <1>2, <1>7, <1>9, TraspasoToma
<1>15. s # p
  BY <1>1
<1>16. /\ kc.estado = k.estado /\ kc.exec = k.exec /\ kc.cpu = k.cpu
       /\ kc.cpus_libres = k.cpus_libres /\ kc.lista_mutex = k.lista_mutex
       /\ kc.cola_io = k.cola_io
  BY <1>9 DEF Traspaso
<1>17. CASE k.estado[s] = "EXEC"
  <2>1. k1 = kc
    BY <1>17 DEF Despertar
  <2>2. Libera(k, kc, p)
    BY <1>11, <1>14, <1>15, <1>16 DEF Libera, Despierto
  <2>3. QED
    BY <1>13, <1>14, <1>15, <2>1, <2>2 DEF k1, kc, kb, ka, s
<1>18. CASE k.estado[s] \in {"BLOCK", "SUSP_BLOCK"}
  <2>1. /\ \A x \in Mutexes : ~ Tiene(kc.cola_espera[x], s)
        /\ \A t \in TiposIo : ~ Tiene(kc.cola_io[t], s)
        /\ \A c \in Cpus : ~ HiloDespierta(h[c], s)
        /\ \A d \in Ios : g[d].pid # s
    <3>1. Quienes(kc, h, g, s) = {}
      BY <1>13
    <3>2. QED
      BY <3>1, NingunQuien
  <2>2. kc.estado[s] \in {"BLOCK", "SUSP_BLOCK"} /\ ~ kc.timer[s]
    BY <1>9, <1>16, <1>18
  <2>3. k1 = Despertar(kc, s, kc.estado[s])
    BY <1>16
  <2> DEFINE e == IF kc.estado[s] = "BLOCK" THEN "READY" ELSE "SUSP_READY"
  <2>4. Bien(Despertar(kc, s, kc.estado[s]), h, g) /\ Mueve(kc, Despertar(kc, s, kc.estado[s]), s, e)
    BY <1>7, <1>13, <2>1, <2>2, DespiertaBien
  <2>5. Bien(k1, h, g) /\ Mueve(kc, k1, s, e)
    BY <2>3, <2>4
  <2> HIDE DEF k1
  <2>6. kc \in TipoKs(Cpus) /\ ListasBien(kc)
    BY <1>13 DEF Bien
  <2>7. k1.exec = kc.exec /\ k1.cpus_libres = kc.cpus_libres /\ k1.cpu = kc.cpu
    BY <1>7, <2>2, <2>3, <2>6, DespertarKs
  <2>8. k1.estado = [kc.estado EXCEPT ![s] = e] /\ Quieto(kc, k1)
    BY <2>5 DEF Mueve
  <2>9. \A r \in Pids : Despierto(k.estado[r], k1.estado[r])
    <3>1. k.estado[s] = "BLOCK" => e = "READY"
      BY <1>16
    <3>2. k.estado[s] = "SUSP_BLOCK" => e = "SUSP_READY"
      BY <1>16
    <3> HIDE DEF e
    <3>3. \A r \in Pids : k1.estado[r] = IF r = s THEN e ELSE k.estado[r]
      BY <1>16, <2>6, <2>8 DEF TipoKs
    <3>4. QED
      BY <1>18, <3>1, <3>2, <3>3 DEF Despierto
  <2>10. \A r \in Pids : Vuelve(kc, r) => Vuelve(k1, r)
    <3>1. \A r \in Pids : k1.estado[r] # "EXIT" => kc.estado[r] # "EXIT"
      BY <2>2, <2>6, <2>8 DEF TipoKs
    <3>2. QED
      BY <2>8, <3>1 DEF Vuelve, Quieto
  <2>11. /\ \A r \in Pids : r # p => \A x \in Mutexes : Toma(k1, r, x) <=> Toma(k, r, x)
         /\ SinDoble(k) => SinDoble(k1)
         /\ k1.pid_dueno = kc.pid_dueno /\ k1.lista_mutex = k.lista_mutex
    BY <1>14, <1>16, <2>8 DEF Quieto, Toma, SinDoble
  <2>12. (\A r \in Pids : Vuelve(k, r)) => \A r \in Pids : Vuelve(k1, r)
    BY <1>11, <2>10
  <2>13. \A x \in Mutexes : k1.pid_dueno[x] = p => k.pid_dueno[x] = p
    BY <1>14, <1>15, <2>11
  <2>14. Libera(k, k1, p)
    BY <1>16, <2>7, <2>9, <2>11, <2>12, <2>13 DEF Libera
  <2>15. QED
    BY <1>14, <1>15, <2>5, <2>11, <2>14 DEF k1, kc, kb, ka, s
<1>19. QED
  BY <1>1, <1>17, <1>18

\* liberar_mutex_del_proceso, for one mutex.
LEMMA LiberaUno ==
  ASSUME NEW k, NEW h, NEW g, Bien(k, h, g), NEW p \in Pids, k.estado[p] = "EXIT",
         NEW m \in Mutexes
  PROVE  LET k1 == LiberarMutex(k, p, m) IN
         Bien(k1, h, g) /\ Libera(k, k1, p) /\ k1.pid_dueno[m] # p
<1>1. CASE k.pid_dueno[m] # p
  <2>1. LiberarMutex(k, p, m) = k
    BY <1>1 DEF LiberarMutex
  <2>2. Libera(k, k, p)
    BY DEF Libera, Despierto
  <2>3. QED
    BY <1>1, <2>1, <2>2
<1>2. CASE k.pid_dueno[m] = p /\ k.cola_espera[m] = <<>>
  <2>1. LiberarMutex(k, p, m) = [k EXCEPT !.pid_dueno[m] = Nadie]
    BY <1>2 DEF LiberarMutex
  <2>2. QED
    BY <1>2, <2>1, LiberaLibre
<1>3. CASE k.pid_dueno[m] = p /\ k.cola_espera[m] # <<>>
  <2> DEFINE s == Head(k.cola_espera[m])
             k1 == Despertar(CancelarTimer(AplicarHerencia(Ceder(k, m), s, m), s), s, k.estado[s])
  <2>1. LiberarMutex(k, p, m) = k1
    BY <1>3 DEF LiberarMutex
  <2>2. Bien(k1, h, g) /\ Libera(k, k1, p) /\ k1.pid_dueno[m] # p
    BY <1>3, LiberaCede
  <2> HIDE DEF k1
  <2>3. QED
    BY <2>1, <2>2
<1>4. QED
  BY <1>1, <1>2, <1>3

\* liberar_mutex_del_proceso goes through lista_mutex, one mutex after the other.
LEMMA TrasPasoAPaso ==
  ASSUME NEW k, NEW p, k.lista_mutex \in Seq(Mutexes)
  PROVE  \E f : /\ f[0] = k
                /\ \A n \in 1 .. Len(k.lista_mutex) :
                     f[n] = LiberarMutex(f[n - 1], p, k.lista_mutex[n])
                /\ LiberarMutexDelProceso(k, p) = f[Len(k.lista_mutex)]
<1> DEFINE N == Len(k.lista_mutex)
           G(r, n) == LiberarMutex(r, p, k.lista_mutex[n])
           Es(f, n) == f[0] = k /\ \A i \in 1 .. n : f[i] = G(f[i - 1], i)
           B == {n \in 0 .. N : \E f : Es(f, n)}
<1>0. N \in Nat
  BY LenProperties
<1>1. LiberarMutexDelProceso(k, p) =
        (CHOOSE s : s = [n \in 0 .. N |-> IF n = 0 THEN k ELSE G(s[n - 1], n)])[N]
  BY DEF LiberarMutexDelProceso
<1> HIDE DEF G, N
<1>2. 0 \in B
  <2>1. Es([i \in 0 .. 0 |-> k], 0)
    OBVIOUS
  <2>2. 0 \in 0 .. N
    BY <1>0
  <2> HIDE DEF Es
  <2>3. \E f : Es(f, 0)
    BY <2>1
  <2>4. QED
    BY <2>2, <2>3
<1>3. ASSUME NEW n \in 0 .. N - 1, n \in B PROVE n + 1 \in B
  <2>1. PICK f : Es(f, n)
    BY <1>3
  <2>2. n + 1 \in 0 .. N /\ n \in Nat
    BY <1>0
  <2> DEFINE g == [i \in 0 .. n + 1 |-> IF i = n + 1 THEN G(f[n], n + 1) ELSE f[i]]
  <2>3. g[0] = k
    BY <2>1, <2>2
  <2>4. ASSUME NEW i \in 1 .. n + 1 PROVE g[i] = G(g[i - 1], i)
    <3>1. CASE i = n + 1
      <4>1. i - 1 = n /\ g[n] = f[n] /\ g[n + 1] = G(f[n], n + 1)
        BY <2>2, <3>1
      <4>2. QED
        BY <3>1, <4>1
    <3>2. CASE i # n + 1
      <4>1. i \in 1 .. n /\ g[i] = f[i] /\ g[i - 1] = f[i - 1]
        BY <2>2, <3>2
      <4>2. QED
        BY <2>1, <4>1
    <3>3. QED
      BY <3>1, <3>2
  <2> HIDE DEF g
  <2>5. Es(g, n + 1)
    BY <2>3, <2>4
  <2> HIDE DEF Es
  <2>6. QED
    BY <2>2, <2>5
<1>4. N \in B
  <2> HIDE DEF B
  <2>1. 0 .. N \subseteq B
    BY <1>0, <1>2, <1>3, InduccionHasta
  <2>2. QED
    BY <1>0, <2>1
<1>5. PICK f : Es(f, N)
  BY <1>4
<1> DEFINE F == [n \in 0 .. N |-> f[n]]
<1>6. F = [n \in 0 .. N |-> IF n = 0 THEN k ELSE G(F[n - 1], n)]
  <2>1. ASSUME NEW n \in 0 .. N PROVE f[n] = IF n = 0 THEN k ELSE G(F[n - 1], n)
    <3>1. CASE n = 0
      BY <1>5, <3>1
    <3>2. CASE n # 0
      <4>1. n \in 1 .. N /\ n - 1 \in 0 .. N
        BY <1>0, <3>2
      <4>2. F[n - 1] = f[n - 1]
        BY <4>1
      <4>3. QED
        BY <1>5, <3>2, <4>1, <4>2
    <3>3. QED
      BY <3>1, <3>2
  <2>2. QED
    BY <2>1
<1> DEFINE T == CHOOSE s : s = [n \in 0 .. N |-> IF n = 0 THEN k ELSE G(s[n - 1], n)]
<1> HIDE DEF F
<1>7. T = [n \in 0 .. N |-> IF n = 0 THEN k ELSE G(T[n - 1], n)]
  BY <1>6
<1>8. LiberarMutexDelProceso(k, p) = T[N]
  BY <1>1
<1> HIDE DEF T
<1>9. T[0] = k /\ \A n \in 1 .. N : T[n] = G(T[n - 1], n)
  BY <1>0, <1>7
<1>10. QED
  BY <1>8, <1>9 DEF G, N

\* Libera, one step after another.
LEMMA LiberaDespues ==
  ASSUME NEW k, NEW k1, NEW k2, NEW p, Libera(k, k1, p), Libera(k1, k2, p)
  PROVE  Libera(k, k2, p)
<1>1. \A r \in Pids : Despierto(k.estado[r], k2.estado[r])
  BY DEF Libera, Despierto
<1>2. \A r \in Pids : r # p => \A x \in Mutexes : Toma(k2, r, x) <=> Toma(k, r, x)
  BY DEF Libera
<1>3. QED
  BY <1>1, <1>2 DEF Libera

\* liberar_mutex_del_proceso: a process that has ended owns no mutex any more.
LEMMA LiberaTodo ==
  ASSUME NEW k, NEW h, NEW g, Bien(k, h, g), NEW p \in Pids, k.estado[p] = "EXIT"
  PROVE  LET k1 == LiberarMutexDelProceso(k, p) IN
         Bien(k1, h, g) /\ Libera(k, k1, p) /\ \A x \in Mutexes : k1.pid_dueno[x] # p
<1> DEFINE L == k.lista_mutex
<1>1. L \in Seq(Mutexes) /\ Len(L) \in Nat /\ \A n \in 1 .. Len(L) : L[n] \in Mutexes
  <2>1. L \in Seq(Mutexes)
    BY DEF Bien, TipoKs
  <2>2. QED
    BY <2>1, LenProperties, ElementOfSeq
<1> HIDE DEF L
<1>2. PICK f : /\ f[0] = k
               /\ \A n \in 1 .. Len(L) : f[n] = LiberarMutex(f[n - 1], p, L[n])
               /\ LiberarMutexDelProceso(k, p) = f[Len(L)]
  BY <1>1, TrasPasoAPaso DEF L
<1> DEFINE I(n) == /\ Bien(f[n], h, g) /\ Libera(k, f[n], p)
                   /\ \A i \in 1 .. n : f[n].pid_dueno[L[i]] # p
           B == {n \in 0 .. Len(L) : I(n)}
<1>3. 0 \in B
  <2>1. Libera(k, k, p)
    BY DEF Libera, Despierto
  <2>2. I(0)
    BY <1>2, <2>1
  <2>3. QED
    BY <1>1, <2>2
<1>4. ASSUME NEW n \in 0 .. Len(L) - 1, n \in B PROVE n + 1 \in B
  <2>1. n + 1 \in 0 .. Len(L) /\ n + 1 \in 1 .. Len(L) /\ n \in Nat /\ (n + 1) - 1 = n
    BY <1>1
  <2>2. L[n + 1] \in Mutexes /\ f[n + 1] = LiberarMutex(f[n], p, L[n + 1])
    BY <1>1, <1>2, <2>1
  <2>3. I(n)
    BY <1>4
  <2>4. f[n].estado[p] = "EXIT"
    BY <2>3 DEF Libera, Despierto
  <2>5. /\ Bien(f[n + 1], h, g) /\ Libera(f[n], f[n + 1], p)
        /\ f[n + 1].pid_dueno[L[n + 1]] # p
    BY <2>2, <2>3, <2>4, LiberaUno
  <2>6. Libera(k, f[n + 1], p)
    BY <2>3, <2>5, LiberaDespues
  <2>7. ASSUME NEW i \in 1 .. n + 1 PROVE f[n + 1].pid_dueno[L[i]] # p
    <3>1. CASE i = n + 1
      BY <2>5, <3>1
    <3>2. CASE i # n + 1
      <4>1. i \in 1 .. n /\ i \in 1 .. Len(L)
        BY <2>1, <3>2
      <4>2. f[n].pid_dueno[L[i]] # p /\ L[i] \in Mutexes
        BY <1>1, <2>3, <4>1
      <4>3. \A x \in Mutexes : f[n + 1].pid_dueno[x] = p => f[n].pid_dueno[x] = p
        BY <2>5 DEF Libera
      <4>4. QED
        BY <4>2, <4>3
    <3>3. QED
      BY <3>1, <3>2
  <2>8. I(n + 1)
    BY <2>5, <2>6, <2>7
  <2> HIDE DEF I
  <2>9. QED
    BY <2>1, <2>8
<1>5. I(Len(L))
  <2> HIDE DEF I
  <2>1. Len(L) \in B
    <3> HIDE DEF B
    <3>1. 0 .. Len(L) \subseteq B
      BY <1>1, <1>3, <1>4, InduccionHasta
    <3>2. QED
      BY <1>1, <3>1
  <2>2. QED
    BY <2>1
<1> DEFINE k1 == f[Len(L)]
<1> HIDE DEF k1
<1>6. Bien(k1, h, g) /\ Libera(k, k1, p) /\ \A i \in 1 .. Len(L) : k1.pid_dueno[L[i]] # p
  BY <1>5 DEF k1
<1>7. ASSUME NEW x \in Mutexes, k1.pid_dueno[x] = p PROVE FALSE
  <2>1. p # Nadie
    BY ProcesosOK DEF Nadie
  <2>2. Tiene(k1.lista_mutex, x)
    BY <1>6, <1>7, <2>1 DEF Bien, MutexBien, ConDueno
  <2>3. k1.lista_mutex = L
    BY <1>6 DEF Libera, L
  <2>4. DOMAIN L = 1 .. Len(L)
    BY <1>1, LenProperties
  <2>5. PICK i \in 1 .. Len(L) : L[i] = x
    BY <2>2, <2>3, <2>4 DEF Tiene
  <2>6. QED
    BY <1>6, <1>7, <2>5
<1>8. QED
  BY <1>2, <1>6, <1>7 DEF k1

\* The end of manejar_proceso_exit: the mutexes, and the CPU is free.
LEMMA ExitLiberaBien ==
  ASSUME NEW k, NEW h, NEW g, Bien(k, h, g), NEW c \in Cpus, h[c].pc = "liberar", NEW h1,
         h1[c].pc = "recibir", \A d \in Cpus : d # c => h1[d] = h[d]
  PROVE  LET p  == h[c].pid
             k1 == LiberarCpu(LiberarMutexDelProceso(k, p), c) IN
         /\ Bien(k1, h1, g) /\ p \in Pids /\ k.estado[p] = "EXIT"
         /\ \A r \in Pids : Despierto(k.estado[r], k1.estado[r])
         /\ (\A r \in Pids : Vuelve(k, r)) => \A r \in Pids : Vuelve(k1, r)
         /\ \A r \in Pids : r # p => \A x \in Mutexes : Toma(k1, r, x) <=> Toma(k, r, x)
         /\ SinDoble(k) => SinDoble(k1)
<1> DEFINE p  == h[c].pid
           kk == LiberarMutexDelProceso(k, p)
           k1 == LiberarCpu(kk, c)
<1>1. p \in Pids /\ k.estado[p] = "EXIT"
  BY DEF Bien, CpusBien, EnCierre, Cierra
<1> HIDE DEF p
<1>2. Bien(kk, h, g) /\ Libera(k, kk, p) /\ \A x \in Mutexes : kk.pid_dueno[x] # p
  BY <1>1, LiberaTodo
<1> HIDE DEF kk
<1>3. kk \in TipoKs(Cpus) /\ ListasBien(kk) /\ CpusBien(kk, h) /\ EsperasBien(kk, h, g) /\ MutexBien(kk, h)
  BY <1>2 DEF Bien
<1>4. /\ k1 \in TipoKs(Cpus) /\ k1.estado = kk.estado /\ k1.exec = kk.exec
      /\ k1.cpu = kk.cpu /\ k1.timer = kk.timer
      /\ k1.cpus_libres = Append(kk.cpus_libres, c)
      /\ Quieto(kk, k1) /\ ListasBien(k1)
  BY <1>3, LiberarCampos
<1> HIDE DEF k1
<1>5. CpusBien(k1, h1)
  <2>1. Cierra(h[c]) /\ Neutro(h1[c])
    BY DEF Cierra, Neutro
  <2>2. QED
    BY <1>3, <1>4, <2>1, CpusLibera
<1>6. k1.prioridad = kk.prioridad /\ k1.lista_mutex = kk.lista_mutex /\ k1.pid_dueno = kk.pid_dueno
      /\ k1.cola_espera = kk.cola_espera /\ k1.cola_io = kk.cola_io
  BY <1>4 DEF Quieto
<1>7. EsperasBien(k1, h1, g)
  <2>1. \A d \in Cpus : h1[d] = h[d] \/ (h[d].pc # "bloquear" /\ h1[d].pc \notin {"despertar", "pedir_io"})
    OBVIOUS
  <2>2. QED
    BY <1>3, <1>4, <1>6, <2>1, EsperasIgual
<1>8. MutexBien(k1, h1)
  <2>1. ASSUME NEW x \in Mutexes PROVE ConDueno(k1, h1, x) /\ Alcanza(k1, x)
    <3>1. ConDueno(kk, h, x) /\ Alcanza(kk, x)
      BY <1>3 DEF MutexBien
    <3>2. ASSUME kk.pid_dueno[x] # Nadie, Cerrado(h, kk.pid_dueno[x]) PROVE Cerrado(h1, kk.pid_dueno[x])
      <4>1. PICK d \in Cpus : h[d].pid = kk.pid_dueno[x] /\ Cierra(h[d])
        BY <3>2 DEF Cerrado
      <4>2. d # c
        BY <1>2, <4>1 DEF p
      <4>3. QED
        BY <4>1, <4>2 DEF Cerrado
    <3>3. QED
      BY <1>4, <1>6, <3>1, <3>2 DEF ConDueno, Alcanza
  <2>2. Mejora(k1)
    BY <1>3, <1>6 DEF MutexBien, Mejora
  <2>3. QED
    BY <2>1, <2>2 DEF MutexBien
<1>9. /\ \A r \in Pids : Despierto(k.estado[r], k1.estado[r])
      /\ (\A r \in Pids : Vuelve(k, r)) => \A r \in Pids : Vuelve(k1, r)
      /\ \A r \in Pids : r # p => \A x \in Mutexes : Toma(k1, r, x) <=> Toma(k, r, x)
      /\ SinDoble(k) => SinDoble(k1)
  <2>1. \A r \in Pids : Despierto(k.estado[r], k1.estado[r])
    BY <1>2, <1>4 DEF Libera
  <2>2. (\A r \in Pids : Vuelve(k, r)) => \A r \in Pids : Vuelve(k1, r)
    BY <1>2, <1>4, <1>6 DEF Libera, Vuelve
  <2>3. \A r \in Pids : r # p => \A x \in Mutexes : Toma(k1, r, x) <=> Toma(k, r, x)
    BY <1>2, <1>6 DEF Libera, Toma
  <2>4. SinDoble(k) => SinDoble(k1)
    BY <1>2, <1>6 DEF Libera, SinDoble
  <2>5. QED
    BY <2>1, <2>2, <2>3, <2>4
<1>10. QED
  BY <1>1, <1>4, <1>5, <1>7, <1>8, <1>9 DEF Bien, k1, kk, p

-----------------------------------------------------------------------------
(* The programs.                                                            *)

\* What one more instruction changes of what a program has taken.
LEMMA TomadoSigue ==
  ASSUME NEW q, NEW i \in Nat \ {0}, NEW m
  PROVE  /\ q[i].op = "MUTEX_LOCK" /\ q[i].arg = m => Tomado(q, i + 1, m)
         /\ q[i].op = "MUTEX_UNLOCK" /\ q[i].arg = m => ~ Tomado(q, i + 1, m)
         /\ q[i].op \notin {"MUTEX_LOCK", "MUTEX_UNLOCK"} \/ q[i].arg # m =>
              (Tomado(q, i + 1, m) <=> Tomado(q, i, m))
<1> DEFINE Lock(j) == q[j].op = "MUTEX_LOCK" /\ q[j].arg = m
           Unlock(j) == q[j].op = "MUTEX_UNLOCK" /\ q[j].arg = m
<1>1. /\ (i + 1) - 1 = i /\ i - 1 \in Nat
      /\ \A j \in 1 .. i : j = i \/ j \in 1 .. i - 1
      /\ \A j \in 1 .. i - 1 : j \in 1 .. i /\ i \in j + 1 .. i /\ j # i
      /\ i \in 1 .. i
  OBVIOUS
<1>2. Tomado(q, i + 1, m) <=>
        \E j \in 1 .. i : Lock(j) /\ \A l \in j + 1 .. i : ~ Unlock(l)
  BY <1>1 DEF Tomado
<1>3. Tomado(q, i, m) <=>
        \E j \in 1 .. i - 1 : Lock(j) /\ \A l \in j + 1 .. i - 1 : ~ Unlock(l)
  BY DEF Tomado
<1>4. Lock(i) => ~ Unlock(i)
  OBVIOUS
<1>5. q[i].op \notin {"MUTEX_LOCK", "MUTEX_UNLOCK"} \/ q[i].arg # m => ~ Lock(i) /\ ~ Unlock(i)
  OBVIOUS
<1> HIDE DEF Lock, Unlock
<1>6. \A l \in i + 1 .. i : FALSE
  OBVIOUS
<1>7. Lock(i) => Tomado(q, i + 1, m)
  BY <1>1, <1>2, <1>6
<1>8. Unlock(i) => ~ Tomado(q, i + 1, m)
  BY <1>1, <1>2, <1>4
<1>9. ASSUME ~ Lock(i), ~ Unlock(i) PROVE Tomado(q, i + 1, m) <=> Tomado(q, i, m)
  <2>1. ASSUME NEW j \in 1 .. i, Lock(j), \A l \in j + 1 .. i : ~ Unlock(l)
        PROVE  Tomado(q, i, m)
    <3>1. j \in 1 .. i - 1
      BY <1>1, <1>9, <2>1
    <3>2. \A l \in j + 1 .. i - 1 : l \in j + 1 .. i
      OBVIOUS
    <3>3. QED
      BY <1>3, <2>1, <3>1, <3>2
  <2>2. ASSUME NEW j \in 1 .. i - 1, Lock(j), \A l \in j + 1 .. i - 1 : ~ Unlock(l)
        PROVE  Tomado(q, i + 1, m)
    <3>1. \A l \in j + 1 .. i : l = i \/ l \in j + 1 .. i - 1
      OBVIOUS
    <3>2. \A l \in j + 1 .. i : ~ Unlock(l)
      BY <1>9, <2>2, <3>1
    <3>3. QED
      BY <1>1, <1>2, <2>2, <3>2
  <2>3. QED
    BY <1>2, <1>3, <2>1, <2>2
<1>10. QED
  BY <1>5, <1>7, <1>8, <1>9 DEF Lock, Unlock

\* A process at instruction i of its program q has or waits for the mutexes that
\* the program has taken, unless all that is left for it is to end.
EnOrden(k, q, i, p) ==
  \/ q[i].op = "EXIT"
  \/ k.estado[p] # "EXIT" /\ \A m \in Mutexes : Tomado(q, i, m) <=> Toma(k, p, m)

\* pr are the programs and ps where each process is.
Orden(k, pr, ps) ==
  /\ \A r \in Pids : Vuelve(k, r)
  /\ SinDoble(k)
  /\ \A p \in Pids : EnOrden(k, pr[p], ps[p], p)

\* A step that is not about a mutex.
OtraCosa(k, k1) ==
  /\ \A r \in Pids : Vuelve(k, r) => Vuelve(k1, r)
  /\ SinDoble(k) => SinDoble(k1)
  /\ \A r \in Pids : \A x \in Mutexes : Toma(k1, r, x) <=> Toma(k, r, x)

\* Neither the priorities nor the mutexes nor their queues change.
LEMMA OtraCosaQuieto ==
  ASSUME NEW k, NEW k1, k1.prioridad = k.prioridad, k1.pid_dueno = k.pid_dueno,
         k1.cola_espera = k.cola_espera,
         \A r \in Pids : k1.estado[r] # "EXIT" => k.estado[r] # "EXIT"
  PROVE  OtraCosa(k, k1)
BY DEF OtraCosa, Vuelve, SinDoble, Toma

\* Where a process of program q goes on: nowhere, to the end, or after an
\* instruction that is not about a mutex.
Avanza(q, i, i1) ==
  \/ i1 = i
  \/ q[i1].op = "EXIT"
  \/ i1 = i + 1 /\ q[i].op \notin {"MUTEX_LOCK", "MUTEX_UNLOCK", "EXIT"}

\* A process that goes on without a mutex.
LEMMA OrdenPasa ==
  ASSUME NEW k, NEW k1, NEW pr, NEW ps, NEW ps1, Orden(k, pr, ps), OtraCosa(k, k1),
         \A r \in Pids : ps[r] \in Nat \ {0} /\ Avanza(pr[r], ps[r], ps1[r]),
         \A r \in Pids : k1.estado[r] = "EXIT" => k.estado[r] = "EXIT" \/ pr[r][ps[r]].op = "EXIT"
  PROVE  Orden(k1, pr, ps1)
<1>1. ASSUME NEW p \in Pids PROVE EnOrden(k1, pr[p], ps1[p], p)
  <2>1. EnOrden(k, pr[p], ps[p], p) /\ Avanza(pr[p], ps[p], ps1[p]) /\ ps[p] \in Nat \ {0}
    BY DEF Orden
  <2>2. \A x \in Mutexes : Toma(k1, p, x) <=> Toma(k, p, x)
    BY DEF OtraCosa
  <2>3. CASE pr[p][ps1[p]].op = "EXIT"
    BY <2>3 DEF EnOrden
  <2>4. CASE ps1[p] = ps[p]
    BY <2>1, <2>2, <2>4 DEF EnOrden
  <2>5. CASE ps1[p] = ps[p] + 1 /\ pr[p][ps[p]].op \notin {"MUTEX_LOCK", "MUTEX_UNLOCK", "EXIT"}
    <3>1. \A m \in Mutexes : Tomado(pr[p], ps[p] + 1, m) <=> Tomado(pr[p], ps[p], m)
      BY <2>1, <2>5, TomadoSigue
    <3>2. QED
      BY <2>1, <2>2, <2>5, <3>1 DEF EnOrden
  <2>6. QED
    BY <2>1, <2>3, <2>4, <2>5 DEF Avanza
<1>2. QED
  BY <1>1 DEF Orden, OtraCosa

-----------------------------------------------------------------------------
(* The life cycle.                                                          *)

\* The states that a process goes through; to run it needs a CPU that nobody has.
Arista(k, de, a) ==
  \/ de = "READY" /\ a = "EXEC" /\ \E c \in Cpus : Sola(k, c)
  \/ de = "EXEC" /\ a \in {"READY", "BLOCK", "EXIT"}
  \/ de = "BLOCK" /\ a \in {"SUSP_BLOCK", "READY"}
  \/ de = "SUSP_BLOCK" /\ a = "SUSP_READY"
  \/ de = "SUSP_READY" /\ a = "READY"

Vida(k, k1) ==
  \/ \A r \in Pids : Despierto(k.estado[r], k1.estado[r])
  \/ \E p \in Pids : \E e \in EstadosProceso :
       k1.estado = [k.estado EXCEPT ![p] = e] /\ Arista(k, k.estado[p], e)

\* A process that goes along an edge.
LEMMA MueveVida ==
  ASSUME NEW k, NEW k1, NEW p \in Pids, NEW e, Mueve(k, k1, p, e), Arista(k, k.estado[p], e),
         k \in TipoKs(Cpus)
  PROVE  Vida(k, k1) /\ OtraCosa(k, k1)
<1>1. e \in EstadosProceso
  BY DEF Arista, EstadosProceso
<1>2. Vida(k, k1)
  BY <1>1 DEF Vida, Mueve
<1>3. k.estado[p] # "EXIT"
  BY DEF Arista
<1>4. \A r \in Pids : k1.estado[r] # "EXIT" => k.estado[r] # "EXIT"
  BY <1>3 DEF Mueve, TipoKs
<1>5. k1.prioridad = k.prioridad /\ k1.pid_dueno = k.pid_dueno /\ k1.cola_espera = k.cola_espera
  BY DEF Mueve, Quieto
<1>6. QED
  BY <1>2, <1>4, <1>5, OtraCosaQuieto

\* The states stay, the mutexes too.
LEMMA EstadoIgual ==
  ASSUME NEW k, NEW k1, k1.estado = k.estado
  PROVE  /\ Vida(k, k1)
         /\ Quieto(k, k1) => OtraCosa(k, k1)
<1>1. Vida(k, k1)
  BY DEF Vida, Despierto
<1>2. Quieto(k, k1) => OtraCosa(k, k1)
  BY OtraCosaQuieto DEF Quieto
<1>3. QED
  BY <1>1, <1>2

\* CicloDeVida counts as this module does.
LEMMA MismaCuenta == \A S : Ciclo!Cardinality(S) = Cardinality(S)
BY DEF Ciclo!Cardinality, Cardinality

\* A CPU without a process leaves room for one more in EXEC.
LEMMA HayLugarEnCpu ==
  ASSUME NEW k \in TipoKs(Cpus), NEW h, CpusBien(k, h), NEW c \in Cpus, Sola(k, c)
  PROVE  Cardinality(k.exec) < Cardinality(Cpus)
<1> DEFINE otras == Cpus \ {c}
           f == [p \in k.exec |-> k.cpu[p]]
<1>1. f \in Injection(k.exec, otras)
  <2>1. \A p \in k.exec : k.cpu[p] \in Cpus /\ k.cpu[p] # c
    BY DEF CpusBien, Sola
  <2>2. f \in [k.exec -> otras]
    BY <2>1
  <2>3. \A p, r \in k.exec : f[p] = f[r] => p = r
    BY DEF CpusBien
  <2> HIDE DEF f, otras
  <2>4. QED
    BY <2>2, <2>3 DEF Injection, IsInjective
<1>2. IsFiniteSet(otras) /\ Cardinality(otras) = Cardinality(Cpus) - 1 /\ Cardinality(Cpus) \in Nat
  BY ProgramasOK, FS_RemoveElement, FS_CardinalityType
<1> HIDE DEF otras, f
<1>3. IsFiniteSet(k.exec) /\ Cardinality(k.exec) <= Cardinality(otras)
  BY <1>1, <1>2, FS_Injection
<1>4. Cardinality(k.exec) \in Nat
  BY <1>3, FS_CardinalityType
<1>5. QED
  BY <1>2, <1>3, <1>4

\* A step of the processes is one of CicloDeVida.
LEMMA VidaCiclo ==
  ASSUME Bien(ks, hilo_cpu, hilo_io), ks' \in TipoKs(Cpus), Vida(ks, ks')
  PROVE  [Ciclo!Next]_(ks.estado)
<1>1. ks \in TipoKs(Cpus) /\ ListasBien(ks) /\ CpusBien(ks, hilo_cpu)
  BY DEF Bien
<1>2. ks.estado \in [Pids -> EstadosProceso] /\ ks'.estado \in [Pids -> EstadosProceso]
  BY <1>1 DEF TipoKs
<1>3. CASE \A r \in Pids : Despierto(ks.estado[r], ks'.estado[r])
  <2> DEFINE S == {r \in Pids : ks.estado[r] # ks'.estado[r]}
  <2>1. S \subseteq Ciclo!EnEstado("BLOCK") \cup Ciclo!EnEstado("SUSP_BLOCK")
    BY <1>3 DEF Despierto, Ciclo!EnEstado
  <2>2. ks'.estado = [p \in Pids |-> IF p \notin S THEN ks.estado[p]
                                     ELSE IF ks.estado[p] = "BLOCK" THEN "READY" ELSE "SUSP_READY"]
    <3>1. \A p \in Pids : ks'.estado[p] =
            IF p \notin S THEN ks.estado[p]
            ELSE IF ks.estado[p] = "BLOCK" THEN "READY" ELSE "SUSP_READY"
      BY <1>3 DEF Despierto
    <3> HIDE DEF S
    <3>2. QED
      BY <1>2, <3>1
  <2>3. S \in SUBSET Pids
    OBVIOUS
  <2> HIDE DEF S
  <2>4. Ciclo!Despertar(S)
    BY <2>1, <2>2 DEF Ciclo!Despertar
  <2>5. QED
    BY <2>3, <2>4 DEF Ciclo!Next
<1>4. ASSUME NEW p \in Pids, NEW e \in EstadosProceso,
             ks'.estado = [ks.estado EXCEPT ![p] = e], Arista(ks, ks.estado[p], e)
      PROVE  Ciclo!Next
  <2>1. CASE ks.estado[p] = "READY"
    <3>1. e = "EXEC" /\ \E c \in Cpus : Sola(ks, c)
      BY <1>4, <2>1 DEF Arista
    <3>2. Cardinality(ks.exec) < Cardinality(Cpus)
      BY <1>1, <3>1, HayLugarEnCpu
    <3>3. Ciclo!EnEstado("EXEC") = ks.exec
      BY <1>1 DEF Ciclo!EnEstado, ListasBien, TipoKs
    <3>4. Ciclo!Despachar(p)
      BY <1>4, <2>1, <3>1, <3>2, <3>3, MismaCuenta DEF Ciclo!Despachar, Ciclo!Pasa
    <3>5. QED
      BY <3>4 DEF Ciclo!Next
  <2>2. CASE ks.estado[p] = "EXEC"
    <3>1. Ciclo!Desalojar(p) \/ Ciclo!Bloquear(p) \/ Ciclo!Terminar(p)
      BY <1>4, <2>2 DEF Arista, Ciclo!Desalojar, Ciclo!Bloquear, Ciclo!Terminar, Ciclo!Pasa
    <3>2. QED
      BY <3>1 DEF Ciclo!Next
  <2>3. CASE ks.estado[p] = "SUSP_READY" \/ (ks.estado[p] = "BLOCK" /\ e = "SUSP_BLOCK")
    <3>1. Ciclo!Reanudar(p) \/ Ciclo!Suspender(p)
      BY <1>4, <2>3 DEF Arista, Ciclo!Reanudar, Ciclo!Suspender, Ciclo!Pasa
    <3>2. QED
      BY <3>1 DEF Ciclo!Next
  <2>4. CASE (ks.estado[p] = "BLOCK" /\ e = "READY") \/ ks.estado[p] = "SUSP_BLOCK"
    <3>1. e = IF ks.estado[p] = "BLOCK" THEN "READY" ELSE "SUSP_READY"
      BY <1>4, <2>4 DEF Arista
    <3>2. ks'.estado = [r \in Pids |-> IF r \notin {p} THEN ks.estado[r]
                          ELSE IF ks.estado[r] = "BLOCK" THEN "READY" ELSE "SUSP_READY"]
      BY <1>2, <1>4, <3>1
    <3>3. {p} \subseteq Ciclo!EnEstado("BLOCK") \cup Ciclo!EnEstado("SUSP_BLOCK")
      BY <2>4 DEF Ciclo!EnEstado
    <3>4. Ciclo!Despertar({p})
      BY <3>2, <3>3 DEF Ciclo!Despertar
    <3>5. QED
      BY <3>4 DEF Ciclo!Next
  <2>5. QED
    BY <1>4, <2>1, <2>2, <2>3, <2>4 DEF Arista
<1>5. QED
  BY <1>3, <1>4 DEF Vida

-----------------------------------------------------------------------------
(* The actions.                                                             *)

\* Where each process is in its program.
ProgInv ==
  /\ programa \in Programas
  /\ paso \in [Pids -> Nat \ {0}]
  /\ \A p \in Pids : paso[p] \in DOMAIN programa[p]

Antes == TypeOK /\ Bien(ks, hilo_cpu, hilo_io) /\ ProgInv /\ Orden(ks, programa, paso)

\* What an action does.
Hecho == Bien(ks', hilo_cpu', hilo_io') /\ Orden(ks', programa', paso') /\ Vida(ks, ks')

\* No process takes or leaves a mutex, each one goes on as its program says.
Avanzan == programa' = programa /\ \A r \in Pids : Avanza(programa[r], paso[r], paso'[r])

\* A program is a sequence that ends with EXIT.
LEMMA ProgramaEs ==
  ASSUME ProgInv, NEW p \in Pids
  PROVE  /\ Len(programa[p]) \in Nat \ {0} /\ DOMAIN programa[p] = 1 .. Len(programa[p])
         /\ programa[p][Len(programa[p])].op = "EXIT"
         /\ \A i \in DOMAIN programa[p] : programa[p][i].op # "EXIT" => i + 1 \in DOMAIN programa[p]
         /\ \A i \in DOMAIN programa[p] :
              programa[p][i].op \in {"MUTEX_CREATE", "MUTEX_LOCK", "MUTEX_UNLOCK"} =>
                programa[p][i].arg \in Mutexes
<1> DEFINE q == programa[p]
<1>1. ProgramaBien(q)
  BY ProgramasOK DEF ProgInv
<1> HIDE DEF q
<1>2. /\ q \in Seq([op : Operaciones, arg : Mutexes \cup {Nulo}])
      /\ q # <<>> /\ q[Len(q)].op = "EXIT"
      /\ \A i \in DOMAIN q :
           q[i].op \in {"MUTEX_CREATE", "MUTEX_LOCK", "MUTEX_UNLOCK"} => q[i].arg \in Mutexes
  BY <1>1 DEF ProgramaBien
<1>3. Len(q) \in Nat \ {0} /\ DOMAIN q = 1 .. Len(q)
  BY <1>2, EmptySeq, LenProperties
<1>4. \A i \in DOMAIN q : q[i].op # "EXIT" => i + 1 \in DOMAIN q
  <2>1. ASSUME NEW i \in 1 .. Len(q), q[i].op # "EXIT" PROVE i + 1 \in 1 .. Len(q)
    <3>1. i # Len(q)
      BY <1>2, <2>1
    <3>2. \A n \in Nat : \A j \in 1 .. n : j # n => j + 1 \in 1 .. n
      OBVIOUS
    <3>3. Len(q) \in Nat
      BY <1>3
    <3>4. QED
      BY <3>1, <3>2, <3>3
  <2>2. QED
    BY <1>3, <2>1
<1>5. QED
  BY <1>2, <1>3, <1>4 DEF q

\* The ways a process goes on that are not about a mutex.
LEMMA AvanzanAsi ==
  ASSUME ProgInv, programa' = programa
  PROVE  /\ paso' = paso => Avanzan
         /\ \A p \in Pids : Falla(p) => Avanzan
         /\ \A p \in Pids :
              programa[p][paso[p]].op \notin {"MUTEX_LOCK", "MUTEX_UNLOCK", "EXIT"} /\ Sigue(p) =>
                Avanzan
<1>1. paso' = paso => Avanzan
  BY DEF Avanzan, Avanza
<1>2. ASSUME NEW p \in Pids, Falla(p) PROVE Avanzan
  <2>1. \A r \in Pids : paso'[r] = IF r = p THEN Len(programa[p]) ELSE paso[r]
    BY <1>2 DEF Falla, ProgInv
  <2>2. programa[p][Len(programa[p])].op = "EXIT"
    BY ProgramaEs
  <2>3. QED
    BY <2>1, <2>2 DEF Avanzan, Avanza
<1>3. ASSUME NEW p \in Pids, Sigue(p),
             programa[p][paso[p]].op \notin {"MUTEX_LOCK", "MUTEX_UNLOCK", "EXIT"}
      PROVE  Avanzan
  <2>1. \A r \in Pids : paso'[r] = IF r = p THEN paso[p] + 1 ELSE paso[r]
    BY <1>3 DEF Sigue, ProgInv
  <2>2. QED
    BY <1>3, <2>1 DEF Avanzan, Avanza
<1>4. QED
  BY <1>1, <1>2, <1>3

\* A step without mutexes.
LEMMA HechoSin ==
  ASSUME Antes, Bien(ks', hilo_cpu', hilo_io'), Vida(ks, ks'), OtraCosa(ks, ks'), Avanzan,
         \A r \in Pids : ks'.estado[r] = "EXIT" =>
                           ks.estado[r] = "EXIT" \/ programa[r][paso[r]].op = "EXIT"
  PROVE  Hecho
<1>1. \A r \in Pids : paso[r] \in Nat \ {0} /\ Avanza(programa[r], paso[r], paso'[r])
  BY DEF Antes, ProgInv, Avanzan
<1>2. Orden(ks, programa, paso) /\ programa' = programa
  BY DEF Antes, Avanzan
<1>3. Orden(ks', programa, paso')
  BY <1>1, <1>2, OrdenPasa
<1>4. QED
  BY <1>2, <1>3 DEF Hecho

\* A process goes along an edge of the life cycle.
LEMMA HechoMueve ==
  ASSUME Antes, Bien(ks', hilo_cpu', hilo_io'), Avanzan, NEW p \in Pids, NEW e,
         Mueve(ks, ks', p, e), Arista(ks, ks.estado[p], e),
         e = "EXIT" => programa[p][paso[p]].op = "EXIT"
  PROVE  Hecho
<1>1. ks \in TipoKs(Cpus)
  BY DEF Antes, Bien
<1>2. Vida(ks, ks') /\ OtraCosa(ks, ks')
  BY <1>1, MueveVida
<1>3. ASSUME NEW r \in Pids, ks'.estado[r] = "EXIT"
      PROVE  ks.estado[r] = "EXIT" \/ programa[r][paso[r]].op = "EXIT"
  <2>1. ks'.estado = [ks.estado EXCEPT ![p] = e]
    BY DEF Mueve
  <2>2. ks'.estado[r] = IF r = p THEN e ELSE ks.estado[r]
    BY <1>1, <2>1 DEF TipoKs
  <2>3. QED
    BY <1>3, <2>2
<1>4. QED
  BY <1>2, <1>3, HechoSin

\* No process changes its state.
LEMMA HechoIgual ==
  ASSUME Antes, Bien(ks', hilo_cpu', hilo_io'), Avanzan, ks'.estado = ks.estado,
         OtraCosa(ks, ks') \/ Quieto(ks, ks')
  PROVE  Hecho
<1>1. Vida(ks, ks') /\ OtraCosa(ks, ks')
  BY EstadoIgual
<1>2. QED
  BY <1>1, HechoSin

\* planificador_corto_plazo.
LEMMA PasoPlanificaHecho ==
  ASSUME Antes, Planifica, UNCHANGED <<ioVars, programa, paso, hilo_cpu>>
  PROVE  Hecho
<1>1. Bien(ks, hilo_cpu, hilo_io) /\ ProgInv
  BY DEF Antes
<1>2. hilo_cpu' = hilo_cpu /\ hilo_io' = hilo_io /\ programa' = programa /\ paso' = paso
  BY DEF ioVars
<1>3. Avanzan
  BY <1>1, <1>2, AvanzanAsi
<1>4. CASE ConProcesos(ks) = {}
  <2>1. ks' = [ks EXCEPT !.sem_ready = @ - 1] /\ ks.sem_ready > 0
    BY <1>4 DEF Planifica
  <2>2. Bien(ks', hilo_cpu, hilo_io) /\ ks'.estado = ks.estado /\ Quieto(ks, ks')
    BY <1>1, <2>1, SemBien
  <2>3. QED
    BY <1>2, <1>3, <2>2, HechoIgual
<1>5. CASE ConProcesos(ks) # {}
  <2> SUFFICES ASSUME NEW p, p = Head(ks.colas_ready[Min(ConProcesos(ks))]) PROVE Hecho
    OBVIOUS
  <2>1. ks' = Planificar(ks) /\ ks.cpus_libres # <<>> /\ ks.sem_ready > 0
    BY <1>5 DEF Planifica
  <2>2. /\ Bien(ks', hilo_cpu, hilo_io) /\ p \in Pids /\ ks.estado[p] = "READY"
        /\ Mueve(ks, ks', p, "EXEC")
    BY <1>1, <1>5, <2>1, PlanificaBien
  <2>3. \E c \in Cpus : Sola(ks, c)
    <3>1. ks.cpus_libres \in Seq(Cpus)
      BY <1>1 DEF Bien, TipoKs
    <3>2. Head(ks.cpus_libres) \in Cpus /\ Tiene(ks.cpus_libres, Head(ks.cpus_libres))
      BY <2>1, <3>1, TieneQuitado
    <3>3. QED
      BY <1>1, <3>2 DEF Bien, CpusBien
  <2>4. Arista(ks, ks.estado[p], "EXEC")
    BY <2>2, <2>3 DEF Arista
  <2>5. QED
    BY <1>2, <1>3, <2>2, <2>4, HechoMueve
<1>6. QED
  BY <1>4, <1>5

\* A process on a CPU whose thread waits for its syscall.
LEMMA EjecutaEs ==
  ASSUME Antes, NEW c \in Cpus, NEW p \in Pids, NEW op, Ejecuta(c, p, op)
  PROVE  /\ Bien(ks, hilo_cpu, hilo_io) /\ ProgInv
         /\ hilo_cpu[c].pc = "recibir" /\ ks.cpu[p] = c /\ p \in ks.exec
         /\ programa[p][paso[p]].op = op
         /\ op \in {"MUTEX_CREATE", "MUTEX_LOCK", "MUTEX_UNLOCK"} => Arg(p) \in Mutexes
         /\ ks.estado[p] = "EXEC"
<1>1. op \in {"MUTEX_CREATE", "MUTEX_LOCK", "MUTEX_UNLOCK"} => Arg(p) \in Mutexes
  BY ProgramaEs DEF Antes, ProgInv, Ejecuta, Arg
<1>2. ks.estado[p] = "EXEC"
  BY DEF Antes, Bien, ListasBien, Ejecuta
<1>3. QED
  BY <1>1, <1>2 DEF Antes, Ejecuta

\* manejar_fin_quantum.
LEMMA FinQuantumHecho ==
  ASSUME Antes, NEW c \in Cpus, NEW p \in Pids, ManejarFinQuantum(c, p)
  PROVE  Hecho
<1>1. /\ Bien(ks, hilo_cpu, hilo_io) /\ ProgInv
      /\ hilo_cpu[c].pc = "recibir" /\ ks.cpu[p] = c /\ p \in ks.exec
      /\ programa[p][paso[p]].op = "FIN_QUANTUM"
  BY EjecutaEs DEF ManejarFinQuantum
<1>2. /\ hilo_cpu' = hilo_cpu /\ hilo_io' = hilo_io /\ programa' = programa /\ Sigue(p)
      /\ ks' = LiberarCpu(Encolar(SacarDeExec(ks, p, "READY"), p), c)
  BY DEF ManejarFinQuantum, SinNovedad, restoVars, ioVars
<1>3. Avanzan
  BY <1>1, <1>2, AvanzanAsi
<1>4. Bien(ks', hilo_cpu, hilo_io) /\ ks.estado[p] = "EXEC" /\ Mueve(ks, ks', p, "READY")
  BY <1>1, <1>2, FinQuantumBien
<1>5. Arista(ks, ks.estado[p], "READY")
  BY <1>4 DEF Arista
<1>6. QED
  BY <1>2, <1>3, <1>4, <1>5, HechoMueve

\* MEM_ALLOC and an access to the memory: nothing here.
LEMMA MemoriaHecho ==
  ASSUME Antes, NEW c \in Cpus, NEW p \in Pids, ManejarMemAlloc(c, p) \/ Accede(c, p)
  PROVE  Hecho
<1>1. /\ Bien(ks, hilo_cpu, hilo_io) /\ ProgInv
      /\ programa[p][paso[p]].op \in {"MEM_ALLOC", "MOV_OUT"}
  BY DEF ManejarMemAlloc, Accede, Ejecuta, Antes
<1>2. /\ hilo_cpu' = hilo_cpu /\ hilo_io' = hilo_io /\ programa' = programa /\ ks' = ks
      /\ Sigue(p) \/ Falla(p)
  BY DEF ManejarMemAlloc, Accede, SinNovedad, restoVars, ioVars
<1>3. Avanzan
  BY <1>1, <1>2, AvanzanAsi
<1>4. Bien(ks', hilo_cpu', hilo_io') /\ ks'.estado = ks.estado /\ Quieto(ks, ks')
  BY <1>1, <1>2 DEF Quieto
<1>5. QED
  BY <1>3, <1>4, HechoIgual

\* manejar_mutex_create.
LEMMA MutexCreateHecho ==
  ASSUME Antes, NEW c \in Cpus, NEW p \in Pids, ManejarMutexCreate(c, p)
  PROVE  Hecho
<1>1. /\ Bien(ks, hilo_cpu, hilo_io) /\ ProgInv
      /\ programa[p][paso[p]].op = "MUTEX_CREATE" /\ Arg(p) \in Mutexes
  BY EjecutaEs DEF ManejarMutexCreate
<1>2. /\ hilo_cpu' = hilo_cpu /\ hilo_io' = hilo_io /\ programa' = programa /\ Sigue(p)
      /\ ks' = ks \/ ks' = [ks EXCEPT !.lista_mutex = Append(@, Arg(p))]
  BY DEF ManejarMutexCreate, SinNovedad, restoVars, ioVars
<1>3. Avanzan
  BY <1>1, <1>2, AvanzanAsi
<1>4. Bien(ks', hilo_cpu, hilo_io) /\ ks'.estado = ks.estado /\ OtraCosa(ks, ks')
  <2>1. CASE ks' = ks
    BY <1>1, <2>1 DEF OtraCosa
  <2>2. CASE ks' = [ks EXCEPT !.lista_mutex = Append(@, Arg(p))]
    <3> SUFFICES ASSUME NEW m, m = Arg(p)
                 PROVE  Bien(ks', hilo_cpu, hilo_io) /\ ks'.estado = ks.estado /\ OtraCosa(ks, ks')
      OBVIOUS
    <3>1. /\ Bien(ks', hilo_cpu, hilo_io) /\ ks'.estado = ks.estado
          /\ ks'.prioridad = ks.prioridad /\ ks'.pid_dueno = ks.pid_dueno
          /\ ks'.cola_espera = ks.cola_espera
      BY <1>1, <2>2, CreateBien
    <3>2. QED
      BY <3>1, OtraCosaQuieto
  <2>3. QED
    BY <1>2, <2>1, <2>2
<1>5. QED
  BY <1>2, <1>3, <1>4, HechoIgual

\* A process takes mutex m, or joins its queue (b), or gives it up.
LEMMA OrdenMutex ==
  ASSUME NEW k, NEW k1, NEW pr, NEW ps, NEW ps1, Orden(k, pr, ps), NEW p \in Pids,
         NEW m \in Mutexes, NEW b \in BOOLEAN, k1.estado = k.estado,
         \A r \in Pids : \A x \in Mutexes : r # p \/ x # m => (Toma(k1, r, x) <=> Toma(k, r, x)),
         Toma(k1, p, m) <=> b, SinDoble(k1), \A r \in Pids : Vuelve(k1, r),
         ps[p] \in Nat \ {0}, pr[p][ps[p]].arg = m,
         b => pr[p][ps[p]].op = "MUTEX_LOCK", ~ b => pr[p][ps[p]].op = "MUTEX_UNLOCK",
         \A r \in Pids : ps1[r] = IF r = p THEN ps[p] + 1 ELSE ps[r]
  PROVE  Orden(k1, pr, ps1)
<1>1. ASSUME NEW r \in Pids PROVE EnOrden(k1, pr[r], ps1[r], r)
  <2>1. EnOrden(k, pr[r], ps[r], r)
    BY DEF Orden
  <2>2. CASE r # p
    BY <2>1, <2>2 DEF EnOrden
  <2>3. CASE r = p
    <3>1. k1.estado[p] # "EXIT" /\ \A x \in Mutexes : Tomado(pr[p], ps[p], x) <=> Toma(k, p, x)
      BY <2>1, <2>3 DEF EnOrden
    <3>2. ASSUME NEW x \in Mutexes PROVE Tomado(pr[p], ps[p] + 1, x) <=> Toma(k1, p, x)
      <4>1. CASE x = m
        BY <4>1, TomadoSigue
      <4>2. CASE x # m
        <5>1. Tomado(pr[p], ps[p] + 1, x) <=> Tomado(pr[p], ps[p], x)
          BY <4>2, TomadoSigue
        <5>2. QED
          BY <3>1, <4>2, <5>1
      <4>3. QED
        BY <4>1, <4>2
    <3>3. QED
      BY <2>3, <3>1, <3>2 DEF EnOrden
  <2>4. QED
    BY <2>2, <2>3
<1>2. QED
  BY <1>1 DEF Orden

\* What the discipline of the programs says of a process that is at a MUTEX_LOCK or
\* a MUTEX_UNLOCK.
LEMMA Disciplina ==
  ASSUME Antes, NEW c \in Cpus, NEW p \in Pids, NEW op \in {"MUTEX_LOCK", "MUTEX_UNLOCK"},
         Ejecuta(c, p, op)
  PROVE  /\ op = "MUTEX_LOCK" => ~ Toma(ks, p, Arg(p))
         /\ op = "MUTEX_UNLOCK" => ks.pid_dueno[Arg(p)] = p
         /\ \A x \in Mutexes : ~ Tiene(ks.cola_espera[x], p)
<1>1. /\ Bien(ks, hilo_cpu, hilo_io) /\ ProgInv
      /\ hilo_cpu[c].pc = "recibir" /\ ks.cpu[p] = c /\ p \in ks.exec
      /\ programa[p][paso[p]].op = op /\ Arg(p) \in Mutexes
  BY EjecutaEs
<1>2. Disciplinado(programa[p]) /\ paso[p] \in DOMAIN programa[p]
  BY <1>1, DisciplinaOK DEF ProgInv
<1>3. \A m \in Mutexes : Tomado(programa[p], paso[p], m) <=> Toma(ks, p, m)
  BY <1>1 DEF Antes, Orden, EnOrden
<1>4. /\ op = "MUTEX_LOCK" => ~ Tomado(programa[p], paso[p], Arg(p))
      /\ op = "MUTEX_UNLOCK" => Tomado(programa[p], paso[p], Arg(p))
  BY <1>1, <1>2 DEF Disciplinado, Arg
<1>5. \A x \in Mutexes : ~ Tiene(ks.cola_espera[x], p)
  <2>1. ks \in TipoKs(Cpus) /\ ListasBien(ks) /\ CpusBien(ks, hilo_cpu)
        /\ EsperasBien(ks, hilo_cpu, hilo_io)
    BY <1>1 DEF Bien
  <2>2. Quienes(ks, hilo_cpu, hilo_io, p) = {}
    BY <1>1, <2>1, CorreSinQuien
  <2>3. QED
    BY <2>2, NingunQuien
<1>6. QED
  BY <1>1, <1>3, <1>4, <1>5 DEF Toma

\* What the action of a mutex does beside the mutex.
LEMMA HechoMutex ==
  ASSUME Antes, NEW p \in Pids, Bien(ks', hilo_cpu', hilo_io'), ks'.estado = ks.estado,
         programa' = programa, Sigue(p), NEW m \in Mutexes, m = Arg(p), NEW b \in BOOLEAN,
         \A r \in Pids : \A x \in Mutexes : r # p \/ x # m => (Toma(ks', r, x) <=> Toma(ks, r, x)),
         Toma(ks', p, m) <=> b, SinDoble(ks'), \A r \in Pids : Vuelve(ks', r),
         b => programa[p][paso[p]].op = "MUTEX_LOCK", ~ b => programa[p][paso[p]].op = "MUTEX_UNLOCK"
  PROVE  Hecho
<1>1. Orden(ks, programa, paso) /\ paso[p] \in Nat \ {0} /\ programa[p][paso[p]].arg = m
  BY DEF Antes, ProgInv, Arg
<1>2. \A r \in Pids : paso'[r] = IF r = p THEN paso[p] + 1 ELSE paso[r]
  BY DEF Sigue, Antes, ProgInv
<1>3. Orden(ks', programa, paso')
  BY <1>1, <1>2, OrdenMutex
<1>4. Vida(ks, ks')
  BY EstadoIgual
<1>5. QED
  BY <1>3, <1>4 DEF Hecho

\* manejar_mutex_lock.
LEMMA MutexLockHecho ==
  ASSUME Antes, NEW c \in Cpus, NEW p \in Pids, ManejarMutexLock(c, p)
  PROVE  Hecho
<1> DEFINE op == "MUTEX_LOCK"
<1>1. /\ Bien(ks, hilo_cpu, hilo_io) /\ ProgInv
      /\ hilo_cpu[c].pc = "recibir" /\ ks.cpu[p] = c /\ p \in ks.exec
      /\ programa[p][paso[p]].op = op /\ Arg(p) \in Mutexes /\ Ejecuta(c, p, op)
  BY EjecutaEs DEF ManejarMutexLock
<1>2. /\ ~ Toma(ks, p, Arg(p))
      /\ \A x \in Mutexes : ~ Tiene(ks.cola_espera[x], p)
  BY <1>1, Disciplina
<1>3. SinDoble(ks) /\ \A r \in Pids : Vuelve(ks, r)
  BY DEF Antes, Orden
<1>4. hilo_io' = hilo_io /\ programa' = programa
  BY DEF ManejarMutexLock, restoVars, ioVars
<1>5. p # Nadie /\ \A r \in Pids : r # Nadie
  BY ProcesosOK DEF Nadie
<1> SUFFICES ASSUME NEW m, m = Arg(p) PROVE Hecho
  OBVIOUS
<1>6. m \in Mutexes /\ ks.lista_mutex \in Seq(Mutexes)
  BY <1>1 DEF Bien, TipoKs
<1>7. CASE m \notin ToSet(ks.lista_mutex)
  <2>1. Falla(p) /\ ks' = ks /\ hilo_cpu' = hilo_cpu
    BY <1>7 DEF ManejarMutexLock
  <2>2. Avanzan
    BY <1>1, <1>4, <2>1, AvanzanAsi
  <2>3. Bien(ks', hilo_cpu', hilo_io') /\ ks'.estado = ks.estado /\ Quieto(ks, ks')
    BY <1>1, <1>4, <2>1 DEF Quieto
  <2>4. QED
    BY <2>2, <2>3, HechoIgual
<1>8. CASE m \in ToSet(ks.lista_mutex) /\ ks.pid_dueno[m] = Nadie
  <2>1. ks' = [ks EXCEPT !.pid_dueno[m] = p] /\ Sigue(p) /\ hilo_cpu' = hilo_cpu
    BY <1>8 DEF ManejarMutexLock
  <2>2. Tiene(ks.lista_mutex, m)
    BY <1>6, <1>8 DEF ToSet, Tiene
  <2>3. /\ Bien(ks', hilo_cpu, hilo_io) /\ ks'.estado = ks.estado /\ ks'.prioridad = ks.prioridad
        /\ ks'.cola_espera = ks.cola_espera /\ ks.cola_espera[m] = <<>>
        /\ \A x \in Mutexes : ks'.pid_dueno[x] = IF x = m THEN p ELSE ks.pid_dueno[x]
    BY <1>1, <1>6, <1>8, <2>1, <2>2, LockLibreBien
  <2>4. \A w : ~ Tiene(<<>>, w)
    BY DEF Tiene
  <2>5. \A r \in Pids : \A x \in Mutexes : r # p \/ x # m => (Toma(ks', r, x) <=> Toma(ks, r, x))
    BY <1>5, <1>8, <2>3 DEF Toma
  <2>6. Toma(ks', p, m)
    BY <1>6, <2>3 DEF Toma
  <2>7. SinDoble(ks')
    BY <1>3, <2>3, <2>4 DEF SinDoble
  <2>8. \A r \in Pids : Vuelve(ks', r)
    BY <1>3, <1>5, <1>8, <2>3 DEF Vuelve
  <2>9. QED
    BY <1>1, <1>4, <1>6, <2>1, <2>3, <2>5, <2>6, <2>7, <2>8, HechoMutex
<1>9. CASE m \in ToSet(ks.lista_mutex) /\ ks.pid_dueno[m] # Nadie
  <2> DEFINE d  == ks.pid_dueno[m]
             kk == [ks EXCEPT !.cola_espera[m] = Append(@, p)]
             t  == [pc |-> "bloquear", pid |-> p, arg |-> Nulo]
  <2>1. /\ ks' = IF ks.estado[d] = "EXIT" THEN kk ELSE AplicarHerencia(kk, d, m)
        /\ Sigue(p) /\ hilo_cpu' = [hilo_cpu EXCEPT ![c] = t]
    BY <1>9 DEF ManejarMutexLock, AlHilo
  <2>2. /\ hilo_cpu'[c].pc = "bloquear" /\ hilo_cpu'[c].pid = p
        /\ \A e \in Cpus : e # c => hilo_cpu'[e] = hilo_cpu[e]
    BY <2>1 DEF Antes, TypeOK
  <2>3. /\ Bien(ks', hilo_cpu', hilo_io) /\ ks'.estado = ks.estado /\ ks'.pid_dueno = ks.pid_dueno
        /\ \A x \in Mutexes : \A y : Tiene(ks'.cola_espera[x], y) <=>
                                       Tiene(ks.cola_espera[x], y) \/ (x = m /\ y = p)
        /\ \A r \in Pids : Vuelve(ks, r) => Vuelve(ks', r)
    <3>1. Bien(ks, hilo_cpu, hilo_io)
      BY <1>1
    <3>2. PoneEnCola(ks, hilo_cpu, c, p, m, hilo_cpu', d, kk, ks')
      BY <1>1, <1>9, <2>1, <2>2 DEF PoneEnCola
    <3> HIDE DEF d, kk
    <3>3. QED
      BY ONLY <1>6, <3>1, <3>2, LockEsperaBien
  <2>4. \A r \in Pids : \A x \in Mutexes : r # p \/ x # m => (Toma(ks', r, x) <=> Toma(ks, r, x))
    BY <2>3 DEF Toma
  <2>5. Toma(ks', p, m)
    BY <1>6, <2>3 DEF Toma
  <2>6. SinDoble(ks')
    BY <1>2, <1>3, <2>3 DEF SinDoble, Toma
  <2>7. \A r \in Pids : Vuelve(ks', r)
    BY <1>3, <2>3
  <2>8. QED
    BY <1>1, <1>4, <1>6, <2>1, <2>3, <2>4, <2>5, <2>6, <2>7, HechoMutex
<1>10. QED
  BY <1>7, <1>8, <1>9

\* bloquear_proceso of a MUTEX_LOCK.
LEMMA MutexLockBloqueaHecho ==
  ASSUME Antes, NEW c \in Cpus, MutexLockBloquea(c)
  PROVE  Hecho
<1>1. /\ Bien(ks, hilo_cpu, hilo_io) /\ ProgInv /\ hilo_cpu[c].pc = "bloquear"
      /\ hilo_io' = hilo_io /\ programa' = programa /\ paso' = paso
      /\ ks' = Bloquear(ks, hilo_cpu[c].pid)
      /\ hilo_cpu' = [hilo_cpu EXCEPT ![c] = HiloEn("recibir")]
  BY DEF Antes, MutexLockBloquea, restoVars, ioVars
<1>2. hilo_cpu'[c].pc = "recibir" /\ \A d \in Cpus : d # c => hilo_cpu'[d] = hilo_cpu[d]
  BY <1>1 DEF Antes, TypeOK, HiloEn
<1> SUFFICES ASSUME NEW p, p = hilo_cpu[c].pid PROVE Hecho
  OBVIOUS
<1>3. Avanzan
  BY <1>1, AvanzanAsi
<1>4. /\ Bien(ks', hilo_cpu', hilo_io) /\ p \in Pids /\ ks.estado[p] = "EXEC"
      /\ Mueve(ks, ks', p, "BLOCK")
  <2>1. Bien(ks, hilo_cpu, hilo_io)
    BY <1>1
  <2>2. hilo_cpu[c].pc = "bloquear" /\ hilo_cpu'[c].pc = "recibir"
    BY <1>1, <1>2
  <2>3. \A d \in Cpus : d # c => hilo_cpu'[d] = hilo_cpu[d]
    BY <1>2
  <2>4. /\ Bien(Bloquear(ks, hilo_cpu[c].pid), hilo_cpu', hilo_io) /\ hilo_cpu[c].pid \in Pids
        /\ ks.estado[hilo_cpu[c].pid] = "EXEC"
        /\ Mueve(ks, Bloquear(ks, hilo_cpu[c].pid), hilo_cpu[c].pid, "BLOCK")
    BY <2>1, <2>2, <2>3, BloqueaBien
  <2>5. QED
    BY <1>1, <2>4
<1>5. Arista(ks, ks.estado[p], "BLOCK")
  BY <1>4 DEF Arista
<1>6. QED
  BY <1>1, <1>3, <1>4, <1>5, HechoMueve
\* manejar_mutex_unlock.
LEMMA MutexUnlockHecho ==
  ASSUME Antes, NEW c \in Cpus, NEW p \in Pids, ManejarMutexUnlock(c, p)
  PROVE  Hecho
<1> DEFINE op == "MUTEX_UNLOCK"
<1>1. /\ Bien(ks, hilo_cpu, hilo_io) /\ ProgInv
      /\ hilo_cpu[c].pc = "recibir" /\ ks.cpu[p] = c /\ p \in ks.exec
      /\ programa[p][paso[p]].op = op /\ Arg(p) \in Mutexes /\ Ejecuta(c, p, op)
  BY EjecutaEs DEF ManejarMutexUnlock
<1>2. ks.pid_dueno[Arg(p)] = p /\ \A x \in Mutexes : ~ Tiene(ks.cola_espera[x], p)
  BY <1>1, Disciplina
<1>3. SinDoble(ks) /\ \A r \in Pids : Vuelve(ks, r)
  BY DEF Antes, Orden
<1>4. hilo_io' = hilo_io /\ programa' = programa
  BY DEF ManejarMutexUnlock, restoVars, ioVars
<1>5. p # Nadie
  BY ProcesosOK DEF Nadie
<1> SUFFICES ASSUME NEW m, m = Arg(p) PROVE Hecho
  OBVIOUS
<1>6. m \in Mutexes /\ ks.pid_dueno[m] = p
  BY <1>1, <1>2
<1>7. CASE m \notin ToSet(ks.lista_mutex)
  <2>1. Falla(p) /\ ks' = ks /\ hilo_cpu' = hilo_cpu
    BY <1>7 DEF ManejarMutexUnlock
  <2>2. Avanzan
    BY <1>1, <1>4, <2>1, AvanzanAsi
  <2>3. Bien(ks', hilo_cpu', hilo_io') /\ ks'.estado = ks.estado /\ Quieto(ks, ks')
    BY <1>1, <1>4, <2>1 DEF Quieto
  <2>4. QED
    BY <2>2, <2>3, HechoIgual
<1>8. CASE m \in ToSet(ks.lista_mutex) /\ ks.cola_espera[m] = <<>>
  <2>1. /\ ks' = DevolverPrioridad([ks EXCEPT !.pid_dueno[m] = Nadie], p)
        /\ Sigue(p) /\ hilo_cpu' = hilo_cpu
    BY <1>8 DEF ManejarMutexUnlock
  <2>2. /\ Bien(ks', hilo_cpu', hilo_io') /\ ks'.estado = ks.estado
        /\ ks'.cola_espera = ks.cola_espera
        /\ \A x \in Mutexes : ks'.pid_dueno[x] = IF x = m THEN Nadie ELSE ks.pid_dueno[x]
        /\ \A r \in Pids : Vuelve(ks', r)
    <3> DEFINE k1 == DevolverPrioridad([ks EXCEPT !.pid_dueno[m] = Nadie], p)
    <3>1. /\ Bien(k1, hilo_cpu, hilo_io) /\ k1.estado = ks.estado
          /\ k1.cola_espera = ks.cola_espera
          /\ \A x \in Mutexes : k1.pid_dueno[x] = IF x = m THEN Nadie ELSE ks.pid_dueno[x]
          /\ (\A r \in Pids : Vuelve(ks, r)) => \A r \in Pids : Vuelve(k1, r)
      BY <1>1, <1>6, <1>8, UnlockLibreBien
    <3>2. ks' = k1
      BY <2>1
    <3> HIDE DEF k1
    <3>3. QED
      BY <1>3, <1>4, <2>1, <3>1, <3>2
  <2>3. \A w : ~ Tiene(<<>>, w)
    BY DEF Tiene
  <2>4. \A r \in Pids : \A x \in Mutexes : r # p \/ x # m => (Toma(ks', r, x) <=> Toma(ks, r, x))
    <3>1. \A r \in Pids : r # Nadie
      BY ProcesosOK DEF Nadie
    <3>2. QED
      BY <1>6, <2>2, <3>1 DEF Toma
  <2>5. ~ Toma(ks', p, m)
    BY <1>5, <1>6, <1>8, <2>2, <2>3 DEF Toma
  <2>6. SinDoble(ks')
    BY <1>3, <1>8, <2>2, <2>3 DEF SinDoble
  <2>7. QED
    BY <1>1, <1>4, <1>6, <2>1, <2>2, <2>4, <2>5, <2>6, HechoMutex
<1>9. CASE m \in ToSet(ks.lista_mutex) /\ ks.cola_espera[m] # <<>>
  <2> DEFINE w == Head(ks.cola_espera[m])
             t == [pc |-> "despertar", pid |-> w, arg |-> ks.estado[w]]
  <2>1. /\ ks' = CancelarTimer(AplicarHerencia(DevolverPrioridad(Ceder(ks, m), p), w, m), w)
        /\ Sigue(p) /\ hilo_cpu' = [hilo_cpu EXCEPT ![c] = t]
    BY <1>9 DEF ManejarMutexUnlock, AlHilo
  <2>2. hilo_cpu'[c].pc = "despertar" /\ hilo_cpu'[c].pid = w /\ hilo_cpu'[c].arg = ks.estado[w]
    BY <2>1 DEF Antes, TypeOK
  <2>3. \A d \in Cpus : d # c => hilo_cpu'[d] = hilo_cpu[d]
    BY <2>1 DEF Antes, TypeOK
  <2>4. /\ Bien(ks', hilo_cpu', hilo_io) /\ Traspaso(ks, ks', m, w) /\ w \in Pids
        /\ \A r \in Pids : Vuelve(ks', r)
    <3> DEFINE k1 == CancelarTimer(AplicarHerencia(DevolverPrioridad(Ceder(ks, m), p), w, m), w)
    <3>1. /\ Bien(k1, hilo_cpu', hilo_io) /\ Traspaso(ks, k1, m, w) /\ w \in Pids
          /\ ks.pid_dueno[m] = p /\ (\A r \in Pids : Vuelve(ks, r)) => \A r \in Pids : Vuelve(k1, r)
      <4>1. m \in Mutexes /\ ks.cola_espera[m] # <<>>
        BY <1>6, <1>9
      <4>2. hilo_cpu[c].pc = "recibir" /\ ks.cpu[p] = c /\ p \in ks.exec
        BY <1>1
      <4>3. Bien(ks, hilo_cpu, hilo_io)
        BY <1>1
      <4>4. QED
        BY ONLY <2>2, <2>3, <4>1, <4>2, <4>3, UnlockCedeBien
    <3>2. ks' = k1
      BY <2>1
    <3> HIDE DEF k1
    <3>3. QED
      BY <1>3, <1>6, <3>1, <3>2
  <2>5. /\ \A r \in Pids : r # p => \A x \in Mutexes : Toma(ks', r, x) <=> Toma(ks, r, x)
        /\ \A x \in Mutexes : x # m => \A r \in Pids : Toma(ks', r, x) <=> Toma(ks, r, x)
        /\ SinDoble(ks') /\ w # p /\ ~ Toma(ks', p, m) /\ ks'.estado = ks.estado
    <3>1. Bien(ks, hilo_cpu, hilo_io) /\ m \in Mutexes /\ ks.cola_espera[m] # <<>>
      BY <1>1, <1>6, <1>9
    <3>2. w \in Pids /\ w = Head(ks.cola_espera[m]) /\ Traspaso(ks, ks', m, w)
      BY <2>4
    <3> HIDE DEF w
    <3>3. /\ \A r \in Pids : r # ks.pid_dueno[m] =>
                \A x \in Mutexes : Toma(ks', r, x) <=> Toma(ks, r, x)
          /\ \A x \in Mutexes : x # m => \A r \in Pids : Toma(ks', r, x) <=> Toma(ks, r, x)
          /\ SinDoble(ks) => SinDoble(ks') /\ w # ks.pid_dueno[m]
          /\ SinDoble(ks) => ~ Toma(ks', ks.pid_dueno[m], m)
          /\ \A x \in Mutexes : ks'.pid_dueno[x] = IF x = m THEN w ELSE ks.pid_dueno[x]
      BY ONLY <3>1, <3>2, TraspasoToma
    <3>4. ks'.estado = ks.estado
      BY <3>2 DEF Traspaso
    <3>5. QED
      BY <1>3, <1>6, <3>3, <3>4
  <2>6. \A r \in Pids : \A x \in Mutexes : r # p \/ x # m => (Toma(ks', r, x) <=> Toma(ks, r, x))
    BY <2>5
  <2> HIDE DEF w, t, op
  <2>7. Bien(ks', hilo_cpu', hilo_io') /\ ks'.estado = ks.estado /\ programa' = programa
    BY <1>4, <2>4, <2>5
  <2> SUFFICES ASSUME NEW b \in BOOLEAN, ~ b PROVE Hecho
    OBVIOUS
  <2>8. Toma(ks', p, m) <=> b
    BY <2>5
  <2>9. SinDoble(ks') /\ \A r \in Pids : Vuelve(ks', r)
    BY <2>4, <2>5
  <2>10. /\ b => programa[p][paso[p]].op = "MUTEX_LOCK"
         /\ ~ b => programa[p][paso[p]].op = "MUTEX_UNLOCK"
    BY <1>1 DEF op
  <2>11. Sigue(p) /\ m \in Mutexes
    BY <1>6, <2>1
  <2>12. QED
    BY ONLY Antes, m = Arg(p), <2>11, <2>6, <2>7, <2>8, <2>9, <2>10, HechoMutex
<1>10. QED
  BY <1>7, <1>8, <1>9

\* The second critical section of manejar_mutex_unlock.
LEMMA MutexUnlockDespiertaHecho ==
  ASSUME Antes, NEW c \in Cpus, MutexUnlockDespierta(c)
  PROVE  Hecho
<1>1. /\ Bien(ks, hilo_cpu, hilo_io) /\ ProgInv /\ hilo_cpu[c].pc = "despertar"
      /\ hilo_io' = hilo_io /\ programa' = programa /\ paso' = paso
      /\ ks' = Despertar(ks, hilo_cpu[c].pid, hilo_cpu[c].arg)
      /\ hilo_cpu' = [hilo_cpu EXCEPT ![c] = HiloEn("recibir")]
  BY DEF Antes, MutexUnlockDespierta, restoVars, ioVars
<1>2. hilo_cpu'[c].pc = "recibir" /\ \A d \in Cpus : d # c => hilo_cpu'[d] = hilo_cpu[d]
  BY <1>1 DEF Antes, TypeOK, HiloEn
<1>3. Avanzan
  BY <1>1, AvanzanAsi
<1>4. LET p == hilo_cpu[c].pid
          k1 == Despertar(ks, p, hilo_cpu[c].arg) IN
      /\ Bien(k1, hilo_cpu', hilo_io) /\ p \in Pids
      /\ \/ k1 = ks
         \/ ks.estado[p] = "BLOCK" /\ Mueve(ks, k1, p, "READY")
         \/ ks.estado[p] = "SUSP_BLOCK" /\ Mueve(ks, k1, p, "SUSP_READY")
  <2>1. Bien(ks, hilo_cpu, hilo_io)
    BY <1>1
  <2>2. hilo_cpu[c].pc = "despertar" /\ hilo_cpu'[c].pc = "recibir"
    BY <1>1, <1>2
  <2>3. \A d \in Cpus : d # c => hilo_cpu'[d] = hilo_cpu[d]
    BY <1>2
  <2>4. QED
    BY ONLY <2>1, <2>2, <2>3, UnlockDespiertaBien
<1> SUFFICES ASSUME NEW p, p = hilo_cpu[c].pid PROVE Hecho
  OBVIOUS
<1>5. /\ Bien(ks', hilo_cpu', hilo_io') /\ p \in Pids
      /\ \/ ks' = ks
         \/ ks.estado[p] = "BLOCK" /\ Mueve(ks, ks', p, "READY")
         \/ ks.estado[p] = "SUSP_BLOCK" /\ Mueve(ks, ks', p, "SUSP_READY")
  BY <1>1, <1>4
<1>6. CASE ks' = ks
  BY <1>3, <1>5, <1>6, HechoIgual DEF Quieto
<1>7. CASE ks.estado[p] = "BLOCK" /\ Mueve(ks, ks', p, "READY")
  <2>1. Arista(ks, ks.estado[p], "READY")
    BY <1>7 DEF Arista
  <2>2. QED
    BY <1>3, <1>5, <1>7, <2>1, HechoMueve
<1>8. CASE ks.estado[p] = "SUSP_BLOCK" /\ Mueve(ks, ks', p, "SUSP_READY")
  <2>1. Arista(ks, ks.estado[p], "SUSP_READY")
    BY <1>8 DEF Arista
  <2>2. QED
    BY <1>3, <1>5, <1>8, <2>1, HechoMueve
<1>9. QED
  BY <1>5, <1>6, <1>7, <1>8

\* bloquear_proceso of an IO.
LEMMA IoHecho ==
  ASSUME Antes, NEW c \in Cpus, NEW p \in Pids, NEW t \in TiposIo, ManejarIo(c, p, t)
  PROVE  Hecho
<1>0. t \in {"SLEEP", "STDIN", "STDOUT"}
  BY ProcesosOK
<1>1. /\ Bien(ks, hilo_cpu, hilo_io) /\ ProgInv
      /\ hilo_cpu[c].pc = "recibir" /\ ks.cpu[p] = c /\ p \in ks.exec
      /\ programa[p][paso[p]].op = t
  BY EjecutaEs DEF ManejarIo
<1>2. hilo_io' = hilo_io /\ programa' = programa
  BY DEF ManejarIo, restoVars, ioVars
<1>3. CASE Falla(p) /\ UNCHANGED <<ks, hilo_cpu>>
  <2>1. Falla(p) /\ ks' = ks /\ hilo_cpu' = hilo_cpu
    BY <1>3
  <2>2. Avanzan
    BY <1>1, <1>2, <2>1, AvanzanAsi
  <2>3. Bien(ks', hilo_cpu', hilo_io') /\ ks'.estado = ks.estado /\ Quieto(ks, ks')
    BY <1>1, <1>2, <2>1 DEF Quieto
  <2>4. QED
    BY <2>2, <2>3, HechoIgual
<1>4. CASE ks' = Bloquear(ks, p) /\ Sigue(p) /\ AlHilo(c, "pedir_io", p, t)
  <2>1. /\ ks' = Bloquear(ks, p) /\ Sigue(p)
        /\ hilo_cpu' = [hilo_cpu EXCEPT ![c] = [pc |-> "pedir_io", pid |-> p, arg |-> t]]
    BY <1>4 DEF AlHilo
  <2>2. Avanzan
    BY <1>0, <1>1, <1>2, <2>1, AvanzanAsi
  <2>3. hilo_cpu'[c].pc = "pedir_io" /\ hilo_cpu'[c].pid = p /\ hilo_cpu'[c].arg \in TiposIo
    BY <2>1 DEF Antes, TypeOK
  <2>4. \A d \in Cpus : d # c => hilo_cpu'[d] = hilo_cpu[d]
    BY <2>1 DEF Antes, TypeOK
  <2>5. LET k1 == Bloquear(ks, p) IN
        Bien(k1, hilo_cpu', hilo_io) /\ ks.estado[p] = "EXEC" /\ Mueve(ks, k1, p, "BLOCK")
    BY ONLY <1>1, <2>3, <2>4, IoBien
  <2>6. Bien(ks', hilo_cpu', hilo_io') /\ ks.estado[p] = "EXEC" /\ Mueve(ks, ks', p, "BLOCK")
    BY <1>2, <2>1, <2>5
  <2>7. Arista(ks, ks.estado[p], "BLOCK")
    BY <2>6 DEF Arista
  <2>8. QED
    BY <2>2, <2>6, <2>7, HechoMueve
<1>5. QED
  BY <1>3, <1>4 DEF ManejarIo

\* encolar_pedido_io.
LEMMA EncolarPedidoIoHecho ==
  ASSUME Antes, NEW c \in Cpus, EncolarPedidoIo(c)
  PROVE  Hecho
<1>1. /\ Bien(ks, hilo_cpu, hilo_io) /\ ProgInv /\ hilo_cpu[c].pc = "pedir_io"
      /\ hilo_io' = hilo_io /\ programa' = programa /\ paso' = paso
      /\ ks' = [ks EXCEPT !.cola_io[hilo_cpu[c].arg] = Append(@, hilo_cpu[c].pid)]
      /\ hilo_cpu' = [hilo_cpu EXCEPT ![c] = HiloEn("recibir")]
  BY DEF Antes, EncolarPedidoIo, restoVars, ioVars
<1>2. hilo_cpu'[c].pc = "recibir" /\ \A d \in Cpus : d # c => hilo_cpu'[d] = hilo_cpu[d]
  BY <1>1 DEF Antes, TypeOK, HiloEn
<1>3. Avanzan
  BY <1>1, AvanzanAsi
<1>4. Bien([ks EXCEPT !.cola_io[hilo_cpu[c].arg] = Append(@, hilo_cpu[c].pid)], hilo_cpu', hilo_io)
  <2>1. Bien(ks, hilo_cpu, hilo_io)
    BY <1>1
  <2>2. hilo_cpu[c].pc = "pedir_io" /\ hilo_cpu'[c].pc = "recibir"
    BY <1>1, <1>2
  <2>3. \A d \in Cpus : d # c => hilo_cpu'[d] = hilo_cpu[d]
    BY <1>2
  <2>4. QED
    BY ONLY <2>1, <2>2, <2>3, EncolaIoBien
<1>5. Bien(ks', hilo_cpu', hilo_io')
  BY <1>1, <1>4
<1>6. ks'.estado = ks.estado /\ OtraCosa(ks, ks')
  <2>1. ks \in TipoKs(Cpus)
    BY <1>1 DEF Bien
  <2>2. /\ ks'.estado = ks.estado /\ ks'.prioridad = ks.prioridad
        /\ ks'.pid_dueno = ks.pid_dueno /\ ks'.cola_espera = ks.cola_espera
    BY <1>1, <2>1 DEF TipoKs
  <2>3. QED
    BY <2>2, OtraCosaQuieto
<1>7. QED
  BY <1>3, <1>5, <1>6, HechoIgual

\* manejar_proceso_exit.
LEMMA ProcesoExitHecho ==
  ASSUME Antes, NEW c \in Cpus, NEW p \in Pids, ManejarProcesoExit(c, p)
  PROVE  Hecho
<1>1. /\ Bien(ks, hilo_cpu, hilo_io) /\ ProgInv
      /\ hilo_cpu[c].pc = "recibir" /\ ks.cpu[p] = c /\ p \in ks.exec
      /\ programa[p][paso[p]].op = "EXIT"
  BY EjecutaEs DEF ManejarProcesoExit
<1>2. /\ hilo_io' = hilo_io /\ programa' = programa /\ paso' = paso
      /\ ks' = CancelarTimer(SacarDeExec(ks, p, "EXIT"), p)
      /\ hilo_cpu' = [hilo_cpu EXCEPT ![c] = [pc |-> "finalizar", pid |-> p, arg |-> Nulo]]
  BY DEF ManejarProcesoExit, AlHilo, restoVars, ioVars
<1>3. Avanzan
  BY <1>1, <1>2, AvanzanAsi
<1>4. hilo_cpu'[c].pc = "finalizar" /\ hilo_cpu'[c].pid = p
  BY <1>2 DEF Antes, TypeOK
<1>5. \A d \in Cpus : d # c => hilo_cpu'[d] = hilo_cpu[d]
  BY <1>2 DEF Antes, TypeOK
<1>6. LET k1 == CancelarTimer(SacarDeExec(ks, p, "EXIT"), p) IN
      Bien(k1, hilo_cpu', hilo_io) /\ ks.estado[p] = "EXEC" /\ Mueve(ks, k1, p, "EXIT")
  BY ONLY <1>1, <1>4, <1>5, ExitBien
<1>7. Bien(ks', hilo_cpu', hilo_io') /\ ks.estado[p] = "EXEC" /\ Mueve(ks, ks', p, "EXIT")
  BY <1>2, <1>6
<1>8. Arista(ks, ks.estado[p], "EXIT")
  BY <1>7 DEF Arista
<1>9. QED
  BY <1>1, <1>3, <1>7, <1>8, HechoMueve

\* OP_FINALIZAR_PROCESO.
LEMMA ExitFinalizaHecho ==
  ASSUME Antes, NEW c \in Cpus, ExitFinaliza(c)
  PROVE  Hecho
<1>1. /\ Bien(ks, hilo_cpu, hilo_io) /\ ProgInv /\ hilo_cpu[c].pc = "finalizar"
      /\ hilo_io' = hilo_io /\ programa' = programa /\ paso' = paso /\ ks' = ks
      /\ hilo_cpu' = [hilo_cpu EXCEPT ![c].pc = "liberar"]
  BY DEF Antes, ExitFinaliza, restoVars, ioVars
<1>2. hilo_cpu'[c].pc = "liberar" /\ hilo_cpu'[c].pid = hilo_cpu[c].pid
  BY <1>1 DEF Antes, TypeOK
<1>3. \A d \in Cpus : d # c => hilo_cpu'[d] = hilo_cpu[d]
  BY <1>1 DEF Antes, TypeOK
<1>4. Bien(ks, hilo_cpu', hilo_io)
  BY <1>1, <1>2, <1>3, FinalizaBien
<1>5. Avanzan
  BY <1>1, AvanzanAsi
<1>6. Bien(ks', hilo_cpu', hilo_io') /\ ks'.estado = ks.estado /\ Quieto(ks, ks')
  BY <1>1, <1>4 DEF Quieto
<1>7. QED
  BY <1>5, <1>6, HechoIgual

\* The end of manejar_proceso_exit.
LEMMA ExitLiberaHecho ==
  ASSUME Antes, NEW c \in Cpus, ExitLibera(c)
  PROVE  Hecho
<1>1. /\ Bien(ks, hilo_cpu, hilo_io) /\ hilo_cpu[c].pc = "liberar"
      /\ hilo_io' = hilo_io /\ programa' = programa /\ paso' = paso
      /\ ks' = LiberarCpu(LiberarMutexDelProceso(ks, hilo_cpu[c].pid), c)
      /\ hilo_cpu' = [hilo_cpu EXCEPT ![c] = HiloEn("recibir")]
  BY DEF Antes, ExitLibera, restoVars, ioVars
<1>2. hilo_cpu'[c].pc = "recibir" /\ \A d \in Cpus : d # c => hilo_cpu'[d] = hilo_cpu[d]
  BY <1>1 DEF Antes, TypeOK, HiloEn
<1>3. LET p  == hilo_cpu[c].pid
          k1 == LiberarCpu(LiberarMutexDelProceso(ks, p), c) IN
      /\ Bien(k1, hilo_cpu', hilo_io) /\ p \in Pids /\ ks.estado[p] = "EXIT"
      /\ \A r \in Pids : Despierto(ks.estado[r], k1.estado[r])
      /\ (\A r \in Pids : Vuelve(ks, r)) => \A r \in Pids : Vuelve(k1, r)
      /\ \A r \in Pids : r # p => \A x \in Mutexes : Toma(k1, r, x) <=> Toma(ks, r, x)
      /\ SinDoble(ks) => SinDoble(k1)
  <2>1. Bien(ks, hilo_cpu, hilo_io)
    BY <1>1
  <2>2. hilo_cpu[c].pc = "liberar" /\ hilo_cpu'[c].pc = "recibir"
    BY <1>1, <1>2
  <2>3. \A d \in Cpus : d # c => hilo_cpu'[d] = hilo_cpu[d]
    BY <1>2
  <2>4. QED
    BY ONLY <2>1, <2>2, <2>3, ExitLiberaBien
<1> SUFFICES ASSUME NEW p, p = hilo_cpu[c].pid PROVE Hecho
  OBVIOUS
<1>4. /\ Bien(ks', hilo_cpu', hilo_io') /\ p \in Pids /\ ks.estado[p] = "EXIT"
      /\ \A r \in Pids : Despierto(ks.estado[r], ks'.estado[r])
      /\ (\A r \in Pids : Vuelve(ks, r)) => \A r \in Pids : Vuelve(ks', r)
      /\ \A r \in Pids : r # p => \A x \in Mutexes : Toma(ks', r, x) <=> Toma(ks, r, x)
      /\ SinDoble(ks) => SinDoble(ks')
  BY <1>1, <1>3
<1>5. Vida(ks, ks')
  BY <1>4 DEF Vida
<1>6. Orden(ks', programa, paso)
  <2>1. ASSUME NEW r \in Pids PROVE EnOrden(ks', programa[r], paso[r], r)
    <3>1. EnOrden(ks, programa[r], paso[r], r)
      BY DEF Antes, Orden
    <3>2. CASE r = p
      BY <1>4, <3>1, <3>2 DEF EnOrden
    <3>3. CASE r # p
      <4>1. \A x \in Mutexes : Toma(ks', r, x) <=> Toma(ks, r, x)
        BY <1>4, <3>3
      <4>2. ks.estado[r] # "EXIT" => ks'.estado[r] # "EXIT"
        BY <1>4 DEF Despierto
      <4>3. QED
        BY <3>1, <4>1, <4>2 DEF EnOrden
    <3>4. QED
      BY <3>2, <3>3
  <2>2. SinDoble(ks) /\ \A r \in Pids : Vuelve(ks, r)
    BY DEF Antes, Orden
  <2>3. QED
    BY <1>4, <2>1, <2>2 DEF Orden
<1>7. QED
  BY <1>1, <1>4, <1>5, <1>6 DEF Hecho

-----------------------------------------------------------------------------
(* The devices and the suspension.                                          *)

\* The threads of the CPUs and the programs do not move.
Quieta == UNCHANGED <<programa, paso, hilo_cpu>>

\* The process that a thread brings back is one.
ReanInv == \A r \in Reanudadores : reanudar[r].pc \in {"pedir", "encolar"} => reanudar[r].pid \in Pids

\* atender_io takes a request.
LEMMA IoTomaHecho ==
  ASSUME Antes, NEW d \in Ios, IoToma(d), Quieta
  PROVE  Hecho
<1>1. /\ Bien(ks, hilo_cpu, hilo_io) /\ ProgInv /\ Quieta
      /\ hilo_io[d].pc = "espera" /\ TipoDe[d] \in TiposIo /\ ks.cola_io[TipoDe[d]] # <<>>
      /\ ks' = [ks EXCEPT !.cola_io[TipoDe[d]] = Tail(@)]
      /\ hilo_io' = [hilo_io EXCEPT ![d] =
           [pc |-> "dispositivo", pid |-> Head(ks.cola_io[TipoDe[d]]), leido |-> Nulo]]
  BY IosOK DEF Antes, IoToma
<1>2. hilo_cpu' = hilo_cpu /\ Avanzan
  BY <1>1, AvanzanAsi DEF Quieta
<1>3. /\ ks.estado = ks'.estado /\ OtraCosa(ks, ks')
  <2>1. ks \in TipoKs(Cpus)
    BY <1>1 DEF Bien
  <2>2. /\ ks'.estado = ks.estado /\ ks'.prioridad = ks.prioridad
        /\ ks'.pid_dueno = ks.pid_dueno /\ ks'.cola_espera = ks.cola_espera
    BY <1>1, <2>1 DEF TipoKs
  <2>3. QED
    BY <2>2, OtraCosaQuieto
<1> SUFFICES ASSUME NEW t, t = TipoDe[d] PROVE Hecho
  OBVIOUS
<1>4. hilo_io'[d].pc = "dispositivo" /\ hilo_io'[d].pid = Head(ks.cola_io[t])
  BY <1>1 DEF Antes, TypeOK, IoTipo
<1>5. \A e \in Ios : e # d => hilo_io'[e] = hilo_io[e]
  BY <1>1 DEF Antes, TypeOK, IoTipo
<1>6. Bien([ks EXCEPT !.cola_io[t] = Tail(@)], hilo_cpu, hilo_io')
  <2>1. Bien(ks, hilo_cpu, hilo_io)
    BY <1>1
  <2>2. hilo_io[d].pc = "espera" /\ t \in TiposIo /\ ks.cola_io[t] # <<>>
    BY <1>1
  <2>3. QED
    BY ONLY <1>4, <1>5, <2>1, <2>2, IoTomaBien
<1>7. Bien(ks', hilo_cpu', hilo_io')
  BY <1>1, <1>2, <1>6
<1>8. QED
  BY <1>2, <1>3, <1>7, HechoIgual

\* The device answers.
LEMMA IoRespondeHecho ==
  ASSUME Antes, NEW d \in Ios, IoResponde(d), Quieta
  PROVE  Hecho
<1>1. /\ Bien(ks, hilo_cpu, hilo_io) /\ ProgInv /\ Quieta
      /\ hilo_io[d].pc = "dispositivo" /\ ks' = CancelarTimer(ks, hilo_io[d].pid)
      /\ hilo_io' = [hilo_io EXCEPT ![d].pc = "mover", ![d].leido = ks.estado[hilo_io[d].pid]]
  BY DEF Antes, IoResponde
<1>2. hilo_cpu' = hilo_cpu /\ Avanzan
  BY <1>1, AvanzanAsi DEF Quieta
<1>3. /\ hilo_io'[d].pc = "mover" /\ hilo_io'[d].pid = hilo_io[d].pid
      /\ hilo_io'[d].leido = ks.estado[hilo_io[d].pid]
  BY <1>1 DEF Antes, TypeOK, IoTipo
<1>4. \A e \in Ios : e # d => hilo_io'[e] = hilo_io[e]
  BY <1>1 DEF Antes, TypeOK, IoTipo
<1>5. LET k1 == CancelarTimer(ks, hilo_io[d].pid) IN
      Bien(k1, hilo_cpu, hilo_io') /\ k1.estado = ks.estado /\ Quieto(ks, k1) /\ hilo_io[d].pid \in Pids
  <2>1. Bien(ks, hilo_cpu, hilo_io)
    BY <1>1
  <2>2. hilo_io[d].pc = "dispositivo"
    BY <1>1
  <2>3. QED
    BY ONLY <1>3, <1>4, <2>1, <2>2, IoRespondeBien
<1>6. Bien(ks', hilo_cpu', hilo_io') /\ ks'.estado = ks.estado /\ Quieto(ks, ks')
  BY <1>1, <1>2, <1>5
<1>7. QED
  BY <1>2, <1>6, HechoIgual

\* The device went away.
LEMMA IoSinRespuestaHecho ==
  ASSUME Antes, NEW d \in Ios, IoSinRespuesta(d), Quieta
  PROVE  Hecho
<1>1. /\ Bien(ks, hilo_cpu, hilo_io) /\ ProgInv /\ Quieta /\ ks' = ks
      /\ hilo_io' = [hilo_io EXCEPT ![d] = Ocioso]
  BY DEF Antes, IoSinRespuesta
<1>2. hilo_cpu' = hilo_cpu /\ Avanzan
  BY <1>1, AvanzanAsi DEF Quieta
<1>3. hilo_io'[d] = Ocioso /\ \A e \in Ios : e # d => hilo_io'[e] = hilo_io[e]
  BY <1>1 DEF Antes, TypeOK, IoTipo
<1>4. Bien(ks, hilo_cpu, hilo_io')
  BY <1>1, <1>3, IoSinBien
<1>5. Bien(ks', hilo_cpu', hilo_io') /\ ks'.estado = ks.estado /\ Quieto(ks, ks')
  BY <1>1, <1>2, <1>4 DEF Quieto
<1>6. QED
  BY <1>2, <1>5, HechoIgual

\* manejar_fin_io.
LEMMA ManejarFinIoHecho ==
  ASSUME Antes, NEW d \in Ios, ManejarFinIo(d), Quieta
  PROVE  Hecho
<1>1. /\ Bien(ks, hilo_cpu, hilo_io) /\ ProgInv /\ Quieta /\ hilo_io[d].pc = "mover"
      /\ ks' = Despertar(ks, hilo_io[d].pid, hilo_io[d].leido)
      /\ hilo_io' = [hilo_io EXCEPT ![d] = Ocioso]
  BY DEF Antes, ManejarFinIo
<1>2. hilo_cpu' = hilo_cpu /\ Avanzan
  BY <1>1, AvanzanAsi DEF Quieta
<1>3. hilo_io'[d] = Ocioso /\ \A e \in Ios : e # d => hilo_io'[e] = hilo_io[e]
  BY <1>1 DEF Antes, TypeOK, IoTipo
<1>4. LET p == hilo_io[d].pid
          k1 == Despertar(ks, p, hilo_io[d].leido) IN
      /\ Bien(k1, hilo_cpu, hilo_io') /\ p \in Pids
      /\ \/ ks.estado[p] = "BLOCK" /\ Mueve(ks, k1, p, "READY")
         \/ ks.estado[p] = "SUSP_BLOCK" /\ Mueve(ks, k1, p, "SUSP_READY")
  <2>1. Bien(ks, hilo_cpu, hilo_io) /\ hilo_io[d].pc = "mover"
    BY <1>1
  <2>2. hilo_io'[d] = Ocioso
    BY <1>3
  <2>3. \A e \in Ios : e # d => hilo_io'[e] = hilo_io[e]
    BY <1>3
  <2>4. QED
    BY ONLY <2>1, <2>2, <2>3, FinIoBien
<1> SUFFICES ASSUME NEW p, p = hilo_io[d].pid PROVE Hecho
  OBVIOUS
<1>5. /\ Bien(ks', hilo_cpu', hilo_io') /\ p \in Pids
      /\ \/ ks.estado[p] = "BLOCK" /\ Mueve(ks, ks', p, "READY")
         \/ ks.estado[p] = "SUSP_BLOCK" /\ Mueve(ks, ks', p, "SUSP_READY")
  BY <1>1, <1>2, <1>4
<1>6. CASE ks.estado[p] = "BLOCK" /\ Mueve(ks, ks', p, "READY")
  <2>1. Arista(ks, ks.estado[p], "READY")
    BY <1>6 DEF Arista
  <2>2. QED
    BY <1>2, <1>5, <1>6, <2>1, HechoMueve
<1>7. CASE ks.estado[p] = "SUSP_BLOCK" /\ Mueve(ks, ks', p, "SUSP_READY")
  <2>1. Arista(ks, ks.estado[p], "SUSP_READY")
    BY <1>7 DEF Arista
  <2>2. QED
    BY <1>2, <1>5, <1>7, <2>1, HechoMueve
<1>8. QED
  BY <1>5, <1>6, <1>7

\* Nothing of the scheduler changes.
LEMMA NadaHecho ==
  ASSUME Antes, ks' = ks, hilo_io' = hilo_io, Quieta
  PROVE  Hecho
<1>1. Bien(ks, hilo_cpu, hilo_io) /\ ProgInv
  BY DEF Antes
<1>2. Avanzan
  BY <1>1, AvanzanAsi DEF Quieta
<1>3. Bien(ks', hilo_cpu', hilo_io') /\ ks'.estado = ks.estado /\ Quieto(ks, ks')
  BY <1>1 DEF Quieta, Quieto
<1>4. QED
  BY <1>2, <1>3, HechoIgual

\* lista_susp_ready is put in order.
LEMMA OrdenarHecho ==
  ASSUME Antes, NEW r, Ordenar(r), UNCHANGED ioVars, Quieta
  PROVE  Hecho
<1>1. Bien(ks, hilo_cpu, hilo_io) /\ ProgInv
  BY DEF Antes
<1>2. Avanzan /\ hilo_io' = hilo_io /\ hilo_cpu' = hilo_cpu
  BY <1>1, AvanzanAsi DEF Quieta, ioVars
<1>3. PICK s \in SetToSeqs(ToSet(ks.susp_ready)) : ks' = [ks EXCEPT !.susp_ready = s]
  BY DEF Ordenar
<1>4. LET k1 == [ks EXCEPT !.susp_ready = s] IN
      Bien(k1, hilo_cpu, hilo_io) /\ k1.estado = ks.estado /\ Quieto(ks, k1)
  BY ONLY <1>1, s \in SetToSeqs(ToSet(ks.susp_ready)), OrdenaBien
<1>5. Bien(ks', hilo_cpu', hilo_io') /\ ks'.estado = ks.estado /\ Quieto(ks, ks')
  BY <1>2, <1>3, <1>4
<1>6. QED
  BY <1>2, <1>5, HechoIgual

\* intentar_dessuspender_procesos.
LEMMA ReanudarHecho ==
  ASSUME Antes, ReanInv, NEW r \in Reanudadores, ReanudarPaso(r), UNCHANGED ioVars, Quieta
  PROVE  Hecho
<1>1. CASE ReanudarOrdena(r)
  BY <1>1, OrdenarHecho DEF ReanudarOrdena
<1>2. CASE ReanudarMide(r) \/ ReanudarToma(r) \/ ReanudarPide(r)
  <2>1. ks' = ks /\ hilo_io' = hilo_io
    BY <1>2 DEF ReanudarMide, ReanudarToma, ReanudarPide, ioVars
  <2>2. QED
    BY <2>1, NadaHecho
<1>3. CASE ReanudarEncola(r)
  <2>1. reanudar[r].pid \in Pids
    BY <1>3 DEF ReanudarEncola, ReanInv
  <2> SUFFICES ASSUME NEW p \in Pids, p = reanudar[r].pid PROVE Hecho
    BY <2>1
  <2>2. CASE ks.estado[p] # "SUSP_READY"
    <3>1. ks' = ks /\ hilo_io' = hilo_io
      BY <1>3, <2>2 DEF ReanudarEncola, ioVars
    <3>2. QED
      BY <3>1, NadaHecho
  <2>3. CASE ks.estado[p] = "SUSP_READY"
    <3>1. ks' = Encolar([ks EXCEPT !.susp_ready = RemoveFirst(@, p), !.estado[p] = "READY"], p)
      BY <1>3, <2>3 DEF ReanudarEncola
    <3>2. Bien(ks, hilo_cpu, hilo_io) /\ ProgInv
      BY DEF Antes
    <3>3. Avanzan /\ hilo_io' = hilo_io /\ hilo_cpu' = hilo_cpu
      BY <3>2, AvanzanAsi DEF Quieta, ioVars
    <3>4. LET k1 == Encolar([ks EXCEPT !.susp_ready = RemoveFirst(@, p), !.estado[p] = "READY"], p) IN
          Bien(k1, hilo_cpu, hilo_io) /\ Mueve(ks, k1, p, "READY")
      BY ONLY <2>3, <3>2, ReanudaBien
    <3>5. Bien(ks', hilo_cpu', hilo_io') /\ Mueve(ks, ks', p, "READY")
      BY <3>1, <3>3, <3>4
    <3>6. Arista(ks, ks.estado[p], "READY")
      BY <2>3 DEF Arista
    <3>7. QED
      BY <3>3, <3>5, <3>6, HechoMueve
  <2>4. QED
    BY <2>2, <2>3
<1>4. QED
  BY <1>1, <1>2, <1>3 DEF ReanudarPaso

\* hilo_suspension.
LEMMA SuspensionHecho ==
  ASSUME Antes, NEW p \in Pids, SuspensionVence(p) \/ SuspensionPide(p), UNCHANGED ioVars, Quieta
  PROVE  Hecho
<1>1. CASE SuspensionPide(p)
  <2>1. ks' = ks /\ hilo_io' = hilo_io
    BY <1>1 DEF SuspensionPide, ioVars
  <2>2. QED
    BY <2>1, NadaHecho
<1>2. CASE SuspensionVence(p)
  <2>1. Bien(ks, hilo_cpu, hilo_io) /\ ProgInv /\ ks.timer[p]
    BY <1>2 DEF Antes, SuspensionVence
  <2>2. Avanzan /\ hilo_io' = hilo_io /\ hilo_cpu' = hilo_cpu
    BY <2>1, AvanzanAsi DEF Quieta, ioVars
  <2>3. LET k1 == [ks EXCEPT !.timer[p] = FALSE, !.block = @ \ {p},
                             !.susp_block = @ \cup {p}, !.estado[p] = "SUSP_BLOCK"] IN
        ks.estado[p] = "BLOCK" /\ Bien(k1, hilo_cpu, hilo_io) /\ Mueve(ks, k1, p, "SUSP_BLOCK")
    BY ONLY <2>1, VenceBien
  <2>4. ks' = [ks EXCEPT !.timer[p] = FALSE, !.block = @ \ {p},
                         !.susp_block = @ \cup {p}, !.estado[p] = "SUSP_BLOCK"]
    BY <1>2, <2>3 DEF SuspensionVence
  <2>5. ks.estado[p] = "BLOCK" /\ Bien(ks', hilo_cpu', hilo_io') /\ Mueve(ks, ks', p, "SUSP_BLOCK")
    BY <2>2, <2>3, <2>4
  <2>6. Arista(ks, ks.estado[p], "SUSP_BLOCK")
    BY <2>5 DEF Arista
  <2>7. QED
    BY <2>2, <2>5, <2>6, HechoMueve
<1>3. QED
  BY <1>1, <1>2

\* Every step of the specification.
LEMMA PasoHecho ==
  ASSUME Antes, ReanInv, Next
  PROVE  Hecho
<1>1. CASE PasoPlanifica
  <2>1. Planifica /\ UNCHANGED <<ioVars, programa, paso, hilo_cpu>>
    BY <1>1 DEF PasoPlanifica, Vivo, Planifica, suspVars
  <2>2. QED
    BY <2>1, PasoPlanificaHecho
<1>2. ASSUME NEW c \in Cpus, PasoCpu(c) PROVE Hecho
  <2>1. ASSUME NEW p \in Pids, ManejarFinQuantum(c, p) PROVE Hecho
    BY <2>1, FinQuantumHecho
  <2>2. ASSUME NEW p \in Pids, ManejarMemAlloc(c, p) \/ Accede(c, p) PROVE Hecho
    BY <2>2, MemoriaHecho
  <2>3. ASSUME NEW p \in Pids, ManejarMutexCreate(c, p) PROVE Hecho
    BY <2>3, MutexCreateHecho
  <2>4. ASSUME NEW p \in Pids, ManejarMutexLock(c, p) PROVE Hecho
    BY <2>4, MutexLockHecho
  <2>5. ASSUME NEW p \in Pids, ManejarMutexUnlock(c, p) PROVE Hecho
    BY <2>5, MutexUnlockHecho
  <2>6. ASSUME NEW p \in Pids, NEW t \in TiposIo, ManejarIo(c, p, t) PROVE Hecho
    BY <2>6, IoHecho
  <2>7. ASSUME NEW p \in Pids, ManejarProcesoExit(c, p) PROVE Hecho
    BY <2>7, ProcesoExitHecho
  <2>8. MutexLockBloquea(c) => Hecho
    BY MutexLockBloqueaHecho
  <2>9. MutexUnlockDespierta(c) => Hecho
    BY MutexUnlockDespiertaHecho
  <2>10. EncolarPedidoIo(c) => Hecho
    BY EncolarPedidoIoHecho
  <2>11. ExitFinaliza(c) => Hecho
    BY ExitFinalizaHecho
  <2>12. ExitLibera(c) => Hecho
    BY ExitLiberaHecho
  <2>13. QED
    BY <1>2, <2>1, <2>2, <2>3, <2>4, <2>5, <2>6, <2>7, <2>8, <2>9, <2>10, <2>11, <2>12
       DEF PasoCpu, Vivo, HiloCpu
<1>3. ASSUME NEW d \in Ios, PasoIo(d) \/ Caida(d) PROVE Hecho
  <2>1. Quieta
    BY <1>3 DEF PasoIo, Caida, Quieta
  <2>2. CASE ReanudarPaso(d) /\ UNCHANGED ioVars
    <3>1. d \in Reanudadores
      BY DEF Reanudadores
    <3>2. QED
      BY <2>1, <2>2, <3>1, ReanudarHecho
  <2>3. CASE IoToma(d)
    BY <2>1, <2>3, IoTomaHecho
  <2>4. CASE IoResponde(d)
    BY <2>1, <2>4, IoRespondeHecho
  <2>5. CASE IoSinRespuesta(d)
    BY <2>1, <2>5, IoSinRespuestaHecho
  <2>6. CASE ManejarFinIo(d)
    BY <2>1, <2>6, ManejarFinIoHecho
  <2>7. CASE IoCae(d)
    <3>1. ks' = ks /\ hilo_io' = hilo_io
      BY <2>7 DEF IoCae
    <3>2. QED
      BY <2>1, <3>1, NadaHecho
  <2>8. QED
    BY <1>3, <2>2, <2>3, <2>4, <2>5, <2>6, <2>7 DEF PasoIo, Caida, Vivo, IoPaso
<1>4. CASE PasoOyente
  <2>1. Quieta /\ UNCHANGED ioVars /\ (ReanudarPaso(Oyente) \/ OirMemoria)
    BY <1>4 DEF PasoOyente, Vivo, Quieta
  <2>2. CASE ReanudarPaso(Oyente)
    <3>1. Oyente \in Reanudadores
      BY DEF Reanudadores
    <3>2. QED
      BY <2>1, <2>2, <3>1, ReanudarHecho
  <2>3. CASE OirMemoria
    <3>1. Ordenar(Oyente)
      BY <2>3 DEF OirMemoria
    <3>2. QED
      BY <2>1, <3>1, OrdenarHecho
  <2>4. QED
    BY <2>1, <2>2, <2>3
<1>5. ASSUME NEW p \in Pids, PasoSuspension(p) PROVE Hecho
  <2>1. Quieta /\ UNCHANGED ioVars /\ (SuspensionVence(p) \/ SuspensionPide(p))
    BY <1>5 DEF PasoSuspension, Vivo, Quieta
  <2>2. QED
    BY <2>1, SuspensionHecho
<1>6. QED
  BY <1>1, <1>2, <1>3, <1>4, <1>5 DEF Next

-----------------------------------------------------------------------------
(* The start.                                                               *)

\* A list without repetitions that is as long as the set is big has all of it.
LEMMA ListaCompleta ==
  ASSUME NEW S, IsFiniteSet(S), NEW s \in Seq(S), Len(s) = Cardinality(S), Distintos(s)
  PROVE  \A y \in S : Tiene(s, y)
<1> DEFINE n == Cardinality(S)
<1>1. n \in Nat
  BY FS_CardinalityType
<1>2. s \in [1 .. n -> S] /\ DOMAIN s = 1 .. n
  OBVIOUS
<1> HIDE DEF n
<1>3. IsFiniteSet(1 .. n) /\ Cardinality(1 .. n) = n
  BY ONLY <1>1, FS_Interval
<1>4. s \in Injection(1 .. n, S)
  BY <1>2 DEF Injection, IsInjective, Distintos
<1>5. s \in Surjection(1 .. n, S)
  BY <1>3, <1>4, FS_Injection DEF n
<1>6. QED
  BY <1>2, <1>5 DEF Surjection, Tiene

\* Every process is in the queue of its priority.
LEMMA ListasInicial ==
  ASSUME KsInit
  PROVE  ks \in TipoKs(Cpus) /\ ListasBien(ks) /\ Distintos(ks.cpus_libres)
<1>1. /\ ks.estado = [p \in Pids |-> "READY"] /\ ks.prioridad = PrioridadOriginal
      /\ ks.exec = {} /\ ks.block = {} /\ ks.susp_block = {} /\ ks.susp_ready = <<>>
      /\ ks.colas_ready = [q \in Colas |-> PorOrden({p \in Pids : PrioridadOriginal[p] = q})]
  BY DEF KsInit
<1>2. /\ ks \in TipoKs(Cpus)
      /\ \A i, j \in 1 .. Len(ks.cpus_libres) : ks.cpus_libres[i] = ks.cpus_libres[j] => i = j
  BY ProgramasOK, KsInicial
<1>3. Distintos(ks.cpus_libres)
  <2>1. DOMAIN ks.cpus_libres = 1 .. Len(ks.cpus_libres)
    BY <1>2 DEF TipoKs
  <2>2. QED
    BY <1>2, <2>1 DEF Distintos
<1>4. ASSUME NEW q \in Colas
      PROVE  /\ Distintos(ks.colas_ready[q])
             /\ \A p \in Pids : Tiene(ks.colas_ready[q], p) <=> PrioridadOriginal[p] = q
  <2> DEFINE S == {p \in Pids : PrioridadOriginal[p] = q}
             s == PorOrden(S)
  <2>1. S \in SUBSET Nat /\ IsFiniteSet(S)
    BY ProcesosOK, FS_Subset
  <2> HIDE DEF S
  <2>2. /\ s \in Seq(S) /\ Len(s) = Cardinality(S)
        /\ \A i, j \in 1 .. Len(s) : s[i] = s[j] => i = j
    BY <2>1, PorOrdenEs
  <2> HIDE DEF s
  <2>3. DOMAIN s = 1 .. Len(s) /\ \A i \in DOMAIN s : s[i] \in S
    BY <2>2
  <2>4. Distintos(s)
    BY <2>2, <2>3 DEF Distintos
  <2>5. \A y : Tiene(s, y) <=> y \in S
    <3>1. \A y \in S : Tiene(s, y)
      BY <2>1, <2>2, <2>4, ListaCompleta
    <3>2. QED
      BY <2>3, <3>1 DEF Tiene
  <2>6. ks.colas_ready[q] = s
    BY <1>1 DEF s, S
  <2>7. QED
    BY <2>4, <2>5, <2>6 DEF S
<1>5. Distintos(<<>>) /\ \A y : ~ Tiene(<<>>, y)
  BY DEF Distintos, Tiene
<1>6. QED
  BY <1>1, <1>2, <1>3, <1>4, <1>5 DEF ListasBien

\* Nobody waits and nobody owns a mutex.
LEMMA BienInicial ==
  ASSUME Init
  PROVE  Bien(ks, hilo_cpu, hilo_io) /\ Orden(ks, programa, paso)
<1>1. /\ ks.estado = [p \in Pids |-> "READY"] /\ ks.prioridad = PrioridadOriginal
      /\ ks.timer = [p \in Pids |-> FALSE]
      /\ ks.exec = {} /\ ks.pid_dueno = [m \in Mutexes |-> Nadie]
      /\ ks.cola_espera = [m \in Mutexes |-> <<>>] /\ ks.cola_io = [t \in TiposIo |-> <<>>]
  BY DEF Init, KsInit
<1>2. /\ hilo_cpu = [c \in Cpus |-> HiloEn("recibir")] /\ hilo_io = [d \in Ios |-> Ocioso]
      /\ paso = [p \in Pids |-> 1]
  BY DEF Init, IoInit
<1>3. ks \in TipoKs(Cpus) /\ ListasBien(ks) /\ Distintos(ks.cpus_libres)
  BY ListasInicial DEF Init
<1>4. Distintos(<<>>) /\ \A y : ~ Tiene(<<>>, y)
  BY DEF Distintos, Tiene
<1>5. \A c \in Cpus : hilo_cpu[c].pc = "recibir" /\ hilo_cpu[c].pid = Nadie
  BY <1>2 DEF HiloEn
<1>6. \A d \in Ios : hilo_io[d].pc = "espera" /\ hilo_io[d].pid = Nadie
  BY <1>2 DEF Ocioso
<1>7. \A p \in Pids : p # Nadie
  BY ProcesosOK DEF Nadie
<1>8. CpusBien(ks, hilo_cpu)
  BY <1>1, <1>3, <1>5 DEF CpusBien, Sola, Cierra, EnBloqueo, EnCierre
<1>9. EsperasBien(ks, hilo_cpu, hilo_io)
  <2>1. \A p \in Pids : Quienes(ks, hilo_cpu, hilo_io, p) = {}
    BY <1>1, <1>4, <1>5, <1>6, <1>7 DEF Quienes, HiloDespierta
  <2>2. \A p \in Pids : UnoQueDespierta(ks, hilo_cpu, hilo_io, p)
    BY <1>1, <2>1 DEF UnoQueDespierta
  <2>3. \A c \in Cpus : HiloCpuBien(ks, hilo_cpu[c])
    BY <1>5 DEF HiloCpuBien
  <2>4. \A d \in Ios : HiloIoBien(ks, hilo_io[d])
    BY <1>6 DEF HiloIoBien
  <2>5. QED
    BY <1>1, <1>4, <2>2, <2>3, <2>4 DEF EsperasBien
<1>10. MutexBien(ks, hilo_cpu)
  <2>1. Mejora(ks)
    <3>1. \A p \in Pids : PrioridadOriginal[p] \in Nat
      BY ProcesosOK
    <3>2. QED
      BY <1>1, <3>1 DEF Mejora
  <2>2. QED
    BY <1>1, <1>4, <2>1 DEF MutexBien, ConDueno, Alcanza
<1>11. Orden(ks, programa, paso)
  <2>1. \A r \in Pids : Vuelve(ks, r)
    BY <1>1 DEF Vuelve
  <2>2. SinDoble(ks)
    BY <1>1, <1>4 DEF SinDoble
  <2>3. \A r \in Pids : \A m \in Mutexes : ~ Toma(ks, r, m)
    BY <1>1, <1>4, <1>7 DEF Toma
  <2>4. ASSUME NEW q, NEW m PROVE ~ Tomado(q, 1, m)
    BY DEF Tomado
  <2>5. \A r \in Pids : paso[r] = 1 /\ ks.estado[r] = "READY"
    BY <1>1, <1>2
  <2>6. \A r \in Pids : EnOrden(ks, programa[r], paso[r], r)
    BY <2>3, <2>4, <2>5 DEF EnOrden
  <2>7. QED
    BY <2>1, <2>2, <2>6 DEF Orden
<1>12. QED
  BY <1>3, <1>8, <1>9, <1>10, <1>11 DEF Bien

-----------------------------------------------------------------------------
(* The types.                                                               *)

\* Where the loop of intentar_dessuspender_procesos is.
Vuelta == [pc : {"no", "ordenar", "tam", "tomar", "pedir", "encolar"},
           i : Nat, pid : Pids \cup {Nadie}]

\* One loop goes on.
LEMMA VueltaSigue ==
  ASSUME SuspTipo, ReanInv, NEW r \in Reanudadores, NEW x \in Vuelta,
         x.pc \in {"pedir", "encolar"} => x.pid \in Pids, reanudar' = [reanudar EXCEPT ![r] = x]
  PROVE  reanudar' \in [Reanudadores -> Vuelta] /\ ReanInv'
<1>1. reanudar \in [Reanudadores -> Vuelta]
  BY DEF SuspTipo, Vuelta
<1>2. \A e \in Reanudadores : reanudar'[e] = IF e = r THEN x ELSE reanudar[e]
  BY <1>1
<1>3. reanudar' \in [Reanudadores -> Vuelta]
  BY <1>1
<1>4. QED
  BY <1>2, <1>3 DEF ReanInv

\* Where the segment of a process is.
LEMMA LugarSigue ==
  ASSUME SuspTipo, NEW p, NEW x \in Lugares, memoria' = [memoria EXCEPT ![p] = x]
  PROVE  memoria' \in [Pids -> Lugares]
BY DEF SuspTipo

\* lista_susp_ready is put in order.
LEMMA OrdenarTipo ==
  ASSUME SuspTipo, ReanInv, NEW r \in Reanudadores, reanudar' = [reanudar EXCEPT ![r].pc = "tam"]
  PROVE  reanudar' \in [Reanudadores -> Vuelta] /\ ReanInv'
<1> DEFINE x == [reanudar[r] EXCEPT !.pc = "tam"]
<1>1. reanudar[r] \in Vuelta
  BY DEF SuspTipo, Vuelta
<1>2. x \in Vuelta /\ x.pc = "tam"
  BY <1>1 DEF Vuelta
<1>3. reanudar' = [reanudar EXCEPT ![r] = x]
  OBVIOUS
<1> HIDE DEF x
<1>4. QED
  BY <1>2, <1>3, VueltaSigue

\* intentar_dessuspender_procesos.
LEMMA ReanudarTipo ==
  ASSUME KsTipo, SuspTipo, ReanInv, NEW r \in Reanudadores, ReanudarPaso(r)
  PROVE  SuspTipo' /\ ReanInv'
<1>1. /\ memoria \in [Pids -> Lugares] /\ notificaciones \in Nat /\ suspensiones \in [Pids -> Nat]
      /\ ks_caido \in BOOLEAN
  BY DEF SuspTipo
<1>2. reanudar[r] \in Vuelta
  BY DEF SuspTipo, Vuelta
<1>3. CASE ReanudarOrdena(r)
  <2>1. /\ reanudar' = [reanudar EXCEPT ![r].pc = "tam"] /\ memoria' = memoria
        /\ notificaciones' = notificaciones /\ suspensiones' = suspensiones /\ ks_caido' = ks_caido
    BY <1>3 DEF ReanudarOrdena, Ordenar
  <2>2. reanudar' \in [Reanudadores -> Vuelta] /\ ReanInv'
    BY <2>1, OrdenarTipo
  <2>3. QED
    BY <1>1, <2>1, <2>2 DEF SuspTipo, Vuelta
<1>4. CASE ReanudarMide(r)
  <2> DEFINE x == IF reanudar[r].i < Len(ks.susp_ready)
                  THEN [reanudar[r] EXCEPT !.pc = "tomar"] ELSE EnReposo
  <2>1. /\ memoria' = memoria /\ notificaciones' = notificaciones
        /\ suspensiones' = suspensiones /\ ks_caido' = ks_caido
    BY <1>4 DEF ReanudarMide
  <2>2. reanudar' = [reanudar EXCEPT ![r] = x]
    BY <1>4 DEF ReanudarMide
  <2>3. x \in Vuelta /\ x.pc \notin {"pedir", "encolar"}
    <3>1. EnReposo \in Vuelta /\ EnReposo.pc = "no"
      BY DEF EnReposo, Vuelta
    <3>2. [reanudar[r] EXCEPT !.pc = "tomar"] \in Vuelta
          /\ [reanudar[r] EXCEPT !.pc = "tomar"].pc = "tomar"
      BY <1>2 DEF Vuelta
    <3>3. x = EnReposo \/ x = [reanudar[r] EXCEPT !.pc = "tomar"]
      OBVIOUS
    <3>4. QED
      BY <3>1, <3>2, <3>3
  <2> HIDE DEF x
  <2>4. reanudar' \in [Reanudadores -> Vuelta] /\ ReanInv'
    BY <2>2, <2>3, VueltaSigue
  <2>5. QED
    BY <1>1, <2>1, <2>4 DEF SuspTipo, Vuelta
<1>5. CASE ReanudarToma(r)
  <2>1. memoria' = memoria /\ notificaciones' = notificaciones /\ suspensiones' = suspensiones
    BY <1>5 DEF ReanudarToma
  <2>2. CASE reanudar[r].i < Len(ks.susp_ready)
    <3> DEFINE p == ks.susp_ready[reanudar[r].i + 1]
               x == [reanudar[r] EXCEPT !.pc = "pedir", !.pid = p]
    <3>1. p \in Pids
      <4>1. ks.susp_ready \in Seq(Pids) /\ reanudar[r].i \in Nat
        BY <1>2 DEF KsTipo, Vuelta
      <4>2. QED
        BY <2>2, <4>1
    <3>2. reanudar' = [reanudar EXCEPT ![r].pc = "pedir", ![r].pid = p] /\ ks_caido' = ks_caido
      BY <1>5, <2>2 DEF ReanudarToma
    <3> HIDE DEF p
    <3>3. reanudar' = [reanudar EXCEPT ![r] = x]
      BY <1>2, <3>2 DEF SuspTipo, Vuelta
    <3>4. x \in Vuelta /\ x.pid = p
      BY <1>2, <3>1 DEF Vuelta
    <3> HIDE DEF x
    <3>5. reanudar' \in [Reanudadores -> Vuelta] /\ ReanInv'
      BY <3>1, <3>3, <3>4, VueltaSigue
    <3>6. QED
      BY <1>1, <2>1, <3>2, <3>5 DEF SuspTipo, Vuelta
  <2>3. CASE ~ (reanudar[r].i < Len(ks.susp_ready))
    <3>1. reanudar' = reanudar /\ ks_caido' \in BOOLEAN
      BY <1>5, <2>3 DEF ReanudarToma
    <3>2. QED
      BY <1>1, <2>1, <3>1 DEF SuspTipo, ReanInv
  <2>4. QED
    BY <2>2, <2>3
<1>6. CASE ReanudarPide(r)
  <2> DEFINE p == reanudar[r].pid
             si == memoria[p] = "swap" => HayMarco
             l == CASE ~ si -> memoria[p] [] memoria[p] = "swap" -> "ram"
                    [] memoria[p] = "vacio" -> "nada" [] OTHER -> memoria[p]
             y == [reanudar[r] EXCEPT !.pc = "encolar"]
             z == [pc |-> "tam", i |-> reanudar[r].i + 1, pid |-> Nadie]
  <2>1. p \in Pids /\ memoria[p] \in Lugares
    BY <1>1, <1>6 DEF ReanudarPide, ReanInv
  <2>2. /\ memoria' = [memoria EXCEPT ![p] = l]
        /\ reanudar' = [reanudar EXCEPT ![r] = IF si THEN y ELSE z]
        /\ notificaciones' = notificaciones /\ suspensiones' = suspensiones /\ ks_caido' = ks_caido
    BY <1>6 DEF ReanudarPide
  <2>3. l \in Lugares
    <3> HIDE DEF si, p
    <3>1. QED
      BY <2>1 DEF Lugares
  <2>4. y \in Vuelta /\ y.pid = p /\ z \in Vuelta /\ z.pc = "tam"
    BY <1>2, <2>1 DEF Vuelta
  <2> HIDE DEF l, y, z
  <2>5. memoria' \in [Pids -> Lugares]
    BY <2>2, <2>3, LugarSigue
  <2>6. reanudar' \in [Reanudadores -> Vuelta] /\ ReanInv'
    <3>1. CASE si
      <4>1. reanudar' = [reanudar EXCEPT ![r] = y]
        BY <2>2, <3>1
      <4>2. QED
        BY <2>1, <2>4, <4>1, VueltaSigue
    <3>2. CASE ~ si
      <4>1. reanudar' = [reanudar EXCEPT ![r] = z]
        BY <2>2, <3>2
      <4>2. QED
        BY <2>4, <4>1, VueltaSigue
    <3>3. QED
      BY <3>1, <3>2
  <2>7. QED
    BY <1>1, <2>2, <2>5, <2>6 DEF SuspTipo, Vuelta
<1>7. CASE ReanudarEncola(r)
  <2> DEFINE x == [reanudar[r] EXCEPT !.pc = "tam", !.pid = Nadie]
  <2>1. /\ memoria' = memoria /\ notificaciones' = notificaciones /\ suspensiones' = suspensiones
        /\ ks_caido' \in BOOLEAN
    BY <1>1, <1>7 DEF ReanudarEncola
  <2>2. reanudar' = [reanudar EXCEPT ![r].pc = "tam", ![r].pid = Nadie]
    BY <1>7 DEF ReanudarEncola
  <2>3. reanudar' = [reanudar EXCEPT ![r] = x]
    BY <2>2 DEF SuspTipo
  <2>4. x \in Vuelta /\ x.pc = "tam"
    BY <1>2 DEF Vuelta
  <2> HIDE DEF x
  <2>5. reanudar' \in [Reanudadores -> Vuelta] /\ ReanInv'
    BY <2>3, <2>4, VueltaSigue
  <2>6. QED
    BY <2>1, <2>5 , <1>1 DEF SuspTipo, Vuelta
<1>8. QED
  BY <1>3, <1>4, <1>5, <1>6, <1>7 DEF ReanudarPaso

\* hilo_suspension.
LEMMA SuspensionTipo ==
  ASSUME SuspTipo, ReanInv, NEW p \in Pids, SuspensionVence(p) \/ SuspensionPide(p)
  PROVE  SuspTipo' /\ ReanInv'
<1>1. /\ memoria \in [Pids -> Lugares] /\ notificaciones \in Nat /\ suspensiones \in [Pids -> Nat]
      /\ ks_caido \in BOOLEAN /\ reanudar \in [Reanudadores -> Vuelta]
  BY DEF SuspTipo, Vuelta
<1>2. CASE SuspensionVence(p)
  <2>1. /\ memoria' = memoria /\ notificaciones' = notificaciones /\ reanudar' = reanudar
        /\ ks_caido' = ks_caido
    BY <1>2 DEF SuspensionVence
  <2>2. suspensiones' \in [Pids -> Nat]
    BY <1>1, <1>2 DEF SuspensionVence
  <2>3. QED
    BY <1>1, <2>1, <2>2 DEF SuspTipo, ReanInv, Vuelta
<1>3. CASE SuspensionPide(p)
  <2>1. reanudar' = reanudar
    BY <1>3 DEF SuspensionPide
  <2>2. suspensiones' \in [Pids -> Nat]
    <3>1. suspensiones[p] - 1 \in Nat /\ suspensiones' = [suspensiones EXCEPT ![p] = @ - 1]
      BY <1>1, <1>3 DEF SuspensionPide
    <3>2. QED
      BY <1>1, <3>1
  <2>3. memoria' \in [Pids -> Lugares]
    <3> DEFINE l == CASE memoria[p] = "ram" -> "swap" [] memoria[p] = "nada" -> "vacio"
                      [] OTHER -> memoria[p]
    <3>1. memoria' = memoria \/ memoria' = [memoria EXCEPT ![p] = l]
      BY <1>3 DEF SuspensionPide
    <3>2. l \in Lugares
      BY <1>1 DEF Lugares
    <3> HIDE DEF l
    <3>3. QED
      BY <1>1, <3>1, <3>2
  <2>4. notificaciones' \in Nat /\ ks_caido' \in BOOLEAN
    <3>1. notificaciones' \in {notificaciones, notificaciones + 1}
      BY <1>3 DEF SuspensionPide
    <3>2. ks_caido' = TRUE \/ ks_caido' = ks_caido
      BY <1>3, Zenon DEF SuspensionPide
    <3>3. ks_caido' \in BOOLEAN
      BY <1>1, <3>2, Zenon
    <3>4. QED
      BY <1>1, <3>1, <3>3
  <2>5. QED
    BY <1>1, <2>1, <2>2, <2>3, <2>4 DEF SuspTipo, ReanInv, Vuelta
<1>4. QED
  BY <1>2, <1>3

\* What the thread of a CPU holds.
Hilo == [pc : {"recibir", "bloquear", "pedir_io", "despertar", "finalizar", "liberar"},
         pid : Pids \cup {Nadie}, arg : {Nulo} \cup TiposIo \cup EstadosProceso]

\* The thread of a CPU goes on.
LEMMA HiloSigue ==
  ASSUME TypeOK, NEW c, NEW x \in Hilo, hilo_cpu' = [hilo_cpu EXCEPT ![c] = x]
  PROVE  hilo_cpu' \in [Cpus -> Hilo]
BY DEF TypeOK, Hilo

\* Nothing of the suspension changes but, it may be, where a segment is and how
\* many notifications there are.
LEMMA CpuSuspTipo ==
  ASSUME SuspTipo, ReanInv, memoria' \in [Pids -> Lugares], notificaciones' \in Nat,
         suspensiones' = suspensiones, reanudar' = reanudar, ks_caido' = ks_caido
  PROVE  SuspTipo' /\ ReanInv'
BY DEF SuspTipo, ReanInv

\* A process that is at an instruction that is not its last one goes on.
LEMMA PasoTipo ==
  ASSUME ProgInv, programa' = programa, NEW p \in Pids,
         \/ paso' = paso \/ Falla(p) \/ (Sigue(p) /\ programa[p][paso[p]].op # "EXIT")
  PROVE  ProgInv'
<1>1. /\ programa \in Programas /\ paso \in [Pids -> Nat \ {0}]
      /\ \A r \in Pids : paso[r] \in DOMAIN programa[r]
  BY DEF ProgInv
<1>2. /\ Len(programa[p]) \in Nat \ {0} /\ DOMAIN programa[p] = 1 .. Len(programa[p])
      /\ \A i \in DOMAIN programa[p] : programa[p][i].op # "EXIT" => i + 1 \in DOMAIN programa[p]
  BY ProgramaEs
<1>3. CASE paso' = paso
  BY <1>1, <1>3 DEF ProgInv
<1>4. CASE Falla(p)
  <2>1. paso' = [paso EXCEPT ![p] = Len(programa[p])] /\ Len(programa[p]) \in DOMAIN programa[p]
    BY <1>2, <1>4 DEF Falla
  <2>2. QED
    BY <1>1, <1>2, <2>1 DEF ProgInv
<1>5. CASE Sigue(p) /\ programa[p][paso[p]].op # "EXIT"
  <2>1. paso[p] \in DOMAIN programa[p] /\ paso[p] \in Nat \ {0}
    BY <1>1
  <2>2. paso[p] + 1 \in DOMAIN programa[p] /\ paso[p] + 1 \in Nat \ {0}
    BY <1>2, <1>5, <2>1
  <2>3. paso' = [paso EXCEPT ![p] = paso[p] + 1]
    BY <1>5 DEF Sigue
  <2>4. QED
    BY <1>1, <2>2, <2>3 DEF ProgInv
<1>6. QED
  BY <1>3, <1>4, <1>5

\* What is left of the types, in the thread of a CPU.
RestoCpu == SuspTipo' /\ ReanInv' /\ IoTipo' /\ ProgInv' /\ hilo_cpu' \in [Cpus -> Hilo]

\* A syscall: the thread goes on to x, or waits for the next one.
LEMMA SyscallTipo ==
  ASSUME Antes, ReanInv, NEW c \in Cpus, NEW p \in Pids, NEW op, Ejecuta(c, p, op),
         UNCHANGED restoVars, suspensiones' = suspensiones, memoria' \in [Pids -> Lugares],
         notificaciones' = notificaciones,
         paso' = paso \/ Falla(p) \/ (Sigue(p) /\ op # "EXIT"),
         NEW x \in Hilo, hilo_cpu' = hilo_cpu \/ hilo_cpu' = [hilo_cpu EXCEPT ![c] = x]
  PROVE  RestoCpu
<1>1. TypeOK /\ SuspTipo /\ IoTipo /\ ProgInv /\ hilo_cpu \in [Cpus -> Hilo]
  BY DEF Antes, TypeOK, Hilo
<1>2. /\ hilo_io' = hilo_io /\ io_vivo' = io_vivo /\ programa' = programa
      /\ reanudar' = reanudar /\ ks_caido' = ks_caido
  BY DEF restoVars, ioVars
<1>3. notificaciones' \in Nat
  BY <1>1 DEF SuspTipo
<1>4. SuspTipo' /\ ReanInv'
  BY <1>1, <1>2, <1>3, CpuSuspTipo
<1>5. IoTipo'
  BY <1>1, <1>2 DEF IoTipo
<1>6. programa[p][paso[p]].op = op
  BY DEF Ejecuta
<1>7. ProgInv'
  BY <1>1, <1>2, <1>6, PasoTipo
<1>8. hilo_cpu' \in [Cpus -> Hilo]
  BY <1>1, HiloSigue
<1>9. QED
  BY <1>4, <1>5, <1>7, <1>8 DEF RestoCpu

\* The second critical section of a syscall.
LEMMA SegundaTipo ==
  ASSUME Antes, ReanInv, NEW c \in Cpus, UNCHANGED restoVars, suspensiones' = suspensiones,
         memoria' \in [Pids -> Lugares], notificaciones' \in Nat, paso' = paso,
         NEW x \in Hilo, hilo_cpu' = [hilo_cpu EXCEPT ![c] = x]
  PROVE  RestoCpu
<1>1. TypeOK /\ SuspTipo /\ IoTipo /\ ProgInv
  BY DEF Antes, TypeOK
<1>2. /\ hilo_io' = hilo_io /\ io_vivo' = io_vivo /\ programa' = programa
      /\ reanudar' = reanudar /\ ks_caido' = ks_caido
  BY DEF restoVars, ioVars
<1>3. SuspTipo' /\ ReanInv'
  BY <1>1, <1>2, CpuSuspTipo
<1>4. IoTipo'
  BY <1>1, <1>2 DEF IoTipo
<1>5. ProgInv'
  BY <1>1, <1>2 DEF ProgInv
<1>6. hilo_cpu' \in [Cpus -> Hilo]
  BY <1>1, HiloSigue
<1>7. QED
  BY <1>3, <1>4, <1>5, <1>6 DEF RestoCpu

\* The thread of a CPU.
LEMMA CpuTipo ==
  ASSUME Antes, ReanInv, NEW c \in Cpus, HiloCpu(c)
  PROVE  RestoCpu
<1>1. /\ memoria \in [Pids -> Lugares] /\ notificaciones \in Nat /\ hilo_cpu \in [Cpus -> Hilo]
      /\ ks \in TipoKs(Cpus)
  BY DEF Antes, TypeOK, SuspTipo, Hilo, Bien
<1>2. HiloEn("recibir") \in Hilo
  BY DEF HiloEn, Hilo
<1>3. \A q \in Pids : \A y \in {Nulo} \cup TiposIo \cup EstadosProceso :
        \A pc \in {"bloquear", "pedir_io", "despertar", "finalizar"} :
          [pc |-> pc, pid |-> q, arg |-> y] \in Hilo
  BY DEF Hilo
<1>4. ASSUME NEW p \in Pids, ManejarFinQuantum(c, p) \/ Accede(c, p) \/ ManejarMutexCreate(c, p)
      PROVE  RestoCpu
  <2>1. /\ UNCHANGED restoVars /\ suspensiones' = suspensiones /\ memoria' = memoria
        /\ notificaciones' = notificaciones /\ hilo_cpu' = hilo_cpu
    BY <1>4 DEF ManejarFinQuantum, Accede, ManejarMutexCreate, SinNovedad
  <2>2. (Sigue(p) \/ Falla(p)) /\ \E op \in {"FIN_QUANTUM", "MOV_OUT", "MUTEX_CREATE"} : Ejecuta(c, p, op)
    BY <1>4 DEF ManejarFinQuantum, Accede, ManejarMutexCreate
  <2>3. PICK op \in {"FIN_QUANTUM", "MOV_OUT", "MUTEX_CREATE"} : Ejecuta(c, p, op)
    BY <2>2
  <2>4. op # "EXIT"
    OBVIOUS
  <2>5. QED
    BY <1>1, <1>2, <2>1, <2>2, <2>3, <2>4, SyscallTipo
<1>5. ASSUME NEW p \in Pids, ManejarMemAlloc(c, p) PROVE RestoCpu
  <2>1. /\ UNCHANGED restoVars /\ suspensiones' = suspensiones
        /\ notificaciones' = notificaciones /\ hilo_cpu' = hilo_cpu
        /\ Ejecuta(c, p, "MEM_ALLOC") /\ (Sigue(p) \/ Falla(p))
    BY <1>5 DEF ManejarMemAlloc
  <2>2. memoria' = memoria \/ memoria' = [memoria EXCEPT ![p] = "ram"]
    BY <1>5 DEF ManejarMemAlloc
  <2>3. memoria' \in [Pids -> Lugares]
    BY <1>1, <2>2 DEF Lugares
  <2>4. "MEM_ALLOC" # "EXIT"
    OBVIOUS
  <2>5. QED
    BY <1>2, <2>1, <2>3, <2>4, SyscallTipo
<1>6. ASSUME NEW p \in Pids, ManejarMutexLock(c, p) PROVE RestoCpu
  <2> DEFINE x == [pc |-> "bloquear", pid |-> p, arg |-> Nulo]
  <2>1. /\ UNCHANGED restoVars /\ suspensiones' = suspensiones /\ memoria' = memoria
        /\ notificaciones' = notificaciones /\ Ejecuta(c, p, "MUTEX_LOCK")
    BY <1>6 DEF ManejarMutexLock
  <2>2. /\ Sigue(p) \/ Falla(p)
        /\ hilo_cpu' = hilo_cpu \/ hilo_cpu' = [hilo_cpu EXCEPT ![c] = x]
    BY <1>6 DEF ManejarMutexLock, AlHilo
  <2>3. x \in Hilo
    BY <1>3
  <2>4. "MUTEX_LOCK" # "EXIT"
    OBVIOUS
  <2> HIDE DEF x
  <2>5. QED
    BY <1>1, <2>1, <2>2, <2>3, <2>4, SyscallTipo
<1>7. ASSUME NEW p \in Pids, ManejarMutexUnlock(c, p) PROVE RestoCpu
  <2> DEFINE m == Arg(p)
             w == Head(ks.cola_espera[m])
             x == [pc |-> "despertar", pid |-> w, arg |-> ks.estado[w]]
  <2>1. /\ UNCHANGED restoVars /\ suspensiones' = suspensiones /\ memoria' = memoria
        /\ notificaciones' = notificaciones /\ Ejecuta(c, p, "MUTEX_UNLOCK")
    BY <1>7 DEF ManejarMutexUnlock
  <2>2. "MUTEX_UNLOCK" # "EXIT"
    OBVIOUS
  <2>3. CASE m \in ToSet(ks.lista_mutex) /\ ks.cola_espera[m] # <<>>
    <3>1. Sigue(p) /\ hilo_cpu' = [hilo_cpu EXCEPT ![c] = x]
      BY <1>7, <2>3 DEF ManejarMutexUnlock, AlHilo
    <3>2. m \in Mutexes
      BY <2>1, EjecutaEs
    <3>3. ks.cola_espera[m] \in Seq(Pids)
      BY <1>1, <3>2 DEF TipoKs
    <3>4. w \in Pids
      BY <2>3, <3>3
    <3>5. ks.estado[w] \in EstadosProceso
      BY <1>1, <3>4 DEF TipoKs
    <3>6. x \in Hilo
      BY <1>3, <3>4, <3>5
    <3> HIDE DEF x
    <3>7. QED
      BY <1>1, <2>1, <2>2, <3>1, <3>6, SyscallTipo
  <2>4. CASE ~ (m \in ToSet(ks.lista_mutex) /\ ks.cola_espera[m] # <<>>)
    <3>1. (Sigue(p) \/ Falla(p)) /\ hilo_cpu' = hilo_cpu
      BY <1>7, <2>4 DEF ManejarMutexUnlock
    <3>2. QED
      BY <1>1, <1>2, <2>1, <2>2, <3>1, SyscallTipo
  <2>5. QED
    BY <2>3, <2>4
<1>8. ASSUME NEW p \in Pids, NEW t \in TiposIo, ManejarIo(c, p, t) PROVE RestoCpu
  <2> DEFINE x == [pc |-> "pedir_io", pid |-> p, arg |-> t]
  <2>1. /\ UNCHANGED restoVars /\ suspensiones' = suspensiones /\ memoria' = memoria
        /\ notificaciones' = notificaciones /\ Ejecuta(c, p, t)
    BY <1>8 DEF ManejarIo
  <2>2. /\ Sigue(p) \/ Falla(p)
        /\ hilo_cpu' = hilo_cpu \/ hilo_cpu' = [hilo_cpu EXCEPT ![c] = x]
    BY <1>8 DEF ManejarIo, AlHilo
  <2>3. x \in Hilo
    BY <1>3
  <2>4. t # "EXIT"
    BY ProcesosOK
  <2> HIDE DEF x
  <2>5. QED
    BY <1>1, <2>1, <2>2, <2>3, <2>4, SyscallTipo
<1>9. ASSUME NEW p \in Pids, ManejarProcesoExit(c, p) PROVE RestoCpu
  <2> DEFINE x == [pc |-> "finalizar", pid |-> p, arg |-> Nulo]
  <2>1. /\ UNCHANGED restoVars /\ suspensiones' = suspensiones /\ memoria' = memoria
        /\ notificaciones' = notificaciones /\ Ejecuta(c, p, "EXIT") /\ paso' = paso
        /\ hilo_cpu' = [hilo_cpu EXCEPT ![c] = x]
    BY <1>9 DEF ManejarProcesoExit, AlHilo
  <2>2. x \in Hilo
    BY <1>3
  <2> HIDE DEF x
  <2>3. QED
    BY <1>1, <2>1, <2>2, SyscallTipo
<1>10. CASE MutexLockBloquea(c) \/ MutexUnlockDespierta(c) \/ EncolarPedidoIo(c) \/ ExitLibera(c)
  <2>1. /\ UNCHANGED restoVars /\ suspensiones' = suspensiones /\ memoria' = memoria
        /\ notificaciones' = notificaciones /\ paso' = paso
        /\ hilo_cpu' = [hilo_cpu EXCEPT ![c] = HiloEn("recibir")]
    BY <1>10 DEF MutexLockBloquea, MutexUnlockDespierta, EncolarPedidoIo, ExitLibera
  <2>2. QED
    BY <1>1, <1>2, <2>1, SegundaTipo
<1>11. CASE ExitFinaliza(c)
  <2> DEFINE x == [hilo_cpu[c] EXCEPT !.pc = "liberar"]
  <2>1. /\ UNCHANGED restoVars /\ suspensiones' = suspensiones
        /\ memoria' = [memoria EXCEPT ![hilo_cpu[c].pid] = "fuera"]
        /\ notificaciones' = notificaciones + 1 /\ paso' = paso
        /\ hilo_cpu' = [hilo_cpu EXCEPT ![c].pc = "liberar"]
    BY <1>11 DEF ExitFinaliza
  <2>2. x \in Hilo /\ hilo_cpu' = [hilo_cpu EXCEPT ![c] = x]
    BY <1>1, <2>1 DEF Hilo
  <2>3. memoria' \in [Pids -> Lugares] /\ notificaciones' \in Nat
    <3>1. "fuera" \in Lugares /\ SuspTipo
      BY DEF Lugares, Antes, TypeOK
    <3>2. memoria' \in [Pids -> Lugares]
      BY <2>1, <3>1, LugarSigue
    <3>3. QED
      BY <1>1, <2>1, <3>2
  <2> HIDE DEF x
  <2>4. QED
    BY <2>1, <2>2, <2>3, SegundaTipo
<1>12. QED
  BY <1>4, <1>5, <1>6, <1>7, <1>8, <1>9, <1>10, <1>11 DEF HiloCpu

\* The thread of a device, with its request.
LEMMA IoHiloTipo ==
  ASSUME Antes, ReanInv, NEW d \in Ios, IoToma(d) \/ IoResponde(d) \/ IoSinRespuesta(d) \/ ManejarFinIo(d)
  PROVE  SuspTipo' /\ ReanInv' /\ IoTipo'
<1> DEFINE HiloIo == [pc : {"espera", "dispositivo", "mover"}, pid : Pids \cup {Nadie},
                      leido : EstadosProceso \cup {Nulo}]
<1>1. /\ SuspTipo /\ ks \in TipoKs(Cpus)
      /\ hilo_io \in [Ios -> HiloIo] /\ io_vivo \in [Ios -> BOOLEAN]
  BY DEF Antes, TypeOK, IoTipo, Bien
<1>2. hilo_io[d] \in HiloIo /\ Ocioso \in HiloIo
  BY <1>1 DEF Ocioso
<1>3. io_vivo' = io_vivo
  BY DEF IoToma, IoResponde, IoSinRespuesta, ManejarFinIo
<1>4. ASSUME NEW x \in HiloIo, hilo_io' = [hilo_io EXCEPT ![d] = x] PROVE IoTipo'
  <2>1. hilo_io' \in [Ios -> HiloIo]
    BY <1>1, <1>4
  <2>2. QED
    BY <1>1, <1>3, <2>1 DEF IoTipo
<1>5. ASSUME UNCHANGED suspVars PROVE SuspTipo' /\ ReanInv'
  BY <1>1, <1>5 DEF SuspTipo, ReanInv, suspVars
<1>6. CASE IoToma(d)
  <2> DEFINE t == TipoDe[d]
             x == [pc |-> "dispositivo", pid |-> Head(ks.cola_io[t]), leido |-> Nulo]
  <2>1. t \in TiposIo /\ ks.cola_io[t] # <<>> /\ hilo_io' = [hilo_io EXCEPT ![d] = x]
    BY <1>6, IosOK DEF IoToma
  <2>2. ks.cola_io[t] \in Seq(Pids)
    BY <1>1, <2>1 DEF TipoKs
  <2>3. Head(ks.cola_io[t]) \in Pids
    BY <2>1, <2>2
  <2>4. x \in HiloIo
    BY <2>3
  <2>5. UNCHANGED suspVars
    BY <1>6 DEF IoToma
  <2> HIDE DEF x, HiloIo
  <2>6. QED
    BY <1>4, <1>5, <2>1, <2>4, <2>5
<1>7. CASE IoResponde(d)
  <2> DEFINE x == [hilo_io[d] EXCEPT !.pc = "mover", !.leido = ks.estado[hilo_io[d].pid]]
  <2>1. /\ hilo_io[d].pc = "dispositivo" /\ UNCHANGED suspVars
        /\ hilo_io' = [hilo_io EXCEPT ![d].pc = "mover", ![d].leido = ks.estado[hilo_io[d].pid]]
    BY <1>7 DEF IoResponde
  <2>2. hilo_io[d].pid \in Pids
    BY <2>1 DEF Antes, Bien, EsperasBien, HiloIoBien
  <2>3. ks.estado[hilo_io[d].pid] \in EstadosProceso
    BY <1>1, <2>2 DEF TipoKs
  <2>4. x \in HiloIo
    BY <1>2, <2>3
  <2>5. hilo_io' = [hilo_io EXCEPT ![d] = x]
    BY <1>1, <1>2, <2>1
  <2> HIDE DEF x, HiloIo
  <2>6. QED
    BY <1>4, <1>5, <2>1, <2>4, <2>5
<1>8. CASE IoSinRespuesta(d)
  <2>1. hilo_io' = [hilo_io EXCEPT ![d] = Ocioso] /\ UNCHANGED suspVars
    BY <1>8 DEF IoSinRespuesta
  <2> HIDE DEF HiloIo
  <2>2. QED
    BY <1>2, <1>4, <1>5, <2>1
<1>9. CASE ManejarFinIo(d)
  <2> DEFINE x == [pc |-> "ordenar", i |-> 0, pid |-> Nadie]
  <2>1. /\ hilo_io' = [hilo_io EXCEPT ![d] = Ocioso]
        /\ reanudar' = reanudar \/ reanudar' = [reanudar EXCEPT ![d] = x]
        /\ memoria' = memoria /\ notificaciones' = notificaciones
        /\ suspensiones' = suspensiones /\ ks_caido' = ks_caido
    BY <1>9 DEF ManejarFinIo, Empezar
  <2>2. IoTipo'
    BY <1>2, <1>4, <2>1
  <2>3. reanudar' \in [Reanudadores -> Vuelta] /\ ReanInv'
    <3>1. CASE reanudar' = reanudar
      BY <1>1, <3>1 DEF SuspTipo, Vuelta, ReanInv
    <3>2. CASE reanudar' = [reanudar EXCEPT ![d] = x]
      <4>1. x \in Vuelta /\ x.pc = "ordenar" /\ d \in Reanudadores
        BY DEF Vuelta, Reanudadores
      <4> HIDE DEF x
      <4>2. QED
        BY <1>1, <3>2, <4>1, VueltaSigue
    <3>3. QED
      BY <2>1, <3>1, <3>2
  <2>4. SuspTipo'
    BY <1>1, <2>1, <2>3 DEF SuspTipo, Vuelta
  <2>5. QED
    BY <2>2, <2>3, <2>4
<1>10. QED
  BY <1>6, <1>7, <1>8, <1>9

\* Every step keeps the types of what is not the record of the scheduler.
LEMMA PasoTipos ==
  ASSUME Antes, ReanInv, Next
  PROVE  RestoCpu
<1>1. /\ TypeOK /\ KsTipo /\ SuspTipo /\ IoTipo /\ ProgInv /\ hilo_cpu \in [Cpus -> Hilo]
  BY DEF Antes, TypeOK, Hilo
<1>2. ASSUME Quieta PROVE ProgInv' /\ hilo_cpu' \in [Cpus -> Hilo]
  BY <1>1, <1>2 DEF Quieta, ProgInv
<1>3. ASSUME UNCHANGED ioVars PROVE IoTipo'
  BY <1>1, <1>3 DEF IoTipo, ioVars
<1>4. CASE PasoPlanifica
  <2>1. Quieta /\ UNCHANGED suspVars /\ UNCHANGED ioVars
    BY <1>4 DEF PasoPlanifica, Vivo, Planifica, Quieta
  <2>2. SuspTipo' /\ ReanInv'
    BY <1>1, <2>1 DEF SuspTipo, ReanInv, suspVars
  <2>3. QED
    BY <1>2, <1>3, <2>1, <2>2 DEF RestoCpu
<1>5. ASSUME NEW c \in Cpus, PasoCpu(c) PROVE RestoCpu
  BY <1>5, CpuTipo DEF PasoCpu, Vivo
<1>6. ASSUME NEW d \in Ios, PasoIo(d) \/ Caida(d) PROVE RestoCpu
  <2>1. Quieta
    BY <1>6 DEF PasoIo, Caida, Quieta
  <2>2. CASE ReanudarPaso(d) /\ UNCHANGED ioVars
    <3>1. d \in Reanudadores
      BY DEF Reanudadores
    <3>2. SuspTipo' /\ ReanInv'
      BY <1>1, <2>2, <3>1, ReanudarTipo
    <3>3. QED
      BY <1>2, <1>3, <2>1, <2>2, <3>2 DEF RestoCpu
  <2>3. CASE IoToma(d) \/ IoResponde(d) \/ IoSinRespuesta(d) \/ ManejarFinIo(d)
    BY <1>2, <2>1, <2>3, IoHiloTipo DEF RestoCpu
  <2>4. CASE IoCae(d)
    <3>1. UNCHANGED suspVars /\ hilo_io' = hilo_io /\ io_vivo' = [io_vivo EXCEPT ![d] = FALSE]
      BY <2>4 DEF IoCae
    <3>2. SuspTipo' /\ ReanInv'
      BY <1>1, <3>1 DEF SuspTipo, ReanInv, suspVars
    <3>3. IoTipo'
      BY <1>1, <3>1 DEF IoTipo
    <3>4. QED
      BY <1>2, <2>1, <3>2, <3>3 DEF RestoCpu
  <2>5. QED
    BY <1>6, <2>2, <2>3, <2>4 DEF PasoIo, Caida, Vivo, IoPaso
<1>7. CASE PasoOyente
  <2>1. Quieta /\ UNCHANGED ioVars /\ (ReanudarPaso(Oyente) \/ OirMemoria)
    BY <1>7 DEF PasoOyente, Vivo, Quieta
  <2>2. Oyente \in Reanudadores
    BY DEF Reanudadores
  <2>3. SuspTipo' /\ ReanInv'
    <3>1. CASE ReanudarPaso(Oyente)
      BY <1>1, <2>2, <3>1, ReanudarTipo
    <3>2. CASE OirMemoria
      <4>1. /\ reanudar' = [reanudar EXCEPT ![Oyente].pc = "tam"] /\ notificaciones > 0
            /\ notificaciones' = notificaciones - 1
            /\ memoria' = memoria /\ suspensiones' = suspensiones /\ ks_caido' = ks_caido
        BY <3>2 DEF OirMemoria, Ordenar
      <4>2. notificaciones' \in Nat
        BY <1>1, <4>1 DEF SuspTipo
      <4>3. reanudar' \in [Reanudadores -> Vuelta] /\ ReanInv'
        BY <1>1, <2>2, <4>1, OrdenarTipo
      <4>4. QED
        BY <1>1, <4>1, <4>2, <4>3 DEF SuspTipo, Vuelta
    <3>3. QED
      BY <2>1, <3>1, <3>2
  <2>4. QED
    BY <1>2, <1>3, <2>1, <2>3 DEF RestoCpu
<1>8. ASSUME NEW p \in Pids, PasoSuspension(p) PROVE RestoCpu
  <2>1. Quieta /\ UNCHANGED ioVars /\ (SuspensionVence(p) \/ SuspensionPide(p))
    BY <1>8 DEF PasoSuspension, Vivo, Quieta
  <2>2. SuspTipo' /\ ReanInv'
    BY <1>1, <2>1, SuspensionTipo
  <2>3. QED
    BY <1>2, <1>3, <2>1, <2>2 DEF RestoCpu
<1>9. QED
  BY <1>4, <1>5, <1>6, <1>7, <1>8 DEF Next

-----------------------------------------------------------------------------
(* The theorems.                                                            *)

\* The inductive invariant: the types; every process is in the list of its state,
\* once (ListasBien), and every CPU is free or has one process (CpusBien); a
\* process has one waker at most, that of a process that waits, and what a thread
\* has read of it is still so (EsperasBien); the owner of a mutex has inherited
\* enough (MutexBien) and not too much, and the programs keep to their mutexes
\* (Orden).
BlocInv == Antes /\ ReanInv

\* It holds at the start.
LEMMA BlocInicial == Init => BlocInv
<1> SUFFICES ASSUME Init PROVE BlocInv
  OBVIOUS
<1>1. Bien(ks, hilo_cpu, hilo_io) /\ Orden(ks, programa, paso)
  BY BienInicial
<1>2. /\ memoria = [p \in Pids |-> "nada"] /\ notificaciones = 0
      /\ suspensiones = [p \in Pids |-> 0] /\ reanudar = [r \in Reanudadores |-> EnReposo]
      /\ ks_caido = FALSE /\ hilo_io = [d \in Ios |-> Ocioso] /\ io_vivo = [d \in Ios |-> TRUE]
      /\ programa \in Programas /\ paso = [p \in Pids |-> 1]
      /\ hilo_cpu = [c \in Cpus |-> HiloEn("recibir")]
  BY DEF Init, SuspInit, IoInit
<1>3. KsTipo
  BY <1>1 DEF KsTipo, TipoKs, Bien
<1>4. SuspTipo /\ ReanInv
  <2>1. EnReposo \in Vuelta /\ EnReposo.pc = "no"
    BY DEF EnReposo, Vuelta
  <2>2. reanudar \in [Reanudadores -> Vuelta] /\ ReanInv
    BY <1>2, <2>1 DEF ReanInv
  <2>3. memoria \in [Pids -> Lugares] /\ suspensiones \in [Pids -> Nat]
    BY <1>2 DEF Lugares
  <2>4. QED
    BY <1>2, <2>2, <2>3 DEF SuspTipo, Vuelta
<1>5. IoTipo
  <2>1. io_vivo \in [Ios -> BOOLEAN]
    BY <1>2
  <2>2. QED
    BY <1>2, <2>1 DEF IoTipo, Ocioso
<1>6. ProgInv
  <2>1. \A p \in Pids : ProgramaBien(programa[p])
    BY <1>2, ProgramasOK
  <2>2. ASSUME NEW q, ProgramaBien(q) PROVE 1 \in DOMAIN q
    <3>1. q \in Seq([op : Operaciones, arg : Mutexes \cup {Nulo}]) /\ q # <<>>
      BY <2>2 DEF ProgramaBien
    <3>2. QED
      BY <3>1
  <2>3. QED
    BY <1>2, <2>1, <2>2 DEF ProgInv
<1>7. \A p \in Pids : paso[p] \in DOMAIN programa[p]
  BY <1>6 DEF ProgInv
<1>8. hilo_cpu \in [Cpus -> Hilo]
  BY <1>2 DEF HiloEn, Hilo
<1>9. QED
  BY <1>1, <1>3, <1>4, <1>5, <1>6, <1>7, <1>8 DEF BlocInv, Antes, TypeOK, Hilo

\* And each step keeps it.
LEMMA BlocPaso == BlocInv /\ [Next]_vars => BlocInv'
<1> SUFFICES ASSUME BlocInv, [Next]_vars PROVE BlocInv'
  OBVIOUS
<1>1. CASE Next
  <2>1. Hecho /\ RestoCpu
    BY <1>1, PasoHecho, PasoTipos DEF BlocInv
  <2>2. KsTipo'
    BY <2>1 DEF Hecho, Bien, TipoKs, KsTipo
  <2>3. \A p \in Pids : paso'[p] \in DOMAIN programa'[p]
    BY <2>1 DEF RestoCpu, ProgInv
  <2>4. TypeOK'
    BY <2>1, <2>2, <2>3 DEF RestoCpu, TypeOK, Hilo
  <2>5. QED
    BY <2>1, <2>4 DEF Hecho, RestoCpu, BlocInv, Antes
<1>2. CASE UNCHANGED vars
  <2>1. /\ ks' = ks /\ UNCHANGED suspVars /\ UNCHANGED ioVars
        /\ programa' = programa /\ paso' = paso /\ hilo_cpu' = hilo_cpu
    BY <1>2 DEF vars
  <2>2. hilo_io' = hilo_io /\ io_vivo' = io_vivo /\ reanudar' = reanudar
    BY <2>1 DEF ioVars, suspVars
  <2>3. TypeOK'
    <3>1. KsTipo' /\ IoTipo' /\ SuspTipo'
      BY <2>1, <2>2 DEF BlocInv, Antes, TypeOK, KsTipo, IoTipo, SuspTipo, suspVars
    <3>2. QED
      BY <2>1, <3>1 DEF BlocInv, Antes, TypeOK
  <2>4. ProgInv' /\ ReanInv'
    BY <2>1, <2>2 DEF BlocInv, Antes, ProgInv, ReanInv
  <2>5. Bien(ks', hilo_cpu', hilo_io') /\ Orden(ks', programa', paso')
    BY <2>1, <2>2 DEF BlocInv, Antes
  <2>6. QED
    BY <2>3, <2>4, <2>5 DEF BlocInv, Antes
<1>3. QED
  BY <1>1, <1>2

\* It is an invariant.
LEMMA BlocSiempre == Spec => []BlocInv
BY BlocInicial, BlocPaso, PTL DEF Spec

\* The types, in every state.
THEOREM TiposBloqueos == Spec => []TypeOK
<1>1. BlocInv => TypeOK
  BY DEF BlocInv, Antes
<1>2. QED
  BY <1>1, BlocSiempre, PTL

\* A list of the scheduler has a process once or not at all.
LEMMA VecesEs ==
  ASSUME NEW s, NEW p, Distintos(s)
  PROVE  Veces(p, s) = IF Tiene(s, p) THEN 1 ELSE 0
<1> DEFINE I == {i \in DOMAIN s : s[i] = p}
<1>1. CASE Tiene(s, p)
  <2>1. PICK i \in DOMAIN s : s[i] = p
    BY <1>1 DEF Tiene
  <2>2. I = {i}
    BY <2>1 DEF Distintos
  <2>3. QED
    BY <1>1, <2>2, FS_Singleton DEF Veces
<1>2. CASE ~ Tiene(s, p)
  <2>1. I = {}
    BY <1>2 DEF Tiene
  <2>2. QED
    BY <1>2, <2>1, FS_EmptySet DEF Veces
<1>3. QED
  BY <1>1, <1>2

\* Every process is in the list of its state and in no other, once, and its queue
\* of READY is the one of the priority it has inherited (UnaSolaLista): each list
\* is changed in one critical section with the state, whoever moves the process.
THEOREM CadaListaDeSuEstado == Spec => []UnaSolaLista
<1>1. BlocInv => UnaSolaLista
  <2> SUFFICES ASSUME BlocInv PROVE UnaSolaLista
    OBVIOUS
  <2>1. ks \in TipoKs(Cpus) /\ ListasBien(ks)
    BY DEF BlocInv, Antes, Bien
  <2>2. ASSUME NEW p \in Pids
        PROVE  /\ p \in ks.exec <=> ks.estado[p] = "EXEC"
               /\ p \in ks.block <=> ks.estado[p] = "BLOCK"
               /\ p \in ks.susp_block <=> ks.estado[p] = "SUSP_BLOCK"
               /\ Veces(p, ks.susp_ready) = IF ks.estado[p] = "SUSP_READY" THEN 1 ELSE 0
               /\ \A q \in Colas : Veces(p, ks.colas_ready[q]) =
                    IF ks.estado[p] = "READY" /\ q = ks.prioridad[p] THEN 1 ELSE 0
    <3>1. /\ p \in ks.exec <=> ks.estado[p] = "EXEC"
          /\ p \in ks.block <=> ks.estado[p] = "BLOCK"
          /\ p \in ks.susp_block <=> ks.estado[p] = "SUSP_BLOCK"
          /\ Tiene(ks.susp_ready, p) <=> ks.estado[p] = "SUSP_READY"
          /\ \A q \in Colas : Tiene(ks.colas_ready[q], p) <=>
                                ks.estado[p] = "READY" /\ ks.prioridad[p] = q
      BY <2>1 DEF ListasBien
    <3>2. Veces(p, ks.susp_ready) = IF Tiene(ks.susp_ready, p) THEN 1 ELSE 0
      BY <2>1, VecesEs DEF ListasBien
    <3>3. \A q \in Colas : Veces(p, ks.colas_ready[q]) =
                             IF Tiene(ks.colas_ready[q], p) THEN 1 ELSE 0
      BY <2>1, VecesEs DEF ListasBien
    <3>4. QED
      BY <3>1, <3>2, <3>3
  <2>3. QED
    BY <2>2 DEF UnaSolaLista
<1>2. QED
  BY <1>1, BlocSiempre, PTL

\* The wakers of a process.
LEMMA DespertadoresSon ==
  ASSUME NEW p
  PROVE  Despertadores(p) = Quienes(ks, hilo_cpu, hilo_io, p)
<1>1. \A s : p \in ToSet(s) <=> Tiene(s, p)
  BY DEF ToSet, Tiene
<1>2. QED
  BY <1>1 DEF Despertadores, Quienes, HiloDespierta, Esperan

\* A process has one waker at most, and one that does not wait has none, but for
\* the one that is about to block: a mutex and a device never wake the same process
\* up, and no thread acts on a state it read that is no longer so (DespertarUnico).
THEOREM UnSoloDespertador == Spec => []DespertarUnico
<1>1. BlocInv => DespertarUnico
  <2> SUFFICES ASSUME BlocInv, NEW p \in Pids
               PROVE  /\ Cardinality(Despertadores(p)) <= 1
                      /\ Despertadores(p) # {} =>
                           \/ Bloqueado(p)
                           \/ \E c \in Cpus : hilo_cpu[c].pc = "bloquear" /\ hilo_cpu[c].pid = p
    BY DEF DespertarUnico
  <2>1. UnoQueDespierta(ks, hilo_cpu, hilo_io, p)
    BY DEF BlocInv, Antes, Bien, EsperasBien
  <2> DEFINE D == Despertadores(p)
  <2>2. /\ \A x, y \in D : x = y
        /\ \A x \in D : Espera(ks, p) \/ Entra(hilo_cpu, p)
    BY <2>1, DespertadoresSon DEF UnoQueDespierta
  <2> HIDE DEF D
  <2>3. Cardinality(D) <= 1
    <3>1. CASE D = {}
      BY <3>1, FS_EmptySet
    <3>2. CASE D # {}
      <4>1. PICK x : x \in D
        BY <3>2
      <4>2. D = {x}
        BY <2>2, <4>1
      <4>3. Cardinality({x}) = 1
        BY FS_Singleton, Zenon
      <4>4. Cardinality(D) = 1
        BY <4>2, <4>3, Zenon
      <4>5. QED
        BY <4>4
    <3>3. QED
      BY <3>1, <3>2
  <2>4. D # {} => Bloqueado(p) \/ \E c \in Cpus : hilo_cpu[c].pc = "bloquear" /\ hilo_cpu[c].pid = p
    BY <2>2 DEF Espera, Bloqueado, Entra
  <2>5. QED
    BY <2>3, <2>4 DEF D
<1>2. QED
  BY <1>1, BlocSiempre, PTL

\* Who waits for a mutex.
LEMMA EsperanSon ==
  ASSUME BlocInv, NEW m \in Mutexes
  PROVE  /\ \A p : p \in Esperan(ks, m) <=> Tiene(ks.cola_espera[m], p)
         /\ Esperan(ks, m) \subseteq Pids
         /\ ks.cola_espera[m] = <<>> => Esperan(ks, m) = {}
         /\ ks.pid_dueno[m] \in Pids \cup {Nadie}
         /\ ConDueno(ks, hilo_cpu, m) /\ Alcanza(ks, m) /\ SinDoble(ks)
<1>1. ks.cola_espera[m] \in Seq(Pids) /\ ks.pid_dueno[m] \in Pids \cup {Nadie}
  BY DEF BlocInv, Antes, Bien, TipoKs
<1>2. \A p : p \in Esperan(ks, m) <=> Tiene(ks.cola_espera[m], p)
  BY DEF Esperan, ToSet, Tiene
<1>3. \A p : Tiene(ks.cola_espera[m], p) => p \in Pids
  <2>1. \A i \in DOMAIN ks.cola_espera[m] : ks.cola_espera[m][i] \in Pids
    BY <1>1, LenProperties, ElementOfSeq
  <2>2. QED
    BY <2>1 DEF Tiene
<1>4. ks.cola_espera[m] = <<>> => Esperan(ks, m) = {}
  BY <1>2 DEF Tiene
<1>5. ConDueno(ks, hilo_cpu, m) /\ Alcanza(ks, m) /\ SinDoble(ks)
  BY DEF BlocInv, Antes, Bien, MutexBien, Orden
<1>6. QED
  BY <1>1, <1>2, <1>3, <1>4, <1>5

\* A mutex somebody waits for has an owner, which lives or is being ended, and does
\* not wait for it (MutexConDueno): nobody is left behind by MUTEX_UNLOCK, nor by
\* the end of a process.
THEOREM MutexSiempreConDueno == Spec => []MutexConDueno
<1>1. BlocInv => MutexConDueno
  <2> SUFFICES ASSUME BlocInv, NEW m \in Mutexes, ks.cola_espera[m] # <<>>, NEW d, d = ks.pid_dueno[m]
               PROVE  /\ d # Nadie
                      /\ d \notin Esperan(ks, m)
                      /\ ks.estado[d] = "EXIT" =>
                           \E c \in Cpus : hilo_cpu[c].pid = d /\ hilo_cpu[c].pc \in {"finalizar", "liberar"}
    BY DEF MutexConDueno
  <2>1. /\ \A p : p \in Esperan(ks, m) <=> Tiene(ks.cola_espera[m], p)
        /\ ConDueno(ks, hilo_cpu, m) /\ SinDoble(ks)
    BY EsperanSon
  <2>2. QED
    BY <2>1 DEF ConDueno, SinDoble, Cerrado, Cierra
<1>2. QED
  BY <1>1, BlocSiempre, PTL

\* The owner of a mutex is at least as good as each one that waits for it was at
\* first (HerenciaAlcanza), however the mutex went from hand to hand.
THEOREM HerenciaSuficiente == Spec => []HerenciaAlcanza
<1>1. BlocInv => HerenciaAlcanza
  <2> SUFFICES ASSUME BlocInv, NEW m \in Mutexes, NEW p \in Esperan(ks, m),
                      ks.estado[ks.pid_dueno[m]] # "EXIT"
               PROVE  ks.prioridad[ks.pid_dueno[m]] <= PrioridadOriginal[p]
    BY DEF HerenciaAlcanza
  <2>1. /\ Tiene(ks.cola_espera[m], p) /\ p \in Pids /\ ks.cola_espera[m] # <<>>
        /\ ConDueno(ks, hilo_cpu, m) /\ Alcanza(ks, m)
    BY EsperanSon
  <2>2. ks.pid_dueno[m] # Nadie
    BY <2>1 DEF ConDueno
  <2>3. QED
    BY <2>1, <2>2 DEF Alcanza
<1>2. QED
  BY <1>1, BlocSiempre, PTL

\* No process keeps a priority that nobody who waits for it gives it
\* (HerenciaVuelve).
THEOREM HerenciaSinSobra == Spec => []HerenciaVuelve
<1>1. BlocInv => HerenciaVuelve
  <2> SUFFICES ASSUME BlocInv, NEW p \in Pids, ks.estado[p] # "EXIT",
                      ks.prioridad[p] # PrioridadOriginal[p]
               PROVE  \E m \in Mutexes :
                        /\ ks.pid_dueno[m] = p
                        /\ \E w \in Esperan(ks, m) : ks.prioridad[w] <= ks.prioridad[p]
    BY DEF HerenciaVuelve
  <2>1. Vuelve(ks, p)
    BY DEF BlocInv, Antes, Orden
  <2>2. PICK m \in Mutexes :
          /\ ks.pid_dueno[m] = p
          /\ \E w \in Pids : Tiene(ks.cola_espera[m], w) /\ ks.prioridad[w] <= ks.prioridad[p]
    BY <2>1 DEF Vuelve
  <2>3. QED
    BY <2>2, EsperanSon
<1>2. QED
  BY <1>1, BlocSiempre, PTL

\* Only a process that is BLOCK has a timer that could suspend it
\* (SuspensionDeBloqueado): whoever wakes it up or ends it has cancelled it.
THEOREM TimerSoloBloqueado == Spec => []SuspensionDeBloqueado
<1>1. BlocInv => SuspensionDeBloqueado
  BY DEF BlocInv, Antes, Bien, EsperasBien, UnoQueDespierta, SuspensionDeBloqueado
<1>2. QED
  BY <1>1, BlocSiempre, PTL

\* The threads implement the life cycle of the processes (CicloDeVida): each step
\* takes one process along an edge, or wakes up some that waited, and no more
\* processes run than there are CPUs.
THEOREM BloqueosImplementaCiclo == Spec => CicloDeVida
<1>1. Init => Ciclo!Init
  <2>1. ASSUME Init PROVE ks.estado \in [Pids -> {"SIN_CREAR", "READY"}]
    <3>1. ks.estado = [p \in Pids |-> "READY"]
      BY <2>1 DEF Init, KsInit
    <3>2. QED
      BY <3>1
  <2>2. QED
    BY <2>1 DEF Ciclo!Init
<1>2. BlocInv /\ [Next]_vars => [Ciclo!Next]_(ks.estado)
  <2> SUFFICES ASSUME BlocInv, [Next]_vars PROVE [Ciclo!Next]_(ks.estado)
    OBVIOUS
  <2>1. CASE Next
    <3>1. Hecho /\ Bien(ks, hilo_cpu, hilo_io)
      BY <2>1, PasoHecho DEF BlocInv, Antes
    <3>2. QED
      BY <3>1, VidaCiclo DEF Hecho, Bien
  <2>2. CASE UNCHANGED vars
    BY <2>2 DEF vars
  <2>3. QED
    BY <2>1, <2>2
<1>3. QED
  BY <1>1, <1>2, BlocSiempre, PTL DEF Spec, CicloDeVida, Ciclo!Spec
=============================================================================
