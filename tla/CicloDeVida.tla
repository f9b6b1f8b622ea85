---------------------------- MODULE CicloDeVida ----------------------------
(***************************************************************************)
(* What the Kernel Scheduler promises of its processes (t_estado,          *)
(* kernel_scheduler/src/main.c): the states a process goes through, one    *)
(* process at a time, with no more processes running than there are CPUs.  *)
(* The modules that have the queues, the threads and the messages          *)
(* implement it.                                                           *)
(***************************************************************************)
EXTENDS Integers, FiniteSets

CONSTANTS
  Procesos,
  Maximo      \* CPUs

VARIABLE estado

Estados ==
  {"SIN_CREAR", "NEW", "READY", "EXEC", "BLOCK", "SUSP_BLOCK", "SUSP_READY", "EXIT"}

EnEstado(e) == {p \in Procesos : estado[p] = e}

Init == estado \in [Procesos -> {"SIN_CREAR", "READY"}]

Pasa(p, de, a) ==
  /\ estado[p] = de
  /\ estado' = [estado EXCEPT ![p] = a]

Crear(p)     == Pasa(p, "SIN_CREAR", "NEW")
Admitir(p)   == Pasa(p, "NEW", "READY")
Despachar(p) == Cardinality(EnEstado("EXEC")) < Maximo /\ Pasa(p, "READY", "EXEC")
Desalojar(p) == Pasa(p, "EXEC", "READY")
Bloquear(p)  == Pasa(p, "EXEC", "BLOCK")
Suspender(p) == Pasa(p, "BLOCK", "SUSP_BLOCK")
Reanudar(p)  == Pasa(p, "SUSP_READY", "READY")
Terminar(p)  == Pasa(p, "EXEC", "EXIT")

\* A process that waited for the memory to be compacted goes back to its CPU.
Retomar(p)   == Cardinality(EnEstado("EXEC")) < Maximo /\ Pasa(p, "BLOCK", "EXEC")

\* BSOD: all of them end at once.
TerminarTodos == estado' = [p \in Procesos |->
                              IF estado[p] = "SIN_CREAR" THEN estado[p] ELSE "EXIT"]

\* What some processes wait for happens: the one that is in memory is READY, the
\* one that is suspended has to come back first.  One event wakes several up
\* when a process that dies leaves several mutexes.
Despertar(S) ==
  /\ S \subseteq EnEstado("BLOCK") \cup EnEstado("SUSP_BLOCK")
  /\ estado' = [p \in Procesos |->
       IF p \notin S THEN estado[p]
       ELSE IF estado[p] = "BLOCK" THEN "READY" ELSE "SUSP_READY"]

Next ==
  \/ \E p \in Procesos :
       \/ Crear(p) \/ Admitir(p) \/ Despachar(p) \/ Desalojar(p) \/ Bloquear(p)
       \/ Suspender(p) \/ Reanudar(p) \/ Terminar(p) \/ Retomar(p)
  \/ \E S \in SUBSET Procesos : Despertar(S)
  \/ TerminarTodos

Spec == Init /\ [][Next]_estado
=============================================================================
