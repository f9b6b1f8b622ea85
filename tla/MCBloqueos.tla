---------------------------- MODULE MCBloqueos ----------------------------
(***************************************************************************)
(* Small instances of Bloqueos for TLC.                                    *)
(***************************************************************************)
EXTENDS Bloqueos

MCPrioridad == <<2, 1, 0>>

MCPrioridadOriginal == [p \in Pids |-> MCPrioridad[p + 1]]

MCTipoDe == "d1" :> "SLEEP" @@ "d2" :> "STDIN" @@ "d3" :> "STDOUT"

MCColas == 0 .. 2

Alloc == Instr("MEM_ALLOC", Nulo)
MovOut == Instr("MOV_OUT", Nulo)
Quantum == Instr("FIN_QUANTUM", Nulo)
Crear(m) == Instr("MUTEX_CREATE", m)
Tomar(m) == Instr("MUTEX_LOCK", m)
Soltar(m) == Instr("MUTEX_UNLOCK", m)
Io(t) == Instr(t, Nulo)
Exit == Instr("EXIT", Nulo)

\* The worst process writes with the mutex that the others want.
MCEscribe ==
  0 :> <<Alloc, Crear("m"), Tomar("m"), Io("STDOUT"), Soltar("m"), Exit>>
  @@ 1 :> <<Tomar("m"), Exit>>
  @@ 2 :> <<Crear("m"), Tomar("m"), Soltar("m"), MovOut, Exit>>

\* The worst process has two mutexes, one for each of the others, and its
\* quantum ends meanwhile.
MCDos ==
  0 :> <<Crear("m"), Crear("n"), Tomar("m"), Tomar("n"), Quantum, Soltar("m"), Soltar("n"), Exit>>
  @@ 1 :> <<Tomar("n"), Io("SLEEP"), Soltar("n"), Exit>>
  @@ 2 :> <<Tomar("m"), Soltar("m"), Exit>>

\* Memory for one process at a time.
MCLee ==
  0 :> <<Alloc, Io("STDIN"), MovOut, Exit>>
  @@ 1 :> <<Alloc, Exit>>
  @@ 2 :> <<Exit>>

MCProgramas == {MCEscribe, MCDos, MCLee}
=============================================================================
