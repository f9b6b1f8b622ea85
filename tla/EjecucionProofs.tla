-------------------------- MODULE EjecucionProofs --------------------------
(***************************************************************************)
(* A CPU that executes has its process for itself and the whole table of   *)
(* it, and never loses registers when it asks for the context again, for   *)
(* any number of CPUs, processes and sticks, any widths and any programs.  *)
(*                                                                         *)
(* Neither fact is inductive.  What is missing is who may touch a context: *)
(* only the CPU that has the process, or, when none has it, the Kernel     *)
(* Memory.  So the invariant says in addition that no two CPUs have one    *)
(* process, in which state of t_estado a process is that some CPU has, and *)
(* that one that waits for a device is blocked.                            *)
(*                                                                         *)
(* The list of sticks of a CPU is faithful because each access leaves the  *)
(* one there was or the one of the Kernel Memory, whose sticks never       *)
(* leave.                                                                  *)
(*                                                                         *)
(* The types, in the second half, need where the segments are: in the      *)
(* memory of the sticks that are connected and apart from each other, and  *)
(* a compaction asked for only when what it makes room for will fit        *)
(* (Memoria).  They hold whatever is moved under a CPU that executes: its  *)
(* table is then one of before, but all its segments are in the memory     *)
(* (TablasDeCpu), and it is the table of the process but for the bases, in *)
(* the memory or in the SWAP (TablaEntera).  That the SWAP has segments of *)
(* suspended processes only (EnSwap) is true up to the first suspension    *)
(* that is told too late.                                                  *)
(***************************************************************************)
EXTENDS Ejecucion, HuecosProofs

EstadosEnCpu == {"asignada", "ejecuta", "chequea", "respuesta", "refresca"}
DeIo == {"SLEEP", "STDIN", "STDOUT"}

\* The fields of the records, and the values that are compared.
Forma ==
  /\ DOMAIN contextos = Pids /\ DOMAIN estado = Pids /\ DOMAIN pedido = Pids
  /\ DOMAIN cpu = Cpus
  /\ \A p \in Pids : DOMAIN contextos[p] = {"instrucciones", "registros", "tabla"}
  /\ \A c \in Cpus : DOMAIN cpu[c] = {"estado", "pid", "registros", "tabla", "lista"}

\* A CPU that is free has no process, and no two CPUs have the same.
Reparto ==
  /\ \A c \in Cpus : IF cpu[c].estado = "libre" THEN cpu[c].pid = Nadie
                     ELSE cpu[c].pid \in Pids
  /\ \A c, d \in Cpus : c # d /\ cpu[c].pid = cpu[d].pid => cpu[c].pid = Nadie

\* What the Kernel Scheduler says of the process that a CPU has.
EstadoEnCpu ==
  \A c \in Cpus :
    /\ cpu[c].estado \in EstadosCpu
    /\ cpu[c].estado \in EstadosEnCpu => estado[cpu[c].pid] = "EXEC"
    /\ cpu[c].estado = "compacta" =>
         estado[cpu[c].pid] = "BLOCK" /\ pedido[cpu[c].pid].op = "MEM_ALLOC"

\* A process that waits for a device is blocked.
EnEspera ==
  \A p \in Pids : pedido[p].op \in DeIo => estado[p] \in {"BLOCK", "SUSP_BLOCK"}

TablaFiel ==
  \A c \in Cpus : cpu[c].estado \in {"ejecuta", "chequea"} /\ cpu[c].pid \notin movidos =>
    cpu[c].tabla = contextos[cpu[c].pid].tabla

Inv == Forma /\ Reparto /\ EstadoEnCpu /\ EnEspera /\ TablaFiel /\ EsperaGuardada

\* A CPU that executes has its process for itself, and an old table only when the
\* segments went elsewhere.
LEMMA InvAlcanza ==
  ASSUME Inv, NEW c \in Cpus, cpu[c].estado \in {"ejecuta", "chequea"}
  PROVE  /\ cpu[c].pid \in Pids /\ estado[cpu[c].pid] = "EXEC"
         /\ \A d \in Cpus \ {c} : cpu[d].pid # cpu[c].pid
         /\ cpu[c].pid \notin movidos => cpu[c].tabla = contextos[cpu[c].pid].tabla
PROOF
  <1>1. cpu[c].pid \in Pids
    BY DEF Inv, Reparto
  <1> QED
    BY <1>1, EjecucionOK DEF Inv, Reparto, EstadoEnCpu, EstadosEnCpu, TablaFiel

\* At the beginning every CPU is free and every process has its context.
LEMMA InvInicial ==
  ASSUME Init
  PROVE  Inv
PROOF
  <1>1. PICK q \in [Pids -> Programas] : contextos = [p \in Pids |-> Contexto(q[p])]
    BY DEF Init
  <1>2. \A c \in Cpus : cpu[c] = Libre(ActualizarMemorySticks(1, escuchan))
    BY DEF Init
  <1>3. Forma
    BY <1>1, <1>2 DEF Init, Forma, Contexto, Libre
  <1> QED
    BY <1>2, <1>3
    DEF Init, Inv, Reparto, EstadoEnCpu, EstadosCpu, EstadosEnCpu, EnEspera, DeIo,
        TablaFiel, EsperaGuardada, Libre, Nada

-----------------------------------------------------------------------------
(* What an instruction may do to the variables of the invariant.            *)

\* Continuar: the registers change and the CPU goes to check_interrupt.
Sigue(c) ==
  /\ cpu[c].estado = "ejecuta"
  /\ \E r, l : cpu' = [cpu EXCEPT ![c].registros = r, ![c].lista = l, ![c].estado = "chequea"]
  /\ UNCHANGED <<contextos, estado, pedido, movidos>>

EnCurso == {"ejecuta", "respuesta"}

Pide(c) ==
  /\ cpu[c].estado = "ejecuta"
  /\ \E x : x.op \notin DeIo /\ PedirYEsperar(c, x)

\* An instruction goes on, ends its process, asks and waits, or leaves the CPU.
Efecto(c) ==
  \/ Sigue(c)
  \/ cpu[c].estado = "ejecuta" /\ \E l : Terminar(c, l)
  \/ Pide(c)
  \/ cpu[c].estado = "ejecuta" /\ \E x : x.op \in DeIo /\ Bloquear(c, x)

\* Every instruction has one of the four effects (execute).
LEMMA Instruccion ==
  ASSUME NEW c \in Cpus, Ejecutar(c)
  PROVE  Efecto(c)
PROOF
  <1>1. CASE EjecutarComun(c)
    BY <1>1
    DEF EjecutarComun, HayInstruccion, Continuar, Efecto, Sigue, suspVars, avisoVars
  <1>2. CASE EjecutarExit(c)
    BY <1>2 DEF EjecutarExit, Efecto
  <1>3. CASE EjecutarMovIn(c)
    BY <1>3
    DEF EjecutarMovIn, Toca, HayInstruccion, Continuar, Efecto, Sigue, Falta, suspVars, avisoVars
  <1>4. CASE EjecutarMovOut(c)
    BY <1>4
    DEF EjecutarMovOut, Toca, HayInstruccion, Continuar, Efecto, Sigue, Falta, suspVars, avisoVars
  <1>5. CASE EjecutarCopyMem(c)
    BY <1>5
    DEF EjecutarCopyMem, Toca, HayInstruccion, Continuar, Efecto, Sigue, Falta, suspVars, avisoVars
  <1>6. CASE EjecutarSyscallMemoria(c)
    <2>1. cpu[c].estado = "ejecuta"
      BY <1>6 DEF EjecutarSyscallMemoria, Toca, HayInstruccion
    <2>2. PICK x : x.op \in {"MEM_ALLOC", "MEM_FREE"} /\ PedirYEsperar(c, x)
      <3>1. CASE PedirYEsperar(c, [op |-> "MEM_ALLOC", id |-> Instr(c).id, tam |-> Instr(c).tam])
        BY <3>1
      <3>2. CASE PedirYEsperar(c, [op |-> "MEM_FREE", id |-> Instr(c).id])
        BY <3>2
      <3> QED
        BY <1>6, <3>1, <3>2 DEF EjecutarSyscallMemoria
    <2>3. x.op \notin DeIo
      BY <2>2 DEF DeIo
    <2>4. Pide(c)
      BY <2>1, <2>2, <2>3 DEF Pide
    <2> QED
      BY <2>4 DEF Efecto
  <1>7. CASE EjecutarSleep(c)
    BY <1>7 DEF EjecutarSleep, Toca, HayInstruccion, Efecto, DeIo
  <1>8. CASE EjecutarDatos(c)
    <2> DEFINE i == Instr(c)
               dl == Reg(c)[i.r]
               tam == Reg(c)[i.s]
               x(df) == [op |-> i.op, dl |-> dl, df |-> df, tam |-> tam]
    <2>1. cpu[c].estado = "ejecuta" /\ i.op \in DeIo
      BY <1>8 DEF EjecutarDatos, HayInstruccion, DeIo
    <2>2. CASE tam = 0
      BY <1>8, <2>1, <2>2
      DEF EjecutarDatos, Continuar, Efecto, Sigue, Falta, suspVars, avisoVars
    <2>3. CASE Falta(c, {dl}, tam)
      BY <2>1, <2>3 DEF Efecto, Falta
    <2>4. ASSUME NEW df, Bloquear(c, x(df))
          PROVE  Efecto(c)
      <3>1. x(df).op \in DeIo
        BY <2>1
      <3> HIDE DEF x
      <3> QED
        BY <2>1, <2>4, <3>1 DEF Efecto
    <2> QED
      BY <1>8, <2>2, <2>3, <2>4 DEF EjecutarDatos
  <1> QED
    BY <1>1, <1>2, <1>3, <1>4, <1>5, <1>6, <1>7, <1>8 DEF Ejecutar

-----------------------------------------------------------------------------
(* Each effect keeps the invariant.                                         *)

\* An instruction that goes on changes the registers of its own CPU.
LEMMA SigueConserva ==
  ASSUME Inv, NEW c \in Cpus, Sigue(c)
  PROVE  Inv'
PROOF
  <1> USE DEF Inv
  <1>1. Forma'
    BY DEF Forma, Sigue
  <1>2. Reparto'
    BY DEF Forma, Sigue, Reparto
  <1>3. EstadoEnCpu'
    BY DEF Forma, Sigue, EstadoEnCpu, EstadosCpu, EstadosEnCpu
  <1>4. EnEspera'
    BY DEF Sigue, EnEspera
  <1>5. TablaFiel'
    BY DEF Forma, Sigue, TablaFiel
  <1>6. EsperaGuardada'
    BY DEF Forma, Sigue, EsperaGuardada
  <1> QED
    BY <1>1, <1>2, <1>3, <1>4, <1>5, <1>6

\* The process ends: no other CPU has it.
LEMMA TerminarConserva ==
  ASSUME Inv, NEW c \in Cpus, cpu[c].estado \in EnCurso, NEW l, Terminar(c, l)
  PROVE  Inv'
PROOF
  <1> DEFINE p == cpu[c].pid
  <1>1. p \in Pids /\ p # Nadie
    BY EjecucionOK DEF Inv, Reparto, EnCurso
  <1>2. \A d \in Cpus : d # c => cpu[d].pid # p /\ cpu'[d] = cpu[d]
    BY <1>1 DEF Inv, Forma, Reparto, Terminar
  <1>3. cpu'[c] = Libre(l)
    BY DEF Inv, Forma, Terminar
  <1>4. /\ estado' = [estado EXCEPT ![p] = "EXIT"]
        /\ contextos' = [contextos EXCEPT ![p] = SinContexto]
        /\ pedido' = [pedido EXCEPT ![p] = Nada]
        /\ movidos' = movidos
    BY DEF Terminar, suspVars, avisoVars
  <1> HIDE DEF p
  <1>5. Forma'
    BY <1>1, <1>2, <1>3, <1>4 DEF Inv, Forma, Terminar, Libre, SinContexto, Contexto
  <1>6. Reparto'
    BY <1>2, <1>3 DEF Inv, Reparto, Libre
  <1>7. EstadoEnCpu'
    BY <1>1, <1>2, <1>3, <1>4
    DEF Inv, Forma, Reparto, EstadoEnCpu, EstadosCpu, EstadosEnCpu, Libre
  <1>8. EnEspera'
    BY <1>1, <1>4 DEF Inv, Forma, EnEspera, DeIo, Nada
  <1>9. TablaFiel'
    BY <1>1, <1>2, <1>3, <1>4 DEF Inv, Forma, Reparto, TablaFiel, Libre
  <1>10. EsperaGuardada'
    BY <1>1, <1>2, <1>3, <1>4 DEF Inv, Forma, Reparto, EsperaGuardada, Libre
  <1> QED
    BY <1>5, <1>6, <1>7, <1>8, <1>9, <1>10 DEF Inv

\* ejecutar_syscall_mem_alloc, ejecutar_syscall_mem_free: what is saved is what the
\* CPU has.
LEMMA PedirConserva ==
  ASSUME Inv, NEW c \in Cpus, cpu[c].estado = "ejecuta",
         NEW x, x.op \notin DeIo, PedirYEsperar(c, x)
  PROVE  Inv'
PROOF
  <1> DEFINE p == cpu[c].pid
  <1>1. p \in Pids /\ p # Nadie
    BY EjecucionOK DEF Inv, Reparto
  <1>2. \A d \in Cpus : d # c => cpu[d].pid # p /\ cpu'[d] = cpu[d]
    BY <1>1 DEF Inv, Forma, Reparto, PedirYEsperar
  <1>3. /\ cpu'[c].estado = "respuesta" /\ cpu'[c].pid = p
        /\ cpu'[c].registros = Avanzar(Reg(c))
        /\ DOMAIN cpu'[c] = DOMAIN cpu[c]
    BY DEF Inv, Forma, PedirYEsperar, Reg
  <1>4. /\ contextos' = [contextos EXCEPT ![p].registros = Avanzar(Reg(c))]
        /\ pedido' = [pedido EXCEPT ![p] = x]
        /\ estado' = estado /\ movidos' = movidos
    BY DEF PedirYEsperar, GuardarContexto, suspVars, avisoVars
  <1>5. cpu' = [cpu EXCEPT ![c].registros = Avanzar(@), ![c].estado = "respuesta"]
    BY DEF PedirYEsperar
  <1> HIDE DEF p
  <1>6. Forma'
    BY <1>1, <1>2, <1>3, <1>4, <1>5 DEF Inv, Forma
  <1>7. Reparto'
    BY <1>1, <1>2, <1>3 DEF Inv, Reparto
  <1>8. EstadoEnCpu'
    <2>1. estado[p] = "EXEC"
      BY DEF Inv, EstadoEnCpu, EstadosEnCpu, p
    <2> QED
      BY <1>1, <1>2, <1>3, <1>4, <2>1
      DEF Inv, Forma, Reparto, EstadoEnCpu, EstadosCpu, EstadosEnCpu
  <1>9. EnEspera'
    BY <1>1, <1>4 DEF Inv, Forma, EnEspera
  <1>10. TablaFiel'
    BY <1>1, <1>2, <1>3, <1>4 DEF Inv, Forma, Reparto, TablaFiel
  <1>11. EsperaGuardada'
    BY <1>1, <1>2, <1>3, <1>4 DEF Inv, Forma, Reparto, EsperaGuardada
  <1> QED
    BY <1>6, <1>7, <1>8, <1>9, <1>10, <1>11 DEF Inv

\* A process leaves its CPU and its context: for a device (Bloquear) or because of
\* an interrupt (Interrumpir).
Deja(c, e, x) ==
  LET p == cpu[c].pid IN
  /\ \E r : GuardarContexto(c, r)
  /\ estado' = [estado EXCEPT ![p] = e]
  /\ DOMAIN pedido' = Pids /\ \A q \in Pids : pedido'[q] = IF q = p THEN x ELSE pedido[q]
  /\ Soltar(c)
  /\ movidos' = movidos

\* A CPU that leaves its process has saved the context, and nobody else had it
\* (CPU_MOTIVO_FIN_QUANTUM, CPU_MOTIVO_SYSCALL_BLOQUEANTE).
LEMMA DejaConserva ==
  ASSUME Inv, NEW c \in Cpus, cpu[c].estado \in {"ejecuta", "chequea"},
         NEW e, NEW x, x.op \in DeIo => e = "BLOCK", Deja(c, e, x)
  PROVE  Inv'
PROOF
  <1> DEFINE p == cpu[c].pid
  <1>1. p \in Pids /\ p # Nadie
    BY EjecucionOK DEF Inv, Reparto
  <1>2. \A d \in Cpus : d # c => cpu[d].pid # p /\ cpu'[d] = cpu[d]
    BY <1>1 DEF Inv, Forma, Reparto, Deja, Soltar
  <1>3. cpu'[c] = Libre(cpu[c].lista)
    BY DEF Inv, Forma, Deja, Soltar
  <1>4. PICK r : contextos' = [contextos EXCEPT ![p].registros = r]
    BY DEF Deja, GuardarContexto
  <1>5. /\ estado' = [estado EXCEPT ![p] = e]
        /\ DOMAIN pedido' = Pids
        /\ \A q \in Pids : pedido'[q] = IF q = p THEN x ELSE pedido[q]
        /\ movidos' = movidos
    BY DEF Deja
  <1>6. cpu' = [cpu EXCEPT ![c] = Libre(@.lista)]
    BY DEF Deja, Soltar
  <1> HIDE DEF p
  <1>7. Forma'
    BY <1>1, <1>2, <1>3, <1>4, <1>5, <1>6 DEF Inv, Forma, Libre
  <1>8. Reparto'
    BY <1>2, <1>3 DEF Inv, Reparto, Libre
  <1>9. EstadoEnCpu'
    BY <1>1, <1>2, <1>3, <1>5
    DEF Inv, Forma, Reparto, EstadoEnCpu, EstadosCpu, EstadosEnCpu, Libre
  <1>10. EnEspera'
    BY <1>1, <1>5 DEF Inv, Forma, EnEspera
  <1>11. TablaFiel'
    BY <1>1, <1>2, <1>3, <1>4, <1>5 DEF Inv, Forma, Reparto, TablaFiel, Libre
  <1>12. EsperaGuardada'
    BY <1>1, <1>2, <1>3, <1>4 DEF Inv, Forma, Reparto, EsperaGuardada, Libre
  <1> QED
    BY <1>7, <1>8, <1>9, <1>10, <1>11, <1>12 DEF Inv

\* The four effects keep the invariant.
LEMMA EfectoConserva ==
  ASSUME Inv, NEW c \in Cpus, Efecto(c)
  PROVE  Inv'
PROOF
  <1>1. CASE Sigue(c)
    BY <1>1, SigueConserva
  <1>2. CASE cpu[c].estado = "ejecuta" /\ \E l : Terminar(c, l)
    BY <1>2, TerminarConserva DEF EnCurso
  <1>3. CASE Pide(c)
    BY <1>3, PedirConserva DEF Pide
  <1>4. CASE cpu[c].estado = "ejecuta" /\ \E x : x.op \in DeIo /\ Bloquear(c, x)
    <2>1. PICK x : x.op \in DeIo /\ Bloquear(c, x)
      BY <1>4
    <2>2. Deja(c, "BLOCK", x)
      BY <2>1 DEF Bloquear, Deja, Inv, Forma, avisoVars
    <2> QED
      BY <1>4, <2>1, <2>2, DejaConserva
  <1> QED
    BY <1>1, <1>2, <1>3, <1>4 DEF Efecto

-----------------------------------------------------------------------------
(* The other steps of a CPU.                                                *)

\* A process that is in none of the states of one that a CPU has, is in no CPU.
LEMMA SinCpu ==
  ASSUME Inv, NEW p \in Pids, estado[p] # "EXEC",
         estado[p] = "BLOCK" => pedido[p].op # "MEM_ALLOC"
  PROVE  \A c \in Cpus : cpu[c].pid # p
  BY EjecucionOK DEF Inv, Reparto, EstadoEnCpu, EstadosCpu, EstadosEnCpu

\* OP_EJECUTAR_PROCESO.
LEMMA DespacharConserva ==
  ASSUME Inv, NEW c \in Cpus, NEW p \in Pids, Despachar(c, p)
  PROVE  Inv'
PROOF
  <1>1. estado[p] = "READY" /\ cpu[c].estado = "libre"
    BY DEF Despachar
  <1>2. \A d \in Cpus : cpu[d].pid # p
    BY <1>1, SinCpu
  <1>3. p # Nadie
    BY EjecucionOK
  <1>4. /\ estado' = [estado EXCEPT ![p] = "EXEC"]
        /\ cpu' = [cpu EXCEPT ![c].estado = "asignada", ![c].pid = p]
        /\ contextos' = contextos /\ pedido' = pedido /\ movidos' = movidos
    BY DEF Despachar, suspVars, avisoVars
  <1>5. Forma'
    BY <1>4 DEF Inv, Forma
  <1>6. Reparto'
    BY <1>2, <1>3, <1>4 DEF Inv, Forma, Reparto
  <1>7. EstadoEnCpu'
    BY <1>2, <1>4 DEF Inv, Forma, Reparto, EstadoEnCpu, EstadosCpu, EstadosEnCpu
  <1>8. EnEspera'
    BY <1>1, <1>4 DEF Inv, Forma, EnEspera
  <1>9. TablaFiel'
    BY <1>4 DEF Inv, Forma, TablaFiel
  <1>10. EsperaGuardada'
    BY <1>4 DEF Inv, Forma, EsperaGuardada
  <1> QED
    BY <1>5, <1>6, <1>7, <1>8, <1>9, <1>10 DEF Inv

\* Steps of a CPU that only change what it has, not the process it has.
LEMMA ObtenerConserva ==
  ASSUME Inv, NEW c \in Cpus, ObtenerContexto(c)
  PROVE  Inv'
PROOF
  <1> DEFINE p == cpu[c].pid
             e == IF cpu[c].estado = "asignada" THEN "ejecuta" ELSE "chequea"
  <1>1. /\ cpu[c].estado \in {"asignada", "refresca"}
        /\ cpu' = [cpu EXCEPT ![c].registros = contextos[p].registros,
                              ![c].tabla = contextos[p].tabla, ![c].estado = e]
        /\ contextos' = contextos /\ pedido' = pedido /\ estado' = estado
        /\ movidos' = movidos \ {p}
    BY DEF ObtenerContexto, Inv, Forma
  <1>2. e \in {"ejecuta", "chequea"}
    OBVIOUS
  <1>3. /\ \A d \in Cpus : cpu'[d].pid = cpu[d].pid
        /\ \A d \in Cpus : d # c => cpu'[d] = cpu[d]
        /\ cpu'[c].estado = e /\ cpu'[c].tabla = contextos[p].tabla
    BY <1>1 DEF Inv, Forma
  <1>4. Forma'
    BY <1>1 DEF Inv, Forma
  <1> HIDE DEF p, e
  <1>5. Reparto'
    <2>1. cpu[c].pid \in Pids
      BY <1>1 DEF Inv, Reparto
    <2> QED
      BY <1>2, <1>3, <2>1 DEF Inv, Reparto
  <1>6. EstadoEnCpu'
    <2>1. estado[cpu[c].pid] = "EXEC" /\ cpu'[c].estado \in {"ejecuta", "chequea"}
      BY <1>1, <1>2, <1>3 DEF Inv, EstadoEnCpu, EstadosEnCpu
    <2>2. /\ cpu'[c].estado \in EstadosCpu /\ cpu'[c].estado # "compacta"
          /\ estado'[cpu'[c].pid] = "EXEC"
      BY <1>1, <1>3, <2>1 DEF EstadosCpu
    <2> QED
      BY <1>1, <1>3, <2>2 DEF Inv, EstadoEnCpu
  <1>7. EnEspera'
    BY <1>1 DEF Inv, EnEspera
  <1>8. TablaFiel'
    <2>1. ASSUME NEW d \in Cpus, d # c, cpu[d].estado \in {"ejecuta", "chequea"},
                 cpu[d].pid \notin movidos'
          PROVE  cpu[d].tabla = contextos[cpu[d].pid].tabla
      <3>1. cpu[d].pid # p
        BY <1>1, <2>1, InvAlcanza DEF p
      <3> QED
        BY <1>1, <2>1, <3>1 DEF Inv, TablaFiel
    <2> QED
      BY <1>1, <1>3, <2>1 DEF TablaFiel, p
  <1>9. EsperaGuardada'
    BY <1>1, <1>2, <1>3 DEF Inv, EsperaGuardada
  <1> QED
    BY <1>4, <1>5, <1>6, <1>7, <1>8, <1>9 DEF Inv

\* check_interrupt without an interrupt.
LEMMA NoInterrumpirConserva ==
  ASSUME Inv, NEW c \in Cpus, NoInterrumpir(c)
  PROVE  Inv'
PROOF
  <1> USE DEF Inv, Forma, NoInterrumpir, suspVars, avisoVars
  <1>1. Forma' /\ EnEspera'
    BY DEF EnEspera
  <1>2. Reparto'
    BY DEF Reparto
  <1>3. EstadoEnCpu'
    BY DEF EstadoEnCpu, EstadosCpu, EstadosEnCpu
  <1>4. TablaFiel' /\ EsperaGuardada'
    BY DEF TablaFiel, EsperaGuardada
  <1> QED
    BY <1>1, <1>2, <1>3, <1>4

\* Every step of a CPU keeps the invariant.
LEMMA PasoCpuConserva ==
  ASSUME Inv, NEW c \in Cpus, PasoCpu(c)
  PROVE  Inv'
PROOF
  <1>1. CASE \E p \in Pids : Despachar(c, p)
    BY <1>1, DespacharConserva
  <1>2. CASE ObtenerContexto(c)
    BY <1>2, ObtenerConserva
  <1>3. CASE NoInterrumpir(c)
    BY <1>3, NoInterrumpirConserva
  <1>4. CASE Interrumpir(c)
    <2> DEFINE x == pedido[cpu[c].pid]
    <2>1. cpu[c].pid \in Pids /\ estado[cpu[c].pid] = "EXEC"
      BY <1>4 DEF Interrumpir, Inv, Reparto, EstadoEnCpu, EstadosEnCpu
    <2>2. x.op \notin DeIo
      BY <2>1 DEF Inv, EnEspera
    <2>3. Deja(c, "READY", x)
      BY <1>4 DEF Interrumpir, Deja, Inv, Forma, suspVars, avisoVars
    <2> HIDE DEF x
    <2> QED
      BY <1>4, <2>2, <2>3, DejaConserva DEF Interrumpir
  <1>5. CASE Ejecutar(c)
    BY <1>5, Instruccion, EfectoConserva
  <1> QED
    BY <1>1, <1>2, <1>3, <1>4, <1>5 DEF PasoCpu

-----------------------------------------------------------------------------
(* The Kernel Memory and the segments.                                      *)

\* OP_OK to a MEM_ALLOC or a MEM_FREE, and OP_FIN_COMPACTACION: the CPU will ask
\* for the context.  tablas are the new segment tables.
Responder(c, e, tablas) ==
  /\ cpu' = [cpu EXCEPT ![c].estado = e]
  /\ pedido' = [pedido EXCEPT ![cpu[c].pid] = Nada]
  /\ DOMAIN contextos' = Pids
  /\ \A p \in Pids : /\ DOMAIN contextos'[p] = DOMAIN contextos[p]
                     /\ contextos'[p].tabla = tablas[p]
                     /\ contextos'[p].registros = contextos[p].registros

\* The tables that change are of processes that no CPU is executing, or that have
\* moved.
LEMMA ResponderConserva ==
  ASSUME Inv, NEW c \in Cpus, cpu[c].estado \in {"respuesta", "compacta"},
         NEW e, e = (IF cpu[c].estado = "respuesta" THEN "refresca" ELSE "asignada"),
         NEW tablas, Responder(c, e, tablas),
         movidos \subseteq movidos',
         \A d \in Cpus : cpu[d].estado \in {"ejecuta", "chequea"} /\ cpu[d].pid \notin movidos' =>
           tablas[cpu[d].pid] = contextos[cpu[d].pid].tabla,
         estado' = IF cpu[c].estado = "respuesta" THEN estado
                   ELSE [estado EXCEPT ![cpu[c].pid] = "EXEC"]
  PROVE  Inv'
PROOF
  <1> DEFINE p == cpu[c].pid
  <1>1. p \in Pids /\ p # Nadie
    BY EjecucionOK DEF Inv, Reparto
  <1>2. \A d \in Cpus : d # c => cpu[d].pid # p /\ cpu'[d] = cpu[d]
    BY <1>1 DEF Inv, Forma, Reparto, Responder
  <1>3. /\ cpu'[c].estado = e /\ cpu'[c].pid = p /\ cpu'[c].registros = cpu[c].registros
        /\ e \in {"refresca", "asignada"}
    BY DEF Inv, Forma, Responder
  <1>4. Forma'
    BY <1>1 DEF Inv, Forma, Responder
  <1>5. Reparto'
    BY <1>1, <1>2, <1>3 DEF Inv, Reparto
  <1>6. EstadoEnCpu'
    <2>1. estado'[p] = "EXEC"
      BY <1>1 DEF Inv, Forma, EstadoEnCpu, EstadosEnCpu
    <2>2. \A d \in Cpus : d # c /\ cpu[d].estado # "libre" =>
            estado'[cpu[d].pid] = estado[cpu[d].pid] /\ pedido'[cpu[d].pid] = pedido[cpu[d].pid]
      BY <1>1, <1>2 DEF Inv, Forma, Reparto, Responder
    <2> QED
      BY <1>2, <1>3, <2>1, <2>2 DEF Inv, EstadoEnCpu, EstadosCpu, EstadosEnCpu
  <1>7. EnEspera'
    BY <1>1 DEF Inv, Forma, EnEspera, Responder, Nada, DeIo
  <1>8. \A q \in Pids : /\ contextos'[q].tabla = tablas[q]
                        /\ contextos'[q].registros = contextos[q].registros
    BY DEF Inv, Forma, Responder
  <1>9. TablaFiel'
    BY <1>2, <1>3, <1>8 DEF Inv, Reparto, TablaFiel
  <1>10. EsperaGuardada'
    BY <1>1, <1>2, <1>3, <1>8 DEF Inv, Reparto, EsperaGuardada
  <1> QED
    BY <1>4, <1>5, <1>6, <1>7, <1>9, <1>10 DEF Inv

\* segmento_crear: too few holes; the CPU is kept for the process.
LEMMA PedirCompactarConserva ==
  ASSUME Inv, NEW c \in Cpus, PedirCompactar(c)
  PROVE  Inv'
PROOF
  <1> DEFINE p == cpu[c].pid
  <1>1. /\ cpu[c].estado = "respuesta" /\ pedido[p].op = "MEM_ALLOC"
        /\ estado' = [estado EXCEPT ![p] = "BLOCK"]
        /\ cpu' = [cpu EXCEPT ![c].estado = "compacta"]
        /\ contextos' = contextos /\ pedido' = pedido /\ movidos' = movidos
    BY DEF PedirCompactar, Espera, suspVars, avisoVars
  <1>2. p \in Pids /\ p # Nadie
    BY <1>1, EjecucionOK DEF Inv, Reparto
  <1>3. \A d \in Cpus : d # c => cpu[d].pid # p /\ cpu'[d] = cpu[d]
    BY <1>1, <1>2 DEF Inv, Forma, Reparto
  <1>4. cpu'[c].pid = p /\ cpu'[c].estado = "compacta" /\ cpu'[c].registros = cpu[c].registros
    BY <1>1 DEF Inv, Forma
  <1>5. Forma'
    BY <1>1 DEF Inv, Forma
  <1> HIDE DEF p
  <1>6. Reparto'
    BY <1>2, <1>3, <1>4 DEF Inv, Reparto
  <1>7. EstadoEnCpu'
    BY <1>1, <1>2, <1>3, <1>4 DEF Inv, Forma, Reparto, EstadoEnCpu, EstadosCpu, EstadosEnCpu
  <1>8. EnEspera'
    BY <1>1, <1>2 DEF Inv, Forma, EnEspera
  <1>9. TablaFiel'
    BY <1>1, <1>3, <1>4 DEF Inv, TablaFiel
  <1>10. EsperaGuardada'
    <2>1. cpu[c].registros = contextos[p].registros
      BY <1>1 DEF Inv, EsperaGuardada, p
    <2> QED
      BY <1>1, <1>3, <1>4, <2>1 DEF Inv, EsperaGuardada
  <1> QED
    BY <1>5, <1>6, <1>7, <1>8, <1>9, <1>10 DEF Inv

\* A request about the tables of one process that a CPU has.
LEMMA PropiaConserva ==
  ASSUME Inv, NEW c \in Cpus, cpu[c].estado = "respuesta", NEW t,
         contextos' = [contextos EXCEPT ![cpu[c].pid].tabla = t],
         Responde(c, "refresca"), estado' = estado, movidos' = movidos
  PROVE  Inv'
PROOF
  <1> DEFINE p == cpu[c].pid
             tablas == [q \in Pids |-> IF q = p THEN t ELSE contextos[q].tabla]
  <1>1. p \in Pids
    BY DEF Inv, Reparto
  <1>2. Responder(c, "refresca", tablas)
    BY DEF Responder, Responde, Inv, Forma
  <1>3. \A d \in Cpus : cpu[d].estado \in {"ejecuta", "chequea"} =>
          tablas[cpu[d].pid] = contextos[cpu[d].pid].tabla
    <2> TAKE d \in Cpus
    <2> HAVE cpu[d].estado \in {"ejecuta", "chequea"}
    <2>1. d # c /\ cpu[d].pid \in Pids
      BY DEF Inv, Reparto
    <2>2. cpu[d].pid # p
      BY <1>1, <2>1, EjecucionOK DEF Inv, Reparto
    <2> QED
      BY <2>1, <2>2
  <1> HIDE DEF tablas
  <1> QED
    BY <1>2, <1>3, ResponderConserva

\* compactar moves segments, also of a process that is in a CPU.
LEMMA CompactarConserva ==
  ASSUME Inv, NEW c \in Cpus, Compactar(c)
  PROVE  Inv'
PROOF
  <1> DEFINE p == cpu[c].pid
  <1>1. /\ cpu[c].estado = "compacta"
        /\ estado' = [estado EXCEPT ![p] = "EXEC"]
        /\ Responde(c, "asignada")
    BY DEF Compactar
  <1>2. PICK movidas, f, t :
          /\ movidas = [q \in Pids |-> [contextos[q] EXCEPT !.tabla = f[q]]]
          /\ contextos' = [movidas EXCEPT ![p].tabla = t]
          /\ movidos' = movidos \cup {q \in Pids : movidas[q] # contextos[q]}
    <2> DEFINE seg(s) == contextos[s[1]].tabla[s[2]]
               nueva == [s \in Segmentos |->
                 Cardinality(UNION {Lugar(seg(u)) : u \in {v \in Segmentos : seg(v).base < seg(s).base}})]
               f == [q \in Pids |-> [i \in DOMAIN contextos[q].tabla |->
                       [contextos[q].tabla[i] EXCEPT !.base = nueva[<<q, i>>]]]]
               movidas == [q \in Pids |-> [contextos[q] EXCEPT !.tabla = f[q]]]
               t == Append(movidas[p].tabla, [id |-> pedido[p].id, base |-> Cardinality(Ocupados),
                                              limite |-> pedido[p].tam])
    <2>1. /\ contextos' = [movidas EXCEPT ![p].tabla = t]
          /\ movidos' = movidos \cup {q \in Pids : movidas[q] # contextos[q]}
      BY DEF Compactar
    <2> HIDE DEF f, t
    <2> QED
      BY <2>1
  <1>3. PICK tablas : tablas = [q \in Pids |-> contextos'[q].tabla]
    OBVIOUS
  <1>4. Responder(c, "asignada", tablas)
    <2>1. p \in Pids
      BY <1>1 DEF Inv, Reparto
    <2>2. DOMAIN contextos' = Pids
      BY <1>2
    <2>3. \A q \in Pids : /\ DOMAIN contextos'[q] = DOMAIN contextos[q]
                          /\ contextos'[q].tabla = tablas[q]
                          /\ contextos'[q].registros = contextos[q].registros
      BY <1>2, <1>3, <2>1 DEF Inv, Forma
    <2> QED
      BY <1>1, <2>2, <2>3 DEF Responder, Responde
  <1>5. ASSUME NEW d \in Cpus, cpu[d].estado \in {"ejecuta", "chequea"},
               cpu[d].pid \notin movidos'
        PROVE  tablas[cpu[d].pid] = contextos[cpu[d].pid].tabla
    <2>1. cpu[d].pid \in Pids /\ cpu[d].pid # p
      BY <1>1, <1>5, InvAlcanza
    <2>2. movidas[cpu[d].pid] = contextos[cpu[d].pid]
      BY <1>2, <1>5, <2>1
    <2> QED
      BY <1>2, <1>3, <2>1, <2>2
  <1> QED
    BY <1>1, <1>2, <1>4, <1>5, ResponderConserva

\* Every answer of the Kernel Memory to a CPU keeps the invariant.
LEMMA PasoMemoriaConserva ==
  ASSUME Inv, NEW c \in Cpus, PasoMemoria(c)
  PROVE  Inv'
PROOF
  <1>1. CASE SegmentoCrear(c)
    <2>1. PICK t : contextos' = [contextos EXCEPT ![cpu[c].pid].tabla = t]
      BY <1>1 DEF SegmentoCrear
    <2>2. /\ cpu[c].estado = "respuesta" /\ Responde(c, "refresca") /\ estado' = estado
          /\ movidos' = movidos
      BY <1>1 DEF SegmentoCrear, Espera, suspVars, avisoVars
    <2> QED
      BY <2>1, <2>2, PropiaConserva
  <1>2. CASE SegmentoError(c)
    <2>1. cpu[c].estado \in EnCurso /\ Terminar(c, cpu[c].lista)
      BY <1>2 DEF SegmentoError, Espera, EnCurso
    <2> QED
      BY <2>1, TerminarConserva
  <1>3. CASE SegmentoEliminar(c)
    <2>1. cpu[c].estado = "respuesta"
      BY <1>3 DEF SegmentoEliminar, Espera
    <2>2. CASE Terminar(c, cpu[c].lista)
      BY <2>1, <2>2, TerminarConserva DEF EnCurso
    <2>3. ASSUME NEW i, contextos' = [contextos EXCEPT ![cpu[c].pid].tabla = RemoveAt(@, i)],
                 Responde(c, "refresca"), estado' = estado, movidos' = movidos
          PROVE  Inv'
      BY <2>1, <2>3, PropiaConserva
    <2> QED
      BY <1>3, <2>2, <2>3 DEF SegmentoEliminar, suspVars, avisoVars
  <1>4. CASE PedirCompactar(c)
    BY <1>4, PedirCompactarConserva
  <1>5. CASE Compactar(c)
    BY <1>5, CompactarConserva
  <1> QED
    BY <1>1, <1>2, <1>3, <1>4, <1>5 DEF PasoMemoria

-----------------------------------------------------------------------------
(* A process that no CPU has.                                               *)

\* Its state, its request and its segments change.
LEMMA LejosConserva ==
  ASSUME Inv, NEW p \in Pids,
         \A c \in Cpus : cpu[c].pid # p,
         DOMAIN estado' = Pids, DOMAIN pedido' = Pids,
         \A q \in Pids : q # p => estado'[q] = estado[q] /\ pedido'[q] = pedido[q],
         pedido'[p].op \in DeIo => estado'[p] \in {"BLOCK", "SUSP_BLOCK"},
         NEW t, contextos' = [contextos EXCEPT ![p].tabla = t] \/ contextos' = contextos,
         movidos \subseteq movidos', cpu' = cpu
  PROVE  Inv'
PROOF
  <1>1. Forma'
    BY DEF Inv, Forma
  <1>2. Reparto'
    BY DEF Inv, Reparto
  <1>3. EstadoEnCpu'
    BY DEF Inv, Forma, Reparto, EstadoEnCpu, EstadosCpu, EstadosEnCpu
  <1>4. EnEspera'
    BY DEF Inv, Forma, EnEspera
  <1>5. TablaFiel'
    BY DEF Inv, Forma, Reparto, TablaFiel
  <1>6. EsperaGuardada'
    BY DEF Inv, Forma, Reparto, EsperaGuardada
  <1> QED
    BY <1>1, <1>2, <1>3, <1>4, <1>5, <1>6 DEF Inv

\* The segments of a process that a CPU may have are taken away.
LEMMA TomarConserva ==
  ASSUME Inv, NEW p \in Pids, UNCHANGED <<estado, pedido, cpu>>,
         NEW t, contextos' = [contextos EXCEPT ![p].tabla = t],
         movidos' = movidos \cup {p}
  PROVE  Inv'
PROOF
  <1>1. Forma'
    BY DEF Inv, Forma
  <1>2. Reparto' /\ EstadoEnCpu' /\ EnEspera'
    BY DEF Inv, Reparto, EstadoEnCpu, EnEspera
  <1>3. TablaFiel'
    BY DEF Inv, Forma, TablaFiel
  <1>4. EsperaGuardada'
    BY DEF Inv, Forma, EsperaGuardada
  <1> QED
    BY <1>1, <1>2, <1>3, <1>4 DEF Inv

\* A step that touches neither contexts nor processes nor CPUs.
LEMMA QuietoConserva ==
  ASSUME Inv, UNCHANGED <<contextos, estado, pedido, cpu, movidos>>
  PROVE  Inv'
  BY DEF Inv, Forma, Reparto, EstadoEnCpu, EnEspera, TablaFiel, EsperaGuardada

\* Every step of a device, a suspension or its end keeps the invariant.
LEMMA PasoProcesoConserva ==
  ASSUME Inv, NEW p \in Pids, PasoProceso(p)
  PROVE  Inv'
PROOF
  <1>1. ASSUME pedido[p].op \in DeIo
        PROVE  \A c \in Cpus : cpu[c].pid # p
    BY <1>1, SinCpu DEF Inv, EnEspera, DeIo
  <1>2. ASSUME pedido[p].op \in DeIo, Despertar(p), contextos' = contextos, cpu' = cpu,
               movidos' = movidos
        PROVE  Inv'
    <2>1. /\ DOMAIN estado' = Pids /\ DOMAIN pedido' = Pids
          /\ \A q \in Pids : q # p => estado'[q] = estado[q] /\ pedido'[q] = pedido[q]
          /\ pedido'[p].op \notin DeIo
      BY <1>2 DEF Despertar, Inv, Forma, Nada, DeIo
    <2> QED
      BY <1>1, <1>2, <2>1, LejosConserva
  <1>3. CASE FinSleep(p)
    BY <1>2, <1>3 DEF FinSleep, DeIo, suspVars, avisoVars
  <1>4. CASE FinStdin(p)
    BY <1>2, <1>4 DEF FinStdin, DeIo, avisoVars
  <1>5. CASE FinStdout(p)
    BY <1>2, <1>5 DEF FinStdout, DeIo, memVars, avisoVars
  <1>6. CASE KsCae(p)
    BY <1>6, QuietoConserva DEF KsCae
  <1>7. CASE Suspender(p)
    <2>1. /\ pedido[p].op \in DeIo /\ movidos' = movidos
          /\ DOMAIN estado' = Pids /\ pedido' = pedido /\ contextos' = contextos /\ cpu' = cpu
          /\ \A q \in Pids : q # p => estado'[q] = estado[q]
          /\ estado'[p] = "SUSP_BLOCK"
      BY <1>7 DEF Suspender, Inv, Forma, DeIo
    <2> QED
      BY <1>1, <2>1, LejosConserva DEF Inv, Forma
  <1>8. CASE ProcesoSuspender(p)
    <2>1. UNCHANGED <<estado, pedido, cpu>>
      BY <1>8 DEF ProcesoSuspender
    <2>2. CASE /\ contextos' = [contextos EXCEPT ![p].tabla = <<>>]
               /\ movidos' = movidos \cup {p}
      BY <2>1, <2>2, TomarConserva
    <2>3. CASE UNCHANGED <<contextos, movidos>>
      BY <2>1, <2>3, QuietoConserva
    <2> QED
      BY <1>8, <2>2, <2>3 DEF ProcesoSuspender
  <1>9. CASE Dessuspender(p)
    <2>1. estado[p] = "SUSP_READY" /\ pedido[p].op \notin DeIo
      BY <1>9 DEF Dessuspender, Inv, EnEspera
    <2>2. \A c \in Cpus : cpu[c].pid # p
      BY <2>1, SinCpu
    <2>3. PICK t : contextos' = [contextos EXCEPT ![p].tabla = t]
      BY <1>9 DEF Dessuspender
    <2>4. /\ DOMAIN estado' = Pids /\ pedido' = pedido /\ cpu' = cpu
          /\ \A q \in Pids : q # p => estado'[q] = estado[q]
          /\ movidos' = movidos
      BY <1>9 DEF Dessuspender, Inv, Forma, suspVars, avisoVars
    <2> QED
      BY <2>1, <2>2, <2>3, <2>4, LejosConserva DEF Inv, Forma
  <1> QED
    BY <1>3, <1>4, <1>5, <1>6, <1>7, <1>8, <1>9 DEF PasoProceso

-----------------------------------------------------------------------------
\* Every step keeps the invariant.
LEMMA InvConserva ==
  ASSUME Inv, [Next]_vars
  PROVE  Inv'
PROOF
  <1>1. ASSUME NEW c \in Cpus, PasoCpu(c)
        PROVE  Inv'
    BY <1>1, PasoCpuConserva
  <1>2. ASSUME NEW c \in Cpus, PasoMemoria(c)
        PROVE  Inv'
    BY <1>2, PasoMemoriaConserva
  <1>3. ASSUME NEW p \in Pids, PasoProceso(p)
        PROVE  Inv'
    BY <1>3, PasoProcesoConserva
  <1>4. CASE PasoStick
    BY <1>4, QuietoConserva DEF PasoStick, Conectar, Escuchar, suspVars, avisoVars
  <1>5. CASE UNCHANGED vars
    BY <1>5, QuietoConserva DEF vars
  <1> QED
    BY <1>1, <1>2, <1>3, <1>4, <1>5 DEF Next

\* The context that is asked for again after a MEM_ALLOC, a MEM_FREE or a
\* compaction brings back the registers the CPU has, with its PC++.
THEOREM RegistrosGuardados == Spec => []EsperaGuardada
PROOF
  <1>1. Init => Inv
    BY InvInicial
  <1>2. Inv /\ [Next]_vars => Inv'
    BY InvConserva
  <1>3. Inv => EsperaGuardada
    BY DEF Inv
  <1> QED
    BY <1>1, <1>2, <1>3, PTL DEF Spec

-----------------------------------------------------------------------------
(* The sticks that each CPU knows.                                          *)

\* Each CPU keeps the list it had or takes the one of the Kernel Memory.
DosListas ==
  /\ sticks' = sticks
  /\ \A d \in Cpus : cpu'[d].lista \in {cpu[d].lista, Actual}

\* What ends an instruction leaves the CPU with the list it is given.
LEMMA ListaQueda ==
  ASSUME Forma, NEW c \in Cpus, NEW l, l \in {cpu[c].lista, Actual}
  PROVE  /\ Terminar(c, l) => DosListas
         /\ \A r : Continuar(c, r, l) /\ sticks' = sticks => DosListas
PROOF
  <1>1. ASSUME Terminar(c, l)
        PROVE  DosListas
    BY <1>1 DEF Forma, Terminar, Libre, memVars, DosListas
  <1>2. ASSUME NEW r, Continuar(c, r, l), sticks' = sticks
        PROVE  DosListas
    BY <1>2 DEF Forma, Continuar, DosListas
  <1> QED
    BY <1>1, <1>2

\* A Segmentation Fault asks for no list.
LEMMA FaltaListas ==
  ASSUME Forma, NEW c \in Cpus, NEW dls, NEW tam, Falta(c, dls, tam)
  PROVE  DosListas
  BY ListaQueda DEF Falta

\* leer_memoria and escribir_memoria: the list that is left is the one there was or
\* the one the Kernel Memory answers (buscar_o_refrescar_stick).
LEMMA ListaDeAcceso ==
  ASSUME NEW lista, NEW d, NEW tam, NEW actual
  PROVE  UltimaLista(lista, d, tam, actual) \in {lista, actual}
  BY DEF UltimaLista, ListaDeByte

\* The instructions that use the memory.
LEMMA AccesoListas ==
  ASSUME Forma, NEW c \in Cpus, EjecutarMovIn(c) \/ EjecutarMovOut(c) \/ EjecutarCopyMem(c)
  PROVE  DosListas
PROOF
  <1> DEFINE L == cpu[c].lista
  <1>1. CASE EjecutarMovIn(c)
    <2> DEFINE tam == TamanioRegistro(Instr(c).r)
    <2>1. CASE Falta(c, {Reg(c)["SI"]}, tam)
      BY <2>1, FaltaListas
    <2>2. ASSUME NEW df, Terminar(c, UltimaLista(L, df, tam, Actual))
          PROVE  DosListas
      BY <2>2, ListaDeAcceso, ListaQueda
    <2>3. ASSUME NEW df, NEW r, Continuar(c, r, UltimaLista(L, df, tam, Actual)),
                 sticks' = sticks
          PROVE  DosListas
      BY <2>3, ListaDeAcceso, ListaQueda
    <2> QED
      BY <1>1, <2>1, <2>2, <2>3 DEF EjecutarMovIn, memVars
  <1>2. CASE EjecutarMovOut(c)
    <2> DEFINE tam == TamanioRegistro(Instr(c).r)
    <2>1. CASE Falta(c, {Reg(c)["DI"]}, tam)
      BY <2>1, FaltaListas
    <2>2. ASSUME NEW df, Terminar(c, UltimaLista(L, df, tam, Actual))
          PROVE  DosListas
      BY <2>2, ListaDeAcceso, ListaQueda
    <2>3. ASSUME NEW df, NEW r, Continuar(c, r, UltimaLista(L, df, tam, Actual)),
                 sticks' = sticks
          PROVE  DosListas
      BY <2>3, ListaDeAcceso, ListaQueda
    <2> QED
      BY <1>2, <2>1, <2>2, <2>3 DEF EjecutarMovOut
  <1>3. CASE EjecutarCopyMem(c)
    <2> DEFINE tam == Reg(c)[Instr(c).r]
               media(df) == UltimaLista(L, df, tam, Actual)
               lista(df, dg) == UltimaLista(media(df), dg, tam, Actual)
    <2>1. ASSUME NEW r, Continuar(c, r, L), sticks' = sticks
          PROVE  DosListas
      BY <2>1, ListaQueda
    <2>2. CASE Falta(c, {Reg(c)["SI"], Reg(c)["DI"]}, tam)
      BY <2>2, FaltaListas
    <2>3. \A df : media(df) \in {L, Actual}
      BY ListaDeAcceso
    <2>4. \A df, dg : lista(df, dg) \in {L, Actual}
      BY <2>3, ListaDeAcceso
    <2>5. ASSUME NEW df, Terminar(c, media(df))
          PROVE  DosListas
      BY <2>3, <2>5, ListaQueda
    <2>6. ASSUME NEW df, NEW dg, Terminar(c, lista(df, dg))
          PROVE  DosListas
      BY <2>4, <2>6, ListaQueda
    <2>7. ASSUME NEW df, NEW dg, NEW r, Continuar(c, r, lista(df, dg)), sticks' = sticks
          PROVE  DosListas
      BY <2>4, <2>7, ListaQueda
    <2> QED
      BY <1>3, <2>1, <2>2, <2>5, <2>6, <2>7 DEF EjecutarCopyMem, memVars
  <1> QED
    BY <1>1, <1>2, <1>3

\* Every step of a CPU and every answer of the Kernel Memory to it.
LEMMA PasoListas ==
  ASSUME Forma, NEW c \in Cpus, PasoCpu(c) \/ PasoMemoria(c)
  PROVE  DosListas
PROOF
  <1> DEFINE Guarda ==
        sticks' = sticks /\ \A d \in Cpus : cpu'[d].lista = cpu[d].lista
  <1>1. Guarda => DosListas
    BY DEF DosListas
  <1>2. Terminar(c, cpu[c].lista) => DosListas
    BY ListaQueda
  <1>3. Soltar(c) /\ sticks' = sticks => Guarda
    BY DEF Forma, Soltar, Libre
  <1>4. \A r : Continuar(c, r, cpu[c].lista) /\ sticks' = sticks => DosListas
    BY ListaQueda
  <1>5. \A x : PedirYEsperar(c, x) => Guarda
    BY DEF Forma, PedirYEsperar, memVars
  <1>6. \A x : Bloquear(c, x) => Guarda
    BY <1>3 DEF Bloquear, memVars
  <1>7. \A e : Responde(c, e) /\ sticks' = sticks => Guarda
    BY DEF Forma, Responde
  <1>8. \A p \in Pids : Despachar(c, p) => Guarda
    BY DEF Forma, Despachar, memVars
  <1>9. ObtenerContexto(c) \/ NoInterrumpir(c) \/ PedirCompactar(c) => Guarda
    BY DEF Forma, ObtenerContexto, NoInterrumpir, PedirCompactar, memVars
  <1>10. Interrumpir(c) => Guarda
    BY <1>3 DEF Interrumpir, memVars
  <1> HIDE DEF Guarda
  <1>11. CASE Ejecutar(c)
    <2>1. EjecutarComun(c) => DosListas
      BY <1>4 DEF EjecutarComun, memVars
    <2>2. EjecutarExit(c) => DosListas
      BY <1>2 DEF EjecutarExit
    <2>3. EjecutarSyscallMemoria(c) => DosListas
      BY <1>1, <1>5 DEF EjecutarSyscallMemoria
    <2>4. EjecutarSleep(c) => DosListas
      BY <1>1, <1>6 DEF EjecutarSleep
    <2>5. EjecutarDatos(c) => DosListas
      BY <1>1, <1>4, <1>6, FaltaListas DEF EjecutarDatos, memVars
    <2> QED
      BY <1>11, <2>1, <2>2, <2>3, <2>4, <2>5, AccesoListas DEF Ejecutar
  <1>12. CASE PasoCpu(c)
    BY <1>1, <1>8, <1>9, <1>10, <1>11, <1>12 DEF PasoCpu
  <1>13. CASE PasoMemoria(c)
    <2>1. SegmentoCrear(c) => Guarda
      BY <1>7 DEF SegmentoCrear, memVars
    <2>2. SegmentoError(c) => DosListas
      BY <1>2 DEF SegmentoError
    <2>3. SegmentoEliminar(c) => DosListas
      BY <1>1, <1>2, <1>7 DEF SegmentoEliminar, memVars
    <2>4. Compactar(c) => Guarda
      BY <1>7 DEF Compactar
    <2> QED
      BY <1>1, <1>9, <1>13, <2>1, <2>2, <2>3, <2>4 DEF PasoMemoria
  <1> QED
    BY <1>12, <1>13

\* The sticks never leave; those of a list have numbers.
CacheInv ==
  /\ Inv /\ sticks \in Nat
  /\ \A c \in Cpus : \A e \in cpu[c].lista : e.stick \in Nat
  /\ CacheFiel

\* Every step keeps the lists faithful.
LEMMA CacheConserva ==
  ASSUME CacheInv, [Next]_vars
  PROVE  CacheInv'
PROOF
  <1> DEFINE Fiel(n) ==
        \A c \in Cpus : \A e \in cpu'[c].lista :
          e.stick \in Nat /\ e.stick <= n /\ e.base = Base[e.stick]
  <1>1. Inv' /\ Forma
    BY InvConserva DEF CacheInv, Inv
  <1>2. SUFFICES sticks' \in Nat /\ Fiel(sticks')
    BY <1>1 DEF CacheInv, CacheFiel
  <1>3. ASSUME DosListas
        PROVE  sticks' \in Nat /\ Fiel(sticks')
    BY <1>3 DEF CacheInv, CacheFiel, DosListas, Actual, ActualizarMemorySticks
  <1>4. CASE \E c \in Cpus : PasoCpu(c) \/ PasoMemoria(c)
    <2>1. PICK c \in Cpus : PasoCpu(c) \/ PasoMemoria(c)
      BY <1>4
    <2>2. DosListas
      BY <1>1, <2>1, PasoListas
    <2> QED
      BY <1>3, <2>2
  <1>5. CASE \E p \in Pids : PasoProceso(p)
    <2>1. cpu' = cpu /\ sticks' = sticks
      BY <1>5
      DEF PasoProceso, FinSleep, FinStdin, FinStdout, KsCae, Suspender,
          ProcesoSuspender, Dessuspender, memVars
    <2>2. DosListas
      BY <2>1 DEF DosListas
    <2> QED
      BY <1>3, <2>2
  <1>6. CASE PasoStick
    <2>1. sticks' \in {sticks, sticks + 1} /\ cpu' = cpu
      BY <1>6 DEF PasoStick, Conectar, Escuchar
    <2>2. sticks' \in Nat /\ sticks <= sticks'
      BY <2>1 DEF CacheInv
    <2> QED
      BY <2>1, <2>2 DEF CacheInv, CacheFiel
  <1>7. CASE UNCHANGED vars
    <2>1. DosListas
      BY <1>7 DEF vars, DosListas
    <2> QED
      BY <1>3, <2>1
  <1> QED
    BY <1>4, <1>5, <1>6, <1>7 DEF Next

\* A CPU translates a physical address to the stick and the byte the Kernel Memory
\* means by it, whatever sticks answered when it asked for the list, and whether or
\* not another one has connected since (actualizar_memory_sticks).
THEOREM MismasDirecciones == Spec => []CacheFiel
PROOF
  <1>1. Init => CacheInv
    <2> SUFFICES ASSUME Init PROVE CacheInv
      OBVIOUS
    <2>1. \A c \in Cpus : cpu[c].lista = ActualizarMemorySticks(1, escuchan)
      BY DEF Init, Libre
    <2>2. sticks = 1
      BY DEF Init
    <2>3. CacheFiel /\ \A c \in Cpus : \A e \in cpu[c].lista : e.stick \in Nat
      BY <2>1, <2>2 DEF CacheFiel, ActualizarMemorySticks
    <2> QED
      BY <2>2, <2>3, InvInicial DEF CacheInv
  <1>2. CacheInv /\ [Next]_vars => CacheInv'
    BY CacheConserva
  <1>3. CacheInv => CacheFiel
    BY DEF CacheInv
  <1> QED
    BY <1>1, <1>2, <1>3, PTL DEF Spec

-----------------------------------------------------------------------------
(* What the MMU (cpu/src/mmu.c) guarantees of an address that it accepts.   *)
(*                                                                          *)
(* The arithmetic of a word of BytesPalabra bytes is taken from Byte ^      *)
(* BytesPalabra only through its being positive, which is an assumption of  *)
(* each lemma: powers are defined by induction.                             *)

Tabla == Seq([id : Nat, base : Nat, limite : Nat])

\* The segments are in the memory that a word can address.
Direccionable(tabla) ==
  \A i \in DOMAIN tabla : tabla[i].base + tabla[i].limite <= Palabra

\* An access of tam bytes at df is in segment i.
Dentro(tabla, i, df, tam) ==
  tabla[i].base <= df /\ df + tam <= tabla[i].base + tabla[i].limite

\* The fields of a segment of a table are numbers.
LEMMA SegmentoDeTabla ==
  ASSUME NEW tabla \in Tabla, NEW i \in DOMAIN tabla
  PROVE  /\ i \in Nat
         /\ tabla[i].base \in Nat /\ tabla[i].limite \in Nat
PROOF
  <1>1. tabla \in Seq([id : Nat, base : Nat, limite : Nat])
    BY DEF Tabla
  <1>2. i \in 1 .. Len(tabla) /\ Len(tabla) \in Nat
    BY <1>1, LenProperties
  <1>3. tabla[i] \in [id : Nat, base : Nat, limite : Nat]
    BY <1>1, <1>2, ElementOfSeq
  <1> QED
    BY <1>2, <1>3

\* The offset that direccion_logica % tamanio_maximo_segmento leaves.
LEMMA Desplazamiento ==
  ASSUME NEW dl \in Nat
  PROVE  /\ dl % TamMaxSegmento \in 0 .. TamMaxSegmento - 1
         /\ dl \div TamMaxSegmento \in Nat
<1>1. TamMaxSegmento \in Nat \ {0}
  BY MmuOK
<1>2. dl % TamMaxSegmento \in 0 .. TamMaxSegmento - 1
  BY <1>1, SMTT(30)
<1>3. dl \div TamMaxSegmento \in Nat
  BY <1>1, SMTT(30)
<1>4. QED
  BY <1>2, <1>3

\* A sum of a word that is not larger than the word is not changed by its width.
LEMMA SinVuelta ==
  ASSUME NEW x \in Nat, NEW n \in Nat \ {0}, x < n
  PROVE  x % n = x
  OBVIOUS

\* traducir_direccion adds in a word before it compares with the limit: as long as
\* the sum of an offset and a size fits in the word, which it does for the sizes
\* of the registers, an address that is accepted is in the segment the program
\* named, with all its bytes.
THEOREM AccesoDentro ==
  ASSUME Palabra \in Nat \ {0},
         NEW tabla \in Tabla, Direccionable(tabla),
         NEW dl \in Palabras,
         NEW tam \in Nat \ {0}, TamMaxSegmento - 1 + tam < Palabra,
         NEW df \in Traducir(tabla, dl, tam)
  PROVE  \E i \in BuscarSegmento(tabla, dl \div TamMaxSegmento) : Dentro(tabla, i, df, tam)
PROOF
  <1> DEFINE desp == dl % TamMaxSegmento
  <1>1. desp \in 0 .. TamMaxSegmento - 1
    BY Desplazamiento DEF Palabras
  <1>2. PICK i \in BuscarSegmento(tabla, dl \div TamMaxSegmento) :
          /\ (desp + tam) % Palabra <= tabla[i].limite
          /\ df = (tabla[i].base + desp) % Palabra
    BY DEF Traducir
  <1>3. /\ i \in DOMAIN tabla
        /\ tabla[i].base \in Nat /\ tabla[i].limite \in Nat
        /\ tabla[i].base + tabla[i].limite <= Palabra
    <2>1. i \in DOMAIN tabla
      BY DEF BuscarSegmento
    <2> QED
      BY <2>1, SegmentoDeTabla DEF Direccionable
  <1> HIDE DEF desp
  <1>4. desp + tam < Palabra
    BY <1>1, MmuOK
  <1>5. desp + tam <= tabla[i].limite
    <2>1. desp + tam \in Nat
      BY <1>1, MmuOK
    <2>2. (desp + tam) % Palabra = desp + tam
      BY <2>1, <1>4, SinVuelta
    <2> QED
      BY <1>2, <2>2
  <1>6. tabla[i].base + desp < Palabra
    BY <1>1, <1>3, <1>5, MmuOK
  <1>7. df = tabla[i].base + desp
    <2>1. tabla[i].base + desp \in Nat
      BY <1>1, <1>3, MmuOK
    <2> QED
      BY <1>2, <1>6, <2>1, SinVuelta
  <1>8. Dentro(tabla, i, df, tam)
    BY <1>1, <1>3, <1>5, <1>7, MmuOK DEF Dentro
  <1> QED
    BY <1>2, <1>8

\* A physical address is a number.
LEMMA DireccionNatural ==
  ASSUME Palabra \in Nat \ {0}, NEW tabla \in Tabla, NEW dl \in Palabras,
         NEW tam \in Nat, NEW df \in Traducir(tabla, dl, tam)
  PROVE  df \in Nat
PROOF
  <1>1. PICK i \in BuscarSegmento(tabla, dl \div TamMaxSegmento) :
          df = (tabla[i].base + (dl % TamMaxSegmento)) % Palabra
    BY DEF Traducir
  <1>2. i \in DOMAIN tabla
    BY DEF BuscarSegmento
  <1>3. tabla[i].base \in Nat
    BY <1>2, SegmentoDeTabla
  <1>4. dl % TamMaxSegmento \in Nat
    BY Desplazamiento DEF Palabras
  <1> QED
    BY <1>1, <1>3, <1>4

\* buscar_segmento_por_id finds one segment at most.
LEMMA SegmentoUnico ==
  ASSUME NEW tabla \in Tabla, NEW id \in Nat,
         NEW i \in BuscarSegmento(tabla, id), NEW j \in BuscarSegmento(tabla, id)
  PROVE  i = j
PROOF
  <1>1. i \in DOMAIN tabla /\ j \in DOMAIN tabla
    BY DEF BuscarSegmento
  <1>2. i \in 1 .. Len(tabla) /\ j \in 1 .. Len(tabla) /\ Len(tabla) \in Nat
    BY <1>1, LenProperties DEF Tabla
  <1>3. i \notin 1 .. j - 1 /\ j \notin 1 .. i - 1
    BY DEF BuscarSegmento
  <1> QED
    BY <1>2, <1>3

\* buscar_segmento_por_id stops at the first segment of the id, so that an access
\* has one physical address at most, even if a table has two segments of one id.
THEOREM DireccionUnica ==
  ASSUME NEW tabla \in Tabla, NEW dl \in Palabras, NEW tam \in Nat,
         NEW df \in Traducir(tabla, dl, tam), NEW dg \in Traducir(tabla, dl, tam)
  PROVE  df = dg
PROOF
  <1>1. PICK i \in BuscarSegmento(tabla, dl \div TamMaxSegmento) :
          df = (tabla[i].base + (dl % TamMaxSegmento)) % Palabra
    BY DEF Traducir
  <1>2. PICK j \in BuscarSegmento(tabla, dl \div TamMaxSegmento) :
          dg = (tabla[j].base + (dl % TamMaxSegmento)) % Palabra
    BY DEF Traducir
  <1>3. dl \div TamMaxSegmento \in Nat
    BY Desplazamiento DEF Palabras
  <1>4. i = j
    BY <1>3, SegmentoUnico
  <1> QED
    BY <1>1, <1>2, <1>4

\* Tables whose segments have no byte in common.
Ajenas(t, u) ==
  \A i \in DOMAIN t, j \in DOMAIN u :
    \/ t[i].base + t[i].limite <= u[j].base
    \/ u[j].base + u[j].limite <= t[i].base

\* Two processes whose segments the Kernel Memory keeps apart never reach the same
\* byte, whatever addresses their programs use: the check of mmu.c is enough to
\* keep them apart, as long as its sum fits in the word.
THEOREM AccesosAjenos ==
  ASSUME Palabra \in Nat \ {0},
         NEW t \in Tabla, Direccionable(t), NEW u \in Tabla, Direccionable(u), Ajenas(t, u),
         NEW dl \in Palabras, NEW tam \in Nat \ {0}, TamMaxSegmento - 1 + tam < Palabra,
         NEW dm \in Palabras, NEW tan \in Nat \ {0}, TamMaxSegmento - 1 + tan < Palabra,
         NEW df \in Traducir(t, dl, tam), NEW dg \in Traducir(u, dm, tan),
         NEW k \in 0 .. tam - 1, NEW l \in 0 .. tan - 1
  PROVE  df + k # dg + l
PROOF
  <1>1. PICK i \in BuscarSegmento(t, dl \div TamMaxSegmento) : Dentro(t, i, df, tam)
    BY AccesoDentro
  <1>2. PICK j \in BuscarSegmento(u, dm \div TamMaxSegmento) : Dentro(u, j, dg, tan)
    BY AccesoDentro
  <1>3. i \in DOMAIN t /\ j \in DOMAIN u
    BY DEF BuscarSegmento
  <1>4. /\ t[i].base \in Nat /\ t[i].limite \in Nat
        /\ u[j].base \in Nat /\ u[j].limite \in Nat
    BY <1>3, SegmentoDeTabla
  <1>6. df \in Nat /\ dg \in Nat
    BY DireccionNatural
  <1>5. \/ t[i].base + t[i].limite <= u[j].base
        \/ u[j].base + u[j].limite <= t[i].base
    BY <1>3 DEF Ajenas
  <1> QED
    BY <1>1, <1>2, <1>4, <1>5, <1>6 DEF Dentro

\* There is a stick, and a word can address all of them with a segment more, and the end
\* of a register that begins at the last byte of a segment.  The first two conjuncts
\* define the powers of Byte.
Anchos ==
  /\ Byte ^ 0 = 1
  /\ \A k \in Nat : Byte ^ (k + 1) = Byte * Byte ^ k
  /\ Total + TamMaxSegmento <= Palabra /\ TamSticks # <<>>
  /\ TamMaxSegmento + BytesPalabra <= Palabra

\* Where each stick begins: the sizes of those before it (actualizar_memory_sticks,
\* memory_stick_agregar).
LEMMA BasesPasoAPaso ==
  /\ Base \in [1 .. Len(TamSticks) + 1 -> Nat]
  /\ Base[1] = 0
  /\ \A s \in 1 .. Len(TamSticks) : Base[s + 1] = Base[s] + TamSticks[s] /\ TamSticks[s] \in Nat
<1> DEFINE n == Len(TamSticks)
           f == [s \in 1 .. n + 1 |-> Sumas(TamSticks)[s - 1]]
<1>1. TamSticks \in Seq(Nat) /\ n \in Nat /\ \A s \in 1 .. n : TamSticks[s] \in Nat
  <2>1. TamSticks \in Seq(Nat \ {0})
    BY MmuOK
  <2>2. DOMAIN TamSticks = 1 .. n /\ n \in Nat /\ \A s \in 1 .. n : TamSticks[s] \in Nat
    BY <2>1
  <2>3. QED
    BY <2>1, <2>2
<1>2. /\ Sumas(TamSticks) \in [0 .. n -> Nat]
      /\ Sumas(TamSticks)[0] = 0
      /\ \A k \in 1 .. n : Sumas(TamSticks)[k] = Sumas(TamSticks)[k - 1] + TamSticks[k]
  BY <1>1, SumasPasoAPaso
<1> DEFINE Cuerpo(g) == [s \in 1 .. n + 1 |-> IF s = 1 THEN 0 ELSE g[s - 1] + TamSticks[s - 1]]
<1>3. f = Cuerpo(f)
  <2>1. ASSUME NEW s \in 1 .. n + 1 PROVE f[s] = Cuerpo(f)[s]
    <3>1. CASE s = 1
      BY <1>1, <1>2, <3>1
    <3>2. CASE s # 1
      <4>1. s - 1 \in 1 .. n /\ s - 1 \in 1 .. n + 1
        BY <1>1, <3>2
      <4>2. Sumas(TamSticks)[s - 1] = Sumas(TamSticks)[s - 1 - 1] + TamSticks[s - 1]
        BY <1>2, <4>1
      <4>3. QED
        BY <3>2, <4>1, <4>2
    <3>3. QED
      BY <3>1, <3>2
  <2>2. QED
    BY <2>1
<1>4. Base = CHOOSE g : g = Cuerpo(g)
  BY DEF Base
<1> HIDE DEF f, Cuerpo
<1>5. Base = Cuerpo(Base)
  BY <1>3, <1>4
<1>6. /\ DOMAIN Base = 1 .. n + 1
      /\ \A s \in 1 .. n + 1 : Base[s] = IF s = 1 THEN 0 ELSE Base[s - 1] + TamSticks[s - 1]
  BY <1>5 DEF Cuerpo
<1>7. \A s \in 1 .. n : Base[s + 1] = Base[s] + TamSticks[s]
  <2>1. TAKE s \in 1 .. n
  <2>2. s + 1 \in 1 .. n + 1 /\ s + 1 # 1 /\ s + 1 - 1 = s
    BY <1>1
  <2>3. Base[s + 1] = Base[s + 1 - 1] + TamSticks[s + 1 - 1]
    BY <1>6, <2>2
  <2>4. QED
    BY <2>2, <2>3
<1>8. Base[1] = 0
  BY <1>1, <1>6
<1> DEFINE B == {k \in 0 .. n : Base[k + 1] \in Nat}
<1>9. 0 .. n \subseteq B
  <2>1. 0 \in B
    BY <1>1, <1>8
  <2>2. ASSUME NEW k \in 0 .. n - 1, k \in B PROVE k + 1 \in B
    <3>1. k + 1 \in 1 .. n /\ Base[k + 1] \in Nat
      BY <1>1, <2>2
    <3>2. Base[k + 1 + 1] = Base[k + 1] + TamSticks[k + 1]
      BY <1>7, <3>1
    <3>3. QED
      BY <1>1, <3>1, <3>2
  <2> HIDE DEF B
  <2>3. QED
    BY <1>1, <2>1, <2>2, InduccionHasta
<1>10. \A s \in 1 .. n + 1 : Base[s] \in Nat
  <2>1. TAKE s \in 1 .. n + 1
  <2>2. s - 1 \in 0 .. n /\ s - 1 + 1 = s
    BY <1>1
  <2>3. Base[s - 1 + 1] \in Nat
    BY <1>9, <2>2
  <2>4. QED
    BY <2>2, <2>3
<1>11. Base \in [1 .. n + 1 -> Nat]
  <2>1. Base = [s \in 1 .. n + 1 |-> Base[s]]
    BY <1>5, <1>6 DEF Cuerpo
  <2>2. QED
    BY <1>10, <2>1
<1>12. QED
  BY <1>1, <1>7, <1>8, <1>11

\* More sticks, more memory.
LEMMA BaseCrece ==
  ASSUME NEW s \in 1 .. Len(TamSticks) + 1, NEW t \in 1 .. Len(TamSticks) + 1, s <= t
  PROVE  /\ Base[s] \in Nat /\ Base[t] \in Nat /\ Total \in Nat
         /\ Base[s] <= Base[t] /\ Base[t] <= Total
<1> DEFINE n == Len(TamSticks)
<1>1. n \in Nat
  BY MmuOK
<1>2. ASSUME NEW a \in 1 .. n + 1, NEW b \in 1 .. n + 1, a <= b
      PROVE  Base[a] <= Base[b]
  <2> DEFINE B == {k \in 0 .. n + 1 - a : Base[a] <= Base[a + k]}
  <2>1. 0 \in B
    BY <1>1, BasesPasoAPaso
  <2>2. ASSUME NEW k \in 0 .. n + 1 - a - 1, k \in B PROVE k + 1 \in B
    <3>1. a + k \in 1 .. n /\ a + (k + 1) = a + k + 1 /\ a + k + 1 \in 1 .. n + 1
          /\ a + k \in 1 .. n + 1
      BY <1>1
    <3>2. Base[a + k + 1] = Base[a + k] + TamSticks[a + k] /\ TamSticks[a + k] \in Nat
          /\ Base[a] \in Nat /\ Base[a + k] \in Nat
      <4> HIDE DEF B
      <4>1. QED
        BY <3>1, BasesPasoAPaso
    <3>3. Base[a] <= Base[a + k]
      BY <2>2
    <3>4. Base[a] <= Base[a + k + 1]
      BY <3>2, <3>3
    <3>5. QED
      BY <1>1, <3>1, <3>4
  <2>3. 0 .. n + 1 - a \subseteq B
    <3>1. PICK m \in Nat : m = n + 1 - a
      BY <1>1
    <3> HIDE DEF B
    <3>2. \A k \in 0 .. m - 1 : k \in B => k + 1 \in B
      BY <2>2, <3>1
    <3>3. 0 .. m \subseteq B
      BY <2>1, <3>1, <3>2, InduccionHasta
    <3>4. QED
      BY <3>1, <3>3
  <2>4. b - a \in 0 .. n + 1 - a /\ a + (b - a) = b
    BY <1>1, <1>2
  <2>5. Base[a] <= Base[a + (b - a)]
    BY <2>3, <2>4
  <2>6. QED
    BY <2>4, <2>5
<1>3. n + 1 \in 1 .. n + 1 /\ t <= n + 1 /\ Total = Base[n + 1]
  BY <1>1 DEF Total
<1>4. QED
  BY <1>1, <1>2, <1>3, BasesPasoAPaso

-----------------------------------------------------------------------------
(* Registers.                                                               *)

\* A product with a positive number is not smaller.
LEMMA ProductoCrece ==
  ASSUME NEW b \in Nat \ {0}, NEW x \in Nat \ {0}
  PROVE  b * x \in Nat \ {0} /\ b <= b * x
<1>1. b * x = b + b * (x - 1) /\ b * (x - 1) \in Nat
  <2>1. PICK y \in Nat : x = y + 1
    <3>1. x - 1 \in Nat /\ x = (x - 1) + 1
      OBVIOUS
    <3>2. QED
      BY <3>1
  <2>2. b * (y + 1) = b + b * y /\ b * y \in Nat /\ y + 1 - 1 = y
    OBVIOUS
  <2>3. QED
    BY <2>1, <2>2
<1>2. QED
  BY <1>1

\* Powers are positive, and a word is not smaller than a byte.
LEMMA Potencias ==
  ASSUME Anchos
  PROVE  /\ \A k \in Nat : Byte ^ k \in Nat \ {0}
         /\ Palabra \in Nat \ {0} /\ Byte \in Nat \ {0} /\ Byte <= Palabra
         /\ BytesPalabra \in Nat \ {0}
<1>1. Byte \in Nat \ {0} /\ BytesPalabra \in Nat \ {0}
  BY AnchosOK
<1>2. ASSUME NEW n \in Nat PROVE Byte ^ n \in Nat \ {0}
  <2> DEFINE B == {k \in 0 .. n : Byte ^ k \in Nat \ {0}}
  <2>1. 0 \in B
    BY DEF Anchos
  <2>2. ASSUME NEW k \in 0 .. n - 1, k \in B PROVE k + 1 \in B
    <3>1. k \in Nat /\ k + 1 \in 0 .. n
      OBVIOUS
    <3>2. Byte ^ k \in Nat \ {0} /\ Byte ^ (k + 1) = Byte * Byte ^ k
      BY <2>2, <3>1 DEF Anchos
    <3>3. Byte * Byte ^ k \in Nat \ {0}
      BY <1>1, <3>2, ProductoCrece
    <3>4. QED
      BY <3>1, <3>2, <3>3
  <2> HIDE DEF B
  <2>3. 0 .. n \subseteq B
    BY <2>1, <2>2, InduccionHasta
  <2>4. QED
    BY <2>3 DEF B
<1>3. Byte <= Palabra /\ Palabra \in Nat \ {0}
  <2>1. PICK k \in Nat : BytesPalabra = k + 1
    <3>1. BytesPalabra - 1 \in Nat /\ BytesPalabra = BytesPalabra - 1 + 1
      BY <1>1
    <3>2. QED
      BY <3>1
  <2>2. Palabra = Byte * Byte ^ k
    BY <2>1 DEF Anchos, Palabra
  <2>3. QED
    BY <1>1, <1>2, <2>2, ProductoCrece
<1>4. QED
  BY <1>1, <1>2, <1>3

\* A word can address the sticks, and a segment behind their last byte.
LEMMA TotalCabe ==
  ASSUME Anchos
  PROVE  /\ Total \in Nat /\ Total + TamMaxSegmento <= Palabra /\ Total <= Palabra
         /\ Palabra \in Nat \ {0} /\ TamMaxSegmento \in Nat \ {0}
<1>1. Total \in Nat
  <2>1. 1 \in 1 .. Len(TamSticks) + 1
    BY MmuOK
  <2>2. QED
    BY <2>1, BaseCrece
<1>2. TamMaxSegmento \in Nat \ {0} /\ Total + TamMaxSegmento <= Palabra
  BY MmuOK DEF Anchos
<1>3. Palabra \in Nat \ {0}
  BY Potencias
<1>4. QED
  BY <1>1, <1>2, <1>3

\* What a register holds: a word, or a byte.
LEMMA RegistroValor ==
  ASSUME Anchos, NEW regs \in Registro
  PROVE  /\ DOMAIN regs = Nombre
         /\ \A r \in Nombre : regs[r] \in Nat /\ regs[r] \in Palabras
BY Potencias DEF Registro, Palabras

\* All the registers are zero at the beginning.
LEMMA EnCeroTipo ==
  ASSUME Anchos
  PROVE  EnCero \in Registro
<1>1. 0 \in Palabras /\ 0 \in Bytes
  BY Potencias DEF Palabras, Bytes
<1>2. DeUnByte \subseteq Nombre
  BY DEF Nombre
<1>3. QED
  BY <1>1, <1>2 DEF EnCero, Registro

\* A register of one byte keeps a byte, one of a word a word (setear_valor_registro).
LEMMA SetearTipo ==
  ASSUME Anchos, NEW regs \in Registro, NEW r \in Nombre, NEW v \in Int
  PROVE  Setear(regs, r, v) \in Registro
<1> DEFINE w == IF r \in DeUnByte THEN Byte ELSE Palabra
<1>1. w \in Nat \ {0} /\ w <= Palabra
  BY Potencias
<1>2. v % w \in 0 .. w - 1
  BY <1>1
<1>3. v % w \in Palabras /\ (r \in DeUnByte => v % w \in Bytes)
  <2>1. v % w \in Palabras
    BY <1>1, <1>2, Potencias DEF Palabras
  <2>2. r \in DeUnByte => v % w \in Bytes
    BY <1>2 DEF Bytes
  <2>3. QED
    BY <2>1, <2>2
<1> HIDE DEF w
<1>4. Setear(regs, r, v) = [regs EXCEPT ![r] = v % w]
  BY DEF Setear, w
<1>5. DeUnByte \subseteq Nombre /\ regs \in [Nombre -> Palabras]
      /\ \A n \in DeUnByte : regs[n] \in Bytes
  BY DEF Nombre, Registro
<1>6. /\ Setear(regs, r, v) \in [Nombre -> Palabras]
      /\ \A n \in DeUnByte : Setear(regs, r, v)[n] \in Bytes
  BY <1>3, <1>4, <1>5
<1>7. QED
  BY <1>6 DEF Registro

\* PC++ leaves registers.
LEMMA AvanzarTipo ==
  ASSUME Anchos, NEW regs \in Registro
  PROVE  Avanzar(regs) \in Registro
<1>1. "PC" \in Nombre
  BY DEF Nombre, DeUnaPalabra
<1>2. regs["PC"] + 1 \in Int
  BY <1>1, RegistroValor
<1>3. QED
  BY <1>1, <1>2, SetearTipo DEF Avanzar

\* NOOP, SET, SUM, SUB and JNZ leave registers.
LEMMA ComunTipo ==
  ASSUME Anchos, NEW regs \in Registro, NEW i, i.op \in Comunes,
         i.r \in Nombre, i.s \in Nombre, i.v \in Nat
  PROVE  Comun(regs, i) \in Registro
<1>1. "PC" \in Nombre
  BY DEF Nombre, DeUnaPalabra
<1>2. regs[i.r] \in Nat /\ regs[i.s] \in Nat
  BY RegistroValor
<1>3. CASE i.op = "NOOP"
  <2>1. Comun(regs, i) = Avanzar(regs)
    BY <1>3 DEF Comun
  <2>2. QED
    BY <2>1, AvanzarTipo
<1>4. CASE i.op = "SET"
  <2>1. Comun(regs, i) = IF i.r = "PC" THEN Setear(regs, "PC", i.v)
                                       ELSE Avanzar(Setear(regs, i.r, i.v))
    BY <1>4 DEF Comun
  <2>2. Setear(regs, "PC", i.v) \in Registro /\ Setear(regs, i.r, i.v) \in Registro
    BY <1>1, SetearTipo
  <2>3. QED
    BY <2>1, <2>2, AvanzarTipo
<1>5. CASE i.op = "SUM"
  <2>1. Comun(regs, i) = Avanzar(Setear(regs, i.r, regs[i.r] + regs[i.s]))
    BY <1>5 DEF Comun
  <2>2. Setear(regs, i.r, regs[i.r] + regs[i.s]) \in Registro
    BY <1>2, SetearTipo
  <2>3. QED
    BY <2>1, <2>2, AvanzarTipo
<1>6. CASE i.op = "SUB"
  <2>1. Comun(regs, i) = Avanzar(Setear(regs, i.r, regs[i.r] - regs[i.s]))
    BY <1>6 DEF Comun
  <2>2. Setear(regs, i.r, regs[i.r] - regs[i.s]) \in Registro
    BY <1>2, SetearTipo
  <2>3. QED
    BY <2>1, <2>2, AvanzarTipo
<1>7. CASE i.op = "JNZ"
  <2>1. Comun(regs, i) = IF regs[i.r] # 0 THEN Setear(regs, "PC", i.v) ELSE Avanzar(regs)
    BY <1>7 DEF Comun
  <2>2. Setear(regs, "PC", i.v) \in Registro
    BY <1>1, SetearTipo
  <2>3. QED
    BY <2>1, <2>2, AvanzarTipo
<1>8. QED
  BY <1>3, <1>4, <1>5, <1>6, <1>7 DEF Comunes

\* The bytes of a word are bytes.
LEMMA EnBytesTipo ==
  ASSUME Anchos, NEW v \in Nat, NEW n \in Nat
  PROVE  EnBytes(v, n) \in [1 .. n -> Bytes]
<1>1. ASSUME NEW i \in 1 .. n
      PROVE  (v \div Byte ^ (i - 1)) % Byte \in Bytes
  <2>1. PICK x \in Nat \ {0} : x = Byte ^ (i - 1)
    <3>1. i - 1 \in Nat
      OBVIOUS
    <3>2. QED
      BY <3>1, Potencias
  <2>2. v \div x \in Nat
    BY <2>1
  <2>3. (v \div x) % Byte \in 0 .. Byte - 1
    BY <2>2, Potencias
  <2>4. QED
    BY <2>1, <2>3 DEF Bytes
<1>2. QED
  BY <1>1 DEF EnBytes

\* Some bytes make a number.
LEMMA DeBytesTipo ==
  ASSUME Anchos, NEW n \in Nat, NEW b \in [1 .. n -> Bytes]
  PROVE  DeBytes(b) \in Nat
<1>1. b \in Seq(Bytes) /\ Len(b) = n
  BY FuncionEsSeq
<1> DEFINE a == [i \in 1 .. n |-> b[i] * Byte ^ (i - 1)]
<1>2. \A i \in 1 .. n : b[i] \in Nat /\ b[i] * Byte ^ (i - 1) \in Nat
  <2>1. TAKE i \in 1 .. n
  <2>2. b[i] \in Nat
    <3>1. Bytes \subseteq Nat
      BY Potencias DEF Bytes
    <3>2. QED
      BY <3>1
  <2>3. i - 1 \in Nat
    OBVIOUS
  <2>4. Byte ^ (i - 1) \in Nat
    BY <2>3, Potencias
  <2>5. QED
    BY <2>2, <2>4
<1>3. a \in [1 .. n -> Nat]
  BY <1>2
<1>4. a \in Seq(Nat) /\ Len(a) = n
  <2> HIDE DEF a
  <2>1. QED
    BY <1>3, FuncionEsSeq
<1>5. Sumas(a) = CHOOSE s : s = [k \in 0 .. Len(a) |-> IF k = 0 THEN 0 ELSE s[k - 1] + a[k]]
  BY DEF Sumas
<1>6. \A s : [k \in 0 .. Len(a) |-> IF k = 0 THEN 0 ELSE s[k - 1] + a[k]]
             = [k \in 0 .. Len(b) |-> IF k = 0 THEN 0 ELSE s[k - 1] + b[k] * Byte ^ (k - 1)]
  <2>1. TAKE s
  <2>2. ASSUME NEW k \in 0 .. n
        PROVE  (IF k = 0 THEN 0 ELSE s[k - 1] + a[k])
               = IF k = 0 THEN 0 ELSE s[k - 1] + b[k] * Byte ^ (k - 1)
    <3>1. CASE k = 0
      BY <3>1
    <3>2. CASE k # 0
      <4>1. k \in 1 .. n
        BY <3>2
      <4>2. a[k] = b[k] * Byte ^ (k - 1)
        BY <4>1
      <4>3. QED
        BY <4>2
    <3>3. QED
      BY <3>1, <3>2
  <2> HIDE DEF a
  <2>3. QED
    BY <1>1, <1>4, <2>2
<1>7. DeBytes(b) = Sumas(a)[n]
  <2> DEFINE t == CHOOSE s : s = [k \in 0 .. Len(b) |->
                                    IF k = 0 THEN 0 ELSE s[k - 1] + b[k] * Byte ^ (k - 1)]
  <2>1. DeBytes(b) = t[Len(b)]
    BY DEF DeBytes
  <2> HIDE DEF a
  <2>2. t = Sumas(a)
    BY <1>5, <1>6
  <2>3. QED
    BY <1>1, <2>1, <2>2
<1>8. QED
  <2> HIDE DEF a
  <2>1. Sumas(a) \in [0 .. n -> Nat]
    BY <1>4, SumasPasoAPaso
  <2>2. QED
    BY <1>7, <2>1

SegmentoReal == [id : Nat, base : Nat, limite : 0 .. TamMaxSegmento]
Guardado == [id : Nat, bytes : {b \in Seq(Bytes) : Len(b) \in 0 .. TamMaxSegmento}]
Lista == SUBSET [stick : 1 .. Len(TamSticks), base : 0 .. Total - 1]

\* The requests for memory, and those for a device: of an address that the MMU has
\* accepted, with all its bytes unless the sum wrapped.
PedidosDeMemoria ==
  [op : {"MEM_ALLOC"}, id : Nat, tam : Nat] \cup [op : {"MEM_FREE"}, id : Nat]
PedidosDeDatos ==
  {x \in [op : {"STDIN", "STDOUT"}, dl : Palabras, df : Palabras, tam : Palabras \ {0}] :
     \/ Desborda(x.dl, x.tam)
     \/ (x.dl % TamMaxSegmento) + x.tam <= TamMaxSegmento /\ x.df + x.tam <= Total}
PedidosDeIo == {[op |-> "SLEEP"]} \cup PedidosDeDatos
PedidosReales == {Nada} \cup PedidosDeMemoria \cup PedidosDeIo

ContextoReal ==
  [instrucciones : Programas \cup {<<>>}, registros : Registro, tabla : Seq(SegmentoReal)]
CpuReal ==
  [estado : EstadosCpu, pid : Pids \cup {Nadie}, registros : Registro,
   tabla : Seq(SegmentoReal), lista : Lista]

EstadosProceso == {"READY", "EXEC", "BLOCK", "SUSP_BLOCK", "SUSP_READY", "EXIT"}

Tipos ==
  /\ contextos \in [Pids -> ContextoReal]
  /\ ram \in [0 .. Total - 1 -> Bytes]
  /\ sticks \in 1 .. Len(TamSticks) /\ escuchan \subseteq 1 .. sticks
  /\ swap \in [Pids -> Seq(Guardado)]
  /\ estado \in [Pids -> EstadosProceso]
  /\ pedido \in [Pids -> PedidosReales]
  /\ pantalla \in [Pids -> Seq(Bytes)]
  /\ cpu \in [Cpus -> CpuReal]
  /\ por_suspender \in [Pids -> Nat] /\ movidos \subseteq Pids
  /\ memoria_ajena \in BOOLEAN /\ ks_caido \in BOOLEAN

\* The segments are in the memory of the sticks that there are, and no two of them
\* have a byte in common.
EnMemoria ==
  \A p \in Pids : \A i \in DOMAIN contextos[p].tabla :
    contextos[p].tabla[i].base + contextos[p].tabla[i].limite <= Base[sticks + 1]

Separados ==
  \A p, q \in Pids : \A i \in DOMAIN contextos[p].tabla, j \in DOMAIN contextos[q].tabla :
    p # q \/ i # j => Lugar(contextos[p].tabla[i]) \cap Lugar(contextos[q].tabla[j]) = {}

\* A process that runs or may run waits for nothing.
SinPedido ==
  /\ \A p \in Pids : estado[p] \in {"READY", "SUSP_READY"} => pedido[p] = Nada
  /\ \A c \in Cpus : cpu[c].estado \in {"asignada", "ejecuta", "chequea", "refresca"} =>
       pedido[cpu[c].pid] = Nada

\* One CPU at most waits for a compaction, and what it asked for will fit.
Entrara ==
  \A c \in Cpus : cpu[c].estado = "compacta" =>
    /\ pedido[cpu[c].pid].tam <= TamMaxSegmento
    /\ pedido[cpu[c].pid].tam <= Cardinality(Libres)
    /\ \A d \in Cpus \ {c} : cpu[d].estado # "compacta"

Memoria == Tipos /\ EnMemoria /\ Separados /\ SinPedido /\ Entrara

\* The table of a CPU, even one of before, is of segments in the memory.
TablasDeCpu ==
  \A c \in Cpus : \A i \in DOMAIN cpu[c].tabla :
    cpu[c].tabla[i].base + cpu[c].tabla[i].limite <= Total

\* The table that a CPU executes with has the segments of the process, with the bases
\* of before at worst, or those that have gone to the SWAP meanwhile.
EnteraDe(c) ==
  LET p == cpu[c].pid IN
  \/ Limites(cpu[c].tabla) = Limites(contextos[p].tabla)
  \/ contextos[p].tabla = <<>> /\ Limites(cpu[c].tabla) = LimitesEnSwap(swap[p])

TablaEntera ==
  \A c \in Cpus : cpu[c].estado \in {"ejecuta", "chequea"} => EnteraDe(c)

\* A process with segments in the SWAP is suspended and has none in the memory: unless a
\* suspension was told too late.
EnSwap ==
  \A p \in Pids : swap[p] # <<>> =>
    estado[p] \in Suspendido /\ contextos[p].tabla = <<>>

MemInv ==
  /\ CacheInv
  /\ Memoria
  /\ TablasDeCpu
  /\ TablaEntera
  /\ ~ memoria_ajena => EnSwap

-----------------------------------------------------------------------------
(* Segments in the memory.                                                  *)

\* The fields of a segment are numbers.
LEMMA SegmentoNumeros ==
  ASSUME Tipos, NEW p \in Pids, NEW i \in DOMAIN contextos[p].tabla
  PROVE  /\ contextos[p].tabla[i] \in SegmentoReal
         /\ contextos[p].tabla[i].id \in Nat
         /\ contextos[p].tabla[i].base \in Nat
         /\ contextos[p].tabla[i].limite \in Nat
         /\ contextos[p].tabla[i].limite <= TamMaxSegmento
         /\ i \in Nat \ {0}
<1>1. contextos[p].tabla \in Seq(SegmentoReal)
  BY DEF Tipos, ContextoReal
<1>2. contextos[p].tabla[i] \in SegmentoReal /\ i \in Nat \ {0}
  BY <1>1
<1>3. QED
  BY <1>2, MmuOK DEF SegmentoReal

\* The memory of some sticks is a number of bytes, finitely many.
LEMMA MemoriaDe ==
  ASSUME NEW n \in 1 .. Len(TamSticks)
  PROVE  /\ Base[n + 1] \in Nat /\ Total \in Nat /\ Base[n + 1] <= Total
         /\ n \in Nat /\ n + 1 \in 1 .. Len(TamSticks) + 1
         /\ \A S \in SUBSET (0 .. Base[n + 1] - 1) : IsFiniteSet(S) /\ Cardinality(S) \in Nat
         /\ Cardinality(0 .. Base[n + 1] - 1) = Base[n + 1]
<1>1. Len(TamSticks) \in Nat
  BY MmuOK
<1>2. n \in Nat /\ n + 1 \in 1 .. Len(TamSticks) + 1
  BY <1>1
<1>3. Base[n + 1] \in Nat /\ Total \in Nat /\ Base[n + 1] <= Total
  BY <1>2, BaseCrece
<1>4. PICK m \in Nat : m = Base[n + 1]
  BY <1>3
<1>5. IsFiniteSet(0 .. m - 1) /\ Cardinality(0 .. m - 1) = m
  <2>1. 0 \in Int /\ m - 1 \in Int
    OBVIOUS
  <2>2. /\ IsFiniteSet(0 .. m - 1)
        /\ Cardinality(0 .. m - 1) = IF 0 > m - 1 THEN 0 ELSE m - 1 - 0 + 1
    BY <2>1, FS_Interval
  <2>3. QED
    BY <2>2
<1>6. \A S \in SUBSET (0 .. m - 1) : IsFiniteSet(S) /\ Cardinality(S) \in Nat
  BY <1>5, FS_Subset, FS_CardinalityType
<1>7. QED
  BY <1>2, <1>3, <1>4, <1>5, <1>6

\* The free bytes are finitely many.
LEMMA LibresFinitos ==
  ASSUME Tipos
  PROVE  IsFiniteSet(Libres) /\ Cardinality(Libres) \in Nat
<1>1. sticks \in 1 .. Len(TamSticks)
  BY DEF Tipos
<1>2. Libres \in SUBSET (0 .. Base[sticks + 1] - 1)
  BY DEF Libres
<1>3. QED
  BY <1>1, <1>2, MemoriaDe

\* Some processes lose their segments and a stick may join: what is left is in the
\* memory, apart, and there is no less room.
LEMMA TablasMenos ==
  ASSUME Tipos, Tipos',
         sticks <= sticks',
         \A p \in Pids : contextos'[p].tabla \in {contextos[p].tabla, <<>>}
  PROVE  /\ EnMemoria => EnMemoria'
         /\ Separados => Separados'
         /\ Cardinality(Libres) <= Cardinality(Libres)'
         /\ Cardinality(Libres) \in Nat /\ Cardinality(Libres)' \in Nat
<1>0. sticks \in 1 .. Len(TamSticks) /\ sticks' \in 1 .. Len(TamSticks)
  BY DEF Tipos
<1>b. Base[sticks + 1] \in Nat /\ Base[sticks' + 1] \in Nat
  BY <1>0, MemoriaDe
<1>1. Base[sticks + 1] <= Base[sticks' + 1]
  <2>1. sticks + 1 \in 1 .. Len(TamSticks) + 1 /\ sticks' + 1 \in 1 .. Len(TamSticks) + 1
        /\ sticks + 1 <= sticks' + 1
    <3>1. /\ sticks \in Nat /\ sticks + 1 \in 1 .. Len(TamSticks) + 1
          /\ sticks' \in Nat /\ sticks' + 1 \in 1 .. Len(TamSticks) + 1
      BY <1>0, MemoriaDe
    <3>2. \A a, b \in Nat : a <= b => a + 1 <= b + 1
      OBVIOUS
    <3>3. sticks + 1 <= sticks' + 1
      BY <3>1, <3>2
    <3>4. QED
      BY <3>1, <3>3
  <2>2. QED
    BY <2>1, BaseCrece
<1>2. \A p \in Pids : \A i \in DOMAIN contextos'[p].tabla :
        i \in DOMAIN contextos[p].tabla /\ contextos'[p].tabla[i] = contextos[p].tabla[i]
  OBVIOUS
<1>3. EnMemoria => EnMemoria'
  <2> SUFFICES ASSUME EnMemoria, NEW p \in Pids, NEW i \in DOMAIN contextos'[p].tabla
               PROVE  contextos'[p].tabla[i].base + contextos'[p].tabla[i].limite
                        <= Base[sticks' + 1]
    BY DEF EnMemoria
  <2>1. i \in DOMAIN contextos[p].tabla /\ contextos'[p].tabla[i] = contextos[p].tabla[i]
    BY <1>2
  <2>2. contextos[p].tabla[i].base + contextos[p].tabla[i].limite <= Base[sticks + 1]
    BY <2>1 DEF EnMemoria
  <2>3. contextos[p].tabla[i].base \in Nat /\ contextos[p].tabla[i].limite \in Nat
    BY <2>1, SegmentoNumeros
  <2>4. QED
    BY <1>1, <1>b, <2>1, <2>2, <2>3
<1>4. Separados => Separados'
  <2> SUFFICES ASSUME Separados, NEW p \in Pids, NEW q \in Pids,
                      NEW i \in DOMAIN contextos'[p].tabla,
                      NEW j \in DOMAIN contextos'[q].tabla, p # q \/ i # j
               PROVE  Lugar(contextos'[p].tabla[i]) \cap Lugar(contextos'[q].tabla[j]) = {}
    BY DEF Separados
  <2>1. i \in DOMAIN contextos[p].tabla /\ contextos'[p].tabla[i] = contextos[p].tabla[i]
    BY <1>2
  <2>2. j \in DOMAIN contextos[q].tabla /\ contextos'[q].tabla[j] = contextos[q].tabla[j]
    BY <1>2
  <2>3. QED
    BY <2>1, <2>2 DEF Separados
<1>5. Libres \subseteq Libres'
  <2> SUFFICES ASSUME NEW a \in Libres PROVE a \in Libres'
    OBVIOUS
  <2>1. a \in 0 .. Base[sticks + 1] - 1 /\ a \notin Ocupados
    BY DEF Libres
  <2>2. a \in 0 .. Base[sticks' + 1] - 1
    BY <1>1, <1>b, <2>1
  <2>3. a \notin Ocupados'
    <3> SUFFICES ASSUME a \in Ocupados' PROVE FALSE
      OBVIOUS
    <3>1. PICK p \in Pids : \E i \in DOMAIN contextos'[p].tabla : a \in Lugar(contextos'[p].tabla[i])
      BY DEF Ocupados, Segmentos
    <3>0. PICK i \in DOMAIN contextos'[p].tabla : a \in Lugar(contextos'[p].tabla[i])
      BY <3>1
    <3>2. i \in DOMAIN contextos[p].tabla /\ contextos'[p].tabla[i] = contextos[p].tabla[i]
      BY <1>2
    <3>3. <<p, i>> \in Segmentos
      BY <3>2 DEF Segmentos
    <3>4. a \in Lugar(contextos[p].tabla[i])
      BY <3>0, <3>2
    <3>5. a \in Ocupados
      BY <3>3, <3>4 DEF Ocupados
    <3>6. QED
      BY <2>1, <3>5
  <2>4. QED
    BY <2>2, <2>3 DEF Libres
<1>6. QED
  <2>1. Libres' \in SUBSET (0 .. Base[sticks' + 1] - 1)
    BY DEF Libres
  <2>2. IsFiniteSet(Libres') /\ Cardinality(Libres') \in Nat
    BY <1>0, <2>1, MemoriaDe
  <2>3. QED
    BY <1>3, <1>4, <1>5, <2>2, FS_Subset, LibresFinitos

-----------------------------------------------------------------------------
(* An access, from the logical address to the bytes.                        *)

\* The segment that holds all the bytes of an access, if any.
Caben(tabla, dl, tam) ==
  {i \in BuscarSegmento(tabla, dl \div TamMaxSegmento) :
     (dl % TamMaxSegmento) + tam <= tabla[i].limite}

\* As long as the sum of traducir_direccion fits in a word, what it gives is the byte
\* at the offset of a segment that holds the access.
LEMMA TraducirSinVuelta ==
  ASSUME Anchos, NEW tabla \in Seq(SegmentoReal),
         \A i \in DOMAIN tabla : tabla[i].base + tabla[i].limite <= Total,
         NEW dl \in Palabras, NEW tam \in Nat \ {0},
         (dl % TamMaxSegmento) + tam < Palabra
  PROVE  /\ dl % TamMaxSegmento \in Nat
         /\ Traducir(tabla, dl, tam)
              = {tabla[i].base + (dl % TamMaxSegmento) : i \in Caben(tabla, dl, tam)}
         /\ \A i \in Caben(tabla, dl, tam) :
              /\ i \in DOMAIN tabla /\ tabla[i].base \in Nat /\ tabla[i].limite \in Nat
              /\ tabla[i].base + (dl % TamMaxSegmento) + tam <= tabla[i].base + tabla[i].limite
              /\ tabla[i].base + tabla[i].limite <= Total
              /\ (dl % TamMaxSegmento) + tam <= TamMaxSegmento
         /\ \A i, j \in Caben(tabla, dl, tam) : i = j
<1> DEFINE off == dl % TamMaxSegmento
<1>1. Palabra \in Nat \ {0} /\ dl \in Nat
  BY Potencias DEF Palabras
<1>2. off \in Nat /\ dl \div TamMaxSegmento \in Nat
  BY <1>1, Desplazamiento
<1>3. TamMaxSegmento \in Nat \ {0}
  BY MmuOK
<1>4. ASSUME NEW i \in DOMAIN tabla
      PROVE  /\ tabla[i].base \in Nat /\ tabla[i].limite \in Nat
             /\ tabla[i].limite <= TamMaxSegmento /\ tabla[i].id \in Nat
  <2>1. tabla[i] \in SegmentoReal
    OBVIOUS
  <2>2. QED
    BY <1>3, <2>1 DEF SegmentoReal
<1>5. Total \in Nat /\ Total <= Palabra
  BY TotalCabe
<1> HIDE DEF off
<1>6. (off + tam) % Palabra = off + tam
  <2>1. off + tam < Palabra
    BY DEF off
  <2>2. QED
    BY <1>1, <1>2, <2>1, SinVuelta
<1>7. ASSUME NEW i \in Caben(tabla, dl, tam)
      PROVE  /\ i \in DOMAIN tabla /\ tabla[i].base \in Nat /\ tabla[i].limite \in Nat
             /\ tabla[i].base + off + tam <= tabla[i].base + tabla[i].limite
             /\ tabla[i].base + tabla[i].limite <= Total
             /\ off + tam <= TamMaxSegmento
             /\ (tabla[i].base + off) % Palabra = tabla[i].base + off
  <2>1. i \in DOMAIN tabla /\ off + tam <= tabla[i].limite
    BY DEF Caben, BuscarSegmento, off
  <2>2. tabla[i].base + tabla[i].limite <= Total
    BY <2>1
  <2>3. tabla[i].base + off < Palabra
    BY <1>1, <1>2, <1>4, <1>5, <2>1, <2>2
  <2>4. (tabla[i].base + off) % Palabra = tabla[i].base + off
    <3>1. tabla[i].base + off \in Nat
      BY <1>2, <1>4, <2>1
    <3>2. QED
      BY <1>1, <2>3, <3>1, SinVuelta
  <2>5. QED
    BY <1>2, <1>3, <1>4, <2>1, <2>2, <2>4
<1>8. Traducir(tabla, dl, tam) = {tabla[i].base + off : i \in Caben(tabla, dl, tam)}
  <2>1. Caben(tabla, dl, tam)
          = {j \in BuscarSegmento(tabla, dl \div TamMaxSegmento) :
               (off + tam) % Palabra <= tabla[j].limite}
    BY <1>6 DEF Caben, off
  <2>2. Traducir(tabla, dl, tam) = {(tabla[i].base + off) % Palabra : i \in Caben(tabla, dl, tam)}
    BY <2>1 DEF Traducir, off
  <2>3. QED
    BY <1>7, <2>2
<1>9. ASSUME NEW i \in Caben(tabla, dl, tam), NEW j \in Caben(tabla, dl, tam)
      PROVE  i = j
  <2>1. tabla \in Tabla
    <3>1. SegmentoReal \subseteq [id : Nat, base : Nat, limite : Nat]
      BY <1>3 DEF SegmentoReal
    <3>2. QED
      BY <3>1, SeqMonotonic DEF Tabla
  <2>2. QED
    BY <1>2, <2>1, SegmentoUnico DEF Caben
<1>10. QED
  BY <1>2, <1>7, <1>8, <1>9 DEF off

\* A list of sticks that says of each the base that the Kernel Memory has.
ListaFiel(lista) ==
  \A e \in lista : e.stick \in 1 .. Len(TamSticks) /\ e.base = Base[e.stick]

\* Whatever list each byte is looked for in, it is the byte of the physical address
\* (buscar_stick_por_direccion).
LEMMA AlcanzaBytes ==
  ASSUME Anchos, NEW lista, ListaFiel(lista), NEW actual, ListaFiel(actual),
         NEW d \in Nat, NEW tam \in Nat, d + tam <= Palabra,
         AccesoPosible(Alcanza(lista, d, tam, actual))
  PROVE  Alcanza(lista, d, tam, actual) = [i \in 1 .. tam |-> {d + i - 1}]
<1>1. Palabra \in Nat \ {0} /\ Len(TamSticks) \in Nat
  BY Potencias, MmuOK
<1> DEFINE en(i) == (d + i - 1) % Palabra
           lug(i) == {Base[e.stick] + (en(i) - e.base) :
                        e \in BuscarStick(ListaDeByte(lista, d, i, actual), en(i))}
<1>2. Alcanza(lista, d, tam, actual) = [i \in 1 .. tam |-> lug(i)]
  BY DEF Alcanza
<1>3. ASSUME NEW i \in 1 .. tam PROVE lug(i) = {d + i - 1}
  <2>1. en(i) = d + i - 1 /\ d + i - 1 \in Nat
    BY <1>1, SinVuelta
  <2>2. \A e \in BuscarStick(ListaDeByte(lista, d, i, actual), en(i)) :
          e.stick \in 1 .. Len(TamSticks) /\ e.base = Base[e.stick]
    BY DEF BuscarStick, ListaDeByte, ListaFiel
  <2>3. \A e \in BuscarStick(ListaDeByte(lista, d, i, actual), en(i)) :
          Base[e.stick] + (en(i) - e.base) = d + i - 1
    <3>1. TAKE e \in BuscarStick(ListaDeByte(lista, d, i, actual), en(i))
    <3>2. e.stick \in 1 .. Len(TamSticks) + 1 /\ e.base = Base[e.stick]
      BY <1>1, <2>2
    <3>3. Base[e.stick] \in Nat
      BY <3>2, BasesPasoAPaso
    <3>4. QED
      BY <2>1, <3>2, <3>3
  <2>4. lug(i) # {}
    <3> HIDE DEF lug
    <3>1. QED
      BY <1>2 DEF AccesoPosible
  <2>5. QED
    BY <2>3, <2>4
<1> HIDE DEF lug
<1>4. QED
  BY <1>2, <1>3

\* An address of behind the memory of the sticks is in none of them.
LEMMA SinStick ==
  ASSUME NEW lista, ListaFiel(lista), NEW d \in Nat, Total <= d
  PROVE  BuscarStick(lista, d) = {}
<1> SUFFICES ASSUME NEW e \in lista, e.base <= d, d < e.base + TamSticks[e.stick]
             PROVE  FALSE
  BY DEF BuscarStick
<1>1. e.stick \in 1 .. Len(TamSticks) /\ e.base = Base[e.stick] /\ Len(TamSticks) \in Nat
  BY MmuOK DEF ListaFiel
<1>2. PICK s \in 1 .. Len(TamSticks) : s = e.stick
  BY <1>1
<1>3. s \in 1 .. Len(TamSticks) + 1 /\ s + 1 \in 1 .. Len(TamSticks) + 1
  BY <1>1
<1>4. Base[s + 1] = Base[s] + TamSticks[s] /\ Base[s + 1] <= Total
      /\ Base[s + 1] \in Nat /\ Total \in Nat
  BY <1>2, <1>3, BasesPasoAPaso, BaseCrece
<1>5. d < Base[s + 1]
  BY <1>1, <1>2, <1>4
<1>6. QED
  BY <1>4, <1>5

\* A size that the MMU lets through because the sum wraps is all but the whole word:
\* the access reaches the end of the memory and is not made (leer_memoria,
\* escribir_memoria).
LEMMA DesbordeImposible ==
  ASSUME Anchos, NEW tabla \in Seq(SegmentoReal),
         \A i \in DOMAIN tabla : tabla[i].base + tabla[i].limite <= Total,
         NEW dl \in Palabras, NEW tam \in Nat \ {0}, Desborda(dl, tam),
         NEW df \in Traducir(tabla, dl, tam),
         NEW lista, ListaFiel(lista), NEW actual, ListaFiel(actual)
  PROVE  ~ AccesoPosible(Alcanza(lista, df, tam, actual))
<1> DEFINE off == dl % TamMaxSegmento
<1>1. /\ Total \in Nat /\ Palabra \in Nat \ {0} /\ TamMaxSegmento \in Nat \ {0}
      /\ Total + TamMaxSegmento <= Palabra
  BY TotalCabe
<1>2. off \in 0 .. TamMaxSegmento - 1
  BY <1>1, Desplazamiento DEF Palabras
<1>3. PICK j \in BuscarSegmento(tabla, dl \div TamMaxSegmento) :
        df = (tabla[j].base + off) % Palabra
  BY DEF Traducir
<1>4. j \in DOMAIN tabla
  BY DEF BuscarSegmento
<1>5. PICK b \in Nat : b = tabla[j].base /\ b <= Total
  <2>1. tabla[j] \in SegmentoReal
    BY <1>4
  <2>2. tabla[j].base \in Nat /\ tabla[j].limite \in Nat
    BY <1>1, <2>1 DEF SegmentoReal
  <2>3. tabla[j].base + tabla[j].limite <= Total
    BY <1>4
  <2>4. QED
    BY <1>1, <2>2, <2>3
<1>6. off + tam >= Palabra
  BY DEF Desborda
<1> HIDE DEF off
<1>7. df = b + off /\ df \in Nat /\ df < Palabra
  <2>1. b + off \in Nat /\ b + off < Palabra
    BY <1>1, <1>2, <1>5
  <2>2. (b + off) % Palabra = b + off
    BY <1>1, <2>1, SinVuelta
  <2>3. QED
    BY <1>3, <1>5, <2>1, <2>2
<1>8. PICK k \in 1 .. tam : df + k - 1 \in Nat /\ Total <= df + k - 1 /\ df + k - 1 < Palabra
  <2>1. CASE Total <= df
    <3>1. 1 \in 1 .. tam
      OBVIOUS
    <3>2. QED
      BY <1>7, <2>1, <3>1
  <2>2. CASE df < Total
    <3>1. Total - df + 1 \in 1 .. tam
      <4>1. off \in Int /\ tam \in Int /\ Palabra \in Int /\ TamMaxSegmento >= 1
        BY <1>1, <1>2
      <4>2. Total + TamMaxSegmento - off <= tam
        BY <1>1, <1>6, <4>1
      <4>3. Total - df + 1 <= Total + TamMaxSegmento - off
        <5>1. Total - df + 1 = Total - off - b + 1
          BY <1>1, <1>5, <1>7, <4>1
        <5>2. QED
          BY <1>1, <1>5, <4>1, <5>1
      <4>4. Total - df + 1 >= 1 /\ Total - df + 1 \in Int
        BY <1>1, <1>7, <2>2
      <4>5. QED
        BY <1>1, <4>1, <4>2, <4>3, <4>4
    <3>2. df + (Total - df + 1) - 1 = Total /\ Total < Palabra
      BY <1>1, <1>7
    <3>3. QED
      BY <1>1, <3>1, <3>2
  <2>3. QED
    BY <1>1, <1>7, <2>1, <2>2
<1>9. PICK e : e = df + k - 1
  OBVIOUS
<1>10. (df + k - 1) % Palabra = e
  BY <1>1, <1>8, <1>9, SinVuelta
<1>11. ListaFiel(ListaDeByte(lista, df, k, actual))
  BY DEF ListaDeByte
<1>12. BuscarStick(ListaDeByte(lista, df, k, actual), e) = {}
  BY <1>8, <1>9, <1>11, SinStick
<1>13. Alcanza(lista, df, tam, actual)[k] = {} /\ k \in DOMAIN Alcanza(lista, df, tam, actual)
  <2>1. /\ DOMAIN Alcanza(lista, df, tam, actual) = 1 .. tam
        /\ Alcanza(lista, df, tam, actual)[k]
             = {Base[f.stick] + (((df + k - 1) % Palabra) - f.base) :
                  f \in BuscarStick(ListaDeByte(lista, df, k, actual), (df + k - 1) % Palabra)}
    BY DEF Alcanza
  <2>2. QED
    BY <1>10, <1>12, <2>1
<1>14. QED
  BY <1>13 DEF AccesoPosible

\* The list that a CPU has and the one the Kernel Memory answers say where the sticks
\* are.
LEMMA ListasReales ==
  ASSUME Anchos, MemInv
  PROVE  /\ Actual \in Lista /\ ListaFiel(Actual)
         /\ \A c \in Cpus : cpu[c].lista \in Lista /\ ListaFiel(cpu[c].lista)
<1>1. sticks \in 1 .. Len(TamSticks) /\ Len(TamSticks) \in Nat /\ escuchan \subseteq 1 .. sticks
  BY MmuOK DEF MemInv, Memoria, Tipos
<1>2. ASSUME NEW s \in (1 .. sticks) \cap escuchan
      PROVE  /\ [stick |-> s, base |-> Base[s]] \in [stick : 1 .. Len(TamSticks), base : 0 .. Total - 1]
             /\ s \in 1 .. Len(TamSticks)
  <2>1. s \in 1 .. Len(TamSticks) /\ s \in 1 .. Len(TamSticks) + 1
        /\ s + 1 \in 1 .. Len(TamSticks) + 1
    BY <1>1
  <2>2. Base[s + 1] = Base[s] + TamSticks[s] /\ Base[s] \in Nat
    BY <2>1, BasesPasoAPaso
  <2>3. TamSticks[s] \in Nat \ {0}
    <3>1. TamSticks \in Seq(Nat \ {0})
      BY MmuOK
    <3>2. QED
      BY <2>1, <3>1
  <2>4. Base[s + 1] <= Total /\ Total \in Nat
    BY <2>1, BaseCrece
  <2>5. Base[s] \in 0 .. Total - 1
    BY <2>2, <2>3, <2>4
  <2>6. QED
    BY <2>1, <2>5
<1>3. Actual = {[stick |-> s, base |-> Base[s]] : s \in (1 .. sticks) \cap escuchan}
  BY DEF Actual, ActualizarMemorySticks
<1>4. Actual \in Lista
  BY <1>2, <1>3 DEF Lista
<1>5. ListaFiel(Actual)
  <2> SUFFICES ASSUME NEW e \in Actual
               PROVE  e.stick \in 1 .. Len(TamSticks) /\ e.base = Base[e.stick]
    BY DEF ListaFiel
  <2>1. PICK s \in (1 .. sticks) \cap escuchan : e = [stick |-> s, base |-> Base[s]]
    BY <1>3
  <2>2. QED
    BY <1>2, <2>1
<1>6. ASSUME NEW c \in Cpus PROVE cpu[c].lista \in Lista /\ ListaFiel(cpu[c].lista)
  <2>1. cpu[c].lista \in Lista
    BY DEF MemInv, Memoria, Tipos, CpuReal
  <2>2. \A e \in cpu[c].lista : e.stick \in 1 .. Len(TamSticks)
    BY <2>1 DEF Lista
  <2>3. \A e \in cpu[c].lista : e.base = Base[e.stick]
    BY DEF MemInv, CacheInv, CacheFiel
  <2>4. QED
    BY <2>1, <2>2, <2>3 DEF ListaFiel
<1>7. QED
  BY <1>4, <1>5, <1>6

\* What a CPU that executes has: its process is in EXEC and waits for nothing, its
\* table is of segments in the memory, and the one of the process unless they moved.
LEMMA CpuEjecuta ==
  ASSUME Anchos, MemInv, NEW c \in Cpus, cpu[c].estado = "ejecuta"
  PROVE  /\ cpu[c].pid \in Pids /\ estado[cpu[c].pid] = "EXEC"
         /\ pedido[cpu[c].pid] = Nada
         /\ ~ memoria_ajena => swap[cpu[c].pid] = <<>>
         /\ Reg(c) \in Registro
         /\ cpu[c].pid \notin movidos => cpu[c].tabla = contextos[cpu[c].pid].tabla
         /\ cpu[c].tabla \in Seq(SegmentoReal)
         /\ \A i \in DOMAIN cpu[c].tabla : cpu[c].tabla[i].base + cpu[c].tabla[i].limite <= Total
<1>1. cpu[c].pid \in Pids /\ estado[cpu[c].pid] = "EXEC"
  BY DEF MemInv, CacheInv, Inv, Reparto, EstadoEnCpu, EstadosEnCpu
<1>2. pedido[cpu[c].pid] = Nada
  BY DEF MemInv, Memoria, SinPedido
<1>3. ~ memoria_ajena => swap[cpu[c].pid] = <<>>
  BY <1>1 DEF MemInv, EnSwap, Suspendido
<1>4. Reg(c) \in Registro /\ cpu[c].tabla \in Seq(SegmentoReal)
  BY DEF MemInv, Memoria, Tipos, CpuReal, Reg
<1>5. cpu[c].pid \notin movidos => cpu[c].tabla = contextos[cpu[c].pid].tabla
  BY DEF MemInv, CacheInv, Inv, TablaFiel
<1>6. \A i \in DOMAIN cpu[c].tabla : cpu[c].tabla[i].base + cpu[c].tabla[i].limite <= Total
  BY DEF MemInv, TablasDeCpu
<1>7. QED
  BY <1>1, <1>2, <1>3, <1>4, <1>5, <1>6

\* The list that an access leaves a CPU with, wherever it goes.
LEMMA ListaDespues ==
  ASSUME Anchos, MemInv, NEW l \in Lista, ListaFiel(l), NEW df, NEW tam
  PROVE  /\ UltimaLista(l, df, tam, Actual) \in Lista
         /\ ListaFiel(UltimaLista(l, df, tam, Actual))
  BY ListasReales, ListaDeAcceso

\* The address that the MMU gives is a word.
LEMMA DireccionPalabra ==
  ASSUME Anchos, NEW tabla \in Seq(SegmentoReal), NEW dl \in Palabras, NEW tam,
         NEW df \in Traducir(tabla, dl, tam)
  PROVE  df \in Palabras
<1>1. PICK i \in BuscarSegmento(tabla, dl \div TamMaxSegmento) :
        df = (tabla[i].base + (dl % TamMaxSegmento)) % Palabra
  BY DEF Traducir
<1>2. i \in DOMAIN tabla
  BY DEF BuscarSegmento
<1>3. tabla[i].base \in Nat
  <2>1. tabla[i] \in SegmentoReal
    BY <1>2
  <2>2. QED
    BY <2>1 DEF SegmentoReal
<1>4. dl % TamMaxSegmento \in Nat /\ Palabra \in Nat \ {0}
  BY Desplazamiento, Potencias, TotalCabe DEF Palabras
<1>5. PICK n \in Nat : n = tabla[i].base + (dl % TamMaxSegmento)
  BY <1>3, <1>4
<1>6. n % Palabra \in 0 .. Palabra - 1
  BY <1>4, SMTT(30)
<1>7. QED
  BY <1>1, <1>5, <1>6 DEF Palabras

\* An access that is made does not wrap.
LEMMA AccesoSinVuelta ==
  ASSUME Anchos, MemInv, NEW c \in Cpus, cpu[c].estado = "ejecuta",
         NEW dl \in Palabras, NEW tam \in Nat \ {0},
         NEW df \in Usa(c, dl, tam), NEW l \in Lista, ListaFiel(l),
         AccesoPosible(Alcanza(l, df, tam, Actual))
  PROVE  (dl % TamMaxSegmento) + tam < Palabra
<1>1. ~ Desborda(dl, tam)
  BY CpuEjecuta, ListasReales, DesbordeImposible DEF Usa
<1>2. dl % TamMaxSegmento \in Nat /\ Palabra \in Nat \ {0}
  BY Desplazamiento, Potencias, TotalCabe DEF Palabras
<1>3. QED
  BY <1>1, <1>2 DEF Desborda

\* The instruction that a CPU executes is one of its program.
LEMMA InstruccionReal ==
  ASSUME Anchos, MemInv, NEW c \in Cpus, HayInstruccion(c)
  PROVE  Instr(c) \in [op : STRING, r : Nombre, s : Nombre, v : Nat, id : Nat, tam : Nat]
<1> DEFINE q == Instrucciones(c)
           n == Reg(c)["PC"] + 1
<1>1. cpu[c].pid \in Pids /\ Reg(c) \in Registro
  BY CpuEjecuta DEF HayInstruccion
<1>2. q \in Programas \cup {<<>>}
  BY <1>1 DEF MemInv, Memoria, Tipos, ContextoReal, Instrucciones
<1>3. Reg(c)["PC"] \in Nat
  BY <1>1, RegistroValor DEF Nombre, DeUnaPalabra
<1>4. Reg(c)["PC"] < Len(q) /\ Instr(c) = q[n]
  BY DEF HayInstruccion, Instr
<1>5. q \in Programas
  BY <1>2, <1>3, <1>4
<1>6. q \in Seq([op : STRING, r : Nombre, s : Nombre, v : Nat, id : Nat, tam : Nat])
  BY <1>5, EjecucionOK
<1> HIDE DEF q
<1>7. n \in DOMAIN q
  <2>1. DOMAIN q = 1 .. Len(q) /\ Len(q) \in Nat
    BY <1>6
  <2>2. QED
    BY <1>3, <1>4, <2>1
<1>8. q[n] \in [op : STRING, r : Nombre, s : Nombre, v : Nat, id : Nat, tam : Nat]
  <2>1. \A T : q \in Seq(T) => q[n] \in T
    BY <1>7
  <2>2. QED
    BY <1>6, <2>1
<1>9. QED
  BY <1>4, <1>8

\* An access that the MMU accepts is to the bytes of one segment of the process,
\* whatever list of sticks it begins with.
LEMMA AccesoReal ==
  ASSUME Anchos, MemInv, NEW c \in Cpus, cpu[c].estado = "ejecuta",
         NEW dl \in Palabras, NEW tam \in Nat \ {0},
         (dl % TamMaxSegmento) + tam < Palabra,
         NEW df \in Usa(c, dl, tam), NEW l \in Lista, ListaFiel(l)
  PROVE  LET off == dl % TamMaxSegmento
             lugares == Alcanza(l, df, tam, Actual)
         IN
         /\ off \in Nat /\ df \in 0 .. Total - 1 /\ df + tam <= Total
         /\ off + tam <= TamMaxSegmento
         /\ \E i \in Caben(cpu[c].tabla, dl, tam) : df = cpu[c].tabla[i].base + off
         /\ UltimaLista(l, df, tam, Actual) \in Lista
         /\ ListaFiel(UltimaLista(l, df, tam, Actual))
         /\ AccesoPosible(lugares) =>
              /\ LeerMemoria(ram, lugares) = [k \in 1 .. tam |-> ram[df + k - 1]]
              /\ LeerMemoria(ram, lugares) \in [1 .. tam -> Bytes]
              /\ \A datos \in [1 .. tam -> Bytes] :
                   /\ EscribirMemoria(ram, lugares, datos)
                        = [g \in 0 .. Total - 1 |->
                             IF df <= g /\ g < df + tam THEN datos[g - df + 1] ELSE ram[g]]
                   /\ EscribirMemoria(ram, lugares, datos) \in [0 .. Total - 1 -> Bytes]
<1> DEFINE off == dl % TamMaxSegmento
           lugares == Alcanza(l, df, tam, Actual)
           t == cpu[c].tabla
<1>1. /\ off \in Nat
      /\ Usa(c, dl, tam) = {t[i].base + off : i \in Caben(t, dl, tam)}
      /\ \A i \in Caben(t, dl, tam) :
              /\ i \in DOMAIN t /\ t[i].base \in Nat /\ t[i].limite \in Nat
              /\ t[i].base + off + tam <= t[i].base + t[i].limite
              /\ t[i].base + t[i].limite <= Total
              /\ off + tam <= TamMaxSegmento
  BY CpuEjecuta, TraducirSinVuelta DEF Usa
<1> HIDE DEF off, lugares
<1>2. PICK i \in Caben(t, dl, tam) : df = t[i].base + off
  BY <1>1
<1>3. Total \in Nat /\ Total <= Palabra /\ Palabra \in Nat \ {0}
  BY TotalCabe
<1>4. df \in 0 .. Total - 1 /\ df + tam <= Total /\ off + tam <= TamMaxSegmento
  BY <1>1, <1>2, <1>3
<1>5. UltimaLista(l, df, tam, Actual) \in Lista /\ ListaFiel(UltimaLista(l, df, tam, Actual))
  BY ListaDespues
<1>6. ASSUME AccesoPosible(lugares)
      PROVE  /\ LeerMemoria(ram, lugares) = [k \in 1 .. tam |-> ram[df + k - 1]]
             /\ LeerMemoria(ram, lugares) \in [1 .. tam -> Bytes]
             /\ \A datos \in [1 .. tam -> Bytes] :
                  /\ EscribirMemoria(ram, lugares, datos)
                       = [g \in 0 .. Total - 1 |->
                            IF df <= g /\ g < df + tam THEN datos[g - df + 1] ELSE ram[g]]
                  /\ EscribirMemoria(ram, lugares, datos) \in [0 .. Total - 1 -> Bytes]
  <2>1. lugares = [k \in 1 .. tam |-> {df + k - 1}]
    <3>1. df \in Nat /\ df + tam <= Palabra /\ tam \in Nat
      BY <1>3, <1>4
    <3>2. QED
      BY <1>6, <3>1, AlcanzaBytes, ListasReales DEF lugares
  <2>2. ram \in [0 .. Total - 1 -> Bytes]
    BY DEF MemInv, Memoria, Tipos
  <2>3. DOMAIN ram = 0 .. Total - 1 /\ DOMAIN ram \subseteq Nat
    BY <2>2
  <2>4. df \in Nat /\ tam \in Nat
    BY <1>4
  <2>a. DOMAIN lugares = 1 .. tam /\ \A k \in 1 .. tam : lugares[k] = {df + k - 1}
    BY <2>1
  <2>b. \A x : UnicoDe({x}) = x
    BY DEF UnicoDe
  <2>5. LeerMemoria(ram, lugares) = [k \in 1 .. tam |-> ram[df + k - 1]]
    BY <2>a, <2>b DEF LeerMemoria
  <2>6. \A k \in 1 .. tam : df + k - 1 \in 0 .. Total - 1
    BY <1>3, <1>4
  <2>7. LeerMemoria(ram, lugares) \in [1 .. tam -> Bytes]
    BY <2>2, <2>5, <2>6
  <2>8. ASSUME NEW datos \in [1 .. tam -> Bytes]
        PROVE  /\ EscribirMemoria(ram, lugares, datos)
                    = [g \in 0 .. Total - 1 |->
                         IF df <= g /\ g < df + tam THEN datos[g - df + 1] ELSE ram[g]]
               /\ EscribirMemoria(ram, lugares, datos) \in [0 .. Total - 1 -> Bytes]
    <3>0. ASSUME NEW g \in DOMAIN ram
          PROVE  (IF \E k \in DOMAIN lugares : g \in lugares[k]
                  THEN datos[CHOOSE k \in DOMAIN lugares : g \in lugares[k]]
                  ELSE ram[g])
                 = IF df <= g /\ g < df + tam THEN datos[g - df + 1] ELSE ram[g]
      <4>1. g \in Nat
        BY <2>3
      <4>2. \A k \in DOMAIN lugares : g \in lugares[k] <=> k = g - df + 1
        BY <2>4, <2>a, <4>1
      <4>3. CASE df <= g /\ g < df + tam
        <5>1. g - df + 1 \in DOMAIN lugares
          BY <2>4, <2>a, <4>1, <4>3
        <5>2. (CHOOSE k \in DOMAIN lugares : g \in lugares[k]) = g - df + 1
          BY <4>2, <5>1
        <5>3. QED
          BY <4>2, <4>3, <5>1, <5>2
      <4>4. CASE ~ (df <= g /\ g < df + tam)
        <5>1. \A k \in DOMAIN lugares : g \notin lugares[k]
          BY <2>4, <2>a, <4>1, <4>4
        <5>2. QED
          BY <4>4, <5>1
      <4>5. QED
        BY <4>3, <4>4
    <3>1. EscribirMemoria(ram, lugares, datos)
            = [g \in 0 .. Total - 1 |->
                 IF df <= g /\ g < df + tam THEN datos[g - df + 1] ELSE ram[g]]
      BY <2>3, <3>0 DEF EscribirMemoria
    <3>2. ASSUME NEW g \in 0 .. Total - 1
          PROVE  (IF df <= g /\ g < df + tam THEN datos[g - df + 1] ELSE ram[g]) \in Bytes
      <4>1. CASE df <= g /\ g < df + tam
        <5>1. g - df + 1 \in 1 .. tam
          BY <1>3, <2>4, <4>1
        <5>2. QED
          BY <4>1, <5>1
      <4>2. CASE ~ (df <= g /\ g < df + tam)
        BY <2>2, <4>2
      <4>3. QED
        BY <4>1, <4>2
    <3>3. QED
      BY <3>1, <3>2
  <2>9. QED
    BY <2>5, <2>7, <2>8
<1>7. QED
  BY <1>1, <1>2, <1>4, <1>5, <1>6 DEF off, lugares

-----------------------------------------------------------------------------
(* What an instruction does, with the values it may do it with.             *)

SigueCon(c) ==
  /\ \E r \in Registro, l \in Lista : Continuar(c, r, l)
  /\ ram' \in [0 .. Total - 1 -> Bytes]
  /\ memoria_ajena' \in BOOLEAN
  /\ UNCHANGED <<contextos, sticks, escuchan, swap, estado, pedido, pantalla, avisoVars>>

EfectoReal(c) ==
  /\ cpu[c].estado = "ejecuta"
  /\ \/ SigueCon(c)
     \/ \E l \in Lista : Terminar(c, l)
     \/ \E x \in PedidosDeMemoria : PedirYEsperar(c, x)
     \/ memoria_ajena' \in BOOLEAN /\ \E x \in PedidosDeIo : Bloquear(c, x)

\* MOV_IN and MOV_OUT of a register use no more bytes than a word has.
LEMMA TamanioChico ==
  ASSUME Anchos, NEW r \in Nombre, NEW dl \in Palabras
  PROVE  /\ TamanioRegistro(r) \in Nat \ {0}
         /\ (dl % TamMaxSegmento) + TamanioRegistro(r) < Palabra
<1>1. TamanioRegistro(r) \in Nat \ {0} /\ TamanioRegistro(r) <= BytesPalabra
      /\ BytesPalabra \in Nat
  BY Potencias DEF TamanioRegistro
<1>2. dl \in Nat /\ Palabra \in Nat /\ TamMaxSegmento \in Nat \ {0}
  BY Potencias, MmuOK DEF Palabras
<1>3. dl % TamMaxSegmento \in 0 .. TamMaxSegmento - 1
  BY <1>2, Desplazamiento
<1>4. TamMaxSegmento + BytesPalabra <= Palabra
  BY DEF Anchos
<1>5. QED
  BY <1>1, <1>2, <1>3, <1>4

\* ejecutar_mov_in.
LEMMA MovInReal ==
  ASSUME Anchos, MemInv, NEW c \in Cpus, EjecutarMovIn(c)
  PROVE  EfectoReal(c)
<1> DEFINE i == Instr(c)
           tam == TamanioRegistro(i.r)
           dl == Reg(c)["SI"]
<1>1. HayInstruccion(c) /\ cpu[c].estado = "ejecuta"
  BY DEF EjecutarMovIn, Toca, HayInstruccion
<1>2. i.r \in Nombre /\ Reg(c) \in Registro
  BY <1>1, InstruccionReal, CpuEjecuta
<1>3. dl \in Palabras
  BY <1>2, RegistroValor DEF Nombre, DeUnaPalabra
<1>4. tam \in Nat \ {0} /\ (dl % TamMaxSegmento) + tam < Palabra
  BY <1>2, <1>3, TamanioChico
<1>5. cpu[c].lista \in Lista /\ ListaFiel(cpu[c].lista)
  BY ListasReales
<1>6. CASE Falta(c, {dl}, tam)
  BY <1>1, <1>5, <1>6 DEF Falta, EfectoReal
<1>7. ASSUME NEW df \in Usa(c, dl, tam),
             ~ AccesoPosible(Alcanza(cpu[c].lista, df, tam, Actual)),
             Terminar(c, UltimaLista(cpu[c].lista, df, tam, Actual))
      PROVE  EfectoReal(c)
  BY <1>1, <1>5, <1>7, ListaDespues DEF EfectoReal
<1>8. ASSUME NEW df \in Usa(c, dl, tam),
             AccesoPosible(Alcanza(cpu[c].lista, df, tam, Actual)),
             Continuar(c, Avanzar(Setear(Reg(c), i.r, DeBytes(LeerMemoria(ram,
                            Alcanza(cpu[c].lista, df, tam, Actual))))),
                       UltimaLista(cpu[c].lista, df, tam, Actual)),
             Accede(c, {dl}, tam),
             UNCHANGED <<contextos, memVars, estado, pedido, pantalla, avisoVars>>
      PROVE  EfectoReal(c)
  <2> DEFINE b == LeerMemoria(ram, Alcanza(cpu[c].lista, df, tam, Actual))
  <2>1. b \in [1 .. tam -> Bytes] /\ UltimaLista(cpu[c].lista, df, tam, Actual) \in Lista
    BY <1>1, <1>3, <1>4, <1>5, <1>8, AccesoReal
  <2> HIDE DEF b
  <2>2. DeBytes(b) \in Int
    BY <1>4, <2>1, DeBytesTipo
  <2>3. Setear(Reg(c), i.r, DeBytes(b)) \in Registro
    BY <1>2, <2>2, SetearTipo
  <2>4. Avanzar(Setear(Reg(c), i.r, DeBytes(b))) \in Registro
    BY <2>3, AvanzarTipo
  <2>5. ram' \in [0 .. Total - 1 -> Bytes]
    BY <1>8 DEF MemInv, Memoria, Tipos, memVars
  <2>6. memoria_ajena' \in BOOLEAN
    BY <1>8 DEF Accede
  <2>7. QED
    BY <1>1, <1>8, <2>1, <2>4, <2>5, <2>6 DEF EfectoReal, SigueCon, memVars, b
<1>9. QED
  BY <1>6, <1>7, <1>8 DEF EjecutarMovIn

\* ejecutar_mov_out.
LEMMA MovOutReal ==
  ASSUME Anchos, MemInv, NEW c \in Cpus, EjecutarMovOut(c)
  PROVE  EfectoReal(c)
<1> DEFINE i == Instr(c)
           tam == TamanioRegistro(i.r)
           dl == Reg(c)["DI"]
           datos == EnBytes(Reg(c)[i.r], tam)
<1>1. HayInstruccion(c) /\ cpu[c].estado = "ejecuta"
  BY DEF EjecutarMovOut, Toca, HayInstruccion
<1>2. i.r \in Nombre /\ Reg(c) \in Registro
  BY <1>1, InstruccionReal, CpuEjecuta
<1>3. dl \in Palabras
  BY <1>2, RegistroValor DEF Nombre, DeUnaPalabra
<1>4. tam \in Nat \ {0} /\ (dl % TamMaxSegmento) + tam < Palabra
  BY <1>2, <1>3, TamanioChico
<1>5. cpu[c].lista \in Lista /\ ListaFiel(cpu[c].lista)
  BY ListasReales
<1>6. CASE Falta(c, {dl}, tam)
  BY <1>1, <1>5, <1>6 DEF Falta, EfectoReal
<1>7. ASSUME NEW df \in Usa(c, dl, tam),
             ~ AccesoPosible(Alcanza(cpu[c].lista, df, tam, Actual)),
             Terminar(c, UltimaLista(cpu[c].lista, df, tam, Actual))
      PROVE  EfectoReal(c)
  BY <1>1, <1>5, <1>7, ListaDespues DEF EfectoReal
<1>8. ASSUME NEW df \in Usa(c, dl, tam),
             AccesoPosible(Alcanza(cpu[c].lista, df, tam, Actual)),
             ram' = EscribirMemoria(ram, Alcanza(cpu[c].lista, df, tam, Actual), datos),
             Continuar(c, Avanzar(Reg(c)), UltimaLista(cpu[c].lista, df, tam, Actual)),
             Accede(c, {dl}, tam),
             UNCHANGED <<contextos, sticks, escuchan, swap, estado, pedido, pantalla, avisoVars>>
      PROVE  EfectoReal(c)
  <2>1. datos \in [1 .. tam -> Bytes]
    BY <1>2, <1>4, RegistroValor, EnBytesTipo
  <2> HIDE DEF datos
  <2>2. /\ ram' \in [0 .. Total - 1 -> Bytes]
        /\ UltimaLista(cpu[c].lista, df, tam, Actual) \in Lista
    BY <1>1, <1>3, <1>4, <1>5, <1>8, <2>1, AccesoReal
  <2>3. Avanzar(Reg(c)) \in Registro
    BY <1>2, AvanzarTipo
  <2>4. memoria_ajena' \in BOOLEAN
    BY <1>8 DEF Accede
  <2>5. QED
    BY <1>1, <1>8, <2>2, <2>3, <2>4 DEF EfectoReal, SigueCon
<1>9. QED
  BY <1>6, <1>7, <1>8 DEF EjecutarMovOut

\* ejecutar_copy_mem.
LEMMA CopyMemReal ==
  ASSUME Anchos, MemInv, NEW c \in Cpus, EjecutarCopyMem(c)
  PROVE  EfectoReal(c)
<1> DEFINE tam == Reg(c)[Instr(c).r]
           si == Reg(c)["SI"]
           di == Reg(c)["DI"]
           Media(df) == UltimaLista(cpu[c].lista, df, tam, Actual)
<1>1. HayInstruccion(c) /\ cpu[c].estado = "ejecuta" /\ Instr(c).op = "COPY_MEM"
  BY DEF EjecutarCopyMem, Toca, HayInstruccion
<1>2. Instr(c).r \in Nombre /\ Reg(c) \in Registro
  BY <1>1, InstruccionReal, CpuEjecuta
<1>3. si \in Palabras /\ di \in Palabras /\ tam \in Nat
  BY <1>2, RegistroValor DEF Nombre, DeUnaPalabra
<1>5. cpu[c].lista \in Lista /\ ListaFiel(cpu[c].lista) /\ ram \in [0 .. Total - 1 -> Bytes]
  BY ListasReales DEF MemInv, Memoria, Tipos
<1>6. CASE /\ Continuar(c, Avanzar(Reg(c)), cpu[c].lista)
           /\ UNCHANGED <<contextos, memVars, estado, pedido, pantalla, suspVars>>
  <2>1. Avanzar(Reg(c)) \in Registro
    BY <1>2, AvanzarTipo
  <2>2. memoria_ajena' \in BOOLEAN
    BY <1>6 DEF MemInv, Memoria, Tipos, suspVars
  <2>3. QED
    BY <1>1, <1>5, <1>6, <2>1, <2>2 DEF EfectoReal, SigueCon, memVars, suspVars
<1>7. CASE Falta(c, {si, di}, tam)
  BY <1>1, <1>5, <1>7 DEF Falta, EfectoReal
<1>8. ASSUME tam > 0, NEW df \in Usa(c, si, tam), NEW dg \in Usa(c, di, tam)
      PROVE  LET de == Alcanza(cpu[c].lista, df, tam, Actual)
                 media == UltimaLista(cpu[c].lista, df, tam, Actual)
                 a == Alcanza(media, dg, tam, Actual)
                 lista == UltimaLista(media, dg, tam, Actual)
             IN
             /\ media \in Lista /\ lista \in Lista
             /\ AccesoPosible(de) /\ AccesoPosible(a) =>
                  EscribirMemoria(ram, a, LeerMemoria(ram, de)) \in [0 .. Total - 1 -> Bytes]
  <2> DEFINE de == Alcanza(cpu[c].lista, df, tam, Actual)
             media == UltimaLista(cpu[c].lista, df, tam, Actual)
             a == Alcanza(media, dg, tam, Actual)
             lista == UltimaLista(media, dg, tam, Actual)
             datos == LeerMemoria(ram, de)
  <2>1. tam \in Nat \ {0}
    BY <1>3, <1>8
  <2>2. media \in Lista /\ ListaFiel(media)
    BY <1>5, ListaDespues
  <2>3. ASSUME AccesoPosible(de)
        PROVE  datos \in [1 .. tam -> Bytes]
    <3>1. (si % TamMaxSegmento) + tam < Palabra
      BY <1>1, <1>3, <1>5, <2>1, <2>3, AccesoSinVuelta
    <3>2. QED
      BY <1>1, <1>3, <1>5, <2>1, <2>3, <3>1, AccesoReal
  <2> HIDE DEF media, datos
  <2>4. lista \in Lista
    BY <2>2, ListaDespues
  <2>5. ASSUME AccesoPosible(a)
        PROVE  \A x \in [1 .. tam -> Bytes] :
                 EscribirMemoria(ram, a, x) \in [0 .. Total - 1 -> Bytes]
    <3>1. (di % TamMaxSegmento) + tam < Palabra
      BY <1>1, <1>3, <2>1, <2>2, <2>5, AccesoSinVuelta
    <3>2. QED
      BY <1>1, <1>3, <2>1, <2>2, <2>5, <3>1, AccesoReal
  <2>6. QED
    BY <2>2, <2>3, <2>4, <2>5 DEF media, datos
<1>9. ASSUME tam > 0, NEW df \in Usa(c, si, tam), NEW dg \in Usa(c, di, tam),
             LET de == Alcanza(cpu[c].lista, df, tam, Actual)
                 media == UltimaLista(cpu[c].lista, df, tam, Actual)
                 a == Alcanza(media, dg, tam, Actual)
                 lista == UltimaLista(media, dg, tam, Actual)
             IN
             \/ ~ AccesoPosible(de) /\ Terminar(c, media)
             \/ AccesoPosible(de) /\ ~ AccesoPosible(a) /\ Terminar(c, lista)
             \/ /\ AccesoPosible(de) /\ AccesoPosible(a)
                /\ ram' = EscribirMemoria(ram, a, LeerMemoria(ram, de))
                /\ Continuar(c, Avanzar(Reg(c)), lista)
                /\ Accede(c, {si, di}, tam)
                /\ UNCHANGED <<contextos, sticks, escuchan, swap, estado, pedido, pantalla,
                               avisoVars>>
      PROVE  EfectoReal(c)
  <2>1. Avanzar(Reg(c)) \in Registro
    BY <1>2, AvanzarTipo
  <2>2. QED
    BY <1>1, <1>8, <1>9, <2>1 DEF EfectoReal, SigueCon, Accede
<1>10. QED
  BY <1>6, <1>7, <1>9 DEF EjecutarCopyMem

\* ejecutar_syscall_stdin, ejecutar_syscall_stdout.
LEMMA DatosReal ==
  ASSUME Anchos, MemInv, NEW c \in Cpus, EjecutarDatos(c)
  PROVE  EfectoReal(c)
<1> DEFINE i == Instr(c)
           dl == Reg(c)[i.r]
           tam == Reg(c)[i.s]
<1>1. HayInstruccion(c) /\ cpu[c].estado = "ejecuta" /\ i.op \in {"STDIN", "STDOUT"}
  BY DEF EjecutarDatos, HayInstruccion
<1>2. i.r \in Nombre /\ i.s \in Nombre /\ Reg(c) \in Registro
  BY <1>1, InstruccionReal, CpuEjecuta
<1>3. dl \in Palabras /\ tam \in Palabras /\ tam \in Nat
  BY <1>2, RegistroValor
<1>5. cpu[c].lista \in Lista /\ ListaFiel(cpu[c].lista) /\ ram \in [0 .. Total - 1 -> Bytes]
  BY ListasReales DEF MemInv, Memoria, Tipos
<1>6. CASE /\ Continuar(c, Avanzar(Reg(c)), cpu[c].lista)
           /\ UNCHANGED <<contextos, memVars, estado, pedido, pantalla, suspVars>>
  <2>1. Avanzar(Reg(c)) \in Registro
    BY <1>2, AvanzarTipo
  <2>2. memoria_ajena' \in BOOLEAN
    BY <1>6 DEF MemInv, Memoria, Tipos, suspVars
  <2>3. QED
    BY <1>1, <1>5, <1>6, <2>1, <2>2 DEF EfectoReal, SigueCon, memVars, suspVars
<1>7. CASE Falta(c, {dl}, tam)
  BY <1>1, <1>5, <1>7 DEF Falta, EfectoReal
<1>8. ASSUME tam > 0, NEW df \in Usa(c, dl, tam)
      PROVE  [op |-> i.op, dl |-> dl, df |-> df, tam |-> tam] \in PedidosDeIo
  <2>1. tam \in Nat \ {0}
    BY <1>3, <1>8
  <2>2. df \in Palabras /\ dl % TamMaxSegmento \in Nat /\ Palabra \in Nat
    <3>1. cpu[c].tabla \in Seq(SegmentoReal) /\ df \in Traducir(cpu[c].tabla, dl, tam)
      BY <1>1, <1>8, CpuEjecuta DEF Usa
    <3>2. df \in Palabras
      BY <1>3, <3>1, DireccionPalabra
    <3>3. dl \in Nat
      BY <1>3, TotalCabe DEF Palabras
    <3>4. QED
      BY <3>2, <3>3, Desplazamiento, TotalCabe
  <2>3. ASSUME ~ Desborda(dl, tam)
        PROVE  (dl % TamMaxSegmento) + tam <= TamMaxSegmento /\ df + tam <= Total
    <3>1. (dl % TamMaxSegmento) + tam < Palabra
      BY <1>3, <2>2, <2>3 DEF Desborda
    <3>2. QED
      BY <1>1, <1>3, <1>5, <2>1, <3>1, AccesoReal
  <2> HIDE DEF i, dl, tam
  <2>4. QED
    BY <1>1, <1>3, <2>1, <2>2, <2>3 DEF PedidosDeIo, PedidosDeDatos
<1>9. ASSUME memoria_ajena' = (memoria_ajena \/ TablaVieja(c, {dl}, tam) \/ Desborda(dl, tam))
      PROVE  memoria_ajena' \in BOOLEAN
  BY <1>9
<1>10. QED
  BY <1>1, <1>6, <1>7, <1>8, <1>9 DEF EjecutarDatos, EfectoReal

\* MEM_ALLOC, MEM_FREE and SLEEP.
LEMMA PedidoReal ==
  ASSUME Anchos, MemInv, NEW c \in Cpus, EjecutarSyscallMemoria(c) \/ EjecutarSleep(c)
  PROVE  EfectoReal(c)
<1>1. HayInstruccion(c) /\ cpu[c].estado = "ejecuta"
  BY DEF EjecutarSyscallMemoria, EjecutarSleep, Toca, HayInstruccion
<1> DEFINE i == Instr(c)
<1>2. i.id \in Nat /\ i.tam \in Nat /\ memoria_ajena \in BOOLEAN
  BY <1>1, InstruccionReal DEF MemInv, Memoria, Tipos
<1> HIDE DEF i
<1>3. i.op = "MEM_ALLOC" => [op |-> "MEM_ALLOC", id |-> i.id, tam |-> i.tam] \in PedidosDeMemoria
  BY <1>2 DEF PedidosDeMemoria
<1>4. [op |-> "MEM_FREE", id |-> i.id] \in PedidosDeMemoria
  BY <1>2 DEF PedidosDeMemoria
<1>5. [op |-> "SLEEP"] \in PedidosDeIo
  BY DEF PedidosDeIo
<1>6. QED
  BY <1>1, <1>2, <1>3, <1>4, <1>5 DEF EjecutarSyscallMemoria, EjecutarSleep, Toca, EfectoReal, i

\* NOOP, SET, SUM, SUB, JNZ and EXIT.
LEMMA ComunReal ==
  ASSUME Anchos, MemInv, NEW c \in Cpus, EjecutarComun(c) \/ EjecutarExit(c)
  PROVE  EfectoReal(c)
<1>1. cpu[c].lista \in Lista /\ ram \in [0 .. Total - 1 -> Bytes] /\ memoria_ajena \in BOOLEAN
  BY ListasReales DEF MemInv, Memoria, Tipos
<1>2. CASE EjecutarComun(c)
  <2>1. HayInstruccion(c) /\ cpu[c].estado = "ejecuta" /\ Instr(c).op \in Comunes
    BY <1>2 DEF EjecutarComun, HayInstruccion
  <2>2. Instr(c).r \in Nombre /\ Instr(c).s \in Nombre /\ Instr(c).v \in Nat
        /\ Reg(c) \in Registro
    BY <2>1, InstruccionReal, CpuEjecuta
  <2>3. Comun(Reg(c), Instr(c)) \in Registro
    BY <2>1, <2>2, ComunTipo
  <2>4. QED
    BY <1>1, <1>2, <2>1, <2>3 DEF EjecutarComun, EfectoReal, SigueCon, memVars, suspVars
<1>3. CASE EjecutarExit(c)
  BY <1>1, <1>3 DEF EjecutarExit, EfectoReal
<1>4. QED
  BY <1>2, <1>3

\* Every instruction.
LEMMA EjecutarReal ==
  ASSUME Anchos, MemInv, NEW c \in Cpus, Ejecutar(c)
  PROVE  EfectoReal(c)
BY MovInReal, MovOutReal, CopyMemReal, DatosReal, PedidoReal, ComunReal DEF Ejecutar

-----------------------------------------------------------------------------
(* Each step keeps the segments of the processes in the memory and apart.   *)

\* CPU_MOTIVO_CONTINUAR and the contexts that arrive leave a CPU.
LEMMA ContinuarTipo ==
  ASSUME cpu \in [Cpus -> CpuReal], NEW c \in Cpus, NEW r \in Registro, NEW l \in Lista
  PROVE  [cpu EXCEPT ![c].registros = r, ![c].lista = l, ![c].estado = "chequea"]
           \in [Cpus -> CpuReal]
<1> DEFINE x == [[[cpu[c] EXCEPT !.registros = r] EXCEPT !.lista = l] EXCEPT !.estado = "chequea"]
<1>1. cpu[c] \in CpuReal
  OBVIOUS
<1>2. x \in CpuReal
  BY <1>1 DEF CpuReal, EstadosCpu
<1>3. [cpu EXCEPT ![c].registros = r, ![c].lista = l, ![c].estado = "chequea"]
        = [cpu EXCEPT ![c] = x]
  OBVIOUS
<1> HIDE DEF x
<1>4. QED
  BY <1>2, <1>3

\* An instruction that goes on touches the registers of its CPU and bytes.
LEMMA SigueMemoria ==
  ASSUME Anchos, MemInv, NEW c \in Cpus, cpu[c].estado = "ejecuta", SigueCon(c)
  PROVE  Memoria'
<1>1. PICK r \in Registro, l \in Lista : Continuar(c, r, l)
  BY DEF SigueCon
<1>2. cpu' = [cpu EXCEPT ![c].registros = r, ![c].lista = l, ![c].estado = "chequea"]
  BY <1>1 DEF Continuar
<1>3. /\ UNCHANGED <<contextos, sticks, escuchan, swap, estado, pedido, pantalla, avisoVars>>
      /\ memoria_ajena' \in BOOLEAN
  BY DEF SigueCon
<1>4. Tipos'
  <2>1. cpu' \in [Cpus -> CpuReal]
    BY <1>2, ContinuarTipo DEF MemInv, Memoria, Tipos
  <2>2. ram' \in [0 .. Total - 1 -> Bytes]
    BY DEF SigueCon
  <2>3. QED
    BY <1>3, <2>1, <2>2 DEF MemInv, Memoria, Tipos, avisoVars
<1>5. \A d \in Cpus : /\ cpu'[d].pid = cpu[d].pid
                      /\ cpu'[d].estado = IF d = c THEN "chequea" ELSE cpu[d].estado
  BY <1>2 DEF MemInv, CacheInv, Inv, Forma
<1>6. EnMemoria' /\ Separados'
  BY <1>3 DEF MemInv, Memoria, EnMemoria, Separados
<1>7. Libres' = Libres
  BY <1>3 DEF Libres, Ocupados, Segmentos
<1>8. SinPedido'
  BY <1>3, <1>5 DEF MemInv, Memoria, SinPedido
<1>9. Entrara'
  BY <1>3, <1>5, <1>7 DEF MemInv, Memoria, Entrara
<1>10. QED
  BY <1>4, <1>6, <1>8, <1>9 DEF Memoria

\* The process ends: its segments are free.
LEMMA TerminarMemoria ==
  ASSUME Anchos, MemInv, CacheInv', NEW c \in Cpus, cpu[c].estado \in EnCurso,
         NEW l \in Lista, Terminar(c, l)
  PROVE  Memoria'
<1> DEFINE p == cpu[c].pid
<1>1. p \in Pids /\ p # Nadie /\ \A d \in Cpus \ {c} : cpu[d].pid # p
  BY EjecucionOK DEF MemInv, CacheInv, Inv, Reparto, EnCurso
<1>2. /\ estado' = [estado EXCEPT ![p] = "EXIT"]
      /\ contextos' = [contextos EXCEPT ![p] = SinContexto]
      /\ pedido' = [pedido EXCEPT ![p] = Nada]
      /\ cpu' = [cpu EXCEPT ![c] = Libre(l)]
      /\ swap' = [swap EXCEPT ![p] = <<>>]
      /\ UNCHANGED <<ram, sticks, escuchan, pantalla, suspVars>>
  BY DEF Terminar
<1>3. SinContexto \in ContextoReal
      /\ SinContexto.tabla = <<>>
  <2>1. EnCero \in Registro
    BY EnCeroTipo
  <2>2. QED
    BY <2>1 DEF SinContexto, Contexto, ContextoReal
<1>4. Libre(l) \in CpuReal
      /\ Libre(l).pid = Nadie /\ Libre(l).estado = "libre"
  <2>1. EnCero \in Registro
    BY EnCeroTipo
  <2>2. QED
    BY <2>1 DEF Libre, EstadosCpu, CpuReal
<1> HIDE DEF p
<1>5. Tipos'
  <2>1. /\ contextos' \in [Pids -> ContextoReal]
        /\ cpu' \in [Cpus -> CpuReal]
    BY <1>2, <1>3, <1>4 DEF MemInv, Memoria, Tipos
  <2>2. estado' \in [Pids -> EstadosProceso] /\ pedido' \in [Pids -> PedidosReales]
    BY <1>2 DEF MemInv, Memoria, Tipos, EstadosProceso, PedidosReales
  <2>3. swap' \in [Pids -> Seq(Guardado)]
    <3>1. <<>> \in Seq(Guardado)
      OBVIOUS
    <3>2. QED
      BY <1>2, <3>1 DEF MemInv, Memoria, Tipos
  <2>4. QED
    BY <1>2, <2>1, <2>2, <2>3 DEF MemInv, Memoria, Tipos, suspVars, avisoVars
<1>6. \A q \in Pids : /\ contextos'[q].tabla \in {contextos[q].tabla, <<>>}
                      /\ contextos[q].tabla = <<>> => contextos'[q].tabla = <<>>
                      /\ q # p => estado'[q] = estado[q] /\ pedido'[q] = pedido[q]
  BY <1>2, <1>3 DEF MemInv, Memoria, Tipos
<1>7. /\ \A d \in Cpus \ {c} : cpu'[d] = cpu[d] /\ cpu'[d].pid # p
      /\ cpu'[c].estado = "libre"
      /\ estado'[p] = "EXIT"
  BY <1>1, <1>2, <1>4 DEF MemInv, Memoria, Tipos, p
<1>8. /\ EnMemoria' /\ Separados' /\ Cardinality(Libres) <= Cardinality(Libres)'
      /\ Cardinality(Libres) \in Nat /\ Cardinality(Libres)' \in Nat
  <2>1. sticks <= sticks'
    BY <1>2 DEF MemInv, Memoria, Tipos
  <2>2. QED
    BY <1>5, <1>6, <2>1, TablasMenos DEF MemInv, Memoria
<1>9. SinPedido'
  <2>1. \A q \in Pids : estado'[q] \in {"READY", "SUSP_READY"} => pedido'[q] = Nada
    BY <1>6, <1>7 DEF MemInv, Memoria, SinPedido
  <2>2. ASSUME NEW d \in Cpus, cpu'[d].estado \in {"asignada", "ejecuta", "chequea", "refresca"}
        PROVE  pedido'[cpu'[d].pid] = Nada
    <3>1. d # c /\ cpu'[d] = cpu[d] /\ cpu[d].pid # p
      BY <1>7, <2>2
    <3>2. cpu[d].pid \in Pids
      BY <2>2, <3>1 DEF MemInv, CacheInv, Inv, Reparto
    <3>3. QED
      BY <1>6, <2>2, <3>1, <3>2 DEF MemInv, Memoria, SinPedido
  <2>3. QED
    BY <2>1, <2>2 DEF SinPedido
<1>10. Entrara'
  <2> SUFFICES ASSUME NEW d \in Cpus, cpu'[d].estado = "compacta"
               PROVE  /\ pedido'[cpu'[d].pid].tam <= TamMaxSegmento
                      /\ pedido'[cpu'[d].pid].tam <= Cardinality(Libres)'
                      /\ \A e \in Cpus \ {d} : cpu'[e].estado # "compacta"
    BY DEF Entrara
  <2>1. d # c /\ cpu'[d] = cpu[d] /\ cpu[d].pid # p
    BY <1>7
  <2>2. cpu[d].pid \in Pids /\ pedido[cpu[d].pid].op = "MEM_ALLOC"
    BY <2>1 DEF MemInv, CacheInv, Inv, Reparto, EstadoEnCpu
  <2>3. pedido'[cpu'[d].pid] = pedido[cpu[d].pid]
    BY <1>6, <2>1, <2>2
  <2>4. /\ pedido[cpu[d].pid].tam <= TamMaxSegmento
        /\ pedido[cpu[d].pid].tam <= Cardinality(Libres)
        /\ \A e \in Cpus \ {d} : cpu[e].estado # "compacta"
    BY <2>1 DEF MemInv, Memoria, Entrara
  <2>5. pedido[cpu[d].pid].tam \in Nat
    <3>1. pedido[cpu[d].pid] \in PedidosReales
      BY <2>2 DEF MemInv, Memoria, Tipos
    <3>2. QED
      BY <2>2, <3>1 DEF PedidosReales, PedidosDeMemoria, PedidosDeIo, PedidosDeDatos, Nada
  <2>6. QED
    BY <1>7, <1>8, <2>1, <2>3, <2>4, <2>5
<1>11. QED
  BY <1>5, <1>8, <1>9, <1>10 DEF Memoria

\* Steps that leave the segments as they are: what is left to see is who waits for what.
LEMMA IgualMemoria ==
  ASSUME MemInv, Tipos', UNCHANGED sticks,
         \A q \in Pids : contextos'[q].tabla = contextos[q].tabla,
         SinPedido',
         \A c \in Cpus : cpu'[c].estado = "compacta" =>
           /\ cpu[c].estado = "compacta"
           /\ pedido'[cpu'[c].pid] = pedido[cpu[c].pid]
           /\ \A d \in Cpus \ {c} : cpu[d].estado # "compacta" => cpu'[d].estado # "compacta"
  PROVE  Memoria'
<1>1. sticks <= sticks'
  BY DEF MemInv, Memoria, Tipos
<1>2. /\ EnMemoria' /\ Separados' /\ Cardinality(Libres) <= Cardinality(Libres)'
      /\ Cardinality(Libres) \in Nat /\ Cardinality(Libres)' \in Nat
  BY <1>1, TablasMenos DEF MemInv, Memoria
<1>3. Entrara'
  <2> SUFFICES ASSUME NEW c \in Cpus, cpu'[c].estado = "compacta"
               PROVE  /\ pedido'[cpu'[c].pid].tam <= TamMaxSegmento
                      /\ pedido'[cpu'[c].pid].tam <= Cardinality(Libres)'
                      /\ \A d \in Cpus \ {c} : cpu'[d].estado # "compacta"
    BY DEF Entrara
  <2>1. cpu[c].estado = "compacta" /\ pedido'[cpu'[c].pid] = pedido[cpu[c].pid]
    OBVIOUS
  <2>2. /\ pedido[cpu[c].pid].tam <= TamMaxSegmento
        /\ pedido[cpu[c].pid].tam <= Cardinality(Libres)
        /\ \A d \in Cpus \ {c} : cpu[d].estado # "compacta"
    BY <2>1 DEF MemInv, Memoria, Entrara
  <2>3. pedido[cpu[c].pid].tam \in Nat
    <3>1. cpu[c].pid \in Pids /\ pedido[cpu[c].pid].op = "MEM_ALLOC"
      BY <2>1 DEF MemInv, CacheInv, Inv, Reparto, EstadoEnCpu
    <3>2. pedido[cpu[c].pid] \in PedidosReales
      BY <3>1 DEF MemInv, Memoria, Tipos
    <3>3. QED
      BY <3>1, <3>2 DEF PedidosReales, PedidosDeMemoria, PedidosDeIo, PedidosDeDatos, Nada
  <2>4. QED
    BY <1>2, <2>1, <2>2, <2>3
<1>4. QED
  BY <1>2, <1>3 DEF Memoria

\* A process that a CPU has is of that CPU only, and not in the SWAP unless a suspension
\* was told too late.
LEMMA ProcesoEnCpu ==
  ASSUME MemInv, NEW c \in Cpus, cpu[c].estado # "libre"
  PROVE  /\ cpu[c].pid \in Pids /\ (~ memoria_ajena => swap[cpu[c].pid] = <<>>)
         /\ estado[cpu[c].pid] \in {"EXEC", "BLOCK"}
         /\ \A d \in Cpus \ {c} : cpu[d].pid # cpu[c].pid
<1>1. cpu[c].pid \in Pids /\ cpu[c].pid # Nadie
  BY EjecucionOK DEF MemInv, CacheInv, Inv, Reparto
<1>2. estado[cpu[c].pid] \in {"EXEC", "BLOCK"}
  BY DEF MemInv, CacheInv, Inv, EstadoEnCpu, EstadosEnCpu, EstadosCpu
<1>3. ~ memoria_ajena => swap[cpu[c].pid] = <<>>
  BY <1>1, <1>2 DEF MemInv, EnSwap, Suspendido
<1>4. QED
  BY <1>1, <1>2, <1>3 DEF MemInv, CacheInv, Inv, Reparto

\* ejecutar_syscall_mem_alloc, ejecutar_syscall_mem_free.
LEMMA PedirMemoria ==
  ASSUME Anchos, MemInv, NEW c \in Cpus, cpu[c].estado = "ejecuta",
         NEW x \in PedidosDeMemoria, PedirYEsperar(c, x)
  PROVE  Memoria'
<1> DEFINE p == cpu[c].pid
           r == Avanzar(Reg(c))
<1>1. p \in Pids /\ estado[p] \in {"EXEC", "BLOCK"}
      /\ \A d \in Cpus \ {c} : cpu[d].pid # p
  BY ProcesoEnCpu
<1>2. r \in Registro
  BY AvanzarTipo, CpuEjecuta
<1>3. /\ contextos' = [contextos EXCEPT ![p].registros = r]
      /\ cpu' = [cpu EXCEPT ![c].registros = Avanzar(@), ![c].estado = "respuesta"]
      /\ pedido' = [pedido EXCEPT ![p] = x]
      /\ UNCHANGED <<memVars, estado, pantalla, suspVars>>
  BY DEF PedirYEsperar, GuardarContexto
<1>4. Avanzar(cpu[c].registros) = r
  BY DEF Reg
<1> HIDE DEF p, r
<1>5. cpu' \in [Cpus -> CpuReal] /\ contextos' \in [Pids -> ContextoReal]
  <2>1. [[cpu[c] EXCEPT !.registros = r] EXCEPT !.estado = "respuesta"] \in CpuReal
    BY <1>2 DEF MemInv, Memoria, Tipos, CpuReal, EstadosCpu
  <2>2. cpu' = [cpu EXCEPT ![c] = [[cpu[c] EXCEPT !.registros = r] EXCEPT !.estado = "respuesta"]]
    BY <1>3, <1>4 DEF MemInv, Memoria, Tipos
  <2>3. [contextos[p] EXCEPT !.registros = r] \in ContextoReal
    <3>1. contextos[p] \in ContextoReal
      BY <1>1 DEF MemInv, Memoria, Tipos
    <3>2. QED
      BY <1>2, <3>1 DEF ContextoReal
  <2>4. QED
    BY <1>3, <2>1, <2>2, <2>3 DEF MemInv, Memoria, Tipos
<1>6. pedido' \in [Pids -> PedidosReales]
  BY <1>3 DEF MemInv, Memoria, Tipos, PedidosReales
<1>7. Tipos'
  BY <1>3, <1>5, <1>6 DEF MemInv, Memoria, Tipos, memVars, suspVars, avisoVars
<1>8. /\ \A q \in Pids : /\ contextos'[q].tabla = contextos[q].tabla
                         /\ q # p => pedido'[q] = pedido[q]
      /\ \A d \in Cpus : /\ cpu'[d].pid = cpu[d].pid
                         /\ cpu'[d].estado = IF d = c THEN "respuesta" ELSE cpu[d].estado
  BY <1>3 DEF MemInv, Memoria, Tipos, ContextoReal, CpuReal
<1>9. SinPedido'
  <2>1. \A q \in Pids : estado'[q] \in {"READY", "SUSP_READY"} => pedido'[q] = Nada
    BY <1>1, <1>3, <1>8 DEF MemInv, Memoria, SinPedido
  <2>2. ASSUME NEW d \in Cpus, cpu'[d].estado \in {"asignada", "ejecuta", "chequea", "refresca"}
        PROVE  pedido'[cpu'[d].pid] = Nada
    <3>1. d # c /\ cpu[d].pid \in Pids /\ cpu[d].pid # p
      BY <1>1, <1>8, <2>2 DEF MemInv, CacheInv, Inv, Reparto
    <3>2. QED
      BY <1>8, <2>2, <3>1 DEF MemInv, Memoria, SinPedido
  <2>3. QED
    BY <2>1, <2>2 DEF SinPedido
<1>10. \A d \in Cpus : cpu'[d].estado = "compacta" =>
         /\ cpu[d].estado = "compacta"
         /\ pedido'[cpu'[d].pid] = pedido[cpu[d].pid]
         /\ \A e \in Cpus \ {d} : cpu[e].estado # "compacta" => cpu'[e].estado # "compacta"
  BY <1>1, <1>8 DEF MemInv, CacheInv, Inv, Reparto
<1>11. QED
  BY <1>3, <1>7, <1>8, <1>9, <1>10, IgualMemoria DEF memVars

\* A CPU leaves its process: it blocks for a device, or its quantum is over.
LEMMA DejarMemoria ==
  ASSUME Anchos, MemInv, NEW c \in Cpus, cpu[c].estado \in {"ejecuta", "chequea"},
         NEW e, NEW x, NEW r \in Registro,
         (e = "READY" /\ x = Nada) \/ (e = "BLOCK" /\ x \in PedidosDeIo),
         GuardarContexto(c, r), Soltar(c),
         estado' = [estado EXCEPT ![cpu[c].pid] = e],
         pedido' = [pedido EXCEPT ![cpu[c].pid] = x],
         memoria_ajena' \in BOOLEAN, UNCHANGED <<memVars, pantalla, avisoVars>>
  PROVE  Memoria'
<1> DEFINE p == cpu[c].pid
<1>1. p \in Pids /\ \A d \in Cpus \ {c} : cpu[d].pid # p
  BY ProcesoEnCpu
<1>2. contextos' = [contextos EXCEPT ![p].registros = r]
  BY DEF GuardarContexto
<1>3. cpu' = [cpu EXCEPT ![c] = Libre(cpu[c].lista)]
  BY DEF Soltar, MemInv, Memoria, Tipos
<1>4. Libre(cpu[c].lista) \in CpuReal /\ Libre(cpu[c].lista).estado = "libre"
  <2>1. EnCero \in Registro /\ cpu[c].lista \in Lista
    BY EnCeroTipo DEF MemInv, Memoria, Tipos, CpuReal
  <2>2. QED
    BY <2>1 DEF Libre, CpuReal, EstadosCpu
<1>5. estado' = [estado EXCEPT ![p] = e] /\ pedido' = [pedido EXCEPT ![p] = x]
  OBVIOUS
<1> HIDE DEF p
<1>6. cpu' \in [Cpus -> CpuReal] /\ contextos' \in [Pids -> ContextoReal]
  <2>1. [contextos[p] EXCEPT !.registros = r] \in ContextoReal
    <3>1. contextos[p] \in ContextoReal
      BY <1>1 DEF MemInv, Memoria, Tipos
    <3>2. QED
      BY <3>1 DEF ContextoReal
  <2>2. QED
    BY <1>2, <1>3, <1>4, <2>1 DEF MemInv, Memoria, Tipos
<1>7. estado' \in [Pids -> EstadosProceso] /\ pedido' \in [Pids -> PedidosReales]
  <2>1. e \in EstadosProceso /\ x \in PedidosReales
    BY DEF EstadosProceso, PedidosReales
  <2>2. estado \in [Pids -> EstadosProceso] /\ pedido \in [Pids -> PedidosReales]
    BY DEF MemInv, Memoria, Tipos
  <2>3. QED
    BY <1>5, <2>1, <2>2
<1>8. Tipos'
  BY <1>6, <1>7 DEF MemInv, Memoria, Tipos, memVars, avisoVars
<1>9. /\ \A q \in Pids : /\ contextos'[q].tabla = contextos[q].tabla
                         /\ q # p => pedido'[q] = pedido[q] /\ estado'[q] = estado[q]
      /\ estado'[p] = e /\ pedido'[p] = x
      /\ \A d \in Cpus \ {c} : cpu'[d] = cpu[d] /\ cpu[d].pid # p
      /\ cpu'[c].estado = "libre"
  BY <1>1, <1>2, <1>3, <1>4, <1>5 DEF MemInv, Memoria, Tipos, ContextoReal
<1>10. SinPedido'
  <2>1. \A q \in Pids : estado'[q] \in {"READY", "SUSP_READY"} => pedido'[q] = Nada
    BY <1>9 DEF MemInv, Memoria, SinPedido
  <2>2. ASSUME NEW d \in Cpus, cpu'[d].estado \in {"asignada", "ejecuta", "chequea", "refresca"}
        PROVE  pedido'[cpu'[d].pid] = Nada
    <3>1. d # c /\ cpu'[d] = cpu[d] /\ cpu[d].pid # p
      BY <1>9, <2>2
    <3>2. cpu[d].pid \in Pids
      BY <2>2, <3>1 DEF MemInv, CacheInv, Inv, Reparto
    <3>3. QED
      BY <1>9, <2>2, <3>1, <3>2 DEF MemInv, Memoria, SinPedido
  <2>3. QED
    BY <2>1, <2>2 DEF SinPedido
<1>11. \A d \in Cpus : cpu'[d].estado = "compacta" =>
         /\ cpu[d].estado = "compacta"
         /\ pedido'[cpu'[d].pid] = pedido[cpu[d].pid]
         /\ \A f \in Cpus \ {d} : cpu[f].estado # "compacta" => cpu'[f].estado # "compacta"
  BY <1>9 DEF MemInv, CacheInv, Inv, Reparto
<1>12. QED
  BY <1>8, <1>9, <1>10, <1>11, IgualMemoria DEF memVars

\* Every instruction.
LEMMA EfectoMemoria ==
  ASSUME Anchos, MemInv, CacheInv', NEW c \in Cpus, EfectoReal(c)
  PROVE  Memoria'
<1>1. cpu[c].estado = "ejecuta"
  BY DEF EfectoReal
<1>2. CASE SigueCon(c)
  BY <1>1, <1>2, SigueMemoria
<1>3. ASSUME NEW l \in Lista, Terminar(c, l) PROVE Memoria'
  BY <1>1, <1>3, TerminarMemoria DEF EnCurso
<1>4. ASSUME NEW x \in PedidosDeMemoria, PedirYEsperar(c, x) PROVE Memoria'
  BY <1>1, <1>4, PedirMemoria
<1>5. ASSUME memoria_ajena' \in BOOLEAN, NEW x \in PedidosDeIo, Bloquear(c, x)
      PROVE  Memoria'
  <2>1. Avanzar(Reg(c)) \in Registro
    BY <1>1, AvanzarTipo, CpuEjecuta
  <2>2. /\ GuardarContexto(c, Avanzar(Reg(c))) /\ Soltar(c)
        /\ estado' = [estado EXCEPT ![cpu[c].pid] = "BLOCK"]
        /\ pedido' = [pedido EXCEPT ![cpu[c].pid] = x]
        /\ UNCHANGED <<memVars, pantalla, avisoVars>>
    BY <1>5 DEF Bloquear
  <2>3. QED
    BY <1>1, <1>5, <2>1, <2>2, DejarMemoria
<1>6. QED
  BY <1>2, <1>3, <1>4, <1>5 DEF EfectoReal

\* check_interrupt: an interrupt.
LEMMA InterrumpirMemoria ==
  ASSUME Anchos, MemInv, NEW c \in Cpus, Interrumpir(c)
  PROVE  Memoria'
<1>1. cpu[c].estado = "chequea" /\ Reg(c) \in Registro
  BY DEF Interrumpir, MemInv, Memoria, Tipos, CpuReal, Reg
<1>2. pedido[cpu[c].pid] = Nada
  BY <1>1 DEF MemInv, Memoria, SinPedido
<1>3. pedido' = [pedido EXCEPT ![cpu[c].pid] = Nada]
  BY <1>2 DEF Interrumpir, MemInv, Memoria, Tipos
<1>4. memoria_ajena' \in BOOLEAN /\ UNCHANGED <<memVars, pantalla, avisoVars>>
  BY DEF Interrumpir, MemInv, Memoria, Tipos, suspVars
<1>5. QED
  BY <1>1, <1>3, <1>4, DejarMemoria DEF Interrumpir

\* OP_EJECUTAR_PROCESO.
LEMMA DespacharMemoria ==
  ASSUME Anchos, MemInv, NEW c \in Cpus, NEW p \in Pids, Despachar(c, p)
  PROVE  Memoria'
<1>1. /\ cpu[c].estado = "libre" /\ estado[p] = "READY"
      /\ estado' = [estado EXCEPT ![p] = "EXEC"]
      /\ cpu' = [cpu EXCEPT ![c].estado = "asignada", ![c].pid = p]
      /\ UNCHANGED <<contextos, memVars, pedido, pantalla, suspVars>>
  BY DEF Despachar
<1>2. pedido[p] = Nada
  BY <1>1 DEF MemInv, Memoria, SinPedido
<1>3. cpu' \in [Cpus -> CpuReal]
  <2>1. [[cpu[c] EXCEPT !.estado = "asignada"] EXCEPT !.pid = p] \in CpuReal
    BY DEF MemInv, Memoria, Tipos, CpuReal, EstadosCpu
  <2>2. cpu' = [cpu EXCEPT ![c] = [[cpu[c] EXCEPT !.estado = "asignada"] EXCEPT !.pid = p]]
    BY <1>1 DEF MemInv, Memoria, Tipos
  <2>3. QED
    BY <2>1, <2>2 DEF MemInv, Memoria, Tipos
<1>4. Tipos'
  BY <1>1, <1>3 DEF MemInv, Memoria, Tipos, EstadosProceso, memVars, suspVars, avisoVars
<1>5. /\ \A q \in Pids \ {p} : estado'[q] = estado[q]
      /\ estado'[p] = "EXEC"
      /\ \A d \in Cpus \ {c} : cpu'[d] = cpu[d]
      /\ cpu'[c].estado = "asignada" /\ cpu'[c].pid = p
  BY <1>1 DEF MemInv, Memoria, Tipos, CpuReal
<1>6. SinPedido'
  <2>1. SinPedido /\ pedido' = pedido
    BY <1>1 DEF MemInv, Memoria
  <2>2. \A q \in Pids : estado'[q] \in {"READY", "SUSP_READY"} => pedido'[q] = Nada
    <3> SUFFICES ASSUME NEW q \in Pids, estado'[q] \in {"READY", "SUSP_READY"}
                 PROVE  pedido'[q] = Nada
      OBVIOUS
    <3>1. q # p
      BY <1>5
    <3>2. estado[q] = estado'[q]
      BY <1>5, <3>1
    <3>3. QED
      BY <2>1, <3>2 DEF SinPedido
  <2>3. \A d \in Cpus : cpu'[d].estado \in {"asignada", "ejecuta", "chequea", "refresca"}
                          => pedido'[cpu'[d].pid] = Nada
    <3> SUFFICES ASSUME NEW d \in Cpus,
                        cpu'[d].estado \in {"asignada", "ejecuta", "chequea", "refresca"}
                 PROVE  pedido'[cpu'[d].pid] = Nada
      OBVIOUS
    <3>1. CASE d = c
      BY <1>2, <1>5, <2>1, <3>1
    <3>2. CASE d # c
      <4>1. cpu'[d] = cpu[d]
        BY <1>5, <3>2
      <4>2. QED
        BY <2>1, <4>1 DEF SinPedido
    <3>3. QED
      BY <3>1, <3>2
  <2>4. QED
    BY <2>2, <2>3 DEF SinPedido
<1>7. \A d \in Cpus : cpu'[d].estado = "compacta" =>
         /\ cpu[d].estado = "compacta"
         /\ pedido'[cpu'[d].pid] = pedido[cpu[d].pid]
         /\ \A f \in Cpus \ {d} : cpu[f].estado # "compacta" => cpu'[f].estado # "compacta"
  BY <1>1, <1>5
<1>8. QED
  BY <1>1, <1>4, <1>6, <1>7, IgualMemoria DEF memVars

\* obtener_contexto, and check_interrupt without an interrupt.
LEMMA ObtenerMemoria ==
  ASSUME Anchos, MemInv, NEW c \in Cpus, ObtenerContexto(c) \/ NoInterrumpir(c)
  PROVE  Memoria'
<1> DEFINE p == cpu[c].pid
<1>0. cpu[c].estado \in {"asignada", "refresca", "chequea"} /\ p \in Pids
  BY ProcesoEnCpu DEF ObtenerContexto, NoInterrumpir
<1>1. PICK r \in Registro : \E t \in Seq(SegmentoReal), e \in {"ejecuta", "chequea"} :
        cpu' = [cpu EXCEPT ![c].registros = r, ![c].tabla = t, ![c].estado = e]
  <2>1. CASE ObtenerContexto(c)
    <3>1. contextos[p].registros \in Registro /\ contextos[p].tabla \in Seq(SegmentoReal)
      BY <1>0 DEF MemInv, Memoria, Tipos, ContextoReal
    <3>2. cpu' = [cpu EXCEPT ![c].registros = contextos[p].registros,
                             ![c].tabla = contextos[p].tabla,
                             ![c].estado = IF cpu[c].estado = "asignada" THEN "ejecuta"
                                           ELSE "chequea"]
      BY <2>1 DEF ObtenerContexto, MemInv, Memoria, Tipos, CpuReal
    <3>3. QED
      BY <3>1, <3>2
  <2>2. CASE NoInterrumpir(c)
    <3>1. cpu[c].registros \in Registro /\ cpu[c].tabla \in Seq(SegmentoReal)
      BY DEF MemInv, Memoria, Tipos, CpuReal
    <3>2. cpu' = [cpu EXCEPT ![c].registros = cpu[c].registros,
                             ![c].tabla = cpu[c].tabla, ![c].estado = "ejecuta"]
      BY <2>2 DEF NoInterrumpir, MemInv, Memoria, Tipos, CpuReal
    <3>3. QED
      BY <3>1, <3>2
  <2>3. QED
    BY <2>1, <2>2
<1>2. PICK t \in Seq(SegmentoReal), e \in {"ejecuta", "chequea"} :
        cpu' = [cpu EXCEPT ![c].registros = r, ![c].tabla = t, ![c].estado = e]
  BY <1>1
<1>3. /\ UNCHANGED <<contextos, memVars, estado, pedido, pantalla, por_suspender,
                     memoria_ajena, ks_caido>>
      /\ movidos' \subseteq movidos
  BY DEF ObtenerContexto, NoInterrumpir, suspVars, avisoVars
<1>4. pedido[p] = Nada
  BY <1>0 DEF MemInv, Memoria, SinPedido
<1>5. cpu' \in [Cpus -> CpuReal]
  <2>1. [[[cpu[c] EXCEPT !.registros = r] EXCEPT !.tabla = t] EXCEPT !.estado = e] \in CpuReal
    BY DEF MemInv, Memoria, Tipos, CpuReal, EstadosCpu
  <2>2. cpu' = [cpu EXCEPT ![c] =
                 [[[cpu[c] EXCEPT !.registros = r] EXCEPT !.tabla = t] EXCEPT !.estado = e]]
    BY <1>2 DEF MemInv, Memoria, Tipos
  <2>3. QED
    BY <2>1, <2>2 DEF MemInv, Memoria, Tipos
<1>6. Tipos'
  BY <1>3, <1>5 DEF MemInv, Memoria, Tipos, memVars
<1>7. \A d \in Cpus : /\ cpu'[d].pid = cpu[d].pid
                      /\ cpu'[d].estado = IF d = c THEN e ELSE cpu[d].estado
  BY <1>2 DEF MemInv, Memoria, Tipos, CpuReal
<1> HIDE DEF p
<1>8. SinPedido'
  BY <1>3, <1>4, <1>7 DEF MemInv, Memoria, SinPedido, p
<1>9. \A d \in Cpus : cpu'[d].estado = "compacta" =>
         /\ cpu[d].estado = "compacta"
         /\ pedido'[cpu'[d].pid] = pedido[cpu[d].pid]
         /\ \A f \in Cpus \ {d} : cpu[f].estado # "compacta" => cpu'[f].estado # "compacta"
  BY <1>3, <1>7
<1>10. QED
  BY <1>3, <1>6, <1>8, <1>9, IgualMemoria DEF memVars

\* Every step of a CPU.
LEMMA PasoCpuMemoria ==
  ASSUME Anchos, MemInv, CacheInv', NEW c \in Cpus, PasoCpu(c)
  PROVE  Memoria'
<1>1. CASE Ejecutar(c)
  BY <1>1, EjecutarReal, EfectoMemoria
<1>2. QED
  BY <1>1, DespacharMemoria, ObtenerMemoria, InterrumpirMemoria DEF PasoCpu

-----------------------------------------------------------------------------
(* Steps that change the segments.                                          *)

\* A list and another one behind it.
LEMMA IndicesConcatenados ==
  ASSUME NEW S, NEW t \in Seq(S), NEW u \in Seq(S)
  PROVE  /\ t \o u \in Seq(S)
         /\ \A k \in DOMAIN (t \o u) :
              \/ k \in DOMAIN t /\ (t \o u)[k] = t[k]
              \/ k \notin DOMAIN t /\ k - Len(t) \in DOMAIN u /\ (t \o u)[k] = u[k - Len(t)]
         /\ Len(t) \in Nat /\ \A k \in DOMAIN (t \o u) : k \in Nat
<1>1. /\ t \o u \in Seq(S) /\ Len(t \o u) = Len(t) + Len(u)
      /\ \A i \in 1 .. Len(t) + Len(u) : (t \o u)[i] = IF i <= Len(t) THEN t[i] ELSE u[i - Len(t)]
  BY ConcatProperties
<1>2. /\ DOMAIN t = 1 .. Len(t) /\ DOMAIN u = 1 .. Len(u) /\ DOMAIN (t \o u) = 1 .. Len(t \o u)
      /\ Len(t) \in Nat /\ Len(u) \in Nat
  BY <1>1, LenProperties
<1>3. ASSUME NEW k \in 1 .. Len(t) + Len(u)
      PROVE  /\ k \in Nat
             /\ \/ k \in 1 .. Len(t) /\ (t \o u)[k] = t[k]
                \/ k \notin 1 .. Len(t) /\ k - Len(t) \in 1 .. Len(u) /\ (t \o u)[k] = u[k - Len(t)]
  <2>1. CASE k <= Len(t)
    BY <1>1, <1>2, <2>1
  <2>2. CASE ~ (k <= Len(t))
    BY <1>1, <1>2, <2>2
  <2>3. QED
    BY <2>1, <2>2
<1>4. QED
  BY <1>1, <1>2, <1>3

\* The bytes of the segments that there are are not free.
LEMMA OcupadoNoLibre ==
  ASSUME NEW p \in Pids, NEW i \in DOMAIN contextos[p].tabla
  PROVE  Lugar(contextos[p].tabla[i]) \cap Libres = {}
<1>1. <<p, i>> \in Segmentos
  BY DEF Segmentos
<1>2. \A s \in Segmentos : Lugar(contextos[s[1]].tabla[s[2]]) \subseteq Ocupados
  BY DEF Ocupados
<1>3. Lugar(contextos[<<p, i>>[1]].tabla[<<p, i>>[2]]) \subseteq Ocupados
  BY <1>1, <1>2
<1>4. Lugar(contextos[p].tabla[i]) \subseteq Ocupados
  BY <1>3
<1>5. QED
  BY <1>4 DEF Libres

\* A context with another table.
LEMMA ContextoConTabla ==
  ASSUME NEW x \in ContextoReal, NEW u \in Seq(SegmentoReal)
  PROVE  [x EXCEPT !.tabla = u] \in ContextoReal
  BY DEF ContextoReal

\* segmento_crear and proceso_dessuspender: the new segments are in bytes that were
\* free, and apart from each other.
LEMMA TablaMas ==
  ASSUME Tipos, EnMemoria, Separados, sticks' = sticks, NEW p \in Pids,
         NEW nuevos \in Seq(SegmentoReal),
         contextos' = [contextos EXCEPT ![p].tabla = @ \o nuevos],
         \A i \in DOMAIN nuevos :
           /\ nuevos[i].base \in HuecosPara(nuevos[i].limite)
           /\ \A j \in 1 .. i - 1 : Lugar(nuevos[i]) \cap Lugar(nuevos[j]) = {}
  PROVE  EnMemoria' /\ Separados' /\ contextos' \in [Pids -> ContextoReal]
<1> DEFINE t == contextos[p].tabla
           Viejo(q, i) == /\ i \in DOMAIN contextos[q].tabla
                          /\ contextos'[q].tabla[i] = contextos[q].tabla[i]
           Nuevo(q, i) == /\ q = p /\ i - Len(t) \in DOMAIN nuevos
                          /\ contextos'[q].tabla[i] = nuevos[i - Len(t)]
<1>1. t \in Seq(SegmentoReal)
  BY DEF Tipos, ContextoReal
<1>2. /\ contextos'[p].tabla = t \o nuevos
      /\ \A q \in Pids \ {p} : contextos'[q].tabla = contextos[q].tabla
  BY DEF Tipos, ContextoReal
<1>3. \A q \in Pids : \A i \in DOMAIN contextos'[q].tabla : Viejo(q, i) \/ Nuevo(q, i)
  <2>1. ASSUME NEW i \in DOMAIN contextos'[p].tabla PROVE Viejo(p, i) \/ Nuevo(p, i)
    BY <1>1, <1>2, IndicesConcatenados
  <2>2. ASSUME NEW q \in Pids \ {p}, NEW i \in DOMAIN contextos'[q].tabla PROVE Viejo(q, i)
    BY <1>2
  <2>3. QED
    BY <2>1, <2>2
<1>4. Len(t) \in Nat /\ \A i \in DOMAIN contextos'[p].tabla : i \in Nat
  BY <1>1, <1>2, IndicesConcatenados
<1>5. PICK m \in Nat : m = Base[sticks + 1]
  <2>1. sticks \in 1 .. Len(TamSticks)
    BY DEF Tipos
  <2>2. QED
    BY <2>1, MemoriaDe
<1>6. ASSUME NEW i \in DOMAIN nuevos
      PROVE  /\ Lugar(nuevos[i]) \subseteq Libres
             /\ nuevos[i].base + nuevos[i].limite <= m
             /\ i \in Nat
  <2>1. /\ nuevos[i].base \in Libres
        /\ nuevos[i].base .. nuevos[i].base + nuevos[i].limite - 1 \subseteq Libres
    BY DEF HuecosPara
  <2>2. Libres \subseteq 0 .. m - 1
    BY <1>5 DEF Libres
  <2>3. nuevos[i] \in SegmentoReal /\ i \in Nat
    OBVIOUS
  <2>4. nuevos[i].base \in Nat /\ nuevos[i].limite \in Nat
    BY <2>3, MmuOK DEF SegmentoReal
  <2>5. nuevos[i].base + nuevos[i].limite <= m
    <3>1. CASE nuevos[i].limite = 0
      <4>1. nuevos[i].base \in 0 .. m - 1
        BY <2>1, <2>2
      <4>2. QED
        BY <1>5, <2>4, <3>1, <4>1
    <3>2. CASE nuevos[i].limite # 0
      <4>1. nuevos[i].base + nuevos[i].limite - 1
              \in nuevos[i].base .. nuevos[i].base + nuevos[i].limite - 1
        BY <2>4, <3>2
      <4>2. nuevos[i].base + nuevos[i].limite - 1 \in 0 .. m - 1
        BY <2>1, <2>2, <4>1
      <4>3. QED
        BY <1>5, <2>4, <4>2
    <3>3. QED
      BY <3>1, <3>2
  <2>6. QED
    BY <2>1, <2>3, <2>5 DEF Lugar
<1>7. EnMemoria'
  <2> SUFFICES ASSUME NEW q \in Pids, NEW i \in DOMAIN contextos'[q].tabla
               PROVE  contextos'[q].tabla[i].base + contextos'[q].tabla[i].limite <= m
    BY <1>5 DEF EnMemoria
  <2>1. CASE Viejo(q, i)
    BY <1>5, <2>1 DEF EnMemoria
  <2>2. CASE Nuevo(q, i)
    BY <1>6, <2>2
  <2>3. QED
    BY <1>3, <2>1, <2>2
<1>8. Separados'
  <2> SUFFICES ASSUME NEW q \in Pids, NEW r \in Pids, NEW i \in DOMAIN contextos'[q].tabla,
                      NEW j \in DOMAIN contextos'[r].tabla, q # r \/ i # j
               PROVE  Lugar(contextos'[q].tabla[i]) \cap Lugar(contextos'[r].tabla[j]) = {}
    BY DEF Separados
  <2>1. CASE Viejo(q, i) /\ Viejo(r, j)
    BY <2>1 DEF Separados
  <2>2. CASE Viejo(q, i) /\ Nuevo(r, j)
    BY <1>6, <2>2, OcupadoNoLibre
  <2>3. CASE Nuevo(q, i) /\ Viejo(r, j)
    BY <1>6, <2>3, OcupadoNoLibre
  <2>4. CASE Nuevo(q, i) /\ Nuevo(r, j)
    <3> DEFINE a == i - Len(t)
               b == j - Len(t)
    <3>1. i \in Nat /\ j \in Nat /\ i # j
      BY <1>4, <2>4
    <3>2. a \in DOMAIN nuevos /\ b \in DOMAIN nuevos /\ a # b
      BY <1>4, <2>4, <3>1
    <3> HIDE DEF a, b
    <3>3. a \in Nat /\ b \in Nat /\ a >= 1 /\ b >= 1
      BY <3>2
    <3>4. a \in 1 .. b - 1 \/ b \in 1 .. a - 1
      BY <3>2, <3>3
    <3>5. Lugar(nuevos[a]) \cap Lugar(nuevos[b]) = {}
      BY <3>2, <3>4
    <3>6. QED
      BY <2>4, <3>5 DEF a, b
  <2>5. QED
    BY <1>3, <2>1, <2>2, <2>3, <2>4
<1>9. contextos' \in [Pids -> ContextoReal]
  <2>1. t \o nuevos \in Seq(SegmentoReal)
    BY <1>1, IndicesConcatenados
  <2>2. contextos \in [Pids -> ContextoReal]
    BY DEF Tipos
  <2>3. [contextos[p] EXCEPT !.tabla = t \o nuevos] \in ContextoReal
    BY <2>1, <2>2, ContextoConTabla
  <2>4. QED
    BY <2>2, <2>3
<1>10. QED
  BY <1>7, <1>8, <1>9

\* segmento_eliminar: the other segments stay where they are.
LEMMA TablaSinUna ==
  ASSUME Tipos, EnMemoria, Separados, sticks' = sticks, NEW p \in Pids,
         NEW k \in DOMAIN contextos[p].tabla,
         contextos' = [contextos EXCEPT ![p].tabla = RemoveAt(@, k)]
  PROVE  EnMemoria' /\ Separados' /\ contextos' \in [Pids -> ContextoReal]
<1> DEFINE t == contextos[p].tabla
           De(q, i) == IF q = p /\ i >= k THEN i + 1 ELSE i
<1>1. t \in Seq(SegmentoReal) /\ DOMAIN t = 1 .. Len(t) /\ Len(t) \in Nat /\ k \in Nat
  BY DEF Tipos, ContextoReal
<1>2. /\ RemoveAt(t, k) \in Seq(SegmentoReal)
      /\ Len(RemoveAt(t, k)) = Len(t) - 1
      /\ \A i \in 1 .. Len(t) - 1 : RemoveAt(t, k)[i] = IF i < k THEN t[i] ELSE t[i + 1]
  <2>1. k \in 1 .. Len(t)
    BY <1>1
  <2>2. QED
    BY <1>1, <2>1, RemoveAtElementos
<1>3. /\ contextos'[p].tabla = RemoveAt(t, k)
      /\ \A q \in Pids \ {p} : contextos'[q].tabla = contextos[q].tabla
  BY DEF Tipos, ContextoReal
<1>4. ASSUME NEW q \in Pids, NEW i \in DOMAIN contextos'[q].tabla
      PROVE  /\ De(q, i) \in DOMAIN contextos[q].tabla /\ i \in Nat
             /\ contextos'[q].tabla[i] = contextos[q].tabla[De(q, i)]
  <2>1. CASE q = p
    <3>1. i \in 1 .. Len(t) - 1
      <4>1. DOMAIN RemoveAt(t, k) = 1 .. Len(RemoveAt(t, k))
        BY <1>2
      <4>2. QED
        BY <1>2, <1>3, <2>1, <4>1
    <3>2. CASE i < k
      BY <1>1, <1>2, <1>3, <2>1, <3>1, <3>2
    <3>3. CASE ~ (i < k)
      BY <1>1, <1>2, <1>3, <2>1, <3>1, <3>3
    <3>4. QED
      BY <3>2, <3>3
  <2>2. CASE q # p
    <3>1. contextos[q].tabla \in Seq(SegmentoReal)
      BY DEF Tipos, ContextoReal
    <3>2. i \in Nat
      BY <1>3, <2>2, <3>1
    <3>3. QED
      BY <1>3, <2>2, <3>2
  <2>3. QED
    BY <2>1, <2>2
<1>5. EnMemoria'
  <2> SUFFICES ASSUME NEW q \in Pids, NEW i \in DOMAIN contextos'[q].tabla
               PROVE  contextos'[q].tabla[i].base + contextos'[q].tabla[i].limite
                        <= Base[sticks + 1]
    BY DEF EnMemoria
  <2> HIDE DEF De
  <2>1. QED
    BY <1>4 DEF EnMemoria
<1>6. Separados'
  <2> SUFFICES ASSUME NEW q \in Pids, NEW r \in Pids, NEW i \in DOMAIN contextos'[q].tabla,
                      NEW j \in DOMAIN contextos'[r].tabla, q # r \/ i # j
               PROVE  Lugar(contextos'[q].tabla[i]) \cap Lugar(contextos'[r].tabla[j]) = {}
    BY DEF Separados
  <2>1. q # r \/ De(q, i) # De(r, j)
    <3>1. i \in Nat /\ j \in Nat
      BY <1>4
    <3>2. QED
      BY <1>1, <3>1
  <2> HIDE DEF De
  <2>2. PICK a \in DOMAIN contextos[q].tabla :
          a = De(q, i) /\ contextos'[q].tabla[i] = contextos[q].tabla[a]
    BY <1>4
  <2>3. PICK b \in DOMAIN contextos[r].tabla :
          b = De(r, j) /\ contextos'[r].tabla[j] = contextos[r].tabla[b]
    BY <1>4
  <2>4. Lugar(contextos[q].tabla[a]) \cap Lugar(contextos[r].tabla[b]) = {}
    BY <2>1, <2>2, <2>3 DEF Separados
  <2>5. QED
    BY <2>2, <2>3, <2>4
<1>7. contextos' \in [Pids -> ContextoReal]
  <2>1. contextos \in [Pids -> ContextoReal]
    BY DEF Tipos
  <2>2. [contextos[p] EXCEPT !.tabla = RemoveAt(t, k)] \in ContextoReal
    BY <1>2, <2>1, ContextoConTabla
  <2>3. QED
    BY <2>1, <2>2
<1>8. QED
  BY <1>5, <1>6, <1>7

\* OP_OK to a MEM_ALLOC or a MEM_FREE, when nobody waits for a compaction.
LEMMA RespuestaMemoria ==
  ASSUME MemInv, NEW c \in Cpus, cpu[c].estado = "respuesta", KmAtiende,
         Responde(c, "refresca"), UNCHANGED <<memVars, estado, pantalla, suspVars>>,
         EnMemoria', Separados', contextos' \in [Pids -> ContextoReal],
         \A q \in Pids \ {cpu[c].pid} : contextos'[q].tabla = contextos[q].tabla
  PROVE  Memoria'
<1> DEFINE p == cpu[c].pid
<1>1. p \in Pids /\ \A d \in Cpus \ {c} : cpu[d].pid # p
  BY ProcesoEnCpu
<1>2. cpu' = [cpu EXCEPT ![c].estado = "refresca"] /\ pedido' = [pedido EXCEPT ![p] = Nada]
  BY DEF Responde
<1> HIDE DEF p
<1>3. Tipos'
  <2>1. cpu' \in [Cpus -> CpuReal]
    <3>1. cpu \in [Cpus -> CpuReal]
      BY DEF MemInv, Memoria, Tipos
    <3>2. [cpu[c] EXCEPT !.estado = "refresca"] \in CpuReal
      BY <3>1 DEF CpuReal, EstadosCpu
    <3>3. cpu' = [cpu EXCEPT ![c] = [cpu[c] EXCEPT !.estado = "refresca"]]
      BY <1>2
    <3>4. QED
      BY <3>1, <3>2, <3>3
  <2>2. pedido' \in [Pids -> PedidosReales]
    BY <1>2 DEF MemInv, Memoria, Tipos, PedidosReales
  <2>3. QED
    BY <2>1, <2>2 DEF MemInv, Memoria, Tipos, memVars, suspVars, avisoVars
<1>4. /\ \A d \in Cpus : /\ cpu'[d].pid = cpu[d].pid
                         /\ cpu'[d].estado = IF d = c THEN "refresca" ELSE cpu[d].estado
      /\ \A q \in Pids : pedido'[q] = IF q = p THEN Nada ELSE pedido[q]
  BY <1>2 DEF MemInv, Memoria, Tipos, CpuReal
<1>5. SinPedido'
  <2>1. \A q \in Pids : estado'[q] \in {"READY", "SUSP_READY"} => pedido'[q] = Nada
    BY <1>4 DEF MemInv, Memoria, SinPedido
  <2>2. ASSUME NEW d \in Cpus, cpu'[d].estado \in {"asignada", "ejecuta", "chequea", "refresca"}
        PROVE  pedido'[cpu'[d].pid] = Nada
    <3>1. CASE d = c
      BY <1>1, <1>4, <3>1 DEF p
    <3>2. CASE d # c
      <4>1. cpu[d].pid \in Pids
        BY <1>4, <2>2, <3>2 DEF MemInv, CacheInv, Inv, Reparto
      <4>2. QED
        BY <1>4, <2>2, <3>2, <4>1 DEF MemInv, Memoria, SinPedido
    <3>3. QED
      BY <3>1, <3>2
  <2>3. QED
    BY <2>1, <2>2 DEF SinPedido
<1>6. Entrara'
  BY <1>4 DEF Entrara, KmAtiende
<1>7. QED
  BY <1>3, <1>5, <1>6 DEF Memoria

\* What a process in a MEM_ALLOC waits for.
LEMMA PedidoDeCrear ==
  ASSUME MemInv, NEW p \in Pids, pedido[p].op = "MEM_ALLOC"
  PROVE  pedido[p].id \in Nat /\ pedido[p].tam \in Nat
<1>1. pedido[p] \in PedidosReales
  BY DEF MemInv, Memoria, Tipos
<1>2. pedido[p] \in [op : {"MEM_ALLOC"}, id : Nat, tam : Nat]
  BY <1>1 DEF PedidosReales, PedidosDeMemoria, PedidosDeIo, PedidosDeDatos, Nada
<1>3. QED
  BY <1>2

\* segmento_crear.
LEMMA CrearMemoria ==
  ASSUME Anchos, MemInv, NEW c \in Cpus, SegmentoCrear(c)
  PROVE  Memoria'
<1> DEFINE p == cpu[c].pid
           x == pedido[p]
<1>1. cpu[c].estado = "respuesta" /\ x.op = "MEM_ALLOC" /\ KmAtiende /\ p \in Pids
  BY ProcesoEnCpu DEF SegmentoCrear, Espera
<1>2. x.tam <= TamMaxSegmento /\ x.id \in Nat /\ x.tam \in Nat
  BY <1>1, PedidoDeCrear DEF SegmentoCrear
<1>3. PICK b \in HuecosPara(x.tam) :
        contextos' = [contextos EXCEPT ![p].tabla =
                        Append(@, [id |-> x.id, base |-> b, limite |-> x.tam])]
  BY DEF SegmentoCrear
<1> DEFINE seg == [id |-> x.id, base |-> b, limite |-> x.tam]
           t == contextos[p].tabla
<1>4. seg \in SegmentoReal
  <2>1. b \in Libres
    BY DEF HuecosPara
  <2>2. Libres \subseteq Nat
    <3>1. sticks \in 1 .. Len(TamSticks)
      BY DEF MemInv, Memoria, Tipos
    <3>2. Base[sticks + 1] \in Nat
      BY <3>1, MemoriaDe
    <3>3. QED
      BY <3>2 DEF Libres
  <2>3. x.tam \in 0 .. TamMaxSegmento
    BY <1>2, MmuOK
  <2>4. QED
    BY <1>2, <2>1, <2>2, <2>3 DEF SegmentoReal
<1> HIDE DEF p, x
<1>5. t \in Seq(SegmentoReal)
  BY <1>1 DEF MemInv, Memoria, Tipos, ContextoReal
<1>6. contextos' = [contextos EXCEPT ![p].tabla = @ \o <<seg>>]
  <2> HIDE DEF seg
  <2>1. Append(t, seg) = t \o <<seg>>
    BY <1>4, <1>5, AppendIsConcat
  <2>2. contextos' = [contextos EXCEPT ![p].tabla = Append(t, seg)]
    BY <1>3 DEF seg
  <2>3. QED
    BY <2>1, <2>2
<1>7. \A i \in DOMAIN <<seg>> :
        /\ <<seg>>[i].base \in HuecosPara(<<seg>>[i].limite)
        /\ \A j \in 1 .. i - 1 : Lugar(<<seg>>[i]) \cap Lugar(<<seg>>[j]) = {}
  <2>1. DOMAIN <<seg>> = {1} /\ <<seg>>[1] = seg /\ 1 .. 1 - 1 = {}
    OBVIOUS
  <2>2. seg.base \in HuecosPara(seg.limite)
    OBVIOUS
  <2> HIDE DEF seg
  <2>3. QED
    BY <2>1, <2>2
<1>8. <<seg>> \in Seq(SegmentoReal)
  BY <1>4
<1>9. UNCHANGED <<memVars, estado, pantalla, suspVars>> /\ Responde(c, "refresca")
  BY DEF SegmentoCrear
<1> HIDE DEF seg
<1>10. EnMemoria' /\ Separados' /\ contextos' \in [Pids -> ContextoReal]
  <2>1. \A u \in Seq(SegmentoReal) :
          /\ contextos' = [contextos EXCEPT ![p].tabla = @ \o u]
          /\ \A i \in DOMAIN u :
               /\ u[i].base \in HuecosPara(u[i].limite)
               /\ \A j \in 1 .. i - 1 : Lugar(u[i]) \cap Lugar(u[j]) = {}
          => EnMemoria' /\ Separados' /\ contextos' \in [Pids -> ContextoReal]
    BY <1>1, <1>9, TablaMas DEF MemInv, Memoria, memVars
  <2>2. QED
    BY <1>6, <1>7, <1>8, <2>1
<1>11. \A q \in Pids \ {p} : contextos'[q].tabla = contextos[q].tabla
  BY <1>3 DEF MemInv, Memoria, Tipos
<1>12. QED
  BY <1>1, <1>9, <1>10, <1>11, RespuestaMemoria DEF p

\* segmento_eliminar.
LEMMA EliminarMemoria ==
  ASSUME Anchos, MemInv, CacheInv', NEW c \in Cpus, SegmentoEliminar(c)
  PROVE  Memoria'
<1> DEFINE p == cpu[c].pid
<1>1. cpu[c].estado = "respuesta" /\ KmAtiende /\ p \in Pids /\ cpu[c].lista \in Lista
  BY ProcesoEnCpu DEF SegmentoEliminar, Espera, MemInv, Memoria, Tipos, CpuReal
<1>2. CASE Terminar(c, cpu[c].lista)
  BY <1>1, <1>2, TerminarMemoria DEF EnCurso
<1>3. ASSUME NEW i \in BuscarSegmento(contextos[p].tabla, pedido[p].id),
             contextos' = [contextos EXCEPT ![p].tabla = RemoveAt(@, i)],
             Responde(c, "refresca"),
             UNCHANGED <<memVars, estado, pantalla, suspVars>>
      PROVE  Memoria'
  <2>1. i \in DOMAIN contextos[p].tabla
    BY DEF BuscarSegmento
  <2>2. EnMemoria' /\ Separados' /\ contextos' \in [Pids -> ContextoReal]
    BY <1>1, <1>3, <2>1, TablaSinUna DEF MemInv, Memoria, memVars
  <2>3. \A q \in Pids \ {p} : contextos'[q].tabla = contextos[q].tabla
    BY <1>3 DEF MemInv, Memoria, Tipos
  <2>4. QED
    BY <1>1, <1>3, <2>2, <2>3, RespuestaMemoria
<1>4. QED
  BY <1>2, <1>3 DEF SegmentoEliminar

\* segmento_crear: too few holes.
LEMMA PedirCompactarMemoria ==
  ASSUME Anchos, MemInv, NEW c \in Cpus, PedirCompactar(c)
  PROVE  Memoria'
<1> DEFINE p == cpu[c].pid
<1>1. cpu[c].estado = "respuesta" /\ KmAtiende /\ p \in Pids
      /\ \A d \in Cpus \ {c} : cpu[d].pid # p
  BY ProcesoEnCpu DEF PedirCompactar, Espera
<1>2. /\ pedido[p].tam <= TamMaxSegmento /\ pedido[p].tam <= Cardinality(Libres)
      /\ estado' = [estado EXCEPT ![p] = "BLOCK"]
      /\ cpu' = [cpu EXCEPT ![c].estado = "compacta"]
      /\ UNCHANGED <<contextos, memVars, pedido, pantalla, suspVars>>
  BY DEF PedirCompactar
<1> HIDE DEF p
<1>3. Tipos'
  <2>1. cpu' \in [Cpus -> CpuReal]
    BY <1>2 DEF MemInv, Memoria, Tipos, CpuReal, EstadosCpu
  <2>2. estado' \in [Pids -> EstadosProceso]
    BY <1>2 DEF MemInv, Memoria, Tipos, EstadosProceso
  <2>3. QED
    BY <1>2, <2>1, <2>2 DEF MemInv, Memoria, Tipos, memVars, suspVars, avisoVars
<1>4. /\ \A d \in Cpus : /\ cpu'[d].pid = cpu[d].pid
                         /\ cpu'[d].estado = IF d = c THEN "compacta" ELSE cpu[d].estado
      /\ \A q \in Pids : estado'[q] = IF q = p THEN "BLOCK" ELSE estado[q]
  BY <1>2 DEF MemInv, Memoria, Tipos, CpuReal
<1>5. EnMemoria' /\ Separados'
  BY <1>2 DEF MemInv, Memoria, EnMemoria, Separados, memVars
<1>6. SinPedido'
  BY <1>2, <1>4 DEF MemInv, Memoria, SinPedido
<1>7. Libres' = Libres
  BY <1>2 DEF Libres, Ocupados, Segmentos, memVars
<1>8. Entrara'
  BY <1>1, <1>2, <1>4, <1>7 DEF Entrara, KmAtiende, p
<1>9. QED
  BY <1>3, <1>5, <1>6, <1>8 DEF Memoria

-----------------------------------------------------------------------------
(* Compaction.                                                              *)

Seg(s) == contextos[s[1]].tabla[s[2]]

\* The bytes of the segments that begin before one: it is moved behind them.
Debajo(s) == UNION {Lugar(Seg(t)) : t \in {u \in Segmentos : Seg(u).base < Seg(s).base}}
NuevaBase(s) == Cardinality(Debajo(s))

\* Two sets with nothing in common are no more than a set that has both.
LEMMA DosPartes ==
  ASSUME NEW C, IsFiniteSet(C), NEW A \in SUBSET C, NEW B \in SUBSET C, A \cap B = {}
  PROVE  /\ Cardinality(A) \in Nat /\ Cardinality(B) \in Nat /\ Cardinality(C) \in Nat
         /\ Cardinality(A) + Cardinality(B) <= Cardinality(C)
         /\ A \cup B = C => Cardinality(A) + Cardinality(B) = Cardinality(C)
<1>1. IsFiniteSet(A) /\ IsFiniteSet(B)
  BY FS_Subset
<1>2. Cardinality(A) \in Nat /\ Cardinality(B) \in Nat /\ Cardinality(C) \in Nat
  BY <1>1, FS_CardinalityType
<1>3. Cardinality(A \cap B) = 0
  BY FS_EmptySet
<1>4. IsFiniteSet(A \cup B)
      /\ Cardinality(A \cup B) = Cardinality(A) + Cardinality(B) - Cardinality(A \cap B)
  BY <1>1, FS_Union
<1>5. A \cup B \in SUBSET C
  OBVIOUS
<1>6. Cardinality(A \cup B) <= Cardinality(C)
  BY <1>5, FS_Subset
<1>7. Cardinality(A \cup B) = Cardinality(A) + Cardinality(B)
  BY <1>2, <1>3, <1>4
<1>8. QED
  BY <1>2, <1>6, <1>7

\* A segment and its place.
LEMMA SegReal ==
  ASSUME Tipos, EnMemoria, NEW s \in Segmentos
  PROVE  /\ s = <<s[1], s[2]>> /\ s[1] \in Pids /\ s[2] \in DOMAIN contextos[s[1]].tabla
         /\ Seg(s) \in SegmentoReal
         /\ Seg(s).base \in Nat /\ Seg(s).limite \in Nat
         /\ Seg(s).base + Seg(s).limite <= Base[sticks + 1]
         /\ Lugar(Seg(s)) \subseteq Ocupados
         /\ IsFiniteSet(Lugar(Seg(s))) /\ Cardinality(Lugar(Seg(s))) = Seg(s).limite
<1>1. PICK p \in Pids : \E i \in DOMAIN contextos[p].tabla : s = <<p, i>>
  BY DEF Segmentos
<1>2. PICK i \in DOMAIN contextos[p].tabla : s = <<p, i>>
  BY <1>1
<1>3. s[1] = p /\ s[2] = i
  BY <1>2
<1>4. /\ Seg(s) \in SegmentoReal /\ Seg(s).base \in Nat /\ Seg(s).limite \in Nat
  BY <1>3, SegmentoNumeros DEF Seg
<1>5. Seg(s).base + Seg(s).limite <= Base[sticks + 1]
  BY <1>3 DEF EnMemoria, Seg
<1>6. Lugar(Seg(s)) \subseteq Ocupados
  BY DEF Ocupados, Seg
<1>7. IsFiniteSet(Lugar(Seg(s))) /\ Cardinality(Lugar(Seg(s))) = Seg(s).limite
  <2>1. PICK a \in Nat, n \in Nat : a = Seg(s).base /\ n = Seg(s).limite
    BY <1>4
  <2>2. IsFiniteSet(a .. a + n - 1) /\ Cardinality(a .. a + n - 1) = n
    <3>1. a \in Int /\ a + n - 1 \in Int
      OBVIOUS
    <3>2. /\ IsFiniteSet(a .. a + n - 1)
          /\ Cardinality(a .. a + n - 1) = IF a > a + n - 1 THEN 0 ELSE (a + n - 1) - a + 1
      BY <3>1, FS_Interval
    <3>3. QED
      BY <3>2
  <2>3. QED
    BY <2>1, <2>2 DEF Lugar
<1>8. QED
  BY <1>2, <1>3, <1>4, <1>5, <1>6, <1>7

\* The bytes that are used and those that are free are all.
LEMMA TodosLosBytes ==
  ASSUME Tipos, EnMemoria
  PROVE  /\ Ocupados \subseteq 0 .. Base[sticks + 1] - 1
         /\ IsFiniteSet(Ocupados)
         /\ Cardinality(Ocupados) \in Nat /\ Cardinality(Libres) \in Nat
         /\ Cardinality(Ocupados) + Cardinality(Libres) = Base[sticks + 1]
<1>1. PICK m \in Nat : /\ m = Base[sticks + 1]
                       /\ IsFiniteSet(0 .. m - 1) /\ Cardinality(0 .. m - 1) = m
  <2>1. sticks \in 1 .. Len(TamSticks)
    BY DEF Tipos
  <2>2. QED
    BY <2>1, MemoriaDe
<1>2. Ocupados \subseteq 0 .. m - 1
  <2> SUFFICES ASSUME NEW a \in Ocupados PROVE a \in 0 .. m - 1
    OBVIOUS
  <2>1. PICK s \in Segmentos : a \in Lugar(Seg(s))
    BY DEF Ocupados, Seg
  <2>2. Seg(s).base \in Nat /\ Seg(s).limite \in Nat /\ Seg(s).base + Seg(s).limite <= m
    BY <1>1, SegReal
  <2>3. QED
    BY <1>1, <2>1, <2>2 DEF Lugar
<1>3. Libres = (0 .. m - 1) \ Ocupados
  BY <1>1 DEF Libres
<1>4. /\ Cardinality(Ocupados) \in Nat /\ Cardinality(Libres) \in Nat
      /\ Cardinality(Ocupados) + Cardinality(Libres) = m
  <2>1. PICK C : C = 0 .. m - 1
    OBVIOUS
  <2>2. /\ Ocupados \in SUBSET C /\ Libres \in SUBSET C
        /\ Ocupados \cap Libres = {} /\ Ocupados \cup Libres = C
    BY <1>2, <1>3, <2>1
  <2>3. IsFiniteSet(C) /\ Cardinality(C) = m
    BY <1>1, <2>1
  <2>4. \A A, B \in SUBSET C : A \cap B = {} /\ A \cup B = C =>
          /\ Cardinality(A) \in Nat /\ Cardinality(B) \in Nat
          /\ Cardinality(A) + Cardinality(B) = Cardinality(C)
    BY <2>3, DosPartes
  <2>5. QED
    BY <2>2, <2>3, <2>4
<1>5. QED
  BY <1>1, <1>2, <1>4, FS_Subset

\* compactar: each segment is moved to an address from which it fits, behind those
\* that began before it and before those that began behind it.
LEMMA BasesNuevas ==
  ASSUME Tipos, EnMemoria, Separados
  PROVE  /\ \A s \in Segmentos :
              /\ NuevaBase(s) \in Nat
              /\ NuevaBase(s) + Seg(s).limite <= Cardinality(Ocupados)
         /\ \A s, t \in Segmentos : Seg(s).base < Seg(t).base =>
              NuevaBase(s) + Seg(s).limite <= NuevaBase(t)
<1>1. \A s, t \in Segmentos : s # t => Lugar(Seg(s)) \cap Lugar(Seg(t)) = {}
  <2> SUFFICES ASSUME NEW s \in Segmentos, NEW t \in Segmentos, s # t
               PROVE  Lugar(Seg(s)) \cap Lugar(Seg(t)) = {}
    OBVIOUS
  <2>1. /\ s[1] \in Pids /\ s[2] \in DOMAIN contextos[s[1]].tabla
        /\ t[1] \in Pids /\ t[2] \in DOMAIN contextos[t[1]].tabla
        /\ s[1] # t[1] \/ s[2] # t[2]
    BY SegReal
  <2>2. QED
    BY <2>1 DEF Separados, Seg
<1>2. IsFiniteSet(Ocupados)
  BY TodosLosBytes
<1>3. ASSUME NEW s \in Segmentos
      PROVE  /\ Debajo(s) \subseteq Ocupados
             /\ Debajo(s) \cap Lugar(Seg(s)) = {}
             /\ IsFiniteSet(Debajo(s))
  <2>1. Debajo(s) \subseteq Ocupados
    BY SegReal DEF Debajo
  <2>2. Debajo(s) \cap Lugar(Seg(s)) = {}
    <3> SUFFICES ASSUME NEW a \in Debajo(s) PROVE a \notin Lugar(Seg(s))
      OBVIOUS
    <3>1. PICK u \in Segmentos : Seg(u).base < Seg(s).base /\ a \in Lugar(Seg(u))
      BY DEF Debajo
    <3>2. Seg(s).base \in Nat
      BY SegReal
    <3>3. u # s
      BY <3>1, <3>2
    <3>4. QED
      BY <1>1, <3>1, <3>3
  <2>3. QED
    BY <1>2, <2>1, <2>2, FS_Subset
<1>4. ASSUME NEW s \in Segmentos
      PROVE  /\ NuevaBase(s) \in Nat
             /\ NuevaBase(s) + Seg(s).limite <= Cardinality(Ocupados)
  <2>1. Debajo(s) \in SUBSET Ocupados /\ Lugar(Seg(s)) \in SUBSET Ocupados
    BY <1>3, SegReal
  <2>2. Cardinality(Debajo(s)) \in Nat
        /\ Cardinality(Debajo(s)) + Cardinality(Lugar(Seg(s))) <= Cardinality(Ocupados)
    BY <1>2, <1>3, <2>1, DosPartes
  <2>3. QED
    BY <2>2, SegReal DEF NuevaBase
<1>5. ASSUME NEW s \in Segmentos, NEW t \in Segmentos, Seg(s).base < Seg(t).base
      PROVE  NuevaBase(s) + Seg(s).limite <= NuevaBase(t)
  <2>1. Lugar(Seg(s)) \in SUBSET Debajo(t)
    BY <1>5 DEF Debajo
  <2>2. Debajo(s) \in SUBSET Debajo(t)
    <3> SUFFICES ASSUME NEW a \in Debajo(s) PROVE a \in Debajo(t)
      OBVIOUS
    <3>1. PICK u \in Segmentos : Seg(u).base < Seg(s).base /\ a \in Lugar(Seg(u))
      BY DEF Debajo
    <3>2. Seg(u).base \in Nat /\ Seg(s).base \in Nat /\ Seg(t).base \in Nat
      BY SegReal
    <3>3. Seg(u).base < Seg(t).base
      BY <1>5, <3>1, <3>2
    <3>4. QED
      BY <3>1, <3>3 DEF Debajo
  <2>3. Cardinality(Debajo(s)) + Cardinality(Lugar(Seg(s))) <= Cardinality(Debajo(t))
    BY <1>3, <2>1, <2>2, DosPartes
  <2>4. QED
    BY <2>3, SegReal DEF NuevaBase
<1>6. QED
  BY <1>4, <1>5

\* What the segments have after a compaction: none is in the bytes of another.
LEMMA NuevasApartadas ==
  ASSUME Tipos, EnMemoria, Separados, NEW s \in Segmentos, NEW t \in Segmentos, s # t,
         NEW g \in NuevaBase(s) .. NuevaBase(s) + Seg(s).limite - 1
  PROVE  g \notin NuevaBase(t) .. NuevaBase(t) + Seg(t).limite - 1
<1>1. /\ Seg(s).base \in Nat /\ Seg(s).limite \in Nat /\ NuevaBase(s) \in Nat
      /\ Seg(t).base \in Nat /\ Seg(t).limite \in Nat /\ NuevaBase(t) \in Nat
  BY SegReal, BasesNuevas
<1> SUFFICES ASSUME g \in NuevaBase(t) .. NuevaBase(t) + Seg(t).limite - 1
             PROVE  FALSE
  OBVIOUS
<1>2. Seg(s).limite > 0 /\ Seg(t).limite > 0
  BY <1>1
<1>3. Seg(s).base \in Lugar(Seg(s)) /\ Seg(t).base \in Lugar(Seg(t))
  BY <1>1, <1>2 DEF Lugar
<1>4. Lugar(Seg(s)) \cap Lugar(Seg(t)) = {}
  <2>1. /\ s[1] \in Pids /\ s[2] \in DOMAIN contextos[s[1]].tabla
        /\ t[1] \in Pids /\ t[2] \in DOMAIN contextos[t[1]].tabla
        /\ s[1] # t[1] \/ s[2] # t[2]
    BY SegReal
  <2>2. QED
    BY <2>1 DEF Separados, Seg
<1>5. Seg(s).base # Seg(t).base
  BY <1>3, <1>4
<1>6. CASE Seg(s).base < Seg(t).base
  <2>1. NuevaBase(s) + Seg(s).limite <= NuevaBase(t)
    BY <1>6, BasesNuevas
  <2>2. QED
    BY <1>1, <2>1
<1>7. CASE Seg(t).base < Seg(s).base
  <2>1. NuevaBase(t) + Seg(t).limite <= NuevaBase(s)
    BY <1>7, BasesNuevas
  <2>2. QED
    BY <1>1, <2>1
<1>8. QED
  BY <1>1, <1>5, <1>6, <1>7

\* The table of a process after a compaction, but for the segment that is created.
Movido(q) ==
  [i \in DOMAIN contextos[q].tabla |->
     [contextos[q].tabla[i] EXCEPT !.base = NuevaBase(<<q, i>>)]]

\* compactar and segmento_crear: what the tables are.
LEMMA CompactarTablas ==
  ASSUME MemInv, NEW c \in Cpus, Compactar(c)
  PROVE  LET p == cpu[c].pid
             nuevo == [id |-> pedido[p].id, base |-> Cardinality(Ocupados),
                       limite |-> pedido[p].tam]
         IN
         /\ p \in Pids /\ pedido[p].op = "MEM_ALLOC"
         /\ ~ memoria_ajena => swap[p] = <<>>
         /\ \A q \in Pids : Movido(q) \in Seq(SegmentoReal)
         /\ nuevo \in SegmentoReal
         /\ contextos' = [q \in Pids |-> [contextos[q] EXCEPT !.tabla =
              IF q = p THEN Append(Movido(q), nuevo) ELSE Movido(q)]]
         /\ contextos' \in [Pids -> ContextoReal]
<1> DEFINE p == cpu[c].pid
           nuevo == [id |-> pedido[p].id, base |-> Cardinality(Ocupados),
                     limite |-> pedido[p].tam]
<1>1. /\ cpu[c].estado = "compacta" /\ p \in Pids /\ pedido[p].op = "MEM_ALLOC"
      /\ ~ memoria_ajena => swap[p] = <<>>
  BY ProcesoEnCpu DEF Compactar, MemInv, CacheInv, Inv, EstadoEnCpu
<1>2. ASSUME NEW q \in Pids PROVE Movido(q) \in Seq(SegmentoReal)
  <2>1. \A i \in DOMAIN contextos[q].tabla :
          [contextos[q].tabla[i] EXCEPT !.base = NuevaBase(<<q, i>>)] \in SegmentoReal
    <3> SUFFICES ASSUME NEW i \in DOMAIN contextos[q].tabla
                 PROVE  [contextos[q].tabla[i] EXCEPT !.base = NuevaBase(<<q, i>>)]
                          \in SegmentoReal
      OBVIOUS
    <3>1. <<q, i>> \in Segmentos
      BY DEF Segmentos
    <3>2. NuevaBase(<<q, i>>) \in Nat
      BY <3>1, BasesNuevas DEF MemInv, Memoria
    <3>3. contextos[q].tabla[i] \in SegmentoReal
      BY SegmentoNumeros DEF MemInv, Memoria
    <3>4. QED
      BY <3>2, <3>3 DEF SegmentoReal
  <2>2. contextos[q].tabla \in Seq(SegmentoReal)
    BY DEF MemInv, Memoria, Tipos, ContextoReal
  <2>3. DOMAIN contextos[q].tabla = 1 .. Len(contextos[q].tabla)
        /\ Len(contextos[q].tabla) \in Nat
    BY <2>2
  <2>4. QED
    BY <2>1, <2>3 DEF Movido
<1>3. nuevo \in SegmentoReal
  <2>1. pedido[p].id \in Nat /\ pedido[p].tam \in Nat
    BY <1>1, PedidoDeCrear
  <2>2. pedido[p].tam <= TamMaxSegmento
    BY <1>1 DEF MemInv, Memoria, Entrara
  <2>3. Cardinality(Ocupados) \in Nat
    BY TodosLosBytes DEF MemInv, Memoria
  <2>4. pedido[p].tam \in 0 .. TamMaxSegmento
    BY <2>1, <2>2, MmuOK
  <2>5. QED
    BY <2>1, <2>3, <2>4 DEF SegmentoReal
<1>4. contextos' = [[q \in Pids |-> [contextos[q] EXCEPT !.tabla = Movido(q)]]
                     EXCEPT ![p].tabla = Append(@, nuevo)]
  <2>1. contextos' = [[q \in Pids |-> [contextos[q] EXCEPT !.tabla =
            [i \in DOMAIN @ |-> [@[i] EXCEPT !.base = [s \in Segmentos |-> NuevaBase(s)][<<q, i>>]]]]]
                     EXCEPT ![p].tabla = Append(@, nuevo)]
    BY Zenon DEF Compactar, NuevaBase, Debajo, Seg
  <2>2. ASSUME NEW q \in Pids
        PROVE  [i \in DOMAIN contextos[q].tabla |-> [contextos[q].tabla[i]
                   EXCEPT !.base = [s \in Segmentos |-> NuevaBase(s)][<<q, i>>]]]
                 = Movido(q)
    <3>1. \A i \in DOMAIN contextos[q].tabla : <<q, i>> \in Segmentos
      BY DEF Segmentos
    <3>2. QED
      BY <3>1 DEF Movido
  <2>3. QED
    BY <2>1, <2>2
<1>5. \A q \in Pids : contextos[q] \in ContextoReal
  BY DEF MemInv, Memoria, Tipos
<1> HIDE DEF nuevo, p
<1>6. contextos' = [q \in Pids |-> [contextos[q] EXCEPT !.tabla =
              IF q = p THEN Append(Movido(q), nuevo) ELSE Movido(q)]]
  BY <1>1, <1>4, <1>5 DEF ContextoReal
<1>7. contextos' \in [Pids -> ContextoReal]
  <2>1. \A q \in Pids, u \in Seq(SegmentoReal) :
          [contextos[q] EXCEPT !.tabla = u] \in ContextoReal
    BY <1>5 DEF ContextoReal
  <2>2. \A q \in Pids : (IF q = p THEN Append(Movido(q), nuevo) ELSE Movido(q))
                          \in Seq(SegmentoReal)
    BY <1>2, <1>3
  <2>3. QED
    BY <1>6, <2>1, <2>2
<1>8. QED
  BY <1>1, <1>2, <1>3, <1>6, <1>7 DEF p, nuevo

\* compactar: every segment has in its new place the bytes it had.
LEMMA CompactarBytes ==
  ASSUME MemInv, NEW c \in Cpus, Compactar(c)
  PROVE  /\ ram' \in [0 .. Total - 1 -> Bytes]
         /\ \A s \in Segmentos : \A k \in 0 .. Seg(s).limite - 1 :
              ram'[NuevaBase(s) + k] = ram[Seg(s).base + k]
<1> DEFINE Aqui(g) == {s \in Segmentos : NuevaBase(s) <= g /\ g < NuevaBase(s) + Seg(s).limite}
<1>1. ram \in [0 .. Total - 1 -> Bytes]
  BY DEF MemInv, Memoria, Tipos
<1>2. ram' = [g \in 0 .. Total - 1 |->
                IF Aqui(g) = {} THEN ram[g]
                ELSE ram[Seg(UnicoDe(Aqui(g))).base + (g - NuevaBase(UnicoDe(Aqui(g))))]]
  <2> DEFINE nueva == [s \in Segmentos |-> NuevaBase(s)]
  <2>1. ram' = Movida(nueva)
    BY Zenon DEF Compactar, NuevaBase, Debajo, Seg
  <2>2. \A s \in Segmentos : nueva[s] = NuevaBase(s)
    OBVIOUS
  <2> HIDE DEF nueva
  <2>3. Movida(nueva) = [g \in 0 .. Total - 1 |->
          IF {s \in Segmentos : nueva[s] <= g /\ g < nueva[s] + Seg(s).limite} = {} THEN ram[g]
          ELSE ram[Seg(UnicoDe({s \in Segmentos : nueva[s] <= g /\ g < nueva[s] + Seg(s).limite})).base
                    + (g - nueva[UnicoDe({s \in Segmentos : nueva[s] <= g /\ g < nueva[s] + Seg(s).limite})])]]
    BY <1>1 DEF Movida, Seg
  <2>4. \A g : {s \in Segmentos : nueva[s] <= g /\ g < nueva[s] + Seg(s).limite} = Aqui(g)
    BY <2>2
  <2>5. \A g : Aqui(g) # {} => UnicoDe(Aqui(g)) \in Segmentos
    BY DEF UnicoDe
  <2> HIDE DEF Aqui
  <2>6. \A g : Aqui(g) # {} => nueva[UnicoDe(Aqui(g))] = NuevaBase(UnicoDe(Aqui(g)))
    BY <2>2, <2>5
  <2>7. QED
    BY <2>1, <2>3, <2>4, <2>6
<1>3. ASSUME NEW s \in Segmentos
      PROVE  /\ Seg(s).base \in Nat /\ Seg(s).limite \in Nat /\ NuevaBase(s) \in Nat
             /\ Seg(s).base + Seg(s).limite <= Total
             /\ NuevaBase(s) + Seg(s).limite <= Total
             /\ Total \in Nat
  <2>1. /\ Seg(s).base \in Nat /\ Seg(s).limite \in Nat
        /\ Seg(s).base + Seg(s).limite <= Base[sticks + 1]
    BY SegReal DEF MemInv, Memoria
  <2>2. NuevaBase(s) \in Nat /\ NuevaBase(s) + Seg(s).limite <= Cardinality(Ocupados)
    BY BasesNuevas DEF MemInv, Memoria
  <2>3. /\ Cardinality(Ocupados) \in Nat /\ Cardinality(Libres) \in Nat
        /\ Cardinality(Ocupados) + Cardinality(Libres) = Base[sticks + 1]
    BY TodosLosBytes DEF MemInv, Memoria
  <2>4. Base[sticks + 1] \in Nat /\ Total \in Nat /\ Base[sticks + 1] <= Total
    <3>1. sticks \in 1 .. Len(TamSticks)
      BY DEF MemInv, Memoria, Tipos
    <3>2. QED
      BY <3>1, MemoriaDe
  <2>5. QED
    BY <2>1, <2>2, <2>3, <2>4
<1>4. ram' \in [0 .. Total - 1 -> Bytes]
  <2>1. ASSUME NEW g \in 0 .. Total - 1, Aqui(g) # {}
        PROVE  ram[Seg(UnicoDe(Aqui(g))).base + (g - NuevaBase(UnicoDe(Aqui(g))))] \in Bytes
    <3>1. UnicoDe(Aqui(g)) \in Aqui(g)
      BY <2>1 DEF UnicoDe
    <3>2. PICK s : s = UnicoDe(Aqui(g))
      OBVIOUS
    <3>3. s \in Segmentos /\ NuevaBase(s) <= g /\ g < NuevaBase(s) + Seg(s).limite
      BY <3>1, <3>2
    <3>4. Seg(s).base + (g - NuevaBase(s)) \in 0 .. Total - 1
      BY <1>3, <3>3
    <3>5. QED
      BY <1>1, <3>2, <3>4
  <2> HIDE DEF Aqui
  <2>2. QED
    BY <1>1, <1>2, <2>1
<1>5. ASSUME NEW s \in Segmentos, NEW k \in 0 .. Seg(s).limite - 1
      PROVE  ram'[NuevaBase(s) + k] = ram[Seg(s).base + k]
  <2>1. PICK g : g = NuevaBase(s) + k
    OBVIOUS
  <2>2. g \in 0 .. Total - 1 /\ NuevaBase(s) <= g /\ g < NuevaBase(s) + Seg(s).limite
        /\ g - NuevaBase(s) = k
    BY <1>3, <2>1
  <2>3. Aqui(g) = {s}
    <3>1. s \in Aqui(g)
      BY <2>2
    <3>2. ASSUME NEW t \in Aqui(g), t # s
          PROVE  FALSE
      <4>1. t \in Segmentos /\ NuevaBase(t) <= g /\ g < NuevaBase(t) + Seg(t).limite
        OBVIOUS
      <4>2. g \in NuevaBase(s) .. NuevaBase(s) + Seg(s).limite - 1
            /\ g \in NuevaBase(t) .. NuevaBase(t) + Seg(t).limite - 1
        BY <1>3, <2>2, <4>1
      <4>3. QED
        BY <3>2, <4>1, <4>2, NuevasApartadas DEF MemInv, Memoria
    <3>3. QED
      BY <3>1, <3>2
  <2>4. UnicoDe(Aqui(g)) = s /\ Aqui(g) # {}
    BY <2>3 DEF UnicoDe
  <2> HIDE DEF Aqui
  <2>5. ram'[g] = ram[Seg(s).base + (g - NuevaBase(s))]
    BY <1>2, <2>2, <2>4
  <2>6. QED
    BY <2>1, <2>2, <2>5
<1>6. QED
  BY <1>4, <1>5

\* compactar, segmento_crear and OP_FIN_COMPACTACION.
LEMMA CompactarMemoria ==
  ASSUME Anchos, MemInv, NEW c \in Cpus, Compactar(c)
  PROVE  Memoria'
<1> DEFINE p == cpu[c].pid
           nuevo == [id |-> pedido[p].id, base |-> Cardinality(Ocupados),
                     limite |-> pedido[p].tam]
<1>1. /\ p \in Pids /\ pedido[p].op = "MEM_ALLOC"
      /\ \A q \in Pids : Movido(q) \in Seq(SegmentoReal)
      /\ nuevo \in SegmentoReal
      /\ contextos' = [q \in Pids |-> [contextos[q] EXCEPT !.tabla =
           IF q = p THEN Append(Movido(q), nuevo) ELSE Movido(q)]]
      /\ contextos' \in [Pids -> ContextoReal]
  BY CompactarTablas
<1>2. /\ cpu[c].estado = "compacta"
      /\ cpu' = [cpu EXCEPT ![c].estado = "asignada"]
      /\ pedido' = [pedido EXCEPT ![p] = Nada]
      /\ estado' = [estado EXCEPT ![p] = "EXEC"]
      /\ UNCHANGED <<sticks, escuchan, swap, pantalla, por_suspender, memoria_ajena, ks_caido>>
  BY Zenon DEF Compactar, Responde
<1>m. movidos' \subseteq Pids
  <2>1. \E S : movidos' = movidos \cup {q \in Pids : S[q] # contextos[q]}
    BY Zenon DEF Compactar
  <2>2. movidos \subseteq Pids
    BY DEF MemInv, Memoria, Tipos
  <2>3. QED
    BY <2>1, <2>2
<1>a. pedido[p].tam <= Cardinality(Libres) /\ pedido[p].tam \in Nat
  BY <1>1, <1>2, PedidoDeCrear DEF MemInv, Memoria, Entrara
<1>b. \A d \in Cpus \ {c} : cpu[d].estado # "compacta" /\ cpu[d].pid # p
  BY <1>2, ProcesoEnCpu DEF MemInv, Memoria, Entrara
<1>c. /\ Cardinality(Ocupados) \in Nat /\ Cardinality(Libres) \in Nat
      /\ Cardinality(Ocupados) + Cardinality(Libres) = Base[sticks + 1]
  BY TodosLosBytes DEF MemInv, Memoria
<1>n. nuevo.base = Cardinality(Ocupados) /\ nuevo.limite = pedido[p].tam
  OBVIOUS
<1>p. p = cpu[c].pid
  OBVIOUS
<1> HIDE DEF p, nuevo
<1>3. Tipos'
  <2>1. cpu' \in [Cpus -> CpuReal]
    BY <1>2 DEF MemInv, Memoria, Tipos, CpuReal, EstadosCpu
  <2>2. estado' \in [Pids -> EstadosProceso]
    BY <1>2 DEF MemInv, Memoria, Tipos, EstadosProceso
  <2>3. pedido' \in [Pids -> PedidosReales]
    BY <1>2 DEF MemInv, Memoria, Tipos, PedidosReales
  <2>4. ram' \in [0 .. Total - 1 -> Bytes]
    BY CompactarBytes
  <2>5. QED
    BY <1>1, <1>2, <1>m, <2>1, <2>2, <2>3, <2>4 DEF MemInv, Memoria, Tipos
<1>4. /\ \A d \in Cpus : /\ cpu'[d].pid = cpu[d].pid
                         /\ cpu'[d].estado = IF d = c THEN "asignada" ELSE cpu[d].estado
      /\ \A q \in Pids : /\ estado'[q] = IF q = p THEN "EXEC" ELSE estado[q]
                         /\ pedido'[q] = IF q = p THEN Nada ELSE pedido[q]
  BY <1>2 DEF MemInv, Memoria, Tipos, CpuReal
<1>5. ASSUME NEW q \in Pids, NEW i \in DOMAIN contextos'[q].tabla
      PROVE  \/ /\ <<q, i>> \in Segmentos
                /\ contextos'[q].tabla[i].base = NuevaBase(<<q, i>>)
                /\ contextos'[q].tabla[i].limite = Seg(<<q, i>>).limite
             \/ /\ q = p /\ contextos'[q].tabla[i] = nuevo
                /\ i = Len(Movido(p)) + 1
  <2>1. contextos'[q].tabla = IF q = p THEN Append(Movido(q), nuevo) ELSE Movido(q)
    BY <1>1 DEF MemInv, Memoria, Tipos, ContextoReal
  <2>2. \A j \in DOMAIN Movido(q) :
          /\ <<q, j>> \in Segmentos
          /\ Movido(q)[j].base = NuevaBase(<<q, j>>)
          /\ Movido(q)[j].limite = Seg(<<q, j>>).limite
    <3> SUFFICES ASSUME NEW j \in DOMAIN Movido(q)
                 PROVE  /\ <<q, j>> \in Segmentos
                        /\ Movido(q)[j].base = NuevaBase(<<q, j>>)
                        /\ Movido(q)[j].limite = Seg(<<q, j>>).limite
      OBVIOUS
    <3>1. j \in DOMAIN contextos[q].tabla
      BY DEF Movido
    <3>2. contextos[q].tabla[j] \in SegmentoReal
      BY <3>1, SegmentoNumeros DEF MemInv, Memoria
    <3>3. Movido(q)[j] = [contextos[q].tabla[j] EXCEPT !.base = NuevaBase(<<q, j>>)]
      BY <3>1 DEF Movido
    <3>4. QED
      BY <3>1, <3>2, <3>3 DEF SegmentoReal, Segmentos, Seg
  <2>3. \A u \in Seq(SegmentoReal), n \in SegmentoReal : \A j \in DOMAIN Append(u, n) :
          \/ j \in DOMAIN u /\ Append(u, n)[j] = u[j]
          \/ j = Len(u) + 1 /\ Append(u, n)[j] = n
    OBVIOUS
  <2>4. CASE q = p
    <3>1. \/ i \in DOMAIN Movido(q) /\ contextos'[q].tabla[i] = Movido(q)[i]
          \/ i = Len(Movido(q)) + 1 /\ contextos'[q].tabla[i] = nuevo
      <4>1. PICK u \in Seq(SegmentoReal) : u = Movido(q)
        BY <1>1
      <4>2. contextos'[q].tabla = Append(u, nuevo) /\ i \in DOMAIN Append(u, nuevo)
        BY <2>1, <2>4, <4>1
      <4>3. QED
        BY <1>1, <2>3, <4>1, <4>2
    <3>2. QED
      BY <2>2, <2>4, <3>1
  <2>5. CASE q # p
    BY <2>1, <2>2, <2>5
  <2>6. QED
    BY <2>4, <2>5
<1>6. ASSUME NEW s \in Segmentos
      PROVE  /\ NuevaBase(s) \in Nat /\ Seg(s).limite \in Nat
             /\ NuevaBase(s) + Seg(s).limite <= Cardinality(Ocupados)
  BY SegReal, BasesNuevas DEF MemInv, Memoria
<1>7. EnMemoria'
  <2> SUFFICES ASSUME NEW q \in Pids, NEW i \in DOMAIN contextos'[q].tabla
               PROVE  contextos'[q].tabla[i].base + contextos'[q].tabla[i].limite
                        <= Base[sticks + 1]
    BY <1>2 DEF EnMemoria
  <2>1. CASE /\ <<q, i>> \in Segmentos
             /\ contextos'[q].tabla[i].base = NuevaBase(<<q, i>>)
             /\ contextos'[q].tabla[i].limite = Seg(<<q, i>>).limite
    BY <1>c, <1>6, <2>1
  <2>2. CASE q = p /\ contextos'[q].tabla[i] = nuevo
    BY <1>a, <1>c, <1>n, <2>2
  <2>3. QED
    BY <1>5, <2>1, <2>2
<1>8. Separados'
  <2> SUFFICES ASSUME NEW q \in Pids, NEW r \in Pids, NEW i \in DOMAIN contextos'[q].tabla,
                      NEW j \in DOMAIN contextos'[r].tabla, q # r \/ i # j,
                      NEW g \in Lugar(contextos'[q].tabla[i]),
                      g \in Lugar(contextos'[r].tabla[j])
               PROVE  FALSE
    BY DEF Separados
  <2> DEFINE Viejo(o, k) == /\ <<o, k>> \in Segmentos
                            /\ contextos'[o].tabla[k].base = NuevaBase(<<o, k>>)
                            /\ contextos'[o].tabla[k].limite = Seg(<<o, k>>).limite
             Nuevo(o, k) == o = p /\ contextos'[o].tabla[k] = nuevo /\ k = Len(Movido(p)) + 1
  <2>1. (Viejo(q, i) \/ Nuevo(q, i)) /\ (Viejo(r, j) \/ Nuevo(r, j))
    BY <1>5
  <2>2. CASE Viejo(q, i) /\ Viejo(r, j)
    <3>1. <<q, i>> # <<r, j>>
      OBVIOUS
    <3>2. \A s, t \in Segmentos : s # t =>
            \A h \in NuevaBase(s) .. NuevaBase(s) + Seg(s).limite - 1 :
              h \notin NuevaBase(t) .. NuevaBase(t) + Seg(t).limite - 1
      BY NuevasApartadas DEF MemInv, Memoria
    <3>3. QED
      BY <2>2, <3>1, <3>2 DEF Lugar
  <2>3. CASE Viejo(q, i) /\ Nuevo(r, j)
    <3>1. g \in NuevaBase(<<q, i>>) .. NuevaBase(<<q, i>>) + Seg(<<q, i>>).limite - 1
      BY <2>3 DEF Lugar
    <3>2. g \in Cardinality(Ocupados) .. Cardinality(Ocupados) + pedido[p].tam - 1
      BY <1>n, <2>3 DEF Lugar
    <3>3. QED
      BY <1>6, <1>c, <1>a, <2>3, <3>1, <3>2
  <2>4. CASE Nuevo(q, i) /\ Viejo(r, j)
    <3>1. g \in NuevaBase(<<r, j>>) .. NuevaBase(<<r, j>>) + Seg(<<r, j>>).limite - 1
      BY <2>4 DEF Lugar
    <3>2. g \in Cardinality(Ocupados) .. Cardinality(Ocupados) + pedido[p].tam - 1
      BY <1>n, <2>4 DEF Lugar
    <3>3. QED
      BY <1>6, <1>c, <1>a, <2>4, <3>1, <3>2
  <2>5. CASE Nuevo(q, i) /\ Nuevo(r, j)
    BY <2>5
  <2>6. QED
    BY <2>1, <2>2, <2>3, <2>4, <2>5
<1>9. SinPedido'
  <2>1. \A q \in Pids : estado'[q] \in {"READY", "SUSP_READY"} => pedido'[q] = Nada
    BY <1>4 DEF MemInv, Memoria, SinPedido
  <2>2. ASSUME NEW d \in Cpus, cpu'[d].estado \in {"asignada", "ejecuta", "chequea", "refresca"}
        PROVE  pedido'[cpu'[d].pid] = Nada
    <3>1. CASE d = c
      BY <1>1, <1>4, <1>p, <3>1
    <3>2. CASE d # c
      <4>1. cpu[d].pid \in Pids
        BY <1>4, <2>2, <3>2 DEF MemInv, CacheInv, Inv, Reparto
      <4>2. QED
        BY <1>4, <2>2, <3>2, <4>1 DEF MemInv, Memoria, SinPedido
    <3>3. QED
      BY <3>1, <3>2
  <2>3. QED
    BY <2>1, <2>2 DEF SinPedido
<1>10. Entrara'
  BY <1>4, <1>b DEF Entrara
<1>11. QED
  BY <1>3, <1>7, <1>8, <1>9, <1>10 DEF Memoria

\* segmento_crear: too large, or no memory.
LEMMA SegmentoErrorMemoria ==
  ASSUME Anchos, MemInv, CacheInv', NEW c \in Cpus, SegmentoError(c)
  PROVE  Memoria'
<1>1. cpu[c].estado = "respuesta" /\ Terminar(c, cpu[c].lista) /\ cpu[c].lista \in Lista
  BY DEF SegmentoError, Espera, MemInv, Memoria, Tipos, CpuReal
<1>2. QED
  BY <1>1, TerminarMemoria DEF EnCurso

\* Every answer of the Kernel Memory to a CPU.
LEMMA PasoMemoriaMemoria ==
  ASSUME Anchos, MemInv, CacheInv', NEW c \in Cpus, PasoMemoria(c)
  PROVE  Memoria'
  BY CrearMemoria, SegmentoErrorMemoria, EliminarMemoria, PedirCompactarMemoria,
     CompactarMemoria DEF PasoMemoria

-----------------------------------------------------------------------------
(* Devices and suspension.                                                  *)

\* A process that waits for a device is in no CPU; the requests that there are.
LEMMA EsperaDispositivo ==
  ASSUME MemInv, NEW p \in Pids, pedido[p].op \in DeIo
  PROVE  /\ estado[p] \in {"BLOCK", "SUSP_BLOCK"}
         /\ \A c \in Cpus : cpu[c].pid # p
         /\ pedido[p].op # "SLEEP" =>
              /\ pedido[p] \in PedidosDeDatos
              /\ pedido[p].dl \in Palabras /\ pedido[p].dl \in Nat /\ pedido[p].df \in Nat
              /\ pedido[p].tam \in Nat \ {0}
              /\ ~ Desborda(pedido[p].dl, pedido[p].tam) =>
                   /\ (pedido[p].dl % TamMaxSegmento) + pedido[p].tam <= TamMaxSegmento
                   /\ pedido[p].df + pedido[p].tam <= Total
<1>1. estado[p] \in {"BLOCK", "SUSP_BLOCK"}
  BY DEF MemInv, CacheInv, Inv, EnEspera
<1>2. \A c \in Cpus : cpu[c].pid # p
  BY <1>1, SinCpu DEF MemInv, CacheInv, DeIo
<1>3. ASSUME pedido[p].op # "SLEEP"
      PROVE  pedido[p] \in PedidosDeDatos
  <2>1. pedido[p] \in PedidosReales
    BY DEF MemInv, Memoria, Tipos
  <2>2. \A x \in PedidosDeMemoria : x.op \in {"MEM_ALLOC", "MEM_FREE"}
    BY DEF PedidosDeMemoria
  <2>3. QED
    BY <1>3, <2>1, <2>2 DEF PedidosReales, PedidosDeIo, Nada, DeIo
<1>4. QED
  BY <1>1, <1>2, <1>3 DEF PedidosDeDatos, Palabras

\* manejar_fin_io: bytes may have been written, or shown.
LEMMA DespertarMemoria ==
  ASSUME MemInv, NEW p \in Pids, pedido[p].op \in DeIo, Despertar(p),
         ram' \in [0 .. Total - 1 -> Bytes], pantalla' \in [Pids -> Seq(Bytes)],
         UNCHANGED <<contextos, sticks, escuchan, swap, cpu, avisoVars>>,
         memoria_ajena' \in BOOLEAN
  PROVE  Memoria'
<1>1. /\ estado[p] \in {"BLOCK", "SUSP_BLOCK"}
      /\ \A c \in Cpus : cpu[c].pid # p
  BY EsperaDispositivo
<1>2. /\ estado' = [estado EXCEPT ![p] = IF @ = "BLOCK" THEN "READY" ELSE "SUSP_READY"]
      /\ pedido' = [pedido EXCEPT ![p] = Nada]
  BY DEF Despertar
<1>3. Tipos'
  <2>1. estado' \in [Pids -> EstadosProceso]
    BY <1>2 DEF MemInv, Memoria, Tipos, EstadosProceso
  <2>2. pedido' \in [Pids -> PedidosReales]
    BY <1>2 DEF MemInv, Memoria, Tipos, PedidosReales
  <2>3. QED
    BY <2>1, <2>2 DEF MemInv, Memoria, Tipos, avisoVars
<1>4. \A q \in Pids :
        /\ estado'[q] = IF q # p THEN estado[q]
                        ELSE IF estado[p] = "BLOCK" THEN "READY" ELSE "SUSP_READY"
        /\ pedido'[q] = IF q = p THEN Nada ELSE pedido[q]
  BY <1>2 DEF MemInv, Memoria, Tipos
<1>5. SinPedido'
  <2>1. \A q \in Pids : estado'[q] \in {"READY", "SUSP_READY"} => pedido'[q] = Nada
    BY <1>4 DEF MemInv, Memoria, SinPedido
  <2>2. ASSUME NEW d \in Cpus, cpu[d].estado \in {"asignada", "ejecuta", "chequea", "refresca"}
        PROVE  pedido'[cpu[d].pid] = Nada
    <3>1. cpu[d].pid \in Pids
      BY <2>2 DEF MemInv, CacheInv, Inv, Reparto
    <3>2. QED
      BY <1>1, <1>4, <2>2, <3>1 DEF MemInv, Memoria, SinPedido
  <2>3. QED
    BY <2>1, <2>2 DEF SinPedido
<1>6. ASSUME NEW c \in Cpus, cpu'[c].estado = "compacta"
      PROVE  pedido'[cpu'[c].pid] = pedido[cpu[c].pid]
  <2>1. cpu[c].pid \in Pids
    BY <1>6 DEF MemInv, CacheInv, Inv, Reparto
  <2>2. QED
    BY <1>1, <1>4, <2>1
<1>7. QED
  BY <1>3, <1>5, <1>6, IgualMemoria

\* ejecutar_io_sleep.
LEMMA FinSleepMemoria ==
  ASSUME MemInv, NEW p \in Pids, FinSleep(p)
  PROVE  Memoria'
<1>1. pedido[p].op \in DeIo /\ Despertar(p)
      /\ UNCHANGED <<contextos, memVars, pantalla, cpu, suspVars>>
  BY DEF FinSleep, DeIo
<1>2. /\ ram' \in [0 .. Total - 1 -> Bytes] /\ pantalla' \in [Pids -> Seq(Bytes)]
      /\ memoria_ajena' \in BOOLEAN
  BY <1>1 DEF MemInv, Memoria, Tipos, memVars, suspVars
<1>3. QED
  BY <1>1, <1>2, DespertarMemoria DEF memVars, suspVars

\* The address that the Kernel Scheduler kept is still the one of the process: all the
\* bytes are of one segment of it.
LEMMA DireccionReal ==
  ASSUME Anchos, MemInv, NEW p \in Pids, pedido[p].op \in {"STDIN", "STDOUT"},
         ~ Desborda(pedido[p].dl, pedido[p].tam), EnSuLugar(p), ~ memoria_ajena
  PROVE  LET x == pedido[p]
             off == x.dl % TamMaxSegmento
         IN
         /\ x.dl \in Palabras /\ x.tam \in Nat \ {0} /\ x.df \in Nat /\ off \in Nat
         /\ off + x.tam <= TamMaxSegmento /\ off + x.tam < Palabra
         /\ x.df + x.tam <= Total /\ Total \in Nat
         /\ contextos[p].tabla \in Seq(SegmentoReal)
         /\ \E i \in Caben(contextos[p].tabla, x.dl, x.tam) :
              x.df = contextos[p].tabla[i].base + off
         /\ swap[p] = <<>>
<1> DEFINE x == pedido[p]
           off == x.dl % TamMaxSegmento
           t == contextos[p].tabla
<1>1. /\ x.dl \in Palabras /\ x.dl \in Nat /\ x.tam \in Nat \ {0} /\ x.df \in Nat
      /\ off + x.tam <= TamMaxSegmento
  BY EsperaDispositivo DEF DeIo
<1>2. off \in Nat
  BY <1>1, Desplazamiento
<1>3. off + x.tam < Palabra
  <2>1. TamMaxSegmento + BytesPalabra <= Palabra /\ BytesPalabra \in Nat \ {0}
        /\ Palabra \in Nat
    BY Potencias DEF Anchos
  <2>2. QED
    BY <1>1, <1>2, <2>1, MmuOK
<1>4. t \in Seq(SegmentoReal)
  BY DEF MemInv, Memoria, Tipos, ContextoReal
<1>5. Base[sticks + 1] \in Nat /\ Total \in Nat /\ Base[sticks + 1] <= Total
  <2>1. sticks \in 1 .. Len(TamSticks)
    BY DEF MemInv, Memoria, Tipos
  <2>2. QED
    BY <2>1, MemoriaDe
<1>6. \A i \in DOMAIN t : t[i].base + t[i].limite <= Total
  <2> SUFFICES ASSUME NEW i \in DOMAIN t PROVE t[i].base + t[i].limite <= Total
    OBVIOUS
  <2>1. t[i].base \in Nat /\ t[i].limite \in Nat
    BY SegmentoNumeros DEF MemInv, Memoria
  <2>2. t[i].base + t[i].limite <= Base[sticks + 1]
    BY DEF MemInv, Memoria, EnMemoria
  <2>3. QED
    BY <1>5, <2>1, <2>2
<1>e. Traducir(t, x.dl, x.tam) = {x.df}
  BY DEF EnSuLugar
<1> HIDE DEF x, off, t
<1>7. /\ Traducir(t, x.dl, x.tam) = {t[i].base + off : i \in Caben(t, x.dl, x.tam)}
      /\ \A i \in Caben(t, x.dl, x.tam) :
           /\ i \in DOMAIN t /\ t[i].base \in Nat /\ t[i].limite \in Nat
           /\ t[i].base + off + x.tam <= t[i].base + t[i].limite
           /\ t[i].base + t[i].limite <= Total
  <2>1. \A dl \in Palabras, n \in Nat \ {0} : (dl % TamMaxSegmento) + n < Palabra =>
          /\ Traducir(t, dl, n) = {t[i].base + (dl % TamMaxSegmento) : i \in Caben(t, dl, n)}
          /\ \A i \in Caben(t, dl, n) :
               /\ i \in DOMAIN t /\ t[i].base \in Nat /\ t[i].limite \in Nat
               /\ t[i].base + (dl % TamMaxSegmento) + n <= t[i].base + t[i].limite
               /\ t[i].base + t[i].limite <= Total
    BY <1>4, <1>6, TraducirSinVuelta
  <2>2. QED
    BY <1>1, <1>3, <2>1 DEF off
<1>8. PICK i \in Caben(t, x.dl, x.tam) : x.df = t[i].base + off
  BY <1>e, <1>7
<1>9. x.df + x.tam <= Total
  BY <1>1, <1>2, <1>5, <1>7, <1>8
<1>10. swap[p] = <<>>
  <2>1. t # <<>>
    BY <1>7
  <2>2. QED
    BY <2>1 DEF MemInv, EnSwap, t
<1>11. QED
  BY <1>1, <1>2, <1>3, <1>4, <1>5, <1>8, <1>9, <1>10 DEF x, off, t

\* ejecutar_io_stdin.
LEMMA FinStdinMemoria ==
  ASSUME MemInv, NEW p \in Pids, FinStdin(p)
  PROVE  Memoria'
<1>1. pedido[p].op \in DeIo /\ Despertar(p)
      /\ UNCHANGED <<contextos, sticks, escuchan, swap, pantalla, cpu, avisoVars>>
  BY DEF FinStdin, DeIo
<1>2. PICK b \in [1 .. pedido[p].tam -> Bytes] :
        ram' = [g \in DOMAIN ram |->
                  IF g - pedido[p].df + 1 \in DOMAIN b THEN b[g - pedido[p].df + 1] ELSE ram[g]]
  BY DEF FinStdin
<1>3. ram' \in [0 .. Total - 1 -> Bytes]
  <2>1. ram \in [0 .. Total - 1 -> Bytes]
    BY DEF MemInv, Memoria, Tipos
  <2>2. QED
    BY <1>2, <2>1
<1>4. pantalla' \in [Pids -> Seq(Bytes)] /\ memoria_ajena' \in BOOLEAN
  BY <1>1 DEF FinStdin, AccedeKs, MemInv, Memoria, Tipos
<1>5. QED
  BY <1>1, <1>3, <1>4, DespertarMemoria

\* ejecutar_io_stdout.
LEMMA FinStdoutMemoria ==
  ASSUME Anchos, MemInv, NEW p \in Pids, FinStdout(p)
  PROVE  Memoria'
<1>1. /\ pedido[p].op \in {"STDIN", "STDOUT"} /\ Despertar(p)
      /\ ~ Desborda(pedido[p].dl, pedido[p].tam)
      /\ UNCHANGED <<contextos, memVars, cpu, avisoVars>>
      /\ pantalla' = [pantalla EXCEPT ![p] =
           [k \in 1 .. pedido[p].tam |-> ram[pedido[p].df + k - 1]]]
      /\ memoria_ajena' \in BOOLEAN
  BY DEF FinStdout, AccedeKs, MemInv, Memoria, Tipos
<1>2. PICK n \in Nat, d \in Nat : n = pedido[p].tam /\ d = pedido[p].df /\ d + n <= Total
        /\ Total \in Nat
  BY <1>1, EsperaDispositivo, TotalCabe DEF DeIo
<1>3. [k \in 1 .. n |-> ram[d + k - 1]] \in Seq(Bytes)
  <2>1. ram \in [0 .. Total - 1 -> Bytes]
    BY DEF MemInv, Memoria, Tipos
  <2>2. \A k \in 1 .. n : d + k - 1 \in 0 .. Total - 1
    BY <1>2
  <2>3. \A k \in 1 .. n : ram[d + k - 1] \in Bytes
    BY <2>1, <2>2
  <2>4. QED
    BY <2>3
<1>4. pantalla' \in [Pids -> Seq(Bytes)]
  BY <1>1, <1>2, <1>3 DEF MemInv, Memoria, Tipos
<1>5. ram' \in [0 .. Total - 1 -> Bytes] /\ pedido[p].op \in DeIo
  BY <1>1 DEF MemInv, Memoria, Tipos, memVars, DeIo
<1>6. QED
  BY <1>1, <1>4, <1>5, DespertarMemoria DEF memVars

\* Nothing changes but what is said of it (KsCae, Escuchar).
LEMMA NadaMemoria ==
  ASSUME MemInv, escuchan' \subseteq 1 .. sticks, ks_caido' \in BOOLEAN,
         UNCHANGED <<contextos, ram, sticks, swap, estado, pedido, pantalla, cpu, por_suspender,
                     movidos, memoria_ajena>>
  PROVE  Memoria'
<1>1. Tipos'
  BY DEF MemInv, Memoria, Tipos
<1>2. EnMemoria' /\ Separados' /\ SinPedido'
  BY DEF MemInv, Memoria, EnMemoria, Separados, SinPedido
<1>3. Libres' = Libres
  BY DEF Libres, Ocupados, Segmentos
<1>4. Entrara'
  BY <1>3 DEF MemInv, Memoria, Entrara
<1>5. QED
  BY <1>1, <1>2, <1>4 DEF Memoria

\* hilo_suspension.
LEMMA SuspenderMemoria ==
  ASSUME MemInv, NEW p \in Pids, Suspender(p)
  PROVE  Memoria'
<1>1. /\ estado[p] = "BLOCK" /\ pedido[p].op \in DeIo
      /\ estado' = [estado EXCEPT ![p] = "SUSP_BLOCK"]
      /\ por_suspender' = [por_suspender EXCEPT ![p] = @ + 1]
      /\ UNCHANGED <<contextos, memVars, pedido, pantalla, cpu, movidos, memoria_ajena, ks_caido>>
  BY DEF Suspender, DeIo
<1>2. Tipos'
  <2>1. estado' \in [Pids -> EstadosProceso]
    BY <1>1 DEF MemInv, Memoria, Tipos, EstadosProceso
  <2>2. por_suspender' \in [Pids -> Nat]
    BY <1>1 DEF MemInv, Memoria, Tipos
  <2>3. QED
    BY <1>1, <2>1, <2>2 DEF MemInv, Memoria, Tipos, memVars
<1>3. \A q \in Pids : estado'[q] = IF q = p THEN "SUSP_BLOCK" ELSE estado[q]
  BY <1>1 DEF MemInv, Memoria, Tipos
<1>4. SinPedido'
  BY <1>1, <1>3 DEF MemInv, Memoria, SinPedido
<1>5. QED
  BY <1>1, <1>2, <1>4, IgualMemoria DEF memVars

\* What the SWAP keeps of a process: the ids and the bytes of its segments.
Bajado(p) ==
  [i \in DOMAIN contextos[p].tabla |->
     [id |-> contextos[p].tabla[i].id, bytes |-> Contenido(contextos[p].tabla[i])]]

\* The bytes of a segment are bytes, as many as it has.
LEMMA ContenidoReal ==
  ASSUME MemInv, NEW p \in Pids, NEW i \in DOMAIN contextos[p].tabla
  PROVE  /\ Contenido(contextos[p].tabla[i]) \in [1 .. contextos[p].tabla[i].limite -> Bytes]
         /\ Contenido(contextos[p].tabla[i]) \in Seq(Bytes)
         /\ Len(Contenido(contextos[p].tabla[i])) = contextos[p].tabla[i].limite
         /\ contextos[p].tabla[i].base + contextos[p].tabla[i].limite <= Total
         /\ contextos[p].tabla[i].base \in Nat /\ contextos[p].tabla[i].limite \in Nat
         /\ Total \in Nat
<1>1. PICK a \in Nat, n \in Nat : a = contextos[p].tabla[i].base /\ n = contextos[p].tabla[i].limite
  BY SegmentoNumeros DEF MemInv, Memoria
<1>2. a + n <= Total /\ Total \in Nat
  <2>1. sticks \in 1 .. Len(TamSticks)
    BY DEF MemInv, Memoria, Tipos
  <2>2. Base[sticks + 1] \in Nat /\ Total \in Nat /\ Base[sticks + 1] <= Total
    BY <2>1, MemoriaDe
  <2>3. a + n <= Base[sticks + 1]
    BY <1>1 DEF MemInv, Memoria, EnMemoria
  <2>4. QED
    BY <2>2, <2>3
<1>3. ram \in [0 .. Total - 1 -> Bytes]
  BY DEF MemInv, Memoria, Tipos
<1>4. \A k \in 1 .. n : a + k - 1 \in 0 .. Total - 1
  BY <1>2
<1>5. Contenido(contextos[p].tabla[i]) = [k \in 1 .. n |-> ram[a + k - 1]]
  BY <1>1 DEF Contenido
<1>6. \A k \in 1 .. n : ram[a + k - 1] \in Bytes
  BY <1>3, <1>4
<1>7. [k \in 1 .. n |-> ram[a + k - 1]] \in [1 .. n -> Bytes]
  BY <1>6
<1>8. \A f \in [1 .. n -> Bytes] : f \in Seq(Bytes) /\ Len(f) = n
  OBVIOUS
<1>9. QED
  BY <1>1, <1>2, <1>5, <1>7, <1>8

\* The SWAP may keep them.
LEMMA BajadoReal ==
  ASSUME MemInv, NEW p \in Pids
  PROVE  Bajado(p) \in Seq(Guardado)
<1>1. \A i \in DOMAIN contextos[p].tabla :
        [id |-> contextos[p].tabla[i].id, bytes |-> Contenido(contextos[p].tabla[i])] \in Guardado
  <2> SUFFICES ASSUME NEW i \in DOMAIN contextos[p].tabla
               PROVE  [id |-> contextos[p].tabla[i].id,
                       bytes |-> Contenido(contextos[p].tabla[i])] \in Guardado
    OBVIOUS
  <2>1. contextos[p].tabla[i] \in SegmentoReal /\ contextos[p].tabla[i].id \in Nat
    BY SegmentoNumeros DEF MemInv, Memoria
  <2>2. contextos[p].tabla[i].limite \in 0 .. TamMaxSegmento
    BY <2>1 DEF SegmentoReal
  <2>3. PICK f : f = Contenido(contextos[p].tabla[i])
    OBVIOUS
  <2>4. f \in Seq(Bytes) /\ Len(f) = contextos[p].tabla[i].limite
    BY <2>3, ContenidoReal
  <2>5. QED
    BY <2>1, <2>2, <2>3, <2>4 DEF Guardado
<1>2. contextos[p].tabla \in Seq(SegmentoReal)
  BY DEF MemInv, Memoria, Tipos, ContextoReal
<1>3. DOMAIN contextos[p].tabla = 1 .. Len(contextos[p].tabla) /\ Len(contextos[p].tabla) \in Nat
  BY <1>2
<1>4. QED
  BY <1>1, <1>3 DEF Bajado

\* proceso_suspender.
LEMMA ProcesoSuspenderMemoria ==
  ASSUME MemInv, NEW p \in Pids, ProcesoSuspender(p)
  PROVE  Memoria'
<1>1. /\ por_suspender[p] > 0 /\ KmAtiende
      /\ por_suspender' = [por_suspender EXCEPT ![p] = @ - 1]
      /\ UNCHANGED <<ram, sticks, escuchan, estado, pedido, pantalla, cpu, ks_caido>>
      /\ movidos' \subseteq Pids /\ memoria_ajena' \in BOOLEAN
  BY DEF ProcesoSuspender, MemInv, Memoria, Tipos
<1>2. \/ /\ swap' = [swap EXCEPT ![p] = Bajado(p)]
         /\ contextos' = [contextos EXCEPT ![p].tabla = <<>>]
      \/ UNCHANGED <<swap, contextos>>
  BY DEF ProcesoSuspender, Bajado
<1>3. Tipos'
  <2>1. swap' \in [Pids -> Seq(Guardado)]
    BY <1>2, BajadoReal DEF MemInv, Memoria, Tipos
  <2>2. contextos' \in [Pids -> ContextoReal]
    <3>1. [contextos[p] EXCEPT !.tabla = <<>>] \in ContextoReal
      <4>1. <<>> \in Seq(SegmentoReal)
        OBVIOUS
      <4>2. contextos[p] \in ContextoReal
        BY DEF MemInv, Memoria, Tipos
      <4>3. QED
        BY <4>1, <4>2 DEF ContextoReal
    <3>2. QED
      BY <1>2, <3>1 DEF MemInv, Memoria, Tipos
  <2>3. por_suspender' \in [Pids -> Nat]
    BY <1>1 DEF MemInv, Memoria, Tipos
  <2>4. QED
    BY <1>1, <2>1, <2>2, <2>3 DEF MemInv, Memoria, Tipos
<1>4. \A q \in Pids : /\ contextos'[q].tabla \in {contextos[q].tabla, <<>>}
                      /\ contextos[q].tabla = <<>> => contextos'[q].tabla = <<>>
                      /\ q # p => swap'[q] = swap[q]
                      /\ swap'[p] # swap[p] => contextos'[p].tabla = <<>>
  BY <1>2 DEF MemInv, Memoria, Tipos, ContextoReal
<1>5. EnMemoria' /\ Separados'
  <2>1. sticks \in Nat
    BY DEF MemInv, CacheInv
  <2>2. QED
    BY <1>1, <1>3, <1>4, <2>1, TablasMenos DEF MemInv, Memoria
<1>6. SinPedido'
  BY <1>1 DEF MemInv, Memoria, SinPedido
<1>7. Entrara'
  BY <1>1 DEF Entrara, KmAtiende
<1>8. QED
  BY <1>3, <1>5, <1>6, <1>7 DEF Memoria

\* proceso_dessuspender: every segment gets free bytes of its own, and in them what the
\* SWAP has of it; the other bytes stay.
Subido(p, nuevos) ==
  /\ contextos' = [contextos EXCEPT ![p].tabla = @ \o nuevos]
  /\ DOMAIN nuevos = DOMAIN swap[p]
  /\ \A i \in DOMAIN nuevos :
       /\ nuevos[i].id = swap[p][i].id
       /\ nuevos[i].limite = Len(swap[p][i].bytes)
       /\ nuevos[i].base \in HuecosPara(nuevos[i].limite)
       /\ nuevos[i].base + nuevos[i].limite <= Total
       /\ \A j \in 1 .. i - 1 : Lugar(nuevos[i]) \cap Lugar(nuevos[j]) = {}
       /\ \A k \in 1 .. nuevos[i].limite : ram'[nuevos[i].base + k - 1] = swap[p][i].bytes[k]
  /\ ram' \in [0 .. Total - 1 -> Bytes]
  /\ \A g \in 0 .. Total - 1 : g \notin Libres => ram'[g] = ram[g]

\* Dessuspender does that, with one free place for each segment that is in the SWAP.
LEMMA DessuspenderHecho ==
  ASSUME Anchos, MemInv, NEW p \in Pids, Dessuspender(p)
  PROVE  \E nuevos \in Seq(SegmentoReal) : Subido(p, nuevos)
<1>1. PICK b \in [DOMAIN swap[p] -> 0 .. Total - 1] :
        LET nuevos == [i \in DOMAIN b |-> [id |-> swap[p][i].id, base |-> b[i],
                                           limite |-> Len(swap[p][i].bytes)]]
        IN  /\ \A i \in DOMAIN b :
                 /\ b[i] \in HuecosPara(nuevos[i].limite)
                 /\ \A j \in 1 .. i - 1 : Lugar(nuevos[i]) \cap Lugar(nuevos[j]) = {}
            /\ contextos' = [contextos EXCEPT ![p].tabla = @ \o nuevos]
            /\ ram' = [g \in DOMAIN ram |->
                 LET en == {i \in DOMAIN b : g \in Lugar(nuevos[i])}
                 IN  IF en = {} THEN ram[g]
                     ELSE swap[p][UnicoDe(en)].bytes[g - b[UnicoDe(en)] + 1]]
  BY DEF Dessuspender
<1> DEFINE N == [i \in DOMAIN b |-> [id |-> swap[p][i].id, base |-> b[i],
                                     limite |-> Len(swap[p][i].bytes)]]
           En(g) == {i \in DOMAIN b : g \in Lugar(N[i])}
<1>2. /\ \A i \in DOMAIN b :
           /\ b[i] \in HuecosPara(N[i].limite)
           /\ \A j \in 1 .. i - 1 : Lugar(N[i]) \cap Lugar(N[j]) = {}
      /\ contextos' = [contextos EXCEPT ![p].tabla = @ \o N]
      /\ ram' = [g \in DOMAIN ram |->
           IF En(g) = {} THEN ram[g]
           ELSE swap[p][UnicoDe(En(g))].bytes[g - b[UnicoDe(En(g))] + 1]]
  BY <1>1, Zenon
<1>3. swap[p] \in Seq(Guardado) /\ ram \in [0 .. Total - 1 -> Bytes]
  BY DEF MemInv, Memoria, Tipos
<1>4. DOMAIN b = DOMAIN swap[p] /\ DOMAIN swap[p] = 1 .. Len(swap[p]) /\ Len(swap[p]) \in Nat
      /\ DOMAIN N = DOMAIN b
  BY <1>3
<1>5. ASSUME NEW i \in DOMAIN b
      PROVE  /\ N[i] \in SegmentoReal /\ i \in Nat
             /\ N[i].id = swap[p][i].id /\ N[i].base = b[i]
             /\ N[i].limite = Len(swap[p][i].bytes)
             /\ N[i].base \in Nat /\ N[i].limite \in Nat
             /\ swap[p][i].bytes \in Seq(Bytes)
  <2>1. swap[p][i] \in Guardado
    BY <1>3, <1>4
  <2>2. /\ swap[p][i].id \in Nat /\ swap[p][i].bytes \in Seq(Bytes)
        /\ Len(swap[p][i].bytes) \in 0 .. TamMaxSegmento
    BY <2>1 DEF Guardado
  <2>3. b[i] \in Nat
    BY <1>4
  <2>4. N[i] = [id |-> swap[p][i].id, base |-> b[i], limite |-> Len(swap[p][i].bytes)]
    OBVIOUS
  <2> HIDE DEF N
  <2>5. N[i] \in SegmentoReal
    BY <2>2, <2>3, <2>4 DEF SegmentoReal
  <2>6. Len(swap[p][i].bytes) \in Nat
    BY <2>2
  <2>7. QED
    BY <1>4, <2>2, <2>3, <2>4, <2>5, <2>6
<1> HIDE DEF N
<1>6. N \in Seq(SegmentoReal)
  <2>1. N = [i \in 1 .. Len(swap[p]) |-> N[i]]
    BY <1>4 DEF N
  <2>2. PICK n \in Nat : n = Len(swap[p])
    BY <1>4
  <2>3. \A i \in 1 .. n : N[i] \in SegmentoReal
    BY <1>4, <1>5, <2>2
  <2>4. [i \in 1 .. n |-> N[i]] \in Seq(SegmentoReal)
    BY <2>3
  <2>5. QED
    BY <2>1, <2>2, <2>4
<1>m. PICK m \in Nat : m = Base[sticks + 1] /\ m <= Total /\ Total \in Nat
  <2>1. sticks \in 1 .. Len(TamSticks)
    BY DEF MemInv, Memoria, Tipos
  <2>2. QED
    BY <2>1, MemoriaDe
<1>7. ASSUME NEW i \in DOMAIN b
      PROVE  /\ Lugar(N[i]) \subseteq Libres
             /\ N[i].base + N[i].limite <= Total
  <2>1. Lugar(N[i]) \subseteq Libres /\ b[i] \in Libres
    BY <1>2, <1>5 DEF HuecosPara, Lugar
  <2>2. Libres \subseteq 0 .. m - 1
    BY <1>m DEF Libres
  <2>3. PICK a \in Nat, n \in Nat : a = N[i].base /\ n = N[i].limite
    BY <1>5
  <2>4. a .. a + n - 1 \subseteq 0 .. m - 1 /\ a \in 0 .. m - 1
    BY <1>5, <2>1, <2>2, <2>3 DEF Lugar
  <2>5. a + n <= Total
    <3>1. CASE n = 0
      BY <1>m, <2>4, <3>1
    <3>2. CASE n > 0
      <4>1. a + n - 1 \in a .. a + n - 1
        BY <3>2
      <4>2. a + n - 1 \in 0 .. m - 1
        BY <2>4, <4>1
      <4>3. QED
        BY <1>m, <4>2
    <3>3. QED
      BY <3>1, <3>2
  <2>6. QED
    BY <2>1, <2>3, <2>5
<1>8. ASSUME NEW i \in DOMAIN b, NEW g \in Lugar(N[i])
      PROVE  /\ En(g) = {i} /\ UnicoDe(En(g)) = i /\ g \in 0 .. Total - 1
             /\ g \in Nat /\ b[i] \in Nat /\ g - b[i] + 1 \in 1 .. Len(swap[p][i].bytes)
  <2>1. \A j \in DOMAIN b : g \in Lugar(N[j]) => j = i
    <3> SUFFICES ASSUME NEW j \in DOMAIN b, g \in Lugar(N[j]), j # i PROVE FALSE
      OBVIOUS
    <3>1. i \in Nat \ {0} /\ j \in Nat \ {0}
      BY <1>4
    <3>2. CASE j < i
      <4>1. j \in 1 .. i - 1
        BY <3>1, <3>2
      <4>2. Lugar(N[i]) \cap Lugar(N[j]) = {}
        BY <1>2, <4>1
      <4>3. QED
        BY <4>2
    <3>3. CASE i < j
      <4>1. i \in 1 .. j - 1
        BY <3>1, <3>3
      <4>2. Lugar(N[j]) \cap Lugar(N[i]) = {}
        BY <1>2, <4>1
      <4>3. QED
        BY <4>2
    <3>4. QED
      BY <3>1, <3>2, <3>3
  <2>2. En(g) = {i}
    BY <2>1
  <2>3. UnicoDe(En(g)) = i
    BY <2>2 DEF UnicoDe
  <2>4. N[i].base \in Nat /\ N[i].limite \in Nat /\ N[i].base + N[i].limite <= Total
        /\ N[i].base = b[i] /\ N[i].limite = Len(swap[p][i].bytes)
    BY <1>5, <1>7
  <2>5. g \in N[i].base .. N[i].base + N[i].limite - 1
    BY DEF Lugar
  <2>6. PICK s \in Nat, n \in Nat, T \in Nat :
          s = N[i].base /\ n = N[i].limite /\ T = Total
    BY <1>m, <2>4
  <2>7. g \in s .. s + n - 1 /\ s + n <= T
    BY <2>4, <2>5, <2>6
  <2>8. g \in 0 .. T - 1 /\ g \in Nat /\ g - s + 1 \in 1 .. n
    BY <2>7
  <2>9. b[i] = s /\ Len(swap[p][i].bytes) = n
    BY <2>4, <2>6
  <2>10. QED
    BY <2>2, <2>3, <2>6, <2>8, <2>9
<1>9. ram' \in [0 .. Total - 1 -> Bytes]
  <2>1. ASSUME NEW g \in 0 .. Total - 1, En(g) # {}
        PROVE  swap[p][UnicoDe(En(g))].bytes[g - b[UnicoDe(En(g))] + 1] \in Bytes
    <3>1. PICK i \in DOMAIN b : g \in Lugar(N[i])
      BY <2>1
    <3>2. UnicoDe(En(g)) = i /\ g - b[i] + 1 \in 1 .. Len(swap[p][i].bytes)
      BY <1>8, <3>1
    <3>3. swap[p][i].bytes \in Seq(Bytes)
      BY <1>5
    <3> HIDE DEF En
    <3>4. QED
      BY <3>2, <3>3
  <2> HIDE DEF En
  <2>2. QED
    BY <1>2, <1>3, <2>1
<1>10. ASSUME NEW i \in DOMAIN b, NEW k \in 1 .. N[i].limite
       PROVE  ram'[N[i].base + k - 1] = swap[p][i].bytes[k]
  <2>1. PICK g : g = N[i].base + k - 1
    OBVIOUS
  <2>2. g \in Lugar(N[i]) /\ g - b[i] + 1 = k
    BY <1>5, <2>1 DEF Lugar
  <2>3. En(g) # {} /\ UnicoDe(En(g)) = i /\ g \in 0 .. Total - 1
    BY <1>8, <2>2
  <2> HIDE DEF En
  <2>4. ram'[g] = swap[p][i].bytes[g - b[i] + 1]
    BY <1>2, <1>3, <2>3
  <2>5. QED
    BY <2>1, <2>2, <2>4
<1>11. ASSUME NEW g \in 0 .. Total - 1, g \notin Libres
       PROVE  ram'[g] = ram[g]
  <2>1. En(g) = {}
    BY <1>7, <1>11
  <2> HIDE DEF En
  <2>2. QED
    BY <1>2, <1>3, <2>1
<1>12. Subido(p, N)
  <2> HIDE DEF En
  <2>1. \A i \in DOMAIN N :
           /\ N[i].id = swap[p][i].id
           /\ N[i].limite = Len(swap[p][i].bytes)
           /\ N[i].base \in HuecosPara(N[i].limite)
           /\ N[i].base + N[i].limite <= Total
           /\ \A j \in 1 .. i - 1 : Lugar(N[i]) \cap Lugar(N[j]) = {}
           /\ \A k \in 1 .. N[i].limite : ram'[N[i].base + k - 1] = swap[p][i].bytes[k]
    BY <1>2, <1>4, <1>5, <1>7, <1>10
  <2>2. QED
    BY <1>2, <1>4, <1>9, <1>11, <2>1 DEF Subido
<1>13. QED
  BY <1>6, <1>12

\* proceso_dessuspender.
LEMMA DessuspenderMemoria ==
  ASSUME Anchos, MemInv, NEW p \in Pids, Dessuspender(p)
  PROVE  Memoria'
<1>1. /\ estado[p] = "SUSP_READY" /\ KmAtiende
      /\ swap' = [swap EXCEPT ![p] = <<>>]
      /\ estado' = [estado EXCEPT ![p] = "READY"]
      /\ UNCHANGED <<sticks, escuchan, pedido, pantalla, cpu, suspVars>>
  BY DEF Dessuspender
<1>2. PICK nuevos \in Seq(SegmentoReal) : Subido(p, nuevos)
  BY DessuspenderHecho
<1>3. /\ contextos' = [contextos EXCEPT ![p].tabla = @ \o nuevos]
      /\ ram' \in [0 .. Total - 1 -> Bytes]
      /\ \A i \in DOMAIN nuevos :
           /\ nuevos[i].base \in HuecosPara(nuevos[i].limite)
           /\ \A j \in 1 .. i - 1 : Lugar(nuevos[i]) \cap Lugar(nuevos[j]) = {}
  BY <1>2 DEF Subido
<1>4. EnMemoria' /\ Separados' /\ contextos' \in [Pids -> ContextoReal]
  BY <1>1, <1>3, TablaMas DEF MemInv, Memoria
<1>5. Tipos'
  <2>1. swap' \in [Pids -> Seq(Guardado)]
    BY <1>1 DEF MemInv, Memoria, Tipos
  <2>2. estado' \in [Pids -> EstadosProceso]
    BY <1>1 DEF MemInv, Memoria, Tipos, EstadosProceso
  <2>3. QED
    BY <1>1, <1>3, <1>4, <2>1, <2>2 DEF MemInv, Memoria, Tipos, suspVars, avisoVars
<1>6. \A q \in Pids : /\ estado'[q] = IF q = p THEN "READY" ELSE estado[q]
                      /\ swap'[q] = IF q = p THEN <<>> ELSE swap[q]
                      /\ q # p => contextos'[q].tabla = contextos[q].tabla
  BY <1>1, <1>3 DEF MemInv, Memoria, Tipos
<1>7. SinPedido'
  BY <1>1, <1>6 DEF MemInv, Memoria, SinPedido
<1>8. Entrara'
  BY <1>1 DEF Entrara, KmAtiende
<1>9. QED
  BY <1>4, <1>5, <1>7, <1>8 DEF Memoria

\* Every step of a device, a suspension or its end.
LEMMA PasoProcesoMemoria ==
  ASSUME Anchos, MemInv, NEW p \in Pids, PasoProceso(p)
  PROVE  Memoria'
<1>1. CASE KsCae(p)
  <2>1. UNCHANGED <<contextos, ram, sticks, escuchan, swap, estado, pedido, pantalla, cpu,
                    por_suspender, movidos, memoria_ajena>> /\ ks_caido' \in BOOLEAN
    BY <1>1 DEF KsCae, memVars
  <2>2. escuchan' \subseteq 1 .. sticks
    BY <2>1 DEF MemInv, Memoria, Tipos
  <2>3. QED
    BY <2>1, <2>2, NadaMemoria
<1>2. QED
  BY <1>1, FinSleepMemoria, FinStdinMemoria, FinStdoutMemoria, SuspenderMemoria,
     ProcesoSuspenderMemoria, DessuspenderMemoria DEF PasoProceso

\* A stick joins, or listens.
LEMMA PasoStickMemoria ==
  ASSUME Anchos, MemInv, PasoStick
  PROVE  Memoria'
<1>1. CASE Escuchar
  <2>1. UNCHANGED <<contextos, ram, sticks, swap, estado, pedido, pantalla, cpu, suspVars>>
        /\ escuchan' \subseteq 1 .. sticks
    BY <1>1 DEF Escuchar, MemInv, Memoria, Tipos
  <2>2. ks_caido' \in BOOLEAN /\ UNCHANGED <<por_suspender, movidos, memoria_ajena>>
    BY <2>1 DEF MemInv, Memoria, Tipos, suspVars, avisoVars
  <2>3. QED
    BY <2>1, <2>2, NadaMemoria
<1>2. CASE Conectar
  <2>1. /\ sticks < Len(TamSticks) /\ sticks' = sticks + 1
        /\ UNCHANGED <<contextos, ram, escuchan, swap, estado, pedido, pantalla, cpu, suspVars>>
    BY <1>2 DEF Conectar
  <2>2. Len(TamSticks) \in Nat /\ sticks \in 1 .. Len(TamSticks)
    BY MmuOK DEF MemInv, Memoria, Tipos
  <2>3. sticks' \in 1 .. Len(TamSticks) /\ sticks <= sticks' /\ 1 .. sticks \subseteq 1 .. sticks'
    BY <2>1, <2>2
  <2>4. Tipos'
    BY <2>1, <2>3 DEF MemInv, Memoria, Tipos, suspVars, avisoVars
  <2>5. /\ EnMemoria' /\ Separados'
        /\ Cardinality(Libres) <= Cardinality(Libres)'
        /\ Cardinality(Libres) \in Nat /\ Cardinality(Libres)' \in Nat
    BY <2>1, <2>3, <2>4, TablasMenos DEF MemInv, Memoria
  <2>6. SinPedido'
    BY <2>1 DEF MemInv, Memoria, SinPedido
  <2>7. Entrara'
    <3> SUFFICES ASSUME NEW c \in Cpus, cpu[c].estado = "compacta"
                 PROVE  /\ pedido[cpu[c].pid].tam <= TamMaxSegmento
                        /\ pedido[cpu[c].pid].tam <= Cardinality(Libres)'
                        /\ \A d \in Cpus \ {c} : cpu[d].estado # "compacta"
      BY <2>1 DEF Entrara
    <3>1. /\ pedido[cpu[c].pid].tam <= TamMaxSegmento
          /\ pedido[cpu[c].pid].tam <= Cardinality(Libres)
          /\ \A d \in Cpus \ {c} : cpu[d].estado # "compacta"
      BY DEF MemInv, Memoria, Entrara
    <3>2. cpu[c].pid \in Pids /\ pedido[cpu[c].pid].op = "MEM_ALLOC"
      BY ProcesoEnCpu DEF MemInv, CacheInv, Inv, EstadoEnCpu
    <3>3. pedido[cpu[c].pid].tam \in Nat
      BY <3>2, PedidoDeCrear
    <3>4. QED
      BY <2>5, <3>1, <3>3
  <2>8. QED
    BY <2>4, <2>5, <2>6, <2>7 DEF Memoria
<1>3. QED
  BY <1>1, <1>2 DEF PasoStick

-----------------------------------------------------------------------------
\* At the beginning no process has segments.
LEMMA MemInicial ==
  ASSUME Anchos, Init
  PROVE  MemInv
<1>1. CacheInv
  <2>1. \A c \in Cpus : cpu[c].lista = ActualizarMemorySticks(1, escuchan)
    BY DEF Init, Libre
  <2>2. sticks = 1
    BY DEF Init
  <2>3. CacheFiel /\ \A c \in Cpus : \A e \in cpu[c].lista : e.stick \in Nat
    BY <2>1, <2>2 DEF CacheFiel, ActualizarMemorySticks
  <2>4. QED
    BY <2>2, <2>3, InvInicial DEF CacheInv
<1>2. PICK q \in [Pids -> Programas] : contextos = [p \in Pids |-> Contexto(q[p])]
  BY DEF Init
<1>3. EnCero \in Registro /\ <<>> \in Seq(SegmentoReal)
  BY EnCeroTipo
<1>4. contextos \in [Pids -> ContextoReal]
  BY <1>2, <1>3 DEF Contexto, ContextoReal
<1>5. \A p \in Pids : contextos[p].tabla = <<>>
  BY <1>2 DEF Contexto
<1>6. Len(TamSticks) \in Nat /\ Len(TamSticks) >= 1
  <2>1. \A t \in Seq(Nat \ {0}) : Len(t) \in Nat /\ (t # <<>> => Len(t) >= 1)
    OBVIOUS
  <2>2. QED
    BY <2>1, MmuOK DEF Anchos
<1>7. ActualizarMemorySticks(1, escuchan) \in Lista
  <2>1. ASSUME NEW s \in (1 .. 1) \cap escuchan
        PROVE  [stick |-> s, base |-> Base[s]] \in [stick : 1 .. Len(TamSticks), base : 0 .. Total - 1]
    <3>1. s = 1 /\ s \in 1 .. Len(TamSticks)
      BY <1>6
    <3>2. Base[1] = 0 /\ Base[1 + 1] = Base[1] + TamSticks[1] /\ TamSticks[1] \in Nat \ {0}
      <4>1. Base[1] = 0 /\ Base[1 + 1] = Base[1] + TamSticks[1]
        BY <3>1, BasesPasoAPaso
      <4>2. TamSticks[1] \in Nat \ {0}
        BY <1>6, MmuOK
      <4>3. QED
        BY <4>1, <4>2
    <3>3. Base[1 + 1] <= Total /\ Total \in Nat /\ Base[1 + 1] \in Nat
      <4>1. 1 + 1 \in 1 .. Len(TamSticks) + 1 /\ Len(TamSticks) + 1 \in 1 .. Len(TamSticks) + 1
            /\ 1 + 1 <= Len(TamSticks) + 1
        BY <1>6
      <4>2. QED
        BY <4>1, BaseCrece
    <3>4. Base[s] \in 0 .. Total - 1
      BY <3>1, <3>2, <3>3
    <3>5. QED
      BY <3>1, <3>4
  <2>2. QED
    BY <2>1 DEF ActualizarMemorySticks, Lista
<1>8. cpu \in [Cpus -> CpuReal]
  <2>1. cpu = [c \in Cpus |-> Libre(ActualizarMemorySticks(1, escuchan))]
    BY DEF Init
  <2>2. Libre(ActualizarMemorySticks(1, escuchan)) \in CpuReal
    BY <1>3, <1>7 DEF Libre, CpuReal, EstadosCpu
  <2>3. QED
    BY <2>1, <2>2
<1>9. Tipos
  <2>1. ram \in [0 .. Total - 1 -> Bytes]
    BY AnchosOK DEF Init, Bytes
  <2>2. sticks \in 1 .. Len(TamSticks) /\ escuchan \subseteq 1 .. sticks
    BY <1>6 DEF Init
  <2>3. /\ swap \in [Pids -> Seq(Guardado)] /\ estado \in [Pids -> EstadosProceso]
        /\ pedido \in [Pids -> PedidosReales] /\ pantalla \in [Pids -> Seq(Bytes)]
        /\ por_suspender \in [Pids -> Nat] /\ movidos \subseteq Pids
        /\ memoria_ajena \in BOOLEAN /\ ks_caido \in BOOLEAN
    <3>1. <<>> \in Seq(Guardado) /\ <<>> \in Seq(Bytes)
      OBVIOUS
    <3>2. Nada \in PedidosReales /\ "READY" \in EstadosProceso
      BY DEF PedidosReales, EstadosProceso
    <3>3. QED
      BY <3>1, <3>2 DEF Init
  <2>4. QED
    BY <1>4, <1>8, <2>1, <2>2, <2>3 DEF Tipos
<1>10. EnMemoria /\ Separados
  BY <1>5 DEF EnMemoria, Separados
<1>11. EnSwap /\ SinPedido /\ Entrara
  BY DEF Init, EnSwap, SinPedido, Entrara, Libre
<1>12. TablasDeCpu /\ TablaEntera
  BY DEF Init, TablasDeCpu, TablaEntera, Libre
<1>13. QED
  BY <1>1, <1>9, <1>10, <1>11, <1>12 DEF MemInv, Memoria

\* Every step keeps the segments in the memory and apart, and everything of its type.
LEMMA MemoriaConserva ==
  ASSUME Anchos, MemInv, [Next]_vars
  PROVE  CacheInv' /\ Memoria'
<1>1. CacheInv'
  BY CacheConserva DEF MemInv
<1>2. CASE UNCHANGED vars
  <2>1. UNCHANGED <<contextos, ram, sticks, escuchan, swap, estado, pedido, pantalla, cpu,
                    por_suspender, movidos, memoria_ajena, ks_caido>>
    BY <1>2 DEF vars
  <2>2. escuchan' \subseteq 1 .. sticks /\ ks_caido' \in BOOLEAN
    BY <2>1 DEF MemInv, Memoria, Tipos
  <2>3. Memoria'
    BY <2>1, <2>2, NadaMemoria
  <2>4. QED
    BY <1>1, <2>3
<1>3. CASE Next
  <2>1. Memoria'
    BY <1>1, <1>3, PasoCpuMemoria, PasoMemoriaMemoria, PasoProcesoMemoria, PasoStickMemoria
       DEF Next
  <2>2. QED
    BY <1>1, <2>1
<1>4. QED
  BY <1>2, <1>3

\* Every table that a CPU gets is one that the Kernel Memory had.
LEMMA TablasCopiadas ==
  ASSUME Anchos, MemInv, [Next]_vars, NEW d \in Cpus
  PROVE  \/ cpu'[d].tabla \in {cpu[d].tabla, <<>>}
         \/ \E p \in Pids : cpu'[d].tabla = contextos[p].tabla
<1> DEFINE Queda == \/ cpu'[d].tabla \in {cpu[d].tabla, <<>>}
                    \/ \E p \in Pids : cpu'[d].tabla = contextos[p].tabla
<1>1. cpu \in [Cpus -> CpuReal]
  BY DEF MemInv, Memoria, Tipos
<1>2. ASSUME NEW c \in Cpus, NEW l, Terminar(c, l) PROVE Queda
  BY <1>1, <1>2 DEF Terminar, Libre, CpuReal
<1>3. ASSUME NEW c \in Cpus, Soltar(c) PROVE Queda
  BY <1>1, <1>3 DEF Soltar, Libre, CpuReal
<1>4. ASSUME NEW c \in Cpus, PasoCpu(c) PROVE Queda
  <2>1. CASE Ejecutar(c)
    <3>1. EfectoReal(c)
      BY <2>1, EjecutarReal
    <3>2. CASE SigueCon(c)
      <4>1. PICK r \in Registro, l \in Lista :
              cpu' = [cpu EXCEPT ![c].registros = r, ![c].lista = l, ![c].estado = "chequea"]
        BY <3>2 DEF SigueCon, Continuar
      <4>2. cpu'[d].tabla = cpu[d].tabla
        BY <1>1, <4>1 DEF CpuReal
      <4>3. QED
        BY <4>2
    <3>3. CASE \E x \in PedidosDeMemoria : PedirYEsperar(c, x)
      <4>1. cpu' = [cpu EXCEPT ![c].registros = Avanzar(@), ![c].estado = "respuesta"]
        BY <3>3 DEF PedirYEsperar
      <4>2. cpu'[d].tabla = cpu[d].tabla
        BY <1>1, <4>1 DEF CpuReal
      <4>3. QED
        BY <4>2
    <3>4. CASE \E x \in PedidosDeIo : Bloquear(c, x)
      BY <1>3, <3>4 DEF Bloquear
    <3>5. QED
      BY <1>2, <3>1, <3>2, <3>3, <3>4 DEF EfectoReal
  <2>2. CASE ObtenerContexto(c)
    <3>1. cpu[c].pid \in Pids
      BY <2>2, ProcesoEnCpu DEF ObtenerContexto
    <3>2. cpu'[d].tabla = IF d = c THEN contextos[cpu[c].pid].tabla ELSE cpu[d].tabla
      BY <1>1, <2>2 DEF ObtenerContexto, CpuReal
    <3>3. QED
      BY <3>1, <3>2
  <2>3. CASE NoInterrumpir(c)
    BY <1>1, <2>3 DEF NoInterrumpir, CpuReal
  <2>4. CASE Interrumpir(c)
    BY <1>3, <2>4 DEF Interrumpir
  <2>5. CASE \E p \in Pids : Despachar(c, p)
    <3>1. PICK p \in Pids : cpu' = [cpu EXCEPT ![c].estado = "asignada", ![c].pid = p]
      BY <2>5 DEF Despachar
    <3>2. cpu'[d].tabla = cpu[d].tabla
      BY <1>1, <3>1 DEF CpuReal
    <3>3. QED
      BY <3>2
  <2>6. QED
    BY <1>4, <2>1, <2>2, <2>3, <2>4, <2>5 DEF PasoCpu
<1>5. ASSUME NEW c \in Cpus, NEW e, Responde(c, e) PROVE Queda
  BY <1>1, <1>5 DEF Responde, CpuReal
<1>6. ASSUME NEW c \in Cpus, PasoMemoria(c) PROVE Queda
  <2>1. CASE SegmentoCrear(c)
    BY <1>5, <2>1 DEF SegmentoCrear
  <2>2. CASE SegmentoError(c)
    BY <1>2, <2>2 DEF SegmentoError
  <2>3. CASE SegmentoEliminar(c)
    BY <1>2, <1>5, <2>3 DEF SegmentoEliminar
  <2>4. CASE PedirCompactar(c)
    BY <1>1, <2>4 DEF PedirCompactar, CpuReal
  <2>5. CASE Compactar(c)
    <3>1. Responde(c, "asignada")
      BY <2>5, Zenon DEF Compactar
    <3>2. QED
      BY <1>5, <3>1
  <2>6. QED
    BY <1>6, <2>1, <2>2, <2>3, <2>4, <2>5 DEF PasoMemoria
<1>7. ASSUME cpu' = cpu PROVE Queda
  BY <1>7
<1>8. ASSUME NEW p \in Pids, PasoProceso(p) PROVE cpu' = cpu
  BY <1>8 DEF PasoProceso, FinSleep, FinStdin, FinStdout, KsCae, Suspender, ProcesoSuspender, Dessuspender
<1>9. CASE PasoStick \/ UNCHANGED vars
  BY <1>7, <1>9 DEF PasoStick, Conectar, Escuchar, vars
<1>10. QED
  BY <1>4, <1>6, <1>7, <1>8, <1>9 DEF Next

\* No CPU gets a table of segments that are not in the memory.
LEMMA TablasDeCpuConserva ==
  ASSUME Anchos, MemInv, [Next]_vars
  PROVE  TablasDeCpu'
<1> SUFFICES ASSUME NEW d \in Cpus, NEW i \in DOMAIN cpu'[d].tabla
             PROVE  cpu'[d].tabla[i].base + cpu'[d].tabla[i].limite <= Total
  BY DEF TablasDeCpu
<1>1. CASE cpu'[d].tabla \in {cpu[d].tabla, <<>>}
  BY <1>1 DEF MemInv, TablasDeCpu
<1>2. CASE \E p \in Pids : cpu'[d].tabla = contextos[p].tabla
  <2>1. PICK p \in Pids : cpu'[d].tabla = contextos[p].tabla
    BY <1>2
  <2>2. QED
    BY <2>1, ContenidoReal
<1>3. QED
  BY <1>1, <1>2, TablasCopiadas

\* A step of a CPU, or an answer to it that is not a compaction, leaves the other processes
\* and the other CPUs alone.
Aparta(c) ==
  /\ \A d \in Cpus \ {c} : cpu'[d] = cpu[d]
  /\ \A q \in Pids :
       /\ swap'[q] \in {swap[q], <<>>}
       /\ q # cpu[c].pid =>
            /\ contextos'[q] = contextos[q] /\ swap'[q] = swap[q]
            /\ estado'[q] = estado[q] \/ estado[q] = "READY"

\* An instruction of a CPU.
LEMMA EjecutarAparta ==
  ASSUME Anchos, MemInv, NEW c \in Cpus, Ejecutar(c)
  PROVE  /\ Aparta(c)
         /\ cpu'[c].estado \in {"ejecuta", "chequea"} =>
              /\ cpu'[c].pid = cpu[c].pid /\ cpu'[c].tabla = cpu[c].tabla
              /\ UNCHANGED <<contextos, swap>>
<1>1. /\ cpu \in [Cpus -> CpuReal] /\ contextos \in [Pids -> ContextoReal]
      /\ swap \in [Pids -> Seq(Guardado)] /\ estado \in [Pids -> EstadosProceso]
  BY DEF MemInv, Memoria, Tipos
<1>2. EfectoReal(c)
  BY EjecutarReal
<1>3. CASE SigueCon(c)
  <2>1. PICK r \in Registro, l \in Lista :
          cpu' = [cpu EXCEPT ![c].registros = r, ![c].lista = l, ![c].estado = "chequea"]
    BY <1>3 DEF SigueCon, Continuar
  <2>2. UNCHANGED <<contextos, swap, estado>>
    BY <1>3 DEF SigueCon
  <2>3. QED
    BY <1>1, <2>1, <2>2 DEF Aparta, CpuReal
<1>4. CASE \E l \in Lista : Terminar(c, l)
  BY <1>1, <1>4 DEF Terminar, Aparta, Libre
<1>5. CASE \E x \in PedidosDeMemoria : PedirYEsperar(c, x)
  BY <1>1, <1>5 DEF PedirYEsperar, GuardarContexto, Aparta, memVars, CpuReal
<1>6. CASE \E x \in PedidosDeIo : Bloquear(c, x)
  BY <1>1, <1>6 DEF Bloquear, GuardarContexto, Soltar, Aparta, memVars, Libre
<1>7. QED
  BY <1>2, <1>3, <1>4, <1>5, <1>6 DEF EfectoReal

\* The other steps of a CPU: one that executes after them has asked for the context, or
\* had it.
LEMMA PasoCpuAparta ==
  ASSUME Anchos, MemInv, NEW c \in Cpus, PasoCpu(c)
  PROVE  /\ Aparta(c)
         /\ cpu'[c].estado \in {"ejecuta", "chequea"} =>
              /\ cpu'[c].pid = cpu[c].pid
              /\ \/ cpu'[c].tabla = contextos'[cpu[c].pid].tabla
                 \/ /\ cpu[c].estado \in {"ejecuta", "chequea"}
                    /\ cpu'[c].tabla = cpu[c].tabla
                    /\ UNCHANGED <<contextos, swap>>
<1>1. /\ cpu \in [Cpus -> CpuReal] /\ contextos \in [Pids -> ContextoReal]
      /\ swap \in [Pids -> Seq(Guardado)] /\ estado \in [Pids -> EstadosProceso]
  BY DEF MemInv, Memoria, Tipos
<1>2. CASE Ejecutar(c)
  <2>1. cpu[c].estado = "ejecuta"
    BY <1>2, EjecutarReal DEF EfectoReal
  <2>2. QED
    BY <1>2, <2>1, EjecutarAparta
<1>3. CASE \E p \in Pids : Despachar(c, p)
  BY <1>1, <1>3 DEF Despachar, Aparta, memVars, CpuReal
<1>4. CASE ObtenerContexto(c)
  <2>1. /\ cpu' = [cpu EXCEPT ![c].registros = contextos[cpu[c].pid].registros,
                              ![c].tabla = contextos[cpu[c].pid].tabla,
                              ![c].estado = IF @ = "asignada" THEN "ejecuta" ELSE "chequea"]
        /\ UNCHANGED <<contextos, swap, estado>>
    BY <1>4 DEF ObtenerContexto, memVars
  <2>2. /\ cpu'[c].pid = cpu[c].pid /\ cpu'[c].tabla = contextos[cpu[c].pid].tabla
        /\ \A d \in Cpus \ {c} : cpu'[d] = cpu[d]
    BY <1>1, <2>1 DEF CpuReal
  <2>3. QED
    BY <2>1, <2>2 DEF Aparta
<1>5. CASE NoInterrumpir(c)
  BY <1>1, <1>5 DEF NoInterrumpir, Aparta, memVars, CpuReal
<1>6. CASE Interrumpir(c)
  BY <1>1, <1>6 DEF Interrumpir, GuardarContexto, Soltar, Aparta, memVars, Libre
<1>7. QED
  BY <1>2, <1>3, <1>4, <1>5, <1>6 DEF PasoCpu

\* The answers to a CPU.
LEMMA PasoMemoriaAparta ==
  ASSUME MemInv, NEW c \in Cpus, PasoMemoria(c), ~ Compactar(c)
  PROVE  Aparta(c) /\ cpu'[c].estado \notin {"ejecuta", "chequea"}
<1>1. /\ cpu \in [Cpus -> CpuReal] /\ contextos \in [Pids -> ContextoReal]
      /\ swap \in [Pids -> Seq(Guardado)] /\ estado \in [Pids -> EstadosProceso]
  BY DEF MemInv, Memoria, Tipos
<1>2. ASSUME NEW l, Terminar(c, l)
      PROVE  Aparta(c) /\ cpu'[c].estado \notin {"ejecuta", "chequea"}
  BY <1>1, <1>2 DEF Terminar, Aparta, Libre
<1>3. ASSUME Responde(c, "refresca"), UNCHANGED <<swap, estado>>,
             \E t : contextos' = [contextos EXCEPT ![cpu[c].pid].tabla = t]
      PROVE  Aparta(c) /\ cpu'[c].estado \notin {"ejecuta", "chequea"}
  BY <1>1, <1>3 DEF Responde, Aparta, CpuReal
<1>4. CASE SegmentoCrear(c)
  <2>1. \E t : contextos' = [contextos EXCEPT ![cpu[c].pid].tabla = t]
    <3>1. PICK s : contextos' = [contextos EXCEPT ![cpu[c].pid].tabla = Append(@, s)]
      BY <1>4 DEF SegmentoCrear
    <3>2. contextos' = [contextos EXCEPT ![cpu[c].pid].tabla =
                          Append(contextos[cpu[c].pid].tabla, s)]
      BY <3>1
    <3>3. QED
      BY <3>2
  <2>2. Responde(c, "refresca") /\ UNCHANGED <<swap, estado>>
    BY <1>4 DEF SegmentoCrear, memVars
  <2>3. QED
    BY <1>3, <2>1, <2>2
<1>5. CASE SegmentoError(c)
  BY <1>2, <1>5 DEF SegmentoError
<1>6. CASE SegmentoEliminar(c)
  <2>1. CASE Terminar(c, cpu[c].lista)
    BY <1>2, <2>1
  <2>2. CASE ~ Terminar(c, cpu[c].lista)
    <3>1. PICK i : contextos' = [contextos EXCEPT ![cpu[c].pid].tabla = RemoveAt(@, i)]
      BY <1>6, <2>2 DEF SegmentoEliminar
    <3>2. contextos' = [contextos EXCEPT ![cpu[c].pid].tabla =
                          RemoveAt(contextos[cpu[c].pid].tabla, i)]
      BY <3>1
    <3>3. Responde(c, "refresca") /\ UNCHANGED <<swap, estado>>
      BY <1>6, <2>2 DEF SegmentoEliminar, memVars
    <3>4. QED
      BY <1>3, <3>2, <3>3
  <2>3. QED
    BY <2>1, <2>2
<1>7. CASE PedirCompactar(c)
  BY <1>1, <1>7 DEF PedirCompactar, Aparta, memVars, CpuReal
<1>8. QED
  BY <1>4, <1>5, <1>6, <1>7 DEF PasoMemoria

\* A compaction keeps what the MMU looks at, and which processes have no segments.
LEMMA CompactarLimites ==
  ASSUME MemInv, NEW c \in Cpus, Compactar(c)
  PROVE  /\ cpu[c].estado = "compacta" /\ swap' = swap
         /\ \A d \in Cpus : /\ d # c => cpu'[d] = cpu[d]
                            /\ cpu'[c].estado = "asignada"
         /\ \A q \in Pids : q # cpu[c].pid =>
              /\ Limites(contextos'[q].tabla) = Limites(contextos[q].tabla)
              /\ contextos[q].tabla = <<>> => contextos'[q].tabla = <<>>
              /\ estado'[q] = estado[q]
<1>1. /\ cpu[c].estado = "compacta"
      /\ cpu' = [cpu EXCEPT ![c].estado = "asignada"]
      /\ estado' = [estado EXCEPT ![cpu[c].pid] = "EXEC"]
      /\ swap' = swap
  BY Zenon DEF Compactar, Responde
<1>2. /\ \A q \in Pids : Movido(q) \in Seq(SegmentoReal)
      /\ \A q \in Pids : q # cpu[c].pid => contextos'[q].tabla = Movido(q)
  <2>1. \A q \in Pids : contextos[q] \in ContextoReal
    BY DEF MemInv, Memoria, Tipos
  <2>2. PICK n : contextos' = [q \in Pids |-> [contextos[q] EXCEPT !.tabla =
                   IF q = cpu[c].pid THEN Append(Movido(q), n) ELSE Movido(q)]]
    BY CompactarTablas
  <2>3. \A q \in Pids : Movido(q) \in Seq(SegmentoReal)
    BY CompactarTablas
  <2>4. QED
    BY <2>1, <2>2, <2>3 DEF ContextoReal
<1>3. ASSUME NEW q \in Pids
      PROVE  /\ Limites(Movido(q)) = Limites(contextos[q].tabla)
             /\ contextos[q].tabla = <<>> => Movido(q) = <<>>
  <2>1. \A i \in DOMAIN contextos[q].tabla :
          [contextos[q].tabla[i] EXCEPT !.base = NuevaBase(<<q, i>>)].id = contextos[q].tabla[i].id
          /\ [contextos[q].tabla[i] EXCEPT !.base = NuevaBase(<<q, i>>)].limite
               = contextos[q].tabla[i].limite
    BY SegmentoNumeros DEF MemInv, Memoria, SegmentoReal
  <2>2. DOMAIN Movido(q) = DOMAIN contextos[q].tabla
        /\ \A i \in DOMAIN contextos[q].tabla : /\ Movido(q)[i].id = contextos[q].tabla[i].id
                                                /\ Movido(q)[i].limite = contextos[q].tabla[i].limite
    BY <2>1 DEF Movido
  <2>3. Limites(Movido(q)) = Limites(contextos[q].tabla)
    BY <2>2 DEF Limites
  <2>4. contextos[q].tabla = <<>> => Movido(q) = <<>>
    <3>1. PICK u \in Seq(SegmentoReal) : u = Movido(q)
      BY <1>2
    <3>2. contextos[q].tabla = <<>> => DOMAIN u = {}
      BY <2>2, <3>1
    <3>3. QED
      BY <3>1, <3>2
  <2>5. QED
    BY <2>3, <2>4
<1>4. QED
  BY <1>1, <1>2, <1>3 DEF MemInv, Memoria, Tipos, CpuReal

\* proceso_suspender keeps what the MMU looks at: in the SWAP.
LEMMA BajadoLimites ==
  ASSUME MemInv, NEW p \in Pids
  PROVE  LimitesEnSwap(Bajado(p)) = Limites(contextos[p].tabla)
<1>1. DOMAIN Bajado(p) = DOMAIN contextos[p].tabla
  BY DEF Bajado
<1>2. \A i \in DOMAIN contextos[p].tabla :
        /\ Bajado(p)[i].id = contextos[p].tabla[i].id
        /\ Len(Bajado(p)[i].bytes) = contextos[p].tabla[i].limite
  <2> SUFFICES ASSUME NEW i \in DOMAIN contextos[p].tabla
               PROVE  /\ Bajado(p)[i].id = contextos[p].tabla[i].id
                      /\ Len(Bajado(p)[i].bytes) = contextos[p].tabla[i].limite
    OBVIOUS
  <2>1. Bajado(p)[i].id = contextos[p].tabla[i].id
        /\ Bajado(p)[i].bytes = Contenido(contextos[p].tabla[i])
    BY DEF Bajado
  <2>2. Len(Contenido(contextos[p].tabla[i])) = contextos[p].tabla[i].limite
    BY ContenidoReal
  <2>3. QED
    BY <2>1, <2>2
<1>3. QED
  BY <1>1, <1>2 DEF Limites, LimitesEnSwap

\* What a step of a device, a suspension or its end does to the segments of a process.
LEMMA PasoProcesoAparta ==
  ASSUME MemInv, NEW q \in Pids, PasoProceso(q), NEW p \in Pids
  PROVE  /\ cpu' = cpu
         /\ \/ contextos'[p].tabla = contextos[p].tabla /\ swap'[p] = swap[p]
            \/ /\ contextos[p].tabla # <<>> /\ contextos'[p].tabla = <<>>
               /\ swap'[p] = Bajado(p) /\ estado'[p] = estado[p]
               /\ memoria_ajena' = (memoria_ajena \/ estado[p] \notin Suspendido)
            \/ p = q /\ estado[p] = "SUSP_READY" /\ swap'[p] = <<>>
         /\ \/ estado'[p] = estado[p]
            \/ estado[p] = "BLOCK"
            \/ estado[p] = "SUSP_BLOCK" /\ estado'[p] = "SUSP_READY"
            \/ p = q /\ estado[p] = "SUSP_READY" /\ swap'[p] = <<>>
<1>1. /\ contextos \in [Pids -> ContextoReal] /\ swap \in [Pids -> Seq(Guardado)]
      /\ estado \in [Pids -> EstadosProceso]
  BY DEF MemInv, Memoria, Tipos
<1>2. CASE FinSleep(q) \/ FinStdin(q) \/ FinStdout(q)
  <2>1. UNCHANGED <<contextos, swap, cpu>> /\ Despertar(q) /\ pedido[q].op \in DeIo
    BY <1>2 DEF FinSleep, FinStdin, FinStdout, memVars, DeIo
  <2>2. estado[q] \in {"BLOCK", "SUSP_BLOCK"}
    BY <2>1, EsperaDispositivo
  <2>3. QED
    BY <1>1, <2>1, <2>2 DEF Despertar
<1>3. CASE KsCae(q)
  BY <1>3 DEF KsCae, memVars
<1>4. CASE Suspender(q)
  BY <1>1, <1>4 DEF Suspender, memVars
<1>5. CASE ProcesoSuspender(q)
  <2>1. CASE UNCHANGED <<swap, contextos, movidos, memoria_ajena>>
    BY <1>5, <2>1 DEF ProcesoSuspender
  <2>2. CASE ~ UNCHANGED <<swap, contextos, movidos, memoria_ajena>>
    <3>1. /\ contextos[q].tabla # <<>>
          /\ swap' = [swap EXCEPT ![q] = Bajado(q)]
          /\ contextos' = [contextos EXCEPT ![q].tabla = <<>>]
          /\ memoria_ajena' = (memoria_ajena \/ estado[q] \notin Suspendido)
          /\ UNCHANGED <<estado, cpu>>
      BY <1>5, <2>2 DEF ProcesoSuspender, Bajado
    <3>2. QED
      BY <1>1, <3>1 DEF ContextoReal
  <2>3. QED
    BY <2>1, <2>2
<1>6. CASE Dessuspender(q)
  <2>1. /\ estado[q] = "SUSP_READY"
        /\ swap' = [swap EXCEPT ![q] = <<>>]
        /\ estado' = [estado EXCEPT ![q] = "READY"]
        /\ \E n : contextos' = [contextos EXCEPT ![q].tabla = n]
        /\ UNCHANGED cpu
    <3>1. \E n : contextos' = [contextos EXCEPT ![q].tabla = n]
      <4>1. PICK n : contextos' = [contextos EXCEPT ![q].tabla = @ \o n]
        BY <1>6 DEF Dessuspender
      <4>2. contextos' = [contextos EXCEPT ![q].tabla = contextos[q].tabla \o n]
        BY <4>1
      <4>3. QED
        BY <4>2
    <3>2. QED
      BY <1>6, <3>1 DEF Dessuspender
  <2>2. QED
    BY <1>1, <2>1
<1>7. QED
  BY <1>2, <1>3, <1>4, <1>5, <1>6 DEF PasoProceso

\* A stick that joins or listens, or nothing.
LEMMA PasoStickAparta ==
  ASSUME PasoStick \/ UNCHANGED vars
  PROVE  UNCHANGED <<contextos, swap, estado, cpu, pedido, movidos, memoria_ajena>>
BY DEF PasoStick, Conectar, Escuchar, vars, suspVars, avisoVars

\* The table that a CPU executes with is whole, whatever moves its segments: all that a
\* compaction changes are the bases, and what a suspension takes is in the SWAP.
LEMMA TablaEnteraConserva ==
  ASSUME Anchos, MemInv, [Next]_vars
  PROVE  TablaEntera'
<1> SUFFICES ASSUME NEW d \in Cpus, cpu'[d].estado \in {"ejecuta", "chequea"}
             PROVE  EnteraDe(d)'
  BY DEF TablaEntera
<1> DEFINE p == cpu[d].pid
<1>1. ASSUME NEW c \in Cpus, PasoCpu(c), c = d
      PROVE  EnteraDe(d)'
  <2>1. /\ cpu'[d].pid = p
        /\ \/ cpu'[d].tabla = contextos'[p].tabla
           \/ /\ cpu[d].estado \in {"ejecuta", "chequea"}
              /\ cpu'[d].tabla = cpu[d].tabla
              /\ UNCHANGED <<contextos, swap>>
    BY <1>1, PasoCpuAparta
  <2>2. QED
    BY <2>1 DEF EnteraDe, MemInv, TablaEntera
<1>2. ASSUME NEW c \in Cpus, PasoMemoria(c), c = d
      PROVE  FALSE
  BY <1>2, PasoMemoriaAparta, CompactarLimites
\* Another CPU, a device, a suspension: d goes on with what it had.
<1>3. ASSUME cpu'[d] = cpu[d]
      PROVE  /\ p \in Pids /\ estado[p] = "EXEC" /\ EnteraDe(d)
             /\ \A c \in Cpus \ {d} : cpu[c].pid # p
  BY <1>3, InvAlcanza DEF MemInv, CacheInv, TablaEntera
<1>4. ASSUME cpu'[d] = cpu[d], swap'[p] = swap[p],
             Limites(contextos'[p].tabla) = Limites(contextos[p].tabla),
             contextos[p].tabla = <<>> => contextos'[p].tabla = <<>>
      PROVE  EnteraDe(d)'
  BY <1>3, <1>4 DEF EnteraDe
<1>5. ASSUME NEW c \in Cpus, PasoCpu(c) \/ (PasoMemoria(c) /\ ~ Compactar(c)), c # d
      PROVE  EnteraDe(d)'
  <2>1. Aparta(c)
    BY <1>5, PasoCpuAparta, PasoMemoriaAparta
  <2>2. cpu'[d] = cpu[d]
    BY <1>5, <2>1 DEF Aparta
  <2>3. p \in Pids /\ p # cpu[c].pid
    BY <1>3, <1>5, <2>2
  <2>4. contextos'[p] = contextos[p] /\ swap'[p] = swap[p]
    BY <2>1, <2>3 DEF Aparta
  <2>5. QED
    BY <1>4, <2>2, <2>4
<1>6. ASSUME NEW c \in Cpus, Compactar(c), c # d
      PROVE  EnteraDe(d)'
  <2>1. cpu'[d] = cpu[d]
    BY <1>6, CompactarLimites
  <2>2. p \in Pids /\ p # cpu[c].pid
    BY <1>3, <1>6, <2>1
  <2>3. QED
    BY <1>4, <1>6, <2>1, <2>2, CompactarLimites
<1>7. ASSUME NEW q \in Pids, PasoProceso(q)
      PROVE  EnteraDe(d)'
  <2>1. cpu' = cpu
    BY <1>7, PasoProcesoAparta
  <2>2. p \in Pids /\ estado[p] = "EXEC" /\ EnteraDe(d)
    BY <1>3, <2>1
  <2>3. \/ contextos'[p].tabla = contextos[p].tabla /\ swap'[p] = swap[p]
        \/ /\ contextos[p].tabla # <<>> /\ contextos'[p].tabla = <<>>
           /\ swap'[p] = Bajado(p)
    BY <1>7, <2>2, PasoProcesoAparta
  <2>4. LimitesEnSwap(Bajado(p)) = Limites(contextos[p].tabla)
    BY <2>2, BajadoLimites
  <2>5. QED
    BY <1>4, <2>1, <2>2, <2>3, <2>4 DEF EnteraDe
<1>8. CASE PasoStick \/ UNCHANGED vars
  BY <1>4, <1>8, PasoStickAparta
<1>9. QED
  BY <1>1, <1>2, <1>5, <1>6, <1>7, <1>8 DEF Next

\* Memory that has been used by mistake stays so.
LEMMA AjenaCrece ==
  ASSUME [Next]_vars, memoria_ajena
  PROVE  memoria_ajena'
<1>1. ASSUME NEW c \in Cpus, NEW l, Terminar(c, l) PROVE memoria_ajena'
  BY <1>1 DEF Terminar, suspVars
<1>2. ASSUME NEW c \in Cpus, Ejecutar(c) PROVE memoria_ajena'
  <2>1. CASE EjecutarComun(c)
    BY <2>1 DEF EjecutarComun, suspVars
  <2>2. CASE EjecutarExit(c)
    BY <1>1, <2>2 DEF EjecutarExit
  <2>3. CASE EjecutarMovIn(c)
    BY <1>1, <2>3 DEF EjecutarMovIn, Falta, Accede
  <2>4. CASE EjecutarMovOut(c)
    BY <1>1, <2>4 DEF EjecutarMovOut, Falta, Accede
  <2>5. CASE EjecutarCopyMem(c)
    BY <1>1, <2>5 DEF EjecutarCopyMem, Falta, Accede, suspVars
  <2>6. CASE EjecutarSyscallMemoria(c)
    BY <2>6 DEF EjecutarSyscallMemoria, PedirYEsperar, suspVars
  <2>7. CASE EjecutarSleep(c)
    BY <2>7 DEF EjecutarSleep
  <2>8. CASE EjecutarDatos(c)
    BY <1>1, <2>8 DEF EjecutarDatos, Falta, suspVars
  <2>9. QED
    BY <1>2, <2>1, <2>2, <2>3, <2>4, <2>5, <2>6, <2>7, <2>8 DEF Ejecutar
<1>3. ASSUME NEW c \in Cpus, PasoCpu(c) PROVE memoria_ajena'
  BY <1>2, <1>3 DEF PasoCpu, Despachar, ObtenerContexto, NoInterrumpir, Interrumpir, suspVars
<1>4. ASSUME NEW c \in Cpus, PasoMemoria(c) PROVE memoria_ajena'
  <2>1. CASE Compactar(c)
    BY <2>1, Zenon DEF Compactar
  <2>2. QED
    BY <1>1, <1>4, <2>1
       DEF PasoMemoria, SegmentoCrear, SegmentoError, SegmentoEliminar, PedirCompactar, suspVars
<1>5. ASSUME NEW p \in Pids, PasoProceso(p) PROVE memoria_ajena'
  BY <1>5 DEF PasoProceso, FinSleep, FinStdin, FinStdout, AccedeKs, KsCae, Suspender,
              ProcesoSuspender, Dessuspender, suspVars
<1>6. CASE PasoStick \/ UNCHANGED vars
  BY <1>6, PasoStickAparta
<1>7. QED
  BY <1>3, <1>4, <1>5, <1>6 DEF Next

\* As long as no suspension is told too late, the SWAP has segments of suspended
\* processes only, and those have nothing in the memory.
LEMMA SwapConserva ==
  ASSUME Anchos, MemInv, [Next]_vars, ~ memoria_ajena'
  PROVE  EnSwap'
<1>1. ~ memoria_ajena /\ EnSwap
  <2>1. memoria_ajena \in BOOLEAN
    BY DEF MemInv, Memoria, Tipos
  <2>2. QED
    BY <2>1, AjenaCrece DEF MemInv
<1> SUFFICES ASSUME NEW p \in Pids, swap'[p] # <<>>
             PROVE  estado'[p] \in Suspendido /\ contextos'[p].tabla = <<>>
  BY DEF EnSwap
<1>2. ASSUME swap'[p] = swap[p],
             contextos[p].tabla = <<>> => contextos'[p].tabla = <<>>,
             estado[p] \in Suspendido => estado'[p] \in Suspendido
      PROVE  estado'[p] \in Suspendido /\ contextos'[p].tabla = <<>>
  BY <1>1, <1>2 DEF EnSwap
<1>3. ASSUME NEW c \in Cpus, cpu[c].pid = p
      PROVE  swap[p] = <<>>
  <2>1. cpu[c].estado # "libre"
    BY <1>3, EjecucionOK DEF MemInv, CacheInv, Inv, Reparto
  <2>2. QED
    BY <1>1, <1>3, <2>1, ProcesoEnCpu
<1>4. ASSUME NEW c \in Cpus, Aparta(c)
      PROVE  estado'[p] \in Suspendido /\ contextos'[p].tabla = <<>>
  <2>1. swap[p] # <<>> /\ p # cpu[c].pid
    BY <1>3, <1>4 DEF Aparta
  <2>2. contextos'[p] = contextos[p] /\ swap'[p] = swap[p]
        /\ (estado'[p] = estado[p] \/ estado[p] = "READY")
    BY <1>4, <2>1 DEF Aparta
  <2>3. QED
    BY <1>2, <2>2 DEF Suspendido
<1>5. ASSUME NEW c \in Cpus, PasoCpu(c) \/ PasoMemoria(c)
      PROVE  estado'[p] \in Suspendido /\ contextos'[p].tabla = <<>>
  <2>1. CASE Compactar(c)
    <3>1. swap[p] # <<>> /\ p # cpu[c].pid
      BY <1>3, <2>1, CompactarLimites
    <3>2. QED
      BY <1>2, <2>1, <3>1, CompactarLimites
  <2>2. CASE ~ Compactar(c)
    BY <1>4, <1>5, <2>2, PasoCpuAparta, PasoMemoriaAparta
  <2>3. QED
    BY <2>1, <2>2
<1>6. ASSUME NEW q \in Pids, PasoProceso(q)
      PROVE  estado'[p] \in Suspendido /\ contextos'[p].tabla = <<>>
  <2>1. /\ \/ contextos'[p].tabla = contextos[p].tabla /\ swap'[p] = swap[p]
           \/ /\ contextos'[p].tabla = <<>> /\ estado'[p] = estado[p]
              /\ memoria_ajena' = (memoria_ajena \/ estado[p] \notin Suspendido)
        /\ \/ estado'[p] = estado[p]
           \/ estado[p] = "BLOCK"
           \/ estado[p] = "SUSP_BLOCK" /\ estado'[p] = "SUSP_READY"
    BY <1>6, PasoProcesoAparta
  <2>2. QED
    BY <1>2, <2>1 DEF Suspendido
<1>7. CASE PasoStick \/ UNCHANGED vars
  BY <1>2, <1>7, PasoStickAparta
<1>8. QED
  BY <1>5, <1>6, <1>7 DEF Next

\* Every step keeps all of it.
LEMMA MemConserva ==
  ASSUME Anchos, MemInv, [Next]_vars
  PROVE  MemInv'
<1>1. CacheInv' /\ Memoria'
  BY MemoriaConserva
<1>2. TablasDeCpu' /\ TablaEntera'
  BY TablasDeCpuConserva, TablaEnteraConserva
<1>3. ~ memoria_ajena' => EnSwap'
  BY SwapConserva
<1>4. QED
  BY <1>1, <1>2, <1>3 DEF MemInv

\* A CPU that executes has its process for itself, and the whole table of it: only a
\* compaction or a suspension may have left it with old bases.  Neither waits for the CPU
\* (manejar_compactacion confirms once the interrupts are sent, hilo_suspension looks at
\* nothing before it calls the Kernel Memory), so that the table may be old indeed; what
\* the MMU looks at, the ids and the limits, is still what the process has.
THEOREM TablaCorrecta ==
  ASSUME Anchos
  PROVE  Spec => []TablaAlDia
<1>1. Init => MemInv
  BY MemInicial
<1>2. MemInv /\ [Next]_vars => MemInv'
  BY MemConserva
<1>3. MemInv => TablaAlDia
  <2> SUFFICES ASSUME MemInv, NEW c \in Cpus, cpu[c].estado \in {"ejecuta", "chequea"}
               PROVE  LET p == cpu[c].pid IN
                      /\ estado[p] = "EXEC"
                      /\ \A d \in Cpus \ {c} : cpu[d].pid # p
                      /\ p \notin movidos => cpu[c].tabla = contextos[p].tabla
                      /\ EnteraDe(c)
    BY DEF TablaAlDia, EnteraDe
  <2>1. EnteraDe(c)
    BY DEF MemInv, TablaEntera
  <2>2. QED
    BY <2>1, InvAlcanza DEF MemInv, CacheInv
<1>4. QED
  BY <1>1, <1>2, <1>3, PTL DEF Spec

-----------------------------------------------------------------------------
(* The types of the run.                                                    *)

\* A table whose segments are in the memory is of the type.
LEMMA TablaTipo ==
  ASSUME NEW t \in Seq(SegmentoReal), Total \in Nat,
         \A i \in DOMAIN t : t[i].base + t[i].limite <= Total
  PROVE  t \in Seq(Segmento)
<1>1. PICK n \in Nat : n = Len(t) /\ DOMAIN t = 1 .. n /\ t = [i \in 1 .. n |-> t[i]]
  OBVIOUS
<1>2. ASSUME NEW i \in 1 .. n
      PROVE  t[i] \in Segmento
  <2>1. t[i] \in [id : Nat, base : Nat, limite : 0 .. TamMaxSegmento]
    BY <1>1 DEF SegmentoReal
  <2>2. PICK s : s = t[i]
    OBVIOUS
  <2>3. s.base \in Nat /\ s.limite \in Nat /\ s.base + s.limite <= Total
    <3>1. s.base \in Nat /\ s.limite \in 0 .. TamMaxSegmento
      BY <2>1, <2>2
    <3>2. s.limite \in Nat
      BY <3>1, MmuOK
    <3>3. s.base + s.limite <= Total
      BY <1>1, <2>2
    <3>4. QED
      BY <3>1, <3>2, <3>3
  <2>4. s.base \in 0 .. Total
    BY <2>3
  <2>5. QED
    BY <2>1, <2>2, <2>4 DEF Segmento
<1>3. [i \in 1 .. n |-> t[i]] \in Seq(Segmento)
  BY <1>2
<1>4. QED
  BY <1>1, <1>3

\* The types of the run follow.
LEMMA TiposAlcanzan ==
  ASSUME Anchos, MemInv
  PROVE  TypeOK
<1>1. Total \in Nat
  BY TotalCabe
<1>2. ASSUME NEW p \in Pids
      PROVE  contextos[p].tabla \in Seq(Segmento)
  <2>1. contextos[p].tabla \in Seq(SegmentoReal)
    BY DEF MemInv, Memoria, Tipos, ContextoReal
  <2>2. \A i \in DOMAIN contextos[p].tabla :
          contextos[p].tabla[i].base + contextos[p].tabla[i].limite <= Total
    BY ContenidoReal
  <2>3. QED
    BY <1>1, <2>1, <2>2, TablaTipo
<1>3. contextos \in [Pids -> [instrucciones : Programas \cup {<<>>}, registros : Registro,
                              tabla : Seq(Segmento)]]
  BY <1>2 DEF MemInv, Memoria, Tipos, ContextoReal
<1>4. ASSUME NEW c \in Cpus
      PROVE  cpu[c].tabla \in Seq(Segmento)
  <2>1. cpu[c].tabla \in Seq(SegmentoReal)
    BY DEF MemInv, Memoria, Tipos, CpuReal
  <2>2. QED
    BY <1>1, <2>1, TablaTipo DEF MemInv, TablasDeCpu
<1>5. cpu \in [Cpus -> [estado : EstadosCpu, pid : Pids \cup {Nadie}, registros : Registro,
                        tabla : Seq(Segmento),
                        lista : SUBSET [stick : 1 .. Len(TamSticks), base : 0 .. Total - 1]]]
  BY <1>4 DEF MemInv, Memoria, Tipos, CpuReal, Lista
<1>6. swap \in [Pids -> Seq([id : Nat, bytes : Seq(Bytes)])]
  <2>1. Guardado \subseteq [id : Nat, bytes : Seq(Bytes)]
    BY DEF Guardado
  <2>2. \A S, T : S \subseteq T => Seq(S) \subseteq Seq(T)
    OBVIOUS
  <2>3. Seq(Guardado) \subseteq Seq([id : Nat, bytes : Seq(Bytes)])
    BY <2>1, <2>2
  <2>4. QED
    BY <2>3 DEF MemInv, Memoria, Tipos
<1>7. pedido \in [Pids -> Pedidos]
  <2>1. PedidosDeDatos \subseteq
          [op : {"STDIN", "STDOUT"}, dl : Palabras, df : Palabras, tam : Palabras]
    BY DEF PedidosDeDatos
  <2>2. PedidosDeMemoria \subseteq
          [op : {"MEM_ALLOC"}, id : Nat, tam : Nat] \cup [op : {"MEM_FREE"}, id : Nat]
    BY DEF PedidosDeMemoria
  <2>3. PedidosReales \subseteq Pedidos
    BY <2>1, <2>2 DEF PedidosReales, PedidosDeIo, Pedidos
  <2>4. QED
    BY <2>3 DEF MemInv, Memoria, Tipos
<1>8. QED
  BY <1>3, <1>5, <1>6, <1>7 DEF TypeOK, MemInv, Memoria, Tipos, EstadosProceso

\* Every segment of a table, old or new, and every stick a CPU knows stays in range, and
\* every byte, register and entry of the SWAP is of its width, through each write
\* (escribir_memoria), compaction, suspension and de-suspension, also when a CPU or a
\* request goes on with the address of before, and when the sum of the MMU wraps
\* (traducir_direccion): no access leaves the memory, and the segments of a compaction or
\* a de-suspension fit.
THEOREM TiposEjecucion ==
  ASSUME Anchos
  PROVE  Spec => []TypeOK
<1>1. Init => MemInv
  BY MemInicial
<1>2. MemInv /\ [Next]_vars => MemInv'
  BY MemConserva
<1>3. MemInv => TypeOK
  BY TiposAlcanzan
<1>4. QED
  BY <1>1, <1>2, <1>3, PTL DEF Spec

==============================================================================
