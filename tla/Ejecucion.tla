----------------------------- MODULE Ejecucion -----------------------------
(***************************************************************************)
(* Programs that run: the instruction cycle of the CPUs with registers and *)
(* memory (cpu/src/ciclo_instruccion.c, contexto.c), the contexts and      *)
(* segments that the Kernel Memory keeps, and what moves a process: quanta *)
(* and other CPUs, compaction, suspension.  Every process must see a       *)
(* machine of its own, which is module Maquina.                            *)
(*                                                                         *)
(* The Kernel Scheduler gives any ready process to any free CPU and takes  *)
(* it off after any instruction; its queues are in other modules.  The     *)
(* Kernel Memory finds room wherever there is some and keeps segments      *)
(* apart: how it does is module KernelMemory.  Sticks join and never       *)
(* leave; a compaction and a physical access are one step each, in either  *)
(* order.                                                                  *)
(*                                                                         *)
(* Segments move under a CPU that still executes and under a request that  *)
(* kept an address, for the compaction is confirmed as soon as the         *)
(* interrupts are sent and a suspension may be told late.  The model goes  *)
(* on with what the code does then; movidos and memoria_ajena, which no    *)
(* action reads, only remember it for the properties.                      *)
(***************************************************************************)
EXTENDS Mmu, FiniteSets, SequencesExt

CONSTANTS
  Pids, Nadie,
  Cpus,
  Programas       \* files of instructions that a process may be made of

ASSUME EjecucionOK ==
  /\ Nadie \notin Pids
  /\ Programas \subseteq Seq([op : STRING, r : Nombre, s : Nombre,
                       v : Nat, id : Nat, tam : Nat])

VARIABLES
  contextos,      \* Kernel Memory: instructions, registers and segments of each process
  ram,            \* bytes of the sticks, one after the other
  sticks,         \* how many have connected to the Kernel Memory
  escuchan,       \* those that take connections of CPUs
  swap,           \* segments of the suspended processes
  estado,         \* Kernel Scheduler: t_estado of each process
  pedido,         \* what each process waits for
  pantalla,       \* the last STDOUT of each process
  cpu,            \* CPUs: registers, segment table and sticks of each
  por_suspender,  \* suspensions of each process that the Kernel Memory has not been told
  movidos,        \* history: processes whose segments went elsewhere after a CPU took
                  \* their table
  memoria_ajena,  \* history: memory was used through an address that is not (or no
                  \* longer) the process's, or taken from a process that had come back
  ks_caido        \* the Kernel Scheduler fell

vars == <<contextos, ram, sticks, escuchan, swap, estado, pedido, pantalla, cpu,
          por_suspender, movidos, memoria_ajena, ks_caido>>

memVars == <<ram, sticks, escuchan, swap>>
avisoVars == <<por_suspender, movidos, ks_caido>>
suspVars == <<avisoVars, memoria_ajena>>

Nada == [op |-> "NADA"]
\* contexto_crear; contexto_eliminar leaves one without instructions.
Contexto(instrucciones) ==
  [instrucciones |-> instrucciones, registros |-> EnCero, tabla |-> <<>>]
SinContexto == Contexto(<<>>)

EstadosCpu ==
  {"libre",       \* waits for OP_EJECUTAR_PROCESO
   "asignada",    \* has it, asks for the context
   "ejecuta",
   "chequea",     \* an instruction has ended: check_interrupt
   "respuesta",   \* in a MEM_ALLOC or MEM_FREE, waits for the answer
   "refresca",    \* has OP_OK, asks for the context again
   "compacta"}    \* kept by the Kernel Scheduler for the process that asked

-----------------------------------------------------------------------------
(* The CPUs.                                                                *)

Reg(c) == cpu[c].registros
Instrucciones(c) == contextos[cpu[c].pid].instrucciones
Instr(c) == Instrucciones(c)[Reg(c)["PC"] + 1]

\* fetch: the Kernel Memory has an instruction for the PC.
HayInstruccion(c) ==
  cpu[c].estado = "ejecuta" /\ Reg(c)["PC"] < Len(Instrucciones(c))

Toca(c, op) == HayInstruccion(c) /\ Instr(c).op = op

Actual == ActualizarMemorySticks(sticks, escuchan)

\* CPU_MOTIVO_CONTINUAR.
Continuar(c, regs, lista) ==
  cpu' = [cpu EXCEPT ![c].registros = regs, ![c].lista = lista, ![c].estado = "chequea"]

\* What a CPU without a process has in its registers and its table does not
\* matter: obtener_contexto replaces both.
Libre(lista) == [estado |-> "libre", pid |-> Nadie, registros |-> EnCero, tabla |-> <<>>,
                 lista |-> lista]

Soltar(c) == cpu' = [cpu EXCEPT ![c] = Libre(@.lista)]

\* CPU_MOTIVO_EXIT, SEG_FAULT, ERROR: the Kernel Scheduler ends the process and
\* the Kernel Memory forgets it, with what it has in the SWAP.
Terminar(c, lista) ==
  LET p == cpu[c].pid IN
  /\ estado' = [estado EXCEPT ![p] = "EXIT"]
  /\ contextos' = [contextos EXCEPT ![p] = SinContexto]
  /\ swap' = [swap EXCEPT ![p] = <<>>]
  /\ pedido' = [pedido EXCEPT ![p] = Nada]
  /\ cpu' = [cpu EXCEPT ![c] = Libre(lista)]
  /\ UNCHANGED <<ram, sticks, escuchan, pantalla, suspVars>>

\* main: OP_EJECUTAR_PROCESO.
Despachar(c, p) ==
  /\ cpu[c].estado = "libre"
  /\ estado[p] = "READY"
  /\ estado' = [estado EXCEPT ![p] = "EXEC"]
  /\ cpu' = [cpu EXCEPT ![c].estado = "asignada", ![c].pid = p]
  /\ UNCHANGED <<contextos, memVars, pedido, pantalla, suspVars>>

\* The table is the one of the last process.
MutObtenerContexto(c) ==
  /\ cpu[c].estado \in {"asignada", "refresca"}
  /\ cpu' = [cpu EXCEPT
       ![c].registros = contextos[cpu[c].pid].registros,
       ![c].tabla = IF cpu[c].estado = "asignada" THEN contextos[cpu[c].pid].tabla ELSE @,
       ![c].estado = IF @ = "asignada" THEN "ejecuta" ELSE "chequea"]
  /\ movidos' = movidos \ {cpu[c].pid}
  /\ UNCHANGED <<contextos, memVars, estado, pedido, pantalla, por_suspender,
                 memoria_ajena, ks_caido>>

\* obtener_contexto, when a process comes and after MEM_ALLOC and MEM_FREE.
ObtenerContexto(c) ==
  /\ cpu[c].estado \in {"asignada", "refresca"}
  /\ cpu' = [cpu EXCEPT
       ![c].registros = contextos[cpu[c].pid].registros,
       ![c].tabla = contextos[cpu[c].pid].tabla,
       ![c].estado = IF @ = "asignada" THEN "ejecuta" ELSE "chequea"]
  /\ movidos' = movidos \ {cpu[c].pid}
  /\ UNCHANGED <<contextos, memVars, estado, pedido, pantalla, por_suspender,
                 memoria_ajena, ks_caido>>

\* check_interrupt: nothing.
NoInterrumpir(c) ==
  /\ cpu[c].estado = "chequea"
  /\ cpu' = [cpu EXCEPT ![c].estado = "ejecuta"]
  /\ UNCHANGED <<contextos, memVars, estado, pedido, pantalla, suspVars>>

\* guardar_contexto.
GuardarContexto(c, regs) ==
  contextos' = [contextos EXCEPT ![cpu[c].pid].registros = regs]

\* check_interrupt: an interrupt; CPU_MOTIVO_FIN_QUANTUM.
Interrumpir(c) ==
  /\ cpu[c].estado = "chequea"
  /\ GuardarContexto(c, Reg(c))
  /\ estado' = [estado EXCEPT ![cpu[c].pid] = "READY"]
  /\ Soltar(c)
  /\ UNCHANGED <<memVars, pedido, pantalla, suspVars>>

-----------------------------------------------------------------------------
(* Instructions.                                                            *)

EjecutarComun(c) ==
  /\ HayInstruccion(c)
  /\ Instr(c).op \in Comunes
  /\ Continuar(c, Comun(Reg(c), Instr(c)), cpu[c].lista)
  /\ UNCHANGED <<contextos, memVars, estado, pedido, pantalla, suspVars>>

\* EXIT, and a PC behind the last instruction (FETCH answers OP_ERROR).
EjecutarExit(c) ==
  /\ cpu[c].estado = "ejecuta"
  /\ Toca(c, "EXIT") \/ ~ HayInstruccion(c)
  /\ Terminar(c, cpu[c].lista)

\* The instruction uses tam bytes from a logical address on: dfs is what the MMU
\* says of it.
Usa(c, dl, tam) == Traducir(cpu[c].tabla, dl, tam)

\* Segmentation Fault of an instruction that uses the addresses in dls.
Falta(c, dls, tam) ==
  /\ \E dl \in dls : Usa(c, dl, tam) = {}
  /\ Terminar(c, cpu[c].lista)

\* The address was translated with a table that is no longer the process's.
TablaVieja(c, dls, tam) ==
  /\ cpu[c].pid \in movidos
  /\ \E dl \in dls : Usa(c, dl, tam) # Traducir(contextos[cpu[c].pid].tabla, dl, tam)

\* The memory is used.
Accede(c, dls, tam) == memoria_ajena' = (memoria_ajena \/ TablaVieja(c, dls, tam))

\* ejecutar_mov_in.
EjecutarMovIn(c) ==
  LET i == Instr(c)
      tam == TamanioRegistro(i.r)
  IN
  /\ Toca(c, "MOV_IN")
  /\ \/ Falta(c, {Reg(c)["SI"]}, tam)
     \/ \E df \in Usa(c, Reg(c)["SI"], tam) :
          LET lugares == Alcanza(cpu[c].lista, df, tam, Actual)
              lista == UltimaLista(cpu[c].lista, df, tam, Actual)
          IN
          \/ ~ AccesoPosible(lugares) /\ Terminar(c, lista)
          \/ /\ AccesoPosible(lugares)
             /\ Continuar(c, Avanzar(Setear(Reg(c), i.r, DeBytes(LeerMemoria(ram, lugares)))),
                          lista)
             /\ Accede(c, {Reg(c)["SI"]}, tam)
             /\ UNCHANGED <<contextos, memVars, estado, pedido, pantalla, avisoVars>>

\* ejecutar_mov_out.
EjecutarMovOut(c) ==
  LET i == Instr(c)
      tam == TamanioRegistro(i.r)
  IN
  /\ Toca(c, "MOV_OUT")
  /\ \/ Falta(c, {Reg(c)["DI"]}, tam)
     \/ \E df \in Usa(c, Reg(c)["DI"], tam) :
          LET lugares == Alcanza(cpu[c].lista, df, tam, Actual)
              lista == UltimaLista(cpu[c].lista, df, tam, Actual)
          IN
          \/ ~ AccesoPosible(lugares) /\ Terminar(c, lista)
          \/ /\ AccesoPosible(lugares)
             /\ ram' = EscribirMemoria(ram, lugares, EnBytes(Reg(c)[i.r], tam))
             /\ Continuar(c, Avanzar(Reg(c)), lista)
             /\ Accede(c, {Reg(c)["DI"]}, tam)
             /\ UNCHANGED <<contextos, sticks, escuchan, swap, estado, pedido, pantalla,
                            avisoVars>>

\* ejecutar_copy_mem: both addresses are translated before anything is read.  A
\* size that the MMU lets through because the sum wraps is never read: there is
\* less memory than that.
EjecutarCopyMem(c) ==
  LET tam == Reg(c)[Instr(c).r] IN
  /\ Toca(c, "COPY_MEM")
  /\ \/ /\ tam = 0
        /\ Continuar(c, Avanzar(Reg(c)), cpu[c].lista)
        /\ UNCHANGED <<contextos, memVars, estado, pedido, pantalla, suspVars>>
     \/ tam > 0 /\ Falta(c, {Reg(c)["SI"], Reg(c)["DI"]}, tam)
     \/ /\ tam > 0
        /\ \E df \in Usa(c, Reg(c)["SI"], tam), dg \in Usa(c, Reg(c)["DI"], tam) :
             LET de == Alcanza(cpu[c].lista, df, tam, Actual)
                 media == UltimaLista(cpu[c].lista, df, tam, Actual)
                 a == Alcanza(media, dg, tam, Actual)
                 lista == UltimaLista(media, dg, tam, Actual)
             IN
             \/ ~ AccesoPosible(de) /\ Terminar(c, media)
             \/ AccesoPosible(de) /\ ~ AccesoPosible(a) /\ Terminar(c, lista)
             \/ /\ AccesoPosible(de) /\ AccesoPosible(a)
                /\ ram' = EscribirMemoria(ram, a, LeerMemoria(ram, de))
                /\ Continuar(c, Avanzar(Reg(c)), lista)
                /\ Accede(c, {Reg(c)["SI"], Reg(c)["DI"]}, tam)
                /\ UNCHANGED <<contextos, sticks, escuchan, swap, estado, pedido, pantalla,
                               avisoVars>>

-----------------------------------------------------------------------------
(* Syscalls.                                                                *)

\* The context is saved before PC++.
MutPedirYEsperar(c, x) ==
  /\ GuardarContexto(c, Reg(c))
  /\ cpu' = [cpu EXCEPT ![c].registros = Avanzar(@), ![c].estado = "respuesta"]
  /\ pedido' = [pedido EXCEPT ![cpu[c].pid] = x]
  /\ UNCHANGED <<memVars, estado, pantalla, suspVars>>

\* The syscall is sent after PC++ and guardar_contexto; the CPU waits.
PedirYEsperar(c, x) ==
  /\ GuardarContexto(c, Avanzar(Reg(c)))
  /\ cpu' = [cpu EXCEPT ![c].registros = Avanzar(@), ![c].estado = "respuesta"]
  /\ pedido' = [pedido EXCEPT ![cpu[c].pid] = x]
  /\ UNCHANGED <<memVars, estado, pantalla, suspVars>>

\* ejecutar_syscall_mem_alloc, ejecutar_syscall_mem_free.
EjecutarSyscallMemoria(c) ==
  \/ /\ Toca(c, "MEM_ALLOC")
     /\ PedirYEsperar(c, [op |-> "MEM_ALLOC", id |-> Instr(c).id, tam |-> Instr(c).tam])
  \/ /\ Toca(c, "MEM_FREE")
     /\ PedirYEsperar(c, [op |-> "MEM_FREE", id |-> Instr(c).id])

\* The context is saved before PC++.
MutBloquear(c, x) ==
  /\ GuardarContexto(c, Reg(c))
  /\ estado' = [estado EXCEPT ![cpu[c].pid] = "BLOCK"]
  /\ Soltar(c)
  /\ pedido' = [pedido EXCEPT ![cpu[c].pid] = x]
  /\ UNCHANGED <<memVars, pantalla, avisoVars>>

\* CPU_MOTIVO_SYSCALL_BLOQUEANTE: the CPU does not wait, the process is BLOCK.
Bloquear(c, x) ==
  /\ GuardarContexto(c, Avanzar(Reg(c)))
  /\ estado' = [estado EXCEPT ![cpu[c].pid] = "BLOCK"]
  /\ Soltar(c)
  /\ pedido' = [pedido EXCEPT ![cpu[c].pid] = x]
  /\ UNCHANGED <<memVars, pantalla, avisoVars>>

\* ejecutar_syscall_sleep.
EjecutarSleep(c) ==
  Toca(c, "SLEEP") /\ Bloquear(c, [op |-> "SLEEP"]) /\ UNCHANGED memoria_ajena

\* The uint32 sum of the MMU wraps (traducir_direccion): the size is all but 2^32
\* and the access is let through.
Desborda(dl, tam) == (dl % TamMaxSegmento) + tam >= Palabra

\* ejecutar_syscall_stdin, ejecutar_syscall_stdout: the Kernel Scheduler keeps the
\* physical address (io_direccion_fisica).  dl is the logical one, which nobody
\* keeps in the code.
EjecutarDatos(c) ==
  LET i == Instr(c)
      dl == Reg(c)[i.r]
      tam == Reg(c)[i.s]
  IN
  /\ HayInstruccion(c)
  /\ i.op \in {"STDIN", "STDOUT"}
  /\ \/ /\ tam = 0
        /\ Continuar(c, Avanzar(Reg(c)), cpu[c].lista)
        /\ UNCHANGED <<contextos, memVars, estado, pedido, pantalla, suspVars>>
     \/ tam > 0 /\ Falta(c, {dl}, tam)
     \/ /\ tam > 0
        /\ \E df \in Usa(c, dl, tam) :
             Bloquear(c, [op |-> i.op, dl |-> dl, df |-> df, tam |-> tam])
        /\ memoria_ajena' = (memoria_ajena \/ TablaVieja(c, {dl}, tam) \/ Desborda(dl, tam))

-----------------------------------------------------------------------------
(* The Kernel Memory and the segments.                                      *)

\* Between OP_COMPACTAR and its confirmation it takes no request (that another
\* one may be read as the confirmation is in module PedidosMemoria).
KmAtiende == \A c \in Cpus : cpu[c].estado # "compacta"

Lugar(seg) == seg.base .. seg.base + seg.limite - 1

\* The segments of all the processes.
Segmentos == UNION {{<<p, i>> : i \in DOMAIN contextos[p].tabla} : p \in Pids}

Ocupados == UNION {Lugar(contextos[s[1]].tabla[s[2]]) : s \in Segmentos}

Libres == (0 .. Base[sticks + 1] - 1) \ Ocupados

\* Where a segment fits; the fit is chosen in module KernelMemory.
HuecosPara(tam) == {b \in Libres : b .. b + tam - 1 \subseteq Libres}

Espera(c, op) ==
  cpu[c].estado = "respuesta" /\ pedido[cpu[c].pid].op = op

Responde(c, e) ==
  /\ cpu' = [cpu EXCEPT ![c].estado = e]
  /\ pedido' = [pedido EXCEPT ![cpu[c].pid] = Nada]

\* The bytes that a segment of a table has in the memory.
Contenido(seg) == [k \in 1 .. seg.limite |-> ram[seg.base + k - 1]]

\* segmento_crear: OP_OK.
SegmentoCrear(c) ==
  /\ Espera(c, "MEM_ALLOC")
  /\ KmAtiende
  /\ LET p == cpu[c].pid
         x == pedido[p]
     IN  /\ x.tam <= TamMaxSegmento
         /\ \E b \in HuecosPara(x.tam) :
              contextos' = [contextos EXCEPT ![p].tabla =
                              Append(@, [id |-> x.id, base |-> b, limite |-> x.tam])]
  /\ Responde(c, "refresca")
  /\ UNCHANGED <<memVars, estado, pantalla, suspVars>>

\* segmento_crear: too large, or not enough free memory.
SegmentoError(c) ==
  /\ Espera(c, "MEM_ALLOC")
  /\ KmAtiende
  /\ LET tam == pedido[cpu[c].pid].tam
     IN  tam > TamMaxSegmento \/ tam > Cardinality(Libres)
  /\ Terminar(c, cpu[c].lista)

\* segmento_crear: no area of the free list is large enough (they are not merged,
\* so there may be one that fits); the CPU is told OP_BLOQUEADO and kept.
PedirCompactar(c) ==
  /\ Espera(c, "MEM_ALLOC")
  /\ KmAtiende
  /\ LET tam == pedido[cpu[c].pid].tam
     IN  tam <= TamMaxSegmento /\ tam <= Cardinality(Libres)
  /\ estado' = [estado EXCEPT ![cpu[c].pid] = "BLOCK"]
  /\ cpu' = [cpu EXCEPT ![c].estado = "compacta"]
  /\ UNCHANGED <<contextos, memVars, pedido, pantalla, suspVars>>

\* The bytes of every segment, moved to its new base.
Movida(nueva) ==
  [g \in DOMAIN ram |->
     LET aqui == {s \in Segmentos :
                    LET seg == contextos[s[1]].tabla[s[2]]
                    IN  nueva[s] <= g /\ g < nueva[s] + seg.limite}
     IN  IF aqui = {} THEN ram[g]
         ELSE LET s == UnicoDe(aqui)
              IN  ram[contextos[s[1]].tabla[s[2]].base + (g - nueva[s])]]

\* compactar, then segmento_crear, then OP_FIN_COMPACTACION: the process goes on
\* in the CPU that was kept.  The other CPUs have been sent an interrupt and may
\* still be in an instruction, or have missed it: manejar_syscall_memoria confirms
\* without waiting for them.
Compactar(c) ==
  /\ cpu[c].estado = "compacta"
  /\ LET seg(s) == contextos[s[1]].tabla[s[2]]
         nueva == [s \in Segmentos |->
                     Cardinality(UNION {Lugar(seg(t)) : t \in {u \in Segmentos : seg(u).base < seg(s).base}})]
         p == cpu[c].pid
         movidas == [q \in Pids |-> [contextos[q] EXCEPT !.tabla =
                       [i \in DOMAIN @ |-> [@[i] EXCEPT !.base = nueva[<<q, i>>]]]]]
     IN  /\ ram' = Movida(nueva)
         /\ contextos' = [movidas EXCEPT ![p].tabla =
              Append(@, [id |-> pedido[p].id, base |-> Cardinality(Ocupados),
                         limite |-> pedido[p].tam])]
         /\ estado' = [estado EXCEPT ![p] = "EXEC"]
         /\ movidos' = movidos \cup {q \in Pids : movidas[q] # contextos[q]}
  /\ Responde(c, "asignada")
  /\ UNCHANGED <<sticks, escuchan, swap, pantalla, por_suspender, memoria_ajena, ks_caido>>

\* segmento_eliminar; OP_ERROR when the process has no such segment.
SegmentoEliminar(c) ==
  /\ Espera(c, "MEM_FREE")
  /\ KmAtiende
  /\ LET p == cpu[c].pid
         cual == BuscarSegmento(contextos[p].tabla, pedido[p].id)
     IN  \/ cual = {} /\ Terminar(c, cpu[c].lista)
         \/ /\ \E i \in cual :
                 contextos' = [contextos EXCEPT ![p].tabla = RemoveAt(@, i)]
            /\ Responde(c, "refresca")
            /\ UNCHANGED <<memVars, estado, pantalla, suspVars>>

-----------------------------------------------------------------------------
(* Devices.  A request may end whenever; its three steps (the device, the   *)
(* Kernel Memory, manejar_fin_io) are in module EntradaSalida.              *)

\* manejar_fin_io.
Despertar(p) ==
  /\ estado' = [estado EXCEPT ![p] = IF @ = "BLOCK" THEN "READY" ELSE "SUSP_READY"]
  /\ pedido' = [pedido EXCEPT ![p] = Nada]

\* ejecutar_io_sleep.
FinSleep(p) ==
  /\ pedido[p].op = "SLEEP"
  /\ Despertar(p)
  /\ UNCHANGED <<contextos, memVars, pantalla, cpu, suspVars>>

\* Is the address that was kept still the one of the process?
EnSuLugar(p) == Traducir(contextos[p].tabla, pedido[p].dl, pedido[p].tam) = {pedido[p].df}

\* The Kernel Memory is given the address that was kept, wherever the segment is.
AccedeKs(p) == memoria_ajena' = (memoria_ajena \/ (p \in movidos /\ ~ EnSuLugar(p)))

\* ejecutar_io_stdin: OP_ESCRIBIR_DATOS.
FinStdin(p) ==
  /\ pedido[p].op = "STDIN" /\ ~ Desborda(pedido[p].dl, pedido[p].tam)
  /\ KmAtiende
  /\ \E b \in [1 .. pedido[p].tam -> Bytes] :
       ram' = [g \in DOMAIN ram |->
                 IF g - pedido[p].df + 1 \in DOMAIN b THEN b[g - pedido[p].df + 1] ELSE ram[g]]
  /\ Despertar(p)
  /\ AccedeKs(p)
  /\ UNCHANGED <<contextos, sticks, escuchan, swap, pantalla, cpu, avisoVars>>

\* ejecutar_io_stdout: OP_LEER_DATOS.
FinStdout(p) ==
  /\ pedido[p].op = "STDOUT" /\ ~ Desborda(pedido[p].dl, pedido[p].tam)
  /\ KmAtiende
  /\ pantalla' = [pantalla EXCEPT ![p] =
       [k \in 1 .. pedido[p].tam |-> ram[pedido[p].df + k - 1]]]
  /\ Despertar(p)
  /\ AccedeKs(p)
  /\ UNCHANGED <<contextos, memVars, cpu, avisoVars>>

\* A size that wrapped is a negative int for the Kernel Scheduler: malloc gives no
\* buffer (of -1 + 1 bytes, an empty one), which is written to all the same.
KsCae(p) ==
  /\ pedido[p].op \in {"STDIN", "STDOUT"} /\ Desborda(pedido[p].dl, pedido[p].tam)
  /\ ks_caido' = TRUE
  /\ UNCHANGED <<contextos, memVars, estado, pedido, pantalla, cpu, por_suspender, movidos,
                 memoria_ajena>>

-----------------------------------------------------------------------------
(* Suspension.                                                              *)

Suspendido == {"SUSP_BLOCK", "SUSP_READY"}

\* hilo_suspension, up to the end of its critical section.  Only a process that
\* waits for a device has a timer.
Suspender(p) ==
  /\ estado[p] = "BLOCK"
  /\ pedido[p].op \in {"SLEEP", "STDIN", "STDOUT"}
  /\ estado' = [estado EXCEPT ![p] = "SUSP_BLOCK"]
  /\ por_suspender' = [por_suspender EXCEPT ![p] = @ + 1]
  /\ UNCHANGED <<contextos, memVars, pedido, pantalla, cpu, movidos, memoria_ajena, ks_caido>>

\* proceso_suspender, which may refuse (no SWAP, no room, an error) and does nothing
\* to a process that is in the SWAP already.  Nobody looks at the state again: the
\* process may have come back, run and be in a CPU by now (hilo_suspension).
ProcesoSuspender(p) ==
  /\ por_suspender[p] > 0
  /\ KmAtiende
  /\ por_suspender' = [por_suspender EXCEPT ![p] = @ - 1]
  /\ \/ /\ contextos[p].tabla # <<>> /\ swap[p] = <<>>
        /\ swap' = [swap EXCEPT ![p] =
             [i \in DOMAIN contextos[p].tabla |->
                [id |-> contextos[p].tabla[i].id,
                 bytes |-> Contenido(contextos[p].tabla[i])]]]
        /\ contextos' = [contextos EXCEPT ![p].tabla = <<>>]
        /\ movidos' = movidos \cup {p}
        /\ memoria_ajena' = (memoria_ajena \/ estado[p] \notin Suspendido)
     \/ UNCHANGED <<swap, contextos, movidos, memoria_ajena>>
  /\ UNCHANGED <<ram, sticks, escuchan, estado, pedido, pantalla, cpu, ks_caido>>

\* proceso_dessuspender, intentar_dessuspender_procesos: every segment gets an
\* area, or none does.
Dessuspender(p) ==
  /\ estado[p] = "SUSP_READY"
  /\ KmAtiende
  /\ \E b \in [DOMAIN swap[p] -> 0 .. Total - 1] :
       LET nuevos == [i \in DOMAIN b |-> [id |-> swap[p][i].id, base |-> b[i],
                                          limite |-> Len(swap[p][i].bytes)]]
       IN  /\ \A i \in DOMAIN b :
                /\ b[i] \in HuecosPara(nuevos[i].limite)
                /\ \A j \in 1 .. i - 1 : Lugar(nuevos[i]) \cap Lugar(nuevos[j]) = {}
           /\ contextos' = [contextos EXCEPT ![p].tabla = @ \o nuevos]
           /\ ram' = [g \in DOMAIN ram |->
                LET en == {i \in DOMAIN b : g \in Lugar(nuevos[i])}
                IN  IF en = {} THEN ram[g]
                    ELSE swap[p][UnicoDe(en)].bytes[g - b[UnicoDe(en)] + 1]]
  /\ swap' = [swap EXCEPT ![p] = <<>>]
  /\ estado' = [estado EXCEPT ![p] = "READY"]
  /\ UNCHANGED <<sticks, escuchan, pedido, pantalla, cpu, suspVars>>

-----------------------------------------------------------------------------
(* Memory Sticks.                                                           *)

\* A stick connects to the Kernel Memory, and then listens for CPUs.
Conectar ==
  /\ sticks < Len(TamSticks)
  /\ sticks' = sticks + 1
  /\ UNCHANGED <<contextos, ram, escuchan, swap, estado, pedido, pantalla, cpu, suspVars>>

Escuchar ==
  /\ \E s \in (1 .. sticks) \ escuchan : escuchan' = escuchan \cup {s}
  /\ UNCHANGED <<contextos, ram, sticks, swap, estado, pedido, pantalla, cpu, suspVars>>

-----------------------------------------------------------------------------
\* The processes exist (INIT_PROC); one stick has connected and listens.
Init ==
  /\ \E q \in [Pids -> Programas] : contextos = [p \in Pids |-> Contexto(q[p])]
  /\ ram = [g \in 0 .. Total - 1 |-> 0]
  /\ sticks = 1 /\ escuchan = {1}
  /\ swap = [p \in Pids |-> <<>>]
  /\ estado = [p \in Pids |-> "READY"]
  /\ pedido = [p \in Pids |-> Nada]
  /\ pantalla = [p \in Pids |-> <<>>]
  /\ cpu = [c \in Cpus |-> Libre(ActualizarMemorySticks(1, escuchan))]
  /\ por_suspender = [p \in Pids |-> 0]
  /\ movidos = {} /\ memoria_ajena = FALSE /\ ks_caido = FALSE

Vivo == ~ ks_caido

Ejecutar(c) ==
  \/ EjecutarComun(c) \/ EjecutarExit(c)
  \/ EjecutarMovIn(c) \/ EjecutarMovOut(c) \/ EjecutarCopyMem(c)
  \/ EjecutarSyscallMemoria(c) \/ EjecutarSleep(c) \/ EjecutarDatos(c)

PasoCpu(c) ==
  /\ Vivo
  /\ \/ \E p \in Pids : Despachar(c, p)
     \/ ObtenerContexto(c) \/ NoInterrumpir(c) \/ Interrumpir(c)
     \/ Ejecutar(c)

PasoMemoria(c) ==
  /\ Vivo
  /\ \/ SegmentoCrear(c) \/ SegmentoError(c) \/ SegmentoEliminar(c)
     \/ PedirCompactar(c) \/ Compactar(c)

PasoProceso(p) ==
  /\ Vivo
  /\ \/ FinSleep(p) \/ FinStdin(p) \/ FinStdout(p) \/ KsCae(p)
     \/ Suspender(p) \/ ProcesoSuspender(p) \/ Dessuspender(p)

PasoStick == Vivo /\ (Conectar \/ Escuchar)

Next ==
  \/ \E c \in Cpus : PasoCpu(c) \/ PasoMemoria(c)
  \/ \E p \in Pids : PasoProceso(p)
  \/ PasoStick

Spec == Init /\ [][Next]_vars

-----------------------------------------------------------------------------
(* Properties.                                                              *)

Segmento == [id : Nat, base : 0 .. Total, limite : 0 .. TamMaxSegmento]
Pedidos ==
  {Nada, [op |-> "SLEEP"]}
    \cup [op : {"MEM_ALLOC"}, id : Nat, tam : Nat] \cup [op : {"MEM_FREE"}, id : Nat]
    \cup [op : {"STDIN", "STDOUT"}, dl : Palabras, df : Palabras, tam : Palabras]

Registro == {r \in [Nombre -> Palabras] : \A n \in DeUnByte : r[n] \in Bytes}

TypeOK ==
  /\ contextos \in [Pids -> [instrucciones : Programas \cup {<<>>}, registros : Registro,
                           tabla : Seq(Segmento)]]
  /\ ram \in [0 .. Total - 1 -> Bytes]
  /\ sticks \in 1 .. Len(TamSticks) /\ escuchan \subseteq 1 .. sticks
  /\ swap \in [Pids -> Seq([id : Nat, bytes : Seq(Bytes)])]
  /\ estado \in [Pids -> {"READY", "EXEC", "BLOCK", "SUSP_BLOCK", "SUSP_READY", "EXIT"}]
  /\ pedido \in [Pids -> Pedidos]
  /\ pantalla \in [Pids -> Seq(Bytes)]
  /\ cpu \in [Cpus -> [estado : EstadosCpu, pid : Pids \cup {Nadie}, registros : Registro,
                       tabla : Seq(Segmento),
                       lista : SUBSET [stick : 1 .. Len(TamSticks), base : 0 .. Total - 1]]]
  /\ por_suspender \in [Pids -> Nat] /\ movidos \subseteq Pids
  /\ memoria_ajena \in BOOLEAN /\ ks_caido \in BOOLEAN

\* What the MMU looks at before it lets an access through.
Limites(tabla) == [i \in DOMAIN tabla |-> [id |-> tabla[i].id, limite |-> tabla[i].limite]]
LimitesEnSwap(segs) == [i \in DOMAIN segs |-> [id |-> segs[i].id, limite |-> Len(segs[i].bytes)]]

\* Nobody else runs the process that a CPU runs, and only a compaction or a
\* suspension may leave the CPU with an old segment table (obtener_contexto): it
\* still has the segments that the process has, in memory or in the SWAP, in the
\* same order and as large, so that it finds the same faults.
TablaAlDia ==
  \A c \in Cpus : cpu[c].estado \in {"ejecuta", "chequea"} =>
    LET p == cpu[c].pid IN
    /\ estado[p] = "EXEC"
    /\ \A d \in Cpus \ {c} : cpu[d].pid # p
    /\ p \notin movidos => cpu[c].tabla = contextos[p].tabla
    /\ \/ Limites(cpu[c].tabla) = Limites(contextos[p].tabla)
       \/ contextos[p].tabla = <<>> /\ Limites(cpu[c].tabla) = LimitesEnSwap(swap[p])

\* While a process waits for its memory the Kernel Memory has its registers: what
\* obtener_contexto brings back is what the CPU had (ejecutar_syscall_mem_alloc,
\* ejecutar_syscall_mem_free).
EsperaGuardada ==
  \A c \in Cpus : cpu[c].estado \in {"respuesta", "refresca", "compacta"} =>
    cpu[c].registros = contextos[cpu[c].pid].registros

\* The physical addresses of a stick are the same for every CPU and the Kernel
\* Memory, whatever sticks answered when the list was asked for
\* (actualizar_memory_sticks).
CacheFiel ==
  \A c \in Cpus : \A e \in cpu[c].lista : e.stick <= sticks /\ e.base = Base[e.stick]

\* What a process is for its program.
Corre(p) == {c \in Cpus : cpu[c].pid = p /\ cpu[c].estado \in {"ejecuta", "chequea"}}

SinDireccion(x) ==
  IF x.op \in {"STDIN", "STDOUT"} THEN [op |-> x.op, dl |-> x.dl, tam |-> x.tam] ELSE x

Vista(p) ==
  [programa  |-> contextos[p].instrucciones,
   registros |-> IF Corre(p) # {} THEN cpu[UnicoDe(Corre(p))].registros
                 ELSE contextos[p].registros,
   segmentos |-> swap[p] \o [i \in DOMAIN contextos[p].tabla |->
                               [id |-> contextos[p].tabla[i].id,
                                bytes |-> Contenido(contextos[p].tabla[i])]],
   pedido    |-> SinDireccion(pedido[p]),
   pantalla  |-> pantalla[p],
   vivo      |-> estado[p] # "EXIT"]

M == INSTANCE Maquina WITH proceso <- [p \in Pids |-> Vista(p)], ajena <- memoria_ajena,
                           Procesos <- Pids

\* Every program runs as if it were alone, whatever the CPUs, the quanta, the
\* compactions and the suspensions: no instruction is lost or done twice, and no
\* register and no byte of a segment is changed by anybody else.  The code keeps
\* this up to the first time that it uses memory through an address of before a
\* compaction or a suspension (a CPU that missed its interrupt, a STDIN or STDOUT
\* that waits), takes the segments of a process that has come back, or lets a size
\* that wraps through the MMU.
ComoSiSola == M!Spec
=============================================================================
