--------------------------- MODULE EntradaSalida ---------------------------
(***************************************************************************)
(* Input and output: the thread that the Kernel Scheduler has for each     *)
(* connected device (atender_io) and the device behind it (io/src/main.c). *)
(* What is read or written is left out; that it is done, when, and what    *)
(* happens when the device goes away, is not.                              *)
(***************************************************************************)
EXTENDS Suspension

CONSTANTS
  TipoDe,     \* what each device is
  IosCaen     \* devices that may go away

ASSUME IosOK == TipoDe \in [Ios -> TiposIo] /\ IosCaen \subseteq Ios

VARIABLES
  hilo_io,    \* thread of each device: where it is, its process, what it read
  io_vivo     \* the device is there

ioVars == <<hilo_io, io_vivo>>

Ocioso == [pc |-> "espera", pid |-> Nadie, leido |-> Nulo]

IoTipo ==
  /\ hilo_io \in [Ios -> [pc : {"espera", "dispositivo", "mover"},
                          pid : Pids \cup {Nadie},
                          leido : EstadosProceso \cup {Nulo}]]
  /\ io_vivo \in [Ios -> BOOLEAN]

IoInit ==
  /\ hilo_io = [d \in Ios |-> Ocioso]
  /\ io_vivo = [d \in Ios |-> TRUE]

\* atender_io: the first of the queue goes to the device (ejecutar_io_sleep,
\* ejecutar_io_stdin).  ejecutar_io_stdout asks the Kernel Memory for the data
\* before; an error is only logged.
IoToma(d) ==
  /\ hilo_io[d].pc = "espera"
  /\ LET t == TipoDe[d] IN
     /\ ks.cola_io[t] # <<>>
     /\ ks' = [ks EXCEPT !.cola_io[t] = Tail(@)]
     /\ hilo_io' = [hilo_io EXCEPT ![d] =
          [pc |-> "dispositivo", pid |-> Head(ks.cola_io[t]), leido |-> Nulo]]
  /\ UNCHANGED <<suspVars, io_vivo>>

\* Mutant: the suspension timer is not cancelled.
MutIoResponde(d) ==
  /\ hilo_io[d].pc = "dispositivo"
  /\ hilo_io' = [hilo_io EXCEPT ![d].pc = "mover",
                                ![d].leido = ks.estado[hilo_io[d].pid]]
  /\ UNCHANGED <<ks, suspVars, io_vivo>>

\* The device answers (bucle_sleep, bucle_stdin, bucle_stdout) and the first
\* critical section of manejar_fin_io reads the state of the process.
IoResponde(d) ==
  /\ hilo_io[d].pc = "dispositivo"
  /\ io_vivo[d] \/ TipoDe[d] = "STDIN"
  /\ ks' = CancelarTimer(ks, hilo_io[d].pid)
  /\ hilo_io' = [hilo_io EXCEPT ![d].pc = "mover",
                                ![d].leido = ks.estado[hilo_io[d].pid]]
  /\ UNCHANGED <<suspVars, io_vivo>>

\* Without a device recv gives nothing: the process of a SLEEP or a STDOUT is
\* forgotten.  The empty buffer of a STDIN is written to the memory, which
\* answers OP_OK, and the IO ends.
IoSinRespuesta(d) ==
  /\ hilo_io[d].pc = "dispositivo"
  /\ ~ io_vivo[d] /\ TipoDe[d] # "STDIN"
  /\ hilo_io' = [hilo_io EXCEPT ![d] = Ocioso]
  /\ UNCHANGED <<ks, suspVars, io_vivo>>

\* Mutant: a suspended process waits for OP_MEMORIA_DISPONIBLE.
MutManejarFinIo(d) ==
  /\ hilo_io[d].pc = "mover"
  /\ ks' = Despertar(ks, hilo_io[d].pid, hilo_io[d].leido)
  /\ hilo_io' = [hilo_io EXCEPT ![d] = Ocioso]
  /\ UNCHANGED <<suspVars, io_vivo>>

\* The second acts on what was read; the thread that has woken a suspended
\* process up tries to bring it back.
ManejarFinIo(d) ==
  /\ hilo_io[d].pc = "mover"
  /\ ks' = Despertar(ks, hilo_io[d].pid, hilo_io[d].leido)
  /\ reanudar' = IF hilo_io[d].leido = "SUSP_BLOCK" THEN Empezar(d) ELSE reanudar
  /\ hilo_io' = [hilo_io EXCEPT ![d] = Ocioso]
  /\ UNCHANGED <<memoria, notificaciones, suspensiones, ks_caido, io_vivo>>

\* The thread of d goes on: first with the loop it is in.
IoPaso(d) ==
  \/ ReanudarPaso(d) /\ UNCHANGED ioVars
  \/ /\ reanudar[d].pc = "no"
     /\ IoToma(d) \/ IoResponde(d) \/ IoSinRespuesta(d) \/ ManejarFinIo(d)

\* The device goes away and its connection with it; its thread is not told, and
\* it is all the same to it if that was before it had a request for it.
IoCae(d) ==
  /\ d \in IosCaen
  /\ io_vivo[d] /\ hilo_io[d].pc = "dispositivo"
  /\ io_vivo' = [io_vivo EXCEPT ![d] = FALSE]
  /\ UNCHANGED <<ks, suspVars, hilo_io>>
=============================================================================
