# TLA+ models of the operating-system simulator

The repository is a small distributed operating system: a Kernel Scheduler
(`kernel_scheduler`), a Kernel Memory (`kernel_memory`), CPUs (`cpu`), Memory
Sticks (`memory_stick`), a SWAP (`swap`) and IO devices (`io`), all of them
processes joined by TCP connections, most of them with many threads. This
directory holds models of its core, the TLC configurations that check them on
small instances, and the theorems that TLAPS proves about them. `PROJECT.json`
lists components, runs, mutants, the source lines of every definition, the
findings, the hazards and the theorems.

## The system

| Part | State | Operations | Talks to |
|---|---|---|---|
| Kernel Scheduler, `kernel_scheduler/src/main.c` | processes, lists by state, READY queues, free CPUs, mutexes, IO queues, three planning semaphores, `mutex_listas`, `mutex_pedidos_memoria` | planner thread; one thread per CPU (`atender_cpu`), per IO device (`atender_io`), per quantum, per suspension timer; a thread that listens to the Kernel Memory | CPUs, IO devices, Kernel Memory (one connection for requests, one for notifications) |
| Kernel Memory, `kernel_memory/src` | contexts with segment tables, free list, sticks in order of arrival, total memory, SWAP bitmap, suspended processes | create and end a process, create and delete a segment, compact, suspend, resume, read and write for the scheduler, serve contexts and instructions to the CPUs | all of them |
| CPU, `cpu/src` | registers, segment table, pending interrupt | main loop, instruction cycle, syscalls, `check_interrupt`, MMU | Kernel Scheduler, Kernel Memory, Memory Sticks |
| Memory Stick, SWAP | bytes; blocks of a file | read, write | Kernel Memory (and CPUs, for sticks) |
| IO, `io/src/main.c` | none | sleep, stdin, stdout | Kernel Scheduler |

What is hard in it: `encolar_en_ready` gives `mutex_listas` up in the middle of
its callers' critical sections; lists and semaphores are updated apart; a
process is marked EXEC before its CPU is told; interrupts travel on the same
connection as orders and answers; a quantum thread outlives the quantum; a CPU,
a stick or the SWAP may close its connection between any two steps; suspension
and its end come from different threads; compaction needs every CPU stopped;
the free list is never merged except by a compaction. `PROJECT.json` lists each
of these at its line.

What makes each part correct:

* free list and segments: no byte is in two places, none is lost, a request for
  which there is memory succeeds after a compaction, contents follow the segment;
* swap: a block is marked exactly while somebody uses it, and a failure half way
  gives everything back;
* scheduling: a process is in one list and on one CPU, the semaphores count what
  the lists hold, the quantum and the preemption take effect, nobody starves;
* mutexes, input and output, suspension: each process that waits has one waker and
  one that does not has none, a mutex that is waited for has a live owner of good
  enough priority, the priority goes back, only a blocked process is suspended;
* compaction and BSOD: the right to plan is in one place, a CPU with an old segment
  table has been told to stop, a BSOD waits for the CPUs that run;
* CPU: a program runs as if it were alone, whatever quanta, compactions,
  suspensions and other programs do to it.

## Modules

| Module | What it models |
|---|---|
| `Huecos` | `huecos.c`: the free list, as operators on sequences of holes |
| `KernelMemory` | the thread that serves the Kernel Scheduler, the threads of sticks and SWAP, and the bytes at the other end |
| `Nombres` | processes and CPUs, for all the modules of the scheduler |
| `Canales` | the connection between Kernel Scheduler and CPU: ordered messages, one per operation code with its parameters |
| `Cpu` | main loop of a CPU, instruction cycle, `check_interrupt`, `recibir_respuesta_scheduler` |
| `KernelScheduler` | queues, planner, quantum threads, CPU threads |
| `Planificacion` | the Kernel Scheduler and its CPUs together; properties of scheduling |
| `Procesos` | what `mutex_listas` protects, as one record: processes, lists, mutexes with inheritance, IO queues |
| `Suspension` | suspension threads, `intentar_dessuspender_procesos` |
| `EntradaSalida` | one thread per IO device, and the device |
| `Bloqueos` | the syscalls that block, with the three modules above; properties of waiting |
| `CpuMemoria` | `Cpu` with the memory syscalls and the copy of the segment table |
| `PedidosMemoria` | memory syscalls in the scheduler, compaction, the notifications of the Kernel Memory, BSOD |
| `Compactacion` | `PedidosMemoria` with its CPUs; properties of compaction and BSOD |
| `Registros`, `Mmu` | registers and instructions; address translation and the sticks a CPU knows |
| `Ejecucion` | programs that run over contexts, segments, bytes, quanta, compaction and suspension |
| `CicloDeVida` | abstract: the life of a process, and never more running than CPUs |
| `Maquina` | abstract: a program alone on a machine of its own |
| `HuecosProofs`, `KernelMemoryProofs` | theorems about the Kernel Memory |
| `PlanificacionProofs`, `CompactacionProofs`, `BloqueosProofs` | theorems about `Planificacion`, `Compactacion` and `Bloqueos` |
| `ProcesosProofs` | lemmas about the lists and the record `ks`, for the last two |
| `EjecucionProofs`, `MaquinaProofs` | theorems about the CPU, `Mmu` and `Ejecucion`; that `Ejecucion` implements `Maquina` |
| `MCKernelMemory`, `MCPlanificacion`, `MCBloqueos`, `MCCompactacion`, `MCEjecucion` | instances for TLC |

No single module holds the whole system: its state space would be out of reach.
Each composition keeps one part in detail and reduces its neighbours to what they
may answer; what is reduced in one is detailed in another.

| | queues and semaphores | messages with CPUs | blocking and suspension | compaction | addresses and bytes |
|---|---|---|---|---|---|
| `KernelMemory` | | | detailed, memory side | detailed, memory side | detailed |
| `Planificacion` | detailed | detailed | | | |
| `Bloqueos` | critical sections | | detailed | | one place per process |
| `Compactacion` | critical sections | detailed | `SLEEP` | detailed, scheduler side | old or new table |
| `Ejecucion` | any order | | any moment | one step | detailed, CPU side |

### KernelMemory

`pc` is where the thread of `atender_ks` is, `pedido` the request it serves, and
the variables after them are locals of `compactar`, `proceso_suspender` and
`proceso_dessuspender`. A loop over segments is one action per segment, so that a
stick or the SWAP may be lost between two iterations; `MutexContextosLibre` and
`MutexSticksLibre` say when the other threads may run. A physical access is one
step. Addresses are found as the code finds them, adding up the sizes of the
sticks that are in the list at that moment (`MemoryStickLocalizar`), so the loss
of a stick moves the addresses behind it.

The Kernel Scheduler is the most general client: any request for any process at
any time. Two promises of it are used, both in `CpuEscribe`: no CPU writes during a
compaction, and a process with a request of its own under way runs nowhere. The
second is what `Ejecucion` has; the first one the scheduler does not quite keep
(`compactacion_desalojo`: one instruction of each CPU may still come), and
`ContenidoIntacto` is what holds when it does. A process writes a whole segment at
most once; the ghost field `dato` remembers that it did, and `ContenidoIntacto`
compares it with the bytes.

### KernelScheduler, Cpu, Planificacion

An action holds `mutex_listas` from its start to its end; what a handler does
after releasing it is another action, so each handler is a few actions joined by
`hilo_cpu[c].pc`. `avisar` is the point where `encolar_en_ready` has given the
mutex up to send an interrupt; `postear` is where a list is already changed and
the semaphores are not. A `t_timer` is a member of `Timers`; one that is freed
may be given out again at once, as `malloc` may do. When the planner uses a
`t_cpu` that `desconectar_cpu` has freed, the message reaches no CPU or any of
them; when it takes a CPU from an empty list the Kernel Scheduler has followed
NULL and stops (`ks_caido`).

What a process executes is open: in every cycle a common instruction, `INIT_PROC`,
the end or a segmentation fault, `Ciclos` cycles at most. `compactando` and
`bsod_activo` are false here; `Compactacion` has them. The two integers of a
message are sent whole: two threads that write to one socket at once may mix them
in the code, and this is not modelled. Neither is the reuse of a closed
descriptor's number by a later connection.

### Procesos, Suspension, EntradaSalida, Bloqueos

`ks` is one record, and what a critical section does to it is a function of the
record (`Encolar`, `Despertar`, `AplicarHerencia`, `DevolverPrioridad`,
`LiberarMutex`), so that a handler with one critical section is one action and a
handler that gives the mutex up in the middle is two or three, with what it read
before in `hilo_cpu[c].arg` or `hilo_io[d].leido`. That is where this code is
delicate: `manejar_mutex_lock` joins the queue and blocks in two critical sections;
a waker reads the state, unlocks, and acts on what it read; the suspension thread
makes the process `SUSP_BLOCK` and tells the Kernel Memory later; several threads
run `intentar_dessuspender_procesos` and read the size of its list unlocked.

The algorithm is CMN without preemption between queues, so `encolar_en_ready` does
not give the mutex up; semaphores go with the critical section before them. The
CPU waits for the answer to its syscall, so a CPU and its thread are one process
here. Programs are sequences of the instructions that concern the scheduler, end
with EXIT (`ProgramasOK`), release only mutexes they own and lock none that they own
(`DisciplinaOK`): the code checks neither, and every program under
`kernel_memory/scripts` does so. The Kernel Memory is
where the segment of each process is (`memoria`), with room for `Marcos` of them. A
process whose segment a late suspension has taken goes on with the table that its CPU
took, or fails if the table is newer: both are possible (`ConSegmento`, `SinSegmento`). A
NULL or a freed `t_proceso` that is followed, or a process put in READY twice,
stops the model (`ks_caido`).

### CpuMemoria, PedidosMemoria, Compactacion

The connections with the CPUs are ordered channels again, because a compaction is
a race between interrupts and answers. `sem_puede_planificar` is taken by the
planner for each process, and by the thread of a CPU (`DetenerPlanificacion`) for a
compaction; `oyente` is the thread that reads the notifications and gives it back.
`mutex_pedidos_memoria` makes a request and its answer one action but between
`OP_COMPACTAR` and its confirmation, where the code releases it: another request
may be read as the confirmation, and then its sender waits for ever
(`mutex_perdido`). Which answer the memory gives is open; a compaction may be asked for
when no process has a segment, since areas that are freed are not merged. Moving the
segments is one action, done with `mutex_contextos`; `tabla_vieja` is the set of CPUs that took
their segment table before. There is one queue of READY and nobody is suspended. A
thread that follows a `t_proceso` that `manejar_bsod` has freed stops the model.

### Registros, Mmu, Ejecucion, Maquina

Registers wrap at their width, words are in memory with the low byte first, and
`Traducir` adds as the code does, modulo a word. `ListaDeByte` is the list of sticks
that `leer_memoria` and `escribir_memoria` look for each byte in: the one the CPU has, or,
once a byte was not found, the one the Kernel Memory answers; a stick that has told the Kernel
Memory and does not listen yet is not in it, and a process that needs it ends.
`Ejecucion` gives every process a program of a small set and interleaves its
instructions with everything that may come between: the end of a quantum after any
instruction and a dispatch to any CPU, the answers of the Kernel Memory, a
compaction that moves every segment, a suspension that takes the segments to the
SWAP and a return to other addresses, the end of an input, a stick that joins.

`Maquina` knows none of these: a process is registers, segments of bytes, a
request and what it has shown. `ComoSiSola` says that `Ejecucion` implements it
(`Vista` is the mapping: the registers are those of the CPU that runs the process,
or those of its context; the bytes of a segment are in the sticks, or in the
SWAP). It is the promise of the whole system to its programs, and what would break
it is spread over four programs: a context saved before `PC++`, a table taken
before a compaction, bases that do not match, bytes copied to the wrong place.

Segments move under those who use them. `manejar_syscall_memoria` confirms a
compaction as soon as the interrupts are sent, so `Compactar` does not wait for the other CPUs,
which may be at any point of an instruction, or go on for many if the interrupt
was lost. The Kernel Scheduler keeps the physical address of a `STDIN` or `STDOUT`
while the process may be suspended or its segment moved, and the Kernel Memory may
hear of a suspension when the process is back and in a CPU (`por_suspender`,
`ProcesoSuspender`). The model takes all these steps and goes on with what the code
does next: it reads and writes wherever the old address is, over the bytes of
others if need be. Two history variables remember it, and no action reads them:
`movidos`, the processes whose segments went elsewhere after a CPU took their table,
and `memoria_ajena`, that an old address was used, segments were taken from a process
that had come back, or a size that wraps was let through for a device.

What may be said then is what the properties separate. `TablaAlDia` holds in every
state: a CPU with an old table has the same segments with the same limits, so it finds
the same faults. `TypeOK`, `EsperaGuardada` and `CacheFiel` hold in every state too. That
each program sees its own bytes holds up to the first step that `memoria_ajena` tells
of: `Maquina` has a variable `ajena` for it, and promises nothing once it is TRUE
(`SinPromesa`). A compaction under a CPU in the middle of an instruction is well within
the promise; only the use of a base that has changed is not.

Sizes that wrap in the sum of `traducir_direccion` are among the programs.
`COPY_MEM` with one ends the process, because it reaches behind the memory. `STDIN` and
`STDOUT` get past the MMU, which `memoria_ajena` tells too, and the Kernel Scheduler then writes to a
buffer that `malloc` did not give: the model stops (`KsCae`). `INIT_PROC` and the
mutexes are not in this module.

### CicloDeVida

The states of `t_estado` and the edges between them, with no more processes in EXEC
than CPUs. `Planificacion`, `Bloqueos` and `Compactacion` reach it with different
detail; `planificacion`, `bloqueos` and (by the edges `Retomar` and
`TerminarTodos`) `compactacion` check that each implements it.

## Runs

| Run | Instance | Shows |
|---|---|---|
| `memoria` | 2 processes, sticks of 3 and 1 bytes, 1 SWAP of 2 blocks of 2 bytes, sizes 1 and 2, 2 segments each, both strategies; 1.25 million states | `SegmentosDisjuntos`, `HuecosLibres`, `SinFugas`, `ContenidoIntacto`, `BloquesDeSwap`, `CompactarAlcanza`, `TypeOK` |
| `memoria_fallas` | 1 stick of 3 bytes and 1 of 2 SWAPs may be lost, 2 blocks of 1 byte; 0.73 million states | `SinFugas`, `BloquesDeSwap`; every request ends (`PedidoTermina`) |
| `memoria_swap_nuevo` | 2 SWAPs | `MapaDeBitsFiel` fails |
| `planificacion` | 3 processes, 2 CPUs, queues RR and FIFO with preemption, 2 timers, 1 cycle each; 0.36 million states | `UnaSolaLista`, `CpuDeUno`, `EjecucionUnica`, `TokensReady`, `TokensCpus`, `TimerVivo`, `TypeOK`; `CicloDeVida` |
| `planificacion_caidas` | 2 processes, 2 CPUs, one of which may close, 2 cycles, a priority with no queue; 0.65 million states | `TokensReady`; `TodosTerminan` |
| `planificacion_quantum` | as `planificacion`, 2 cycles | `QuantumCorre` fails |
| `planificacion_desalojo` | as `planificacion`, 2 cycles | `DesalojoEntreColasOcurre` fails |
| `bloqueos` | 3 processes of 3 priorities, 2 CPUs, 2 mutexes, one device of each kind (one may go away), memory for one segment, 3 sets of programs; 0.37 million states | `UnaSolaLista`, `DespertarUnico`, `MutexConDueno`, `HerenciaAlcanza`, `HerenciaVuelve`, `SuspensionDeBloqueado`, `TypeOK`; `TodosTerminan`, `CicloDeVida` |
| `bloqueos_despertar` | the same | `SiempreHayQuienDespierte` fails |
| `compactacion` | 3 processes, one of two instructions, one of one and one that only ends, 2 CPUs, any answer of the memory, a stick that may go away; 0.55 million states | `UnSoloPlanificador`, `AvisadaSiTablaVieja`, `BsodEsperaATodas`, `TypeOK`; `TodosTerminan`, `CicloDeVida` |
| `compactacion_desalojo` | the same | `DesalojadosAlCompactar` fails |
| `ejecucion` | every pair of 10 programs on 2 CPUs, bytes of 3 values, words of 2 bytes, sticks of 2 bytes and 1; 1.07 million states | `TablaAlDia`, `EsperaGuardada`, `CacheFiel`, `TypeOK`; `ComoSiSola` |

Bounds. Four bytes in two sticks are enough for segments that cross from one
stick to the next, for fragmentation in which the free memory is enough and no
hole is, and for moves whose source and destination overlap. Blocks of two bytes
with segments of one and two give padding and exact fits. Three processes on two
CPUs are the least for one that waits while two run, which preemption needs; two
timers let one that is no longer valid meet the new one of the same process.
With two cycles the same instance of `planificacion` has 4.8 million states and
shows the same; the smaller one is kept.

The programs of `bloqueos` are the three situations that inheritance and
suspension need: a process that has the mutex two better ones want and waits for a
device with it; one that has two mutexes, with a different waiter for each, and
loses its CPU meanwhile; one that waits for a device while another one needs its
memory. In `compactacion` three processes are one that asks for a compaction, one
that runs with the old table, and one that ends meanwhile, as the BSOD needs; with two
instructions for two of them it has 2.1 million states and shows the same. In
`ejecucion` three bytes of memory make a word cross the two sticks and two programs
not fit without a compaction; with bytes of three values a word of two wraps, as
an offset does. Three of its programs use memory, five are the accesses of nothing, the
faults and the refusals, and two have a size that wraps in the MMU.

`memoria` uses symmetry of the processes, which are interchangeable in it (both
write, neither is named), and a view that leaves out the bytes and blocks that
hold no written segment: no action or property reads them before they are
overwritten whole. `planificacion`, `planificacion_quantum` and
`planificacion_desalojo` use symmetry of the CPUs, which are told apart only by the
order in which they connect; `ejecucion`, symmetry of CPUs and of processes, whose
programs are given in every way. The runs that check liveness use none.

`CHECK_DEADLOCK FALSE` is there for the scheduler because it really may stop: all
processes end, or only processes without a queue are left, or the Kernel Scheduler
has ended.

Fairness. `FairSpec` of `KernelMemory` asks that its thread goes on with a request
it has begun: it waits for nobody else's lock for ever, and the Kernel Scheduler
answers a request for compaction. The `FairSpec` of `Planificacion`, `Bloqueos` and
`Compactacion` ask the same of each thread and each CPU, each of them a thread or a
process of its own that the operating system schedules; that a quantum and the
time of a suspension end, which are sleeps; and that a device that is there
answers. Nothing is asked of what may fail: a stick, a device or a CPU need not go
away, and need not stay. No strong fairness is used, although threads compete for
`mutex_listas`: whoever has it gives it up.

Each `TodosTerminan` names what it does not promise: a process without a queue or
a CPU that has left (`Planificacion`), a wake-up that was lost (`Olvidado`) or a
process that nobody brings back (`SinReanudar`) in `Bloqueos`, a BSOD or a
confirmation taken for another request in `Compactacion`. These are reached: see
below.

## What the checks found

Five runs end in a violation of what a text of the repository says:

* `swap_registrar` clears the bitmap while processes are suspended
  (`memoria_swap_nuevo`).
* The CPU keeps one pending interrupt, and a late one for an earlier process may
  take the place of the one that matters: a round-robin process goes on without a
  quantum (`planificacion_quantum`).
* A preemption sent to a process that is marked EXEC and not yet sent to its CPU is
  thrown away by the CPU (`planificacion_desalojo`).
* A mutex released between the moment a process joins its queue and the moment it
  is BLOCK goes to a process that then waits for ever (`bloqueos_despertar`).
* The memory is compacted as soon as the interrupts are sent: a CPU executes one
  more instruction with the old segment table (`compactacion_desalojo`).

Other states that the models reach, which no text of the repository claims or
denies; the properties that hold are stated around them:

* A request sent between `OP_COMPACTAR` and its confirmation is read as the
  confirmation (`mutex_perdido`): its sender keeps `mutex_pedidos_memoria`.
* The BSOD may never end: a CPU that it counted waits for the answer of a syscall
  that was dropped, or has left its process with a `SLEEP`.
* `manejar_bsod` frees processes that other threads have in hand.
* Two threads in `intentar_dessuspender_procesos` bring one process back twice, or
  follow the NULL of `list_get`.
* A process that got a mutex from a dead owner while it was suspended is brought
  back only when some memory is freed.
* A device that goes away leaves its process blocked.
* The address of a `STDIN` or `STDOUT` is used after the segment has gone.
* A size close to 2^32 wraps in the sum of the MMU, and a `STDIN` or `STDOUT` that goes past
  its segment is no Segmentation Fault.
* The Kernel Memory hears of a suspension when the process is already back.
* A process ends because the stick it needs has connected to the Kernel Memory
  and does not listen to the CPUs yet.
* After a compaction the process goes on even if its segment could not be created,
  which takes a stick lost meanwhile, or a request of zero bytes when no hole is left:
  `huecos_total_libre() >= 0` has the whole memory compacted for it, and no hole is
  there after it either. For one byte or more, what the comment "ahora entra" says is
  true, and proved (`CompactarAlcanzaSiempre`).

`SegmentosDisjuntos`, `HuecosLibres` and `SinFugas` are stated for memory whose
sticks all answer: an aborted compaction leaves the free list as it was before it,
and the loss of a stick moves the addresses behind it.

## Proofs

Every theorem is about `Spec`, for every value of the constants that the named
assumptions admit: `ConstantesOK` and `NulosOK` (`KernelMemory`), `PlanificacionOK`
(`KernelScheduler`: finitely many CPUs, which the system call that accepts them
implies, and nothing of the number of processes, queues and timers), `ProcesosOK` and
`PedidosOK` (`Compactacion`: finitely many processes, queues and CPUs), `IosOK`, `ProgramasOK`
and `DisciplinaOK` (`Bloqueos`: the type of each device, and programs as above), `CiclosOK` and `CiclosUsadosOK` (the
bound of the model on what a process executes is a number), `EjecucionOK`, `MmuOK`
and `AnchosOK`. Each module of proofs begins with what the operators return, one
lemma for each; then comes the invariant, its initial state, one lemma per action or
handler, and the theorems.

### Kernel Memory

`TipoCorrecto` (`KernelMemoryProofs`): `TypeOK`. It is not inductive:
`proceso_suspender` and `proceso_dessuspender` index one list with the length of
another one, so the invariant that is proved, `TipoInv`, adds `Locales`: what the
locals of the request under way are worth at each point of it.

`BloquesExactos` (same module): `BloquesDeSwap`. The argument is by ownership.
`BloquesDeSwap` says what the bitmap equals and not who may change it, so the
invariant that is proved, `BloquesInv`, names for each block its owners, pairs of a
process and a position in its list, or a position in the copy under way: a marked
block has one that has not come back (`Exacto`), and no block has two (`UnSoloDueno`).
A suspension takes blocks that are not marked, so nobody owned them; the end of a
process, a rollback and a return unmark the blocks of one owner, so nobody else loses
them. `ListasDelSwap` says when the lists are empty, so that an owner is neither
counted twice nor lost when the copy becomes the list of a process. `AntesDelSwap` is
what makes the bitmap that `swap_registrar` clears right the first time: nothing is
suspended before a SWAP has connected. Without the hypothesis that one SWAP connected,
the bitmap is wrong, and `memoria_swap_nuevo` shows it.

`SegmentosSinPisarse`, `HuecosSinPisar`, `NadaSePierde`, `CompactarAlcanzaSiempre`
(same module): `SegmentosDisjuntos`, `HuecosLibres`, `SinFugas`,
`CompactarAlcanza`. The four come from one invariant, `MemoriaInv`. Stated pair by pair, "no two
areas overlap" would have to be taken up again for holes, segments and the areas that
a return has in hand, at each cut of each list. It is said by address instead
(`Reparto`): each address below `memoria_total` is in one element of one list, and
each address above is in none. Every operation is then the move of an area from one
list to another: `OcuparCubre`, `ExtenderCubre`, `ReconstruirCubre` and their
neighbours in `HuecosProofs` say so of `huecos.c`, and `DisjuntasPorDireccion` gives
the pairs back. During a compaction there is no free list to speak of, and `AMedias`
takes its place: the segments that were moved lie one after the other below
`destino`, the rest above it in their old places. That the segment fits at the end is
a fact about sizes: `Alcanza` follows the number of bytes that no unmoved segment
holds from `destino` on (`Restante`), which each move keeps, from the total that
`huecos_total_libre` adds up (`TotalLibreCuenta`: the sum of the holes is the
cardinality of what they cover) to the hole that `huecos_reconstruir` leaves. `Sumas`,
the loop that both `huecos_total_libre` and `memory_stick_localizar` are, is a
recursive function; that it exists, and what it adds, is proved by the least
counterexample (`MinimoNat`, `InduccionHasta`). `Contextos` says whose the segments
are: `proceso_crear` of a number that is taken would lose them.

`ContenidoSinPerder` (same module): `UnSoloSwap => ContenidoIntacto`. The hypothesis is
that at most one SWAP has connected, as the run has it by its constants: a second one
comes with an empty file, and what was in the first is lost without any failure. The
invariant, `ContenidoInv`, says where the bytes of a segment are while the property is
silent about them. In memory (`ContenidoRam`), through the owners of `MemoriaInv`: a
write changes the bytes of its area and no other (`EscribirByte`), because no two
addresses are the same byte of the same stick (`LocalizarInyectiva`, for which
`SinRepetidos` is needed) and a stick that joins moves no address (`AgregarByte`); and a
write that moves a segment goes where no other segment is, in the middle of a compaction
too. In the SWAP (`ContenidoSwap`), in the list of a suspended process or in the copy
under way: each byte is in the block of the order that `swap_leer_bloque` will ask for
(`EnDisco`), and a copy takes blocks that `BloquesInv` says nobody has. The rest is there so
that no step finds itself without what it needs: `BloquesAlcanzan` carries the count that
`proceso_suspender` makes before the first copy to each of the following ones, without
which a segment could get fewer blocks than it has bytes, and `SwapConectado` that a
return, which looks at no failure, reads from a SWAP that answers.

### Kernel Scheduler

`TiposPlanificacion` and `CadaUnoEnSuLista` (`PlanificacionProofs`): `TypeOK` and
`UnaSolaLista`, from `PlanInv`. What they lack is what the threads know between two
critical sections: `HilosInv` (the point at which a handler is fixes the state of the
process it has in hand, and no two threads have one process to be admitted),
`ProcesosInv` (the numbers that were not given yet are of no process; a process in
EXEC has a CPU) and `EnvioInv`. Each list is counted with `Veces`, so a process that is
put in a list is not in it twice.

`CadaCpuDeUno`: `CpuDeUno`, from `CpusInv`. It is stated with sums of cardinalities, and
one of the three terms is a set of threads, each of which may have any CPU in
hand; `CpusInv` bounds the sum for CPUs that have left too (`Manos(c) <= 1`), because
the thread of another CPU may bring one back. `TimerSiempreVivo`: `TimerVivo`.

`UnTokenPorProceso` and `UnTokenPorCpu`: `TokensReady` and `TokensCpus`. The equation of
the processes holds in every state; the one of the CPUs while none was stopped, as
its property says. For that one `ApagadasInv` is needed: only a CPU that was stopped
closes its connection, so that a thread that finds it closed cannot be there
before.

`UnSoloProcesoPorCpu`: `SinApagadas => EjecucionUnica`. The hypothesis is that no CPU was
stopped, which the run has by its constants (`Caidas = {}`): with one that was, the
planner may send a process to a `t_cpu` that was freed, and `EjecucionUnica` is
false. The invariant, `EjecInv`, follows the process of a CPU through the two connections:
it is with the planner, or in the one order that the CPU has not read, or on
the CPU, or in the last message that the scheduler has not read, in one of them
only, and in each of them the scheduler has it in EXEC on that CPU.

`ImplementaCicloDeVida`: `Spec => CicloDeVida`. The mapping is the state of each process,
`estado` itself. `CicloPaso` goes through the actions: each is one edge of the abstract
module or none of them. That there is room for the one the planner sends
(`HayLugar`) is where the abstract bound, no more processes in EXEC than CPUs, meets the
detail: processes in EXEC are on different CPUs (`EjecutanEnDistintas`) and none is on
a CPU of the list of free ones (`NadieEnLibre`), which are `CpusInv` read twice.

`UnoSoloPlanifica` (`CompactacionProofs`): `UnSoloPlanificador`, from `PlanInv`. The
equation of the property is not inductive: `Compactar` and `FinCompactacion` are steps
of threads that hold the right without saying so. `TurnoInv` follows it through
them: a thread that evicts or confirms is the one of the CPU of the process that
waits, and no other thread, notification or listener has that process in charge; a
notification of the end of a compaction is alone in the queue, so that `FinEjecuta`
posts once. It holds after BSOD too, and until a freed `t_proceso` is used
(`ks_caido`), after which the model stops. A CPU is first reduced to what it does to
its own two connections and registers (`CpuEfecto`, `CpuVa`): one lemma stands for
the eleven steps of its cycle.

`TiposCorrectos` and `BsodEspera`: `TypeOK` and `BsodEsperaATodas` of `Compactacion`, from
`CompInv`. Neither is inductive. What is missing is where a process is while nobody has it
in a list: on a CPU, in a message or with a thread. `Canal` is the automaton of one
connection, seen from both ends: which messages may wait together and in what order
(one order at most, one answer at most, the answer first), and what the thread does
while a CPU runs, waits for an answer or is idle. `CpuKs` ties it to the lists: the
process that a CPU runs, an order carries or a thread has in hand is in EXEC on that CPU,
and a CPU in the list of free ones, or chosen by the planner, runs nothing and will not.
`KsBien` says the same of the lists among themselves. After BSOD the lists are empty and
`BsodInv` takes over: the CPUs that are active (they run a process, were sent one, or have
not told the end of one) are no more than `cpus_pendientes_bsod`, and no step
makes one active again. Most actions concern one connection and leave every other CPU as
it was or with interrupts more (`Sigue`); that is proved once and cited for each action.

`AvisadaTablaVieja`: `AvisadaSiTablaVieja`, from `CompInv` and `AvisosInv`. That the interrupt
was sent is not enough: `check_interrupt` throws away an interrupt for another process,
and one that was sent before an order is read after it. `AvisosInv` gives the order of the
messages: an interrupt before the order is for the process on the CPU, one behind it for
the process of the order (`Suyas`, `TrasOrden`), so that none that is read is thrown
away. Between `desalojar_todas_las_cpus` and the confirmation every process on a CPU has
its interrupt and every order that was not read has one behind it (`Confirmado`, `Seguidas`), and
no process is sent meanwhile, for the right to plan is with the thread that confirms
(`ParadaSola`, from `TurnoInv`).

`CompactacionImplementaCiclo`: `Spec => CicloDeVida`, with the same mapping as
`Planificacion`. The edge that only this module has is BLOCK to EXEC, after a compaction:
there is room, because the CPU that was kept is in no other list and runs nothing
(`HayLugarEnCpu`).

`TiposBloqueos`, `CadaListaDeSuEstado`, `UnSoloDespertador`, `MutexSiempreConDueno`,
`HerenciaSuficiente`, `HerenciaSinSobra`, `TimerSoloBloqueado` (`BloqueosProofs`): the seven
invariants of the run `bloqueos`, from one invariant, `BlocInv`. None of the seven is
inductive, and no two of them prove each other's steps apart. It has five parts.
`ListasBien` is `UnaSolaLista` by membership (`Tiene`) and without repetition
(`Distintos`), which sequences that are cut and put together keep. `CpusBien` says who has
a CPU: processes in EXEC are on different ones, a free CPU is nobody's and its thread is
not about to free it again. `EsperasBien` is the argument about waking up. It names every
waker that a process can have (`Quienes`: a mutex, a queue of requests, a device, the
thread of a CPU or of a device that has read its state and not acted yet); there is one
at most, and what a thread has read is still so (`Vigente`), since its timer was
cancelled in the critical section that read it. That is why a stale state is never
acted on, though the mutex is given up in between. `MutexBien` has the owner
of each mutex (`ConDueno`), alive or with a thread that is about to hand its mutexes over,
and as good as those that wait were at first (`Alcanza`). `Orden` adds that
what was inherited is still due (`Vuelve`) and what the programs bring in: a process has,
or waits for, the mutexes that its program has taken and not released (`EnOrden`), from
which follow that nobody waits for a mutex of its own (`SinDoble`) and that
`manejar_mutex_unlock`, which does not look at the owner, is called by the owner.
Each operation on `ks` has a lemma about the record it returns, in the terms of these
five parts; an action composes those of its handler. `LiberarMutexDelProceso`
goes through `lista_mutex`; what holds after each mutex is proved by the least
counterexample (`TrasPasoAPaso`), and at the end the process owns none.

`BloqueosImplementaCiclo`: `Spec => CicloDeVida`, with the same mapping. The
release of the mutexes of a dead process is the one step that takes several processes
along an edge, those that it made wait (`Vida`).

### CPU

`RegistrosGuardados` (`EjecucionProofs`): `EsperaGuardada`, for any CPUs, processes,
sticks, widths and programs. It is not inductive; `Inv` adds who may touch a context:
no two CPUs have one process (`Reparto`), a process that a CPU has is EXEC, or BLOCK
with a `MEM_ALLOC` while its CPU is kept (`EstadoEnCpu`), and one that waits for a
device is blocked (`EnEspera`). From these, a process that is woken up or brought back
is one that no CPU has (`SinCpu`). The instructions are first reduced to four effects
(`Instruccion`): go on, end, ask and wait, leave the CPU; then there is a lemma for
each effect and each step of the Kernel Memory.

`MismasDirecciones` (same module): `CacheFiel`, for any sizes of the sticks and any
access, those whose address wraps too. Each step leaves a CPU with the list it had or with
the one of the Kernel Memory (`DosListas`), which has the sticks that connected and
listen, with the bases the Kernel Memory gave them; and sticks only join.

`AccesoDentro` (same module): an address that `traducir_direccion` accepts is within
the segment that the program named, with all its bytes, for every table, address
and size whose sum with the largest offset fits in a word. That is the case of
every access of a register (`TamMaxSegmento + 4` is less than 2^32); `COPY_MEM`,
`STDIN` and `STDOUT` take their size from a register, and for them the sum may
wrap. `AccesosAjenos`: two processes whose segments are apart never reach the same
byte. `DireccionUnica`: an access has one address, even if two segments of a table
have one id. The three take from `Palabra` only that it is positive: a power is
defined by induction.

`TablaCorrecta` and `TiposEjecucion` (same module): `TablaAlDia` and `TypeOK`, from
`MemInv`. Which set a value is in says where every address may go, so `MemInv` has the
invariant of `MismasDirecciones`, and `Memoria`: every segment is inside the sticks that
are connected (`EnMemoria`) and no two share a byte (`Separados`); a process that is ready
or executes waits for nothing (`SinPedido`); a compaction is asked for only when
the segment will fit afterwards (`Entrara`). Two of its parts are about tables that
are no longer right. `TablasDeCpu`: every table that a CPU has, old as it may be, is of
segments inside the memory. `TablaEntera`: the table that a CPU executes with has the ids
and limits of the one of the process, or of what the SWAP has of it; a compaction
changes bases only, and a suspension, late or not, copies ids and sizes. `EnSwap`, that
only a suspended process has segments in the SWAP, is false after a late
suspension, and is therefore stated while `memoria_ajena` is not. An access that the
MMU accepts reaches bytes of one segment of the table (`AccesoReal`); one whose size
wraps is longer than all the memory, so it is never made (`DesbordeImposible`).

`EjecucionImplementaMaquina` (`MaquinaProofs`): `ComoSiSola`, that is, `Ejecucion`
implements `Maquina` under `Vista`, with `memoria_ajena` for `ajena`. A step after which
`memoria_ajena` is TRUE is `SinPromesa`; any other is shown to be `Pasa(p)`, an instruction or
an answer of process `p` as `Maquina` has it with the `Vista` of all others unchanged,
or `NadiePasa`, which no program sees. For that an address that is used must be the one of
the segment: a CPU has the right table unless its process is in `movidos`
(`TablaAlDia`), and so does a `STDIN` or `STDOUT` that waits (`KsEnSuLugar`, the only
invariant this needs besides `MemInv`); for those in `movidos` the step itself compares
the old address with the one of now. The proof goes from the bytes to the program:

* Reading and writing. `Vista` is a record (`Maq`) of registers, segments with
  their bytes, a request, the screen. An access reads and writes in the record what
  it reads and writes in the sticks (`SegDe`), because the address is in one segment.
* Instructions. One lemma for each, through the ends an instruction may have:
  go on, end, ask and wait.
* What moves a process. A dispatch, the end of a quantum, a context asked for again
  change where the registers are and not their values.
* What moves bytes. `CompactarBytes`: a compaction leaves each segment the bytes it
  had. A suspension takes them to the SWAP as they are, and a return (`Subido`) to new places
  that were free.

One hypothesis, `Anchos`, of the last three theorems: there is a stick, a word addresses
every byte of the sticks with room for one segment more, and a register that begins at
the last byte of a segment ends within a word; its two first conjuncts define the
powers, which the prover does not know. Nothing is asked of the programs: segments of
nothing, sizes that wrap and addresses of any kind are among what they may use.
The `ejecucion` instance satisfies it.

### Only model-checked

* Liveness (`PedidoTermina`, `TodosTerminan`): out of the prover's reach. All other
  properties of the passing runs are proved.

## Not modelled

* Sockets, the layout of messages, configuration, logs and delays: plain input and
  output. Two threads that write to one socket, and descriptors that are reused,
  are left out with them.
* Start-up and reconnection: each part is connected when its module begins, but
  for the CPUs of `Planificacion`, the sticks and the SWAP, which join at any time.
* The blocking syscalls together with preemption between queues, round robin and
  the messages of the CPUs: `Bloqueos` has the first, `Planificacion` the others.
* Mutexes released by a process that does not own them, which the code allows.
* Physical accesses interrupted between two sticks: one step, in every module.
* A word of 4 bytes of 256 values: the widths are constants, small in `ejecucion`.

## Plan

Done: the free list and the Kernel Memory; short-term scheduling with its CPUs;
blocking, input and output, suspension, mutexes; memory syscalls, compaction and
BSOD; programs over registers, MMU and segments, and the two abstract
specifications they implement.

Left:

1. An abstract allocator, without addresses, that `KernelMemory` implements when
   nothing fails.
2. `Bloqueos` with preemption between queues, if an instance stays small enough.
