# Specifications of the ANSISOP simulator

The repository is a simulator of an operating system made of five kinds of
processes that talk by TCP: a **Kernel**, several **CPUs**, a **Memoria**, a
**FileSystem** and several **Consolas**. A Consola sends the Kernel the text of
programs written in ANSISOP; the Kernel plans them on the CPUs, which interpret
them and ask Memoria for their pages and the Kernel for everything else: shared
variables, semaphores, heap and files.

This directory holds TLA+ specifications of its code (`src/`), the configurations
that check them with TLC on small instances, and theorems checked by TLAPS.
Names are the ones of the code wherever TLA+ allows it, so comments and
identifiers are partly in Spanish.

## 1. Inventory

### The parts, their state and their operations

| Part | State | Operations |
|---|---|---|
| Kernel, main loop (`Kernel/main.c`) | `master`, `read_fds`, `fdmax`, and the index `i`, a global | `main`, `Deserializar`, `procesar` |
| Kernel, admission | `unScript` (one for everybody), `cantidadDeProcesos`, `processID`, `colaProcesosConsola` | thread `procesarScript`, `crearPCB`, `enviarProcesoAMemoria` |
| Kernel, dispatch | `colaNew`, `colaReady`, `colaExec`, `colaExit`, `colaCpu`; `semNew`, `semReady`, `semCpu`; a mutex per queue; a `proceso` (PCB, `socketCPU`, `abortado`) per program | `planificadorLargoPlazo`, `planificadorCortoPlazo`, `ejecutar`; in `procesar()`: `CPU`, `PROGRAMATERMINADO`, `FINDEQUATUM`, `SEBLOQUEOELPROCESO`, the `ABORTO...` messages |
| Kernel, semaphores | the values of `SEM_IDS`, one queue for each (`colas_semaforos`), and a list of who blocked on what (`colaProcesosBloqueados`) | `PROCESOWAIT`, `PROCESOSIGNAL`, `liberaSemaforo` |
| Kernel, kills | none of its own | `MATARPIDPORCONSOLA`, `ABORTOPORCONSOLA`, `DESCONECTARCONSOLA`, `abortarProgramaPorConsola`, `abortarTodosLosProgramasDeConsola`, `abortar` |
| Kernel, CPUs that leave | none of its own | `ABORTODESCONEXIONCPU`, `DESTRUICPUSINPID`, `abortarElProgramaDeCpu` |
| CPU (`Cpu/main.c`) | `unPcb`, the flags `programaFinalizado`, `programaAbortado`, `programaBloqueado`, the quantum, a dozen semaphores; the PCB's `indiceStack`: the contexts of the calls, with the addresses of their variables and arguments | a thread that receives from the Kernel (`procesar`), one that executes (`procesarScript` and the ANSISOP primitives) |
| Kernel, heap | `listaAdmHeap`, the queues `colaHeap` and `colaLiberaHeap`, the globals `metaDataLeida` and `abortoPorFaltaDeMemoria` | threads `procesarHeap` and `liberarHeap`; the headers of the blocks are read and written in Memoria |
| Kernel, files | `tablaArchivosGlobal`, `listaTablasProcesos` (a table of open files per process), `colaCapaFs` | thread `procesarCapaFs`: open, close, read, write, delete, seek |
| FileSystem (`FIleSystem/main.c`) | a bitmap of blocks; the metadata of each file | validate, create, delete, read, write |
| Memoria (`Memoria/main.c`) | the inverted page table, the lists of overflow, the frames, a cache | start a program, read, write, give a page to the heap, free pages |
| Consola (`Consola/main.c`) | its programs, a thread for each | run, kill, disconnect |
| `shared/` | none | framing of messages, serialisation of the PCB, configuration |

### How they interact

Every pair talks by one TCP connection. The Kernel's main thread is a `select`
loop that reads one message and runs one handler, `procesar()`, to its end. The
planners, the reader of scripts, the two threads of the heap and the one of files
are threads of the Kernel that share its lists with the main thread, sometimes
under a mutex and sometimes not, and wait for each other on counting semaphores. A
CPU has two threads that share `unPcb` and its flags. Memoria has a thread for
each client, and one mutex around every request.

### What is hard, and what must be true

* **Dispatching.** The handlers find the process a message is about by the CPU it
  came from (`sacarProcesoDeEjecucion`), and dereference what they find. A CPU may
  send `PROGRAMATERMINADO` while its last notices are still to be handled, and be
  announced as idle at the same time. A process must never be lost or run twice, a CPU
  neither; a message must be charged to the one that sent it; no instruction must be
  executed twice; every program must end.
* **Blocking.** A process that waits is in two places, `colaExec` and the queue of a
  semaphore, until the CPU says that it stopped. A signal in between must not lose it
  nor run it twice.
* **Kills** come at any moment, and find the process anywhere; so do the signals that
  make a CPU leave. The others must go on.
* **Admission.** The main thread and the script thread share the index of the `select`
  loop, the script and the counter of programs. Whoever sends a script must be told what
  became of it, and the pid must be that of its program.
* **Executing.** A sentence may be in two pages, and a variable's address is computed from
  the last one defined in one context or another. What is alive must not overlap, and must
  read as it was assigned, although the cache is not written.
* **Heap.** Both threads read and write the same headers by messages, wait on the same
  semaphores and get their answers in one global. The blocks of a page must stay
  adjacent and disjoint, and nobody must wait for ever.
* **Files.** A process keeps *positions* in the global table, which shrinks and is
  reordered: a position must stand for the file it was taken for. The blocks must be
  used by one file and counted right.
* **Memoria** finds pages with a hash that collides.
* **Restarts.** Only the FileSystem keeps something on disk.

The hazards are listed in `PROJECT.json`, each at its line with the properties that
watch it.

## 2. The modules

```
CicloDeVida <--implements-- Despacho --> DespachoInv --> DespachoProofs
                               ^
SemaforoAbstracto <--implements-- Semaforos --> SemaforosInv --> SemaforosProofs
                               ^
                         Planificacion     (Despacho + Semaforos)
                               ^      \
                               |       +--> PlanificacionInv --> PlanificacionProofs
                               |
                         Interrupciones    (+ kills, consoles and CPUs that leave)
                               |
                               +--> InterrupcionesInv --> PlanificacionProofs

SistemaDeArchivos <-- Archivos --> ArchivosInv --> ArchivosProofs
Admision --> AdmisionInv --> AdmisionProofs

Memoria <-- Heap --> HeapInv --> HeapProofs
Memoria <-- Cache <-- Ejecucion --> EjecucionInv --> EjecucionProofs
```

| Module | Models | Correspondence |
|---|---|---|
| `Despacho` | The Kernel's queues and planners, the handlers that take part in dispatching, and both threads of every CPU | One action per handler of `procesar()`, per stretch of a planner between two waits (`PlpSaca`, `PcpEsperaReady`, ...), and per step of the CPU's loop (`Arranca`, `Local`, `Avisa`, `Pide`, `Falla`, `Finalizar`, `TrasFin`, `Termina`). Sockets are FIFO sequences `aKernel`, `aCpu`. `leyendo` and `Lee` are the loop over the sockets, whose index other loops move. An instruction is what it does to dispatching: `define`/`usa` a variable, `avisa` (a message without an answer), `pide` (one with an answer), `falla` (it aborts), `fin` |
| `CicloDeVida` | What the Kernel promises of planning: order of acceptance, order of readiness, one program per CPU | Abstract; `Despacho` implements it (`CumpleCiclo`) |
| `...Inv` | The inductive invariants of a module, with the predicates they are made of | |
| `Semaforos` | The values, the queues and `colaProcesosBloqueados` | `Wait`, `Signal`, `Quita` (the kill of a blocked process) |
| `SemaforoAbstracto` | Counting semaphores that serve in order of arrival | Abstract; `Semaforos` implements it (`Implementa`) |
| `Planificacion` | `Despacho` and `Semaforos` together | `ProcesoWait`, `ProcesoSignal`, `SeBloqueo`, and the CPU's side of them |
| `Interrupciones` | `Planificacion` with what interrupts it | The three places where `abortarProgramaPorConsola` finds a process (`MataReady`, `MataExec`, `MataBloqueado`), for one pid (`MataEmpieza`) or for all those of a console (`SigueConConsola`); what a CPU sends when it leaves (`SalePorSenal`, `RecibeControlC`) or fails to send (`PierdeTurno`), the end of its socket, and the handlers of both |
| `Admision` | The `select` loop of the Kernel, `procesarScript`, Memoria's answers, the consoles that send scripts | The main thread in steps that end where the shared index is read again: `Select`, `Recibe`, `SeBloquea` (a `recv` of a socket with nothing), one action per message; `procesarScript` in steps between waits, and each iteration of the loop of `crearPCB` that uses the same index |
| `SistemaDeArchivos` | The FileSystem: bitmap and metadata | `Crear`, `Guardar`, `Borrar`, `Reinicia`; each fails as the code does when blocks run out |
| `Archivos` | The thread of `procesarCapaFs` and its tables, with the FileSystem | Each operation up to the message to the FileSystem, and after its answer |
| `Memoria` | Frames, hash, lists of overflow, the contents the heap needs | Operators for each request; the composing module is the client |
| `Cache` | The cache of Memoria | Operators for each request that looks at it, and `Flush` |
| `Ejecucion` | Programs in Memoria: their text, and the stack that the CPU keeps for them | One action per page sent, per reading of `leerSentencia`, and per sentence executed (`Variables`, `Asigna`, `Jnz`, `Llama`, `Retorna`, `Finaliza`: the primitives the parser calls for it) |
| `Heap` | The two threads of the heap and the main thread that hands them the answers of Memoria | One action for each stretch between two waits; `bloqueado` says that the main thread waits for a socket that has nothing |
| `MC...` | Instances for TLC | Constants only |
| `ListasLemas`, `...Proofs` | Lemmas about naturals and lists, that every proof uses; proofs | |

How the models treat what C leaves undefined:

* A step that walks a list without its mutex while another thread is in its own
  critical section on that list may corrupt it: `fallo` becomes `"carrera"`. Using a
  NULL or freed memory makes it `"nulo"` or `"ub"`. The process does nothing after.
* `socketCPU` of a process that was never dispatched is what `malloc` leaves: any
  element of `Basura`. In `Archivos`, `Basura` is what may be read after the end of
  `permisos`, which is not terminated.
* A CPU that runs past the end of its code index is in `fase = "rota"`: it reads
  memory that is not an instruction and does nothing that is modelled. In `Ejecucion`, a
  process whose CPU dereferenced a NULL, or gave the parser another text, is `"caida"`; a
  name that is not defined makes `obtenerPosicionVariable` end without a `return`, and
  `fallo` is `"ub"`.

**The loop over the sockets.** Its index `i` is a global, and the loops of `PROGRAMATERMINADO`
(`Kernel/main.c:616`) and of `crearPCB` (1896) use it too: it may go back to a socket that was
already read, and `Deserializar` then waits for that one, whatever comes by the others. `Spec`,
`SpecPlan`, `SpecInt` and `SpecHeap` leave the order of the sockets open, which is more than the
code does, so that their safety properties hold of it. `SpecBucle`, `SpecPlanBucle`, `SpecIntBucle` and
`SpecBucle` of `Heap` add what the index does to that order: after the end of a program, or
while one is admitted, the main thread may come to any other socket, and waits there until
something comes. Where it may go is not computed from descriptors and numbers of pages: all the
sockets are possible. `Admision` does compute it. A theorem says that each of these
implements the specification without the loop, and liveness is checked of them.

Properties that are conditional say so in their statement: `TodosTerminan` and
`NadieSeEstanca` hold unless one of these happened (`Indefinido`), or the main thread waits
for ever for a socket that has nothing (`[]EsperaVacio`); the ones of
`Archivos`, `Heap` and `Admision` name the events after which the code no longer keeps them
(`historia`). TLC reaches every one of those events within the bounds, and section 5
tells what they do.

## 3. The runs

`tlc -config X.cfg MX`; every passing run takes less than four minutes with two
workers.

| Run | Instance | Shows |
|---|---|---|
| `despacho` | 3 programs, 2 CPUs, round robin, quantum 2 | `IInv` and what follows: no process or CPU in two places or in none (`UnSoloLugar`, `CpuEnUnLugar`), the planner's branch for a NULL is dead (`NadaSeDescarta`), no handler misses its process (`SinNulo`), messages are charged to their sender (`MensajeDelQueEjecuta`), no instruction runs twice (`NoRepite`), `CicloDeVida` is implemented (`CumpleCiclo`), every accepted program ends, unless the main thread waits for ever (`TodosTerminan`) |
| `semaforos` | 4 processes, 2 semaphores | Nobody waits for a free semaphore, everyone waits in the queue of the semaphore it asked for, and the three structures implement `SemaforoAbstracto` |
| `planificacion` | 3 programs that wait and signal, 1 CPU, 2 semaphores | Blocking and waking lose nobody, repeat nothing and leave nobody short of its end unless it is blocked or the main thread waits for ever; the handlers use `Semaforos` as its specification says (`UsaSemaforos`) |
| `interrupciones_matar` | 3 programs that wait, signal and run, 1 CPU; one is killed, two belong to a console that leaves, the CPU may get a signal | What survives: `semReady` and `semCpu` are never behind their queues (`SemaforosAlDia`), whoever was not caught in a CPU is in one place (`NadieDuplicado`), a console that left has no program that goes on (`ConsolaSinProgramas`) |
| `interrupciones_salidas` | 2 programs, one blocks and the other wakes it, 2 CPUs, one of which gets a signal | A CPU that leaves gives its process back (`SaleSinLlevarse`), and the others end or block, but for a program that its CPU never gives back and unless the main thread waits for ever (`SiguenLosDemas`) |
| `admision` | 2 consoles, 3 scripts, 2 CPUs, room for 2 programs | The counter is right and the limit kept (`GradoContado`); the pid a console shows is that of the program made of its script (`ProgramaPropio`); the main thread waits for a socket that has nothing only in a round in which the index was moved, and the three `PORLASDUDAS` keep the programs that end from making it wait for the CPUs they left (`SeBloqueaSoloPorElIndice`); everybody is answered, but for the cases of section 5 (`TodosRespondidos`) |
| `ejecucion` | 2 processes, 172 scripts (14 main parts with 5 functions that loop, recur or call, those of a function that uses its argument, given or not, and of names that are not defined; 2 layouts of the text), pages of 6, a stack of 2 pages, a cache of 3 | Variables and arguments that are alive are apart and in the stack (`EnSuStack`); they read as assigned (`LeeLoAsignado`); a CPU executes the sentence at its program counter (`SentenciaCorrecta`) and crashes only at the sentences it does not support (`SoloCaePor`) |
| `archivos` | 2 processes, 3 files, 8 blocks, 5 requests | Positions stand for the right file while files are used by one process at a time, open counts add up however they are shared, no request that is right stops the Kernel, and the bitmap is exact, also after a request was refused for want of blocks |
| `heap` | 2 programs, 7 frames of 6 units, 5 requests | The blocks of a page tile it, a program's block is its own, the free space the Kernel keeps is never too much, frames are counted, and every request is answered, unless two readings were mixed up or the main thread waits for ever |
| `despacho_variables`, `archivos_borrar`, `filesystem_reinicio` | | Violations: section 5 |

**Why the bounds are enough.** *Dispatching:* three programs and two CPUs are the
least with a process running, one idle-to-be and one waiting at the planner; a
quantum of 2 with programs of 1 to 3 instructions makes quanta expire in the middle
of a program and just before its end. *Semaphores:* four processes on two semaphores let two wait on each,
which is what the skipping loop of `sacarSemaforosDesbloqueados` needs to go wrong;
`MaxValor` bounds the values. *Planificacion* has one CPU because with two the code does
not keep what it must (section 5). *Interrupciones:* one program is killed by its pid, at
most once, and two as their console leaves, in every place a program may be and between
any two steps; with two CPUs, either leaves, at any moment, and the other stays to run what there
is. `Salidas` bounds the signals. `adelantados` remembers the processes that a CPU woke before another one had
stopped them, which is where two CPUs and a semaphore go wrong (section 5): `NadieDuplicado` and
`SaleSinLlevarse` say what holds until then. With one CPU nobody is ever in it (TLC); without that
condition, the first fails with two CPUs, and the second with two CPUs and three programs.
`SemaforosAlDia`, `NadieDuplicado` and `ConsolaSinProgramas` are safety
properties and need no fairness, which is left to the second, smaller instance.
*Admision:* three scripts for two places make the third one be refused, or the second one
come while the first is read; the clients' sockets are 7 to 10, with a console between the two CPUs
and another after them, and freeing the 3 or 4 pages of a program
sets the index back to 5 or 6, so that those of the server and the clients are looked at
again and Memoria's is not, and each CPU may set it back in the same round; Memoria has
room for one console's scripts and not for the other's until a program ends.
`LANZAMIENTOS` bounds the scripts and a script has `INSTRUCCIONES` sentences, each an
iteration of the shared index. *Ejecucion:* a page holds two variables and the stack four,
so that a call inside a call overflows it; the cache has room for three pages, two of a
process, so that it fills, replaces and mixes processes; the sentences fit in a page, cross
two, begin where a page does or end the script, which fills its last page in one layout and
not in the other. What may be called from a sentence is what the scripts of
`Consola/prueba` do: loops, functions with a value and without, and recursion. *Archivos:* the programs open files with every flag or
to read only, and use descriptors 3 and 4, held or not; writes of 2 and 9 bytes on
blocks of 2 fill a last block exactly, or in part. There are 7 blocks to give (one of the 8 is marked
from the start): a file of 9 or 11 bytes leaves few, so that both the writing of another and the creation of a
third one are refused. `MaxPedidos` bounds the requests
and `MaxTamanio` the files. Two programs and three files are interchangeable
(SYMMETRY; no liveness is checked there). *Heap:* a page holds up to two blocks; sizes
1 and 2 leave rests of 0 to 2; 5 does not fit in a page; seven frames make pages collide
and run out. `MaxPedidosHeap` bounds the requests.

**Deadlock** is not checked where the system may really stop: when every program
has ended, when undefined behaviour was met, or when a bound on the requests is
reached. Getting stuck is what the liveness properties exclude.

**Fairness.** Every thread of the Kernel and of a CPU that can go on eventually does
(`Equidad`): they are threads of the operating system. The main thread is one more: a round of
its loop comes to every socket that `select()` reported, and `select()` reports every one that has
data, so that each is read again and again, **unless** the main thread is in `Deserializar` of a
socket that has nothing. The fairness of `Atiende(c)` is stated with the loop, `Atiende(c) /\ LeeCpu(c)`,
which is disabled while `leyendo` is another socket: nothing is promised then, and nothing makes a console,
Memoria or another CPU send what would end that wait. When it does end, the round goes on. `Heap`
says the same with `bloqueado`. Weak fairness is enough, except for what nobody is obliged to do:
nothing makes a program arrive, ask or be killed, a console leave or a CPU get a signal. In
`Admision` the main thread, the script thread, Memoria and the threads of the consoles that
wait go on while they can; nobody has to send a script, nor a program to end. In `Heap`, requests are
bounded, and it is enough that one of the threads that can go on does.

## 4. What is proved

TLAPS proves the following, for every value of the constants that satisfies the named
`ASSUME`s of the module. TLC evaluates those on every run, and checks the same invariants
on small instances.

| Theorems | Say, of the code | Assume |
|---|---|---|
| `DespachoProofs`: `Invariante`, `TiposSiempre`, `UnSoloLugarSiempre`, `CpuEnUnLugarSiempre`, `NadaSeDescartaNunca`, `SinNuloSiempre`, `MensajeDelQueEjecutaSiempre`, `NoRepiteSiempre` | For any processes, CPUs, programs and quantum, round robin or FIFO: nothing is lost or in two places, handlers find their process, no instruction runs twice | Processes and CPUs are different things and `NULL` is neither; what `malloc` leaves in `socketCPU` is a CPU or `NULL`; programs are finite |
| `DespachoProofs`: `BucleEsUnOrden`; `PlanificacionProofs`: `BuclePlanEsUnOrden`, `BucleIntEsUnOrden`; `HeapProofs`: `BucleEsUnOrden` | The loop over the sockets does nothing that the specification without it does not allow, so the theorems of this table hold of it | None |
| `DespachoProofs`: `ImplementaCiclo` | `Despacho` implements `CicloDeVida` | The same |
| `SemaforosProofs`: `SemaforosCorrectos`, `NadieEsperaDeMasSiempre`, `EsperaLoQuePidioSiempre`, `ImplementaSemaforos` | For any processes, semaphores and initial values: nobody waits for a free semaphore, who waits is in the queue it asked for, and `SemaforoAbstracto` is implemented | No semaphore is called as the absence of one; initial values are natural numbers; values have three digits at most (four bytes are written) |
| `PlanificacionProofs`: `InvarianteUnaCpu`, `UnLugarOBloqueadoUnaCpu`, `NoRepiteBloqueadoUnaCpu`, `UsaSemaforosUnaCpu` | With one CPU, for any programs, semaphores and quantum: a process is in one place, or blocked on one semaphore, or in both while its CPU stops it; no instruction runs twice, before or after a wait; only a process that is not blocked waits, so that the theorems of `Semaforos` hold of the whole | Those of `Despacho` and `Semaforos`; there is one CPU (section 5 says what two do); programs name semaphores of `SEM_IDS` |
| `PlanificacionProofs`: `SemaforosSiempreAlDia`, `ConsolaSeVaSola` | Whatever is killed and whoever leaves: `semReady` and `semCpu` are never behind their queues, and a console that left has no program that goes on | Those of `Despacho` and `Semaforos`; what is killed is a process |
| `HeapProofs`: `MarcosSiempre`, `FramesContadosSiempre` | For any programs, requests and frames, and any order of both threads of the heap, the main thread and Memoria: every answer has one thread that waits for it; until two pages have the same hash, `framesLibres` counts the free frames, every page of a loaded program is in its frame, and the Kernel and Memoria count the same pages of it | Pids are positive; a program has a page at least; sizes are natural numbers; there are frames, and a page has a unit |
| `HeapProofs`: `BloquesSiempre`, `CadenaSiempre`, `VigentesSiempre`, `DisponibleSiempre` | The same, of what is in the pages, through every writing that is under way: the blocks of a page of the heap follow one another up to its end, a block that a program holds has the header it was given and shares nothing with another, and the Kernel announces no more space than the free blocks have. While `Ordenado`: no two readings overlapped, no block was joined across a frame, no two pages collided | The same |
| `ArchivosProofs`: `FileSystemCorrecto`, `BitmapSiempreExacto`, `UnDuenioSiempre`, `TamanioSiempreJusto` | For any number and size of blocks, whatever the programs do: the bitmap is exact, a block has one owner, a file has the blocks its size asks for | Sizes are positive; no restart (section 5) |
| `ArchivosProofs`: `CuentaSiempre` | However files are shared, closed and deleted, the sum of `open` in `tablaArchivosGlobal` is the number of descriptors, while no table was lost | The same |
| `ArchivosProofs`: `TablasCorrectas`, `ApuntaSiempre`, `SinFalloSiempre` | While files are used one at a time a position stands for the file it was taken for, and no request that is right stops the Kernel | The absence of a table is no table |
| `EjecucionProofs`: `PilasSiempre`, `EnSuStackSiempre` | For any scripts, pages, stack and cache: variables and arguments that are alive share no cell and are whole in the pages of their stack, as functions call one another and return | Programs are numbered from 1; a page holds a whole number of variables; sentences are within the text, jumps go to a sentence, and the last one ends a block |
| `EjecucionProofs`: `TextoSiempre`, `SentenciaCorrectaSiempre`, `SoloCaePorSiempre` | A CPU executes the text that the script has at its program counter, whole, from one page or several, from the frames or the cache, and crashes only at what it does not support or locate | The same. No two pages of the programs have the same frame (`SinColision`, in `InitEjecucion`) |
| `EjecucionProofs`: `ValoresSiempre`, `LeeLoAsignadoSiempre` | What is alive reads as its program assigned it last, whatever is called and whatever the other programs write, unless its page was written after it was copied to the cache | The same |
| `AdmisionProofs`: `GradoSiempreContado`, `PidSiemprePropio` | For any consoles, CPUs, scripts and `GRADO_MULTIPROG`: the counter counts the living programs and keeps the limit; the pid a console shows is that of the program of its last script, whole | Consoles and CPUs are finitely many and different; descriptors are given in order, after those of Memoria and the server; the rest of the numbers are positive |
| `AdmisionProofs`: `SoloEsperaPorElIndice` | For any consoles, scripts and pages, and up to three CPUs: the main thread waits for a socket that has nothing only in a round in which the index was moved, and programs that end never make it wait for the CPUs they left | The same |

`Ejecucion` describes the programs up to the first replacement of the cache and the first use of a name that
is not defined: after those nothing can be said (`InvTexto` does not mention them because the model stops).

The events that `CuentaSiempre`, `ApuntaSiempre`, `SinFalloSiempre` and the theorems of `AdmisionProofs`
and `HeapProofs` exclude are those that the properties name (section 5): they are states the code reaches.

### The inductive invariants

None of these properties is inductive. What each proof adds, and why:

**`Despacho`** (`IInv`). That a handler finds its process depends on what is in every socket
and in the hands of every thread.

* `Semaforos`: each semaphore counts its queue, less the one the short-term planner has
  already taken the right to. `NadaSeDescarta` follows.
* `ManoPcp`: what the planner holds in `ejecutar()`, and that `mutexColaEx` is its.
* `SinSobresaltos`: in this module nobody is killed or blocks.
* `Protocolo`: a CPU that runs nobody is empty (`Vacia`: no PCB, nothing in its sockets
  but its first message); one that runs `p` is in one of four stages of the dispatch of
  `p`: the PCB in the socket (`EnCamino`), received (`Recibido`), executing
  (`EnCurso`), gone with the message that says so last in the socket
  (`Devuelto`). `SinNulo` and `MensajeDelQueEjecuta` follow.
* `Adelanto`, for `NoRepite`: the PCB of a process is in one place, a CPU, a socket or the
  Kernel, and none of those is older than what the process executed. A CPU that waits for an
  answer has executed the instruction it is at, so it counts as one more.

The proof has a lemma for each action. Those of a CPU's threads share `PasoDeCpu` (what
a step of one CPU leaves alone), those of the main thread `PasoDeKernel` (a process
leaves `colaExec` and its CPU becomes empty). The refinement maps what a planner holds to the
queue it came from, and shows that each action is a step of `CicloDeVida` or a stutter; that
a process that leaves the planner gets a CPU that runs nobody is `CpuEnUnLugar`.

**`Semaforos`** (`IInv`). `sacarSemaforosDesbloqueados` removes from a list as it walks it, so it
skips the entry after each one removed, and leaves behind or takes entries of processes that
it is not about. That who waits is in the right queue needs what is left of the list:
`EntradasVigentes`, an entry is of a process that still waits for what it says; and
`EntradasEnOrden`, the entries of one semaphore are in the order of its queue. So the entry of
the process that is woken, if there is one, is the first of its semaphore, and the walk, that
can only skip an entry after one it removed, does take it. Entries may still be lost: that is why
`EntradasVigentes` goes from the list to the queues and not back. The walk is a recursive
function over the list, whose values the lemmas of `ListasLemas` reach by induction.

**`Planificacion`** (`IInvUnaCpu(c)`). `SinSobresaltos` is false here, and the blocked process is in two places,
so everything is counted. `Cuenta(p)` is how many times `p` is in the queues and hands; `Lugar` says that it is one,
unless `p` is blocked: then it is what `colaExec` has of it, none or one. What a signal does needs that the process it
wakes is not the one that the CPU has, or the CPU's would be in two queues (the case that two CPUs reach): with
one CPU, the one that signals is the one that runs. `LaCpu` says where the CPU is: free, or in one of six stages of the dispatch of the only
process of `colaExec` (`EnCamino`, `Recibido`, `Ejecutando`, `Esperando`, `Parando`, `Devuelto`), each with what both sockets hold; the notices that need no
answer (`Avisos`) may be before the last message. `Esperando` has the handler of `PROCESOWAIT` in the middle: the process is not blocked while the Kernel
has not read the question, and is when the answer is 1. `PcbAlDia` is the rest of
`NoRepite`: only of a process that is in `colaExec`, or ended, may the Kernel have an old PCB. What a wait and a signal
do to the three structures of the semaphores is taken from `SemaforosProofs`, instantiated; the counts of the lists, from lemmas
about `Veces`.

**`Interrupciones`**. With kills and CPUs that leave, `IInv` of `Despacho` is false, and each theorem has a
small invariant of its own. `InvSemaforos`: the Kernel takes a CPU off `colaCpu` without taking from
`semCpu` only after that CPU left (`SalenLasIdas`); while none did, the count is exact. `InvConsola`: while the
console is leaving, only the process that is being looked for (`matando`) may be in none of the places
that the property names.

**`Archivos`**. `InvFs` adds to the three properties that no file has one of the blocks that `main()`
marks (`SinMarcados`), or deleting it would free one. `Pedido` says that the FileSystem is asked to create only
files that are not there. `EnOrden`, for the tables: every open file has one entry, of one process,
that points to its entry of the global table, which has no other (`TablasEnOrden`); and the file of the
request that waits for the FileSystem is one there is, and not open twice (`PedidoVigente`). Positions
change for everybody when an entry is removed (`actualizarIndicesGlobalesEnTablasProcesos`), which is
why all the entries must be considered together. `CuentaAbiertos` needs only types and that the entries are
finitely many (`Contado`), but it is about a fold: `AbiertosEs` shows that what `FoldSeq` computes is a
sum of which any term can be taken off.

**`Admision`** (`Estructura`). The main thread may read a message in one step and handle it several
steps later. `Pendientes(s)` is what the Kernel has to read from `s` with the message it is handling put in
front, so that reading changes nothing. Then a CPU has just come, or waits, or has a program, or
said that it ended, once and in one of those places (`CpuEnUnaParte`); a living program is being accepted,
or waits, or has one CPU (`ProgramaEnUnaParte`). So what `PROGRAMATERMINADO` takes from the
counter is a program that lives, and `GradoContado` follows from what each thread has read of
it (`Leidas`). For the pid: the last script of a console is in one message, or being admitted, or
answered (`ScriptEnUnaParte`); what is shown after the answer is of that script (`PidsDeCadaUno`).
The index that `crearPCB` shares with the main thread is right until the latter moves, which is the event
`cruzado`. Why three `PORLASDUDAS` are enough for three CPUs (`InvVueltas`): `rebobinaron` has the CPUs whose ends
set the index back in this round. Each of them has, still to be read, one `PORLASDUDAS` for each of the other CPUs
that may set it back yet, and one more while the index has not come to it again (`QuedanDudas`). A second end takes
one from what the first must keep, and is one less to come; no CPU has two ends in a round, because what comes after the
first is `PORLASDUDAS` (`FinalesCompletos`) and they are not all read before the round is over. A fourth CPU would
need a fourth one. Until somebody sets the index back, every socket the round has not come to has something (`Ronda`).

**`Ejecucion`** (`Pilas`). Where a variable goes depends on which of the contexts below has the last
one: `armarDireccionDeFuncion` looks only at the caller. `PilaBien` adds to the order of the
addresses (`EnOrden`) that they are multiples of the size of a variable, so that the next one fits
whole or begins a page; that only a function that is called by a context with variables has an
argument (`ArgumentosTrasVariables`), so that if no context has a variable nothing is alive and the
first page is free; and that the context of the main part has `NULO` as `retVar`, so that what returns has one
below. What is alive is the concatenation of the contexts, of which the lemmas take the last one
off (`VivasAgrega`). Names and values are left open: the stacks are of some set `U` of them.

`InvTexto` says why a CPU finds its sentence. The text is in Memoria as it was sent (`TextoCargado`) and every page in
the frame that the hash gives it (`PaginasEnSuMarco`), which needs the fold of `inicializarPrograma` taken one
page at a time; writes are of pages of the stack, or of page 0, so a copy in the cache of a page of text is
the page (`CopiasFieles`). Where they write depends on `retVar`, which is taken when a function is called and used when
it returns: it is still the place of a name of the caller, which no call can have changed (`Retornos`). And a reading
of several pages has, after each, what the script has so far, and knows where the rest is (`LecturaBien`), unless the sentence
begins where a page does: the code then reads the page before.

`InvValores` adds that Memoria has the value of everything that is alive (`ValoresEnMemoria`). A write of one variable
reaches no other because what is alive is in order and a variable apart (`EnOrden`), nor any of another
process because their frames differ; a new variable goes where nothing alive is. A process that does not have its pages
yet, or no longer, has nothing alive (`SinPila`), so that loading and freeing pages disturb no value.

**`Heap`** (`InvMarcos`). That no frame is lost needs first that nothing is asked twice. `InvHilos`: a program
that waits is in one queue or in the hands of one thread (`Lugares`); `mutexMemoria` is of the thread whose stage says so
(`DuenioDelMutex`); and the answers that were given and not taken, with the messages that will bring one, are as many as
the threads that wait for one (`RespuestasContadas`). That is a count and not a pairing: both threads may wait
for `semMetadata`, and either takes what came first. It holds while no thread used memory that was freed (`fallo`). `Marcos`: every frame that is used is the
one that the hash gives to its page, so the lists of overflow are empty (`TablaBien`); a program has its pages from 0
to the last one (`PaginasDadas`); what Memoria gives next is the page that the Kernel has counted, but for the answer that is under
way (`MismaCuenta`, `CuentaDePide`); and the pages of a message that frees are still there, of a program that ended, and in no
other such message (`Bajas`), or they would be counted as free twice. `inicializarPrograma` is a fold over the pages: `ConTodas`
is reached by taking one page at a time (`Guardando`). A hash that collides replaces a page (section 5), and nothing of `Marcos`
is left: all of it is under `"colision" \notin historia`.

`InvBloques` is about what is in the pages. A header changes in two steps, when a thread sends the writing and when Memoria
does it; and what is freed is marked first and counted later. So the properties, which look at the headers, are
not inductive. There is a `t` that gives, for each page, the offsets where its blocks begin and where the last one ends (`BloquesDe`), and:

* `Teselado`: those offsets cut the page (`Teselada`) when it is read with the block that procesarHeap is cutting as it was
  (`Vista`, `Corte`). From that, `Inicios` of the properties is reached by induction on the steps.
* `Escribiendo`: a message that writes is one that `pide` may have sent at its stage (`EscriturasPide`: the join of two free
  blocks in a row, the header of a new page, both of a cut) or the mark of `libera` (`Marcas`), and there is one of each at most.
  The threads share the semaphore of the writings, and one may take the answer of the other: procesarHeap goes on
  before its join is written, liberarHeap before its mark is (`Marcando`). The join stays right meanwhile, since it needs
  both blocks to be free and only procesarHeap takes one.
* `Leyendo`: one thread reads at a time; what it reads, or has been read for it, is the header of its stage, with
  the size it has now, and free only if it still is (`Coincide`: it may have been freed since); and procesarHeap reads
  only behind its own writings (`FusionAntes`), because messages are served in order.
* `PideBien`, `LiberaBien`: each thread is at a block of a page of the heap; the one that is to be cut is free and has
  room for what is asked and a header (`BloqueBueno`). Nobody else cuts it while procesarHeap waits for the
  mutex or for Memoria, and freeing a neighbour does not touch it.
* `EnUsoBien`: the blocks that programs hold, and those that are being freed until the mark is written
  (`EnLiberacion`), are blocks of the tiling, marked as used with their size, no two of them at the same place.
* `Contado`: `disponible` of an entry, with what was cut and not yet subtracted (`Reservado`) and what was marked and not
  yet added (`PorSumar`), is at most the space of the free blocks. It is not equal: joining two blocks gives a header back and
  nobody counts it.

All of it is under `historia = {}`, where `fallo = "no"` is then proved and not assumed: each of the three events loses it.

`ListasLemas` holds induction on the natural numbers (from the well-foundedness of their order, for
a set rather than for a predicate, which is what the prover can be told), recursive functions on `0..n`,
what appending to, popping from, removing from and searching a list do to it and to its set, what queues of requests
and of messages are and how many of a kind they hold, and finite
sums: that what the folds of the community modules choose is one, and does not depend on the order.

### Only model-checked

* Liveness under fairness (`TodosTerminan`, `NadieSeEstanca`, `SiguenLosDemas`,
  `TodosRespondidos`, that every request to the heap is answered): beyond the prover.
* `Interrupciones`: `NadieDuplicado` and `SaleSinLlevarse`. They would need the stages of `LaCpu` with every kill and
  every signal between any two of them.
* `Cache` and the parts of `Memoria` that neither `Ejecucion` nor `Heap` uses.

## 5. What the code does not keep

Each of these is a run that TLC finds violated; `PROJECT.json` quotes the line of the
code that says otherwise.

1. `despacho_variables`: after `finalizar()` frees the PCB, the CPU's loop still does
   `programCounter++`. If the next PCB has arrived by then, its first instruction is
   skipped, and a variable that it defined is later not found.
2. `archivos_borrar`: opening a file that is open moves its entry to the end of
   `tablaArchivosGlobal`; positions held by processes then stand for other files, and a
   program deletes a file it never opened.
3. `filesystem_reinicio`: the FileSystem writes its bitmap anew when it starts and keeps
   its files: their blocks are given again.

Other behaviour the models reach, and their properties exclude by name:

* `carrera` (`Heap`): `procesarHeap` reads headers without `mutexMemoria`, so two
  readings may be outstanding; the threads share `metaDataLeida` and its semaphore, and
  each may take the other's header, or one already freed.
* `cruza` (`Heap`): `compactarPaginaHeap` reads the header after the last block of a
  page, that is, the beginning of the next frame, and joins both if they are free.
* `colision` (`Memoria`): `buscarFrameLibre` always returns frame 0, free or not; a page
  that collides replaces the one there. Page 0 of a process is never freed.
* `abortoPorFaltaDeMemoria` stays set after a refusal, and a later request that needs no
  page is refused. `tamanoDisponible` never gets back the headers that compacting
  recovers.
* `ilegal` (`Archivos`): a wrong descriptor or permission makes the Kernel use the number
  0 or 2 as an address. `pierde`: seeking with a wrong descriptor loses the process's
  table. `comparte`, `borra`: 2 above, and positions corrected twice. A write to a file
  that another program deleted is never answered, and the layer waits for ever.
* **Two CPUs and a semaphore** (`Planificacion`): a process that waits is queued on the
  semaphore while still in `colaExec` with its old PCB. A signal from another CPU that
  comes before its `SEBLOQUEOELPROCESO` moves it to `colaReady`: it is in two places and
  runs the same instructions again. When it ends in the second CPU, its first entry of `colaExec` has that
  CPU's socket, and is the one removed for the next program of that CPU, which stays there;
  if that CPU then leaves, the program it had is never heard of again.
* **Kills** (`Interrupciones`). `abortar()` announces the CPU of the last dispatch also for a
  process that is ready or blocked, so that a CPU in use may get a second program; killing a
  ready process leaves `semReady` too high, and the planner then drops idle CPUs
  (`SemaforosAlDia` is an inequality there). The kill of a blocked process leaves its entry in
  `colaProcesosBloqueados`, and a later wait of another process may be queued on an older
  semaphore. `ABORTOPORCONSOLA` names no program: if the program ended meanwhile, the next one
  of that CPU is killed. A program killed while it is blocking stays in the semaphore's queue
  and is woken dead. `ejecutar()` with an aborted process returns with `mutexColaEx` locked.
  `abortarProgramaPorConsola` loops for ever for a program that is in no queue: one that
  ended, or that has not entered `colaNew` yet, or is in the hands of a planner that waits.
* **CPUs that leave** (`Interrupciones`). A CPU that leaves as its program blocks sends
  `ABORTODESCONEXIONCPU`: the program ends and stays in the semaphore's queue.
  `DESTRUICPUSINPID` takes the CPU out of `colaCpu` and leaves `semCpu`: the planner later pops
  a process with no CPU for it, and drops it. Control-C with a PCB already in the socket loses that
  program. A program that finished and whose CPU must leave is serialised after it was freed. After its last
  instruction the CPU looks at `programaAbortado`, `Signal`, and both again with the quantum, one after the other: a signal or a
  kill that comes in between, at the end of a quantum, makes no branch apply. The PCB is neither sent nor freed,
  the CPU waits for another that it cannot take, and the process stays in `colaExec` for ever (`PierdeTurno`,
  `Muda`).
* **Admission** (`Admision`). `crearPCB`, in the script thread, uses the index of the main
  thread's loop: the code index of the program misses entries, or the main thread asks a
  socket that has nothing and waits, or charges a message to another socket (`cruzado`,
  `desviado`). The loop of `PROGRAMATERMINADO` sets the index back, and the main thread may then
  wait for a socket it has already read, as long as nothing comes by it: another console, or a CPU whose
  only message of that round is not one of those that end a program. Meanwhile nobody else is served:
  programs that CPUs gave back are not planned, and answers of Memoria are not given to the threads of the heap.
  If that CPU waits for one of those answers, the Kernel stops (`Despacho`, `Planificacion`, `Interrupciones`, `Heap`:
  `EsperaVacio` and `bloqueado`). There is one `unScript`: a second script replaces it
  while it is used, and its code is used after it was freed (`pisado`). `NOENTROPROCESO` does not
  post `semEntraElProceso`: the console and the script thread wait for ever (`rechazado`).
  `cantidadDeProcesos` may lose a change (`carrera`). With exactly `GRADO_MULTIPROG` programs the
  answer is `ABORTOEXPECIONDEMEMORIA`.
* **Execution** (`Ejecucion`). The page of a sentence that begins where a page does is the one
  before; a script that fills its last page loses it (the remainder is 0). The second argument of a
  call, the argument of a caller without variables, and the variables of a function called by one
  without them, make `proximaDireccion` dereference the NULL of `list_get`, and so does the use of an argument that was not given. A name that is not
  defined has no address: `obtenerPosicionVariable` ends without a `return`. `destruirContextoActual`
  leaves the context in `indiceStack`, so that a call after a return in the same quantum uses
  a freed one. `retornar` of a call that asked for no value writes where `retVar`, not
  initialised, says. An argument that overflows the stack is written in page 0.
* **Cache** (`Cache`). Writes do not reach it: what is read later of a page in it is old. `flush`
  takes no mutex, and leaves the counters. `remplazoLru` sorts entries that were never set, and
  copies the page after the end of the copies.

## 6. What is not modelled

* **Messages in pieces.** `Deserializar` takes what one `recv` gives for the whole. Messages are
  items of reliable FIFO sockets in every module; after a partial read the code promises nothing.
* **Closed sockets.** A write to a console or a CPU that left may end the Kernel by SIGPIPE;
  the models let it go on. In `Admision` nobody leaves, and the standard input is silent. In `Interrupciones`
  the index, moved back, may come again to a socket that was closed in the same round: in the code `recv` fails and
  `abortarElProgramaDeCpu` is called for it once more; in the model it is one more socket that has nothing.
* **What a CPU sends before its program ends**, in `Admision`. It has no `PORLASDUDAS` after it, so that a CPU
  that sent only that is one of the sockets the main thread may wait for; `Despacho` and those above it have
  such messages, and the waits. In turn, a message that is charged to another socket (`desviado`) is only in `Admision`.
* **Sizes over a byte**: of `TAMANO` Memoria reads one signed byte; the scripts are below it (`TamanoEnUnByte`).
* **Failures of the disk**: of `fopen` and `fwrite`, which the FileSystem does not look at.
* **The options of the Kernel's console** only print, or kill a program by its pid.
* **The cache after its first replacement**: nothing can be said of its contents.
  `CACHE_X_PROC=0`, as in two of the repository's configurations, turns it off.
* **The parser** of ANSISOP and `metadata_desde_literal` are libraries: which sentence uses which
  primitives, in which order, is taken from them.
* **Values**: of shared variables and file contents. The pointer of an open file.
* **A kill of a program that waits for the heap or for a file**: each is modelled without the
  other.
* **Serialisation, configuration files, logs, statistics, dumps**: copies and text. What the copy
  of a PCB drops is in `Ejecucion`.
* **The list of programs of a Consola** and its threads, which only print.

## 7. Plan

Done, in this order: `Despacho` with its proofs (the core everything else rests on),
`CicloDeVida`, `Semaforos`, `Planificacion`, `SistemaDeArchivos` and `Archivos`, `Memoria`
and `Heap`, `Cache` and `Ejecucion`, `Admision`, `Interrupciones`.

Theorems, in this order: `Despacho` and `CicloDeVida`, `SistemaDeArchivos` and the tables of `Archivos`,
`Semaforos` and its refinement, `NoRepite`, `Interrupciones`, `Admision`, `Ejecucion`: the stacks, the text, the values;
`Planificacion` with one CPU, `Heap`: the threads, the frames and the blocks; the loops over the sockets, and the
waits of `Admision`.

Next theorems:

1. `Interrupciones`: `SaleSinLlevarse`, from the stages of `LaCpu` while nobody is killed.
