------------------------------ MODULE Despacho ------------------------------
(***************************************************************************)
(* The dispatching of ANSISOP processes: the Kernel's queues, its long-term *)
(* and short-term planners, the handlers of the Kernel's main thread that   *)
(* take part in dispatching, and the two threads of every CPU.              *)
(*                                                                          *)
(* Threads.  In the Kernel: the script thread (EntraProceso), the long-term *)
(* planner (Plp...), the short-term planner (Pcp...), and the main thread,  *)
(* which runs one handler of procesar() at a time.  In each CPU: the thread *)
(* that receives from the Kernel (Recibe...) and the one that executes the  *)
(* program (the others).  A handler of the main thread is one step: the     *)
(* only thing another thread can see half done is that a queue has grown    *)
(* before the semaphore that announces it is posted, and nobody looks at a  *)
(* queue before taking its semaphore.                                       *)
(*                                                                          *)
(* The lists are used in part without their mutexes.  A step that walks or  *)
(* changes a list without its mutex while another thread is in its own      *)
(* critical section on that list may corrupt it: fallo becomes "carrera".   *)
(* A handler that does not find its process dereferences NULL: fallo        *)
(* becomes "nulo".  The Kernel does nothing after either.                   *)
(*                                                                          *)
(* Spec leaves the order in which the main thread reads the sockets open;   *)
(* SpecBucle adds its loop over them (Lee), which may wait for one that has *)
(* nothing while others do.  That a message may be charged to the wrong     *)
(* socket while crearPCB moves the index of that loop is in Admision only.  *)
(***************************************************************************)
EXTENDS Integers, Sequences, SequencesExt

CONSTANTS
  Procs,     \* the processes, by programId
  CPUs,      \* the CPUs, by the Kernel's socket
  Programa,  \* Programa[p]: the instructions of p, in order
  Quantum,   \* QUANTUM of the Kernel's configuration
  RR,        \* whether ALGORITMO is "RR" (else FIFO)
  Nadie,     \* NULL
  Basura     \* what malloc may leave in proceso->socketCPU

ASSUME NadieSupuesto == Nadie \notin Procs \cup CPUs
ASSUME CpusSupuesto  == CPUs \cap Procs = {}
ASSUME BasuraSupuesto == Basura \subseteq CPUs \cup {Nadie}
ASSUME QuantumSupuesto == Quantum \in Nat /\ RR \in BOOLEAN
ASSUME ProgramaSupuesto == \A p \in Procs : Len(Programa[p]) \in Nat

VARIABLES
  (* the Kernel *)
  porLlegar,                                        \* not accepted yet
  colaNew, colaReady, colaExec, colaExit, colaCpu,  \* its queues
  semNew, semReady, semCpu,                         \* its counting semaphores
  plp,                         \* the process the long-term planner holds
  pcPcp, pcpProc, pcpCpu,      \* the short-term planner and what it holds
  mutexColaEx,                 \* held across steps: "libre" or "pcp"
  socketCPU, pcb, abortado,    \* proceso->socketCPU, ->pcb, ->abortado
  fallo,                       \* "no", "nulo" or "carrera"
  (* the sockets *)
  aKernel, aCpu,
  (* each CPU *)
  unPid, unPc,                 \* unPcb->programId, unPcb->programCounter
  semHayScript, semDestruirPCB,
  fase,                        \* where its script thread is
  quantum_aux,
  programaFinalizado, programaAbortado, programaBloqueado, codigoAborto,
  leyendo,                     \* the loop of the main thread: see Lee
  (* history *)
  progreso                     \* instructions of p executed so far

colas    == <<colaNew, colaReady, colaExec, colaExit, colaCpu>>
planes   == <<plp, pcPcp, pcpProc, pcpCpu, mutexColaEx>>
procesos == <<socketCPU, pcb, abortado>>
kernel   == <<porLlegar, colas, semNew, semReady, semCpu, planes, procesos>>
banderas == <<programaFinalizado, programaAbortado, programaBloqueado,
              codigoAborto>>
carga    == <<unPid, unPc, semHayScript, semDestruirPCB>>
cpu      == <<carga, fase, quantum_aux, banderas>>
vars     == <<kernel, fallo, aKernel, aCpu, cpu, progreso>>

(***************************************************************************)
(* Messages.  Every one has the same fields; those that do not matter are   *)
(* Nadie and 0.  A PCB is its pid and its program counter.                  *)
(***************************************************************************)
Mensaje(tipo, pid, pc) == [tipo |-> tipo, pid |-> pid, pc |-> pc]
Aviso(tipo) == Mensaje(tipo, Nadie, 0)

Mensajes == [tipo : {"CPU", "PCB", "RESPUESTA", "AVISA", "PIDE", "PROGRAMATERMINADO",
                     "FINDEQUATUM", "SEBLOQUEOELPROCESO", "ABORTO", "ABORTOPORCONSOLA"},
             pid : Procs \cup {Nadie}, pc : Nat]

Mandar(canal, c, m)  == [canal EXCEPT ![c] = Append(@, m)]
Sacar(canal, c)      == [canal EXCEPT ![c] = Tail(@)]
Llega(canal, c, tipo) == canal[c] # <<>> /\ Head(canal[c]).tipo = tipo

Init ==
  /\ porLlegar = Procs
  /\ colaNew = <<>> /\ colaReady = <<>> /\ colaExec = <<>>
  /\ colaExit = <<>> /\ colaCpu = <<>>
  /\ semNew = 0 /\ semReady = 0 /\ semCpu = 0
  /\ plp = Nadie /\ pcPcp = "espera_ready" /\ pcpProc = Nadie /\ pcpCpu = Nadie
  /\ mutexColaEx = "libre"
  /\ socketCPU \in [Procs -> Basura]   \* not initialised
  /\ pcb = [p \in Procs |-> 0]
  /\ abortado = [p \in Procs |-> FALSE]
  /\ fallo = "no"
  /\ aKernel = [c \in CPUs |-> <<Aviso("CPU")>>]
  /\ aCpu = [c \in CPUs |-> <<>>]
  /\ unPid = [c \in CPUs |-> Nadie] /\ unPc = [c \in CPUs |-> 0]
  /\ semHayScript = [c \in CPUs |-> 0]
  /\ semDestruirPCB = [c \in CPUs |-> 1]
  /\ fase = [c \in CPUs |-> "espera"]
  /\ quantum_aux = [c \in CPUs |-> 0]
  /\ programaFinalizado = [c \in CPUs |-> FALSE]
  /\ programaAbortado = [c \in CPUs |-> FALSE]
  /\ programaBloqueado = [c \in CPUs |-> FALSE]
  /\ codigoAborto = [c \in CPUs |-> "ABORTO"]
  /\ progreso = [p \in Procs |-> 0]
-----------------------------------------------------------------------------
(* The script thread and the long-term planner. *)

\* procesarScript accepts p: it pushes it on colaNew and posts semNew.
EntraProceso(p) ==
  /\ p \in porLlegar
  /\ porLlegar' = porLlegar \ {p}
  /\ colaNew' = Append(colaNew, p)
  /\ semNew' = semNew + 1
  /\ UNCHANGED <<colaReady, colaExec, colaExit, colaCpu, semReady, semCpu,
                 planes, procesos, fallo, aKernel, aCpu, cpu, progreso>>

\* Mutant: queue_peek for queue_pop.
RestoSinSacar(q) == q

\* queue_pop, which is NULL when the queue is empty.
Primero(q) == IF q = <<>> THEN Nadie ELSE Head(q)
Resto(q)   == IF q = <<>> THEN <<>> ELSE Tail(q)

\* sem_wait(semNew) and the pop of colaNew.
PlpSaca ==
  /\ plp = Nadie
  /\ semNew > 0
  /\ semNew' = semNew - 1
  /\ plp' = Primero(colaNew) /\ colaNew' = Resto(colaNew)
  /\ fallo' = IF colaNew = <<>> THEN "nulo" ELSE fallo   \* it logs its pid
  /\ UNCHANGED <<porLlegar, colaReady, colaExec, colaExit, colaCpu, semReady,
                 semCpu, pcPcp, pcpProc, pcpCpu, mutexColaEx, procesos,
                 aKernel, aCpu, cpu, progreso>>

\* Mutant: no sem_post(semReady).
PlpEncolaSinPost ==
  /\ plp # Nadie
  /\ colaReady' = Append(colaReady, plp)
  /\ plp' = Nadie
  /\ UNCHANGED <<porLlegar, colaNew, colaExec, colaExit, colaCpu, semNew,
                 semReady, semCpu, pcPcp, pcpProc, pcpCpu, mutexColaEx, procesos,
                 fallo, aKernel, aCpu, cpu, progreso>>

\* The push on colaReady and the post of semReady.
PlpEncola ==
  /\ plp # Nadie
  /\ colaReady' = Append(colaReady, plp)
  /\ semReady' = semReady + 1
  /\ plp' = Nadie
  /\ UNCHANGED <<porLlegar, colaNew, colaExec, colaExit, colaCpu, semNew,
                 semCpu, pcPcp, pcpProc, pcpCpu, mutexColaEx, procesos, fallo,
                 aKernel, aCpu, cpu, progreso>>
-----------------------------------------------------------------------------
(* The short-term planner: sem_wait(semReady), sem_wait(semCpu), the two    *)
(* pops, and ejecutar().                                                    *)

\* Mutant: no sem_wait(semReady).
PcpNoEsperaReady ==
  /\ pcPcp = "espera_ready"
  /\ pcPcp' = "espera_cpu"
  /\ UNCHANGED <<porLlegar, colas, semNew, semReady, semCpu, plp, pcpProc,
                 pcpCpu, mutexColaEx, procesos, fallo, aKernel, aCpu, cpu, progreso>>

PcpEsperaReady ==
  /\ pcPcp = "espera_ready"
  /\ semReady > 0
  /\ semReady' = semReady - 1
  /\ pcPcp' = "espera_cpu"
  /\ UNCHANGED <<porLlegar, colas, semNew, semCpu, plp, pcpProc, pcpCpu,
                 mutexColaEx, procesos, fallo, aKernel, aCpu, cpu, progreso>>

PcpEsperaCpu ==
  /\ pcPcp = "espera_cpu"
  /\ semCpu > 0
  /\ semCpu' = semCpu - 1
  /\ pcPcp' = "saca"
  /\ UNCHANGED <<porLlegar, colas, semNew, semReady, plp, pcpProc, pcpCpu,
                 mutexColaEx, procesos, fallo, aKernel, aCpu, cpu, progreso>>

\* When either pop is NULL, semReady is posted again and what the other pop
\* took is dropped.
PcpSaca ==
  /\ pcPcp = "saca"
  /\ colaCpu' = Resto(colaCpu) /\ colaReady' = Resto(colaReady)
  /\ \/ /\ Primero(colaCpu) # Nadie /\ Primero(colaReady) # Nadie
        /\ pcpProc' = Primero(colaReady) /\ pcpCpu' = Primero(colaCpu)
        /\ socketCPU' = [socketCPU EXCEPT ![pcpProc'] = pcpCpu']
        /\ pcPcp' = "ejecutar"
        /\ UNCHANGED semReady
     \/ /\ Primero(colaCpu) = Nadie \/ Primero(colaReady) = Nadie
        /\ semReady' = semReady + 1
        /\ pcPcp' = "espera_ready"
        /\ UNCHANGED <<pcpProc, pcpCpu, socketCPU>>
  /\ UNCHANGED <<porLlegar, colaNew, colaExec, colaExit, semNew, semCpu, plp,
                 mutexColaEx, pcb, abortado, fallo, aKernel, aCpu, cpu, progreso>>

\* ejecutar() locks mutexColaEx.
PcpTomaMutex ==
  /\ pcPcp = "ejecutar"
  /\ mutexColaEx = "libre"
  /\ mutexColaEx' = "pcp"
  /\ pcPcp' = "encola"
  /\ UNCHANGED <<porLlegar, colas, semNew, semReady, semCpu, plp, pcpProc,
                 pcpCpu, procesos, fallo, aKernel, aCpu, cpu, progreso>>

\* Mutant: no sem_post(semCpu).
AbortarSinPost(p, codigo) ==
  /\ colaCpu' = Append(colaCpu, socketCPU[p])
  /\ colaExit' = Append(colaExit, p)
  /\ UNCHANGED semCpu

\* abortar(proceso, codigo): gives back the CPU of the last dispatch, unless
\* that CPU is the one that was lost, and moves the process to colaExit.
Abortar(p, codigo) ==
  /\ IF codigo = "codeDesconexionCpu"
     THEN UNCHANGED <<colaCpu, semCpu>>
     ELSE colaCpu' = Append(colaCpu, socketCPU[p]) /\ semCpu' = semCpu + 1
  /\ colaExit' = Append(colaExit, p)

\* The rest of ejecutar().  The branch of an aborted process neither takes it
\* off colaExec nor unlocks mutexColaEx.
PcpEncola ==
  /\ pcPcp = "encola"
  /\ colaExec' = Append(colaExec, pcpProc)
  /\ \/ /\ ~abortado[pcpProc]
        /\ aCpu' = Mandar(aCpu, pcpCpu, Mensaje("PCB", pcpProc, pcb[pcpProc]))
        /\ mutexColaEx' = "libre"
        /\ UNCHANGED <<colaCpu, semCpu, colaExit>>
     \/ /\ abortado[pcpProc]
        /\ Abortar(pcpProc, "codeFinalizarPrograma")
        /\ UNCHANGED <<aCpu, mutexColaEx>>
  /\ pcPcp' = "espera_ready" /\ pcpProc' = Nadie /\ pcpCpu' = Nadie
  /\ UNCHANGED <<porLlegar, colaNew, colaReady, semNew, semReady, plp, procesos,
                 fallo, aKernel, cpu, progreso>>
-----------------------------------------------------------------------------
(* The handlers of procesar(), the Kernel's main thread.                    *)

\* Mutants: the first process of colaExec; always by the pid of the message.
EsDeCualquiera(m, c, p) == TRUE
EsDePorPid(m, c, p) == p = m.pid

\* The place in colaExec of the process a handler takes off it, 0 when there is
\* none: sacarProcesoDeEjecucionPorPid when the message brings a PCB, else
\* sacarProcesoDeEjecucion, by the socket of the last dispatch.
ConPcb == {"FINDEQUATUM", "SEBLOQUEOELPROCESO", "ABORTO"}
EsDe(m, c, p) == IF m.tipo \in ConPcb THEN p = m.pid ELSE socketCPU[p] = c
Remitente(c) == SelectInSeq(colaExec, LAMBDA p : EsDe(Head(aKernel[c]), c, p))

\* The handler of the first message of c takes its process off colaExec.
SacaProceso(c, p) ==
  /\ Remitente(c) # 0
  /\ p = colaExec[Remitente(c)]
  /\ aKernel' = Sacar(aKernel, c)

\* CPU: a CPU is available from the moment it connects.
ConectaCpu(c) ==
  /\ Llega(aKernel, c, "CPU")
  /\ aKernel' = Sacar(aKernel, c)
  /\ colaCpu' = Append(colaCpu, c)
  /\ semCpu' = semCpu + 1
  /\ UNCHANGED <<porLlegar, colaNew, colaReady, colaExec, colaExit, semNew,
                 semReady, planes, procesos, fallo, aCpu, cpu, progreso>>

\* IMPRIMIRPROCESO and ASIGNOVALORVARIABLECOMPARTIDA ("AVISA": no answer) and
\* VALORVARIABLECOMPARTIDA ("PIDE": an answer): take the process that runs on
\* that CPU off colaExec and push it again at the end.
Syscall(c) ==
  /\ Llega(aKernel, c, "AVISA") \/ Llega(aKernel, c, "PIDE")
  /\ mutexColaEx = "libre"
  /\ \E p \in Procs :
       /\ SacaProceso(c, p)
       /\ colaExec' = Append(RemoveAt(colaExec, Remitente(c)), p)
  /\ aCpu' = IF Llega(aKernel, c, "PIDE") THEN Mandar(aCpu, c, Aviso("RESPUESTA"))
                                          ELSE aCpu
  /\ UNCHANGED <<porLlegar, colaNew, colaReady, colaExit, colaCpu, semNew,
                 semReady, semCpu, planes, procesos, fallo, cpu, progreso>>

\* PROGRAMATERMINADO.
ProgramaTerminado(c) ==
  /\ Llega(aKernel, c, "PROGRAMATERMINADO")
  /\ mutexColaEx = "libre"
  /\ \E p \in Procs :
       /\ SacaProceso(c, p)
       /\ colaExec' = RemoveAt(colaExec, Remitente(c))
       /\ colaExit' = Append(colaExit, p)
  /\ colaCpu' = Append(colaCpu, c)
  /\ semCpu' = semCpu + 1
  /\ UNCHANGED <<porLlegar, colaNew, colaReady, semNew, semReady, planes,
                 procesos, fallo, aCpu, cpu, progreso>>

\* FINDEQUATUM: back to colaReady with the PCB received; abortado is not read.
FinDeQuantum(c) ==
  /\ Llega(aKernel, c, "FINDEQUATUM")
  /\ \E p \in Procs :
       /\ SacaProceso(c, p)
       /\ colaExec' = RemoveAt(colaExec, Remitente(c))
       /\ pcb' = [pcb EXCEPT ![p] = Head(aKernel[c]).pc]
       /\ colaReady' = Append(colaReady, p)
  /\ semReady' = semReady + 1
  /\ colaCpu' = Append(colaCpu, c)
  /\ semCpu' = semCpu + 1
  /\ UNCHANGED <<porLlegar, colaNew, colaExit, semNew, planes, socketCPU,
                 abortado, fallo, aCpu, cpu, progreso>>

\* ABORTOSTACKOVERFLOW, ABORTOEXPECIONDEMEMORIA, ABORTOLEERSINPERMISOS...: the
\* CPU stopped the program and says why.
AbortoDeCpu(c) ==
  /\ Llega(aKernel, c, "ABORTO")
  /\ \E p \in Procs :
       /\ SacaProceso(c, p)
       /\ colaExec' = RemoveAt(colaExec, Remitente(c))
       /\ pcb' = [pcb EXCEPT ![p] = Head(aKernel[c]).pc]
       /\ Abortar(p, "codeStackOverflow")
  /\ UNCHANGED <<porLlegar, colaNew, colaReady, semNew, semReady, planes,
                 socketCPU, abortado, fallo, aCpu, cpu, progreso>>

Rompe(f) == fallo' = f /\ UNCHANGED <<kernel, aKernel, aCpu, cpu, progreso>>

\* The messages whose handlers lock mutexColaEx to look for the process.
ConMutex == {"AVISA", "PIDE", "PROGRAMATERMINADO", "SEBLOQUEOELPROCESO",
             "PROCESOWAIT", "PROCESOSIGNAL", "ABORTOPORCONSOLA"}

\* A handler that does not find its process uses the NULL it got.
SinProceso(c) ==
  /\ aKernel[c] # <<>> /\ Head(aKernel[c]).tipo # "CPU"
  /\ Head(aKernel[c]).tipo \in ConMutex => mutexColaEx = "libre"
  /\ Remitente(c) = 0
  /\ Rompe("nulo")

\* FINDEQUATUM and the aborts walk and change colaExec without mutexColaEx, and
\* the aborts push on colaCpu without mutexColaCpu, while the short-term
\* planner is in ejecutar() or pops colaCpu.
Corrompe(c) ==
  /\ \/ Llega(aKernel, c, "FINDEQUATUM") /\ pcPcp = "encola"
     \/ Llega(aKernel, c, "ABORTO") /\ pcPcp \in {"encola", "saca"}
  /\ Rompe("carrera")
-----------------------------------------------------------------------------
(* A CPU.  Its receiving thread.                                            *)

\* PCB: sem_wait(semDestruirPCB), then unPcb is the one received.
RecibePcb(c) ==
  /\ Llega(aCpu, c, "PCB")
  /\ semDestruirPCB[c] > 0
  /\ semDestruirPCB' = [semDestruirPCB EXCEPT ![c] = @ - 1]
  /\ unPid' = [unPid EXCEPT ![c] = Head(aCpu[c]).pid]
  /\ unPc' = [unPc EXCEPT ![c] = Head(aCpu[c]).pc]
  /\ semHayScript' = [semHayScript EXCEPT ![c] = @ + 1]
  /\ aCpu' = Sacar(aCpu, c)
  /\ UNCHANGED <<kernel, fallo, aKernel, fase, quantum_aux, banderas, progreso>>

\* Mutant: no programCounter++.
AvanzaSinContar(c) ==
  /\ quantum_aux' = [quantum_aux EXCEPT ![c] = @ - 1]
  /\ fase' = [fase EXCEPT ![c] = "ciclo"]
  /\ UNCHANGED unPc

\* The end of one instruction: programCounter++, quantum_aux--.  unPc[c] stays
\* as it is when unPcb was freed: nothing reads the freed field.
Avanza(c) ==
  /\ unPc' = IF unPid[c] = Nadie THEN unPc ELSE [unPc EXCEPT ![c] = @ + 1]
  /\ quantum_aux' = [quantum_aux EXCEPT ![c] = @ - 1]
  /\ fase' = [fase EXCEPT ![c] = "ciclo"]

\* VALORVARIABLECOMPARTIDA and the other answers: the receiving thread posts
\* the semaphore on which the script thread waits within its instruction.
RecibeRespuesta(c) ==
  /\ Llega(aCpu, c, "RESPUESTA")
  /\ fase[c] = "respuesta"
  /\ aCpu' = Sacar(aCpu, c)
  /\ Avanza(c)
  /\ UNCHANGED <<kernel, fallo, aKernel, unPid, semHayScript, semDestruirPCB,
                 banderas, progreso>>
-----------------------------------------------------------------------------
(* Its script thread: procesarScript of the CPU.                            *)

\* sem_wait(semHayScript) and the reset of the flags and of the quantum.
Arranca(c) ==
  /\ fase[c] = "espera"
  /\ semHayScript[c] > 0
  /\ semHayScript' = [semHayScript EXCEPT ![c] = @ - 1]
  /\ programaFinalizado' = [programaFinalizado EXCEPT ![c] = FALSE]
  /\ programaAbortado' = [programaAbortado EXCEPT ![c] = FALSE]
  /\ programaBloqueado' = [programaBloqueado EXCEPT ![c] = FALSE]
  /\ quantum_aux' = [quantum_aux EXCEPT ![c] = Quantum]
  /\ fase' = [fase EXCEPT ![c] = "ciclo"]
  /\ UNCHANGED <<kernel, fallo, aKernel, aCpu, unPid, unPc, semDestruirPCB,
                 codigoAborto, progreso>>

\* The condition of the loop; validarQuantum is always true under FIFO.
Sigue(c) ==
  /\ RR => quantum_aux[c] # 0
  /\ ~programaBloqueado[c] /\ ~programaFinalizado[c] /\ ~programaAbortado[c]

\* The next instruction of the loop is of the given kind.
Toca(c, op) ==
  /\ fase[c] = "ciclo"
  /\ Sigue(c)
  /\ unPid[c] \in Procs
  /\ unPc[c] < Len(Programa[unPid[c]])
  /\ Programa[unPid[c]][unPc[c] + 1].op = op

Ejecutada(c) == progreso' = [progreso EXCEPT ![unPid[c]] = unPc[c] + 1]

\* The primitives that ask nothing of the Kernel: definirVariable, and those
\* that use variables.
Local(c) ==
  /\ Toca(c, "define") \/ Toca(c, "usa")
  /\ Avanza(c) /\ Ejecutada(c)
  /\ UNCHANGED <<kernel, fallo, aKernel, aCpu, unPid, semHayScript,
                 semDestruirPCB, banderas>>

\* escribir on the console, asignarValorCompartida: a message, no answer.
Avisa(c) ==
  /\ Toca(c, "avisa")
  /\ aKernel' = Mandar(aKernel, c, Aviso("AVISA"))
  /\ Avanza(c) /\ Ejecutada(c)
  /\ UNCHANGED <<kernel, fallo, aCpu, unPid, semHayScript, semDestruirPCB,
                 banderas>>

\* obtenerValorCompartida and the primitives that wait for the Kernel.
Pide(c) ==
  /\ Toca(c, "pide")
  /\ aKernel' = Mandar(aKernel, c, Aviso("PIDE"))
  /\ fase' = [fase EXCEPT ![c] = "respuesta"]
  /\ Ejecutada(c)
  /\ UNCHANGED <<kernel, fallo, aCpu, carga, quantum_aux, banderas>>

\* A primitive that stops the program: a stack overflow in proximaDireccion.
Falla(c) ==
  /\ Toca(c, "falla")
  /\ programaAbortado' = [programaAbortado EXCEPT ![c] = TRUE]
  /\ codigoAborto' = [codigoAborto EXCEPT ![c] = "ABORTO"]
  /\ Avanza(c) /\ Ejecutada(c)
  /\ UNCHANGED <<kernel, fallo, aKernel, aCpu, unPid, semHayScript,
                 semDestruirPCB, programaFinalizado, programaBloqueado>>

\* finalizar() of the last context: the message, destruirPCB and the post.
Finalizar(c) ==
  /\ Toca(c, "fin")
  /\ aKernel' = Mandar(aKernel, c, Aviso("PROGRAMATERMINADO"))
  /\ programaFinalizado' = [programaFinalizado EXCEPT ![c] = TRUE]
  /\ unPid' = [unPid EXCEPT ![c] = Nadie]
  /\ semDestruirPCB' = [semDestruirPCB EXCEPT ![c] = @ + 1]
  /\ fase' = [fase EXCEPT ![c] = "tras_fin"]
  /\ Ejecutada(c)
  /\ UNCHANGED <<kernel, fallo, aCpu, unPc, semHayScript, quantum_aux,
                 programaAbortado, programaBloqueado, codigoAborto>>

\* Back in the loop after finalizar(): programCounter++ on whatever PCB unPcb
\* points to by then, be it the next process's.
TrasFin(c) ==
  /\ fase[c] = "tras_fin"
  /\ Avanza(c)
  /\ UNCHANGED <<kernel, fallo, aKernel, aCpu, unPid, semHayScript,
                 semDestruirPCB, banderas, progreso>>

\* An index past the end of indiceCodigo: what is read is not an instruction.
FueraDeIndice(c) ==
  /\ fase[c] = "ciclo"
  /\ Sigue(c)
  /\ unPid[c] \in Procs
  /\ unPc[c] >= Len(Programa[unPid[c]])
  /\ fase' = [fase EXCEPT ![c] = "rota"]
  /\ UNCHANGED <<kernel, fallo, aKernel, aCpu, carga, quantum_aux, banderas,
                 progreso>>

\* Mutant: no sem_post(semDestruirPCB).
DevuelveSinPost(c, tipo) ==
  /\ aKernel' = Mandar(aKernel, c, Mensaje(tipo, unPid[c], unPc[c]))
  /\ unPid' = [unPid EXCEPT ![c] = Nadie]
  /\ UNCHANGED semDestruirPCB

\* destruirPCB(unPcb) after sending it, and the post of semDestruirPCB.
Devuelve(c, tipo) ==
  /\ aKernel' = Mandar(aKernel, c, Mensaje(tipo, unPid[c], unPc[c]))
  /\ unPid' = [unPid EXCEPT ![c] = Nadie]
  /\ semDestruirPCB' = [semDestruirPCB EXCEPT ![c] = @ + 1]

\* The end of the loop: the first of the branches that applies.
Termina(c) ==
  /\ fase[c] = "ciclo"
  /\ ~Sigue(c)
  /\ fase' = [fase EXCEPT ![c] = "espera"]
  /\ \/ /\ programaAbortado[c] /\ unPid[c] # Nadie
        /\ Devuelve(c, codigoAborto[c])
     \/ /\ ~programaAbortado[c] /\ programaBloqueado[c]
        /\ Devuelve(c, "SEBLOQUEOELPROCESO")
     \/ /\ RR /\ quantum_aux[c] = 0
        /\ ~programaAbortado[c] /\ ~programaBloqueado[c] /\ ~programaFinalizado[c]
        /\ Devuelve(c, "FINDEQUATUM")
     \/ /\ programaFinalizado[c] /\ ~programaAbortado[c] /\ ~programaBloqueado[c]
        /\ UNCHANGED <<aKernel, unPid, semDestruirPCB>>
  /\ UNCHANGED <<kernel, fallo, aCpu, unPc, semHayScript, quantum_aux, banderas,
                 progreso>>
-----------------------------------------------------------------------------
PLP == PlpSaca \/ PlpEncola

PCP == PcpEsperaReady \/ PcpEsperaCpu \/ PcpSaca \/ PcpTomaMutex \/ PcpEncola

Atiende(c) ==
  \/ ConectaCpu(c) \/ Syscall(c) \/ ProgramaTerminado(c)
  \/ FinDeQuantum(c) \/ AbortoDeCpu(c) \/ SinProceso(c) \/ Corrompe(c)

Receptor(c) == RecibePcb(c) \/ RecibeRespuesta(c)

HiloScript(c) ==
  \/ Arranca(c) \/ Local(c) \/ Avisa(c) \/ Pide(c) \/ Falla(c) \/ Finalizar(c)
  \/ TrasFin(c) \/ FueraDeIndice(c) \/ Termina(c)

Next ==
  /\ fallo = "no"
  /\ \/ \E p \in Procs : EntraProceso(p)
     \/ PLP
     \/ PCP
     \/ \E c \in CPUs : Atiende(c) \/ Receptor(c) \/ HiloScript(c)

Spec == Init /\ [][Next]_vars

-----------------------------------------------------------------------------
(* The main thread goes in rounds over the sockets that select() reported.   *)
(* The index of that loop is a global, that two other loops leave where they *)
(* end: the one of PROGRAMATERMINADO that frees the program's pages, and the *)
(* one of crearPCB, in the script thread.  The round may then go again over  *)
(* sockets already read, and Deserializar() waits for the one it comes to,   *)
(* whether or not it has something.  leyendo is that socket, "otros" if it   *)
(* is a console's, Memoria's or the FileSystem's; it is Nadie when the round *)
(* goes on with sockets that do have something.                              *)

\* Deserializar() of s, and what the round comes to after its handler, which
\* moves the index or not.  s itself does not make it wait: three PORLASDUDAS
\* follow PROGRAMATERMINADO, and they are left out of the sockets.
Lee(s, mueve) ==
  /\ leyendo \in {Nadie, s}
  /\ leyendo' \in IF mueve \/ leyendo = s THEN {Nadie, "otros"} \cup (CPUs \ {s})
                                          ELSE {Nadie}

LeeCpu(c) == Lee(c, Llega(aKernel, c, "PROGRAMATERMINADO"))

\* crearPCB, in the step in which its program enters.
MueveIndice ==
  IF leyendo = Nadie THEN leyendo' \in {Nadie, "otros"} \cup CPUs ELSE UNCHANGED leyendo

\* A message of somebody else comes.
LeeOtros == leyendo = "otros" /\ Lee("otros", FALSE)

\* The main thread waits for a socket that has nothing.
EsperaVacio == leyendo = "otros" \/ (leyendo \in CPUs /\ aKernel[leyendo] = <<>>)

bucle == <<vars, leyendo>>

InitBucle == Init /\ leyendo = Nadie

NextBucle ==
  /\ fallo = "no"
  /\ \/ (\E p \in Procs : EntraProceso(p)) /\ MueveIndice
     \/ (PLP \/ PCP) /\ UNCHANGED leyendo
     \/ \E c \in CPUs : \/ Atiende(c) /\ LeeCpu(c)
                        \/ (Receptor(c) \/ HiloScript(c)) /\ UNCHANGED leyendo
     \/ LeeOtros /\ UNCHANGED vars

SpecBucle == InitBucle /\ [][NextBucle]_bucle

(* Every thread that can go on does: the threads are the operating system's, *)
(* and a round comes to every socket that has something, unless it waits for *)
(* another.  Nothing makes a program arrive, nor somebody else send.         *)
Equidad ==
  /\ WF_bucle(fallo = "no" /\ PLP /\ UNCHANGED leyendo)
  /\ WF_bucle(fallo = "no" /\ PCP /\ UNCHANGED leyendo)
  /\ \A c \in CPUs :
       /\ WF_bucle(fallo = "no" /\ Atiende(c) /\ LeeCpu(c))
       /\ WF_bucle(fallo = "no" /\ Receptor(c) /\ UNCHANGED leyendo)
       /\ WF_bucle(fallo = "no" /\ HiloScript(c) /\ UNCHANGED leyendo)

SpecJusta == SpecBucle /\ Equidad
-----------------------------------------------------------------------------
(* Properties.                                                              *)

Tipos ==
  /\ porLlegar \subseteq Procs
  /\ colaNew \in Seq(Procs) /\ colaReady \in Seq(Procs)
  /\ colaExec \in Seq(Procs) /\ colaExit \in Seq(Procs)
  /\ colaCpu \in Seq(CPUs)
  /\ semNew \in Nat /\ semReady \in Nat /\ semCpu \in Nat
  /\ plp \in Procs \cup {Nadie}
  /\ pcPcp \in {"espera_ready", "espera_cpu", "saca", "ejecutar", "encola"}
  /\ pcpProc \in Procs \cup {Nadie} /\ pcpCpu \in CPUs \cup {Nadie}
  /\ mutexColaEx \in {"libre", "pcp"}
  /\ socketCPU \in [Procs -> CPUs \cup {Nadie}]
  /\ pcb \in [Procs -> Nat] /\ abortado \in [Procs -> BOOLEAN]
  /\ fallo \in {"no", "nulo", "carrera"}
  /\ aKernel \in [CPUs -> Seq(Mensajes)] /\ aCpu \in [CPUs -> Seq(Mensajes)]
  /\ unPid \in [CPUs -> Procs \cup {Nadie}] /\ unPc \in [CPUs -> Nat]
  /\ semHayScript \in [CPUs -> Nat] /\ semDestruirPCB \in [CPUs -> Nat]
  /\ fase \in [CPUs -> {"espera", "ciclo", "respuesta", "tras_fin", "rota"}]
  /\ quantum_aux \in [CPUs -> Int]
  /\ programaFinalizado \in [CPUs -> BOOLEAN]
  /\ programaAbortado \in [CPUs -> BOOLEAN]
  /\ programaBloqueado \in [CPUs -> BOOLEAN]
  /\ codigoAborto \in [CPUs -> {"ABORTO", "ABORTOPORCONSOLA"}]
  /\ progreso \in [Procs -> Nat]

EnMano(x)  == {x} \ {Nadie}
Ocupadas   == {socketCPU[p] : p \in ToSet(colaExec)}
SinAtender == {c \in CPUs : Llega(aKernel, c, "CPU")}

\* Every process is in exactly one place, once: not arrived, in one of the
\* four queues, or in the hands of one planner.  The Kernel neither loses a
\* process nor runs it twice, whatever the planners, the handlers and the CPUs
\* interleave.
UnSoloLugar ==
  LET New   == ToSet(colaNew)     Plp  == EnMano(plp)
      Ready == ToSet(colaReady)   Pcp  == EnMano(pcpProc)
      Exec  == ToSet(colaExec)    Exit == ToSet(colaExit)
  IN  /\ IsInjective(colaNew) /\ IsInjective(colaReady)
      /\ IsInjective(colaExec) /\ IsInjective(colaExit)
      /\ porLlegar \cap (New \cup Plp \cup Ready \cup Pcp \cup Exec \cup Exit) = {}
      /\ New \cap (Plp \cup Ready \cup Pcp \cup Exec \cup Exit) = {}
      /\ Plp \cap (Ready \cup Pcp \cup Exec \cup Exit) = {}
      /\ Ready \cap (Pcp \cup Exec \cup Exit) = {}
      /\ Pcp \cap (Exec \cup Exit) = {}
      /\ Exec \cap Exit = {}
      /\ Procs = porLlegar \cup New \cup Plp \cup Ready \cup Pcp \cup Exec \cup Exit

\* Every CPU is in exactly one place: its connection not attended, idle in
\* colaCpu, held by the short-term planner, or running one process only.  No
\* CPU is lost and none is given two processes.
CpuEnUnLugar ==
  LET Idle == ToSet(colaCpu)   Pcp == EnMano(pcpCpu)
  IN  /\ IsInjective(colaCpu)
      /\ \A p, q \in ToSet(colaExec) : socketCPU[p] = socketCPU[q] => p = q
      /\ SinAtender \cap (Idle \cup Pcp \cup Ocupadas) = {}
      /\ Idle \cap (Pcp \cup Ocupadas) = {}
      /\ Pcp \cap Ocupadas = {}
      /\ CPUs = SinAtender \cup Idle \cup Pcp \cup Ocupadas

\* When the short-term planner has both semaphores, both queues have an
\* element: the branch of planificadorCortoPlazo that finds a NULL, and drops
\* the CPU or the process the other pop took, is never taken.
NadaSeDescarta == pcPcp = "saca" => colaCpu # <<>> /\ colaReady # <<>>

\* No handler fails to find its process: the NULL that sacarProcesoDeEjecucion
\* can return is dereferenced by every handler.
SinNulo == fallo # "nulo"

\* A message of a CPU is charged to the process that sent it: while messages
\* of c are in its socket and c has a PCB, the process the handlers take for
\* the sender (the one of colaExec with that socketCPU) is the PCB's.
MensajeDelQueEjecuta ==
  \A c \in CPUs : aKernel[c] # <<>> /\ unPid[c] # Nadie =>
    \A p \in ToSet(colaExec) : socketCPU[p] = c => unPid[c] = p

\* No instruction is executed twice: a PCB about to be executed, in a CPU, in
\* a socket or in the Kernel, is never older than what was executed.
NoRepite ==
  /\ \A c \in CPUs : fase[c] = "ciclo" /\ Sigue(c) => unPc[c] >= progreso[unPid[c]]
  /\ \A p \in ToSet(colaReady) : pcb[p] >= progreso[p]

\* obtenerPosicionVariable finds the variable it is asked for: when a program
\* uses its variables, the instructions before that define them were executed.
NoDeberiaLlegarAca ==
  \A c \in CPUs : Toca(c, "usa") =>
    \A k \in 1..unPc[c] :
      Programa[unPid[c]][k].op = "define" => k <= progreso[unPid[c]]

(* The refinement mapping to CicloDeVida: what a planner holds is still       *)
(* where it was taken from.                                                   *)
EnManoSeq(x) == IF x = Nadie THEN <<>> ELSE <<x>>
Nuevos == EnManoSeq(plp) \o colaNew
Listos == EnManoSeq(pcpProc) \o colaReady
Corre  == [p \in Procs |-> IF p \in ToSet(colaExec) THEN socketCPU[p] ELSE Nadie]

Ciclo == INSTANCE CicloDeVida WITH
  afuera <- porLlegar, nuevos <- Nuevos, listos <- Listos, corre <- Corre,
  terminados <- ToSet(colaExit)

\* The Kernel keeps the promises of CicloDeVida: first accepted, first ready;
\* first ready, first to get a CPU; one program per CPU; nobody stops running
\* but to be ready again or to end.
CumpleCiclo == Ciclo!Spec

\* Every program that was accepted ends, in colaExit, unless the build's
\* behaviour became undefined (a corrupted list, or a CPU that reads past the
\* end of the code index) or the main thread waits for ever for a socket that
\* has nothing, because its index was moved back.
Indefinido == fallo # "no" \/ \E c \in CPUs : fase[c] = "rota"
TodosTerminan ==
  \A p \in Procs : p \notin porLlegar ~>
    p \in ToSet(colaExit) \/ Indefinido \/ []EsperaVacio
=============================================================================
