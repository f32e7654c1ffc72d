--------------------------- MODULE Interrupciones ---------------------------
(***************************************************************************)
(* What interrupts the planning (Planificacion): a console kills a         *)
(* program, a console leaves and all its programs are killed, a CPU leaves *)
(* because it got SIGUSR1 or control-C.                                    *)
(*                                                                         *)
(* abortarProgramaPorConsola runs in the Kernel's main thread and looks    *)
(* for the process in colaReady, colaExec and the semaphores' queues,      *)
(* again and again, until it finds it; meanwhile no message is handled.  A *)
(* process that runs is only marked, and its CPU asked to stop.            *)
(*                                                                         *)
(* A CPU that leaves gives back its process (ABORTODESCONEXIONCPU) or,     *)
(* when it executes none, says so (DESTRUICPUSINPID).  After what it sent, *)
(* the Kernel reads the end of its socket: "CERRADO", or "CORTADO" when    *)
(* the CPU left something unread and the connection is reset.              *)
(***************************************************************************)
EXTENDS Planificacion

CONSTANTS
  Matables,      \* the processes a console will ask to kill, once each
  DeLaConsola,   \* the processes of the console that will leave
  Salidas        \* bound: the signals sent to CPUs

ASSUME MatablesSupuesto == Matables \subseteq Procs /\ DeLaConsola \subseteq Procs
ASSUME SalidasSupuesto  == Salidas \in Nat

VARIABLES
  porMatar,              \* the kills not received yet
  matando,               \* the process abortarProgramaPorConsola looks for
  consola,               \* "conectada", "saliendo", "afuera"
  colaProcesosConsola,   \* the processes of that console, as accepted
  registrados,           \* those that procesarScript put there
  Signal,                \* a flag of each CPU
  salidas,               \* signals sent so far
  cortados,              \* history: given back by a CPU while they blocked
  adelantados            \* history: woken before their CPU had stopped them

matar == <<porMatar, matando>>
cons  == <<consola, colaProcesosConsola, registrados>>
cpus  == <<Signal, salidas, cortados>>
todas == <<todo, matar, cons, cpus, adelantados>>

InitInt ==
  /\ InitPlan
  /\ porMatar = Matables /\ matando = Nadie
  /\ consola = "conectada" /\ colaProcesosConsola = <<>> /\ registrados = {}
  /\ Signal = [c \in CPUs |-> FALSE] /\ salidas = 0 /\ cortados = {}
  /\ adelantados = {}

\* The main thread handles messages, unless it is looking for a process.
Libre == matando = Nadie /\ consola # "saliendo"

\* procesarScript pushes the program on colaProcesosConsola when it accepts
\* it, before it asks Memoria for its pages; the console may have left.
Registra(p) ==
  /\ p \in DeLaConsola \ registrados
  /\ registrados' = registrados \cup {p}
  /\ colaProcesosConsola' = Append(colaProcesosConsola, p)
  /\ UNCHANGED <<todo, matar, consola, cpus>>

\* It arrives once Memoria has its pages.
Entra(p) ==
  /\ p \in DeLaConsola => p \in registrados
  /\ EntraProceso(p)
  /\ UNCHANGED <<sems, matar, cons, cpus>>
-----------------------------------------------------------------------------
(* The Kernel's main thread: the consoles.                                  *)

\* MATARPIDPORCONSOLA: a console knows the pid from the moment crearPCB gave it,
\* before the program is in colaNew.
MataEmpieza(p) ==
  /\ Libre
  /\ p \in porMatar
  /\ p \in DeLaConsola => p \in registrados
  /\ porMatar' = porMatar \ {p}
  /\ matando' = p
  /\ UNCHANGED <<todo, cons, cpus>>

\* DESCONECTARCONSOLA.
SaleConsola ==
  /\ Libre
  /\ consola = "conectada" /\ DeLaConsola # {}
  /\ consola' = "saliendo"
  /\ UNCHANGED <<todo, matar, colaProcesosConsola, registrados, cpus>>

\* Mutant: if for while.
SigueSoloConElPrimero ==
  /\ consola = "saliendo" /\ matando = Nadie
  /\ \/ /\ colaProcesosConsola # <<>>
        /\ colaProcesosConsola' = Tail(colaProcesosConsola)
        /\ matando' = IF Head(colaProcesosConsola) \in ToSet(colaExit)
                      THEN Nadie ELSE Head(colaProcesosConsola)
     \/ colaProcesosConsola = <<>> /\ UNCHANGED <<colaProcesosConsola, matando>>
  /\ consola' = "afuera"
  /\ UNCHANGED <<todo, porMatar, registrados, cpus>>

\* abortarTodosLosProgramasDeConsola: one after the other, but for those that
\* are in colaExit.
SigueConConsola ==
  /\ consola = "saliendo" /\ matando = Nadie
  /\ \/ /\ colaProcesosConsola # <<>>
        /\ colaProcesosConsola' = Tail(colaProcesosConsola)
        /\ matando' = IF Head(colaProcesosConsola) \in ToSet(colaExit)
                      THEN Nadie ELSE Head(colaProcesosConsola)
        /\ UNCHANGED consola
     \/ /\ colaProcesosConsola = <<>>
        /\ consola' = "afuera"
        /\ UNCHANGED <<colaProcesosConsola, matando>>
  /\ UNCHANGED <<todo, porMatar, registrados, cpus>>

\* Mutant: list_find for list_remove_by_condition.
MataReadySinSacar ==
  /\ matando \in ToSet(colaReady)
  /\ Abortar(matando, "codeFinalizarPrograma")
  /\ matando' = Nadie
  /\ UNCHANGED <<porLlegar, colaNew, colaReady, colaExec, semNew, semReady,
                 planes, procesos, fallo, aKernel, aCpu, cpu, progreso, sems,
                 porMatar, cons, cpus>>

\* The passes of abortarProgramaPorConsola that find the process: in colaReady,
MataReady ==
  /\ matando \in ToSet(colaReady)
  /\ colaReady' = RemoveFirst(colaReady, matando)
  /\ Abortar(matando, "codeFinalizarPrograma")
  /\ matando' = Nadie
  /\ UNCHANGED <<porLlegar, colaNew, colaExec, semNew, semReady, planes,
                 procesos, fallo, aKernel, aCpu, cpu, progreso, sems, porMatar,
                 cons, cpus>>

\* in colaExec,
MataExec ==
  /\ matando \in ToSet(colaExec) \ ToSet(colaReady)
  /\ abortado' = [abortado EXCEPT ![matando] = TRUE]
  /\ aCpu' = Mandar(aCpu, socketCPU[matando], Aviso("ABORTOPORCONSOLA"))
  /\ matando' = Nadie
  /\ UNCHANGED <<porLlegar, colas, semNew, semReady, semCpu, planes, socketCPU,
                 pcb, fallo, aKernel, cpu, progreso, sems, porMatar, cons, cpus>>

\* in the queue of a semaphore.
MataBloqueado ==
  /\ matando \in Procs \ (ToSet(colaExec) \cup ToSet(colaReady))
  /\ S!Quita(matando)
  /\ Abortar(matando, "codeFinalizarPrograma")
  /\ matando' = Nadie
  /\ UNCHANGED <<porLlegar, colaNew, colaReady, colaExec, semNew, semReady,
                 planes, procesos, fallo, aKernel, aCpu, cpu, progreso, porMatar,
                 cons, cpus>>

\* ABORTOPORCONSOLA: the CPU stopped the program a console killed.
AbortoPorConsola(c) ==
  /\ Llega(aKernel, c, "ABORTOPORCONSOLA")
  /\ mutexColaEx = "libre"
  /\ \E p \in Procs :
       /\ SacaProceso(c, p)
       /\ colaExec' = RemoveAt(colaExec, Remitente(c))
       /\ abortado' = [abortado EXCEPT ![p] = TRUE]
       /\ Abortar(p, "codeFinalizarPrograma")
  /\ UNCHANGED <<porLlegar, colaNew, colaReady, semNew, semReady, planes,
                 socketCPU, pcb, fallo, aCpu, cpu, progreso, sems, matar, cons,
                 cpus>>
-----------------------------------------------------------------------------
(* The Kernel's main thread: the CPUs that leave.                           *)

\* The place of a process in colaExec, and of the first one of a CPU; or 0.
LugarDe(pid) == SelectInSeq(colaExec, LAMBDA p : p = pid)
LugarEn(c)   == SelectInSeq(colaExec, LAMBDA p : socketCPU[p] = c)

\* The walk over colaCpu that removes c.  It ends at the first NULL, and skips
\* the entry that follows one it removed: recorre[i] is what is left of the first
\* i, and whether the next is skipped.
SinCpu(cola, c) ==
  LET n == IF Nadie \in ToSet(cola)
           THEN SelectInSeq(cola, LAMBDA x : x = Nadie) - 1 ELSE Len(cola)
      recorre[i \in 0..n] ==
        IF i = 0 THEN [queda |-> <<>>, salta |-> FALSE]
        ELSE IF cola[i] = c /\ ~recorre[i - 1].salta
             THEN [queda |-> recorre[i - 1].queda, salta |-> TRUE]
             ELSE [queda |-> Append(recorre[i - 1].queda, cola[i]), salta |-> FALSE]
  IN  recorre[n].queda \o SubSeq(cola, n + 1, Len(cola))

\* ABORTODESCONEXIONCPU.
AbortoDesconexionCpu(c) ==
  /\ Llega(aKernel, c, "ABORTODESCONEXIONCPU")
  /\ LET m == Head(aKernel[c])
         i == LugarDe(m.pid)
     IN  /\ i # 0
         /\ colaExec' = RemoveAt(colaExec, i)
         /\ pcb' = [pcb EXCEPT ![m.pid] = m.pc]
         /\ Abortar(m.pid, "codeDesconexionCpu")
  /\ aKernel' = Sacar(aKernel, c)
  /\ UNCHANGED <<porLlegar, colaNew, colaReady, semNew, semReady, planes,
                 socketCPU, abortado, fallo, aCpu, cpu, progreso, sems, matar,
                 cons, cpus>>

\* DESTRUICPUSINPID: semCpu is left as it is.
DestruyeCpu(c) ==
  /\ Llega(aKernel, c, "DESTRUICPUSINPID")
  /\ colaCpu' = SinCpu(colaCpu, c)
  /\ aKernel' = Sacar(aKernel, c)
  /\ UNCHANGED <<porLlegar, colaNew, colaReady, colaExec, colaExit, semNew,
                 semReady, semCpu, planes, procesos, fallo, aCpu, cpu, progreso,
                 sems, matar, cons, cpus>>

\* recv() gives 0: the socket is closed and nothing else is done.
Cierra(c) ==
  /\ Llega(aKernel, c, "CERRADO")
  /\ aKernel' = Sacar(aKernel, c)
  /\ UNCHANGED <<kernel, fallo, aCpu, cpu, progreso, sems, matar, cons, cpus>>

\* recv() fails: abortarElProgramaDeCpu.
Corta(c) ==
  /\ Llega(aKernel, c, "CORTADO")
  /\ colaCpu' = SinCpu(colaCpu, c)
  /\ LET i == LugarEn(c)
     IN  \/ /\ i # 0
            /\ colaExec' = RemoveAt(colaExec, i)
            /\ colaExit' = Append(colaExit, colaExec[i])
            /\ abortado' = [abortado EXCEPT ![colaExec[i]] = TRUE]
         \/ i = 0 /\ UNCHANGED <<colaExec, colaExit, abortado>>
  /\ aKernel' = Sacar(aKernel, c)
  /\ UNCHANGED <<porLlegar, colaNew, colaReady, semNew, semReady, semCpu,
                 planes, socketCPU, pcb, fallo, aCpu, cpu, progreso, sems,
                 matar, cons, cpus>>

DeSalida == {"ABORTODESCONEXIONCPU", "DESTRUICPUSINPID", "CERRADO", "CORTADO"}

\* The process was put back in colaReady meanwhile: NULL is dereferenced.
SinCortado(c) ==
  /\ Llega(aKernel, c, "ABORTODESCONEXIONCPU")
  /\ LugarDe(Head(aKernel[c]).pid) = 0
  /\ Rompe("nulo")
  /\ UNCHANGED <<sems, matar, cons, cpus>>

\* These handlers and the loop of abortarProgramaPorConsola use the lists
\* without their mutexes, while a planner may be in its critical section on
\* one of them.
CorrompeListas ==
  /\ \/ matando # Nadie /\ (plp # Nadie \/ pcPcp \in {"saca", "encola"})
     \/ \E c \in CPUs :
          \/ Llega(aKernel, c, "ABORTOPORCONSOLA") /\ pcPcp = "saca"
          \/ Llega(aKernel, c, "DESTRUICPUSINPID") /\ pcPcp = "saca"
          \/ Llega(aKernel, c, "ABORTODESCONEXIONCPU") /\ pcPcp = "encola"
          \/ Llega(aKernel, c, "CORTADO") /\ pcPcp \in {"saca", "encola"}
  /\ Rompe("carrera")
  /\ UNCHANGED <<sems, matar, cons, cpus>>
-----------------------------------------------------------------------------
(* A CPU.                                                                   *)

\* procesar, for ABORTOPORCONSOLA.
Aborta(c) ==
  /\ Llega(aCpu, c, "ABORTOPORCONSOLA")
  /\ programaAbortado' = [programaAbortado EXCEPT ![c] = TRUE]
  /\ codigoAborto' = [codigoAborto EXCEPT ![c] = "ABORTOPORCONSOLA"]
  /\ aCpu' = Sacar(aCpu, c)

\* The receiving thread does it whatever the script thread is doing.
RecibeAborto(c) ==
  /\ Aborta(c)
  /\ UNCHANGED <<kernel, fallo, aKernel, carga, fase, quantum_aux,
                 programaFinalizado, programaBloqueado, progreso, sems, matar,
                 cons, cpus>>

\* The script thread: a program that ended and was aborted, or whose CPU is to
\* leave, has no PCB to send.
UsaPcbLiberado(c) ==
  /\ fase[c] = "ciclo" /\ unPid[c] = Nadie
  /\ programaAbortado[c] \/ Signal[c]
  /\ fase' = [fase EXCEPT ![c] = "rota"]
  /\ UNCHANGED <<kernel, fallo, aKernel, aCpu, carga, quantum_aux, banderas,
                 progreso, sems, matar, cons, cpus>>

\* hayScriptEjecutando.
HayScript(c) == fase[c] \in {"ciclo", "respuesta"} /\ ~programaFinalizado[c]

\* What the Kernel finds at the end of the socket of a CPU that exits.  The
\* receiving thread may have begun to read the first message left.
Cierres(c) == IF aCpu[c] = <<>> THEN {"CERRADO"}
              ELSE IF Len(aCpu[c]) = 1 THEN {"CERRADO", "CORTADO"} ELSE {"CORTADO"}

\* It sends m and exits.
Sale(c, m, como) ==
  /\ \E x \in Cierres(c) : aKernel' = [aKernel EXCEPT ![c] = @ \o <<m, Aviso(x)>>]
  /\ fase' = [fase EXCEPT ![c] = como]

Viva(c) == fase[c] \notin {"muerta", "destruida", "rota"}

Senal(c) ==
  /\ salidas < Salidas
  /\ Signal' = [Signal EXCEPT ![c] = TRUE]
  /\ salidas' = salidas + 1

\* revisarSigusR1, SIGUSR1, or control-C while a program runs.
RecibeSenal(c) ==
  /\ Viva(c) /\ Senal(c)
  /\ UNCHANGED <<todo, matar, cons, cortados>>

\* A signal, or a kill, comes at the end of a quantum after the first branches
\* looked at its flag and before the last one does: no branch is taken.  The PCB
\* is neither sent nor freed, and the CPU waits for another one.
PierdeTurno(c) ==
  /\ fase[c] = "ciclo" /\ RR /\ quantum_aux[c] = 0 /\ unPid[c] # Nadie
  /\ ~programaAbortado[c] /\ ~Signal[c] /\ ~programaBloqueado[c] /\ ~programaFinalizado[c]
  /\ \/ Senal(c) /\ UNCHANGED <<aCpu, programaAbortado, codigoAborto>>
     \/ Aborta(c) /\ UNCHANGED <<Signal, salidas>>
  /\ fase' = [fase EXCEPT ![c] = "espera"]
  /\ UNCHANGED <<kernel, fallo, aKernel, carga, quantum_aux, programaFinalizado,
                 programaBloqueado, progreso, sems, matar, cons, cortados>>

\* At the end of the loop hayScriptEjecutando is reset before the PCB is sent.
PorDevolver(c) == fase[c] = "ciclo" /\ (~Sigue(c) \/ Signal[c])

\* revisarSigusR1, control-C while no program runs.
RecibeControlC(c) ==
  /\ Viva(c) /\ salidas < Salidas
  /\ ~HayScript(c) \/ PorDevolver(c)
  /\ Sale(c, Aviso("DESTRUICPUSINPID"), "destruida")
  /\ salidas' = salidas + 1
  /\ UNCHANGED <<kernel, fallo, aCpu, carga, quantum_aux, banderas, progreso,
                 sems, matar, cons, Signal, cortados>>

\* Mutant: exit() without serializarPCB.
SaleSinDevolver(c) ==
  /\ Signal[c] /\ fase[c] = "ciclo" /\ ~programaAbortado[c] /\ unPid[c] # Nadie
  /\ \E x \in Cierres(c) : aKernel' = Mandar(aKernel, c, Aviso(x))
  /\ fase' = [fase EXCEPT ![c] = "muerta"]
  /\ UNCHANGED <<kernel, fallo, aCpu, carga, quantum_aux, banderas, progreso,
                 sems, matar, cons, cpus>>

\* The loop ends because of Signal, and with it the process, unless it was
\* aborted: that is told as always, and the CPU stays.
SalePorSenal(c) ==
  /\ Signal[c] /\ fase[c] = "ciclo" /\ ~programaAbortado[c] /\ unPid[c] # Nadie
  /\ Sale(c, Mensaje("ABORTODESCONEXIONCPU", unPid[c], unPc[c]), "muerta")
  /\ cortados' = IF programaBloqueado[c] THEN cortados \cup {unPid[c]} ELSE cortados
  /\ UNCHANGED <<kernel, fallo, aCpu, carga, quantum_aux, banderas, progreso,
                 sems, matar, cons, Signal, salidas>>
-----------------------------------------------------------------------------
\* What Planificacion's steps leave alone.
Ajeno == UNCHANGED <<matar, cons, cpus>>
Planes == (PLP \/ PCP) /\ UNCHANGED sems /\ Ajeno

Busca == SigueConConsola \/ MataReady \/ MataExec \/ MataBloqueado

Consolas ==
  \/ \E p \in Procs : Registra(p) \/ Entra(p) \/ MataEmpieza(p)
  \/ SaleConsola \/ Busca \/ CorrompeListas

AtiendeInt(c) ==
  /\ Libre
  /\ \/ ~(\E tipo \in DeSalida : Llega(aKernel, c, tipo)) /\ AtiendePlan(c) /\ Ajeno
     \/ AbortoPorConsola(c)
     \/ AbortoDesconexionCpu(c) \/ DestruyeCpu(c) \/ Cierra(c) \/ Corta(c)
     \/ SinCortado(c)

ReceptorInt(c) == Viva(c) /\ ((ReceptorPlan(c) /\ Ajeno) \/ RecibeAborto(c))

HiloInt(c) ==
  \/ /\ Signal[c] /\ fase[c] = "ciclo" => programaAbortado[c]
     /\ HiloPlan(c) /\ Ajeno
  \/ UsaPcbLiberado(c) \/ SalePorSenal(c)

\* They are ready, and still in colaExec.
Anota == adelantados' = adelantados \cup (ToSet(colaReady') \cap ToSet(colaExec'))

NextInt ==
  /\ fallo = "no"
  /\ \/ Planes \/ Consolas
     \/ \E c \in CPUs : \/ AtiendeInt(c) \/ ReceptorInt(c) \/ HiloInt(c)
                        \/ RecibeSenal(c) \/ PierdeTurno(c) \/ RecibeControlC(c)
  /\ Anota

SpecInt == InitInt /\ [][NextInt]_todas

(* The same with the loop of the main thread: what a console asks is read    *)
(* from its socket.  A recv() that fails, of a socket closed before in the   *)
(* same round, is left out.                                                  *)
bucleint == <<todas, leyendo>>

DeOtros == ((\E p \in Procs : MataEmpieza(p)) \/ SaleConsola) /\ Lee("otros", FALSE)

InitIntBucle == InitInt /\ leyendo = Nadie

NextIntBucle ==
  /\ fallo = "no"
  /\ \/ (Planes \/ Busca \/ CorrompeListas) /\ UNCHANGED leyendo
     \/ \E p \in Procs : \/ Registra(p) /\ UNCHANGED leyendo
                         \/ Entra(p) /\ MueveIndice
     \/ DeOtros
     \/ Libre /\ LeeOtros /\ UNCHANGED todas
     \/ \E c \in CPUs : \/ AtiendeInt(c) /\ LeeCpu(c)
                        \/ /\ \/ ReceptorInt(c) \/ HiloInt(c) \/ RecibeSenal(c)
                              \/ PierdeTurno(c) \/ RecibeControlC(c)
                           /\ UNCHANGED leyendo
  /\ Anota

SpecIntBucle == InitIntBucle /\ [][NextIntBucle]_bucleint

(* As in Planificacion; nothing makes a program arrive, a console kill or    *)
(* leave, or a CPU get a signal.                                             *)
SpecIntJusta ==
  /\ SpecIntBucle
  /\ WF_bucleint(fallo = "no" /\ PLP /\ UNCHANGED <<sems, leyendo>> /\ Ajeno /\ Anota)
  /\ WF_bucleint(fallo = "no" /\ PCP /\ UNCHANGED <<sems, leyendo>> /\ Ajeno /\ Anota)
  /\ WF_bucleint(fallo = "no" /\ Busca /\ UNCHANGED leyendo /\ Anota)
  /\ \A c \in CPUs :
       /\ WF_bucleint(fallo = "no" /\ AtiendeInt(c) /\ LeeCpu(c) /\ Anota)
       /\ WF_bucleint(fallo = "no" /\ ReceptorInt(c) /\ UNCHANGED leyendo /\ Anota)
       /\ WF_bucleint(fallo = "no" /\ HiloInt(c) /\ UNCHANGED leyendo /\ Anota)
-----------------------------------------------------------------------------
(* Properties.                                                              *)

\* Kills never put the short-term planner's semaphores behind its queues: it
\* does not sleep while somebody is ready and there is a CPU.  While no CPU left,
\* it pops as many CPUs as it was told of, even those that it then drops.
SemaforosAlDia ==
  LET conCpu == IF pcPcp = "saca" THEN 1 ELSE 0
      conReady == IF pcPcp \in {"espera_cpu", "saca"} THEN 1 ELSE 0
  IN  /\ semReady + conReady >= Len(colaReady)
      /\ semCpu + conCpu >= Len(colaCpu)
      /\ (\A c \in CPUs : fase[c] \notin {"muerta", "destruida"}) =>
           semCpu + conCpu = Len(colaCpu)

\* A kill, perhaps meant for the program its CPU had before, caught p in a
\* CPU, or the CPU left while p was blocking.
Alcanzado(p) ==
  \/ abortado[p] \/ p \in cortados
  \/ \E c \in CPUs : \E m \in ToSet(aKernel[c]) :
       m.tipo = "ABORTOPORCONSOLA" /\ m.pid = p

\* Whatever the consoles kill and whenever, a process that no kill caught in a
\* CPU is never in two places: killed while ready or blocked, it does not come
\* back.  (Of two CPUs, one may wake what the other has not stopped yet: until
\* then.)
NadieDuplicado ==
  adelantados = {} => \A p \in Procs : ~Alcanzado(p) =>
    /\ Activos(p) <= 1 /\ Cardinality(EnEspera(p)) <= 1
    /\ Activos(p) = 1 /\ EnEspera(p) # {} => p \in ToSet(colaExec)

\* A console that left has no program that goes on: every one ended, or was
\* told to stop, or was not yet where abortarTodosLosProgramasDeConsola looks.
ConsolaSinProgramas ==
  consola = "afuera" =>
    \A p \in DeLaConsola \cap registrados :
      \/ p \in ToSet(colaExit) \/ abortado[p]
      \/ p \in ToSet(colaProcesosConsola)

\* A CPU that leaves because of SIGUSR1 takes no process along: while no
\* console killed anybody, nor a CPU woke what another had not stopped yet (the
\* Kernel may then remove another program's entry of colaExec), a process that
\* the Kernel believes in that CPU is on its way back.
SaleSinLlevarse ==
  porMatar = Matables /\ consola = "conectada" /\ adelantados = {} =>
    \A p \in ToSet(colaExec) :
      fase[socketCPU[p]] = "muerta" =>
        \E m \in ToSet(aKernel[socketCPU[p]]) :
          m.tipo = "ABORTODESCONEXIONCPU" /\ m.pid = p

\* c got a signal or a kill when it was about to give its program back, and will
\* never do it.
Muda(c) == fase[c] = "espera" /\ unPid[c] # Nadie /\ semHayScript[c] = 0

\* The others go on: when CPUs leave because of SIGUSR1 and one stays, every
\* accepted program ends or blocks, but for one that its CPU will never give back,
\* or unless the main thread waits for ever for a socket that has nothing.
\* (DESTRUICPUSINPID leaves semCpu as it is, and the planner may then drop a process
\* for want of a CPU.)
SiguenLosDemas ==
  \A p \in Procs : p \notin porLlegar ~>
    \/ p \in ToSet(colaExit) \/ EnEspera(p) # {} \/ Indefinido \/ []EsperaVacio
    \/ \E c \in CPUs : fase[c] = "destruida" \/ (Muda(c) /\ unPid[c] = p)
    \/ \A c \in CPUs : fase[c] = "muerta" \/ Muda(c)
=============================================================================
