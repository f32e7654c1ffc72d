---------------------------- MODULE Planificacion ----------------------------
(***************************************************************************)
(* Dispatching (Despacho) together with the semaphores of the programs      *)
(* (Semaforos).                                                             *)
(*                                                                          *)
(* What joins them: a process that waits is put in a semaphore's queue by   *)
(* the handler of PROCESOWAIT while it is still in colaExec; it leaves      *)
(* colaExec, and its PCB is brought up to date, only when the CPU's         *)
(* SEBLOQUEOELPROCESO is handled.                                           *)
(***************************************************************************)
EXTENDS Despacho, FiniteSets

CONSTANTS
  Sems, Inicial    \* SEM_IDS and SEM_INIT

ASSUME SemsSupuesto == Nadie \notin Sems /\ Inicial \in [Sems -> Nat]
\* The programs name semaphores of SEM_IDS.
ASSUME NombranSems ==
  \A p \in Procs : \A k \in 1..Len(Programa[p]) :
    Programa[p][k].op \in {"wait", "signal"} => Programa[p][k].sem \in Sems

VARIABLES
  valor, colas_semaforos, colaProcesosBloqueados, pidio   \* Semaforos

S == INSTANCE Semaforos WITH MaxValor <- 999

sems == <<valor, colas_semaforos, colaProcesosBloqueados, pidio>>
todo == <<vars, sems>>

InitPlan ==
  /\ Init
  /\ S!Init

ConSem(tipo, s) == [tipo |-> tipo, pid |-> Nadie, pc |-> 0, sem |-> s]

\* Mutant: the process is not pushed again.
RotaSinDevolver(c, p) ==
  /\ mutexColaEx = "libre"
  /\ SacaProceso(c, p)
  /\ colaExec' = RemoveAt(colaExec, Remitente(c))

\* PROCESOWAIT and PROCESOSIGNAL first push their process again on colaExec.
Rota(c, p) ==
  /\ mutexColaEx = "libre"
  /\ SacaProceso(c, p)
  /\ colaExec' = Append(RemoveAt(colaExec, Remitente(c)), p)
-----------------------------------------------------------------------------
(* The Kernel's main thread.                                                *)

\* PROCESOWAIT: the answer says whether the program blocks.
ProcesoWait(c) ==
  /\ Llega(aKernel, c, "PROCESOWAIT")
  /\ LET s == Head(aKernel[c]).sem
     IN  /\ \E p \in Procs : Rota(c, p) /\ S!Wait(p, s)
         /\ aCpu' = Mandar(aCpu, c, Mensaje("PROCESOWAIT", Nadie,
                                            IF S!Bloquea(s) THEN 1 ELSE 0))
  /\ UNCHANGED <<porLlegar, colaNew, colaReady, colaExit, colaCpu, semNew,
                 semReady, semCpu, planes, procesos, fallo, cpu, progreso>>

\* PROCESOSIGNAL: whoever it wakes goes to colaReady with the PCB the Kernel
\* has.
ProcesoSignal(c) ==
  /\ Llega(aKernel, c, "PROCESOSIGNAL")
  /\ LET s == Head(aKernel[c]).sem
     IN  /\ \E p \in Procs : Rota(c, p)
         /\ S!Signal(s)
         /\ \/ /\ S!Despertado(s) # Nadie
               /\ colaReady' = Append(colaReady, S!Despertado(s))
               /\ semReady' = semReady + 1
            \/ S!Despertado(s) = Nadie /\ UNCHANGED <<colaReady, semReady>>
  /\ UNCHANGED <<porLlegar, colaNew, colaExit, colaCpu, semNew, semCpu, planes,
                 procesos, fallo, aCpu, cpu, progreso>>

\* SEBLOQUEOELPROCESO.
SeBloqueo(c) ==
  /\ Llega(aKernel, c, "SEBLOQUEOELPROCESO")
  /\ mutexColaEx = "libre"
  /\ \E p \in Procs :
       /\ SacaProceso(c, p)
       /\ colaExec' = RemoveAt(colaExec, Remitente(c))
       /\ pcb' = [pcb EXCEPT ![p] = Head(aKernel[c]).pc]
  /\ colaCpu' = Append(colaCpu, c)
  /\ semCpu' = semCpu + 1
  /\ UNCHANGED <<porLlegar, colaNew, colaReady, colaExit, semNew, semReady,
                 planes, socketCPU, abortado, fallo, aCpu, cpu, progreso, sems>>
-----------------------------------------------------------------------------
(* A CPU.                                                                   *)

\* wait_kernel: it sends PROCESOWAIT and waits for the answer.
Espera(c) ==
  /\ Toca(c, "wait")
  /\ aKernel' = Mandar(aKernel, c,
                       ConSem("PROCESOWAIT", Programa[unPid[c]][unPc[c] + 1].sem))
  /\ fase' = [fase EXCEPT ![c] = "respuesta"]
  /\ Ejecutada(c)
  /\ UNCHANGED <<kernel, fallo, aCpu, carga, quantum_aux, banderas, sems>>

\* signal_kernel.
Senala(c) ==
  /\ Toca(c, "signal")
  /\ aKernel' = Mandar(aKernel, c,
                       ConSem("PROCESOSIGNAL", Programa[unPid[c]][unPc[c] + 1].sem))
  /\ Avanza(c) /\ Ejecutada(c)
  /\ UNCHANGED <<kernel, fallo, aCpu, unPid, semHayScript, semDestruirPCB,
                 banderas, sems>>

\* Mutant: the answer is not looked at.
RecibeEsperaSinMirar(c) ==
  /\ Llega(aCpu, c, "PROCESOWAIT")
  /\ fase[c] = "respuesta"
  /\ aCpu' = Sacar(aCpu, c)
  /\ Avanza(c)
  /\ UNCHANGED <<kernel, fallo, aKernel, unPid, semHayScript, semDestruirPCB,
                 banderas, progreso, sems>>

\* The receiving thread: the answer of PROCESOWAIT is programaBloqueado.
RecibeEspera(c) ==
  /\ Llega(aCpu, c, "PROCESOWAIT")
  /\ fase[c] = "respuesta"
  /\ programaBloqueado' = [programaBloqueado EXCEPT ![c] = Head(aCpu[c]).pc = 1]
  /\ aCpu' = Sacar(aCpu, c)
  /\ Avanza(c)
  /\ UNCHANGED <<kernel, fallo, aKernel, unPid, semHayScript, semDestruirPCB,
                 programaFinalizado, programaAbortado, codigoAborto, progreso,
                 sems>>
-----------------------------------------------------------------------------
AtiendePlan(c) ==
  \/ Atiende(c) /\ UNCHANGED sems
  \/ ProcesoWait(c) \/ ProcesoSignal(c) \/ SeBloqueo(c)

ReceptorPlan(c) == (Receptor(c) /\ UNCHANGED sems) \/ RecibeEspera(c)

HiloPlan(c) == (HiloScript(c) /\ UNCHANGED sems) \/ Espera(c) \/ Senala(c)

NextPlan ==
  /\ fallo = "no"
  /\ \/ ((\E p \in Procs : EntraProceso(p)) \/ PLP \/ PCP) /\ UNCHANGED sems
     \/ \E c \in CPUs : AtiendePlan(c) \/ ReceptorPlan(c) \/ HiloPlan(c)

SpecPlan == InitPlan /\ [][NextPlan]_todo

(* The same with the loop of the main thread, and the fairness of Despacho.  *)
bucleplan == <<todo, leyendo>>

InitPlanBucle == InitPlan /\ leyendo = Nadie

NextPlanBucle ==
  /\ fallo = "no"
  /\ \/ (\E p \in Procs : EntraProceso(p)) /\ UNCHANGED sems /\ MueveIndice
     \/ (PLP \/ PCP) /\ UNCHANGED <<sems, leyendo>>
     \/ \E c \in CPUs : \/ AtiendePlan(c) /\ LeeCpu(c)
                        \/ (ReceptorPlan(c) \/ HiloPlan(c)) /\ UNCHANGED leyendo
     \/ LeeOtros /\ UNCHANGED todo

SpecPlanBucle == InitPlanBucle /\ [][NextPlanBucle]_bucleplan

SpecPlanJusta ==
  /\ SpecPlanBucle
  /\ WF_bucleplan(fallo = "no" /\ PLP /\ UNCHANGED <<sems, leyendo>>)
  /\ WF_bucleplan(fallo = "no" /\ PCP /\ UNCHANGED <<sems, leyendo>>)
  /\ \A c \in CPUs :
       /\ WF_bucleplan(fallo = "no" /\ AtiendePlan(c) /\ LeeCpu(c))
       /\ WF_bucleplan(fallo = "no" /\ ReceptorPlan(c) /\ UNCHANGED leyendo)
       /\ WF_bucleplan(fallo = "no" /\ HiloPlan(c) /\ UNCHANGED leyendo)
-----------------------------------------------------------------------------
(* Properties.                                                              *)

\* How many times p is in the planners' queues and hands.
Activos(p) ==
  LET lugares == colaNew \o colaReady \o colaExec \o colaExit \o <<plp, pcpProc>>
  IN  Cardinality({i \in DOMAIN lugares : lugares[i] = p})

\* The semaphores p is blocked on.
EnEspera(p) == {s \in Sems : p \in ToSet(colas_semaforos[s])}

\* Its CPU has been told that p blocks, and the Kernel has not been told yet
\* that it stopped.
Bloqueandose(p) ==
  LET c == socketCPU[p]
  IN  \/ /\ unPid[c] = p
         /\ programaBloqueado[c] \/ Mensaje("PROCESOWAIT", Nadie, 1) \in ToSet(aCpu[c])
      \/ \E m \in ToSet(aKernel[c]) : m.tipo = "SEBLOQUEOELPROCESO" /\ m.pid = p

\* The moment between the answer of PROCESOWAIT and SEBLOQUEOELPROCESO: p is
\* both in colaExec and blocked.
EntreColas(p) ==
  /\ Activos(p) = 1 /\ Cardinality(EnEspera(p)) = 1
  /\ p \in ToSet(colaExec) /\ Bloqueandose(p)

\* With one CPU, every process is in one place: not arrived, in a queue of the
\* planners, in the hands of one, or blocked on one semaphore; it is in two
\* only while its CPU is stopping it.  A blocked process is lost to nobody and
\* nobody runs it.
UnLugarOBloqueado ==
  \A p \in Procs :
    \/ p \in porLlegar /\ Activos(p) = 0 /\ EnEspera(p) = {}
    \/ p \notin porLlegar /\ Activos(p) + Cardinality(EnEspera(p)) = 1
    \/ p \notin porLlegar /\ EntreColas(p)

\* A process that stopped on a semaphore goes on after the wait, not at it: the
\* PCB of SEBLOQUEOELPROCESO, the one it will be dispatched with, is not older
\* than what was executed.
NoRepiteBloqueado ==
  /\ NoRepite
  /\ \A p \in Procs : EnEspera(p) # {} /\ ~EntreColas(p) => pcb[p] >= progreso[p]

\* The handlers use the semaphores as Semaforos says: only a process that is
\* not blocked waits, whatever is in the sockets.  (Of a value the code writes
\* three digits; SpecUso puts no bound on it.)
UsaSemaforos == S!SpecUso

\* No accepted process stays for ever short of its end without being blocked on
\* a semaphore: who is signalled gets a CPU again, whatever the planners and
\* the others do, unless the main thread waits for ever for a socket that has
\* nothing.
NadieSeEstanca ==
  \A p \in Procs : p \notin porLlegar ~>
    p \in ToSet(colaExit) \/ EnEspera(p) # {} \/ Indefinido \/ []EsperaVacio
=============================================================================
