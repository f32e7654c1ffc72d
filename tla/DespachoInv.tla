---------------------------- MODULE DespachoInv -----------------------------
(* The inductive invariant of Despacho.                                     *)
EXTENDS Despacho

\* Each semaphore counts the elements of its queue, less the one the
\* short-term planner has already taken the right to.
Semaforos ==
  /\ semNew = Len(colaNew)
  /\ semReady + (IF pcPcp \in {"espera_cpu", "saca"} THEN 1 ELSE 0) = Len(colaReady)
  /\ semCpu + (IF pcPcp = "saca" THEN 1 ELSE 0) = Len(colaCpu)

\* What the short-term planner holds while it is in ejecutar().
ManoPcp ==
  /\ pcPcp \in {"ejecutar", "encola"} =>
       pcpProc \in Procs /\ pcpCpu \in CPUs /\ socketCPU[pcpProc] = pcpCpu
  /\ pcPcp \notin {"ejecutar", "encola"} => pcpProc = Nadie /\ pcpCpu = Nadie
  /\ mutexColaEx = "pcp" <=> pcPcp = "encola"

\* Nobody is killed, blocks or fails.
SinSobresaltos ==
  /\ \A p \in Procs : ~abortado[p]
  /\ \A c \in CPUs : ~programaBloqueado[c] /\ codigoAborto[c] = "ABORTO"
  /\ fallo # "nulo"

\* The script thread of c has nothing to do, or is on its way out of a program
\* that ended.
Quieta(c) ==
  \/ fase[c] = "espera"
  \/ /\ fase[c] \in {"tras_fin", "ciclo"}
     /\ programaFinalizado[c] /\ ~programaAbortado[c]

\* c holds no PCB and nothing is on its way to it.
Vacia(c) ==
  /\ aCpu[c] = <<>> /\ unPid[c] = Nadie
  /\ semHayScript[c] = 0 /\ semDestruirPCB[c] = 1
  /\ Quieta(c)

\* All the messages of q but the last are notices; the last one is of type t.
AvisosY(q, t) ==
  /\ q # <<>> /\ q[Len(q)].tipo = t
  /\ \A i \in 1..Len(q) - 1 : q[i].tipo = "AVISA"

SoloAvisos(q) == \A i \in 1..Len(q) : q[i].tipo = "AVISA"

(* The stages of the dispatch of p to c.                                    *)

\* 1. The PCB is in the socket.
EnCamino(c, p) ==
  /\ aKernel[c] = <<>> /\ aCpu[c] = <<Mensaje("PCB", p, pcb[p])>>
  /\ unPid[c] = Nadie /\ semHayScript[c] = 0 /\ semDestruirPCB[c] = 1
  /\ Quieta(c)

\* 2. The receiving thread has it and has posted semHayScript.
Recibido(c, p) ==
  /\ aKernel[c] = <<>> /\ aCpu[c] = <<>>
  /\ unPid[c] = p /\ semHayScript[c] = 1 /\ semDestruirPCB[c] = 0
  /\ Quieta(c)

\* 3. The script thread executes it; it may wait for an answer.
EnCurso(c, p) ==
  /\ unPid[c] = p /\ semHayScript[c] = 0 /\ semDestruirPCB[c] = 0
  /\ ~programaFinalizado[c]
  /\ \/ fase[c] \in {"ciclo", "rota"} /\ aCpu[c] = <<>> /\ SoloAvisos(aKernel[c])
     \/ /\ fase[c] = "respuesta"
        /\ \/ aCpu[c] = <<>> /\ AvisosY(aKernel[c], "PIDE")
           \/ aKernel[c] = <<>> /\ aCpu[c] = <<Aviso("RESPUESTA")>>

\* 4. The program left the CPU; the message that says so is the last one.
Devuelto(c, p) ==
  /\ Vacia(c)
  /\ \/ AvisosY(aKernel[c], "PROGRAMATERMINADO")
     \/ /\ AvisosY(aKernel[c], "FINDEQUATUM") \/ AvisosY(aKernel[c], "ABORTO")
        /\ aKernel[c][Len(aKernel[c])].pid = p

Etapa(c, p) == EnCamino(c, p) \/ Recibido(c, p) \/ EnCurso(c, p) \/ Devuelto(c, p)

\* A CPU is in one stage of the dispatch of the process of colaExec it runs,
\* and is empty when there is none.
Protocolo ==
  /\ \A c \in CPUs : c \notin Ocupadas =>
       Vacia(c) /\ (aKernel[c] = <<>> \/ aKernel[c] = <<Aviso("CPU")>>)
  /\ \A p \in ToSet(colaExec) : socketCPU[p] \in CPUs /\ Etapa(socketCPU[p], p)

IInv == /\ Tipos /\ Semaforos /\ ManoPcp /\ SinSobresaltos
        /\ UnSoloLugar /\ CpuEnUnLugar /\ Protocolo

\* No PCB of c is older than what its process executed: the one c executes,
\* the one on its way to c, the one on its way back.  While c waits for an
\* answer it has executed the instruction it is at.
AdelantoEn(c) ==
  /\ unPid[c] # Nadie =>
       progreso[unPid[c]] <= IF fase[c] = "respuesta" THEN unPc[c] + 1 ELSE unPc[c]
  /\ \A m \in ToSet(aCpu[c]) : m.tipo = "PCB" => progreso[m.pid] <= m.pc
  /\ \A m \in ToSet(aKernel[c]) :
       m.tipo \in {"FINDEQUATUM", "ABORTO"} => progreso[m.pid] <= m.pc

\* Nor is the one the Kernel keeps, until it sends it.
Adelanto ==
  /\ \A c \in CPUs : AdelantoEn(c)
  /\ \A p \in Procs \ (ToSet(colaExec) \cup ToSet(colaExit)) : progreso[p] <= pcb[p]
=============================================================================
