-------------------------- MODULE PlanificacionInv --------------------------
(* The inductive invariant of Planificacion when there is one CPU, c.       *)
EXTENDS Planificacion

SP == INSTANCE SemaforosProofs WITH MaxValor <- 999

\* The types that the proofs use.
TiposUnaCpu(c) ==
  /\ porLlegar \subseteq Procs
  /\ colaNew \in Seq(Procs) /\ colaReady \in Seq(Procs)
  /\ colaExec \in Seq(Procs) /\ colaExit \in Seq(Procs)
  /\ semReady \in Nat /\ semCpu \in Nat
  /\ plp \in Procs \cup {Nadie} /\ pcpProc \in Procs \cup {Nadie}
  /\ socketCPU \in [Procs -> CPUs \cup {Nadie}]
  /\ pcb \in [Procs -> Nat] /\ progreso \in [Procs -> Nat]
  /\ abortado = [p \in Procs |-> FALSE]
  /\ unPc[c] \in Nat
  /\ codigoAborto[c] = "ABORTO"
  /\ \A f \in {aKernel, aCpu} : DOMAIN f = CPUs
  /\ DOMAIN unPid = CPUs
  /\ \A f \in {unPc, semHayScript, semDestruirPCB} : DOMAIN f = CPUs
  /\ \A f \in {fase, codigoAborto} : DOMAIN f = CPUs
  /\ \A f \in {programaFinalizado, programaAbortado, programaBloqueado} : DOMAIN f = CPUs

\* How many times p is in a queue, or in the hand of a planner.
Veces(q, p) == Cardinality({i \in DOMAIN q : q[i] = p})
EnLaMano(x, p) == IF x = p THEN 1 ELSE 0

Cuenta(p) ==
  Veces(colaNew, p) + Veces(colaReady, p) + Veces(colaExec, p) + Veces(colaExit, p)
    + EnLaMano(plp, p) + EnLaMano(pcpProc, p)

\* The place of p: one while it is not blocked; when it is, none but colaExec,
\* where it stays until its CPU stops.
Lugar(p) ==
  /\ p \in porLlegar => Cuenta(p) = 0 /\ pidio[p] = Nadie
  /\ p \notin porLlegar =>
       Cuenta(p) = IF pidio[p] = Nadie THEN 1 ELSE Veces(colaExec, p)

\* semReady counts colaReady, less the one the short-term planner has already
\* taken the right to; and what it holds in ejecutar().
Planificador ==
  /\ semReady + (IF pcPcp \in {"espera_cpu", "saca"} THEN 1 ELSE 0) = Len(colaReady)
  /\ semCpu + (IF pcPcp = "saca" THEN 1 ELSE 0) = Len(colaCpu)
  /\ pcPcp \in {"ejecutar", "encola"} =>
       pcpProc \in Procs /\ pcpCpu \in CPUs /\ socketCPU[pcpProc] = pcpCpu
  /\ pcPcp \notin {"ejecutar", "encola"} => pcpProc = Nadie /\ pcpCpu = Nadie
  /\ pcPcp \in {"espera_ready", "espera_cpu", "saca", "ejecutar", "encola"}

\* The PCB the Kernel keeps of a process that does not run is not older than
\* what was executed.
PcbAlDia ==
  \A p \in Procs \ (ToSet(colaExec) \cup ToSet(colaExit)) : progreso[p] <= pcb[p]

SemsAlDia ==
  /\ SP!IInv
  /\ \A p \in Procs : pidio[p] \in Sems \cup {Nadie}

\* The script thread of c has nothing to do, or is on its way out of a program
\* that ended.
Quieta(c) ==
  \/ fase[c] = "espera"
  \/ /\ fase[c] \in {"tras_fin", "ciclo"}
     /\ programaFinalizado[c] /\ ~programaAbortado[c] /\ ~programaBloqueado[c]

\* c holds no PCB.
SinPcb(c) ==
  /\ unPid[c] = Nadie /\ semHayScript[c] = 0 /\ semDestruirPCB[c] = 1
  /\ Quieta(c)

\* The messages that need no answer, and a socket where they come before m.
Avisos == {Aviso("AVISA")} \cup {ConSem("PROCESOSIGNAL", s) : s \in Sems}
AvisosY(q, m) == Front(q) \in Seq(Avisos) /\ q = Append(Front(q), m)

\* Nobody runs: c has just connected, is idle, or is held by the short-term
\* planner.
CpuLibre(c) ==
  /\ colaExec = <<>> /\ SinPcb(c) /\ aCpu[c] = <<>>
  /\ \/ aKernel[c] = <<Aviso("CPU")>> /\ colaCpu = <<>> /\ pcpCpu = Nadie
     \/ aKernel[c] = <<>> /\ colaCpu = <<c>> /\ pcpCpu = Nadie
     \/ aKernel[c] = <<>> /\ colaCpu = <<>> /\ pcpCpu = c

(* The stages of the dispatch of p to c.                                    *)

\* 1. The PCB is in the socket.
EnCamino(c, p) ==
  /\ SinPcb(c) /\ pidio[p] = Nadie
  /\ aKernel[c] = <<>> /\ aCpu[c] = <<Mensaje("PCB", p, pcb[p])>>
  /\ progreso[p] <= pcb[p]

\* 2. The receiving thread has it and has posted semHayScript.
Recibido(c, p) ==
  /\ unPid[c] = p /\ semHayScript[c] = 1 /\ semDestruirPCB[c] = 0
  /\ Quieta(c) /\ pidio[p] = Nadie
  /\ aKernel[c] = <<>> /\ aCpu[c] = <<>>
  /\ progreso[p] <= unPc[c]

\* The script thread has the PCB of p.
EnCurso(c, p) ==
  /\ unPid[c] = p /\ semHayScript[c] = 0 /\ semDestruirPCB[c] = 0
  /\ ~programaFinalizado[c]

\* 3. It executes, or it has read past the end of the code index.
Ejecutando(c, p) ==
  /\ EnCurso(c, p) /\ fase[c] \in {"ciclo", "rota"}
  /\ ~programaBloqueado[c] /\ pidio[p] = Nadie
  /\ aKernel[c] \in Seq(Avisos) /\ aCpu[c] = <<>>
  /\ progreso[p] <= unPc[c]

\* 4. It waits for an answer: the Kernel has not read what it asked, or the
\* answer is on its way.  The handler of PROCESOWAIT has already blocked p when
\* the answer is 1.
Esperando(c, p) ==
  /\ EnCurso(c, p) /\ fase[c] = "respuesta"
  /\ ~programaBloqueado[c] /\ ~programaAbortado[c]
  /\ progreso[p] <= unPc[c] + 1
  /\ \/ /\ aCpu[c] = <<>> /\ pidio[p] = Nadie
        /\ \/ AvisosY(aKernel[c], Aviso("PIDE"))
           \/ \E s \in Sems : AvisosY(aKernel[c], ConSem("PROCESOWAIT", s))
     \/ /\ aKernel[c] = <<>> /\ pidio[p] = Nadie
        /\ aCpu[c] \in {<<Aviso("RESPUESTA")>>, <<Mensaje("PROCESOWAIT", Nadie, 0)>>}
     \/ /\ aKernel[c] = <<>> /\ pidio[p] # Nadie
        /\ aCpu[c] = <<Mensaje("PROCESOWAIT", Nadie, 1)>>

\* 5. It knows that p blocks.
Parando(c, p) ==
  /\ EnCurso(c, p) /\ fase[c] = "ciclo"
  /\ programaBloqueado[c] /\ ~programaAbortado[c] /\ pidio[p] # Nadie
  /\ aKernel[c] = <<>> /\ aCpu[c] = <<>>
  /\ progreso[p] <= unPc[c]

\* 6. The program left the CPU; the message that says so is the last one.
Devuelto(c, p) ==
  /\ SinPcb(c) /\ aCpu[c] = <<>>
  /\ \/ AvisosY(aKernel[c], Aviso("PROGRAMATERMINADO")) /\ pidio[p] = Nadie
     \/ LET n == Last(aKernel[c]).pc
        IN  /\ n \in Nat /\ progreso[p] <= n
            /\ \/ /\ pidio[p] = Nadie
                  /\ \/ AvisosY(aKernel[c], Mensaje("FINDEQUATUM", p, n))
                     \/ AvisosY(aKernel[c], Mensaje("ABORTO", p, n))
               \/ /\ pidio[p] # Nadie
                  /\ aKernel[c] = <<Mensaje("SEBLOQUEOELPROCESO", p, n)>>

Etapa(c, p) ==
  \/ EnCamino(c, p) \/ Recibido(c, p) \/ Ejecutando(c, p)
  \/ Esperando(c, p) \/ Parando(c, p) \/ Devuelto(c, p)

\* c runs p, and only p.
Ocupada(c, p) ==
  /\ colaExec = <<p>> /\ socketCPU[p] = c
  /\ colaCpu = <<>> /\ pcpCpu = Nadie
  /\ Etapa(c, p)

LaCpu(c) == CpuLibre(c) \/ \E p \in Procs : Ocupada(c, p)

IInvUnaCpu(c) ==
  /\ TiposUnaCpu(c) /\ SemsAlDia /\ Planificador /\ PcbAlDia
  /\ \A p \in Procs : Lugar(p)
  /\ LaCpu(c)
=============================================================================
