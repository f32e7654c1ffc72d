--------------------------- MODULE DespachoProofs ---------------------------
(* IInv is an inductive invariant of Despacho, and what follows from it.    *)
EXTENDS DespachoInv, ListasLemas

\* The initial state satisfies IInv: every CPU has announced itself and
\* nothing else has happened.
LEMMA IInvInit == Init => IInv
<1> SUFFICES ASSUME Init PROVE IInv
  OBVIOUS
<1> USE DEF Init
<1>0. ToSet(<<>>) = {} /\ IsInjective(<<>>)
  BY DEF ToSet, IsInjective
<1>1. Tipos
  <2>1. Aviso("CPU") \in Mensajes
    BY DEF Aviso, Mensaje, Mensajes
  <2>2. <<Aviso("CPU")>> \in Seq(Mensajes)
    BY <2>1
  <2>3. socketCPU \in [Procs -> CPUs \cup {Nadie}]
    BY BasuraSupuesto
  <2> QED BY <2>2, <2>3 DEF Tipos
<1>2. Semaforos
  BY DEF Semaforos
<1>3. ManoPcp
  BY DEF ManoPcp
<1>4. SinSobresaltos
  BY DEF SinSobresaltos
<1>5. UnSoloLugar
  BY <1>0 DEF UnSoloLugar, EnMano
<1>6. Ocupadas = {}
  BY <1>0 DEF Ocupadas
<1>7. CpuEnUnLugar
  <2>1. SinAtender = CPUs
    BY DEF SinAtender, Llega, Aviso, Mensaje
  <2> QED BY <1>0, <1>6, <2>1 DEF CpuEnUnLugar, EnMano
<1>8. Protocolo
  BY <1>0, <1>6 DEF Protocolo, Vacia, Quieta
<1> QED BY <1>1, <1>2, <1>3, <1>4, <1>5, <1>7, <1>8 DEF IInv

\* Mensaje and Aviso build messages, with the fields they are given.
LEMMA MensajesTipo ==
  ASSUME NEW t \in {"CPU", "PCB", "RESPUESTA", "AVISA", "PIDE", "PROGRAMATERMINADO",
                    "FINDEQUATUM", "SEBLOQUEOELPROCESO", "ABORTO", "ABORTOPORCONSOLA"}
  PROVE  /\ Aviso(t) \in Mensajes
         /\ \A p \in Procs \cup {Nadie}, n \in Nat : Mensaje(t, p, n) \in Mensajes
         /\ Aviso(t).tipo = t
         /\ \A p, n : Mensaje(t, p, n).tipo = t /\ Mensaje(t, p, n).pid = p
BY DEF Aviso, Mensaje, Mensajes

\* The fields of the CPU d are as they were.
Igual(d) ==
  /\ aKernel'[d] = aKernel[d] /\ aCpu'[d] = aCpu[d]
  /\ unPid'[d] = unPid[d]
  /\ semHayScript'[d] = semHayScript[d] /\ semDestruirPCB'[d] = semDestruirPCB[d]
  /\ fase'[d] = fase[d]
  /\ programaFinalizado'[d] = programaFinalizado[d]
  /\ programaAbortado'[d] = programaAbortado[d]

\* A CPU whose fields do not change stays empty, or quiet.
LEMMA IgualVacia ==
  ASSUME NEW d \in CPUs, Igual(d)
  PROVE  /\ Vacia(d)' <=> Vacia(d)
         /\ Quieta(d)' <=> Quieta(d)
BY DEF Igual, Vacia, Quieta

\* A CPU whose fields do not change stays in its stage of the dispatch of p.
LEMMA IgualEtapa ==
  ASSUME NEW d \in CPUs, Igual(d), NEW p, pcb'[p] = pcb[p]
  PROVE  Etapa(d, p)' <=> Etapa(d, p)
BY IgualVacia DEF Igual, Etapa, EnCamino, Recibido, EnCurso, Devuelto, Quieta,
                  Vacia, SoloAvisos, AvisosY

\* A step of the CPU c alone preserves IInv if it leaves c in a stage of the
\* dispatch of the process it runs, or empty if there is none.
LEMMA PasoDeCpu ==
  ASSUME IInv, Tipos', UNCHANGED <<kernel, fallo>>,
         NEW c \in CPUs, \A d \in CPUs \ {c} : Igual(d),
         \A d \in CPUs : ~programaBloqueado'[d] /\ codigoAborto'[d] = "ABORTO",
         Llega(aKernel, c, "CPU")' <=> Llega(aKernel, c, "CPU"),
         c \notin Ocupadas =>
           Vacia(c)' /\ (aKernel'[c] = <<>> \/ aKernel'[c] = <<Aviso("CPU")>>),
         \A p \in ToSet(colaExec) : socketCPU[p] = c => Etapa(c, p)'
  PROVE  IInv'
<1> USE DEF kernel, colas, planes, procesos
<1>1. Semaforos' /\ ManoPcp' /\ UnSoloLugar'
  BY DEF IInv, Semaforos, ManoPcp, UnSoloLugar
<1>2. SinSobresaltos'
  BY DEF IInv, SinSobresaltos
<1>3. Ocupadas' = Ocupadas
  BY DEF Ocupadas
<1>4. SinAtender' = SinAtender
  <2>1. \A d \in CPUs : Llega(aKernel, d, "CPU")' <=> Llega(aKernel, d, "CPU")
    BY DEF Llega, Igual
  <2> QED BY <2>1 DEF SinAtender
<1>5. CpuEnUnLugar'
  BY <1>3, <1>4 DEF IInv, CpuEnUnLugar
<1>6. Protocolo'
  <2>1. ASSUME NEW d \in CPUs, d \notin Ocupadas
        PROVE  (Vacia(d) /\ (aKernel[d] = <<>> \/ aKernel[d] = <<Aviso("CPU")>>))'
    <3>1. CASE d = c
      BY <2>1, <3>1 DEF Aviso, Mensaje
    <3>2. CASE d # c
      <4>1. Vacia(d) /\ (aKernel[d] = <<>> \/ aKernel[d] = <<Aviso("CPU")>>)
        BY <2>1 DEF IInv, Protocolo
      <4> QED BY <4>1, <3>2, IgualVacia DEF Igual, Aviso, Mensaje
    <3> QED BY <3>1, <3>2
  <2>2. ASSUME NEW p \in ToSet(colaExec)
        PROVE  (socketCPU[p] \in CPUs /\ Etapa(socketCPU[p], p))'
    <3>1. socketCPU[p] \in CPUs /\ Etapa(socketCPU[p], p)
      BY <2>2 DEF IInv, Protocolo
    <3>2. CASE socketCPU[p] = c
      BY <3>1, <3>2
    <3>3. CASE socketCPU[p] # c
      BY <3>1, <3>3, IgualEtapa
    <3> QED BY <3>2, <3>3
  <2> QED BY <2>1, <2>2, <1>3 DEF Protocolo
<1> QED BY <1>1, <1>2, <1>5, <1>6 DEF IInv
-----------------------------------------------------------------------------
(* The steps of a CPU.                                                      *)

\* colaExec holds processes.
LEMMA ExecEnProcs == ASSUME Tipos PROVE ToSet(colaExec) \subseteq Procs
BY LenProperties, ElementOfSeq DEF Tipos, ToSet

\* The process a CPU runs is the only one, and is in a stage of its dispatch.
LEMMA CuandoOcupa ==
  ASSUME IInv, NEW c \in CPUs, c \in Ocupadas
  PROVE  \E p \in ToSet(colaExec) :
           /\ socketCPU[p] = c /\ Etapa(c, p) /\ p \in Procs
           /\ \A q \in ToSet(colaExec) : socketCPU[q] = c => q = p
           /\ ~Llega(aKernel, c, "CPU")
<1>1. PICK p \in ToSet(colaExec) : socketCPU[p] = c
  BY DEF Ocupadas
<1>2. Etapa(c, p)
  BY <1>1 DEF IInv, Protocolo
<1>3. \A q \in ToSet(colaExec) : socketCPU[q] = c => q = p
  BY <1>1 DEF IInv, CpuEnUnLugar
<1>4. ~Llega(aKernel, c, "CPU")
  BY DEF IInv, CpuEnUnLugar, SinAtender
<1>5. p \in Procs
  BY ExecEnProcs DEF IInv
<1> QED BY <1>1, <1>2, <1>3, <1>4, <1>5

\* A script thread that is working works for the process its CPU runs.
LEMMA CuandoCorre ==
  ASSUME IInv, NEW c \in CPUs, ~Quieta(c)
  PROVE  \E p \in ToSet(colaExec) :
           /\ socketCPU[p] = c /\ EnCurso(c, p) /\ p \in Procs
           /\ \A q \in ToSet(colaExec) : socketCPU[q] = c => q = p
           /\ c \in Ocupadas /\ ~Llega(aKernel, c, "CPU")
<1>1. c \in Ocupadas
  BY DEF IInv, Protocolo, Vacia
<1>2. PICK p \in ToSet(colaExec) : socketCPU[p] = c
  BY <1>1 DEF Ocupadas
<1>3. EnCurso(c, p)
  BY <1>2 DEF IInv, Protocolo, Etapa, EnCamino, Recibido, Devuelto, Vacia
<1>4. \A q \in ToSet(colaExec) : socketCPU[q] = c => q = p
  BY <1>2 DEF IInv, CpuEnUnLugar
<1>5. ~Llega(aKernel, c, "CPU")
  BY <1>1 DEF IInv, CpuEnUnLugar, SinAtender
<1>6. p \in Procs
  BY ExecEnProcs DEF IInv
<1> QED BY <1>1, <1>2, <1>3, <1>4, <1>5, <1>6

\* What a message at the end of a socket makes of it.
LEMMA AvisosAgrega ==
  ASSUME NEW q \in Seq(Mensajes), NEW m \in Mensajes, SoloAvisos(q)
  PROVE  /\ m.tipo = "AVISA" => SoloAvisos(Append(q, m))
         /\ \A t : m.tipo = t => AvisosY(Append(q, m), t)
         /\ Append(q, m)[Len(Append(q, m))] = m
<1> DEFINE r == Append(q, m)
<1>1. /\ Len(r) = Len(q) + 1 /\ r # <<>> /\ r[Len(q) + 1] = m
      /\ \A i \in 1..Len(q) : r[i] = q[i]
      /\ Len(q) \in Nat
  BY AppendProperties, LenProperties
<1> HIDE DEF r
<1>2. \A i \in 1..Len(q) : r[i].tipo = "AVISA"
  BY <1>1 DEF SoloAvisos
<1>3. \A i \in 1..Len(q) + 1 : i \in 1..Len(q) \/ i = Len(q) + 1
  BY <1>1
<1>4. (Len(q) + 1) - 1 = Len(q)
  BY <1>1
<1>5. m.tipo = "AVISA" => SoloAvisos(r)
  BY <1>1, <1>2, <1>3 DEF SoloAvisos
<1>6. \A t : m.tipo = t => AvisosY(r, t)
  BY <1>1, <1>2, <1>4 DEF AvisosY
<1> QED BY <1>1, <1>5, <1>6 DEF r

\* Taking the only message off a socket empties it.
LEMMA SacaUnico ==
  ASSUME NEW s \in [CPUs -> Seq(Mensajes)], NEW c \in CPUs, Tail(s[c]) = <<>>
  PROVE  /\ Sacar(s, c) \in [CPUs -> Seq(Mensajes)] /\ Sacar(s, c)[c] = <<>>
         /\ \A d \in CPUs \ {c} : Sacar(s, c)[d] = s[d]
<1>1. Sacar(s, c) = [s EXCEPT ![c] = Tail(s[c])]
  BY DEF Sacar
<1>2. Sacar(s, c) = [s EXCEPT ![c] = <<>>]
  BY <1>1
<1>3. <<>> \in Seq(Mensajes)
  OBVIOUS
<1> QED BY <1>2, <1>3

\* The end of an instruction keeps the types and leaves the other CPUs alone.
LEMMA AvanzaTipos ==
  ASSUME Tipos, NEW c \in CPUs, Avanza(c)
  PROVE  /\ unPc' \in [CPUs -> Nat] /\ quantum_aux' \in [CPUs -> Int]
         /\ fase' \in [CPUs -> {"espera", "ciclo", "respuesta", "tras_fin", "rota"}]
         /\ fase'[c] = "ciclo"
         /\ \A d \in CPUs \ {c} : fase'[d] = fase[d]
<1> USE DEF Tipos, Avanza
<1>1. unPc' \in [CPUs -> Nat]
  <2>1. [unPc EXCEPT ![c] = @ + 1] \in [CPUs -> Nat]
    OBVIOUS
  <2> QED BY <2>1
<1>2. quantum_aux' \in [CPUs -> Int]
  OBVIOUS
<1> QED BY <1>1, <1>2

\* Counting an instruction keeps the type of progreso.
LEMMA EjecutadaTipos ==
  ASSUME Tipos, NEW c \in CPUs, Ejecutada(c), unPid[c] \in Procs
  PROVE  progreso' \in [Procs -> Nat]
<1>0. progreso \in [Procs -> Nat] /\ unPc[c] \in Nat
  BY DEF Tipos
<1>1. unPc[c] + 1 \in Nat
  BY <1>0
<1> DEFINE n == unPc[c] + 1
           p == unPid[c]
<1>2. progreso' = [progreso EXCEPT ![p] = n]
  BY DEF Ejecutada
<1> HIDE DEF n, p
<1>3. n \in Nat
  BY <1>1 DEF n
<1> QED BY <1>0, <1>2, <1>3 DEF p

\* A local primitive keeps the CPU executing the process it runs.
LEMMA PasoLocal ==
  ASSUME IInv, NEW c \in CPUs, Local(c) PROVE IInv'
<1> USE DEF Local, Toca, Sigue, banderas
<1>0. Tipos /\ unPid[c] \in Procs
  BY DEF IInv
<1>a. /\ unPc' \in [CPUs -> Nat] /\ quantum_aux' \in [CPUs -> Int]
      /\ fase' \in [CPUs -> {"espera", "ciclo", "respuesta", "tras_fin", "rota"}]
      /\ fase'[c] = "ciclo"
      /\ \A d \in CPUs \ {c} : fase'[d] = fase[d]
      /\ progreso' \in [Procs -> Nat]
  BY <1>0, AvanzaTipos, EjecutadaTipos
<1>1. Tipos'
  BY <1>0, <1>a DEF Tipos, kernel, colas, planes, procesos
<1>2. ~Quieta(c)
  BY DEF Quieta
<1>3. PICK p \in ToSet(colaExec) :
        /\ socketCPU[p] = c /\ EnCurso(c, p) /\ p \in Procs
        /\ \A q \in ToSet(colaExec) : socketCPU[q] = c => q = p
        /\ c \in Ocupadas /\ ~Llega(aKernel, c, "CPU")
  BY <1>2, CuandoCorre
<1>4. EnCurso(c, p)'
  BY <1>3, <1>a DEF EnCurso, SoloAvisos
<1>5. \A d \in CPUs \ {c} : Igual(d)
  BY <1>a DEF Igual
<1> QED BY <1>1, <1>3, <1>4, <1>5, PasoDeCpu DEF IInv, SinSobresaltos, Etapa, Llega

\* A message without answer adds a notice to the socket of the process that runs.
LEMMA PasoAvisa ==
  ASSUME IInv, NEW c \in CPUs, Avisa(c) PROVE IInv'
<1> USE DEF Avisa, Toca, Sigue, banderas
<1>0. Tipos /\ unPid[c] \in Procs /\ fase[c] = "ciclo"
  BY DEF IInv
<1>2. ~Quieta(c)
  BY <1>0 DEF Quieta
<1>3. PICK p \in ToSet(colaExec) :
        /\ socketCPU[p] = c /\ EnCurso(c, p) /\ p \in Procs
        /\ \A q \in ToSet(colaExec) : socketCPU[q] = c => q = p
        /\ c \in Ocupadas /\ ~Llega(aKernel, c, "CPU")
  BY <1>2, CuandoCorre
<1>4. aCpu[c] = <<>> /\ SoloAvisos(aKernel[c]) /\ aKernel[c] \in Seq(Mensajes)
  BY <1>0, <1>3 DEF EnCurso, Tipos
<1>a. /\ unPc' \in [CPUs -> Nat] /\ quantum_aux' \in [CPUs -> Int]
      /\ fase' \in [CPUs -> {"espera", "ciclo", "respuesta", "tras_fin", "rota"}]
      /\ fase'[c] = "ciclo"
      /\ \A d \in CPUs \ {c} : fase'[d] = fase[d]
      /\ progreso' \in [Procs -> Nat]
  BY <1>0, AvanzaTipos, EjecutadaTipos
<1> DEFINE m == Mensaje("AVISA", Nadie, 0)
<1>5. m \in Mensajes /\ m.tipo = "AVISA" /\ m.pid = Nadie
  BY DEF m, Mensaje, Mensajes
<1>6. aKernel'[c] = Append(aKernel[c], m) /\ \A d \in CPUs \ {c} : aKernel'[d] = aKernel[d]
  BY <1>0 DEF Tipos, Mandar, Aviso, Devuelve
<1>7. aKernel' \in [CPUs -> Seq(Mensajes)]
  BY <1>0, <1>5 DEF Tipos, Mandar, Aviso, Devuelve
<1> HIDE DEF m
<1>8. /\ AvisosY(aKernel'[c], "AVISA") /\ ("AVISA" = "AVISA" => SoloAvisos(aKernel'[c]))
      /\ aKernel'[c][Len(aKernel'[c])] = m
  BY <1>4, <1>5, <1>6, AvisosAgrega
<1>9. ~Llega(aKernel, c, "CPU")'
  <2>1. aKernel[c] = <<>> \/ Head(aKernel'[c]) = Head(aKernel[c])
    BY <1>4, <1>5, <1>6, HeadTailAppend
  <2>2. CASE aKernel[c] = <<>>
    BY <2>2, <1>4, <1>5, <1>6 DEF Llega
  <2>3. CASE aKernel[c] # <<>>
    BY <2>1, <2>3, <1>3 DEF Llega
  <2> QED BY <2>2, <2>3
<1>10. Tipos'
  BY <1>0, <1>a, <1>7 DEF Tipos, kernel, colas, planes, procesos
<1>11. EnCurso(c, p)'
  BY <1>3, <1>4, <1>8, <1>a DEF EnCurso
<1>12. \A d \in CPUs \ {c} : Igual(d)
  BY <1>a, <1>6 DEF Igual
<1> QED BY <1>3, <1>9, <1>10, <1>11, <1>12, PasoDeCpu DEF IInv, SinSobresaltos, Etapa

\* A request is the last message of the socket, and its thread waits.
LEMMA PasoPide ==
  ASSUME IInv, NEW c \in CPUs, Pide(c) PROVE IInv'
<1> USE DEF Pide, Toca, Sigue, banderas, carga
<1>0. Tipos /\ unPid[c] \in Procs /\ fase[c] = "ciclo"
  BY DEF IInv
<1>2. ~Quieta(c)
  BY <1>0 DEF Quieta
<1>3. PICK p \in ToSet(colaExec) :
        /\ socketCPU[p] = c /\ EnCurso(c, p) /\ p \in Procs
        /\ \A q \in ToSet(colaExec) : socketCPU[q] = c => q = p
        /\ c \in Ocupadas /\ ~Llega(aKernel, c, "CPU")
  BY <1>2, CuandoCorre
<1>4. aCpu[c] = <<>> /\ SoloAvisos(aKernel[c]) /\ aKernel[c] \in Seq(Mensajes)
  BY <1>0, <1>3 DEF EnCurso, Tipos
<1> DEFINE m == Mensaje("PIDE", Nadie, 0)
<1>5. m \in Mensajes /\ m.tipo = "PIDE" /\ m.pid = Nadie
  BY DEF m, Mensaje, Mensajes
<1>6. aKernel'[c] = Append(aKernel[c], m) /\ \A d \in CPUs \ {c} : aKernel'[d] = aKernel[d]
  BY <1>0 DEF Tipos, Mandar, Aviso, Devuelve
<1>7. aKernel' \in [CPUs -> Seq(Mensajes)]
  BY <1>0, <1>5 DEF Tipos, Mandar, Aviso, Devuelve
<1> HIDE DEF m
<1>8. /\ AvisosY(aKernel'[c], "PIDE") /\ ("PIDE" = "AVISA" => SoloAvisos(aKernel'[c]))
      /\ aKernel'[c][Len(aKernel'[c])] = m
  BY <1>4, <1>5, <1>6, AvisosAgrega
<1>9. ~Llega(aKernel, c, "CPU")'
  <2>1. aKernel[c] = <<>> \/ Head(aKernel'[c]) = Head(aKernel[c])
    BY <1>4, <1>5, <1>6, HeadTailAppend
  <2>2. CASE aKernel[c] = <<>>
    BY <2>2, <1>4, <1>5, <1>6 DEF Llega
  <2>3. CASE aKernel[c] # <<>>
    BY <2>1, <2>3, <1>3 DEF Llega
  <2> QED BY <2>2, <2>3
<1>a. progreso' \in [Procs -> Nat]
  BY <1>0, EjecutadaTipos
<1>b. /\ fase' \in [CPUs -> {"espera", "ciclo", "respuesta", "tras_fin", "rota"}]
      /\ fase'[c] = "respuesta" /\ \A d \in CPUs \ {c} : fase'[d] = fase[d]
  BY <1>0 DEF Tipos
<1>10. Tipos'
  BY <1>0, <1>a, <1>b, <1>7 DEF Tipos, kernel, colas, planes, procesos
<1>11. EnCurso(c, p)'
  BY <1>3, <1>4, <1>8, <1>b DEF EnCurso
<1>12. \A d \in CPUs \ {c} : Igual(d)
  BY <1>b, <1>6 DEF Igual
<1> QED BY <1>3, <1>9, <1>10, <1>11, <1>12, PasoDeCpu DEF IInv, SinSobresaltos, Etapa

\* A primitive that aborts the program only marks it: the PCB is still in the CPU.
LEMMA PasoFalla ==
  ASSUME IInv, NEW c \in CPUs, Falla(c) PROVE IInv'
<1> USE DEF Falla, Toca, Sigue, banderas
<1>0. Tipos /\ unPid[c] \in Procs /\ fase[c] = "ciclo"
  BY DEF IInv
<1>2. ~Quieta(c)
  BY <1>0 DEF Quieta
<1>3. PICK p \in ToSet(colaExec) :
        /\ socketCPU[p] = c /\ EnCurso(c, p) /\ p \in Procs
        /\ \A q \in ToSet(colaExec) : socketCPU[q] = c => q = p
        /\ c \in Ocupadas /\ ~Llega(aKernel, c, "CPU")
  BY <1>2, CuandoCorre
<1>4. aCpu[c] = <<>> /\ SoloAvisos(aKernel[c]) /\ aKernel[c] \in Seq(Mensajes)
  BY <1>0, <1>3 DEF EnCurso, Tipos
<1>a. /\ unPc' \in [CPUs -> Nat] /\ quantum_aux' \in [CPUs -> Int]
      /\ fase' \in [CPUs -> {"espera", "ciclo", "respuesta", "tras_fin", "rota"}]
      /\ fase'[c] = "ciclo"
      /\ \A d \in CPUs \ {c} : fase'[d] = fase[d]
      /\ progreso' \in [Procs -> Nat]
  BY <1>0, AvanzaTipos, EjecutadaTipos
<1>b. /\ programaAbortado' \in [CPUs -> BOOLEAN]
      /\ codigoAborto' \in [CPUs -> {"ABORTO", "ABORTOPORCONSOLA"}]
      /\ \A d \in CPUs \ {c} : programaAbortado'[d] = programaAbortado[d]
      /\ \A d \in CPUs : codigoAborto'[d] = "ABORTO"
  BY <1>0 DEF Tipos, IInv, SinSobresaltos
<1>10. Tipos'
  BY <1>0, <1>a, <1>b DEF Tipos, kernel, colas, planes, procesos
<1>11. EnCurso(c, p)'
  BY <1>3, <1>4, <1>a DEF EnCurso, SoloAvisos
<1>12. \A d \in CPUs \ {c} : Igual(d)
  BY <1>a, <1>b DEF Igual
<1> QED BY <1>3, <1>b, <1>10, <1>11, <1>12, PasoDeCpu
        DEF IInv, SinSobresaltos, Etapa, Llega

\* A CPU that reads past the code index keeps its process.
LEMMA PasoFueraDeIndice ==
  ASSUME IInv, NEW c \in CPUs, FueraDeIndice(c) PROVE IInv'
<1> USE DEF FueraDeIndice, Sigue, banderas, carga
<1>0. Tipos /\ unPid[c] \in Procs /\ fase[c] = "ciclo"
  BY DEF IInv
<1>2. ~Quieta(c)
  BY <1>0 DEF Quieta
<1>3. PICK p \in ToSet(colaExec) :
        /\ socketCPU[p] = c /\ EnCurso(c, p) /\ p \in Procs
        /\ \A q \in ToSet(colaExec) : socketCPU[q] = c => q = p
        /\ c \in Ocupadas /\ ~Llega(aKernel, c, "CPU")
  BY <1>2, CuandoCorre
<1>4. aCpu[c] = <<>> /\ SoloAvisos(aKernel[c]) /\ aKernel[c] \in Seq(Mensajes)
  BY <1>0, <1>3 DEF EnCurso, Tipos
<1>b. /\ fase' \in [CPUs -> {"espera", "ciclo", "respuesta", "tras_fin", "rota"}]
      /\ fase'[c] = "rota" /\ \A d \in CPUs \ {c} : fase'[d] = fase[d]
  BY <1>0 DEF Tipos
<1>10. Tipos'
  BY <1>0, <1>b DEF Tipos, kernel, colas, planes, procesos
<1>11. EnCurso(c, p)'
  BY <1>3, <1>4, <1>b DEF EnCurso, SoloAvisos
<1>12. \A d \in CPUs \ {c} : Igual(d)
  BY <1>b DEF Igual
<1> QED BY <1>3, <1>10, <1>11, <1>12, PasoDeCpu DEF IInv, SinSobresaltos, Etapa, Llega

\* finalizar() gives the process back: PROGRAMATERMINADO is its last message.
LEMMA PasoFinalizar ==
  ASSUME IInv, NEW c \in CPUs, Finalizar(c) PROVE IInv'
<1> USE DEF Finalizar, Toca, Sigue, banderas
<1>0. Tipos /\ unPid[c] \in Procs /\ fase[c] = "ciclo"
  BY DEF IInv
<1>2. ~Quieta(c)
  BY <1>0 DEF Quieta
<1>3. PICK p \in ToSet(colaExec) :
        /\ socketCPU[p] = c /\ EnCurso(c, p) /\ p \in Procs
        /\ \A q \in ToSet(colaExec) : socketCPU[q] = c => q = p
        /\ c \in Ocupadas /\ ~Llega(aKernel, c, "CPU")
  BY <1>2, CuandoCorre
<1>4. aCpu[c] = <<>> /\ SoloAvisos(aKernel[c]) /\ aKernel[c] \in Seq(Mensajes)
  BY <1>0, <1>3 DEF EnCurso, Tipos
<1> DEFINE m == Mensaje("PROGRAMATERMINADO", Nadie, 0)
<1>5. m \in Mensajes /\ m.tipo = "PROGRAMATERMINADO" /\ m.pid = Nadie
  BY DEF m, Mensaje, Mensajes
<1>6. aKernel'[c] = Append(aKernel[c], m) /\ \A d \in CPUs \ {c} : aKernel'[d] = aKernel[d]
  BY <1>0 DEF Tipos, Mandar, Aviso, Devuelve
<1>7. aKernel' \in [CPUs -> Seq(Mensajes)]
  BY <1>0, <1>5 DEF Tipos, Mandar, Aviso, Devuelve
<1> HIDE DEF m
<1>8. /\ AvisosY(aKernel'[c], "PROGRAMATERMINADO") /\ ("PROGRAMATERMINADO" = "AVISA" => SoloAvisos(aKernel'[c]))
      /\ aKernel'[c][Len(aKernel'[c])] = m
  BY <1>4, <1>5, <1>6, AvisosAgrega
<1>9. ~Llega(aKernel, c, "CPU")'
  <2>1. aKernel[c] = <<>> \/ Head(aKernel'[c]) = Head(aKernel[c])
    BY <1>4, <1>5, <1>6, HeadTailAppend
  <2>2. CASE aKernel[c] = <<>>
    BY <2>2, <1>4, <1>5, <1>6 DEF Llega
  <2>3. CASE aKernel[c] # <<>>
    BY <2>1, <2>3, <1>3 DEF Llega
  <2> QED BY <2>2, <2>3
<1>a. progreso' \in [Procs -> Nat]
  BY <1>0, EjecutadaTipos
<1>b. /\ fase' \in [CPUs -> {"espera", "ciclo", "respuesta", "tras_fin", "rota"}]
      /\ fase'[c] = "tras_fin" /\ \A d \in CPUs \ {c} : fase'[d] = fase[d]
      /\ programaFinalizado' \in [CPUs -> BOOLEAN] /\ programaFinalizado'[c]
      /\ \A d \in CPUs \ {c} : programaFinalizado'[d] = programaFinalizado[d]
      /\ unPid' \in [CPUs -> Procs \cup {Nadie}] /\ unPid'[c] = Nadie
      /\ \A d \in CPUs \ {c} : unPid'[d] = unPid[d]
  BY <1>0 DEF Tipos
<1>c. /\ semDestruirPCB' \in [CPUs -> Nat] /\ semDestruirPCB'[c] = 1
      /\ \A d \in CPUs \ {c} : semDestruirPCB'[d] = semDestruirPCB[d]
  <2>1. semDestruirPCB[c] = 0 /\ semDestruirPCB \in [CPUs -> Nat]
    BY <1>0, <1>3 DEF EnCurso, Tipos
  <2>2. semDestruirPCB' = [semDestruirPCB EXCEPT ![c] = semDestruirPCB[c] + 1]
    OBVIOUS
  <2> QED BY <2>1, <2>2
<1>10. Tipos'
  BY <1>0, <1>a, <1>b, <1>c, <1>7 DEF Tipos, kernel, colas, planes, procesos
<1>11. Devuelto(c, p)'
  BY <1>3, <1>4, <1>8, <1>b, <1>c DEF EnCurso, Devuelto, Vacia, Quieta
<1>12. \A d \in CPUs \ {c} : Igual(d)
  BY <1>b, <1>c, <1>6 DEF Igual
<1> QED BY <1>3, <1>9, <1>10, <1>11, <1>12, PasoDeCpu DEF IInv, SinSobresaltos, Etapa
\* The script thread starts only a process that was dispatched to its CPU.
LEMMA PasoArranca ==
  ASSUME IInv, NEW c \in CPUs, Arranca(c) PROVE IInv'
<1> USE DEF Arranca
<1>0. Tipos
  BY DEF IInv
<1>1. c \in Ocupadas
  BY <1>0 DEF IInv, Protocolo, Vacia, Tipos
<1>2. PICK p \in ToSet(colaExec) :
        /\ socketCPU[p] = c /\ Etapa(c, p) /\ p \in Procs
        /\ \A q \in ToSet(colaExec) : socketCPU[q] = c => q = p
        /\ ~Llega(aKernel, c, "CPU")
  BY <1>1, CuandoOcupa
<1>3. Recibido(c, p)
  BY <1>0, <1>2 DEF Etapa, EnCamino, EnCurso, Devuelto, Vacia, Tipos
<1>4. /\ fase' \in [CPUs -> {"espera", "ciclo", "respuesta", "tras_fin", "rota"}]
      /\ fase'[c] = "ciclo" /\ \A d \in CPUs \ {c} : fase'[d] = fase[d]
      /\ programaFinalizado' \in [CPUs -> BOOLEAN] /\ ~programaFinalizado'[c]
      /\ \A d \in CPUs \ {c} : programaFinalizado'[d] = programaFinalizado[d]
      /\ programaAbortado' \in [CPUs -> BOOLEAN]
      /\ \A d \in CPUs \ {c} : programaAbortado'[d] = programaAbortado[d]
      /\ programaBloqueado' \in [CPUs -> BOOLEAN]
      /\ \A d \in CPUs : ~programaBloqueado'[d]
  BY <1>0 DEF Tipos, IInv, SinSobresaltos
<1>5. /\ semHayScript' \in [CPUs -> Nat] /\ semHayScript'[c] = 0
      /\ \A d \in CPUs \ {c} : semHayScript'[d] = semHayScript[d]
  <2>1. semHayScript[c] = 1 /\ semHayScript \in [CPUs -> Nat]
    BY <1>0, <1>3 DEF Recibido, Tipos
  <2>2. semHayScript' = [semHayScript EXCEPT ![c] = semHayScript[c] - 1]
    OBVIOUS
  <2> QED BY <2>1, <2>2
<1>6. quantum_aux' \in [CPUs -> Int]
  BY <1>0, QuantumSupuesto DEF Tipos
<1>7. Tipos'
  BY <1>0, <1>4, <1>5, <1>6 DEF Tipos, kernel, colas, planes, procesos
<1>8. EnCurso(c, p)'
  BY <1>3, <1>4, <1>5 DEF Recibido, EnCurso, SoloAvisos
<1>9. \A d \in CPUs \ {c} : Igual(d)
  BY <1>4, <1>5 DEF Igual
<1> QED BY <1>1, <1>2, <1>4, <1>7, <1>8, <1>9, PasoDeCpu
        DEF IInv, SinSobresaltos, Etapa, Llega

\* programCounter++ after finalizar() changes no stage, whatever PCB it hits.
LEMMA PasoTrasFin ==
  ASSUME IInv, NEW c \in CPUs, TrasFin(c) PROVE IInv'
<1> USE DEF TrasFin, banderas
<1>0. Tipos
  BY DEF IInv
<1>1. Quieta(c)
  <2>1. CASE c \notin Ocupadas
    BY <2>1 DEF IInv, Protocolo, Vacia
  <2>2. CASE c \in Ocupadas
    BY <2>2, CuandoOcupa DEF Etapa, EnCamino, Recibido, EnCurso, Devuelto, Vacia
  <2> QED BY <2>1, <2>2
<1>a. /\ unPc' \in [CPUs -> Nat] /\ quantum_aux' \in [CPUs -> Int]
      /\ fase' \in [CPUs -> {"espera", "ciclo", "respuesta", "tras_fin", "rota"}]
      /\ fase'[c] = "ciclo"
      /\ \A d \in CPUs \ {c} : fase'[d] = fase[d]
  BY <1>0, AvanzaTipos
<1>2. Tipos'
  BY <1>0, <1>a DEF Tipos, kernel, colas, planes, procesos
<1>3. Quieta(c)'
  BY <1>1, <1>a DEF Quieta
<1>4. \A d \in CPUs \ {c} : Igual(d)
  BY <1>a DEF Igual
<1>5. c \notin Ocupadas =>
        Vacia(c)' /\ (aKernel'[c] = <<>> \/ aKernel'[c] = <<Aviso("CPU")>>)
  BY <1>3 DEF IInv, Protocolo, Vacia
<1>6. ASSUME NEW p \in ToSet(colaExec), socketCPU[p] = c PROVE Etapa(c, p)'
  <2>1. Etapa(c, p) /\ fase[c] = "tras_fin"
    BY <1>6 DEF IInv, Protocolo
  <2>2. CASE EnCamino(c, p)
    BY <2>2, <1>3 DEF EnCamino, Etapa, kernel, procesos
  <2>3. CASE Recibido(c, p)
    BY <2>3, <1>3 DEF Recibido, Etapa
  <2>4. CASE Devuelto(c, p)
    BY <2>4, <1>3 DEF Devuelto, Vacia, Etapa, AvisosY
  <2> QED BY <2>1, <2>2, <2>3, <2>4 DEF Etapa, EnCurso
<1> QED BY <1>2, <1>4, <1>5, <1>6, PasoDeCpu DEF IInv, SinSobresaltos, Llega

\* The answer of the Kernel finds the thread that asked for it.
LEMMA PasoRecibeRespuesta ==
  ASSUME IInv, NEW c \in CPUs, RecibeRespuesta(c) PROVE IInv'
<1> USE DEF RecibeRespuesta, banderas
<1>0. Tipos /\ fase[c] = "respuesta"
  BY DEF IInv
<1>1. ~Quieta(c)
  BY <1>0 DEF Quieta
<1>2. PICK p \in ToSet(colaExec) :
        /\ socketCPU[p] = c /\ EnCurso(c, p) /\ p \in Procs
        /\ \A q \in ToSet(colaExec) : socketCPU[q] = c => q = p
        /\ c \in Ocupadas /\ ~Llega(aKernel, c, "CPU")
  BY <1>1, CuandoCorre
<1>3. aKernel[c] = <<>> /\ aCpu[c] = <<Aviso("RESPUESTA")>>
  BY <1>0, <1>2 DEF EnCurso, Llega
<1>a. /\ unPc' \in [CPUs -> Nat] /\ quantum_aux' \in [CPUs -> Int]
      /\ fase' \in [CPUs -> {"espera", "ciclo", "respuesta", "tras_fin", "rota"}]
      /\ fase'[c] = "ciclo"
      /\ \A d \in CPUs \ {c} : fase'[d] = fase[d]
  BY <1>0, AvanzaTipos
<1>b. /\ aCpu' \in [CPUs -> Seq(Mensajes)] /\ aCpu'[c] = <<>>
      /\ \A d \in CPUs \ {c} : aCpu'[d] = aCpu[d]
  <2>1. Tail(aCpu[c]) = <<>>
    BY <1>3
  <2> QED BY <1>0, <2>1, SacaUnico DEF Tipos
<1>4. Tipos'
  BY <1>0, <1>a, <1>b DEF Tipos, kernel, colas, planes, procesos
<1>5. EnCurso(c, p)'
  BY <1>2, <1>3, <1>a, <1>b DEF EnCurso, SoloAvisos
<1>6. \A d \in CPUs \ {c} : Igual(d)
  BY <1>a, <1>b DEF Igual
<1> QED BY <1>2, <1>4, <1>5, <1>6, PasoDeCpu DEF IInv, SinSobresaltos, Etapa, Llega

\* A CPU receives a PCB only when it has destroyed the one before.
LEMMA PasoRecibePcb ==
  ASSUME IInv, NEW c \in CPUs, RecibePcb(c) PROVE IInv'
<1> USE DEF RecibePcb, banderas
<1>0. Tipos /\ aCpu[c] # <<>> /\ Head(aCpu[c]).tipo = "PCB"
  BY DEF IInv, Llega
<1>1. c \in Ocupadas
  BY <1>0 DEF IInv, Protocolo, Vacia
<1>2. PICK p \in ToSet(colaExec) :
        /\ socketCPU[p] = c /\ Etapa(c, p) /\ p \in Procs
        /\ \A q \in ToSet(colaExec) : socketCPU[q] = c => q = p
        /\ ~Llega(aKernel, c, "CPU")
  BY <1>1, CuandoOcupa
<1>3. EnCamino(c, p)
  BY <1>0, <1>2 DEF Etapa, Recibido, EnCurso, Devuelto, Vacia, Aviso, Mensaje
<1>4. Head(aCpu[c]).pid = p /\ Head(aCpu[c]).pc = pcb[p] /\ Tail(aCpu[c]) = <<>>
  BY <1>3 DEF EnCamino, Mensaje
<1>b. /\ aCpu' \in [CPUs -> Seq(Mensajes)] /\ aCpu'[c] = <<>>
      /\ \A d \in CPUs \ {c} : aCpu'[d] = aCpu[d]
  BY <1>0, <1>4, SacaUnico DEF Tipos
<1>c. /\ unPid' \in [CPUs -> Procs \cup {Nadie}] /\ unPid'[c] = p
      /\ \A d \in CPUs \ {c} : unPid'[d] = unPid[d]
  BY <1>0, <1>2, <1>4 DEF Tipos
<1>d. unPc' \in [CPUs -> Nat]
  <2>1. pcb[p] \in Nat
    BY <1>0, <1>2 DEF Tipos
  <2> QED BY <1>0, <1>4, <2>1 DEF Tipos
<1>e. /\ semDestruirPCB' \in [CPUs -> Nat] /\ semDestruirPCB'[c] = 0
      /\ semHayScript' \in [CPUs -> Nat] /\ semHayScript'[c] = 1
      /\ \A d \in CPUs \ {c} : /\ semDestruirPCB'[d] = semDestruirPCB[d]
                                /\ semHayScript'[d] = semHayScript[d]
  <2>1. /\ semDestruirPCB[c] = 1 /\ semDestruirPCB \in [CPUs -> Nat]
        /\ semHayScript[c] = 0 /\ semHayScript \in [CPUs -> Nat]
    BY <1>0, <1>3 DEF EnCamino, Tipos
  <2>2. /\ semDestruirPCB' = [semDestruirPCB EXCEPT ![c] = semDestruirPCB[c] - 1]
        /\ semHayScript' = [semHayScript EXCEPT ![c] = semHayScript[c] + 1]
    OBVIOUS
  <2> QED BY <2>1, <2>2
<1>5. Tipos'
  BY <1>0, <1>b, <1>c, <1>d, <1>e DEF Tipos, kernel, colas, planes, procesos
<1>6. Recibido(c, p)'
  BY <1>3, <1>b, <1>c, <1>e DEF EnCamino, Recibido, Quieta
<1>7. \A d \in CPUs \ {c} : Igual(d)
  BY <1>b, <1>c, <1>e DEF Igual
<1> QED BY <1>1, <1>2, <1>5, <1>6, <1>7, PasoDeCpu DEF IInv, SinSobresaltos, Etapa, Llega

\* The CPU gives back the PCB it was executing, with a message of type t.
LEMMA PasoDevuelve ==
  ASSUME IInv, NEW c \in CPUs, NEW t \in {"FINDEQUATUM", "ABORTO"},
         fase[c] = "ciclo", ~Quieta(c), Devuelve(c, t),
         fase' = [fase EXCEPT ![c] = "espera"],
         UNCHANGED <<kernel, fallo, aCpu, unPc, semHayScript, quantum_aux, banderas,
                     progreso>>
  PROVE  IInv'
<1> USE DEF banderas
<1>0. Tipos
  BY DEF IInv
<1>1. PICK p \in ToSet(colaExec) :
        /\ socketCPU[p] = c /\ EnCurso(c, p) /\ p \in Procs
        /\ \A q \in ToSet(colaExec) : socketCPU[q] = c => q = p
        /\ c \in Ocupadas /\ ~Llega(aKernel, c, "CPU")
  BY CuandoCorre
<1>2. /\ aCpu[c] = <<>> /\ SoloAvisos(aKernel[c]) /\ aKernel[c] \in Seq(Mensajes)
      /\ unPid[c] = p
  BY <1>0, <1>1 DEF EnCurso, Tipos
<1> DEFINE m == Mensaje(t, p, unPc[c])
<1>3. m \in Mensajes /\ m.tipo = t /\ m.pid = p
  <2>1. unPc[c] \in Nat
    BY <1>0 DEF Tipos
  <2> QED BY <1>1, <2>1 DEF Mensaje, Mensajes
<1> HIDE DEF m
<1>4. aKernel' = [aKernel EXCEPT ![c] = Append(aKernel[c], m)]
  BY <1>2 DEF Devuelve, Mandar, m
<1>5. Append(aKernel[c], m) \in Seq(Mensajes)
  BY <1>2, <1>3
<1>6. /\ aKernel' \in [CPUs -> Seq(Mensajes)] /\ aKernel'[c] = Append(aKernel[c], m)
      /\ \A d \in CPUs \ {c} : aKernel'[d] = aKernel[d]
  BY <1>0, <1>4, <1>5 DEF Tipos
<1>7. AvisosY(aKernel'[c], t) /\ aKernel'[c][Len(aKernel'[c])] = m
  BY <1>2, <1>3, <1>6, AvisosAgrega
<1>8. ~Llega(aKernel, c, "CPU")'
  <2>1. aKernel[c] = <<>> \/ Head(aKernel'[c]) = Head(aKernel[c])
    BY <1>2, <1>3, <1>6, HeadTailAppend
  <2>2. CASE aKernel[c] = <<>>
    BY <2>2, <1>2, <1>3, <1>6 DEF Llega
  <2>3. CASE aKernel[c] # <<>>
    BY <2>1, <2>3, <1>1 DEF Llega
  <2> QED BY <2>2, <2>3
<1>9. /\ unPid' \in [CPUs -> Procs \cup {Nadie}] /\ unPid'[c] = Nadie
      /\ \A d \in CPUs \ {c} : unPid'[d] = unPid[d]
      /\ fase' \in [CPUs -> {"espera", "ciclo", "respuesta", "tras_fin", "rota"}]
      /\ fase'[c] = "espera" /\ \A d \in CPUs \ {c} : fase'[d] = fase[d]
  BY <1>0 DEF Tipos, Devuelve
<1>10. /\ semDestruirPCB' \in [CPUs -> Nat] /\ semDestruirPCB'[c] = 1
       /\ \A d \in CPUs \ {c} : semDestruirPCB'[d] = semDestruirPCB[d]
  <2>1. semDestruirPCB[c] = 0 /\ semDestruirPCB \in [CPUs -> Nat]
    BY <1>0, <1>1 DEF EnCurso, Tipos
  <2>2. semDestruirPCB' = [semDestruirPCB EXCEPT ![c] = semDestruirPCB[c] + 1]
    BY DEF Devuelve
  <2> QED BY <2>1, <2>2
<1>11. Tipos'
  BY <1>0, <1>6, <1>9, <1>10 DEF Tipos, kernel, colas, planes, procesos
<1>12. Devuelto(c, p)'
  BY <1>1, <1>2, <1>3, <1>7, <1>9, <1>10 DEF EnCurso, Devuelto, Vacia, Quieta
<1>13. \A d \in CPUs \ {c} : Igual(d)
  BY <1>6, <1>9, <1>10 DEF Igual
<1> QED BY <1>1, <1>8, <1>11, <1>12, <1>13, PasoDeCpu DEF IInv, SinSobresaltos, Etapa

\* At the end of the loop the CPU gives the PCB back, unless finalizar() did.
LEMMA PasoTermina ==
  ASSUME IInv, NEW c \in CPUs, Termina(c) PROVE IInv'
<1> USE DEF banderas
<1>0. Tipos /\ fase[c] = "ciclo" /\ ~programaBloqueado[c] /\ codigoAborto[c] = "ABORTO"
  BY DEF IInv, SinSobresaltos, Termina
<1>1. CASE ~Quieta(c)
  <2>1. ~programaFinalizado[c]
    BY <1>1, CuandoCorre DEF EnCurso
  <2>2. Devuelve(c, "ABORTO") \/ Devuelve(c, "FINDEQUATUM")
    BY <1>0, <2>1 DEF Termina
  <2> QED BY <1>0, <1>1, <2>2, PasoDevuelve DEF Termina
<1>2. CASE Quieta(c)
  <2>1. programaFinalizado[c] /\ ~programaAbortado[c]
    BY <1>0, <1>2 DEF Quieta
  <2>2. UNCHANGED <<kernel, fallo, aCpu, unPc, semHayScript, quantum_aux, banderas,
                    progreso, aKernel, unPid, semDestruirPCB>>
    BY <1>0, <2>1 DEF Termina
  <2>3. /\ fase' \in [CPUs -> {"espera", "ciclo", "respuesta", "tras_fin", "rota"}]
        /\ fase'[c] = "espera" /\ \A d \in CPUs \ {c} : fase'[d] = fase[d]
    BY <1>0 DEF Tipos, Termina
  <2>4. Tipos'
    BY <1>0, <2>2, <2>3 DEF Tipos, kernel, colas, planes, procesos
  <2>5. Quieta(c)'
    BY <2>3 DEF Quieta
  <2>6. \A d \in CPUs \ {c} : Igual(d)
    BY <2>2, <2>3 DEF Igual
  <2>7. c \notin Ocupadas =>
          Vacia(c)' /\ (aKernel'[c] = <<>> \/ aKernel'[c] = <<Aviso("CPU")>>)
    BY <2>2, <2>5 DEF IInv, Protocolo, Vacia
  <2>8. ASSUME NEW p \in ToSet(colaExec), socketCPU[p] = c PROVE Etapa(c, p)'
    <3>1. Etapa(c, p)
      BY <2>8 DEF IInv, Protocolo
    <3>2. CASE EnCamino(c, p)
      BY <3>2, <2>2, <2>5 DEF EnCamino, Etapa, kernel, procesos
    <3>3. CASE Recibido(c, p)
      BY <3>3, <2>2, <2>5 DEF Recibido, Etapa
    <3>4. CASE Devuelto(c, p)
      BY <3>4, <2>2, <2>5 DEF Devuelto, Vacia, Etapa, AvisosY
    <3> QED BY <3>1, <3>2, <3>3, <3>4, <2>1 DEF Etapa, EnCurso
  <2> QED BY <2>2, <2>4, <2>6, <2>7, <2>8, PasoDeCpu DEF IInv, SinSobresaltos, Llega
<1> QED BY <1>1, <1>2
-----------------------------------------------------------------------------
(* The steps of the Kernel.                                                 *)

\* The CPUs do not see a step that touches no queue of theirs.
LEMMA MismasCpus ==
  ASSUME IInv, UNCHANGED <<colaExec, colaCpu, pcpCpu, socketCPU, pcb, aKernel, aCpu, cpu>>
  PROVE  CpuEnUnLugar' /\ Protocolo'
<1> USE DEF cpu, carga, banderas
<1>1. Ocupadas' = Ocupadas /\ SinAtender' = SinAtender
  BY DEF Ocupadas, SinAtender, Llega
<1>2. CpuEnUnLugar'
  BY <1>1 DEF IInv, CpuEnUnLugar
<1>3. Protocolo'
  <2>1. \A d \in CPUs : Igual(d)
    BY DEF Igual
  <2>2. \A d \in CPUs : Vacia(d)' <=> Vacia(d)
    BY <2>1, IgualVacia
  <2>3. \A d \in CPUs : \A p : Etapa(d, p)' <=> Etapa(d, p)
    BY <2>1, IgualEtapa
  <2> QED BY <1>1, <2>2, <2>3 DEF IInv, Protocolo, Aviso, Mensaje
<1> QED BY <1>2, <1>3

\* A process that is accepted goes to colaNew, and only there.
LEMMA PasoEntraProceso ==
  ASSUME IInv, NEW p \in Procs, EntraProceso(p) PROVE IInv'
<1> USE DEF EntraProceso, cpu, carga, banderas, planes, procesos
<1>0. Tipos /\ UnSoloLugar /\ Semaforos
  BY DEF IInv
<1>1. p \notin ToSet(colaNew)
  BY <1>0 DEF UnSoloLugar
<1>2. /\ colaNew' \in Seq(Procs) /\ Len(colaNew') = Len(colaNew) + 1
      /\ ToSet(colaNew') = ToSet(colaNew) \cup {p} /\ IsInjective(colaNew')
  <2>1. colaNew \in Seq(Procs) /\ IsInjective(colaNew)
    BY <1>0 DEF Tipos, UnSoloLugar
  <2>2. colaNew' = Append(colaNew, p) /\ p \in Procs
    OBVIOUS
  <2> QED BY ONLY <1>1, <2>1, <2>2, ListaAgrega
<1>3. semNew' \in Nat /\ semNew' = Len(colaNew')
  BY <1>0, <1>2 DEF Tipos, Semaforos
<1>4. Tipos'
  BY <1>0, <1>2, <1>3 DEF Tipos
<1>5. Semaforos'
  BY <1>0, <1>3 DEF Semaforos
<1>6. UnSoloLugar'
  BY <1>0, <1>2 DEF UnSoloLugar, EnMano
<1> QED BY <1>4, <1>5, <1>6, MismasCpus DEF IInv, ManoPcp, SinSobresaltos

\* The long-term planner pops a process, never NULL.
LEMMA PasoPlpSaca ==
  ASSUME IInv, PlpSaca PROVE IInv'
<1> USE DEF PlpSaca, cpu, carga, banderas, planes, procesos
<1>0. Tipos /\ UnSoloLugar /\ Semaforos
  BY DEF IInv
<1>1. colaNew # <<>>
  BY <1>0 DEF Semaforos
<1> DEFINE p == Head(colaNew)
<1>2. /\ p \in Procs /\ p \in ToSet(colaNew) /\ colaNew' \in Seq(Procs)
      /\ ToSet(colaNew') = ToSet(colaNew) \ {p} /\ IsInjective(colaNew')
      /\ Len(colaNew') = Len(colaNew) - 1 /\ plp' = p /\ fallo' = fallo
  BY <1>0, <1>1, ListaSaca DEF Tipos, UnSoloLugar, Primero, Resto
<1> HIDE DEF p
<1>3. semNew' \in Nat /\ semNew' = Len(colaNew')
  <2>1. semNew \in Nat /\ semNew = Len(colaNew)
    BY <1>0 DEF Tipos, Semaforos
  <2> QED BY <2>1, <1>2
<1>4. Tipos'
  BY <1>0, <1>2, <1>3 DEF Tipos
<1>5. Semaforos'
  BY <1>0, <1>3 DEF Semaforos
<1>6. UnSoloLugar'
  BY <1>0, <1>2, NadieSupuesto DEF UnSoloLugar, EnMano
<1> QED BY <1>2, <1>4, <1>5, <1>6, MismasCpus DEF IInv, ManoPcp, SinSobresaltos

\* The long-term planner hands its process to colaReady.
LEMMA PasoPlpEncola ==
  ASSUME IInv, PlpEncola PROVE IInv'
<1> USE DEF PlpEncola, cpu, carga, banderas, planes, procesos
<1>0. Tipos /\ UnSoloLugar /\ Semaforos
  BY DEF IInv
<1>1. plp \in Procs /\ plp \notin ToSet(colaReady)
  BY <1>0 DEF Tipos, UnSoloLugar, EnMano
<1>2. /\ colaReady' \in Seq(Procs) /\ Len(colaReady') = Len(colaReady) + 1
      /\ ToSet(colaReady') = ToSet(colaReady) \cup {plp} /\ IsInjective(colaReady')
  <2>1. colaReady \in Seq(Procs) /\ IsInjective(colaReady)
    BY <1>0 DEF Tipos, UnSoloLugar
  <2>2. colaReady' = Append(colaReady, plp)
    OBVIOUS
  <2> QED BY ONLY <1>1, <2>1, <2>2, ListaAgrega
<1>3. semReady' \in Nat
  BY <1>0 DEF Tipos
<1>4. Tipos'
  BY <1>0, <1>2, <1>3 DEF Tipos
<1>5. Semaforos'
  <2> DEFINE k == IF pcPcp \in {"espera_cpu", "saca"} THEN 1 ELSE 0
  <2>1. semReady \in Nat /\ k \in Nat /\ semReady + k = Len(colaReady)
    BY <1>0 DEF Tipos, Semaforos
  <2> HIDE DEF k
  <2>2. (semReady + 1) + k = Len(colaReady')
    BY <2>1, <1>2
  <2> QED BY <1>0, <2>2 DEF Semaforos, k
<1>6. UnSoloLugar'
  BY <1>0, <1>1, <1>2, NadieSupuesto DEF UnSoloLugar, EnMano
<1> QED BY <1>4, <1>5, <1>6, MismasCpus DEF IInv, ManoPcp, SinSobresaltos

\* Taking semReady reserves one process of colaReady.
LEMMA PasoPcpEsperaReady ==
  ASSUME IInv, PcpEsperaReady PROVE IInv'
<1> USE DEF PcpEsperaReady, cpu, carga, banderas, planes, procesos, colas
<1>0. Tipos /\ UnSoloLugar /\ Semaforos
  BY DEF IInv
<1>1. semReady \in Nat /\ semReady' = semReady - 1 /\ semReady' \in Nat
  BY <1>0 DEF Tipos
<1>2. Tipos'
  BY <1>0, <1>1 DEF Tipos
<1>3. semReady' + 1 = semReady
  BY <1>1
<1>4. Semaforos'
  BY <1>0, <1>1, <1>3 DEF Semaforos
<1>5. UnSoloLugar'
  BY <1>0 DEF UnSoloLugar
<1> QED BY <1>2, <1>4, <1>5, MismasCpus DEF IInv, ManoPcp, SinSobresaltos

\* Taking semCpu reserves one CPU of colaCpu.
LEMMA PasoPcpEsperaCpu ==
  ASSUME IInv, PcpEsperaCpu PROVE IInv'
<1> USE DEF PcpEsperaCpu, cpu, carga, banderas, planes, procesos, colas
<1>0. Tipos /\ UnSoloLugar /\ Semaforos
  BY DEF IInv
<1>1. semCpu \in Nat /\ semCpu' = semCpu - 1 /\ semCpu' \in Nat
  BY <1>0 DEF Tipos
<1>2. Tipos'
  BY <1>0, <1>1 DEF Tipos
<1>3. semCpu' + 1 = semCpu
  BY <1>1
<1>4. Semaforos'
  BY <1>0, <1>1, <1>3 DEF Semaforos
<1>5. UnSoloLugar'
  BY <1>0 DEF UnSoloLugar
<1> QED BY <1>2, <1>4, <1>5, MismasCpus DEF IInv, ManoPcp, SinSobresaltos

\* When both semaphores are taken, both queues have an element.
LEMMA SacaDeAmbas == ASSUME IInv PROVE NadaSeDescarta
<1>0. Tipos /\ Semaforos
  BY DEF IInv
<1>1. SUFFICES ASSUME pcPcp = "saca" PROVE colaCpu # <<>> /\ colaReady # <<>>
  BY DEF NadaSeDescarta
<1>2. semReady \in Nat /\ semCpu \in Nat /\ semReady + 1 = Len(colaReady)
      /\ semCpu + 1 = Len(colaCpu)
  BY <1>0, <1>1 DEF Tipos, Semaforos
<1> QED BY <1>2

\* The short-term planner pops the process and the CPU it has reserved.
LEMMA PasoPcpSaca ==
  ASSUME IInv, PcpSaca PROVE IInv'
<1> USE DEF PcpSaca, cpu, carga, banderas
<1>0. Tipos /\ UnSoloLugar /\ CpuEnUnLugar /\ Semaforos /\ ManoPcp
  BY DEF IInv
<1>1. colaCpu # <<>> /\ colaReady # <<>> /\ pcpProc = Nadie /\ pcpCpu = Nadie
  BY <1>0, SacaDeAmbas DEF NadaSeDescarta, ManoPcp
<1> DEFINE p == Head(colaReady)
           c == Head(colaCpu)
<1>2. /\ p \in Procs /\ p \in ToSet(colaReady) /\ Tail(colaReady) \in Seq(Procs)
      /\ ToSet(Tail(colaReady)) = ToSet(colaReady) \ {p} /\ IsInjective(Tail(colaReady))
      /\ Len(Tail(colaReady)) = Len(colaReady) - 1
  BY <1>0, <1>1, ListaSaca DEF Tipos, UnSoloLugar
<1>3. /\ c \in CPUs /\ c \in ToSet(colaCpu) /\ Tail(colaCpu) \in Seq(CPUs)
      /\ ToSet(Tail(colaCpu)) = ToSet(colaCpu) \ {c} /\ IsInjective(Tail(colaCpu))
      /\ Len(Tail(colaCpu)) = Len(colaCpu) - 1
  BY <1>0, <1>1, ListaSaca DEF Tipos, CpuEnUnLugar
<1>4. Primero(colaReady) = p /\ Primero(colaCpu) = c
      /\ Resto(colaReady) = Tail(colaReady) /\ Resto(colaCpu) = Tail(colaCpu)
  BY <1>1 DEF Primero, Resto
<1> HIDE DEF p, c
<1>5. p # Nadie /\ c # Nadie
  BY <1>2, <1>3, NadieSupuesto
<1>6. /\ pcpProc' = p /\ pcpCpu' = c /\ socketCPU' = [socketCPU EXCEPT ![p] = c]
      /\ pcPcp' = "ejecutar" /\ semReady' = semReady
      /\ colaReady' = Tail(colaReady) /\ colaCpu' = Tail(colaCpu)
  BY <1>4, <1>5
<1>7. Tipos'
  BY <1>0, <1>2, <1>3, <1>6 DEF Tipos
<1>8. Semaforos'
  <2>1. /\ semReady \in Nat /\ semCpu \in Nat /\ semReady + 1 = Len(colaReady)
        /\ semCpu + 1 = Len(colaCpu)
    BY <1>0 DEF Tipos, Semaforos
  <2>2. semReady + 0 = Len(colaReady') /\ semCpu + 0 = Len(colaCpu')
    BY <2>1, <1>2, <1>3, <1>6
  <2> QED BY <1>0, <1>6, <2>2 DEF Semaforos
<1>9. p \notin ToSet(colaExec)
  BY <1>0, <1>2 DEF UnSoloLugar
<1>10. ManoPcp'
  <2>1. socketCPU'[p] = c
    BY <1>0, <1>2, <1>6 DEF Tipos
  <2> QED BY <1>0, <1>2, <1>3, <1>6, <2>1 DEF ManoPcp
<1>11. UnSoloLugar'
  BY <1>0, <1>1, <1>2, <1>5, <1>6 DEF UnSoloLugar, EnMano
<1>12. \A q \in ToSet(colaExec) : socketCPU'[q] = socketCPU[q]
  BY <1>0, <1>6, <1>9, ExecEnProcs DEF Tipos
<1>13. Ocupadas' = Ocupadas /\ SinAtender' = SinAtender
  BY <1>12 DEF Ocupadas, SinAtender, Llega
<1>14. CpuEnUnLugar'
  BY <1>0, <1>1, <1>3, <1>5, <1>6, <1>12, <1>13 DEF CpuEnUnLugar, EnMano
<1>15. Protocolo'
  <2>1. \A d \in CPUs : Igual(d)
    BY DEF Igual
  <2>2. \A d \in CPUs : Vacia(d)' <=> Vacia(d)
    BY <2>1, IgualVacia
  <2>3. \A d \in CPUs : \A q : Etapa(d, q)' <=> Etapa(d, q)
    BY <2>1, IgualEtapa
  <2> QED BY <1>12, <1>13, <2>2, <2>3 DEF IInv, Protocolo, Aviso, Mensaje
<1> QED BY <1>7, <1>8, <1>10, <1>11, <1>14, <1>15 DEF IInv, SinSobresaltos

\* Locking mutexColaEx moves nothing.
LEMMA PasoPcpTomaMutex ==
  ASSUME IInv, PcpTomaMutex PROVE IInv'
<1> USE DEF PcpTomaMutex, cpu, carga, banderas, procesos, colas
<1>1. Tipos' /\ UnSoloLugar'
  BY DEF IInv, Tipos, UnSoloLugar
<1>2. Semaforos' /\ ManoPcp'
  BY DEF IInv, Semaforos, ManoPcp
<1> QED BY <1>1, <1>2, MismasCpus DEF IInv, SinSobresaltos

\* The process enters colaExec and its PCB is on its way to a CPU that is empty.
LEMMA PasoPcpEncola ==
  ASSUME IInv, PcpEncola PROVE IInv'
<1> USE DEF PcpEncola, cpu, carga, banderas, procesos
<1> SUFFICES ASSUME NEW p, NEW c, p = pcpProc, c = pcpCpu PROVE IInv'
  OBVIOUS
<1> DEFINE m == Mensaje("PCB", p, pcb[p])
<1>0. Tipos /\ UnSoloLugar /\ CpuEnUnLugar /\ Semaforos /\ ManoPcp /\ Protocolo
  BY DEF IInv
<1>1. p \in Procs /\ c \in CPUs /\ socketCPU[p] = c
  BY <1>0 DEF ManoPcp
<1>2. ~abortado[p]
  BY <1>1 DEF IInv, SinSobresaltos
<1>3. p \notin ToSet(colaExec) /\ p # Nadie /\ c # Nadie
  BY <1>0, <1>1, NadieSupuesto DEF UnSoloLugar, EnMano
<1>4. /\ colaExec' \in Seq(Procs) /\ ToSet(colaExec') = ToSet(colaExec) \cup {p}
      /\ IsInjective(colaExec')
  <2>1. colaExec \in Seq(Procs) /\ IsInjective(colaExec)
    BY <1>0 DEF Tipos, UnSoloLugar
  <2>2. colaExec' = Append(colaExec, p)
    OBVIOUS
  <2> QED BY ONLY <1>1, <1>3, <2>1, <2>2, ListaAgrega
<1>5. c \notin Ocupadas /\ c \notin SinAtender /\ c \notin ToSet(colaCpu)
  BY <1>0, <1>3 DEF CpuEnUnLugar, EnMano
<1>6. aKernel[c] = <<>> /\ Vacia(c)
  <2>1. ~Llega(aKernel, c, "CPU")
    BY <1>1, <1>5 DEF SinAtender
  <2>2. aKernel[c] # <<Aviso("CPU")>>
    BY <2>1 DEF Llega, Aviso, Mensaje
  <2> QED BY <1>0, <1>1, <1>5, <2>2 DEF Protocolo
<1>7. m \in Mensajes
  <2>1. pcb[p] \in Nat
    BY <1>0, <1>1 DEF Tipos
  <2> QED BY <1>1, <2>1 DEF Mensaje, Mensajes
<1>8. /\ aCpu' \in [CPUs -> Seq(Mensajes)] /\ aCpu'[c] = <<m>>
      /\ \A d \in CPUs \ {c} : aCpu'[d] = aCpu[d]
  <2>1. aCpu' = [aCpu EXCEPT ![c] = Append(aCpu[c], m)] /\ aCpu[c] = <<>>
    BY <1>2, <1>6 DEF Mandar, Vacia
  <2> HIDE DEF m
  <2>2. Append(<<>>, m) = <<m>> /\ <<m>> \in Seq(Mensajes)
    BY <1>7
  <2>3. aCpu' = [aCpu EXCEPT ![c] = <<m>>]
    BY <2>1, <2>2
  <2> QED BY <1>0, <1>1, <2>2, <2>3 DEF Tipos
<1>9. mutexColaEx' = "libre" /\ UNCHANGED <<colaCpu, semCpu, colaExit>>
  BY <1>2
<1>10. Tipos'
  BY <1>0, <1>4, <1>8, <1>9 DEF Tipos
<1>11. Semaforos' /\ ManoPcp'
  BY <1>0, <1>9 DEF Semaforos, ManoPcp
<1>12. UnSoloLugar'
  BY <1>0, <1>1, <1>3, <1>4, <1>9 DEF UnSoloLugar, EnMano
<1>13. Ocupadas' = Ocupadas \cup {c} /\ SinAtender' = SinAtender
  BY <1>1, <1>4 DEF Ocupadas, SinAtender, Llega
<1>14. CpuEnUnLugar'
  <2>1. \A q, r \in ToSet(colaExec') : socketCPU[q] = socketCPU[r] => q = r
    BY <1>0, <1>1, <1>4, <1>5 DEF CpuEnUnLugar, Ocupadas
  <2> QED BY <1>0, <1>3, <1>5, <1>9, <1>13, <2>1 DEF CpuEnUnLugar, EnMano
<1>15. Protocolo'
  <2>1. \A d \in CPUs \ {c} : Igual(d)
    BY <1>8 DEF Igual
  <2>2. \A d \in CPUs \ {c} : Vacia(d)' <=> Vacia(d)
    BY <2>1, IgualVacia
  <2>3. \A d \in CPUs \ {c} : \A q : Etapa(d, q)' <=> Etapa(d, q)
    BY <2>1, IgualEtapa
  <2>4. Etapa(c, p)'
    BY <1>6, <1>8 DEF Etapa, EnCamino, Vacia, Quieta
  <2>5. ASSUME NEW q \in ToSet(colaExec)'
        PROVE  (socketCPU[q] \in CPUs /\ Etapa(socketCPU[q], q))'
    <3>1. CASE q = p
      BY <3>1, <1>1, <2>4
    <3>2. CASE q # p
      <4>1. q \in ToSet(colaExec) /\ socketCPU[q] # c
        BY <3>2, <2>5, <1>4, <1>5 DEF Ocupadas
      <4> QED BY <4>1, <2>3, <1>0 DEF Protocolo
    <3> QED BY <3>1, <3>2
  <2> QED BY <1>0, <1>13, <2>2, <2>5 DEF Protocolo, Aviso, Mensaje
<1> QED BY <1>10, <1>11, <1>12, <1>14, <1>15 DEF IInv, SinSobresaltos
-----------------------------------------------------------------------------
(* The handlers of the Kernel's main thread.                                *)

\* What taking the first message makes of a socket.
LEMMA AvisosResto ==
  ASSUME NEW q \in Seq(Mensajes), q # <<>>
  PROVE  /\ Head(q) \in Mensajes /\ Tail(q) \in Seq(Mensajes)
         /\ SoloAvisos(q) => Head(q).tipo = "AVISA" /\ SoloAvisos(Tail(q))
         /\ \A t : AvisosY(q, t) =>
              \/ Head(q) = q[Len(q)] /\ Head(q).tipo = t /\ Tail(q) = <<>>
              \/ /\ Head(q).tipo = "AVISA" /\ AvisosY(Tail(q), t)
                 /\ Tail(q)[Len(Tail(q))] = q[Len(q)]
<1> DEFINE r == Tail(q)
           n == Len(q)
<1>1. /\ Head(q) = q[1] /\ Head(q) \in Mensajes /\ r \in Seq(Mensajes)
      /\ n \in Nat /\ n >= 1 /\ Len(r) = n - 1
      /\ \A i \in 1..n - 1 : r[i] = q[i + 1]
  BY ListaSaca, LenProperties
<1> HIDE DEF r, n
<1>2. n = 1 => r = <<>>
  <2>1. n = 1 => Len(r) = 0
    BY <1>1
  <2> QED BY <1>1, <2>1, EmptySeq
<1>3. \A i \in 1..n - 1 : i + 1 \in 1..n
  BY <1>1
<1>4. SoloAvisos(q) => Head(q).tipo = "AVISA" /\ SoloAvisos(r)
  <2> SUFFICES ASSUME SoloAvisos(q) PROVE Head(q).tipo = "AVISA" /\ SoloAvisos(r)
    OBVIOUS
  <2>1. \A i \in 1..n : q[i].tipo = "AVISA"
    BY DEF SoloAvisos, n
  <2>2. 1 \in 1..n
    BY <1>1
  <2>3. \A i \in 1..n - 1 : r[i].tipo = "AVISA"
    BY <2>1, <1>1, <1>3
  <2> QED BY <2>1, <2>2, <2>3, <1>1 DEF SoloAvisos
<1>5. ASSUME NEW t, AvisosY(q, t)
      PROVE  \/ Head(q) = q[n] /\ Head(q).tipo = t /\ r = <<>>
             \/ Head(q).tipo = "AVISA" /\ AvisosY(r, t) /\ r[Len(r)] = q[n]
  <2>1. q[n].tipo = t /\ \A i \in 1..n - 1 : q[i].tipo = "AVISA"
    BY <1>5 DEF AvisosY, n
  <2>2. CASE n = 1
    BY <1>1, <1>2, <2>1, <2>2
  <2>3. CASE n # 1
    <3>1. 1 \in 1..n - 1 /\ n - 1 \in 1..n - 1 /\ (n - 1) + 1 = n /\ Len(r) >= 1
      BY <1>1, <2>3
    <3>2. Head(q).tipo = "AVISA" /\ r[Len(r)] = q[n]
      BY <1>1, <2>1, <3>1
    <3>3. \A i \in 1..(n - 1) - 1 : i \in 1..n - 1 /\ i + 1 \in 1..n - 1
      BY <1>1
    <3>4. \A i \in 1..(n - 1) - 1 : r[i].tipo = "AVISA"
      BY <1>1, <2>1, <3>3
    <3>5. r # <<>>
      BY <3>1
    <3>6. AvisosY(r, t)
      BY <1>1, <2>1, <3>2, <3>4, <3>5 DEF AvisosY
    <3> QED BY <3>2, <3>6
  <2> QED BY <2>2, <2>3
<1> QED BY <1>1, <1>4, <1>5 DEF r, n

\* SelectInSeq finds the only element that passes the test.
LEMMA RemitenteEs ==
  ASSUME NEW c, NEW i \in 1..Len(colaExec), colaExec \in Seq(Procs),
         \A k \in 1..Len(colaExec) :
           EsDe(Head(aKernel[c]), c, colaExec[k]) <=> k = i
  PROVE  Remitente(c) = i
<1> DEFINE I == {k \in 1..Len(colaExec) : EsDe(Head(aKernel[c]), c, colaExec[k])}
<1>1. I = {i}
  OBVIOUS
<1>2. i \in Int
  BY LenProperties
<1>3. Min(I) = i
  BY <1>1, <1>2 DEF Min
<1> QED BY <1>1, <1>3 DEF Remitente, SelectInSeq

\* The handler of a message of c finds the process c runs.
LEMMA HayRemitente ==
  ASSUME IInv, NEW c \in CPUs, aKernel[c] # <<>>, Head(aKernel[c]).tipo # "CPU"
  PROVE  \E p \in ToSet(colaExec) :
           /\ socketCPU[p] = c /\ p \in Procs /\ c \in Ocupadas
           /\ \A q \in ToSet(colaExec) : socketCPU[q] = c => q = p
           /\ EnCurso(c, p) \/ Devuelto(c, p)
           /\ Remitente(c) \in 1..Len(colaExec) /\ colaExec[Remitente(c)] = p
<1> DEFINE m == Head(aKernel[c])
<1>0. Tipos /\ UnSoloLugar /\ colaExec \in Seq(Procs) /\ aKernel[c] \in Seq(Mensajes)
  BY DEF IInv, Tipos
<1>1. c \in Ocupadas
  BY DEF IInv, Protocolo, Aviso, Mensaje
<1>2. PICK p \in ToSet(colaExec) :
        /\ socketCPU[p] = c /\ Etapa(c, p) /\ p \in Procs
        /\ \A q \in ToSet(colaExec) : socketCPU[q] = c => q = p
        /\ ~Llega(aKernel, c, "CPU")
  BY <1>1, CuandoOcupa
<1>3. EnCurso(c, p) \/ Devuelto(c, p)
  BY <1>2 DEF Etapa, EnCamino, Recibido
<1>4. m.tipo \in ConPcb => m.pid = p
  <2>1. CASE EnCurso(c, p)
    BY <2>1, <1>0, AvisosResto DEF EnCurso, ConPcb
  <2>2. CASE Devuelto(c, p)
    BY <2>2, <1>0, AvisosResto DEF Devuelto, ConPcb
  <2> QED BY <1>3, <2>1, <2>2
<1> HIDE DEF m
<1>5. \A q \in ToSet(colaExec) : EsDe(m, c, q) <=> q = p
  BY <1>2, <1>4 DEF EsDe
<1>6. PICK i \in 1..Len(colaExec) : colaExec[i] = p
  BY <1>0, <1>2, LenProperties DEF ToSet
<1>7. \A k \in 1..Len(colaExec) : colaExec[k] \in ToSet(colaExec)
  BY <1>0, LenProperties DEF ToSet
<1>8. \A k \in 1..Len(colaExec) : colaExec[k] = p <=> k = i
  BY <1>0, <1>6, LenProperties DEF UnSoloLugar, IsInjective
<1>9. \A k \in 1..Len(colaExec) : EsDe(m, c, colaExec[k]) <=> k = i
  BY <1>5, <1>7, <1>8
<1>10. Remitente(c) = i
  BY <1>0, <1>9, RemitenteEs DEF m
<1> QED BY <1>1, <1>2, <1>3, <1>6, <1>10

\* A CPU that connects is available, once.
LEMMA PasoConectaCpu ==
  ASSUME IInv, NEW c \in CPUs, ConectaCpu(c) PROVE IInv'
<1> USE DEF ConectaCpu, cpu, carga, banderas, planes, procesos
<1>0. Tipos /\ UnSoloLugar /\ CpuEnUnLugar /\ Semaforos /\ Protocolo
  BY DEF IInv
<1>1. c \in SinAtender
  BY DEF SinAtender
<1>2. c \notin Ocupadas /\ c \notin ToSet(colaCpu) /\ c \notin EnMano(pcpCpu)
  BY <1>0, <1>1 DEF CpuEnUnLugar
<1>3. Vacia(c) /\ aKernel[c] = <<Aviso("CPU")>>
  BY <1>0, <1>2 DEF Protocolo, Llega
<1>4. /\ aKernel' \in [CPUs -> Seq(Mensajes)] /\ aKernel'[c] = <<>>
      /\ \A d \in CPUs \ {c} : aKernel'[d] = aKernel[d]
  <2>1. Tail(aKernel[c]) = <<>>
    BY <1>3
  <2> QED BY <1>0, <2>1, SacaUnico DEF Tipos
<1>5. /\ colaCpu' \in Seq(CPUs) /\ Len(colaCpu') = Len(colaCpu) + 1
      /\ ToSet(colaCpu') = ToSet(colaCpu) \cup {c} /\ IsInjective(colaCpu')
  <2>1. colaCpu \in Seq(CPUs) /\ IsInjective(colaCpu) /\ colaCpu' = Append(colaCpu, c)
    BY <1>0 DEF Tipos, CpuEnUnLugar
  <2> QED BY <2>1, <1>2, ListaAgrega
<1>6. semCpu \in Nat /\ semCpu' \in Nat
  BY <1>0 DEF Tipos
<1>7. Tipos'
  BY <1>0, <1>4, <1>5, <1>6 DEF Tipos
<1>8. Semaforos'
  <2> DEFINE k == IF pcPcp = "saca" THEN 1 ELSE 0
  <2>1. k \in Nat /\ semCpu + k = Len(colaCpu)
    BY <1>0 DEF Semaforos
  <2> HIDE DEF k
  <2>2. (semCpu + 1) + k = Len(colaCpu')
    BY <2>1, <1>5, <1>6
  <2> QED BY <1>0, <2>2 DEF Semaforos, k
<1>9. UnSoloLugar'
  BY <1>0 DEF UnSoloLugar
<1>10. Ocupadas' = Ocupadas /\ SinAtender' = SinAtender \ {c}
  <2>1. \A d \in CPUs \ {c} : Llega(aKernel, d, "CPU")' <=> Llega(aKernel, d, "CPU")
    BY <1>4 DEF Llega
  <2>2. ~Llega(aKernel, c, "CPU")'
    BY <1>4 DEF Llega
  <2> QED BY <2>1, <2>2 DEF Ocupadas, SinAtender
<1>11. CpuEnUnLugar'
  BY <1>0, <1>1, <1>2, <1>5, <1>10 DEF CpuEnUnLugar
<1>12. Protocolo'
  <2>1. \A d \in CPUs \ {c} : Igual(d)
    BY <1>4 DEF Igual
  <2>2. \A d \in CPUs \ {c} : Vacia(d)' <=> Vacia(d)
    BY <2>1, IgualVacia
  <2>3. \A d \in CPUs \ {c} : \A q : Etapa(d, q)' <=> Etapa(d, q)
    BY <2>1, IgualEtapa
  <2>4. Vacia(c)'
    BY <1>3 DEF Vacia, Quieta
  <2>5. \A q \in ToSet(colaExec) : socketCPU[q] # c
    BY <1>2 DEF Ocupadas
  <2> QED BY <1>0, <1>4, <1>10, <2>2, <2>3, <2>4, <2>5 DEF Protocolo, Aviso, Mensaje
<1> QED BY <1>7, <1>8, <1>9, <1>11, <1>12 DEF IInv, ManoPcp, SinSobresaltos

\* A system call leaves colaExec with the same processes.
LEMMA PasoSyscall ==
  ASSUME IInv, NEW c \in CPUs, Syscall(c) PROVE IInv'
<1> USE DEF cpu, carga, banderas, planes, procesos
<1>0. Tipos /\ UnSoloLugar /\ CpuEnUnLugar /\ Semaforos /\ Protocolo
  BY DEF IInv
<1>1. aKernel[c] # <<>> /\ Head(aKernel[c]).tipo \in {"AVISA", "PIDE"}
  BY DEF Syscall, Llega
<1>2. PICK p \in ToSet(colaExec) :
        /\ socketCPU[p] = c /\ p \in Procs /\ c \in Ocupadas
        /\ \A q \in ToSet(colaExec) : socketCPU[q] = c => q = p
        /\ EnCurso(c, p) \/ Devuelto(c, p)
        /\ Remitente(c) \in 1..Len(colaExec) /\ colaExec[Remitente(c)] = p
  BY <1>1, HayRemitente
<1>3. /\ colaExec' = Append(RemoveAt(colaExec, Remitente(c)), p)
      /\ aKernel' = Sacar(aKernel, c)
      /\ aCpu' = IF Llega(aKernel, c, "PIDE") THEN Mandar(aCpu, c, Aviso("RESPUESTA"))
                                              ELSE aCpu
      /\ UNCHANGED <<porLlegar, colaNew, colaReady, colaExit, colaCpu, semNew,
                     semReady, semCpu, planes, procesos, fallo, cpu, progreso>>
  BY <1>2 DEF Syscall, SacaProceso
<1> DEFINE e == RemoveAt(colaExec, Remitente(c))
<1>4. e \in Seq(Procs) /\ ToSet(e) = ToSet(colaExec) \ {p} /\ IsInjective(e)
  <2>1. colaExec \in Seq(Procs) /\ IsInjective(colaExec)
    BY <1>0 DEF Tipos, UnSoloLugar
  <2> QED BY <1>2, <2>1, ListaQuita
<1> HIDE DEF e
<1>5. /\ colaExec' \in Seq(Procs) /\ ToSet(colaExec') = ToSet(colaExec)
      /\ IsInjective(colaExec')
  <2>1. colaExec' = Append(e, p)
    BY <1>3 DEF e
  <2>2. (ToSet(colaExec) \ {p}) \cup {p} = ToSet(colaExec)
    OBVIOUS
  <2>3. /\ Append(e, p) \in Seq(Procs) /\ ToSet(Append(e, p)) = ToSet(e) \cup {p}
        /\ IsInjective(Append(e, p))
    <3>1. p \in Procs /\ p \notin ToSet(e) /\ e \in Seq(Procs) /\ IsInjective(e)
      BY <1>2, <1>4
    <3> QED BY <3>1, ListaAgrega
  <2> QED BY <1>4, <2>1, <2>2, <2>3
<1>6. /\ aKernel \in [CPUs -> Seq(Mensajes)] /\ aKernel[c] \in Seq(Mensajes)
      /\ aKernel' = [aKernel EXCEPT ![c] = Tail(aKernel[c])]
  BY <1>0, <1>3 DEF Tipos, Sacar
<1>7. Tail(aKernel[c]) \in Seq(Mensajes)
  BY <1>1, <1>6, AvisosResto
<1>8. /\ aKernel' \in [CPUs -> Seq(Mensajes)] /\ aKernel'[c] = Tail(aKernel[c])
      /\ \A d \in CPUs \ {c} : aKernel'[d] = aKernel[d]
  BY <1>6, <1>7
<1>9. /\ aCpu' \in [CPUs -> Seq(Mensajes)]
      /\ \A d \in CPUs \ {c} : aCpu'[d] = aCpu[d]
      /\ Head(aKernel[c]).tipo = "AVISA" => aCpu' = aCpu
      /\ Head(aKernel[c]).tipo = "PIDE" =>
           aCpu'[c] = Append(aCpu[c], Aviso("RESPUESTA"))
  <2>1. aCpu \in [CPUs -> Seq(Mensajes)]
    BY <1>0 DEF Tipos
  <2>2. Append(aCpu[c], Aviso("RESPUESTA")) \in Seq(Mensajes)
    <3>1. Aviso("RESPUESTA") \in Mensajes
      BY DEF Aviso, Mensaje, Mensajes
    <3> QED BY <2>1, <3>1
  <2>3. CASE Head(aKernel[c]).tipo = "AVISA"
    BY <1>3, <2>1, <2>3 DEF Llega
  <2>4. CASE Head(aKernel[c]).tipo = "PIDE"
    <3>1. aCpu' = [aCpu EXCEPT ![c] = Append(aCpu[c], Aviso("RESPUESTA"))]
      BY <1>1, <1>3, <2>4 DEF Llega, Mandar
    <3> QED BY <2>1, <2>2, <2>4, <3>1
  <2> QED BY <1>1, <2>3, <2>4
<1>10. Tipos'
  BY <1>0, <1>3, <1>5, <1>8, <1>9 DEF Tipos
<1>11. Semaforos' /\ UnSoloLugar'
  BY <1>0, <1>3, <1>5 DEF Semaforos, UnSoloLugar
<1>12. EnCurso(c, p)' \/ Devuelto(c, p)'
  <2>1. CASE EnCurso(c, p) /\ Head(aKernel[c]).tipo = "AVISA"
    <3>1. aCpu' = aCpu /\ aKernel'[c] = Tail(aKernel[c])
      BY <1>8, <1>9, <2>1
    <3>2. CASE fase[c] = "respuesta"
      <4>1. aCpu[c] = <<>> /\ AvisosY(aKernel[c], "PIDE")
        BY <1>1, <2>1, <3>2 DEF EnCurso
      <4>2. AvisosY(Tail(aKernel[c]), "PIDE")
        BY <1>1, <1>6, <2>1, <4>1, AvisosResto
      <4> QED BY <1>3, <2>1, <3>1, <3>2, <4>1, <4>2 DEF EnCurso
    <3>3. CASE fase[c] # "respuesta"
      <4>1. aCpu[c] = <<>> /\ SoloAvisos(Tail(aKernel[c]))
        BY <1>1, <1>6, <2>1, <3>3, AvisosResto DEF EnCurso
      <4> QED BY <1>3, <2>1, <3>1, <3>3, <4>1 DEF EnCurso
    <3> QED BY <3>2, <3>3
  <2>2. CASE EnCurso(c, p) /\ Head(aKernel[c]).tipo = "PIDE"
    <3>1. fase[c] = "respuesta"
      BY <1>1, <1>6, <2>2, AvisosResto DEF EnCurso
    <3>2. aCpu[c] = <<>> /\ AvisosY(aKernel[c], "PIDE")
      BY <1>1, <2>2, <3>1 DEF EnCurso
    <3>3. Tail(aKernel[c]) = <<>>
      BY <1>1, <1>6, <2>2, <3>2, AvisosResto
    <3>4. aCpu'[c] = <<Aviso("RESPUESTA")>>
      BY <1>9, <2>2, <3>2
    <3> QED BY <1>3, <1>8, <2>2, <3>1, <3>3, <3>4 DEF EnCurso
  <2>3. CASE Devuelto(c, p)
    <3>1. PICK t \in {"PROGRAMATERMINADO", "FINDEQUATUM", "ABORTO"} :
            /\ AvisosY(aKernel[c], t)
            /\ t # "PROGRAMATERMINADO" => aKernel[c][Len(aKernel[c])].pid = p
      BY <2>3 DEF Devuelto
    <3>2. /\ Head(aKernel[c]).tipo = "AVISA" /\ AvisosY(Tail(aKernel[c]), t)
          /\ Tail(aKernel[c])[Len(Tail(aKernel[c]))] = aKernel[c][Len(aKernel[c])]
      BY <1>1, <1>6, <3>1, AvisosResto
    <3>3. aCpu' = aCpu
      BY <1>9, <3>2
    <3>4. Vacia(c)'
      BY <1>3, <2>3, <3>3 DEF Devuelto, Vacia, Quieta
    <3> QED BY <1>8, <3>1, <3>2, <3>4 DEF Devuelto
  <2> QED BY <1>1, <1>2, <2>1, <2>2, <2>3
<1>13. Ocupadas' = Ocupadas
  BY <1>3, <1>5 DEF Ocupadas
<1>14. ~Llega(aKernel, c, "CPU")'
  <2>2. CASE EnCurso(c, p)'
    <3>1. CASE aKernel'[c] = <<>>
      BY <3>1 DEF Llega
    <3>2. CASE aKernel'[c] # <<>>
      <4>1. SoloAvisos(aKernel'[c]) \/ AvisosY(aKernel'[c], "PIDE")
        BY <2>2, <3>2 DEF EnCurso
      <4>2. Head(aKernel'[c]).tipo \in {"AVISA", "PIDE"}
        BY <1>7, <1>8, <3>2, <4>1, AvisosResto
      <4> QED BY <4>2 DEF Llega
    <3> QED BY <3>1, <3>2
  <2>3. CASE Devuelto(c, p)'
    <3>1. PICK t \in {"PROGRAMATERMINADO", "FINDEQUATUM", "ABORTO"} :
            AvisosY(aKernel'[c], t)
      BY <2>3 DEF Devuelto
    <3>2. aKernel'[c] # <<>>
      BY <3>1 DEF AvisosY
    <3>3. Head(aKernel'[c]).tipo \in {"AVISA", t}
      BY <1>7, <1>8, <3>1, <3>2, AvisosResto
    <3> QED BY <3>3 DEF Llega
  <2> QED BY <1>12, <2>2, <2>3
<1>15. SinAtender' = SinAtender
  <2>1. ~Llega(aKernel, c, "CPU")
    BY <1>1 DEF Llega
  <2>2. \A d \in CPUs \ {c} : Llega(aKernel, d, "CPU")' <=> Llega(aKernel, d, "CPU")
    BY <1>8 DEF Llega
  <2> QED BY <1>14, <2>1, <2>2 DEF SinAtender
<1>16. CpuEnUnLugar'
  BY <1>0, <1>3, <1>5, <1>13, <1>15 DEF CpuEnUnLugar
<1>17. Protocolo'
  <2>1. \A d \in CPUs \ {c} : Igual(d)
    BY <1>3, <1>8, <1>9 DEF Igual
  <2>2. \A d \in CPUs \ {c} : Vacia(d)' <=> Vacia(d)
    BY <2>1, IgualVacia
  <2>3. \A d \in CPUs \ {c} : \A q : Etapa(d, q)' <=> Etapa(d, q)
    BY <1>3, <2>1, IgualEtapa
  <2>4. ASSUME NEW q \in ToSet(colaExec)'
        PROVE  (socketCPU[q] \in CPUs /\ Etapa(socketCPU[q], q))'
    <3>1. CASE q = p
      BY <3>1, <1>2, <1>3, <1>12 DEF Etapa
    <3>2. CASE q # p
      <4>1. q \in ToSet(colaExec) /\ socketCPU[q] # c
        BY <3>2, <2>4, <1>2, <1>5
      <4> QED BY <4>1, <2>3, <1>0, <1>3 DEF Protocolo
    <3> QED BY <3>1, <3>2
  <2> QED BY <1>0, <1>2, <1>8, <1>13, <2>2, <2>4 DEF Protocolo, Aviso, Mensaje
<1> QED BY <1>3, <1>10, <1>11, <1>16, <1>17 DEF IInv, ManoPcp, SinSobresaltos

\* Adding one on both sides.
LEMMA SumaUno ==
  ASSUME NEW n \in Nat, NEW k \in Nat, NEW l, n + k = l
  PROVE  n + 1 \in Nat /\ (n + 1) + k = l + 1
OBVIOUS

\* What the three handlers share that end the run of p on c: p leaves colaExec
\* for colaExit or colaReady, and c is idle again.
LEMMA PasoDeKernel ==
  ASSUME IInv, NEW c \in CPUs, NEW p \in ToSet(colaExec), socketCPU[p] = c,
         Devuelto(c, p), Head(aKernel[c]).tipo # "AVISA",
         Remitente(c) \in 1..Len(colaExec), colaExec[Remitente(c)] = p,
         colaExec' = RemoveAt(colaExec, Remitente(c)),
         aKernel' = Sacar(aKernel, c),
         colaCpu' = Append(colaCpu, c), semCpu' = semCpu + 1,
         pcb' \in [Procs -> Nat], \A q \in Procs \ {p} : pcb'[q] = pcb[q],
         \/ colaExit' = Append(colaExit, p) /\ UNCHANGED <<colaReady, semReady>>
         \/ /\ colaReady' = Append(colaReady, p) /\ semReady' = semReady + 1
            /\ UNCHANGED colaExit,
         UNCHANGED <<porLlegar, colaNew, semNew, planes, socketCPU, abortado, fallo,
                     aCpu, cpu, progreso>>
  PROVE  IInv'
<1> USE DEF cpu, carga, banderas, planes
<1>0. Tipos /\ UnSoloLugar /\ CpuEnUnLugar /\ Semaforos /\ Protocolo
  BY DEF IInv
<1>1. p \in Procs /\ c \in Ocupadas /\ \A q \in ToSet(colaExec) : socketCPU[q] = c => q = p
  BY <1>0, ExecEnProcs DEF Ocupadas, CpuEnUnLugar
<1>2. /\ aKernel \in [CPUs -> Seq(Mensajes)] /\ aKernel[c] \in Seq(Mensajes)
      /\ aKernel[c] # <<>>
  BY <1>0 DEF Tipos, Devuelto, AvisosY
<1>3. Tail(aKernel[c]) = <<>> /\ Vacia(c)
  BY <1>2, AvisosResto DEF Devuelto
<1>4. /\ aKernel' \in [CPUs -> Seq(Mensajes)] /\ aKernel'[c] = <<>>
      /\ \A d \in CPUs \ {c} : aKernel'[d] = aKernel[d]
  BY <1>2, <1>3, SacaUnico
<1>5. /\ colaExec' \in Seq(Procs) /\ ToSet(colaExec') = ToSet(colaExec) \ {p}
      /\ IsInjective(colaExec')
  <2>1. colaExec \in Seq(Procs) /\ IsInjective(colaExec)
    BY <1>0 DEF Tipos, UnSoloLugar
  <2> QED BY <2>1, ListaQuita
<1>6. c \notin ToSet(colaCpu) /\ c \notin EnMano(pcpCpu) /\ c \notin SinAtender
  BY <1>0, <1>1 DEF CpuEnUnLugar
<1>7. /\ colaCpu' \in Seq(CPUs) /\ Len(colaCpu') = Len(colaCpu) + 1
      /\ ToSet(colaCpu') = ToSet(colaCpu) \cup {c} /\ IsInjective(colaCpu')
  <2>1. colaCpu \in Seq(CPUs) /\ IsInjective(colaCpu)
    BY <1>0 DEF Tipos, CpuEnUnLugar
  <2> QED BY <2>1, <1>6, ListaAgrega
<1>8. /\ semCpu \in Nat /\ semCpu' \in Nat /\ semReady \in Nat /\ semReady' \in Nat
      /\ colaReady \in Seq(Procs) /\ colaExit \in Seq(Procs)
  <2>1. semCpu \in Nat /\ semReady \in Nat /\ colaReady \in Seq(Procs) /\ colaExit \in Seq(Procs)
    BY <1>0 DEF Tipos
  <2>2. 0 \in Nat /\ \A n \in Nat : n + 0 = n
    OBVIOUS
  <2>3. semCpu + 1 \in Nat /\ semReady + 1 \in Nat
    BY <2>1, <2>2, SumaUno
  <2> QED BY <2>1, <2>3
<1>9. /\ p \notin porLlegar /\ p \notin ToSet(colaNew) /\ p \notin EnMano(plp)
      /\ p \notin ToSet(colaReady) /\ p \notin EnMano(pcpProc) /\ p \notin ToSet(colaExit)
      /\ IsInjective(colaReady) /\ IsInjective(colaExit)
  BY <1>0 DEF UnSoloLugar
<1>10. \/ /\ colaExit' \in Seq(Procs) /\ ToSet(colaExit') = ToSet(colaExit) \cup {p}
          /\ IsInjective(colaExit') /\ UNCHANGED <<colaReady, semReady>>
       \/ /\ colaReady' \in Seq(Procs) /\ ToSet(colaReady') = ToSet(colaReady) \cup {p}
          /\ IsInjective(colaReady') /\ Len(colaReady') = Len(colaReady) + 1
          /\ semReady' = semReady + 1 /\ UNCHANGED colaExit
  <2>1. /\ Append(colaExit, p) \in Seq(Procs)
        /\ ToSet(Append(colaExit, p)) = ToSet(colaExit) \cup {p}
        /\ IsInjective(Append(colaExit, p))
    BY <1>1, <1>8, <1>9, ListaAgrega
  <2>2. /\ Append(colaReady, p) \in Seq(Procs)
        /\ ToSet(Append(colaReady, p)) = ToSet(colaReady) \cup {p}
        /\ IsInjective(Append(colaReady, p))
        /\ Len(Append(colaReady, p)) = Len(colaReady) + 1
    BY <1>1, <1>8, <1>9, ListaAgrega
  <2> QED BY <2>1, <2>2
<1>11. Tipos'
  <2>1. colaReady' \in Seq(Procs) /\ colaExit' \in Seq(Procs)
    BY <1>8, <1>10
  <2> QED BY <1>0, <1>4, <1>5, <1>7, <1>8, <2>1 DEF Tipos
<1>12. Semaforos'
  <2> DEFINE k == IF pcPcp = "saca" THEN 1 ELSE 0
             j == IF pcPcp \in {"espera_cpu", "saca"} THEN 1 ELSE 0
  <2>1. k \in Nat /\ semCpu + k = Len(colaCpu) /\ j \in Nat /\ semReady + j = Len(colaReady)
    BY <1>0 DEF Semaforos
  <2> HIDE DEF k, j
  <2>2. semCpu' + k = Len(colaCpu')
    <3>1. (semCpu + 1) + k = Len(colaCpu) + 1
      BY ONLY <2>1, SumaUno, <1>8
    <3> QED BY ONLY <3>1, <1>7, semCpu' = semCpu + 1
  <2>3. semReady' + j = Len(colaReady')
    <3>1. (semReady + 1) + j = Len(colaReady) + 1
      BY ONLY <2>1, SumaUno, <1>8
    <3> QED BY ONLY <3>1, <2>1, <1>10
  <2> QED BY <1>0, <2>2, <2>3 DEF Semaforos, k, j
<1>13. UnSoloLugar'
  <2>1. CASE UNCHANGED <<colaReady, semReady>>
    <3>1. /\ ToSet(colaExit') = ToSet(colaExit) \cup {p} /\ IsInjective(colaExit')
      BY <2>1, <1>8, <1>10
    <3> QED BY <2>1, <3>1, <1>0, <1>1, <1>5, <1>9 DEF UnSoloLugar, EnMano
  <2>2. CASE UNCHANGED colaExit /\ semReady' = semReady + 1
    <3>1. /\ ToSet(colaReady') = ToSet(colaReady) \cup {p} /\ IsInjective(colaReady')
      BY <2>2, <1>8, <1>10
    <3> QED BY <2>2, <3>1, <1>0, <1>1, <1>5, <1>9 DEF UnSoloLugar, EnMano
  <2> QED BY <2>1, <2>2, <1>10
<1>14. Ocupadas' = Ocupadas \ {c}
  BY <1>1, <1>5 DEF Ocupadas
<1>15. SinAtender' = SinAtender
  <2>1. \A d \in CPUs \ {c} : Llega(aKernel, d, "CPU")' <=> Llega(aKernel, d, "CPU")
    BY <1>4 DEF Llega
  <2>2. ~Llega(aKernel, c, "CPU")'
    BY <1>4 DEF Llega
  <2> QED BY <2>1, <2>2, <1>6 DEF SinAtender
<1>16. CpuEnUnLugar'
  BY <1>0, <1>1, <1>5, <1>6, <1>7, <1>14, <1>15 DEF CpuEnUnLugar, EnMano
<1>17. Protocolo'
  <2>1. \A d \in CPUs \ {c} : Igual(d)
    BY <1>4 DEF Igual
  <2>2. \A d \in CPUs \ {c} : Vacia(d)' <=> Vacia(d)
    BY <2>1, IgualVacia
  <2>3. ASSUME NEW q \in ToSet(colaExec)'
        PROVE  (socketCPU[q] \in CPUs /\ Etapa(socketCPU[q], q))'
    <3>1. q \in ToSet(colaExec) /\ q # p /\ socketCPU[q] # c /\ q \in Procs
      BY <2>3, <1>0, <1>1, <1>5, ExecEnProcs
    <3>2. socketCPU[q] \in CPUs \ {c} /\ Etapa(socketCPU[q], q)
      BY <1>0, <3>1 DEF Protocolo
    <3>3. Igual(socketCPU[q]) /\ pcb'[q] = pcb[q]
      BY <2>1, <3>1, <3>2
    <3> QED BY <3>2, <3>3, IgualEtapa
  <2>4. Vacia(c)'
    BY <1>3 DEF Vacia, Quieta
  <2> QED BY <1>0, <1>4, <1>14, <2>2, <2>3, <2>4 DEF Protocolo, Aviso, Mensaje
<1> QED BY <1>0, <1>11, <1>12, <1>13, <1>16, <1>17 DEF IInv, ManoPcp, SinSobresaltos

\* PROGRAMATERMINADO moves to colaExit the process of the CPU that sent it.
LEMMA PasoProgramaTerminado ==
  ASSUME IInv, NEW c \in CPUs, ProgramaTerminado(c) PROVE IInv'
<1>0. Tipos
  BY DEF IInv
<1>1. aKernel[c] # <<>> /\ Head(aKernel[c]).tipo = "PROGRAMATERMINADO"
  BY DEF ProgramaTerminado, Llega
<1>2. PICK p \in ToSet(colaExec) :
        /\ socketCPU[p] = c /\ p \in Procs /\ c \in Ocupadas
        /\ \A q \in ToSet(colaExec) : socketCPU[q] = c => q = p
        /\ EnCurso(c, p) \/ Devuelto(c, p)
        /\ Remitente(c) \in 1..Len(colaExec) /\ colaExec[Remitente(c)] = p
  BY <1>1, HayRemitente
<1>3. Devuelto(c, p)
  BY <1>0, <1>1, <1>2, AvisosResto DEF EnCurso, Tipos
<1>4. pcb' \in [Procs -> Nat] /\ pcb' = pcb
  BY <1>0 DEF ProgramaTerminado, procesos, Tipos
<1> QED BY <1>1, <1>2, <1>3, <1>4, PasoDeKernel
        DEF ProgramaTerminado, SacaProceso, procesos

\* The message with which a CPU gives p back brings its program counter.
LEMMA PcbRecibido ==
  ASSUME Tipos, NEW c \in CPUs, NEW p \in Procs, aKernel[c] # <<>>,
         pcb' = [pcb EXCEPT ![p] = Head(aKernel[c]).pc]
  PROVE  pcb' \in [Procs -> Nat] /\ \A q \in Procs \ {p} : pcb'[q] = pcb[q]
<1>1. aKernel[c] \in Seq(Mensajes)
  BY DEF Tipos
<1>2. Head(aKernel[c]).pc \in Nat
  BY <1>1, AvisosResto DEF Mensajes
<1> QED BY <1>2 DEF Tipos

\* FINDEQUATUM moves to colaReady the process of the CPU that sent it.
LEMMA PasoFinDeQuantum ==
  ASSUME IInv, NEW c \in CPUs, FinDeQuantum(c) PROVE IInv'
<1>0. Tipos
  BY DEF IInv
<1>1. aKernel[c] # <<>> /\ Head(aKernel[c]).tipo = "FINDEQUATUM"
  BY DEF FinDeQuantum, Llega
<1>2. PICK p \in ToSet(colaExec) :
        /\ socketCPU[p] = c /\ p \in Procs /\ c \in Ocupadas
        /\ \A q \in ToSet(colaExec) : socketCPU[q] = c => q = p
        /\ EnCurso(c, p) \/ Devuelto(c, p)
        /\ Remitente(c) \in 1..Len(colaExec) /\ colaExec[Remitente(c)] = p
  BY <1>1, HayRemitente
<1>3. Devuelto(c, p)
  BY <1>0, <1>1, <1>2, AvisosResto DEF EnCurso, Tipos
<1>4. pcb' \in [Procs -> Nat] /\ \A q \in Procs \ {p} : pcb'[q] = pcb[q]
  BY <1>0, <1>1, <1>2, PcbRecibido DEF FinDeQuantum, SacaProceso
<1> QED BY <1>1, <1>2, <1>3, <1>4, PasoDeKernel DEF FinDeQuantum, SacaProceso

\* An abort of a CPU moves to colaExit the process of the CPU that sent it.
LEMMA PasoAbortoDeCpu ==
  ASSUME IInv, NEW c \in CPUs, AbortoDeCpu(c) PROVE IInv'
<1>0. Tipos
  BY DEF IInv
<1>1. aKernel[c] # <<>> /\ Head(aKernel[c]).tipo = "ABORTO"
  BY DEF AbortoDeCpu, Llega
<1>2. PICK p \in ToSet(colaExec) :
        /\ socketCPU[p] = c /\ p \in Procs /\ c \in Ocupadas
        /\ \A q \in ToSet(colaExec) : socketCPU[q] = c => q = p
        /\ EnCurso(c, p) \/ Devuelto(c, p)
        /\ Remitente(c) \in 1..Len(colaExec) /\ colaExec[Remitente(c)] = p
  BY <1>1, HayRemitente
<1>3. Devuelto(c, p)
  BY <1>0, <1>1, <1>2, AvisosResto DEF EnCurso, Tipos
<1>4. pcb' \in [Procs -> Nat] /\ \A q \in Procs \ {p} : pcb'[q] = pcb[q]
  BY <1>0, <1>1, <1>2, PcbRecibido DEF AbortoDeCpu, SacaProceso
<1>5. /\ colaCpu' = Append(colaCpu, c) /\ semCpu' = semCpu + 1
      /\ colaExit' = Append(colaExit, p)
  BY <1>2 DEF AbortoDeCpu, SacaProceso, Abortar
<1> QED BY <1>1, <1>2, <1>3, <1>4, <1>5, PasoDeKernel DEF AbortoDeCpu, SacaProceso

\* No handler is left without a process.
LEMMA PasoSinProceso ==
  ASSUME IInv, NEW c \in CPUs, SinProceso(c) PROVE FALSE
<1>1. Remitente(c) \in 1..Len(colaExec) /\ Remitente(c) = 0
  BY HayRemitente DEF SinProceso
<1>2. colaExec \in Seq(Procs)
  BY DEF IInv, Tipos
<1>3. Len(colaExec) \in Nat
  BY <1>2
<1> QED BY <1>1, <1>3

\* The state in which an unlocked list is being changed satisfies IInv.
LEMMA PasoCorrompe ==
  ASSUME IInv, NEW c \in CPUs, Corrompe(c) PROVE IInv'
<1> USE DEF Corrompe, Rompe, kernel, colas, planes, procesos, cpu, carga, banderas
<1>1. Tipos' /\ UnSoloLugar'
  BY DEF IInv, Tipos, UnSoloLugar
<1>2. Semaforos' /\ ManoPcp' /\ SinSobresaltos'
  BY DEF IInv, Semaforos, ManoPcp, SinSobresaltos
<1> QED BY <1>1, <1>2, MismasCpus DEF IInv
-----------------------------------------------------------------------------
\* Every step of the specification preserves IInv.
LEMMA IInvPaso == IInv /\ [Next]_vars => IInv'
<1> SUFFICES ASSUME IInv, [Next]_vars PROVE IInv'
  OBVIOUS
<1>1. CASE UNCHANGED vars
  <2> USE <1>1 DEF vars, kernel, colas, planes, procesos, cpu, carga, banderas
  <2>1. Tipos' /\ UnSoloLugar'
    BY DEF IInv, Tipos, UnSoloLugar
  <2>2. Semaforos' /\ ManoPcp' /\ SinSobresaltos'
    BY DEF IInv, Semaforos, ManoPcp, SinSobresaltos
  <2> QED BY <2>1, <2>2, MismasCpus DEF IInv
<1>2. ASSUME NEW p \in Procs, EntraProceso(p) PROVE IInv'
  BY <1>2, PasoEntraProceso
<1>3. CASE PLP
  BY <1>3, PasoPlpSaca, PasoPlpEncola DEF PLP
<1>4. CASE PCP
  BY <1>4, PasoPcpEsperaReady, PasoPcpEsperaCpu, PasoPcpSaca, PasoPcpTomaMutex,
     PasoPcpEncola DEF PCP
<1>5. ASSUME NEW c \in CPUs, Atiende(c) PROVE IInv'
  BY <1>5, PasoConectaCpu, PasoSyscall, PasoProgramaTerminado, PasoFinDeQuantum,
     PasoAbortoDeCpu, PasoSinProceso, PasoCorrompe DEF Atiende
<1>6. ASSUME NEW c \in CPUs, Receptor(c) PROVE IInv'
  BY <1>6, PasoRecibePcb, PasoRecibeRespuesta DEF Receptor
<1>7. ASSUME NEW c \in CPUs, HiloScript(c) PROVE IInv'
  BY <1>7, PasoArranca, PasoLocal, PasoAvisa, PasoPide, PasoFalla, PasoFinalizar,
     PasoTrasFin, PasoFueraDeIndice, PasoTermina DEF HiloScript
<1> QED BY <1>1, <1>2, <1>3, <1>4, <1>5, <1>6, <1>7 DEF Next

\* IInv holds of every state the dispatcher reaches, with any number of
\* processes and CPUs, any programs, any quantum, FIFO or RR.
THEOREM Invariante == Spec => []IInv
<1> QED BY IInvInit, IInvPaso, PTL DEF Spec

\* Every variable keeps its type.
THEOREM TiposSiempre == Spec => []Tipos
<1>1. IInv => Tipos
  BY DEF IInv
<1> QED BY <1>1, Invariante, PTL

\* Every process is in exactly one queue or hand: procesarScript, the planners
\* and the handlers of procesar() neither lose nor duplicate one.
THEOREM UnSoloLugarSiempre == Spec => []UnSoloLugar
<1>1. IInv => UnSoloLugar
  BY DEF IInv
<1> QED BY <1>1, Invariante, PTL

\* Every CPU is in exactly one place, and runs one process at a time.
THEOREM CpuEnUnLugarSiempre == Spec => []CpuEnUnLugar
<1>1. IInv => CpuEnUnLugar
  BY DEF IInv
<1> QED BY <1>1, Invariante, PTL

\* planificadorCortoPlazo never pops an empty queue.
THEOREM NadaSeDescartaNunca == Spec => []NadaSeDescarta
<1> QED BY SacaDeAmbas, Invariante, PTL

\* No handler gets NULL from sacarProcesoDeEjecucion or ...PorPid.
THEOREM SinNuloSiempre == Spec => []SinNulo
<1>1. IInv => SinNulo
  BY DEF IInv, SinSobresaltos, SinNulo
<1> QED BY <1>1, Invariante, PTL

\* A message is charged to the process that sent it.
THEOREM MensajeDelQueEjecutaSiempre == Spec => []MensajeDelQueEjecuta
<1>1. ASSUME IInv, NEW c \in CPUs, aKernel[c] # <<>>, unPid[c] # Nadie,
             NEW p \in ToSet(colaExec), socketCPU[p] = c
      PROVE  unPid[c] = p
  <2>1. Etapa(c, p)
    BY <1>1 DEF IInv, Protocolo
  <2> QED BY <1>1, <2>1 DEF Etapa, EnCamino, Recibido, EnCurso, Devuelto, Vacia
<1>2. IInv => MensajeDelQueEjecuta
  BY <1>1 DEF MensajeDelQueEjecuta
<1> QED BY <1>2, Invariante, PTL
-----------------------------------------------------------------------------
(* No instruction is executed twice.                                        *)

\* The initial state satisfies Adelanto: nothing was executed.
LEMMA AdelantoInit == Init => Adelanto
<1> SUFFICES ASSUME Init PROVE Adelanto
  OBVIOUS
<1>1. ASSUME NEW c \in CPUs PROVE AdelantoEn(c)
  <2>1. unPid[c] = Nadie /\ aCpu[c] = <<>> /\ aKernel[c] = <<Aviso("CPU")>>
    BY DEF Init
  <2>2. \A m \in ToSet(aKernel[c]) : m.tipo = "CPU"
    BY <2>1 DEF ToSet, Aviso, Mensaje
  <2>3. ToSet(aCpu[c]) = {}
    BY <2>1 DEF ToSet
  <2> QED BY <2>1, <2>2, <2>3 DEF AdelantoEn
<1>2. \A p \in Procs : progreso[p] <= pcb[p]
  BY DEF Init
<1> QED BY <1>1, <1>2 DEF Adelanto

\* Only the last message of a socket with notices and a message at the end is
\* not a notice.
LEMMA UltimoDeAvisos ==
  ASSUME NEW q \in Seq(Mensajes), NEW m \in ToSet(q), m.tipo # "AVISA"
  PROVE  /\ ~SoloAvisos(q)
         /\ \A t : AvisosY(q, t) => m = q[Len(q)] /\ m.tipo = t
<1>1. Len(q) \in Nat /\ DOMAIN q = 1..Len(q)
  BY LenProperties
<1>2. PICK i \in 1..Len(q) : m = q[i]
  BY <1>1 DEF ToSet
<1>3. i \in 1..Len(q) - 1 \/ i = Len(q)
  <2>1. \A n \in Nat : \A k \in 1..n : k \in 1..n - 1 \/ k = n
    OBVIOUS
  <2> QED BY <1>1, <1>2, <2>1
<1>4. i \in 1..Len(q)
  BY <1>2
<1>5. ~SoloAvisos(q)
  BY <1>2, <1>4 DEF SoloAvisos
<1>6. ASSUME NEW t, AvisosY(q, t) PROVE m = q[Len(q)] /\ m.tipo = t
  <2>1. i \notin 1..Len(q) - 1
    BY <1>2, <1>6 DEF AvisosY
  <2> QED BY <1>2, <1>3, <1>6, <2>1 DEF AvisosY
<1> QED BY <1>5, <1>6

\* A PCB in a CPU, or in a socket on its way to one or back, is the one of the
\* process of colaExec that was dispatched to it, and there is no other.
LEMMA Duenios ==
  ASSUME IInv, NEW c \in CPUs
  PROVE  /\ unPid[c] # Nadie => unPid[c] \in ToSet(colaExec) /\ socketCPU[unPid[c]] = c
         /\ \A m \in ToSet(aCpu[c]) : m.tipo = "PCB" =>
              /\ m.pid \in ToSet(colaExec) /\ socketCPU[m.pid] = c
              /\ unPid[c] = Nadie
         /\ \A m \in ToSet(aKernel[c]) : m.tipo \in {"FINDEQUATUM", "ABORTO"} =>
              /\ m.pid \in ToSet(colaExec) /\ socketCPU[m.pid] = c
              /\ unPid[c] = Nadie /\ aCpu[c] = <<>>
<1>0. Tipos /\ ToSet(<<>>) = {} /\ aKernel[c] \in Seq(Mensajes) /\ aCpu[c] \in Seq(Mensajes)
  <2>1. ToSet(<<>>) = {}
    BY DEF ToSet
  <2> QED BY <2>1 DEF IInv, Tipos
<1>1. CASE c \notin Ocupadas
  <2>1. aCpu[c] = <<>> /\ unPid[c] = Nadie
    BY <1>1 DEF IInv, Protocolo, Vacia
  <2>2. \A m \in ToSet(<<Aviso("CPU")>>) : m.tipo = "CPU"
    BY DEF ToSet, Aviso, Mensaje
  <2>3. \A m \in ToSet(aKernel[c]) : m.tipo = "CPU"
    BY <1>0, <1>1, <2>2 DEF IInv, Protocolo
  <2> QED BY <1>0, <2>1, <2>3
<1>2. CASE c \in Ocupadas
  <2>1. PICK p \in ToSet(colaExec) : socketCPU[p] = c /\ Etapa(c, p)
    BY <1>2, CuandoOcupa
  <2>2. ASSUME NEW m \in ToSet(aKernel[c]), m.tipo \in {"FINDEQUATUM", "ABORTO"}
        PROVE  m.pid = p /\ unPid[c] = Nadie /\ aCpu[c] = <<>>
    <3>1. ~SoloAvisos(aKernel[c]) /\ \A t : AvisosY(aKernel[c], t) =>
            m = aKernel[c][Len(aKernel[c])] /\ m.tipo = t
      BY <1>0, <2>2, UltimoDeAvisos
    <3>2. aKernel[c] # <<>>
      BY <1>0, <2>2
    <3>3. Devuelto(c, p)
      BY <2>1, <2>2, <3>1, <3>2 DEF Etapa, EnCamino, Recibido, EnCurso
    <3> QED BY <2>2, <3>1, <3>3 DEF Devuelto, Vacia
  <2>3. ASSUME NEW m \in ToSet(aCpu[c]), m.tipo = "PCB"
        PROVE  m.pid = p /\ unPid[c] = Nadie
    <3>1. aCpu[c] # <<>>
      BY <1>0, <2>3
    <3>2. \A n : ToSet(<<n>>) = {n}
      BY DEF ToSet
    <3>3. aCpu[c] # <<Aviso("RESPUESTA")>>
      BY <2>3, <3>2 DEF Aviso, Mensaje
    <3>4. EnCamino(c, p)
      BY <2>1, <3>1, <3>3 DEF Etapa, Recibido, EnCurso, Devuelto, Vacia
    <3> QED BY <2>3, <3>2, <3>4 DEF EnCamino, Mensaje
  <2>4. unPid[c] # Nadie => unPid[c] = p
    BY <2>1 DEF Etapa, EnCamino, Recibido, EnCurso, Devuelto, Vacia
  <2> QED BY <2>1, <2>2, <2>3, <2>4
<1> QED BY <1>1, <1>2

\* What Adelanto reads of the CPU d is as it was.
MismoPcb(d) ==
  /\ unPid'[d] = unPid[d] /\ unPc'[d] = unPc[d] /\ fase'[d] = fase[d]
  /\ aCpu'[d] = aCpu[d] /\ aKernel'[d] = aKernel[d]

\* A step of the CPU c alone that executes no instruction.
LEMMA SinEjecutar ==
  ASSUME Adelanto, UNCHANGED <<kernel, progreso>>,
         NEW c \in CPUs, \A d \in CPUs \ {c} : MismoPcb(d), AdelantoEn(c)'
  PROVE  Adelanto'
<1> USE DEF kernel, colas, procesos
<1>1. ASSUME NEW d \in CPUs \ {c} PROVE AdelantoEn(d)'
  BY <1>1 DEF Adelanto, AdelantoEn, MismoPcb
<1> QED BY <1>1 DEF Adelanto

\* A step in which the CPU c executes the next instruction of its process: it
\* counts it, or it waits for the answer, or it gives the process up.
LEMMA AlEjecutar ==
  ASSUME IInv, Adelanto, NEW c \in CPUs, ~Quieta(c), unPid[c] \in Procs, Ejecutada(c),
         UNCHANGED kernel, \A d \in CPUs \ {c} : MismoPcb(d), UNCHANGED aCpu,
         \A m \in ToSet(aKernel'[c]) :
           m \in ToSet(aKernel[c]) \/ m.tipo \notin {"FINDEQUATUM", "ABORTO"},
         \/ unPid'[c] = Nadie
         \/ unPid'[c] = unPid[c] /\ fase'[c] = "respuesta" /\ unPc'[c] = unPc[c]
         \/ unPid'[c] = unPid[c] /\ fase'[c] = "ciclo" /\ unPc'[c] = unPc[c] + 1
  PROVE  Adelanto'
<1> USE DEF kernel, colas, procesos
<1> DEFINE p == unPid[c]
           n == unPc[c] + 1
<1>0. Tipos /\ unPc[c] \in Nat /\ progreso \in [Procs -> Nat] /\ p # Nadie /\ n \in Nat
  <2>1. unPc[c] \in Nat /\ \A k \in Nat : k + 1 \in Nat
    BY DEF IInv, Tipos
  <2> QED BY <2>1, NadieSupuesto DEF IInv, Tipos
<1>1. progreso'[p] = n /\ \A q \in Procs : q # p => progreso'[q] = progreso[q]
  BY <1>0 DEF Ejecutada
<1>2. p \in ToSet(colaExec) /\ socketCPU[p] = c
  BY <1>0, Duenios
<1> HIDE DEF p, n
<1>3. ASSUME NEW d \in CPUs \ {c} PROVE AdelantoEn(d)'
  <2>1. AdelantoEn(d) /\ MismoPcb(d)
    BY DEF Adelanto
  <2>2. /\ unPid[d] # Nadie => unPid[d] # p
        /\ \A m \in ToSet(aCpu[d]) : m.tipo = "PCB" => m.pid # p
        /\ \A m \in ToSet(aKernel[d]) : m.tipo \in {"FINDEQUATUM", "ABORTO"} => m.pid # p
    BY <1>2, Duenios
  <2>3. /\ unPid[d] # Nadie => unPid[d] \in Procs
        /\ \A m \in ToSet(aCpu[d]) : m.tipo = "PCB" => m.pid \in Procs
        /\ \A m \in ToSet(aKernel[d]) : m.tipo \in {"FINDEQUATUM", "ABORTO"} => m.pid \in Procs
    BY <1>0, Duenios, ExecEnProcs
  <2> QED BY <1>1, <2>1, <2>3, <2>2 DEF AdelantoEn, MismoPcb
<1>4. AdelantoEn(c)'
  <2>1. \A m \in ToSet(aCpu[c]) : m.tipo # "PCB"
    BY <1>0, Duenios DEF p
  <2>2. \A m \in ToSet(aKernel[c]) : m.tipo \notin {"FINDEQUATUM", "ABORTO"}
    BY <1>0, Duenios DEF p
  <2>3. n <= n
    BY <1>0
  <2> QED BY <1>1, <2>1, <2>2, <2>3 DEF AdelantoEn, p, n
<1>5. \A q \in Procs \ (ToSet(colaExec) \cup ToSet(colaExit)) : progreso'[q] <= pcb[q]
  BY <1>1, <1>2 DEF Adelanto
<1> QED BY <1>3, <1>4, <1>5 DEF Adelanto

\* Running a local primitive, sending a message or failing counts the
\* instruction; finalizar() gives the process up.
LEMMA AdelantoEjecuta ==
  ASSUME IInv, Adelanto, NEW c \in CPUs,
         Local(c) \/ Avisa(c) \/ Pide(c) \/ Falla(c) \/ Finalizar(c)
  PROVE  Adelanto'
<1>0. Tipos
  BY DEF IInv
<1>1. ~Quieta(c) /\ unPid[c] \in Procs /\ unPid[c] # Nadie /\ fase[c] = "ciclo"
  BY NadieSupuesto DEF Local, Avisa, Pide, Falla, Finalizar, Toca, Sigue, Quieta
<1>2. Ejecutada(c) /\ UNCHANGED <<kernel, aCpu>>
  BY DEF Local, Avisa, Pide, Falla, Finalizar
<1>3. \/ aKernel' = aKernel
      \/ \E m \in Mensajes : m.tipo \notin {"FINDEQUATUM", "ABORTO"}
                             /\ aKernel' = Mandar(aKernel, c, m)
  <2>1. /\ Aviso("AVISA") \in Mensajes /\ Aviso("AVISA").tipo = "AVISA"
        /\ Aviso("PIDE") \in Mensajes /\ Aviso("PIDE").tipo = "PIDE"
        /\ Aviso("PROGRAMATERMINADO") \in Mensajes
        /\ Aviso("PROGRAMATERMINADO").tipo = "PROGRAMATERMINADO"
    BY MensajesTipo
  <2> QED BY <2>1 DEF Local, Avisa, Pide, Falla, Finalizar
<1>4. /\ \A d \in CPUs \ {c} : aKernel'[d] = aKernel[d]
      /\ \A m \in ToSet(aKernel'[c]) :
           m \in ToSet(aKernel[c]) \/ m.tipo \notin {"FINDEQUATUM", "ABORTO"}
  <2>1. CASE aKernel' = aKernel
    BY <2>1
  <2>2. ASSUME NEW m \in Mensajes, m.tipo \notin {"FINDEQUATUM", "ABORTO"},
               aKernel' = Mandar(aKernel, c, m)
        PROVE  /\ \A d \in CPUs \ {c} : aKernel'[d] = aKernel[d]
               /\ \A k \in ToSet(aKernel'[c]) :
                    k \in ToSet(aKernel[c]) \/ k.tipo \notin {"FINDEQUATUM", "ABORTO"}
    <3>1. aKernel'[c] = Append(aKernel[c], m) /\ \A d \in CPUs \ {c} : aKernel'[d] = aKernel[d]
      BY <1>0, <2>2 DEF Tipos, Mandar
    <3>2. aKernel[c] \in Seq(Mensajes)
      BY <1>0 DEF Tipos
    <3>3. ToSet(Append(aKernel[c], m)) = ToSet(aKernel[c]) \cup {m}
      BY <3>2, ListaAgrega
    <3> QED BY <2>2, <3>1, <3>3
  <2> QED BY <1>3, <2>1, <2>2
<1>5. /\ unPc[c] \in Nat /\ unPc \in [CPUs -> Nat]
      /\ unPid \in [CPUs -> Procs \cup {Nadie}]
      /\ fase \in [CPUs -> {"espera", "ciclo", "respuesta", "tras_fin", "rota"}]
  BY <1>0 DEF Tipos
<1>6. /\ \/ unPid'[c] = Nadie
         \/ unPid'[c] = unPid[c] /\ fase'[c] = "respuesta" /\ unPc'[c] = unPc[c]
         \/ unPid'[c] = unPid[c] /\ fase'[c] = "ciclo" /\ unPc'[c] = unPc[c] + 1
      /\ \A d \in CPUs \ {c} : /\ unPid'[d] = unPid[d] /\ unPc'[d] = unPc[d]
                               /\ fase'[d] = fase[d]
  <2>1. CASE Avanza(c) /\ UNCHANGED unPid
    BY <1>1, <1>5, <2>1 DEF Avanza
  <2>2. CASE Pide(c)
    BY <1>5, <2>2 DEF Pide, carga
  <2>3. CASE Finalizar(c)
    BY <1>5, <2>3 DEF Finalizar
  <2> QED BY <2>1, <2>2, <2>3 DEF Local, Avisa, Falla
<1>7. \A d \in CPUs \ {c} : MismoPcb(d)
  BY <1>2, <1>4, <1>6 DEF MismoPcb
<1> QED BY <1>1, <1>2, <1>4, <1>6, <1>7, AlEjecutar

\* The steps of a CPU that execute nothing: the start, the end and the return
\* of a program, a PCB or an answer that arrives.
LEMMA AdelantoDeCpu ==
  ASSUME IInv, Adelanto, NEW c \in CPUs,
         \/ Arranca(c) \/ TrasFin(c) \/ FueraDeIndice(c) \/ Termina(c)
         \/ RecibePcb(c) \/ RecibeRespuesta(c)
  PROVE  Adelanto'
<1> USE DEF cpu, carga, banderas
<1>0. Tipos
  BY DEF IInv
<1>1. UNCHANGED <<kernel, progreso>>
  BY DEF Arranca, TrasFin, FueraDeIndice, Termina, RecibePcb, RecibeRespuesta
<1>2. /\ unPc[c] \in Nat /\ unPc \in [CPUs -> Nat]
      /\ unPid \in [CPUs -> Procs \cup {Nadie}]
      /\ fase \in [CPUs -> {"espera", "ciclo", "respuesta", "tras_fin", "rota"}]
      /\ aKernel \in [CPUs -> Seq(Mensajes)] /\ aKernel[c] \in Seq(Mensajes)
      /\ aCpu \in [CPUs -> Seq(Mensajes)] /\ aCpu[c] \in Seq(Mensajes)
      /\ progreso \in [Procs -> Nat]
  BY <1>0 DEF Tipos
<1>3. AdelantoEn(c)
  BY DEF Adelanto
<1>4. ASSUME Arranca(c) \/ TrasFin(c) \/ FueraDeIndice(c) \/ RecibeRespuesta(c)
      PROVE  Adelanto'
  <2>1. /\ unPid' = unPid /\ aKernel' = aKernel
        /\ \/ fase'[c] \in {"ciclo", "rota"} /\ fase[c] \in {"espera", "ciclo"}
              /\ unPc' = unPc /\ aCpu' = aCpu
           \/ Avanza(c) /\ aCpu' = aCpu
           \/ Avanza(c) /\ aCpu[c] # <<>> /\ aCpu' = Sacar(aCpu, c)
        /\ \A d \in CPUs \ {c} : fase'[d] = fase[d]
    <3>a. CASE Arranca(c)
      BY <1>2, <3>a DEF Arranca
    <3>b. CASE TrasFin(c) \/ RecibeRespuesta(c)
      BY <1>0, <3>b, AvanzaTipos DEF TrasFin, RecibeRespuesta, Llega
    <3>c. CASE FueraDeIndice(c)
      BY <1>2, <3>c DEF FueraDeIndice
    <3> QED BY <1>4, <3>a, <3>b, <3>c
  <2>2. /\ \A m \in ToSet(aCpu'[c]) : m \in ToSet(aCpu[c])
        /\ \A d \in CPUs \ {c} : aCpu'[d] = aCpu[d]
    <3>1. CASE aCpu' = aCpu
      BY <3>1
    <3>2. CASE aCpu[c] # <<>> /\ aCpu' = Sacar(aCpu, c)
      <4>1. aCpu'[c] = Tail(aCpu[c]) /\ \A d \in CPUs \ {c} : aCpu'[d] = aCpu[d]
        BY <1>2, <3>2 DEF Sacar
      <4>2. ToSet(Tail(aCpu[c])) \subseteq ToSet(aCpu[c])
        BY <1>2, <3>2, RestoEnLista
      <4> QED BY <4>1, <4>2
    <3> QED BY <2>1, <3>1, <3>2
  <2>3. /\ \A d \in CPUs \ {c} : unPc'[d] = unPc[d]
        /\ unPid[c] # Nadie => progreso[unPid[c]] <= unPc'[c] /\ fase'[c] # "respuesta"
    <3>1. CASE unPc' = unPc /\ fase'[c] # "respuesta" /\ fase[c] # "respuesta"
      BY <1>3, <3>1 DEF AdelantoEn
    <3>2. CASE Avanza(c)
      <4>1. /\ unPc' = unPc \/ unPc' = [unPc EXCEPT ![c] = unPc[c] + 1]
            /\ unPid[c] # Nadie => unPc' = [unPc EXCEPT ![c] = unPc[c] + 1]
            /\ fase'[c] # "respuesta"
        BY <1>2, <3>2 DEF Avanza
      <4>2. \A d \in CPUs \ {c} : unPc'[d] = unPc[d]
        BY <1>2, <4>1
      <4>3. unPid[c] # Nadie => unPc'[c] = unPc[c] + 1 /\ progreso[unPid[c]] \in Nat
        BY <1>2, <4>1
      <4>4. \A n, k \in Nat : n <= k => n <= k + 1
        OBVIOUS
      <4>5. unPid[c] # Nadie =>
              progreso[unPid[c]] <= unPc[c] \/ progreso[unPid[c]] <= unPc[c] + 1
        BY <1>3 DEF AdelantoEn
      <4> DEFINE n == progreso[unPid[c]]
                 k == unPc[c]
      <4>6. unPid[c] # Nadie => n <= k + 1
        <5> HIDE DEF n, k
        <5> QED BY <1>2, <4>3, <4>4, <4>5 DEF n, k
      <4> QED BY <4>1, <4>2, <4>3, <4>6
    <3> QED BY <2>1, <3>1, <3>2
  <2>4. AdelantoEn(c)'
    BY <1>1, <1>3, <2>1, <2>2, <2>3 DEF AdelantoEn
  <2>5. \A d \in CPUs \ {c} : MismoPcb(d)
    BY <2>1, <2>2, <2>3 DEF MismoPcb
  <2> QED BY <1>1, <2>4, <2>5, SinEjecutar
<1>5. CASE RecibePcb(c)
  <2>1. /\ aCpu[c] # <<>> /\ Head(aCpu[c]).tipo = "PCB"
        /\ unPid'[c] = Head(aCpu[c]).pid /\ unPc'[c] = Head(aCpu[c]).pc
        /\ aKernel' = aKernel /\ fase' = fase /\ aCpu'[c] = Tail(aCpu[c])
        /\ \A d \in CPUs \ {c} :
             unPid'[d] = unPid[d] /\ unPc'[d] = unPc[d] /\ aCpu'[d] = aCpu[d]
    BY <1>2, <1>5 DEF RecibePcb, Llega, Sacar
  <2>2. /\ Head(aCpu[c]) \in Mensajes /\ Head(aCpu[c]) \in ToSet(aCpu[c])
        /\ ToSet(Tail(aCpu[c])) \subseteq ToSet(aCpu[c])
    BY <1>2, <2>1, ListaSaca, RestoEnLista
  <2>3. progreso[Head(aCpu[c]).pid] <= Head(aCpu[c]).pc
    BY <1>3, <2>1, <2>2 DEF AdelantoEn
  <2>4. fase[c] # "respuesta"
    <3>1. Head(aCpu[c]).pid \in ToSet(colaExec) /\ socketCPU[Head(aCpu[c]).pid] = c
          /\ unPid[c] = Nadie
      BY <2>1, <2>2, Duenios
    <3>2. ASSUME fase[c] = "respuesta" PROVE unPid[c] # Nadie
      <4>1. ~Quieta(c)
        BY <3>2 DEF Quieta
      <4> QED BY <4>1, CuandoCorre, NadieSupuesto DEF EnCurso
    <3> QED BY <3>1, <3>2
  <2>5. AdelantoEn(c)'
    BY <1>1, <1>3, <2>1, <2>2, <2>3, <2>4 DEF AdelantoEn
  <2>6. \A d \in CPUs \ {c} : MismoPcb(d)
    BY <2>1 DEF MismoPcb
  <2> QED BY <1>1, <2>5, <2>6, SinEjecutar
<1>6. CASE Termina(c)
  <2>1. /\ aCpu' = aCpu /\ unPc' = unPc /\ fase'[c] = "espera" /\ fase[c] = "ciclo"
        /\ \A d \in CPUs \ {c} : fase'[d] = fase[d]
    BY <1>2, <1>6 DEF Termina
  <2>2. \/ UNCHANGED <<aKernel, unPid>>
        \/ /\ \E tipo \in {"ABORTO", "FINDEQUATUM"} : Devuelve(c, tipo)
           /\ ~Quieta(c)
    BY <1>6 DEF Termina, IInv, SinSobresaltos, Quieta
  <2>3. CASE UNCHANGED <<aKernel, unPid>>
    <3>1. AdelantoEn(c)' /\ \A d \in CPUs \ {c} : MismoPcb(d)
      BY <1>1, <1>3, <2>1, <2>3 DEF AdelantoEn, MismoPcb
    <3> QED BY <1>1, <3>1, SinEjecutar
  <2>4. ASSUME NEW tipo \in {"ABORTO", "FINDEQUATUM"}, Devuelve(c, tipo), ~Quieta(c)
        PROVE  Adelanto'
    <3>0. unPid[c] \in Procs /\ unPid[c] # Nadie
      BY <1>2, <2>4, CuandoCorre, NadieSupuesto DEF EnCurso
    <3> DEFINE m == Mensaje(tipo, unPid[c], unPc[c])
    <3>1. m \in Mensajes /\ m.pid = unPid[c] /\ m.pc = unPc[c]
      BY <1>2, <2>4 DEF Mensaje, Mensajes
    <3>2. /\ aKernel' = [aKernel EXCEPT ![c] = Append(aKernel[c], m)]
          /\ unPid' = [unPid EXCEPT ![c] = Nadie]
      BY <2>4 DEF Devuelve, Mandar
    <3> HIDE DEF m
    <3>3. /\ aKernel'[c] = Append(aKernel[c], m) /\ unPid'[c] = Nadie
          /\ \A d \in CPUs \ {c} : aKernel'[d] = aKernel[d] /\ unPid'[d] = unPid[d]
      BY <1>2, <3>2
    <3>4. ToSet(aKernel'[c]) = ToSet(aKernel[c]) \cup {m}
      BY <1>2, <3>1, <3>3, ListaAgrega
    <3>5. progreso[m.pid] <= m.pc
      BY <1>3, <2>1, <3>0, <3>1 DEF AdelantoEn
    <3>6. AdelantoEn(c)'
      BY <1>1, <1>3, <2>1, <3>3, <3>4, <3>5 DEF AdelantoEn
    <3>7. \A d \in CPUs \ {c} : MismoPcb(d)
      BY <2>1, <3>3 DEF MismoPcb
    <3> QED BY <1>1, <3>6, <3>7, SinEjecutar
  <2> QED BY <2>2, <2>3, <2>4
<1> QED BY <1>4, <1>5, <1>6

\* A step of the Kernel: no PCB it takes from a socket, keeps or sends is older
\* than what its process executed.
LEMMA PasoDelKernel ==
  ASSUME Adelanto, UNCHANGED <<cpu, progreso>>,
         \A d \in CPUs :
           /\ \A m \in ToSet(aCpu'[d]) :
                m \in ToSet(aCpu[d]) \/ m.tipo # "PCB" \/ progreso[m.pid] <= m.pc
           /\ \A m \in ToSet(aKernel'[d]) : m \in ToSet(aKernel[d]),
         \A p \in Procs \ (ToSet(colaExec') \cup ToSet(colaExit')) :
           \/ p \notin ToSet(colaExec) \cup ToSet(colaExit) /\ pcb'[p] = pcb[p]
           \/ progreso[p] <= pcb'[p]
  PROVE  Adelanto'
<1> USE DEF cpu, carga
<1>1. ASSUME NEW d \in CPUs PROVE AdelantoEn(d)'
  BY <1>1 DEF Adelanto, AdelantoEn
<1> QED BY <1>1 DEF Adelanto

\* The script thread and the planners, and the handlers that fail.
LEMMA AdelantoQuieto ==
  ASSUME Adelanto, UNCHANGED <<colaExec, colaExit, pcb, aKernel, aCpu, cpu, progreso>>
  PROVE  Adelanto'
BY PasoDelKernel

\* ejecutar() sends the PCB the Kernel kept, of a process nobody was running.
LEMMA AdelantoPcpEncola ==
  ASSUME IInv, Adelanto, PcpEncola PROVE Adelanto'
<1> DEFINE p == pcpProc
           c == pcpCpu
           m == Mensaje("PCB", p, pcb[p])
<1>0. Tipos /\ p \in Procs /\ c \in CPUs /\ p # Nadie
  BY NadieSupuesto DEF PcpEncola, IInv, ManoPcp
<1>1. /\ colaExec' = Append(colaExec, p) /\ aCpu' = Mandar(aCpu, c, m)
      /\ UNCHANGED <<colaExit, pcb, aKernel, cpu, progreso>>
  BY <1>0 DEF PcpEncola, IInv, SinSobresaltos, procesos
<1>2. progreso[p] <= pcb[p]
  <2>1. p \notin ToSet(colaExec) \cup ToSet(colaExit)
    BY <1>0 DEF IInv, UnSoloLugar, EnMano
  <2> QED BY <1>0, <2>1 DEF Adelanto
<1>3. m \in Mensajes /\ m.pid = p /\ m.pc = pcb[p]
  BY <1>0 DEF Mensaje, Mensajes, Tipos
<1> HIDE DEF p, c, m
<1>4. /\ aCpu'[c] = Append(aCpu[c], m) /\ \A d \in CPUs \ {c} : aCpu'[d] = aCpu[d]
      /\ aCpu[c] \in Seq(Mensajes) /\ colaExec \in Seq(Procs)
  BY <1>0, <1>1 DEF Mandar, Tipos
<1>5. ToSet(aCpu'[c]) = ToSet(aCpu[c]) \cup {m} /\ ToSet(colaExec') = ToSet(colaExec) \cup {p}
  BY <1>0, <1>1, <1>3, <1>4, ListaAgrega
<1>6. \A d \in CPUs : \A k \in ToSet(aCpu'[d]) :
        k \in ToSet(aCpu[d]) \/ k.tipo # "PCB" \/ progreso[k.pid] <= k.pc
  BY <1>2, <1>3, <1>4, <1>5
<1> QED BY <1>1, <1>5, <1>6, PasoDelKernel

\* What a handler takes off the socket of c, it takes off that socket only.
LEMMA SacaDelSocket ==
  ASSUME Tipos, NEW c \in CPUs, aKernel[c] # <<>>, aKernel' = Sacar(aKernel, c)
  PROVE  /\ \A d \in CPUs : \A m \in ToSet(aKernel'[d]) : m \in ToSet(aKernel[d])
         /\ Head(aKernel[c]) \in ToSet(aKernel[c])
<1>1. /\ aKernel[c] \in Seq(Mensajes) /\ aKernel'[c] = Tail(aKernel[c])
      /\ \A d \in CPUs \ {c} : aKernel'[d] = aKernel[d]
  BY DEF Sacar, Tipos
<1>2. ToSet(Tail(aKernel[c])) \subseteq ToSet(aKernel[c]) /\ Head(aKernel[c]) \in ToSet(aKernel[c])
  BY <1>1, RestoEnLista, ListaSaca
<1> QED BY <1>1, <1>2

\* A CPU that connects brings no PCB.
LEMMA AdelantoConectaCpu ==
  ASSUME IInv, Adelanto, NEW c \in CPUs, ConectaCpu(c) PROVE Adelanto'
<1>0. Tipos
  BY DEF IInv
<1>1. \A d \in CPUs : \A m \in ToSet(aKernel'[d]) : m \in ToSet(aKernel[d])
  BY <1>0, SacaDelSocket DEF ConectaCpu, Llega
<1> QED BY <1>1, PasoDelKernel DEF ConectaCpu, procesos

\* A handler that answers puts no PCB in the socket, and its process stays in
\* colaExec.
LEMMA AdelantoSyscall ==
  ASSUME IInv, Adelanto, NEW c \in CPUs, Syscall(c) PROVE Adelanto'
<1>0. Tipos /\ colaExec \in Seq(Procs) /\ IsInjective(colaExec)
  BY DEF IInv, Tipos, UnSoloLugar
<1>1. aKernel[c] # <<>> /\ Head(aKernel[c]).tipo # "CPU"
  BY DEF Syscall, Llega
<1>2. PICK p \in ToSet(colaExec) :
        p \in Procs /\ Remitente(c) \in 1..Len(colaExec) /\ colaExec[Remitente(c)] = p
  BY <1>1, HayRemitente
<1>3. /\ aKernel' = Sacar(aKernel, c)
      /\ colaExec' = Append(RemoveAt(colaExec, Remitente(c)), p)
  BY <1>2 DEF Syscall, SacaProceso
<1>4. ToSet(colaExec') = ToSet(colaExec)
  <2> DEFINE r == RemoveAt(colaExec, Remitente(c))
  <2>1. r \in Seq(Procs) /\ ToSet(r) = ToSet(colaExec) \ {p}
    BY <1>0, <1>2, ListaQuita
  <2>2. colaExec' = Append(r, p)
    BY <1>3
  <2> HIDE DEF r
  <2>3. ToSet(Append(r, p)) = ToSet(r) \cup {p}
    BY <1>2, <2>1, ListaAgrega
  <2> QED BY <1>2, <2>1, <2>2, <2>3
<1>5. \A d \in CPUs : \A m \in ToSet(aKernel'[d]) : m \in ToSet(aKernel[d])
  BY <1>0, <1>1, <1>3, SacaDelSocket
<1>6. \A d \in CPUs : \A m \in ToSet(aCpu'[d]) : m \in ToSet(aCpu[d]) \/ m.tipo # "PCB"
  <2> DEFINE r == Aviso("RESPUESTA")
  <2>1. r \in Mensajes /\ r.tipo = "RESPUESTA"
    BY MensajesTipo
  <2>2. aCpu' = aCpu \/ aCpu' = Mandar(aCpu, c, r)
    BY DEF Syscall
  <2> HIDE DEF r
  <2>3. CASE aCpu' = Mandar(aCpu, c, r)
    <3>1. /\ aCpu'[c] = Append(aCpu[c], r) /\ \A d \in CPUs \ {c} : aCpu'[d] = aCpu[d]
          /\ aCpu[c] \in Seq(Mensajes)
      BY <1>0, <2>3 DEF Mandar, Tipos
    <3>2. ToSet(Append(aCpu[c], r)) = ToSet(aCpu[c]) \cup {r}
      BY <2>1, <3>1, ListaAgrega
    <3> QED BY <2>1, <3>1, <3>2
  <2> QED BY <2>2, <2>3
<1> QED BY <1>4, <1>5, <1>6, PasoDelKernel DEF Syscall, procesos

\* FINDEQUATUM and the aborts keep the PCB that came, of the process they take
\* off colaExec; the process that ends needs none.
LEMMA AdelantoDevuelto ==
  ASSUME IInv, Adelanto, NEW c \in CPUs,
         ProgramaTerminado(c) \/ FinDeQuantum(c) \/ AbortoDeCpu(c)
  PROVE  Adelanto'
<1> DEFINE m == Head(aKernel[c])
<1>0. /\ Tipos /\ colaExec \in Seq(Procs) /\ IsInjective(colaExec)
      /\ colaExit \in Seq(Procs) /\ pcb \in [Procs -> Nat]
  BY DEF IInv, Tipos, UnSoloLugar
<1>1. aKernel[c] # <<>> /\ m.tipo # "CPU"
  BY DEF ProgramaTerminado, FinDeQuantum, AbortoDeCpu, Llega
<1>2. PICK p \in ToSet(colaExec) :
        /\ p \in Procs /\ socketCPU[p] = c
        /\ \A q \in ToSet(colaExec) : socketCPU[q] = c => q = p
        /\ Remitente(c) \in 1..Len(colaExec) /\ colaExec[Remitente(c)] = p
  BY <1>1, HayRemitente
<1>3. /\ aKernel' = Sacar(aKernel, c) /\ UNCHANGED <<aCpu, cpu, progreso>>
      /\ colaExec' = RemoveAt(colaExec, Remitente(c))
      /\ \/ colaExit' = Append(colaExit, p) /\ \A q \in Procs \ {p} : pcb'[q] = pcb[q]
         \/ /\ m.tipo = "FINDEQUATUM" /\ pcb' = [pcb EXCEPT ![p] = m.pc]
            /\ UNCHANGED colaExit
  BY <1>0, <1>2 DEF ProgramaTerminado, FinDeQuantum, AbortoDeCpu, SacaProceso, Abortar,
                    procesos, Llega
<1>4. ToSet(colaExec') = ToSet(colaExec) \ {p}
  BY <1>0, <1>2, <1>3, ListaQuita
<1>5. \A d \in CPUs : \A k \in ToSet(aKernel'[d]) : k \in ToSet(aKernel[d])
  BY <1>0, <1>1, <1>3, SacaDelSocket
<1>6. CASE colaExit' = Append(colaExit, p) /\ \A q \in Procs \ {p} : pcb'[q] = pcb[q]
  <2>1. ToSet(colaExit') = ToSet(colaExit) \cup {p}
    BY <1>0, <1>2, <1>6, ListaAgrega
  <2> QED BY <1>3, <1>4, <1>5, <1>6, <2>1, PasoDelKernel
<1>7. CASE m.tipo = "FINDEQUATUM" /\ pcb' = [pcb EXCEPT ![p] = m.pc] /\ UNCHANGED colaExit
  <2>1. m \in ToSet(aKernel[c])
    BY <1>0, <1>1, <1>3, SacaDelSocket
  <2>2. m.pid = p
    BY <1>2, <1>7, <2>1, Duenios
  <2>3. progreso[p] <= m.pc
    BY <1>7, <2>1, <2>2 DEF Adelanto, AdelantoEn
  <2>4. pcb'[p] = m.pc /\ \A q \in Procs \ {p} : pcb'[q] = pcb[q]
    BY <1>0, <1>2, <1>7
  <2>5. \A q \in Procs \ (ToSet(colaExec') \cup ToSet(colaExit')) :
          \/ q \notin ToSet(colaExec) \cup ToSet(colaExit) /\ pcb'[q] = pcb[q]
          \/ progreso[q] <= pcb'[q]
    BY <1>4, <1>7, <2>3, <2>4
  <2> QED BY <1>3, <1>5, <2>5, PasoDelKernel
<1> QED BY <1>3, <1>6, <1>7

\* Every step preserves Adelanto, in the states of IInv.
LEMMA AdelantoPaso == IInv /\ Adelanto /\ [Next]_vars => Adelanto'
<1> SUFFICES ASSUME IInv, Adelanto, [Next]_vars PROVE Adelanto'
  OBVIOUS
<1> USE DEF kernel, colas, planes, procesos
<1>1. CASE UNCHANGED vars
  BY <1>1, AdelantoQuieto DEF vars
<1>2. ASSUME NEW p \in Procs, EntraProceso(p) PROVE Adelanto'
  BY <1>2, AdelantoQuieto DEF EntraProceso
<1>3. CASE PLP
  BY <1>3, AdelantoQuieto DEF PLP, PlpSaca, PlpEncola
<1>4. CASE PCP
  <2>1. CASE PcpEncola
    BY <2>1, AdelantoPcpEncola
  <2>2. CASE PcpEsperaReady \/ PcpEsperaCpu \/ PcpTomaMutex
    BY <2>2, AdelantoQuieto DEF PcpEsperaReady, PcpEsperaCpu, PcpTomaMutex
  <2>3. CASE PcpSaca
    BY <2>3, AdelantoQuieto DEF PcpSaca
  <2> QED BY <1>4, <2>1, <2>2, <2>3 DEF PCP
<1>5. ASSUME NEW c \in CPUs, Atiende(c) PROVE Adelanto'
  <2>1. CASE SinProceso(c) \/ Corrompe(c)
    BY <2>1, AdelantoQuieto DEF SinProceso, Corrompe, Rompe
  <2> QED BY <1>5, <2>1, AdelantoConectaCpu, AdelantoSyscall, AdelantoDevuelto DEF Atiende
<1>6. ASSUME NEW c \in CPUs, Receptor(c) \/ HiloScript(c) PROVE Adelanto'
  BY <1>6, AdelantoDeCpu, AdelantoEjecuta DEF Receptor, HiloScript
<1> QED BY <1>1, <1>2, <1>3, <1>4, <1>5, <1>6 DEF Next

\* No instruction of a program is executed twice: whatever the quantum cuts and
\* the CPUs and handlers interleave, no PCB about to be executed is older than
\* what its process executed.
THEOREM NoRepiteSiempre == Spec => []NoRepite
<1>1. ASSUME IInv, Adelanto PROVE NoRepite
  <2>1. ASSUME NEW c \in CPUs, fase[c] = "ciclo", Sigue(c)
        PROVE  unPc[c] >= progreso[unPid[c]]
    <3>1. ~Quieta(c)
      BY <2>1 DEF Quieta, Sigue
    <3>2. unPid[c] \in Procs /\ unPid[c] # Nadie
      BY <1>1, <3>1, CuandoCorre, NadieSupuesto DEF EnCurso
    <3>3. unPc[c] \in Nat /\ progreso \in [Procs -> Nat]
      BY <1>1 DEF IInv, Tipos
    <3>4. progreso[unPid[c]] <= unPc[c] /\ progreso[unPid[c]] \in Nat
      BY <1>1, <2>1, <3>2, <3>3 DEF Adelanto, AdelantoEn
    <3> QED BY <3>3, <3>4
  <2>2. ASSUME NEW p \in ToSet(colaReady) PROVE pcb[p] >= progreso[p]
    <3>1. p \in Procs \ (ToSet(colaExec) \cup ToSet(colaExit))
      BY <1>1, <2>2 DEF IInv, UnSoloLugar
    <3>2. progreso[p] <= pcb[p] /\ progreso[p] \in Nat /\ pcb[p] \in Nat
      BY <1>1, <3>1 DEF Adelanto, IInv, Tipos
    <3> QED BY <3>2
  <2> QED BY <2>1, <2>2 DEF NoRepite
<1>2. Spec => []Adelanto
  BY AdelantoInit, AdelantoPaso, Invariante, PTL DEF Spec
<1> QED BY <1>1, <1>2, Invariante, PTL
-----------------------------------------------------------------------------
(* Despacho implements CicloDeVida: every step of the Kernel's queues is a    *)
(* step of the life cycle, or none.                                           *)

\* What is pushed behind what a planner holds is pushed behind the queue.
LEMMA ManoAgrega ==
  ASSUME NEW x \in Procs \cup {Nadie}, NEW q \in Seq(Procs), NEW e \in Procs
  PROVE  EnManoSeq(x) \o Append(q, e) = Append(EnManoSeq(x) \o q, e)
<1>1. CASE x = Nadie
  BY <1>1 DEF EnManoSeq
<1>2. CASE x # Nadie
  BY <1>2 DEF EnManoSeq
<1> QED BY <1>1, <1>2

\* Taking the first of a queue in one's hands moves nothing.
LEMMA ManoToma ==
  ASSUME NEW q \in Seq(Procs), q # <<>>
  PROVE  /\ EnManoSeq(Head(q)) \o Tail(q) = q
         /\ EnManoSeq(Nadie) \o q = q
<1>1. Head(q) \in Procs /\ Head(q) # Nadie
  BY ListaSaca, NadieSupuesto
<1> QED BY <1>1 DEF EnManoSeq

\* Letting go of it removes the first.
LEMMA ManoSuelta ==
  ASSUME NEW x \in Procs, NEW q \in Seq(Procs)
  PROVE  LET r == EnManoSeq(x) \o q
         IN  r # <<>> /\ Head(r) = x /\ Tail(r) = EnManoSeq(Nadie) \o q
<1>1. x # Nadie
  BY NadieSupuesto
<1> QED BY <1>1 DEF EnManoSeq

\* A step that leaves the queues, the hands and the sockets alone is no step of
\* the life cycle.
LEMMA MismoCiclo ==
  ASSUME UNCHANGED <<porLlegar, plp, colaNew, pcpProc, colaReady, colaExec,
                     colaExit, socketCPU>>
  PROVE  UNCHANGED Ciclo!ciclo
BY DEF Ciclo!ciclo, Nuevos, Listos, Corre
-----------------------------------------------------------------------------
\* procesarScript accepts a program.
LEMMA CicloEntraProceso ==
  ASSUME IInv, NEW p \in Procs, EntraProceso(p) PROVE Ciclo!Acepta(p)
<1> USE DEF EntraProceso, planes, procesos
<1>1. plp \in Procs \cup {Nadie} /\ colaNew \in Seq(Procs)
  BY DEF IInv, Tipos
<1>2. Nuevos' = Append(Nuevos, p)
  BY <1>1, ManoAgrega DEF Nuevos
<1>3. UNCHANGED <<Listos, Corre, ToSet(colaExit)>>
  BY DEF Listos, Corre
<1> QED BY <1>2, <1>3 DEF Ciclo!Acepta

\* The long-term planner makes the first accepted program ready.
LEMMA CicloPlpEncola ==
  ASSUME IInv, PlpEncola PROVE Ciclo!Prepara
<1> USE DEF PlpEncola, procesos
<1>1. plp \in Procs /\ colaNew \in Seq(Procs) /\ colaReady \in Seq(Procs)
      /\ pcpProc \in Procs \cup {Nadie}
  BY DEF IInv, Tipos
<1>2. Nuevos # <<>> /\ Head(Nuevos) = plp /\ Tail(Nuevos) = Nuevos'
  BY <1>1, ManoSuelta DEF Nuevos
<1>3. Listos' = Append(Listos, plp)
  BY <1>1, ManoAgrega DEF Listos
<1>4. UNCHANGED <<porLlegar, Corre, ToSet(colaExit)>>
  BY DEF Corre
<1> QED BY <1>2, <1>3, <1>4 DEF Ciclo!Prepara

\* The pops of the planners are no steps of the life cycle.
LEMMA CicloPlpSaca ==
  ASSUME IInv, PlpSaca PROVE UNCHANGED Ciclo!ciclo
<1> USE DEF PlpSaca, procesos
<1>1. colaNew # <<>> /\ colaNew \in Seq(Procs)
  <2>1. semNew > 0 /\ semNew = Len(colaNew) /\ colaNew \in Seq(Procs)
    BY DEF IInv, Semaforos, Tipos
  <2> QED BY <2>1
<1>2. plp' = Head(colaNew) /\ colaNew' = Tail(colaNew)
  BY <1>1 DEF Primero, Resto
<1>3. Nuevos' = Nuevos
  BY <1>1, <1>2, ManoToma DEF Nuevos
<1> QED BY <1>3 DEF Ciclo!ciclo, Listos, Corre

\* What the short-term planner pops was first among the ready, and still is.
LEMMA CicloPcpSaca ==
  ASSUME IInv, PcpSaca PROVE UNCHANGED Ciclo!ciclo
<1> USE DEF PcpSaca
<1>1. /\ colaCpu # <<>> /\ colaReady # <<>> /\ pcpProc = Nadie
      /\ colaCpu \in Seq(CPUs) /\ colaReady \in Seq(Procs)
      /\ Head(colaReady) \notin ToSet(colaExec)
  <2>1. colaCpu # <<>> /\ colaReady # <<>> /\ pcpProc = Nadie
    BY SacaDeAmbas DEF NadaSeDescarta, IInv, ManoPcp
  <2>2. colaCpu \in Seq(CPUs) /\ colaReady \in Seq(Procs)
    BY DEF IInv, Tipos
  <2>3. Head(colaReady) \in ToSet(colaReady)
    BY <2>1, <2>2, ListaSaca
  <2> QED BY <2>1, <2>2, <2>3 DEF IInv, UnSoloLugar
<1>2. /\ pcpProc' = Head(colaReady) /\ colaReady' = Tail(colaReady)
      /\ \E c : socketCPU' = [socketCPU EXCEPT ![Head(colaReady)] = c]
  <2>1. Head(colaReady) # Nadie /\ Head(colaCpu) # Nadie
    BY <1>1, ListaSaca, NadieSupuesto
  <2> QED BY <1>1, <2>1 DEF Primero, Resto
<1>3. Listos' = Listos
  BY <1>1, <1>2, ManoToma DEF Listos
<1>4. \A p \in ToSet(colaExec) : socketCPU'[p] = socketCPU[p]
  BY <1>1, <1>2, ExecEnProcs DEF IInv, Tipos
<1>5. Corre' = Corre
  BY <1>4 DEF Corre
<1> QED BY <1>3, <1>5 DEF Ciclo!ciclo, Nuevos

\* ejecutar() gives the first ready program a CPU that runs nobody.
LEMMA CicloPcpEncola ==
  ASSUME IInv, PcpEncola PROVE \E c \in CPUs : Ciclo!Ejecuta(c)
<1> USE DEF PcpEncola, procesos
<1>1. /\ pcpProc \in Procs /\ pcpCpu \in CPUs /\ socketCPU[pcpProc] = pcpCpu
      /\ ~abortado[pcpProc] /\ colaReady \in Seq(Procs) /\ colaExec \in Seq(Procs)
  BY DEF IInv, Tipos, ManoPcp, SinSobresaltos
<1>2. Listos # <<>> /\ Head(Listos) = pcpProc /\ Tail(Listos) = Listos'
  BY <1>1, ManoSuelta DEF Listos
<1>3. pcpCpu \notin Ocupadas /\ pcpCpu # Nadie
  BY <1>1, NadieSupuesto DEF IInv, CpuEnUnLugar, EnMano
<1>4. \A q \in Procs : Corre[q] # pcpCpu
  BY <1>3 DEF Corre, Ocupadas
<1>5. ToSet(colaExec') = ToSet(colaExec) \cup {pcpProc}
  BY <1>1, ListaAgrega
<1>6. Corre' = [Corre EXCEPT ![pcpProc] = pcpCpu]
  BY <1>1, <1>5 DEF Corre
<1>7. UNCHANGED <<porLlegar, Nuevos, ToSet(colaExit)>>
  BY <1>1 DEF Nuevos
<1> QED BY <1>1, <1>2, <1>4, <1>6, <1>7 DEF Ciclo!Ejecuta

\* What taking a running process off colaExec makes of Corre.
LEMMA CorreSinP ==
  ASSUME IInv, NEW c \in CPUs, aKernel[c] # <<>>, Head(aKernel[c]).tipo # "CPU",
         NEW p \in Procs, SacaProceso(c, p)
  PROVE  /\ Corre[p] # Nadie
         /\ ToSet(RemoveAt(colaExec, Remitente(c))) = ToSet(colaExec) \ {p}
         /\ RemoveAt(colaExec, Remitente(c)) \in Seq(Procs)
         /\ p \in ToSet(colaExec)
<1>1. Remitente(c) \in 1..Len(colaExec) /\ p = colaExec[Remitente(c)]
  BY HayRemitente DEF SacaProceso
<1>2. colaExec \in Seq(Procs) /\ IsInjective(colaExec)
  BY DEF IInv, Tipos, UnSoloLugar
<1>3. /\ ToSet(RemoveAt(colaExec, Remitente(c))) = ToSet(colaExec) \ {p}
      /\ RemoveAt(colaExec, Remitente(c)) \in Seq(Procs) /\ p \in ToSet(colaExec)
  BY <1>1, <1>2, ListaQuita
<1>4. socketCPU[p] \in CPUs
  BY <1>3 DEF IInv, Protocolo
<1> QED BY <1>3, <1>4, NadieSupuesto DEF Corre

\* A system call leaves every program where it runs.
LEMMA CicloSyscall ==
  ASSUME IInv, NEW c \in CPUs, Syscall(c) PROVE UNCHANGED Ciclo!ciclo
<1>1. aKernel[c] # <<>> /\ Head(aKernel[c]).tipo # "CPU"
  BY DEF Syscall, Llega
<1>2. PICK p \in Procs :
        SacaProceso(c, p) /\ colaExec' = Append(RemoveAt(colaExec, Remitente(c)), p)
  BY DEF Syscall
<1>3. ToSet(colaExec') = ToSet(colaExec)
  <2>1. ToSet(colaExec') = (ToSet(colaExec) \ {p}) \cup {p}
    BY <1>1, <1>2, CorreSinP, ListaAgrega
  <2> QED BY <2>1, <1>1, <1>2, CorreSinP
<1> QED BY <1>3 DEF Syscall, planes, procesos, Ciclo!ciclo, Nuevos, Listos, Corre

\* The end of a program.
LEMMA CicloProgramaTerminado ==
  ASSUME IInv, NEW c \in CPUs, ProgramaTerminado(c)
  PROVE  \E p \in Procs : Ciclo!Termina(p)
<1>1. aKernel[c] # <<>> /\ Head(aKernel[c]).tipo # "CPU"
  BY DEF ProgramaTerminado, Llega
<1>2. PICK p \in Procs :
        /\ SacaProceso(c, p)
        /\ colaExec' = RemoveAt(colaExec, Remitente(c))
        /\ colaExit' = Append(colaExit, p)
  BY DEF ProgramaTerminado
<1>3. Corre[p] # Nadie /\ ToSet(colaExec') = ToSet(colaExec) \ {p}
  BY <1>1, <1>2, CorreSinP
<1>4. ToSet(colaExit') = ToSet(colaExit) \cup {p}
  BY <1>2, ListaAgrega DEF IInv, Tipos
<1>5. UNCHANGED <<porLlegar, Nuevos, Listos, socketCPU>>
  BY DEF ProgramaTerminado, planes, procesos, Nuevos, Listos
<1>6. Corre' = [Corre EXCEPT ![p] = Nadie]
  BY <1>3, <1>5 DEF Corre
<1> QED BY <1>3, <1>4, <1>5, <1>6 DEF Ciclo!Termina

\* An abort in the CPU ends the program too.
LEMMA CicloAbortoDeCpu ==
  ASSUME IInv, NEW c \in CPUs, AbortoDeCpu(c)
  PROVE  \E p \in Procs : Ciclo!Termina(p)
<1>1. aKernel[c] # <<>> /\ Head(aKernel[c]).tipo # "CPU"
  BY DEF AbortoDeCpu, Llega
<1>2. PICK p \in Procs :
        /\ SacaProceso(c, p)
        /\ colaExec' = RemoveAt(colaExec, Remitente(c))
        /\ colaExit' = Append(colaExit, p)
  BY DEF AbortoDeCpu, Abortar
<1>3. Corre[p] # Nadie /\ ToSet(colaExec') = ToSet(colaExec) \ {p}
  BY <1>1, <1>2, CorreSinP
<1>4. ToSet(colaExit') = ToSet(colaExit) \cup {p}
  BY <1>2, ListaAgrega DEF IInv, Tipos
<1>5. UNCHANGED <<porLlegar, Nuevos, Listos, socketCPU>>
  BY DEF AbortoDeCpu, planes, Nuevos, Listos
<1>6. Corre' = [Corre EXCEPT ![p] = Nadie]
  BY <1>3, <1>5 DEF Corre
<1> QED BY <1>3, <1>4, <1>5, <1>6 DEF Ciclo!Termina

\* The end of a quantum makes the program the last of the ready ones.
LEMMA CicloFinDeQuantum ==
  ASSUME IInv, NEW c \in CPUs, FinDeQuantum(c)
  PROVE  \E p \in Procs : Ciclo!Desaloja(p)
<1>1. aKernel[c] # <<>> /\ Head(aKernel[c]).tipo # "CPU"
  BY DEF FinDeQuantum, Llega
<1>2. PICK p \in Procs :
        /\ SacaProceso(c, p)
        /\ colaExec' = RemoveAt(colaExec, Remitente(c))
        /\ colaReady' = Append(colaReady, p)
  BY DEF FinDeQuantum
<1>3. Corre[p] # Nadie /\ ToSet(colaExec') = ToSet(colaExec) \ {p}
  BY <1>1, <1>2, CorreSinP
<1>4. pcpProc \in Procs \cup {Nadie} /\ colaReady \in Seq(Procs) /\ pcpProc' = pcpProc
  BY DEF IInv, Tipos, FinDeQuantum, planes
<1>5. Listos' = Append(Listos, p)
  BY <1>2, <1>4, ManoAgrega DEF Listos
<1>6. UNCHANGED <<porLlegar, Nuevos, ToSet(colaExit), socketCPU>>
  BY DEF FinDeQuantum, planes, Nuevos
<1>7. Corre' = [Corre EXCEPT ![p] = Nadie]
  BY <1>3, <1>6 DEF Corre
<1> QED BY <1>3, <1>5, <1>6, <1>7 DEF Ciclo!Desaloja
-----------------------------------------------------------------------------
\* The Kernel starts with every program outside.
LEMMA CicloInit == Init => Ciclo!Init
<1> SUFFICES ASSUME Init PROVE Ciclo!Init
  OBVIOUS
<1>1. ToSet(<<>>) = {} /\ <<>> \o <<>> = <<>>
  BY DEF ToSet
<1> QED BY <1>1 DEF Init, Ciclo!Init, Nuevos, Listos, Corre, EnManoSeq

\* Every step of Despacho is a step of the life cycle, or none.
LEMMA CicloPaso == IInv /\ [Next]_vars => [Ciclo!Next]_Ciclo!ciclo
<1> SUFFICES ASSUME IInv, [Next]_vars PROVE [Ciclo!Next]_Ciclo!ciclo
  OBVIOUS
<1> USE DEF Ciclo!Next
<1>1. CASE UNCHANGED vars
  BY <1>1, MismoCiclo DEF vars, kernel, colas, planes, procesos
<1>2. ASSUME NEW p \in Procs, EntraProceso(p) PROVE [Ciclo!Next]_Ciclo!ciclo
  BY <1>2, CicloEntraProceso
<1>3. CASE PLP
  BY <1>3, CicloPlpSaca, CicloPlpEncola DEF PLP
<1>4. CASE PcpSaca \/ PcpEncola
  BY <1>4, CicloPcpSaca, CicloPcpEncola
<1>5. CASE PcpEsperaReady \/ PcpEsperaCpu \/ PcpTomaMutex
  BY <1>5, MismoCiclo DEF PcpEsperaReady, PcpEsperaCpu, PcpTomaMutex, colas, procesos
<1>6. ASSUME NEW c \in CPUs, Atiende(c) PROVE [Ciclo!Next]_Ciclo!ciclo
  <2>1. CASE Syscall(c) \/ ProgramaTerminado(c) \/ FinDeQuantum(c) \/ AbortoDeCpu(c)
    BY <2>1, CicloSyscall, CicloProgramaTerminado, CicloFinDeQuantum, CicloAbortoDeCpu
  <2>2. CASE ConectaCpu(c) \/ SinProceso(c) \/ Corrompe(c)
    BY <2>2, MismoCiclo DEF ConectaCpu, SinProceso, Corrompe, Rompe, kernel, colas,
       planes, procesos
  <2> QED BY <1>6, <2>1, <2>2 DEF Atiende
<1>7. ASSUME NEW c \in CPUs, Receptor(c) \/ HiloScript(c) PROVE UNCHANGED kernel
  BY <1>7 DEF Receptor, RecibePcb, RecibeRespuesta, HiloScript, Arranca, Local,
     Avisa, Pide, Falla, Finalizar, TrasFin, FueraDeIndice, Termina
<1>8. CASE UNCHANGED kernel
  BY <1>8, MismoCiclo DEF kernel, colas, planes, procesos
<1> QED BY <1>1, <1>2, <1>3, <1>4, <1>5, <1>6, <1>7, <1>8 DEF Next, PCP

\* The Kernel keeps the promises of CicloDeVida: whatever its threads and the
\* CPUs interleave, programs become ready in the order they were accepted and
\* run in the order they became ready, one per CPU.
THEOREM ImplementaCiclo == Spec => CumpleCiclo
<1> QED BY CicloInit, CicloPaso, Invariante, PTL DEF Spec, CumpleCiclo, Ciclo!Spec
-----------------------------------------------------------------------------
(* The loop of the main thread.                                             *)

\* The loop over the sockets that select() reports, with the index that
\* PROGRAMATERMINADO and crearPCB move, only chooses which of the steps of Spec
\* the main thread takes: what is proved of them in any order holds with it.
THEOREM BucleEsUnOrden == SpecBucle => Spec
<1>1. [NextBucle]_bucle => [Next]_vars
  <2> SUFFICES ASSUME NextBucle PROVE [Next]_vars
    BY DEF bucle
  <2>1. CASE LeeOtros /\ UNCHANGED vars
    BY <2>1
  <2> QED BY <2>1 DEF NextBucle, Next
<1> QED BY <1>1, PTL DEF SpecBucle, InitBucle, Spec
=============================================================================
