------------------------ MODULE PlanificacionProofs ------------------------
(* With one CPU, IInvUnaCpu is an inductive invariant of Planificacion, and *)
(* what follows from it; and what the kills and the CPUs that leave never   *)
(* do, for any number of CPUs.                                              *)
EXTENDS PlanificacionInv, InterrupcionesInv, ListasLemas

(* How many times a process is in a list.                                   *)

\* The places of p in two lists, one after the other, are its places in the
\* first and, further on, its places in the second.
LEMMA VecesJuntas ==
  ASSUME NEW E, NEW a \in Seq(E), NEW b \in Seq(E), NEW p
  PROVE  /\ Veces(a, p) \in Nat /\ Veces(b, p) \in Nat
         /\ Veces(a \o b, p) = Veces(a, p) + Veces(b, p)
<1> DEFINE n == Len(a)
           m == Len(b)
           A == {i \in 1..n : a[i] = p}
           B == {i \in 1..m : b[i] = p}
           C == {i \in 1..n + m : (a \o b)[i] = p}
           D == {i \in n + 1..n + m : (a \o b)[i] = p}
<1>1. /\ n \in Nat /\ m \in Nat /\ DOMAIN a = 1..n /\ DOMAIN b = 1..m
      /\ DOMAIN (a \o b) = 1..n + m
      /\ \A i \in 1..n : (a \o b)[i] = a[i]
      /\ \A i \in 1..m : (a \o b)[n + i] = b[i]
  OBVIOUS
<1> HIDE DEF n, m
<1>2. /\ IsFiniteSet(1..n) /\ IsFiniteSet(1..m) /\ IsFiniteSet(n + 1..n + m)
  <2>1. \A x, y \in Int : IsFiniteSet(x..y)
    BY FS_Interval
  <2>2. n + 1 \in Int /\ n + m \in Int /\ n \in Int /\ m \in Int
    BY <1>1
  <2> QED BY <2>1, <2>2
<1>3. A \subseteq 1..n /\ B \subseteq 1..m /\ D \subseteq n + 1..n + m
  OBVIOUS
<1>4. IsFiniteSet(A) /\ IsFiniteSet(B) /\ IsFiniteSet(D)
  BY <1>2, <1>3, FS_Subset
<1>5. Cardinality(A) \in Nat /\ Cardinality(B) \in Nat /\ Cardinality(D) \in Nat
  BY <1>4, FS_CardinalityType
<1>6. C = A \cup D /\ A \cap D = {}
  BY <1>1
<1>7. Cardinality(C) = Cardinality(A) + Cardinality(D)
  <2> HIDE DEF A, C, D
  <2>1. Cardinality({}) = 0
    BY FS_EmptySet
  <2>2. Cardinality(A \cup D) = Cardinality(A) + Cardinality(D) - Cardinality(A \cap D)
    BY <1>4, FS_Union
  <2>3. Cardinality(A \cap D) = 0 /\ Cardinality(C) = Cardinality(A \cup D)
    BY <2>1, <1>6
  <2> QED BY <2>2, <2>3, <1>5
<1>8. Cardinality(B) = Cardinality(D)
  <2> DEFINE g == [i \in B |-> n + i]
  <2>1. \A i \in B : n + i \in D
    BY <1>1
  <2>2. \A j \in D : j - n \in B /\ n + (j - n) = j
    BY <1>1
  <2>3. g \in [B -> D]
    BY <2>1
  <2>4. g \in Bijection(B, D)
    <3>1. \A i, j \in B : g[i] = g[j] => i = j
      BY <1>1
    <3>2. \A j \in D : \E i \in B : g[i] = j
      BY <2>2
    <3>3. IsInjective(g)
      BY <3>1 DEF IsInjective
    <3> HIDE DEF g, B, D
    <3> QED BY <2>3, <3>2, <3>3 DEF Bijection, Injection, Surjection
  <2> HIDE DEF B, D, g
  <2> QED BY <2>4, <1>4, FS_Bijection DEF ExistsBijection
<1> QED BY <1>1, <1>5, <1>7, <1>8 DEF Veces

\* A list of none, and one of one.
LEMMA VecesUno ==
  ASSUME NEW x, NEW p
  PROVE  Veces(<<>>, p) = 0 /\ Veces(<<x>>, p) = EnLaMano(x, p)
<1>1. {i \in DOMAIN <<>> : <<>>[i] = p} = {}
  OBVIOUS
<1>2. {i \in DOMAIN <<x>> : <<x>>[i] = p} = IF x = p THEN {1} ELSE {}
  OBVIOUS
<1>3. Cardinality({}) = 0 /\ Cardinality({1}) = 1
  BY FS_EmptySet, FS_Singleton
<1> QED BY <1>1, <1>2, <1>3 DEF Veces, EnLaMano

\* A process is in a list when it is there some times.
LEMMA VecesLista ==
  ASSUME NEW E, NEW q \in Seq(E), NEW p
  PROVE  Veces(q, p) \in Nat /\ (p \in ToSet(q) <=> Veces(q, p) # 0)
<1> DEFINE A == {i \in 1..Len(q) : q[i] = p}
<1>1. Len(q) \in Nat /\ DOMAIN q = 1..Len(q)
  OBVIOUS
<1>2. IsFiniteSet(1..Len(q))
  BY <1>1, FS_Interval
<1>3. IsFiniteSet(A)
  BY <1>2, FS_Subset
<1>4. Cardinality(A) \in Nat /\ (Cardinality(A) = 0 <=> A = {})
  BY <1>3, FS_CardinalityType, FS_EmptySet
<1>5. p \in ToSet(q) <=> A # {}
  BY <1>1 DEF ToSet
<1> QED BY <1>1, <1>4, <1>5 DEF Veces

\* One more at the end.
LEMMA VecesAgrega ==
  ASSUME NEW E, NEW q \in Seq(E), NEW e \in E
  PROVE  \A p : Veces(Append(q, e), p) = Veces(q, p) + EnLaMano(e, p)
<1>1. <<e>> \in Seq(E) /\ Append(q, e) = q \o <<e>>
  BY AgregaFrontal
<1> TAKE p
<1>2. Veces(q \o <<e>>, p) = Veces(q, p) + Veces(<<e>>, p)
  BY <1>1, VecesJuntas
<1>3. Veces(<<e>>, p) = EnLaMano(e, p)
  BY VecesUno
<1> QED BY <1>1, <1>2, <1>3

\* One less at the head.
LEMMA VecesSaca ==
  ASSUME NEW E, NEW q \in Seq(E), q # <<>>
  PROVE  \A p : Veces(q, p) = EnLaMano(Head(q), p) + Veces(Tail(q), p)
<1> DEFINE h == <<Head(q)>>
           t == Tail(q)
<1>1. h \in Seq(E) /\ t \in Seq(E) /\ Len(q) \in Nat /\ Len(q) >= 1
  BY ListaSaca, LenProperties
<1>2. q = h \o t
  <2>1. SubSeq(q, 1, Len(q)) = h \o SubSeq(q, 1 + 1, Len(q))
    <3>1. 1 \in 1..Len(q) /\ Len(q) \in 1..Len(q) /\ h = <<q[1]>>
      BY <1>1
    <3> HIDE DEF h
    <3> QED BY <3>1, SubSeqRecursiveFirst
  <2>2. SubSeq(q, 1, Len(q)) = q /\ t = SubSeq(q, 2, Len(q)) /\ 1 + 1 = 2
    BY SubSeqFull, TailIsSubSeq
  <2> QED BY <2>1, <2>2
<1> TAKE p
<1>3. Veces(h \o t, p) = Veces(h, p) + Veces(t, p)
  <2> HIDE DEF h, t
  <2> QED BY <1>1, VecesJuntas
<1>4. Veces(h, p) = EnLaMano(Head(q), p)
  BY VecesUno
<1> HIDE DEF h
<1> QED BY <1>2, <1>3, <1>4

\* Activos(p), over one list of all the places, is Cuenta(p).
LEMMA ActivosCuenta ==
  ASSUME NEW c, TiposUnaCpu(c), NEW p
  PROVE  Activos(p) = Cuenta(p)
<1> DEFINE T == Procs \cup {Nadie}
<1>1. /\ colaNew \in Seq(T) /\ colaReady \in Seq(T) /\ colaExec \in Seq(T)
      /\ colaExit \in Seq(T) /\ plp \in T /\ pcpProc \in T
  BY DEF TiposUnaCpu
<1>2. /\ <<plp>> \in Seq(T) /\ <<pcpProc>> \in Seq(T)
      /\ <<plp, pcpProc>> \in Seq(T) /\ <<plp, pcpProc>> = <<plp>> \o <<pcpProc>>
  BY <1>1
<1> HIDE DEF T
<1> DEFINE q2 == colaNew \o colaReady
           q3 == q2 \o colaExec
           q4 == q3 \o colaExit
           q5 == q4 \o <<plp, pcpProc>>
<1>3. /\ q2 \in Seq(T) /\ Veces(q2, p) = Veces(colaNew, p) + Veces(colaReady, p)
  BY <1>1, VecesJuntas, ListasJuntas
<1>4. /\ q3 \in Seq(T) /\ Veces(q3, p) = Veces(q2, p) + Veces(colaExec, p)
  <2> HIDE DEF q2
  <2> QED BY <1>1, <1>3, VecesJuntas, ListasJuntas
<1>5. /\ q4 \in Seq(T) /\ Veces(q4, p) = Veces(q3, p) + Veces(colaExit, p)
  <2> HIDE DEF q3
  <2> QED BY <1>1, <1>4, VecesJuntas, ListasJuntas
<1>6. Veces(<<plp, pcpProc>>, p) = EnLaMano(plp, p) + EnLaMano(pcpProc, p)
  <2>1. Veces(<<plp>> \o <<pcpProc>>, p) = Veces(<<plp>>, p) + Veces(<<pcpProc>>, p)
    <3> USE <1>2
    <3> DEFINE x == <<plp>>
               y == <<pcpProc>>
    <3>1. x \in Seq(T) /\ y \in Seq(T)
      OBVIOUS
    <3> HIDE DEF x, y
    <3>2. Veces(x \o y, p) = Veces(x, p) + Veces(y, p)
      BY <3>1, VecesJuntas
    <3> QED BY <3>2 DEF x, y
  <2> QED BY <2>1, <1>2, VecesUno
<1>7. Veces(q5, p) = Veces(q4, p) + Veces(<<plp, pcpProc>>, p)
  <2> DEFINE z == <<plp, pcpProc>>
  <2>1. z \in Seq(T)
    BY <1>2
  <2> HIDE DEF q4, z
  <2>2. Veces(q4 \o z, p) = Veces(q4, p) + Veces(z, p)
    BY <2>1, <1>5, VecesJuntas
  <2> QED BY <2>2 DEF z
<1>8. /\ Veces(colaNew, p) \in Nat /\ Veces(colaReady, p) \in Nat
      /\ Veces(colaExec, p) \in Nat /\ Veces(colaExit, p) \in Nat
      /\ EnLaMano(plp, p) \in Nat /\ EnLaMano(pcpProc, p) \in Nat
  BY <1>1, VecesLista DEF EnLaMano
<1>9. Activos(p) = Veces(q5, p)
  BY DEF Activos, Veces
<1> HIDE DEF q2, q3, q4, q5
<1> QED BY <1>3, <1>4, <1>5, <1>6, <1>7, <1>8, <1>9 DEF Cuenta
-----------------------------------------------------------------------------
(* Messages.                                                                *)

\* The fields of the messages.
LEMMA Campos ==
  ASSUME NEW t, NEW p, NEW n, NEW s
  PROVE  /\ Aviso(t).tipo = t
         /\ Mensaje(t, p, n).tipo = t /\ Mensaje(t, p, n).pid = p /\ Mensaje(t, p, n).pc = n
         /\ ConSem(t, s).tipo = t /\ ConSem(t, s).sem = s
BY DEF Aviso, Mensaje, ConSem

\* The notices are AVISA and PROCESOSIGNAL, the latter of a semaphore.
LEMMA AvisosTipos ==
  ASSUME NEW m \in Avisos
  PROVE  \/ m.tipo = "AVISA"
         \/ m.tipo = "PROCESOSIGNAL" /\ m.sem \in Sems
BY Campos DEF Avisos

\* A message sent after notices.
LEMMA AvisosYManda ==
  ASSUME NEW f \in Seq(Avisos), NEW m
  PROVE  AvisosY(Append(f, m), m) /\ Last(Append(f, m)) = m
<1> DEFINE E == Avisos \cup {m}
<1>1. f \in Seq(E) /\ m \in E
  BY SeqMonotonic
<1> HIDE DEF E
<1> QED BY <1>1, AgregaFrontal DEF AvisosY

\* The last message of such a socket, and what is left when the first is read.
LEMMA AvisosYLee ==
  ASSUME NEW q, NEW m, AvisosY(q, m)
  PROVE  /\ q # <<>> /\ Last(q) = m
         /\ \/ q = <<m>> /\ Head(q) = m /\ Tail(q) = <<>>
            \/ Head(q) \in Avisos /\ AvisosY(Tail(q), m) /\ Last(Tail(q)) = m
<1>1. PICK f \in Seq(Avisos) : q = Append(f, m)
  BY DEF AvisosY
<1> DEFINE E == Avisos \cup {m}
<1>2. f \in Seq(E) /\ m \in E
  BY SeqMonotonic
<1> HIDE DEF E
<1>3. q # <<>> /\ Last(q) = m
  BY <1>1, <1>2, AgregaFrontal
<1>4. CASE f = <<>>
  <2>1. q = <<m>>
    BY <1>1, <1>4
  <2> QED BY <1>3, <2>1
<1>5. CASE f # <<>>
  <2>1. Head(f) \in Avisos /\ Tail(f) \in Seq(Avisos)
    BY <1>5, ListaSaca
  <2>2. Head(q) = Head(f) /\ Tail(q) = Append(Tail(f), m)
    BY <1>1, <1>5
  <2>3. AvisosY(Tail(q), m) /\ Last(Tail(q)) = m
    BY <2>1, <2>2, AvisosYManda
  <2> QED BY <1>3, <2>1, <2>2, <2>3
<1> QED BY <1>4, <1>5
-----------------------------------------------------------------------------
(* The threads of the CPU.                                                  *)

\* What a step of the CPU leaves to show: its types, and the stage it is in.
LEMMA PasoCpu ==
  ASSUME NEW c, CPUs = {c}, IInvUnaCpu(c), UNCHANGED <<kernel, sems>>,
         TiposUnaCpu(c)', LaCpu(c)',
         \A p \in Procs \ ToSet(colaExec) : progreso'[p] = progreso[p]
  PROVE  IInvUnaCpu(c)'
<1>0. /\ UNCHANGED <<porLlegar, colaNew, colaReady, colaExec, colaExit, colaCpu, semReady, semCpu>>
      /\ UNCHANGED <<plp, pcPcp, pcpProc, pcpCpu, socketCPU, pcb>>
      /\ UNCHANGED <<valor, colas_semaforos, colaProcesosBloqueados, pidio>>
  BY DEF kernel, colas, planes, procesos, sems
<1>1. SemsAlDia'
  BY <1>0 DEF IInvUnaCpu, SemsAlDia, SP!IInv, SP!Tipos,
              SP!NadieEsperaDeMas, SP!EsperaLoQuePidio,
              SP!EntradasVigentes, SP!EntradasEnOrden
<1>2. Planificador'
  BY <1>0 DEF IInvUnaCpu, Planificador
<1>3. PcbAlDia'
  BY <1>0 DEF IInvUnaCpu, PcbAlDia
<1>4. \A p \in Procs : Lugar(p)'
  BY <1>0 DEF IInvUnaCpu, Lugar, Cuenta
<1> QED BY <1>1, <1>2, <1>3, <1>4 DEF IInvUnaCpu

\* The fields of the CPU that a step changes keep their domains.
LEMMA TiposCpu ==
  ASSUME NEW c, CPUs = {c}, TiposUnaCpu(c), UNCHANGED kernel,
         progreso' \in [Procs -> Nat], unPc'[c] \in Nat, codigoAborto'[c] = "ABORTO",
         DOMAIN aKernel' = DOMAIN aKernel, DOMAIN aCpu' = DOMAIN aCpu,
         DOMAIN unPid' = DOMAIN unPid, DOMAIN unPc' = DOMAIN unPc,
         DOMAIN semHayScript' = DOMAIN semHayScript,
         DOMAIN semDestruirPCB' = DOMAIN semDestruirPCB, DOMAIN fase' = DOMAIN fase,
         DOMAIN programaFinalizado' = DOMAIN programaFinalizado,
         DOMAIN programaAbortado' = DOMAIN programaAbortado,
         DOMAIN programaBloqueado' = DOMAIN programaBloqueado,
         DOMAIN codigoAborto' = DOMAIN codigoAborto
  PROVE  TiposUnaCpu(c)'
BY DEF TiposUnaCpu, kernel, colas, planes, procesos

\* What a message to the CPU says of its stage.
LEMMA LlegaACpu ==
  ASSUME NEW c, IInvUnaCpu(c), aCpu[c] # <<>>
  PROVE  \E p \in Procs :
           /\ Ocupada(c, p) /\ Tail(aCpu[c]) = <<>>
           /\ \/ EnCamino(c, p) /\ Head(aCpu[c]).tipo = "PCB"
              \/ /\ Esperando(c, p) /\ aKernel[c] = <<>>
                 /\ \/ Head(aCpu[c]).tipo = "RESPUESTA" /\ pidio[p] = Nadie
                    \/ /\ Head(aCpu[c]).tipo = "PROCESOWAIT"
                       /\ Head(aCpu[c]).pc = IF pidio[p] = Nadie THEN 0 ELSE 1
<1>1. PICK p \in Procs : Ocupada(c, p) /\ (EnCamino(c, p) \/ Esperando(c, p))
  BY DEF IInvUnaCpu, LaCpu, CpuLibre, Ocupada, Etapa, Recibido, Ejecutando, Parando, Devuelto
<1>2. CASE EnCamino(c, p)
  <2>1. Head(aCpu[c]) = Mensaje("PCB", p, pcb[p]) /\ Tail(aCpu[c]) = <<>>
    BY <1>2 DEF EnCamino
  <2> QED BY <1>1, <1>2, <2>1, Campos
<1>3. CASE Esperando(c, p)
  <2>1. PICK m : /\ aKernel[c] = <<>> /\ aCpu[c] = <<m>>
                 /\ \/ m = Aviso("RESPUESTA") /\ pidio[p] = Nadie
                    \/ m = Mensaje("PROCESOWAIT", Nadie, 0) /\ pidio[p] = Nadie
                    \/ m = Mensaje("PROCESOWAIT", Nadie, 1) /\ pidio[p] # Nadie
    BY <1>3 DEF Esperando
  <2>2. Head(aCpu[c]) = m /\ Tail(aCpu[c]) = <<>>
    BY <2>1
  <2>3. Aviso("RESPUESTA").tipo = "RESPUESTA"
    BY Campos
  <2>4. \A n : Mensaje("PROCESOWAIT", Nadie, n).tipo = "PROCESOWAIT"
             /\ Mensaje("PROCESOWAIT", Nadie, n).pc = n
    BY Campos
  <2> QED BY <1>1, <1>3, <2>1, <2>2, <2>3, <2>4
<1> QED BY <1>1, <1>2, <1>3

\* The receiving thread takes the PCB.
LEMMA PasoRecibePcb ==
  ASSUME NEW c, CPUs = {c}, IInvUnaCpu(c), RecibePcb(c), UNCHANGED sems
  PROVE  IInvUnaCpu(c)'
<1>1. PICK p \in Procs : Ocupada(c, p) /\ EnCamino(c, p)
  BY LlegaACpu DEF RecibePcb, Llega
<1>2. /\ aCpu[c] = <<Mensaje("PCB", p, pcb[p])>> /\ Head(aCpu[c]).pid = p
      /\ Head(aCpu[c]).pc = pcb[p] /\ Tail(aCpu[c]) = <<>>
  BY <1>1, Campos DEF EnCamino
<1>3. /\ aCpu'[c] = <<>> /\ unPid'[c] = p /\ unPc'[c] = pcb[p]
      /\ semHayScript'[c] = 1 /\ semDestruirPCB'[c] = 0
      /\ UNCHANGED <<kernel, aKernel, fase, banderas, progreso>>
  BY <1>1, <1>2 DEF RecibePcb, IInvUnaCpu, TiposUnaCpu, EnCamino, SinPcb, Sacar
<1>4. /\ UNCHANGED <<colaExec, colaCpu, pcpCpu, socketCPU, pcb, aKernel, fase, progreso, pidio>>
      /\ UNCHANGED <<programaFinalizado, programaAbortado, programaBloqueado, codigoAborto>>
  BY <1>3 DEF kernel, colas, planes, procesos, banderas, sems
<1>5. Recibido(c, p)'
  BY <1>1, <1>3, <1>4 DEF EnCamino, SinPcb, Quieta, Recibido
<1>6. LaCpu(c)'
  BY <1>1, <1>4, <1>5 DEF LaCpu, Ocupada, Etapa
<1>7. TiposUnaCpu(c)'
  <2>1. pcb[p] \in Nat
    BY DEF IInvUnaCpu, TiposUnaCpu
  <2>2. /\ progreso' \in [Procs -> Nat] /\ unPc'[c] \in Nat /\ codigoAborto'[c] = "ABORTO"
    BY <1>3, <1>4, <2>1 DEF IInvUnaCpu, TiposUnaCpu
  <2>3. /\ DOMAIN aCpu' = DOMAIN aCpu /\ DOMAIN unPid' = DOMAIN unPid
        /\ DOMAIN unPc' = DOMAIN unPc /\ DOMAIN semHayScript' = DOMAIN semHayScript
        /\ DOMAIN semDestruirPCB' = DOMAIN semDestruirPCB
    BY DEF RecibePcb, Sacar
  <2> QED BY <1>3, <1>4, <2>2, <2>3, TiposCpu DEF IInvUnaCpu
<1> QED BY <1>3, <1>4, <1>6, <1>7, PasoCpu

\* The receiving thread passes on an answer, or the answer of PROCESOWAIT.
LEMMA PasoRecibeRespuesta ==
  ASSUME NEW c, CPUs = {c}, IInvUnaCpu(c),
         (RecibeRespuesta(c) /\ UNCHANGED sems) \/ RecibeEspera(c)
  PROVE  IInvUnaCpu(c)'
<1>1. PICK p \in Procs :
        /\ Ocupada(c, p) /\ Tail(aCpu[c]) = <<>> /\ Esperando(c, p) /\ aKernel[c] = <<>>
        /\ \/ Head(aCpu[c]).tipo = "RESPUESTA" /\ pidio[p] = Nadie
           \/ /\ Head(aCpu[c]).tipo = "PROCESOWAIT"
              /\ Head(aCpu[c]).pc = IF pidio[p] = Nadie THEN 0 ELSE 1
  BY LlegaACpu DEF RecibeRespuesta, RecibeEspera, Llega
<1>2. unPid[c] = p /\ p # Nadie /\ unPc[c] \in Nat
  BY <1>1, NadieSupuesto DEF Esperando, EnCurso, IInvUnaCpu, TiposUnaCpu
<1>3. /\ aCpu'[c] = <<>> /\ unPc'[c] = unPc[c] + 1 /\ fase'[c] = "ciclo"
      /\ programaBloqueado'[c] = (pidio[p] # Nadie)
      /\ UNCHANGED <<kernel, aKernel, unPid, semHayScript, semDestruirPCB, progreso, sems>>
      /\ UNCHANGED <<programaFinalizado, programaAbortado, codigoAborto>>
      /\ DOMAIN aCpu' = DOMAIN aCpu /\ DOMAIN unPc' = DOMAIN unPc
      /\ DOMAIN fase' = DOMAIN fase /\ DOMAIN programaBloqueado' = DOMAIN programaBloqueado
  <2>1. CASE RecibeRespuesta(c) /\ UNCHANGED sems
    <3>1. pidio[p] = Nadie
      BY <1>1, <2>1 DEF RecibeRespuesta, Llega
    <3>2. ~programaBloqueado[c]
      BY <1>1 DEF Esperando
    <3>3. programaBloqueado'[c] = FALSE
      BY <2>1, <3>2, <1>1 DEF RecibeRespuesta, banderas, Esperando
    <3> QED BY <1>1, <1>2, <2>1, <3>1, <3>3 DEF RecibeRespuesta, Avanza, Sacar, banderas,
              IInvUnaCpu, TiposUnaCpu
  <2>2. CASE RecibeEspera(c)
    <3>1. Head(aCpu[c]).pc = IF pidio[p] = Nadie THEN 0 ELSE 1
      BY <1>1, <2>2 DEF RecibeEspera, Llega
    <3>2. programaBloqueado'[c] = (pidio[p] # Nadie)
      BY <2>2, <3>1 DEF RecibeEspera, IInvUnaCpu, TiposUnaCpu
    <3> QED BY <1>1, <1>2, <2>2, <3>2 DEF RecibeEspera, Avanza, Sacar, banderas,
              IInvUnaCpu, TiposUnaCpu
  <2> QED BY <2>1, <2>2
<1>4. UNCHANGED <<colaExec, colaCpu, pcpCpu, socketCPU, pcb, pidio>>
  BY <1>3 DEF kernel, colas, planes, procesos, sems
<1>5. EnCurso(c, p)' /\ progreso'[p] <= unPc'[c] /\ ~programaAbortado'[c]
  BY <1>1, <1>3, <1>4 DEF Esperando, EnCurso
<1>6. Etapa(c, p)'
  <2>1. CASE pidio[p] = Nadie
    <3>1. <<>> \in Seq(Avisos)
      OBVIOUS
    <3> QED BY <1>1, <1>3, <1>4, <1>5, <2>1, <3>1 DEF Ejecutando, Etapa
  <2>2. CASE pidio[p] # Nadie
    BY <1>1, <1>3, <1>4, <1>5, <2>2 DEF Parando, Etapa
  <2> QED BY <2>1, <2>2
<1>7. LaCpu(c)'
  BY <1>1, <1>4, <1>6 DEF LaCpu, Ocupada
<1>8. TiposUnaCpu(c)'
  <2>1. /\ progreso' \in [Procs -> Nat] /\ unPc'[c] \in Nat /\ codigoAborto'[c] = "ABORTO"
    BY <1>2, <1>3 DEF IInvUnaCpu, TiposUnaCpu
  <2> QED BY <1>3, <2>1, TiposCpu DEF IInvUnaCpu
<1> QED BY <1>3, <1>7, <1>8, PasoCpu

\* The script thread starts with the PCB it was given.
LEMMA PasoArranca ==
  ASSUME NEW c, CPUs = {c}, IInvUnaCpu(c), Arranca(c), UNCHANGED sems
  PROVE  IInvUnaCpu(c)'
<1>1. PICK p \in Procs : Ocupada(c, p) /\ Recibido(c, p)
  BY DEF IInvUnaCpu, LaCpu, CpuLibre, Ocupada, Etapa, EnCamino, SinPcb, Ejecutando, EnCurso,
     Esperando, Parando, Devuelto, Arranca
<1>2. /\ semHayScript'[c] = 0 /\ fase'[c] = "ciclo" /\ programaFinalizado'[c] = FALSE
      /\ programaAbortado'[c] = FALSE /\ programaBloqueado'[c] = FALSE
      /\ UNCHANGED <<kernel, aKernel, aCpu, unPid, unPc, semDestruirPCB, codigoAborto,
                     progreso>>
  BY <1>1 DEF Arranca, Recibido, IInvUnaCpu, TiposUnaCpu
<1>3. UNCHANGED <<colaExec, colaCpu, pcpCpu, socketCPU, pidio>>
  BY <1>2 DEF kernel, colas, planes, procesos, sems
<1>4. Ejecutando(c, p)'
  <2>1. <<>> \in Seq(Avisos)
    OBVIOUS
  <2> QED BY <1>1, <1>2, <1>3, <2>1 DEF Recibido, Ejecutando, EnCurso
<1>5. LaCpu(c)'
  BY <1>1, <1>3, <1>4 DEF LaCpu, Ocupada, Etapa
<1>6. TiposUnaCpu(c)'
  <2>1. /\ progreso' \in [Procs -> Nat] /\ unPc'[c] \in Nat /\ codigoAborto'[c] = "ABORTO"
    BY <1>2 DEF IInvUnaCpu, TiposUnaCpu
  <2>2. /\ DOMAIN semHayScript' = DOMAIN semHayScript /\ DOMAIN fase' = DOMAIN fase
        /\ DOMAIN programaFinalizado' = DOMAIN programaFinalizado
        /\ DOMAIN programaAbortado' = DOMAIN programaAbortado
        /\ DOMAIN programaBloqueado' = DOMAIN programaBloqueado
    BY DEF Arranca
  <2> QED BY <1>2, <2>1, <2>2, TiposCpu DEF IInvUnaCpu
<1> QED BY <1>2, <1>5, <1>6, PasoCpu

\* The loop of the script thread goes on only in the stage Ejecutando.
LEMMA SigueEjecutando ==
  ASSUME NEW c, CPUs = {c}, IInvUnaCpu(c), fase[c] = "ciclo", Sigue(c)
  PROVE  \E p \in Procs :
           /\ Ocupada(c, p) /\ Ejecutando(c, p) /\ unPid[c] = p /\ p # Nadie
           /\ ~programaBloqueado[c] /\ ~programaAbortado[c] /\ ~programaFinalizado[c]
<1>1. PICK p \in Procs : Ocupada(c, p) /\ Ejecutando(c, p)
  BY DEF IInvUnaCpu, LaCpu, CpuLibre, Ocupada, Etapa, EnCamino, SinPcb, Quieta, Recibido,
     Esperando, Parando, Devuelto, Sigue
<1> QED BY <1>1, NadieSupuesto DEF Ejecutando, EnCurso, Sigue

\* After an instruction, what LaCpu needs of the fields it does not change.
LEMMA PasoInstruccion ==
  ASSUME NEW c, CPUs = {c}, IInvUnaCpu(c), UNCHANGED <<kernel, sems>>,
         NEW p \in Procs, Ocupada(c, p), Ejecutando(c, p),
         \/ progreso' = progreso
         \/ progreso' = [progreso EXCEPT ![p] = unPc[c] + 1],
         unPc' = unPc \/ unPc' = [unPc EXCEPT ![c] = @ + 1],
         codigoAborto'[c] = "ABORTO",
         Etapa(c, p)',
         DOMAIN aKernel' = DOMAIN aKernel, UNCHANGED <<aCpu, semHayScript>>,
         DOMAIN unPid' = DOMAIN unPid,
         DOMAIN semDestruirPCB' = DOMAIN semDestruirPCB, DOMAIN fase' = DOMAIN fase,
         DOMAIN programaFinalizado' = DOMAIN programaFinalizado,
         DOMAIN programaAbortado' = DOMAIN programaAbortado,
         DOMAIN programaBloqueado' = DOMAIN programaBloqueado,
         DOMAIN codigoAborto' = DOMAIN codigoAborto
  PROVE  IInvUnaCpu(c)'
<1>1. UNCHANGED <<colaExec, colaCpu, pcpCpu, socketCPU>>
  BY DEF kernel, colas, planes, procesos
<1>2. LaCpu(c)'
  BY <1>1 DEF LaCpu, Ocupada
<1>3. ToSet(colaExec) = {p}
  BY ListaDeUno DEF Ocupada
<1>4. /\ progreso' \in [Procs -> Nat] /\ unPc'[c] \in Nat
      /\ DOMAIN unPc' = DOMAIN unPc
      /\ \A q \in Procs \ {p} : progreso'[q] = progreso[q]
  <2>1. progreso \in [Procs -> Nat] /\ unPc[c] \in Nat /\ DOMAIN unPc = {c}
    BY DEF IInvUnaCpu, TiposUnaCpu
  <2>2. unPc'[c] \in Nat /\ DOMAIN unPc' = DOMAIN unPc
    BY <2>1
  <2>3. /\ progreso' \in [Procs -> Nat]
        /\ \A q \in Procs \ {p} : progreso'[q] = progreso[q]
    BY <2>1
  <2> QED BY <2>2, <2>3
<1>5. TiposUnaCpu(c)'
  BY <1>4, TiposCpu DEF IInvUnaCpu
<1> QED BY <1>2, <1>3, <1>4, <1>5, PasoCpu

\* The notices sent so far, and one more message.
LEMMA AvisosAgrega ==
  ASSUME NEW q \in Seq(Avisos), NEW m
  PROVE  /\ AvisosY(Append(q, m), m) /\ Last(Append(q, m)) = m
         /\ m \in Avisos => Append(q, m) \in Seq(Avisos)
BY AvisosYManda, ListaAgrega

\* An instruction that leaves the program running: local, with a notice, with a
\* signal, or one that makes it fail.
LEMMA PasoAvanza ==
  ASSUME NEW c, CPUs = {c}, IInvUnaCpu(c),
         ((Local(c) \/ Avisa(c) \/ Falla(c)) /\ UNCHANGED sems) \/ Senala(c)
  PROVE  IInvUnaCpu(c)'
<1>1. fase[c] = "ciclo" /\ Sigue(c)
  BY DEF Local, Avisa, Falla, Senala, Toca
<1>2. PICK p \in Procs :
        /\ Ocupada(c, p) /\ Ejecutando(c, p) /\ unPid[c] = p /\ p # Nadie
        /\ ~programaBloqueado[c] /\ ~programaAbortado[c] /\ ~programaFinalizado[c]
  BY <1>1, SigueEjecutando
<1>3. aKernel[c] \in Seq(Avisos) /\ unPc[c] \in Nat /\ pidio[p] = Nadie
  BY <1>2 DEF Ejecutando, IInvUnaCpu, TiposUnaCpu
<1>4. /\ aKernel'[c] \in Seq(Avisos) /\ DOMAIN aKernel' = DOMAIN aKernel
  <2>1. CASE Local(c) \/ Falla(c)
    BY <1>3, <2>1 DEF Local, Falla
  <2>2. CASE Avisa(c)
    <3>1. aKernel'[c] = Append(aKernel[c], Aviso("AVISA")) /\ Aviso("AVISA") \in Avisos
      BY <2>2 DEF Avisa, Mandar, Avisos, IInvUnaCpu, TiposUnaCpu
    <3> QED BY <1>3, <2>2, <3>1, AvisosAgrega DEF Avisa, Mandar
  <2>3. CASE Senala(c)
    <3> DEFINE s == Programa[unPid[c]][unPc[c] + 1].sem
    <3>1. s \in Sems
      <4>1. /\ unPc[c] < Len(Programa[p]) /\ Programa[p][unPc[c] + 1].op = "signal"
            /\ Len(Programa[p]) \in Nat
        BY <1>2, <2>3, ProgramaSupuesto DEF Senala, Toca
      <4>2. unPc[c] + 1 \in 1..Len(Programa[p])
        BY <4>1, <1>3
      <4> QED BY <4>1, <4>2, <1>2, NombranSems
    <3>2. /\ aKernel'[c] = Append(aKernel[c], ConSem("PROCESOSIGNAL", s))
          /\ DOMAIN aKernel' = DOMAIN aKernel
      BY <2>3 DEF Senala, Mandar, IInvUnaCpu, TiposUnaCpu
    <3>3. ConSem("PROCESOSIGNAL", s) \in Avisos
      BY <3>1 DEF Avisos
    <3> QED BY <1>3, <3>2, <3>3, AvisosAgrega
  <2> QED BY <2>1, <2>2, <2>3
<1>5. /\ unPc' = [unPc EXCEPT ![c] = @ + 1] /\ fase'[c] = "ciclo"
      /\ progreso' = [progreso EXCEPT ![p] = unPc[c] + 1]
      /\ DOMAIN fase' = DOMAIN fase
      /\ UNCHANGED <<kernel, sems, aCpu, unPid, semHayScript, semDestruirPCB,
                     programaFinalizado, programaBloqueado>>
  BY <1>2 DEF Local, Avisa, Falla, Senala, Avanza, Ejecutada, banderas, IInvUnaCpu, TiposUnaCpu
<1>6. /\ DOMAIN programaAbortado' = DOMAIN programaAbortado
      /\ DOMAIN codigoAborto' = DOMAIN codigoAborto /\ codigoAborto'[c] = "ABORTO"
  BY DEF Local, Avisa, Falla, Senala, banderas, IInvUnaCpu, TiposUnaCpu
<1>7. UNCHANGED pidio
  BY <1>5 DEF sems
<1>8. unPc'[c] = unPc[c] + 1 /\ progreso'[p] = unPc[c] + 1
  BY <1>5 DEF IInvUnaCpu, TiposUnaCpu
<1>9. Etapa(c, p)'
  BY <1>2, <1>3, <1>4, <1>5, <1>7, <1>8 DEF Ejecutando, EnCurso, Etapa
<1> QED BY <1>2, <1>4, <1>5, <1>6, <1>9, PasoInstruccion

\* An instruction that asks the Kernel and waits: for a value, or on a
\* semaphore.
LEMMA PasoPide ==
  ASSUME NEW c, CPUs = {c}, IInvUnaCpu(c), (Pide(c) /\ UNCHANGED sems) \/ Espera(c)
  PROVE  IInvUnaCpu(c)'
<1>1. fase[c] = "ciclo" /\ Sigue(c)
  BY DEF Pide, Espera, Toca
<1>2. PICK p \in Procs :
        /\ Ocupada(c, p) /\ Ejecutando(c, p) /\ unPid[c] = p /\ p # Nadie
        /\ ~programaBloqueado[c] /\ ~programaAbortado[c] /\ ~programaFinalizado[c]
  BY <1>1, SigueEjecutando
<1>3. aKernel[c] \in Seq(Avisos) /\ unPc[c] \in Nat /\ pidio[p] = Nadie /\ aCpu[c] = <<>>
  BY <1>2 DEF Ejecutando, IInvUnaCpu, TiposUnaCpu
<1>4. /\ DOMAIN aKernel' = DOMAIN aKernel
      /\ \/ AvisosY(aKernel'[c], Aviso("PIDE"))
         \/ \E s \in Sems : AvisosY(aKernel'[c], ConSem("PROCESOWAIT", s))
  <2>2. CASE Pide(c)
    <3>1. aKernel'[c] = Append(aKernel[c], Aviso("PIDE")) /\ DOMAIN aKernel' = DOMAIN aKernel
      BY <2>2 DEF Pide, Mandar, IInvUnaCpu, TiposUnaCpu
    <3> QED BY <1>3, <3>1, AvisosAgrega
  <2>3. CASE Espera(c)
    <3> DEFINE s == Programa[unPid[c]][unPc[c] + 1].sem
    <3>1. s \in Sems
      <4>1. /\ unPc[c] < Len(Programa[p]) /\ Programa[p][unPc[c] + 1].op = "wait"
            /\ Len(Programa[p]) \in Nat
        BY <1>2, <2>3, ProgramaSupuesto DEF Espera, Toca
      <4>2. unPc[c] + 1 \in 1..Len(Programa[p])
        BY <4>1, <1>3
      <4> QED BY <4>1, <4>2, <1>2, NombranSems
    <3>2. /\ aKernel'[c] = Append(aKernel[c], ConSem("PROCESOWAIT", s))
          /\ DOMAIN aKernel' = DOMAIN aKernel
      BY <2>3 DEF Espera, Mandar, IInvUnaCpu, TiposUnaCpu
    <3> HIDE DEF s
    <3> QED BY <1>3, <3>1, <3>2, AvisosAgrega
  <2> QED BY <2>2, <2>3
<1>5. /\ fase'[c] = "respuesta" /\ progreso' = [progreso EXCEPT ![p] = unPc[c] + 1]
      /\ DOMAIN fase' = DOMAIN fase
      /\ UNCHANGED <<kernel, sems, aCpu, unPid, unPc, semHayScript, semDestruirPCB>>
      /\ UNCHANGED <<programaFinalizado, programaAbortado, programaBloqueado, codigoAborto>>
  BY <1>2 DEF Pide, Espera, Ejecutada, carga, banderas, IInvUnaCpu, TiposUnaCpu
<1>6. pidio' = pidio /\ progreso'[p] = unPc[c] + 1 /\ codigoAborto'[c] = "ABORTO"
  BY <1>5 DEF sems, IInvUnaCpu, TiposUnaCpu
<1>7. Etapa(c, p)'
  <2>1. EnCurso(c, p)'
    BY <1>2, <1>5 DEF Ejecutando, EnCurso
  <2>2. aCpu'[c] = <<>> /\ pidio'[p] = Nadie /\ progreso'[p] <= unPc'[c] + 1
    BY <1>3, <1>5, <1>6
  <2> QED BY <1>2, <1>4, <1>5, <2>1, <2>2 DEF Esperando, Etapa
<1> QED BY <1>2, <1>4, <1>5, <1>6, <1>7, PasoInstruccion

\* The last instruction, and one read past the end.
LEMMA PasoFinalizar ==
  ASSUME NEW c, CPUs = {c}, IInvUnaCpu(c), Finalizar(c) \/ FueraDeIndice(c), UNCHANGED sems
  PROVE  IInvUnaCpu(c)'
<1>1. fase[c] = "ciclo" /\ Sigue(c)
  BY DEF Finalizar, FueraDeIndice, Toca
<1>2. PICK p \in Procs :
        /\ Ocupada(c, p) /\ Ejecutando(c, p) /\ unPid[c] = p /\ p # Nadie
        /\ ~programaBloqueado[c] /\ ~programaAbortado[c] /\ ~programaFinalizado[c]
  BY <1>1, SigueEjecutando
<1>3. aKernel[c] \in Seq(Avisos) /\ unPc[c] \in Nat /\ pidio[p] = Nadie /\ aCpu[c] = <<>>
  BY <1>2 DEF Ejecutando, IInvUnaCpu, TiposUnaCpu
<1>4. pidio' = pidio
  BY DEF sems
<1>5. CASE FueraDeIndice(c)
  <2>1. /\ fase'[c] = "rota" /\ DOMAIN fase' = DOMAIN fase
        /\ UNCHANGED <<kernel, aKernel, aCpu, unPid, unPc, semHayScript, semDestruirPCB, progreso>>
        /\ UNCHANGED <<programaFinalizado, programaAbortado, programaBloqueado, codigoAborto>>
    BY <1>5 DEF FueraDeIndice, carga, banderas, IInvUnaCpu, TiposUnaCpu
  <2>2. Etapa(c, p)'
    BY <1>2, <1>4, <2>1 DEF Ejecutando, EnCurso, Etapa
  <2>3. codigoAborto'[c] = "ABORTO"
    BY <2>1 DEF IInvUnaCpu, TiposUnaCpu
  <2> QED BY <1>2, <2>1, <2>2, <2>3, PasoInstruccion
<1>6. CASE Finalizar(c)
  <2>1. /\ aKernel'[c] = Append(aKernel[c], Aviso("PROGRAMATERMINADO"))
        /\ DOMAIN aKernel' = DOMAIN aKernel
        /\ programaFinalizado'[c] = TRUE
        /\ DOMAIN programaFinalizado' = DOMAIN programaFinalizado
        /\ unPid'[c] = Nadie /\ DOMAIN unPid' = DOMAIN unPid
        /\ semDestruirPCB'[c] = 1 /\ DOMAIN semDestruirPCB' = DOMAIN semDestruirPCB
        /\ fase'[c] = "tras_fin" /\ DOMAIN fase' = DOMAIN fase
        /\ progreso' = [progreso EXCEPT ![p] = unPc[c] + 1]
        /\ UNCHANGED <<kernel, aCpu, unPc, semHayScript>>
        /\ UNCHANGED <<programaAbortado, programaBloqueado, codigoAborto>>
    BY <1>2, <1>6 DEF Finalizar, Ejecutada, Mandar, Ejecutando, EnCurso, IInvUnaCpu, TiposUnaCpu
  <2>2. AvisosY(aKernel'[c], Aviso("PROGRAMATERMINADO"))
    BY <1>3, <2>1, AvisosAgrega
  <2>3. SinPcb(c)'
    BY <1>2, <2>1 DEF SinPcb, Quieta, Ejecutando, EnCurso
  <2>4. Etapa(c, p)'
    BY <1>3, <1>4, <2>1, <2>2, <2>3 DEF Devuelto, Etapa
  <2>5. codigoAborto'[c] = "ABORTO"
    BY <2>1 DEF IInvUnaCpu, TiposUnaCpu
  <2> QED BY <1>2, <2>1, <2>4, <2>5, PasoInstruccion
<1> QED BY <1>5, <1>6

\* A step on the way out of a program that ended: the CPU holds no PCB, or the
\* one of its next program, which TrasFin may advance.
LEMMA PasoQuieta ==
  ASSUME NEW c, CPUs = {c}, IInvUnaCpu(c), UNCHANGED <<kernel, sems>>,
         Quieta(c), Quieta(c)', DOMAIN fase' = DOMAIN fase,
         unPc' = unPc \/ unPc' = [unPc EXCEPT ![c] = @ + 1],
         UNCHANGED <<aKernel, aCpu, unPid, semHayScript, semDestruirPCB, progreso>>,
         UNCHANGED <<programaFinalizado, programaAbortado, programaBloqueado, codigoAborto>>
  PROVE  IInvUnaCpu(c)'
<1>1. UNCHANGED <<colaExec, colaCpu, pcpCpu, socketCPU, pcb, pidio>>
  BY DEF kernel, colas, planes, procesos, sems
<1>2. /\ unPc[c] \in Nat /\ unPc'[c] \in Nat /\ unPc[c] <= unPc'[c] /\ DOMAIN unPc' = DOMAIN unPc
  BY DEF IInvUnaCpu, TiposUnaCpu
<1>3. SinPcb(c) => SinPcb(c)'
  BY DEF SinPcb
<1>4. LaCpu(c)'
  <2>1. CASE CpuLibre(c)
    BY <1>1, <1>3, <2>1 DEF CpuLibre, LaCpu
  <2>2. ASSUME NEW p \in Procs, Ocupada(c, p) PROVE Ocupada(c, p)'
    <3>0. p \in Procs /\ progreso[p] \in Nat
      BY DEF IInvUnaCpu, TiposUnaCpu
    <3>1. CASE EnCamino(c, p)
      BY <1>1, <1>3, <2>2, <3>1 DEF Ocupada, Etapa, EnCamino
    <3>2. CASE Recibido(c, p)
      <4>1. progreso'[p] <= unPc'[c]
        BY <3>0, <3>2, <1>2 DEF Recibido
      <4> QED BY <1>1, <2>2, <3>2, <4>1 DEF Ocupada, Etapa, Recibido
    <3>3. CASE Devuelto(c, p)
      BY <1>1, <1>3, <2>2, <3>3 DEF Ocupada, Etapa, Devuelto
    <3>4. ~EnCurso(c, p) \/ fase[c] = "espera"
      BY DEF Quieta, EnCurso
    <3>5. CASE Ejecutando(c, p) \/ Esperando(c, p) \/ Parando(c, p)
      BY <3>4, <3>5 DEF Ejecutando, Esperando, Parando
    <3> QED BY <2>2, <3>1, <3>2, <3>3, <3>5 DEF Ocupada, Etapa
  <2> QED BY <2>1, <2>2 DEF IInvUnaCpu, LaCpu
<1>5. TiposUnaCpu(c)'
  <2>1. progreso' \in [Procs -> Nat] /\ codigoAborto'[c] = "ABORTO"
    BY DEF IInvUnaCpu, TiposUnaCpu
  <2> QED BY <1>2, <2>1, TiposCpu DEF IInvUnaCpu
<1> QED BY <1>4, <1>5, PasoCpu

\* Back in the loop after finalizar().
LEMMA PasoTrasFin ==
  ASSUME NEW c, CPUs = {c}, IInvUnaCpu(c), TrasFin(c), UNCHANGED sems
  PROVE  IInvUnaCpu(c)'
<1>1. Quieta(c)
  BY DEF IInvUnaCpu, LaCpu, CpuLibre, Ocupada, Etapa, EnCamino, SinPcb, Recibido, Ejecutando,
     Esperando, Parando, Devuelto, TrasFin
<1>2. fase'[c] = "ciclo" /\ DOMAIN fase' = DOMAIN fase
  BY DEF TrasFin, Avanza, IInvUnaCpu, TiposUnaCpu
<1>3. /\ unPc' = unPc \/ unPc' = [unPc EXCEPT ![c] = @ + 1]
      /\ UNCHANGED <<kernel, aKernel, aCpu, unPid, semHayScript, semDestruirPCB, progreso>>
      /\ UNCHANGED <<programaFinalizado, programaAbortado, programaBloqueado, codigoAborto>>
  BY DEF TrasFin, Avanza, banderas
<1>4. Quieta(c)'
  BY <1>1, <1>2, <1>3 DEF Quieta, TrasFin
<1> QED BY <1>1, <1>2, <1>3, <1>4, PasoQuieta

\* The end of the loop: the PCB goes back to the Kernel, or it went already.
LEMMA PasoTermina ==
  ASSUME NEW c, CPUs = {c}, IInvUnaCpu(c), Termina(c), UNCHANGED sems
  PROVE  IInvUnaCpu(c)'
<1>1. /\ fase[c] = "ciclo" /\ fase'[c] = "espera" /\ DOMAIN fase' = DOMAIN fase
      /\ UNCHANGED <<kernel, aCpu, unPc, semHayScript, progreso>>
      /\ UNCHANGED <<programaFinalizado, programaAbortado, programaBloqueado, codigoAborto>>
  BY DEF Termina, banderas, IInvUnaCpu, TiposUnaCpu
<1>2. CASE Quieta(c)
  <2>1. UNCHANGED <<aKernel, unPid, semDestruirPCB>>
    BY <1>1, <1>2 DEF Termina, Quieta
  <2>2. Quieta(c)'
    BY <1>1 DEF Quieta
  <2> QED BY <1>1, <1>2, <2>1, <2>2, PasoQuieta
<1>3. CASE ~Quieta(c)
  <2>1. PICK p \in Procs : Ocupada(c, p) /\ (Ejecutando(c, p) \/ Parando(c, p))
    BY <1>1, <1>3 DEF IInvUnaCpu, LaCpu, CpuLibre, Ocupada, Etapa, EnCamino, SinPcb, Recibido,
       Esperando, Devuelto
  <2>2. /\ EnCurso(c, p) /\ aCpu[c] = <<>> /\ unPid[c] = p /\ semDestruirPCB[c] = 0
        /\ semHayScript[c] = 0 /\ p # Nadie /\ ~programaFinalizado[c]
        /\ progreso[p] <= unPc[c] /\ unPc[c] \in Nat /\ codigoAborto[c] = "ABORTO"
    BY <2>1, NadieSupuesto DEF Ejecutando, Parando, EnCurso, IInvUnaCpu, TiposUnaCpu
  <2>3. PICK t : /\ Devuelve(c, t)
                 /\ \/ /\ t \in {"ABORTO", "FINDEQUATUM"} /\ pidio[p] = Nadie
                       /\ aKernel[c] \in Seq(Avisos)
                    \/ /\ t = "SEBLOQUEOELPROCESO" /\ pidio[p] # Nadie /\ aKernel[c] = <<>>
    <3>1. CASE Ejecutando(c, p)
      BY <2>2, <3>1 DEF Termina, Ejecutando
    <3>2. CASE Parando(c, p)
      BY <2>2, <3>2 DEF Termina, Parando
    <3> QED BY <2>1, <3>1, <3>2
  <2> DEFINE m == Mensaje(t, p, unPc[c])
  <2>4. /\ aKernel'[c] = Append(aKernel[c], m) /\ DOMAIN aKernel' = DOMAIN aKernel
        /\ unPid'[c] = Nadie /\ DOMAIN unPid' = DOMAIN unPid
        /\ semDestruirPCB'[c] = 1 /\ DOMAIN semDestruirPCB' = DOMAIN semDestruirPCB
    BY <2>2, <2>3 DEF Devuelve, Mandar, IInvUnaCpu, TiposUnaCpu
  <2>5. UNCHANGED <<colaExec, colaCpu, pcpCpu, socketCPU, pidio>>
    BY <1>1 DEF kernel, colas, planes, procesos, sems
  <2>6. SinPcb(c)'
    BY <1>1, <2>2, <2>4 DEF SinPcb, Quieta
  <2>7. Devuelto(c, p)'
    <3>1. CASE pidio[p] = Nadie
      <4>1. AvisosY(aKernel'[c], m) /\ Last(aKernel'[c]) = m
        BY <2>3, <2>4, <3>1, AvisosAgrega
      <4>2. m.pc = unPc[c]
        BY Campos
      <4> QED BY <1>1, <2>2, <2>3, <2>5, <2>6, <3>1, <4>1, <4>2 DEF Devuelto
    <3>2. CASE pidio[p] # Nadie
      <4>1. aKernel'[c] = <<m>> /\ Last(<<m>>) = m
        <5> HIDE DEF m
        <5>1. Append(<<>>, m) = <<m>> /\ Last(<<m>>) = m
          BY DEF Last
        <5> QED BY <2>3, <2>4, <3>2, <5>1
      <4>2. m.pc = unPc[c]
        BY Campos
      <4> QED BY <1>1, <2>2, <2>3, <2>5, <2>6, <3>2, <4>1, <4>2 DEF Devuelto
    <3> QED BY <3>1, <3>2
  <2>8. LaCpu(c)'
    BY <2>1, <2>5, <2>7 DEF LaCpu, Ocupada, Etapa
  <2>9. TiposUnaCpu(c)'
    <3>1. progreso' \in [Procs -> Nat] /\ codigoAborto'[c] = "ABORTO" /\ unPc'[c] \in Nat
      BY <1>1 DEF IInvUnaCpu, TiposUnaCpu
    <3> QED BY <1>1, <2>4, <3>1, TiposCpu DEF IInvUnaCpu
  <2> QED BY <1>1, <2>8, <2>9, PasoCpu
<1> QED BY <1>2, <1>3
-----------------------------------------------------------------------------
(* The planners of the Kernel.                                              *)

\* What a step of a planner leaves to show: it moves processes between the
\* places that are not colaExec, and touches no CPU.
LEMMA PasoPlanes ==
  ASSUME NEW c, CPUs = {c}, IInvUnaCpu(c),
         UNCHANGED <<colaExec, colaExit, pcb, abortado, aKernel, aCpu, cpu, progreso, sems>>,
         porLlegar' \subseteq Procs, colaNew' \in Seq(Procs), colaReady' \in Seq(Procs),
         semReady' \in Nat, semCpu' \in Nat,
         plp' \in Procs \cup {Nadie}, pcpProc' \in Procs \cup {Nadie},
         socketCPU' \in [Procs -> CPUs \cup {Nadie}],
         \A p \in ToSet(colaExec) : socketCPU'[p] = socketCPU[p],
         \/ UNCHANGED <<colaCpu, pcpCpu>>
         \/ colaCpu = <<c>> /\ colaCpu' = <<>> /\ pcpCpu' = c,
         Planificador',
         \A p \in Procs :
           \/ (p \in porLlegar' <=> p \in porLlegar) /\ Cuenta(p)' = Cuenta(p)
           \/ p \in porLlegar /\ p \notin porLlegar' /\ Cuenta(p)' = Cuenta(p) + 1
  PROVE  IInvUnaCpu(c)'
<1>0. /\ UNCHANGED <<valor, colas_semaforos, colaProcesosBloqueados, pidio>>
      /\ UNCHANGED <<unPid, unPc, semHayScript, semDestruirPCB, fase>>
      /\ UNCHANGED <<programaFinalizado, programaAbortado, programaBloqueado, codigoAborto>>
  BY DEF sems, cpu, carga, banderas
<1>1. SemsAlDia'
  BY <1>0 DEF IInvUnaCpu, SemsAlDia, SP!IInv, SP!Tipos,
              SP!NadieEsperaDeMas, SP!EsperaLoQuePidio,
              SP!EntradasVigentes, SP!EntradasEnOrden
<1>2. TiposUnaCpu(c)'
  BY <1>0 DEF IInvUnaCpu, TiposUnaCpu
<1>3. PcbAlDia'
  BY DEF IInvUnaCpu, PcbAlDia
<1>4. \A p \in Procs : Lugar(p)'
  <2> TAKE p \in Procs
  <2>1. Lugar(p) /\ Veces(colaExec, p)' = Veces(colaExec, p) /\ pidio'[p] = pidio[p]
    BY <1>0 DEF IInvUnaCpu
  <2> QED BY <2>1 DEF Lugar
<1>5. LaCpu(c)'
  <2>1. ASSUME NEW p \in Procs, Ocupada(c, p) PROVE Ocupada(c, p)'
    <3>1. ToSet(colaExec) = {p} /\ socketCPU'[p] = c /\ colaCpu' = <<>> /\ pcpCpu' = Nadie
      BY <2>1, ListaDeUno DEF Ocupada
    <3>2. Etapa(c, p)'
      BY <1>0, <2>1 DEF Ocupada, Etapa, EnCamino, SinPcb, Quieta, Recibido, Ejecutando, EnCurso,
         Esperando, Parando, Devuelto
    <3> QED BY <2>1, <3>1, <3>2 DEF Ocupada
  <2>2. CASE CpuLibre(c)
    BY <1>0, <2>2, NadieSupuesto DEF CpuLibre, LaCpu, SinPcb, Quieta
  <2> QED BY <2>1, <2>2 DEF IInvUnaCpu, LaCpu
<1> QED BY <1>1, <1>2, <1>3, <1>4, <1>5 DEF IInvUnaCpu

\* The hand of a planner is empty or not.
LEMMA ManoVacia ==
  ASSUME NEW p \in Procs
  PROVE  EnLaMano(Nadie, p) = 0
BY NadieSupuesto DEF EnLaMano

\* The counts of Cuenta are numbers.
LEMMA CuentaTipo ==
  ASSUME NEW c, TiposUnaCpu(c), NEW p
  PROVE  /\ Veces(colaNew, p) \in Nat /\ Veces(colaReady, p) \in Nat
         /\ Veces(colaExec, p) \in Nat /\ Veces(colaExit, p) \in Nat
         /\ EnLaMano(plp, p) \in Nat /\ EnLaMano(pcpProc, p) \in Nat /\ Cuenta(p) \in Nat
<1>1. /\ Veces(colaNew, p) \in Nat /\ Veces(colaReady, p) \in Nat
      /\ Veces(colaExec, p) \in Nat /\ Veces(colaExit, p) \in Nat
  BY VecesLista DEF TiposUnaCpu
<1>2. EnLaMano(plp, p) \in Nat /\ EnLaMano(pcpProc, p) \in Nat
  BY DEF EnLaMano
<1> QED BY <1>1, <1>2 DEF Cuenta

\* The script thread accepts a process.
LEMMA PasoEntra ==
  ASSUME NEW c, CPUs = {c}, IInvUnaCpu(c), NEW q \in Procs, EntraProceso(q), UNCHANGED sems
  PROVE  IInvUnaCpu(c)'
<1>1. /\ UNCHANGED <<colaReady, colaExec, colaExit, colaCpu, semReady, semCpu, pcb, abortado>>
      /\ UNCHANGED <<plp, pcPcp, pcpProc, pcpCpu, socketCPU, aKernel, aCpu, cpu, progreso, sems>>
      /\ q \in porLlegar /\ porLlegar' = porLlegar \ {q} /\ colaNew' = Append(colaNew, q)
  BY DEF EntraProceso, planes, procesos
<1>2. TiposUnaCpu(c)
  BY DEF IInvUnaCpu
<1>3. \A p \in Procs :
        \/ (p \in porLlegar' <=> p \in porLlegar) /\ Cuenta(p)' = Cuenta(p)
        \/ p \in porLlegar /\ p \notin porLlegar' /\ Cuenta(p)' = Cuenta(p) + 1
  <2> TAKE p \in Procs
  <2>1. Veces(colaNew', p) = Veces(colaNew, p) + EnLaMano(q, p)
    BY <1>1, <1>2, VecesAgrega DEF TiposUnaCpu
  <2>2. Cuenta(p)' = Cuenta(p) + EnLaMano(q, p)
    BY <1>1, <1>2, <2>1, CuentaTipo DEF Cuenta, EnLaMano
  <2> QED BY <1>1, <1>2, <2>2, CuentaTipo DEF EnLaMano
<1>4. porLlegar' \subseteq Procs /\ colaNew' \in Seq(Procs)
  BY <1>1, <1>2, ListaAgrega DEF TiposUnaCpu
<1>5. Planificador'
  BY <1>1 DEF IInvUnaCpu, Planificador
<1> QED BY <1>1, <1>2, <1>3, <1>4, <1>5, PasoPlanes DEF TiposUnaCpu

\* The long-term planner takes a process off colaNew.
LEMMA PasoPlpSaca ==
  ASSUME NEW c, CPUs = {c}, IInvUnaCpu(c), PlpSaca, UNCHANGED sems
  PROVE  IInvUnaCpu(c)'
<1>1. /\ UNCHANGED <<porLlegar, colaReady, colaExec, colaExit, colaCpu, semReady, semCpu, pcb>>
      /\ UNCHANGED <<abortado, pcPcp, pcpProc, pcpCpu, socketCPU, aKernel, aCpu, cpu, progreso>>
      /\ plp = Nadie /\ plp' = Primero(colaNew) /\ colaNew' = Resto(colaNew)
  BY DEF PlpSaca, procesos
<1>2. TiposUnaCpu(c)
  BY DEF IInvUnaCpu
<1>3. /\ plp' \in Procs \cup {Nadie} /\ colaNew' \in Seq(Procs)
      /\ \A p \in Procs : Veces(colaNew, p) = Veces(colaNew', p) + EnLaMano(plp', p)
  <2>1. CASE colaNew = <<>>
    <3>1. plp' = Nadie /\ colaNew' = <<>>
      BY <1>1, <2>1 DEF Primero, Resto
    <3>2. \A p \in Procs : Veces(<<>>, p) = 0
      BY VecesUno
    <3> QED BY <2>1, <3>1, <3>2, ManoVacia
  <2>2. CASE colaNew # <<>>
    <3>1. plp' = Head(colaNew) /\ colaNew' = Tail(colaNew)
      BY <1>1, <2>2 DEF Primero, Resto
    <3>2. colaNew \in Seq(Procs)
      BY <1>2 DEF TiposUnaCpu
    <3>3. plp' \in Procs /\ colaNew' \in Seq(Procs)
      BY <2>2, <3>1, <3>2, ListaSaca
    <3>4. \A p : Veces(colaNew, p) = EnLaMano(Head(colaNew), p) + Veces(Tail(colaNew), p)
      BY <2>2, <3>2, VecesSaca
    <3>5. \A p : Veces(colaNew', p) \in Nat /\ EnLaMano(plp', p) \in Nat
      BY <3>3, VecesLista DEF EnLaMano
    <3> QED BY <3>1, <3>3, <3>4, <3>5
  <2> QED BY <2>1, <2>2
<1>4. \A p \in Procs : Cuenta(p)' = Cuenta(p)
  <2> TAKE p \in Procs
  <2>1. EnLaMano(plp, p) = 0 /\ EnLaMano(plp', p) \in Nat /\ Veces(colaNew', p) \in Nat
    BY <1>1, <1>3, ManoVacia, VecesLista DEF EnLaMano
  <2> QED BY <1>1, <1>2, <1>3, <2>1, CuentaTipo DEF Cuenta
<1>5. Planificador'
  BY <1>1 DEF IInvUnaCpu, Planificador
<1> QED BY <1>1, <1>2, <1>3, <1>4, <1>5, PasoPlanes DEF TiposUnaCpu

\* It pushes it on colaReady.
LEMMA PasoPlpEncola ==
  ASSUME NEW c, CPUs = {c}, IInvUnaCpu(c), PlpEncola, UNCHANGED sems
  PROVE  IInvUnaCpu(c)'
<1>1. /\ UNCHANGED <<porLlegar, colaNew, colaExec, colaExit, colaCpu, semCpu, pcb>>
      /\ UNCHANGED <<abortado, pcPcp, pcpProc, pcpCpu, socketCPU, aKernel, aCpu, cpu, progreso>>
      /\ plp # Nadie /\ plp' = Nadie /\ colaReady' = Append(colaReady, plp)
      /\ semReady' = semReady + 1
  BY DEF PlpEncola, procesos
<1>2. TiposUnaCpu(c) /\ plp \in Procs
  BY <1>1 DEF IInvUnaCpu, TiposUnaCpu
<1>3. /\ colaReady' \in Seq(Procs) /\ Len(colaReady') = Len(colaReady) + 1
      /\ Len(colaReady) \in Nat
      /\ \A p : Veces(colaReady', p) = Veces(colaReady, p) + EnLaMano(plp, p)
  BY <1>1, <1>2, ListaAgrega, VecesAgrega DEF TiposUnaCpu
<1>4. \A p \in Procs : Cuenta(p)' = Cuenta(p)
  <2> TAKE p \in Procs
  <2>1. EnLaMano(plp', p) = 0
    BY <1>1, ManoVacia
  <2> QED BY <1>1, <1>2, <1>3, <2>1, CuentaTipo DEF Cuenta
<1>5. semReady \in Nat /\ semCpu \in Nat /\ semReady' \in Nat
  BY <1>1, <1>2 DEF TiposUnaCpu
<1>6. Planificador'
  <2>1. Planificador
    BY DEF IInvUnaCpu
  <2> DEFINE k == IF pcPcp \in {"espera_cpu", "saca"} THEN 1 ELSE 0
  <2>2. k \in Nat /\ semReady + k = Len(colaReady)
    BY <2>1 DEF Planificador
  <2>3. semReady' + k = Len(colaReady')
    <3> HIDE DEF k
    <3> QED BY <1>1, <1>3, <1>5, <2>2
  <2> QED BY <1>1, <2>1, <2>3 DEF Planificador
<1> QED BY <1>1, <1>2, <1>3, <1>4, <1>5, <1>6, PasoPlanes DEF TiposUnaCpu

\* The short-term planner takes the semaphores, and the mutex of colaExec.
LEMMA PasoPcpEspera ==
  ASSUME NEW c, CPUs = {c}, IInvUnaCpu(c),
         PcpEsperaReady \/ PcpEsperaCpu \/ PcpTomaMutex, UNCHANGED sems
  PROVE  IInvUnaCpu(c)'
<1>1. /\ UNCHANGED <<porLlegar, colaNew, colaReady, colaExec, colaExit, colaCpu, pcb>>
      /\ UNCHANGED <<plp, abortado, pcpProc, pcpCpu, socketCPU, aKernel, aCpu, cpu, progreso>>
  BY DEF PcpEsperaReady, PcpEsperaCpu, PcpTomaMutex, colas, procesos
<1>2. TiposUnaCpu(c)
  BY DEF IInvUnaCpu
<1>3. \A p \in Procs : Cuenta(p)' = Cuenta(p)
  BY <1>1 DEF Cuenta
<1>4. Planificador' /\ semReady' \in Nat /\ semCpu' \in Nat
  <2>1. Planificador /\ semReady \in Nat /\ semCpu \in Nat
    BY <1>2 DEF IInvUnaCpu, TiposUnaCpu
  <2>2. CASE PcpEsperaReady
    BY <1>1, <2>1, <2>2 DEF PcpEsperaReady, Planificador
  <2>3. CASE PcpEsperaCpu
    BY <1>1, <2>1, <2>3 DEF PcpEsperaCpu, Planificador
  <2>4. CASE PcpTomaMutex
    BY <1>1, <2>1, <2>4 DEF PcpTomaMutex, Planificador
  <2> QED BY <2>2, <2>3, <2>4
<1> QED BY <1>1, <1>2, <1>3, <1>4, PasoPlanes DEF TiposUnaCpu

\* It takes a process and the CPU.
LEMMA PasoPcpSaca ==
  ASSUME NEW c, CPUs = {c}, IInvUnaCpu(c), PcpSaca, UNCHANGED sems
  PROVE  IInvUnaCpu(c)'
<1>1. TiposUnaCpu(c) /\ Planificador
  BY DEF IInvUnaCpu
<1>2. /\ UNCHANGED <<porLlegar, colaNew, colaExec, colaExit, semCpu, pcb>>
      /\ UNCHANGED <<plp, abortado, aKernel, aCpu, cpu, progreso>>
      /\ pcPcp = "saca" /\ pcpProc = Nadie /\ pcpCpu = Nadie
  BY <1>1 DEF PcpSaca, Planificador
<1>3. /\ Len(colaReady) = semReady + 1 /\ Len(colaCpu) = semCpu + 1
      /\ semReady \in Nat /\ semCpu \in Nat /\ colaReady \in Seq(Procs)
  BY <1>1, <1>2 DEF Planificador, TiposUnaCpu
<1>4. colaReady # <<>> /\ colaCpu # <<>>
  BY <1>3
<1>5. colaCpu = <<c>> /\ colaExec = <<>>
  BY <1>4 DEF IInvUnaCpu, LaCpu, CpuLibre, Ocupada
<1>6. c # Nadie /\ Primero(colaCpu) = c /\ Resto(colaCpu) = <<>> /\ semCpu = 0
  BY <1>3, <1>5, NadieSupuesto DEF Primero, Resto
<1>7. /\ Primero(colaReady) = Head(colaReady) /\ Resto(colaReady) = Tail(colaReady)
      /\ Head(colaReady) \in Procs /\ Head(colaReady) # Nadie
      /\ Tail(colaReady) \in Seq(Procs) /\ Len(Tail(colaReady)) = Len(colaReady) - 1
  BY <1>3, <1>4, NadieSupuesto, ListaSaca DEF Primero, Resto
<1>8. /\ pcpProc' = Head(colaReady) /\ pcpCpu' = c /\ colaCpu' = <<>>
      /\ colaReady' = Tail(colaReady) /\ pcPcp' = "ejecutar" /\ UNCHANGED semReady
      /\ socketCPU' = [socketCPU EXCEPT ![Head(colaReady)] = c]
  BY <1>6, <1>7 DEF PcpSaca
<1>9. socketCPU' \in [Procs -> CPUs \cup {Nadie}] /\ socketCPU'[pcpProc'] = c
  BY <1>1, <1>7, <1>8 DEF TiposUnaCpu
<1>10. \A p \in Procs : Cuenta(p)' = Cuenta(p)
  <2> TAKE p \in Procs
  <2>1. EnLaMano(pcpProc, p) = 0 /\ EnLaMano(pcpProc', p) = EnLaMano(Head(colaReady), p)
    BY <1>2, <1>8, ManoVacia
  <2>2. Veces(colaReady, p) = EnLaMano(Head(colaReady), p) + Veces(colaReady', p)
    BY <1>3, <1>4, <1>8, VecesSaca
  <2>3. Veces(colaReady', p) \in Nat /\ EnLaMano(Head(colaReady), p) \in Nat
    BY <1>7, <1>8, VecesLista DEF EnLaMano
  <2> QED BY <1>1, <1>2, <2>1, <2>2, <2>3, CuentaTipo DEF Cuenta
<1>11. Planificador'
  BY <1>2, <1>3, <1>5, <1>6, <1>7, <1>8, <1>9 DEF Planificador
<1>12. \A p \in ToSet(colaExec) : socketCPU'[p] = socketCPU[p]
  BY <1>5 DEF ToSet
<1> QED BY <1>1, <1>2, <1>5, <1>7, <1>8, <1>9, <1>10, <1>11, <1>12, PasoPlanes DEF TiposUnaCpu

\* The short-term planner hands the process to the CPU.
LEMMA PasoPcpEncola ==
  ASSUME NEW c, CPUs = {c}, IInvUnaCpu(c), PcpEncola, UNCHANGED sems
  PROVE  IInvUnaCpu(c)'
<1>1. TiposUnaCpu(c) /\ Planificador
  BY DEF IInvUnaCpu
<1> PICK p : p = pcpProc
  OBVIOUS
<1>2. p \in Procs /\ pcpCpu = c /\ socketCPU[p] = c /\ pcPcp = "encola" /\ ~abortado[p]
  BY <1>1 DEF PcpEncola, Planificador, TiposUnaCpu
<1>3. CpuLibre(c) /\ aKernel[c] = <<>> /\ colaCpu = <<>> /\ colaExec = <<>> /\ aCpu[c] = <<>>
  BY <1>2, NadieSupuesto DEF IInvUnaCpu, LaCpu, CpuLibre, Ocupada
<1>4. /\ UNCHANGED <<porLlegar, colaNew, colaReady, colaExit, colaCpu, semReady, semCpu, pcb>>
      /\ UNCHANGED <<plp, abortado, socketCPU, aKernel, cpu, progreso, sems>>
      /\ pcPcp' = "espera_ready" /\ pcpProc' = Nadie /\ pcpCpu' = Nadie
      /\ aCpu' = Mandar(aCpu, c, Mensaje("PCB", p, pcb[p]))
      /\ colaExec' = Append(colaExec, p)
  BY <1>2 DEF PcpEncola, procesos
<1>5. colaExec' = <<p>>
  BY <1>3, <1>4
<1>6. /\ UNCHANGED <<valor, colas_semaforos, colaProcesosBloqueados, pidio>>
      /\ UNCHANGED <<unPid, unPc, semHayScript, semDestruirPCB, fase>>
      /\ UNCHANGED <<programaFinalizado, programaAbortado, programaBloqueado, codigoAborto>>
  BY <1>4 DEF sems, cpu, carga, banderas
<1>7. \A q \in Procs : /\ Veces(colaExec, q) = 0 /\ Veces(colaExec', q) = EnLaMano(p, q)
                       /\ EnLaMano(pcpProc', q) = 0
  BY <1>3, <1>4, <1>5, VecesUno, ManoVacia
<1>8. \A q \in Procs : Cuenta(q)' = Cuenta(q)
  BY <1>1, <1>4, <1>7, CuentaTipo DEF Cuenta
<1>9. EnLaMano(pcpProc, p) = 1
  BY DEF EnLaMano
<1>10. Cuenta(p) >= 1
  BY <1>1, <1>9, CuentaTipo DEF Cuenta
<1>11. p \notin porLlegar /\ pidio[p] = Nadie /\ Cuenta(p) = 1
  BY <1>2, <1>7, <1>10 DEF IInvUnaCpu, Lugar
<1>12. Veces(colaExit, p) = 0
  BY <1>1, <1>9, <1>11, CuentaTipo DEF Cuenta
<1>13. progreso[p] <= pcb[p]
  <2>1. p \notin ToSet(colaExit)
    BY <1>1, <1>12, VecesLista DEF TiposUnaCpu
  <2>2. p \notin ToSet(colaExec)
    BY <1>3 DEF ToSet
  <2> QED BY <1>2, <2>1, <2>2 DEF IInvUnaCpu, PcbAlDia
<1>14. aCpu'[c] = <<Mensaje("PCB", p, pcb[p])>> /\ DOMAIN aCpu' = DOMAIN aCpu
  BY <1>1, <1>3, <1>4 DEF Mandar, TiposUnaCpu
<1>15. LaCpu(c)'
  <2>1. EnCamino(c, p)'
    <3>1. SinPcb(c)' /\ pcb'[p] = pcb[p] /\ progreso'[p] <= pcb'[p] /\ pidio'[p] = Nadie
      BY <1>3, <1>4, <1>6, <1>11, <1>13 DEF CpuLibre, SinPcb, Quieta
    <3>2. aKernel'[c] = <<>> /\ aCpu'[c] = <<Mensaje("PCB", p, pcb'[p])>>
      BY <1>3, <1>4, <1>14
    <3> QED BY <3>1, <3>2 DEF EnCamino
  <2> QED BY <1>2, <1>3, <1>4, <1>5, <2>1 DEF LaCpu, Ocupada, Etapa
<1>16. SemsAlDia'
  BY <1>6 DEF IInvUnaCpu, SemsAlDia, SP!IInv, SP!Tipos,
              SP!NadieEsperaDeMas, SP!EsperaLoQuePidio,
              SP!EntradasVigentes, SP!EntradasEnOrden
<1>17. TiposUnaCpu(c)'
  BY <1>1, <1>2, <1>4, <1>5, <1>6, <1>14, ListaDeUno DEF TiposUnaCpu
<1>18. PcbAlDia'
  BY <1>2, <1>3, <1>4, <1>5, ListaDeUno DEF IInvUnaCpu, PcbAlDia, ToSet
<1>19. Planificador'
  BY <1>1, <1>2, <1>4 DEF Planificador
<1>20. \A q \in Procs : Lugar(q)'
  <2> TAKE q \in Procs
  <2>1. Lugar(q) /\ Veces(colaExec, q) = 0 /\ Veces(colaExec', q) = EnLaMano(p, q)
    BY <1>7 DEF IInvUnaCpu
  <2>2. CASE pidio[q] = Nadie
    BY <1>4, <1>6, <1>8, <2>1, <2>2 DEF Lugar
  <2>3. CASE pidio[q] # Nadie
    <3>1. q # p
      BY <1>11, <2>3
    <3>2. EnLaMano(p, q) = 0
      BY <3>1 DEF EnLaMano
    <3> QED BY <1>4, <1>6, <1>8, <2>1, <2>3, <3>2 DEF Lugar
  <2> QED BY <2>2, <2>3
<1> QED BY <1>15, <1>16, <1>17, <1>18, <1>19, <1>20 DEF IInvUnaCpu
-----------------------------------------------------------------------------
(* The handlers of the Kernel.                                              *)

\* The only process of colaExec is the one a handler takes off it.
LEMMA SacaUnico ==
  ASSUME NEW c, NEW p \in Procs, colaExec = <<p>>, NEW q, SacaProceso(c, q)
  PROVE  /\ q = p /\ RemoveAt(colaExec, Remitente(c)) = <<>>
         /\ Append(RemoveAt(colaExec, Remitente(c)), q) = <<p>>
         /\ aKernel' = Sacar(aKernel, c)
<1>1. Len(colaExec) = 1 /\ colaExec[1] = p /\ colaExec \in Seq(Procs)
  OBVIOUS
<1>2. Remitente(c) = 1
  <2> DEFINE I == {i \in 1..Len(colaExec) : EsDe(Head(aKernel[c]), c, colaExec[i])}
  <2>1. \A i \in I : i = 1
    BY <1>1
  <2>2. Remitente(c) = IF I = {} THEN 0 ELSE Min(I)
    BY DEF Remitente, SelectInSeq
  <2>3. I # {} => Min(I) \in I
    <3>1. I \subseteq Nat
      BY <2>1
    <3> HIDE DEF I
    <3> QED BY <3>1, MinEs
  <2> HIDE DEF I
  <2>4. Remitente(c) # 0
    BY DEF SacaProceso
  <2> QED BY <2>1, <2>2, <2>3, <2>4
<1>3. /\ RemoveAt(colaExec, 1) \in Seq(Procs) /\ Len(RemoveAt(colaExec, 1)) = 0
  <2>1. 1 \in 1..Len(colaExec)
    BY <1>1
  <2>2. /\ RemoveAt(colaExec, 1) \in Seq(Procs)
        /\ Len(RemoveAt(colaExec, 1)) = Len(colaExec) - 1
    BY <1>1, <2>1, QuitaIndices
  <2> QED BY <1>1, <2>2
<1>4. RemoveAt(colaExec, 1) = <<>>
  <2> DEFINE r == RemoveAt(colaExec, 1)
  <2>1. r \in Seq(Procs) /\ Len(r) = 0
    BY <1>3
  <2> HIDE DEF r
  <2>2. r = <<>>
    BY <2>1, EmptySeq
  <2> QED BY <2>2 DEF r
<1>5. q = p
  BY <1>1, <1>2 DEF SacaProceso
<1>6. Append(<<>>, q) = <<p>>
  BY <1>5
<1> QED BY <1>2, <1>4, <1>5, <1>6 DEF SacaProceso

\* What the first message of the CPU says of its stage.
LEMMA LlegaAKernel ==
  ASSUME NEW c, IInvUnaCpu(c), aKernel[c] # <<>>
  PROVE  \/ CpuLibre(c) /\ Head(aKernel[c]).tipo = "CPU" /\ Tail(aKernel[c]) = <<>> /\ colaCpu = <<>>
            /\ pcpCpu = Nadie
         \/ \E p \in Procs :
              /\ Ocupada(c, p)
              /\ \/ Head(aKernel[c]) \in Avisos /\ pidio[p] = Nadie
                 \/ /\ Esperando(c, p) /\ Tail(aKernel[c]) = <<>> /\ pidio[p] = Nadie
                    /\ aCpu[c] = <<>>
                    /\ \/ Head(aKernel[c]).tipo = "PIDE"
                       \/ Head(aKernel[c]).tipo = "PROCESOWAIT" /\ Head(aKernel[c]).sem \in Sems
                 \/ /\ Devuelto(c, p) /\ Tail(aKernel[c]) = <<>>
                    /\ \/ Head(aKernel[c]).tipo = "PROGRAMATERMINADO" /\ pidio[p] = Nadie
                       \/ /\ Head(aKernel[c]).pc \in Nat /\ progreso[p] <= Head(aKernel[c]).pc
                          /\ \/ /\ Head(aKernel[c]).tipo \in {"FINDEQUATUM", "ABORTO"}
                                /\ pidio[p] = Nadie
                             \/ /\ Head(aKernel[c]).tipo = "SEBLOQUEOELPROCESO"
                                /\ pidio[p] # Nadie
<1>1. CASE CpuLibre(c)
  <2>1. aKernel[c] = <<Aviso("CPU")>> /\ colaCpu = <<>> /\ pcpCpu = Nadie
    BY <1>1 DEF CpuLibre
  <2>2. Head(aKernel[c]) = Aviso("CPU") /\ Tail(aKernel[c]) = <<>>
    BY <2>1
  <2> QED BY <1>1, <2>1, <2>2, Campos
<1>2. ASSUME NEW p \in Procs, Ocupada(c, p)
      PROVE  \/ Head(aKernel[c]) \in Avisos /\ pidio[p] = Nadie
             \/ /\ Esperando(c, p) /\ Tail(aKernel[c]) = <<>> /\ pidio[p] = Nadie
                /\ aCpu[c] = <<>>
                /\ \/ Head(aKernel[c]).tipo = "PIDE"
                   \/ Head(aKernel[c]).tipo = "PROCESOWAIT" /\ Head(aKernel[c]).sem \in Sems
             \/ /\ Devuelto(c, p) /\ Tail(aKernel[c]) = <<>>
                /\ \/ Head(aKernel[c]).tipo = "PROGRAMATERMINADO" /\ pidio[p] = Nadie
                   \/ /\ Head(aKernel[c]).pc \in Nat /\ progreso[p] <= Head(aKernel[c]).pc
                      /\ \/ /\ Head(aKernel[c]).tipo \in {"FINDEQUATUM", "ABORTO"}
                            /\ pidio[p] = Nadie
                         \/ /\ Head(aKernel[c]).tipo = "SEBLOQUEOELPROCESO"
                            /\ pidio[p] # Nadie
  <2>1. Ejecutando(c, p) \/ Esperando(c, p) \/ Devuelto(c, p)
    BY <1>2 DEF Ocupada, Etapa, EnCamino, Recibido, Parando
  <2>2. CASE Ejecutando(c, p)
    <3>1. Head(aKernel[c]) \in Avisos
      BY <2>2, ListaSaca DEF Ejecutando
    <3> QED BY <2>2, <3>1 DEF Ejecutando
  <2>3. CASE Esperando(c, p)
    <3>1. /\ aCpu[c] = <<>> /\ pidio[p] = Nadie
          /\ \/ AvisosY(aKernel[c], Aviso("PIDE"))
             \/ \E s \in Sems : AvisosY(aKernel[c], ConSem("PROCESOWAIT", s))
      BY <2>3 DEF Esperando
    <3>2. CASE AvisosY(aKernel[c], Aviso("PIDE"))
      <4>1. Aviso("PIDE").tipo = "PIDE"
        BY Campos
      <4> QED BY <2>3, <3>1, <3>2, <4>1, AvisosYLee
    <3>3. ASSUME NEW s \in Sems, AvisosY(aKernel[c], ConSem("PROCESOWAIT", s))
          PROVE  \/ Head(aKernel[c]) \in Avisos
                 \/ /\ Tail(aKernel[c]) = <<>> /\ Head(aKernel[c]).tipo = "PROCESOWAIT"
                    /\ Head(aKernel[c]).sem \in Sems
      <4>1. ConSem("PROCESOWAIT", s).tipo = "PROCESOWAIT" /\ ConSem("PROCESOWAIT", s).sem = s
        BY Campos
      <4> QED BY <3>3, <4>1, AvisosYLee
    <3> QED BY <2>3, <3>1, <3>2, <3>3
  <2>4. CASE Devuelto(c, p)
    <3> DEFINE n == Last(aKernel[c]).pc
    <3>1. CASE AvisosY(aKernel[c], Aviso("PROGRAMATERMINADO")) /\ pidio[p] = Nadie
      <4>1. Aviso("PROGRAMATERMINADO").tipo = "PROGRAMATERMINADO"
        BY Campos
      <4> QED BY <2>4, <3>1, <4>1, AvisosYLee
    <3>2. ASSUME NEW t \in {"FINDEQUATUM", "ABORTO"}, n \in Nat, progreso[p] <= n,
                 AvisosY(aKernel[c], Mensaje(t, p, n)), pidio[p] = Nadie
          PROVE  \/ Head(aKernel[c]) \in Avisos
                 \/ /\ Tail(aKernel[c]) = <<>> /\ Head(aKernel[c]).tipo = t
                    /\ Head(aKernel[c]).pc \in Nat /\ progreso[p] <= Head(aKernel[c]).pc
      <4>1. Mensaje(t, p, n).tipo = t /\ Mensaje(t, p, n).pc = n
        BY Campos
      <4> PICK m : m = Mensaje(t, p, n)
        OBVIOUS
      <4> HIDE DEF n
      <4>2. AvisosY(aKernel[c], m) /\ m.tipo = t /\ m.pc = n
        BY <3>2, <4>1
      <4>3. \/ Head(aKernel[c]) = m /\ Tail(aKernel[c]) = <<>>
            \/ Head(aKernel[c]) \in Avisos
        BY <4>2, AvisosYLee
      <4> QED BY <3>2, <4>2, <4>3
    <3>3. CASE aKernel[c] = <<Mensaje("SEBLOQUEOELPROCESO", p, n)>> /\ n \in Nat
               /\ progreso[p] <= n /\ pidio[p] # Nadie
      <4> HIDE DEF n
      <4>1. /\ Mensaje("SEBLOQUEOELPROCESO", p, n).tipo = "SEBLOQUEOELPROCESO"
            /\ Mensaje("SEBLOQUEOELPROCESO", p, n).pc = n
        BY Campos
      <4>2. Head(aKernel[c]) = Mensaje("SEBLOQUEOELPROCESO", p, n) /\ Tail(aKernel[c]) = <<>>
        BY <3>3
      <4> QED BY <2>4, <3>3, <4>1, <4>2
    <3>4. \/ AvisosY(aKernel[c], Aviso("PROGRAMATERMINADO")) /\ pidio[p] = Nadie
          \/ /\ n \in Nat /\ progreso[p] <= n
             /\ \/ /\ pidio[p] = Nadie
                   /\ \E t \in {"FINDEQUATUM", "ABORTO"} : AvisosY(aKernel[c], Mensaje(t, p, n))
                \/ /\ pidio[p] # Nadie
                   /\ aKernel[c] = <<Mensaje("SEBLOQUEOELPROCESO", p, n)>>
      BY <2>4 DEF Devuelto
    <3> HIDE DEF n
    <3> QED BY <2>4, <3>1, <3>2, <3>3, <3>4
  <2> QED BY <2>1, <2>2, <2>3, <2>4
<1> QED BY <1>1, <1>2 DEF IInvUnaCpu, LaCpu

\* Reading a notice leaves the CPU in its stage.
LEMMA AvisoLeido ==
  ASSUME NEW c, CPUs = {c}, IInvUnaCpu(c), NEW p \in Procs, Ocupada(c, p),
         aKernel[c] # <<>>, Head(aKernel[c]) \in Avisos, aKernel' = Sacar(aKernel, c),
         UNCHANGED <<aCpu, cpu, progreso, pcb>>, pidio'[p] = pidio[p]
  PROVE  Etapa(c, p)'
<1>1. /\ UNCHANGED <<unPid, unPc, semHayScript, semDestruirPCB, fase>>
      /\ UNCHANGED <<programaFinalizado, programaAbortado, programaBloqueado, codigoAborto>>
      /\ aKernel'[c] = Tail(aKernel[c])
  BY DEF cpu, carga, banderas, Sacar, IInvUnaCpu, TiposUnaCpu
<1>2. SinPcb(c)' <=> SinPcb(c)
  BY <1>1 DEF SinPcb, Quieta
<1>3. EnCurso(c, p)' <=> EnCurso(c, p)
  BY <1>1 DEF EnCurso
<1>4. Head(aKernel[c]).tipo \in {"AVISA", "PROCESOSIGNAL"}
  BY AvisosTipos
<1>5. ASSUME NEW m, AvisosY(aKernel[c], m), m.tipo \notin {"AVISA", "PROCESOSIGNAL"}
      PROVE  /\ AvisosY(aKernel'[c], m) /\ Last(aKernel'[c]) = m /\ Last(aKernel[c]) = m
  BY <1>1, <1>4, <1>5, AvisosYLee
<1>6. CASE Ejecutando(c, p)
  <2>1. aKernel'[c] \in Seq(Avisos)
    BY <1>1, <1>6, ListaSaca DEF Ejecutando
  <2> QED BY <1>1, <1>3, <1>6, <2>1 DEF Ejecutando, Etapa
<1>7. CASE Esperando(c, p)
  <2>1. /\ aCpu[c] = <<>> /\ pidio[p] = Nadie
        /\ \E m \in {Aviso("PIDE")} \cup {ConSem("PROCESOWAIT", s) : s \in Sems} :
             AvisosY(aKernel[c], m)
    BY <1>7 DEF Esperando
  <2>2. \/ AvisosY(aKernel'[c], Aviso("PIDE"))
        \/ \E s \in Sems : AvisosY(aKernel'[c], ConSem("PROCESOWAIT", s))
    <3>1. Aviso("PIDE").tipo = "PIDE" /\ \A s : ConSem("PROCESOWAIT", s).tipo = "PROCESOWAIT"
      BY Campos
    <3> QED BY <2>1, <3>1, <1>5
  <2> QED BY <1>1, <1>3, <1>7, <2>1, <2>2 DEF Esperando, Etapa
<1>8. CASE Devuelto(c, p)
  <2> PICK n : n = Last(aKernel[c]).pc
    OBVIOUS
  <2>1. CASE AvisosY(aKernel[c], Aviso("PROGRAMATERMINADO")) /\ pidio[p] = Nadie
    <3>1. AvisosY(aKernel'[c], Aviso("PROGRAMATERMINADO"))
      BY <1>5, <2>1, Campos
    <3> QED BY <1>1, <1>2, <1>8, <2>1, <3>1 DEF Devuelto, Etapa
  <2>2. ASSUME NEW t \in {"FINDEQUATUM", "ABORTO"}, n \in Nat, progreso[p] <= n,
               AvisosY(aKernel[c], Mensaje(t, p, n)), pidio[p] = Nadie
        PROVE  Etapa(c, p)'
    <3>0. Mensaje(t, p, n).tipo = t /\ Mensaje(t, p, n).pc = n
      BY Campos
    <3>1. AvisosY(aKernel'[c], Mensaje(t, p, n)) /\ Last(aKernel'[c]).pc = n
      BY <1>5, <2>2, <3>0
    <3> QED BY <1>1, <1>2, <1>8, <2>2, <3>1 DEF Devuelto, Etapa
  <2>3. aKernel[c] # <<Mensaje("SEBLOQUEOELPROCESO", p, n)>>
    <3>1. Mensaje("SEBLOQUEOELPROCESO", p, n).tipo = "SEBLOQUEOELPROCESO"
      BY Campos
    <3> QED BY <1>4, <3>1
  <2> QED BY <1>8, <2>1, <2>2, <2>3 DEF Devuelto
<1> QED BY <1>6, <1>7, <1>8 DEF Ocupada, Etapa, EnCamino, Recibido, Parando

\* The assumptions of Semaforos.
LEMMA SupuestosSemaforos ==
  SP!NadieSupuesto /\ SP!InicialSupuesto /\ SP!MaxValorSupuesto
BY SemsSupuesto DEF SP!NadieSupuesto, SP!InicialSupuesto, SP!MaxValorSupuesto

\* The semaphores after a wait of a process that is not blocked.
LEMMA TrasWait ==
  ASSUME SemsAlDia, NEW p \in Procs, pidio[p] = Nadie, NEW s \in Sems, S!Wait(p, s)
  PROVE  /\ SemsAlDia'
         /\ S!Bloquea(s) => pidio' = [pidio EXCEPT ![p] = s]
         /\ ~S!Bloquea(s) => pidio' = pidio
<1>1. /\ S!Bloquea(s) => pidio' = [pidio EXCEPT ![p] = s]
      /\ ~S!Bloquea(s) => pidio' = pidio
  BY DEF S!Wait
<1>2. SP!IInv'
  <2>1. SP!Wait(p, s)
    BY DEF S!Wait, SP!Wait, S!Bloquea, SP!Bloquea, S!Conseguir, SP!Conseguir,
           S!SelectInSeq, SP!SelectInSeq, S!Min, SP!Min
  <2>2. p \in SP!Corren /\ SP!IInv
    BY DEF SemsAlDia, SP!Corren
  <2> QED BY <2>1, <2>2, SupuestosSemaforos, SP!WaitCumple
<1>3. \A q \in Procs : pidio'[q] \in Sems \cup {Nadie}
  <2>1. DOMAIN pidio = Procs
    BY DEF SemsAlDia, SP!IInv, SP!Tipos
  <2> QED BY <1>1, <2>1 DEF SemsAlDia
<1> QED BY <1>1, <1>2, <1>3 DEF SemsAlDia

\* And after a signal: somebody that was blocked is not, or nobody was.
LEMMA TrasSignal ==
  ASSUME SemsAlDia, NEW s \in Sems, S!Signal(s)
  PROVE  /\ SemsAlDia'
         /\ \/ S!Despertado(s) = Nadie /\ pidio' = pidio
            \/ /\ S!Despertado(s) \in Procs /\ pidio[S!Despertado(s)] = s
               /\ pidio' = [pidio EXCEPT ![S!Despertado(s)] = Nadie]
<1>0. /\ colas_semaforos[s] \in Seq(Procs) /\ DOMAIN pidio = Procs
      /\ \A q \in Procs : q \in ToSet(colas_semaforos[s]) <=> pidio[q] = s
  BY DEF SemsAlDia, SP!IInv, SP!Tipos, SP!EsperaLoQuePidio, SP!ToSet, ToSet
<1>1. \/ S!Despertado(s) = Nadie /\ pidio' = pidio
      \/ /\ S!Despertado(s) \in Procs /\ pidio[S!Despertado(s)] = s
         /\ pidio' = [pidio EXCEPT ![S!Despertado(s)] = Nadie]
  <2>1. CASE colas_semaforos[s] = <<>>
    BY <2>1 DEF S!Signal, S!Despertado
  <2>2. CASE colas_semaforos[s] # <<>>
    <3>1. S!Despertado(s) = Head(colas_semaforos[s])
      BY <2>2 DEF S!Despertado
    <3>2. /\ Head(colas_semaforos[s]) \in Procs
          /\ Head(colas_semaforos[s]) \in ToSet(colas_semaforos[s])
      BY <1>0, <2>2, ListaSaca
    <3> QED BY <1>0, <2>2, <3>1, <3>2 DEF S!Signal
  <2> QED BY <2>1, <2>2
<1>2. SP!IInv'
  <2>1. SP!Signal(s)
    BY DEF S!Signal, SP!Signal, S!SacarDesbloqueados, SP!SacarDesbloqueados,
           S!Despertado, SP!Despertado
  <2>2. SP!IInv
    BY DEF SemsAlDia
  <2> QED BY <2>1, <2>2, SupuestosSemaforos, SP!SignalCumple
<1>3. \A q \in Procs : pidio'[q] \in Sems \cup {Nadie}
  BY <1>0, <1>1 DEF SemsAlDia
<1> QED BY <1>1, <1>2, <1>3 DEF SemsAlDia

\* What a handler that leaves the CPU with its process has to show: the stage
\* of the CPU, and that whoever stops being blocked goes to colaReady.
LEMMA PasoRota ==
  ASSUME NEW c, CPUs = {c}, IInvUnaCpu(c), NEW p \in Procs, Ocupada(c, p),
         UNCHANGED <<porLlegar, colaNew, colaExec, colaExit, colaCpu, semCpu, planes, procesos>>,
         UNCHANGED <<cpu, progreso>>,
         DOMAIN aKernel' = DOMAIN aKernel, DOMAIN aCpu' = DOMAIN aCpu,
         SemsAlDia', Etapa(c, p)',
         \/ /\ UNCHANGED <<colaReady, semReady>>
            /\ \/ pidio' = pidio
               \/ \E s \in Sems : pidio[p] = Nadie /\ pidio' = [pidio EXCEPT ![p] = s]
         \/ \E w \in Procs \ {p} :
              /\ pidio[w] # Nadie /\ pidio' = [pidio EXCEPT ![w] = Nadie]
              /\ colaReady' = Append(colaReady, w) /\ semReady' = semReady + 1
  PROVE  IInvUnaCpu(c)'
<1>0. /\ UNCHANGED <<unPid, unPc, semHayScript, semDestruirPCB, fase>>
      /\ UNCHANGED <<programaFinalizado, programaAbortado, programaBloqueado, codigoAborto>>
      /\ UNCHANGED <<plp, pcPcp, pcpProc, pcpCpu, socketCPU, pcb, abortado>>
  BY DEF cpu, carga, banderas, planes, procesos
<1>1. /\ TiposUnaCpu(c) /\ colaReady \in Seq(Procs) /\ semReady \in Nat
      /\ DOMAIN pidio = Procs /\ Planificador
  BY DEF IInvUnaCpu, TiposUnaCpu, SemsAlDia, SP!IInv, SP!Tipos
<1>2. LaCpu(c)'
  BY <1>0 DEF LaCpu, Ocupada
<1>3. PcbAlDia'
  BY <1>0 DEF IInvUnaCpu, PcbAlDia
<1>4. \A q \in Procs : Veces(colaExec, q) = EnLaMano(p, q)
  BY VecesUno DEF Ocupada
<1>5. CASE /\ UNCHANGED <<colaReady, semReady>>
           /\ \/ pidio' = pidio
              \/ \E s \in Sems : pidio[p] = Nadie /\ pidio' = [pidio EXCEPT ![p] = s]
  <2>1. TiposUnaCpu(c)'
    BY <1>0, <1>1, <1>5 DEF TiposUnaCpu
  <2>2. Planificador'
    BY <1>0, <1>1, <1>5 DEF Planificador
  <2>3. \A q \in Procs : Cuenta(q)' = Cuenta(q)
    BY <1>0, <1>5 DEF Cuenta
  <2>4. \A q \in Procs : Lugar(q)'
    <3> TAKE q \in Procs
    <3>1. Lugar(q) /\ Veces(colaExec, q)' = Veces(colaExec, q)
      BY DEF IInvUnaCpu
    <3>2. CASE pidio'[q] = pidio[q]
      BY <2>3, <3>1, <3>2 DEF Lugar
    <3>3. CASE pidio'[q] # pidio[q]
      <4>1. q = p /\ pidio[p] = Nadie
        BY <1>1, <1>5, <3>3
      <4>2. Veces(colaExec, p) = 1
        BY <1>4 DEF EnLaMano
      <4>3. Cuenta(p) = 1 /\ p \notin porLlegar
        <5>1. Cuenta(p) >= 1
          BY <1>1, <4>2, CuentaTipo DEF Cuenta
        <5> QED BY <3>1, <4>1, <5>1 DEF Lugar
      <4> QED BY <2>3, <3>1, <4>1, <4>2, <4>3 DEF Lugar
    <3> QED BY <3>2, <3>3
  <2> QED BY <1>2, <1>3, <2>1, <2>2, <2>4 DEF IInvUnaCpu
<1>6. ASSUME NEW w \in Procs \ {p}, pidio[w] # Nadie, pidio' = [pidio EXCEPT ![w] = Nadie],
             colaReady' = Append(colaReady, w), semReady' = semReady + 1
      PROVE  IInvUnaCpu(c)'
  <2>1. /\ colaReady' \in Seq(Procs) /\ Len(colaReady') = Len(colaReady) + 1
        /\ Len(colaReady) \in Nat
        /\ \A q : Veces(colaReady', q) = Veces(colaReady, q) + EnLaMano(w, q)
    BY <1>1, <1>6, ListaAgrega, VecesAgrega
  <2>2. TiposUnaCpu(c)'
    BY <1>0, <1>1, <1>6, <2>1 DEF TiposUnaCpu
  <2>3. Planificador'
    <3> DEFINE k == IF pcPcp \in {"espera_cpu", "saca"} THEN 1 ELSE 0
    <3>1. k \in Nat /\ semReady + k = Len(colaReady)
      BY <1>1 DEF Planificador
    <3>2. semReady' + k = Len(colaReady')
      <4> HIDE DEF k
      <4> QED BY <1>1, <1>6, <2>1, <3>1
    <3> QED BY <1>0, <1>1, <3>2 DEF Planificador
  <2>4. \A q \in Procs : Cuenta(q)' = Cuenta(q) + EnLaMano(w, q)
    <3> TAKE q \in Procs
    <3>1. EnLaMano(w, q) \in Nat
      BY DEF EnLaMano
    <3> DEFINE d == Veces(colaNew, q)
               r == Veces(colaReady, q)
               e == Veces(colaExec, q)
               x == Veces(colaExit, q)
               f == EnLaMano(plp, q)
               g == EnLaMano(pcpProc, q)
               h == EnLaMano(w, q)
    <3>2. /\ d \in Nat /\ r \in Nat /\ e \in Nat /\ x \in Nat /\ f \in Nat /\ g \in Nat
          /\ h \in Nat /\ Cuenta(q) = d + r + e + x + f + g
      BY <1>1, <3>1, CuentaTipo DEF Cuenta
    <3>3. Cuenta(q)' = d + (r + h) + e + x + f + g
      BY <1>0, <2>1 DEF Cuenta
    <3> HIDE DEF d, r, e, x, f, g, h
    <3>4. Cuenta(q)' = Cuenta(q) + h
      BY <3>2, <3>3
    <3> QED BY <3>4 DEF h
  <2>5. \A q \in Procs : Lugar(q)'
    <3> TAKE q \in Procs
    <3>1. Lugar(q) /\ Veces(colaExec, q)' = Veces(colaExec, q)
      BY DEF IInvUnaCpu
    <3>2. CASE q # w
      <4>1. pidio'[q] = pidio[q] /\ EnLaMano(w, q) = 0
        BY <1>1, <1>6, <3>2 DEF EnLaMano
      <4>2. Cuenta(q)' = Cuenta(q)
        BY <1>1, <2>4, <4>1, CuentaTipo
      <4> QED BY <3>1, <4>1, <4>2 DEF Lugar
    <3>3. CASE q = w
      <4>1. pidio'[q] = Nadie /\ EnLaMano(w, q) = 1 /\ Veces(colaExec, q) = 0
        BY <1>1, <1>4, <1>6, <3>3 DEF EnLaMano
      <4>2. Cuenta(q) = 0 /\ q \notin porLlegar
        BY <1>6, <3>1, <3>3, <4>1 DEF Lugar
      <4> QED BY <2>4, <3>1, <4>1, <4>2 DEF Lugar
    <3> QED BY <3>2, <3>3
  <2> QED BY <1>2, <1>3, <2>2, <2>3, <2>5 DEF IInvUnaCpu
<1> QED BY <1>5, <1>6

\* The CPU connects.
LEMMA PasoConecta ==
  ASSUME NEW c, CPUs = {c}, IInvUnaCpu(c), ConectaCpu(c), UNCHANGED sems
  PROVE  IInvUnaCpu(c)'
<1>1. TiposUnaCpu(c) /\ Planificador
  BY DEF IInvUnaCpu
<1>2. aKernel[c] # <<>> /\ Head(aKernel[c]).tipo = "CPU"
  BY DEF ConectaCpu, Llega
<1>3. /\ CpuLibre(c) /\ Tail(aKernel[c]) = <<>> /\ colaCpu = <<>> /\ pcpCpu = Nadie
  <2>1. \A m \in Avisos : m.tipo # "CPU"
    BY AvisosTipos
  <2> QED BY <1>2, <2>1, LlegaAKernel
<1>4. /\ UNCHANGED <<porLlegar, colaNew, colaReady, colaExec, colaExit, semReady, pcb, abortado>>
      /\ UNCHANGED <<plp, pcPcp, pcpProc, pcpCpu, socketCPU, aCpu, cpu, progreso>>
      /\ UNCHANGED <<valor, colas_semaforos, colaProcesosBloqueados, pidio>>
      /\ aKernel'[c] = <<>> /\ DOMAIN aKernel' = DOMAIN aKernel
      /\ colaCpu' = <<c>> /\ semCpu' = semCpu + 1
  BY <1>1, <1>3 DEF ConectaCpu, planes, procesos, sems, Sacar, TiposUnaCpu
<1>5. /\ UNCHANGED <<unPid, unPc, semHayScript, semDestruirPCB, fase>>
      /\ UNCHANGED <<programaFinalizado, programaAbortado, programaBloqueado, codigoAborto>>
  BY <1>4 DEF cpu, carga, banderas
<1>6. TiposUnaCpu(c)'
  BY <1>1, <1>4, <1>5 DEF TiposUnaCpu
<1>7. Planificador'
  <2>1. Len(colaCpu) = 0 /\ Len(colaCpu') = 1 /\ semCpu \in Nat
    BY <1>1, <1>3, <1>4 DEF TiposUnaCpu
  <2> QED BY <1>1, <1>4, <2>1 DEF Planificador
<1>8. SemsAlDia'
  BY <1>4 DEF IInvUnaCpu, SemsAlDia, SP!IInv, SP!Tipos, SP!NadieEsperaDeMas,
     SP!EsperaLoQuePidio, SP!EntradasVigentes, SP!EntradasEnOrden
<1>9. \A p \in Procs : Lugar(p)'
  BY <1>4 DEF IInvUnaCpu, Lugar, Cuenta
<1>10. PcbAlDia'
  BY <1>4 DEF IInvUnaCpu, PcbAlDia
<1>11. LaCpu(c)'
  BY <1>3, <1>4, <1>5 DEF LaCpu, CpuLibre, SinPcb, Quieta
<1> QED BY <1>6, <1>7, <1>8, <1>9, <1>10, <1>11 DEF IInvUnaCpu

\* The stage of the CPU when the Kernel answers what it asked.
LEMMA Contesta ==
  ASSUME NEW c, CPUs = {c}, IInvUnaCpu(c), NEW p \in Procs, Ocupada(c, p), Esperando(c, p),
         Tail(aKernel[c]) = <<>>, aCpu[c] = <<>>, aKernel' = Sacar(aKernel, c),
         UNCHANGED <<cpu, progreso>>, NEW m, aCpu' = Mandar(aCpu, c, m),
         \/ m \in {Aviso("RESPUESTA"), Mensaje("PROCESOWAIT", Nadie, 0)} /\ pidio'[p] = Nadie
         \/ m = Mensaje("PROCESOWAIT", Nadie, 1) /\ pidio'[p] # Nadie
  PROVE  Etapa(c, p)'
<1>1. /\ UNCHANGED <<unPid, unPc, semHayScript, semDestruirPCB, fase>>
      /\ UNCHANGED <<programaFinalizado, programaAbortado, programaBloqueado, codigoAborto>>
  BY DEF cpu, carga, banderas
<1>2. aKernel'[c] = <<>> /\ aCpu'[c] = <<m>>
  BY DEF Sacar, Mandar, IInvUnaCpu, TiposUnaCpu
<1>3. EnCurso(c, p)'
  BY <1>1 DEF Esperando, EnCurso
<1>4. CASE m \in {Aviso("RESPUESTA"), Mensaje("PROCESOWAIT", Nadie, 0)} /\ pidio'[p] = Nadie
  <2>1. aCpu'[c] \in {<<Aviso("RESPUESTA")>>, <<Mensaje("PROCESOWAIT", Nadie, 0)>>}
    <3> DEFINE a == Aviso("RESPUESTA")
               b == Mensaje("PROCESOWAIT", Nadie, 0)
    <3>1. m = a \/ m = b
      BY <1>4
    <3> HIDE DEF a, b
    <3>2. <<m>> = <<a>> \/ <<m>> = <<b>>
      BY <3>1
    <3> QED BY <1>2, <3>2 DEF a, b
  <2> QED BY <1>1, <1>2, <1>3, <1>4, <2>1 DEF Esperando, Etapa
<1>5. CASE m = Mensaje("PROCESOWAIT", Nadie, 1) /\ pidio'[p] # Nadie
  BY <1>1, <1>2, <1>3, <1>5 DEF Esperando, Etapa
<1> QED BY <1>4, <1>5

\* A console or a shared variable: the process is taken off colaExec and pushed
\* again.
LEMMA PasoSyscall ==
  ASSUME NEW c, CPUs = {c}, IInvUnaCpu(c), Syscall(c), UNCHANGED sems
  PROVE  IInvUnaCpu(c)'
<1>1. aKernel[c] # <<>> /\ Head(aKernel[c]).tipo \in {"AVISA", "PIDE"}
  BY DEF Syscall, Llega
<1>2. PICK p \in Procs :
        /\ Ocupada(c, p) /\ pidio[p] = Nadie
        /\ \/ Head(aKernel[c]) \in Avisos
           \/ /\ Esperando(c, p) /\ Tail(aKernel[c]) = <<>> /\ aCpu[c] = <<>>
              /\ Head(aKernel[c]).tipo = "PIDE"
  BY <1>1, LlegaAKernel
<1>3. colaExec' = colaExec /\ aKernel' = Sacar(aKernel, c)
  <2>1. colaExec = <<p>>
    BY <1>2 DEF Ocupada
  <2>2. PICK q \in Procs : /\ SacaProceso(c, q)
                           /\ colaExec' = Append(RemoveAt(colaExec, Remitente(c)), q)
    BY DEF Syscall
  <2> QED BY <2>1, <2>2, SacaUnico
<1>4. /\ UNCHANGED <<porLlegar, colaNew, colaReady, colaExit, colaCpu, semReady, semCpu>>
      /\ UNCHANGED <<planes, procesos, cpu, progreso, pcb>>
      /\ UNCHANGED <<valor, colas_semaforos, colaProcesosBloqueados, pidio>>
  BY DEF Syscall, sems, procesos
<1>5. SemsAlDia'
  BY <1>4 DEF IInvUnaCpu, SemsAlDia, SP!IInv, SP!Tipos, SP!NadieEsperaDeMas,
     SP!EsperaLoQuePidio, SP!EntradasVigentes, SP!EntradasEnOrden
<1>6. aCpu' = aCpu \/ aCpu' = Mandar(aCpu, c, Aviso("RESPUESTA"))
  BY DEF Syscall
<1>7. DOMAIN aKernel' = DOMAIN aKernel /\ DOMAIN aCpu' = DOMAIN aCpu
  BY <1>3, <1>6 DEF Sacar, Mandar
<1>8. Etapa(c, p)'
  <2>1. CASE Head(aKernel[c]) \in Avisos
    <3>1. Head(aKernel[c]).tipo # "PIDE"
      BY <2>1, AvisosTipos
    <3>2. aCpu' = aCpu
      BY <3>1 DEF Syscall, Llega
    <3> QED BY <1>1, <1>2, <1>3, <1>4, <2>1, <3>2, AvisoLeido
  <2>2. CASE /\ Esperando(c, p) /\ Tail(aKernel[c]) = <<>> /\ aCpu[c] = <<>>
             /\ Head(aKernel[c]).tipo = "PIDE"
    <3>1. aCpu' = Mandar(aCpu, c, Aviso("RESPUESTA"))
      BY <1>1, <2>2 DEF Syscall, Llega
    <3> QED BY <1>2, <1>3, <1>4, <2>2, <3>1, Contesta
  <2> QED BY <1>2, <2>1, <2>2
<1> QED BY <1>2, <1>3, <1>4, <1>5, <1>7, <1>8, PasoRota

\* The handlers of the semaphores use them for the process of the CPU, which is
\* not blocked.
LEMMA QuienUsa ==
  ASSUME NEW c, CPUs = {c}, IInvUnaCpu(c), ProcesoWait(c) \/ ProcesoSignal(c)
  PROVE  \E p \in Procs, s \in Sems :
           /\ Ocupada(c, p) /\ pidio[p] = Nadie /\ s = Head(aKernel[c]).sem
           /\ colaExec' = colaExec /\ aKernel' = Sacar(aKernel, c) /\ aKernel[c] # <<>>
           /\ \/ /\ ProcesoWait(c) /\ S!Wait(p, s)
                 /\ Esperando(c, p) /\ Tail(aKernel[c]) = <<>> /\ aCpu[c] = <<>>
              \/ ProcesoSignal(c) /\ S!Signal(s) /\ Head(aKernel[c]) \in Avisos
<1>1. /\ aKernel[c] # <<>>
      /\ Head(aKernel[c]).tipo = IF ProcesoWait(c) THEN "PROCESOWAIT" ELSE "PROCESOSIGNAL"
  BY DEF ProcesoWait, ProcesoSignal, Llega
<1>2. PICK p \in Procs :
        /\ Ocupada(c, p) /\ pidio[p] = Nadie /\ Head(aKernel[c]).sem \in Sems
        /\ \/ ProcesoSignal(c) /\ Head(aKernel[c]) \in Avisos
           \/ /\ ProcesoWait(c)
              /\ Esperando(c, p) /\ Tail(aKernel[c]) = <<>> /\ aCpu[c] = <<>>
  <2>1. CASE ProcesoWait(c)
    <3>1. Head(aKernel[c]).tipo = "PROCESOWAIT"
      BY <1>1, <2>1
    <3>2. Head(aKernel[c]) \notin Avisos
      BY <3>1, AvisosTipos
    <3> QED BY <1>1, <2>1, <3>1, <3>2, LlegaAKernel
  <2>2. CASE ~ProcesoWait(c)
    <3>1. Head(aKernel[c]).tipo = "PROCESOSIGNAL" /\ ProcesoSignal(c)
      BY <1>1, <2>2
    <3>2. Head(aKernel[c]) \in Avisos => Head(aKernel[c]).sem \in Sems
      BY <3>1, AvisosTipos
    <3> QED BY <1>1, <3>1, <3>2, LlegaAKernel
  <2> QED BY <2>1, <2>2
<1>3. colaExec = <<p>>
  BY <1>2 DEF Ocupada
<1>4. CASE ProcesoWait(c) /\ ~(Head(aKernel[c]) \in Avisos /\ ProcesoSignal(c))
  <2>1. PICK q \in Procs : Rota(c, q) /\ S!Wait(q, Head(aKernel[c]).sem)
    BY <1>4 DEF ProcesoWait
  <2>2. q = p /\ colaExec' = colaExec /\ aKernel' = Sacar(aKernel, c)
    BY <1>3, <2>1, SacaUnico DEF Rota
  <2> QED BY <1>1, <1>2, <1>4, <2>1, <2>2
<1>5. CASE ProcesoSignal(c) /\ Head(aKernel[c]) \in Avisos
  <2>1. PICK q \in Procs : Rota(c, q)
    BY <1>5 DEF ProcesoSignal
  <2>2. colaExec' = colaExec /\ aKernel' = Sacar(aKernel, c)
    BY <1>3, <2>1, SacaUnico DEF Rota
  <2>3. S!Signal(Head(aKernel[c]).sem)
    BY <1>5 DEF ProcesoSignal
  <2> QED BY <1>1, <1>2, <1>5, <2>2, <2>3
<1> QED BY <1>2, <1>4, <1>5

\* PROCESOWAIT.
LEMMA PasoProcesoWait ==
  ASSUME NEW c, CPUs = {c}, IInvUnaCpu(c), NEW p \in Procs, NEW s \in Sems,
         Ocupada(c, p), pidio[p] = Nadie, s = Head(aKernel[c]).sem, colaExec' = colaExec,
         aKernel' = Sacar(aKernel, c), ProcesoWait(c), S!Wait(p, s),
         Esperando(c, p), Tail(aKernel[c]) = <<>>, aCpu[c] = <<>>
  PROVE  IInvUnaCpu(c)'
<1>1. /\ UNCHANGED <<porLlegar, colaNew, colaReady, colaExit, colaCpu, semReady, semCpu>>
      /\ UNCHANGED <<planes, procesos, cpu, progreso>>
      /\ aCpu' = Mandar(aCpu, c, Mensaje("PROCESOWAIT", Nadie, IF S!Bloquea(s) THEN 1 ELSE 0))
  BY DEF ProcesoWait
<1>2. /\ SemsAlDia' /\ DOMAIN pidio = Procs
      /\ S!Bloquea(s) => pidio' = [pidio EXCEPT ![p] = s]
      /\ ~S!Bloquea(s) => pidio' = pidio
  BY TrasWait DEF IInvUnaCpu, SemsAlDia, SP!IInv, SP!Tipos
<1>3. s # Nadie
  BY SemsSupuesto
<1>4. DOMAIN aKernel' = DOMAIN aKernel /\ DOMAIN aCpu' = DOMAIN aCpu
  BY <1>1 DEF Sacar, Mandar
<1>5. Etapa(c, p)'
  <2>1. CASE S!Bloquea(s)
    <3>1. aCpu' = Mandar(aCpu, c, Mensaje("PROCESOWAIT", Nadie, 1)) /\ pidio'[p] # Nadie
      BY <1>1, <1>2, <1>3, <2>1
    <3> QED BY <1>1, <3>1, Contesta
  <2>2. CASE ~S!Bloquea(s)
    <3>1. aCpu' = Mandar(aCpu, c, Mensaje("PROCESOWAIT", Nadie, 0)) /\ pidio'[p] = Nadie
      BY <1>1, <1>2, <2>2
    <3> QED BY <1>1, <3>1, Contesta
  <2> QED BY <2>1, <2>2
<1>6. \/ pidio' = pidio
      \/ \E t \in Sems : pidio[p] = Nadie /\ pidio' = [pidio EXCEPT ![p] = t]
  BY <1>2
<1> QED BY <1>1, <1>2, <1>4, <1>5, <1>6, PasoRota

\* PROCESOSIGNAL.
LEMMA PasoProcesoSignal ==
  ASSUME NEW c, CPUs = {c}, IInvUnaCpu(c), NEW p \in Procs, NEW s \in Sems,
         Ocupada(c, p), pidio[p] = Nadie, s = Head(aKernel[c]).sem, colaExec' = colaExec,
         aKernel' = Sacar(aKernel, c), ProcesoSignal(c), S!Signal(s),
         aKernel[c] # <<>>, Head(aKernel[c]) \in Avisos
  PROVE  IInvUnaCpu(c)'
<1> DEFINE w == S!Despertado(s)
<1>1. /\ UNCHANGED <<porLlegar, colaNew, colaExit, colaCpu, semCpu>>
      /\ UNCHANGED <<planes, procesos, aCpu, cpu, progreso>>
      /\ \/ w # Nadie /\ colaReady' = Append(colaReady, w) /\ semReady' = semReady + 1
         \/ w = Nadie /\ UNCHANGED <<colaReady, semReady>>
  BY DEF ProcesoSignal
<1>2. /\ SemsAlDia' /\ DOMAIN pidio = Procs
      /\ \/ w = Nadie /\ pidio' = pidio
         \/ w \in Procs /\ pidio[w] = s /\ pidio' = [pidio EXCEPT ![w] = Nadie]
  BY TrasSignal DEF IInvUnaCpu, SemsAlDia, SP!IInv, SP!Tipos
<1>3. s # Nadie
  BY SemsSupuesto
<1>4. DOMAIN aKernel' = DOMAIN aKernel /\ DOMAIN aCpu' = DOMAIN aCpu
  BY <1>1 DEF Sacar
<1> HIDE DEF w
<1>5. pidio'[p] = pidio[p]
  BY <1>2, <1>3
<1>6. Etapa(c, p)'
  <2>1. pcb' = pcb
    BY <1>1 DEF procesos
  <2> QED BY <1>1, <1>5, <2>1, AvisoLeido
<1>7. \/ UNCHANGED <<colaReady, semReady>> /\ pidio' = pidio
      \/ /\ w \in Procs \ {p} /\ pidio[w] # Nadie /\ pidio' = [pidio EXCEPT ![w] = Nadie]
         /\ colaReady' = Append(colaReady, w) /\ semReady' = semReady + 1
  BY <1>1, <1>2, <1>3, NadieSupuesto
<1> QED BY <1>1, <1>2, <1>4, <1>6, <1>7, PasoRota


\* What a handler that takes the process off its CPU has to show: where the
\* process goes, and that the PCB the Kernel keeps is not old.
LEMMA PasoDevuelve ==
  ASSUME NEW c, CPUs = {c}, IInvUnaCpu(c), NEW p \in Procs, Ocupada(c, p), Devuelto(c, p),
         UNCHANGED <<porLlegar, colaNew, planes, socketCPU, abortado, aCpu, cpu, progreso, sems>>,
         DOMAIN aKernel' = DOMAIN aKernel, aKernel'[c] = <<>>,
         colaExec' = <<>>, colaCpu' = <<c>>, semCpu' = semCpu + 1,
         \/ pcb' = pcb /\ colaExit' # colaExit
         \/ \E n \in Nat : progreso[p] <= n /\ pcb' = [pcb EXCEPT ![p] = n],
         \/ /\ pidio[p] = Nadie
            /\ \/ /\ colaReady' = Append(colaReady, p) /\ semReady' = semReady + 1
                  /\ colaExit' = colaExit
               \/ colaExit' = Append(colaExit, p) /\ UNCHANGED <<colaReady, semReady>>
         \/ pidio[p] # Nadie /\ UNCHANGED <<colaReady, semReady, colaExit>>
  PROVE  IInvUnaCpu(c)'
<1>0. /\ UNCHANGED <<unPid, unPc, semHayScript, semDestruirPCB, fase>>
      /\ UNCHANGED <<programaFinalizado, programaAbortado, programaBloqueado, codigoAborto>>
      /\ UNCHANGED <<plp, pcPcp, pcpProc, pcpCpu, mutexColaEx>>
      /\ UNCHANGED <<valor, colas_semaforos, colaProcesosBloqueados, pidio>>
  BY DEF cpu, carga, banderas, planes, sems
<1>1. /\ TiposUnaCpu(c) /\ Planificador /\ PcbAlDia
      /\ colaReady \in Seq(Procs) /\ colaExit \in Seq(Procs) /\ semReady \in Nat
      /\ semCpu \in Nat /\ pcb \in [Procs -> Nat]
  BY DEF IInvUnaCpu, TiposUnaCpu
<1>2. colaExec = <<p>> /\ colaCpu = <<>> /\ pcpCpu = Nadie
  BY DEF Ocupada
<1>3. LaCpu(c)'
  <2>1. SinPcb(c)' /\ aCpu'[c] = <<>> /\ pcpCpu' = Nadie
    BY <1>0, <1>2 DEF Devuelto, SinPcb, Quieta
  <2> QED BY <2>1 DEF LaCpu, CpuLibre
<1>4. /\ \/ colaReady' = Append(colaReady, p) /\ semReady' = semReady + 1
         \/ colaReady' = colaReady /\ semReady' = semReady
      /\ colaExit' = Append(colaExit, p) \/ colaExit' = colaExit
  OBVIOUS
<1>5. /\ colaReady' \in Seq(Procs) /\ colaExit' \in Seq(Procs)
      /\ Len(colaReady) \in Nat /\ semReady' \in Nat
      /\ \/ Len(colaReady') = Len(colaReady) + 1 /\ semReady' = semReady + 1
         \/ Len(colaReady') = Len(colaReady) /\ semReady' = semReady
  <2> PICK ready, exit : ready = Append(colaReady, p) /\ exit = Append(colaExit, p)
    OBVIOUS
  <2>1. /\ ready \in Seq(Procs) /\ exit \in Seq(Procs)
        /\ Len(ready) = Len(colaReady) + 1 /\ Len(colaReady) \in Nat
    BY <1>1, ListaAgrega
  <2>2. /\ \/ colaReady' = ready /\ semReady' = semReady + 1
           \/ colaReady' = colaReady /\ semReady' = semReady
        /\ colaExit' = exit \/ colaExit' = colaExit
    BY <1>4
  <2>3. colaReady' \in Seq(Procs) /\ colaExit' \in Seq(Procs) /\ semReady' \in Nat
    <3>1. colaReady' \in Seq(Procs)
      BY <1>1, <2>1, <2>2
    <3>2. colaExit' \in Seq(Procs)
      BY <1>1, <2>1, <2>2
    <3>3. semReady' \in Nat
      BY <1>1, <2>2
    <3> QED BY <3>1, <3>2, <3>3
  <2>4. \/ Len(colaReady') = Len(colaReady) + 1 /\ semReady' = semReady + 1
        \/ Len(colaReady') = Len(colaReady) /\ semReady' = semReady
    BY <2>1, <2>2
  <2> QED BY <2>1, <2>3, <2>4
<1>6. pcb' \in [Procs -> Nat] /\ \A q \in Procs \ {p} : pcb'[q] = pcb[q]
  BY <1>1
<1>7. TiposUnaCpu(c)'
  <2>1. colaExec' \in Seq(Procs) /\ semCpu' \in Nat
    BY <1>1
  <2> QED BY <1>0, <1>1, <1>5, <1>6, <2>1 DEF TiposUnaCpu
<1>8. Planificador'
  <2> DEFINE k == IF pcPcp \in {"espera_cpu", "saca"} THEN 1 ELSE 0
  <2>1. k \in Nat /\ semReady + k = Len(colaReady)
    BY <1>1 DEF Planificador
  <2>2. semReady' + k = Len(colaReady')
    <3> HIDE DEF k
    <3>1. \/ Len(colaReady') = Len(colaReady) + 1 /\ semReady' = semReady + 1
          \/ Len(colaReady') = Len(colaReady) /\ semReady' = semReady
      BY <1>5
    <3>2. semReady \in Nat /\ Len(colaReady) \in Nat
      BY <1>1, <1>5
    <3> QED BY <2>1, <3>1, <3>2
  <2>3. pcPcp # "saca" /\ semCpu = 0
    <3>1. semCpu + (IF pcPcp = "saca" THEN 1 ELSE 0) = 0
      BY <1>1, <1>2 DEF Planificador
    <3> QED BY <1>1, <3>1
  <2>4. semCpu' = 1 /\ Len(colaCpu') = 1
    BY <2>3
  <2> QED BY <1>0, <1>1, <2>2, <2>3, <2>4 DEF Planificador
<1>9. SemsAlDia'
  BY <1>0 DEF IInvUnaCpu, SemsAlDia, SP!IInv, SP!Tipos, SP!NadieEsperaDeMas,
     SP!EsperaLoQuePidio, SP!EntradasVigentes, SP!EntradasEnOrden
<1>10. \A q \in Procs : /\ EnLaMano(p, q) \in Nat
                        /\ q # p => EnLaMano(p, q) = 0
                        /\ Veces(colaExec, q) = EnLaMano(p, q) /\ Veces(colaExec', q) = 0
                        /\ Veces(Append(colaReady, p), q) = Veces(colaReady, q) + EnLaMano(p, q)
                        /\ Veces(Append(colaExit, p), q) = Veces(colaExit, q) + EnLaMano(p, q)
  BY <1>1, <1>2, VecesUno, VecesAgrega DEF EnLaMano
<1>11. EnLaMano(p, p) = 1
  BY DEF EnLaMano
<1>12. \A q \in Procs : Lugar(q)'
  <2> TAKE q \in Procs
  <2>1. Lugar(q) /\ Veces(colaExec, q) = EnLaMano(p, q) /\ Veces(colaExec', q) = 0
    BY <1>10 DEF IInvUnaCpu
  <2>2. CASE pidio[p] = Nadie
    <3>1. Cuenta(q)' = Cuenta(q)
      <4>0. /\ Veces(colaExec, q) = EnLaMano(p, q) /\ Veces(colaExec', q) = 0
            /\ EnLaMano(p, q) \in Nat
            /\ Veces(Append(colaReady, p), q) = Veces(colaReady, q) + EnLaMano(p, q)
            /\ Veces(Append(colaExit, p), q) = Veces(colaExit, q) + EnLaMano(p, q)
        BY <1>10
      <4>1. CASE colaReady' = Append(colaReady, p) /\ colaExit' = colaExit
        BY <1>0, <1>1, <4>0, <4>1, CuentaTipo DEF Cuenta
      <4>2. CASE colaExit' = Append(colaExit, p) /\ colaReady' = colaReady
        BY <1>0, <1>1, <4>0, <4>2, CuentaTipo DEF Cuenta
      <4> QED BY <2>2, <4>1, <4>2
    <3>2. CASE pidio[q] = Nadie
      BY <1>0, <2>1, <3>1, <3>2 DEF Lugar
    <3>3. CASE pidio[q] # Nadie
      <4>1. EnLaMano(p, q) = 0
        BY <1>10, <2>2, <3>3
      <4> QED BY <1>0, <2>1, <3>1, <3>3, <4>1 DEF Lugar
    <3> QED BY <3>2, <3>3
  <2>3. CASE pidio[p] # Nadie
    <3>1. Cuenta(q)' = Cuenta(q) - EnLaMano(p, q)
      <4>1. EnLaMano(p, q) \in Nat /\ UNCHANGED <<colaReady, colaExit>>
        BY <1>10, <2>3
      <4> DEFINE a == Veces(colaNew, q)
                 b == Veces(colaReady, q)
                 d == Veces(colaExit, q)
                 e == EnLaMano(plp, q)
                 f == EnLaMano(pcpProc, q)
                 g == EnLaMano(p, q)
      <4>2. /\ a \in Nat /\ b \in Nat /\ d \in Nat /\ e \in Nat /\ f \in Nat /\ g \in Nat
            /\ Cuenta(q) = a + b + g + d + e + f
        BY <1>1, <2>1, <4>1, CuentaTipo DEF Cuenta
      <4>3. Cuenta(q)' = a + b + 0 + d + e + f
        BY <1>0, <2>1, <4>1 DEF Cuenta
      <4> HIDE DEF a, b, d, e, f, g
      <4>4. Cuenta(q)' = Cuenta(q) - g
        BY <4>2, <4>3
      <4> QED BY <4>4 DEF g
    <3>2. CASE q = p
      <4>1. Cuenta(p) = 1 /\ p \notin porLlegar
        BY <1>11, <2>1, <2>3, <3>2 DEF Lugar
      <4> QED BY <1>0, <1>11, <2>1, <2>3, <3>1, <3>2, <4>1 DEF Lugar
    <3>3. CASE q # p
      <4>1. EnLaMano(p, q) = 0
        BY <1>10, <3>3
      <4>2. Cuenta(q)' = Cuenta(q)
        BY <1>1, <3>1, <4>1, CuentaTipo
      <4> QED BY <1>0, <2>1, <4>1, <4>2 DEF Lugar
    <3> QED BY <3>2, <3>3
  <2> QED BY <2>2, <2>3
<1>13. PcbAlDia'
  <2> SUFFICES ASSUME NEW q \in Procs, q \notin ToSet(colaExit)'
               PROVE  progreso'[q] <= pcb'[q]
    BY DEF PcbAlDia
  <2>1. Veces(colaExit', q) = 0
    BY <1>5, VecesLista
  <2>2. CASE q = p
    <3>1. colaExit' = colaExit
      <4>1. Veces(Append(colaExit, p), p) = Veces(colaExit, p) + 1
        BY <1>10, <1>11
      <4>2. Veces(colaExit, p) \in Nat
        BY <1>1, VecesLista
      <4>3. Veces(Append(colaExit, p), p) # 0
        BY <4>1, <4>2
      <4> QED BY <1>4, <2>1, <2>2, <4>3
    <3> QED BY <1>1, <2>2, <3>1
  <2>3. CASE q # p
    <3>1. Veces(colaExit, q) = 0
      <4>1. Veces(Append(colaExit, p), q) = Veces(colaExit, q) + EnLaMano(p, q)
        BY <1>10
      <4>2. Veces(colaExit, q) \in Nat /\ EnLaMano(p, q) = 0
        BY <1>1, <1>10, <2>3, VecesLista
      <4>3. colaExit' = Append(colaExit, p) => Veces(colaExit', q) = Veces(colaExit, q)
        BY <4>1, <4>2
      <4> QED BY <1>4, <2>1, <4>3
    <3>2. q \notin ToSet(colaExit) /\ q \notin ToSet(colaExec)
      BY <1>1, <1>2, <2>3, <3>1, VecesLista DEF ToSet
    <3> QED BY <1>1, <1>6, <2>3, <3>2 DEF PcbAlDia
  <2> QED BY <2>2, <2>3
<1> QED BY <1>3, <1>7, <1>8, <1>9, <1>12, <1>13 DEF IInvUnaCpu

\* What the message of a handler that takes the process off its CPU says.
LEMMA LlegaElUltimo ==
  ASSUME NEW c, IInvUnaCpu(c), aKernel[c] # <<>>,
         Head(aKernel[c]).tipo \in
           {"PROGRAMATERMINADO", "FINDEQUATUM", "ABORTO", "SEBLOQUEOELPROCESO"}
  PROVE  \E p \in Procs :
           /\ Ocupada(c, p) /\ Devuelto(c, p) /\ Tail(aKernel[c]) = <<>>
           /\ Head(aKernel[c]).tipo = "SEBLOQUEOELPROCESO" <=> pidio[p] # Nadie
           /\ Head(aKernel[c]).tipo # "PROGRAMATERMINADO" =>
                Head(aKernel[c]).pc \in Nat /\ progreso[p] <= Head(aKernel[c]).pc
<1>1. Head(aKernel[c]) \notin Avisos
  BY AvisosTipos
<1> QED BY <1>1, LlegaAKernel

\* PROGRAMATERMINADO, FINDEQUATUM, the aborts of the CPU and
\* SEBLOQUEOELPROCESO.
LEMMA PasoUltimo ==
  ASSUME NEW c, CPUs = {c}, IInvUnaCpu(c),
         \/ (ProgramaTerminado(c) \/ FinDeQuantum(c) \/ AbortoDeCpu(c)) /\ UNCHANGED sems
         \/ SeBloqueo(c)
  PROVE  IInvUnaCpu(c)'
<1>1. /\ aKernel[c] # <<>>
      /\ Head(aKernel[c]).tipo =
           IF ProgramaTerminado(c) THEN "PROGRAMATERMINADO"
           ELSE IF FinDeQuantum(c) THEN "FINDEQUATUM"
           ELSE IF AbortoDeCpu(c) THEN "ABORTO" ELSE "SEBLOQUEOELPROCESO"
  BY DEF ProgramaTerminado, FinDeQuantum, AbortoDeCpu, SeBloqueo, Llega
<1>2. PICK p \in Procs :
        /\ Ocupada(c, p) /\ Devuelto(c, p) /\ Tail(aKernel[c]) = <<>>
        /\ Head(aKernel[c]).tipo = "SEBLOQUEOELPROCESO" <=> pidio[p] # Nadie
        /\ Head(aKernel[c]).tipo # "PROGRAMATERMINADO" =>
             Head(aKernel[c]).pc \in Nat /\ progreso[p] <= Head(aKernel[c]).pc
  BY <1>1, LlegaElUltimo
<1>3. colaExec = <<p>> /\ socketCPU[p] = c /\ colaCpu = <<>>
  BY <1>2 DEF Ocupada
<1>4. TiposUnaCpu(c) /\ colaExit \in Seq(Procs) /\ DOMAIN aKernel = CPUs
  BY DEF IInvUnaCpu, TiposUnaCpu
<1>5. /\ UNCHANGED <<porLlegar, colaNew, planes, socketCPU, abortado, aCpu, cpu, progreso, sems>>
      /\ semCpu' = semCpu + 1
  BY DEF ProgramaTerminado, FinDeQuantum, AbortoDeCpu, SeBloqueo, Abortar, procesos
<1>6. \A q : SacaProceso(c, q) => /\ q = p /\ RemoveAt(colaExec, Remitente(c)) = <<>>
                                  /\ aKernel' = Sacar(aKernel, c)
  BY <1>3, SacaUnico
<1>7. aKernel' = Sacar(aKernel, c)
  BY <1>6 DEF ProgramaTerminado, FinDeQuantum, AbortoDeCpu, SeBloqueo
<1>8. DOMAIN aKernel' = DOMAIN aKernel /\ aKernel'[c] = <<>>
  BY <1>2, <1>4, <1>7 DEF Sacar
<1>9. colaExit # Append(colaExit, p)
  <2>1. Len(Append(colaExit, p)) = Len(colaExit) + 1 /\ Len(colaExit) \in Nat
    BY <1>4, ListaAgrega
  <2> QED BY <2>1
<1>10. CASE ProgramaTerminado(c)
  <2>1. colaExec' = <<>> /\ colaExit' = Append(colaExit, p) /\ colaCpu' = Append(colaCpu, c)
    BY <1>6, <1>10 DEF ProgramaTerminado
  <2>2. colaCpu' = <<c>> /\ UNCHANGED <<colaReady, semReady, pcb>>
    BY <1>3, <1>10, <2>1 DEF ProgramaTerminado, procesos
  <2>3. pidio[p] = Nadie
    BY <1>1, <1>2, <1>10
  <2> QED BY <1>2, <1>5, <1>8, <1>9, <2>1, <2>2, <2>3, PasoDevuelve
<1>11. CASE FinDeQuantum(c)
  <2>1. /\ colaExec' = <<>> /\ colaReady' = Append(colaReady, p)
        /\ colaCpu' = Append(colaCpu, c) /\ pcb' = [pcb EXCEPT ![p] = Head(aKernel[c]).pc]
    BY <1>6, <1>11 DEF FinDeQuantum
  <2>2. colaCpu' = <<c>> /\ colaExit' = colaExit /\ semReady' = semReady + 1
    BY <1>3, <1>11, <2>1 DEF FinDeQuantum
  <2>3. /\ pidio[p] = Nadie
        /\ Head(aKernel[c]).pc \in Nat /\ progreso[p] <= Head(aKernel[c]).pc
    <3>1. Head(aKernel[c]).tipo = "FINDEQUATUM"
      BY <1>11 DEF FinDeQuantum, Llega
    <3> QED BY <1>2, <3>1
  <2> QED BY <1>2, <1>5, <1>8, <2>1, <2>2, <2>3, PasoDevuelve
<1>12. CASE AbortoDeCpu(c)
  <2>1. /\ colaExec' = <<>> /\ colaExit' = Append(colaExit, p)
        /\ colaCpu' = Append(colaCpu, c) /\ pcb' = [pcb EXCEPT ![p] = Head(aKernel[c]).pc]
    BY <1>3, <1>6, <1>12 DEF AbortoDeCpu, Abortar
  <2>2. colaCpu' = <<c>> /\ UNCHANGED <<colaReady, semReady>>
    BY <1>3, <1>12, <2>1 DEF AbortoDeCpu
  <2>3. /\ pidio[p] = Nadie
        /\ Head(aKernel[c]).pc \in Nat /\ progreso[p] <= Head(aKernel[c]).pc
    <3>1. Head(aKernel[c]).tipo = "ABORTO"
      BY <1>12 DEF AbortoDeCpu, Llega
    <3> QED BY <1>2, <3>1
  <2> QED BY <1>2, <1>5, <1>8, <2>1, <2>2, <2>3, PasoDevuelve
<1>13. CASE SeBloqueo(c)
  <2>1. /\ colaExec' = <<>>
        /\ colaCpu' = Append(colaCpu, c) /\ pcb' = [pcb EXCEPT ![p] = Head(aKernel[c]).pc]
    BY <1>6, <1>13 DEF SeBloqueo
  <2>2. colaCpu' = <<c>> /\ UNCHANGED <<colaReady, semReady, colaExit>>
    BY <1>3, <1>13, <2>1 DEF SeBloqueo
  <2>3. /\ pidio[p] # Nadie
        /\ Head(aKernel[c]).pc \in Nat /\ progreso[p] <= Head(aKernel[c]).pc
    <3>1. Head(aKernel[c]).tipo = "SEBLOQUEOELPROCESO"
      BY <1>13 DEF SeBloqueo, Llega
    <3> QED BY <1>2, <3>1
  <2> QED BY <1>2, <1>5, <1>8, <2>1, <2>2, <2>3, PasoDevuelve
<1> QED BY <1>10, <1>11, <1>12, <1>13


\* A step that breaks the Kernel, or that does nothing.
LEMMA PasoNada ==
  ASSUME NEW c, IInvUnaCpu(c), UNCHANGED <<kernel, aKernel, aCpu, cpu, progreso, sems>>
  PROVE  IInvUnaCpu(c)'
<1>1. /\ UNCHANGED <<porLlegar, colaNew, colaReady, colaExec, colaExit, colaCpu, semReady, semCpu>>
      /\ UNCHANGED <<plp, pcPcp, pcpProc, pcpCpu, socketCPU, pcb, abortado, aKernel, aCpu, progreso>>
      /\ UNCHANGED <<unPid, unPc, semHayScript, semDestruirPCB, fase>>
      /\ UNCHANGED <<programaFinalizado, programaAbortado, programaBloqueado, codigoAborto>>
      /\ UNCHANGED <<valor, colas_semaforos, colaProcesosBloqueados, pidio>>
  BY DEF kernel, colas, planes, procesos, cpu, carga, banderas, sems
<1>2. TiposUnaCpu(c)'
  BY <1>1 DEF IInvUnaCpu, TiposUnaCpu
<1>3. SemsAlDia'
  BY <1>1 DEF IInvUnaCpu, SemsAlDia, SP!IInv, SP!Tipos, SP!NadieEsperaDeMas,
     SP!EsperaLoQuePidio, SP!EntradasVigentes, SP!EntradasEnOrden
<1>4. Planificador' /\ PcbAlDia'
  BY <1>1 DEF IInvUnaCpu, Planificador, PcbAlDia
<1>5. \A p \in Procs : Lugar(p)'
  BY <1>1 DEF IInvUnaCpu, Lugar, Cuenta
<1>6. LaCpu(c)'
  <2>1. CASE CpuLibre(c)
    BY <1>1, <2>1 DEF LaCpu, CpuLibre, SinPcb, Quieta
  <2>2. ASSUME NEW p \in Procs, Ocupada(c, p)
        PROVE  Ocupada(c, p)'
    <3>1. EnCamino(c, p) => EnCamino(c, p)'
      BY <1>1 DEF EnCamino, SinPcb, Quieta
    <3>2. Recibido(c, p) => Recibido(c, p)'
      BY <1>1 DEF Recibido, Quieta
    <3>3. Ejecutando(c, p) => Ejecutando(c, p)'
      BY <1>1 DEF Ejecutando, EnCurso
    <3>4. Esperando(c, p) => Esperando(c, p)'
      BY <1>1 DEF Esperando, EnCurso
    <3>5. Parando(c, p) => Parando(c, p)'
      BY <1>1 DEF Parando, EnCurso
    <3>6. Devuelto(c, p) => Devuelto(c, p)'
      BY <1>1 DEF Devuelto, SinPcb, Quieta
    <3> QED BY <1>1, <2>2, <3>1, <3>2, <3>3, <3>4, <3>5, <3>6 DEF Ocupada, Etapa
  <2> QED BY <2>1, <2>2 DEF IInvUnaCpu, LaCpu
<1> QED BY <1>2, <1>3, <1>4, <1>5, <1>6 DEF IInvUnaCpu
-----------------------------------------------------------------------------
(* The inductive invariant.                                                 *)

\* It holds at the start: nobody has arrived, and the CPU connects.
LEMMA InicialUnaCpu ==
  ASSUME NEW c, CPUs = {c}, InitPlan
  PROVE  IInvUnaCpu(c)
<1>1. TiposUnaCpu(c)
  <2>1. socketCPU \in [Procs -> CPUs \cup {Nadie}]
    BY BasuraSupuesto DEF InitPlan, Init
  <2>2. /\ aKernel = [d \in CPUs |-> <<Aviso("CPU")>>] /\ aCpu = [d \in CPUs |-> <<>>]
        /\ unPid = [d \in CPUs |-> Nadie] /\ unPc = [d \in CPUs |-> 0]
        /\ semHayScript = [d \in CPUs |-> 0] /\ semDestruirPCB = [d \in CPUs |-> 1]
        /\ fase = [d \in CPUs |-> "espera"] /\ codigoAborto = [d \in CPUs |-> "ABORTO"]
        /\ programaFinalizado = [d \in CPUs |-> FALSE]
        /\ programaAbortado = [d \in CPUs |-> FALSE]
        /\ programaBloqueado = [d \in CPUs |-> FALSE]
    BY DEF InitPlan, Init
  <2>3. /\ porLlegar \subseteq Procs
        /\ colaNew \in Seq(Procs) /\ colaReady \in Seq(Procs)
        /\ colaExec \in Seq(Procs) /\ colaExit \in Seq(Procs)
        /\ semReady \in Nat /\ semCpu \in Nat
        /\ plp \in Procs \cup {Nadie} /\ pcpProc \in Procs \cup {Nadie}
        /\ pcb \in [Procs -> Nat] /\ progreso \in [Procs -> Nat]
        /\ abortado = [p \in Procs |-> FALSE]
    BY DEF InitPlan, Init
  <2> QED BY <2>1, <2>2, <2>3 DEF TiposUnaCpu
<1>2. /\ \A p \in Procs : pidio[p] = Nadie
      /\ SP!Init
  BY DEF InitPlan, S!Init, SP!Init
<1>3. SemsAlDia
  BY <1>2, SupuestosSemaforos, SP!InicialSemaforos DEF SemsAlDia
<1>4. Planificador
  BY DEF InitPlan, Init, Planificador
<1>5. PcbAlDia
  BY DEF InitPlan, Init, PcbAlDia
<1>6. \A p \in Procs : Lugar(p)
  <2> TAKE p \in Procs
  <2>1. /\ colaNew = <<>> /\ colaReady = <<>> /\ colaExec = <<>> /\ colaExit = <<>>
        /\ plp = Nadie /\ pcpProc = Nadie /\ porLlegar = Procs
    BY DEF InitPlan, Init
  <2>2. Veces(<<>>, p) = 0 /\ EnLaMano(Nadie, p) = 0
    BY VecesUno, ManoVacia
  <2> QED BY <1>2, <2>1, <2>2 DEF Lugar, Cuenta
<1>7. LaCpu(c)
  BY DEF InitPlan, Init, LaCpu, CpuLibre, SinPcb, Quieta
<1> QED BY <1>1, <1>3, <1>4, <1>5, <1>6, <1>7 DEF IInvUnaCpu

\* Every step preserves it.
LEMMA PasoUnaCpu ==
  ASSUME NEW c, CPUs = {c}, IInvUnaCpu(c), [NextPlan]_todo
  PROVE  IInvUnaCpu(c)'
<1>1. CASE UNCHANGED todo
  <2>1. UNCHANGED <<kernel, aKernel, aCpu, cpu, progreso, sems>>
    BY <1>1 DEF todo, vars
  <2> QED BY <2>1, PasoNada
<1>2. CASE (\E p \in Procs : EntraProceso(p)) /\ UNCHANGED sems
  BY <1>2, PasoEntra
<1>3. CASE PLP /\ UNCHANGED sems
  BY <1>3, PasoPlpSaca, PasoPlpEncola DEF PLP
<1>4. CASE PCP /\ UNCHANGED sems
  BY <1>4, PasoPcpEspera, PasoPcpSaca, PasoPcpEncola DEF PCP
<1>5. CASE AtiendePlan(c)
  <2>1. CASE ConectaCpu(c) /\ UNCHANGED sems
    BY <2>1, PasoConecta
  <2>2. CASE Syscall(c) /\ UNCHANGED sems
    BY <2>2, PasoSyscall
  <2>3. CASE \/ (ProgramaTerminado(c) \/ FinDeQuantum(c) \/ AbortoDeCpu(c)) /\ UNCHANGED sems
             \/ SeBloqueo(c)
    BY <2>3, PasoUltimo
  <2>4. CASE (SinProceso(c) \/ Corrompe(c)) /\ UNCHANGED sems
    <3>1. UNCHANGED <<kernel, aKernel, aCpu, cpu, progreso>>
      BY <2>4 DEF SinProceso, Corrompe, Rompe
    <3> QED BY <2>4, <3>1, PasoNada
  <2>5. CASE ProcesoWait(c) \/ ProcesoSignal(c)
    BY <2>5, QuienUsa, PasoProcesoWait, PasoProcesoSignal
  <2> QED BY <1>5, <2>1, <2>2, <2>3, <2>4, <2>5 DEF AtiendePlan, Atiende
<1>6. CASE ReceptorPlan(c)
  BY <1>6, PasoRecibePcb, PasoRecibeRespuesta DEF ReceptorPlan, Receptor
<1>7. CASE HiloPlan(c)
  <2>1. CASE Arranca(c) /\ UNCHANGED sems
    BY <2>1, PasoArranca
  <2>2. CASE ((Local(c) \/ Avisa(c) \/ Falla(c)) /\ UNCHANGED sems) \/ Senala(c)
    BY <2>2, PasoAvanza
  <2>3. CASE (Pide(c) /\ UNCHANGED sems) \/ Espera(c)
    BY <2>3, PasoPide
  <2>4. CASE (Finalizar(c) \/ FueraDeIndice(c)) /\ UNCHANGED sems
    BY <2>4, PasoFinalizar
  <2>5. CASE TrasFin(c) /\ UNCHANGED sems
    BY <2>5, PasoTrasFin
  <2>6. CASE Termina(c) /\ UNCHANGED sems
    BY <2>6, PasoTermina
  <2> QED BY <1>7, <2>1, <2>2, <2>3, <2>4, <2>5, <2>6 DEF HiloPlan, HiloScript
<1> QED BY <1>1, <1>2, <1>3, <1>4, <1>5, <1>6, <1>7 DEF NextPlan

\* With one CPU, IInvUnaCpu is an invariant of Planificacion.
THEOREM InvarianteUnaCpu ==
  ASSUME NEW CONSTANT c, CPUs = {c}
  PROVE  SpecPlan => []IInvUnaCpu(c)
<1>1. InitPlan => IInvUnaCpu(c)
  BY InicialUnaCpu
<1>2. IInvUnaCpu(c) /\ [NextPlan]_todo => IInvUnaCpu(c)'
  BY PasoUnaCpu
<1> QED BY <1>1, <1>2, PTL DEF SpecPlan
-----------------------------------------------------------------------------
(* What follows from it.                                                    *)

\* The semaphores a process is blocked on: the one it asked for, if any.
LEMMA EsperaUna ==
  ASSUME SemsAlDia, NEW p \in Procs
  PROVE  /\ pidio[p] = Nadie => EnEspera(p) = {} /\ Cardinality(EnEspera(p)) = 0
         /\ pidio[p] # Nadie => EnEspera(p) = {pidio[p]} /\ Cardinality(EnEspera(p)) = 1
<1>1. EnEspera(p) = {s \in Sems : pidio[p] = s}
  BY DEF SemsAlDia, SP!IInv, SP!EsperaLoQuePidio, SP!ToSet, ToSet, EnEspera
<1>2. CASE pidio[p] = Nadie
  BY <1>1, <1>2, SemsSupuesto, FS_EmptySet
<1>3. CASE pidio[p] # Nadie
  <2>1. EnEspera(p) = {pidio[p]}
    BY <1>1, <1>3 DEF SemsAlDia
  <2> QED BY <1>3, <2>1, FS_Singleton
<1> QED BY <1>2, <1>3

\* A blocked process is still in colaExec only while its CPU stops it.
LEMMA DondeSeBloquea ==
  ASSUME NEW c, IInvUnaCpu(c), NEW p \in Procs, pidio[p] # Nadie
  PROVE  /\ p \notin porLlegar
         /\ p \in ToSet(colaExec) => EntreColas(p)
         /\ p \notin ToSet(colaExec) => Activos(p) = 0 /\ p \notin ToSet(colaExit)
<1>1. TiposUnaCpu(c) /\ Lugar(p) /\ SemsAlDia
  BY DEF IInvUnaCpu
<1>2. p \notin porLlegar /\ Activos(p) = Veces(colaExec, p)
  BY <1>1, ActivosCuenta DEF Lugar
<1>3. ASSUME p \in ToSet(colaExec)
      PROVE  EntreColas(p)
  <2>1. PICK q \in Procs : Ocupada(c, q)
    BY <1>3 DEF IInvUnaCpu, LaCpu, CpuLibre, ToSet
  <2>2. q = p /\ Activos(p) = 1
    <3>1. colaExec = <<q>>
      BY <2>1 DEF Ocupada
    <3>2. q = p
      BY <1>3, <3>1, ListaDeUno DEF ToSet
    <3> QED BY <1>2, <3>1, <3>2, VecesUno DEF EnLaMano
  <2>3. socketCPU[p] = c /\ Etapa(c, p)
    BY <2>1, <2>2 DEF Ocupada
  <2>4. CASE Esperando(c, p)
    <3>1. unPid[c] = p /\ aCpu[c] = <<Mensaje("PROCESOWAIT", Nadie, 1)>>
      BY <2>4 DEF Esperando, EnCurso
    <3>2. Mensaje("PROCESOWAIT", Nadie, 1) \in ToSet(aCpu[c])
      BY <3>1 DEF ToSet
    <3> QED BY <1>1, <1>3, <2>2, <2>3, <3>1, <3>2, EsperaUna DEF EntreColas, Bloqueandose
  <2>5. CASE Parando(c, p)
    BY <1>1, <1>3, <2>2, <2>3, <2>5, EsperaUna
    DEF Parando, EnCurso, EntreColas, Bloqueandose
  <2>6. CASE Devuelto(c, p)
    <3>1. PICK n : aKernel[c] = <<Mensaje("SEBLOQUEOELPROCESO", p, n)>>
      BY <2>6 DEF Devuelto
    <3>2. Mensaje("SEBLOQUEOELPROCESO", p, n) \in ToSet(aKernel[c])
      BY <3>1 DEF ToSet
    <3>3. /\ Mensaje("SEBLOQUEOELPROCESO", p, n).tipo = "SEBLOQUEOELPROCESO"
          /\ Mensaje("SEBLOQUEOELPROCESO", p, n).pid = p
      BY Campos
    <3>4. Bloqueandose(p)
      BY <2>3, <3>2, <3>3 DEF Bloqueandose
    <3> QED BY <1>1, <1>3, <2>2, <3>4, EsperaUna DEF EntreColas
  <2> QED BY <2>3, <2>4, <2>5, <2>6 DEF Etapa, EnCamino, Recibido, Ejecutando
<1>4. ASSUME p \notin ToSet(colaExec)
      PROVE  Activos(p) = 0 /\ p \notin ToSet(colaExit)
  <2>1. Veces(colaExec, p) = 0 /\ Cuenta(p) = 0
    BY <1>1, <1>2, <1>4, VecesLista, ActivosCuenta DEF TiposUnaCpu
  <2>2. Veces(colaExit, p) = 0
    BY <1>1, <2>1, CuentaTipo DEF Cuenta
  <2> QED BY <1>1, <1>2, <2>1, <2>2, VecesLista DEF TiposUnaCpu
<1> QED BY <1>2, <1>3, <1>4

\* With one CPU a process is in one place, or blocked on one semaphore, or in
\* both while its CPU stops it: UnLugarOBloqueado, for any programs, semaphores
\* and quantum.
THEOREM UnLugarOBloqueadoUnaCpu ==
  ASSUME NEW CONSTANT c, CPUs = {c}
  PROVE  SpecPlan => []UnLugarOBloqueado
<1>1. ASSUME IInvUnaCpu(c)
      PROVE  UnLugarOBloqueado
  <2> SUFFICES ASSUME NEW p \in Procs
               PROVE  \/ p \in porLlegar /\ Activos(p) = 0 /\ EnEspera(p) = {}
                      \/ p \notin porLlegar /\ Activos(p) + Cardinality(EnEspera(p)) = 1
                      \/ p \notin porLlegar /\ EntreColas(p)
    BY DEF UnLugarOBloqueado
  <2>1. TiposUnaCpu(c) /\ Lugar(p) /\ SemsAlDia
    BY <1>1 DEF IInvUnaCpu
  <2>2. CASE pidio[p] = Nadie
    <3>1. EnEspera(p) = {} /\ Cardinality(EnEspera(p)) = 0
      BY <2>1, <2>2, EsperaUna
    <3>2. Activos(p) = IF p \in porLlegar THEN 0 ELSE 1
      BY <2>1, <2>2, ActivosCuenta DEF Lugar
    <3> QED BY <3>1, <3>2
  <2>3. CASE pidio[p] # Nadie
    <3>1. Cardinality(EnEspera(p)) = 1
      BY <2>1, <2>3, EsperaUna
    <3> QED BY <1>1, <2>3, <3>1, DondeSeBloquea
  <2> QED BY <2>2, <2>3
<1> QED BY <1>1, InvarianteUnaCpu, PTL

\* With one CPU no instruction is executed twice, before or after a wait:
\* NoRepiteBloqueado.
THEOREM NoRepiteBloqueadoUnaCpu ==
  ASSUME NEW CONSTANT c, CPUs = {c}
  PROVE  SpecPlan => []NoRepiteBloqueado
<1>1. ASSUME IInvUnaCpu(c)
      PROVE  NoRepiteBloqueado
  <2>1. TiposUnaCpu(c) /\ SemsAlDia /\ PcbAlDia
    BY <1>1 DEF IInvUnaCpu
  <2>2. ASSUME fase[c] = "ciclo", Sigue(c)
        PROVE  unPc[c] >= progreso[unPid[c]]
    <3>1. PICK p \in Procs : Ejecutando(c, p) /\ unPid[c] = p
      BY <1>1, <2>2, SigueEjecutando
    <3>2. unPc[c] \in Nat /\ progreso[p] \in Nat /\ progreso[p] <= unPc[c]
      BY <2>1, <3>1 DEF Ejecutando, TiposUnaCpu
    <3> QED BY <3>1, <3>2
  <2>3. ASSUME NEW p \in ToSet(colaReady)
        PROVE  pcb[p] >= progreso[p]
    <3>1. p \in Procs /\ Veces(colaReady, p) # 0
      BY <2>1, VecesLista, EnLista DEF TiposUnaCpu
    <3>2. Cuenta(p) # 0 /\ Cuenta(p) # Veces(colaExec, p)
      <4> DEFINE d == Veces(colaNew, p)
                 r == Veces(colaReady, p)
                 e == Veces(colaExec, p)
                 x == Veces(colaExit, p)
                 f == EnLaMano(plp, p)
                 g == EnLaMano(pcpProc, p)
      <4>1. /\ d \in Nat /\ r \in Nat /\ e \in Nat /\ x \in Nat /\ f \in Nat /\ g \in Nat
            /\ Cuenta(p) = d + r + e + x + f + g /\ r # 0
        BY <2>1, <3>1, CuentaTipo DEF Cuenta
      <4> HIDE DEF d, r, e, x, f, g
      <4>2. Cuenta(p) # 0 /\ Cuenta(p) # e
        BY <4>1
      <4> QED BY <4>2 DEF e
    <3>3. p \notin porLlegar /\ Lugar(p) /\ pidio[p] = Nadie
      BY <1>1, <3>1, <3>2 DEF IInvUnaCpu, Lugar
    <3>4. Veces(colaExec, p) = 0 /\ Veces(colaExit, p) = 0
      <4>1. Cuenta(p) = 1
        BY <3>3 DEF Lugar
      <4> QED BY <2>1, <3>1, <4>1, CuentaTipo DEF Cuenta
    <3>5. p \notin ToSet(colaExec) /\ p \notin ToSet(colaExit)
      BY <2>1, <3>4, VecesLista DEF TiposUnaCpu
    <3> QED BY <2>1, <3>1, <3>5 DEF PcbAlDia, TiposUnaCpu
  <2>4. ASSUME NEW p \in Procs, EnEspera(p) # {}, ~EntreColas(p)
        PROVE  pcb[p] >= progreso[p]
    <3>1. pidio[p] # Nadie
      BY <2>1, <2>4, EsperaUna
    <3>2. p \notin ToSet(colaExec) /\ p \notin ToSet(colaExit)
      BY <1>1, <2>4, <3>1, DondeSeBloquea
    <3> QED BY <2>1, <3>2 DEF PcbAlDia, TiposUnaCpu
  <2> QED BY <2>2, <2>3, <2>4 DEF NoRepiteBloqueado, NoRepite
<1> QED BY <1>1, InvarianteUnaCpu, PTL

\* With one CPU the handlers use the semaphores as Semaforos says, whatever is
\* in the sockets: so its theorems hold of the composed system.
THEOREM UsaSemaforosUnaCpu ==
  ASSUME NEW CONSTANT c, CPUs = {c}
  PROVE  SpecPlan => UsaSemaforos
<1>1. InitPlan => S!Init
  BY DEF InitPlan
<1>2. ASSUME IInvUnaCpu(c), [NextPlan]_todo
      PROVE  [S!Usa]_<<S!semaforos, pidio>>
  <2>1. CASE UNCHANGED sems
    BY <2>1 DEF sems, S!semaforos
  <2>2. CASE ProcesoWait(c) \/ ProcesoSignal(c)
    <3>1. PICK p \in Procs, s \in Sems :
            pidio[p] = Nadie /\ (S!Wait(p, s) \/ S!Signal(s))
      BY <1>2, <2>2, QuienUsa
    <3>2. p \in S!Corren
      BY <3>1 DEF S!Corren
    <3> QED BY <3>1, <3>2 DEF S!Usa
  <2>3. UNCHANGED sems \/ ProcesoWait(c) \/ ProcesoSignal(c)
    <3>1. NextPlan => UNCHANGED sems \/ ProcesoWait(c) \/ ProcesoSignal(c)
      BY DEF NextPlan, AtiendePlan, ReceptorPlan, HiloPlan, SeBloqueo, RecibeEspera,
             Espera, Senala
    <3> QED BY <1>2, <3>1 DEF todo
  <2> QED BY <2>1, <2>2, <2>3
<1> QED BY <1>1, <1>2, InvarianteUnaCpu, PTL DEF SpecPlan, UsaSemaforos, S!SpecUso
-----------------------------------------------------------------------------
(* The kills and the CPUs that leave, for any number of CPUs.                *)

\* Taking a CPU off colaCpu adds nothing to it.
LEMMA SinCpuMengua ==
  ASSUME NEW cola, EsLista(cola), NEW c
  PROVE  /\ EsLista(SinCpu(cola, c))
         /\ Len(SinCpu(cola, c)) \in Nat /\ Len(SinCpu(cola, c)) <= Len(cola)
<1>1. PICK X : cola \in Seq(X)
  BY DEF EsLista
<1> DEFINE l == Len(cola)
           n == IF Nadie \in ToSet(cola)
                THEN SelectInSeq(cola, LAMBDA x : x = Nadie) - 1 ELSE l
           T == [queda : Seq(X), salta : BOOLEAN]
           Paso(i, x) == IF cola[i] = c /\ ~x.salta
                         THEN [queda |-> x.queda, salta |-> TRUE]
                         ELSE [queda |-> Append(x.queda, cola[i]), salta |-> FALSE]
           Es(f) == f = [i \in 0..n |->
             IF i = 0 THEN [queda |-> <<>>, salta |-> FALSE]
             ELSE IF cola[i] = c /\ ~f[i - 1].salta
                  THEN [queda |-> f[i - 1].queda, salta |-> TRUE]
                  ELSE [queda |-> Append(f[i - 1].queda, cola[i]), salta |-> FALSE]]
           h == CHOOSE f : Es(f)
           g == [y \in (1..n) \X T |-> Paso(y[1], y[2])]
           cero == [queda |-> <<>>, salta |-> FALSE]
           b == SubSeq(cola, n + 1, l)
<1>2. SinCpu(cola, c) = h[n].queda \o b
  BY DEF SinCpu
<1>3. l \in Nat /\ DOMAIN cola = 1..l /\ \A i \in 1..l : cola[i] \in X
  BY <1>1, LenProperties, ElementOfSeq
\* The first NULL, if any, is one of the entries.
<1>4. n \in Nat /\ n <= l
  <2>1. CASE Nadie \in ToSet(cola)
    <3> DEFINE I == {i \in 1..l : cola[i] = Nadie}
               i0 == SelectInSeq(cola, LAMBDA x : x = Nadie)
    <3>1. I # {} /\ I \subseteq Nat /\ I \subseteq 1..l
      BY <2>1, <1>3 DEF ToSet
    <3>2. i0 = Min(I)
      BY <3>1 DEF SelectInSeq
    <3>3. Min(I) \in I
      BY <3>1, MinEs
    <3>4. i0 \in 1..l
      BY <3>1, <3>2, <3>3
    <3>5. n = i0 - 1
      BY <2>1
    <3> HIDE DEF i0, n, l
    <3> QED BY <3>4, <3>5, <1>3
  <2>2. CASE Nadie \notin ToSet(cola)
    BY <2>2, <1>3
  <2> QED BY <2>1, <2>2
<1> HIDE DEF n, l
<1>5. \A i \in 1..n : i \in 1..l
  BY <1>3, <1>4
<1>6. \A i \in 1..n, x \in T : g[<<i, x>>] = Paso(i, x) /\ Paso(i, x) \in T
  <2> TAKE i \in 1..n, x \in T
  <2>1. x.queda \in Seq(X) /\ x.salta \in BOOLEAN
    OBVIOUS
  <2>2. Append(x.queda, cola[i]) \in Seq(X)
    BY <1>3, <1>5, <2>1, AppendProperties
  <2> QED BY <2>1, <2>2
<1>7. cero \in T
  BY EmptySeq
<1> HIDE DEF g, T, Paso, cero
<1>8. PICK f : f \in Recursivas(T, n, cero, g)
  <2>1. EsPaso(T, n, g)
    BY <1>6 DEF EsPaso
  <2> QED BY <1>4, <1>7, <2>1, FuncionRecursiva
<1>9. /\ f \in [0..n -> T] /\ f[0] = cero
      /\ \A i \in 1..n : f[i] = Paso(i, f[i - 1]) /\ i \in 0..n /\ i - 1 \in 0..n
  <2>1. \A i \in 1..n : i \in 0..n /\ i - 1 \in 0..n
    BY <1>4
  <2>2. /\ f \in [0..n -> T] /\ f[0] = cero
        /\ \A i \in 1..n : f[i] = g[<<i, f[i - 1]>>]
    BY <1>8 DEF Recursivas
  <2> QED BY <1>6, <2>1, <2>2
<1>10. Es(f)
  <2>1. \A i \in 0..n : i = 0 \/ i \in 1..n
    BY <1>4
  <2> QED BY <2>1, <1>9 DEF Paso, cero
<1>11. Es(h)
  BY <1>10
<1>12. /\ h[0] = cero
       /\ \A i \in 1..n : h[i] = Paso(i, h[i - 1])
  <2>1. 0 \in 0..n /\ \A i \in 1..n : i \in 0..n /\ i # 0
    BY <1>4
  <2>2. \A i \in 0..n : h[i] =
             IF i = 0 THEN [queda |-> <<>>, salta |-> FALSE]
             ELSE IF cola[i] = c /\ ~h[i - 1].salta
                  THEN [queda |-> h[i - 1].queda, salta |-> TRUE]
                  ELSE [queda |-> Append(h[i - 1].queda, cola[i]), salta |-> FALSE]
    <3> HIDE DEF h
    <3> QED BY <1>11
  <2> HIDE DEF h, Es
  <2> QED BY <2>1, <2>2 DEF cero, Paso
<1> HIDE DEF h
\* By induction on the entries read.
<1> DEFINE P == {i \in Nat : i <= n => h[i].queda \in Seq(X) /\ Len(h[i].queda) <= i}
<1>13. 0 \in P
  <2>1. h[0].queda = <<>>
    BY <1>12 DEF cero
  <2>2. h[0].queda \in Seq(X)
    BY <2>1
  <2>3. Len(h[0].queda) = 0
    BY <2>1, EmptySeq
  <2> QED BY <2>2, <2>3
<1>14. ASSUME NEW i \in Nat, i \in P PROVE i + 1 \in P
  <2> SUFFICES ASSUME i + 1 <= n
               PROVE  h[i + 1].queda \in Seq(X) /\ Len(h[i + 1].queda) <= i + 1
    OBVIOUS
  <2> DEFINE q == h[i].queda
  <2>1. i + 1 \in 1..n /\ (i + 1) - 1 = i /\ i <= n
    BY <1>4
  <2>2. q \in Seq(X) /\ Len(q) <= i
    BY <1>14, <2>1
  <2>3. h[i + 1] = Paso(i + 1, h[i])
    BY <2>1, <1>12
  <2>4. h[i + 1].queda = q \/ h[i + 1].queda = Append(q, cola[i + 1])
    BY <2>3 DEF Paso
  <2> HIDE DEF P, q
  <2>5. Append(q, cola[i + 1]) \in Seq(X) /\ Len(Append(q, cola[i + 1])) = Len(q) + 1
        /\ Len(q) \in Nat
    BY <2>1, <2>2, <1>3, <1>5, AppendProperties, LenProperties
  <2>6. Len(q) <= i + 1 /\ Len(q) + 1 <= i + 1
    BY <2>2, <2>5
  <2>7. CASE h[i + 1].queda = q
    BY <2>2, <2>6, <2>7
  <2>8. CASE h[i + 1].queda = Append(q, cola[i + 1])
    BY <2>5, <2>6, <2>8
  <2> QED BY <2>4, <2>7, <2>8
<1>15. n \in P
  <2> HIDE DEF P
  <2> QED BY <1>4, <1>13, <1>14, InduccionNat
<1> DEFINE a == h[n].queda
<1>16. a \in Seq(X) /\ Len(a) \in Nat /\ Len(a) <= n
  BY <1>15, <1>4, LenProperties
<1>17. b \in Seq(X) /\ Len(b) \in Nat /\ Len(b) <= l - n
  <2>1. \A k \in n + 1..l : cola[k] \in X
    BY <1>3, <1>4
  <2>2. /\ b \in Seq(X) /\ Len(b) = IF n + 1 <= l THEN l - (n + 1) + 1 ELSE 0
    BY <2>1, <1>1, <1>3, <1>4, SubSeqProperties
  <2> HIDE DEF b
  <2> QED BY <2>2, <1>3, <1>4
<1> HIDE DEF a, b
<1>18. a \o b \in Seq(X) /\ Len(a \o b) = Len(a) + Len(b)
  BY <1>16, <1>17, ConcatProperties
<1>19. SinCpu(cola, c) = a \o b
  BY <1>2 DEF a
<1>20. Len(a \o b) \in Nat /\ Len(a \o b) <= l
  BY <1>3, <1>4, <1>16, <1>17, <1>18
<1> QED BY <1>18, <1>19, <1>20 DEF EsLista, l
-----------------------------------------------------------------------------
(* The semaphores of the short-term planner.                                *)

AlguienSeFue == \E c \in CPUs : fase[c] \in Idas

\* What the queues and the semaphores promise, apart from the CPUs.
ColasAlDia ==
  /\ semReady \in Nat /\ semCpu \in Nat
  /\ EsLista(colaReady) /\ EsLista(colaCpu)
  /\ SobraReady >= 0 /\ SobraCpu >= 0
  /\ SobraCpu = 0 \/ AlguienSeFue

\* It is what the invariant says of them.
LEMMA ColasDelInvariante ==
  ASSUME Contables PROVE SemaforosAlDia <=> ColasAlDia
<1>1. Len(colaReady) \in Nat /\ Len(colaCpu) \in Nat
  BY LenProperties DEF Contables, EsLista
<1>2. semReady \in Nat /\ semCpu \in Nat
  BY DEF Contables
<1>3. AlguienSeFue <=> ~(\A c \in CPUs : fase[c] \notin {"muerta", "destruida"})
  BY DEF AlguienSeFue, Idas
<1> QED BY <1>1, <1>2, <1>3 DEF SemaforosAlDia, ColasAlDia, SobraReady, SobraCpu, Contables

\* Steps that leave them alone.
LEMMA ColasQuietas ==
  ASSUME ColasAlDia, UNCHANGED <<semReady, semCpu, colaReady, colaCpu, pcPcp>>,
         AlguienSeFue => AlguienSeFue'
  PROVE  ColasAlDia'
BY DEF ColasAlDia, SobraReady, SobraCpu

\* A push on colaReady and its post.
LEMMA ColasReady ==
  ASSUME ColasAlDia, NEW x, colaReady' = Append(colaReady, x),
         semReady' = semReady + 1, UNCHANGED <<semCpu, colaCpu, pcPcp, fase>>
  PROVE  ColasAlDia'
<1>1. /\ EsLista(colaReady') /\ Len(colaReady) \in Nat
      /\ Len(colaReady') = Len(colaReady) + 1
  BY ListaCrece DEF ColasAlDia
<1>2. SobraReady' >= 0
  BY <1>1 DEF ColasAlDia, SobraReady
<1> QED BY <1>1, <1>2 DEF ColasAlDia, SobraCpu, AlguienSeFue

\* A push on colaCpu and its post, whatever happens to colaReady.
LEMMA ColasCpu ==
  ASSUME ColasAlDia, NEW x, colaCpu' = Append(colaCpu, x),
         semCpu' = semCpu + 1, UNCHANGED <<pcPcp, fase>>,
         semReady' \in Nat, EsLista(colaReady'), SobraReady' >= 0
  PROVE  ColasAlDia'
<1>1. /\ EsLista(colaCpu') /\ Len(colaCpu) \in Nat
      /\ Len(colaCpu') = Len(colaCpu) + 1
  BY ListaCrece DEF ColasAlDia
<1>2. SobraCpu' = SobraCpu
  BY <1>1 DEF ColasAlDia, SobraCpu
<1> QED BY <1>1, <1>2 DEF ColasAlDia, AlguienSeFue

\* The same while colaReady stays.
LEMMA ColasSoloCpu ==
  ASSUME ColasAlDia, NEW x, colaCpu' = Append(colaCpu, x),
         semCpu' = semCpu + 1, UNCHANGED <<pcPcp, fase, semReady, colaReady>>
  PROVE  ColasAlDia'
<1>1. semReady' \in Nat /\ EsLista(colaReady') /\ SobraReady' >= 0
  BY DEF ColasAlDia, SobraReady
<1> QED BY <1>1, ColasCpu

\* abortar().
LEMMA ColasAbortar ==
  ASSUME ColasAlDia, NEW p, NEW cod, Abortar(p, cod),
         UNCHANGED <<pcPcp, fase, semReady, colaReady>>
  PROVE  ColasAlDia'
<1>1. CASE cod = "codeDesconexionCpu"
  BY <1>1, ColasQuietas DEF Abortar, AlguienSeFue
<1>2. CASE cod # "codeDesconexionCpu"
  BY <1>2, ColasSoloCpu DEF Abortar
<1> QED BY <1>1, <1>2

\* A CPU that left is taken off colaCpu.
LEMMA ColasSinCpu ==
  ASSUME ColasAlDia, AlguienSeFue, NEW c, colaCpu' = SinCpu(colaCpu, c),
         UNCHANGED <<semCpu, semReady, colaReady, pcPcp, fase>>
  PROVE  ColasAlDia'
<1>1. /\ EsLista(colaCpu') /\ Len(colaCpu') \in Nat /\ Len(colaCpu') <= Len(colaCpu)
      /\ Len(colaCpu) \in Nat
  BY SinCpuMengua, LenProperties DEF ColasAlDia, EsLista
<1>2. SobraCpu' >= 0
  BY <1>1 DEF ColasAlDia, SobraCpu
<1> QED BY <1>1, <1>2 DEF ColasAlDia, SobraReady, AlguienSeFue

\* The pops of planificadorCortoPlazo.  When there is no CPU to pop, one left.
LEMMA ColasPcpSaca ==
  ASSUME ColasAlDia, PcpSaca PROVE ColasAlDia'
<1>1. UNCHANGED <<semCpu, fase>> /\ pcPcp = "saca"
  BY DEF PcpSaca, cpu
<1>2. AlguienSeFue' <=> AlguienSeFue
  BY <1>1 DEF AlguienSeFue
<1>3. /\ EsLista(colaReady') /\ EsLista(colaCpu')
      /\ Len(colaReady) \in Nat /\ Len(colaCpu) \in Nat
      /\ colaReady = <<>> => colaReady' = colaReady /\ Len(colaReady) = 0
      /\ colaReady # <<>> => Len(colaReady') = Len(colaReady) - 1
      /\ colaCpu = <<>> => colaCpu' = colaCpu /\ Len(colaCpu) = 0
      /\ colaCpu # <<>> => Len(colaCpu') = Len(colaCpu) - 1
  <2>1. colaReady' = Resto(colaReady) /\ colaCpu' = Resto(colaCpu)
    BY DEF PcpSaca
  <2>2. EsLista(colaReady) /\ EsLista(colaCpu)
    BY DEF ColasAlDia
  <2>3. Len(<<>>) = 0
    OBVIOUS
  <2>4. Len(colaReady) \in Nat /\ Len(colaCpu) \in Nat
    BY <2>2, LenProperties DEF EsLista
  <2> QED BY <2>1, <2>2, <2>3, <2>4, ListaMengua DEF Resto
<1>4. semReady \in Nat /\ semCpu \in Nat /\ SobraReady >= 0 /\ SobraCpu >= 0
      /\ (SobraCpu = 0 \/ AlguienSeFue)
  BY DEF ColasAlDia
<1>5. CASE Primero(colaCpu) # Nadie /\ Primero(colaReady) # Nadie
  <2>1. colaCpu # <<>> /\ colaReady # <<>> /\ pcPcp' = "ejecutar" /\ semReady' = semReady
    BY <1>5 DEF PcpSaca, Primero
  <2>2. SobraReady' = SobraReady /\ SobraCpu' = SobraCpu
    BY <1>1, <1>3, <1>4, <2>1 DEF SobraReady, SobraCpu
  <2> QED BY <1>1, <1>2, <1>3, <1>4, <2>1, <2>2 DEF ColasAlDia
<1>6. CASE Primero(colaCpu) = Nadie \/ Primero(colaReady) = Nadie
  <2>1. pcPcp' = "espera_ready" /\ semReady' = semReady + 1
    BY <1>6 DEF PcpSaca
  <2>2. SobraReady' >= 0
    BY <1>1, <1>3, <1>4, <2>1 DEF SobraReady
  <2>3. SobraCpu' >= 0 /\ (SobraCpu' = 0 \/ AlguienSeFue)
    <3>1. CASE colaCpu = <<>>
      BY <1>1, <1>3, <1>4, <2>1, <3>1 DEF SobraCpu
    <3>2. CASE colaCpu # <<>>
      BY <1>1, <1>3, <1>4, <2>1, <3>2 DEF SobraCpu
    <3> QED BY <3>1, <3>2
  <2> QED BY <1>1, <1>2, <1>3, <1>4, <2>1, <2>2, <2>3 DEF ColasAlDia
<1> QED BY <1>5, <1>6 DEF PcpSaca
-----------------------------------------------------------------------------
(* What each step does to what the invariant is about.                      *)

\* Steps of the Kernel that change none of the two queues.
LEMMA AlDiaOtros ==
  ASSUME ColasAlDia, NEW c, NEW p,
         \/ EntraProceso(p) \/ PlpSaca \/ PcpEsperaReady \/ PcpEsperaCpu \/ PcpTomaMutex
         \/ Registra(p) \/ MataEmpieza(p) \/ SaleConsola \/ SigueConConsola \/ MataExec
         \/ CorrompeListas
         \/ Syscall(c) \/ SinProceso(c) \/ Corrompe(c) \/ ProcesoWait(c)
         \/ Cierra(c) \/ SinCortado(c)
  PROVE  ColasAlDia'
<1> USE DEF kernel, colas, cpu, vars, todo, Rompe
<1>1. CASE PcpEsperaReady
  <2>1. UNCHANGED <<semCpu, colaReady, colaCpu, fase>> /\ semReady > 0
        /\ semReady' = semReady - 1 /\ pcPcp = "espera_ready" /\ pcPcp' = "espera_cpu"
    BY <1>1 DEF PcpEsperaReady
  <2>2. semReady \in Nat /\ Len(colaReady) \in Nat
    BY LenProperties DEF ColasAlDia, EsLista
  <2>3. SobraReady' = SobraReady /\ SobraCpu' = SobraCpu /\ semReady' \in Nat
    BY <2>1, <2>2 DEF SobraReady, SobraCpu
  <2> QED BY <2>1, <2>3 DEF ColasAlDia, AlguienSeFue
<1>2. CASE PcpEsperaCpu
  <2>1. UNCHANGED <<semReady, colaReady, colaCpu, fase>> /\ semCpu > 0
        /\ semCpu' = semCpu - 1 /\ pcPcp = "espera_cpu" /\ pcPcp' = "saca"
    BY <1>2 DEF PcpEsperaCpu
  <2>2. semCpu \in Nat /\ Len(colaCpu) \in Nat
    BY LenProperties DEF ColasAlDia, EsLista
  <2>3. SobraReady' = SobraReady /\ SobraCpu' = SobraCpu /\ semCpu' \in Nat
    BY <2>1, <2>2 DEF SobraReady, SobraCpu
  <2> QED BY <2>1, <2>3 DEF ColasAlDia, AlguienSeFue
<1>3. CASE PcpTomaMutex
  <2>1. UNCHANGED <<semReady, semCpu, colaReady, colaCpu, fase>>
        /\ pcPcp = "ejecutar" /\ pcPcp' = "encola"
    BY <1>3 DEF PcpTomaMutex
  <2>2. SobraReady' = SobraReady /\ SobraCpu' = SobraCpu
    BY <2>1 DEF SobraReady, SobraCpu
  <2> QED BY <2>1, <2>2 DEF ColasAlDia, AlguienSeFue
<1>4. CASE ~PcpEsperaReady /\ ~PcpEsperaCpu /\ ~PcpTomaMutex
  <2>1. UNCHANGED <<semReady, semCpu, colaReady, colaCpu, pcPcp, fase>>
    <3>1. CASE EntraProceso(p)
      BY <3>1 DEF EntraProceso, planes
    <3>2. CASE PlpSaca
      BY <3>2 DEF PlpSaca
    <3>3. CASE Registra(p) \/ MataEmpieza(p) \/ SaleConsola \/ SigueConConsola
      BY <3>3 DEF Registra, MataEmpieza, SaleConsola, SigueConConsola, planes
    <3>4. CASE MataExec
      BY <3>4 DEF MataExec, planes
    <3>5. CASE CorrompeListas \/ SinProceso(c) \/ Corrompe(c) \/ SinCortado(c) \/ Cierra(c)
      BY <3>5 DEF CorrompeListas, SinProceso, Corrompe, SinCortado, Cierra, planes
    <3>6. CASE Syscall(c)
      BY <3>6 DEF Syscall, planes
    <3>7. CASE ProcesoWait(c)
      BY <3>7 DEF ProcesoWait, planes
    <3> QED BY <1>4, <3>1, <3>2, <3>3, <3>4, <3>5, <3>6, <3>7
  <2> QED BY <2>1, ColasQuietas DEF AlguienSeFue
<1> QED BY <1>1, <1>2, <1>3, <1>4

\* Steps of the Kernel that push on them.
LEMMA AlDiaPush ==
  ASSUME ColasAlDia, NEW c,
         \/ PlpEncola \/ PcpEncola \/ ConectaCpu(c) \/ ProgramaTerminado(c)
         \/ FinDeQuantum(c) \/ AbortoDeCpu(c) \/ ProcesoSignal(c) \/ SeBloqueo(c)
         \/ AbortoPorConsola(c) \/ AbortoDesconexionCpu(c) \/ MataBloqueado
  PROVE  ColasAlDia'
<1> USE DEF colas, cpu, planes
<1>1. CASE PlpEncola
  BY <1>1, ColasReady DEF PlpEncola
<1>2. CASE PcpEncola
  <2>1. /\ UNCHANGED <<semReady, colaReady, fase>>
        /\ pcPcp = "encola" /\ pcPcp' = "espera_ready"
        /\ \/ UNCHANGED <<colaCpu, semCpu>>
           \/ colaCpu' = Append(colaCpu, socketCPU[pcpProc]) /\ semCpu' = semCpu + 1
    BY <1>2 DEF PcpEncola, Abortar
  <2>2. SobraReady' = SobraReady
    BY <2>1 DEF SobraReady
  <2>3. CASE UNCHANGED <<colaCpu, semCpu>>
    <3>1. SobraCpu' = SobraCpu
      BY <2>1, <2>3 DEF SobraCpu
    <3> QED BY <2>1, <2>2, <2>3, <3>1 DEF ColasAlDia, AlguienSeFue
  <2>4. CASE colaCpu' = Append(colaCpu, socketCPU[pcpProc]) /\ semCpu' = semCpu + 1
    <3>1. EsLista(colaCpu') /\ Len(colaCpu) \in Nat /\ Len(colaCpu') = Len(colaCpu) + 1
      BY <2>4, ListaCrece DEF ColasAlDia
    <3>2. SobraCpu' = SobraCpu
      BY <2>1, <2>4, <3>1 DEF ColasAlDia, SobraCpu
    <3> QED BY <2>1, <2>2, <2>4, <3>1, <3>2 DEF ColasAlDia, AlguienSeFue
  <2> QED BY <2>1, <2>3, <2>4
<1>3. CASE ConectaCpu(c)
  BY <1>3, ColasSoloCpu DEF ConectaCpu
<1>4. CASE ProgramaTerminado(c)
  BY <1>4, ColasSoloCpu DEF ProgramaTerminado
<1>5. CASE FinDeQuantum(c)
  <2>1. PICK p \in Procs : colaReady' = Append(colaReady, p)
    BY <1>5 DEF FinDeQuantum
  <2>2. semReady' = semReady + 1 /\ UNCHANGED <<pcPcp, fase>>
        /\ colaCpu' = Append(colaCpu, c) /\ semCpu' = semCpu + 1
    BY <1>5 DEF FinDeQuantum
  <2>3. /\ EsLista(colaReady') /\ Len(colaReady) \in Nat
        /\ Len(colaReady') = Len(colaReady) + 1
    BY <2>1, ListaCrece DEF ColasAlDia
  <2>4. semReady' \in Nat /\ SobraReady' >= 0
    BY <2>2, <2>3 DEF ColasAlDia, SobraReady
  <2> QED BY <2>2, <2>3, <2>4, ColasCpu
<1>6. CASE AbortoDeCpu(c)
  <2>1. PICK p \in Procs : Abortar(p, "codeStackOverflow")
    BY <1>6 DEF AbortoDeCpu
  <2> QED BY <1>6, <2>1, ColasAbortar DEF AbortoDeCpu
<1>7. CASE ProcesoSignal(c)
  <2> DEFINE d == S!Despertado(Head(aKernel[c]).sem)
  <2>1. /\ UNCHANGED <<semCpu, colaCpu, pcPcp, fase>>
        /\ \/ colaReady' = Append(colaReady, d) /\ semReady' = semReady + 1
           \/ UNCHANGED <<colaReady, semReady>>
    BY <1>7 DEF ProcesoSignal
  <2> HIDE DEF d
  <2> QED BY <2>1, ColasReady, ColasQuietas DEF AlguienSeFue
<1>8. CASE SeBloqueo(c)
  BY <1>8, ColasSoloCpu DEF SeBloqueo
<1>9. CASE AbortoPorConsola(c)
  <2>1. PICK p \in Procs : Abortar(p, "codeFinalizarPrograma")
    BY <1>9 DEF AbortoPorConsola
  <2> QED BY <1>9, <2>1, ColasAbortar DEF AbortoPorConsola
<1>10. CASE AbortoDesconexionCpu(c)
  <2>1. PICK p : Abortar(p, "codeDesconexionCpu")
    BY <1>10 DEF AbortoDesconexionCpu
  <2> QED BY <1>10, <2>1, ColasAbortar DEF AbortoDesconexionCpu
<1>11. CASE MataBloqueado
  BY <1>11, ColasAbortar DEF MataBloqueado
<1> QED BY <1>1, <1>2, <1>3, <1>4, <1>5, <1>6, <1>7, <1>8, <1>9, <1>10, <1>11

\* A kill that finds the process ready.
LEMMA AlDiaMataReady ==
  ASSUME ColasAlDia, MataReady PROVE ColasAlDia'
<1>1. /\ matando \in ToSet(colaReady) /\ colaReady' = RemoveFirst(colaReady, matando)
      /\ colaCpu' = Append(colaCpu, socketCPU[matando]) /\ semCpu' = semCpu + 1
      /\ UNCHANGED <<semReady, pcPcp, fase>>
  BY DEF MataReady, Abortar, planes, cpu
<1>2. /\ EsLista(colaReady') /\ Len(colaReady) \in Nat
      /\ Len(colaReady') = Len(colaReady) - 1
  BY <1>1, ListaSinUno DEF ColasAlDia
<1>3. semReady' \in Nat /\ SobraReady' >= 0
  BY <1>1, <1>2 DEF ColasAlDia, SobraReady
<1> QED BY <1>1, <1>2, <1>3, ColasCpu

\* The CPUs whose end the Kernel reads did leave.
LEMMA AlDiaSinCpu ==
  ASSUME ColasAlDia, SalenLasIdas, Contables, NEW c \in CPUs, DestruyeCpu(c) \/ Corta(c)
  PROVE  ColasAlDia'
<1>1. aKernel[c] # <<>> /\ Head(aKernel[c]).tipo \in DeIdas
  BY DEF DestruyeCpu, Corta, Llega, DeIdas
<1>2. Head(aKernel[c]) \in ToSet(aKernel[c])
  BY <1>1, ListaMengua DEF Contables
<1>3. AlguienSeFue
  BY <1>1, <1>2 DEF SalenLasIdas, AlguienSeFue
<1>4. colaCpu' = SinCpu(colaCpu, c) /\ UNCHANGED <<semCpu, semReady, colaReady, pcPcp, fase>>
  BY DEF DestruyeCpu, Corta, planes, cpu
<1> QED BY <1>3, <1>4, ColasSinCpu
-----------------------------------------------------------------------------
(* The sockets, and the CPUs that leave.                                    *)

\* Steps of the planners, the script thread and the kills take no message.
LEMMA SinMensaje ==
  ASSUME Planes \/ Consolas
  PROVE  UNCHANGED <<cpu, aKernel>>
<1> USE DEF vars, todo, Rompe
<1>1. CASE Planes
  BY <1>1 DEF Planes, PLP, PCP, PlpSaca, PlpEncola, PcpEsperaReady, PcpEsperaCpu,
              PcpSaca, PcpTomaMutex, PcpEncola
<1>2. ASSUME NEW p \in Procs, Registra(p) \/ Entra(p) \/ MataEmpieza(p)
      PROVE  UNCHANGED <<cpu, aKernel>>
  BY <1>2 DEF Registra, Entra, EntraProceso, MataEmpieza
<1>3. CASE SaleConsola \/ Busca \/ CorrompeListas
  BY <1>3 DEF SaleConsola, Busca, SigueConConsola, MataReady, MataExec, MataBloqueado,
              CorrompeListas
<1> QED BY <1>1, <1>2, <1>3 DEF Consolas

\* A handler takes the first message of its CPU, or breaks.
LEMMA ConMensaje ==
  ASSUME NEW c \in CPUs, AtiendeInt(c)
  PROVE  /\ UNCHANGED cpu
         /\ UNCHANGED aKernel \/ (aKernel[c] # <<>> /\ aKernel' = Sacar(aKernel, c))
<1> USE DEF vars, todo, Rompe, Llega
<1>1. CASE AtiendePlan(c)
  <2>1. CASE ConectaCpu(c)
    BY <2>1 DEF ConectaCpu
  <2>2. CASE Syscall(c) \/ ProgramaTerminado(c)
    BY <2>2 DEF Syscall, ProgramaTerminado, SacaProceso
  <2>3. CASE FinDeQuantum(c) \/ AbortoDeCpu(c)
    BY <2>3 DEF FinDeQuantum, AbortoDeCpu, SacaProceso
  <2>4. CASE SinProceso(c) \/ Corrompe(c)
    BY <2>4 DEF SinProceso, Corrompe
  <2>5. CASE ProcesoWait(c)
    BY <2>5 DEF ProcesoWait, Rota, SacaProceso
  <2>6. CASE ProcesoSignal(c)
    BY <2>6 DEF ProcesoSignal, Rota, SacaProceso
  <2>7. CASE SeBloqueo(c)
    BY <2>7 DEF SeBloqueo, SacaProceso
  <2> QED BY <1>1, <2>1, <2>2, <2>3, <2>4, <2>5, <2>6, <2>7 DEF AtiendePlan, Atiende
<1>2. CASE AbortoPorConsola(c)
  BY <1>2 DEF AbortoPorConsola, SacaProceso
<1>3. CASE AbortoDesconexionCpu(c)
  BY <1>3 DEF AbortoDesconexionCpu
<1>4. CASE DestruyeCpu(c) \/ Cierra(c) \/ Corta(c)
  BY <1>4 DEF DestruyeCpu, Cierra, Corta
<1>5. CASE SinCortado(c)
  BY <1>5 DEF SinCortado
<1> QED BY <1>1, <1>2, <1>3, <1>4, <1>5 DEF AtiendeInt

\* What a CPU's thread may do to its fase and its socket.
LEMMA PasoDeCpu ==
  ASSUME Contables, NEW c \in CPUs,
         ReceptorInt(c) \/ HiloInt(c) \/ RecibeSenal(c) \/ PierdeTurno(c) \/ RecibeControlC(c)
  PROVE  /\ UNCHANGED kernel
         /\ codigoAborto' \in [CPUs -> {"ABORTO", "ABORTOPORCONSOLA"}]
         /\ \/ fase' = fase
            \/ fase[c] \notin Idas /\ \E x : fase' = [fase EXCEPT ![c] = x]
         /\ \/ aKernel' = aKernel
            \/ \E m : m.tipo \notin DeIdas /\ aKernel' = Mandar(aKernel, c, m)
            \/ \E m, x : /\ aKernel' = [aKernel EXCEPT ![c] = @ \o <<m, x>>]
                         /\ fase'[c] \in Idas
<1> USE DEF vars, todo, cpu, banderas, carga
<1>0. /\ codigoAborto \in [CPUs -> {"ABORTO", "ABORTOPORCONSOLA"}]
      /\ codigoAborto[c] \in {"ABORTO", "ABORTOPORCONSOLA"}
      /\ DOMAIN fase = CPUs
  BY DEF Contables
<1> DEFINE Codigos == codigoAborto' \in [CPUs -> {"ABORTO", "ABORTOPORCONSOLA"}]
           Fase == \/ fase' = fase
                   \/ fase[c] \notin Idas /\ \E x : fase' = [fase EXCEPT ![c] = x]
           Socket == \/ aKernel' = aKernel
                     \/ \E m : m.tipo \notin DeIdas /\ aKernel' = Mandar(aKernel, c, m)
                     \/ \E m, x : /\ aKernel' = [aKernel EXCEPT ![c] = @ \o <<m, x>>]
                                  /\ fase'[c] \in Idas
\* Its receiving thread.
<1>1. CASE ReceptorInt(c)
  <2>1. fase[c] \notin Idas
    BY <1>1 DEF ReceptorInt, Viva, Idas
  <2>2. CASE RecibePcb(c)
    BY <2>2, <1>0 DEF RecibePcb
  <2>3. CASE RecibeRespuesta(c)
    BY <2>1, <2>3, <1>0 DEF RecibeRespuesta, Avanza
  <2>4. CASE RecibeEspera(c)
    BY <2>1, <2>4, <1>0 DEF RecibeEspera, Avanza
  <2>5. CASE RecibeAborto(c)
    BY <2>5, <1>0 DEF RecibeAborto, Aborta
  <2> QED BY <1>1, <2>2, <2>3, <2>4, <2>5 DEF ReceptorInt, ReceptorPlan, Receptor
\* Its script thread.
<1>2. CASE HiloInt(c)
  <2>1. CASE Arranca(c)
    BY <2>1, <1>0 DEF Arranca, Idas
  <2>2. CASE Local(c)
    BY <2>2, <1>0 DEF Local, Toca, Avanza, Idas
  <2>4. /\ "AVISA" \notin DeIdas /\ "PIDE" \notin DeIdas /\ "PROGRAMATERMINADO" \notin DeIdas
        /\ "FINDEQUATUM" \notin DeIdas /\ "SEBLOQUEOELPROCESO" \notin DeIdas
        /\ "PROCESOWAIT" \notin DeIdas /\ "PROCESOSIGNAL" \notin DeIdas
        /\ codigoAborto[c] \notin DeIdas
    BY <1>0 DEF DeIdas
  <2>5. CASE Avisa(c)
    <3>1. Socket
      BY <2>4, <2>5 DEF Avisa, Aviso, Mensaje
    <3> QED BY <2>5, <3>1, <1>0 DEF Avisa, Toca, Avanza, Idas
  <2>6. CASE Pide(c)
    <3>1. Socket
      BY <2>4, <2>6 DEF Pide, Aviso, Mensaje
    <3> QED BY <2>6, <3>1, <1>0 DEF Pide, Toca, Idas
  <2>7. CASE Falla(c)
    BY <2>7, <1>0 DEF Falla, Toca, Avanza, Idas
  <2>8. CASE Finalizar(c)
    <3>1. Socket
      BY <2>4, <2>8 DEF Finalizar, Aviso, Mensaje
    <3> QED BY <2>8, <3>1, <1>0 DEF Finalizar, Toca, Idas
  <2>9. CASE TrasFin(c)
    BY <2>9, <1>0 DEF TrasFin, Avanza, Idas
  <2>10. CASE FueraDeIndice(c) \/ UsaPcbLiberado(c)
    BY <2>10, <1>0 DEF FueraDeIndice, UsaPcbLiberado, Idas
  <2>11. CASE Termina(c)
    <3>1. Socket
      BY <2>4, <2>11 DEF Termina, Devuelve, Mensaje
    <3> QED BY <2>11, <3>1, <1>0 DEF Termina, Idas
  <2>12. CASE Espera(c)
    <3>1. Socket
      BY <2>4, <2>12 DEF Espera, ConSem
    <3> QED BY <2>12, <3>1, <1>0 DEF Espera, Toca, Idas
  <2>13. CASE Senala(c)
    <3>1. Socket
      BY <2>4, <2>13 DEF Senala, ConSem
    <3> QED BY <2>13, <3>1, <1>0 DEF Senala, Toca, Avanza, Idas
  <2>14. CASE SalePorSenal(c)
    <3>1. Socket
      BY <2>14, <1>0 DEF SalePorSenal, Sale, Idas
    <3> QED BY <2>14, <3>1, <1>0 DEF SalePorSenal, Sale, Idas
  <2> QED BY <1>2, <2>1, <2>2, <2>5, <2>6, <2>7, <2>8, <2>9, <2>10, <2>11, <2>12, <2>13,
             <2>14 DEF HiloInt, HiloPlan, HiloScript
<1>3. CASE RecibeSenal(c) \/ PierdeTurno(c)
  BY <1>3, <1>0 DEF RecibeSenal, PierdeTurno, Aborta, Idas
<1>4. CASE RecibeControlC(c)
  <2>1. Socket
    BY <1>4, <1>0 DEF RecibeControlC, Sale, Idas
  <2> QED BY <1>4, <2>1, <1>0 DEF RecibeControlC, Sale, Viva, Idas
<1> QED BY <1>1, <1>2, <1>3, <1>4

\* A handler leaves nothing new to read.
LEMMA IdasAlAtender ==
  ASSUME InvSemaforos, UNCHANGED cpu,
         \/ UNCHANGED aKernel
         \/ \E c \in CPUs : aKernel[c] # <<>> /\ aKernel' = Sacar(aKernel, c)
  PROVE  /\ UNCHANGED <<fase, codigoAborto>> /\ SalenLasIdas'
         /\ DOMAIN aKernel' = CPUs /\ \A c \in CPUs : EsLista(aKernel'[c])
<1>1. UNCHANGED <<fase, codigoAborto>>
  BY DEF cpu, banderas
<1>2. DOMAIN aKernel = CPUs /\ \A c \in CPUs : EsLista(aKernel[c])
  BY DEF InvSemaforos, Contables
<1>3. CASE UNCHANGED aKernel
  BY <1>1, <1>2, <1>3 DEF InvSemaforos, SalenLasIdas
<1>4. ASSUME NEW c \in CPUs, aKernel[c] # <<>>, aKernel' = Sacar(aKernel, c)
      PROVE  SalenLasIdas' /\ DOMAIN aKernel' = CPUs /\ \A d \in CPUs : EsLista(aKernel'[d])
  <2>1. DOMAIN aKernel' = CPUs /\ aKernel'[c] = Tail(aKernel[c])
        /\ \A d \in CPUs : d # c => aKernel'[d] = aKernel[d]
    BY <1>2, <1>4 DEF Sacar
  <2>2. EsLista(Tail(aKernel[c])) /\ ToSet(Tail(aKernel[c])) \subseteq ToSet(aKernel[c])
    BY <1>2, <1>4, ListaMengua
  <2>3. \A d \in CPUs : EsLista(aKernel'[d]) /\ ToSet(aKernel'[d]) \subseteq ToSet(aKernel[d])
    BY <1>2, <2>1, <2>2
  <2> QED BY <1>1, <2>1, <2>3 DEF InvSemaforos, SalenLasIdas
<1> QED BY <1>1, <1>2, <1>3, <1>4

\* What a CPU sends before it leaves, it sends when it leaves.
LEMMA IdasDeCpu ==
  ASSUME InvSemaforos, NEW c \in CPUs,
         ReceptorInt(c) \/ HiloInt(c) \/ RecibeSenal(c) \/ PierdeTurno(c) \/ RecibeControlC(c)
  PROVE  /\ DOMAIN fase' = CPUs /\ SalenLasIdas'
         /\ codigoAborto' \in [CPUs -> {"ABORTO", "ABORTOPORCONSOLA"}]
         /\ DOMAIN aKernel' = CPUs /\ \A d \in CPUs : EsLista(aKernel'[d])
         /\ \A d \in CPUs : fase[d] \in Idas => fase'[d] \in Idas
         /\ UNCHANGED kernel
<1>1. /\ DOMAIN aKernel = CPUs /\ DOMAIN fase = CPUs
      /\ \A d \in CPUs : EsLista(aKernel[d])
      /\ \A d \in CPUs : \A m \in ToSet(aKernel[d]) : m.tipo \in DeIdas => fase[d] \in Idas
  BY DEF InvSemaforos, Contables, SalenLasIdas
<1>2. /\ UNCHANGED kernel
      /\ codigoAborto' \in [CPUs -> {"ABORTO", "ABORTOPORCONSOLA"}]
      /\ \/ fase' = fase
         \/ fase[c] \notin Idas /\ \E x : fase' = [fase EXCEPT ![c] = x]
      /\ \/ aKernel' = aKernel
         \/ \E m : m.tipo \notin DeIdas /\ aKernel' = Mandar(aKernel, c, m)
         \/ \E m, x : /\ aKernel' = [aKernel EXCEPT ![c] = @ \o <<m, x>>]
                      /\ fase'[c] \in Idas
  BY PasoDeCpu DEF InvSemaforos
<1>3. DOMAIN fase' = CPUs /\ (\A d \in CPUs : d # c => fase'[d] = fase[d])
      /\ (fase[c] \in Idas => fase'[c] = fase[c])
  BY <1>1, <1>2
<1>4. \A d \in CPUs : fase[d] \in Idas => fase'[d] \in Idas
  BY <1>3
<1>5. DOMAIN aKernel' = CPUs /\ \A d \in CPUs : d # c => aKernel'[d] = aKernel[d]
  BY <1>1, <1>2 DEF Mandar
<1>6. EsLista(aKernel'[c])
      /\ \A m \in ToSet(aKernel'[c]) : m.tipo \in DeIdas => fase'[c] \in Idas
  <2>1. CASE aKernel' = aKernel
    BY <1>1, <1>4, <2>1
  <2>2. ASSUME NEW n, n.tipo \notin DeIdas, aKernel' = Mandar(aKernel, c, n)
        PROVE  EsLista(aKernel'[c])
               /\ \A m \in ToSet(aKernel'[c]) : m.tipo \in DeIdas => fase'[c] \in Idas
    <3>1. aKernel'[c] = Append(aKernel[c], n)
      BY <1>1, <2>2 DEF Mandar
    <3>2. EsLista(aKernel'[c]) /\ ToSet(aKernel'[c]) = ToSet(aKernel[c]) \cup {n}
      BY <1>1, <3>1, ListaCrece
    <3> QED BY <1>1, <1>4, <2>2, <3>2
  <2>3. ASSUME NEW n, NEW x, aKernel' = [aKernel EXCEPT ![c] = @ \o <<n, x>>],
               fase'[c] \in Idas
        PROVE  EsLista(aKernel'[c])
    <3>1. aKernel'[c] = aKernel[c] \o <<n, x>>
      BY <1>1, <2>3
    <3> QED BY <1>1, <3>1, ListaCreceDos
  <2> QED BY <1>2, <2>1, <2>2, <2>3
<1> QED BY <1>1, <1>2, <1>3, <1>4, <1>5, <1>6 DEF SalenLasIdas

\* What the Kernel does keeps its semaphores up to date.
LEMMA AlDiaKernel ==
  ASSUME InvSemaforos, ColasAlDia, Planes \/ Consolas \/ \E c \in CPUs : AtiendeInt(c)
  PROVE  ColasAlDia'
<1>1. CASE Planes
  BY <1>1, AlDiaOtros, AlDiaPush, ColasPcpSaca DEF Planes, PLP, PCP
<1>2. CASE Consolas
  BY <1>2, AlDiaOtros, AlDiaPush, AlDiaMataReady DEF Consolas, Busca, Entra
<1>3. ASSUME NEW c \in CPUs, AtiendeInt(c) PROVE ColasAlDia'
  <2>1. CASE AtiendePlan(c)
    BY <2>1, AlDiaOtros, AlDiaPush DEF AtiendePlan, Atiende
  <2>2. CASE DestruyeCpu(c) \/ Corta(c)
    BY <2>2, AlDiaSinCpu DEF InvSemaforos
  <2> QED BY <1>3, <2>1, <2>2, AlDiaOtros, AlDiaPush DEF AtiendeInt
<1> QED BY <1>1, <1>2, <1>3

LEMMA InvSemaforosInit == InitInt => InvSemaforos
<1> SUFFICES ASSUME InitInt PROVE InvSemaforos
  OBVIOUS
<1>1. /\ semReady = 0 /\ semCpu = 0 /\ colaReady = <<>> /\ colaCpu = <<>>
      /\ pcPcp = "espera_ready" /\ aKernel = [c \in CPUs |-> <<Aviso("CPU")>>]
      /\ fase = [c \in CPUs |-> "espera"] /\ codigoAborto = [c \in CPUs |-> "ABORTO"]
  BY DEF InitInt, InitPlan, Init
<1>2. EsLista(<<>>) /\ Len(<<>>) = 0
  <2>1. <<>> \in Seq({}) /\ Len(<<>>) = 0
    BY EmptySeq
  <2> QED BY <2>1 DEF EsLista
<1>3. EsLista(<<Aviso("CPU")>>) /\ ToSet(<<Aviso("CPU")>>) = {Aviso("CPU")}
  <2>1. Aviso("CPU") \in {Aviso("CPU")}
    OBVIOUS
  <2> QED BY <2>1, ListaDeUno DEF EsLista
<1>4. Contables
  BY <1>1, <1>2, <1>3 DEF Contables
<1>5. Aviso("CPU").tipo \notin DeIdas
  BY DEF Aviso, Mensaje, DeIdas
<1>6. SalenLasIdas
  BY <1>1, <1>3, <1>5 DEF SalenLasIdas
<1>7. SemaforosAlDia
  BY <1>1, <1>2 DEF SemaforosAlDia
<1> QED BY <1>4, <1>6, <1>7 DEF InvSemaforos

LEMMA InvSemaforosPaso == InvSemaforos /\ [NextInt]_todas => InvSemaforos'
<1> SUFFICES ASSUME InvSemaforos, [NextInt]_todas PROVE InvSemaforos'
  OBVIOUS
<1>1. ColasAlDia
  BY ColasDelInvariante DEF InvSemaforos
<1>2. SUFFICES /\ ColasAlDia' /\ SalenLasIdas'
               /\ DOMAIN aKernel' = CPUs /\ \A c \in CPUs : EsLista(aKernel'[c])
               /\ DOMAIN fase' = CPUs
               /\ codigoAborto' \in [CPUs -> {"ABORTO", "ABORTOPORCONSOLA"}]
  <2>1. Contables'
    BY DEF Contables, ColasAlDia
  <2>2. SemaforosAlDia'
    <3>1. Contables' => (SemaforosAlDia' <=> ColasAlDia')
      BY ColasDelInvariante, PTL
    <3> QED BY <2>1, <3>1
  <2> QED BY <2>1, <2>2 DEF InvSemaforos
<1>3. DOMAIN fase = CPUs /\ codigoAborto \in [CPUs -> {"ABORTO", "ABORTOPORCONSOLA"}]
  BY DEF InvSemaforos, Contables
<1>4. CASE Planes \/ Consolas
  <2>1. ColasAlDia'
    BY <1>1, <1>4, AlDiaKernel
  <2> QED BY <1>3, <1>4, <2>1, SinMensaje, IdasAlAtender
<1>5. ASSUME NEW c \in CPUs, AtiendeInt(c)
      PROVE  /\ ColasAlDia' /\ SalenLasIdas' /\ UNCHANGED <<fase, codigoAborto>>
             /\ DOMAIN aKernel' = CPUs /\ \A d \in CPUs : EsLista(aKernel'[d])
  <2>1. ColasAlDia'
    BY <1>1, <1>5, AlDiaKernel
  <2> QED BY <1>5, <2>1, ConMensaje, IdasAlAtender
<1>6. ASSUME NEW c \in CPUs,
             ReceptorInt(c) \/ HiloInt(c) \/ RecibeSenal(c) \/ PierdeTurno(c) \/ RecibeControlC(c)
      PROVE  /\ ColasAlDia' /\ SalenLasIdas'
             /\ DOMAIN aKernel' = CPUs /\ \A d \in CPUs : EsLista(aKernel'[d])
             /\ DOMAIN fase' = CPUs
             /\ codigoAborto' \in [CPUs -> {"ABORTO", "ABORTOPORCONSOLA"}]
  <2>1. UNCHANGED kernel /\ \A d \in CPUs : fase[d] \in Idas => fase'[d] \in Idas
    BY <1>6, IdasDeCpu
  <2>2. UNCHANGED <<semReady, semCpu, colaReady, colaCpu, pcPcp>>
    BY <2>1 DEF kernel, colas, planes
  <2>3. AlguienSeFue => AlguienSeFue'
    BY <2>1 DEF AlguienSeFue
  <2>4. ColasAlDia'
    BY <1>1, <2>2, <2>3, ColasQuietas
  <2> QED BY <1>6, <2>4, IdasDeCpu
<1>7. CASE UNCHANGED todas
  <2>1. UNCHANGED <<cpu, aKernel, semReady, semCpu, colaReady, colaCpu, pcPcp>>
    BY <1>7 DEF todas, todo, vars, kernel, colas, planes
  <2>2. UNCHANGED fase
    BY <2>1 DEF cpu
  <2>3. ColasAlDia'
    BY <1>1, <2>1, <2>2, ColasQuietas DEF AlguienSeFue
  <2> QED BY <1>3, <2>1, <2>3, IdasAlAtender
<1> QED BY <1>3, <1>4, <1>5, <1>6, <1>7 DEF NextInt

\* Whatever the consoles kill, whichever CPUs leave and whenever, the semaphores
\* of planificadorCortoPlazo are never behind its queues.
THEOREM SemaforosSiempreAlDia == SpecInt => []SemaforosAlDia
<1>1. InvSemaforos => SemaforosAlDia
  BY DEF InvSemaforos
<1> QED BY <1>1, InvSemaforosInit, InvSemaforosPaso, PTL DEF SpecInt
-----------------------------------------------------------------------------
(* The programs of the console that leaves.                                 *)

\* Nobody leaves colaExit and no mark of abortado is taken back.
Crecen ==
  /\ EsLista(colaExit') /\ ToSet(colaExit) \subseteq ToSet(colaExit')
  /\ DOMAIN abortado' = Procs /\ \A p \in Procs : abortado[p] => abortado'[p]

LEMMA CrecenQuietas ==
  ASSUME InvConsola, UNCHANGED <<colaExit, abortado>> PROVE Crecen
BY DEF InvConsola, Crecen

LEMMA CreceExit ==
  ASSUME InvConsola, NEW x, colaExit' = Append(colaExit, x), UNCHANGED abortado
  PROVE  Crecen /\ x \in ToSet(colaExit')
<1>1. EsLista(colaExit') /\ ToSet(colaExit') = ToSet(colaExit) \cup {x}
  BY ListaCrece DEF InvConsola
<1> QED BY <1>1 DEF InvConsola, Crecen

LEMMA CreceAbortado ==
  ASSUME InvConsola, NEW x, abortado' = [abortado EXCEPT ![x] = TRUE],
         UNCHANGED colaExit \/ \E y : colaExit' = Append(colaExit, y)
  PROVE  Crecen /\ (x \in Procs => abortado'[x])
<1>1. DOMAIN abortado = Procs /\ EsLista(colaExit)
  BY DEF InvConsola
<1>2. DOMAIN abortado' = Procs
  BY <1>1
<1>3. \A p \in Procs : abortado'[p] = IF p = x THEN TRUE ELSE abortado[p]
  BY <1>1
<1>4. (\A p \in Procs : abortado[p] => abortado'[p]) /\ (x \in Procs => abortado'[x])
  BY <1>3
<1>5. EsLista(colaExit') /\ ToSet(colaExit) \subseteq ToSet(colaExit')
  <2>1. ASSUME NEW y, colaExit' = Append(colaExit, y)
        PROVE  EsLista(colaExit') /\ ToSet(colaExit) \subseteq ToSet(colaExit')
    <3>1. EsLista(Append(colaExit, y))
          /\ ToSet(Append(colaExit, y)) = ToSet(colaExit) \cup {y}
      BY <1>1, ListaCrece
    <3> QED BY <2>1, <3>1
  <2>2. CASE UNCHANGED colaExit
    BY <1>1, <2>2
  <2> QED BY <2>1, <2>2
<1> QED BY <1>2, <1>4, <1>5 DEF Crecen

\* Steps that have nothing to do with the consoles.
LEMMA CrecenAjenos ==
  ASSUME InvConsola, Planes \/ \E c \in CPUs : AtiendeInt(c)
  PROVE  Crecen /\ UNCHANGED <<matar, cons>>
<1> USE DEF vars, todo, kernel, colas, procesos, Rompe, Ajeno
<1>1. CASE Planes
  <2>1. UNCHANGED <<matar, cons>>
    BY <1>1 DEF Planes
  <2>2. CASE PlpSaca \/ PlpEncola
    BY <2>1, <2>2, CrecenQuietas DEF PlpSaca, PlpEncola
  <2>3. CASE PcpEsperaReady \/ PcpEsperaCpu \/ PcpTomaMutex
    BY <2>1, <2>3, CrecenQuietas DEF PcpEsperaReady, PcpEsperaCpu, PcpTomaMutex
  <2>4. CASE PcpSaca
    BY <2>1, <2>4, CrecenQuietas DEF PcpSaca
  <2>5. CASE PcpEncola
    BY <2>1, <2>5, CrecenQuietas, CreceExit DEF PcpEncola, Abortar
  <2> QED BY <1>1, <2>2, <2>3, <2>4, <2>5 DEF Planes, PLP, PCP
<1>2. ASSUME NEW c \in CPUs, AtiendeInt(c) PROVE Crecen /\ UNCHANGED <<matar, cons>>
  <2>1. CASE AtiendePlan(c) /\ Ajeno
    <3>1. UNCHANGED <<matar, cons>>
      BY <2>1
    <3>2. CASE ConectaCpu(c) \/ Syscall(c) \/ SinProceso(c) \/ Corrompe(c)
      BY <3>1, <3>2, CrecenQuietas DEF ConectaCpu, Syscall, SinProceso, Corrompe
    <3>3. CASE ProgramaTerminado(c)
      <4>1. PICK p \in Procs : colaExit' = Append(colaExit, p)
        BY <3>3 DEF ProgramaTerminado
      <4> QED BY <3>1, <3>3, <4>1, CreceExit DEF ProgramaTerminado
    <3>4. CASE FinDeQuantum(c)
      BY <3>1, <3>4, CrecenQuietas DEF FinDeQuantum
    <3>5. CASE AbortoDeCpu(c)
      <4>1. PICK p \in Procs : colaExit' = Append(colaExit, p)
        BY <3>5 DEF AbortoDeCpu, Abortar
      <4> QED BY <3>1, <3>5, <4>1, CreceExit DEF AbortoDeCpu
    <3>6. CASE ProcesoWait(c) \/ ProcesoSignal(c) \/ SeBloqueo(c)
      BY <3>1, <3>6, CrecenQuietas DEF ProcesoWait, ProcesoSignal, SeBloqueo
    <3> QED BY <2>1, <3>2, <3>3, <3>4, <3>5, <3>6 DEF AtiendePlan, Atiende
  <2>2. CASE AbortoPorConsola(c)
    <3>1. PICK p \in Procs : /\ colaExit' = Append(colaExit, p)
                             /\ abortado' = [abortado EXCEPT ![p] = TRUE]
      BY <2>2 DEF AbortoPorConsola, Abortar
    <3> QED BY <2>2, <3>1, CreceAbortado DEF AbortoPorConsola
  <2>3. CASE AbortoDesconexionCpu(c)
    <3>1. PICK p : colaExit' = Append(colaExit, p)
      BY <2>3 DEF AbortoDesconexionCpu, Abortar
    <3> QED BY <2>3, <3>1, CreceExit DEF AbortoDesconexionCpu
  <2>4. CASE DestruyeCpu(c) \/ Cierra(c) \/ SinCortado(c)
    BY <2>4, CrecenQuietas DEF DestruyeCpu, Cierra, SinCortado
  <2>5. CASE Corta(c)
    <3>1. \/ UNCHANGED <<colaExit, abortado>>
          \/ \E p : /\ colaExit' = Append(colaExit, p)
                    /\ abortado' = [abortado EXCEPT ![p] = TRUE]
      BY <2>5 DEF Corta
    <3> QED BY <2>5, <3>1, CreceAbortado, CrecenQuietas DEF Corta
  <2> QED BY <1>2, <2>1, <2>2, <2>3, <2>4, <2>5 DEF AtiendeInt
<1> QED BY <1>1, <1>2

\* What is where stays there.
LEMMA ConsolaQuieta ==
  ASSUME InvConsola, Crecen, UNCHANGED <<matar, cons>> PROVE InvConsola'
<1>1. UNCHANGED <<matando, consola, colaProcesosConsola, registrados>>
  BY DEF matar, cons
<1>2. DeLaConsola \subseteq Procs
  BY MatablesSupuesto
<1> QED BY <1>1, <1>2 DEF InvConsola, Crecen

\* procesarScript accepts another program of the console.
LEMMA ConsolaRegistra ==
  ASSUME InvConsola, NEW p \in Procs, Registra(p) PROVE InvConsola'
<1>1. /\ EsLista(colaProcesosConsola')
      /\ ToSet(colaProcesosConsola') = ToSet(colaProcesosConsola) \cup {p}
  BY ListaCrece DEF InvConsola, Registra
<1>2. UNCHANGED <<colaExit, abortado, matando, consola>>
      /\ registrados' = registrados \cup {p}
  BY DEF Registra, todo, vars, kernel, colas, procesos, matar
<1> QED BY <1>1, <1>2 DEF InvConsola

\* abortarTodosLosProgramasDeConsola takes the next one.
LEMMA ConsolaSigue ==
  ASSUME InvConsola, SigueConConsola PROVE InvConsola'
<1>1. UNCHANGED <<colaExit, abortado, registrados>>
      /\ consola = "saliendo" /\ matando = Nadie
  BY DEF SigueConConsola, todo, vars, kernel, colas, procesos
<1>2. Nadie \notin DeLaConsola
  BY MatablesSupuesto, NadieSupuesto
<1>3. CASE colaProcesosConsola # <<>> /\ UNCHANGED consola
  <2> DEFINE h == Head(colaProcesosConsola)
  <2>1. /\ colaProcesosConsola' = Tail(colaProcesosConsola)
        /\ h \in ToSet(colaExit) \/ matando' = h
    BY <1>3 DEF SigueConConsola
  <2>2. /\ EsLista(colaProcesosConsola')
        /\ \A x \in ToSet(colaProcesosConsola) : x = h \/ x \in ToSet(colaProcesosConsola')
    BY <1>3, <2>1, ListaMengua DEF InvConsola
  <2> HIDE DEF h
  <2> QED BY <1>1, <1>2, <1>3, <2>1, <2>2 DEF InvConsola
<1>4. CASE UNCHANGED <<colaProcesosConsola, matando>>
  BY <1>1, <1>2, <1>4 DEF InvConsola
<1> QED BY <1>3, <1>4 DEF SigueConConsola

\* abortarProgramaPorConsola finds the process.
LEMMA ConsolaMata ==
  ASSUME InvConsola, MataReady \/ MataExec \/ MataBloqueado PROVE InvConsola'
<1>1. UNCHANGED <<consola, colaProcesosConsola, registrados>>
  BY DEF MataReady, MataExec, MataBloqueado, cons
<1>2. Crecen /\ (matando \in Procs => matando \in ToSet(colaExit') \/ abortado'[matando])
  <2>1. CASE MataReady \/ MataBloqueado
    <3>1. colaExit' = Append(colaExit, matando) /\ UNCHANGED abortado
      BY <2>1 DEF MataReady, MataBloqueado, Abortar, procesos
    <3> QED BY <3>1, CreceExit
  <2>2. CASE MataExec
    <3>1. abortado' = [abortado EXCEPT ![matando] = TRUE] /\ UNCHANGED colaExit
      BY <2>2 DEF MataExec, colas
    <3> QED BY <3>1, CreceAbortado
  <2> QED BY <2>1, <2>2
<1>3. DeLaConsola \subseteq Procs
  BY MatablesSupuesto
<1> QED BY <1>1, <1>2, <1>3 DEF InvConsola, Crecen

LEMMA InvConsolaInit == InitInt => InvConsola
<1>1. <<>> \in Seq({})
  BY EmptySeq
<1>2. EsLista(<<>>)
  BY <1>1 DEF EsLista
<1>3. ASSUME InitInt PROVE InvConsola
  <2>1. /\ colaExit = <<>> /\ colaProcesosConsola = <<>> /\ registrados = {}
        /\ abortado = [p \in Procs |-> FALSE]
    BY <1>3 DEF InitInt, InitPlan, Init
  <2>2. DOMAIN abortado = Procs
    BY <2>1
  <2> QED BY <1>2, <2>1, <2>2 DEF InvConsola
<1> QED BY <1>3

LEMMA InvConsolaPaso ==
  ASSUME InvSemaforos, InvConsola, [NextInt]_todas PROVE InvConsola'
<1>1. CASE Planes \/ \E c \in CPUs : AtiendeInt(c)
  BY <1>1, CrecenAjenos, ConsolaQuieta
<1>2. ASSUME NEW p \in Procs, Registra(p) \/ Entra(p) \/ MataEmpieza(p) PROVE InvConsola'
  <2>1. CASE Registra(p)
    BY <2>1, ConsolaRegistra
  <2>2. CASE Entra(p)
    BY <2>2, CrecenQuietas, ConsolaQuieta DEF Entra, EntraProceso, procesos
  <2>3. CASE MataEmpieza(p)
    <3>1. UNCHANGED <<colaExit, abortado, consola, colaProcesosConsola, registrados>>
          /\ consola # "saliendo"
      BY <2>3 DEF MataEmpieza, Libre, todo, vars, kernel, colas, procesos, cons
    <3> QED BY <3>1 DEF InvConsola
  <2> QED BY <1>2, <2>1, <2>2, <2>3
<1>3. CASE SaleConsola
  <2>1. UNCHANGED <<colaExit, abortado, colaProcesosConsola, registrados>>
        /\ consola = "conectada"
    BY <1>3 DEF SaleConsola, todo, vars, kernel, colas, procesos
  <2> QED BY <2>1 DEF InvConsola
<1>4. CASE Busca
  BY <1>4, ConsolaSigue, ConsolaMata DEF Busca
<1>5. CASE CorrompeListas
  BY <1>5, CrecenQuietas, ConsolaQuieta DEF CorrompeListas, Rompe, kernel, colas, procesos
<1>6. ASSUME NEW c \in CPUs,
             ReceptorInt(c) \/ HiloInt(c) \/ RecibeSenal(c) \/ PierdeTurno(c) \/ RecibeControlC(c)
      PROVE  InvConsola'
  <2>1. UNCHANGED <<colaExit, abortado>>
    BY <1>6, IdasDeCpu DEF kernel, colas, procesos
  <2>2. UNCHANGED <<matar, cons>>
    BY <1>6 DEF ReceptorInt, HiloInt, RecibeSenal, PierdeTurno, RecibeControlC, RecibeAborto,
                UsaPcbLiberado, SalePorSenal, Ajeno
  <2> QED BY <2>1, <2>2, CrecenQuietas, ConsolaQuieta
<1>7. CASE UNCHANGED todas
  BY <1>7, CrecenQuietas, ConsolaQuieta
     DEF todas, todo, vars, kernel, colas, procesos
<1> QED BY <1>1, <1>2, <1>3, <1>4, <1>5, <1>6, <1>7 DEF NextInt, Consolas

\* A console that left, whatever the rest did meanwhile, has no program that
\* abortarTodosLosProgramasDeConsola passed by.
THEOREM ConsolaSeVaSola == SpecInt => []ConsolaSinProgramas
<1>1. InvConsola => ConsolaSinProgramas
  BY DEF InvConsola, ConsolaSinProgramas
<1>2. InvSemaforos /\ InvConsola /\ [NextInt]_todas => (InvSemaforos /\ InvConsola)'
  BY InvSemaforosPaso, InvConsolaPaso
<1> QED BY <1>1, <1>2, InvSemaforosInit, InvConsolaInit, PTL DEF SpecInt
-----------------------------------------------------------------------------
(* The loop of the main thread.                                             *)

\* The loop of the main thread only chooses which of Planificacion's steps it
\* takes: what is proved of those in any order holds with it.
THEOREM BuclePlanEsUnOrden == SpecPlanBucle => SpecPlan
<1>1. [NextPlanBucle]_bucleplan => [NextPlan]_todo
  <2> SUFFICES ASSUME NextPlanBucle PROVE [NextPlan]_todo
    BY DEF bucleplan
  <2>1. CASE LeeOtros /\ UNCHANGED todo
    BY <2>1
  <2> QED BY <2>1 DEF NextPlanBucle, NextPlan
<1> QED BY <1>1, PTL DEF SpecPlanBucle, InitPlanBucle, SpecPlan

\* And so with the steps of Interrupciones.
THEOREM BucleIntEsUnOrden == SpecIntBucle => SpecInt
<1>1. [NextIntBucle]_bucleint => [NextInt]_todas
  <2> SUFFICES ASSUME NextIntBucle PROVE [NextInt]_todas
    BY DEF bucleint
  <2>1. CASE LeeOtros /\ UNCHANGED todas
    BY <2>1
  <2>2. ASSUME NEW c \in CPUs,
               AtiendeInt(c) \/ ReceptorInt(c) \/ HiloInt(c) \/ RecibeSenal(c)
                 \/ PierdeTurno(c) \/ RecibeControlC(c)
        PROVE  NextInt
    BY <2>2 DEF NextIntBucle, NextInt
  <2>3. CASE Planes \/ Consolas
    BY <2>3 DEF NextIntBucle, NextInt
  <2> QED BY <2>1, <2>2, <2>3 DEF NextIntBucle, Consolas, DeOtros
<1> QED BY <1>1, PTL DEF SpecIntBucle, InitIntBucle, SpecInt
=============================================================================
