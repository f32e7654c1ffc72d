--------------------------- MODULE AdmisionProofs ---------------------------
(* The programs counted are those admitted that did not end, a console shows   *)
(* the pid of its own program, and the main thread waits only because of the   *)
(* index, for any consoles, CPUs, GRADO_MULTIPROG and pages.                   *)
EXTENDS AdmisionInv
-----------------------------------------------------------------------------
(* The messages in a list.                                                  *)

\* Messages of a kind in two lists, one after the other.
LEMMA HayUna ==
  ASSUME NEW q, EsLista(q), NEW r, EsLista(r), NEW t
  PROVE  /\ EsLista(q \o r) /\ ToSet(q \o r) = ToSet(q) \cup ToSet(r)
         /\ Hay(q \o r, t) <=> Hay(q, t) \/ Hay(r, t)
         /\ Una(q \o r, t) <=> Una(q, t) /\ Una(r, t) /\ ~(Hay(q, t) /\ Hay(r, t))
<1>1. PICK Q : q \in Seq(Q)
  BY DEF EsLista
<1>2. PICK R : r \in Seq(R)
  BY DEF EsLista
<1> DEFINE U == Q \cup R
           m == Len(q)
           n == Len(r)
           v == q \o r
<1>3. q \in Seq(U) /\ r \in Seq(U)
  BY <1>1, <1>2
<1> HIDE DEF U
<1>4. v \in Seq(U) /\ ToSet(v) = ToSet(q) \cup ToSet(r)
  BY <1>3, ListasJuntas
<1>5. /\ m \in Nat /\ n \in Nat /\ DOMAIN q = 1..m /\ DOMAIN r = 1..n /\ DOMAIN v = 1..m + n
      /\ \A k \in 1..m + n : v[k] = IF k <= m THEN q[k] ELSE r[k - m]
  <2>1. /\ m \in Nat /\ n \in Nat /\ DOMAIN q = 1..m /\ DOMAIN r = 1..n /\ Len(v) = m + n
        /\ DOMAIN v = 1..Len(v)
    BY <1>3, LenProperties, ConcatProperties
  <2>2. \A k \in 1..m + n : v[k] = IF k <= m THEN q[k] ELSE r[k - m]
    BY <1>3, ConcatProperties
  <2> QED BY <2>1, <2>2
<1> HIDE DEF m, n, v
<1>6. /\ \A k \in 1..m : k \in 1..m + n /\ v[k] = q[k]
      /\ \A k \in 1..n : m + k \in 1..m + n /\ v[m + k] = r[k]
  <2>1. ASSUME NEW k \in 1..m PROVE k \in 1..m + n /\ k <= m
    BY <1>5
  <2>2. ASSUME NEW k \in 1..n PROVE m + k \in 1..m + n /\ ~(m + k <= m) /\ (m + k) - m = k
    BY <1>5
  <2> QED BY <1>5, <2>1, <2>2
<1>7. \A k \in 1..m + n : k \in 1..m \/ \E j \in 1..n : k = m + j
  <2>1. ASSUME NEW k \in 1..m + n, k \notin 1..m PROVE k - m \in 1..n /\ k = m + (k - m)
    BY <2>1, <1>5
  <2> QED BY <2>1
<1>8. Hay(v, t) <=> Hay(q, t) \/ Hay(r, t)
  BY <1>4 DEF Hay
<1>9. ASSUME Una(v, t) PROVE Una(q, t) /\ Una(r, t) /\ ~(Hay(q, t) /\ Hay(r, t))
  <2>1. \A j, k \in 1..m + n : v[j].tipo = t /\ v[k].tipo = t => j = k
    BY <1>5, <1>9 DEF Una
  <2>2. Una(q, t)
    BY <2>1, <1>5, <1>6 DEF Una
  <2>3. ASSUME NEW j \in 1..n, NEW k \in 1..n, r[j].tipo = t, r[k].tipo = t PROVE j = k
    <3>1. m + j = m + k
      BY <2>1, <2>3, <1>6
    <3> QED BY <3>1, <1>5
  <2>4. ASSUME NEW j \in 1..m, NEW k \in 1..n, q[j].tipo = t, r[k].tipo = t PROVE FALSE
    <3>1. j = m + k
      BY <2>1, <2>4, <1>6
    <3> QED BY <3>1, <1>5
  <2> QED BY <2>2, <2>3, <2>4, <1>5 DEF Una, Hay, ToSet
<1>10. ASSUME Una(q, t), Una(r, t), ~(Hay(q, t) /\ Hay(r, t)) PROVE Una(v, t)
  <2>1. \A j, k \in 1..m : q[j].tipo = t /\ q[k].tipo = t => j = k
    BY <1>10, <1>5 DEF Una
  <2>2. \A j, k \in 1..n : r[j].tipo = t /\ r[k].tipo = t => j = k
    BY <1>10, <1>5 DEF Una
  <2>3. \A j \in 1..m, k \in 1..n : ~(q[j].tipo = t /\ r[k].tipo = t)
    BY <1>10, <1>5 DEF Hay, ToSet
  <2> SUFFICES ASSUME NEW j \in 1..m + n, NEW k \in 1..m + n, v[j].tipo = t, v[k].tipo = t
               PROVE  j = k
    BY <1>5 DEF Una
  <2> QED BY <2>1, <2>2, <2>3, <1>6, <1>7
<1> QED BY <1>4, <1>8, <1>9, <1>10 DEF EsLista, v

\* A list of one message, and the empty one.
LEMMA UnMensaje ==
  ASSUME NEW m, NEW t
  PROVE  /\ EsLista(<<m>>) /\ ToSet(<<m>>) = {m} /\ <<m>> # <<>>
         /\ Hay(<<m>>, t) <=> m.tipo = t
         /\ Una(<<m>>, t)
<1>1. <<m>> \in Seq({m})
  OBVIOUS
<1>2. ToSet(<<m>>) = {m}
  BY DEF ToSet
<1>3. DOMAIN <<m>> = {1}
  OBVIOUS
<1> QED BY <1>1, <1>2, <1>3 DEF EsLista, Hay, Una

LEMMA Vacia ==
  ASSUME NEW t
  PROVE  EsLista(<<>>) /\ ToSet(<<>>) = {} /\ ~Hay(<<>>, t) /\ Una(<<>>, t)
<1>1. <<>> \in Seq({}) /\ DOMAIN <<>> = {}
  OBVIOUS
<1>2. ToSet(<<>>) = {}
  BY <1>1 DEF ToSet
<1> QED BY <1>1, <1>2 DEF EsLista, Hay, Una

\* The head of a list, in front of the rest, is the list.
LEMMA CabezaYCola ==
  ASSUME NEW q, EsLista(q), q # <<>>
  PROVE  <<Head(q)>> \o Tail(q) = q /\ EsLista(Tail(q)) /\ Head(q) \in ToSet(q)
<1>1. PICK T : q \in Seq(T)
  BY DEF EsLista
<1> DEFINE h == Head(q)
           r == Tail(q)
           v == <<h>> \o r
<1>2. h \in T /\ r \in Seq(T) /\ <<h>> \in Seq(T) /\ Len(<<h>>) = 1 /\ <<h>>[1] = h /\ h = q[1]
  BY <1>1, HeadTailProperties, ListaSaca
<1>3. /\ Len(q) \in Nat /\ Len(q) >= 1 /\ Len(r) = Len(q) - 1
      /\ \A k \in 1..Len(q) - 1 : r[k] = q[k + 1]
  BY <1>1, ListaSaca, LenProperties
<1> DEFINE n == Len(q)
<1>4. /\ v \in Seq(T) /\ Len(v) = 1 + Len(r)
      /\ \A k \in 1..1 + Len(r) : v[k] = IF k <= 1 THEN <<h>>[k] ELSE r[k - 1]
  BY <1>2, ConcatProperties
<1>5. Len(v) = n /\ n \in Nat /\ DOMAIN v = 1..n /\ DOMAIN q = 1..n
  BY <1>1, <1>3, <1>4, LenProperties
<1> HIDE DEF n, v
<1>6. ASSUME NEW k \in 1..n PROVE v[k] = q[k]
  <2>0. /\ \A j \in 1..n : v[j] = IF j <= 1 THEN <<h>>[j] ELSE r[j - 1]
        /\ \A j \in 1..n - 1 : r[j] = q[j + 1]
    BY <1>3, <1>4, <1>5 DEF n
  <2> HIDE DEF r, h
  <2>1. CASE k = 1
    <3>1. v[1] = <<h>>[1]
      BY <2>0, <2>1
    <3> QED BY <3>1, <2>1, <1>2
  <2>2. CASE k # 1
    <3>1. ~(k <= 1) /\ k - 1 \in 1..n - 1 /\ (k - 1) + 1 = k
      BY <2>2, <1>5
    <3> QED BY <3>1, <2>0
  <2> QED BY <2>1, <2>2
<1>7. v = q
  <2>1. q = [k \in 1..n |-> q[k]]
    BY <1>1, <1>5
  <2>2. v = [k \in 1..n |-> v[k]]
    BY <1>4, <1>5
  <2> QED BY <2>1, <2>2, <1>6
<1>8. h \in ToSet(q)
  BY <1>1, ListaSaca
<1> QED BY <1>2, <1>7, <1>8 DEF EsLista, v

\* What is in q is in p, and what p has once q has not twice.
Clases == {"CPU", "PROGRAMATERMINADO", "ARCHIVO"}
Parte(q, p) ==
  /\ p = <<>> => q = <<>>
  /\ ToSet(q) \subseteq ToSet(p)
  /\ \A t \in Clases : (Una(p, t) => Una(q, t)) /\ (Hay(q, t) => Hay(p, t))

LEMMA ParteDeSi ==
  ASSUME NEW q
  PROVE  Parte(q, q)
BY DEF Parte

LEMMA ParteDeTodo ==
  ASSUME NEW m, NEW q, EsLista(q)
  PROVE  Parte(q, <<m>> \o q) /\ <<m>> \o q # <<>> /\ m \in ToSet(<<m>> \o q)
<1> DEFINE r == <<m>>
           v == r \o q
<1>1. EsLista(r) /\ ToSet(r) = {m}
  BY UnMensaje
<1> HIDE DEF r
<1>2. /\ ToSet(v) = ToSet(r) \cup ToSet(q)
      /\ \A t \in Clases : /\ Hay(v, t) <=> Hay(r, t) \/ Hay(q, t)
                           /\ Una(v, t) <=> Una(r, t) /\ Una(q, t) /\ ~(Hay(r, t) /\ Hay(q, t))
  BY <1>1, HayUna
<1> HIDE DEF v
<1>3. m \in ToSet(v)
  BY <1>1, <1>2
<1>4. ToSet(<<>>) = {}
  BY Vacia
<1>5. v # <<>>
  BY <1>3, <1>4
<1>6. Parte(q, v)
  BY <1>2, <1>5 DEF Parte
<1> QED BY <1>3, <1>5, <1>6 DEF v, r
-----------------------------------------------------------------------------
(* The messages of each socket.                                             *)

LEMMA SocketsNat == Sockets \subseteq Nat /\ 0 \notin Sockets /\ MEM \in Sockets
BY AdmisionAssumption DEF Sockets

\* Aceptados is finite.
LEMMA AceptadosFinito ==
  /\ IsFiniteSet(Clientes) /\ Cardinality(Clientes) \in Nat
  /\ IsFiniteSet(Aceptados) /\ Cardinality(Aceptados) \in Nat
  /\ Cardinality(Aceptados) <= Cardinality(Clientes)
<1>1. IsFiniteSet(Clientes)
  BY AdmisionAssumption, FS_Union DEF Clientes
<1>2. Aceptados \in SUBSET Clientes
  BY DEF Aceptados
<1> QED BY <1>1, <1>2, FS_Subset, FS_CardinalityType

LEMMA PendientesEsLista ==
  ASSUME Conjuntos
  PROVE  \A s \in Sockets : EsLista(Pendientes(s))
<1> TAKE s \in Sockets
<1>1. EsLista(alKernel[s]) /\ EsLista(<<paquete.mensaje>>)
  BY UnMensaje DEF Conjuntos
<1> QED BY <1>1, HayUna DEF Pendientes

\* Nothing is read, nor finished with, nor comes.
LEMMA PendientesIgual ==
  ASSUME alKernel' = alKernel, Ocupado' = Ocupado, Ocupado => paquete' = paquete
  PROVE  \A s \in Sockets : Pendientes(s)' = Pendientes(s)
BY DEF Pendientes, Sirve, Ocupado

\* The main thread reads the next message of s.
LEMMA PendientesLeido ==
  ASSUME Conjuntos, NEW s \in Sockets, ~Ocupado, Deserializa(s)
  PROVE  /\ \A t \in Sockets : Pendientes(t)' = Pendientes(t)
         /\ DOMAIN alKernel' = Sockets /\ \A t \in Sockets : EsLista(alKernel'[t])
         /\ Ocupado' /\ paquete'.socket = s /\ etapa' = "procesa"
         /\ Pendientes(s) # <<>>
<1> DEFINE q == alKernel[s]
<1>1. q # <<>> /\ EsLista(q)
  BY DEF Deserializa, Conjuntos
<1>2. <<Head(q)>> \o Tail(q) = q /\ EsLista(Tail(q))
  BY <1>1, CabezaYCola
<1>3. /\ paquete'.socket = s /\ paquete'.mensaje = Head(q) /\ etapa' = "procesa"
      /\ alKernel' = [alKernel EXCEPT ![s] = Tail(q)]
  BY DEF Deserializa
<1>4. DOMAIN alKernel = Sockets /\ \A t \in Sockets : EsLista(alKernel[t])
  BY DEF Conjuntos
<1>5. alKernel'[s] = Tail(q) /\ \A t \in Sockets : t # s => alKernel'[t] = alKernel[t]
  BY <1>3, <1>4
<1>6. ASSUME NEW t \in Sockets PROVE Pendientes(t)' = Pendientes(t)
  <2>1. Pendientes(t) = alKernel[t]
    BY DEF Pendientes, Sirve, Ocupado
  <2>2. CASE t = s
    BY <2>1, <2>2, <1>2, <1>3, <1>5 DEF Pendientes, Sirve, Ocupado
  <2>3. CASE t # s
    BY <2>1, <2>3, <1>3, <1>5 DEF Pendientes, Sirve, Ocupado
  <2> QED BY <2>2, <2>3
<1>7. Pendientes(s) = q
  BY DEF Pendientes, Sirve, Ocupado
<1> QED BY <1>1, <1>2, <1>3, <1>4, <1>5, <1>6, <1>7 DEF Ocupado

\* It finishes with a message.
LEMMA PendientesAtendido ==
  ASSUME Conjuntos, Ocupado, paquete.socket \in Sockets, etapa' = "recorre",
         alKernel' = alKernel
  PROVE  /\ ~Ocupado'
         /\ \A t \in Sockets : /\ Parte(Pendientes(t)', Pendientes(t))
                               /\ EsLista(Pendientes(t)')
                               /\ t # paquete.socket => Pendientes(t)' = Pendientes(t)
                               /\ t = paquete.socket =>
                                    /\ Pendientes(t) = <<paquete.mensaje>> \o Pendientes(t)'
                                    /\ Pendientes(t) # <<>>
                                    /\ paquete.mensaje \in ToSet(Pendientes(t))
<1> DEFINE s == paquete.socket
           m == paquete.mensaje
<1>1. ~Ocupado'
  BY DEF Ocupado
<1>2. ASSUME NEW t \in Sockets PROVE Pendientes(t)' = alKernel[t] /\ EsLista(alKernel[t])
  BY DEF Pendientes, Sirve, Ocupado, Conjuntos
<1>3. Pendientes(s) = <<m>> \o alKernel[s]
  BY DEF Pendientes, Sirve, Ocupado
<1>4. ASSUME NEW t \in Sockets, t # s PROVE Pendientes(t) = alKernel[t]
  BY <1>4 DEF Pendientes, Sirve, Ocupado
<1>5. /\ Parte(alKernel[s], <<m>> \o alKernel[s])
      /\ <<m>> \o alKernel[s] # <<>> /\ m \in ToSet(<<m>> \o alKernel[s])
  BY <1>2, ParteDeTodo
<1> HIDE DEF s, m
<1>6. ASSUME NEW t \in Sockets PROVE Parte(alKernel[t], Pendientes(t))
  <2>1. CASE t = s
    BY <2>1, <1>3, <1>5
  <2>2. CASE t # s
    BY <2>2, <1>4, ParteDeSi
  <2> QED BY <2>1, <2>2
<1> QED BY <1>1, <1>2, <1>3, <1>4, <1>5, <1>6 DEF s, m

\* A list of messages comes by d.
LEMMA PendientesEnviado ==
  ASSUME Conjuntos, NEW d \in Sockets, NEW r, EsLista(r),
         alKernel' = [alKernel EXCEPT ![d] = @ \o r], etapa' = etapa, paquete' = paquete
  PROVE  /\ DOMAIN alKernel' = Sockets /\ \A s \in Sockets : EsLista(alKernel'[s])
         /\ \A s \in Sockets : s # d => Pendientes(s)' = Pendientes(s)
         /\ Pendientes(d)' = Pendientes(d) \o r
<1>1. DOMAIN alKernel = Sockets /\ \A s \in Sockets : EsLista(alKernel[s])
  BY DEF Conjuntos
<1>2. alKernel'[d] = alKernel[d] \o r /\ \A s \in Sockets : s # d => alKernel'[s] = alKernel[s]
  BY <1>1
<1>3. EsLista(alKernel[d] \o r)
  BY <1>1, HayUna
<1>4. \A s \in Sockets : s # d => Pendientes(s)' = Pendientes(s)
  BY <1>2 DEF Pendientes, Sirve, Ocupado
<1>5. Pendientes(d)' = Pendientes(d) \o r
  <2> DEFINE m == paquete.mensaje
             q == alKernel[d]
             c == <<m>>
  <2>1. (c \o q) \o r = c \o (q \o r)
    <3>1. PICK Q, R : q \in Seq(Q) /\ r \in Seq(R)
      BY <1>1 DEF EsLista
    <3> DEFINE U == Q \cup R \cup {m}
    <3>2. q \in Seq(U) /\ r \in Seq(U) /\ c \in Seq(U)
      BY <3>1
    <3> HIDE DEF U, q, c
    <3> QED BY <3>2, ConcatAssociative
  <2>2. CASE Sirve(d)
    <3>1. Pendientes(d) = c \o q /\ Pendientes(d)' = c \o (q \o r)
      BY <2>2, <1>2 DEF Pendientes, Sirve, Ocupado
    <3> QED BY <3>1, <2>1
  <2>3. CASE ~Sirve(d)
    BY <2>3, <1>2 DEF Pendientes, Sirve, Ocupado
  <2> QED BY <2>2, <2>3
<1> QED BY <1>1, <1>2, <1>3, <1>4, <1>5
-----------------------------------------------------------------------------
(* The parts of the invariant that a step leaves as they are.               *)

LEMMA SocketsSiguen ==
  ASSUME SocketsDeCadaUno, descriptor' = descriptor, llegadas' = llegadas,
         Ocupado' => paquete'.socket \in Sockets,
         \A s \in Sockets :
           /\ s > Fdmax /\ Pendientes(s) = <<>> => Pendientes(s)' = <<>>
           /\ s \in ToSet(colaCpu') => s \in ToSet(colaCpu) \/ Pendientes(s) # <<>>,
         \A c \in ejecutando' : descriptor[c] # 0
  PROVE  SocketsDeCadaUno'
<1>1. Fdmax' = Fdmax
  BY DEF Fdmax, Aceptados
<1>2. \A s \in Sockets : s > Fdmax => Pendientes(s)' = <<>> /\ s \notin ToSet(colaCpu')
  BY DEF SocketsDeCadaUno
<1>3. /\ \A c, d \in Clientes : c # d /\ descriptor[c] = descriptor[d] => descriptor[c] = 0
      /\ \A c \in Clientes : descriptor[c] = 0 \/ descriptor[c] \in SERVIDOR + 1 .. Fdmax
      /\ IsInjective(llegadas) /\ \A c \in ToSet(llegadas) : descriptor[c] = 0
  BY DEF SocketsDeCadaUno
<1> QED BY <1>1, <1>2, <1>3 DEF SocketsDeCadaUno

LEMMA CpusSiguen ==
  ASSUME CpuEnUnaParte, colaCpu' = colaCpu, colaExec' = colaExec, ejecutando' = ejecutando,
         descriptor' = descriptor,
         \A s \in Sockets : Parte(Pendientes(s)', Pendientes(s))
  PROVE  CpuEnUnaParte'
<1>1. \A s \in Sockets : Ejecuta(s)' = Ejecuta(s)
  BY DEF Ejecuta
<1>2. \A s \in Sockets : \A t \in {"CPU", "PROGRAMATERMINADO"} :
        /\ Una(Pendientes(s), t) => Una(Pendientes(s)', t)
        /\ Hay(Pendientes(s)', t) => Hay(Pendientes(s), t)
  BY DEF Parte, Clases
<1> QED BY <1>1, <1>2 DEF CpuEnUnaParte

LEMMA ProgramasSiguen ==
  ASSUME ProgramaEnUnaParte, Vivos' = Vivos, Len(programas') = Len(programas),
         colaNew' = colaNew, colaExec' = colaExec, EnAlta' => EnAlta
  PROVE  ProgramaEnUnaParte'
BY DEF ProgramaEnUnaParte, ProcessID

\* The messages read and what is pending are the same.
LEMMA LeidasSiguen ==
  ASSUME Leidas, SocketsDeCadaUno, cantidadDeProcesos' \in Int,
         hilo'.etapa = "cuenta" => hilo'.leida \in Int /\ hilo'.leida < GRADO_MULTIPROG,
         etapa' = "termina" => etapa = "termina" /\ paquete' = paquete,
         \A s \in Sockets : Hay(Pendientes(s), "PROGRAMATERMINADO")
                              => Hay(Pendientes(s)', "PROGRAMATERMINADO")
  PROVE  Leidas'
<1>1. ASSUME etapa' = "termina"
      PROVE  /\ paquete'.leida \in Int /\ paquete'.mensaje.tipo = "PROGRAMATERMINADO"
             /\ Hay(Pendientes(paquete.socket)', "PROGRAMATERMINADO")
  <2>1. etapa = "termina" /\ paquete' = paquete /\ paquete.socket \in Sockets
    BY <1>1 DEF SocketsDeCadaUno, Ocupado
  <2>2. paquete.leida \in Int /\ paquete.mensaje.tipo = "PROGRAMATERMINADO"
        /\ Hay(Pendientes(paquete.socket), "PROGRAMATERMINADO")
    BY <2>1 DEF Leidas
  <2> DEFINE s == paquete.socket
  <2>3. \A t \in Sockets : t = s => Hay(Pendientes(t)', "PROGRAMATERMINADO")
    BY <2>1, <2>2
  <2> QED BY <2>1, <2>2, <2>3
<1> QED BY <1>1 DEF Leidas

\* A step of another thread that leaves the sockets, the CPUs and the queues alone.
LEMMA RedSigue ==
  ASSUME Estructura, UNCHANGED <<leibles, etapa, paquete, red, colaCpu, colaExec, ejecutando>>
  PROVE  /\ SocketsDeCadaUno' /\ CpuEnUnaParte'
         /\ cantidadDeProcesos' \in Int
            /\ (hilo'.etapa = "cuenta" => hilo'.leida \in Int /\ hilo'.leida < GRADO_MULTIPROG)
            => Leidas'
<1>1. \A s \in Sockets : Pendientes(s)' = Pendientes(s)
  BY PendientesIgual DEF red, Ocupado
<1>2. \A s \in Sockets : Parte(Pendientes(s)', Pendientes(s))
  BY <1>1, ParteDeSi
<1>3. SocketsDeCadaUno'
  <2>1. Ocupado' => paquete'.socket \in Sockets
    BY DEF Ocupado, Estructura, SocketsDeCadaUno
  <2>2. \A c \in ejecutando' : descriptor[c] # 0
    BY DEF Estructura, SocketsDeCadaUno
  <2>3. SocketsDeCadaUno /\ descriptor' = descriptor /\ llegadas' = llegadas /\ colaCpu' = colaCpu
    BY DEF Estructura, red
  <2> QED BY <1>1, <2>1, <2>2, <2>3, SocketsSiguen
<1>4. CpuEnUnaParte'
  BY <1>2, CpusSiguen DEF Estructura, red
<1>5. ASSUME cantidadDeProcesos' \in Int,
             hilo'.etapa = "cuenta" => hilo'.leida \in Int /\ hilo'.leida < GRADO_MULTIPROG
      PROVE  Leidas'
  <2>1. Leidas /\ SocketsDeCadaUno /\ (etapa' = "termina" => etapa = "termina" /\ paquete' = paquete)
    BY DEF Estructura
  <2> QED BY <1>1, <1>5, <2>1, LeidasSiguen
<1> QED BY <1>3, <1>4, <1>5
-----------------------------------------------------------------------------
(* The script thread and the consoles.                                      *)

\* A program that is there but does not change in what the invariant looks at.
LEMMA VivosSiguen ==
  ASSUME DOMAIN programas' = DOMAIN programas,
         \A p \in DOMAIN programas : programas'[p].vivo = programas[p].vivo
  PROVE  Vivos' = Vivos
BY DEF Vivos

\* The step of the script thread that leaves the programs alone and does not begin one.
LEMMA HiloEstructura ==
  ASSUME Estructura, UNCHANGED <<leibles, etapa, paquete, red, colas, ejecutando, programas,
                                 cantidadDeProcesos>>,
         hilo'.etapa = "cuenta" => hilo'.leida \in Int /\ hilo'.leida < GRADO_MULTIPROG,
         EnAlta' => EnAlta
  PROVE  Estructura'
<1>1. SocketsDeCadaUno' /\ CpuEnUnaParte'
  BY RedSigue DEF colas
<1>2. Leidas'
  <2>1. cantidadDeProcesos' \in Int
    BY DEF Estructura, Leidas
  <2> QED BY <2>1, RedSigue DEF colas
<1>3. ProgramaEnUnaParte'
  <2>1. Vivos' = Vivos
    BY DEF Vivos
  <2> QED BY <2>1, ProgramasSiguen DEF Estructura, colas
<1>4. Conjuntos'
  BY DEF Estructura, Conjuntos, colas, red
<1> QED BY <1>1, <1>2, <1>3, <1>4 DEF Estructura

LEMMA SinPrograma ==
  ASSUME Estructura, \/ TomaScript \/ Admite \/ Rechaza \/ CreaPCB \/ Acepto
                     \/ \E c \in Consolas : Informa(c)
  PROVE  Estructura'
<1>0. UNCHANGED <<leibles, etapa, paquete, red, colas, ejecutando, programas, cantidadDeProcesos>>
  BY DEF TomaScript, Admite, Rechaza, CreaPCB, Acepto, Informa, kernel, clientes
<1>1. hilo'.etapa = "cuenta" => hilo'.leida \in Int /\ hilo'.leida < GRADO_MULTIPROG
  <2>1. cantidadDeProcesos \in Int
    BY DEF Estructura, Leidas
  <2>2. CASE Admite
    <3>1. hilo'.leida = cantidadDeProcesos /\ cantidadDeProcesos < GRADO_MULTIPROG
      BY <2>2 DEF Admite, HayGrado
    <3> QED BY <2>1, <3>1
  <2>3. CASE \E c \in Consolas : Informa(c)
    BY <2>3 DEF Informa, admision, Estructura, Leidas
  <2>4. CASE TomaScript \/ Rechaza \/ CreaPCB \/ Acepto
    BY <2>4 DEF TomaScript, Rechaza, CreaPCB, Acepto
  <2> QED BY <2>2, <2>3, <2>4
<1>2. EnAlta' => EnAlta
  <2>1. CASE TomaScript \/ Admite \/ Rechaza
    <3>1. hilo'.etapa \in {"decide", "cuenta", "espera"}
      BY <2>1 DEF TomaScript, Admite, Rechaza
    <3> QED BY <3>1 DEF EnAlta
  <2>2. CASE CreaPCB \/ Acepto
    BY <2>2 DEF CreaPCB, Acepto, EnAlta, Hilo
  <2>3. CASE \E c \in Consolas : Informa(c)
    BY <2>3 DEF Informa, admision, EnAlta
  <2> QED BY <2>1, <2>2, <2>3
<1> QED BY <1>0, <1>1, <1>2, HiloEstructura

LEMMA CopiaEstructura ==
  ASSUME Estructura, CopiaSentencia
  PROVE  Estructura'
<1> DEFINE p == ProcessID
<1>1. UNCHANGED <<leibles, etapa, paquete, red, colas, ejecutando, hilo, cantidadDeProcesos>>
  BY DEF CopiaSentencia, admision, clientes
<1>2. /\ EsLista(programas) /\ \A x \in DOMAIN programas : EsPrograma(programas[x])
      /\ programas' = [programas EXCEPT ![p].indice = @ \cup {i}]
  BY DEF CopiaSentencia, Estructura, Conjuntos
<1>3. EsLista(programas') /\ DOMAIN programas' = DOMAIN programas /\ Len(programas') = Len(programas)
  <2>1. PICK T : programas \in Seq(T)
    BY <1>2 DEF EsLista
  <2> DEFINE x == [programas[p] EXCEPT !.indice = @ \cup {i}]
             U == T \cup {x}
  <2>2. programas \in Seq(U) /\ x \in U
    BY <2>1
  <2>3. programas' = [programas EXCEPT ![p] = x]
    BY <1>2
  <2> HIDE DEF x, U, p
  <2>4. DOMAIN programas = 1..Len(programas) /\ Len(programas) \in Nat
        /\ \A k \in 1..Len(programas) : programas[k] \in U
    BY <2>2, LenProperties, ElementOfSeq
  <2>5. programas' \in [1..Len(programas) -> U]
    BY <2>2, <2>3, <2>4
  <2>6. programas' \in Seq(U) /\ DOMAIN programas' = DOMAIN programas /\ Len(programas') = Len(programas)
    BY <2>4, <2>5, LenProperties
  <2> QED BY <2>6 DEF EsLista
<1>4. \A x \in DOMAIN programas : EsPrograma(programas'[x]) /\ programas'[x].vivo = programas[x].vivo
  <2> TAKE x \in DOMAIN programas
  <2>1. programas[x] = [paginas |-> programas[x].paginas, de |-> programas[x].de,
                        indice |-> programas[x].indice, vivo |-> programas[x].vivo]
    BY <1>2 DEF EsPrograma
  <2> HIDE DEF p
  <2>2. CASE x = p
    <3>1. programas'[x] = [programas[x] EXCEPT !.indice = @ \cup {i}]
      BY <1>2, <2>2
    <3>2. programas'[x] = [paginas |-> programas[x].paginas, de |-> programas[x].de,
                           indice |-> programas[x].indice \cup {i}, vivo |-> programas[x].vivo]
      BY <2>1, <3>1
    <3> QED BY <3>2 DEF EsPrograma
  <2>3. CASE x # p
    BY <1>2, <2>3
  <2> QED BY <2>2, <2>3
<1>5. ProgramaEnUnaParte'
  <2>1. Vivos' = Vivos
    BY <1>3, <1>4, VivosSiguen
  <2> QED BY <1>1, <1>3, <2>1, ProgramasSiguen DEF Estructura, EnAlta, colas
<1>6. SocketsDeCadaUno' /\ CpuEnUnaParte'
  BY <1>1, RedSigue DEF colas
<1>7. Leidas'
  <2>1. /\ cantidadDeProcesos' \in Int
        /\ hilo'.etapa = "cuenta" => hilo'.leida \in Int /\ hilo'.leida < GRADO_MULTIPROG
    BY <1>1 DEF Estructura, Leidas
  <2> QED BY <1>1, <2>1, RedSigue DEF colas
<1>8. Conjuntos'
  BY <1>1, <1>3, <1>4 DEF Estructura, Conjuntos, colas, red
<1> QED BY <1>5, <1>6, <1>7, <1>8 DEF Estructura

\* A program begins: it lives, and it is the last one.
LEMMA NacePrograma ==
  ASSUME Estructura, Cuenta
  PROVE  /\ programas' = Append(programas, Programa(hilo.paginas, unScript.de))
         /\ EsLista(programas') /\ Len(programas) \in Nat /\ Len(programas') = Len(programas) + 1
         /\ DOMAIN programas = 1..Len(programas) /\ DOMAIN programas' = 1..Len(programas) + 1
         /\ \A p \in DOMAIN programas : programas'[p] = programas[p]
         /\ programas'[Len(programas) + 1] = Programa(hilo.paginas, unScript.de)
         /\ Vivos' = Vivos \cup {Len(programas) + 1} /\ Len(programas) + 1 \notin Vivos
<1> DEFINE x == Programa(hilo.paginas, unScript.de)
           n == Len(programas)
<1>1. programas' = Append(programas, x)
  BY DEF Cuenta
<1>2. PICK T : programas \in Seq(T)
  BY DEF Estructura, Conjuntos, EsLista
<1> DEFINE U == T \cup {x}
<1>3. programas \in Seq(U) /\ x \in U
  BY <1>2
<1> HIDE DEF U
<1>4. x.vivo = TRUE
  BY DEF Programa
<1> HIDE DEF x
<1>5. /\ programas' \in Seq(U) /\ n \in Nat /\ Len(programas') = n + 1 /\ DOMAIN programas = 1..n
      /\ \A p \in 1..n : programas'[p] = programas[p]
      /\ programas'[n + 1] = x
  BY <1>1, <1>3, AppendProperties, LenProperties
<1>6. DOMAIN programas' = 1..n + 1
  BY <1>5, LenProperties
<1> HIDE DEF n
<1>7. \A p : p \in 1..n + 1 <=> p \in 1..n \/ p = n + 1
  BY <1>5
<1>8. n + 1 \notin 1..n
  BY <1>5
<1>9. Vivos' = Vivos \cup {n + 1} /\ n + 1 \notin Vivos
  <2>1. Vivos = {p \in 1..n : programas[p].vivo} /\ Vivos' = {p \in 1..n + 1 : programas'[p].vivo}
    BY <1>5, <1>6 DEF Vivos
  <2> QED BY <2>1, <1>4, <1>5, <1>7, <1>8
<1> QED BY <1>1, <1>5, <1>6, <1>9 DEF EsLista, n, x

LEMMA CuentaEstructura ==
  ASSUME Estructura, Cuenta
  PROVE  Estructura'
<1> DEFINE n == Len(programas)
<1>1. /\ EsLista(programas') /\ n \in Nat /\ Len(programas') = n + 1
      /\ DOMAIN programas = 1..n /\ DOMAIN programas' = 1..n + 1
      /\ \A p \in DOMAIN programas : programas'[p] = programas[p]
      /\ programas'[n + 1] = Programa(hilo.paginas, unScript.de)
      /\ Vivos' = Vivos \cup {n + 1} /\ n + 1 \notin Vivos
  BY NacePrograma
<1>2. /\ UNCHANGED <<leibles, etapa, paquete, red, colas, ejecutando>>
      /\ hilo'.etapa = "crea" /\ cantidadDeProcesos' = hilo.leida + 1 /\ hilo.etapa = "cuenta"
  BY DEF Cuenta, kernel, clientes, Hilo
<1>3. SocketsDeCadaUno' /\ CpuEnUnaParte'
  BY <1>2, RedSigue DEF colas
<1>4. Leidas'
  <2>1. cantidadDeProcesos' \in Int
    <3>1. hilo.leida \in Int
      BY <1>2 DEF Estructura, Leidas
    <3> QED BY <1>2, <3>1
  <2> QED BY <1>2, <2>1, RedSigue DEF colas
<1>5. Conjuntos'
  <2>1. \A p \in DOMAIN programas' : EsPrograma(programas'[p])
    <3> TAKE p \in DOMAIN programas'
    <3>1. CASE p = n + 1
      BY <3>1, <1>1 DEF Programa, EsPrograma
    <3>2. CASE p # n + 1
      <4>1. p \in DOMAIN programas
        BY <3>2, <1>1
      <4> QED BY <4>1, <1>1 DEF Estructura, Conjuntos
    <3> QED BY <3>1, <3>2
  <2> QED BY <1>1, <1>2, <2>1 DEF Estructura, Conjuntos, colas, red
<1>6. ProgramaEnUnaParte'
  <2>1. ProcessID' = n + 1 /\ 0 # n + 1
    BY <1>1 DEF ProcessID
  <2>2. colaNew' = colaNew /\ colaExec' = colaExec
    BY <1>2 DEF colas
  <2>3. /\ IsInjective(colaNew) /\ ToSet(colaNew) \subseteq Vivos
        /\ \A s \in Sockets : colaExec[s] # 0 => colaExec[s] \in Vivos \ ToSet(colaNew)
        /\ \A s, t \in Sockets : s # t /\ colaExec[s] = colaExec[t] => colaExec[s] = 0
    BY DEF Estructura, ProgramaEnUnaParte
  <2> HIDE DEF n
  <2>4. \A s \in Sockets : colaExec[s] # n + 1
    BY <1>1, <2>1, <2>3
  <2> QED BY <1>1, <2>1, <2>2, <2>3, <2>4 DEF ProgramaEnUnaParte
<1> QED BY <1>3, <1>4, <1>5, <1>6 DEF Estructura

LEMMA SiguePaginaEstructura ==
  ASSUME Estructura, SiguePagina
  PROVE  Estructura'
<1>0. /\ UNCHANGED <<leibles, etapa, paquete, red, colaCpu, colaExec, ejecutando, programas,
                     cantidadDeProcesos>>
      /\ EnAlta /\ hilo'.etapa # "cuenta"
  BY DEF SiguePagina, kernel, clientes, EnAlta, Hilo
<1>1. SocketsDeCadaUno' /\ CpuEnUnaParte'
  BY <1>0, RedSigue
<1>2. Leidas'
  <2>1. cantidadDeProcesos' \in Int
    BY <1>0 DEF Estructura, Leidas
  <2> QED BY <1>0, <2>1, RedSigue
<1>3. Vivos' = Vivos /\ ProcessID' = ProcessID
  BY <1>0 DEF Vivos, ProcessID
<1>4. colaNew \in Seq(Nat) /\ ProcessID \in Nat
  BY LenProperties DEF Estructura, Conjuntos, ProcessID, EsLista
<1>5. ProcessID \in Vivos \ ToSet(colaNew) /\ \A s \in Sockets : colaExec[s] # ProcessID
  BY <1>0 DEF Estructura, ProgramaEnUnaParte
<1>6. CASE colaNew' = colaNew
  <2>1. ProgramaEnUnaParte'
    BY <1>0, <1>3, <1>5, <1>6 DEF Estructura, ProgramaEnUnaParte
  <2>2. Conjuntos'
    BY <1>0, <1>6 DEF Estructura, Conjuntos, red
  <2> QED BY <1>1, <1>2, <2>1, <2>2 DEF Estructura
<1>7. CASE colaNew' = Append(colaNew, ProcessID) /\ hilo' = [etapa |-> "espera"]
  <2>1. /\ colaNew' \in Seq(Nat) /\ ToSet(colaNew') = ToSet(colaNew) \cup {ProcessID}
        /\ IsInjective(colaNew')
    <3>1. IsInjective(colaNew)
      BY DEF Estructura, ProgramaEnUnaParte
    <3> QED BY <3>1, <1>4, <1>5, <1>7, ListaAgrega
  <2>2. ~EnAlta'
    BY <1>7 DEF EnAlta
  <2>3. ProgramaEnUnaParte'
    <3>1. \A s \in Sockets : colaExec[s] # 0 => colaExec[s] \in Vivos \ ToSet(colaNew')
      BY <1>5, <2>1 DEF Estructura, ProgramaEnUnaParte
    <3>2. ToSet(colaNew') \subseteq Vivos
      BY <1>5, <2>1 DEF Estructura, ProgramaEnUnaParte
    <3> QED BY <1>0, <1>3, <2>1, <2>2, <3>1, <3>2 DEF Estructura, ProgramaEnUnaParte
  <2>4. Conjuntos'
    BY <1>0, <2>1 DEF Estructura, Conjuntos, red
  <2> QED BY <1>1, <1>2, <2>3, <2>4 DEF Estructura
<1> QED BY <1>6, <1>7 DEF SiguePagina
-----------------------------------------------------------------------------
(* The clients, the planners and Memoria.                                   *)

LEMMA ConectaEstructura ==
  ASSUME Estructura, NEW c \in Clientes, Conecta(c)
  PROVE  Estructura'
<1>0. /\ UNCHANGED <<leibles, etapa, paquete, descriptor, alKernel, colas, ejecutando, programas,
                     cantidadDeProcesos, hilo>>
      /\ llegadas' = Append(llegadas, c) /\ llegadas \in Seq(Clientes)
  BY DEF Conecta, kernel, admision, clientes, Estructura, Conjuntos
<1>1. \A s \in Sockets : Pendientes(s)' = Pendientes(s)
  BY <1>0, PendientesIgual DEF Ocupado
<1>2. /\ descriptor[c] = 0 /\ c \notin ToSet(llegadas)
      /\ IsInjective(llegadas) /\ \A d \in ToSet(llegadas) : descriptor[d] = 0
  BY DEF Conecta, Conectado, ToSet, Estructura, SocketsDeCadaUno
<1>3. /\ llegadas' \in Seq(Clientes) /\ IsInjective(llegadas')
      /\ ToSet(llegadas') = ToSet(llegadas) \cup {c}
  BY <1>0, <1>2, ListaAgrega
<1>4. SocketsDeCadaUno'
  <2>1. Fdmax' = Fdmax
    BY <1>0 DEF Fdmax, Aceptados
  <2>2. /\ \A s \in Sockets : s > Fdmax => Pendientes(s)' = <<>> /\ s \notin ToSet(colaCpu')
        /\ Ocupado' => paquete'.socket \in Sockets
        /\ \A d \in ejecutando' : descriptor[d] # 0
    BY <1>0, <1>1 DEF Estructura, SocketsDeCadaUno, Ocupado, colas
  <2>3. /\ \A d, e \in Clientes : d # e /\ descriptor[d] = descriptor[e] => descriptor[d] = 0
        /\ \A d \in Clientes : descriptor[d] = 0 \/ descriptor[d] \in SERVIDOR + 1 .. Fdmax
    BY DEF Estructura, SocketsDeCadaUno
  <2>4. \A d \in ToSet(llegadas') : descriptor[d] = 0
    BY <1>2, <1>3
  <2> QED BY <1>0, <1>3, <2>1, <2>2, <2>3, <2>4 DEF SocketsDeCadaUno
<1>5. CpuEnUnaParte'
  <2>1. \A s \in Sockets : Parte(Pendientes(s)', Pendientes(s))
    BY <1>1, ParteDeSi
  <2> QED BY <1>0, <2>1, CpusSiguen DEF Estructura, colas
<1>6. ProgramaEnUnaParte'
  <2>1. Vivos' = Vivos
    BY <1>0 DEF Vivos
  <2> QED BY <1>0, <2>1, ProgramasSiguen DEF Estructura, EnAlta, colas
<1>7. Leidas'
  <2>1. /\ cantidadDeProcesos' \in Int
        /\ hilo'.etapa = "cuenta" => hilo'.leida \in Int /\ hilo'.leida < GRADO_MULTIPROG
    BY <1>0 DEF Estructura, Leidas
  <2> QED BY <1>0, <1>1, <2>1, LeidasSiguen DEF Estructura
<1>8. Conjuntos'
  BY <1>0, <1>3 DEF Estructura, Conjuntos, colas
<1> QED BY <1>4, <1>5, <1>6, <1>7, <1>8 DEF Estructura

LEMMA DespachaEstructura ==
  ASSUME Estructura, Despacha
  PROVE  Estructura'
<1> DEFINE k == Head(colaCpu)
           p == Head(colaNew)
<1>0. /\ UNCHANGED <<leibles, etapa, paquete, red, hilo, cantidadDeProcesos, programas>>
      /\ colaNew # <<>> /\ colaCpu # <<>>
      /\ colaExec' = [colaExec EXCEPT ![k] = p]
      /\ colaNew' = Tail(colaNew) /\ colaCpu' = Tail(colaCpu)
      /\ ejecutando' = ejecutando \cup {c \in Cpus : descriptor[c] = k}
  BY DEF Despacha, kernel, admision
<1>1. /\ colaCpu \in Seq(Sockets) /\ colaNew \in Seq(Nat) /\ colaExec \in [Sockets -> Nat]
      /\ IsInjective(colaCpu) /\ IsInjective(colaNew) /\ ejecutando \subseteq Cpus
  BY DEF Estructura, Conjuntos, CpuEnUnaParte, ProgramaEnUnaParte
<1>2. /\ k \in Sockets /\ k \in ToSet(colaCpu)
      /\ colaCpu' \in Seq(Sockets) /\ ToSet(colaCpu') = ToSet(colaCpu) \ {k} /\ IsInjective(colaCpu')
  BY <1>0, <1>1, ListaSaca
<1>3. /\ p \in Nat /\ p \in ToSet(colaNew)
      /\ colaNew' \in Seq(Nat) /\ ToSet(colaNew') = ToSet(colaNew) \ {p} /\ IsInjective(colaNew')
  BY <1>0, <1>1, ListaSaca
<1> HIDE DEF k, p
<1>4. /\ colaExec' \in [Sockets -> Nat] /\ colaExec'[k] = p
      /\ \A s \in Sockets : s # k => colaExec'[s] = colaExec[s]
  BY <1>0, <1>1, <1>2, <1>3
<1>5. \A s \in Sockets : Pendientes(s)' = Pendientes(s)
  BY <1>0, PendientesIgual DEF Ocupado, red
<1>6. p \in Vivos /\ p # 0
  <2>1. ToSet(colaNew) \subseteq Vivos /\ EsLista(programas)
    BY DEF Estructura, ProgramaEnUnaParte, Conjuntos
  <2>2. DOMAIN programas = 1..Len(programas)
    BY <2>1, LenProperties DEF EsLista
  <2> QED BY <1>3, <2>1, <2>2 DEF Vivos
<1>7. SocketsDeCadaUno'
  <2>1. \A c \in ejecutando' : descriptor[c] # 0
    BY <1>0, <1>2, SocketsNat DEF Estructura, SocketsDeCadaUno
  <2>2. /\ SocketsDeCadaUno /\ descriptor' = descriptor /\ llegadas' = llegadas
        /\ Ocupado' => paquete'.socket \in Sockets
    BY <1>0 DEF Estructura, SocketsDeCadaUno, Ocupado, red
  <2> QED BY <1>2, <1>5, <2>1, <2>2, SocketsSiguen
<1>8. CpuEnUnaParte'
  <2>1. \A s \in Sockets : s # k => Ejecuta(s)' = Ejecuta(s)
    BY <1>0 DEF Ejecuta, red
  <2>2. /\ ~Hay(Pendientes(k), "CPU") /\ ~Hay(Pendientes(k), "PROGRAMATERMINADO")
        /\ Una(Pendientes(k), "CPU") /\ Una(Pendientes(k), "PROGRAMATERMINADO")
    BY <1>2 DEF Estructura, CpuEnUnaParte
  <2> SUFFICES ASSUME NEW s \in Sockets
               PROVE
         LET q == Pendientes(s)'
         IN  /\ Una(q, "CPU") /\ Una(q, "PROGRAMATERMINADO")
             /\ Hay(q, "CPU") => ~Hay(q, "PROGRAMATERMINADO") /\ ~Ejecuta(s)' /\ s \notin ToSet(colaCpu')
             /\ Hay(q, "PROGRAMATERMINADO") => ~Ejecuta(s)' /\ s \notin ToSet(colaCpu')
             /\ Ejecuta(s)' => s \notin ToSet(colaCpu')
             /\ Ejecuta(s)' \/ Hay(q, "PROGRAMATERMINADO") => colaExec'[s] # 0
    BY <1>2 DEF CpuEnUnaParte
  <2>3. CASE s = k
    BY <1>2, <1>4, <1>5, <1>6, <2>2, <2>3
  <2>4. CASE s # k
    BY <1>2, <1>4, <1>5, <2>1, <2>4 DEF Estructura, CpuEnUnaParte
  <2> QED BY <2>3, <2>4
<1>9. ProgramaEnUnaParte'
  <2>1. Vivos' = Vivos /\ ProcessID' = ProcessID /\ EnAlta' = EnAlta
    BY <1>0 DEF Vivos, ProcessID, EnAlta
  <2>2. /\ ToSet(colaNew) \subseteq Vivos
        /\ \A s \in Sockets : colaExec[s] # 0 => colaExec[s] \in Vivos \ ToSet(colaNew)
        /\ \A s, t \in Sockets : s # t /\ colaExec[s] = colaExec[t] => colaExec[s] = 0
        /\ EnAlta => /\ ProcessID \in Vivos \ ToSet(colaNew)
                     /\ \A s \in Sockets : colaExec[s] # ProcessID
    BY DEF Estructura, ProgramaEnUnaParte
  <2>3. \A s \in Sockets : colaExec'[s] # 0 => colaExec'[s] \in Vivos \ ToSet(colaNew')
    BY <1>3, <1>4, <1>6, <2>2
  <2>4. \A s, t \in Sockets : s # t /\ colaExec'[s] = colaExec'[t] => colaExec'[s] = 0
    BY <1>3, <1>4, <1>6, <2>2
  <2>5. EnAlta => /\ ProcessID \in Vivos \ ToSet(colaNew')
                  /\ \A s \in Sockets : colaExec'[s] # ProcessID
    BY <1>3, <1>4, <2>2
  <2> QED BY <1>3, <2>1, <2>2, <2>3, <2>4, <2>5 DEF ProgramaEnUnaParte
<1>10. Leidas'
  <2>1. /\ cantidadDeProcesos' \in Int
        /\ hilo'.etapa = "cuenta" => hilo'.leida \in Int /\ hilo'.leida < GRADO_MULTIPROG
    BY <1>0 DEF Estructura, Leidas
  <2> QED BY <1>0, <1>5, <2>1, LeidasSiguen DEF Estructura
<1>11. Conjuntos'
  <2>1. ejecutando' \subseteq Cpus
    BY <1>0, <1>1
  <2> QED BY <1>0, <1>2, <1>3, <1>4, <2>1 DEF Estructura, Conjuntos, red
<1> QED BY <1>7, <1>8, <1>9, <1>10, <1>11 DEF Estructura

\* The socket of a client that was accepted.
LEMMA SocketDeCliente ==
  ASSUME Estructura, NEW c \in Clientes, descriptor[c] # 0
  PROVE  descriptor[c] \in Sockets /\ descriptor[c] <= Fdmax /\ descriptor[c] # MEM
<1>1. descriptor[c] \in SERVIDOR + 1 .. Fdmax
  BY DEF Estructura, SocketsDeCadaUno
<1>2. Fdmax \in Nat /\ Fdmax <= SERVIDOR + Cardinality(Clientes) /\ Cardinality(Clientes) \in Nat
  BY AceptadosFinito, AdmisionAssumption DEF Fdmax
<1>3. descriptor[c] \in SERVIDOR + 1 .. SERVIDOR + Cardinality(Clientes) /\ descriptor[c] # MEM
  BY <1>1, <1>2, AdmisionAssumption
<1> QED BY <1>1, <1>2, <1>3, AdmisionAssumption DEF Sockets

LEMMA SocketDeMemoria == MEM \in Sockets /\ MEM <= Fdmax
BY AdmisionAssumption, AceptadosFinito DEF Sockets, Fdmax

\* Messages that are neither the greeting of a CPU nor the end of a program come by d.
LEMMA LleganMensajes ==
  ASSUME Estructura, NEW d \in Sockets, d <= Fdmax, NEW r, EsLista(r),
         ~Hay(r, "CPU"), ~Hay(r, "PROGRAMATERMINADO"),
         alKernel' = [alKernel EXCEPT ![d] = @ \o r],
         UNCHANGED <<leibles, etapa, paquete, descriptor, llegadas, colas, ejecutando, programas,
                     cantidadDeProcesos, hilo>>
  PROVE  Estructura'
<1>1. /\ DOMAIN alKernel' = Sockets /\ \A s \in Sockets : EsLista(alKernel'[s])
      /\ \A s \in Sockets : s # d => Pendientes(s)' = Pendientes(s)
      /\ Pendientes(d)' = Pendientes(d) \o r
  BY PendientesEnviado DEF Estructura
<1>2. EsLista(Pendientes(d))
  BY PendientesEsLista DEF Estructura
<1>3. Una(r, "CPU") /\ Una(r, "PROGRAMATERMINADO")
  BY DEF Una, Hay, ToSet
<1>4. \A s \in Sockets : \A t \in {"CPU", "PROGRAMATERMINADO"} :
        /\ Una(Pendientes(s), t) => Una(Pendientes(s)', t)
        /\ Hay(Pendientes(s)', t) <=> Hay(Pendientes(s), t)
  <2>1. \A t \in {"CPU", "PROGRAMATERMINADO"} :
          /\ Hay(Pendientes(d)', t) <=> Hay(Pendientes(d), t) \/ Hay(r, t)
          /\ Una(Pendientes(d)', t) <=> Una(Pendientes(d), t) /\ Una(r, t)
                                        /\ ~(Hay(Pendientes(d), t) /\ Hay(r, t))
    BY <1>1, <1>2, HayUna
  <2> QED BY <1>1, <1>3, <2>1
<1>5. SocketsDeCadaUno'
  <2>1. \A s \in Sockets : s > Fdmax => s # d
    BY SocketsNat, AceptadosFinito, AdmisionAssumption DEF Fdmax
  <2>2. /\ SocketsDeCadaUno /\ (Ocupado' => paquete'.socket \in Sockets)
        /\ \A c \in ejecutando' : descriptor[c] # 0
    BY DEF Estructura, SocketsDeCadaUno, Ocupado
  <2> QED BY <1>1, <2>1, <2>2, SocketsSiguen DEF colas, Estructura
<1>6. CpuEnUnaParte'
  <2>1. \A s \in Sockets : Ejecuta(s)' = Ejecuta(s)
    BY DEF Ejecuta
  <2> QED BY <1>4, <2>1 DEF Estructura, CpuEnUnaParte, colas
<1>7. ProgramaEnUnaParte'
  <2>1. Vivos' = Vivos
    BY DEF Vivos
  <2> QED BY <2>1, ProgramasSiguen DEF Estructura, EnAlta, colas
<1>8. Leidas'
  <2>1. /\ cantidadDeProcesos' \in Int
        /\ hilo'.etapa = "cuenta" => hilo'.leida \in Int /\ hilo'.leida < GRADO_MULTIPROG
    BY DEF Estructura, Leidas
  <2> QED BY <1>4, <2>1, LeidasSiguen DEF Estructura
<1>9. Conjuntos'
  BY <1>1 DEF Estructura, Conjuntos, colas
<1> QED BY <1>5, <1>6, <1>7, <1>8, <1>9 DEF Estructura

LEMMA LanzaEstructura ==
  ASSUME Estructura, NEW c \in Consolas, Lanza(c)
  PROVE  Estructura'
<1> DEFINE m == [tipo |-> "ARCHIVO", paginas |-> Paginas[c], de |-> <<c, consola[c].lanzados + 1>>]
<1>1. /\ descriptor[c] # 0 /\ alKernel' = [alKernel EXCEPT ![descriptor[c]] = @ \o <<m>>]
      /\ UNCHANGED <<leibles, etapa, paquete, descriptor, llegadas, colas, ejecutando, programas,
                     cantidadDeProcesos, hilo>>
  BY DEF Lanza, Envia, kernel, admision
<1>2. m.tipo = "ARCHIVO"
  OBVIOUS
<1> HIDE DEF m
<1>3. EsLista(<<m>>) /\ ~Hay(<<m>>, "CPU") /\ ~Hay(<<m>>, "PROGRAMATERMINADO")
  BY <1>2, UnMensaje
<1>4. descriptor[c] \in Sockets /\ descriptor[c] <= Fdmax
  BY <1>1, SocketDeCliente DEF Clientes
<1> QED BY <1>1, <1>3, <1>4, LleganMensajes

LEMMA AtiendeMemoriaEstructura ==
  ASSUME Estructura, AtiendeMemoria
  PROVE  Estructura'
<1>1. UNCHANGED <<leibles, etapa, paquete, descriptor, llegadas, colas, ejecutando, programas,
                  cantidadDeProcesos, hilo>>
  BY DEF AtiendeMemoria, kernel, admision, clientes
<1>2. CASE alKernel' = alKernel
  <2>1. SocketsDeCadaUno' /\ CpuEnUnaParte'
    BY <1>1, <1>2, RedSigue DEF red, colas
  <2>2. Leidas'
    <3>1. /\ cantidadDeProcesos' \in Int
          /\ hilo'.etapa = "cuenta" => hilo'.leida \in Int /\ hilo'.leida < GRADO_MULTIPROG
      BY <1>1 DEF Estructura, Leidas
    <3> QED BY <1>1, <1>2, <3>1, RedSigue DEF red, colas
  <2>3. ProgramaEnUnaParte'
    <3>1. Vivos' = Vivos
      BY <1>1 DEF Vivos
    <3> QED BY <1>1, <3>1, ProgramasSiguen DEF Estructura, EnAlta, colas
  <2>4. Conjuntos'
    BY <1>1, <1>2 DEF Estructura, Conjuntos, colas
  <2> QED BY <2>1, <2>2, <2>3, <2>4 DEF Estructura
<1>3. ASSUME NEW t \in {"NOENTROPROCESO", "ENTRAPROCESO", "PAGINAENVIADA"},
             alKernel' = [alKernel EXCEPT ![MEM] = Append(@, Mensaje(t))]
      PROVE  Estructura'
  <2> DEFINE m == Mensaje(t)
  <2>1. m.tipo = t
    BY DEF Mensaje
  <2> HIDE DEF m
  <2>2. EsLista(<<m>>) /\ ~Hay(<<m>>, "CPU") /\ ~Hay(<<m>>, "PROGRAMATERMINADO")
    BY <2>1, UnMensaje
  <2>3. Append(alKernel[MEM], m) = alKernel[MEM] \o <<m>>
    <3>1. PICK T : alKernel[MEM] \in Seq(T)
      BY SocketDeMemoria DEF Estructura, Conjuntos, EsLista
    <3>2. alKernel[MEM] \in Seq(T \cup {m}) /\ m \in T \cup {m}
      BY <3>1
    <3> QED BY <3>2, AppendIsConcat
  <2>4. alKernel' = [alKernel EXCEPT ![MEM] = @ \o <<m>>]
    BY <1>3, <2>3 DEF m
  <2> QED BY <1>1, <2>2, <2>4, SocketDeMemoria, LleganMensajes
<1> QED BY <1>2, <1>3 DEF AtiendeMemoria

\* What a CPU says at the end of a program.
LEMMA FinalEsLista ==
  /\ EsLista(FinalDePrograma)
  /\ ~Hay(FinalDePrograma, "CPU") /\ ~Hay(FinalDePrograma, "ARCHIVO")
  /\ Hay(FinalDePrograma, "PROGRAMATERMINADO") /\ Una(FinalDePrograma, "PROGRAMATERMINADO")
<1> DEFINE m == Mensaje("PROGRAMATERMINADO")
           d == Mensaje("PORLASDUDAS")
           q == [k \in 1 .. 3 |-> d]
<1>1. m.tipo = "PROGRAMATERMINADO" /\ d.tipo = "PORLASDUDAS"
  BY DEF Mensaje
<1> HIDE DEF m, d
<1>2. q \in Seq({d})
  OBVIOUS
<1>3. \A t : ~(d.tipo = t) => ~Hay(q, t)
  BY DEF Hay, ToSet
<1> HIDE DEF q
<1>4. EsLista(q) /\ ~Hay(q, "CPU") /\ ~Hay(q, "ARCHIVO") /\ ~Hay(q, "PROGRAMATERMINADO")
  BY <1>1, <1>2, <1>3 DEF EsLista
<1>5. Una(q, "PROGRAMATERMINADO")
  BY <1>4 DEF Hay, Una, ToSet
<1>6. /\ EsLista(<<m>>) /\ \A t : Hay(<<m>>, t) <=> m.tipo = t
      /\ \A t : Una(<<m>>, t)
  BY UnMensaje
<1>7. /\ EsLista(<<m>> \o q)
      /\ \A t : /\ Hay(<<m>> \o q, t) <=> Hay(<<m>>, t) \/ Hay(q, t)
                /\ Una(<<m>> \o q, t) <=> Una(<<m>>, t) /\ Una(q, t) /\ ~(Hay(<<m>>, t) /\ Hay(q, t))
  BY <1>4, <1>6, HayUna
<1>8. FinalDePrograma = <<m>> \o q
  BY DEF FinalDePrograma, m, q, d
<1> QED BY <1>1, <1>4, <1>5, <1>6, <1>7, <1>8

LEMMA FinalizaEstructura ==
  ASSUME Estructura, NEW c \in Cpus, Finaliza(c)
  PROVE  Estructura'
<1> DEFINE d == descriptor[c]
           r == FinalDePrograma
<1>1. /\ d # 0 /\ alKernel' = [alKernel EXCEPT ![d] = @ \o r]
      /\ c \in ejecutando /\ ejecutando' = ejecutando \ {c}
      /\ UNCHANGED <<leibles, etapa, paquete, descriptor, llegadas, colas, programas,
                     cantidadDeProcesos, hilo>>
  BY DEF Finaliza, Envia, kernel, admision
<1>2. d \in Sockets /\ d <= Fdmax
  BY <1>1, SocketDeCliente DEF Clientes
<1>3. Ejecuta(d) /\ \A s \in Sockets : s # d => (Ejecuta(s)' <=> Ejecuta(s))
  BY <1>1 DEF Ejecuta
<1>4. ~Ejecuta(d)'
  <2>1. \A e \in ejecutando : e \in Clientes /\ (e # c => descriptor[e] # d)
    BY <1>1 DEF Estructura, Conjuntos, SocketsDeCadaUno, Clientes
  <2>2. \A e \in ejecutando' : descriptor'[e] # d
    BY <1>1, <2>1
  <2>3. d \in Sockets /\ d' = d
    BY <1>1, <1>2
  <2> HIDE DEF d
  <2> QED BY <2>2, <2>3 DEF Ejecuta
<1>5. /\ EsLista(r) /\ ~Hay(r, "CPU")
      /\ Hay(r, "PROGRAMATERMINADO") /\ Una(r, "PROGRAMATERMINADO")
  BY FinalEsLista
<1>6. Una(r, "CPU")
  BY <1>5 DEF Una, Hay, ToSet
<1>7. d' = d
  BY <1>1
<1> HIDE DEF d, r
<1>8. /\ DOMAIN alKernel' = Sockets /\ \A s \in Sockets : EsLista(alKernel'[s])
      /\ \A s \in Sockets : s # d => Pendientes(s)' = Pendientes(s)
      /\ \A s \in Sockets : s = d => Pendientes(s)' = Pendientes(s) \o r
  <2>1. \A e \in Sockets :
          alKernel' = [alKernel EXCEPT ![e] = @ \o r] =>
            /\ DOMAIN alKernel' = Sockets /\ \A s \in Sockets : EsLista(alKernel'[s])
            /\ \A s \in Sockets : s # e => Pendientes(s)' = Pendientes(s)
            /\ Pendientes(e)' = Pendientes(e) \o r
    BY <1>1, <1>5, PendientesEnviado DEF Estructura
  <2>2. DOMAIN alKernel' = Sockets /\ \A s \in Sockets : EsLista(alKernel'[s])
    BY <1>1, <1>2, <2>1
  <2>3. \A s \in Sockets : s # d => Pendientes(s)' = Pendientes(s)
    BY <1>1, <1>2, <2>1
  <2>4. \A s \in Sockets : s = d => Pendientes(s)' = Pendientes(s) \o r
    BY <1>1, <1>2, <2>1
  <2> QED BY <2>2, <2>3, <2>4
<1>9. /\ ~Hay(Pendientes(d), "CPU") /\ ~Hay(Pendientes(d), "PROGRAMATERMINADO")
      /\ d \notin ToSet(colaCpu) /\ colaExec[d] # 0
      /\ Una(Pendientes(d), "CPU") /\ Una(Pendientes(d), "PROGRAMATERMINADO")
  BY <1>2, <1>3 DEF Estructura, CpuEnUnaParte
<1>10. \A s \in Sockets : s = d =>
         /\ ~Hay(Pendientes(s)', "CPU") /\ Hay(Pendientes(s)', "PROGRAMATERMINADO")
         /\ Una(Pendientes(s)', "CPU") /\ Una(Pendientes(s)', "PROGRAMATERMINADO")
  <2> TAKE s \in Sockets
  <2> HAVE s = d
  <2>1. EsLista(Pendientes(s))
    BY PendientesEsLista DEF Estructura
  <2>2. \A t : /\ Hay(Pendientes(s) \o r, t) <=> Hay(Pendientes(s), t) \/ Hay(r, t)
               /\ Una(Pendientes(s) \o r, t) <=> Una(Pendientes(s), t) /\ Una(r, t)
                                              /\ ~(Hay(Pendientes(s), t) /\ Hay(r, t))
    BY <1>5, <2>1, HayUna
  <2> QED BY <1>5, <1>6, <1>8, <1>9, <2>2
<1>11. SocketsDeCadaUno'
  <2>1. \A s \in Sockets : s > Fdmax => s # d
    BY <1>2, SocketsNat, AceptadosFinito, AdmisionAssumption DEF Fdmax
  <2>2. /\ SocketsDeCadaUno /\ (Ocupado' => paquete'.socket \in Sockets)
        /\ \A e \in ejecutando' : descriptor[e] # 0
    BY <1>1 DEF Estructura, SocketsDeCadaUno, Ocupado
  <2>3. descriptor' = descriptor /\ llegadas' = llegadas /\ colaCpu' = colaCpu
    BY <1>1 DEF colas
  <2>4. \A s \in Sockets :
          /\ s > Fdmax /\ Pendientes(s) = <<>> => Pendientes(s)' = <<>>
          /\ s \in ToSet(colaCpu') => s \in ToSet(colaCpu) \/ Pendientes(s) # <<>>
    BY <1>8, <2>1, <2>3
  <2> QED BY <2>2, <2>3, <2>4, SocketsSiguen
<1>12. CpuEnUnaParte'
  <2>0. colaCpu' = colaCpu /\ colaExec' = colaExec
    BY <1>1 DEF colas
  <2> SUFFICES ASSUME NEW s \in Sockets
               PROVE
         LET q == Pendientes(s)'
         IN  /\ Una(q, "CPU") /\ Una(q, "PROGRAMATERMINADO")
             /\ Hay(q, "CPU") => ~Hay(q, "PROGRAMATERMINADO") /\ ~Ejecuta(s)' /\ s \notin ToSet(colaCpu')
             /\ Hay(q, "PROGRAMATERMINADO") => ~Ejecuta(s)' /\ s \notin ToSet(colaCpu')
             /\ Ejecuta(s)' => s \notin ToSet(colaCpu')
             /\ Ejecuta(s)' \/ Hay(q, "PROGRAMATERMINADO") => colaExec'[s] # 0
    BY <2>0 DEF CpuEnUnaParte, Estructura
  <2>1. CASE s = d
    <3>1. ~Ejecuta(s)'
      BY <1>4, <1>7, <2>1
    <3> QED BY <1>9, <1>10, <2>0, <2>1, <3>1
  <2>2. CASE s # d
    BY <1>3, <1>8, <2>0, <2>2 DEF Estructura, CpuEnUnaParte
  <2> QED BY <2>1, <2>2
<1>13. ProgramaEnUnaParte'
  <2>1. Vivos' = Vivos
    BY <1>1 DEF Vivos
  <2> QED BY <1>1, <2>1, ProgramasSiguen DEF Estructura, EnAlta, colas
<1>14. Leidas'
  <2>1. /\ cantidadDeProcesos' \in Int
        /\ hilo'.etapa = "cuenta" => hilo'.leida \in Int /\ hilo'.leida < GRADO_MULTIPROG
    BY <1>1 DEF Estructura, Leidas
  <2>2. \A s \in Sockets : Hay(Pendientes(s), "PROGRAMATERMINADO")
                              => Hay(Pendientes(s)', "PROGRAMATERMINADO")
    BY <1>8, <1>10
  <2> QED BY <1>1, <2>1, <2>2, LeidasSiguen DEF Estructura
<1>15. Conjuntos'
  BY <1>1, <1>8 DEF Estructura, Conjuntos, colas
<1> QED BY <1>11, <1>12, <1>13, <1>14, <1>15 DEF Estructura
-----------------------------------------------------------------------------
(* The main thread.                                                         *)

\* It waits, or begins or ends a round.
LEMMA VueltaEstructura ==
  ASSUME Estructura, Select \/ FinDeVuelta \/ SeBloquea
  PROVE  Estructura'
<1>1. /\ UNCHANGED <<red, colas, ejecutando, programas, cantidadDeProcesos, hilo>>
      /\ ~Ocupado /\ ~Ocupado' /\ Ocupado' = Ocupado /\ etapa' # "termina"
  BY DEF Select, FinDeVuelta, SeBloquea, admision, clientes, Ocupado
<1>2. \A s \in Sockets : Pendientes(s)' = Pendientes(s)
  BY <1>1, PendientesIgual DEF red
<1>3. SocketsDeCadaUno'
  <2>1. /\ \A e \in ejecutando' : descriptor[e] # 0
        /\ SocketsDeCadaUno /\ descriptor' = descriptor /\ llegadas' = llegadas /\ colaCpu' = colaCpu
    BY <1>1 DEF Estructura, SocketsDeCadaUno, red, colas
  <2> QED BY <1>1, <1>2, <2>1, SocketsSiguen
<1>4. CpuEnUnaParte'
  <2>1. \A s \in Sockets : Parte(Pendientes(s)', Pendientes(s))
    BY <1>2, ParteDeSi
  <2> QED BY <1>1, <2>1, CpusSiguen DEF Estructura, colas, red
<1>5. ProgramaEnUnaParte'
  <2>1. Vivos' = Vivos
    BY <1>1 DEF Vivos
  <2> QED BY <1>1, <2>1, ProgramasSiguen DEF Estructura, EnAlta, colas
<1>6. Leidas'
  <2>1. /\ cantidadDeProcesos' \in Int
        /\ hilo'.etapa = "cuenta" => hilo'.leida \in Int /\ hilo'.leida < GRADO_MULTIPROG
    BY <1>1 DEF Estructura, Leidas
  <2> QED BY <1>1, <1>2, <2>1, LeidasSiguen DEF Estructura
<1>7. leibles' \subseteq Sockets \cup {SERVIDOR}
  <2>1. CASE Select
    BY <2>1 DEF Select, Listos
  <2>2. CASE FinDeVuelta
    BY <2>2 DEF FinDeVuelta
  <2>3. CASE SeBloquea
    BY <2>3 DEF SeBloquea, Estructura, Conjuntos
  <2> QED BY <2>1, <2>2, <2>3
<1>8. etapa' = "bloqueado" => paquete'.socket \in Sockets \cup {SERVIDOR}
  <2>1. CASE SeBloquea
    <3>1. QuedanPorMirar # {} /\ paquete'.socket = Siguiente
      BY <2>1 DEF SeBloquea
    <3>2. QuedanPorMirar \subseteq Sockets \cup {SERVIDOR} /\ QuedanPorMirar \subseteq Nat
      BY SocketsNat, AdmisionAssumption DEF Estructura, Conjuntos, QuedanPorMirar
    <3>3. Siguiente \in QuedanPorMirar
      BY <3>1, <3>2, MinEs DEF Siguiente
    <3> QED BY <3>1, <3>2, <3>3
  <2>2. CASE Select \/ FinDeVuelta
    BY <2>2 DEF Select, FinDeVuelta
  <2> QED BY <2>1, <2>2
<1>9. Conjuntos'
  BY <1>1, <1>7, <1>8 DEF Estructura, Conjuntos, colas, red
<1> QED BY <1>3, <1>4, <1>5, <1>6, <1>9 DEF Estructura

\* The next message, of the socket that follows or of the one it waited for.
LEMMA LeeEstructura ==
  ASSUME Estructura, NEW s \in Sockets, ~Ocupado, Deserializa(s),
         UNCHANGED <<leibles, llegadas, descriptor, colas, ejecutando, programas,
                     cantidadDeProcesos, hilo>>
  PROVE  Estructura'
<1>1. /\ \A t \in Sockets : Pendientes(t)' = Pendientes(t)
      /\ DOMAIN alKernel' = Sockets /\ \A t \in Sockets : EsLista(alKernel'[t])
      /\ Ocupado' /\ paquete'.socket = s /\ etapa' = "procesa"
  BY PendientesLeido DEF Estructura
<1>2. SocketsDeCadaUno'
  <2>1. /\ \A e \in ejecutando' : descriptor[e] # 0
        /\ SocketsDeCadaUno /\ colaCpu' = colaCpu
    BY DEF Estructura, SocketsDeCadaUno, colas
  <2> QED BY <1>1, <2>1, SocketsSiguen
<1>3. CpuEnUnaParte'
  <2>1. \A t \in Sockets : Parte(Pendientes(t)', Pendientes(t))
    BY <1>1, ParteDeSi
  <2> QED BY <2>1, CpusSiguen DEF Estructura, colas
<1>4. ProgramaEnUnaParte'
  <2>1. Vivos' = Vivos
    BY DEF Vivos
  <2> QED BY <2>1, ProgramasSiguen DEF Estructura, EnAlta, colas
<1>5. Leidas'
  <2>1. /\ cantidadDeProcesos' \in Int
        /\ hilo'.etapa = "cuenta" => hilo'.leida \in Int /\ hilo'.leida < GRADO_MULTIPROG
    BY DEF Estructura, Leidas
  <2>2. etapa' # "termina"
    BY <1>1
  <2> QED BY <1>1, <2>1, <2>2, LeidasSiguen DEF Estructura
<1>6. Conjuntos'
  BY <1>1 DEF Estructura, Conjuntos, colas
<1> QED BY <1>2, <1>3, <1>4, <1>5, <1>6 DEF Estructura

\* A client is accepted: its socket is the one after the last.
LEMMA AceptaEstructura ==
  ASSUME Estructura, llegadas # <<>>, ~Ocupado, Acepta,
         UNCHANGED <<leibles, colas, ejecutando, programas, cantidadDeProcesos, hilo>>
  PROVE  Estructura'
<1> DEFINE c == Head(llegadas)
           s == Fdmax + 1
           m == Mensaje(IF c \in Cpus THEN "CPU" ELSE "CONSOLA")
<1>1. /\ descriptor' = [descriptor EXCEPT ![c] = s]
      /\ alKernel' = [alKernel EXCEPT ![s] = <<m>>]
      /\ llegadas' = Tail(llegadas) /\ etapa' = "recorre" /\ ~Ocupado'
  BY DEF Acepta, Ocupado
<1>2. /\ c \in Clientes /\ descriptor[c] = 0
      /\ llegadas' \in Seq(Clientes) /\ IsInjective(llegadas')
      /\ ToSet(llegadas') = ToSet(llegadas) \ {c}
  <2>1. llegadas \in Seq(Clientes) /\ IsInjective(llegadas)
        /\ \A d \in ToSet(llegadas) : descriptor[d] = 0
    BY DEF Estructura, Conjuntos, SocketsDeCadaUno
  <2> QED BY <1>1, <2>1, ListaSaca
<1>3. m.tipo # "PROGRAMATERMINADO"
  BY DEF Mensaje
<1>4. Fdmax \in Nat /\ s \in Sockets /\ s # 0 /\ SERVIDOR \in Nat /\ s >= SERVIDOR + 1
      /\ s > Fdmax /\ s \in Nat
  <2>1. c \notin Aceptados
    BY <1>2 DEF Aceptados
  <2>2. Aceptados \in SUBSET Clientes /\ Aceptados # Clientes
    BY <1>2, <2>1 DEF Aceptados
  <2>3. Cardinality(Aceptados) < Cardinality(Clientes)
    BY <2>2, AceptadosFinito, FS_Subset
  <2> QED BY <2>3, AceptadosFinito, AdmisionAssumption DEF Fdmax, Sockets
<1>5. Fdmax' = s
  <2>0. descriptor \in [Clientes -> Nat]
    BY DEF Estructura, Conjuntos
  <2> HIDE DEF c, m
  <2>1. Aceptados' = Aceptados \cup {c} /\ c \notin Aceptados
    <3> DEFINE n == s
    <3>1. descriptor' = [descriptor EXCEPT ![c] = n] /\ n # 0
      BY <1>1, <1>4
    <3> HIDE DEF n
    <3> QED BY <1>2, <2>0, <3>1 DEF Aceptados
  <2>2. Cardinality(Aceptados') = Cardinality(Aceptados) + 1
    BY <2>1, AceptadosFinito, FS_AddElement
  <2> QED BY <2>2, AceptadosFinito, AdmisionAssumption DEF Fdmax
<1> HIDE DEF c, s, m
<1>6. /\ descriptor \in [Clientes -> Nat] /\ descriptor' \in [Clientes -> Nat] /\ descriptor'[c] = s
      /\ \A d \in Clientes : d # c => descriptor'[d] = descriptor[d]
  <2>1. descriptor \in [Clientes -> Nat] /\ s \in Nat
    BY <1>4, SocketsNat DEF Estructura, Conjuntos
  <2> QED BY <1>1, <1>2, <2>1
<1>7. /\ DOMAIN alKernel' = Sockets /\ alKernel'[s] = <<m>>
      /\ \A t \in Sockets : t # s => alKernel'[t] = alKernel[t]
  BY <1>1, <1>4 DEF Estructura, Conjuntos
<1>8. /\ \A t \in Sockets : t # s => Pendientes(t)' = Pendientes(t)
      /\ \A t \in Sockets : t = s => Pendientes(t)' = <<m>>
  BY <1>1, <1>7 DEF Pendientes, Sirve
<1>9. /\ \A d \in Clientes : descriptor[d] # s
      /\ s \notin ToSet(colaCpu)
      /\ \A d \in Clientes : descriptor[d] <= Fdmax
  <2>1. \A d \in Clientes : descriptor[d] = 0 \/ descriptor[d] \in SERVIDOR + 1 .. Fdmax
    BY DEF Estructura, SocketsDeCadaUno
  <2>2. s \notin ToSet(colaCpu)
    BY <1>4 DEF Estructura, SocketsDeCadaUno
  <2> QED BY <1>4, <2>1, <2>2
<1>10. SocketsDeCadaUno'
  <2>1. \A d, e \in Clientes : d # e /\ descriptor'[d] = descriptor'[e] => descriptor'[d] = 0
    BY <1>6, <1>9 DEF Estructura, SocketsDeCadaUno
  <2>2. \A d \in Clientes : descriptor'[d] = 0 \/ descriptor'[d] \in SERVIDOR + 1 .. s
    <3> TAKE d \in Clientes
    <3>1. CASE d = c
      BY <3>1, <1>4, <1>6
    <3>2. CASE d # c
      <4>1. descriptor[d] = 0 \/ descriptor[d] \in SERVIDOR + 1 .. Fdmax
        BY DEF Estructura, SocketsDeCadaUno
      <4> QED BY <3>2, <4>1, <1>4, <1>6
    <3> QED BY <3>1, <3>2
  <2>3. \A d \in ToSet(llegadas') : descriptor'[d] = 0
    <3>1. \A d \in ToSet(llegadas') : d # c /\ d \in Clientes /\ descriptor[d] = 0
      BY <1>2, EnLista DEF Estructura, SocketsDeCadaUno
    <3> QED BY <3>1, <1>6
  <2>4. \A t \in Sockets : t > s => Pendientes(t)' = <<>> /\ t \notin ToSet(colaCpu')
    <3> TAKE t \in Sockets
    <3> HAVE t > s
    <3>1. t # s /\ t > Fdmax
      BY <1>4, SocketsNat DEF s
    <3> QED BY <1>8, <3>1 DEF Estructura, SocketsDeCadaUno, colas
  <2>5. \A e \in ejecutando' : descriptor'[e] # 0
    <3>1. \A e \in ejecutando : e \in Clientes /\ descriptor[e] # 0
      BY DEF Estructura, SocketsDeCadaUno, Conjuntos, Clientes
    <3> QED BY <1>4, <1>6, <3>1
  <2> QED BY <1>1, <1>2, <1>5, <2>1, <2>2, <2>3, <2>4, <2>5 DEF SocketsDeCadaUno
<1>11. CpuEnUnaParte'
  <2>1. \A t \in Sockets : Ejecuta(t)' = Ejecuta(t) /\ ~Ejecuta(s)
    <3>1. \A e \in ejecutando : e \in Clientes /\ e # c /\ descriptor'[e] = descriptor[e]
                                /\ descriptor[e] # s
      BY <1>2, <1>6, <1>9 DEF Estructura, SocketsDeCadaUno, Conjuntos, Clientes
    <3> QED BY <3>1 DEF Ejecuta
  <2>2. /\ \A t : Hay(<<m>>, t) <=> m.tipo = t
        /\ \A t : Una(<<m>>, t)
    BY UnMensaje
  <2>3. colaCpu' = colaCpu /\ colaExec' = colaExec
    BY DEF colas
  <2> SUFFICES ASSUME NEW t \in Sockets
               PROVE
         LET q == Pendientes(t)'
         IN  /\ Una(q, "CPU") /\ Una(q, "PROGRAMATERMINADO")
             /\ Hay(q, "CPU") => ~Hay(q, "PROGRAMATERMINADO") /\ ~Ejecuta(t) /\ t \notin ToSet(colaCpu)
             /\ Hay(q, "PROGRAMATERMINADO") => ~Ejecuta(t) /\ t \notin ToSet(colaCpu)
             /\ Ejecuta(t) => t \notin ToSet(colaCpu)
             /\ Ejecuta(t) \/ Hay(q, "PROGRAMATERMINADO") => colaExec[t] # 0
    BY <2>1, <2>3 DEF CpuEnUnaParte, Estructura
  <2>4. CASE t = s
    BY <1>3, <1>8, <1>9, <2>1, <2>2, <2>4
  <2>5. CASE t # s
    BY <1>8, <2>5 DEF Estructura, CpuEnUnaParte
  <2> QED BY <2>4, <2>5
<1>12. ProgramaEnUnaParte'
  <2>1. Vivos' = Vivos
    BY DEF Vivos
  <2> QED BY <2>1, ProgramasSiguen DEF Estructura, EnAlta, colas
<1>13. Leidas'
  BY <1>1 DEF Estructura, Leidas
<1>14. Conjuntos'
  <2>1. \A t \in Sockets : EsLista(alKernel'[t])
    BY <1>7, UnMensaje DEF Estructura, Conjuntos
  <2> QED BY <1>1, <1>2, <1>6, <1>7, <2>1 DEF Estructura, Conjuntos, colas
<1> QED BY <1>10, <1>11, <1>12, <1>13, <1>14 DEF Estructura

LEMMA EntradaEstructura ==
  ASSUME Estructura, RecibeConexion \/ Recibe \/ Despierta
  PROVE  Estructura'
<1>1. /\ UNCHANGED <<leibles, colas, ejecutando, programas, cantidadDeProcesos, hilo>>
      /\ ~Ocupado
  BY DEF RecibeConexion, Recibe, Despierta, admision, clientes, Ocupado
<1>2. CASE llegadas # <<>> /\ Acepta
  BY <1>1, <1>2, AceptaEstructura
<1>3. ASSUME NEW s \in Sockets, Deserializa(s), UNCHANGED <<llegadas, descriptor>>
      PROVE  Estructura'
  BY <1>1, <1>3, LeeEstructura
<1>4. CASE RecibeConexion
  BY <1>2, <1>4 DEF RecibeConexion
<1>5. CASE Recibe
  <2>1. QuedanPorMirar \subseteq Sockets \cup {SERVIDOR} /\ QuedanPorMirar \subseteq Nat
    BY SocketsNat, AdmisionAssumption DEF Estructura, Conjuntos, QuedanPorMirar
  <2>2. Siguiente \in QuedanPorMirar
    BY <1>5, <2>1, MinEs DEF Recibe, Siguiente
  <2>3. Siguiente \in Sockets
    BY <1>5, <2>1, <2>2 DEF Recibe
  <2>4. Deserializa(Siguiente) /\ UNCHANGED <<llegadas, descriptor>>
    BY <1>5 DEF Recibe
  <2> QED BY <1>3, <2>3, <2>4
<1>6. CASE Despierta
  <2>1. paquete.socket \in Sockets \cup {SERVIDOR}
    BY <1>6 DEF Despierta, Estructura, Conjuntos
  <2>2. CASE paquete.socket = SERVIDOR /\ Acepta
    BY <1>2, <1>6, <2>2 DEF Despierta, HayAlgo
  <2>3. CASE paquete.socket # SERVIDOR /\ Deserializa(paquete.socket)
             /\ UNCHANGED <<i, llegadas, descriptor>>
    BY <1>3, <2>1, <2>3
  <2> QED BY <1>6, <2>2, <2>3 DEF Despierta
<1> QED BY <1>4, <1>5, <1>6

\* It finishes with a message and goes on with the round.
LEMMA AtiendeEstructura ==
  ASSUME Estructura, Ocupado, etapa' = "recorre",
         UNCHANGED <<leibles, red, colas, ejecutando, programas, cantidadDeProcesos, hilo>>
  PROVE  Estructura'
<1>0. paquete.socket \in Sockets /\ alKernel' = alKernel /\ etapa' # "termina"
  BY DEF Estructura, SocketsDeCadaUno, red
<1>1. /\ ~Ocupado'
      /\ \A t \in Sockets : Parte(Pendientes(t)', Pendientes(t))
  BY <1>0, PendientesAtendido DEF Estructura
<1>2. SocketsDeCadaUno'
  <2>1. /\ \A e \in ejecutando' : descriptor[e] # 0
        /\ SocketsDeCadaUno /\ descriptor' = descriptor /\ llegadas' = llegadas /\ colaCpu' = colaCpu
    BY DEF Estructura, SocketsDeCadaUno, red, colas
  <2>2. \A s \in Sockets :
          /\ s > Fdmax /\ Pendientes(s) = <<>> => Pendientes(s)' = <<>>
          /\ s \in ToSet(colaCpu') => s \in ToSet(colaCpu) \/ Pendientes(s) # <<>>
    BY <1>1, <2>1 DEF Parte
  <2> QED BY <1>1, <2>1, <2>2, SocketsSiguen
<1>3. CpuEnUnaParte'
  BY <1>1, CpusSiguen DEF Estructura, colas, red
<1>4. ProgramaEnUnaParte'
  <2>1. Vivos' = Vivos
    BY DEF Vivos
  <2> QED BY <2>1, ProgramasSiguen DEF Estructura, EnAlta, colas
<1>5. Leidas'
  BY <1>0 DEF Estructura, Leidas
<1>6. Conjuntos'
  BY <1>0 DEF Estructura, Conjuntos, colas, red
<1> QED BY <1>2, <1>3, <1>4, <1>5, <1>6 DEF Estructura

LEMMA RecibeEstructura ==
  ASSUME Estructura,
         RecibeNada \/ RecibeNoEntra \/ RecibeArchivo \/ RecibeEntra \/ RecibePaginaEnviada
  PROVE  Estructura'
<1>1. Ocupado
  BY DEF RecibeNada, RecibeNoEntra, RecibeArchivo, RecibeEntra, RecibePaginaEnviada, Trata, Ocupado
<1>2. /\ etapa' = "recorre"
      /\ UNCHANGED <<leibles, red, colas, ejecutando, programas, cantidadDeProcesos, hilo>>
  BY DEF RecibeNada, RecibeNoEntra, RecibeArchivo, RecibeEntra, RecibePaginaEnviada, Vuelve,
         admision, clientes
<1> QED BY <1>1, <1>2, AtiendeEstructura

\* i is the socket the message came by, or nothing that follows is modelled.
LEMMA SinDesvio ==
  ASSUME historia' = historia \cup Desvio, Sigue'
  PROVE  i = paquete.socket
BY DEF Sigue, Desvio

LEMMA RecibeCpuEstructura ==
  ASSUME Estructura, RecibeCpu, Sigue'
  PROVE  Estructura'
<1> DEFINE s == paquete.socket
<1>0. /\ etapa = "procesa" /\ paquete.mensaje.tipo = "CPU" /\ etapa' = "recorre" /\ Ocupado
      /\ UNCHANGED <<leibles, red, colaNew, colaExec, ejecutando, programas, cantidadDeProcesos,
                     hilo>>
      /\ colaCpu' = Append(colaCpu, i) /\ historia' = historia \cup Desvio
  BY DEF RecibeCpu, Trata, Vuelve, Ocupado, admision, clientes
<1>1. i = s /\ s \in Sockets /\ alKernel' = alKernel /\ etapa' # "termina"
  BY <1>0, SinDesvio DEF Estructura, SocketsDeCadaUno, red
<1>2. /\ ~Ocupado'
      /\ \A t \in Sockets :
           /\ Parte(Pendientes(t)', Pendientes(t)) /\ EsLista(Pendientes(t)')
           /\ t # paquete.socket => Pendientes(t)' = Pendientes(t)
           /\ t = paquete.socket => /\ Pendientes(t) = <<paquete.mensaje>> \o Pendientes(t)'
                                    /\ Pendientes(t) # <<>>
                                    /\ paquete.mensaje \in ToSet(Pendientes(t))
  BY <1>0, <1>1, PendientesAtendido DEF Estructura
<1> HIDE DEF s
<1>3. /\ Hay(Pendientes(s), "CPU") /\ Una(Pendientes(s), "CPU") /\ Pendientes(s) # <<>>
      /\ ~Hay(Pendientes(s), "PROGRAMATERMINADO") /\ ~Ejecuta(s) /\ s \notin ToSet(colaCpu)
      /\ \A t \in Sockets : t = s => Pendientes(t) = <<paquete.mensaje>> \o Pendientes(t)'
  <2>1. /\ Pendientes(s) # <<>> /\ paquete.mensaje \in ToSet(Pendientes(s))
        /\ \A t \in Sockets : t = s => Pendientes(t) = <<paquete.mensaje>> \o Pendientes(t)'
    BY <1>1, <1>2 DEF s
  <2>2. Hay(Pendientes(s), "CPU")
    BY <1>0, <2>1 DEF Hay
  <2> QED BY <1>1, <2>1, <2>2 DEF Estructura, CpuEnUnaParte
<1>4. \A t \in Sockets : t = s => ~Hay(Pendientes(t)', "CPU")
  <2> TAKE t \in Sockets
  <2> HAVE t = s
  <2>1. /\ EsLista(<<paquete.mensaje>>) /\ Hay(<<paquete.mensaje>>, "CPU")
    BY <1>0, UnMensaje
  <2>2. Una(<<paquete.mensaje>> \o Pendientes(t)', "CPU") =>
          ~(Hay(<<paquete.mensaje>>, "CPU") /\ Hay(Pendientes(t)', "CPU"))
    BY <1>2, <2>1, HayUna
  <2> QED BY <1>3, <2>1, <2>2
<1>5. /\ colaCpu' \in Seq(Sockets) /\ ToSet(colaCpu') = ToSet(colaCpu) \cup {s}
      /\ IsInjective(colaCpu')
  <2>1. colaCpu \in Seq(Sockets) /\ IsInjective(colaCpu)
    BY DEF Estructura, Conjuntos, CpuEnUnaParte
  <2> QED BY <1>0, <1>1, <1>3, <2>1, ListaAgrega
<1>6. SocketsDeCadaUno'
  <2>1. /\ \A e \in ejecutando' : descriptor[e] # 0
        /\ SocketsDeCadaUno /\ descriptor' = descriptor /\ llegadas' = llegadas
    BY <1>0 DEF Estructura, SocketsDeCadaUno, red
  <2>2. \A t \in Sockets :
          /\ t > Fdmax /\ Pendientes(t) = <<>> => Pendientes(t)' = <<>>
          /\ t \in ToSet(colaCpu') => t \in ToSet(colaCpu) \/ Pendientes(t) # <<>>
    BY <1>2, <1>3, <1>5 DEF Parte
  <2> QED BY <1>2, <2>1, <2>2, SocketsSiguen
<1>7. CpuEnUnaParte'
  <2>1. \A t \in Sockets : Ejecuta(t)' = Ejecuta(t)
    BY <1>0 DEF Ejecuta, red
  <2>2. \A t \in Sockets : \A k \in {"CPU", "PROGRAMATERMINADO"} :
          /\ Una(Pendientes(t), k) => Una(Pendientes(t)', k)
          /\ Hay(Pendientes(t)', k) => Hay(Pendientes(t), k)
    BY <1>2 DEF Parte, Clases
  <2> SUFFICES ASSUME NEW t \in Sockets
               PROVE
         LET q == Pendientes(t)'
         IN  /\ Una(q, "CPU") /\ Una(q, "PROGRAMATERMINADO")
             /\ Hay(q, "CPU") => ~Hay(q, "PROGRAMATERMINADO") /\ ~Ejecuta(t) /\ t \notin ToSet(colaCpu')
             /\ Hay(q, "PROGRAMATERMINADO") => ~Ejecuta(t) /\ t \notin ToSet(colaCpu')
             /\ Ejecuta(t) => t \notin ToSet(colaCpu')
             /\ Ejecuta(t) \/ Hay(q, "PROGRAMATERMINADO") => colaExec[t] # 0
    BY <1>0, <1>5, <2>1 DEF CpuEnUnaParte
  <2>3. CASE t = s
    BY <1>1, <1>3, <1>4, <2>2, <2>3 DEF Estructura, CpuEnUnaParte
  <2>4. CASE t # s
    BY <1>5, <2>2, <2>4 DEF Estructura, CpuEnUnaParte
  <2> QED BY <2>3, <2>4
<1>8. ProgramaEnUnaParte'
  <2>1. Vivos' = Vivos
    BY <1>0 DEF Vivos
  <2> QED BY <1>0, <2>1, ProgramasSiguen DEF Estructura, EnAlta
<1>9. Leidas'
  BY <1>0, <1>1 DEF Estructura, Leidas
<1>10. Conjuntos'
  BY <1>0, <1>1, <1>5 DEF Estructura, Conjuntos, red
<1> QED BY <1>6, <1>7, <1>8, <1>9, <1>10 DEF Estructura

LEMMA RecibeTerminadoEstructura ==
  ASSUME Estructura, RecibeTerminado, Sigue'
  PROVE  Estructura'
<1>0. /\ etapa = "procesa" /\ paquete.mensaje.tipo = "PROGRAMATERMINADO" /\ etapa' = "termina"
      /\ paquete' = [socket |-> i, mensaje |-> paquete.mensaje, leida |-> cantidadDeProcesos]
      /\ UNCHANGED <<leibles, red, colas, ejecutando, programas, cantidadDeProcesos, hilo>>
      /\ historia' = historia \cup Desvio
  BY DEF RecibeTerminado, Trata, admision, clientes
<1>1. /\ i = paquete.socket /\ paquete.socket \in Sockets /\ Ocupado /\ Ocupado'
      /\ paquete'.socket = paquete.socket /\ paquete'.mensaje = paquete.mensaje
      /\ paquete'.leida = cantidadDeProcesos
  BY <1>0, SinDesvio DEF Estructura, SocketsDeCadaUno, Ocupado
<1>2. \A t \in Sockets : Pendientes(t)' = Pendientes(t)
  BY <1>0, <1>1 DEF Pendientes, Sirve, red
<1>3. SocketsDeCadaUno'
  <2>1. /\ \A e \in ejecutando' : descriptor[e] # 0
        /\ SocketsDeCadaUno /\ descriptor' = descriptor /\ llegadas' = llegadas /\ colaCpu' = colaCpu
    BY <1>0 DEF Estructura, SocketsDeCadaUno, red, colas
  <2> QED BY <1>1, <1>2, <2>1, SocketsSiguen
<1>4. CpuEnUnaParte'
  <2>1. \A t \in Sockets : Parte(Pendientes(t)', Pendientes(t))
    BY <1>2, ParteDeSi
  <2> QED BY <1>0, <2>1, CpusSiguen DEF Estructura, colas, red
<1>5. ProgramaEnUnaParte'
  <2>1. Vivos' = Vivos
    BY <1>0 DEF Vivos
  <2> QED BY <1>0, <2>1, ProgramasSiguen DEF Estructura, EnAlta, colas
<1>6. Leidas'
  <2>1. \A t \in Sockets : t = paquete.socket => Hay(Pendientes(t)', "PROGRAMATERMINADO")
    <3> TAKE t \in Sockets
    <3> HAVE t = paquete.socket
    <3>1. EsLista(alKernel[t])
      BY DEF Estructura, Conjuntos
    <3>2. paquete.mensaje \in ToSet(<<paquete.mensaje>> \o alKernel[t])
      BY <3>1, ParteDeTodo
    <3>3. Pendientes(t) = <<paquete.mensaje>> \o alKernel[t]
      BY <1>1 DEF Pendientes, Sirve
    <3> QED BY <1>0, <1>2, <3>2, <3>3 DEF Hay
  <2>2. paquete'.socket = paquete.socket /\ paquete.socket \in Sockets
    BY <1>1
  <2>3. Hay(Pendientes(paquete.socket)', "PROGRAMATERMINADO")
    BY <2>1, <2>2
  <2> QED BY <1>0, <1>1, <2>3 DEF Estructura, Leidas
<1>7. Conjuntos'
  BY <1>0 DEF Estructura, Conjuntos, colas, red
<1> QED BY <1>3, <1>4, <1>5, <1>6, <1>7 DEF Estructura

\* The program of the CPU that said so ends.
LEMMA MuerePrograma ==
  ASSUME Estructura, Descuenta
  PROVE  \E s \in Sockets, pid \in Nat :
           /\ s = paquete.socket /\ pid = colaExec[s] /\ pid # 0
           /\ pid \in Vivos \ ToSet(colaNew) /\ Vivos' = Vivos \ {pid}
           /\ DOMAIN programas' = DOMAIN programas /\ Len(programas') = Len(programas)
           /\ EsLista(programas') /\ \A p \in DOMAIN programas' : EsPrograma(programas'[p])
           /\ \A p \in DOMAIN programas : programas'[p].de = programas[p].de
                                          /\ programas'[p].indice = programas[p].indice
           /\ \A p \in DOMAIN programas : programas'[p].paginas = programas[p].paginas
           /\ Hay(Pendientes(s), "PROGRAMATERMINADO")
           /\ colaExec' = [colaExec EXCEPT ![s] = 0] /\ colaCpu' = Append(colaCpu, s)
<1> DEFINE s == paquete.socket
           pid == colaExec[s]
<1>1. /\ colaExec' = [colaExec EXCEPT ![s] = 0] /\ colaCpu' = Append(colaCpu, s)
      /\ programas' = [programas EXCEPT ![pid].vivo = FALSE]
      /\ etapa = "termina"
  BY DEF Descuenta
<1>2. s \in Sockets /\ Hay(Pendientes(s), "PROGRAMATERMINADO")
  BY <1>1 DEF Estructura, SocketsDeCadaUno, Leidas, Ocupado
<1> HIDE DEF s
<1>3. pid \in Nat /\ pid # 0 /\ pid \in Vivos \ ToSet(colaNew)
  <2>1. pid # 0
    BY <1>2 DEF Estructura, CpuEnUnaParte
  <2> QED BY <1>2, <2>1 DEF Estructura, ProgramaEnUnaParte, Conjuntos
<1> HIDE DEF pid
<1> DEFINE x == [programas[pid] EXCEPT !.vivo = FALSE]
<1>4. pid \in DOMAIN programas /\ \A p \in DOMAIN programas : EsPrograma(programas[p])
  BY <1>3 DEF Vivos, Estructura, Conjuntos
<1>5. x = [paginas |-> programas[pid].paginas, de |-> programas[pid].de,
           indice |-> programas[pid].indice, vivo |-> FALSE]
  <2>1. programas[pid] = [paginas |-> programas[pid].paginas, de |-> programas[pid].de,
                          indice |-> programas[pid].indice, vivo |-> programas[pid].vivo]
    BY <1>4 DEF EsPrograma
  <2>2. ASSUME NEW r, NEW y, y = [r EXCEPT !.vivo = FALSE],
               r = [paginas |-> r.paginas, de |-> r.de, indice |-> r.indice, vivo |-> r.vivo]
        PROVE  y = [paginas |-> r.paginas, de |-> r.de, indice |-> r.indice, vivo |-> FALSE]
    BY <2>2
  <2> QED BY <2>1, <2>2
<1>6. programas' = [programas EXCEPT ![pid] = x]
  BY <1>1
<1>7. /\ EsPrograma(x) /\ x.vivo = FALSE /\ x.de = programas[pid].de
      /\ x.indice = programas[pid].indice /\ x.paginas = programas[pid].paginas
  BY <1>5 DEF EsPrograma
<1> HIDE DEF x
<1>8. EsLista(programas') /\ DOMAIN programas' = DOMAIN programas /\ Len(programas') = Len(programas)
  <2>1. PICK T : programas \in Seq(T)
    BY DEF Estructura, Conjuntos, EsLista
  <2> DEFINE U == T \cup {x}
  <2>2. programas \in Seq(U) /\ x \in U
    BY <2>1
  <2> HIDE DEF U
  <2>4. DOMAIN programas = 1..Len(programas) /\ Len(programas) \in Nat
        /\ \A k \in 1..Len(programas) : programas[k] \in U
    BY <2>2, LenProperties, ElementOfSeq
  <2>5. programas' \in [1..Len(programas) -> U]
    BY <1>6, <2>2, <2>4
  <2>6. programas' \in Seq(U) /\ DOMAIN programas' = DOMAIN programas /\ Len(programas') = Len(programas)
    BY <2>4, <2>5, LenProperties
  <2> QED BY <2>6 DEF EsLista
<1>9. programas'[pid] = x /\ \A p \in DOMAIN programas : p # pid => programas'[p] = programas[p]
  BY <1>4, <1>6
<1>10. \A p \in DOMAIN programas' : EsPrograma(programas'[p])
  BY <1>4, <1>7, <1>8, <1>9
<1>11. Vivos' = Vivos \ {pid}
  BY <1>7, <1>8, <1>9 DEF Vivos
<1>12. \A p \in DOMAIN programas : programas'[p].de = programas[p].de
                                   /\ programas'[p].indice = programas[p].indice
                                   /\ programas'[p].paginas = programas[p].paginas
  BY <1>7, <1>9
<1>13. s = paquete.socket /\ pid = colaExec[s]
  BY DEF s, pid
<1> QED BY <1>1, <1>2, <1>3, <1>8, <1>10, <1>11, <1>12, <1>13

LEMMA DescuentaEstructura ==
  ASSUME Estructura, Descuenta
  PROVE  Estructura'
<1>1. PICK s \in Sockets, pid \in Nat :
        /\ s = paquete.socket /\ pid = colaExec[s] /\ pid # 0
        /\ pid \in Vivos \ ToSet(colaNew) /\ Vivos' = Vivos \ {pid}
        /\ Len(programas') = Len(programas)
        /\ EsLista(programas') /\ \A p \in DOMAIN programas' : EsPrograma(programas'[p])
        /\ Hay(Pendientes(s), "PROGRAMATERMINADO")
        /\ colaExec' = [colaExec EXCEPT ![s] = 0] /\ colaCpu' = Append(colaCpu, s)
  BY MuerePrograma
<1>0. /\ etapa = "termina" /\ paquete.mensaje.tipo = "PROGRAMATERMINADO" /\ etapa' = "recorre"
      /\ Ocupado /\ cantidadDeProcesos' = paquete.leida - 1 /\ paquete.leida \in Int
      /\ UNCHANGED <<leibles, red, colaNew, ejecutando, hilo>> /\ alKernel' = alKernel
  BY DEF Descuenta, Ocupado, admision, clientes, Estructura, Leidas, red
<1>2. /\ ~Ocupado'
      /\ \A t \in Sockets :
           /\ Parte(Pendientes(t)', Pendientes(t)) /\ EsLista(Pendientes(t)')
           /\ t # s => Pendientes(t)' = Pendientes(t)
           /\ t = s => Pendientes(t) = <<paquete.mensaje>> \o Pendientes(t)' /\ Pendientes(t) # <<>>
  BY <1>0, <1>1, PendientesAtendido DEF Estructura
<1>3. /\ Una(Pendientes(s), "PROGRAMATERMINADO")
      /\ ~Hay(Pendientes(s), "CPU") /\ ~Ejecuta(s) /\ s \notin ToSet(colaCpu)
  BY <1>1 DEF Estructura, CpuEnUnaParte
<1>4. ~Hay(Pendientes(s)', "PROGRAMATERMINADO")
  <2> DEFINE q == Pendientes(s)'
  <2>0. EsLista(q) /\ Pendientes(s) = <<paquete.mensaje>> \o q
    BY <1>2
  <2> HIDE DEF q
  <2>1. EsLista(<<paquete.mensaje>>) /\ Hay(<<paquete.mensaje>>, "PROGRAMATERMINADO")
    BY <1>0, UnMensaje
  <2>2. Una(<<paquete.mensaje>> \o q, "PROGRAMATERMINADO") =>
          ~(Hay(<<paquete.mensaje>>, "PROGRAMATERMINADO") /\ Hay(q, "PROGRAMATERMINADO"))
    BY <2>0, <2>1, HayUna
  <2>3. ~Hay(q, "PROGRAMATERMINADO")
    BY <1>3, <2>0, <2>1, <2>2
  <2> QED BY <2>3 DEF q
<1>5. /\ colaCpu' \in Seq(Sockets) /\ ToSet(colaCpu') = ToSet(colaCpu) \cup {s}
      /\ IsInjective(colaCpu')
  <2>1. colaCpu \in Seq(Sockets) /\ IsInjective(colaCpu)
    BY DEF Estructura, Conjuntos, CpuEnUnaParte
  <2> QED BY <1>1, <1>3, <2>1, ListaAgrega
<1>6. /\ colaExec' \in [Sockets -> Nat] /\ colaExec'[s] = 0
      /\ \A t \in Sockets : t # s => colaExec'[t] = colaExec[t]
  BY <1>1 DEF Estructura, Conjuntos
<1>7. SocketsDeCadaUno'
  <2>1. /\ \A e \in ejecutando' : descriptor[e] # 0
        /\ SocketsDeCadaUno /\ descriptor' = descriptor /\ llegadas' = llegadas
    BY <1>0 DEF Estructura, SocketsDeCadaUno, red
  <2>2. \A t \in Sockets :
          /\ t > Fdmax /\ Pendientes(t) = <<>> => Pendientes(t)' = <<>>
          /\ t \in ToSet(colaCpu') => t \in ToSet(colaCpu) \/ Pendientes(t) # <<>>
    BY <1>2, <1>5 DEF Parte
  <2> QED BY <1>2, <2>1, <2>2, SocketsSiguen
<1>8. CpuEnUnaParte'
  <2>1. \A t \in Sockets : Ejecuta(t)' = Ejecuta(t)
    BY <1>0 DEF Ejecuta, red
  <2>2. \A t \in Sockets : \A k \in {"CPU", "PROGRAMATERMINADO"} :
          /\ Una(Pendientes(t), k) => Una(Pendientes(t)', k)
          /\ Hay(Pendientes(t)', k) => Hay(Pendientes(t), k)
    BY <1>2 DEF Parte, Clases
  <2> SUFFICES ASSUME NEW t \in Sockets
               PROVE
         LET q == Pendientes(t)'
         IN  /\ Una(q, "CPU") /\ Una(q, "PROGRAMATERMINADO")
             /\ Hay(q, "CPU") => ~Hay(q, "PROGRAMATERMINADO") /\ ~Ejecuta(t) /\ t \notin ToSet(colaCpu')
             /\ Hay(q, "PROGRAMATERMINADO") => ~Ejecuta(t) /\ t \notin ToSet(colaCpu')
             /\ Ejecuta(t) => t \notin ToSet(colaCpu')
             /\ Ejecuta(t) \/ Hay(q, "PROGRAMATERMINADO") => colaExec'[t] # 0
    BY <1>0, <1>5, <2>1 DEF CpuEnUnaParte
  <2>3. CASE t = s
    BY <1>3, <1>4, <2>2, <2>3 DEF Estructura, CpuEnUnaParte
  <2>4. CASE t # s
    BY <1>5, <1>6, <2>2, <2>4 DEF Estructura, CpuEnUnaParte
  <2> QED BY <2>3, <2>4
<1>9. ProgramaEnUnaParte'
  <2>1. ProcessID' = ProcessID /\ EnAlta' = EnAlta
    BY <1>0, <1>1 DEF ProcessID, EnAlta
  <2>2. /\ IsInjective(colaNew) /\ ToSet(colaNew) \subseteq Vivos
        /\ \A t \in Sockets : colaExec[t] # 0 => colaExec[t] \in Vivos \ ToSet(colaNew)
        /\ \A t, u \in Sockets : t # u /\ colaExec[t] = colaExec[u] => colaExec[t] = 0
        /\ EnAlta => /\ ProcessID \in Vivos \ ToSet(colaNew)
                     /\ \A t \in Sockets : colaExec[t] # ProcessID
    BY DEF Estructura, ProgramaEnUnaParte
  <2>3. \A t \in Sockets : colaExec'[t] # 0 => colaExec'[t] \in Vivos' \ ToSet(colaNew)
    <3> TAKE t \in Sockets
    <3>1. CASE t = s
      BY <3>1, <1>6
    <3>2. CASE t # s
      BY <3>2, <1>1, <1>6, <2>2
    <3> QED BY <3>1, <3>2
  <2>4. \A t, u \in Sockets : t # u /\ colaExec'[t] = colaExec'[u] => colaExec'[t] = 0
    BY <1>6, <2>2
  <2>5. EnAlta => /\ ProcessID \in Vivos' \ ToSet(colaNew)
                  /\ \A t \in Sockets : colaExec'[t] # ProcessID
    <3> SUFFICES ASSUME EnAlta, ProcessID \in DOMAIN programas
                 PROVE  /\ ProcessID \in Vivos' \ ToSet(colaNew)
                        /\ \A t \in Sockets : colaExec'[t] # ProcessID
      BY <2>2 DEF Vivos
    <3>1. 0 \notin DOMAIN programas
      BY LenProperties DEF Estructura, Conjuntos, EsLista
    <3>2. ProcessID # 0
      BY <3>1
    <3>3. ProcessID # pid
      BY <1>1, <2>2
    <3> QED BY <1>1, <1>6, <2>2, <3>2, <3>3
  <2>6. ToSet(colaNew) \subseteq Vivos'
    BY <1>1, <2>2
  <2> QED BY <1>0, <2>1, <2>2, <2>3, <2>4, <2>5, <2>6 DEF ProgramaEnUnaParte
<1>10. Leidas'
  BY <1>0 DEF Estructura, Leidas
<1>11. Conjuntos'
  BY <1>0, <1>1, <1>5, <1>6 DEF Estructura, Conjuntos, red
<1> QED BY <1>7, <1>8, <1>9, <1>10, <1>11 DEF Estructura
-----------------------------------------------------------------------------
(* cantidadDeProcesos.                                                      *)

LEMMA VivosFinitos ==
  ASSUME EsLista(programas)
  PROVE  IsFiniteSet(Vivos) /\ Cardinality(Vivos) \in Nat
<1>1. DOMAIN programas = 1..Len(programas) /\ Len(programas) \in Nat
  BY LenProperties DEF EsLista
<1>2. IsFiniteSet(1..Len(programas)) /\ Vivos \in SUBSET (1..Len(programas))
  BY <1>1, FS_Interval DEF Vivos
<1> QED BY <1>2, FS_Subset, FS_CardinalityType

\* "carrera" stays once it is there.
LEMMA CarreraQueda ==
  ASSUME NextAdmision, "carrera" \notin historia'
  PROVE  "carrera" \notin historia
<1>1. CASE HiloPrincipal
  BY <1>1 DEF HiloPrincipal, Select, FinDeVuelta, RecibeConexion, Recibe, SeBloquea, Despierta,
     RecibeNada, RecibeNoEntra, RecibeArchivo, RecibeCpu, RecibeEntra, RecibePaginaEnviada,
     RecibeTerminado, Descuenta, Vuelve
<1>2. CASE ProcesarScript
  BY <1>2 DEF ProcesarScript, TomaScript, Admite, Rechaza, Cuenta, CreaPCB, CopiaSentencia, Acepto,
     SiguePagina
<1>3. CASE \/ AtiendeMemoria \/ Despacha \/ \E c \in Clientes : Conecta(c)
           \/ \E c \in Consolas : Lanza(c) \/ Informa(c)
           \/ \E c \in Cpus : Finaliza(c)
  BY <1>3 DEF AtiendeMemoria, Despacha, Conecta, Lanza, Informa, Finaliza
<1> QED BY <1>1, <1>2, <1>3 DEF NextAdmision

\* The programs and their count, when nobody adds or takes one.
LEMMA GradoSigue ==
  ASSUME GradoContado, NextAdmision, cantidadDeProcesos' = cantidadDeProcesos, Vivos' = Vivos
  PROVE  GradoContado'
BY CarreraQueda DEF GradoContado

LEMMA CuentaGrado ==
  ASSUME GradoContado, Estructura, NextAdmision, Cuenta
  PROVE  GradoContado'
<1> SUFFICES ASSUME "carrera" \notin historia'
             PROVE  /\ cantidadDeProcesos' = Cardinality(Vivos')
                    /\ Cardinality(Vivos') <= GRADO_MULTIPROG
  BY DEF GradoContado
<1>1. "carrera" \notin historia /\ hilo.leida = cantidadDeProcesos
      /\ cantidadDeProcesos' = hilo.leida + 1 /\ hilo.leida < GRADO_MULTIPROG
  BY CarreraQueda DEF Cuenta, Carrera, Hilo, Estructura, Leidas
<1>2. cantidadDeProcesos = Cardinality(Vivos)
  BY <1>1 DEF GradoContado
<1>3. Vivos' = Vivos \cup {Len(programas) + 1} /\ Len(programas) + 1 \notin Vivos
  BY NacePrograma
<1>4. IsFiniteSet(Vivos) /\ Cardinality(Vivos) \in Nat
  BY VivosFinitos DEF Estructura, Conjuntos
<1>5. Cardinality(Vivos') = Cardinality(Vivos) + 1
  BY <1>3, <1>4, FS_AddElement
<1> QED BY <1>1, <1>2, <1>4, <1>5, AdmisionAssumption

LEMMA DescuentaGrado ==
  ASSUME GradoContado, Estructura, NextAdmision, Descuenta
  PROVE  GradoContado'
<1> SUFFICES ASSUME "carrera" \notin historia'
             PROVE  /\ cantidadDeProcesos' = Cardinality(Vivos')
                    /\ Cardinality(Vivos') <= GRADO_MULTIPROG
  BY DEF GradoContado
<1>1. "carrera" \notin historia /\ paquete.leida = cantidadDeProcesos
      /\ cantidadDeProcesos' = paquete.leida - 1
  BY CarreraQueda DEF Descuenta, Carrera
<1>2. cantidadDeProcesos = Cardinality(Vivos) /\ Cardinality(Vivos) <= GRADO_MULTIPROG
  BY <1>1 DEF GradoContado
<1>3. \E pid \in Nat : Vivos' = Vivos \ {pid} /\ pid \in Vivos
  BY MuerePrograma
<1>4. IsFiniteSet(Vivos) /\ Cardinality(Vivos) \in Nat
  BY VivosFinitos DEF Estructura, Conjuntos
<1>5. Cardinality(Vivos') = Cardinality(Vivos) - 1
  BY <1>3, <1>4, FS_RemoveElement
<1> QED BY <1>1, <1>2, <1>4, <1>5, AdmisionAssumption

LEMMA PasoGrado ==
  ASSUME InvGrado, NextAdmision
  PROVE  InvGrado'
<1>0. GradoContado /\ Estructura
  BY DEF InvGrado, NextAdmision
<1>1. CASE Cuenta
  BY <1>0, <1>1, CuentaEstructura, CuentaGrado DEF InvGrado
<1>2. CASE Descuenta
  BY <1>0, <1>2, DescuentaEstructura, DescuentaGrado DEF InvGrado
<1>3. ASSUME cantidadDeProcesos' = cantidadDeProcesos, Vivos' = Vivos, Sigue' => Estructura'
      PROVE  InvGrado'
  BY <1>0, <1>3, GradoSigue DEF InvGrado
<1>4. ASSUME UNCHANGED <<cantidadDeProcesos, programas>>, Sigue' => Estructura'
      PROVE  InvGrado'
  <2>1. Vivos' = Vivos
    BY <1>4 DEF Vivos
  <2> QED BY <1>3, <1>4, <2>1
<1>5. CASE \/ TomaScript \/ Admite \/ Rechaza \/ CreaPCB \/ Acepto
           \/ \E c \in Consolas : Informa(c)
  <2>1. UNCHANGED <<cantidadDeProcesos, programas>>
    BY <1>5 DEF TomaScript, Admite, Rechaza, CreaPCB, Acepto, Informa
  <2> QED BY <1>0, <1>4, <1>5, <2>1, SinPrograma
<1>6. CASE CopiaSentencia
  <2>1. cantidadDeProcesos' = cantidadDeProcesos /\ Vivos' = Vivos
    <3>1. /\ cantidadDeProcesos' = cantidadDeProcesos
          /\ programas' = [programas EXCEPT ![ProcessID].indice = @ \cup {i}]
          /\ \A p \in DOMAIN programas : EsPrograma(programas[p])
      BY <1>0, <1>6 DEF CopiaSentencia, Estructura, Conjuntos
    <3>2. DOMAIN programas' = DOMAIN programas
      BY <3>1
    <3>3. ASSUME NEW p \in DOMAIN programas PROVE programas'[p].vivo = programas[p].vivo
      <4> DEFINE pid == ProcessID
      <4>1. programas' = [programas EXCEPT ![pid].indice = @ \cup {i}]
        BY <3>1
      <4> HIDE DEF pid
      <4>2. programas'[p] = IF p = pid THEN [programas[p] EXCEPT !.indice = @ \cup {i}]
                            ELSE programas[p]
        BY <4>1
      <4>3. programas[p] = [paginas |-> programas[p].paginas, de |-> programas[p].de,
                            indice |-> programas[p].indice, vivo |-> programas[p].vivo]
        BY <3>1 DEF EsPrograma
      <4>4. ASSUME NEW r, NEW a, NEW b, NEW c, NEW d, NEW e,
                   r = [paginas |-> a, de |-> b, indice |-> c, vivo |-> d]
            PROVE  [r EXCEPT !.indice = e].vivo = d
        BY <4>4
      <4> QED BY <4>2, <4>3, <4>4
    <3> QED BY <3>1, <3>2, <3>3, VivosSiguen
  <2> QED BY <1>0, <1>3, <1>6, <2>1, CopiaEstructura
<1>7. CASE SiguePagina
  BY <1>0, <1>4, <1>7, SiguePaginaEstructura DEF SiguePagina
<1>8. CASE AtiendeMemoria
  BY <1>0, <1>4, <1>8, AtiendeMemoriaEstructura DEF AtiendeMemoria
<1>9. CASE Despacha
  BY <1>0, <1>4, <1>9, DespachaEstructura DEF Despacha
<1>10. ASSUME NEW c \in Clientes, Conecta(c) PROVE InvGrado'
  BY <1>0, <1>4, <1>10, ConectaEstructura DEF Conecta
<1>11. ASSUME NEW c \in Consolas, Lanza(c) PROVE InvGrado'
  BY <1>0, <1>4, <1>11, LanzaEstructura DEF Lanza
<1>12. ASSUME NEW c \in Cpus, Finaliza(c) PROVE InvGrado'
  BY <1>0, <1>4, <1>12, FinalizaEstructura DEF Finaliza
<1>13. CASE Select \/ FinDeVuelta \/ SeBloquea
  <2>1. UNCHANGED <<cantidadDeProcesos, programas>>
    BY <1>13 DEF Select, FinDeVuelta, SeBloquea
  <2> QED BY <1>0, <1>4, <1>13, <2>1, VueltaEstructura
<1>14. CASE RecibeConexion \/ Recibe \/ Despierta
  <2>1. UNCHANGED <<cantidadDeProcesos, programas>>
    BY <1>14 DEF RecibeConexion, Recibe, Despierta
  <2> QED BY <1>0, <1>4, <1>14, <2>1, EntradaEstructura
<1>15. CASE RecibeNada \/ RecibeNoEntra \/ RecibeArchivo \/ RecibeEntra \/ RecibePaginaEnviada
  <2>1. UNCHANGED <<cantidadDeProcesos, programas>>
    BY <1>15 DEF RecibeNada, RecibeNoEntra, RecibeArchivo, RecibeEntra, RecibePaginaEnviada
  <2> QED BY <1>0, <1>4, <1>15, <2>1, RecibeEstructura
<1>16. CASE RecibeCpu
  <2>1. UNCHANGED <<cantidadDeProcesos, programas>>
    BY <1>16 DEF RecibeCpu
  <2> QED BY <1>0, <1>4, <1>16, <2>1, RecibeCpuEstructura
<1>17. CASE RecibeTerminado
  <2>1. UNCHANGED <<cantidadDeProcesos, programas>>
    BY <1>17 DEF RecibeTerminado
  <2> QED BY <1>0, <1>4, <1>17, <2>1, RecibeTerminadoEstructura
<1> QED BY <1>1, <1>2, <1>5, <1>6, <1>7, <1>8, <1>9, <1>10, <1>11, <1>12, <1>13, <1>14, <1>15,
           <1>16, <1>17 DEF NextAdmision, HiloPrincipal, ProcesarScript

\* The sockets of the clients that are connected at the beginning.
LEMMA InicioDescriptor ==
  ASSUME InitAdmision
  PROVE  /\ descriptor \in [Clientes -> Nat] /\ Aceptados = ToSet(Primeros)
         /\ \A c \in Clientes : descriptor[c] = 0 \/ descriptor[c] \in SERVIDOR + 1 .. Fdmax
         /\ \A c, d \in Clientes : c # d /\ descriptor[c] = descriptor[d] => descriptor[c] = 0
<1> DEFINE n == Len(Primeros)
           orden == Primeros
           ellos == ToSet(Primeros)
<1>1. /\ orden \in Seq(Clientes) /\ n \in Nat /\ DOMAIN orden = 1..n
      /\ \A j, k \in 1..n : orden[j] = orden[k] => j = k
  <2>1. Primeros \in Seq(Clientes)
    BY AdmisionAssumption
  <2>2. \A j, k \in DOMAIN Primeros : Primeros[j] = Primeros[k] => j = k
    BY AdmisionAssumption DEF IsInjective
  <2> QED BY <2>1, <2>2, LenProperties
<1>2. descriptor = [c \in Clientes |->
          IF c \in ellos THEN SERVIDOR + SelectInSeq(orden, LAMBDA d : d = c) ELSE 0]
  BY DEF InitAdmision
<1>3. /\ ellos \in SUBSET Clientes /\ \A c \in ellos : \E j \in 1..n : orden[j] = c
      /\ \A j \in 1..n : orden[j] \in ellos
  BY <1>1 DEF ToSet
<1>4. /\ IsFiniteSet(ellos) /\ Cardinality(ellos) = n
  <2>1. IsFiniteSet(1..n) /\ Cardinality(1..n) = n
    BY <1>1, FS_Interval
  <2>2. orden \in [1..n -> ellos]
    BY <1>1, <1>3
  <2>3. orden \in Bijection(1..n, ellos)
    <3>1. orden \in Injection(1..n, ellos)
      BY <1>1, <2>2 DEF Injection, IsInjective
    <3>2. orden \in Surjection(1..n, ellos)
      BY <1>3, <2>2 DEF Surjection
    <3> QED BY <3>1, <3>2 DEF Bijection
  <2>4. ExistsBijection(1..n, ellos)
    BY <2>3 DEF ExistsBijection
  <2> QED BY <2>1, <2>4, FS_Bijection
<1>5. Len(orden) = n
  OBVIOUS
<1> HIDE DEF n, orden, ellos
<1> DEFINE pos(c) == SelectInSeq(orden, LAMBDA d : d = c)
<1>6. ASSUME NEW c \in ellos PROVE pos(c) \in 1..n /\ orden[pos(c)] = c
  <2> DEFINE I == {j \in 1..Len(orden) : orden[j] = c}
             i0 == pos(c)
  <2>1. I # {} /\ I \subseteq Nat /\ \A j \in I : j \in 1..n /\ orden[j] = c
    BY <1>3, <1>5
  <2>2. i0 = Min(I)
    BY <2>1 DEF SelectInSeq
  <2>3. Min(I) \in I
    BY <2>1, MinEs
  <2>4. i0 \in 1..n /\ orden[i0] = c
    BY <2>1, <2>2, <2>3
  <2> QED BY <2>4
<1>7. \A c \in Clientes : descriptor[c] = IF c \in ellos THEN SERVIDOR + pos(c) ELSE 0
  BY <1>2
<1>8. DOMAIN descriptor = Clientes /\ descriptor = [c \in Clientes |-> descriptor[c]]
  BY <1>2
<1> HIDE DEF pos
<1>9. \A c \in ellos : /\ descriptor[c] = SERVIDOR + pos(c) /\ descriptor[c] # 0
                          /\ descriptor[c] \in SERVIDOR + 1 .. SERVIDOR + n
                          /\ descriptor[c] \in Nat
  <2> TAKE c \in ellos
  <2>1. pos(c) \in 1..n /\ SERVIDOR \in Nat /\ descriptor[c] = SERVIDOR + pos(c)
    BY <1>1, <1>6, <1>7, AdmisionAssumption
  <2> QED BY <1>1, <2>1
<1>10. \A c \in Clientes : c \notin ellos => descriptor[c] = 0
  BY <1>7
<1>11. Aceptados = ellos /\ Fdmax = SERVIDOR + n
  <2>1. Aceptados = ellos
    BY <1>3, <1>9, <1>10 DEF Aceptados
  <2> QED BY <1>4, <2>1 DEF Fdmax
<1>12. descriptor \in [Clientes -> Nat]
  BY <1>8, <1>9, <1>10
<1>13. \A c, d \in Clientes : c # d /\ descriptor[c] = descriptor[d] => descriptor[c] = 0
  <2> SUFFICES ASSUME NEW c \in ellos, NEW d \in ellos, descriptor[c] = descriptor[d]
               PROVE  c = d
    BY <1>3, <1>9, <1>10
  <2>1. /\ pos(c) \in 1..n /\ pos(d) \in 1..n /\ orden[pos(c)] = c /\ orden[pos(d)] = d
        /\ SERVIDOR + pos(c) = SERVIDOR + pos(d) /\ SERVIDOR \in Nat
    BY <1>6, <1>9, AdmisionAssumption
  <2>2. pos(c) = pos(d)
    BY <1>1, <2>1
  <2> QED BY <2>1, <2>2
<1> QED BY <1>9, <1>10, <1>11, <1>12, <1>13 DEF ellos

LEMMA InicioFdmax == InitAdmision => Fdmax \in Nat
<1> SUFFICES ASSUME InitAdmision PROVE Fdmax \in Nat
  OBVIOUS
<1>1. Aceptados \subseteq Clientes /\ IsFiniteSet(Clientes)
  BY FS_Union, AdmisionAssumption DEF Aceptados, Clientes
<1> QED BY <1>1, FS_Subset, FS_CardinalityType, AdmisionAssumption DEF Fdmax

\* What the first CPUs say that they are is all that there is to be read.
LEMMA InicioPendientes ==
  ASSUME InitAdmision, ~Ocupado, NEW s \in Sockets
  PROVE  /\ Pendientes(s) = alKernel[s] /\ EsLista(alKernel[s])
         /\ Pendientes(s) = <<>> \/ \E c \in Cpus : descriptor[c] = s
         /\ \A t : Una(Pendientes(s), t) /\ (Hay(Pendientes(s), t) => t = "CPU")
         /\ \A m \in ToSet(Pendientes(s)) : m.tipo = "CPU"
<1> DEFINE m0 == Mensaje("CPU")
           q == alKernel[s]
<1>1. Pendientes(s) = q
  BY DEF Pendientes, Sirve
<1>2. q = <<>> \/ (q = <<m0>> /\ \E c \in Cpus : descriptor[c] = s)
  BY DEF InitAdmision
<1>3. m0.tipo = "CPU"
  BY DEF Mensaje
<1> HIDE DEF m0, q
<1>4. EsLista(q) /\ \A t : Una(q, t) /\ (Hay(q, t) => t = "CPU")
  <2>1. CASE q = <<>>
    BY <2>1, Vacia DEF Hay, Una
  <2>2. CASE q = <<m0>>
    BY <1>3, <2>2, UnMensaje
  <2> QED BY <1>2, <2>1, <2>2
<1>5. \A m \in ToSet(q) : m.tipo = "CPU"
  BY <1>4 DEF Hay
<1> QED BY <1>1, <1>2, <1>4, <1>5 DEF q

LEMMA InicioEstructura ==
  ASSUME InitAdmision
  PROVE  Estructura /\ Vivos = {1} /\ cantidadDeProcesos = 1
<1>1. /\ leibles = {} /\ etapa = "select" /\ llegadas = <<>> /\ ejecutando = {}
      /\ alKernel = [s \in Sockets |->
                       IF \E c \in Cpus : descriptor[c] = s THEN <<Mensaje("CPU")>> ELSE <<>>]
      /\ hilo = [etapa |-> "espera"]
      /\ cantidadDeProcesos = 1
      /\ colaNew = <<1>> /\ colaCpu = <<>> /\ colaExec = [s \in Sockets |-> 0]
  BY DEF InitAdmision
<1>2. ~Ocupado /\ ~EnAlta /\ hilo.etapa # "cuenta" /\ etapa # "termina" /\ etapa # "bloqueado"
  BY <1>1 DEF Ocupado, EnAlta
<1>3. \A s \in Sockets :
        /\ Pendientes(s) = alKernel[s] /\ EsLista(alKernel[s])
        /\ Pendientes(s) = <<>> \/ \E c \in Cpus : descriptor[c] = s
        /\ \A t : Una(Pendientes(s), t) /\ (Hay(Pendientes(s), t) => t = "CPU")
  BY <1>2, InicioPendientes
<1>4. /\ ToSet(colaNew) = {1} /\ IsInjective(colaNew) /\ colaNew \in Seq(Nat)
      /\ ToSet(colaCpu) = {} /\ IsInjective(colaCpu) /\ colaCpu \in Seq(Sockets)
      /\ ToSet(llegadas) = {} /\ IsInjective(llegadas) /\ llegadas \in Seq(Clientes)
  <2>1. DOMAIN <<>> = {} /\ DOMAIN <<1>> = {1} /\ ToSet(<<1>>) = {1}
    BY DEF ToSet
  <2>2. ToSet(<<>>) = {} /\ \A S : <<>> \in Seq(S)
    BY Vacia
  <2>3. <<1>> \in Seq(Nat)
    OBVIOUS
  <2>4. IsInjective(<<>>) /\ IsInjective(<<1>>)
    BY <2>1 DEF IsInjective
  <2> QED BY <1>1, <2>1, <2>2, <2>3, <2>4
<1>5. EsLista(programas) /\ DOMAIN programas = {1} /\ EsPrograma(programas[1]) /\ programas[1].vivo = TRUE
  <2>1. PICK c \in ToSet(Primeros) \cap Consolas :
          programas = <<[Programa(Paginas[c], <<c, 1>>) EXCEPT !.indice = 0 .. INSTRUCCIONES - 1]>>
    BY DEF InitAdmision
  <2> DEFINE x == [Programa(Paginas[c], <<c, 1>>) EXCEPT !.indice = 0 .. INSTRUCCIONES - 1]
  <2>2. x = [paginas |-> Paginas[c], de |-> <<c, 1>>, indice |-> 0 .. INSTRUCCIONES - 1, vivo |-> TRUE]
    <3> DEFINE r == Programa(Paginas[c], <<c, 1>>)
               e == 0 .. INSTRUCCIONES - 1
    <3>1. r = [paginas |-> Paginas[c], de |-> <<c, 1>>, indice |-> {}, vivo |-> TRUE]
      BY DEF Programa
    <3>2. x = [r EXCEPT !.indice = e]
      OBVIOUS
    <3> HIDE DEF x, r, e
    <3>3. x = [paginas |-> Paginas[c], de |-> <<c, 1>>, indice |-> e, vivo |-> TRUE]
      BY <3>1, <3>2
    <3> QED BY <3>3 DEF e
  <2>3. EsPrograma(x) /\ x.vivo = TRUE
    BY <2>2 DEF EsPrograma
  <2> HIDE DEF x
  <2>4. programas = <<x>>
    BY <2>1 DEF x
  <2> QED BY <2>3, <2>4, UnMensaje
<1>6. Vivos = {1}
  BY <1>5 DEF Vivos
<1>12. ASSUME NEW s \in Sockets, s > Fdmax PROVE Pendientes(s) = <<>>
  <2> SUFFICES ASSUME NEW c \in Cpus, descriptor[c] = s PROVE FALSE
    BY <1>3
  <2>1. c \in Clientes /\ s # 0 /\ Fdmax \in Int
    BY SocketsNat, InicioFdmax DEF Clientes
  <2>2. descriptor[c] \in SERVIDOR + 1 .. Fdmax
    BY <2>1, InicioDescriptor
  <2> QED BY <1>12, <2>1, <2>2
<1>7. SocketsDeCadaUno
  BY <1>1, <1>2, <1>3, <1>4, <1>12, InicioDescriptor DEF SocketsDeCadaUno
<1>8. CpuEnUnaParte
  <2>1. \A s \in Sockets : /\ Una(Pendientes(s), "CPU") /\ Una(Pendientes(s), "PROGRAMATERMINADO")
                           /\ ~Hay(Pendientes(s), "PROGRAMATERMINADO") /\ ~Ejecuta(s)
                           /\ s \notin ToSet(colaCpu)
    BY <1>1, <1>3, <1>4 DEF Ejecuta
  <2> QED BY <1>4, <2>1 DEF CpuEnUnaParte
<1>9. ProgramaEnUnaParte
  BY <1>1, <1>2, <1>4, <1>6 DEF ProgramaEnUnaParte
<1>10. Leidas
  BY <1>1, <1>2 DEF Leidas
<1>11. Conjuntos
  <2>1. \A p \in DOMAIN programas : EsPrograma(programas[p])
    BY <1>5
  <2>2. colaExec \in [Sockets -> Nat] /\ DOMAIN alKernel = Sockets
    BY <1>1
  <2> QED BY <1>1, <1>2, <1>3, <1>4, <1>5, <2>1, <2>2, InicioDescriptor DEF Conjuntos
<1> QED BY <1>1, <1>6, <1>7, <1>8, <1>9, <1>10, <1>11 DEF Estructura

\* A step that changes nothing.
LEMMA QuietoGrado ==
  ASSUME InvGrado, UNCHANGED vars
  PROVE  InvGrado'
<1>1. /\ UNCHANGED <<leibles, etapa, paquete, red, colas, ejecutando, programas,
                     cantidadDeProcesos, hilo>>
      /\ historia' = historia
  BY DEF vars, kernel, clientes, admision
<1>2. Vivos' = Vivos /\ Sigue' = Sigue
  BY <1>1 DEF Vivos, Sigue
<1>3. GradoContado'
  BY <1>1, <1>2 DEF InvGrado, GradoContado
<1>4. ASSUME Sigue PROVE Estructura'
  <2>1. Estructura
    BY <1>4 DEF InvGrado
  <2>2. hilo'.etapa = "cuenta" => hilo'.leida \in Int /\ hilo'.leida < GRADO_MULTIPROG
    BY <1>1, <2>1 DEF Estructura, Leidas
  <2>3. EnAlta' => EnAlta
    BY <1>1 DEF EnAlta
  <2> QED BY <1>1, <2>1, <2>2, <2>3, HiloEstructura
<1> QED BY <1>2, <1>3, <1>4 DEF InvGrado

\* cantidadDeProcesos counts the programs that were admitted and did not end, and
\* they are never more than GRADO_MULTIPROG (procesarScript and PROGRAMATERMINADO),
\* unless the two threads count at the same time.
THEOREM GradoSiempreContado == SpecAdmision => []GradoContado
<1>1. InitAdmision => InvGrado
  <2> SUFFICES ASSUME InitAdmision PROVE InvGrado
    OBVIOUS
  <2>1. Estructura /\ Vivos = {1} /\ cantidadDeProcesos = 1
    BY InicioEstructura
  <2>2. Cardinality({1}) = 1
    BY FS_Singleton
  <2>3. GradoContado
    BY <2>1, <2>2, AdmisionAssumption DEF GradoContado
  <2> QED BY <2>1, <2>3 DEF InvGrado
<1>2. InvGrado /\ [NextAdmision]_vars => InvGrado'
  BY PasoGrado, QuietoGrado
<1>3. InvGrado => GradoContado
  BY DEF InvGrado
<1> QED BY <1>1, <1>2, <1>3, PTL DEF SpecAdmision
-----------------------------------------------------------------------------
(* The pid that a console shows.                                            *)

LEMMA ScriptSigue ==
  ASSUME ScriptEnUnaParte, consola' = consola, unScript' = unScript,
         semUnScript' \in {0, 1}, semUnScript' = 1 => hilo'.etapa = "espera", Tramite' => Tramite,
         \A c \in Consolas : descriptor[c] # 0 => descriptor'[c] = descriptor[c],
         \A s \in Sockets :
           /\ Una(Pendientes(s), "ARCHIVO") => Una(Pendientes(s)', "ARCHIVO")
           /\ \A m \in ToSet(Pendientes(s)') : m.tipo = "ARCHIVO" => m \in ToSet(Pendientes(s))
  PROVE  ScriptEnUnaParte'
<1>1. \A c \in Consolas : EnTramite(c)' => EnTramite(c)
  BY DEF EnTramite
<1>2. Tramite' =>
        \E c \in Consolas : /\ unScript'.de = <<c, consola'[c].lanzados>> /\ consola'[c].espera
                            /\ unScript'.socket = descriptor'[c] /\ descriptor'[c] # 0
  BY DEF ScriptEnUnaParte
<1>3. ASSUME NEW s \in Sockets, NEW m \in ToSet(Pendientes(s)'), m.tipo = "ARCHIVO"
      PROVE  \E c \in Consolas : /\ descriptor'[c] = s /\ m.de = <<c, consola'[c].lanzados>>
                                 /\ consola'[c].espera /\ consola'[c].semPidListo = 0
                                 /\ ~EnTramite(c)'
  <2>1. PICK c \in Consolas : /\ descriptor[c] = s /\ m.de = <<c, consola[c].lanzados>>
                              /\ consola[c].espera /\ consola[c].semPidListo = 0
                              /\ ~EnTramite(c)
    BY <1>3 DEF ScriptEnUnaParte
  <2>2. descriptor'[c] = s
    BY <2>1, SocketsNat
  <2> QED BY <1>1, <2>1, <2>2
<1>4. \A s \in Sockets : Una(Pendientes(s)', "ARCHIVO")
  BY DEF ScriptEnUnaParte
<1>5. /\ DOMAIN consola = Consolas /\ \A c \in Consolas : EsConsola(consola[c])
      /\ \A c \in Consolas :
           /\ consola[c].semPidListo \in {0, 1}
           /\ consola[c].semPidListo = 1 => consola[c].espera /\ ~EnTramite(c)'
  BY <1>1 DEF ScriptEnUnaParte
<1> QED BY <1>2, <1>3, <1>4, <1>5 DEF ScriptEnUnaParte

\* No script comes, nor does the script thread do anything.
LEMMA ScriptQuieto ==
  ASSUME ScriptEnUnaParte, UNCHANGED <<consola, unScript, semUnScript, hilo>>,
         \A c \in Consolas : descriptor[c] # 0 => descriptor'[c] = descriptor[c],
         \A s \in Sockets :
           /\ Una(Pendientes(s), "ARCHIVO") => Una(Pendientes(s)', "ARCHIVO")
           /\ \A m \in ToSet(Pendientes(s)') : m.tipo = "ARCHIVO" => m \in ToSet(Pendientes(s))
  PROVE  ScriptEnUnaParte'
<1>1. /\ semUnScript' \in {0, 1} /\ (semUnScript' = 1 => hilo'.etapa = "espera")
      /\ (Tramite' => Tramite)
  BY DEF ScriptEnUnaParte, Tramite
<1> QED BY <1>1, ScriptSigue

LEMMA PidsSiguen ==
  ASSUME PidsDeCadaUno, consola' = consola,
         unScript' = unScript \/ hilo'.etapa \notin {"crea", "copia"},
         DOMAIN programas' = DOMAIN programas, Len(programas') = Len(programas),
         \A p \in DOMAIN programas : programas'[p].de = programas[p].de
                                     /\ programas'[p].indice = programas[p].indice,
         hilo'.etapa \in {"crea", "copia"} => hilo'.etapa = hilo.etapa,
         "cruzado" \in historia => "cruzado" \in historia',
         hilo'.etapa = "copia" => "cruzado" \in historia' \/ (etapa' = etapa /\ i' = i)
  PROVE  PidsDeCadaUno'
<1>0. ProcessID' = ProcessID /\ \A c \in Consolas : Contestada(c)' = Contestada(c)
  BY DEF ProcessID, Contestada
<1>1. ASSUME NEW c \in Consolas, Contestada(c)', consola'[c].pidActual > 0,
             consola'[c].lanzados > 0
      PROVE  /\ consola'[c].pidActual \in DOMAIN programas'
             /\ programas'[consola'[c].pidActual].de = <<c, consola'[c].lanzados>>
             /\ hilo'.etapa \in {"crea", "copia"} => consola'[c].pidActual # ProcessID'
             /\ "cruzado" \notin historia' =>
                  programas'[consola'[c].pidActual].indice = 0 .. INSTRUCCIONES - 1
  BY <1>0, <1>1 DEF PidsDeCadaUno
<1>2. ASSUME hilo'.etapa \in {"crea", "copia"}
      PROVE  ProcessID' \in DOMAIN programas' /\ programas'[ProcessID'].de = unScript'.de
  BY <1>0, <1>2 DEF PidsDeCadaUno
<1>3. ASSUME hilo'.etapa = "crea" PROVE programas'[ProcessID'].indice = {}
  BY <1>0, <1>3 DEF PidsDeCadaUno
<1>4. ASSUME hilo'.etapa = "copia", "cruzado" \notin historia'
      PROVE  /\ etapa' = "select" /\ i' \in Nat /\ i' <= INSTRUCCIONES
             /\ programas'[ProcessID'].indice = 0 .. i' - 1
  BY <1>0, <1>4 DEF PidsDeCadaUno
<1> QED BY <1>1, <1>2, <1>3, <1>4 DEF PidsDeCadaUno

\* A step that leaves the programs, the consoles and the script thread alone, and
\* the main thread too, unless crearPCB is not running or was crossed.
LEMMA PidsQuietos ==
  ASSUME PidsDeCadaUno, UNCHANGED <<consola, hilo, programas>>,
         unScript' = unScript \/ hilo'.etapa \notin {"crea", "copia"},
         "cruzado" \in historia => "cruzado" \in historia',
         hilo'.etapa = "copia" => "cruzado" \in historia' \/ (etapa' = etapa /\ i' = i)
  PROVE  PidsDeCadaUno'
BY PidsSiguen

\* What a step keeps of where the scripts are and of what the consoles show.
Scripts == ScriptEnUnaParte /\ PidsDeCadaUno

LEMMA ParteArchivos ==
  ASSUME NEW q, NEW p, Parte(q, p)
  PROVE  /\ Una(p, "ARCHIVO") => Una(q, "ARCHIVO")
         /\ \A m \in ToSet(q) : m.tipo = "ARCHIVO" => m \in ToSet(p)
BY DEF Parte, Clases

\* crearPCB is crossed by whatever the main thread does while it copies, but to begin
\* a round, which crosses it too.
LEMMA PrincipalCruza ==
  ASSUME PidsDeCadaUno, HiloPrincipal
  PROVE  /\ "cruzado" \in historia => "cruzado" \in historia'
         /\ hilo'.etapa = "copia" => "cruzado" \in historia'
<1>1. "cruzado" \in historia => "cruzado" \in historia'
  BY DEF HiloPrincipal, Select, FinDeVuelta, RecibeConexion, Recibe, SeBloquea, Despierta,
     RecibeNada, RecibeNoEntra, RecibeArchivo, RecibeCpu, RecibeEntra, RecibePaginaEnviada,
     RecibeTerminado, Descuenta, Vuelve
<1>2. hilo' = hilo
  BY DEF HiloPrincipal, Select, FinDeVuelta, RecibeConexion, Recibe, SeBloquea, Despierta,
     RecibeNada, RecibeNoEntra, RecibeArchivo, RecibeCpu, RecibeEntra, RecibePaginaEnviada,
     RecibeTerminado, Descuenta, Vuelve, admision
<1>3. CASE Select
  BY <1>1, <1>2, <1>3 DEF Select
<1>4. CASE ~Select
  <2>1. etapa # "select"
    BY <1>4 DEF HiloPrincipal, FinDeVuelta, RecibeConexion, Recibe, SeBloquea, Despierta,
       RecibeNada, RecibeNoEntra, RecibeArchivo, RecibeCpu, RecibeEntra, RecibePaginaEnviada,
       RecibeTerminado, Descuenta, Trata
  <2> QED BY <1>1, <1>2, <2>1 DEF PidsDeCadaUno
<1> QED BY <1>1, <1>3, <1>4

\* The main thread, with the messages that are left.
LEMMA PrincipalScripts ==
  ASSUME Scripts, HiloPrincipal, UNCHANGED <<consola, hilo, programas, unScript, semUnScript>>,
         \A c \in Consolas : descriptor[c] # 0 => descriptor'[c] = descriptor[c],
         \A s \in Sockets :
           /\ Una(Pendientes(s), "ARCHIVO") => Una(Pendientes(s)', "ARCHIVO")
           /\ \A m \in ToSet(Pendientes(s)') : m.tipo = "ARCHIVO" => m \in ToSet(Pendientes(s))
  PROVE  Scripts'
<1>1. PidsDeCadaUno'
  BY PrincipalCruza, PidsQuietos DEF Scripts
<1>2. ScriptEnUnaParte'
  BY ScriptQuieto DEF Scripts
<1> QED BY <1>1, <1>2 DEF Scripts

LEMMA PrincipalIgual ==
  ASSUME Scripts, HiloPrincipal,
         UNCHANGED <<consola, hilo, programas, unScript, semUnScript, descriptor>>,
         \A s \in Sockets : Parte(Pendientes(s)', Pendientes(s))
  PROVE  Scripts'
<1>1. \A s \in Sockets :
        /\ Una(Pendientes(s), "ARCHIVO") => Una(Pendientes(s)', "ARCHIVO")
        /\ \A m \in ToSet(Pendientes(s)') : m.tipo = "ARCHIVO" => m \in ToSet(Pendientes(s))
  BY ParteArchivos
<1> QED BY <1>1, PrincipalScripts

LEMMA VueltaScripts ==
  ASSUME Estructura, Scripts, Select \/ FinDeVuelta \/ SeBloquea
  PROVE  Scripts'
<1>1. /\ UNCHANGED <<red, consola, hilo, programas, unScript, semUnScript>>
      /\ ~Ocupado /\ Ocupado' = Ocupado /\ HiloPrincipal
  BY DEF Select, FinDeVuelta, SeBloquea, admision, clientes, Ocupado, HiloPrincipal
<1>2. \A s \in Sockets : Parte(Pendientes(s)', Pendientes(s))
  BY <1>1, PendientesIgual, ParteDeSi DEF red
<1> QED BY <1>1, <1>2, PrincipalIgual DEF red

LEMMA AceptaScripts ==
  ASSUME Estructura, Scripts, HiloPrincipal, llegadas # <<>>, ~Ocupado, Acepta,
         UNCHANGED <<consola, hilo, programas, unScript, semUnScript>>
  PROVE  Scripts'
<1> DEFINE c == Head(llegadas)
           s == Fdmax + 1
           m == Mensaje(IF c \in Cpus THEN "CPU" ELSE "CONSOLA")
<1>1. /\ descriptor' = [descriptor EXCEPT ![c] = s]
      /\ alKernel' = [alKernel EXCEPT ![s] = <<m>>] /\ ~Ocupado'
  BY DEF Acepta, Ocupado
<1>2. descriptor[c] = 0 /\ descriptor \in [Clientes -> Nat] /\ DOMAIN alKernel = Sockets
  <2>1. llegadas \in Seq(Clientes) /\ \A d \in ToSet(llegadas) : descriptor[d] = 0
    BY DEF Estructura, Conjuntos, SocketsDeCadaUno
  <2> QED BY <2>1, ListaSaca DEF Estructura, Conjuntos
<1>3. m.tipo # "ARCHIVO"
  BY DEF Mensaje
<1> HIDE DEF c, s, m
<1>4. \A d \in Consolas : descriptor[d] # 0 => descriptor'[d] = descriptor[d]
  BY <1>1, <1>2 DEF Clientes
<1>5. ASSUME NEW t \in Sockets
      PROVE  /\ Una(Pendientes(t), "ARCHIVO") => Una(Pendientes(t)', "ARCHIVO")
             /\ \A x \in ToSet(Pendientes(t)') : x.tipo = "ARCHIVO" => x \in ToSet(Pendientes(t))
  <2>1. Pendientes(t) = alKernel[t] /\ Pendientes(t)' = alKernel'[t]
    BY <1>1 DEF Pendientes, Sirve
  <2>2. CASE t = s
    <3>1. Pendientes(t)' = <<m>>
      BY <1>1, <1>2, <2>1, <2>2
    <3>2. ToSet(<<m>>) = {m} /\ Una(<<m>>, "ARCHIVO")
      BY UnMensaje
    <3> QED BY <1>3, <3>1, <3>2
  <2>3. CASE t # s
    BY <1>1, <1>2, <2>1, <2>3
  <2> QED BY <2>2, <2>3
<1> QED BY <1>4, <1>5, PrincipalScripts

LEMMA EntradaScripts ==
  ASSUME Estructura, Scripts, RecibeConexion \/ Recibe \/ Despierta
  PROVE  Scripts'
<1>1. /\ UNCHANGED <<consola, hilo, programas, unScript, semUnScript>>
      /\ ~Ocupado /\ HiloPrincipal
  BY DEF RecibeConexion, Recibe, Despierta, admision, clientes, Ocupado, HiloPrincipal
<1>2. CASE llegadas # <<>> /\ Acepta
  BY <1>1, <1>2, AceptaScripts
<1>3. ASSUME NEW s \in Sockets, Deserializa(s), UNCHANGED <<llegadas, descriptor>>
      PROVE  Scripts'
  <2>1. \A t \in Sockets : Parte(Pendientes(t)', Pendientes(t))
    BY <1>1, <1>3, PendientesLeido, ParteDeSi DEF Estructura
  <2> QED BY <1>1, <1>3, <2>1, PrincipalIgual
<1>4. CASE RecibeConexion
  BY <1>2, <1>4 DEF RecibeConexion
<1>5. CASE Recibe
  <2>1. QuedanPorMirar \subseteq Sockets \cup {SERVIDOR} /\ QuedanPorMirar \subseteq Nat
    BY SocketsNat, AdmisionAssumption DEF Estructura, Conjuntos, QuedanPorMirar
  <2>2. Siguiente \in QuedanPorMirar
    BY <1>5, <2>1, MinEs DEF Recibe, Siguiente
  <2>3. Siguiente \in Sockets
    BY <1>5, <2>1, <2>2 DEF Recibe
  <2>4. Deserializa(Siguiente) /\ UNCHANGED <<llegadas, descriptor>>
    BY <1>5 DEF Recibe
  <2> QED BY <1>3, <2>3, <2>4
<1>6. CASE Despierta
  <2>1. paquete.socket \in Sockets \cup {SERVIDOR}
    BY <1>6 DEF Despierta, Estructura, Conjuntos
  <2>2. CASE paquete.socket = SERVIDOR /\ Acepta
    BY <1>2, <1>6, <2>2 DEF Despierta, HayAlgo
  <2>3. CASE paquete.socket # SERVIDOR /\ Deserializa(paquete.socket)
             /\ UNCHANGED <<i, llegadas, descriptor>>
    BY <1>3, <2>1, <2>3
  <2> QED BY <1>6, <2>2, <2>3 DEF Despierta
<1> QED BY <1>4, <1>5, <1>6

\* Any message but ARCHIVO.
LEMMA AtiendeScripts ==
  ASSUME Estructura, Scripts,
         RecibeNada \/ RecibeNoEntra \/ RecibeCpu \/ RecibeEntra \/ RecibePaginaEnviada
  PROVE  Scripts'
<1>1. /\ Ocupado /\ HiloPrincipal /\ etapa' = "recorre"
      /\ UNCHANGED <<consola, hilo, programas, unScript, semUnScript, red>>
  BY DEF RecibeNada, RecibeNoEntra, RecibeCpu, RecibeEntra, RecibePaginaEnviada, Vuelve, Trata,
     Ocupado, HiloPrincipal, admision, clientes
<1>2. paquete.socket \in Sockets /\ alKernel' = alKernel /\ descriptor' = descriptor
  BY <1>1 DEF Estructura, SocketsDeCadaUno, red
<1>3. \A t \in Sockets : Parte(Pendientes(t)', Pendientes(t))
  BY <1>1, <1>2, PendientesAtendido DEF Estructura
<1> QED BY <1>1, <1>2, <1>3, PrincipalIgual

LEMMA RecibeTerminadoScripts ==
  ASSUME Estructura, Scripts, RecibeTerminado, Sigue'
  PROVE  Scripts'
<1>0. /\ etapa = "procesa" /\ etapa' = "termina"
      /\ paquete' = [socket |-> i, mensaje |-> paquete.mensaje, leida |-> cantidadDeProcesos]
      /\ UNCHANGED <<consola, hilo, programas, unScript, semUnScript, red>>
      /\ historia' = historia \cup Desvio /\ HiloPrincipal
  BY DEF RecibeTerminado, Trata, admision, clientes, HiloPrincipal
<1>1. /\ i = paquete.socket /\ Ocupado /\ Ocupado'
      /\ paquete'.socket = paquete.socket /\ paquete'.mensaje = paquete.mensaje
  BY <1>0, SinDesvio DEF Ocupado
<1>2. \A t \in Sockets : Pendientes(t)' = Pendientes(t)
  BY <1>0, <1>1 DEF Pendientes, Sirve, red
<1>3. \A t \in Sockets : Parte(Pendientes(t)', Pendientes(t))
  BY <1>2, ParteDeSi
<1> QED BY <1>0, <1>3, PrincipalIgual DEF red

LEMMA DescuentaScripts ==
  ASSUME Estructura, Scripts, Descuenta
  PROVE  Scripts'
<1>1. /\ DOMAIN programas' = DOMAIN programas /\ Len(programas') = Len(programas)
      /\ \A p \in DOMAIN programas : programas'[p].de = programas[p].de
                                     /\ programas'[p].indice = programas[p].indice
  BY MuerePrograma
<1>2. /\ Ocupado /\ HiloPrincipal /\ etapa' = "recorre"
      /\ UNCHANGED <<consola, hilo, unScript, semUnScript, red>>
  BY DEF Descuenta, Ocupado, HiloPrincipal, admision, clientes
<1>3. paquete.socket \in Sockets /\ alKernel' = alKernel /\ descriptor' = descriptor
  BY <1>2 DEF Estructura, SocketsDeCadaUno, red
<1>4. \A t \in Sockets : Parte(Pendientes(t)', Pendientes(t))
  BY <1>2, <1>3, PendientesAtendido DEF Estructura
<1>5. \A s \in Sockets :
        /\ Una(Pendientes(s), "ARCHIVO") => Una(Pendientes(s)', "ARCHIVO")
        /\ \A m \in ToSet(Pendientes(s)') : m.tipo = "ARCHIVO" => m \in ToSet(Pendientes(s))
  BY <1>4, ParteArchivos
<1>6. ScriptEnUnaParte'
  BY <1>2, <1>3, <1>5, ScriptQuieto DEF Scripts
<1>7. PidsDeCadaUno'
  BY <1>1, <1>2, PrincipalCruza, PidsSiguen DEF Scripts
<1> QED BY <1>6, <1>7 DEF Scripts

\* ARCHIVO: the script that its console sent last becomes unScript, and no other is.
LEMMA RecibeArchivoScripts ==
  ASSUME Estructura, Scripts, RecibeArchivo, Sigue'
  PROVE  Scripts'
<1> DEFINE s == paquete.socket
           m == paquete.mensaje
<1>0. /\ etapa = "procesa" /\ etapa' = "recorre" /\ Ocupado /\ HiloPrincipal
      /\ m.tipo = "ARCHIVO"
      /\ unScript' = [socket |-> i, paginas |-> m.paginas, de |-> m.de]
      /\ semUnScript' = semUnScript + 1
      /\ UNCHANGED <<consola, hilo, programas, red>>
  BY DEF RecibeArchivo, Trata, Ocupado, HiloPrincipal, clientes
<1>1. i = s /\ ~(semUnScript > 0) /\ hilo.etapa = "espera"
  BY DEF RecibeArchivo, Sigue, Desvio
<1>2. s \in Sockets /\ alKernel' = alKernel /\ descriptor' = descriptor
  BY <1>0 DEF Estructura, SocketsDeCadaUno, red
<1>3. \A t \in Sockets :
        /\ Parte(Pendientes(t)', Pendientes(t)) /\ EsLista(Pendientes(t)')
        /\ t = s => Pendientes(t) = <<m>> \o Pendientes(t)' /\ m \in ToSet(Pendientes(t))
  BY <1>0, <1>2, PendientesAtendido DEF Estructura
<1> HIDE DEF s, m
<1>4. \A t \in Sockets :
        /\ Una(Pendientes(t), "ARCHIVO") => Una(Pendientes(t)', "ARCHIVO")
        /\ \A x \in ToSet(Pendientes(t)') : x.tipo = "ARCHIVO" => x \in ToSet(Pendientes(t))
  BY <1>3, ParteArchivos
<1>5. \A t \in Sockets : t = s => ~Hay(Pendientes(t)', "ARCHIVO")
  <2> TAKE t \in Sockets
  <2> HAVE t = s
  <2>1. EsLista(<<m>>) /\ Hay(<<m>>, "ARCHIVO")
    BY <1>0, UnMensaje
  <2>2. Una(<<m>> \o Pendientes(t)', "ARCHIVO") =>
          ~(Hay(<<m>>, "ARCHIVO") /\ Hay(Pendientes(t)', "ARCHIVO"))
    BY <1>3, <2>1, HayUna
  <2>3. Una(Pendientes(t), "ARCHIVO")
    BY DEF Scripts, ScriptEnUnaParte
  <2> QED BY <1>3, <2>1, <2>2, <2>3
<1>6. PICK c \in Consolas : /\ descriptor[c] = s /\ m.de = <<c, consola[c].lanzados>>
                            /\ consola[c].espera /\ consola[c].semPidListo = 0
  BY <1>0, <1>2, <1>3 DEF Scripts, ScriptEnUnaParte
<1>7. semUnScript' = 1 /\ ~Tramite
  BY <1>0, <1>1 DEF Scripts, ScriptEnUnaParte, Tramite
<1>8. unScript'.de = <<c, consola[c].lanzados>> /\ unScript'.socket = descriptor[c]
      /\ unScript'.de[1] = c
  BY <1>0, <1>1, <1>6
<1>9. \A d \in Consolas : EnTramite(d)' => d = c
  BY <1>8 DEF EnTramite
<1>10. ScriptEnUnaParte'
  <2>1. ASSUME NEW t \in Sockets, NEW x \in ToSet(Pendientes(t)'), x.tipo = "ARCHIVO"
        PROVE  \E d \in Consolas : /\ descriptor'[d] = t /\ x.de = <<d, consola'[d].lanzados>>
                                   /\ consola'[d].espera /\ consola'[d].semPidListo = 0
                                   /\ ~EnTramite(d)'
    <3>1. t # s
      BY <1>5, <2>1 DEF Hay
    <3>2. PICK d \in Consolas : /\ descriptor[d] = t /\ x.de = <<d, consola[d].lanzados>>
                                /\ consola[d].espera /\ consola[d].semPidListo = 0
      BY <1>4, <2>1 DEF Scripts, ScriptEnUnaParte
    <3>3. d # c
      BY <1>6, <3>1, <3>2
    <3> QED BY <1>0, <1>2, <1>9, <3>2, <3>3
  <2>2. \A t \in Sockets : Una(Pendientes(t)', "ARCHIVO")
    BY <1>4 DEF Scripts, ScriptEnUnaParte
  <2>3. \A d \in Consolas :
           /\ consola[d].semPidListo \in {0, 1}
           /\ consola[d].semPidListo = 1 => consola[d].espera /\ ~EnTramite(d)'
    BY <1>6, <1>9 DEF Scripts, ScriptEnUnaParte
  <2>4. /\ unScript'.de = <<c, consola'[c].lanzados>> /\ consola'[c].espera
        /\ unScript'.socket = descriptor'[c] /\ descriptor'[c] # 0
    BY <1>0, <1>2, <1>6, <1>8, SocketsNat
  <2>5. /\ DOMAIN consola' = Consolas /\ \A d \in Consolas : EsConsola(consola'[d])
        /\ semUnScript' \in {0, 1} /\ hilo'.etapa = "espera"
    BY <1>0, <1>1, <1>7 DEF Scripts, ScriptEnUnaParte
  <2> QED BY <1>0, <2>1, <2>2, <2>3, <2>4, <2>5 DEF ScriptEnUnaParte
<1>11. PidsDeCadaUno'
  <2>1. hilo'.etapa \notin {"crea", "copia"}
    BY <1>0, <1>1
  <2> QED BY <1>0, <2>1, PrincipalCruza, PidsQuietos DEF Scripts
<1> QED BY <1>10, <1>11 DEF Scripts

\* procesarScript until it answers.
LEMMA HiloScripts ==
  ASSUME Estructura, Scripts, TomaScript \/ Admite \/ CreaPCB \/ SiguePagina
  PROVE  Scripts'
<1>1. /\ UNCHANGED <<etapa, paquete, red, consola, programas, unScript>>
      /\ "cruzado" \in historia => "cruzado" \in historia'
  BY DEF TomaScript, Admite, CreaPCB, SiguePagina, kernel, clientes
<1>2. /\ semUnScript' \in {0, 1} /\ (semUnScript' = 1 => hilo'.etapa = "espera")
      /\ (Tramite' => Tramite)
  <2>1. semUnScript \in {0, 1} /\ (semUnScript = 1 => hilo.etapa = "espera")
    BY DEF Scripts, ScriptEnUnaParte
  <2>2. CASE TomaScript
    <3>1. semUnScript = 1 /\ semUnScript' = 0
      BY <2>1, <2>2 DEF TomaScript
    <3> QED BY <3>1 DEF Tramite
  <2>3. CASE Admite \/ CreaPCB
    <3>1. hilo.etapa \in {"decide", "crea"} /\ semUnScript' = semUnScript
      BY <2>3 DEF Admite, CreaPCB, Hilo
    <3> QED BY <2>1, <3>1 DEF Tramite
  <2>4. CASE SiguePagina
    <3>1. hilo.etapa = "pagina" /\ semUnScript' = semUnScript /\ hilo'.etapa \in {"pagina", "espera"}
      BY <2>4 DEF SiguePagina, Hilo
    <3> QED BY <2>1, <3>1 DEF Tramite
  <2> QED BY <2>2, <2>3, <2>4
<1>3. ScriptEnUnaParte'
  <2>1. \A s \in Sockets : Pendientes(s)' = Pendientes(s)
    BY <1>1, PendientesIgual DEF Ocupado, red
  <2>2. descriptor' = descriptor
    BY <1>1 DEF red
  <2> QED BY <1>1, <1>2, <2>1, <2>2, ScriptSigue DEF Scripts
<1>4. CASE TomaScript \/ Admite \/ SiguePagina
  <2>1. hilo'.etapa \notin {"crea", "copia"}
    BY <1>4 DEF TomaScript, Admite, SiguePagina
  <2>2. PidsDeCadaUno'
    BY <1>1, <2>1, PidsSiguen DEF Scripts
  <2> QED BY <1>3, <2>2 DEF Scripts
<1>5. CASE CreaPCB
  <2>1. /\ hilo.etapa = "crea" /\ hilo'.etapa = "copia" /\ i' = 0
        /\ "cruzado" \in historia' \/ etapa' = "select"
    BY <1>1, <1>5 DEF CreaPCB, Hilo
  <2>2. ProcessID' = ProcessID /\ \A c \in Consolas : Contestada(c)' = Contestada(c)
    BY <1>1 DEF ProcessID, Contestada
  <2>3. programas[ProcessID].indice = 0 .. i' - 1
    BY <2>1 DEF Scripts, PidsDeCadaUno
  <2>4. PidsDeCadaUno'
    BY <1>1, <2>1, <2>2, <2>3, AdmisionAssumption DEF Scripts, PidsDeCadaUno
  <2> QED BY <1>3, <2>4 DEF Scripts
<1> QED BY <1>4, <1>5

LEMMA CopiaScripts ==
  ASSUME Estructura, Scripts, CopiaSentencia
  PROVE  Scripts'
<1> DEFINE p == ProcessID
<1>1. /\ UNCHANGED <<etapa, paquete, red, consola, hilo, unScript, semUnScript, historia>>
      /\ programas' = [programas EXCEPT ![p].indice = @ \cup {i}]
      /\ i' = i + 1 /\ i < INSTRUCCIONES /\ hilo.etapa = "copia"
  BY DEF CopiaSentencia, clientes, admision, Hilo
<1>2. ScriptEnUnaParte'
  <2>1. \A s \in Sockets : Pendientes(s)' = Pendientes(s)
    BY <1>1, PendientesIgual DEF Ocupado, red
  <2>2. descriptor' = descriptor
    BY <1>1 DEF red
  <2> QED BY <1>1, <2>1, <2>2, ScriptQuieto DEF Scripts
<1>3. p \in DOMAIN programas /\ programas[p].de = unScript.de
  BY <1>1 DEF Scripts, PidsDeCadaUno
<1>4. DOMAIN programas' = DOMAIN programas /\ Len(programas') = Len(programas)
  <2>1. DOMAIN programas' = DOMAIN programas /\ programas' = [x \in DOMAIN programas |-> programas'[x]]
    BY <1>1
  <2>2. EsLista(programas)
    BY DEF Estructura, Conjuntos
  <2>3. DOMAIN programas = 1..Len(programas) /\ Len(programas) \in Nat
    BY <2>2, LenProperties DEF EsLista
  <2>4. Len(programas') = Len(programas)
    <3>1. programas' \in Seq({programas'[x] : x \in DOMAIN programas})
      BY <2>1, <2>3
    <3>2. DOMAIN programas' = 1..Len(programas') /\ Len(programas') \in Nat
      BY <3>1, LenProperties
    <3> QED BY <2>1, <2>3, <3>2
  <2> QED BY <2>1, <2>4
<1>5. p' = p
  BY <1>4 DEF ProcessID
<1> HIDE DEF p
<1>6. /\ \A x \in DOMAIN programas : programas'[x].de = programas[x].de
      /\ \A x \in DOMAIN programas : x # p => programas'[x] = programas[x]
      /\ programas'[p].indice = programas[p].indice \cup {i}
  <2>1. \A x \in DOMAIN programas :
          programas'[x] = IF x = p THEN [programas[x] EXCEPT !.indice = @ \cup {i}] ELSE programas[x]
    BY <1>1
  <2>2. ASSUME NEW r, NEW a, NEW b, NEW c, NEW d, NEW e,
               r = [paginas |-> a, de |-> b, indice |-> c, vivo |-> d]
        PROVE  [r EXCEPT !.indice = e].de = b /\ [r EXCEPT !.indice = e].indice = e
    BY <2>2
  <2>3. \A x \in DOMAIN programas :
          programas[x] = [paginas |-> programas[x].paginas, de |-> programas[x].de,
                          indice |-> programas[x].indice, vivo |-> programas[x].vivo]
    BY DEF Estructura, Conjuntos, EsPrograma
  <2>4. \A x \in DOMAIN programas :
          /\ [programas[x] EXCEPT !.indice = @ \cup {i}].de = programas[x].de
          /\ [programas[x] EXCEPT !.indice = @ \cup {i}].indice = programas[x].indice \cup {i}
    BY <2>2, <2>3
  <2> QED BY <1>3, <2>1, <2>4
<1>7. "cruzado" \notin historia =>
        /\ etapa = "select" /\ i \in Nat /\ programas[p].indice = 0 .. i - 1
  BY <1>1 DEF Scripts, PidsDeCadaUno, p
<1>8. \A c \in Consolas :
        /\ Contestada(c)' = Contestada(c)
        /\ Contestada(c) /\ consola[c].pidActual > 0 /\ consola[c].lanzados > 0 =>
             /\ consola[c].pidActual \in DOMAIN programas /\ consola[c].pidActual # p
             /\ programas[consola[c].pidActual].de = <<c, consola[c].lanzados>>
             /\ "cruzado" \notin historia =>
                  programas[consola[c].pidActual].indice = 0 .. INSTRUCCIONES - 1
  BY <1>1 DEF Scripts, PidsDeCadaUno, Contestada, p
<1>9. PidsDeCadaUno'
  <2>1. "cruzado" \notin historia => i + 1 <= INSTRUCCIONES /\ i + 1 \in Nat
                                     /\ (0 .. i - 1) \cup {i} = 0 .. (i + 1) - 1
    BY <1>1, <1>7, AdmisionAssumption
  <2>2. ProcessID' = p
    BY <1>5 DEF p
  <2>3. "cruzado" \notin historia => programas'[p].indice = 0 .. i' - 1
    BY <1>1, <1>6, <1>7, <2>1
  <2>4. programas'[p].de = unScript'.de /\ p \in DOMAIN programas'
    BY <1>1, <1>3, <1>4, <1>6
  <2>5. \A c \in Consolas :
          Contestada(c)' /\ consola'[c].pidActual > 0 /\ consola'[c].lanzados > 0 =>
             /\ consola'[c].pidActual \in DOMAIN programas' /\ consola'[c].pidActual # p
             /\ programas'[consola'[c].pidActual].de = <<c, consola'[c].lanzados>>
             /\ "cruzado" \notin historia' =>
                  programas'[consola'[c].pidActual].indice = 0 .. INSTRUCCIONES - 1
    BY <1>1, <1>4, <1>6, <1>8
  <2>6. /\ hilo'.etapa = "copia" /\ historia' = historia
        /\ "cruzado" \notin historia => etapa' = "select" /\ i' \in Nat /\ i' <= INSTRUCCIONES
    BY <1>1, <1>7, <2>1
  <2> QED BY <2>2, <2>3, <2>4, <2>5, <2>6 DEF PidsDeCadaUno
<1> QED BY <1>2, <1>9 DEF Scripts

\* The program of the script: no console shows it yet.
LEMMA CuentaScripts ==
  ASSUME Estructura, Scripts, Cuenta
  PROVE  Scripts'
<1> DEFINE n == Len(programas)
<1>0. /\ UNCHANGED <<etapa, paquete, red, consola, unScript, semUnScript>>
      /\ hilo.etapa = "cuenta" /\ hilo'.etapa = "crea"
      /\ "cruzado" \in historia => "cruzado" \in historia'
  BY DEF Cuenta, kernel, clientes, Hilo
<1>1. /\ n \in Nat /\ Len(programas') = n + 1
      /\ DOMAIN programas = 1..n /\ DOMAIN programas' = 1..n + 1
      /\ \A p \in DOMAIN programas : programas'[p] = programas[p]
      /\ programas'[n + 1] = Programa(hilo.paginas, unScript.de)
  BY NacePrograma
<1>2. ScriptEnUnaParte'
  <2>1. \A s \in Sockets : Pendientes(s)' = Pendientes(s)
    BY <1>0, PendientesIgual DEF Ocupado, red
  <2>2. descriptor' = descriptor
    BY <1>0 DEF red
  <2>3. /\ semUnScript' \in {0, 1} /\ (semUnScript' = 1 => hilo'.etapa = "espera")
        /\ (Tramite' => Tramite)
    BY <1>0 DEF Scripts, ScriptEnUnaParte, Tramite
  <2> QED BY <1>0, <2>1, <2>2, <2>3, ScriptSigue DEF Scripts
<1>3. PidsDeCadaUno'
  <2>1. ProcessID' = n + 1 /\ n + 1 \in DOMAIN programas' /\ n + 1 \notin DOMAIN programas
        /\ DOMAIN programas \subseteq DOMAIN programas'
    BY <1>1 DEF ProcessID
  <2>2. programas'[n + 1].de = unScript.de /\ programas'[n + 1].indice = {}
    BY <1>1 DEF Programa
  <2> HIDE DEF n
  <2>3. \A c \in Consolas :
          Contestada(c)' /\ consola'[c].pidActual > 0 /\ consola'[c].lanzados > 0 =>
             /\ consola'[c].pidActual \in DOMAIN programas' /\ consola'[c].pidActual # n + 1
             /\ programas'[consola'[c].pidActual].de = <<c, consola'[c].lanzados>>
             /\ "cruzado" \notin historia' =>
                  programas'[consola'[c].pidActual].indice = 0 .. INSTRUCCIONES - 1
    BY <1>0, <1>1, <2>1 DEF Scripts, PidsDeCadaUno, Contestada
  <2> QED BY <1>0, <2>1, <2>2, <2>3 DEF PidsDeCadaUno
<1> QED BY <1>2, <1>3 DEF Scripts

\* A console whose pidActual changes and whose semPidListo is posted.
LEMMA CambiaPid ==
  ASSUME NEW e, NEW n, NEW a, NEW b, NEW pid,
         NEW r, r = [espera |-> e, semPidListo |-> n, pidActual |-> a, lanzados |-> b],
         NEW u, u = [r EXCEPT !.pidActual = pid]
  PROVE  u = [espera |-> e, semPidListo |-> n, pidActual |-> pid, lanzados |-> b]
OBVIOUS

\* The console of the script is told, and no other.
LEMMA RespondeUna ==
  ASSUME Estructura, Scripts, Tramite, hilo.etapa # "espera", NEW pid \in Int,
         Responde(unScript.socket, pid)
  PROVE  \E c \in Consolas :
           /\ unScript.de = <<c, consola[c].lanzados>> /\ consola[c].espera
           /\ consola[c].semPidListo = 0 /\ EnTramite(c)
           /\ consola' = [d \in Consolas |->
                IF d = c THEN [espera |-> TRUE, semPidListo |-> 1, pidActual |-> pid,
                               lanzados |-> consola[c].lanzados]
                ELSE consola[d]]
<1>1. PICK c \in Consolas : /\ unScript.de = <<c, consola[c].lanzados>> /\ consola[c].espera
                            /\ unScript.socket = descriptor[c] /\ descriptor[c] # 0
  BY DEF Scripts, ScriptEnUnaParte
<1>2. \A d \in Consolas : descriptor[d] = unScript.socket <=> d = c
  BY <1>1 DEF Estructura, SocketsDeCadaUno, Clientes
<1>3. EnTramite(c)
  BY <1>1 DEF EnTramite
<1>4. consola[c].semPidListo = 0 /\ EsConsola(consola[c])
  BY <1>3 DEF Scripts, ScriptEnUnaParte
<1>5. consola' = [d \in Consolas |->
                IF descriptor[d] # unScript.socket THEN consola[d]
                ELSE [consola[d] EXCEPT !.pidActual = pid, !.semPidListo = @ + 1]]
  BY DEF Responde
<1> DEFINE x == [consola[c] EXCEPT !.pidActual = pid, !.semPidListo = @ + 1]
           y == [espera |-> TRUE, semPidListo |-> 1, pidActual |-> pid,
                 lanzados |-> consola[c].lanzados]
<1>6. x = y
  <2> DEFINE r == consola[c]
             u == [r EXCEPT !.pidActual = pid]
  <2>1. r = [espera |-> TRUE, semPidListo |-> 0, pidActual |-> r.pidActual,
             lanzados |-> r.lanzados]
    BY <1>1, <1>4 DEF EsConsola
  <2>2. x = [u EXCEPT !.semPidListo = u.semPidListo + 1]
    BY <2>1
  <2> HIDE DEF r, u, x
  <2>3. u = [r EXCEPT !.pidActual = pid]
    BY DEF u
  <2>4. u = [espera |-> TRUE, semPidListo |-> 0, pidActual |-> pid, lanzados |-> r.lanzados]
    <3>1. PICK a, b : /\ r = [espera |-> TRUE, semPidListo |-> 0, pidActual |-> a, lanzados |-> b]
                      /\ b = r.lanzados
      BY <2>1
    <3>2. u = [espera |-> TRUE, semPidListo |-> 0, pidActual |-> pid, lanzados |-> b]
      BY ONLY <2>3, <3>1, CambiaPid
    <3> QED BY <3>1, <3>2
  <2>5. x = [espera |-> TRUE, semPidListo |-> 0 + 1, pidActual |-> pid, lanzados |-> r.lanzados]
    BY <2>2, <2>4
  <2>6. 0 + 1 = 1
    OBVIOUS
  <2> QED BY <2>5, <2>6 DEF r
<1> HIDE DEF x, y
<1>7. ASSUME NEW d \in Consolas
      PROVE  (IF descriptor[d] # unScript.socket THEN consola[d]
              ELSE [consola[d] EXCEPT !.pidActual = pid, !.semPidListo = @ + 1])
             = IF d = c THEN y ELSE consola[d]
  <2>1. CASE d = c
    BY <1>2, <1>6, <2>1 DEF x
  <2>2. CASE d # c
    BY <1>2, <2>2
  <2> QED BY <2>1, <2>2
<1>8. consola' = [d \in Consolas |-> IF d = c THEN y ELSE consola[d]]
  BY <1>5, <1>7
<1> QED BY <1>1, <1>3, <1>4, <1>8 DEF y

\* Then its script is admitted no more, nor in the messages.
LEMMA RespondidaScript ==
  ASSUME Estructura, Scripts, hilo.etapa # "espera", ~(hilo'.etapa \in {"decide", "cuenta", "crea", "copia"}),
         UNCHANGED <<etapa, paquete, red, unScript, semUnScript>>,
         NEW c \in Consolas, EnTramite(c), NEW pid \in Int,
         consola' = [d \in Consolas |->
                IF d = c THEN [espera |-> TRUE, semPidListo |-> 1, pidActual |-> pid,
                               lanzados |-> consola[c].lanzados]
                ELSE consola[d]]
  PROVE  ScriptEnUnaParte'
<1>1. semUnScript = 0 /\ ~Tramite'
  BY DEF Scripts, ScriptEnUnaParte, Tramite
<1>2. \A d \in Consolas : ~EnTramite(d)'
  BY <1>1 DEF EnTramite
<1>3. /\ \A d \in Consolas : d # c => consola'[d] = consola[d]
      /\ consola'[c] = [espera |-> TRUE, semPidListo |-> 1, pidActual |-> pid,
                        lanzados |-> consola[c].lanzados]
      /\ DOMAIN consola' = Consolas
  OBVIOUS
<1>4. consola'[c].espera = TRUE /\ consola'[c].semPidListo = 1 /\ consola'[c].pidActual = pid
      /\ consola'[c].lanzados = consola[c].lanzados
  BY <1>3
<1>5. EsConsola(consola'[c])
  <2>1. consola[c].lanzados \in Nat
    BY DEF Scripts, ScriptEnUnaParte, EsConsola
  <2> QED BY <1>3, <1>4, <2>1 DEF EsConsola
<1>6. \A s \in Sockets : Pendientes(s)' = Pendientes(s)
  BY PendientesIgual DEF Ocupado, red
<1>7. ASSUME NEW s \in Sockets, NEW m \in ToSet(Pendientes(s)'), m.tipo = "ARCHIVO"
      PROVE  \E d \in Consolas : /\ descriptor'[d] = s /\ m.de = <<d, consola'[d].lanzados>>
                                 /\ consola'[d].espera /\ consola'[d].semPidListo = 0
                                 /\ ~EnTramite(d)'
  <2>1. PICK d \in Consolas : /\ descriptor[d] = s /\ m.de = <<d, consola[d].lanzados>>
                              /\ consola[d].espera /\ consola[d].semPidListo = 0
                              /\ ~EnTramite(d)
    BY <1>6, <1>7 DEF Scripts, ScriptEnUnaParte
  <2>2. d # c
    BY <2>1
  <2> QED BY <1>2, <1>3, <2>1, <2>2 DEF red
<1>8. \A d \in Consolas :
         /\ EsConsola(consola'[d])
         /\ consola'[d].semPidListo \in {0, 1}
         /\ consola'[d].semPidListo = 1 => consola'[d].espera /\ ~EnTramite(d)'
  <2> TAKE d \in Consolas
  <2>1. CASE d = c
    BY <1>2, <1>4, <1>5, <2>1
  <2>2. CASE d # c
    BY <1>2, <1>3, <2>2 DEF Scripts, ScriptEnUnaParte
  <2> QED BY <2>1, <2>2
<1>9. \A s \in Sockets : Una(Pendientes(s)', "ARCHIVO")
  BY <1>6 DEF Scripts, ScriptEnUnaParte
<1>10. semUnScript' \in {0, 1} /\ (semUnScript' = 1 => hilo'.etapa = "espera")
  BY <1>1
<1> QED BY <1>1, <1>3, <1>7, <1>8, <1>9, <1>10 DEF ScriptEnUnaParte

LEMMA RechazaScripts ==
  ASSUME Estructura, Scripts, Rechaza
  PROVE  Scripts'
<1> DEFINE pid == IF cantidadDeProcesos > GRADO_MULTIPROG THEN -5 ELSE 0
<1>1. /\ hilo.etapa = "decide" /\ hilo' = [etapa |-> "espera"] /\ Tramite
      /\ UNCHANGED <<etapa, paquete, red, unScript, semUnScript, programas, historia>>
      /\ Responde(unScript.socket, pid)
  BY DEF Rechaza, Hilo, kernel, Tramite
<1>2. pid \in Int /\ ~(pid > 0)
  OBVIOUS
<1> HIDE DEF pid
<1>3. PICK c \in Consolas :
           /\ EnTramite(c)
           /\ consola' = [d \in Consolas |->
                IF d = c THEN [espera |-> TRUE, semPidListo |-> 1, pidActual |-> pid,
                               lanzados |-> consola[c].lanzados]
                ELSE consola[d]]
  BY <1>1, <1>2, RespondeUna
<1>4. ScriptEnUnaParte'
  <2>1. hilo.etapa # "espera" /\ ~(hilo'.etapa \in {"decide", "cuenta", "crea", "copia"})
    BY <1>1
  <2> QED BY <1>1, <1>2, <1>3, <2>1, RespondidaScript
<1>5. PidsDeCadaUno'
  <2>1. /\ consola'[c].pidActual = pid
        /\ \A d \in Consolas : d # c => consola'[d] = consola[d]
    BY <1>3
  <2>2. ASSUME NEW d \in Consolas, Contestada(d)', consola'[d].pidActual > 0, consola'[d].lanzados > 0
        PROVE  /\ consola'[d].pidActual \in DOMAIN programas
               /\ programas[consola'[d].pidActual].de = <<d, consola'[d].lanzados>>
               /\ "cruzado" \notin historia =>
                    programas[consola'[d].pidActual].indice = 0 .. INSTRUCCIONES - 1
    <3>1. d # c
      BY <1>2, <2>1, <2>2
    <3>2. consola'[d] = consola[d] /\ Contestada(d)
      BY <2>1, <2>2, <3>1 DEF Contestada
    <3> QED BY <2>2, <3>2 DEF Scripts, PidsDeCadaUno
  <2> QED BY <1>1, <2>2 DEF PidsDeCadaUno
<1> QED BY <1>4, <1>5 DEF Scripts

LEMMA AceptoScripts ==
  ASSUME Estructura, Scripts, Acepto
  PROVE  Scripts'
<1> DEFINE p == ProcessID
<1>1. /\ hilo.etapa = "copia" /\ i >= INSTRUCCIONES /\ hilo'.etapa = "pagina" /\ Tramite
      /\ UNCHANGED <<etapa, paquete, red, unScript, semUnScript, programas, historia>>
      /\ Responde(unScript.socket, p)
  BY DEF Acepto, Hilo, kernel, Tramite
<1>2. /\ p \in DOMAIN programas /\ programas[p].de = unScript.de
      /\ "cruzado" \notin historia => programas[p].indice = 0 .. INSTRUCCIONES - 1
  <2>1. /\ p \in DOMAIN programas /\ programas[p].de = unScript.de
        /\ "cruzado" \notin historia => i \in Nat /\ i <= INSTRUCCIONES /\ programas[p].indice = 0 .. i - 1
    BY <1>1 DEF Scripts, PidsDeCadaUno
  <2>2. "cruzado" \notin historia => i = INSTRUCCIONES
    BY <1>1, <2>1, AdmisionAssumption
  <2> QED BY <2>1, <2>2
<1>3. p \in Int
  BY LenProperties DEF Estructura, Conjuntos, EsLista, ProcessID
<1> HIDE DEF p
<1>4. PICK c \in Consolas :
           /\ unScript.de = <<c, consola[c].lanzados>> /\ EnTramite(c)
           /\ consola' = [d \in Consolas |->
                IF d = c THEN [espera |-> TRUE, semPidListo |-> 1, pidActual |-> p,
                               lanzados |-> consola[c].lanzados]
                ELSE consola[d]]
  BY <1>1, <1>3, RespondeUna
<1>5. ScriptEnUnaParte'
  <2>1. hilo.etapa # "espera" /\ ~(hilo'.etapa \in {"decide", "cuenta", "crea", "copia"})
    BY <1>1
  <2> QED BY <1>1, <1>3, <1>4, <2>1, RespondidaScript
<1>6. PidsDeCadaUno'
  <2>1. /\ consola'[c].pidActual = p /\ consola'[c].lanzados = consola[c].lanzados
        /\ \A d \in Consolas : d # c => consola'[d] = consola[d]
    BY <1>4
  <2>2. ASSUME NEW d \in Consolas, Contestada(d)', consola'[d].pidActual > 0, consola'[d].lanzados > 0
        PROVE  /\ consola'[d].pidActual \in DOMAIN programas
               /\ programas[consola'[d].pidActual].de = <<d, consola'[d].lanzados>>
               /\ "cruzado" \notin historia =>
                    programas[consola'[d].pidActual].indice = 0 .. INSTRUCCIONES - 1
    <3>1. CASE d = c
      BY <1>2, <1>4, <2>1, <3>1
    <3>2. CASE d # c
      <4>1. consola'[d] = consola[d] /\ Contestada(d)
        BY <2>1, <2>2, <3>2 DEF Contestada
      <4> QED BY <2>2, <4>1 DEF Scripts, PidsDeCadaUno
    <3> QED BY <3>1, <3>2
  <2> QED BY <1>1, <2>2 DEF PidsDeCadaUno
<1> QED BY <1>5, <1>6 DEF Scripts

\* Messages that are not scripts come by d.
LEMMA LleganOtros ==
  ASSUME Estructura, Scripts, NEW d \in Sockets, NEW r, EsLista(r), ~Hay(r, "ARCHIVO"),
         alKernel' = [alKernel EXCEPT ![d] = @ \o r],
         UNCHANGED <<i, etapa, paquete, descriptor, consola, hilo, programas, unScript,
                     semUnScript, historia>>
  PROVE  Scripts'
<1>1. /\ \A s \in Sockets : s # d => Pendientes(s)' = Pendientes(s)
      /\ Pendientes(d)' = Pendientes(d) \o r
  BY PendientesEnviado DEF Estructura
<1>2. EsLista(Pendientes(d))
  BY PendientesEsLista DEF Estructura
<1>3. /\ Una(Pendientes(d), "ARCHIVO") => Una(Pendientes(d)', "ARCHIVO")
      /\ \A m \in ToSet(Pendientes(d)') : m.tipo = "ARCHIVO" => m \in ToSet(Pendientes(d))
  <2>1. /\ ToSet(Pendientes(d) \o r) = ToSet(Pendientes(d)) \cup ToSet(r)
        /\ Una(Pendientes(d) \o r, "ARCHIVO") <=>
             Una(Pendientes(d), "ARCHIVO") /\ Una(r, "ARCHIVO")
             /\ ~(Hay(Pendientes(d), "ARCHIVO") /\ Hay(r, "ARCHIVO"))
    BY <1>2, HayUna
  <2>2. Una(r, "ARCHIVO")
    BY DEF Una, Hay, ToSet
  <2>3. \A m \in ToSet(r) : m.tipo # "ARCHIVO"
    BY DEF Hay
  <2> QED BY <1>1, <2>1, <2>2, <2>3
<1>4. \A s \in Sockets :
        /\ Una(Pendientes(s), "ARCHIVO") => Una(Pendientes(s)', "ARCHIVO")
        /\ \A m \in ToSet(Pendientes(s)') : m.tipo = "ARCHIVO" => m \in ToSet(Pendientes(s))
  BY <1>1, <1>3
<1>5. ScriptEnUnaParte'
  BY <1>4, ScriptQuieto DEF Scripts
<1>6. PidsDeCadaUno'
  BY PidsQuietos DEF Scripts
<1> QED BY <1>5, <1>6 DEF Scripts

\* Nothing of the scripts changes.
LEMMA QuietoScripts ==
  ASSUME Scripts,
         UNCHANGED <<i, etapa, paquete, alKernel, descriptor, consola, hilo, programas, unScript,
                     semUnScript, historia>>
  PROVE  Scripts'
<1>1. \A s \in Sockets : Pendientes(s)' = Pendientes(s)
  BY PendientesIgual DEF Ocupado
<1>2. ScriptEnUnaParte'
  BY <1>1, ScriptQuieto DEF Scripts
<1>3. PidsDeCadaUno'
  BY PidsQuietos DEF Scripts
<1> QED BY <1>2, <1>3 DEF Scripts

LEMMA OtrosScripts ==
  ASSUME Estructura, Scripts,
         AtiendeMemoria \/ Despacha \/ (\E c \in Clientes : Conecta(c)) \/ (\E c \in Cpus : Finaliza(c))
  PROVE  Scripts'
<1>1. UNCHANGED <<i, etapa, paquete, descriptor, consola, hilo, programas, unScript, semUnScript,
                  historia>>
  BY DEF AtiendeMemoria, Despacha, Conecta, Finaliza, Envia, kernel, red, admision, clientes
<1>2. CASE alKernel' = alKernel
  BY <1>1, <1>2, QuietoScripts
<1>3. ASSUME NEW t \in {"NOENTROPROCESO", "ENTRAPROCESO", "PAGINAENVIADA"},
             alKernel' = [alKernel EXCEPT ![MEM] = Append(@, Mensaje(t))]
      PROVE  Scripts'
  <2> DEFINE m == Mensaje(t)
  <2>1. m.tipo = t
    BY DEF Mensaje
  <2> HIDE DEF m
  <2>2. EsLista(<<m>>) /\ ~Hay(<<m>>, "ARCHIVO")
    BY <2>1, UnMensaje
  <2>3. Append(alKernel[MEM], m) = alKernel[MEM] \o <<m>>
    <3>1. PICK T : alKernel[MEM] \in Seq(T)
      BY SocketDeMemoria DEF Estructura, Conjuntos, EsLista
    <3>2. alKernel[MEM] \in Seq(T \cup {m}) /\ m \in T \cup {m}
      BY <3>1
    <3> QED BY <3>2, AppendIsConcat
  <2>4. alKernel' = [alKernel EXCEPT ![MEM] = @ \o <<m>>]
    BY <1>3, <2>3 DEF m
  <2> QED BY <1>1, <2>2, <2>4, SocketDeMemoria, LleganOtros
<1>4. ASSUME NEW c \in Cpus, Finaliza(c)
      PROVE  Scripts'
  <2>1. descriptor[c] # 0 /\ alKernel' = [alKernel EXCEPT ![descriptor[c]] = @ \o FinalDePrograma]
    BY <1>4 DEF Finaliza, Envia
  <2>2. descriptor[c] \in Sockets
    BY <2>1, SocketDeCliente DEF Clientes
  <2> QED BY <1>1, <2>1, <2>2, FinalEsLista, LleganOtros
<1>5. CASE AtiendeMemoria
  BY <1>2, <1>3, <1>5 DEF AtiendeMemoria
<1>6. CASE Despacha \/ \E c \in Clientes : Conecta(c)
  <2>1. alKernel' = alKernel
    BY <1>6 DEF Despacha, Conecta, red
  <2> QED BY <1>2, <2>1
<1> QED BY <1>4, <1>5, <1>6

\* A console that sends a script.
LEMMA LanzaUna ==
  ASSUME NEW e, NEW n, NEW a, NEW b,
         NEW r, r = [espera |-> e, semPidListo |-> n, pidActual |-> a, lanzados |-> b],
         NEW x, x = [r EXCEPT !.espera = TRUE, !.lanzados = @ + 1]
  PROVE  x = [espera |-> TRUE, semPidListo |-> n, pidActual |-> a, lanzados |-> b + 1]
<1> DEFINE u == [r EXCEPT !.espera = TRUE]
<1>0. u = [r EXCEPT !.espera = TRUE]
  OBVIOUS
<1> HIDE DEF u
<1>1. u = [espera |-> TRUE, semPidListo |-> n, pidActual |-> a, lanzados |-> b]
  BY ONLY <1>0, r = [espera |-> e, semPidListo |-> n, pidActual |-> a, lanzados |-> b]
<1>2. x = [u EXCEPT !.lanzados = u.lanzados + 1]
  BY DEF u
<1> QED BY ONLY <1>1, <1>2

\* One that was answered.
LEMMA InformaUna ==
  ASSUME NEW e, NEW n, NEW a, NEW b,
         NEW r, r = [espera |-> e, semPidListo |-> n, pidActual |-> a, lanzados |-> b],
         NEW x, x = [r EXCEPT !.espera = FALSE, !.semPidListo = @ - 1]
  PROVE  x = [espera |-> FALSE, semPidListo |-> n - 1, pidActual |-> a, lanzados |-> b]
<1> DEFINE u == [r EXCEPT !.espera = FALSE]
<1>0. u = [r EXCEPT !.espera = FALSE]
  OBVIOUS
<1> HIDE DEF u
<1>1. u = [espera |-> FALSE, semPidListo |-> n, pidActual |-> a, lanzados |-> b]
  BY ONLY <1>0, r = [espera |-> e, semPidListo |-> n, pidActual |-> a, lanzados |-> b]
<1>2. x = [u EXCEPT !.semPidListo = u.semPidListo - 1]
  BY DEF u
<1> QED BY ONLY <1>1, <1>2

\* A console that does not wait has no script on its way.
LEMMA SinScript ==
  ASSUME Estructura, Scripts, NEW c \in Consolas, descriptor[c] # 0,
         ~consola[c].espera \/ consola[c].semPidListo = 1
  PROVE  /\ ~Hay(Pendientes(descriptor[c]), "ARCHIVO") /\ ~EnTramite(c)
         /\ ~consola[c].espera => consola[c].semPidListo = 0
<1>1. descriptor[c] \in Sockets
  BY SocketDeCliente DEF Clientes
<1>2. ~Hay(Pendientes(descriptor[c]), "ARCHIVO")
  <2>1. SUFFICES ASSUME NEW m \in ToSet(Pendientes(descriptor[c])), m.tipo = "ARCHIVO"
                 PROVE  FALSE
    BY DEF Hay
  <2>2. PICK d \in Consolas : /\ descriptor[d] = descriptor[c] /\ consola[d].espera
                              /\ consola[d].semPidListo = 0
    BY <1>1, <2>1 DEF Scripts, ScriptEnUnaParte
  <2>3. d = c
    BY <2>2 DEF Estructura, SocketsDeCadaUno, Clientes
  <2> QED BY <2>2, <2>3
<1>3. ~EnTramite(c)
  <2>1. CASE consola[c].semPidListo = 1
    BY <2>1 DEF Scripts, ScriptEnUnaParte
  <2>2. CASE ~consola[c].espera
    <3>1. SUFFICES ASSUME Tramite, unScript.de[1] = c PROVE FALSE
      BY DEF EnTramite
    <3>2. PICK d \in Consolas : unScript.de = <<d, consola[d].lanzados>> /\ consola[d].espera
      BY <3>1 DEF Scripts, ScriptEnUnaParte
    <3> QED BY <2>2, <3>1, <3>2
  <2> QED BY <2>1, <2>2
<1>4. ~consola[c].espera => consola[c].semPidListo = 0
  BY DEF Scripts, ScriptEnUnaParte
<1> QED BY <1>2, <1>3, <1>4

LEMMA LanzaScripts ==
  ASSUME Estructura, Scripts, NEW c \in Consolas, Lanza(c)
  PROVE  Scripts'
<1> DEFINE s0 == descriptor[c]
           n == consola[c].lanzados
           m == [tipo |-> "ARCHIVO", paginas |-> Paginas[c], de |-> <<c, n + 1>>]
<1>1. /\ s0 # 0 /\ alKernel' = [alKernel EXCEPT ![s0] = @ \o <<m>>] /\ ~consola[c].espera
      /\ UNCHANGED <<i, etapa, paquete, descriptor, hilo, programas, unScript, semUnScript,
                     historia>>
  BY DEF Lanza, Envia, kernel, admision
<1>2. m.tipo = "ARCHIVO" /\ m.de = <<c, n + 1>>
  OBVIOUS
<1>3. /\ DOMAIN consola = Consolas /\ EsConsola(consola[c]) /\ n \in Nat
      /\ consola' = [consola EXCEPT ![c].espera = TRUE, ![c].lanzados = @ + 1]
  BY DEF Scripts, ScriptEnUnaParte, EsConsola, Lanza
<1>4. s0 \in Sockets /\ ~Hay(Pendientes(s0), "ARCHIVO") /\ ~EnTramite(c)
      /\ consola[c].semPidListo = 0
  BY <1>1, SinScript, SocketDeCliente DEF Clientes
<1> HIDE DEF m
<1>5. /\ \A s \in Sockets : s # s0 => Pendientes(s)' = Pendientes(s)
      /\ \A s \in Sockets : s = s0 => Pendientes(s)' = Pendientes(s) \o <<m>>
  <2>1. EsLista(<<m>>)
    BY UnMensaje
  <2>2. \A e \in Sockets :
          alKernel' = [alKernel EXCEPT ![e] = @ \o <<m>>] =>
            /\ \A s \in Sockets : s # e => Pendientes(s)' = Pendientes(s)
            /\ Pendientes(e)' = Pendientes(e) \o <<m>>
    BY <1>1, <2>1, PendientesEnviado DEF Estructura
  <2> HIDE DEF s0
  <2> QED BY <1>1, <1>4, <2>2
<1>6. /\ consola'[c].espera = TRUE /\ consola'[c].semPidListo = 0 /\ consola'[c].lanzados = n + 1
      /\ EsConsola(consola'[c]) /\ DOMAIN consola' = Consolas
      /\ \A d \in Consolas : d # c => consola'[d] = consola[d]
  <2> DEFINE r == consola[c]
             x == consola'[c]
  <2>1. x = [r EXCEPT !.espera = TRUE, !.lanzados = @ + 1]
    BY <1>3
  <2>2. PICK e, a, b, q : /\ r = [espera |-> e, semPidListo |-> q, pidActual |-> a, lanzados |-> b]
                          /\ q = 0 /\ b = n /\ a \in Int
    BY <1>3, <1>4 DEF EsConsola
  <2>3. DOMAIN consola' = Consolas /\ \A d \in Consolas : d # c => consola'[d] = consola[d]
    BY <1>3
  <2> HIDE DEF r, x
  <2>4. x = [espera |-> TRUE, semPidListo |-> q, pidActual |-> a, lanzados |-> b + 1]
    BY ONLY <2>1, <2>2, LanzaUna
  <2> HIDE DEF n
  <2>5. EsConsola(x) /\ x.espera = TRUE /\ x.semPidListo = 0 /\ x.lanzados = n + 1
    <3>1. x.espera = TRUE /\ x.semPidListo = 0 /\ x.lanzados = n + 1 /\ x.pidActual = a
      BY <2>2, <2>4
    <3>2. n + 1 \in Nat
      BY <1>3
    <3> QED BY <2>2, <2>4, <3>1, <3>2 DEF EsConsola
  <2> QED BY <2>3, <2>5 DEF x
<1> HIDE DEF n
<1>7. \A d \in Consolas : EnTramite(d)' <=> EnTramite(d)
  BY <1>1 DEF EnTramite, Tramite
<1>8. /\ semUnScript' \in {0, 1} /\ (semUnScript' = 1 => hilo'.etapa = "espera")
      /\ Tramite' =>
           \E d \in Consolas : /\ unScript'.de = <<d, consola'[d].lanzados>> /\ consola'[d].espera
                               /\ unScript'.socket = descriptor'[d] /\ descriptor'[d] # 0
  <2>1. semUnScript' \in {0, 1} /\ (semUnScript' = 1 => hilo'.etapa = "espera")
    BY <1>1 DEF Scripts, ScriptEnUnaParte
  <2>2. ASSUME Tramite
        PROVE  \E d \in Consolas : /\ unScript'.de = <<d, consola'[d].lanzados>> /\ consola'[d].espera
                                   /\ unScript'.socket = descriptor'[d] /\ descriptor'[d] # 0
    <3>1. PICK d \in Consolas : /\ unScript.de = <<d, consola[d].lanzados>> /\ consola[d].espera
                                /\ unScript.socket = descriptor[d] /\ descriptor[d] # 0
      BY <2>2 DEF Scripts, ScriptEnUnaParte
    <3>2. d # c
      BY <1>1, <3>1
    <3> QED BY <1>1, <1>6, <3>1, <3>2
  <2>3. Tramite' => Tramite
    BY <1>1 DEF Tramite
  <2> QED BY <2>1, <2>2, <2>3
<1>9. ASSUME NEW s \in Sockets
      PROVE  /\ Una(Pendientes(s)', "ARCHIVO")
             /\ \A x \in ToSet(Pendientes(s)') : x.tipo = "ARCHIVO" =>
                  \E d \in Consolas : /\ descriptor'[d] = s /\ x.de = <<d, consola'[d].lanzados>>
                                      /\ consola'[d].espera /\ consola'[d].semPidListo = 0
                                      /\ ~EnTramite(d)'
  <2>1. Una(Pendientes(s), "ARCHIVO") /\ EsLista(Pendientes(s))
    BY PendientesEsLista DEF Estructura, Scripts, ScriptEnUnaParte
  <2>2. ASSUME NEW x \in ToSet(Pendientes(s)), x.tipo = "ARCHIVO"
        PROVE  \E d \in Consolas : /\ descriptor'[d] = s /\ x.de = <<d, consola'[d].lanzados>>
                                   /\ consola'[d].espera /\ consola'[d].semPidListo = 0
                                   /\ ~EnTramite(d)'
    <3>1. PICK d \in Consolas : /\ descriptor[d] = s /\ x.de = <<d, consola[d].lanzados>>
                                /\ consola[d].espera /\ consola[d].semPidListo = 0
                                /\ ~EnTramite(d)
      BY <2>2 DEF Scripts, ScriptEnUnaParte
    <3>2. d # c
      BY <1>1, <3>1
    <3> QED BY <1>1, <1>6, <1>7, <3>1, <3>2
  <2>3. CASE s # s0
    BY <1>5, <2>1, <2>2, <2>3
  <2>4. CASE s = s0
    <3>1. /\ EsLista(<<m>>) /\ Una(<<m>>, "ARCHIVO") /\ ToSet(<<m>>) = {m}
      BY UnMensaje
    <3>2. /\ ToSet(Pendientes(s) \o <<m>>) = ToSet(Pendientes(s)) \cup {m}
          /\ Una(Pendientes(s) \o <<m>>, "ARCHIVO") <=>
               Una(Pendientes(s), "ARCHIVO") /\ Una(<<m>>, "ARCHIVO")
               /\ ~(Hay(Pendientes(s), "ARCHIVO") /\ Hay(<<m>>, "ARCHIVO"))
      BY <2>1, <3>1, HayUna
    <3>3. Pendientes(s)' = Pendientes(s) \o <<m>> /\ ~Hay(Pendientes(s), "ARCHIVO")
      BY <1>4, <1>5, <2>4
    <3>4. descriptor'[c] = s /\ ~EnTramite(c)'
      BY <1>1, <1>4, <1>7, <2>4
    <3> HIDE DEF s0
    <3>5. \A x \in ToSet(Pendientes(s)') : x.tipo = "ARCHIVO" => x \in ToSet(Pendientes(s)) \/ x = m
      BY <3>2, <3>3
    <3> QED BY <1>2, <1>6, <2>1, <2>2, <3>1, <3>2, <3>3, <3>4, <3>5
  <2> QED BY <2>3, <2>4
<1>10. \A d \in Consolas :
         /\ EsConsola(consola'[d])
         /\ consola'[d].semPidListo \in {0, 1}
         /\ consola'[d].semPidListo = 1 => consola'[d].espera /\ ~EnTramite(d)'
  <2> TAKE d \in Consolas
  <2>1. CASE d = c
    BY <1>6, <2>1
  <2>2. CASE d # c
    BY <1>6, <1>7, <2>2 DEF Scripts, ScriptEnUnaParte
  <2> QED BY <2>1, <2>2
<1>11. ScriptEnUnaParte'
  BY <1>6, <1>8, <1>9, <1>10 DEF ScriptEnUnaParte
<1>12. PidsDeCadaUno'
  <2>1. ~Contestada(c)'
    BY <1>6 DEF Contestada
  <2>2. \A d \in Consolas : Contestada(d)' => Contestada(d) /\ consola'[d] = consola[d]
    BY <1>6, <2>1 DEF Contestada
  <2>3. ProcessID' = ProcessID
    BY <1>1 DEF ProcessID
  <2> QED BY <1>1, <2>2, <2>3 DEF Scripts, PidsDeCadaUno
<1> QED BY <1>11, <1>12 DEF Scripts

LEMMA InformaScripts ==
  ASSUME Estructura, Scripts, NEW c \in Consolas, Informa(c)
  PROVE  Scripts'
<1>1. /\ consola[c].espera /\ consola[c].semPidListo > 0
      /\ UNCHANGED <<i, etapa, paquete, alKernel, descriptor, hilo, programas, unScript,
                     semUnScript, historia>>
  BY DEF Informa, kernel, admision, red
<1>2. /\ DOMAIN consola = Consolas /\ EsConsola(consola[c])
      /\ consola' = [consola EXCEPT ![c].espera = FALSE, ![c].semPidListo = @ - 1]
      /\ consola[c].semPidListo \in {0, 1}
  BY DEF Scripts, ScriptEnUnaParte, Informa
<1>3. consola[c].semPidListo = 1 /\ ~EnTramite(c)
  BY <1>1, <1>2 DEF Scripts, ScriptEnUnaParte
<1>4. /\ consola'[c].espera = FALSE /\ consola'[c].semPidListo = 0
      /\ consola'[c].pidActual = consola[c].pidActual /\ consola'[c].lanzados = consola[c].lanzados
      /\ EsConsola(consola'[c]) /\ DOMAIN consola' = Consolas
      /\ \A d \in Consolas : d # c => consola'[d] = consola[d]
  <2> DEFINE r == consola[c]
             x == consola'[c]
  <2>1. x = [r EXCEPT !.espera = FALSE, !.semPidListo = @ - 1]
    BY <1>2
  <2>2. PICK e, a, b, q : /\ r = [espera |-> e, semPidListo |-> q, pidActual |-> a, lanzados |-> b]
                          /\ q = 1 /\ a = r.pidActual /\ b = r.lanzados /\ a \in Int /\ b \in Nat
    BY <1>2, <1>3 DEF EsConsola
  <2>3. DOMAIN consola' = Consolas /\ \A d \in Consolas : d # c => consola'[d] = consola[d]
    BY <1>2
  <2> HIDE DEF r, x
  <2>4. x = [espera |-> FALSE, semPidListo |-> q - 1, pidActual |-> a, lanzados |-> b]
    <3>1. r = [espera |-> e, semPidListo |-> q, pidActual |-> a, lanzados |-> b]
      BY <2>2
    <3> QED BY ONLY <2>1, <3>1, InformaUna
  <2>5. q - 1 = 0
    BY <2>2
  <2>6. x = [espera |-> FALSE, semPidListo |-> 0, pidActual |-> a, lanzados |-> b]
    BY <2>4, <2>5
  <2>7. x.espera = FALSE /\ x.semPidListo = 0 /\ x.lanzados = b /\ x.pidActual = a
    BY <2>6
  <2>8. EsConsola(x)
    BY <2>2, <2>6, <2>7 DEF EsConsola
  <2>9. x.lanzados = r.lanzados /\ x.pidActual = r.pidActual
    BY <2>2, <2>7
  <2> QED BY <2>3, <2>7, <2>8, <2>9 DEF x, r
<1>5. \A d \in Consolas : EnTramite(d)' <=> EnTramite(d)
  BY <1>1 DEF EnTramite, Tramite
<1>6. \A s \in Sockets : Pendientes(s)' = Pendientes(s)
  BY <1>1, PendientesIgual DEF Ocupado
<1>7. /\ semUnScript' \in {0, 1} /\ (semUnScript' = 1 => hilo'.etapa = "espera")
      /\ Tramite' =>
           \E d \in Consolas : /\ unScript'.de = <<d, consola'[d].lanzados>> /\ consola'[d].espera
                               /\ unScript'.socket = descriptor'[d] /\ descriptor'[d] # 0
  <2>1. semUnScript' \in {0, 1} /\ (semUnScript' = 1 => hilo'.etapa = "espera")
    BY <1>1 DEF Scripts, ScriptEnUnaParte
  <2>2. ASSUME Tramite
        PROVE  \E d \in Consolas : /\ unScript'.de = <<d, consola'[d].lanzados>> /\ consola'[d].espera
                                   /\ unScript'.socket = descriptor'[d] /\ descriptor'[d] # 0
    <3>1. PICK d \in Consolas : /\ unScript.de = <<d, consola[d].lanzados>> /\ consola[d].espera
                                /\ unScript.socket = descriptor[d] /\ descriptor[d] # 0
      BY <2>2 DEF Scripts, ScriptEnUnaParte
    <3>2. d # c
      <4>1. unScript.de[1] = d
        BY <3>1
      <4> QED BY <1>3, <2>2, <4>1 DEF EnTramite
    <3> QED BY <1>1, <1>4, <3>1, <3>2
  <2>3. Tramite' => Tramite
    BY <1>1 DEF Tramite
  <2> QED BY <2>1, <2>2, <2>3
<1>8. ASSUME NEW s \in Sockets, NEW x \in ToSet(Pendientes(s)'), x.tipo = "ARCHIVO"
      PROVE  \E d \in Consolas : /\ descriptor'[d] = s /\ x.de = <<d, consola'[d].lanzados>>
                                 /\ consola'[d].espera /\ consola'[d].semPidListo = 0
                                 /\ ~EnTramite(d)'
  <2>1. PICK d \in Consolas : /\ descriptor[d] = s /\ x.de = <<d, consola[d].lanzados>>
                              /\ consola[d].espera /\ consola[d].semPidListo = 0
                              /\ ~EnTramite(d)
    BY <1>6, <1>8 DEF Scripts, ScriptEnUnaParte
  <2>2. d # c
    BY <1>3, <2>1
  <2> QED BY <1>1, <1>4, <1>5, <2>1, <2>2
<1>9. \A d \in Consolas :
         /\ EsConsola(consola'[d])
         /\ consola'[d].semPidListo \in {0, 1}
         /\ consola'[d].semPidListo = 1 => consola'[d].espera /\ ~EnTramite(d)'
  <2> TAKE d \in Consolas
  <2>1. CASE d = c
    BY <1>4, <2>1
  <2>2. CASE d # c
    BY <1>4, <1>5, <2>2 DEF Scripts, ScriptEnUnaParte
  <2> QED BY <2>1, <2>2
<1>10. \A s \in Sockets : Una(Pendientes(s)', "ARCHIVO")
  BY <1>6 DEF Scripts, ScriptEnUnaParte
<1>11. ScriptEnUnaParte'
  BY <1>4, <1>7, <1>8, <1>9, <1>10 DEF ScriptEnUnaParte
<1>12. PidsDeCadaUno'
  <2>1. \A d \in Consolas : /\ Contestada(d)' => Contestada(d)
                            /\ consola'[d].pidActual = consola[d].pidActual
                            /\ consola'[d].lanzados = consola[d].lanzados
    <3>1. Contestada(c)
      BY <1>3 DEF Contestada
    <3> QED BY <1>4, <3>1 DEF Contestada
  <2>2. ProcessID' = ProcessID
    BY <1>1 DEF ProcessID
  <2> QED BY <1>1, <2>1, <2>2 DEF Scripts, PidsDeCadaUno
<1> QED BY <1>11, <1>12 DEF Scripts

LEMMA InicioScripts ==
  ASSUME InitAdmision
  PROVE  Scripts
<1>1. /\ etapa = "select" /\ semUnScript = 0 /\ hilo = [etapa |-> "espera"]
  BY DEF InitAdmision
<1>2. PICK c \in ToSet(Primeros) \cap Consolas :
        /\ programas = <<[Programa(Paginas[c], <<c, 1>>) EXCEPT !.indice = 0 .. INSTRUCCIONES - 1]>>
        /\ consola = [d \in Consolas |->
                       [espera |-> FALSE, semPidListo |-> 0,
                        pidActual |-> IF d = c THEN 1 ELSE 0, lanzados |-> IF d = c THEN 1 ELSE 0]]
  BY DEF InitAdmision
<1>3. ~Ocupado /\ ~Tramite /\ hilo.etapa \notin {"crea", "copia"}
  BY <1>1 DEF Ocupado, Tramite
<1>4. \A s \in Sockets : /\ Una(Pendientes(s), "ARCHIVO")
                         /\ \A m \in ToSet(Pendientes(s)) : m.tipo # "ARCHIVO"
  <2>1. \A s \in Sockets : \A m \in ToSet(Pendientes(s)) : m.tipo = "CPU"
    BY <1>3, InicioPendientes
  <2>2. \A s \in Sockets : Una(Pendientes(s), "ARCHIVO")
    BY <1>3, InicioPendientes
  <2> QED BY <2>1, <2>2
<1>5. \A d \in Consolas :
        /\ consola[d].espera = FALSE /\ consola[d].semPidListo = 0
        /\ EsConsola(consola[d])
        /\ consola[d].lanzados > 0 => d = c /\ consola[d].pidActual = 1 /\ consola[d].lanzados = 1
  <2> TAKE d \in Consolas
  <2> DEFINE a == IF d = c THEN 1 ELSE 0
             x == consola[d]
  <2>1. x = [espera |-> FALSE, semPidListo |-> 0, pidActual |-> a, lanzados |-> a]
    BY <1>2
  <2>2. a \in Nat /\ a \in Int /\ (a > 0 => d = c /\ a = 1)
    OBVIOUS
  <2> HIDE DEF a, x
  <2>3. x.espera = FALSE /\ x.semPidListo = 0 /\ x.pidActual = a /\ x.lanzados = a
    BY <2>1
  <2>4. EsConsola(x)
    BY <2>1, <2>2, <2>3 DEF EsConsola
  <2> QED BY <2>2, <2>3, <2>4 DEF x
<1>6. DOMAIN consola = Consolas
  BY <1>2
<1>7. /\ 1 \in DOMAIN programas /\ programas[1].de = <<c, 1>>
      /\ programas[1].indice = 0 .. INSTRUCCIONES - 1
  <2> DEFINE r == Programa(Paginas[c], <<c, 1>>)
             e == 0 .. INSTRUCCIONES - 1
             x == [r EXCEPT !.indice = e]
  <2>1. r = [paginas |-> Paginas[c], de |-> <<c, 1>>, indice |-> {}, vivo |-> TRUE]
    BY DEF Programa
  <2> HIDE DEF r, e
  <2>2. x.de = <<c, 1>> /\ x.indice = e
    BY <2>1
  <2> HIDE DEF x
  <2>3. programas = <<x>>
    BY <1>2 DEF x, r, e
  <2> QED BY <2>2, <2>3 DEF e
<1>8. ScriptEnUnaParte
  BY <1>1, <1>3, <1>4, <1>5, <1>6 DEF ScriptEnUnaParte
<1>9. PidsDeCadaUno
  BY <1>3, <1>5, <1>7 DEF PidsDeCadaUno
<1> QED BY <1>8, <1>9 DEF Scripts

LEMMA PasoPids ==
  ASSUME InvPids, NextAdmision
  PROVE  InvPids'
<1>0. Estructura /\ Scripts /\ InvGrado'
  BY PasoGrado DEF InvPids, InvGrado, Scripts, NextAdmision
<1>1. ASSUME Sigue' => Scripts' PROVE InvPids'
  BY <1>0, <1>1 DEF InvPids, Scripts
<1>2. CASE HiloPrincipal
  <2>1. CASE Select \/ FinDeVuelta \/ SeBloquea
    BY <1>0, <1>1, <2>1, VueltaScripts
  <2>2. CASE RecibeConexion \/ Recibe \/ Despierta
    BY <1>0, <1>1, <2>2, EntradaScripts
  <2>3. CASE RecibeNada \/ RecibeNoEntra \/ RecibeCpu \/ RecibeEntra \/ RecibePaginaEnviada
    BY <1>0, <1>1, <2>3, AtiendeScripts
  <2>4. CASE RecibeArchivo
    BY <1>0, <1>1, <2>4, RecibeArchivoScripts
  <2>5. CASE RecibeTerminado
    BY <1>0, <1>1, <2>5, RecibeTerminadoScripts
  <2>6. CASE Descuenta
    BY <1>0, <1>1, <2>6, DescuentaScripts
  <2> QED BY <1>2, <2>1, <2>2, <2>3, <2>4, <2>5, <2>6 DEF HiloPrincipal
<1>3. CASE ProcesarScript
  <2>1. CASE TomaScript \/ Admite \/ CreaPCB \/ SiguePagina
    BY <1>0, <1>1, <2>1, HiloScripts
  <2>2. CASE Rechaza
    BY <1>0, <1>1, <2>2, RechazaScripts
  <2>3. CASE Cuenta
    BY <1>0, <1>1, <2>3, CuentaScripts
  <2>4. CASE CopiaSentencia
    BY <1>0, <1>1, <2>4, CopiaScripts
  <2>5. CASE Acepto
    BY <1>0, <1>1, <2>5, AceptoScripts
  <2> QED BY <1>3, <2>1, <2>2, <2>3, <2>4, <2>5 DEF ProcesarScript
<1>4. CASE AtiendeMemoria \/ Despacha \/ (\E c \in Clientes : Conecta(c))
           \/ (\E c \in Cpus : Finaliza(c))
  BY <1>0, <1>1, <1>4, OtrosScripts
<1>5. ASSUME NEW c \in Consolas, Lanza(c) PROVE InvPids'
  BY <1>0, <1>1, <1>5, LanzaScripts
<1>6. ASSUME NEW c \in Consolas, Informa(c) PROVE InvPids'
  BY <1>0, <1>1, <1>6, InformaScripts
<1> QED BY <1>2, <1>3, <1>4, <1>5, <1>6 DEF NextAdmision

\* A step that changes nothing.
LEMMA QuietoPids ==
  ASSUME InvPids, UNCHANGED vars
  PROVE  InvPids'
<1>1. UNCHANGED <<i, etapa, paquete, alKernel, descriptor, consola, hilo, programas, unScript,
                  semUnScript, historia>>
  BY DEF vars, kernel, red, admision, clientes
<1>2. InvGrado'
  BY QuietoGrado DEF InvPids
<1>3. Sigue' => Sigue
  BY <1>1 DEF Sigue
<1>4. ASSUME Sigue PROVE Scripts'
  <2>1. Scripts
    BY <1>4 DEF InvPids, Scripts
  <2> QED BY <1>1, <2>1, QuietoScripts
<1> QED BY <1>2, <1>3, <1>4 DEF InvPids, Scripts

\* The pid that a console shows for a script is that of the program made of that
\* script, with all of its sentences (crearPCB, procesarScript and the PID that the
\* console waits for), unless another script came before it was done with, a message
\* was charged to another socket, or the main thread served sockets while crearPCB ran.
THEOREM PidSiemprePropio == SpecAdmision => []ProgramaPropio
<1>1. InitAdmision => InvPids
  <2> SUFFICES ASSUME InitAdmision PROVE InvPids
    OBVIOUS
  <2>1. Estructura /\ Vivos = {1} /\ cantidadDeProcesos = 1
    BY InicioEstructura
  <2>2. GradoContado
    <3>1. Cardinality({1}) = 1
      BY FS_Singleton
    <3> QED BY <2>1, <3>1, AdmisionAssumption DEF GradoContado
  <2> QED BY <2>1, <2>2, InicioScripts DEF InvPids, InvGrado, Scripts
<1>2. InvPids /\ [NextAdmision]_vars => InvPids'
  BY PasoPids, QuietoPids
<1>3. InvPids => ProgramaPropio
  <2> SUFFICES ASSUME InvPids, NEW c \in Consolas, ~consola[c].espera,
                      consola[c].pidActual > 0, consola[c].lanzados > 0,
                      historia \cap {"pisado", "desviado"} = {}
               PROVE  /\ programas[consola[c].pidActual].de = <<c, consola[c].lanzados>>
                      /\ consola[c].semPidListo = 0
                      /\ "cruzado" \notin historia =>
                           programas[consola[c].pidActual].indice = 0 .. INSTRUCCIONES - 1
    BY DEF ProgramaPropio
  <2>1. ScriptEnUnaParte /\ PidsDeCadaUno
    BY DEF InvPids, Sigue
  <2>2. Contestada(c) /\ consola[c].semPidListo = 0
    BY <2>1 DEF Contestada, ScriptEnUnaParte
  <2> QED BY <2>1, <2>2 DEF PidsDeCadaUno
<1> QED BY <1>1, <1>2, <1>3, PTL DEF SpecAdmision
-----------------------------------------------------------------------------
(* The main thread waits only because of the index.                         *)

\* Where the messages of two lists are, one after the other.
LEMMA LugaresJuntos ==
  ASSUME NEW q, EsLista(q), NEW r, EsLista(r)
  PROVE  /\ Len(q) \in Nat /\ Len(r) \in Nat
         /\ DOMAIN q = 1..Len(q) /\ DOMAIN r = 1..Len(r) /\ DOMAIN (q \o r) = 1..Len(q) + Len(r)
         /\ \A k \in 1..Len(q) : (q \o r)[k] = q[k]
         /\ \A k \in 1..Len(r) : (q \o r)[Len(q) + k] = r[k]
<1>1. PICK Q, R : q \in Seq(Q) /\ r \in Seq(R)
  BY DEF EsLista
<1> DEFINE U == Q \cup R
           m == Len(q)
           n == Len(r)
           v == q \o r
<1>2. q \in Seq(U) /\ r \in Seq(U)
  BY <1>1
<1> HIDE DEF U
<1>3. /\ m \in Nat /\ n \in Nat /\ DOMAIN q = 1..m /\ DOMAIN r = 1..n
      /\ Len(v) = m + n /\ DOMAIN v = 1..Len(v)
      /\ \A k \in 1..m + n : v[k] = IF k <= m THEN q[k] ELSE r[k - m]
  BY <1>2, LenProperties, ConcatProperties
<1> HIDE DEF m, n, v
<1>4. ASSUME NEW k \in 1..m PROVE v[k] = q[k]
  <2>1. k \in 1..m + n /\ k <= m
    BY <1>3
  <2> QED BY <1>3, <2>1
<1>5. ASSUME NEW k \in 1..n PROVE v[m + k] = r[k]
  <2>1. m + k \in 1..m + n /\ ~(m + k <= m) /\ (m + k) - m = k
    BY <1>3
  <2> QED BY <1>3, <2>1
<1>6. DOMAIN v = 1..m + n
  BY <1>3
<1> QED BY <1>3, <1>4, <1>5, <1>6 DEF v, m, n

\* A message in front of a list.
LEMMA LugaresTras ==
  ASSUME NEW m, NEW q, EsLista(q)
  PROVE  /\ Len(q) \in Nat
         /\ DOMAIN q = 1..Len(q) /\ DOMAIN (<<m>> \o q) = 1..1 + Len(q)
         /\ (<<m>> \o q)[1] = m
         /\ \A k \in 1..Len(q) : (<<m>> \o q)[1 + k] = q[k]
<1> DEFINE c == <<m>>
           n == Len(q)
<1>1. EsLista(c) /\ Len(c) = 1 /\ c[1] = m
  BY UnMensaje
<1> HIDE DEF c, n
<1>2. /\ n \in Nat /\ DOMAIN q = 1..n /\ DOMAIN (c \o q) = 1..Len(c) + n
      /\ \A k \in 1..Len(c) : (c \o q)[k] = c[k]
      /\ \A k \in 1..n : (c \o q)[Len(c) + k] = q[k]
  <2>1. ASSUME NEW d, EsLista(d)
        PROVE  /\ Len(q) \in Nat /\ DOMAIN q = 1..Len(q) /\ DOMAIN (d \o q) = 1..Len(d) + Len(q)
               /\ \A k \in 1..Len(d) : (d \o q)[k] = d[k]
               /\ \A k \in 1..Len(q) : (d \o q)[Len(d) + k] = q[k]
    BY <2>1, LugaresJuntos
  <2> QED BY <1>1, <2>1 DEF n
<1>3. 1 \in 1..Len(c)
  BY <1>1
<1> QED BY <1>1, <1>2, <1>3 DEF c, n

\* After the message at the front.
LEMMA DudasTras ==
  ASSUME NEW m, NEW q, EsLista(q)
  PROVE  /\ Acompaniado(<<m>> \o q) =>
              Acompaniado(q) /\ (m.tipo = "PROGRAMATERMINADO" => ConDudas(q, 3))
         /\ \A a \in Nat : ConDudas(<<m>> \o q, a + 1) => m.tipo = "PORLASDUDAS" /\ ConDudas(q, a)
<1> DEFINE v == <<m>> \o q
           n == Len(q)
<1>1. /\ n \in Nat /\ DOMAIN q = 1..n /\ DOMAIN v = 1..1 + n /\ v[1] = m
      /\ \A k \in 1..n : v[1 + k] = q[k]
  BY LugaresTras
<1> HIDE DEF v, n
<1>2. ASSUME Acompaniado(v), NEW k \in 1..n, q[k].tipo = "PROGRAMATERMINADO", NEW j \in 1..3
      PROVE  k + j \in 1..n /\ q[k + j].tipo = "PORLASDUDAS"
  <2>1. 1 + k \in 1..1 + n /\ v[1 + k].tipo = "PROGRAMATERMINADO"
    BY <1>1, <1>2
  <2>a. \A x \in 1..3 : (1 + k) + x \in DOMAIN v /\ v[(1 + k) + x].tipo = "PORLASDUDAS"
    BY <1>1, <1>2, <2>1 DEF Acompaniado
  <2>2. (1 + k) + j \in 1..1 + n /\ v[(1 + k) + j].tipo = "PORLASDUDAS"
    BY <1>1, <2>a
  <2>3. k + j \in 1..n /\ (1 + k) + j = 1 + (k + j)
    BY <1>1, <2>2
  <2> QED BY <1>1, <2>2, <2>3
<1>3. ASSUME Acompaniado(v), m.tipo = "PROGRAMATERMINADO", NEW j \in 1..3
      PROVE  j \in 1..n /\ q[j].tipo = "PORLASDUDAS"
  <2>1. 1 \in 1..1 + n
    BY <1>1
  <2>a. \A x \in 1..3 : 1 + x \in DOMAIN v /\ v[1 + x].tipo = "PORLASDUDAS"
    BY <1>1, <1>3, <2>1 DEF Acompaniado
  <2>2. 1 + j \in 1..1 + n /\ v[1 + j].tipo = "PORLASDUDAS"
    BY <1>1, <2>a
  <2>3. j \in 1..n
    BY <1>1, <2>2
  <2> QED BY <1>1, <2>2, <2>3
<1>4. ASSUME NEW a \in Nat, ConDudas(v, a + 1) PROVE m.tipo = "PORLASDUDAS" /\ ConDudas(q, a)
  <2>1. 1 \in 1..a + 1
    OBVIOUS
  <2>2. m.tipo = "PORLASDUDAS"
    BY <1>1, <1>4, <2>1 DEF ConDudas
  <2>3. ASSUME NEW k \in 1..a PROVE k \in 1..n /\ q[k].tipo = "PORLASDUDAS"
    <3>1. 1 + k \in 1..a + 1
      OBVIOUS
    <3>2. 1 + k \in 1..1 + n /\ v[1 + k].tipo = "PORLASDUDAS"
      BY <1>1, <1>4, <3>1 DEF ConDudas
    <3>3. k \in 1..n
      BY <1>1, <3>2
    <3> QED BY <1>1, <3>2, <3>3
  <2> QED BY <1>1, <2>2, <2>3 DEF ConDudas
<1> QED BY <1>1, <1>2, <1>3, <1>4 DEF Acompaniado, ConDudas, v

\* What comes later changes nothing.
LEMMA DudasJuntas ==
  ASSUME NEW q, EsLista(q), NEW r, EsLista(r)
  PROVE  /\ Acompaniado(q) /\ Acompaniado(r) => Acompaniado(q \o r)
         /\ \A a \in Int : ConDudas(q, a) => ConDudas(q \o r, a)
<1> DEFINE v == q \o r
           m == Len(q)
           n == Len(r)
<1>1. /\ m \in Nat /\ n \in Nat
      /\ DOMAIN q = 1..m /\ DOMAIN r = 1..n /\ DOMAIN v = 1..m + n
      /\ \A k \in 1..m : v[k] = q[k]
      /\ \A k \in 1..n : v[m + k] = r[k]
  BY LugaresJuntos
<1> HIDE DEF v, m, n
<1>0. \A k \in 1..m : k \in 1..m + n
  BY <1>1
<1>2. ASSUME NEW a \in Int, ConDudas(q, a), NEW k \in 1..a
      PROVE  k \in DOMAIN v /\ v[k].tipo = "PORLASDUDAS"
  <2>1. k \in 1..m /\ q[k].tipo = "PORLASDUDAS"
    BY <1>1, <1>2 DEF ConDudas
  <2> QED BY <1>0, <1>1, <2>1
<1>3. ASSUME Acompaniado(q), Acompaniado(r), NEW k \in 1..m + n,
             v[k].tipo = "PROGRAMATERMINADO", NEW j \in 1..3
      PROVE  k + j \in 1..m + n /\ v[k + j].tipo = "PORLASDUDAS"
  <2>1. CASE k <= m
    <3>1. k \in 1..m
      BY <2>1
    <3>a. k \in DOMAIN q /\ q[k].tipo = "PROGRAMATERMINADO"
      BY <1>1, <1>3, <3>1
    <3>b. \A x \in 1..3 : k + x \in DOMAIN q /\ q[k + x].tipo = "PORLASDUDAS"
      BY <1>3, <3>a DEF Acompaniado
    <3>2. k + j \in 1..m /\ q[k + j].tipo = "PORLASDUDAS"
      BY <1>1, <3>b
    <3> QED BY <1>0, <1>1, <3>2
  <2>2. CASE ~(k <= m)
    <3> DEFINE l == k - m
    <3>1. l \in 1..n /\ k = m + l
      BY <1>1, <2>2
    <3> HIDE DEF l
    <3>a. l \in DOMAIN r /\ r[l].tipo = "PROGRAMATERMINADO"
      BY <1>1, <1>3, <3>1
    <3>b. \A x \in 1..3 : l + x \in DOMAIN r /\ r[l + x].tipo = "PORLASDUDAS"
      BY <1>3, <3>a DEF Acompaniado
    <3>2. l + j \in 1..n /\ r[l + j].tipo = "PORLASDUDAS"
      BY <1>1, <3>b
    <3>3. k + j = m + (l + j) /\ m + (l + j) \in 1..m + n
      BY <1>1, <3>1, <3>2
    <3> QED BY <1>1, <3>2, <3>3
  <2> QED BY <2>1, <2>2
<1> QED BY <1>1, <1>2, <1>3 DEF Acompaniado, ConDudas, v

\* Who ends no program says nothing after it.
LEMMA SinFinal ==
  ASSUME NEW q, ~Hay(q, "PROGRAMATERMINADO")
  PROVE  Acompaniado(q)
BY DEF Acompaniado, Hay, ToSet

LEMMA MenosDudas ==
  ASSUME NEW q, NEW a \in Int, NEW b \in Int, b <= a, ConDudas(q, a)
  PROVE  ConDudas(q, b)
BY DEF ConDudas

LEMMA AlgunaDuda ==
  ASSUME NEW q, NEW a \in Int, a >= 1, ConDudas(q, a)
  PROVE  q # <<>>
<1>1. 1 \in 1..a
  OBVIOUS
<1>2. 1 \in DOMAIN q
  BY <1>1 DEF ConDudas
<1>3. DOMAIN <<>> = {}
  OBVIOUS
<1> QED BY <1>2, <1>3

LEMMA FinalAcompaniado == Acompaniado(FinalDePrograma)
<1> DEFINE m == Mensaje("PROGRAMATERMINADO")
           d == Mensaje("PORLASDUDAS")
           q == [k \in 1 .. 3 |-> d]
<1>1. m.tipo = "PROGRAMATERMINADO" /\ d.tipo = "PORLASDUDAS"
  BY DEF Mensaje
<1> HIDE DEF m, d
<1>2. q \in Seq({d}) /\ Len(q) = 3 /\ DOMAIN q = 1..3 /\ \A k \in 1..3 : q[k] = d
  OBVIOUS
<1> HIDE DEF q
<1> DEFINE v == <<m>> \o q
<1>5. v = FinalDePrograma
  BY DEF FinalDePrograma, m, q, d
<1>3. EsLista(q) /\ Len(q) = 3
  BY <1>2 DEF EsLista
<1>6. DOMAIN v = 1..4 /\ v[1] = m /\ \A k \in 1..3 : v[1 + k] = d
  <2>0. ASSUME NEW x, EsLista(x)
        PROVE  /\ DOMAIN (<<m>> \o x) = 1..1 + Len(x) /\ (<<m>> \o x)[1] = m
               /\ \A k \in 1..Len(x) : (<<m>> \o x)[1 + k] = x[k]
    BY <2>0, LugaresTras
  <2>1. /\ DOMAIN v = 1..1 + Len(q) /\ v[1] = m
        /\ \A k \in 1..Len(q) : v[1 + k] = q[k]
    BY <1>3, <2>0
  <2> HIDE DEF v
  <2> QED BY <1>2, <1>3, <2>1
<1> HIDE DEF v
<1>7. ASSUME NEW k \in 1..4, v[k].tipo = "PROGRAMATERMINADO" PROVE k = 1
  <2>1. CASE k # 1
    <3>1. k - 1 \in 1..3 /\ 1 + (k - 1) = k
      BY <2>1
    <3> QED BY <1>1, <1>6, <1>7, <3>1
  <2> QED BY <2>1
<1>8. \A j \in 1..3 : 1 + j \in 1..4
  OBVIOUS
<1>9. Acompaniado(v)
  BY <1>1, <1>6, <1>7, <1>8 DEF Acompaniado
<1> QED BY <1>5, <1>9

\* The CPUs whose ends moved the index are at most as many as the CPUs.
LEMMA RebobinaronPocos ==
  ASSUME Conjuntos, Cardinality(Cpus) <= 3, rebobinaron \subseteq {s \in Sockets : DeCpu(s)}
  PROVE  /\ IsFiniteSet(rebobinaron) /\ Cardinality(rebobinaron) \in Nat
         /\ Cardinality(rebobinaron) <= 3
         /\ rebobinaron \subseteq Sockets /\ rebobinaron \subseteq Nat
<1> DEFINE T == {s \in Sockets : DeCpu(s)}
           S == {c \in Cpus : descriptor[c] \in Sockets}
           f == [c \in S |-> descriptor[c]]
<1>1. IsFiniteSet(S) /\ Cardinality(S) <= Cardinality(Cpus) /\ Cardinality(Cpus) \in Nat
  BY FS_Subset, FS_CardinalityType, AdmisionAssumption
<1>2. f \in Surjection(S, T)
  <2>1. \A c \in S : descriptor[c] \in T
    BY DEF DeCpu
  <2>2. \A s \in T : \E c \in S : descriptor[c] = s
    BY DEF DeCpu
  <2> HIDE DEF S, T
  <2> QED BY <2>1, <2>2 DEF Surjection
<1>3. IsFiniteSet(T) /\ Cardinality(T) <= Cardinality(S)
  BY <1>1, <1>2, FS_Surjection
<1>4. Cardinality(S) \in Nat /\ Cardinality(T) \in Nat
  BY <1>1, <1>3, FS_CardinalityType
<1> HIDE DEF S, T, f
<1>5. rebobinaron \in SUBSET T /\ T \subseteq Sockets
  BY DEF T
<1>6. IsFiniteSet(rebobinaron) /\ Cardinality(rebobinaron) <= Cardinality(T)
  BY <1>3, <1>5, FS_Subset
<1>7. Cardinality(rebobinaron) \in Nat
  BY <1>6, FS_CardinalityType
<1>8. Cardinality(rebobinaron) <= 3
  BY <1>1, <1>3, <1>4, <1>6, <1>7
<1> QED BY <1>5, <1>6, <1>7, <1>8, SocketsNat

\* A step that comes to no socket again, and takes nothing from those it is to come to.
LEMMA RondaSigue ==
  ASSUME Conjuntos, Cardinality(Cpus) <= 3, Ronda, UNCHANGED <<leibles, rebobinaron>>,
         \A s \in Sockets : DeCpu(s) => DeCpu(s)',
         \A s \in leibles \cup rebobinaron : PorMirar(s)' => PorMirar(s),
         rebobinaron = {} => \A s \in leibles : PorMirar(s)' /\ HayAlgo(s) => HayAlgo(s)',
         \A s \in rebobinaron : \A a \in Int :
           ConDudas(alKernel[s], a) => ConDudas(alKernel'[s], a),
         etapa' \in {"procesa", "termina", "bloqueado"} => i' = paquete'.socket,
         hilo'.etapa = "copia" => etapa' = "select",
         Ocupado' /\ paquete'.socket \in rebobinaron => paquete'.mensaje.tipo = "PORLASDUDAS",
         etapa' = "bloqueado" => rebobinaron # {} /\ paquete'.socket \notin rebobinaron
  PROVE  Ronda'
<1>1. rebobinaron' \subseteq {s \in Sockets : DeCpu(s)'}
  BY DEF Ronda
<1>2. Cardinality(rebobinaron) \in Nat
  BY RebobinaronPocos DEF Ronda
<1>3. ASSUME NEW s \in rebobinaron
      PROVE  ConDudas(alKernel'[s],
                      (3 - Cardinality(rebobinaron)) + (IF PorMirar(s)' THEN 1 ELSE 0))
  <2> DEFINE n == 3 - Cardinality(rebobinaron)
             a == n + (IF PorMirar(s) THEN 1 ELSE 0)
             b == n + (IF PorMirar(s)' THEN 1 ELSE 0)
  <2>1. n \in Int
    BY <1>2
  <2>2. PorMirar(s)' => PorMirar(s)
    OBVIOUS
  <2> HIDE DEF n
  <2>3. a \in Int /\ b \in Int /\ b <= a
    BY <2>1, <2>2
  <2>4. ConDudas(alKernel[s], a)
    BY DEF Ronda, QuedanDudas, n
  <2> HIDE DEF a, b
  <2>5. ConDudas(alKernel[s], b)
    BY <2>3, <2>4, MenosDudas
  <2>6. ConDudas(alKernel'[s], b)
    BY <2>3, <2>5
  <2> QED BY <2>6 DEF b, n
<1>4. QuedanDudas'
  BY <1>3 DEF QuedanDudas
<1>5. rebobinaron' = {} => \A s \in leibles' : PorMirar(s)' => HayAlgo(s)'
  BY DEF Ronda
<1> QED BY <1>1, <1>4, <1>5 DEF Ronda

\* While the main thread is in select the index moves for nothing.
LEMMA RondaEnSelect ==
  ASSUME Conjuntos, Cardinality(Cpus) <= 3, Ronda, etapa = "select",
         UNCHANGED <<leibles, rebobinaron, etapa, alKernel, descriptor>>
  PROVE  Ronda'
<1>1. \A s \in Sockets : DeCpu(s) => DeCpu(s)'
  BY DEF DeCpu
<1>2. \A s \in leibles \cup rebobinaron : ~PorMirar(s)'
  BY DEF PorMirar, Ocupado
<1>3. ~Ocupado' /\ etapa' \notin {"procesa", "termina", "bloqueado"}
  BY DEF Ocupado
<1> QED BY <1>1, <1>2, <1>3, RondaSigue

\* The step of another, that takes nothing from any socket.
LEMMA RondaDeOtros ==
  ASSUME Conjuntos, Cardinality(Cpus) <= 3, Ronda,
         UNCHANGED <<i, leibles, rebobinaron, etapa, paquete, descriptor>>,
         hilo'.etapa = "copia" => hilo.etapa = "copia",
         \A s \in leibles : HayAlgo(s) => HayAlgo(s)',
         \A s \in Sockets : \A a \in Int :
           ConDudas(alKernel[s], a) => ConDudas(alKernel'[s], a)
  PROVE  Ronda'
<1>1. \A s \in Sockets : DeCpu(s) => DeCpu(s)'
  BY DEF DeCpu
<1>2. \A s \in leibles \cup rebobinaron : PorMirar(s)' => PorMirar(s)
  BY DEF PorMirar, Ocupado
<1>3. /\ etapa' \in {"procesa", "termina", "bloqueado"} => i' = paquete'.socket
      /\ hilo'.etapa = "copia" => etapa' = "select"
      /\ Ocupado' /\ paquete'.socket \in rebobinaron => paquete'.mensaje.tipo = "PORLASDUDAS"
      /\ etapa' = "bloqueado" => rebobinaron # {} /\ paquete'.socket \notin rebobinaron
  BY DEF Ronda, Ocupado
<1>4. rebobinaron \subseteq Sockets
  BY DEF Ronda
<1> QED BY <1>1, <1>2, <1>3, <1>4, RondaSigue

LEMMA FinalesSiguen ==
  ASSUME FinalesCompletos, \A s \in Sockets : DeCpu(s) => DeCpu(s)',
         \A s \in Sockets :
           /\ Acompaniado(Pendientes(s)) => Acompaniado(Pendientes(s)')
           /\ Hay(Pendientes(s)', "PROGRAMATERMINADO") =>
                Hay(Pendientes(s), "PROGRAMATERMINADO") \/ DeCpu(s)
  PROVE  FinalesCompletos'
BY DEF FinalesCompletos

LEMMA NumerosSiguen ==
  ASSUME Numeros, i' \in Int, unScript'.paginas \in Nat,
         \A s \in Sockets : \A m \in ToSet(Pendientes(s)') :
           m.tipo = "ARCHIVO" => m \in ToSet(Pendientes(s)) \/ m.paginas \in Nat,
         hilo'.etapa \in {"decide", "cuenta", "crea", "copia"} => hilo'.paginas \in Nat,
         \A p \in DOMAIN programas' : programas'[p].paginas \in Nat
  PROVE  Numeros'
BY DEF Numeros

\* What follows of the next socket of the round.
LEMMA SiguienteEs ==
  ASSUME Conjuntos, QuedanPorMirar # {}
  PROVE  /\ Siguiente \in leibles /\ Siguiente \in Nat /\ Siguiente >= i
         /\ Siguiente # SERVIDOR => Siguiente \in Sockets
<1>1. QuedanPorMirar \subseteq leibles /\ QuedanPorMirar \subseteq Nat
  BY SocketsNat, AdmisionAssumption DEF Conjuntos, QuedanPorMirar
<1>2. Siguiente \in QuedanPorMirar
  BY <1>1, MinEs DEF Siguiente
<1> QED BY <1>1, <1>2 DEF QuedanPorMirar, Conjuntos

LEMMA VueltasSiguen ==
  ASSUME Vueltas, FinalesCompletos', Numeros',
         "movido" \in historia => "movido" \in historia',
         Cardinality(Cpus) <= 3 /\ Ronda => Ronda'
  PROVE  Vueltas'
BY DEF Vueltas

\* Nothing is read, nor comes.
LEMMA FinalesIguales ==
  ASSUME FinalesCompletos, descriptor' = descriptor,
         \A s \in Sockets : Pendientes(s)' = Pendientes(s)
  PROVE  FinalesCompletos'
<1>1. \A s \in Sockets : DeCpu(s) => DeCpu(s)'
  BY DEF DeCpu
<1> QED BY <1>1, FinalesSiguen

LEMMA SelectVueltas ==
  ASSUME Estructura, Vueltas, Select
  PROVE  Vueltas'
<1>1. /\ i' = 0 /\ leibles' = Listos /\ rebobinaron' = {} /\ etapa' = "recorre" /\ ~Ocupado
      /\ UNCHANGED <<alKernel, llegadas, descriptor, unScript, hilo, programas>>
      /\ hilo.etapa = "copia" => "movido" \in historia'
  BY DEF Select, red, admision, Ocupado
<1>2. \A s \in Sockets : Pendientes(s)' = Pendientes(s)
  BY <1>1, PendientesIgual DEF Ocupado
<1>3. FinalesCompletos'
  BY <1>1, <1>2, FinalesIguales DEF Vueltas
<1>4. Numeros'
  BY <1>1, <1>2, NumerosSiguen DEF Vueltas, Numeros
<1>5. ASSUME "movido" \notin historia' PROVE Ronda'
  <2>1. SERVIDOR \notin Sockets
    BY AdmisionAssumption DEF Sockets
  <2>2. \A s \in leibles' : HayAlgo(s)'
    BY <1>1, <2>1 DEF Listos, HayAlgo
  <2>3. ~Ocupado' /\ hilo'.etapa # "copia"
    BY <1>1, <1>5 DEF Ocupado
  <2> QED BY <1>1, <2>2, <2>3 DEF Ronda, QuedanDudas
<1> QED BY <1>3, <1>4, <1>5 DEF Vueltas

LEMMA FinDeVueltaVueltas ==
  ASSUME Estructura, Vueltas, FinDeVuelta
  PROVE  Vueltas'
<1>1. /\ i' = Fdmax + 1 /\ leibles' = {} /\ rebobinaron' = rebobinaron /\ etapa' = "select"
      /\ ~Ocupado /\ ~Ocupado'
      /\ UNCHANGED <<alKernel, llegadas, descriptor, unScript, hilo, programas, historia>>
  BY DEF FinDeVuelta, red, admision, Ocupado
<1>2. \A s \in Sockets : Pendientes(s)' = Pendientes(s)
  BY <1>1, PendientesIgual DEF Ocupado
<1>3. FinalesCompletos'
  BY <1>1, <1>2, FinalesIguales DEF Vueltas
<1>4. Numeros'
  <2>1. i' \in Int
    BY <1>1, AceptadosFinito, AdmisionAssumption DEF Fdmax
  <2> QED BY <1>1, <1>2, <2>1, NumerosSiguen DEF Vueltas, Numeros
<1>5. ASSUME Cardinality(Cpus) <= 3, Ronda PROVE Ronda'
  <2>1. Cardinality(rebobinaron) \in Nat
    BY <1>5, RebobinaronPocos DEF Ronda, Estructura
  <2>2. ASSUME NEW s \in rebobinaron
        PROVE  ~PorMirar(s)' /\ ConDudas(alKernel[s], 3 - Cardinality(rebobinaron))
    <3> DEFINE n == 3 - Cardinality(rebobinaron)
    <3>1. n \in Int
      BY <2>1
    <3>2. ConDudas(alKernel[s], n + (IF PorMirar(s) THEN 1 ELSE 0))
      BY <1>5 DEF Ronda, QuedanDudas
    <3> HIDE DEF n
    <3>3. ConDudas(alKernel[s], n)
      BY <3>1, <3>2, MenosDudas
    <3>4. ~PorMirar(s)'
      BY <1>1 DEF PorMirar
    <3> QED BY <3>3, <3>4 DEF n
  <2>3. QuedanDudas'
    <3>1. ASSUME NEW s \in rebobinaron
          PROVE  ConDudas(alKernel[s],
                          (3 - Cardinality(rebobinaron)) + (IF PorMirar(s)' THEN 1 ELSE 0))
      <4>1. (3 - Cardinality(rebobinaron)) + 0 = 3 - Cardinality(rebobinaron)
        BY <2>1
      <4> QED BY <2>2, <4>1
    <3> QED BY <1>1, <3>1 DEF QuedanDudas
  <2>4. rebobinaron' \subseteq {s \in Sockets : DeCpu(s)'}
    BY <1>1, <1>5 DEF Ronda, DeCpu
  <2> QED BY <1>1, <2>3, <2>4 DEF Ronda
<1> QED BY <1>1, <1>3, <1>4, <1>5, VueltasSiguen

\* The socket it waits for is that of nobody who moved the index: those have something.
LEMMA SeBloqueaVueltas ==
  ASSUME Estructura, Vueltas, SeBloquea
  PROVE  Vueltas'
<1> DEFINE s0 == Siguiente
<1>1. /\ i' = s0 /\ etapa = "recorre" /\ etapa' = "bloqueado" /\ paquete'.socket = s0
      /\ QuedanPorMirar # {} /\ ~HayAlgo(s0) /\ ~Ocupado /\ ~Ocupado'
      /\ UNCHANGED <<leibles, rebobinaron, alKernel, llegadas, descriptor, unScript, hilo, programas,
                     historia>>
  BY DEF SeBloquea, red, admision, Ocupado
<1>2. \A s \in Sockets : Pendientes(s)' = Pendientes(s)
  BY <1>1, PendientesIgual DEF Ocupado
<1>3. FinalesCompletos'
  BY <1>1, <1>2, FinalesIguales DEF Vueltas
<1>a. /\ s0 \in leibles /\ s0 \in Nat /\ s0 >= i
      /\ s0 # SERVIDOR => s0 \in Sockets
  BY <1>1, SiguienteEs DEF Estructura
<1> HIDE DEF s0
<1>4. Numeros'
  BY <1>1, <1>2, <1>a, NumerosSiguen DEF Vueltas, Numeros
<1>b. i \in Int
  BY DEF Vueltas, Numeros
<1>5. ASSUME Cardinality(Cpus) <= 3, Ronda PROVE Ronda'
  <2>1. PorMirar(s0)
    BY <1>1, <1>a DEF PorMirar
  <2>2. rebobinaron # {}
    BY <1>1, <1>5, <1>a, <2>1 DEF Ronda
  <2>3. /\ Cardinality(rebobinaron) \in Nat /\ Cardinality(rebobinaron) <= 3
        /\ rebobinaron \subseteq Sockets /\ rebobinaron \subseteq Nat
    BY <1>5, RebobinaronPocos DEF Ronda, Estructura
  <2>4. s0 \notin rebobinaron
    <3> SUFFICES ASSUME s0 \in rebobinaron PROVE FALSE
      OBVIOUS
    <3> DEFINE a == (3 - Cardinality(rebobinaron)) + 1
    <3>1. ConDudas(alKernel[s0], a)
      BY <1>5, <2>1 DEF Ronda, QuedanDudas
    <3>2. a \in Int /\ a >= 1
      BY <2>3
    <3> HIDE DEF a
    <3>3. alKernel[s0] # <<>>
      BY <3>1, <3>2, AlgunaDuda
    <3>4. s0 # SERVIDOR
      BY <2>3, AdmisionAssumption DEF Sockets
    <3> QED BY <1>1, <3>3, <3>4 DEF HayAlgo
  <2>5. leibles \cup rebobinaron \subseteq Nat
    BY <2>3, SocketsNat, AdmisionAssumption DEF Estructura, Conjuntos
  <2>6. \A s \in leibles \cup rebobinaron : PorMirar(s)' => PorMirar(s)
    BY <1>1, <1>a, <1>b, <2>5 DEF PorMirar
  <2>7. \A s \in Sockets : DeCpu(s) => DeCpu(s)'
    BY <1>1 DEF DeCpu
  <2>8. hilo'.etapa = "copia" => etapa' = "select"
    BY <1>1, <1>5 DEF Ronda
  <2>9. Conjuntos
    BY DEF Estructura
  <2> QED BY <1>1, <1>5, <2>2, <2>4, <2>6, <2>7, <2>8, <2>9, RondaSigue
<1> QED BY <1>1, <1>3, <1>4, <1>5, VueltasSiguen

\* A client is accepted: nobody who moved the index.
LEMMA AceptaVueltas ==
  ASSUME Estructura, Vueltas, llegadas # <<>>, ~Ocupado, Acepta, i' \in Int,
         Cardinality(Cpus) <= 3 /\ Ronda =>
           \A s \in leibles \cup rebobinaron : PorMirar(s)' => PorMirar(s) /\ s # SERVIDOR,
         UNCHANGED <<leibles, rebobinaron, unScript, hilo, programas, historia>>, etapa # "select"
  PROVE  Vueltas'
<1> DEFINE c == Head(llegadas)
           s0 == Fdmax + 1
           m == Mensaje(IF c \in Cpus THEN "CPU" ELSE "CONSOLA")
<1>1. /\ descriptor' = [descriptor EXCEPT ![c] = s0]
      /\ alKernel' = [alKernel EXCEPT ![s0] = <<m>>]
      /\ etapa' = "recorre" /\ ~Ocupado'
  BY DEF Acepta, Ocupado
<1>2. m.tipo \in {"CPU", "CONSOLA"}
  BY DEF Mensaje
<1>3. descriptor[c] = 0 /\ descriptor \in [Clientes -> Nat] /\ DOMAIN alKernel = Sockets
  <2>1. llegadas \in Seq(Clientes) /\ \A d \in ToSet(llegadas) : descriptor[d] = 0
    BY DEF Estructura, Conjuntos, SocketsDeCadaUno
  <2> QED BY <2>1, ListaSaca DEF Estructura, Conjuntos
<1>4. Fdmax \in Nat /\ s0 \in Nat /\ s0 > Fdmax
  BY AceptadosFinito, AdmisionAssumption DEF Fdmax
<1> HIDE DEF c, s0, m
<1>5. \A d \in Cpus : descriptor[d] # 0 => descriptor'[d] = descriptor[d] /\ descriptor[d] # s0
  <2>1. \A d \in Cpus : descriptor[d] # 0 => descriptor[d] \in SERVIDOR + 1 .. Fdmax
    BY DEF Estructura, SocketsDeCadaUno, Clientes
  <2>2. s0 \notin SERVIDOR + 1 .. Fdmax
    BY <1>4, AdmisionAssumption
  <2> QED BY <1>1, <1>3, <2>1, <2>2 DEF Clientes
<1>6. \A s \in Sockets : DeCpu(s) => DeCpu(s)' /\ s # s0
  <2>1. 0 \notin Sockets
    BY SocketsNat
  <2> QED BY <1>5, <2>1 DEF DeCpu
<1>7. ASSUME NEW t \in Sockets
      PROVE  /\ t # s0 => Pendientes(t)' = Pendientes(t) /\ alKernel'[t] = alKernel[t]
             /\ t = s0 => Pendientes(t)' = <<m>> /\ alKernel'[t] = <<m>>
  <2>1. Pendientes(t) = alKernel[t] /\ Pendientes(t)' = alKernel'[t]
    BY <1>1 DEF Pendientes, Sirve
  <2> QED BY <1>1, <1>3, <2>1
<1>8. /\ ~Hay(<<m>>, "PROGRAMATERMINADO") /\ ToSet(<<m>>) = {m} /\ Acompaniado(<<m>>)
      /\ <<m>> # <<>>
  BY <1>2, UnMensaje, SinFinal
<1>9. FinalesCompletos'
  <2>1. \A s \in Sockets :
          /\ Acompaniado(Pendientes(s)) => Acompaniado(Pendientes(s)')
          /\ Hay(Pendientes(s)', "PROGRAMATERMINADO") =>
               Hay(Pendientes(s), "PROGRAMATERMINADO") \/ DeCpu(s)
    BY <1>7, <1>8
  <2> QED BY <1>6, <2>1, FinalesSiguen DEF Vueltas
<1>10. Numeros'
  <2>1. \A s \in Sockets : \A x \in ToSet(Pendientes(s)') :
          x.tipo = "ARCHIVO" => x \in ToSet(Pendientes(s)) \/ x.paginas \in Nat
    BY <1>2, <1>7, <1>8
  <2> QED BY <2>1, NumerosSiguen DEF Vueltas, Numeros
<1>11. ASSUME Cardinality(Cpus) <= 3, Ronda PROVE Ronda'
  <2>0. \A s \in leibles \cup rebobinaron : PorMirar(s)' => PorMirar(s) /\ s # SERVIDOR
    BY <1>11
  <2>1. \A s \in rebobinaron : s \in Sockets /\ s # s0
    BY <1>6, <1>11 DEF Ronda
  <2>2. \A s \in rebobinaron : alKernel'[s] = alKernel[s]
    BY <1>7, <2>1
  <2>3. \A s \in leibles : PorMirar(s)' /\ HayAlgo(s) => HayAlgo(s)'
    <3>1. \A s \in leibles : PorMirar(s)' => s \in Sockets /\ s # SERVIDOR
      BY <2>0 DEF Estructura, Conjuntos
    <3> QED BY <1>7, <1>8, <3>1 DEF HayAlgo
  <2>4. Conjuntos
    BY DEF Estructura
  <2>5. hilo'.etapa # "copia"
    BY <1>11 DEF Ronda
  <2>6. /\ \A s \in Sockets : DeCpu(s) => DeCpu(s)'
        /\ \A s \in leibles \cup rebobinaron : PorMirar(s)' => PorMirar(s)
        /\ \A s \in rebobinaron : \A a \in Int :
             ConDudas(alKernel[s], a) => ConDudas(alKernel'[s], a)
    BY <1>6, <2>0, <2>2
  <2> QED BY <1>1, <1>11, <2>3, <2>4, <2>5, <2>6, RondaSigue
<1> QED BY <1>9, <1>10, <1>11, VueltasSiguen

\* The next message, of the socket that follows or of the one it waited for.
LEMMA LeeVueltas ==
  ASSUME Estructura, Vueltas, NEW s0 \in Sockets, ~Ocupado, Deserializa(s0),
         i' \in Int, Ronda => i' = s0,
         \/ etapa = "recorre" /\ s0 >= i
         \/ etapa = "bloqueado" /\ paquete.socket = s0,
         UNCHANGED <<leibles, rebobinaron, llegadas, descriptor, unScript, hilo, programas, historia>>
  PROVE  Vueltas'
<1>1. /\ \A t \in Sockets : Pendientes(t)' = Pendientes(t)
      /\ Ocupado' /\ paquete'.socket = s0 /\ etapa' = "procesa"
  BY PendientesLeido DEF Estructura
<1>2. FinalesCompletos'
  BY <1>1, FinalesIguales DEF Vueltas
<1>b. i \in Int /\ s0 \in Nat
  BY SocketsNat DEF Vueltas, Numeros
<1>3. Numeros'
  BY <1>1, <1>b, NumerosSiguen DEF Vueltas, Numeros
<1> DEFINE q == alKernel[s0]
<1>4. /\ q # <<>> /\ EsLista(q) /\ paquete'.mensaje = Head(q)
      /\ alKernel' = [alKernel EXCEPT ![s0] = Tail(q)]
  BY DEF Deserializa, Estructura, Conjuntos
<1>5. /\ alKernel'[s0] = Tail(q) /\ \A t \in Sockets : t # s0 => alKernel'[t] = alKernel[t]
  BY <1>4 DEF Estructura, Conjuntos
<1>6. <<Head(q)>> \o Tail(q) = q /\ EsLista(Tail(q))
  BY <1>4, CabezaYCola
<1>7. \A a \in Nat : ConDudas(q, a + 1) => Head(q).tipo = "PORLASDUDAS" /\ ConDudas(Tail(q), a)
  <2>1. ASSUME NEW x, NEW y, EsLista(y), <<x>> \o y = q, NEW a \in Nat, ConDudas(q, a + 1)
        PROVE  x.tipo = "PORLASDUDAS" /\ ConDudas(y, a)
    BY <2>1, DudasTras
  <2> QED BY <1>6, <2>1
<1> HIDE DEF q
<1>8. ASSUME Cardinality(Cpus) <= 3, Ronda PROVE Ronda'
  <2>0. Conjuntos
    BY DEF Estructura
  <2>1. /\ Cardinality(rebobinaron) \in Nat /\ Cardinality(rebobinaron) <= 3
        /\ rebobinaron \subseteq Sockets /\ rebobinaron \subseteq Nat
    BY <1>8, <2>0, RebobinaronPocos DEF Ronda
  <2> DEFINE n == 3 - Cardinality(rebobinaron)
  <2>2. n \in Nat
    BY <2>1
  <2> HIDE DEF n
  <2>3. leibles \cup rebobinaron \subseteq Nat
    BY <2>0, <2>1, SocketsNat, AdmisionAssumption DEF Conjuntos
  <2>a. i' = s0
    BY <1>8
  <2>4. \A s \in leibles \cup rebobinaron : (PorMirar(s)' <=> s > s0)
    BY <1>1, <2>a, <2>3, <1>b DEF PorMirar
  <2>5. \A s \in leibles \cup rebobinaron : s > s0 => PorMirar(s)
    <3>1. CASE etapa = "recorre" /\ s0 >= i
      BY <1>b, <2>3, <3>1 DEF PorMirar
    <3>2. CASE etapa = "bloqueado" /\ paquete.socket = s0
      <4>1. i = s0
        BY <1>8, <3>2 DEF Ronda
      <4> QED BY <1>b, <2>3, <3>2, <4>1 DEF PorMirar
    <3> QED BY <3>1, <3>2
  <2>6. ASSUME s0 \in rebobinaron
        PROVE  Head(q).tipo = "PORLASDUDAS" /\ ConDudas(Tail(q), n)
    <3>1. etapa = "recorre" /\ s0 >= i
      BY <1>8, <2>6 DEF Ronda
    <3>2. PorMirar(s0)
      BY <3>1 DEF PorMirar
    <3>3. ConDudas(q, n + 1)
      BY <1>8, <2>6, <3>2 DEF Ronda, QuedanDudas, q, n
    <3> QED BY <1>7, <2>2, <3>3
  <2>7. QuedanDudas'
    <3>1. ASSUME NEW s \in rebobinaron
          PROVE  ConDudas(alKernel'[s], n + (IF PorMirar(s)' THEN 1 ELSE 0))
      <4>1. CASE s = s0
        <5>1. ~PorMirar(s)' /\ n + 0 = n
          BY <1>b, <2>2, <2>4, <4>1
        <5> QED BY <1>5, <2>6, <4>1, <5>1
      <4>2. CASE s # s0
        <5>1. alKernel'[s] = alKernel[s] /\ (PorMirar(s)' => PorMirar(s))
          BY <1>5, <2>1, <2>4, <2>5, <4>2
        <5> DEFINE a == n + (IF PorMirar(s) THEN 1 ELSE 0)
                   b == n + (IF PorMirar(s)' THEN 1 ELSE 0)
        <5>2. a \in Int /\ b \in Int /\ b <= a
          BY <2>2, <5>1
        <5>3. ConDudas(alKernel[s], a)
          BY <1>8 DEF Ronda, QuedanDudas, n
        <5> HIDE DEF a, b
        <5>4. ConDudas(alKernel[s], b)
          BY <5>2, <5>3, MenosDudas
        <5> QED BY <5>1, <5>4 DEF b
      <4> QED BY <4>1, <4>2
    <3>2. rebobinaron' = rebobinaron
      OBVIOUS
    <3> QED BY <3>1, <3>2 DEF QuedanDudas, n
  <2>8. rebobinaron' \subseteq {s \in Sockets : DeCpu(s)'}
    BY <1>8 DEF Ronda, DeCpu
  <2>9. Ocupado' /\ paquete'.socket \in rebobinaron' => paquete'.mensaje.tipo = "PORLASDUDAS"
    BY <1>1, <1>4, <2>6
  <2>10. ASSUME rebobinaron' = {}, NEW s \in leibles', PorMirar(s)' PROVE HayAlgo(s)'
    <3>1. PorMirar(s) /\ s > s0
      BY <2>4, <2>5, <2>10
    <3>2. HayAlgo(s)
      BY <1>8, <2>10, <3>1 DEF Ronda
    <3>3. s # s0 /\ (s = SERVIDOR \/ s \in Sockets)
      BY <1>b, <2>0, <2>3, <3>1 DEF Conjuntos
    <3> QED BY <1>5, <3>2, <3>3 DEF HayAlgo
  <2>11. hilo'.etapa # "copia"
    BY <1>8 DEF Ronda
  <2> QED BY <1>1, <2>a, <2>7, <2>8, <2>9, <2>10, <2>11 DEF Ronda
<1> QED BY <1>2, <1>3, <1>8, VueltasSiguen

LEMMA EntradaVueltas ==
  ASSUME Estructura, Vueltas, RecibeConexion \/ Recibe \/ Despierta
  PROVE  Vueltas'
<1>1. /\ UNCHANGED <<leibles, rebobinaron, unScript, hilo, programas, historia>>
      /\ ~Ocupado
  BY DEF RecibeConexion, Recibe, Despierta, admision, Ocupado
<1>2. i \in Int /\ leibles \subseteq Nat /\ SERVIDOR \in Nat
  BY SocketsNat, AdmisionAssumption DEF Estructura, Conjuntos, Vueltas, Numeros
<1>3. ASSUME Cardinality(Cpus) <= 3, Ronda PROVE leibles \cup rebobinaron \subseteq Nat
  BY <1>2, <1>3, RebobinaronPocos DEF Ronda, Estructura
<1>4. CASE RecibeConexion
  <2>1. /\ etapa = "recorre" /\ QuedanPorMirar # {} /\ Siguiente = SERVIDOR /\ llegadas # <<>>
        /\ Acepta /\ i' = SERVIDOR + 1
    BY <1>4 DEF RecibeConexion
  <2>2. SERVIDOR >= i
    BY <2>1, SiguienteEs DEF Estructura
  <2>3. ASSUME Cardinality(Cpus) <= 3, Ronda, NEW s \in leibles \cup rebobinaron, PorMirar(s)'
        PROVE  PorMirar(s) /\ s # SERVIDOR
    <3>1. s \in Nat /\ etapa' = "recorre"
      BY <1>3, <2>1, <2>3 DEF Acepta
    <3>2. s >= SERVIDOR + 1
      BY <2>1, <2>3, <3>1 DEF PorMirar, Ocupado
    <3> QED BY <1>2, <2>1, <2>2, <3>1, <3>2 DEF PorMirar
  <2>4. i' \in Int /\ etapa # "select"
    BY <1>2, <2>1
  <2> QED BY <1>1, <2>1, <2>3, <2>4, AceptaVueltas
<1>5. CASE Recibe
  <2> DEFINE s0 == Siguiente
  <2>1. /\ etapa = "recorre" /\ QuedanPorMirar # {} /\ s0 # SERVIDOR /\ Deserializa(s0) /\ i' = s0
        /\ UNCHANGED <<llegadas, descriptor>>
    BY <1>5 DEF Recibe
  <2>2. s0 \in Sockets /\ s0 >= i /\ s0 \in Int
    BY <2>1, SiguienteEs DEF Estructura
  <2> HIDE DEF s0
  <2> QED BY <1>1, <2>1, <2>2, LeeVueltas
<1>6. CASE Despierta
  <2>0. etapa = "bloqueado" /\ paquete.socket \in Sockets \cup {SERVIDOR} /\ HayAlgo(paquete.socket)
    BY <1>6 DEF Despierta, Estructura, Conjuntos
  <2>1. CASE paquete.socket = SERVIDOR /\ Acepta /\ i' = i + 1
    <3>1. llegadas # <<>> /\ etapa' = "recorre" /\ i' \in Int
      BY <1>2, <2>0, <2>1 DEF HayAlgo, Acepta
    <3>2. ASSUME Cardinality(Cpus) <= 3, Ronda, NEW s \in leibles \cup rebobinaron, PorMirar(s)'
          PROVE  PorMirar(s) /\ s # SERVIDOR
      <4>1. i = SERVIDOR /\ s \in Nat
        BY <1>3, <2>0, <2>1, <3>2 DEF Ronda
      <4>2. s >= SERVIDOR + 1
        BY <2>1, <3>1, <3>2, <4>1 DEF PorMirar, Ocupado
      <4> QED BY <1>2, <2>0, <4>1, <4>2 DEF PorMirar
    <3> QED BY <1>1, <2>0, <2>1, <3>1, <3>2, AceptaVueltas
  <2>2. CASE paquete.socket # SERVIDOR /\ Deserializa(paquete.socket)
             /\ UNCHANGED <<i, llegadas, descriptor>>
    <3> DEFINE s0 == paquete.socket
    <3>1. s0 \in Sockets /\ Deserializa(s0)
      BY <2>0, <2>2
    <3>2. i' \in Int /\ (Ronda => i' = s0)
      BY <1>2, <2>0, <2>2 DEF Ronda
    <3>3. etapa = "bloqueado" /\ paquete.socket = s0
      BY <2>0
    <3> HIDE DEF s0
    <3> QED BY <1>1, <2>2, <3>1, <3>2, <3>3, LeeVueltas
  <2> QED BY <1>6, <2>1, <2>2 DEF Despierta
<1> QED BY <1>4, <1>5, <1>6

\* It finishes with a message, and goes on with the next socket or with an earlier one.
LEMMA AtendidoFinales ==
  ASSUME Estructura, FinalesCompletos, Ocupado, etapa' = "recorre", UNCHANGED red
  PROVE  /\ FinalesCompletos'
         /\ \A s \in Sockets : \A m \in ToSet(Pendientes(s)') : m \in ToSet(Pendientes(s))
<1>1. paquete.socket \in Sockets /\ alKernel' = alKernel /\ descriptor' = descriptor
  BY DEF Estructura, SocketsDeCadaUno, red
<1>2. \A t \in Sockets :
        /\ Parte(Pendientes(t)', Pendientes(t)) /\ EsLista(Pendientes(t)')
        /\ t # paquete.socket => Pendientes(t)' = Pendientes(t)
        /\ t = paquete.socket => Pendientes(t) = <<paquete.mensaje>> \o Pendientes(t)'
  BY <1>1, PendientesAtendido DEF Estructura
<1>3. ASSUME NEW t \in Sockets
      PROVE  /\ Acompaniado(Pendientes(t)) => Acompaniado(Pendientes(t)')
             /\ Hay(Pendientes(t)', "PROGRAMATERMINADO") => Hay(Pendientes(t), "PROGRAMATERMINADO")
  <2>1. Hay(Pendientes(t)', "PROGRAMATERMINADO") => Hay(Pendientes(t), "PROGRAMATERMINADO")
    BY <1>2 DEF Parte, Clases
  <2>2. ASSUME NEW q, EsLista(q), Pendientes(t) = <<paquete.mensaje>> \o q
        PROVE  Acompaniado(Pendientes(t)) => Acompaniado(q)
    BY <2>2, DudasTras
  <2> QED BY <1>2, <2>1, <2>2
<1>4. FinalesCompletos'
  <2>1. \A s \in Sockets : DeCpu(s) => DeCpu(s)'
    BY <1>1 DEF DeCpu
  <2> QED BY <1>3, <2>1, FinalesSiguen
<1> QED BY <1>2, <1>4 DEF Parte

LEMMA AtiendeVueltas ==
  ASSUME Estructura, Vueltas,
         RecibeNada \/ RecibeNoEntra \/ RecibeArchivo \/ RecibeCpu \/ RecibeEntra \/ RecibePaginaEnviada
  PROVE  Vueltas'
<1>1. /\ etapa = "procesa" /\ etapa' = "recorre" /\ i' = i + 1 /\ Ocupado /\ ~Ocupado'
      /\ UNCHANGED <<leibles, rebobinaron, red, hilo, programas>>
      /\ historia \subseteq historia'
  BY DEF RecibeNada, RecibeNoEntra, RecibeArchivo, RecibeCpu, RecibeEntra, RecibePaginaEnviada,
         Trata, Vuelve, admision, Ocupado
<1>2. /\ FinalesCompletos'
      /\ \A s \in Sockets : \A m \in ToSet(Pendientes(s)') : m \in ToSet(Pendientes(s))
  BY <1>1, AtendidoFinales DEF Vueltas
<1>3. i \in Int /\ unScript.paginas \in Nat
  BY DEF Vueltas, Numeros
<1>4. unScript'.paginas \in Nat
  <2>1. CASE RecibeArchivo
    <3>1. unScript'.paginas = paquete.mensaje.paginas /\ paquete.mensaje.tipo = "ARCHIVO"
      BY <2>1 DEF RecibeArchivo, Trata
    <3>2. paquete.socket \in Sockets /\ alKernel' = alKernel
      BY <1>1 DEF Estructura, SocketsDeCadaUno, red
    <3>3. paquete.mensaje \in ToSet(Pendientes(paquete.socket))
      BY <1>1, <3>2, PendientesAtendido DEF Estructura
    <3> QED BY <3>1, <3>2, <3>3 DEF Vueltas, Numeros
  <2>2. CASE ~RecibeArchivo
    BY <1>3, <2>2 DEF RecibeNada, RecibeNoEntra, RecibeCpu, RecibeEntra, RecibePaginaEnviada, admision
  <2> QED BY <2>1, <2>2
<1>5. Numeros'
  BY <1>1, <1>2, <1>3, <1>4, NumerosSiguen DEF Vueltas, Numeros
<1>6. ASSUME Cardinality(Cpus) <= 3, Ronda PROVE Ronda'
  <2>1. i = paquete.socket /\ paquete.socket \in Sockets /\ Conjuntos
    BY <1>1, <1>6 DEF Ronda, Estructura, SocketsDeCadaUno
  <2>2. leibles \cup rebobinaron \subseteq Nat
    BY <1>6, <2>1, RebobinaronPocos, SocketsNat, AdmisionAssumption DEF Ronda, Conjuntos
  <2>3. \A s \in leibles \cup rebobinaron : PorMirar(s)' => PorMirar(s)
    BY <1>1, <1>3, <2>2 DEF PorMirar
  <2>4. /\ \A s \in Sockets : DeCpu(s) => DeCpu(s)'
        /\ \A s \in leibles : HayAlgo(s) => HayAlgo(s)'
        /\ alKernel' = alKernel
    BY <1>1 DEF DeCpu, HayAlgo, red
  <2>5. hilo'.etapa # "copia"
    BY <1>1, <1>6 DEF Ronda
  <2> QED BY <1>1, <1>6, <2>1, <2>3, <2>4, <2>5, RondaSigue
<1> QED BY <1>1, <1>2, <1>5, <1>6, VueltasSiguen

LEMMA RecibeTerminadoVueltas ==
  ASSUME Estructura, Vueltas, RecibeTerminado, Sigue'
  PROVE  Vueltas'
<1>0. /\ etapa = "procesa" /\ etapa' = "termina"
      /\ paquete' = [socket |-> i, mensaje |-> paquete.mensaje, leida |-> cantidadDeProcesos]
      /\ UNCHANGED <<i, leibles, rebobinaron, red, unScript, hilo, programas>>
      /\ historia' = historia \cup Desvio
  BY DEF RecibeTerminado, Trata, admision
<1>1. /\ i = paquete.socket /\ Ocupado /\ Ocupado'
      /\ paquete'.socket = paquete.socket /\ paquete'.mensaje = paquete.mensaje
  BY <1>0, SinDesvio DEF Ocupado
<1>2. \A t \in Sockets : Pendientes(t)' = Pendientes(t)
  BY <1>0, <1>1 DEF Pendientes, Sirve, red
<1>3. FinalesCompletos'
  BY <1>0, <1>2, FinalesIguales DEF Vueltas, red
<1>4. Numeros'
  BY <1>0, <1>2, NumerosSiguen DEF Vueltas, Numeros
<1>5. ASSUME Cardinality(Cpus) <= 3, Ronda PROVE Ronda'
  <2>1. /\ Conjuntos
        /\ \A s \in leibles \cup rebobinaron : PorMirar(s)' => PorMirar(s)
        /\ \A s \in Sockets : DeCpu(s) => DeCpu(s)'
        /\ \A s \in leibles : HayAlgo(s) => HayAlgo(s)'
        /\ alKernel' = alKernel
    BY <1>0, <1>1 DEF Estructura, PorMirar, DeCpu, HayAlgo, red
  <2>2. hilo'.etapa # "copia"
    BY <1>0, <1>5 DEF Ronda
  <2>3. paquete.socket \in rebobinaron => paquete.mensaje.tipo = "PORLASDUDAS"
    BY <1>1, <1>5 DEF Ronda
  <2> QED BY <1>0, <1>1, <1>5, <2>1, <2>2, <2>3, RondaSigue
<1> QED BY <1>0, <1>3, <1>4, <1>5, VueltasSiguen

\* The CPU that ended its program has three PORLASDUDAS, and the others one less to spare.
LEMMA DescuentaVueltas ==
  ASSUME Estructura, Vueltas, Descuenta
  PROVE  Vueltas'
<1> DEFINE s0 == paquete.socket
           pid == colaExec[s0]
           n0 == programas[pid].paginas + STACK_SIZE + 2
<1>1. /\ etapa = "termina" /\ etapa' = "recorre" /\ Ocupado /\ ~Ocupado' /\ i' = n0
      /\ rebobinaron' = rebobinaron \cup (IF n0 <= s0 THEN {s0} ELSE {})
      /\ UNCHANGED <<leibles, red, unScript, hilo>>
      /\ "movido" \in historia => "movido" \in historia'
  BY DEF Descuenta, admision, Ocupado
<1>2. /\ s0 \in Sockets /\ pid \in DOMAIN programas
      /\ DOMAIN programas' = DOMAIN programas
      /\ \A p \in DOMAIN programas : programas'[p].paginas = programas[p].paginas
      /\ Hay(Pendientes(s0), "PROGRAMATERMINADO")
  BY MuerePrograma DEF Vivos
<1>3. n0 \in Nat /\ s0 \in Nat /\ i \in Int
  <2>1. programas[pid].paginas \in Nat
    BY <1>2 DEF Vueltas, Numeros
  <2>2. STACK_SIZE \in Nat
    BY AdmisionAssumption
  <2>3. n0 \in Nat
    BY <2>1, <2>2
  <2>4. s0 \in Nat
    BY <1>2, SocketsNat
  <2> QED BY <2>3, <2>4 DEF Vueltas, Numeros
<1>4. /\ FinalesCompletos'
      /\ \A s \in Sockets : \A m \in ToSet(Pendientes(s)') : m \in ToSet(Pendientes(s))
  BY <1>1, AtendidoFinales DEF Vueltas
<1>5. paquete.mensaje.tipo = "PROGRAMATERMINADO"
  BY <1>1 DEF Estructura, Leidas
<1>6. DeCpu(s0) /\ ConDudas(alKernel[s0], 3)
  <2>1. Pendientes(s0) = <<paquete.mensaje>> \o alKernel[s0] /\ EsLista(alKernel[s0])
    BY <1>1, <1>2 DEF Pendientes, Sirve, Estructura, Conjuntos
  <2>2. Acompaniado(Pendientes(s0)) /\ DeCpu(s0)
    BY <1>2 DEF Vueltas, FinalesCompletos
  <2>3. ASSUME NEW q, EsLista(q), Acompaniado(<<paquete.mensaje>> \o q) PROVE ConDudas(q, 3)
    BY <1>5, <2>3, DudasTras
  <2> QED BY <2>1, <2>2, <2>3
<1> HIDE DEF n0, pid, s0
<1>7. Numeros'
  <2>1. i' \in Int /\ unScript'.paginas \in Nat /\ hilo' = hilo
    BY <1>1, <1>3 DEF Vueltas, Numeros
  <2>2. \A p \in DOMAIN programas' : programas'[p].paginas \in Nat
    BY <1>2 DEF Vueltas, Numeros
  <2> QED BY <1>4, <2>1, <2>2, NumerosSiguen DEF Vueltas, Numeros
<1>8. ASSUME Cardinality(Cpus) <= 3, Ronda PROVE Ronda'
  <2>0. Conjuntos /\ i = s0 /\ hilo'.etapa # "copia" /\ alKernel' = alKernel
    BY <1>1, <1>8 DEF Ronda, Estructura, s0, red
  <2>1. /\ IsFiniteSet(rebobinaron) /\ Cardinality(rebobinaron) \in Nat
        /\ Cardinality(rebobinaron) <= 3
        /\ rebobinaron \subseteq Sockets /\ rebobinaron \subseteq Nat
    BY <1>8, <2>0, RebobinaronPocos DEF Ronda
  <2>2. leibles \cup rebobinaron \subseteq Nat
    BY <2>0, <2>1, SocketsNat, AdmisionAssumption DEF Conjuntos
  <2>3. \A s \in Sockets : DeCpu(s) => DeCpu(s)'
    BY <1>1 DEF DeCpu, red
  <2>4. CASE ~(n0 <= s0)
    <3>1. \A s \in leibles \cup rebobinaron : PorMirar(s)' => PorMirar(s)
      <4>1. n0 > s0
        BY <1>3, <2>4
      <4> QED BY <1>1, <1>3, <2>0, <2>2, <4>1 DEF PorMirar
    <3>2. rebobinaron' = rebobinaron
      BY <1>1, <2>4
    <3>3. \A s \in leibles : HayAlgo(s) => HayAlgo(s)'
      BY <1>1, <2>0 DEF HayAlgo, red
    <3> QED BY <1>1, <1>8, <2>0, <2>3, <3>1, <3>2, <3>3, RondaSigue
  <2>5. CASE n0 <= s0
    <3>1. s0 \notin rebobinaron
      BY <1>1, <1>5, <1>8 DEF Ronda, s0
    <3> DEFINE n == Cardinality(rebobinaron)
    <3>2. rebobinaron' = rebobinaron \cup {s0} /\ Cardinality(rebobinaron') = n + 1
      BY <1>1, <2>1, <2>5, <3>1, FS_AddElement
    <3> HIDE DEF n
    <3>3. rebobinaron' \subseteq {s \in Sockets : DeCpu(s)'}
      BY <1>2, <1>6, <1>8, <2>3, <3>2 DEF Ronda
    <3>4. QuedanDudas'
      <4>1. ASSUME NEW s \in rebobinaron'
            PROVE  ConDudas(alKernel[s], (3 - (n + 1)) + (IF PorMirar(s)' THEN 1 ELSE 0))
        <5> DEFINE b == (3 - (n + 1)) + (IF PorMirar(s)' THEN 1 ELSE 0)
        <5>0. n \in Nat /\ b \in Int /\ b <= 3 - n
          BY <2>1 DEF n
        <5> HIDE DEF b
        <5>1. CASE s = s0
          <6>1. b <= 3
            BY <5>0
          <6>2. ConDudas(alKernel[s], 3)
            BY <1>6, <5>1
          <6>3. ConDudas(alKernel[s], b)
            BY <5>0, <6>1, <6>2, MenosDudas
          <6> QED BY <6>3 DEF b
        <5>2. CASE s # s0
          <6> DEFINE a == (3 - n) + (IF PorMirar(s) THEN 1 ELSE 0)
          <6>1. a \in Int /\ b <= a
            BY <5>0
          <6>2. ConDudas(alKernel[s], a)
            BY <1>8, <3>2, <5>2 DEF Ronda, QuedanDudas, n
          <6> HIDE DEF a
          <6>3. ConDudas(alKernel[s], b)
            BY <5>0, <6>1, <6>2, MenosDudas
          <6> QED BY <6>3 DEF b
        <5> QED BY <5>1, <5>2
      <4> QED BY <2>0, <3>2, <4>1 DEF QuedanDudas
    <3>5. rebobinaron' # {}
      BY <3>2
    <3> QED BY <1>1, <2>0, <3>3, <3>4, <3>5 DEF Ronda
  <2> QED BY <2>4, <2>5
<1> QED BY <1>1, <1>4, <1>7, <1>8, VueltasSiguen

\* The script thread, but for crearPCB: the index and the sockets are as they were.
LEMMA HiloVueltas ==
  ASSUME Estructura, Vueltas,
         TomaScript \/ Admite \/ Rechaza \/ Cuenta \/ Acepto \/ SiguePagina
  PROVE  Vueltas'
<1>1. /\ UNCHANGED <<i, leibles, rebobinaron, etapa, paquete, red, unScript>>
      /\ historia \subseteq historia'
      /\ hilo'.etapa # "copia"
  BY DEF TomaScript, Admite, Rechaza, Cuenta, Acepto, SiguePagina, kernel
<1>2. \A s \in Sockets : Pendientes(s)' = Pendientes(s)
  BY <1>1, PendientesIgual DEF red, Ocupado
<1>3. FinalesCompletos'
  BY <1>1, <1>2, FinalesIguales DEF Vueltas, red
<1>4. hilo'.etapa \in {"decide", "cuenta", "crea", "copia"} => hilo'.paginas \in Nat
  BY DEF TomaScript, Admite, Rechaza, Cuenta, Acepto, SiguePagina, Hilo, Vueltas, Numeros
<1>5. \A p \in DOMAIN programas' : programas'[p].paginas \in Nat
  <2>1. CASE Cuenta
    <3> DEFINE n == Len(programas)
               x == Programa(hilo.paginas, unScript.de)
    <3>1. /\ DOMAIN programas = 1..n /\ DOMAIN programas' = 1..n + 1 /\ n \in Nat
          /\ \A p \in DOMAIN programas : programas'[p] = programas[p]
          /\ programas'[n + 1] = x
      BY <2>1, NacePrograma
    <3>2. x.paginas \in Nat
      BY <2>1 DEF Programa, Cuenta, Hilo, Vueltas, Numeros
    <3> HIDE DEF n, x
    <3>3. \A p \in 1..n + 1 : p \in 1..n \/ p = n + 1
      BY <3>1
    <3> QED BY <3>1, <3>2, <3>3 DEF Vueltas, Numeros
  <2>2. CASE ~Cuenta
    <3>1. programas' = programas
      BY <2>2 DEF TomaScript, Admite, Rechaza, Acepto, SiguePagina
    <3> QED BY <3>1 DEF Vueltas, Numeros
  <2> QED BY <2>1, <2>2
<1>6. Numeros'
  BY <1>1, <1>2, <1>4, <1>5, NumerosSiguen DEF Vueltas, Numeros
<1>7. ASSUME Cardinality(Cpus) <= 3, Ronda PROVE Ronda'
  <2>1. \A s \in leibles : HayAlgo(s) => HayAlgo(s)'
    BY <1>1 DEF HayAlgo, red
  <2>2. Conjuntos /\ alKernel' = alKernel /\ descriptor' = descriptor
    BY <1>1 DEF Estructura, red
  <2> QED BY <1>1, <1>7, <2>1, <2>2, RondaDeOtros
<1> QED BY <1>1, <1>3, <1>6, <1>7, VueltasSiguen

\* crearPCB moves the index while nobody looks at it, or that round is excepted.
LEMMA CreaVueltas ==
  ASSUME Estructura, Vueltas, CreaPCB \/ CopiaSentencia
  PROVE  Vueltas'
<1>1. /\ UNCHANGED <<leibles, rebobinaron, etapa, paquete, red, unScript>>
      /\ historia \subseteq historia' /\ hilo'.paginas = hilo.paginas
      /\ hilo.etapa \in {"crea", "copia"}
  BY DEF CreaPCB, CopiaSentencia, Hilo, admision
<1>2. \A s \in Sockets : Pendientes(s)' = Pendientes(s)
  BY <1>1, PendientesIgual DEF red, Ocupado
<1>3. FinalesCompletos'
  BY <1>1, <1>2, FinalesIguales DEF Vueltas, red
<1>4. i' \in Int
  BY DEF CreaPCB, CopiaSentencia, Vueltas, Numeros
<1>5. \A p \in DOMAIN programas' : programas'[p].paginas \in Nat
  <2>1. CASE CreaPCB
    BY <2>1 DEF CreaPCB, Vueltas, Numeros
  <2>2. CASE CopiaSentencia
    <3> DEFINE pid == ProcessID
    <3>1. programas' = [programas EXCEPT ![pid].indice = @ \cup {i}]
      BY <2>2 DEF CopiaSentencia
    <3> HIDE DEF pid
    <3> SUFFICES ASSUME NEW p \in DOMAIN programas' PROVE programas'[p].paginas \in Nat
      OBVIOUS
    <3>2. /\ p \in DOMAIN programas
          /\ programas'[p] = IF p = pid THEN [programas[p] EXCEPT !.indice = @ \cup {i}]
                             ELSE programas[p]
      BY <3>1
    <3>3. programas[p] = [paginas |-> programas[p].paginas, de |-> programas[p].de,
                          indice |-> programas[p].indice, vivo |-> programas[p].vivo]
      BY <3>2 DEF Estructura, Conjuntos, EsPrograma
    <3>4. ASSUME NEW r, NEW a, NEW b, NEW c, NEW d, NEW e,
                 r = [paginas |-> a, de |-> b, indice |-> c, vivo |-> d]
          PROVE  [r EXCEPT !.indice = e].paginas = a
      BY <3>4
    <3>5. programas[p].paginas \in Nat
      BY <3>2 DEF Vueltas, Numeros
    <3> QED BY <3>2, <3>3, <3>4, <3>5
  <2> QED BY <2>1, <2>2
<1>6. Numeros'
  BY <1>1, <1>2, <1>4, <1>5, NumerosSiguen DEF Vueltas, Numeros
<1>7. ASSUME Cardinality(Cpus) <= 3, "movido" \notin historia' PROVE Ronda'
  <2>1. Ronda
    BY <1>1, <1>7 DEF Vueltas
  <2>2. etapa = "select"
    BY <1>7, <2>1 DEF CreaPCB, CopiaSentencia, Hilo, Ronda
  <2>3. Conjuntos /\ alKernel' = alKernel /\ descriptor' = descriptor
    BY <1>1 DEF Estructura, red
  <2> QED BY <1>1, <1>7, <2>1, <2>2, <2>3, RondaEnSelect
<1> QED BY <1>3, <1>6, <1>7 DEF Vueltas

\* Messages come by d: the end of a program by that of a CPU.
LEMMA LleganVueltas ==
  ASSUME Estructura, Vueltas, NEW d \in Sockets, NEW r, EsLista(r), Acompaniado(r),
         Hay(r, "PROGRAMATERMINADO") => DeCpu(d),
         \A m \in ToSet(r) : m.tipo = "ARCHIVO" => m.paginas \in Nat,
         alKernel' = [alKernel EXCEPT ![d] = @ \o r],
         UNCHANGED <<i, leibles, rebobinaron, etapa, paquete, descriptor, llegadas, unScript, hilo,
                     programas, historia>>
  PROVE  Vueltas'
<1>1. /\ \A s \in Sockets : s # d => Pendientes(s)' = Pendientes(s)
      /\ Pendientes(d)' = Pendientes(d) \o r
  BY PendientesEnviado DEF Estructura
<1>2. EsLista(Pendientes(d)) /\ EsLista(alKernel[d]) /\ DOMAIN alKernel = Sockets
  BY PendientesEsLista DEF Estructura, Conjuntos
<1>3. \A s \in Sockets : DeCpu(s) => DeCpu(s)'
  BY DEF DeCpu
<1>4. FinalesCompletos'
  <2>1. /\ Acompaniado(Pendientes(d)) => Acompaniado(Pendientes(d) \o r)
        /\ Hay(Pendientes(d) \o r, "PROGRAMATERMINADO") <=>
             Hay(Pendientes(d), "PROGRAMATERMINADO") \/ Hay(r, "PROGRAMATERMINADO")
    BY <1>2, DudasJuntas, HayUna
  <2> QED BY <1>1, <1>3, <2>1, FinalesSiguen DEF Vueltas
<1>5. Numeros'
  <2>1. ToSet(Pendientes(d) \o r) = ToSet(Pendientes(d)) \cup ToSet(r)
    BY <1>2, HayUna
  <2>2. \A s \in Sockets : \A m \in ToSet(Pendientes(s)') :
          m.tipo = "ARCHIVO" => m \in ToSet(Pendientes(s)) \/ m.paginas \in Nat
    BY <1>1, <2>1
  <2> QED BY <2>2, NumerosSiguen DEF Vueltas, Numeros
<1>6. ASSUME Cardinality(Cpus) <= 3, Ronda PROVE Ronda'
  <2>1. /\ alKernel'[d] = alKernel[d] \o r
        /\ \A s \in Sockets : s # d => alKernel'[s] = alKernel[s]
    BY <1>2
  <2>2. \A a \in Int : ConDudas(alKernel[d], a) => ConDudas(alKernel[d] \o r, a)
    BY <1>2, DudasJuntas
  <2>3. alKernel[d] # <<>> => alKernel[d] \o r # <<>>
    <3> SUFFICES ASSUME alKernel[d] # <<>> PROVE alKernel[d] \o r # <<>>
      OBVIOUS
    <3>1. Head(alKernel[d]) \in ToSet(alKernel[d])
      BY <1>2, CabezaYCola
    <3>2. ToSet(alKernel[d] \o r) = ToSet(alKernel[d]) \cup ToSet(r)
      BY <1>2, HayUna
    <3>3. ToSet(<<>>) = {}
      BY Vacia
    <3> QED BY <3>1, <3>2, <3>3
  <2>4. \A s \in leibles : HayAlgo(s) => HayAlgo(s)'
    <3>1. leibles \subseteq Sockets \cup {SERVIDOR}
      BY DEF Estructura, Conjuntos
    <3> QED BY <2>1, <2>3, <3>1 DEF HayAlgo
  <2>5. \A s \in Sockets : \A a \in Int :
          ConDudas(alKernel[s], a) => ConDudas(alKernel'[s], a)
    BY <2>1, <2>2
  <2>6. Conjuntos
    BY DEF Estructura
  <2> QED BY <1>6, <2>4, <2>5, <2>6, RondaDeOtros
<1> QED BY <1>4, <1>5, <1>6, VueltasSiguen

\* Nobody sends anything, but a client that connects.
LEMMA QuietoVueltas ==
  ASSUME Estructura, Vueltas, llegadas' = llegadas \/ llegadas' # <<>>,
         UNCHANGED <<i, leibles, rebobinaron, etapa, paquete, alKernel, descriptor, unScript, hilo,
                     programas, historia>>
  PROVE  Vueltas'
<1>1. \A s \in Sockets : Pendientes(s)' = Pendientes(s)
  BY PendientesIgual DEF Ocupado
<1>2. FinalesCompletos'
  BY <1>1, FinalesIguales DEF Vueltas
<1>3. Numeros'
  BY <1>1, NumerosSiguen DEF Vueltas, Numeros
<1>4. ASSUME Cardinality(Cpus) <= 3, Ronda PROVE Ronda'
  <2>1. Conjuntos /\ \A s \in leibles : HayAlgo(s) => HayAlgo(s)'
    BY DEF HayAlgo, Estructura
  <2> QED BY <1>4, <2>1, RondaDeOtros
<1> QED BY <1>2, <1>3, <1>4, VueltasSiguen

LEMMA OtrosVueltas ==
  ASSUME Estructura, Vueltas,
         \/ AtiendeMemoria \/ Despacha
         \/ \E c \in Clientes : Conecta(c)
         \/ \E c \in Consolas : Lanza(c) \/ Informa(c)
         \/ \E c \in Cpus : Finaliza(c)
  PROVE  Vueltas'
<1>1. UNCHANGED <<i, leibles, rebobinaron, etapa, paquete, descriptor, unScript, hilo, programas,
                  historia>>
  BY DEF AtiendeMemoria, Despacha, Conecta, Lanza, Informa, Finaliza, Envia, kernel, red, admision,
         clientes
<1>2. CASE alKernel' = alKernel /\ llegadas' = llegadas
  BY <1>1, <1>2, QuietoVueltas
<1>3. CASE Despacha \/ \E c \in Consolas : Informa(c)
  BY <1>2, <1>3 DEF Despacha, Informa, red
<1>4. ASSUME NEW c \in Clientes, Conecta(c) PROVE Vueltas'
  <2>1. llegadas' = Append(llegadas, c) /\ llegadas \in Seq(Clientes) /\ alKernel' = alKernel
    BY <1>4 DEF Conecta, Estructura, Conjuntos
  <2>2. llegadas' # <<>>
    BY <2>1, ListaAgrega
  <2> QED BY <1>1, <2>1, <2>2, QuietoVueltas
<1>5. CASE AtiendeMemoria
  <2>1. llegadas' = llegadas
    BY <1>5 DEF AtiendeMemoria
  <2>2. ASSUME NEW t \in {"NOENTROPROCESO", "ENTRAPROCESO", "PAGINAENVIADA"},
               alKernel' = [alKernel EXCEPT ![MEM] = Append(@, Mensaje(t))]
        PROVE  Vueltas'
    <3> DEFINE m == Mensaje(t)
    <3>1. m.tipo = t
      BY DEF Mensaje
    <3> HIDE DEF m
    <3>2. /\ EsLista(<<m>>) /\ ~Hay(<<m>>, "PROGRAMATERMINADO")
          /\ \A x \in ToSet(<<m>>) : x.tipo # "ARCHIVO"
      BY <3>1, UnMensaje
    <3>3. Append(alKernel[MEM], m) = alKernel[MEM] \o <<m>>
      <4>1. PICK T : alKernel[MEM] \in Seq(T)
        BY SocketDeMemoria DEF Estructura, Conjuntos, EsLista
      <4>2. alKernel[MEM] \in Seq(T \cup {m}) /\ m \in T \cup {m}
        BY <4>1
      <4> QED BY <4>2, AppendIsConcat
    <3>4. alKernel' = [alKernel EXCEPT ![MEM] = @ \o <<m>>]
      BY <2>2, <3>3 DEF m
    <3>5. Acompaniado(<<m>>)
      BY <3>2, SinFinal
    <3> QED BY <1>1, <2>1, <3>2, <3>4, <3>5, SocketDeMemoria, LleganVueltas
  <2> QED BY <1>2, <1>5, <2>1, <2>2 DEF AtiendeMemoria
<1>6. ASSUME NEW c \in Consolas, Lanza(c) PROVE Vueltas'
  <2> DEFINE m == [tipo |-> "ARCHIVO", paginas |-> Paginas[c], de |-> <<c, consola[c].lanzados + 1>>]
  <2>1. /\ descriptor[c] # 0 /\ alKernel' = [alKernel EXCEPT ![descriptor[c]] = @ \o <<m>>]
        /\ llegadas' = llegadas
    BY <1>6 DEF Lanza, Envia
  <2>2. m.tipo = "ARCHIVO" /\ m.paginas \in Nat
    BY AdmisionAssumption
  <2> HIDE DEF m
  <2>3. /\ EsLista(<<m>>) /\ ~Hay(<<m>>, "PROGRAMATERMINADO")
        /\ \A x \in ToSet(<<m>>) : x.paginas \in Nat
    BY <2>2, UnMensaje
  <2>4. Acompaniado(<<m>>)
    BY <2>3, SinFinal
  <2>5. descriptor[c] \in Sockets
    BY <2>1, SocketDeCliente DEF Clientes
  <2> QED BY <1>1, <2>1, <2>3, <2>4, <2>5, LleganVueltas
<1>7. ASSUME NEW c \in Cpus, Finaliza(c) PROVE Vueltas'
  <2> DEFINE r == FinalDePrograma
  <2>1. /\ descriptor[c] # 0 /\ alKernel' = [alKernel EXCEPT ![descriptor[c]] = @ \o r]
        /\ llegadas' = llegadas
    BY <1>7 DEF Finaliza, Envia
  <2>2. EsLista(r) /\ Acompaniado(r) /\ \A m \in ToSet(r) : m.tipo # "ARCHIVO"
    BY FinalEsLista, FinalAcompaniado DEF Hay
  <2> HIDE DEF r
  <2>3. descriptor[c] \in Sockets
    BY <2>1, SocketDeCliente DEF Clientes
  <2>4. DeCpu(descriptor[c])
    BY DEF DeCpu
  <2> QED BY <1>1, <2>1, <2>2, <2>3, <2>4, LleganVueltas
<1> QED BY <1>3, <1>4, <1>5, <1>6, <1>7

LEMMA InicioVueltas ==
  ASSUME InitAdmision
  PROVE  Vueltas
<1>1. /\ rebobinaron = {} /\ etapa = "select" /\ hilo = [etapa |-> "espera"]
      /\ i = SERVIDOR + Len(Primeros) + 1
  BY DEF InitAdmision
<1>2. ~Ocupado
  BY <1>1 DEF Ocupado
<1>3. \A s \in Sockets :
        /\ ~Hay(Pendientes(s), "PROGRAMATERMINADO")
        /\ \A m \in ToSet(Pendientes(s)) : m.tipo = "CPU"
  BY <1>2, InicioPendientes
<1>4. FinalesCompletos
  BY <1>3, SinFinal DEF FinalesCompletos
<1>5. PICK c \in ToSet(Primeros) \cap Consolas :
        /\ unScript = [socket |-> descriptor[c], paginas |-> Paginas[c], de |-> <<c, 1>>]
        /\ programas = <<[Programa(Paginas[c], <<c, 1>>) EXCEPT !.indice = 0 .. INSTRUCCIONES - 1]>>
  BY DEF InitAdmision
<1>6. Paginas[c] \in Nat
  BY AdmisionAssumption
<1>7. \A p \in DOMAIN programas : programas[p].paginas \in Nat
  <2> DEFINE r == Programa(Paginas[c], <<c, 1>>)
             e == 0 .. INSTRUCCIONES - 1
             x == [r EXCEPT !.indice = e]
  <2>1. r = [paginas |-> Paginas[c], de |-> <<c, 1>>, indice |-> {}, vivo |-> TRUE]
    BY DEF Programa
  <2> HIDE DEF r, e
  <2>2. x.paginas = Paginas[c]
    BY <2>1
  <2>3. programas = <<x>>
    BY <1>5 DEF r, e
  <2> HIDE DEF x
  <2>4. DOMAIN programas = {1} /\ programas[1] = x
    BY <2>3
  <2> QED BY <1>6, <2>2, <2>4
<1>8. i \in Int
  <2>1. Len(Primeros) \in Nat /\ SERVIDOR \in Nat
    BY AdmisionAssumption, LenProperties
  <2> QED BY <1>1, <2>1
<1>9. Numeros
  BY <1>1, <1>3, <1>5, <1>6, <1>7, <1>8 DEF Numeros
<1>10. Ronda
  BY <1>1, <1>2 DEF Ronda, PorMirar, QuedanDudas
<1> QED BY <1>4, <1>9, <1>10 DEF Vueltas

\* Only RecibeArchivo finds two scripts for the one unScript, and it does not wait.
LEMMA PisadoNoEspera ==
  ASSUME NextAdmision
  PROVE  "pisado" \in historia' => etapa' # "bloqueado"
<1>1. "pisado" \notin historia
  BY DEF NextAdmision, Sigue
<1>2. CASE HiloPrincipal
  BY <1>1, <1>2 DEF HiloPrincipal, Select, FinDeVuelta, RecibeConexion, Recibe, SeBloquea, Despierta,
     RecibeNada, RecibeNoEntra, RecibeArchivo, RecibeCpu, RecibeEntra, RecibePaginaEnviada,
     RecibeTerminado, Descuenta, Vuelve, Desvio, Carrera
<1>3. CASE ProcesarScript
  BY <1>1, <1>3 DEF ProcesarScript, TomaScript, Admite, Rechaza, Cuenta, CreaPCB, CopiaSentencia,
     Acepto, SiguePagina, Carrera
<1>4. CASE \/ AtiendeMemoria \/ Despacha
           \/ \E c \in Clientes : Conecta(c)
           \/ \E c \in Consolas : Lanza(c) \/ Informa(c)
           \/ \E c \in Cpus : Finaliza(c)
  BY <1>1, <1>4 DEF AtiendeMemoria, Despacha, Conecta, Lanza, Informa, Finaliza
<1> QED BY <1>2, <1>3, <1>4 DEF NextAdmision

LEMMA PasoVueltas ==
  ASSUME InvVueltas, NextAdmision
  PROVE  InvVueltas'
<1>0. Estructura /\ Vueltas /\ InvGrado'
  BY PasoGrado DEF InvVueltas, InvGrado, NextAdmision
<1>1. ASSUME Sigue' => Vueltas' PROVE InvVueltas'
  BY <1>0, <1>1, PisadoNoEspera DEF InvVueltas
<1>2. CASE HiloPrincipal
  <2>1. CASE Select
    BY <1>0, <1>1, <2>1, SelectVueltas
  <2>2. CASE FinDeVuelta
    BY <1>0, <1>1, <2>2, FinDeVueltaVueltas
  <2>3. CASE SeBloquea
    BY <1>0, <1>1, <2>3, SeBloqueaVueltas
  <2>4. CASE RecibeConexion \/ Recibe \/ Despierta
    BY <1>0, <1>1, <2>4, EntradaVueltas
  <2>5. CASE \/ RecibeNada \/ RecibeNoEntra \/ RecibeArchivo \/ RecibeCpu \/ RecibeEntra
             \/ RecibePaginaEnviada
    BY <1>0, <1>1, <2>5, AtiendeVueltas
  <2>6. CASE RecibeTerminado
    BY <1>0, <1>1, <2>6, RecibeTerminadoVueltas
  <2>7. CASE Descuenta
    BY <1>0, <1>1, <2>7, DescuentaVueltas
  <2> QED BY <1>2, <2>1, <2>2, <2>3, <2>4, <2>5, <2>6, <2>7 DEF HiloPrincipal
<1>3. CASE ProcesarScript
  <2>1. CASE TomaScript \/ Admite \/ Rechaza \/ Cuenta \/ Acepto \/ SiguePagina
    BY <1>0, <1>1, <2>1, HiloVueltas
  <2>2. CASE CreaPCB \/ CopiaSentencia
    BY <1>0, <1>1, <2>2, CreaVueltas
  <2> QED BY <1>3, <2>1, <2>2 DEF ProcesarScript
<1>4. CASE \/ AtiendeMemoria \/ Despacha
           \/ \E c \in Clientes : Conecta(c)
           \/ \E c \in Consolas : Lanza(c) \/ Informa(c)
           \/ \E c \in Cpus : Finaliza(c)
  BY <1>0, <1>1, <1>4, OtrosVueltas
<1> QED BY <1>2, <1>3, <1>4 DEF NextAdmision

LEMMA QuietoInvVueltas ==
  ASSUME InvVueltas, UNCHANGED vars
  PROVE  InvVueltas'
<1>1. UNCHANGED <<i, leibles, rebobinaron, etapa, paquete, alKernel, llegadas, descriptor, unScript,
                  hilo, programas, historia>>
  BY DEF vars, kernel, red, admision
<1>2. InvGrado' /\ Sigue' = Sigue /\ ("pisado" \in historia' => etapa' # "bloqueado")
  BY <1>1, QuietoGrado DEF InvVueltas, Sigue
<1>3. ASSUME Sigue PROVE Vueltas'
  BY <1>1, <1>3, QuietoVueltas DEF InvVueltas, InvGrado
<1> QED BY <1>2, <1>3 DEF InvVueltas

\* With any consoles and up to three CPUs, the main thread waits for a socket that has
\* nothing only in a round whose index crearPCB moved, or one that programs that ended
\* moved, and then for none of the CPUs they left (the loop around select, crearPCB,
\* PROGRAMATERMINADO, and the three PORLASDUDAS of finalizar).
THEOREM SoloEsperaPorElIndice == SpecAdmision => []SeBloqueaSoloPorElIndice
<1>1. InitAdmision => InvVueltas
  <2> SUFFICES ASSUME InitAdmision PROVE InvVueltas
    OBVIOUS
  <2>1. Estructura /\ Vivos = {1} /\ cantidadDeProcesos = 1
    BY InicioEstructura
  <2>2. GradoContado
    <3>1. Cardinality({1}) = 1
      BY FS_Singleton
    <3> QED BY <2>1, <3>1, AdmisionAssumption DEF GradoContado
  <2>3. historia = {}
    BY DEF InitAdmision
  <2> QED BY <2>1, <2>2, <2>3, InicioVueltas DEF InvVueltas, InvGrado
<1>2. InvVueltas /\ [NextAdmision]_vars => InvVueltas'
  BY PasoVueltas, QuietoInvVueltas
<1>3. InvVueltas => SeBloqueaSoloPorElIndice
  <2> SUFFICES ASSUME InvVueltas, Cardinality(Cpus) <= 3, etapa = "bloqueado",
                      historia \cap {"movido", "desviado"} = {}
               PROVE  rebobinaron # {} /\ paquete.socket \notin rebobinaron
    BY DEF SeBloqueaSoloPorElIndice
  <2>1. Sigue /\ "movido" \notin historia
    BY DEF InvVueltas, Sigue
  <2> QED BY <2>1 DEF InvVueltas, Vueltas, Ronda
<1> QED BY <1>1, <1>2, <1>3, PTL DEF SpecAdmision
=============================================================================
