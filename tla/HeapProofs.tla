----------------------------- MODULE HeapProofs -----------------------------
(***************************************************************************)
(* Proofs about Heap: both threads, Memoria and their answers, the frames,   *)
(* and the blocks of the pages.  No page is lost, and Memoria counts the     *)
(* pages of every program that is loaded, whatever the order in which both   *)
(* threads and Memoria go on; and while procesarHeap and liberarHeap do not  *)
(* meet in a page (historia = {}), the blocks of each page follow one        *)
(* another, every block is as it was given, and no more space is announced   *)
(* than there is.                                                            *)
(***************************************************************************)
EXTENDS HeapInv, TLAPS

-----------------------------------------------------------------------------
(* Types.                                                                   *)

LEMMA PaginaTipo ==
  ASSUME NEW p \in Pids, NEW i \in Nat
  PROVE  /\ Pagina(p, i) \in Paginas /\ Pagina(p, i).pid = p /\ Pagina(p, i).pagina = i
         /\ Pagina(p, i) # Nada
<1>1. p \in Nat \ {0}
  BY PidsSupuesto
<1> QED BY <1>1 DEF Pagina, Paginas, Nada

LEMMA MensajeTipo ==
  ASSUME NEW op \in {"inicia", "pide", "lee", "escribe"}, NEW n \in Paginas, NEW o \in Int, NEW c \in Celdas
  PROVE  /\ Mensaje(op, n, o, c) \in Mensajes /\ Mensaje(op, n, o, c).op = op
         /\ Mensaje(op, n, o, c).nodo = n /\ Mensaje(op, n, o, c).offset = o
         /\ Mensaje(op, n, o, c).celda = c
  BY DEF Mensaje, Mensajes

LEMMA BajaTipo ==
  ASSUME NEW s \in SUBSET Paginas, NEW m, m = [op |-> "libera", nodos |-> s]
  PROVE  m \in Mensajes /\ m.op = "libera" /\ m.nodos = s
  BY DEF Mensajes

\* The two kinds of messages.
LEMMA MensajeEs ==
  ASSUME NEW m \in Mensajes
  PROVE  /\ m.op # "libera" => /\ m.op \in {"inicia", "pide", "lee", "escribe"}
                               /\ m.nodo \in Paginas /\ m.offset \in Int /\ m.celda \in Celdas
                               /\ m = Mensaje(m.op, m.nodo, m.offset, m.celda)
         /\ m.op = "libera" => m.nodos \in SUBSET Paginas
  BY DEF Mensajes, Mensaje

LEMMA CeldaTipo ==
  /\ Otro \in Celdas /\ \A x, y \in Int : [isFree |-> x, size |-> y] \in Celdas
  /\ Nada \notin Celdas
<1>1. \A c \in Celdas : "isFree" \in DOMAIN c
  BY DEF Celdas
<1>2. "isFree" \notin DOMAIN Nada
  BY DEF Nada
<1> QED BY <1>1, <1>2 DEF Otro, Celdas

\* What is read is what was written there, if anything.
LEMMA LeeUna ==
  ASSUME NEW n, NEW o
  PROVE  /\ (\A a \in DOMAIN contenido : contenido[a] \in Celdas) =>
              Head(LeerDePagina(n, o, 1)) \in Celdas
         /\ Direccion(n, o) \in Int => Head(LeerDePagina(n, o, 1)) =
              IF Direccion(n, o) \in DOMAIN contenido THEN contenido[Direccion(n, o)] ELSE Otro
<1> DEFINE d == Direccion(n, o)
           x == d + 1 - 1
           c == IF x \in DOMAIN contenido THEN contenido[x] ELSE Otro
           q == LeerDePagina(n, o, 1)
<1>1. q = [i \in 1 .. 1 |-> IF d + i - 1 \in DOMAIN contenido THEN contenido[d + i - 1] ELSE Otro]
  BY DEF LeerDePagina
<1>2. 1 \in 1 .. 1 /\ \A i \in 1 .. 1 : i = 1
  OBVIOUS
<1> HIDE DEF d
<1>3. q[1] = c
  BY <1>1, <1>2
<1>4. q \in [1 .. 1 -> {c}]
  BY <1>1, <1>2
<1> HIDE DEF q
<1>5. q \in Seq({c}) /\ Len(q) = 1
  BY <1>4, FuncionLista
<1>6. Head(q) = c
  BY <1>3, <1>5
<1>7. (\A a \in DOMAIN contenido : contenido[a] \in Celdas) => c \in Celdas
  BY CeldaTipo
<1>8. d \in Int => x = d
  OBVIOUS
<1> QED BY <1>6, <1>7, <1>8 DEF q, d

\* What is written is at its address, and the rest as it was.
Escrito(a, c) ==
  /\ a \in DOMAIN contenido' /\ contenido'[a] = c
  /\ \A x : x # a => /\ x \in DOMAIN contenido' <=> x \in DOMAIN contenido
                     /\ x \in DOMAIN contenido => contenido'[x] = contenido[x]

LEMMA EscribeUna ==
  ASSUME NEW n, NEW o, NEW c, Escribible(n, o), EscribirEnPagina(n, o, <<c>>)
  PROVE  /\ Escrito(Direccion(n, o), c) /\ Direccion(n, o) \in Int
         /\ UNCHANGED <<punteroMemoria, overflow, framesLibres, ultimaPaginaPid>>
<1> DEFINE d == Direccion(n, o)
           e == d .. d + Len(<<c>>) - 1
<1>1. d \in Int
  BY MarcosAssumption DEF Escribible, Direcciones
<1>2. /\ contenido' = [a \in DOMAIN contenido \cup e |->
                         IF a \in e THEN <<c>>[a - d + 1] ELSE contenido[a]]
      /\ UNCHANGED <<punteroMemoria, overflow, framesLibres, ultimaPaginaPid>>
  BY DEF EscribirEnPagina
<1>3. Len(<<c>>) = 1 /\ <<c>>[1] = c
  OBVIOUS
<1>4. e = {d}
  <2>1. d + 1 - 1 = d /\ \A x : x \in d .. d <=> x = d
    BY <1>1
  <2> QED BY <1>3, <2>1
<1>5. d - d + 1 = 1
  BY <1>1
<1> HIDE DEF d, e
<1>6. contenido'[d] = c /\ d \in DOMAIN contenido'
  BY <1>2, <1>3, <1>4, <1>5
<1>7. ASSUME NEW x, x # d
      PROVE  /\ x \in DOMAIN contenido' <=> x \in DOMAIN contenido
             /\ x \in DOMAIN contenido => contenido'[x] = contenido[x]
  BY <1>2, <1>4, <1>7
<1> QED BY <1>1, <1>2, <1>6, <1>7 DEF Escrito, d

\* r is q with x more in the space of its i-th entry, if it has one.
Ajusta(q, r, i, x) ==
  /\ DOMAIN r = DOMAIN q /\ Len(r) = Len(q)
  /\ \A j \in DOMAIN q : /\ r[j].pid = q[j].pid /\ r[j].pagina = q[j].pagina
                         /\ r[j].disponible = IF j = i THEN q[j].disponible + x
                                              ELSE q[j].disponible

LEMMA AjustaEntrada ==
  ASSUME NEW q \in Seq(Entradas), NEW i, NEW x \in Int,
         NEW r, r = [q EXCEPT ![i].disponible = @ + x]
  PROVE  r \in Seq(Entradas) /\ Ajusta(q, r, i, x)
<1> DEFINE n == Len(q)
<1>1. n \in Nat /\ DOMAIN q = 1 .. n /\ \A j \in 1 .. n : q[j] \in Entradas
  BY EnLista, LenProperties
<1>2. DOMAIN r = 1 .. n /\ \A j \in 1 .. n : r[j] = IF j = i THEN [q[j] EXCEPT !.disponible = @ + x] ELSE q[j]
  BY <1>1
<1>3. r = [j \in 1 .. n |-> r[j]]
  BY <1>2
<1>4. ASSUME NEW j \in 1 .. n
      PROVE  /\ r[j] \in Entradas /\ r[j].pid = q[j].pid /\ r[j].pagina = q[j].pagina
             /\ r[j].disponible = IF j = i THEN q[j].disponible + x ELSE q[j].disponible
  <2>1. q[j] \in Entradas /\ q[j].disponible \in Int
    BY <1>1 DEF Entradas
  <2>2. [q[j] EXCEPT !.disponible = @ + x] \in Entradas
    <3>1. PICK e, y : e = q[j] /\ y = q[j].disponible + x
      OBVIOUS
    <3>2. e \in Entradas /\ y \in Int
      BY <2>1, <3>1
    <3>3. [e EXCEPT !.disponible = y] \in Entradas
      BY <3>2 DEF Entradas
    <3> QED BY <3>1, <3>3
  <2>3. CASE j = i
    BY <1>2, <2>1, <2>2, <2>3 DEF Entradas
  <2>4. CASE j # i
    BY <1>2, <2>1, <2>4
  <2> QED BY <2>3, <2>4
<1> HIDE DEF n
<1>5. r \in [1 .. n -> Entradas]
  BY <1>3, <1>4
<1>6. r \in Seq(Entradas) /\ Len(r) = n
  BY <1>1, <1>5, FuncionLista
<1> QED BY <1>1, <1>2, <1>4, <1>6 DEF Ajusta, n

-----------------------------------------------------------------------------
(* The thread of procesarHeap, when it begins to read.                      *)

\* What it has when it is not idle, with any step.
Buscando ==
  [pc : PasosPide \cup {"toma"}, pid : Pids, cantidad : Nat, k : Nat, pagina : Nat,
   off : Int, size : Int, isFree : Int]

\* All but the step is as in h.
Sigue(h) ==
  /\ pide' \in HilosPide /\ pide'.pid = h.pid /\ pide'.cantidad = h.cantidad
  /\ pide'.k = h.k /\ pide'.pagina = h.pagina /\ pide'.off = h.off
  /\ pide'.size = h.size /\ pide'.isFree = h.isFree

\* It asks for the header at o.
Lee(h, pc, o) ==
  /\ Sigue(h) /\ pide'.pc = pc
  /\ Lectura(Nodo(h), o) \in Mensajes
  /\ aMemoria' = Append(aMemoria, Lectura(Nodo(h), o))
  /\ historia' = historia \cup Solapa(libera)

LEMMA BuscandoTipo ==
  ASSUME NEW h \in Buscando
  PROVE  /\ h.pid \in Pids /\ h.cantidad \in Nat /\ h.k \in Nat /\ h.pagina \in Nat
         /\ h.off \in Int /\ h.size \in Int /\ h.isFree \in Int /\ h.pc # "espera"
         /\ Nodo(h) \in Paginas /\ Nodo(h) = Pagina(h.pid, h.pagina)
  BY DEF Buscando, Nodo, Pagina, Paginas, PasosPide, EsperaEscritura

LEMMA CambiaPaso ==
  ASSUME NEW h \in Buscando, NEW pc \in PasosPide, pide' = [h EXCEPT !.pc = pc]
  PROVE  Sigue(h) /\ pide'.pc = pc
  BY DEF Buscando, Sigue, HilosPide

LEMMA Situa ==
  ASSUME NEW a \in Buscando, NEW g, g = [a EXCEPT !.off = 0, !.size = 0]
  PROVE  g \in Buscando /\ g.pid = a.pid /\ g.cantidad = a.cantidad /\ g.pagina = a.pagina /\ g.off = 0
<1>1. PICK o : o \in Int /\ o = 0
  OBVIOUS
<1>2. g = [a EXCEPT !.off = o, !.size = o]
  BY <1>1
<1>3. g \in Buscando
  BY <1>1, <1>2 DEF Buscando
<1>4. g.pid = a.pid /\ g.cantidad = a.cantidad /\ g.pagina = a.pagina /\ g.off = o
  BY <1>2 DEF Buscando
<1> QED BY <1>1, <1>3, <1>4

LEMMA HiloTipo ==
  ASSUME pide \in HilosPide, pide.pc # "espera"
  PROVE  pide \in Buscando /\ pide.pc \in PasosPide
  BY DEF HilosPide, Ocioso, Buscando

LEMMA OciosoTipo ==
  /\ Ocioso \in HilosPide /\ Ocioso \in HilosLibera /\ Ocioso.pc = "espera"
  BY DEF HilosPide, HilosLibera, Ocioso

LEMMA PideLeeHace ==
  ASSUME NEW h \in Buscando, NEW pc \in PasosPide, NEW o \in Int, PideLee(h, pc, o)
  PROVE  Lee(h, pc, o)
<1>1. pide' = [h EXCEPT !.pc = pc] /\ aMemoria' = Append(aMemoria, Lectura(Nodo(h), o))
      /\ historia' = historia \cup Solapa(libera)
  BY DEF PideLee, Envia, Historia
<1>2. Sigue(h) /\ pide'.pc = pc
  BY <1>1, CambiaPaso
<1>3. Nodo(h) \in Paginas
  BY BuscandoTipo
<1>4. Lectura(Nodo(h), o) \in Mensajes
  BY <1>3, MensajeTipo, CeldaTipo DEF Lectura
<1> QED BY <1>1, <1>2, <1>4 DEF Lee

\* In the page of h: the header at its offset, or, when no two blocks are left
\* to be joined, the first one.
EmpiezaPagina(h) ==
  \/ h.off < MARCOS_SIZE /\ Lee(h, "leeActual", h.off)
  \/ \E g \in Buscando :
       /\ g.pid = h.pid /\ g.cantidad = h.cantidad /\ g.pagina = h.pagina /\ g.off = 0
       /\ g.k = h.k /\ Lee(g, "leeBloque", 0)

LEMMA CompactaHace ==
  ASSUME NEW h \in Buscando, Compacta(h)
  PROVE  EmpiezaPagina(h)
<1>1. h.off \in Int
  BY BuscandoTipo
<1>2. ASSUME h.off < MARCOS_SIZE, PideLee(h, "leeActual", h.off)
      PROVE  EmpiezaPagina(h)
  <2>1. Lee(h, "leeActual", h.off)
    BY <1>1, <1>2, PideLeeHace DEF PasosPide
  <2> QED BY <1>2, <2>1 DEF EmpiezaPagina
<1>3. ASSUME PideLee([h EXCEPT !.off = 0], "leeBloque", 0)
      PROVE  EmpiezaPagina(h)
  <2>1. PICK g : g = [h EXCEPT !.off = 0]
    OBVIOUS
  <2>2. g \in Buscando /\ g.pid = h.pid /\ g.cantidad = h.cantidad /\ g.pagina = h.pagina /\ g.off = 0
        /\ g.k = h.k
    BY <2>1 DEF Buscando
  <2>3. Lee(g, "leeBloque", 0)
    BY <1>3, <2>1, <2>2, PideLeeHace DEF PasosPide
  <2> QED BY <2>2, <2>3 DEF EmpiezaPagina
<1> QED BY <1>2, <1>3 DEF Compacta

\* verificarEspacioLibreHeap finds no page, or begins with one.
Verifica(h) ==
  \/ Sigue(h) /\ pide'.pc = "sinLugar" /\ UNCHANGED <<aMemoria, historia>>
  \/ \E j \in DOMAIN listaAdmHeap : \E g \in Buscando :
       /\ listaAdmHeap[j].pid = h.pid
       /\ g.pid = h.pid /\ g.cantidad = h.cantidad
       /\ g.pagina = listaAdmHeap[j].pagina /\ g.off = 0
       /\ EmpiezaPagina(g)

LEMMA VerificaHace ==
  ASSUME NEW h \in Buscando, NEW k \in Nat \ {0}, listaAdmHeap \in Seq(Entradas), VerificarDesde(h, k)
  PROVE  Verifica(h)
<1> DEFINE n == Len(listaAdmHeap)
           I == {i \in k .. n : listaAdmHeap[i].disponible >= h.cantidad + 1 /\ listaAdmHeap[i].pid = h.pid}
           j == SelectInSubSeq(listaAdmHeap, k, n, LAMBDA e : e.disponible >= h.cantidad + 1 /\ e.pid = h.pid)
<1>1. n \in Nat /\ DOMAIN listaAdmHeap = 1 .. n /\ \A i \in 1 .. n : listaAdmHeap[i] \in Entradas
  BY EnLista, LenProperties
<1>2. j = IF I # {} THEN Min(I) ELSE 0
  BY DEF SelectInSubSeq
<1>3. I \subseteq Nat /\ I \subseteq 1 .. n
  <2> HIDE DEF n
  <2> QED BY <1>1
<1>4. j # 0 => j \in I
  <2>1. CASE I = {}
    BY <1>2, <2>1
  <2>2. CASE I # {}
    BY <1>2, <1>3, <2>2, MinEs
  <2> QED BY <2>1, <2>2
<1>5. CASE j = 0
  <2>1. pide' = [h EXCEPT !.pc = "sinLugar"] /\ UNCHANGED <<aMemoria, historia>>
    BY <1>5, Zenon DEF VerificarDesde
  <2>2. "sinLugar" \in PasosPide
    BY DEF PasosPide
  <2>3. Sigue(h) /\ pide'.pc = "sinLugar"
    BY <2>1, <2>2, CambiaPaso
  <2> QED BY <2>1, <2>3 DEF Verifica
<1>6. CASE j # 0
  <2>1. Compacta([h EXCEPT !.k = j, !.pagina = listaAdmHeap[j].pagina, !.off = 0, !.size = 0])
    BY <1>6, Zenon DEF VerificarDesde
  <2>2. j \in I
    BY <1>4, <1>6
  <2>3. j \in Nat /\ j \in 1 .. n /\ listaAdmHeap[j].pid = h.pid
    BY <1>3, <2>2
  <2>4. listaAdmHeap[j].pagina \in Nat
    BY <1>1, <2>3 DEF Entradas
  <2> HIDE DEF j
  <2>5. PICK x, y, g : x = j /\ y = listaAdmHeap[j].pagina
                       /\ g = [h EXCEPT !.k = x, !.pagina = y, !.off = 0, !.size = 0]
    OBVIOUS
  <2>6. x \in Nat /\ y \in Nat
    BY <2>3, <2>4, <2>5
  <2>7. g \in Buscando /\ g.pid = h.pid /\ g.cantidad = h.cantidad /\ g.pagina = y /\ g.off = 0
    <3>1. PICK a : a = [h EXCEPT !.k = x, !.pagina = y]
      OBVIOUS
    <3>2. a \in Buscando /\ a.pid = h.pid /\ a.cantidad = h.cantidad /\ a.pagina = y
      BY <2>6, <3>1 DEF Buscando
    <3>3. g = [a EXCEPT !.off = 0, !.size = 0]
      BY <2>5, <3>1 DEF Buscando
    <3> QED BY <3>2, <3>3, Situa
  <2>8. Compacta(g)
    BY <2>1, <2>5
  <2>9. EmpiezaPagina(g)
    BY <2>7, <2>8, CompactaHace
  <2> HIDE DEF n
  <2> QED BY <1>1, <2>3, <2>5, <2>7, <2>9 DEF Verifica
<1> QED BY <1>5, <1>6

-----------------------------------------------------------------------------
LEMMA EstadoCambia ==
  ASSUME estado \in [Pids -> Estados], NEW p \in Pids, NEW e \in Estados,
         estado' = [estado EXCEPT ![p] = e]
  PROVE  estado' \in [Pids -> Estados] /\ estado'[p] = e /\ \A q \in Pids \ {p} : estado'[q] = estado[q]
  OBVIOUS

\* A semaphore of sems with another value.
LEMMA SemsCon ==
  ASSUME sems \in [meta : Nat, pagina : Nat, reservo : Nat], NEW y \in Nat
  PROVE  /\ sems' = [sems EXCEPT !.meta = y] =>
              sems'.meta = y /\ sems'.pagina = sems.pagina /\ sems'.reservo = sems.reservo
              /\ sems' \in [meta : Nat, pagina : Nat, reservo : Nat]
         /\ sems' = [sems EXCEPT !.pagina = y] =>
              sems'.pagina = y /\ sems'.meta = sems.meta /\ sems'.reservo = sems.reservo
              /\ sems' \in [meta : Nat, pagina : Nat, reservo : Nat]
         /\ sems' = [sems EXCEPT !.reservo = y] =>
              sems'.reservo = y /\ sems'.meta = sems.meta /\ sems'.pagina = sems.pagina
              /\ sems' \in [meta : Nat, pagina : Nat, reservo : Nat]
  OBVIOUS

\* sems' has d more in each of its semaphores.
Varia(dMeta, dPagina, dReservo) ==
  /\ sems' \in [meta : Nat, pagina : Nat, reservo : Nat]
  /\ sems'.meta = sems.meta + dMeta /\ sems'.pagina = sems.pagina + dPagina
  /\ sems'.reservo = sems.reservo + dReservo

LEMMA SemsVaria ==
  ASSUME sems \in [meta : Nat, pagina : Nat, reservo : Nat]
  PROVE  /\ sems.meta \in Nat /\ sems.pagina \in Nat /\ sems.reservo \in Nat
         /\ sems' = [sems EXCEPT !.meta = @ + 1] => Varia(1, 0, 0)
         /\ sems' = [sems EXCEPT !.pagina = @ + 1] => Varia(0, 1, 0)
         /\ sems' = [sems EXCEPT !.reservo = @ + 1] => Varia(0, 0, 1)
         /\ sems.meta > 0 /\ sems' = [sems EXCEPT !.meta = @ - 1] => Varia(-1, 0, 0)
         /\ sems.pagina > 0 /\ sems' = [sems EXCEPT !.pagina = @ - 1] => Varia(0, -1, 0)
         /\ sems.reservo > 0 /\ sems' = [sems EXCEPT !.reservo = @ - 1] => Varia(0, 0, -1)
         /\ UNCHANGED sems => Varia(0, 0, 0)
<1>1. sems.meta \in Nat /\ sems.pagina \in Nat /\ sems.reservo \in Nat
  OBVIOUS
<1>2. ASSUME sems' = [sems EXCEPT !.meta = @ + 1] PROVE Varia(1, 0, 0)
  <2>1. PICK y \in Nat : y = sems.meta + 1
    BY <1>1
  <2>2. sems' = [sems EXCEPT !.meta = y]
    BY <1>2, <2>1
  <2> QED BY <1>1, <2>1, <2>2, SemsCon DEF Varia
<1>3. ASSUME sems' = [sems EXCEPT !.pagina = @ + 1] PROVE Varia(0, 1, 0)
  <2>1. PICK y \in Nat : y = sems.pagina + 1
    BY <1>1
  <2>2. sems' = [sems EXCEPT !.pagina = y]
    BY <1>3, <2>1
  <2> QED BY <1>1, <2>1, <2>2, SemsCon DEF Varia
<1>4. ASSUME sems' = [sems EXCEPT !.reservo = @ + 1] PROVE Varia(0, 0, 1)
  <2>1. PICK y \in Nat : y = sems.reservo + 1
    BY <1>1
  <2>2. sems' = [sems EXCEPT !.reservo = y]
    BY <1>4, <2>1
  <2> QED BY <1>1, <2>1, <2>2, SemsCon DEF Varia
<1>5. ASSUME sems.meta > 0, sems' = [sems EXCEPT !.meta = @ - 1] PROVE Varia(-1, 0, 0)
  <2>1. PICK y \in Nat : y = sems.meta - 1
    BY <1>1, <1>5
  <2>2. sems' = [sems EXCEPT !.meta = y]
    BY <1>5, <2>1
  <2> QED BY <1>1, <2>1, <2>2, SemsCon DEF Varia
<1>6. ASSUME sems.pagina > 0, sems' = [sems EXCEPT !.pagina = @ - 1] PROVE Varia(0, -1, 0)
  <2>1. PICK y \in Nat : y = sems.pagina - 1
    BY <1>1, <1>6
  <2>2. sems' = [sems EXCEPT !.pagina = y]
    BY <1>6, <2>1
  <2> QED BY <1>1, <2>1, <2>2, SemsCon DEF Varia
<1>7. ASSUME sems.reservo > 0, sems' = [sems EXCEPT !.reservo = @ - 1] PROVE Varia(0, 0, -1)
  <2>1. PICK y \in Nat : y = sems.reservo - 1
    BY <1>1, <1>7
  <2>2. sems' = [sems EXCEPT !.reservo = y]
    BY <1>7, <2>1
  <2> QED BY <1>1, <2>1, <2>2, SemsCon DEF Varia
<1>8. UNCHANGED sems => Varia(0, 0, 0)
  BY <1>1 DEF Varia
<1> QED BY <1>1, <1>2, <1>3, <1>4, <1>5, <1>6, <1>7, <1>8

\* What each of the variables of the threads may become.
LEMMA EnviaTipo ==
  ASSUME aMemoria \in Seq(Mensajes), NEW m \in Mensajes, aMemoria' = Append(aMemoria, m)
  PROVE  aMemoria' \in Seq(Mensajes) /\ Crecio(aMemoria, m, aMemoria')
  BY ColaCrece

LEMMA PaginasDeTipo ==
  ASSUME listaAdmHeap \in Seq(Entradas), NEW p \in Pids
  PROVE  PaginasDe(p) \in SUBSET Paginas
<1>1. \A j \in DOMAIN listaAdmHeap : listaAdmHeap[j] \in Entradas
  BY EnLista
<1>2. \A j \in DOMAIN listaAdmHeap : listaAdmHeap[j].pagina \in Nat
  BY <1>1 DEF Entradas
<1>3. \A i \in 1 .. PaginasIniciales - 1 : i \in Nat
  BY PaginasSupuesto
<1>4. \A i \in Nat : Pagina(p, i) \in Paginas
  BY PaginaTipo
<1> QED BY <1>2, <1>3, <1>4 DEF PaginasDe

LEMMA TiposProgramas ==
  ASSUME TiposHeap, Programas
  PROVE  TiposHeap'
<1>1. ASSUME NEW p \in Pids, Llega(p) PROVE TiposHeap'
  <2> DEFINE m == Mensaje("inicia", Pagina(p, PaginasIniciales), 0, Otro)
  <2>1. m \in Mensajes
    BY PaginaTipo, MensajeTipo, CeldaTipo, PaginasSupuesto
  <2>2. aMemoria' = Append(aMemoria, m) /\ estado' = [estado EXCEPT ![p] = "carga"]
        /\ UNCHANGED <<memoria, bloques, colaHeap, colaLiberaHeap, cuenta, respuestas,
                       mutexMemoria, pide, libera, admin, fallo, historia>>
    BY <1>1 DEF Llega, Envia
  <2>3. aMemoria' \in Seq(Mensajes)
    BY <2>1, <2>2, EnviaTipo DEF TiposHeap
  <2>4. estado' \in [Pids -> Estados]
    BY <2>2 DEF TiposHeap, Estados
  <2> QED BY <2>2, <2>3, <2>4 DEF TiposHeap, memoria, respuestas, admin
<1>2. ASSUME NEW p \in Pids, Termina(p) PROVE TiposHeap'
  <2> DEFINE m == [op |-> "libera", nodos |-> PaginasDe(p)]
  <2>1. m \in Mensajes
    BY PaginasDeTipo, BajaTipo DEF TiposHeap
  <2>2. aMemoria' = Append(aMemoria, m) /\ estado' = [estado EXCEPT ![p] = "fin"]
        /\ bloques' = {b \in bloques : b.pid # p}
        /\ UNCHANGED <<memoria, colaHeap, colaLiberaHeap, cuenta, respuestas,
                       mutexMemoria, pide, libera, admin, fallo, historia>>
    BY <1>2 DEF Termina, Envia
  <2> HIDE DEF m
  <2>3. aMemoria' \in Seq(Mensajes)
    BY <2>1, <2>2, EnviaTipo DEF TiposHeap
  <2>4. estado' \in [Pids -> Estados]
    BY <2>2 DEF TiposHeap, Estados
  <2>5. bloques' \subseteq Bloques
    BY <2>2 DEF TiposHeap
  <2> QED BY <2>2, <2>3, <2>4, <2>5 DEF TiposHeap, memoria, respuestas, admin
<1>3. ASSUME NEW p \in Pids, NEW n \in Tamanos, Reserva(p, n) PROVE TiposHeap'
  <2> DEFINE r == [pid |-> p, cantidad |-> n]
  <2>1. r \in Pedidos
    BY TamanosSupuesto DEF Pedidos
  <2>2. colaHeap' = Append(colaHeap, r) /\ estado' = [estado EXCEPT ![p] = "espera"]
        /\ UNCHANGED <<memoria, bloques, colaLiberaHeap, aMemoria, respuestas, mutexMemoria,
                       pide, libera, admin, fallo, historia>>
    BY <1>3 DEF Reserva
  <2> HIDE DEF r
  <2>3. colaHeap' \in Seq(Pedidos)
    BY <2>1, <2>2, ColaCrece DEF TiposHeap
  <2>4. estado' \in [Pids -> Estados]
    BY <2>2 DEF TiposHeap, Estados
  <2> QED BY <2>2, <2>3, <2>4 DEF TiposHeap, memoria, respuestas, admin
<1>4. ASSUME NEW b \in bloques, Libera(b) PROVE TiposHeap'
  <2>1. b \in Bloques
    BY DEF TiposHeap
  <2>2. colaLiberaHeap' = Append(colaLiberaHeap, b) /\ estado' = [estado EXCEPT ![b.pid] = "espera"]
        /\ bloques' = bloques \ {b}
        /\ UNCHANGED <<memoria, colaHeap, aMemoria, respuestas, mutexMemoria,
                       pide, libera, admin, fallo, historia>>
    BY <1>4 DEF Libera
  <2>3. colaLiberaHeap' \in Seq(Bloques)
    BY <2>1, <2>2, ColaCrece DEF TiposHeap
  <2>4. estado' \in [Pids -> Estados] /\ bloques' \subseteq Bloques
    BY <2>2 DEF TiposHeap, Estados
  <2> QED BY <2>2, <2>3, <2>4 DEF TiposHeap, memoria, respuestas, admin
<1> QED BY <1>1, <1>2, <1>3, <1>4 DEF Programas

\* The head of aMemoria.
Primero == Head(aMemoria)

LEMMA PrimeroTipo ==
  ASSUME TiposHeap, aMemoria # <<>>, aMemoria' = Tail(aMemoria)
  PROVE  /\ Primero \in Mensajes /\ Menguo(aMemoria, aMemoria') /\ aMemoria' \in Seq(Mensajes)
         /\ 1 \in DOMAIN aMemoria /\ aMemoria[1] = Primero
<1>1. Primero \in Mensajes /\ Menguo(aMemoria, aMemoria') /\ aMemoria' \in Seq(Mensajes)
  BY ColaMengua DEF TiposHeap, Primero
<1> QED BY <1>1 DEF Menguo, Primero

\* The kinds of what Memoria does with the first message.
CInicia  == Primero.op = "inicia" /\ Inicia(Primero.nodo.pid, Primero.nodo.pagina)
CPide    == Primero.op = "pide" /\ Asigna(Primero.nodo.pid)
CLee     == /\ Primero.op = "lee" /\ Leible(Primero.nodo)
            /\ Publica(Head(LeerDePagina(Primero.nodo, Primero.offset, 1)))
            /\ UNCHANGED <<memoria, programas, admin, fallo, historia>>
CEscribe == /\ Primero.op = "escribe" /\ Escribible(Primero.nodo, Primero.offset)
            /\ EscribirEnPagina(Primero.nodo, Primero.offset, <<Primero.celda>>)
            /\ sems' = [sems EXCEPT !.pagina = @ + 1]
            /\ UNCHANGED <<programas, metaDataLeida, admin, fallo, historia>>
CLibera  == /\ Primero.op = "libera" /\ Liberable(Primero.nodos)
            /\ LiberarPaginas(Primero.nodos)
            /\ UNCHANGED <<programas, respuestas, admin, fallo, historia>>
CRompe   == /\ \/ Primero.op = "lee" /\ ~Leible(Primero.nodo)
               \/ Primero.op = "escribe" /\ ~Escribible(Primero.nodo, Primero.offset)
               \/ Primero.op = "libera" /\ ~Liberable(Primero.nodos)
            /\ Rompe /\ UNCHANGED historia

LEMMA ContestaEs ==
  ASSUME Contesta
  PROVE  /\ aMemoria # <<>> /\ aMemoria' = Tail(aMemoria) /\ UNCHANGED <<mutexMemoria, pide, libera>>
         /\ CInicia \/ CPide \/ CLee \/ CEscribe \/ CLibera \/ CRompe
<1>1. PICK m : m = Head(aMemoria)
  OBVIOUS
<1> QED BY <1>1 DEF Contesta, CInicia, CPide, CLee, CEscribe, CLibera, CRompe, Primero

LEMMA TiposContesta ==
  ASSUME TiposHeap, Contesta
  PROVE  TiposHeap'
<1>1. Primero \in Mensajes /\ aMemoria' \in Seq(Mensajes)
  BY ContestaEs, PrimeroTipo
<1>2. UNCHANGED <<mutexMemoria, pide, libera>>
  BY ContestaEs
<1>3. CASE CInicia
  <2>1. Primero.nodo.pid \in Pids
    BY <1>1, <1>3, MensajeEs DEF CInicia, Paginas
  <2>2. estado' = [estado EXCEPT ![Primero.nodo.pid] = "corre"]
        /\ UNCHANGED <<bloques, colaHeap, colaLiberaHeap, cuenta, respuestas, admin, fallo, contenido>>
    BY <1>3 DEF CInicia, Inicia, InicializarPrograma
  <2>3. estado' \in [Pids -> Estados]
    BY <2>1, <2>2 DEF TiposHeap, Estados
  <2> QED BY <1>1, <1>2, <2>2, <2>3 DEF TiposHeap, respuestas, admin
<1>4. CASE CPide
  <2>1. PICK algo \in {0, 1} :
          /\ AsignarPagina(Primero.nodo.pid, algo)
          /\ abortoPorFaltaDeMemoria' = 1 - algo /\ sems' = [sems EXCEPT !.reservo = @ + 1]
          /\ UNCHANGED <<programas, metaDataLeida, listaAdmHeap, ultimaPagina, fallo>>
    BY <1>4 DEF CPide, Asigna
  <2>2. UNCHANGED contenido
    BY <2>1 DEF AsignarPagina, memoria
  <2>3. abortoPorFaltaDeMemoria' \in {0, 1}
    BY <2>1
  <2>4. sems' \in [meta : Nat, pagina : Nat, reservo : Nat]
    BY <2>1, SemsVaria DEF TiposHeap, Varia
  <2> QED BY <1>1, <1>2, <2>1, <2>2, <2>3, <2>4 DEF TiposHeap, programas
<1>5. CASE CLee
  <2>1. metaDataLeida' \in Celdas /\ sems' = [sems EXCEPT !.meta = @ + 1]
        /\ UNCHANGED <<memoria, programas, admin, fallo>>
    BY <1>5, LeeUna DEF CLee, Publica, TiposHeap
  <2>2. sems' \in [meta : Nat, pagina : Nat, reservo : Nat]
    BY <2>1, SemsVaria DEF TiposHeap, Varia
  <2> QED BY <1>1, <1>2, <2>1, <2>2 DEF TiposHeap, memoria, programas, admin
<1>6. CASE CEscribe
  <2>1. Primero.celda \in Celdas
    BY <1>1, <1>6, MensajeEs DEF CEscribe
  <2>2. Escrito(Direccion(Primero.nodo, Primero.offset), Primero.celda)
    BY <1>6, EscribeUna DEF CEscribe
  <2>3. \A a \in DOMAIN contenido' : contenido'[a] \in Celdas
    BY <2>1, <2>2 DEF Escrito, TiposHeap
  <2>4. sems' \in [meta : Nat, pagina : Nat, reservo : Nat]
        /\ UNCHANGED <<programas, metaDataLeida, admin, fallo>>
    BY <1>6, SemsVaria DEF TiposHeap, CEscribe, Varia
  <2> QED BY <1>1, <1>2, <2>3, <2>4 DEF TiposHeap, programas, admin
<1>7. CASE CLibera
  <2>1. UNCHANGED <<programas, respuestas, admin, fallo, contenido>>
    BY <1>7 DEF CLibera, LiberarPaginas
  <2> QED BY <1>1, <1>2, <2>1 DEF TiposHeap, programas, respuestas, admin
<1>8. CASE CRompe
  <2>1. fallo' = "ub" /\ UNCHANGED <<memoria, programas, respuestas, admin>>
    BY <1>8 DEF CRompe, Rompe
  <2> QED BY <1>1, <1>2, <2>1 DEF TiposHeap, memoria, programas, respuestas, admin
<1> QED BY <1>3, <1>4, <1>5, <1>6, <1>7, <1>8, ContestaEs

-----------------------------------------------------------------------------
(* What each step of the threads does.                                      *)

LEMMA LeeTipos ==
  ASSUME aMemoria \in Seq(Mensajes), NEW h, NEW pc, NEW o, Lee(h, pc, o)
  PROVE  /\ pide' \in HilosPide /\ aMemoria' \in Seq(Mensajes)
         /\ Crecio(aMemoria, Lectura(Nodo(h), o), aMemoria')
  BY EnviaTipo DEF Lee, Sigue

LEMMA EmpiezaTipos ==
  ASSUME aMemoria \in Seq(Mensajes), NEW h, EmpiezaPagina(h)
  PROVE  pide' \in HilosPide /\ aMemoria' \in Seq(Mensajes)
  BY LeeTipos DEF EmpiezaPagina

LEMMA VerificaTipos ==
  ASSUME aMemoria \in Seq(Mensajes), NEW h, Verifica(h)
  PROVE  pide' \in HilosPide /\ aMemoria' \in Seq(Mensajes)
  BY EmpiezaTipos DEF Verifica, Sigue

LEMMA MetadataRecibida ==
  ASSUME TiposHeap, EsperaMetadata, metaDataLeida # Nada
  PROVE  /\ Varia(-1, 0, 0) /\ sems.meta > 0 /\ metaDataLeida \in Celdas
         /\ metaDataLeida.size \in Int /\ metaDataLeida.isFree \in Int
<1>1. Varia(-1, 0, 0) /\ sems.meta > 0
  BY SemsVaria DEF EsperaMetadata, TiposHeap
<1>2. metaDataLeida \in Celdas
  BY DEF TiposHeap
<1> QED BY <1>1, <1>2 DEF Celdas

LEMMA EscrituraRecibida ==
  ASSUME TiposHeap, EsperaPagina
  PROVE  Varia(0, -1, 0) /\ sems.pagina > 0
  BY SemsVaria DEF EsperaPagina, TiposHeap

\* The types, when only what the threads change is to be looked at.
LEMMA TiposQuedan ==
  ASSUME TiposHeap, UNCHANGED <<contenido, abortoPorFaltaDeMemoria>>,
         estado' \in [Pids -> Estados], bloques' \subseteq Bloques,
         colaHeap' \in Seq(Pedidos), colaLiberaHeap' \in Seq(Bloques),
         aMemoria' \in Seq(Mensajes), metaDataLeida' \in Celdas \cup {Nada},
         sems' \in [meta : Nat, pagina : Nat, reservo : Nat],
         mutexMemoria' \in {"nadie", "pide", "libera"},
         pide' \in HilosPide, libera' \in HilosLibera, listaAdmHeap' \in Seq(Entradas),
         ultimaPagina' \in [Pids -> Nat], fallo' \in {"no", "ub"}
  PROVE  TiposHeap'
  BY DEF TiposHeap

\* What PideToma takes.
PedidoNuevo(h) ==
  /\ h \in Buscando /\ h.pid = Head(colaHeap).pid /\ h.cantidad = Head(colaHeap).cantidad

LEMMA PideTomaHace ==
  ASSUME TiposHeap, PideToma
  PROVE  /\ TiposHeap'
         /\ pide.pc = "espera" /\ colaHeap # <<>> /\ colaHeap' = Tail(colaHeap)
         /\ Head(colaHeap) \in Pedidos
         /\ \/ /\ Head(colaHeap).cantidad > MARCOS_SIZE - 2 /\ pide' = Ocioso
               /\ estado' = [estado EXCEPT ![Head(colaHeap).pid] = "aborta"]
               /\ UNCHANGED <<aMemoria, historia>>
            \/ /\ Head(colaHeap).cantidad <= MARCOS_SIZE - 2
               /\ \E h : PedidoNuevo(h) /\ Verifica(h)
               /\ UNCHANGED estado
         /\ UNCHANGED <<memoria, bloques, colaLiberaHeap, cuenta, metaDataLeida, sems, mutexMemoria,
                        libera, listaAdmHeap, ultimaPagina, abortoPorFaltaDeMemoria, fallo>>
<1>1. pide.pc = "espera" /\ colaHeap # <<>> /\ colaHeap' = Tail(colaHeap)
  BY DEF PideToma
<1>2. Head(colaHeap) \in Pedidos /\ colaHeap' \in Seq(Pedidos)
  BY <1>1, ColaMengua DEF TiposHeap
<1>3. UNCHANGED <<memoria, bloques, colaLiberaHeap, cuenta, metaDataLeida, sems, mutexMemoria,
                  libera, listaAdmHeap, ultimaPagina, abortoPorFaltaDeMemoria, fallo>>
  BY DEF PideToma, respuestas, admin
<1>4. MARCOS_SIZE \in Nat /\ Head(colaHeap).cantidad \in Nat /\ Head(colaHeap).pid \in Pids
  BY <1>2, MarcosAssumption DEF Pedidos
<1>5. CASE Head(colaHeap).cantidad > MARCOS_SIZE - 2
  <2>1. Rechaza(Head(colaHeap).pid)
    BY <1>5 DEF PideToma
  <2>2. pide' = Ocioso /\ estado' = [estado EXCEPT ![Head(colaHeap).pid] = "aborta"]
        /\ UNCHANGED <<aMemoria, historia>>
    BY <2>1 DEF Rechaza
  <2>3. estado' \in [Pids -> Estados]
    BY <2>2 DEF TiposHeap, Estados
  <2>4. TiposHeap'
    BY <1>2, <1>3, <2>2, <2>3, OciosoTipo, TiposQuedan DEF TiposHeap, memoria
  <2> QED BY <1>1, <1>2, <1>3, <1>5, <2>2, <2>4
<1>6. CASE ~(Head(colaHeap).cantidad > MARCOS_SIZE - 2)
  <2>1. PICK h : h = [pc |-> "toma", pid |-> Head(colaHeap).pid, cantidad |-> Head(colaHeap).cantidad,
                      k |-> 0, pagina |-> 0, off |-> 0, size |-> 0, isFree |-> 0]
    OBVIOUS
  <2>2. VerificarDesde(h, 1) /\ UNCHANGED estado
    BY <1>6, <2>1 DEF PideToma
  <2>3. h \in Buscando
    BY <1>4, <2>1 DEF Buscando
  <2>4. PedidoNuevo(h) /\ Verifica(h)
    BY <2>1, <2>2, <2>3, VerificaHace DEF PedidoNuevo, TiposHeap
  <2>5. pide' \in HilosPide /\ aMemoria' \in Seq(Mensajes)
    BY <2>4, VerificaTipos DEF TiposHeap
  <2>6. TiposHeap'
    BY <1>2, <1>3, <2>2, <2>5, TiposQuedan DEF TiposHeap, memoria
  <2>7. Head(colaHeap).cantidad <= MARCOS_SIZE - 2
    BY <1>4, <1>6
  <2> QED BY <1>1, <1>2, <1>3, <2>2, <2>4, <2>6, <2>7
<1> QED BY <1>5, <1>6

\* What the steps that receive a header leave as it is.
LEMMA PideRecibeHace ==
  ASSUME TiposHeap, NEW pc \in PasosPide, PideRecibe(pc)
  PROVE  /\ pide.pc = pc /\ pide \in Buscando /\ Varia(-1, 0, 0) /\ sems.meta > 0
         /\ metaDataLeida \in Celdas /\ metaDataLeida' = Nada
         /\ metaDataLeida.size \in Int /\ metaDataLeida.isFree \in Int
         /\ UNCHANGED <<memoria, estado, bloques, colaHeap, colaLiberaHeap, cuenta, mutexMemoria,
                        libera, listaAdmHeap, ultimaPagina, abortoPorFaltaDeMemoria, fallo>>
         /\ pide' \in HilosPide /\ aMemoria' \in Seq(Mensajes) => TiposHeap'
<1>1. pide.pc = pc /\ metaDataLeida' = Nada /\ EsperaMetadata /\ metaDataLeida # Nada
      /\ UNCHANGED <<memoria, estado, bloques, colaHeap, colaLiberaHeap, cuenta, mutexMemoria,
                     libera, listaAdmHeap, ultimaPagina, abortoPorFaltaDeMemoria, fallo>>
  BY DEF PideRecibe, programas, admin
<1>2. pide \in Buscando
  BY <1>1, HiloTipo DEF TiposHeap, PasosPide, EsperaEscritura
<1>3. Varia(-1, 0, 0) /\ sems.meta > 0 /\ metaDataLeida \in Celdas
      /\ metaDataLeida.size \in Int /\ metaDataLeida.isFree \in Int
  BY <1>1, MetadataRecibida
<1>4. ASSUME pide' \in HilosPide, aMemoria' \in Seq(Mensajes) PROVE TiposHeap'
  BY <1>1, <1>3, <1>4, TiposQuedan DEF TiposHeap, memoria, Varia
<1> QED BY <1>1, <1>2, <1>3, <1>4

LEMMA PideActualHace ==
  ASSUME TiposHeap, PideActual
  PROVE  /\ TiposHeap'
         /\ \E h \in Buscando :
              /\ h.pid = pide.pid /\ h.cantidad = pide.cantidad /\ h.pagina = pide.pagina
              /\ h.off = pide.off /\ h.size = metaDataLeida.size /\ h.isFree = metaDataLeida.isFree
              /\ Lee(h, "leeSiguiente", h.off + 1 + h.size)
<1>1. PideRecibe("leeActual") /\ "leeActual" \in PasosPide
  BY DEF PideActual, PasosPide
<1>2. pide \in Buscando /\ metaDataLeida.size \in Int /\ metaDataLeida.isFree \in Int
  BY <1>1, PideRecibeHace
<1>3. PICK z \in Int, w \in Int : z = metaDataLeida.size /\ w = metaDataLeida.isFree
  BY <1>2
<1>4. PICK h : h = [pide EXCEPT !.size = z, !.isFree = w]
  OBVIOUS
<1>5. PideLee(h, "leeSiguiente", h.off + 1 + h.size)
  BY <1>3, <1>4 DEF PideActual
<1>6. h.pid = pide.pid /\ h.cantidad = pide.cantidad /\ h.pagina = pide.pagina
      /\ h.off = pide.off /\ h.size = z /\ h.isFree = w /\ h \in Buscando
  BY <1>2, <1>4 DEF Buscando
<1>7. h.off + 1 + h.size \in Int
  BY <1>6, BuscandoTipo
<1>8. Lee(h, "leeSiguiente", h.off + 1 + h.size)
  BY <1>5, <1>6, <1>7, PideLeeHace DEF PasosPide
<1>9. pide' \in HilosPide /\ aMemoria' \in Seq(Mensajes)
  BY <1>8, LeeTipos DEF TiposHeap
<1>10. TiposHeap'
  BY <1>1, <1>9, PideRecibeHace
<1> QED BY <1>3, <1>6, <1>8, <1>10

LEMMA PideSiguienteHace ==
  ASSUME TiposHeap, PideSiguiente
  PROVE  /\ TiposHeap'
         /\ \/ /\ pide.isFree = -1 /\ metaDataLeida.isFree = -1
               /\ \E c \in Celdas :
                    /\ c = [isFree |-> -1, size |-> pide.size + 1 + metaDataLeida.size]
                    /\ Escritura(Nodo(pide), pide.off, c) \in Mensajes
                    /\ aMemoria' = Append(aMemoria, Escritura(Nodo(pide), pide.off, c))
                    /\ pide'.size = c.size
               /\ pide' \in HilosPide /\ pide'.pc = "compactado" /\ pide'.pid = pide.pid
               /\ pide'.cantidad = pide.cantidad /\ pide'.pagina = pide.pagina /\ pide'.off = pide.off
               /\ historia' = historia \cup
                    (IF pide.off + 1 + pide.size >= MARCOS_SIZE THEN {"cruza"} ELSE {})
            \/ /\ ~(pide.isFree = -1 /\ metaDataLeida.isFree = -1)
               /\ \E h \in Buscando :
                    /\ h.pid = pide.pid /\ h.cantidad = pide.cantidad /\ h.pagina = pide.pagina
                    /\ h.off = pide.off + 1 + pide.size
                    /\ EmpiezaPagina(h)
<1>1. PideRecibe("leeSiguiente") /\ "leeSiguiente" \in PasosPide
  BY DEF PideSiguiente, PasosPide
<1>2. pide \in Buscando /\ metaDataLeida.size \in Int /\ metaDataLeida.isFree \in Int
  BY <1>1, PideRecibeHace
<1>3. pide.off \in Int /\ pide.size \in Int /\ Nodo(pide) \in Paginas
  BY <1>2, BuscandoTipo
<1>4. CASE pide.isFree = -1 /\ metaDataLeida.isFree = -1
  <2>1. PICK z \in Int : z = pide.size + 1 + metaDataLeida.size
    BY <1>2, <1>3
  <2>2. PICK c : c = [isFree |-> -1, size |-> z]
    OBVIOUS
  <2>3. aMemoria' = Append(aMemoria, Escritura(Nodo(pide), pide.off, c))
        /\ pide' = [pide EXCEPT !.pc = "compactado", !.size = z]
        /\ historia' = historia \cup
             (IF pide.off + 1 + pide.size >= MARCOS_SIZE THEN {"cruza"} ELSE {})
    BY <1>4, <2>1, <2>2 DEF PideSiguiente, Envia, Historia
  <2>4. c \in Celdas /\ c.size = z
    BY <2>2, CeldaTipo
  <2>5. Escritura(Nodo(pide), pide.off, c) \in Mensajes
    BY <1>3, <2>4, MensajeTipo DEF Escritura
  <2>6. pide' \in HilosPide /\ pide'.pc = "compactado" /\ pide'.pid = pide.pid
        /\ pide'.cantidad = pide.cantidad /\ pide'.pagina = pide.pagina /\ pide'.off = pide.off
        /\ pide'.size = z
    BY <1>2, <2>3 DEF Buscando, HilosPide, PasosPide, EsperaEscritura
  <2>7. aMemoria' \in Seq(Mensajes)
    BY <2>3, <2>5, EnviaTipo DEF TiposHeap
  <2>8. TiposHeap'
    BY <1>1, <2>6, <2>7, PideRecibeHace
  <2> QED BY <1>4, <2>1, <2>2, <2>3, <2>4, <2>5, <2>6, <2>8
<1>5. CASE ~(pide.isFree = -1 /\ metaDataLeida.isFree = -1)
  <2>1. PICK s \in Int : s = pide.off + 1 + pide.size
    BY <1>3
  <2>2. PICK h : h = [pide EXCEPT !.off = s]
    OBVIOUS
  <2>3. Compacta(h)
    BY <1>5, <2>1, <2>2 DEF PideSiguiente
  <2>4. h \in Buscando /\ h.pid = pide.pid /\ h.cantidad = pide.cantidad /\ h.pagina = pide.pagina
        /\ h.off = s
    BY <1>2, <2>2 DEF Buscando
  <2>5. EmpiezaPagina(h)
    BY <2>3, <2>4, CompactaHace
  <2>6. TiposHeap'
    BY <1>1, <2>5, EmpiezaTipos, PideRecibeHace DEF TiposHeap
  <2> QED BY <1>5, <2>1, <2>4, <2>5, <2>6
<1> QED BY <1>4, <1>5

LEMMA PideCompactadoHace ==
  ASSUME TiposHeap, PideCompactado
  PROVE  /\ TiposHeap' /\ pide.pc = "compactado" /\ pide \in Buscando
         /\ Varia(0, -1, 0) /\ sems.pagina > 0 /\ EmpiezaPagina(pide)
         /\ UNCHANGED <<memoria, estado, bloques, colaHeap, colaLiberaHeap, cuenta, metaDataLeida,
                        mutexMemoria, libera, listaAdmHeap, ultimaPagina, abortoPorFaltaDeMemoria, fallo>>
<1>1. pide.pc = "compactado" /\ EsperaPagina /\ Compacta(pide)
      /\ UNCHANGED <<memoria, estado, bloques, colaHeap, colaLiberaHeap, cuenta, metaDataLeida,
                     mutexMemoria, libera, listaAdmHeap, ultimaPagina, abortoPorFaltaDeMemoria, fallo>>
  BY DEF PideCompactado, programas, admin
<1>2. pide \in Buscando
  BY <1>1, HiloTipo DEF TiposHeap
<1>3. Varia(0, -1, 0) /\ sems.pagina > 0
  BY <1>1, EscrituraRecibida
<1>4. EmpiezaPagina(pide)
  BY <1>1, <1>2, CompactaHace
<1>5. pide' \in HilosPide /\ aMemoria' \in Seq(Mensajes)
  BY <1>4, EmpiezaTipos DEF TiposHeap
<1>6. TiposHeap'
  BY <1>1, <1>3, <1>5, TiposQuedan DEF TiposHeap, memoria, Varia
<1> QED BY <1>1, <1>2, <1>3, <1>4, <1>6

LEMMA PideBloqueHace ==
  ASSUME TiposHeap, PideBloque
  PROVE  /\ TiposHeap'
         /\ \/ /\ Alcanza(metaDataLeida, pide.cantidad)
               /\ Sigue(pide) /\ pide'.pc = "bloque" /\ UNCHANGED <<aMemoria, historia>>
            \/ \E h \in Buscando :
                 /\ pide.off + 1 + metaDataLeida.size < MARCOS_SIZE
                 /\ h.pid = pide.pid /\ h.cantidad = pide.cantidad /\ h.pagina = pide.pagina
                 /\ h.off = pide.off + 1 + metaDataLeida.size
                 /\ Lee(h, "leeBloque", h.off)
            \/ Verifica(pide)
<1>1. PideRecibe("leeBloque") /\ "leeBloque" \in PasosPide
  BY DEF PideBloque, PasosPide
<1>2. pide \in Buscando /\ metaDataLeida.size \in Int
  BY <1>1, PideRecibeHace
<1>3. pide.off \in Int /\ pide.k \in Nat
  BY <1>2, BuscandoTipo
<1>4. PICK s \in Int : s = pide.off + 1 + metaDataLeida.size
  BY <1>2, <1>3
<1>5. CASE Alcanza(metaDataLeida, pide.cantidad)
  <2>1. pide' = [pide EXCEPT !.pc = "bloque"] /\ UNCHANGED <<aMemoria, historia>>
    BY <1>5 DEF PideBloque
  <2>2. Sigue(pide) /\ pide'.pc = "bloque"
    BY <1>2, <2>1, CambiaPaso DEF PasosPide
  <2>3. TiposHeap'
    BY <1>1, <2>1, <2>2, PideRecibeHace DEF TiposHeap, Sigue
  <2> QED BY <1>5, <2>1, <2>2, <2>3
<1>6. CASE ~Alcanza(metaDataLeida, pide.cantidad) /\ s < MARCOS_SIZE
  <2>1. PICK h : h = [pide EXCEPT !.off = s]
    OBVIOUS
  <2>2. PideLee(h, "leeBloque", s)
    BY <1>4, <1>6, <2>1 DEF PideBloque
  <2>3. h \in Buscando /\ h.pid = pide.pid /\ h.cantidad = pide.cantidad /\ h.pagina = pide.pagina
        /\ h.off = s
    BY <1>2, <2>1 DEF Buscando
  <2>4. Lee(h, "leeBloque", s)
    BY <2>2, <2>3, PideLeeHace DEF PasosPide
  <2>5. TiposHeap'
    BY <1>1, <2>4, LeeTipos, PideRecibeHace DEF TiposHeap
  <2> QED BY <1>4, <1>6, <2>3, <2>4, <2>5
<1>7. CASE ~Alcanza(metaDataLeida, pide.cantidad) /\ ~(s < MARCOS_SIZE)
  <2>1. VerificarDesde(pide, pide.k + 1)
    BY <1>4, <1>7 DEF PideBloque
  <2>2. Verifica(pide)
    BY <1>2, <1>3, <2>1, VerificaHace DEF TiposHeap
  <2>3. TiposHeap'
    BY <1>1, <2>2, VerificaTipos, PideRecibeHace DEF TiposHeap
  <2> QED BY <2>2, <2>3
<1> QED BY <1>5, <1>6, <1>7

LEMMA PidePaginaHace ==
  ASSUME TiposHeap, PidePagina
  PROVE  /\ TiposHeap' /\ pide \in Buscando
         /\ pide.pc = "sinLugar" /\ mutexMemoria = "nadie" /\ mutexMemoria' = "pide"
         /\ ultimaPagina' = [ultimaPagina EXCEPT ![pide.pid] = ultimaPagina[pide.pid] + 1]
         /\ ultimaPagina[pide.pid] \in Nat
         /\ pide' \in HilosPide /\ pide'.pc = "reservaPagina" /\ pide'.pid = pide.pid
         /\ pide'.cantidad = pide.cantidad /\ pide'.pagina = ultimaPagina[pide.pid] /\ pide'.off = 0
         /\ \E m \in Mensajes :
              /\ m.op = "pide" /\ m.nodo.pid = pide.pid
              /\ aMemoria' = Append(aMemoria, m)
         /\ UNCHANGED <<memoria, estado, bloques, colaHeap, colaLiberaHeap, cuenta, metaDataLeida, sems,
                        libera, listaAdmHeap, abortoPorFaltaDeMemoria, fallo, historia>>
<1>1. pide.pc = "sinLugar" /\ mutexMemoria = "nadie" /\ mutexMemoria' = "pide"
      /\ ultimaPagina' = [ultimaPagina EXCEPT ![pide.pid] = ultimaPagina[pide.pid] + 1]
      /\ pide' = [pide EXCEPT !.pc = "reservaPagina", !.pagina = ultimaPagina[pide.pid], !.off = 0]
      /\ aMemoria' = Append(aMemoria, Mensaje("pide", Pagina(pide.pid, 0), 0, Otro))
      /\ UNCHANGED <<memoria, estado, bloques, colaHeap, colaLiberaHeap, cuenta, metaDataLeida, sems,
                     libera, listaAdmHeap, abortoPorFaltaDeMemoria, fallo, historia>>
  BY DEF PidePagina, Envia, programas, respuestas
<1>2. pide \in Buscando /\ pide.pid \in Pids
  BY <1>1, HiloTipo, BuscandoTipo DEF TiposHeap
<1>3. PICK m : m = Mensaje("pide", Pagina(pide.pid, 0), 0, Otro)
  OBVIOUS
<1>4. m \in Mensajes /\ m.op = "pide" /\ m.nodo.pid = pide.pid
  <2>1. Pagina(pide.pid, 0) \in Paginas /\ Pagina(pide.pid, 0).pid = pide.pid
    BY <1>2, PaginaTipo
  <2> QED BY <1>3, <2>1, MensajeTipo, CeldaTipo
<1>5. aMemoria' \in Seq(Mensajes)
  BY <1>1, <1>3, <1>4, EnviaTipo DEF TiposHeap
<1>6. PICK u \in Nat : u = ultimaPagina[pide.pid]
  BY <1>2 DEF TiposHeap
<1>7. ultimaPagina' \in [Pids -> Nat]
  <2>1. PICK v \in Nat : v = ultimaPagina[pide.pid] + 1
    BY <1>6
  <2>2. ultimaPagina' = [ultimaPagina EXCEPT ![pide.pid] = v]
    BY <1>1, <2>1
  <2> QED BY <2>2 DEF TiposHeap
<1>8. pide' \in HilosPide /\ pide'.pc = "reservaPagina" /\ pide'.pid = pide.pid
      /\ pide'.cantidad = pide.cantidad /\ pide'.pagina = u /\ pide'.off = 0
  <2>1. PICK z \in Int : z = 0
    OBVIOUS
  <2>2. pide' = [pide EXCEPT !.pc = "reservaPagina", !.pagina = u, !.off = z]
    BY <1>1, <1>6, <2>1
  <2>3. PICK a : a = [pide EXCEPT !.pc = "reservaPagina", !.pagina = u]
    OBVIOUS
  <2>4. a \in Buscando /\ a.pc = "reservaPagina" /\ a.pid = pide.pid /\ a.cantidad = pide.cantidad
        /\ a.pagina = u
    BY <1>2, <1>6, <2>3 DEF Buscando, PasosPide
  <2>5. pide' = [a EXCEPT !.off = z]
    BY <2>2, <2>3
  <2>6. pide'.pc = "reservaPagina" /\ pide'.pid = a.pid /\ pide'.cantidad = a.cantidad
        /\ pide'.pagina = a.pagina /\ pide'.off = z
    BY <2>4, <2>5 DEF Buscando
  <2>7. pide' \in HilosPide
    BY <2>4, <2>5 DEF Buscando, HilosPide, PasosPide
  <2> QED BY <2>1, <2>4, <2>6, <2>7
<1>9. TiposHeap'
  BY <1>1, <1>5, <1>7, <1>8, TiposQuedan DEF TiposHeap, memoria
<1> QED BY <1>1, <1>2, <1>3, <1>4, <1>6, <1>8, <1>9

LEMMA VaciaTipo == PaginaVacia \in Celdas /\ PaginaVacia.size = MARCOS_SIZE - 1 /\ PaginaVacia.isFree = -1
<1>1. MARCOS_SIZE - 1 \in Int
  BY MarcosAssumption
<1>2. PICK x \in Int : x = MARCOS_SIZE - 1
  BY <1>1
<1>3. PaginaVacia = [isFree |-> -1, size |-> x]
  BY <1>2 DEF PaginaVacia
<1> QED BY <1>2, <1>3, CeldaTipo

LEMMA PideReservadaHace ==
  ASSUME TiposHeap, PideReservada
  PROVE  /\ TiposHeap' /\ pide \in Buscando
         /\ pide.pc = "reservaPagina" /\ sems.reservo > 0 /\ Varia(0, 0, -1) /\ Sigue(pide)
         /\ \/ /\ abortoPorFaltaDeMemoria = 0 /\ pide'.pc = "paginaNueva" /\ UNCHANGED mutexMemoria
               /\ Escritura(Nodo(pide), 0, PaginaVacia) \in Mensajes
               /\ aMemoria' = Append(aMemoria, Escritura(Nodo(pide), 0, PaginaVacia))
            \/ /\ abortoPorFaltaDeMemoria = 1 /\ pide'.pc = "bloque" /\ mutexMemoria' = "nadie"
               /\ UNCHANGED aMemoria
         /\ UNCHANGED <<memoria, estado, bloques, colaHeap, colaLiberaHeap, cuenta, metaDataLeida,
                        libera, listaAdmHeap, ultimaPagina, abortoPorFaltaDeMemoria, fallo, historia>>
<1>1. pide.pc = "reservaPagina" /\ sems.reservo > 0 /\ sems' = [sems EXCEPT !.reservo = @ - 1]
      /\ UNCHANGED <<memoria, estado, bloques, colaHeap, colaLiberaHeap, cuenta, metaDataLeida,
                     libera, listaAdmHeap, ultimaPagina, abortoPorFaltaDeMemoria, fallo, historia>>
  BY DEF PideReservada, programas, admin
<1>2. pide \in Buscando /\ Nodo(pide) \in Paginas
  BY <1>1, HiloTipo, BuscandoTipo DEF TiposHeap
<1>3. Varia(0, 0, -1)
  BY <1>1, SemsVaria DEF TiposHeap
<1>4. CASE abortoPorFaltaDeMemoria = 0
  <2>1. aMemoria' = Append(aMemoria, Escritura(Nodo(pide), 0, PaginaVacia))
        /\ pide' = [pide EXCEPT !.pc = "paginaNueva"] /\ UNCHANGED mutexMemoria
    BY <1>4 DEF PideReservada, Envia
  <2>2. Escritura(Nodo(pide), 0, PaginaVacia) \in Mensajes
    BY <1>2, VaciaTipo, MensajeTipo DEF Escritura
  <2>3. Sigue(pide) /\ pide'.pc = "paginaNueva"
    BY <1>2, <2>1, CambiaPaso DEF PasosPide, EsperaEscritura
  <2>4. aMemoria' \in Seq(Mensajes)
    BY <2>1, <2>2, EnviaTipo DEF TiposHeap
  <2>5. TiposHeap'
    BY <1>1, <1>3, <2>1, <2>3, <2>4, TiposQuedan DEF TiposHeap, memoria, Varia, Sigue
  <2> QED BY <1>1, <1>2, <1>3, <1>4, <2>1, <2>2, <2>3, <2>5
<1>5. CASE abortoPorFaltaDeMemoria = 1
  <2>1. pide' = [pide EXCEPT !.pc = "bloque"] /\ mutexMemoria' = "nadie" /\ UNCHANGED aMemoria
    BY <1>5 DEF PideReservada
  <2>2. Sigue(pide) /\ pide'.pc = "bloque"
    BY <1>2, <2>1, CambiaPaso DEF PasosPide
  <2>3. TiposHeap'
    BY <1>1, <1>3, <2>1, <2>2, TiposQuedan DEF TiposHeap, memoria, Varia, Sigue
  <2> QED BY <1>1, <1>2, <1>3, <1>5, <2>1, <2>2, <2>3
<1> QED BY <1>4, <1>5 DEF TiposHeap

LEMMA PideRegistraHace ==
  ASSUME TiposHeap, PideRegistra
  PROVE  /\ TiposHeap' /\ pide \in Buscando
         /\ pide.pc = "paginaNueva" /\ sems.pagina > 0 /\ Varia(0, -1, 0) /\ Sigue(pide)
         /\ pide'.pc = "bloque" /\ mutexMemoria' = "nadie"
         /\ \E e \in Entradas :
              /\ e.pid = pide.pid /\ e.pagina = pide.pagina /\ e.disponible = MARCOS_SIZE - 1
              /\ listaAdmHeap' = Append(listaAdmHeap, e)
         /\ UNCHANGED <<memoria, estado, bloques, colaHeap, colaLiberaHeap, cuenta, aMemoria, metaDataLeida,
                        libera, ultimaPagina, abortoPorFaltaDeMemoria, fallo, historia>>
<1>1. pide.pc = "paginaNueva" /\ EsperaPagina /\ mutexMemoria' = "nadie"
      /\ pide' = [pide EXCEPT !.pc = "bloque"]
      /\ listaAdmHeap' = Append(listaAdmHeap, [pid |-> pide.pid, pagina |-> pide.pagina,
                                               disponible |-> MARCOS_SIZE - 1])
      /\ UNCHANGED <<memoria, estado, bloques, colaHeap, colaLiberaHeap, cuenta, aMemoria, metaDataLeida,
                     libera, ultimaPagina, abortoPorFaltaDeMemoria, fallo, historia>>
  BY DEF PideRegistra, programas
<1>2. pide \in Buscando /\ pide.pid \in Pids /\ pide.pagina \in Nat
  BY <1>1, HiloTipo, BuscandoTipo DEF TiposHeap
<1>3. sems.pagina > 0 /\ Varia(0, -1, 0)
  BY <1>1, EscrituraRecibida
<1>4. Sigue(pide) /\ pide'.pc = "bloque"
  BY <1>1, <1>2, CambiaPaso DEF PasosPide
<1>5. PICK x \in Int : x = MARCOS_SIZE - 1
  BY MarcosAssumption
<1>6. PICK e : e = [pid |-> pide.pid, pagina |-> pide.pagina, disponible |-> x]
  OBVIOUS
<1>7. e \in Entradas /\ e.pid = pide.pid /\ e.pagina = pide.pagina /\ e.disponible = x
  BY <1>2, <1>6 DEF Entradas
<1>8. listaAdmHeap' = Append(listaAdmHeap, e)
  BY <1>1, <1>5, <1>6
<1>9. listaAdmHeap' \in Seq(Entradas)
  BY <1>7, <1>8, ColaCrece DEF TiposHeap
<1>10. TiposHeap'
  BY <1>1, <1>3, <1>4, <1>9, TiposQuedan DEF TiposHeap, memoria, Varia, Sigue
<1> QED BY <1>1, <1>2, <1>3, <1>4, <1>5, <1>7, <1>8, <1>10

LEMMA PideReservaHace ==
  ASSUME TiposHeap, PideReserva
  PROVE  /\ TiposHeap' /\ pide \in Buscando /\ pide.pc = "bloque"
         /\ \/ /\ abortoPorFaltaDeMemoria = 0
               /\ mutexMemoria = "nadie" /\ mutexMemoria' = "pide"
               /\ Ajusta(listaAdmHeap, listaAdmHeap', EntradaDe(Nodo(pide)), 0 - Ocupa(pide.cantidad))
               /\ Lee(pide, "leeViejo", pide.off) /\ UNCHANGED estado
            \/ /\ abortoPorFaltaDeMemoria = 1
               /\ pide' = Ocioso /\ estado' = [estado EXCEPT ![pide.pid] = "aborta"]
               /\ UNCHANGED <<aMemoria, historia, mutexMemoria, listaAdmHeap>>
         /\ UNCHANGED <<memoria, bloques, colaHeap, colaLiberaHeap, cuenta, metaDataLeida, sems, libera,
                        ultimaPagina, abortoPorFaltaDeMemoria, fallo>>
<1>1. pide.pc = "bloque"
      /\ UNCHANGED <<memoria, bloques, colaHeap, colaLiberaHeap, cuenta, metaDataLeida, sems, libera,
                     ultimaPagina, abortoPorFaltaDeMemoria, fallo>>
  BY DEF PideReserva, respuestas
<1>2. pide \in Buscando /\ pide.off \in Int /\ pide.cantidad \in Nat /\ pide.pid \in Pids
  BY <1>1, HiloTipo, BuscandoTipo DEF TiposHeap
<1>3. CASE abortoPorFaltaDeMemoria = 0
  <2>1. mutexMemoria = "nadie" /\ mutexMemoria' = "pide" /\ UNCHANGED estado
        /\ listaAdmHeap' = [listaAdmHeap EXCEPT
                              ![EntradaDe(Nodo(pide))].disponible = @ - Ocupa(pide.cantidad)]
        /\ PideLee(pide, "leeViejo", pide.off)
    BY <1>3 DEF PideReserva
  <2>2. Lee(pide, "leeViejo", pide.off)
    BY <1>2, <2>1, PideLeeHace DEF PasosPide
  <2>3. PICK x \in Int : x = 0 - Ocupa(pide.cantidad)
    BY <1>2 DEF Ocupa
  <2>4. \A y \in Int : y - Ocupa(pide.cantidad) = y + x
    BY <1>2, <2>3 DEF Ocupa
  <2>5. listaAdmHeap' = [listaAdmHeap EXCEPT ![EntradaDe(Nodo(pide))].disponible = @ + x]
    <3>1. PICK i : i = EntradaDe(Nodo(pide))
      OBVIOUS
    <3>2. listaAdmHeap' = [listaAdmHeap EXCEPT ![i].disponible = @ - Ocupa(pide.cantidad)]
      BY <2>1, <3>1
    <3>3. i \in DOMAIN listaAdmHeap =>
            listaAdmHeap[i].disponible - Ocupa(pide.cantidad) = listaAdmHeap[i].disponible + x
      <4>1. i \in DOMAIN listaAdmHeap => listaAdmHeap[i] \in Entradas
        BY EnLista DEF TiposHeap
      <4>2. i \in DOMAIN listaAdmHeap => listaAdmHeap[i].disponible \in Int
        BY <4>1 DEF Entradas
      <4> QED BY <2>4, <4>2
    <3>4. listaAdmHeap' = [listaAdmHeap EXCEPT ![i].disponible = @ + x]
      BY <3>2, <3>3
    <3> QED BY <3>1, <3>4
  <2>6. listaAdmHeap' \in Seq(Entradas)
        /\ Ajusta(listaAdmHeap, listaAdmHeap', EntradaDe(Nodo(pide)), x)
    BY <2>5, AjustaEntrada DEF TiposHeap
  <2>7. pide' \in HilosPide /\ aMemoria' \in Seq(Mensajes)
    BY <2>2, LeeTipos DEF TiposHeap
  <2>8. TiposHeap'
    BY <1>1, <2>1, <2>6, <2>7, TiposQuedan DEF TiposHeap, memoria
  <2> QED BY <1>1, <1>2, <1>3, <2>1, <2>2, <2>3, <2>6, <2>8
<1>4. CASE abortoPorFaltaDeMemoria = 1
  <2>1. pide' = Ocioso /\ estado' = [estado EXCEPT ![pide.pid] = "aborta"]
        /\ UNCHANGED <<aMemoria, historia, mutexMemoria, listaAdmHeap>>
    BY <1>4 DEF PideReserva, Rechaza
  <2>2. estado' \in [Pids -> Estados]
    BY <2>1 DEF TiposHeap, Estados
  <2>3. TiposHeap'
    BY <1>1, <2>1, <2>2, OciosoTipo, TiposQuedan DEF TiposHeap, memoria
  <2> QED BY <1>1, <1>2, <1>4, <2>1, <2>3
<1> QED BY <1>3, <1>4 DEF TiposHeap

LEMMA PideCabeceraHace ==
  ASSUME TiposHeap, PideCabecera
  PROVE  /\ TiposHeap' /\ pide \in Buscando /\ pide.pc = "leeViejo"
         /\ Varia(-1, 0, 0) /\ sems.meta > 0 /\ metaDataLeida \in Celdas /\ metaDataLeida.size \in Int
         /\ Cabecera(pide) \in Celdas /\ metaDataLeida' = Cabecera(pide)
         /\ Escritura(Nodo(pide), pide.off, Cabecera(pide)) \in Mensajes
         /\ aMemoria' = Append(aMemoria, Escritura(Nodo(pide), pide.off, Cabecera(pide)))
         /\ pide' \in HilosPide /\ pide'.pc = "escribeBloque" /\ pide'.pid = pide.pid
         /\ pide'.cantidad = pide.cantidad /\ pide'.pagina = pide.pagina /\ pide'.off = pide.off
         /\ pide'.size = metaDataLeida.size
         /\ UNCHANGED <<memoria, estado, bloques, colaHeap, colaLiberaHeap, cuenta, mutexMemoria, libera,
                        listaAdmHeap, ultimaPagina, abortoPorFaltaDeMemoria, fallo, historia>>
<1>1. /\ pide.pc = "leeViejo" /\ EsperaMetadata /\ metaDataLeida # Nada
      /\ metaDataLeida' = Cabecera(pide)
      /\ aMemoria' = Append(aMemoria, Escritura(Nodo(pide), pide.off, Cabecera(pide)))
      /\ pide' = [pide EXCEPT !.pc = "escribeBloque", !.size = metaDataLeida.size]
      /\ UNCHANGED <<memoria, estado, bloques, colaHeap, colaLiberaHeap, cuenta, mutexMemoria, libera,
                     listaAdmHeap, ultimaPagina, abortoPorFaltaDeMemoria, fallo, historia>>
  BY DEF PideCabecera, Envia, Cabecera, programas, admin
<1>2. pide \in Buscando /\ pide.off \in Int /\ pide.cantidad \in Nat /\ Nodo(pide) \in Paginas
  BY <1>1, HiloTipo, BuscandoTipo DEF TiposHeap
<1>3. Varia(-1, 0, 0) /\ sems.meta > 0 /\ metaDataLeida \in Celdas /\ metaDataLeida.size \in Int
  BY <1>1, MetadataRecibida
<1>4. Cabecera(pide) \in Celdas
  BY <1>2, CeldaTipo DEF Cabecera
<1>5. Escritura(Nodo(pide), pide.off, Cabecera(pide)) \in Mensajes
  BY <1>2, <1>4, MensajeTipo DEF Escritura
<1>6. aMemoria' \in Seq(Mensajes)
  BY <1>1, <1>5, EnviaTipo DEF TiposHeap
<1>7. PICK z \in Int : z = metaDataLeida.size
  BY <1>3
<1>8. pide' = [pide EXCEPT !.pc = "escribeBloque", !.size = z]
  BY <1>1, <1>7
<1>9. pide' \in HilosPide /\ pide'.pc = "escribeBloque" /\ pide'.pid = pide.pid
      /\ pide'.cantidad = pide.cantidad /\ pide'.pagina = pide.pagina /\ pide'.off = pide.off
      /\ pide'.size = z
  BY <1>2, <1>8 DEF Buscando, HilosPide, PasosPide, EsperaEscritura
<1>10. TiposHeap'
  BY <1>1, <1>3, <1>4, <1>6, <1>9, TiposQuedan DEF TiposHeap, memoria, Varia
<1> QED BY <1>1, <1>2, <1>3, <1>4, <1>5, <1>7, <1>9, <1>10

LEMMA RestoTipo ==
  ASSUME pide \in Buscando
  PROVE  /\ CeldaResto(pide) \in Celdas /\ OffsetResto(pide) \in Int
         /\ CeldaResto(pide).size = pide.size - pide.cantidad - 1 /\ CeldaResto(pide).isFree = -1
<1>1. pide.off \in Int /\ pide.size \in Int /\ pide.cantidad \in Nat
  BY BuscandoTipo
<1>2. PICK x \in Int : x = pide.size - pide.cantidad - 1
  BY <1>1
<1>3. CeldaResto(pide) = [isFree |-> -1, size |-> x]
  BY <1>2 DEF CeldaResto, Resto
<1> QED BY <1>1, <1>2, <1>3, CeldaTipo DEF OffsetResto

LEMMA PideRestoHace ==
  ASSUME TiposHeap, PideResto
  PROVE  /\ TiposHeap' /\ pide \in Buscando /\ pide.pc = "escribeBloque"
         /\ Varia(0, -1, 0) /\ sems.pagina > 0
         /\ metaDataLeida' = CeldaResto(pide)
         /\ Escritura(Nodo(pide), OffsetResto(pide), CeldaResto(pide)) \in Mensajes
         /\ aMemoria' = Append(aMemoria, Escritura(Nodo(pide), OffsetResto(pide), CeldaResto(pide)))
         /\ Sigue(pide) /\ pide'.pc = "escribeResto"
         /\ UNCHANGED <<memoria, estado, bloques, colaHeap, colaLiberaHeap, cuenta, mutexMemoria, libera,
                        listaAdmHeap, ultimaPagina, abortoPorFaltaDeMemoria, fallo, historia>>
<1>1. /\ pide.pc = "escribeBloque" /\ EsperaPagina
      /\ metaDataLeida' = CeldaResto(pide)
      /\ aMemoria' = Append(aMemoria, Escritura(Nodo(pide), OffsetResto(pide), CeldaResto(pide)))
      /\ pide' = [pide EXCEPT !.pc = "escribeResto"]
      /\ UNCHANGED <<memoria, estado, bloques, colaHeap, colaLiberaHeap, cuenta, mutexMemoria, libera,
                     listaAdmHeap, ultimaPagina, abortoPorFaltaDeMemoria, fallo, historia>>
  BY DEF PideResto, Envia, CeldaResto, OffsetResto, programas, admin
<1>2. pide \in Buscando /\ Nodo(pide) \in Paginas
  BY <1>1, HiloTipo, BuscandoTipo DEF TiposHeap
<1>3. Varia(0, -1, 0) /\ sems.pagina > 0
  BY <1>1, EscrituraRecibida
<1>4. CeldaResto(pide) \in Celdas /\ Escritura(Nodo(pide), OffsetResto(pide), CeldaResto(pide)) \in Mensajes
  BY <1>2, RestoTipo, MensajeTipo DEF Escritura
<1>5. aMemoria' \in Seq(Mensajes)
  BY <1>1, <1>4, EnviaTipo DEF TiposHeap
<1>6. Sigue(pide) /\ pide'.pc = "escribeResto"
  BY <1>1, <1>2, CambiaPaso DEF PasosPide, EsperaEscritura
<1>7. TiposHeap'
  BY <1>1, <1>3, <1>4, <1>5, <1>6, TiposQuedan DEF TiposHeap, memoria, Varia, Sigue
<1> QED BY <1>1, <1>2, <1>3, <1>4, <1>6, <1>7

\* The block that procesarHeap gives.
Dado == [pid |-> pide.pid, pagina |-> pide.pagina, offset |-> pide.off, size |-> pide.cantidad]

LEMMA PideTerminaHace ==
  ASSUME TiposHeap, PideTermina
  PROVE  /\ TiposHeap' /\ pide \in Buscando /\ pide.pc = "escribeResto"
         /\ Varia(0, -1, 0) /\ sems.pagina > 0
         /\ metaDataLeida' = Nada /\ mutexMemoria' = "nadie" /\ pide' = Ocioso
         /\ estado' = [estado EXCEPT ![pide.pid] = "corre"]
         /\ Dado \in Bloques /\ bloques' = bloques \cup {Dado}
         /\ UNCHANGED <<memoria, colaHeap, colaLiberaHeap, cuenta, aMemoria, libera, listaAdmHeap,
                        ultimaPagina, abortoPorFaltaDeMemoria, fallo, historia>>
<1>1. /\ pide.pc = "escribeResto" /\ EsperaPagina
      /\ metaDataLeida' = Nada /\ mutexMemoria' = "nadie" /\ pide' = Ocioso
      /\ estado' = [estado EXCEPT ![pide.pid] = "corre"]
      /\ bloques' = bloques \cup {Dado}
      /\ UNCHANGED <<memoria, colaHeap, colaLiberaHeap, cuenta, aMemoria, libera, listaAdmHeap,
                     ultimaPagina, abortoPorFaltaDeMemoria, fallo, historia>>
  BY DEF PideTermina, Dado, admin
<1>2. pide \in Buscando /\ pide.pid \in Pids /\ pide.pagina \in Nat /\ pide.off \in Int /\ pide.cantidad \in Nat
  BY <1>1, HiloTipo, BuscandoTipo DEF TiposHeap
<1>3. Varia(0, -1, 0) /\ sems.pagina > 0
  BY <1>1, EscrituraRecibida
<1>4. Dado \in Bloques
  BY <1>2 DEF Dado, Bloques
<1>5. estado' \in [Pids -> Estados]
  BY <1>1 DEF TiposHeap, Estados
<1>6. bloques' \subseteq Bloques
  BY <1>1, <1>4 DEF TiposHeap
<1>7. TiposHeap'
  BY <1>1, <1>3, <1>5, <1>6, OciosoTipo, TiposQuedan DEF TiposHeap, memoria, Varia
<1> QED BY <1>1, <1>2, <1>3, <1>4, <1>7

-----------------------------------------------------------------------------
(* The thread of liberarHeap.                                               *)

Liberador == [pc : {"lee", "leido", "escribe", "escrito"}, b : Bloques, size : Int]

LEMMA BloqueTipo ==
  ASSUME NEW b \in Bloques
  PROVE  /\ b.pid \in Pids /\ b.pagina \in Nat /\ b.offset \in Int /\ b.size \in Nat
         /\ PaginaDe(b) \in Paginas /\ PaginaDe(b) = Pagina(b.pid, b.pagina)
  BY DEF Bloques, PaginaDe, Pagina, Paginas

LEMMA LiberaTipo ==
  ASSUME libera \in HilosLibera, libera.pc # "espera"
  PROVE  libera \in Liberador /\ libera.b \in Bloques /\ libera.size \in Int
         /\ libera.pc \in {"lee", "leido", "escribe", "escrito"}
  BY DEF HilosLibera, Ocioso, Liberador

LEMMA LiberaTomaHace ==
  ASSUME TiposHeap, LiberaToma
  PROVE  /\ TiposHeap'
         /\ libera.pc = "espera" /\ colaLiberaHeap # <<>> /\ colaLiberaHeap' = Tail(colaLiberaHeap)
         /\ mutexMemoria = "nadie" /\ mutexMemoria' = "libera"
         /\ Head(colaLiberaHeap) \in Bloques
         /\ libera' \in Liberador /\ libera'.pc = "lee" /\ libera'.b = Head(colaLiberaHeap)
         /\ \E m \in Mensajes :
              /\ m = Lectura(PaginaDe(Head(colaLiberaHeap)), Head(colaLiberaHeap).offset)
              /\ aMemoria' = Append(aMemoria, m)
         /\ historia' = historia \cup Solapa(pide)
         /\ UNCHANGED <<memoria, estado, bloques, colaHeap, cuenta, metaDataLeida, sems, pide,
                        listaAdmHeap, ultimaPagina, abortoPorFaltaDeMemoria, fallo>>
<1>1. /\ libera.pc = "espera" /\ colaLiberaHeap # <<>> /\ colaLiberaHeap' = Tail(colaLiberaHeap)
      /\ mutexMemoria = "nadie" /\ mutexMemoria' = "libera"
      /\ historia' = historia \cup Solapa(pide)
      /\ UNCHANGED <<memoria, estado, bloques, colaHeap, cuenta, metaDataLeida, sems, pide,
                     listaAdmHeap, ultimaPagina, abortoPorFaltaDeMemoria, fallo>>
  BY DEF LiberaToma, Historia, respuestas, admin
<1>2. PICK b : b = Head(colaLiberaHeap)
  OBVIOUS
<1>3. libera' = [pc |-> "lee", b |-> b, size |-> 0]
      /\ aMemoria' = Append(aMemoria, Lectura(PaginaDe(b), b.offset))
  BY <1>2 DEF LiberaToma, Envia, PaginaDe
<1>4. b \in Bloques /\ colaLiberaHeap' \in Seq(Bloques)
  BY <1>1, <1>2, ColaMengua DEF TiposHeap
<1>5. libera' \in Liberador /\ libera'.pc = "lee" /\ libera'.b = b
  BY <1>3, <1>4 DEF Liberador
<1>6. Lectura(PaginaDe(b), b.offset) \in Mensajes
  BY <1>4, BloqueTipo, MensajeTipo, CeldaTipo DEF Lectura
<1>7. aMemoria' \in Seq(Mensajes)
  BY <1>3, <1>6, EnviaTipo DEF TiposHeap
<1>8. TiposHeap'
  BY <1>1, <1>4, <1>5, <1>7, TiposQuedan DEF TiposHeap, memoria, HilosLibera, Liberador
<1> QED BY <1>1, <1>2, <1>3, <1>4, <1>5, <1>6, <1>8

\* All but the step and the size is as it was.
SigueLiberando(pc) ==
  libera \in Liberador /\ libera' \in Liberador /\ libera'.pc = pc /\ libera'.b = libera.b

LEMMA LiberaLeeHace ==
  ASSUME TiposHeap, LiberaLee
  PROVE  /\ TiposHeap' /\ libera.pc = "lee" /\ Varia(-1, 0, 0) /\ sems.meta > 0
         /\ metaDataLeida \in Celdas /\ metaDataLeida' = Nada /\ mutexMemoria' = "nadie"
         /\ SigueLiberando("leido") /\ libera'.size = metaDataLeida.size
         /\ UNCHANGED <<memoria, estado, bloques, colaHeap, colaLiberaHeap, cuenta, aMemoria, pide,
                        listaAdmHeap, ultimaPagina, abortoPorFaltaDeMemoria, fallo, historia>>
<1>1. /\ libera.pc = "lee" /\ EsperaMetadata /\ metaDataLeida # Nada
      /\ metaDataLeida' = Nada /\ mutexMemoria' = "nadie"
      /\ libera' = [libera EXCEPT !.pc = "leido", !.size = metaDataLeida.size]
      /\ UNCHANGED <<memoria, estado, bloques, colaHeap, colaLiberaHeap, cuenta, aMemoria, pide,
                     listaAdmHeap, ultimaPagina, abortoPorFaltaDeMemoria, fallo, historia>>
  BY DEF LiberaLee, programas, admin
<1>2. libera \in Liberador
  BY <1>1, LiberaTipo DEF TiposHeap
<1>3. Varia(-1, 0, 0) /\ sems.meta > 0 /\ metaDataLeida \in Celdas /\ metaDataLeida.size \in Int
  BY <1>1, MetadataRecibida
<1>4. PICK z \in Int : z = metaDataLeida.size
  BY <1>3
<1>5. SigueLiberando("leido") /\ libera'.size = z
  BY <1>1, <1>2, <1>4 DEF Liberador, SigueLiberando
<1>6. TiposHeap'
  BY <1>1, <1>3, <1>5, TiposQuedan DEF TiposHeap, memoria, HilosLibera, Liberador, SigueLiberando, Varia
<1> QED BY <1>1, <1>3, <1>4, <1>5, <1>6

\* The writing that frees a block.
Marca == Escritura(PaginaDe(libera.b), libera.b.offset, [isFree |-> -1, size |-> libera.size])

LEMMA LiberaEscribeHace ==
  ASSUME TiposHeap, LiberaEscribe
  PROVE  /\ TiposHeap' /\ libera.pc = "leido" /\ mutexMemoria = "nadie" /\ mutexMemoria' = "libera"
         /\ SigueLiberando("escribe") /\ libera'.size = libera.size
         /\ Marca \in Mensajes /\ aMemoria' = Append(aMemoria, Marca)
         /\ UNCHANGED <<memoria, estado, bloques, colaHeap, colaLiberaHeap, cuenta, metaDataLeida, sems,
                        pide, listaAdmHeap, ultimaPagina, abortoPorFaltaDeMemoria, fallo, historia>>
<1>1. /\ libera.pc = "leido" /\ mutexMemoria = "nadie" /\ mutexMemoria' = "libera"
      /\ libera' = [libera EXCEPT !.pc = "escribe"]
      /\ aMemoria' = Append(aMemoria, Marca)
      /\ UNCHANGED <<memoria, estado, bloques, colaHeap, colaLiberaHeap, cuenta, metaDataLeida, sems,
                     pide, listaAdmHeap, ultimaPagina, abortoPorFaltaDeMemoria, fallo, historia>>
  BY DEF LiberaEscribe, Marca, Envia, PaginaDe, programas, respuestas, admin
<1>2. libera \in Liberador /\ libera.b \in Bloques /\ libera.size \in Int
  BY <1>1, LiberaTipo DEF TiposHeap
<1>3. Marca \in Mensajes
  <2>1. PICK c : c = [isFree |-> -1, size |-> libera.size]
    OBVIOUS
  <2>2. c \in Celdas
    BY <1>2, <2>1, CeldaTipo
  <2>3. PaginaDe(libera.b) \in Paginas /\ libera.b.offset \in Int
    BY <1>2, BloqueTipo
  <2>4. Marca = Mensaje("escribe", PaginaDe(libera.b), libera.b.offset, c)
    BY <2>1 DEF Marca, Escritura
  <2> QED BY <2>2, <2>3, <2>4, MensajeTipo
<1>4. SigueLiberando("escribe") /\ libera'.size = libera.size
  BY <1>1, <1>2 DEF Liberador, SigueLiberando
<1>5. aMemoria' \in Seq(Mensajes)
  BY <1>1, <1>3, EnviaTipo DEF TiposHeap
<1>6. TiposHeap'
  BY <1>1, <1>4, <1>5, TiposQuedan DEF TiposHeap, memoria, HilosLibera, Liberador, SigueLiberando
<1> QED BY <1>1, <1>3, <1>4, <1>6

LEMMA LiberaEscritoHace ==
  ASSUME TiposHeap, LiberaEscrito
  PROVE  /\ TiposHeap' /\ libera.pc = "escribe" /\ Varia(0, -1, 0) /\ sems.pagina > 0
         /\ mutexMemoria' = "nadie"
         /\ SigueLiberando("escrito") /\ libera'.size = libera.size
         /\ UNCHANGED <<memoria, estado, bloques, colaHeap, colaLiberaHeap, cuenta, aMemoria, metaDataLeida,
                        pide, listaAdmHeap, ultimaPagina, abortoPorFaltaDeMemoria, fallo, historia>>
<1>1. /\ libera.pc = "escribe" /\ EsperaPagina /\ mutexMemoria' = "nadie"
      /\ libera' = [libera EXCEPT !.pc = "escrito"]
      /\ UNCHANGED <<memoria, estado, bloques, colaHeap, colaLiberaHeap, cuenta, aMemoria, metaDataLeida,
                     pide, listaAdmHeap, ultimaPagina, abortoPorFaltaDeMemoria, fallo, historia>>
  BY DEF LiberaEscrito, programas, admin
<1>2. libera \in Liberador
  BY <1>1, LiberaTipo DEF TiposHeap
<1>3. Varia(0, -1, 0) /\ sems.pagina > 0
  BY <1>1, EscrituraRecibida
<1>4. SigueLiberando("escrito") /\ libera'.size = libera.size
  BY <1>1, <1>2 DEF Liberador, SigueLiberando
<1>5. TiposHeap'
  BY <1>1, <1>3, <1>4, TiposQuedan DEF TiposHeap, memoria, HilosLibera, Liberador, SigueLiberando, Varia
<1> QED BY <1>1, <1>3, <1>4, <1>5

LEMMA LiberaListaHace ==
  ASSUME TiposHeap, LiberaLista
  PROVE  /\ TiposHeap' /\ libera.pc = "escrito" /\ ~PideTieneLista
         /\ libera \in Liberador /\ libera' = Ocioso
         /\ Ajusta(listaAdmHeap, listaAdmHeap', EntradaDe(PaginaDe(libera.b)), libera.size)
         /\ estado' = [estado EXCEPT ![libera.b.pid] = "corre"]
         /\ UNCHANGED <<memoria, bloques, colaHeap, colaLiberaHeap, cuenta, aMemoria, metaDataLeida, sems,
                        mutexMemoria, pide, ultimaPagina, abortoPorFaltaDeMemoria, fallo, historia>>
<1>1. /\ libera.pc = "escrito" /\ ~PideTieneLista /\ libera' = Ocioso
      /\ listaAdmHeap' = [listaAdmHeap EXCEPT ![EntradaDe(PaginaDe(libera.b))].disponible = @ + libera.size]
      /\ estado' = [estado EXCEPT ![libera.b.pid] = "corre"]
      /\ UNCHANGED <<memoria, bloques, colaHeap, colaLiberaHeap, cuenta, aMemoria, metaDataLeida, sems,
                     mutexMemoria, pide, ultimaPagina, abortoPorFaltaDeMemoria, fallo, historia>>
  BY DEF LiberaLista, PaginaDe, respuestas
<1>2. libera \in Liberador /\ libera.size \in Int
  BY <1>1, LiberaTipo DEF TiposHeap
<1>3. listaAdmHeap' \in Seq(Entradas)
      /\ Ajusta(listaAdmHeap, listaAdmHeap', EntradaDe(PaginaDe(libera.b)), libera.size)
  BY <1>1, <1>2, AjustaEntrada DEF TiposHeap
<1>4. estado' \in [Pids -> Estados]
  BY <1>1 DEF TiposHeap, Estados
<1>5. TiposHeap'
  BY <1>1, <1>3, <1>4, OciosoTipo, TiposQuedan DEF TiposHeap, memoria
<1> QED BY <1>1, <1>2, <1>3, <1>5

LEMMA UsaLiberadaHace ==
  ASSUME TiposHeap, UsaLiberada
  PROVE  /\ TiposHeap' /\ fallo' = "ub" /\ Varia(-1, 0, 0) /\ sems.meta > 0 /\ metaDataLeida = Nada
         /\ LeyendoMetadata(pide) \/ LeyendoMetadata(libera)
         /\ UNCHANGED historia
<1>1. fallo' = "ub" /\ EsperaMetadata /\ metaDataLeida = Nada
      /\ (LeyendoMetadata(pide) \/ LeyendoMetadata(libera))
      /\ UNCHANGED <<memoria, estado, bloques, colaHeap, colaLiberaHeap, aMemoria, metaDataLeida, mutexMemoria,
                     pide, libera, listaAdmHeap, ultimaPagina, abortoPorFaltaDeMemoria, historia>>
  BY DEF UsaLiberada, programas, admin
<1>2. Varia(-1, 0, 0) /\ sems.meta > 0
  BY <1>1, SemsVaria DEF EsperaMetadata, TiposHeap
<1>3. TiposHeap'
  BY <1>1, <1>2, TiposQuedan DEF TiposHeap, memoria, Varia
<1> QED BY <1>1, <1>2, <1>3

LEMMA TiposQuietos ==
  ASSUME TiposHeap, UNCHANGED vars
  PROVE  TiposHeap'
  BY DEF TiposHeap, vars, memoria, programas, respuestas, admin

LEMMA TiposPaso ==
  ASSUME TiposHeap, [NextHeap]_vars
  PROVE  TiposHeap'
<1>1. CASE Programas
  BY <1>1, TiposProgramas
<1>2. CASE Contesta
  BY <1>2, TiposContesta
<1>3. CASE ProcesarHeap
  <2>1. PideActual => TiposHeap'
    BY PideActualHace
  <2>2. PideSiguiente => TiposHeap'
    BY PideSiguienteHace
  <2>3. PideBloque => TiposHeap'
    BY PideBloqueHace
  <2> QED BY <1>3, <2>1, <2>2, <2>3, PideTomaHace, PideCompactadoHace, PidePaginaHace,
             PideReservadaHace, PideRegistraHace, PideReservaHace, PideCabeceraHace,
             PideRestoHace, PideTerminaHace DEF ProcesarHeap
<1>4. CASE LiberarHeap
  BY <1>4, LiberaTomaHace, LiberaLeeHace, LiberaEscribeHace, LiberaEscritoHace, LiberaListaHace
     DEF LiberarHeap
<1>5. CASE UsaLiberada
  BY <1>5, UsaLiberadaHace
<1> QED BY <1>1, <1>2, <1>3, <1>4, <1>5, TiposQuietos DEF NextHeap

LEMMA TiposInicio == InitHeap => TiposHeap
<1> SUFFICES ASSUME InitHeap PROVE TiposHeap
  OBVIOUS
<1>1. estado \in [Pids -> Estados] /\ bloques \subseteq Bloques
  BY DEF InitHeap, Estados
<1>2. <<>> \in Seq(Pedidos) /\ <<>> \in Seq(Bloques) /\ <<>> \in Seq(Mensajes) /\ <<>> \in Seq(Entradas)
  OBVIOUS
<1>3. DOMAIN contenido = {}
  BY DEF InitHeap, InitMemoria
<1>4. sems \in [meta : Nat, pagina : Nat, reservo : Nat]
  BY DEF InitHeap
<1>5. ultimaPagina \in [Pids -> Nat]
  BY PaginasSupuesto DEF InitHeap
<1> QED BY <1>1, <1>2, <1>3, <1>4, <1>5, OciosoTipo DEF InitHeap, TiposHeap

-----------------------------------------------------------------------------
(* The threads and the programs that wait for them.                         *)

\* The programs that wait, of each place.
LEMMA LugaresTipos ==
  ASSUME TiposHeap
  PROVE  /\ EnCola(colaHeap) \subseteq Pids /\ EnCola(colaLiberaHeap) \subseteq Pids
         /\ Pidiendo \subseteq Pids /\ Liberando \subseteq Pids
<1>1. \A i \in DOMAIN colaHeap : colaHeap[i] \in Pedidos
  BY EnLista DEF TiposHeap
<1>2. \A i \in DOMAIN colaLiberaHeap : colaLiberaHeap[i] \in Bloques
  BY EnLista DEF TiposHeap
<1>3. pide.pc # "espera" => pide.pid \in Pids
  BY HiloTipo, BuscandoTipo DEF TiposHeap
<1>4. libera.pc # "espera" => libera.b.pid \in Pids
  BY LiberaTipo, BloqueTipo DEF TiposHeap
<1> QED BY <1>1, <1>2, <1>3, <1>4 DEF EnCola, Pidiendo, Liberando, Pedidos, Bloques

\* The places stay, and no program that waits changes.
LEMMA LugaresQuedan ==
  ASSUME Lugares, UNCHANGED <<colaHeap, colaLiberaHeap>>, Pidiendo' = Pidiendo, Liberando' = Liberando,
         \A q \in Pids : estado[q] = "espera" => estado'[q] = "espera", TiposHeap
  PROVE  Lugares'
<1>1. \A q \in EnCola(colaHeap) \cup EnCola(colaLiberaHeap) \cup Pidiendo \cup Liberando : q \in Pids
  BY LugaresTipos
<1>2. EnCola(colaHeap)' = EnCola(colaHeap) /\ EnCola(colaLiberaHeap)' = EnCola(colaLiberaHeap)
      /\ SinRepetidos(colaHeap)' /\ SinRepetidos(colaLiberaHeap)'
  BY DEF Lugares
<1>3. \A q \in EnCola(colaHeap) \cup EnCola(colaLiberaHeap) \cup Pidiendo \cup Liberando :
        estado'[q] = "espera"
  BY <1>1 DEF Lugares
<1> QED BY <1>2, <1>3 DEF Lugares

\* A program is taken from where it waits.
LEMMA LugaresSale ==
  ASSUME Lugares, TiposHeap, NEW p \in Pids, NEW e \in Estados, estado' = [estado EXCEPT ![p] = e],
         EnCola(colaHeap)' \subseteq EnCola(colaHeap), EnCola(colaLiberaHeap)' \subseteq EnCola(colaLiberaHeap),
         Pidiendo' \subseteq Pidiendo, Liberando' \subseteq Liberando,
         p \notin EnCola(colaHeap)' \cup EnCola(colaLiberaHeap)' \cup Pidiendo' \cup Liberando',
         SinRepetidos(colaHeap)', SinRepetidos(colaLiberaHeap)'
  PROVE  Lugares'
<1>1. \A q \in Pids \ {p} : estado'[q] = estado[q]
  BY EstadoCambia DEF TiposHeap
<1>2. \A q \in EnCola(colaHeap)' \cup EnCola(colaLiberaHeap)' \cup Pidiendo' \cup Liberando' :
        q \in Pids \ {p} /\ estado[q] = "espera"
  BY LugaresTipos DEF Lugares
<1>3. \A q \in EnCola(colaHeap)' \cup EnCola(colaLiberaHeap)' \cup Pidiendo' \cup Liberando' :
        estado'[q] = "espera"
  BY <1>1, <1>2
<1>4. /\ EnCola(colaHeap)' \cap EnCola(colaLiberaHeap)' = {}
      /\ (EnCola(colaHeap)' \cup EnCola(colaLiberaHeap)') \cap (Pidiendo' \cup Liberando') = {}
      /\ Pidiendo' \cap Liberando' = {}
  BY DEF Lugares
<1> QED BY <1>3, <1>4 DEF Lugares

LEMMA LugaresProgramas ==
  ASSUME TiposHeap, Lugares, Programas
  PROVE  Lugares'
<1>1. ASSUME NEW p \in Pids, Llega(p) \/ Termina(p) PROVE Lugares'
  <2>1. /\ estado[p] # "espera"
        /\ estado' = [estado EXCEPT ![p] = "carga"] \/ estado' = [estado EXCEPT ![p] = "fin"]
        /\ UNCHANGED <<colaHeap, colaLiberaHeap, pide, libera>>
    BY <1>1 DEF Llega, Termina
  <2>2. \A q \in Pids : estado[q] = "espera" => estado'[q] = "espera"
    BY <2>1 DEF TiposHeap
  <2> QED BY <2>1, <2>2, LugaresQuedan DEF Pidiendo, Liberando
<1>2. ASSUME NEW p \in Pids, NEW n \in Tamanos, Reserva(p, n) PROVE Lugares'
  <2>1. PICK r : r = [pid |-> p, cantidad |-> n]
    OBVIOUS
  <2>2. estado[p] = "corre" /\ colaHeap' = Append(colaHeap, r) /\ estado' = [estado EXCEPT ![p] = "espera"]
        /\ UNCHANGED <<colaLiberaHeap, pide, libera>>
    BY <1>2, <2>1 DEF Reserva
  <2>3. r \in Pedidos /\ r.pid = p
    BY <2>1, TamanosSupuesto DEF Pedidos
  <2>4. Crecio(colaHeap, r, colaHeap')
    BY <2>2, <2>3, ColaCrece DEF TiposHeap
  <2>5. p \notin EnCola(colaHeap) \cup EnCola(colaLiberaHeap) \cup Pidiendo \cup Liberando
    BY <2>2 DEF Lugares
  <2>6. EnCola(colaHeap)' = EnCola(colaHeap) \cup {p} /\ SinRepetidos(colaHeap)'
    BY <2>3, <2>4, <2>5, EncoladosCrecen DEF Lugares
  <2>7. EnCola(colaLiberaHeap)' = EnCola(colaLiberaHeap) /\ Pidiendo' = Pidiendo /\ Liberando' = Liberando
        /\ SinRepetidos(colaLiberaHeap)'
    BY <2>2 DEF Lugares, Pidiendo, Liberando
  <2>8. \A q \in Pids : q = p \/ estado[q] = "espera" => estado'[q] = "espera"
    BY <2>2 DEF TiposHeap
  <2>9. \A q \in EnCola(colaHeap)' \cup EnCola(colaLiberaHeap)' \cup Pidiendo' \cup Liberando' :
          estado'[q] = "espera"
    BY <2>6, <2>7, <2>8, LugaresTipos DEF Lugares
  <2> QED BY <2>5, <2>6, <2>7, <2>9 DEF Lugares
<1>3. ASSUME NEW b \in bloques, Libera(b) PROVE Lugares'
  <2>1. b \in Bloques /\ b.pid \in Pids
    BY BloqueTipo DEF TiposHeap
  <2>2. estado[b.pid] = "corre" /\ colaLiberaHeap' = Append(colaLiberaHeap, b)
        /\ estado' = [estado EXCEPT ![b.pid] = "espera"]
        /\ UNCHANGED <<colaHeap, pide, libera>>
    BY <1>3 DEF Libera
  <2>3. PICK p \in Pids : p = b.pid
    BY <2>1
  <2>4. Crecio(colaLiberaHeap, b, colaLiberaHeap')
    BY <2>1, <2>2, ColaCrece DEF TiposHeap
  <2>5. p \notin EnCola(colaHeap) \cup EnCola(colaLiberaHeap) \cup Pidiendo \cup Liberando
    BY <2>2, <2>3 DEF Lugares
  <2>6. EnCola(colaLiberaHeap)' = EnCola(colaLiberaHeap) \cup {p} /\ SinRepetidos(colaLiberaHeap)'
    BY <2>3, <2>4, <2>5, EncoladosCrecen DEF Lugares
  <2>7. EnCola(colaHeap)' = EnCola(colaHeap) /\ Pidiendo' = Pidiendo /\ Liberando' = Liberando
        /\ SinRepetidos(colaHeap)'
    BY <2>2 DEF Lugares, Pidiendo, Liberando
  <2>8. \A q \in Pids : q = p \/ estado[q] = "espera" => estado'[q] = "espera"
    BY <2>2, <2>3 DEF TiposHeap
  <2>9. \A q \in EnCola(colaHeap)' \cup EnCola(colaLiberaHeap)' \cup Pidiendo' \cup Liberando' :
          estado'[q] = "espera"
    BY <2>6, <2>7, <2>8, LugaresTipos DEF Lugares
  <2> QED BY <2>5, <2>6, <2>7, <2>9 DEF Lugares
<1> QED BY <1>1, <1>2, <1>3 DEF Programas

LEMMA LugaresContesta ==
  ASSUME TiposHeap, Lugares, Cargas, Contesta
  PROVE  Lugares'
<1>1. UNCHANGED <<pide, libera>> /\ aMemoria # <<>> /\ aMemoria' = Tail(aMemoria)
  BY ContestaEs
<1>2. Primero \in Mensajes /\ 1 \in DOMAIN aMemoria /\ aMemoria[1] = Primero
  BY <1>1, PrimeroTipo
<1>3. UNCHANGED <<colaHeap, colaLiberaHeap>> /\ (UNCHANGED estado \/ CInicia)
  BY ContestaEs DEF CInicia, Inicia, CPide, Asigna, CLee, CEscribe, CLibera, CRompe, Rompe, programas
<1>4. \A q \in Pids : estado[q] = "espera" => estado'[q] = "espera"
  <2>1. CASE UNCHANGED estado
    BY <2>1
  <2>2. CASE CInicia
    <3>1. PICK p : p = Primero.nodo.pid
      OBVIOUS
    <3>2. estado' = [estado EXCEPT ![p] = "corre"] /\ Primero.op = "inicia"
      BY <2>2, <3>1 DEF CInicia, Inicia
    <3>3. estado[p] = "carga"
      BY <1>2, <3>1, <3>2 DEF Cargas
    <3> QED BY <3>2, <3>3 DEF TiposHeap
  <2> QED BY <1>3, <2>1, <2>2
<1> QED BY <1>1, <1>3, <1>4, LugaresQuedan DEF Pidiendo, Liberando

\* procesarHeap goes on with the same program.
LEMMA EmpiezaSigue ==
  ASSUME NEW h, EmpiezaPagina(h)
  PROVE  pide'.pid = h.pid /\ pide'.cantidad = h.cantidad /\ pide'.pc \in {"leeActual", "leeBloque"}
  BY DEF EmpiezaPagina, Lee, Sigue

LEMMA VerificaSigue ==
  ASSUME NEW h, Verifica(h)
  PROVE  pide'.pid = h.pid /\ pide'.cantidad = h.cantidad /\ pide'.pc \in {"leeActual", "leeBloque", "sinLugar"}
  BY EmpiezaSigue DEF Verifica, Sigue

\* The steps of procesarHeap that keep its program.
LEMMA MismoPrograma ==
  ASSUME TiposHeap,
         \/ PideActual \/ PideSiguiente \/ PideCompactado \/ PideBloque \/ PidePagina
         \/ PideReservada \/ PideRegistra \/ PideCabecera \/ PideResto
  PROVE  /\ Pidiendo' = Pidiendo /\ UNCHANGED <<colaHeap, colaLiberaHeap, estado, libera>>
         /\ pide'.pid = pide.pid /\ pide'.cantidad = pide.cantidad /\ pide'.pc # "espera" /\ pide.pc # "espera"
<1>1. CASE PideActual
  <2>1. PideRecibe("leeActual") /\ "leeActual" \in PasosPide
    BY <1>1 DEF PideActual, PasosPide
  <2>2. pide'.pid = pide.pid /\ pide'.cantidad = pide.cantidad /\ pide'.pc = "leeSiguiente"
    BY <1>1, PideActualHace DEF Lee, Sigue
  <2> QED BY <2>1, <2>2, PideRecibeHace DEF Pidiendo
<1>2. CASE PideSiguiente
  <2>1. PideRecibe("leeSiguiente") /\ "leeSiguiente" \in PasosPide
    BY <1>2 DEF PideSiguiente, PasosPide
  <2>2. pide'.pid = pide.pid /\ pide'.cantidad = pide.cantidad /\ pide'.pc # "espera"
    BY <1>2, PideSiguienteHace, EmpiezaSigue
  <2> QED BY <2>1, <2>2, PideRecibeHace DEF Pidiendo
<1>3. CASE PideCompactado
  BY <1>3, PideCompactadoHace, EmpiezaSigue DEF Pidiendo
<1>4. CASE PideBloque
  <2>1. PideRecibe("leeBloque") /\ "leeBloque" \in PasosPide
    BY <1>4 DEF PideBloque, PasosPide
  <2>2. pide'.pid = pide.pid /\ pide'.cantidad = pide.cantidad /\ pide'.pc # "espera"
    BY <1>4, PideBloqueHace, VerificaSigue DEF Lee, Sigue
  <2> QED BY <2>1, <2>2, PideRecibeHace DEF Pidiendo
<1>5. CASE PidePagina
  BY <1>5, PidePaginaHace DEF Pidiendo
<1>6. CASE PideReservada
  BY <1>6, PideReservadaHace DEF Pidiendo, Sigue
<1>7. CASE PideRegistra
  BY <1>7, PideRegistraHace DEF Pidiendo, Sigue
<1>8. CASE PideCabecera
  BY <1>8, PideCabeceraHace DEF Pidiendo
<1>9. CASE PideResto
  BY <1>9, PideRestoHace DEF Pidiendo, Sigue
<1> QED BY <1>1, <1>2, <1>3, <1>4, <1>5, <1>6, <1>7, <1>8, <1>9

LEMMA LugaresPide ==
  ASSUME TiposHeap, Lugares, ProcesarHeap
  PROVE  Lugares'
<1>1. CASE PideToma
  <2>1. /\ pide.pc = "espera" /\ colaHeap # <<>> /\ colaHeap' = Tail(colaHeap) /\ Head(colaHeap) \in Pedidos
        /\ UNCHANGED <<colaLiberaHeap, libera>>
    BY <1>1, PideTomaHace
  <2>2. PICK p \in Pids : p = Head(colaHeap).pid
    BY <2>1 DEF Pedidos
  <2>3. Menguo(colaHeap, colaHeap')
    BY <2>1, ColaMengua DEF TiposHeap
  <2>4. EnCola(colaHeap)' = EnCola(colaHeap) \ {p} /\ p \in EnCola(colaHeap) /\ SinRepetidos(colaHeap)'
    BY <2>2, <2>3, EncoladosMenguan DEF Lugares
  <2>5. EnCola(colaLiberaHeap)' = EnCola(colaLiberaHeap) /\ Liberando' = Liberando
        /\ SinRepetidos(colaLiberaHeap)' /\ Pidiendo = {}
    BY <2>1 DEF Lugares, Pidiendo, Liberando
  <2>6. estado[p] = "espera" /\ p \notin EnCola(colaLiberaHeap) \cup Liberando
    BY <2>4 DEF Lugares
  <2>7. CASE pide' = Ocioso /\ estado' = [estado EXCEPT ![p] = "aborta"]
    <3>1. Pidiendo' = {}
      BY <2>7, OciosoTipo DEF Pidiendo
    <3> QED BY <2>4, <2>5, <2>6, <2>7, <3>1, LugaresSale DEF Estados
  <2>8. CASE (\E h : PedidoNuevo(h) /\ Verifica(h)) /\ UNCHANGED estado
    <3>1. pide'.pid = p /\ pide'.pc # "espera"
      BY <2>2, <2>8, VerificaSigue DEF PedidoNuevo
    <3>2. Pidiendo' = {p}
      BY <3>1 DEF Pidiendo
    <3>3. \A q \in EnCola(colaHeap)' \cup EnCola(colaLiberaHeap)' \cup Pidiendo' \cup Liberando' :
            estado'[q] = "espera"
      BY <2>4, <2>5, <2>6, <2>8, <3>2 DEF Lugares
    <3>4. /\ EnCola(colaHeap)' \cap EnCola(colaLiberaHeap)' = {}
          /\ (EnCola(colaHeap)' \cup EnCola(colaLiberaHeap)') \cap (Pidiendo' \cup Liberando') = {}
          /\ Pidiendo' \cap Liberando' = {}
      BY <2>4, <2>5, <2>6, <3>2 DEF Lugares
    <3> QED BY <2>4, <2>5, <3>3, <3>4 DEF Lugares
  <2> QED BY <1>1, <2>2, <2>7, <2>8, PideTomaHace
<1>2. CASE \/ PideActual \/ PideSiguiente \/ PideCompactado \/ PideBloque \/ PidePagina
           \/ PideReservada \/ PideRegistra \/ PideCabecera \/ PideResto
  BY <1>2, MismoPrograma, LugaresQuedan DEF Liberando
<1>3. CASE PideReserva /\ UNCHANGED estado
  <2>1. pide.pc # "espera" /\ pide'.pc # "espera" /\ pide'.pid = pide.pid
        /\ UNCHANGED <<colaHeap, colaLiberaHeap, libera>>
    <3>1. PICK p \in Pids : p = pide.pid
      BY <1>3, PideReservaHace, BuscandoTipo
    <3>2. estado[p] = "espera" /\ pide.pc = "bloque"
      BY <1>3, <3>1, PideReservaHace DEF Lugares, Pidiendo
    <3>3. estado' # [estado EXCEPT ![p] = "aborta"]
      BY <1>3, <3>2 DEF TiposHeap
    <3> QED BY <1>3, <3>1, <3>2, <3>3, PideReservaHace DEF Lee, Sigue
  <2> QED BY <1>3, <2>1, LugaresQuedan DEF Pidiendo, Liberando
<1>4. CASE PideTermina \/ (PideReserva /\ ~UNCHANGED estado)
  <2>1. /\ pide \in Buscando /\ pide.pc # "espera" /\ pide' = Ocioso
        /\ estado' = [estado EXCEPT ![pide.pid] = "corre"] \/ estado' = [estado EXCEPT ![pide.pid] = "aborta"]
        /\ UNCHANGED <<colaHeap, colaLiberaHeap, libera>>
    BY <1>4, PideTerminaHace, PideReservaHace
  <2>2. PICK p \in Pids : p = pide.pid
    BY <2>1, BuscandoTipo
  <2>3. Pidiendo = {p} /\ Pidiendo' = {} /\ Liberando' = Liberando
    BY <2>1, <2>2, OciosoTipo DEF Pidiendo, Liberando
  <2>4. p \notin EnCola(colaHeap) \cup EnCola(colaLiberaHeap) \cup Liberando
    BY <2>3 DEF Lugares
  <2>5. EnCola(colaHeap)' = EnCola(colaHeap) /\ EnCola(colaLiberaHeap)' = EnCola(colaLiberaHeap)
        /\ SinRepetidos(colaHeap)' /\ SinRepetidos(colaLiberaHeap)'
    BY <2>1 DEF Lugares
  <2>6. CASE estado' = [estado EXCEPT ![p] = "corre"]
    BY <2>3, <2>4, <2>5, <2>6, LugaresSale DEF Estados
  <2>7. CASE estado' = [estado EXCEPT ![p] = "aborta"]
    BY <2>3, <2>4, <2>5, <2>7, LugaresSale DEF Estados
  <2> QED BY <2>1, <2>2, <2>6, <2>7
<1> QED BY <1>1, <1>2, <1>3, <1>4 DEF ProcesarHeap

LEMMA LugaresLibera ==
  ASSUME TiposHeap, Lugares, LiberarHeap
  PROVE  Lugares'
<1>1. CASE LiberaToma
  <2>1. /\ libera.pc = "espera" /\ colaLiberaHeap # <<>> /\ colaLiberaHeap' = Tail(colaLiberaHeap)
        /\ Head(colaLiberaHeap) \in Bloques /\ libera'.pc = "lee" /\ libera'.b = Head(colaLiberaHeap)
        /\ UNCHANGED <<estado, colaHeap, pide>>
    BY <1>1, LiberaTomaHace
  <2>2. PICK p \in Pids : p = Head(colaLiberaHeap).pid
    BY <2>1, BloqueTipo
  <2>3. Menguo(colaLiberaHeap, colaLiberaHeap')
    BY <2>1, ColaMengua DEF TiposHeap
  <2>4. EnCola(colaLiberaHeap)' = EnCola(colaLiberaHeap) \ {p} /\ p \in EnCola(colaLiberaHeap)
        /\ SinRepetidos(colaLiberaHeap)'
    BY <2>2, <2>3, EncoladosMenguan DEF Lugares
  <2>5. EnCola(colaHeap)' = EnCola(colaHeap) /\ Pidiendo' = Pidiendo
        /\ SinRepetidos(colaHeap)' /\ Liberando = {} /\ Liberando' = {p}
    BY <2>1, <2>2 DEF Lugares, Pidiendo, Liberando
  <2>6. estado[p] = "espera" /\ p \notin EnCola(colaHeap) \cup Pidiendo
    BY <2>4 DEF Lugares
  <2>7. \A q \in EnCola(colaHeap)' \cup EnCola(colaLiberaHeap)' \cup Pidiendo' \cup Liberando' :
          estado'[q] = "espera"
    BY <2>1, <2>4, <2>5, <2>6 DEF Lugares
  <2>8. /\ EnCola(colaHeap)' \cap EnCola(colaLiberaHeap)' = {}
        /\ (EnCola(colaHeap)' \cup EnCola(colaLiberaHeap)') \cap (Pidiendo' \cup Liberando') = {}
        /\ Pidiendo' \cap Liberando' = {}
    BY <2>4, <2>5, <2>6 DEF Lugares
  <2> QED BY <2>4, <2>5, <2>7, <2>8 DEF Lugares
<1>2. CASE LiberaLee \/ LiberaEscribe \/ LiberaEscrito
  <2>1. libera.pc # "espera" /\ libera'.pc # "espera" /\ libera'.b = libera.b
        /\ UNCHANGED <<colaHeap, colaLiberaHeap, pide, estado>>
    BY <1>2, LiberaLeeHace, LiberaEscribeHace, LiberaEscritoHace DEF SigueLiberando
  <2> QED BY <2>1, LugaresQuedan DEF Pidiendo, Liberando
<1>3. CASE LiberaLista
  <2>1. /\ libera \in Liberador /\ libera.pc # "espera" /\ libera' = Ocioso
        /\ estado' = [estado EXCEPT ![libera.b.pid] = "corre"]
        /\ UNCHANGED <<colaHeap, colaLiberaHeap, pide>>
    BY <1>3, LiberaListaHace
  <2>2. PICK p \in Pids : p = libera.b.pid
    BY <2>1, LiberaTipo, BloqueTipo DEF TiposHeap
  <2>3. Liberando = {p} /\ Liberando' = {} /\ Pidiendo' = Pidiendo
    BY <2>1, <2>2, OciosoTipo DEF Pidiendo, Liberando
  <2>4. p \notin EnCola(colaHeap) \cup EnCola(colaLiberaHeap) \cup Pidiendo
    BY <2>3 DEF Lugares
  <2>5. EnCola(colaHeap)' = EnCola(colaHeap) /\ EnCola(colaLiberaHeap)' = EnCola(colaLiberaHeap)
        /\ SinRepetidos(colaHeap)' /\ SinRepetidos(colaLiberaHeap)'
    BY <2>1 DEF Lugares
  <2>6. estado' = [estado EXCEPT ![p] = "corre"]
    BY <2>1, <2>2
  <2> QED BY <2>3, <2>4, <2>5, <2>6, LugaresSale DEF Estados
<1> QED BY <1>1, <1>2, <1>3 DEF LiberarHeap

-----------------------------------------------------------------------------
(* The answers.                                                             *)

\* How many more messages of each kind there are.
Mensajea(dLee, dEscribe, dPide) ==
  /\ CuantosDe(aMemoria, "lee") \in Nat /\ CuantosDe(aMemoria, "escribe") \in Nat
  /\ CuantosDe(aMemoria, "pide") \in Nat
  /\ CuantosDe(aMemoria', "lee") = CuantosDe(aMemoria, "lee") + dLee
  /\ CuantosDe(aMemoria', "escribe") = CuantosDe(aMemoria, "escribe") + dEscribe
  /\ CuantosDe(aMemoria', "pide") = CuantosDe(aMemoria, "pide") + dPide

LEMMA EnviaCuenta ==
  ASSUME TiposHeap, NEW m \in Mensajes, aMemoria' = Append(aMemoria, m)
  PROVE  /\ Mensajea(Uno(m.op = "lee"), Uno(m.op = "escribe"), Uno(m.op = "pide"))
         /\ m.op = "lee" => Mensajea(1, 0, 0)
         /\ m.op = "escribe" => Mensajea(0, 1, 0)
         /\ m.op = "pide" => Mensajea(0, 0, 1)
         /\ m.op \notin {"lee", "escribe", "pide"} => Mensajea(0, 0, 0)
<1>1. Crecio(aMemoria, m, aMemoria')
  BY EnviaTipo DEF TiposHeap
<1>2. Mensajea(Uno(m.op = "lee"), Uno(m.op = "escribe"), Uno(m.op = "pide"))
  BY <1>1, CuantosCrece DEF Mensajea
<1> QED BY <1>2 DEF Uno

LEMMA RecibeCuenta ==
  ASSUME TiposHeap, aMemoria # <<>>, aMemoria' = Tail(aMemoria)
  PROVE  /\ Primero.op = "lee" => Mensajea(-1, 0, 0)
         /\ Primero.op = "escribe" => Mensajea(0, -1, 0)
         /\ Primero.op = "pide" => Mensajea(0, 0, -1)
         /\ Primero.op \notin {"lee", "escribe", "pide"} => Mensajea(0, 0, 0)
<1>1. Menguo(aMemoria, aMemoria')
  BY PrimeroTipo
<1>2. /\ CuantosDe(aMemoria, "lee") = CuantosDe(aMemoria', "lee") + Uno(Primero.op = "lee")
      /\ CuantosDe(aMemoria, "escribe") = CuantosDe(aMemoria', "escribe") + Uno(Primero.op = "escribe")
      /\ CuantosDe(aMemoria, "pide") = CuantosDe(aMemoria', "pide") + Uno(Primero.op = "pide")
      /\ CuantosDe(aMemoria', "lee") \in Nat /\ CuantosDe(aMemoria', "escribe") \in Nat
      /\ CuantosDe(aMemoria', "pide") \in Nat
  BY <1>1, CuantosMengua DEF Primero
<1> QED BY <1>2 DEF Mensajea, Uno

LEMMA QuietoCuenta ==
  ASSUME TiposHeap, UNCHANGED aMemoria
  PROVE  Mensajea(0, 0, 0)
<1>1. PICK n \in Nat : DOMAIN aMemoria = 1 .. n
  BY LenProperties DEF TiposHeap
<1>2. CuantosDe(aMemoria, "lee") \in Nat /\ CuantosDe(aMemoria, "escribe") \in Nat
      /\ CuantosDe(aMemoria, "pide") \in Nat
  BY <1>1, CuantosHay
<1> QED BY <1>2 DEF Mensajea

\* How many threads wait for each answer.
EsperanMeta   == Uno(LeyendoMetadata(pide)) + Uno(LeyendoMetadata(libera))
EsperanPagina == Uno(pide.pc \in EsperaEscritura) + Uno(libera.pc = "escribe")
EsperanReservo == Uno(pide.pc = "reservaPagina")

LEMMA RespuestasVarian ==
  ASSUME TiposHeap, RespuestasContadas,
         NEW a \in Int, NEW b \in Int, NEW c \in Int, Varia(a, b, c),
         NEW d \in Int, NEW e \in Int, NEW f \in Int, Mensajea(d, e, f),
         EsperanMeta' = EsperanMeta + a + d, EsperanPagina' = EsperanPagina + b + e,
         EsperanReservo' = EsperanReservo + c + f
  PROVE  RespuestasContadas'
<1>1. EsperanMeta \in Nat /\ EsperanPagina \in Nat /\ EsperanReservo \in Nat
  BY DEF EsperanMeta, EsperanPagina, EsperanReservo, Uno
<1>2. sems.meta \in Nat /\ sems.pagina \in Nat /\ sems.reservo \in Nat
  BY SemsVaria DEF TiposHeap
<1>3. /\ sems.meta + CuantosDe(aMemoria, "lee") = EsperanMeta
      /\ sems.pagina + CuantosDe(aMemoria, "escribe") = EsperanPagina
      /\ sems.reservo + CuantosDe(aMemoria, "pide") = EsperanReservo
  BY DEF RespuestasContadas, EsperanMeta, EsperanPagina, EsperanReservo
<1>4. /\ sems'.meta + CuantosDe(aMemoria', "lee") = EsperanMeta'
      /\ sems'.pagina + CuantosDe(aMemoria', "escribe") = EsperanPagina'
      /\ sems'.reservo + CuantosDe(aMemoria', "pide") = EsperanReservo'
  BY <1>1, <1>2, <1>3 DEF Varia, Mensajea
<1> QED BY <1>4 DEF RespuestasContadas, EsperanMeta, EsperanPagina, EsperanReservo

LEMMA LeeCuenta ==
  ASSUME TiposHeap, NEW h, NEW pc, NEW o, Lee(h, pc, o)
  PROVE  Mensajea(1, 0, 0)
<1>1. Lectura(Nodo(h), o) \in Mensajes /\ aMemoria' = Append(aMemoria, Lectura(Nodo(h), o))
  BY DEF Lee
<1>2. Lectura(Nodo(h), o).op = "lee"
  BY DEF Lectura, Mensaje
<1> QED BY <1>1, <1>2, EnviaCuenta

LEMMA EmpiezaCuenta ==
  ASSUME TiposHeap, NEW h, EmpiezaPagina(h)
  PROVE  Mensajea(1, 0, 0) /\ pide'.pc \in {"leeActual", "leeBloque"}
  BY LeeCuenta, EmpiezaSigue DEF EmpiezaPagina

LEMMA VerificaCuenta ==
  ASSUME TiposHeap, NEW h, Verifica(h)
  PROVE  \/ Mensajea(1, 0, 0) /\ pide'.pc \in {"leeActual", "leeBloque"}
         \/ Mensajea(0, 0, 0) /\ pide'.pc = "sinLugar"
  BY EmpiezaCuenta, QuietoCuenta DEF Verifica

LEMMA EscribeCuenta ==
  ASSUME TiposHeap, NEW n, NEW o, NEW c, Escritura(n, o, c) \in Mensajes,
         aMemoria' = Append(aMemoria, Escritura(n, o, c))
  PROVE  Mensajea(0, 1, 0)
<1>1. Escritura(n, o, c).op = "escribe"
  BY DEF Escritura, Mensaje
<1> QED BY <1>1, EnviaCuenta

LEMMA RespuestasPide ==
  ASSUME TiposHeap, RespuestasContadas, ProcesarHeap
  PROVE  RespuestasContadas'
<1> USE DEF EsperanMeta, EsperanPagina, EsperanReservo, LeyendoMetadata, EsperaEscritura, Uno
<1>0. UNCHANGED sems => Varia(0, 0, 0)
  BY SemsVaria DEF TiposHeap
<1>1. CASE PideToma
  <2>1. pide.pc = "espera" /\ UNCHANGED <<sems, libera>>
    BY <1>1, PideTomaHace
  <2>2. \/ Mensajea(0, 0, 0) /\ pide'.pc \in {"espera", "sinLugar"}
        \/ Mensajea(1, 0, 0) /\ pide'.pc \in {"leeActual", "leeBloque"}
    BY <1>1, PideTomaHace, VerificaCuenta, QuietoCuenta, OciosoTipo
  <2> QED BY <1>0, <2>1, <2>2, RespuestasVarian
<1>2. CASE PideActual
  <2>1. PideRecibe("leeActual") /\ "leeActual" \in PasosPide
    BY <1>2 DEF PideActual, PasosPide
  <2>2. pide.pc = "leeActual" /\ Varia(-1, 0, 0) /\ UNCHANGED libera
    BY <2>1, PideRecibeHace
  <2>3. Mensajea(1, 0, 0) /\ pide'.pc = "leeSiguiente"
    BY <1>2, PideActualHace, LeeCuenta DEF Lee
  <2> QED BY <2>2, <2>3, RespuestasVarian
<1>3. CASE PideSiguiente
  <2>1. PideRecibe("leeSiguiente") /\ "leeSiguiente" \in PasosPide
    BY <1>3 DEF PideSiguiente, PasosPide
  <2>2. pide.pc = "leeSiguiente" /\ Varia(-1, 0, 0) /\ UNCHANGED libera
    BY <2>1, PideRecibeHace
  <2>3. \/ Mensajea(0, 1, 0) /\ pide'.pc = "compactado"
        \/ Mensajea(1, 0, 0) /\ pide'.pc \in {"leeActual", "leeBloque"}
    BY <1>3, PideSiguienteHace, EscribeCuenta, EmpiezaCuenta
  <2> QED BY <2>2, <2>3, RespuestasVarian
<1>4. CASE PideCompactado
  <2>1. pide.pc = "compactado" /\ Varia(0, -1, 0) /\ UNCHANGED libera
        /\ Mensajea(1, 0, 0) /\ pide'.pc \in {"leeActual", "leeBloque"}
    BY <1>4, PideCompactadoHace, EmpiezaCuenta
  <2> QED BY <2>1, RespuestasVarian
<1>5. CASE PideBloque
  <2>1. PideRecibe("leeBloque") /\ "leeBloque" \in PasosPide
    BY <1>5 DEF PideBloque, PasosPide
  <2>2. pide.pc = "leeBloque" /\ Varia(-1, 0, 0) /\ UNCHANGED libera
    BY <2>1, PideRecibeHace
  <2>3. \/ Mensajea(0, 0, 0) /\ pide'.pc \in {"bloque", "sinLugar"}
        \/ Mensajea(1, 0, 0) /\ pide'.pc \in {"leeActual", "leeBloque"}
    BY <1>5, PideBloqueHace, LeeCuenta, VerificaCuenta, QuietoCuenta DEF Lee
  <2> QED BY <2>2, <2>3, RespuestasVarian
<1>6. CASE PidePagina
  <2>1. pide.pc = "sinLugar" /\ Mensajea(0, 0, 1) /\ pide'.pc = "reservaPagina" /\ UNCHANGED <<sems, libera>>
    BY <1>6, PidePaginaHace, EnviaCuenta
  <2> QED BY <1>0, <2>1, RespuestasVarian
<1>7. CASE PideReservada
  <2>1. pide.pc = "reservaPagina" /\ Varia(0, 0, -1) /\ UNCHANGED libera
    BY <1>7, PideReservadaHace
  <2>2. \/ Mensajea(0, 1, 0) /\ pide'.pc = "paginaNueva"
        \/ Mensajea(0, 0, 0) /\ pide'.pc = "bloque"
    BY <1>7, PideReservadaHace, EscribeCuenta, QuietoCuenta
  <2> QED BY <2>1, <2>2, RespuestasVarian
<1>8. CASE PideRegistra
  <2>1. pide.pc = "paginaNueva" /\ Varia(0, -1, 0) /\ UNCHANGED libera /\ pide'.pc = "bloque"
        /\ Mensajea(0, 0, 0)
    BY <1>8, PideRegistraHace, QuietoCuenta
  <2> QED BY <2>1, RespuestasVarian
<1>9. CASE PideReserva
  <2>1. pide.pc = "bloque" /\ UNCHANGED <<sems, libera>>
    BY <1>9, PideReservaHace
  <2>2. \/ Mensajea(1, 0, 0) /\ pide'.pc = "leeViejo"
        \/ Mensajea(0, 0, 0) /\ pide'.pc = "espera"
    BY <1>9, PideReservaHace, LeeCuenta, QuietoCuenta, OciosoTipo DEF Lee
  <2> QED BY <1>0, <2>1, <2>2, RespuestasVarian
<1>10. CASE PideCabecera
  <2>1. pide.pc = "leeViejo" /\ Varia(-1, 0, 0) /\ UNCHANGED libera /\ pide'.pc = "escribeBloque"
        /\ Mensajea(0, 1, 0)
    BY <1>10, PideCabeceraHace, EscribeCuenta
  <2> QED BY <2>1, RespuestasVarian
<1>11. CASE PideResto
  <2>1. pide.pc = "escribeBloque" /\ Varia(0, -1, 0) /\ UNCHANGED libera /\ pide'.pc = "escribeResto"
        /\ Mensajea(0, 1, 0)
    BY <1>11, PideRestoHace, EscribeCuenta
  <2> QED BY <2>1, RespuestasVarian
<1>12. CASE PideTermina
  <2>1. pide.pc = "escribeResto" /\ Varia(0, -1, 0) /\ UNCHANGED libera /\ pide'.pc = "espera"
        /\ Mensajea(0, 0, 0)
    BY <1>12, PideTerminaHace, QuietoCuenta, OciosoTipo
  <2> QED BY <2>1, RespuestasVarian
<1> QED BY <1>1, <1>2, <1>3, <1>4, <1>5, <1>6, <1>7, <1>8, <1>9, <1>10, <1>11, <1>12 DEF ProcesarHeap

LEMMA RespuestasLibera ==
  ASSUME TiposHeap, RespuestasContadas, LiberarHeap
  PROVE  RespuestasContadas'
<1> USE DEF EsperanMeta, EsperanPagina, EsperanReservo, LeyendoMetadata, Uno
<1>0. UNCHANGED sems => Varia(0, 0, 0)
  BY SemsVaria DEF TiposHeap
<1>1. CASE LiberaToma
  <2>1. libera.pc = "espera" /\ libera'.pc = "lee" /\ UNCHANGED <<sems, pide>>
    BY <1>1, LiberaTomaHace
  <2>2. PICK m \in Mensajes :
          /\ m = Lectura(PaginaDe(Head(colaLiberaHeap)), Head(colaLiberaHeap).offset)
          /\ aMemoria' = Append(aMemoria, m)
    BY <1>1, LiberaTomaHace
  <2>3. m.op = "lee"
    BY <2>2 DEF Lectura, Mensaje
  <2>4. Mensajea(1, 0, 0)
    BY <2>2, <2>3, EnviaCuenta
  <2> QED BY <1>0, <2>1, <2>4, RespuestasVarian
<1>2. CASE LiberaLee
  <2>1. libera.pc = "lee" /\ libera'.pc = "leido" /\ Varia(-1, 0, 0) /\ UNCHANGED pide /\ Mensajea(0, 0, 0)
    BY <1>2, LiberaLeeHace, QuietoCuenta DEF SigueLiberando
  <2> QED BY <2>1, RespuestasVarian
<1>3. CASE LiberaEscribe
  <2>1. libera.pc = "leido" /\ libera'.pc = "escribe" /\ UNCHANGED <<sems, pide>>
        /\ Marca \in Mensajes /\ aMemoria' = Append(aMemoria, Marca)
    BY <1>3, LiberaEscribeHace DEF SigueLiberando
  <2>2. Mensajea(0, 1, 0)
    BY <2>1, EscribeCuenta DEF Marca
  <2> QED BY <1>0, <2>1, <2>2, RespuestasVarian
<1>4. CASE LiberaEscrito
  <2>1. libera.pc = "escribe" /\ libera'.pc = "escrito" /\ Varia(0, -1, 0) /\ UNCHANGED pide /\ Mensajea(0, 0, 0)
    BY <1>4, LiberaEscritoHace, QuietoCuenta DEF SigueLiberando
  <2> QED BY <2>1, RespuestasVarian
<1>5. CASE LiberaLista
  <2>1. libera.pc = "escrito" /\ libera'.pc = "espera" /\ UNCHANGED <<sems, pide>> /\ Mensajea(0, 0, 0)
    BY <1>5, LiberaListaHace, QuietoCuenta, OciosoTipo
  <2> QED BY <1>0, <2>1, RespuestasVarian
<1> QED BY <1>1, <1>2, <1>3, <1>4, <1>5 DEF LiberarHeap

LEMMA ProgramasEnvian ==
  ASSUME TiposHeap, Programas
  PROVE  \/ UNCHANGED aMemoria
         \/ \E m \in Mensajes : m.op \in {"inicia", "libera"} /\ aMemoria' = Append(aMemoria, m)
<1>1. ASSUME NEW p \in Pids, Llega(p)
      PROVE  \E m \in Mensajes : m.op = "inicia" /\ aMemoria' = Append(aMemoria, m)
  <2>1. aMemoria' = Append(aMemoria, Mensaje("inicia", Pagina(p, PaginasIniciales), 0, Otro))
    BY <1>1 DEF Llega, Envia
  <2>2. PICK m : m = Mensaje("inicia", Pagina(p, PaginasIniciales), 0, Otro)
    OBVIOUS
  <2>3. m \in Mensajes /\ m.op = "inicia"
    BY <2>2, PaginaTipo, MensajeTipo, CeldaTipo, PaginasSupuesto
  <2> QED BY <2>1, <2>2, <2>3
<1>2. ASSUME NEW p \in Pids, Termina(p)
      PROVE  \E m \in Mensajes : m.op = "libera" /\ aMemoria' = Append(aMemoria, m)
  <2>1. aMemoria' = Append(aMemoria, [op |-> "libera", nodos |-> PaginasDe(p)])
    BY <1>2 DEF Termina, Envia
  <2> QED BY <2>1, PaginasDeTipo, BajaTipo DEF TiposHeap
<1>3. (\E p \in Pids : \E n \in Tamanos : Reserva(p, n)) \/ (\E b \in bloques : Libera(b)) => UNCHANGED aMemoria
  BY DEF Reserva, Libera
<1> QED BY <1>1, <1>2, <1>3 DEF Programas

LEMMA RespuestasProgramas ==
  ASSUME TiposHeap, RespuestasContadas, Programas
  PROVE  RespuestasContadas'
<1>1. UNCHANGED <<sems, pide, libera>>
  BY DEF Programas, Llega, Termina, Reserva, Libera, respuestas
<1>2. \/ UNCHANGED aMemoria
      \/ \E m \in Mensajes : m.op \in {"inicia", "libera"} /\ aMemoria' = Append(aMemoria, m)
  BY ProgramasEnvian
<1>3. Mensajea(0, 0, 0)
  BY <1>2, EnviaCuenta, QuietoCuenta
<1>4. Varia(0, 0, 0)
  BY <1>1, SemsVaria DEF TiposHeap
<1> QED BY <1>1, <1>3, <1>4, RespuestasVarian DEF EsperanMeta, EsperanPagina, EsperanReservo, Uno

LEMMA RespuestasContesta ==
  ASSUME TiposHeap, RespuestasContadas, Contesta, fallo' = "no"
  PROVE  RespuestasContadas'
<1>1. UNCHANGED <<pide, libera>> /\ aMemoria # <<>> /\ aMemoria' = Tail(aMemoria)
  BY ContestaEs
<1>2. EsperanMeta' = EsperanMeta /\ EsperanPagina' = EsperanPagina /\ EsperanReservo' = EsperanReservo
      /\ EsperanMeta \in Int /\ EsperanPagina \in Int /\ EsperanReservo \in Int
  BY <1>1 DEF EsperanMeta, EsperanPagina, EsperanReservo, Uno
<1>3. ~CRompe
  BY DEF CRompe, Rompe
<1>4. CASE CInicia \/ CLibera
  <2>1. UNCHANGED sems /\ Primero.op \notin {"lee", "escribe", "pide"}
    BY <1>4 DEF CInicia, Inicia, CLibera, respuestas
  <2>2. Varia(0, 0, 0) /\ Mensajea(0, 0, 0)
    BY <1>1, <2>1, SemsVaria, RecibeCuenta DEF TiposHeap
  <2> QED BY <1>2, <2>2, RespuestasVarian
<1>5. CASE CPide
  <2>1. sems' = [sems EXCEPT !.reservo = @ + 1] /\ Primero.op = "pide"
    BY <1>5 DEF CPide, Asigna
  <2>2. Varia(0, 0, 1) /\ Mensajea(0, 0, -1)
    BY <1>1, <2>1, SemsVaria, RecibeCuenta DEF TiposHeap
  <2> QED BY <1>2, <2>2, RespuestasVarian
<1>6. CASE CLee
  <2>1. sems' = [sems EXCEPT !.meta = @ + 1] /\ Primero.op = "lee"
    BY <1>6 DEF CLee, Publica
  <2>2. Varia(1, 0, 0) /\ Mensajea(-1, 0, 0)
    BY <1>1, <2>1, SemsVaria, RecibeCuenta DEF TiposHeap
  <2> QED BY <1>2, <2>2, RespuestasVarian
<1>7. CASE CEscribe
  <2>1. sems' = [sems EXCEPT !.pagina = @ + 1] /\ Primero.op = "escribe"
    BY <1>7 DEF CEscribe
  <2>2. Varia(0, 1, 0) /\ Mensajea(0, -1, 0)
    BY <1>1, <2>1, SemsVaria, RecibeCuenta DEF TiposHeap
  <2> QED BY <1>2, <2>2, RespuestasVarian
<1> QED BY <1>3, <1>4, <1>5, <1>6, <1>7, ContestaEs

-----------------------------------------------------------------------------
(* The mutex, and the messages that ask for pages and that load programs.    *)

LEMMA MutexPide ==
  ASSUME TiposHeap, DuenioDelMutex, SinChoque, ProcesarHeap
  PROVE  DuenioDelMutex' /\ SinChoque'
<1> USE DEF DuenioDelMutex, SinChoque, ConMutex
<1>1. CASE PideToma
  <2>1. pide.pc = "espera" /\ UNCHANGED <<mutexMemoria, libera>>
        /\ pide'.pc \in {"espera", "sinLugar", "leeActual", "leeBloque"}
    BY <1>1, PideTomaHace, VerificaSigue, OciosoTipo
  <2> QED BY <2>1
<1>2. CASE PideActual
  <2>1. PideRecibe("leeActual") /\ "leeActual" \in PasosPide
    BY <1>2 DEF PideActual, PasosPide
  <2>2. pide.pc = "leeActual" /\ UNCHANGED <<mutexMemoria, libera>> /\ pide'.pc = "leeSiguiente"
    BY <1>2, <2>1, PideRecibeHace, PideActualHace DEF Lee
  <2> QED BY <2>2
<1>3. CASE PideSiguiente
  <2>1. PideRecibe("leeSiguiente") /\ "leeSiguiente" \in PasosPide
    BY <1>3 DEF PideSiguiente, PasosPide
  <2>2. pide.pc = "leeSiguiente" /\ UNCHANGED <<mutexMemoria, libera>>
    BY <2>1, PideRecibeHace
  <2>3. pide'.pc \in {"compactado", "leeActual", "leeBloque"}
    BY <1>3, PideSiguienteHace, EmpiezaSigue
  <2> QED BY <2>2, <2>3
<1>4. CASE PideCompactado
  <2>1. pide.pc = "compactado" /\ UNCHANGED <<mutexMemoria, libera>>
        /\ pide'.pc \in {"leeActual", "leeBloque"}
    BY <1>4, PideCompactadoHace, EmpiezaSigue
  <2> QED BY <2>1
<1>5. CASE PideBloque
  <2>1. PideRecibe("leeBloque") /\ "leeBloque" \in PasosPide
    BY <1>5 DEF PideBloque, PasosPide
  <2>2. pide.pc = "leeBloque" /\ UNCHANGED <<mutexMemoria, libera>>
    BY <2>1, PideRecibeHace
  <2>3. pide'.pc \in {"bloque", "sinLugar", "leeActual", "leeBloque"}
    BY <1>5, PideBloqueHace, VerificaSigue DEF Lee
  <2> QED BY <2>2, <2>3
<1>6. CASE PidePagina
  BY <1>6, PidePaginaHace
<1>7. CASE PideReservada
  BY <1>7, PideReservadaHace
<1>8. CASE PideRegistra
  BY <1>8, PideRegistraHace
<1>9. CASE PideReserva
  BY <1>9, PideReservaHace, OciosoTipo DEF Lee
<1>10. CASE PideCabecera
  BY <1>10, PideCabeceraHace
<1>11. CASE PideResto
  BY <1>11, PideRestoHace
<1>12. CASE PideTermina
  BY <1>12, PideTerminaHace, OciosoTipo
<1> QED BY <1>1, <1>2, <1>3, <1>4, <1>5, <1>6, <1>7, <1>8, <1>9, <1>10, <1>11, <1>12 DEF ProcesarHeap

LEMMA MutexLibera ==
  ASSUME TiposHeap, DuenioDelMutex, SinChoque, LiberarHeap
  PROVE  DuenioDelMutex' /\ SinChoque'
<1> USE DEF DuenioDelMutex, SinChoque
<1>1. CASE LiberaToma
  BY <1>1, LiberaTomaHace
<1>2. CASE LiberaLee
  BY <1>2, LiberaLeeHace DEF SigueLiberando
<1>3. CASE LiberaEscribe
  BY <1>3, LiberaEscribeHace DEF SigueLiberando
<1>4. CASE LiberaEscrito
  BY <1>4, LiberaEscritoHace DEF SigueLiberando
<1>5. CASE LiberaLista
  BY <1>5, LiberaListaHace, OciosoTipo
<1> QED BY <1>1, <1>2, <1>3, <1>4, <1>5 DEF LiberarHeap

LEMMA MutexResto ==
  ASSUME DuenioDelMutex, SinChoque, Programas \/ Contesta
  PROVE  DuenioDelMutex' /\ SinChoque'
<1>1. UNCHANGED <<mutexMemoria, pide, libera>>
  BY ContestaEs DEF Programas, Llega, Termina, Reserva, Libera
<1> QED BY <1>1 DEF DuenioDelMutex, SinChoque

\* Nothing asks for a page when procesarHeap does not wait for one.
LEMMA SinPedidos ==
  ASSUME TiposHeap, RespuestasContadas, pide.pc # "reservaPagina" \/ sems.reservo > 0
  PROVE  \A i \in DOMAIN aMemoria : aMemoria[i].op # "pide"
<1>1. PICK n \in Nat : DOMAIN aMemoria = 1 .. n
  BY LenProperties DEF TiposHeap
<1>2. CuantosDe(aMemoria, "pide") \in Nat /\ sems.reservo \in Nat
  BY <1>1, CuantosHay, SemsVaria DEF TiposHeap
<1>3. CuantosDe(aMemoria, "pide") = 0
  BY <1>2 DEF RespuestasContadas, Uno
<1> QED BY <1>1, <1>3, CuantosHay

\* What the threads send, and the programs that they change.
LEMMA HilosEnvian ==
  ASSUME TiposHeap, ProcesarHeap \/ LiberarHeap
  PROVE  /\ UNCHANGED memoria
         /\ \/ UNCHANGED aMemoria
            \/ \E m \in Mensajes : m.op \in {"lee", "escribe"} /\ aMemoria' = Append(aMemoria, m)
            \/ PidePagina
<1> DEFINE E == \E m \in Mensajes : m.op \in {"lee", "escribe"} /\ aMemoria' = Append(aMemoria, m)
<1>1. ASSUME NEW h, NEW pc, NEW o, Lee(h, pc, o) PROVE E
  <2>1. Lectura(Nodo(h), o) \in Mensajes /\ aMemoria' = Append(aMemoria, Lectura(Nodo(h), o))
    BY <1>1 DEF Lee
  <2>2. Lectura(Nodo(h), o).op = "lee"
    BY DEF Lectura, Mensaje
  <2> QED BY <2>1, <2>2
<1>2. ASSUME NEW h, EmpiezaPagina(h) PROVE E
  BY <1>1, <1>2 DEF EmpiezaPagina
<1>3. ASSUME NEW h, Verifica(h) PROVE E \/ UNCHANGED aMemoria
  BY <1>2, <1>3 DEF Verifica
<1>4. ASSUME NEW n, NEW o, NEW c, Escritura(n, o, c) \in Mensajes,
             aMemoria' = Append(aMemoria, Escritura(n, o, c))
      PROVE  E
  <2>1. Escritura(n, o, c).op = "escribe"
    BY DEF Escritura, Mensaje
  <2> QED BY <1>4, <2>1
<1> HIDE DEF E
<1>5. PideToma => UNCHANGED memoria /\ (E \/ UNCHANGED aMemoria)
  BY <1>3, PideTomaHace
<1>6. PideActual => UNCHANGED memoria /\ E
  <2> SUFFICES ASSUME PideActual PROVE UNCHANGED memoria /\ E
    OBVIOUS
  <2>1. UNCHANGED memoria
    BY DEF PideActual, PideRecibe
  <2> QED BY <1>1, <2>1, PideActualHace
<1>7. PideSiguiente => UNCHANGED memoria /\ E
  <2> SUFFICES ASSUME PideSiguiente PROVE UNCHANGED memoria /\ E
    OBVIOUS
  <2>1. UNCHANGED memoria
    BY DEF PideSiguiente, PideRecibe
  <2> QED BY <1>2, <1>4, <2>1, PideSiguienteHace
<1>8. PideCompactado => UNCHANGED memoria /\ E
  BY <1>2, PideCompactadoHace
<1>9. PideBloque => UNCHANGED memoria /\ (E \/ UNCHANGED aMemoria)
  <2> SUFFICES ASSUME PideBloque PROVE UNCHANGED memoria /\ (E \/ UNCHANGED aMemoria)
    OBVIOUS
  <2>1. UNCHANGED memoria
    BY DEF PideBloque, PideRecibe
  <2> QED BY <1>1, <1>3, <2>1, PideBloqueHace
<1>10. PidePagina => UNCHANGED memoria
  BY PidePaginaHace
<1>11. PideReservada => UNCHANGED memoria /\ (E \/ UNCHANGED aMemoria)
  BY <1>4, PideReservadaHace
<1>12. PideRegistra => UNCHANGED memoria /\ UNCHANGED aMemoria
  BY PideRegistraHace
<1>13. PideReserva => UNCHANGED memoria /\ (E \/ UNCHANGED aMemoria)
  BY <1>1, PideReservaHace
<1>14. PideCabecera => UNCHANGED memoria /\ E
  BY <1>4, PideCabeceraHace
<1>15. PideResto => UNCHANGED memoria /\ E
  BY <1>4, PideRestoHace
<1>16. PideTermina => UNCHANGED memoria /\ UNCHANGED aMemoria
  BY PideTerminaHace
<1>17. LiberaToma => UNCHANGED memoria /\ E
  BY <1>4, LiberaTomaHace DEF E, Lectura, Mensaje
<1>18. LiberaEscribe => UNCHANGED memoria /\ E
  BY <1>4, LiberaEscribeHace DEF Marca
<1>19. LiberaLee \/ LiberaEscrito \/ LiberaLista => UNCHANGED memoria /\ UNCHANGED aMemoria
  BY LiberaLeeHace, LiberaEscritoHace, LiberaListaHace
<1> QED BY <1>5, <1>6, <1>7, <1>8, <1>9, <1>10, <1>11, <1>12, <1>13, <1>14, <1>15, <1>16, <1>17,
          <1>18, <1>19 DEF ProcesarHeap, LiberarHeap, E

\* A thread changes only a program that waits for it, and that is told to go on
\* or to abort.
CambiaUno ==
  \/ UNCHANGED estado
  \/ \E p \in Pids : \E e \in {"corre", "aborta"} :
       estado[p] = "espera" /\ estado' = [estado EXCEPT ![p] = e]

LEMMA HilosCambian ==
  ASSUME TiposHeap, Lugares, ProcesarHeap \/ LiberarHeap
  PROVE  CambiaUno
<1>1. PideToma => CambiaUno
  <2> SUFFICES ASSUME PideToma, ~UNCHANGED estado PROVE CambiaUno
    BY DEF CambiaUno
  <2>1. /\ colaHeap # <<>> /\ colaHeap' = Tail(colaHeap) /\ Head(colaHeap) \in Pedidos
        /\ estado' = [estado EXCEPT ![Head(colaHeap).pid] = "aborta"]
    BY PideTomaHace
  <2>2. PICK p \in Pids : p = Head(colaHeap).pid
    BY <2>1 DEF Pedidos
  <2>3. Menguo(colaHeap, colaHeap')
    BY <2>1, ColaMengua DEF TiposHeap
  <2>4. p \in EnCola(colaHeap)
    BY <2>2, <2>3, EncoladosMenguan DEF Lugares
  <2>5. estado[p] = "espera"
    BY <2>4 DEF Lugares
  <2> QED BY <2>1, <2>2, <2>5 DEF CambiaUno
<1>2. (\/ PideActual \/ PideSiguiente \/ PideCompactado \/ PideBloque \/ PidePagina
       \/ PideReservada \/ PideRegistra \/ PideCabecera \/ PideResto) => CambiaUno
  BY MismoPrograma DEF CambiaUno
<1>3. PideReserva \/ PideTermina => CambiaUno
  <2> SUFFICES ASSUME PideReserva \/ PideTermina, ~UNCHANGED estado PROVE CambiaUno
    BY DEF CambiaUno
  <2>1. /\ pide \in Buscando /\ pide.pc # "espera"
        /\ \E e \in {"corre", "aborta"} : estado' = [estado EXCEPT ![pide.pid] = e]
    BY PideReservaHace, PideTerminaHace
  <2>2. pide.pid \in Pids /\ estado[pide.pid] = "espera"
    BY <2>1, BuscandoTipo DEF Lugares, Pidiendo
  <2> QED BY <2>1, <2>2 DEF CambiaUno
<1>4. LiberaToma \/ LiberaLee \/ LiberaEscribe \/ LiberaEscrito => CambiaUno
  BY LiberaTomaHace, LiberaLeeHace, LiberaEscribeHace, LiberaEscritoHace DEF CambiaUno
<1>5. LiberaLista => CambiaUno
  <2> SUFFICES ASSUME LiberaLista PROVE CambiaUno
    OBVIOUS
  <2>1. libera.pc # "espera" /\ estado' = [estado EXCEPT ![libera.b.pid] = "corre"]
    BY LiberaListaHace
  <2>2. libera.b.pid \in Pids /\ estado[libera.b.pid] = "espera"
    BY <2>1, LiberaTipo, BloqueTipo DEF Lugares, Liberando, TiposHeap
  <2> QED BY <2>1, <2>2 DEF CambiaUno
<1> QED BY <1>1, <1>2, <1>3, <1>4, <1>5 DEF ProcesarHeap, LiberarHeap

LEMMA PidePaginaPaso ==
  ASSUME TiposHeap, TiposHeap', Lugares, RespuestasContadas, PidePagina_, RespuestasContadas',
         Programas \/ Contesta \/ ProcesarHeap \/ LiberarHeap
  PROVE  PidePagina_'
<1>1. CASE pide'.pc # "reservaPagina"
  <2>1. \A i \in DOMAIN aMemoria' : aMemoria'[i].op # "pide"
    <3>1. PICK n \in Nat : DOMAIN aMemoria' = 1 .. n
      BY LenProperties DEF TiposHeap
    <3>2. CuantosDe(aMemoria', "pide") \in Nat /\ sems'.reservo \in Nat
      BY <3>1, CuantosHay DEF TiposHeap
    <3>3. CuantosDe(aMemoria', "pide") = 0
      BY <1>1, <3>2 DEF RespuestasContadas, Uno
    <3> QED BY <3>1, <3>3, CuantosHay
  <2> QED BY <2>1 DEF PidePagina_
<1>2. CASE pide'.pc = "reservaPagina"
  <2>1. CASE PidePagina
    <3>1. PICK m \in Mensajes : m.op = "pide" /\ m.nodo.pid = pide.pid /\ aMemoria' = Append(aMemoria, m)
      BY <2>1, PidePaginaHace
    <3>2. Crecio(aMemoria, m, aMemoria') /\ pide'.pid = pide.pid /\ pide.pc # "reservaPagina"
      BY <2>1, <3>1, EnviaTipo, PidePaginaHace DEF TiposHeap
    <3>3. \A i \in DOMAIN aMemoria : aMemoria[i].op # "pide"
      BY <3>2, SinPedidos
    <3>4. \A i \in DOMAIN aMemoria' : (i \in DOMAIN aMemoria /\ aMemoria'[i] = aMemoria[i]) \/ aMemoria'[i] = m
      BY <3>2 DEF Crecio
    <3> QED BY <1>2, <3>1, <3>2, <3>3, <3>4 DEF PidePagina_
  <2>2. CASE ~PidePagina
    <3>1. UNCHANGED pide
      <4>1. Programas \/ Contesta \/ LiberarHeap => UNCHANGED pide
        BY ContestaEs, LiberaTomaHace, LiberaLeeHace, LiberaEscribeHace, LiberaEscritoHace, LiberaListaHace
           DEF Programas, Llega, Termina, Reserva, Libera, LiberarHeap
      <4>2. PideToma => pide'.pc # "reservaPagina"
        BY PideTomaHace, VerificaSigue, OciosoTipo
      <4>3. PideActual => pide'.pc # "reservaPagina"
        BY PideActualHace DEF Lee
      <4>4. PideSiguiente => pide'.pc # "reservaPagina"
        BY PideSiguienteHace, EmpiezaSigue
      <4>5. PideCompactado => pide'.pc # "reservaPagina"
        BY PideCompactadoHace, EmpiezaSigue
      <4>6. PideBloque => pide'.pc # "reservaPagina"
        BY PideBloqueHace, VerificaSigue DEF Lee
      <4>7. PideReservada \/ PideRegistra => pide'.pc # "reservaPagina"
        BY PideReservadaHace, PideRegistraHace
      <4>8. PideReserva => pide'.pc # "reservaPagina"
        BY PideReservaHace, OciosoTipo DEF Lee
      <4>9. PideCabecera \/ PideResto \/ PideTermina => pide'.pc # "reservaPagina"
        BY PideCabeceraHace, PideRestoHace, PideTerminaHace, OciosoTipo
      <4> QED BY <1>2, <2>2, <4>1, <4>2, <4>3, <4>4, <4>5, <4>6, <4>7, <4>8, <4>9 DEF ProcesarHeap
    <3>2. \A i \in DOMAIN aMemoria' : aMemoria'[i].op = "pide" =>
            \E j \in DOMAIN aMemoria : aMemoria'[i] = aMemoria[j]
      <4>1. CASE UNCHANGED aMemoria
        BY <4>1
      <4>2. CASE \E m \in Mensajes : aMemoria' = Append(aMemoria, m) /\ m.op # "pide"
        <5>1. PICK m \in Mensajes : aMemoria' = Append(aMemoria, m) /\ m.op # "pide"
          BY <4>2
        <5>2. Crecio(aMemoria, m, aMemoria')
          BY <5>1, EnviaTipo DEF TiposHeap
        <5> QED BY <5>1, <5>2 DEF Crecio
      <4>3. CASE aMemoria # <<>> /\ aMemoria' = Tail(aMemoria)
        <5>1. Menguo(aMemoria, aMemoria')
          BY <4>3, PrimeroTipo
        <5>2. \A i \in 1 .. Len(aMemoria) - 1 : i + 1 \in 1 .. Len(aMemoria)
          BY <5>1 DEF Menguo
        <5> QED BY <5>1, <5>2 DEF Menguo
      <4> QED BY <2>2, <4>1, <4>2, <4>3, ContestaEs, HilosEnvian, ProgramasEnvian
    <3> QED BY <3>1, <3>2 DEF PidePagina_
  <2> QED BY <2>1, <2>2
<1> QED BY <1>1, <1>2

\* A loading program is not in anyone's hands but Memoria's.
LEMMA CargasQuedan ==
  ASSUME TiposHeap, Cargas, \A q \in Pids : estado[q] = "carga" => estado'[q] = "carga",
         UNCHANGED aMemoria \/ \E m \in Mensajes : m.op # "inicia" /\ aMemoria' = Append(aMemoria, m)
  PROVE  Cargas'
<1>1. \A i \in DOMAIN aMemoria' : aMemoria'[i].op = "inicia" =>
        i \in DOMAIN aMemoria /\ aMemoria'[i] = aMemoria[i]
  <2>1. CASE UNCHANGED aMemoria
    BY <2>1
  <2>2. CASE \E m \in Mensajes : m.op # "inicia" /\ aMemoria' = Append(aMemoria, m)
    <3>1. PICK m \in Mensajes : m.op # "inicia" /\ aMemoria' = Append(aMemoria, m)
      BY <2>2
    <3>2. PICK n \in Nat : /\ DOMAIN aMemoria = 1 .. n /\ DOMAIN aMemoria' = 1 .. n + 1
                           /\ aMemoria'[n + 1] = m /\ \A i \in 1 .. n : aMemoria'[i] = aMemoria[i]
      BY <3>1, EnviaTipo DEF TiposHeap, Crecio
    <3>3. \A i \in 1 .. n + 1 : i \in 1 .. n \/ i = n + 1
      BY <3>2
    <3> QED BY <3>1, <3>2, <3>3
  <2> QED BY <2>1, <2>2
<1>2. \A i \in DOMAIN aMemoria : aMemoria[i].op = "inicia" => aMemoria[i].nodo.pid \in Pids
  <2>1. \A i \in DOMAIN aMemoria : aMemoria[i] \in Mensajes
    BY EnLista DEF TiposHeap
  <2> QED BY <2>1, MensajeEs DEF Paginas
<1> QED BY <1>1, <1>2 DEF Cargas

LEMMA CargasProgramas ==
  ASSUME TiposHeap, Cargas, Programas
  PROVE  Cargas'
<1>1. ASSUME NEW p \in Pids, Llega(p) PROVE Cargas'
  <2>1. PICK m : m = Mensaje("inicia", Pagina(p, PaginasIniciales), 0, Otro)
    OBVIOUS
  <2>2. m \in Mensajes /\ m.op = "inicia" /\ m.nodo.pid = p /\ m.nodo.pagina = PaginasIniciales
    BY <2>1, PaginaTipo, MensajeTipo, CeldaTipo, PaginasSupuesto
  <2>3. estado[p] = "nuevo" /\ estado' = [estado EXCEPT ![p] = "carga"] /\ aMemoria' = Append(aMemoria, m)
    BY <1>1, <2>1 DEF Llega, Envia
  <2>4. PICK n \in Nat : /\ DOMAIN aMemoria = 1 .. n /\ DOMAIN aMemoria' = 1 .. n + 1 /\ aMemoria'[n + 1] = m
                         /\ \A i \in 1 .. n : aMemoria'[i] = aMemoria[i]
    BY <2>2, <2>3, EnviaTipo DEF TiposHeap, Crecio
  <2>5. \A i \in 1 .. n + 1 : i \in 1 .. n \/ i = n + 1
    BY <2>4
  <2>6. \A i \in 1 .. n : aMemoria[i].op = "inicia" =>
          aMemoria[i].nodo.pid \in Pids /\ estado[aMemoria[i].nodo.pid] = "carga"
    <3>1. \A i \in DOMAIN aMemoria : aMemoria[i] \in Mensajes
      BY EnLista DEF TiposHeap
    <3> QED BY <2>4, <3>1, MensajeEs DEF Cargas, Paginas
  <2>7. estado'[p] = "carga" /\ \A q \in Pids : estado[q] = "carga" => estado'[q] = "carga" /\ q # p
    BY <2>3 DEF TiposHeap
  <2>8. \A i \in 1 .. n + 1 : aMemoria'[i].op = "inicia" =>
          estado'[aMemoria'[i].nodo.pid] = "carga" /\ aMemoria'[i].nodo.pagina = PaginasIniciales
    BY <2>2, <2>4, <2>5, <2>6, <2>7 DEF Cargas
  <2>9. ASSUME NEW i \in 1 .. n + 1, NEW j \in 1 .. n + 1, j # i,
               aMemoria'[i].op = "inicia", aMemoria'[j].op = "inicia"
        PROVE  aMemoria'[j].nodo.pid # aMemoria'[i].nodo.pid
    <3>1. CASE i \in 1 .. n /\ j \in 1 .. n
      BY <2>4, <2>9, <3>1 DEF Cargas
    <3>2. CASE i = n + 1 /\ j \in 1 .. n
      BY <2>2, <2>4, <2>6, <2>7, <2>9, <3>2
    <3>3. CASE j = n + 1 /\ i \in 1 .. n
      BY <2>2, <2>4, <2>6, <2>7, <2>9, <3>3
    <3> QED BY <2>5, <2>9, <3>1, <3>2, <3>3
  <2> QED BY <2>4, <2>8, <2>9 DEF Cargas
<1>2. ASSUME NEW p \in Pids, Termina(p) PROVE Cargas'
  <2>1. PICK m : m = [op |-> "libera", nodos |-> PaginasDe(p)]
    OBVIOUS
  <2>2. m \in Mensajes /\ m.op # "inicia"
    BY <2>1, PaginasDeTipo, BajaTipo DEF TiposHeap
  <2>3. estado[p] # "carga" /\ estado' = [estado EXCEPT ![p] = "fin"] /\ aMemoria' = Append(aMemoria, m)
    BY <1>2, <2>1 DEF Termina, Envia
  <2>4. \A q \in Pids : estado[q] = "carga" => estado'[q] = "carga"
    BY <2>3 DEF TiposHeap
  <2> QED BY <2>2, <2>3, <2>4, CargasQuedan
<1>3. ASSUME NEW p \in Pids, NEW n \in Tamanos, Reserva(p, n) PROVE Cargas'
  <2>1. estado[p] # "carga" /\ estado' = [estado EXCEPT ![p] = "espera"] /\ UNCHANGED aMemoria
    BY <1>3 DEF Reserva
  <2>2. \A q \in Pids : estado[q] = "carga" => estado'[q] = "carga"
    BY <2>1 DEF TiposHeap
  <2> QED BY <2>1, <2>2, CargasQuedan
<1>4. ASSUME NEW b \in bloques, Libera(b) PROVE Cargas'
  <2>1. estado[b.pid] # "carga" /\ estado' = [estado EXCEPT ![b.pid] = "espera"] /\ UNCHANGED aMemoria
    BY <1>4 DEF Libera
  <2>2. \A q \in Pids : estado[q] = "carga" => estado'[q] = "carga"
    BY <2>1 DEF TiposHeap
  <2> QED BY <2>1, <2>2, CargasQuedan
<1> QED BY <1>1, <1>2, <1>3, <1>4 DEF Programas

LEMMA CargasContesta ==
  ASSUME TiposHeap, Cargas, Contesta
  PROVE  Cargas'
<1>1. aMemoria # <<>> /\ aMemoria' = Tail(aMemoria)
  BY ContestaEs
<1>2. Primero \in Mensajes /\ Menguo(aMemoria, aMemoria') /\ 1 \in DOMAIN aMemoria /\ aMemoria[1] = Primero
  BY <1>1, PrimeroTipo
<1>3. PICK n \in Nat \ {0} : /\ DOMAIN aMemoria = 1 .. n /\ DOMAIN aMemoria' = 1 .. n - 1
                            /\ \A i \in 1 .. n - 1 : aMemoria'[i] = aMemoria[i + 1]
  BY <1>2 DEF Menguo
<1>4. \A i \in 1 .. n - 1 : i + 1 \in 1 .. n /\ i + 1 # 1
  BY <1>3
<1>5. \A i, j \in 1 .. n - 1 : i # j => i + 1 # j + 1
  BY <1>3
<1>6. \A i \in 1 .. n : aMemoria[i].op = "inicia" => aMemoria[i].nodo.pid \in Pids
  <2>1. \A i \in DOMAIN aMemoria : aMemoria[i] \in Mensajes
    BY EnLista DEF TiposHeap
  <2> QED BY <1>3, <2>1, MensajeEs DEF Paginas
<1>7. \/ UNCHANGED estado
      \/ Primero.op = "inicia" /\ estado' = [estado EXCEPT ![Primero.nodo.pid] = "corre"]
  BY ContestaEs DEF CInicia, Inicia, CPide, Asigna, CLee, CEscribe, CLibera, CRompe, Rompe, programas
<1>8. \A i \in 1 .. n : i # 1 /\ aMemoria[i].op = "inicia" => estado'[aMemoria[i].nodo.pid] = "carga"
  <2>1. CASE UNCHANGED estado
    BY <1>3, <2>1 DEF Cargas
  <2>2. CASE Primero.op = "inicia" /\ estado' = [estado EXCEPT ![Primero.nodo.pid] = "corre"]
    <3>1. \A i \in 1 .. n : i # 1 /\ aMemoria[i].op = "inicia" =>
            aMemoria[i].nodo.pid # Primero.nodo.pid /\ estado[aMemoria[i].nodo.pid] = "carga"
      BY <1>2, <1>3, <2>2 DEF Cargas
    <3> QED BY <1>6, <2>2, <3>1 DEF TiposHeap
  <2> QED BY <1>7, <2>1, <2>2
<1>9. \A i \in 1 .. n - 1 : aMemoria'[i].op = "inicia" =>
        estado'[aMemoria'[i].nodo.pid] = "carga" /\ aMemoria'[i].nodo.pagina = PaginasIniciales
  BY <1>3, <1>4, <1>8 DEF Cargas
<1>10. ASSUME NEW i \in 1 .. n - 1, NEW j \in 1 .. n - 1, j # i,
              aMemoria'[i].op = "inicia", aMemoria'[j].op = "inicia"
       PROVE  aMemoria'[j].nodo.pid # aMemoria'[i].nodo.pid
  <2>1. PICK k \in 1 .. n, l \in 1 .. n : k = i + 1 /\ l = j + 1 /\ l # k
    BY <1>4, <1>5, <1>10
  <2>2. aMemoria'[i] = aMemoria[k] /\ aMemoria'[j] = aMemoria[l]
    BY <1>3, <2>1
  <2>3. aMemoria[k].op = "inicia" /\ aMemoria[l].op = "inicia" /\ l # k
    BY <1>10, <2>1, <2>2
  <2>4. aMemoria[l].nodo.pid # aMemoria[k].nodo.pid
    BY <1>3, <2>3 DEF Cargas
  <2> QED BY <2>2, <2>4
<1> QED BY <1>3, <1>9, <1>10 DEF Cargas

LEMMA CargasHilos ==
  ASSUME TiposHeap, Lugares, Cargas, ProcesarHeap \/ LiberarHeap
  PROVE  Cargas'
<1>1. \A q \in Pids : estado[q] = "carga" => estado'[q] = "carga"
  BY HilosCambian DEF CambiaUno, TiposHeap
<1>2. UNCHANGED aMemoria \/ \E m \in Mensajes : m.op # "inicia" /\ aMemoria' = Append(aMemoria, m)
  BY HilosEnvian, PidePaginaHace
<1> QED BY <1>1, <1>2, CargasQuedan

-----------------------------------------------------------------------------
(* The invariant of the threads.                                            *)

LEMMA HilosInicio == InitHeap => InvHilos
<1> SUFFICES ASSUME InitHeap PROVE Hilos /\ TiposHeap
  BY DEF InvHilos
<1>1. TiposHeap
  BY TiposInicio
<1>2. /\ colaHeap = <<>> /\ colaLiberaHeap = <<>> /\ aMemoria = <<>> /\ pide = Ocioso /\ libera = Ocioso
      /\ mutexMemoria = "nadie" /\ sems = [meta |-> 0, pagina |-> 0, reservo |-> 0]
  BY DEF InitHeap
<1>3. DOMAIN colaHeap = {} /\ DOMAIN colaLiberaHeap = {} /\ DOMAIN aMemoria = {}
  BY <1>2
<1>4. Lugares
  BY <1>2, <1>3, OciosoTipo DEF Lugares, SinRepetidos, EnCola, Pidiendo, Liberando
<1>5. DuenioDelMutex /\ SinChoque
  BY <1>2, OciosoTipo DEF DuenioDelMutex, SinChoque, ConMutex
<1>6. RespuestasContadas
  <2>1. \A op : CuantosDe(aMemoria, op) = 0
    BY <1>3, FS_EmptySet DEF CuantosDe
  <2> QED BY <1>2, <2>1, OciosoTipo DEF RespuestasContadas, LeyendoMetadata, EsperaEscritura, Uno
<1> QED BY <1>1, <1>3, <1>4, <1>5, <1>6 DEF Hilos, PidePagina_, Cargas

LEMMA HilosPaso ==
  ASSUME InvHilos, [NextHeap]_vars
  PROVE  InvHilos'
<1>1. TiposHeap /\ TiposHeap'
  BY TiposPaso DEF InvHilos
<1>2. CASE UNCHANGED vars
  <2>1. UNCHANGED <<estado, colaHeap, colaLiberaHeap, aMemoria, sems, mutexMemoria, pide, libera, fallo>>
    BY <1>2 DEF vars, programas, respuestas
  <2>2. Lugares => Lugares'
    BY <2>1 DEF Lugares, Pidiendo, Liberando
  <2>3. Hilos => Hilos'
    BY <2>1, <2>2 DEF Hilos, DuenioDelMutex, SinChoque, RespuestasContadas, PidePagina_, Cargas
  <2> QED BY <1>1, <2>1, <2>3 DEF InvHilos
<1>3. CASE NextHeap
  <2> SUFFICES ASSUME fallo' = "no" PROVE Hilos'
    BY <1>1 DEF InvHilos
  <2>1. Hilos
    BY <1>3 DEF InvHilos, NextHeap
  <2>2. ~UsaLiberada
    BY DEF UsaLiberada
  <2>3. Programas \/ Contesta \/ ProcesarHeap \/ LiberarHeap
    BY <1>3, <2>2 DEF NextHeap
  <2>4. Lugares'
    BY <1>1, <2>1, <2>3, LugaresProgramas, LugaresContesta, LugaresPide, LugaresLibera DEF Hilos
  <2>5. DuenioDelMutex' /\ SinChoque'
    BY <1>1, <2>1, <2>3, MutexPide, MutexLibera, MutexResto DEF Hilos
  <2>6. RespuestasContadas'
    BY <1>1, <2>1, <2>3, RespuestasPide, RespuestasLibera, RespuestasProgramas, RespuestasContesta DEF Hilos
  <2>7. PidePagina_'
    BY <1>1, <2>1, <2>3, <2>6, PidePaginaPaso DEF Hilos
  <2>8. Cargas'
    BY <1>1, <2>1, <2>3, CargasProgramas, CargasContesta, CargasHilos DEF Hilos
  <2> QED BY <2>4, <2>5, <2>6, <2>7, <2>8 DEF Hilos
<1> QED BY <1>2, <1>3

-----------------------------------------------------------------------------
(* The frames, when Memoria gives and takes none.                           *)

tablas == <<punteroMemoria, overflow, framesLibres, ultimaPaginaPid>>

LEMMA TablaQueda ==
  ASSUME TablaBien, UNCHANGED tablas
  PROVE  TablaBien'
  BY DEF TablaBien, tablas, Libres, EstaLibre, Marco, CalcularPosicion, Frames, Nada, Paginas

LEMMA DadasQuedan ==
  ASSUME PaginasDadas, UNCHANGED tablas, Cargados' \subseteq Cargados
  PROVE  PaginasDadas'
<1>1. \A i \in Nat : \A p \in Pids : EnSuMarco(Pagina(p, i)) => EnSuMarco(Pagina(p, i))'
  BY DEF EnSuMarco, Marco, CalcularPosicion, tablas
<1>2. \A p \in Cargados : p \in Pids
  BY DEF Cargados
<1> QED BY <1>1, <1>2 DEF PaginasDadas, tablas

\* The messages stay, one that frees nothing comes, or the first one leaves.
SinBajas ==
  \/ UNCHANGED aMemoria
  \/ \E m \in Mensajes : m.op # "libera" /\ aMemoria' = Append(aMemoria, m)
  \/ aMemoria # <<>> /\ aMemoria' = Tail(aMemoria)

LEMMA BajasQuedan ==
  ASSUME TiposHeap, Bajas, SinBajas,
         \A q \in Pids : estado[q] = "fin" => estado'[q] = "fin",
         \A i \in DOMAIN aMemoria' : aMemoria'[i].op = "libera" =>
           \A n \in aMemoria'[i].nodos : EnSuMarco(n) => EnSuMarco(n)'
  PROVE  Bajas'
<1>1. \A i \in DOMAIN aMemoria : aMemoria[i].op = "libera" =>
        \A n \in aMemoria[i].nodos : n.pid \in Pids
  <2>1. \A i \in DOMAIN aMemoria : aMemoria[i] \in Mensajes
    BY EnLista DEF TiposHeap
  <2> QED BY <2>1, MensajeEs DEF Paginas
<1>2. \E d : /\ \A i \in DOMAIN aMemoria' : aMemoria'[i].op = "libera" =>
                  d[i] \in DOMAIN aMemoria /\ aMemoria'[i] = aMemoria[d[i]]
             /\ \A i, j \in DOMAIN aMemoria' : i # j => d[i] # d[j]
  <2>1. CASE UNCHANGED aMemoria
    <3>1. PICK d : d = [i \in DOMAIN aMemoria |-> i]
      OBVIOUS
    <3> QED BY <2>1, <3>1
  <2>2. CASE \E m \in Mensajes : m.op # "libera" /\ aMemoria' = Append(aMemoria, m)
    <3>1. PICK m \in Mensajes : m.op # "libera" /\ aMemoria' = Append(aMemoria, m)
      BY <2>2
    <3>2. PICK n \in Nat : /\ DOMAIN aMemoria = 1 .. n /\ DOMAIN aMemoria' = 1 .. n + 1
                           /\ aMemoria'[n + 1] = m /\ \A i \in 1 .. n : aMemoria'[i] = aMemoria[i]
      BY <3>1, EnviaTipo DEF TiposHeap, Crecio
    <3>3. PICK d : d = [i \in 1 .. n + 1 |-> i]
      OBVIOUS
    <3>4. \A i \in 1 .. n + 1 : i \in 1 .. n \/ i = n + 1
      BY <3>2
    <3>5. \A i \in 1 .. n + 1 : d[i] = i
      BY <3>3
    <3>6. \A i \in 1 .. n + 1 : aMemoria'[i].op = "libera" =>
            d[i] \in 1 .. n /\ aMemoria'[i] = aMemoria[d[i]]
      BY <3>1, <3>2, <3>4, <3>5
    <3>7. \A i, j \in 1 .. n + 1 : i # j => d[i] # d[j]
      BY <3>5
    <3>8. /\ \A i \in DOMAIN aMemoria' : aMemoria'[i].op = "libera" =>
                d[i] \in DOMAIN aMemoria /\ aMemoria'[i] = aMemoria[d[i]]
          /\ \A i, j \in DOMAIN aMemoria' : i # j => d[i] # d[j]
      BY <3>2, <3>6, <3>7
    <3> QED BY <3>8
  <2>3. CASE aMemoria # <<>> /\ aMemoria' = Tail(aMemoria)
    <3>1. PICK n \in Nat \ {0} : /\ DOMAIN aMemoria = 1 .. n /\ DOMAIN aMemoria' = 1 .. n - 1
                                /\ \A i \in 1 .. n - 1 : aMemoria'[i] = aMemoria[i + 1]
      BY <2>3, PrimeroTipo DEF Menguo
    <3>2. PICK d : d = [i \in 1 .. n - 1 |-> i + 1]
      OBVIOUS
    <3>3. \A i \in 1 .. n - 1 : i + 1 \in 1 .. n
      BY <3>1
    <3>4. \A i \in 1 .. n - 1 : d[i] = i + 1
      BY <3>2
    <3>5. \A i \in 1 .. n - 1 : aMemoria'[i].op = "libera" =>
            d[i] \in 1 .. n /\ aMemoria'[i] = aMemoria[d[i]]
      BY <3>1, <3>3, <3>4
    <3>6. \A i, j \in 1 .. n - 1 : i # j => d[i] # d[j]
      BY <3>1, <3>4
    <3>7. /\ \A i \in DOMAIN aMemoria' : aMemoria'[i].op = "libera" =>
               d[i] \in DOMAIN aMemoria /\ aMemoria'[i] = aMemoria[d[i]]
          /\ \A i, j \in DOMAIN aMemoria' : i # j => d[i] # d[j]
      BY ONLY <3>1, <3>5, <3>6
    <3> QED BY <3>7
  <2> QED BY <2>1, <2>2, <2>3 DEF SinBajas
<1>3. PICK d : /\ \A i \in DOMAIN aMemoria' : aMemoria'[i].op = "libera" =>
                    d[i] \in DOMAIN aMemoria /\ aMemoria'[i] = aMemoria[d[i]]
               /\ \A i, j \in DOMAIN aMemoria' : i # j => d[i] # d[j]
  BY <1>2
<1> SUFFICES ASSUME NEW i \in DOMAIN aMemoria', aMemoria'[i].op = "libera"
             PROVE  /\ IsFiniteSet(aMemoria'[i].nodos)
                    /\ \A n \in aMemoria'[i].nodos : estado'[n.pid] = "fin" /\ EnSuMarco(n)'
                    /\ \A j \in DOMAIN aMemoria' : j # i /\ aMemoria'[j].op = "libera" =>
                         aMemoria'[j].nodos \cap aMemoria'[i].nodos = {}
  BY DEF Bajas
<1>4. PICK k \in DOMAIN aMemoria : k = d[i] /\ aMemoria'[i] = aMemoria[k]
  BY <1>3
<1>5. IsFiniteSet(aMemoria[k].nodos) /\ \A n \in aMemoria[k].nodos : estado[n.pid] = "fin" /\ EnSuMarco(n)
  BY <1>4 DEF Bajas
<1>6. \A n \in aMemoria'[i].nodos : estado'[n.pid] = "fin" /\ EnSuMarco(n)'
  BY <1>1, <1>4, <1>5
<1>7. ASSUME NEW j \in DOMAIN aMemoria', j # i, aMemoria'[j].op = "libera"
      PROVE  aMemoria'[j].nodos \cap aMemoria'[i].nodos = {}
  <2>1. PICK l \in DOMAIN aMemoria : l = d[j] /\ aMemoria'[j] = aMemoria[l]
    BY <1>3, <1>7
  <2>2. l # k
    BY <1>3, <1>4, <1>7, <2>1
  <2> QED BY <1>4, <1>7, <2>1, <2>2 DEF Bajas
<1> QED BY <1>4, <1>5, <1>6, <1>7

\* What a step of the threads does to the programs.
LEMMA CambiaUnoDa ==
  ASSUME TiposHeap, CambiaUno
  PROVE  /\ Cargados' = Cargados
         /\ \A q \in Pids : /\ estado[q] # "espera" => estado'[q] = estado[q]
                            /\ estado[q] = "espera" => estado'[q] \in {"espera", "corre", "aborta"}
<1>1. CASE UNCHANGED estado
  BY <1>1 DEF Cargados
<1>2. CASE ~UNCHANGED estado
  <2>1. PICK p \in Pids, e \in {"corre", "aborta"} : estado[p] = "espera" /\ estado' = [estado EXCEPT ![p] = e]
    BY <1>2 DEF CambiaUno
  <2>2. estado'[p] = e /\ \A q \in Pids \ {p} : estado'[q] = estado[q]
    BY <2>1 DEF TiposHeap
  <2> QED BY <2>1, <2>2 DEF Cargados
<1> QED BY <1>1, <1>2

\* The entries of the pages, but for their space, are as they were.
MismasEntradas ==
  /\ DOMAIN listaAdmHeap' = DOMAIN listaAdmHeap
  /\ \A j \in DOMAIN listaAdmHeap :
       listaAdmHeap'[j].pid = listaAdmHeap[j].pid /\ listaAdmHeap'[j].pagina = listaAdmHeap[j].pagina

LEMMA AdministradasQuedan ==
  ASSUME TiposHeap, Administradas, MismasEntradas, UNCHANGED ultimaPaginaPid, Cargados' \subseteq Cargados,
         \A q \in Pids : estado[q] \notin {"nuevo", "carga"} => estado'[q] \notin {"nuevo", "carga"}
  PROVE  Administradas'
<1>1. \A j \in DOMAIN listaAdmHeap : listaAdmHeap[j].pid \in Pids
  <2>1. \A j \in DOMAIN listaAdmHeap : listaAdmHeap[j] \in Entradas
    BY EnLista DEF TiposHeap
  <2> QED BY <2>1 DEF Entradas
<1> QED BY <1>1 DEF Administradas, MismasEntradas

LEMMA EntradasQuedan ==
  (UNCHANGED listaAdmHeap \/ \E i, x : Ajusta(listaAdmHeap, listaAdmHeap', i, x)) => MismasEntradas
  BY DEF MismasEntradas, Ajusta

\* The counts of the pages, when nobody counts one.
LEMMA CuentaQueda ==
  ASSUME TiposHeap, MismaCuenta, UNCHANGED <<ultimaPagina, ultimaPaginaPid>>,
         \A q \in Pids : estado'[q] \in {"nuevo", "carga"} => estado[q] \in {"nuevo", "carga"},
         \A q \in Pids : estado'[q] \in {"corre", "espera"} => estado[q] \in {"corre", "espera"},
         \A q \in Pids : estado'[q] \in {"corre", "espera"} /\ q \in Pidiendo /\ pide.pc \in PidiendoPagina =>
           (q \in Pidiendo' /\ pide'.pc \in PidiendoPagina) \/ ultimaPagina[q] = ultimaPaginaPid[q],
         CuentaDePide'
  PROVE  MismaCuenta'
  BY DEF MismaCuenta

LEMMA MarcosProgramas ==
  ASSUME TiposHeap, Hilos, Marcos, Programas
  PROVE  Marcos'
<1> USE DEF Marcos, Hilos
<1>1. UNCHANGED tablas /\ UNCHANGED <<pide, libera, listaAdmHeap, ultimaPagina, abortoPorFaltaDeMemoria, sems>>
  BY DEF Programas, Llega, Termina, Reserva, Libera, memoria, tablas, admin, respuestas
<1>2. TablaBien'
  BY <1>1, TablaQueda
<1>3. PaginaConcedida'
  BY <1>1 DEF PaginaConcedida
<1>4. CuentaDePide' /\ Pidiendo' = Pidiendo
  BY <1>1 DEF CuentaDePide, MismaCuenta, tablas, Pidiendo
<1>5. \A n : EnSuMarco(n) => EnSuMarco(n)'
  BY <1>1 DEF EnSuMarco, Marco, CalcularPosicion, tablas
<1>6. ASSUME NEW p \in Pids, NEW e \in Estados, estado' = [estado EXCEPT ![p] = e],
             \/ e = "carga" /\ estado[p] = "nuevo"
             \/ e = "espera" /\ estado[p] = "corre"
             \/ e = "fin" /\ estado[p] \in {"corre", "aborta"}
      PROVE  PaginasDadas' /\ Administradas' /\ MismaCuenta'
  <2>1. estado'[p] = e /\ \A q \in Pids \ {p} : estado'[q] = estado[q]
    BY <1>6 DEF TiposHeap
  <2>2. Cargados' \subseteq Cargados
    BY <1>6, <2>1 DEF Cargados
  <2>3. PaginasDadas'
    BY <1>1, <2>2, DadasQuedan
  <2>4. Administradas'
    BY <1>1, <1>6, <2>1, <2>2, EntradasQuedan, AdministradasQuedan DEF tablas
  <2>5. MismaCuenta'
    BY <1>1, <1>4, <1>6, <2>1, CuentaQueda DEF tablas
  <2> QED BY <2>3, <2>4, <2>5
<1>7. ASSUME NEW p \in Pids, Llega(p) PROVE Marcos'
  <2>1. estado[p] = "nuevo" /\ estado' = [estado EXCEPT ![p] = "carga"]
        /\ aMemoria' = Append(aMemoria, Mensaje("inicia", Pagina(p, PaginasIniciales), 0, Otro))
    BY <1>7 DEF Llega, Envia
  <2>2. PICK m : m = Mensaje("inicia", Pagina(p, PaginasIniciales), 0, Otro)
    OBVIOUS
  <2>3. m \in Mensajes /\ m.op # "libera"
    BY <2>2, PaginaTipo, MensajeTipo, CeldaTipo, PaginasSupuesto
  <2>4. \A q \in Pids : estado[q] = "fin" => estado'[q] = "fin"
    BY <2>1 DEF TiposHeap
  <2>5. Bajas'
    BY <1>5, <2>1, <2>2, <2>3, <2>4, BajasQuedan DEF SinBajas
  <2> QED BY <1>2, <1>3, <1>6, <2>1, <2>5 DEF Estados
<1>8. ASSUME NEW p \in Pids, NEW n \in Tamanos, Reserva(p, n) PROVE Marcos'
  <2>1. estado[p] = "corre" /\ estado' = [estado EXCEPT ![p] = "espera"] /\ UNCHANGED aMemoria
    BY <1>8 DEF Reserva
  <2>2. \A q \in Pids : estado[q] = "fin" => estado'[q] = "fin"
    BY <2>1 DEF TiposHeap
  <2>3. Bajas'
    BY <1>5, <2>1, <2>2, BajasQuedan DEF SinBajas
  <2> QED BY <1>2, <1>3, <1>6, <2>1, <2>3 DEF Estados
<1>9. ASSUME NEW b \in bloques, Libera(b) PROVE Marcos'
  <2>1. estado[b.pid] = "corre" /\ estado' = [estado EXCEPT ![b.pid] = "espera"] /\ UNCHANGED aMemoria
    BY <1>9 DEF Libera
  <2>2. b.pid \in Pids
    BY BloqueTipo DEF TiposHeap
  <2>3. \A q \in Pids : estado[q] = "fin" => estado'[q] = "fin"
    BY <2>1 DEF TiposHeap
  <2>4. Bajas'
    BY <1>5, <2>1, <2>3, BajasQuedan DEF SinBajas
  <2> QED BY <1>2, <1>3, <1>6, <2>1, <2>2, <2>4 DEF Estados
<1>10. ASSUME NEW p \in Pids, Termina(p) PROVE Marcos'
  <2>1. estado[p] \in {"corre", "aborta"} /\ estado' = [estado EXCEPT ![p] = "fin"]
        /\ aMemoria' = Append(aMemoria, [op |-> "libera", nodos |-> PaginasDe(p)])
    BY <1>10 DEF Termina, Envia
  <2>2. PICK m : m = [op |-> "libera", nodos |-> PaginasDe(p)]
    OBVIOUS
  <2>3. m \in Mensajes /\ m.op = "libera" /\ m.nodos = PaginasDe(p)
    BY <2>2, PaginasDeTipo, BajaTipo DEF TiposHeap
  <2>4. estado'[p] = "fin" /\ \A q \in Pids : estado[q] = "fin" => estado'[q] = "fin" /\ q # p
    BY <2>1 DEF TiposHeap
  <2>5. p \in Cargados
    BY <2>1 DEF Cargados
  <2>6. \A n \in PaginasDe(p) : n.pid = p /\ EnSuMarco(n)
    <3>1. \A i \in Nat : i < ultimaPaginaPid[p] => EnSuMarco(Pagina(p, i))
      BY <2>5 DEF PaginasDadas
    <3>2. ultimaPaginaPid[p] \in Nat /\ PaginasIniciales <= ultimaPaginaPid[p]
      BY <2>5 DEF PaginasDadas
    <3>3. \A i \in 1 .. PaginasIniciales - 1 : i \in Nat /\ i < ultimaPaginaPid[p]
      BY <3>2, PaginasSupuesto
    <3>4. \A j \in DOMAIN listaAdmHeap : listaAdmHeap[j].pid = p =>
            listaAdmHeap[j].pagina \in Nat /\ listaAdmHeap[j].pagina < ultimaPaginaPid[p]
      <4>1. \A j \in DOMAIN listaAdmHeap : listaAdmHeap[j] \in Entradas
        BY EnLista DEF TiposHeap
      <4> QED BY <2>5, <4>1 DEF Administradas, Entradas
    <3>5. \A i \in Nat : Pagina(p, i).pid = p
      BY PaginaTipo
    <3> QED BY <3>1, <3>3, <3>4, <3>5 DEF PaginasDe
  <2>7. IsFiniteSet(PaginasDe(p))
    <3>1. PICK n \in Nat : DOMAIN listaAdmHeap = 1 .. n
      BY LenProperties DEF TiposHeap
    <3>2. IsFiniteSet(1 .. PaginasIniciales - 1) /\ IsFiniteSet(1 .. n)
      BY <3>1, PaginasSupuesto, FS_Interval
    <3>3. IsFiniteSet({Pagina(p, i) : i \in 1 .. PaginasIniciales - 1})
      <4> DEFINE I == 1 .. PaginasIniciales - 1
      <4>1. PICK f : f = [i \in I |-> Pagina(p, i)]
        OBVIOUS
      <4>2. DOMAIN f = I /\ \A i \in I : f[i] = Pagina(p, i)
        BY <4>1
      <4>3. IsFiniteSet(I)
        BY <3>2
      <4> HIDE DEF I
      <4>4. IsFiniteSet({f[i] : i \in I})
        BY <4>2, <4>3, ImagenFinita
      <4>5. {f[i] : i \in I} = {Pagina(p, i) : i \in I}
        BY <4>2
      <4> QED BY <4>4, <4>5 DEF I
    <3> DEFINE J == {k \in DOMAIN listaAdmHeap : listaAdmHeap[k].pid = p}
    <3>4. IsFiniteSet(J)
      BY <3>1, <3>2, FS_Subset
    <3> HIDE DEF J
    <3>5. IsFiniteSet({Pagina(p, listaAdmHeap[j].pagina) : j \in J})
      <4>1. PICK f : f = [j \in J |-> Pagina(p, listaAdmHeap[j].pagina)]
        OBVIOUS
      <4>2. DOMAIN f = J /\ \A j \in J : f[j] = Pagina(p, listaAdmHeap[j].pagina)
        BY <4>1
      <4>3. IsFiniteSet({f[j] : j \in J})
        BY <3>4, <4>2, ImagenFinita
      <4>4. {f[j] : j \in J} = {Pagina(p, listaAdmHeap[j].pagina) : j \in J}
        BY <4>2
      <4> QED BY <4>3, <4>4
    <3>6. IsFiniteSet({Pagina(p, i) : i \in 1 .. PaginasIniciales - 1}
                        \cup {Pagina(p, listaAdmHeap[j].pagina) : j \in J})
      BY <3>3, <3>5, FS_Union
    <3> QED BY <3>6 DEF PaginasDe, J
  <2>8. PICK k \in Nat : /\ DOMAIN aMemoria = 1 .. k /\ DOMAIN aMemoria' = 1 .. k + 1
                         /\ aMemoria'[k + 1] = m /\ \A i \in 1 .. k : aMemoria'[i] = aMemoria[i]
    BY <2>1, <2>2, <2>3, EnviaTipo DEF TiposHeap, Crecio
  <2>9. \A i \in 1 .. k + 1 : i \in 1 .. k \/ i = k + 1
    BY <2>8
  <2>10. \A i \in 1 .. k : aMemoria[i].op = "libera" =>
           \A n \in aMemoria[i].nodos : estado[n.pid] = "fin" /\ n.pid \in Pids /\ EnSuMarco(n)
    <3>1. \A i \in DOMAIN aMemoria : aMemoria[i] \in Mensajes
      BY EnLista DEF TiposHeap
    <3> QED BY <2>8, <3>1, MensajeEs DEF Bajas, Paginas
  <2>11. \A i \in 1 .. k : aMemoria[i].op = "libera" => aMemoria[i].nodos \cap PaginasDe(p) = {}
    BY <2>4, <2>6, <2>10
  <2>12. Bajas'
    <3> SUFFICES ASSUME NEW i \in 1 .. k + 1, aMemoria'[i].op = "libera"
                 PROVE  /\ IsFiniteSet(aMemoria'[i].nodos)
                        /\ \A n \in aMemoria'[i].nodos : estado'[n.pid] = "fin" /\ EnSuMarco(n)'
                        /\ \A j \in 1 .. k + 1 : j # i /\ aMemoria'[j].op = "libera" =>
                             aMemoria'[j].nodos \cap aMemoria'[i].nodos = {}
      BY <2>8 DEF Bajas
    <3>1. CASE i = k + 1
      BY <1>5, <2>3, <2>4, <2>6, <2>7, <2>8, <2>9, <2>11, <3>1
    <3>2. CASE i \in 1 .. k
      <4>1. aMemoria'[i] = aMemoria[i] /\ aMemoria[i].op = "libera" /\ IsFiniteSet(aMemoria[i].nodos)
            /\ \A j \in 1 .. k : j # i /\ aMemoria[j].op = "libera" => aMemoria[j].nodos \cap aMemoria[i].nodos = {}
        BY <2>8, <3>2 DEF Bajas
      <4>2. \A j \in 1 .. k : aMemoria'[j] = aMemoria[j]
        BY <2>8
      <4>3. \A n \in aMemoria[i].nodos : estado'[n.pid] = "fin" /\ EnSuMarco(n)'
        BY <1>5, <2>4, <2>10, <3>2, <4>1
      <4> QED BY <2>3, <2>8, <2>9, <2>11, <3>2, <4>1, <4>2, <4>3
    <3> QED BY <2>9, <3>1, <3>2
  <2> QED BY <1>2, <1>3, <1>6, <2>1, <2>12 DEF Estados
<1> QED BY <1>7, <1>8, <1>9, <1>10 DEF Programas

-----------------------------------------------------------------------------
(* The frames, when the threads go on.                                      *)

LEMMA TablasHilos ==
  ASSUME TiposHeap, Lugares, Marcos, ProcesarHeap \/ LiberarHeap
  PROVE  TablaBien' /\ PaginasDadas' /\ Bajas' /\ UNCHANGED ultimaPaginaPid
<1>1. UNCHANGED memoria /\ CambiaUno
  BY HilosEnvian, HilosCambian
<1>2. UNCHANGED tablas
  BY <1>1 DEF memoria, tablas
<1>3. Cargados' = Cargados /\ \A q \in Pids : estado[q] = "fin" => estado'[q] = "fin"
  BY <1>1, CambiaUnoDa
<1>4. SinBajas
  <2>1. ASSUME PidePagina
        PROVE  \E m \in Mensajes : m.op # "libera" /\ aMemoria' = Append(aMemoria, m)
    <3>1. PICK m \in Mensajes : m.op = "pide" /\ aMemoria' = Append(aMemoria, m)
      BY <2>1, PidePaginaHace
    <3> QED BY <3>1
  <2> QED BY <2>1, HilosEnvian DEF SinBajas
<1>5. \A n : EnSuMarco(n) => EnSuMarco(n)'
  BY <1>2 DEF EnSuMarco, Marco, CalcularPosicion, tablas
<1>6. TablaBien'
  BY <1>2, TablaQueda DEF Marcos
<1>7. PaginasDadas'
  BY <1>2, <1>3, DadasQuedan DEF Marcos
<1>8. Bajas'
  BY <1>3, <1>4, <1>5, BajasQuedan DEF Marcos
<1> QED BY <1>2, <1>6, <1>7, <1>8 DEF tablas

\* The program of procesarHeap waits for it.
LEMMA PideEspera ==
  ASSUME TiposHeap, Lugares, pide.pc # "espera"
  PROVE  /\ pide \in Buscando /\ pide.pid \in Pids /\ pide.pagina \in Nat
         /\ Pidiendo = {pide.pid} /\ estado[pide.pid] = "espera" /\ pide.pid \in Cargados
<1>1. pide \in Buscando /\ Pidiendo = {pide.pid}
  BY HiloTipo DEF TiposHeap, Pidiendo
<1>2. estado[pide.pid] = "espera"
  BY <1>1 DEF Lugares
<1> QED BY <1>1, <1>2, BuscandoTipo DEF Cargados

\* Only a page that is new has an entry that is new.
LEMMA HilosListan ==
  ASSUME TiposHeap, ProcesarHeap \/ LiberarHeap
  PROVE  MismasEntradas \/ PideRegistra
<1>1. PideToma \/ PideCompactado \/ PidePagina \/ PideReservada \/ PideReserva \/ PideCabecera
        \/ PideResto \/ PideTermina => MismasEntradas
  BY PideTomaHace, PideCompactadoHace, PidePaginaHace, PideReservadaHace, PideReservaHace,
     PideCabeceraHace, PideRestoHace, PideTerminaHace, EntradasQuedan
<1>2. PideActual \/ PideSiguiente \/ PideBloque => MismasEntradas
  BY EntradasQuedan DEF PideActual, PideSiguiente, PideBloque, PideRecibe, admin
<1>3. LiberarHeap => MismasEntradas
  BY LiberaTomaHace, LiberaLeeHace, LiberaEscribeHace, LiberaEscritoHace, LiberaListaHace,
     EntradasQuedan DEF LiberarHeap
<1> QED BY <1>1, <1>2, <1>3 DEF ProcesarHeap

LEMMA AdministradasHilos ==
  ASSUME TiposHeap, Lugares, Marcos, ProcesarHeap \/ LiberarHeap
  PROVE  Administradas'
<1>1. UNCHANGED ultimaPaginaPid
  BY TablasHilos
<1>2. /\ Cargados' = Cargados
      /\ \A q \in Pids : estado[q] \notin {"nuevo", "carga"} => estado'[q] \notin {"nuevo", "carga"}
  <2>1. CambiaUno
    BY HilosCambian
  <2> QED BY <2>1, CambiaUnoDa
<1>3. CASE MismasEntradas
  BY <1>1, <1>2, <1>3, AdministradasQuedan DEF Marcos
<1>4. CASE PideRegistra
  <2>1. PICK e \in Entradas : /\ e.pid = pide.pid /\ e.pagina = pide.pagina
                              /\ listaAdmHeap' = Append(listaAdmHeap, e)
    BY <1>4, PideRegistraHace
  <2>2. UNCHANGED estado /\ pide.pc = "paginaNueva"
    BY <1>4, PideRegistraHace
  <2>3. pide.pid \in Pids /\ pide.pagina \in Nat /\ estado[pide.pid] = "espera" /\ pide.pid \in Cargados
    BY <2>2, PideEspera
  <2>4. pide.pagina < ultimaPaginaPid[pide.pid]
    <3>1. ultimaPaginaPid[pide.pid] \in Nat
      BY <2>3 DEF Marcos, PaginasDadas
    <3> QED BY <2>2, <2>3, <3>1 DEF Marcos, MismaCuenta, CuentaDePide
  <2>5. Crecio(listaAdmHeap, e, listaAdmHeap')
    BY <2>1, ColaCrece DEF TiposHeap
  <2>6. PICK n \in Nat : /\ DOMAIN listaAdmHeap = 1 .. n /\ DOMAIN listaAdmHeap' = 1 .. n + 1
                         /\ listaAdmHeap'[n + 1] = e
                         /\ \A i \in 1 .. n : listaAdmHeap'[i] = listaAdmHeap[i]
    BY <2>5 DEF Crecio
  <2>7. \A i \in 1 .. n + 1 : i \in 1 .. n \/ i = n + 1
    BY <2>6
  <2>8. \A i \in 1 .. n + 1 :
          LET x == listaAdmHeap'[i]
          IN  x.pid \in Pids => /\ estado[x.pid] \notin {"nuevo", "carga"}
                                /\ x.pid \in Cargados => x.pagina < ultimaPaginaPid[x.pid]
    BY <2>1, <2>3, <2>4, <2>6, <2>7 DEF Marcos, Administradas
  <2>9. \A i \in 1 .. n + 1 : listaAdmHeap'[i].pid \in Pids
    <3>1. \A i \in 1 .. n : listaAdmHeap[i] \in Entradas
      BY <2>6, EnLista DEF TiposHeap
    <3> QED BY <2>1, <2>3, <2>6, <2>7, <3>1 DEF Entradas
  <2>10. Cargados' = Cargados
    BY <1>2
  <2> QED BY <1>1, <2>2, <2>6, <2>8, <2>9, <2>10 DEF Administradas
<1> QED BY <1>3, <1>4, HilosListan

\* The pages are counted as they were, when procesarHeap does not ask for one.
LEMMA CuentaSinPedir ==
  ASSUME TiposHeap, Lugares, MismaCuenta, CambiaUno, UNCHANGED <<ultimaPagina, ultimaPaginaPid>>,
         pide.pc \notin PidiendoPagina,
         \/ pide'.pc \notin PidiendoPagina
         \/ pide.pc # "espera" /\ pide'.pc = "bloque" /\ pide'.pid = pide.pid
  PROVE  MismaCuenta'
<1>1. \A q \in Pids : /\ estado'[q] \in {"nuevo", "carga"} => estado[q] \in {"nuevo", "carga"}
                      /\ estado'[q] \in {"corre", "espera"} => estado[q] \in {"corre", "espera"}
  <2>1. \A q \in Pids : /\ estado[q] # "espera" => estado'[q] = estado[q]
                        /\ estado[q] = "espera" => estado'[q] \in {"espera", "corre", "aborta"}
    BY CambiaUnoDa
  <2> QED BY <2>1
<1>2. CuentaDePide'
  <2>1. CASE pide'.pc \notin PidiendoPagina
    BY <2>1 DEF CuentaDePide, PidiendoPagina
  <2>2. CASE pide.pc # "espera" /\ pide'.pc = "bloque" /\ pide'.pid = pide.pid
    <3>1. pide.pid \in Pids /\ estado[pide.pid] = "espera"
      BY <2>2, PideEspera
    <3>2. ultimaPagina[pide.pid] = ultimaPaginaPid[pide.pid]
      BY <3>1 DEF MismaCuenta
    <3> QED BY <2>2, <3>2 DEF CuentaDePide
  <2> QED BY <2>1, <2>2
<1> QED BY <1>1, <1>2, CuentaQueda

LEMMA CuentaPide ==
  ASSUME TiposHeap, Lugares, RespuestasContadas, Marcos, ProcesarHeap
  PROVE  MismaCuenta' /\ PaginaConcedida'
<1>1. CambiaUno /\ UNCHANGED ultimaPaginaPid
  BY HilosCambian, TablasHilos
<1>2. ASSUME UNCHANGED ultimaPagina, pide.pc \notin PidiendoPagina,
             \/ pide'.pc \notin PidiendoPagina
             \/ pide.pc # "espera" /\ pide'.pc = "bloque" /\ pide'.pid = pide.pid
      PROVE  MismaCuenta' /\ PaginaConcedida'
  <2>1. MismaCuenta'
    BY <1>1, <1>2, CuentaSinPedir DEF Marcos
  <2> QED BY <1>2, <2>1 DEF PaginaConcedida, PidiendoPagina
<1>3. CASE PideToma
  <2>1. pide'.pc \in {"espera", "leeActual", "leeBloque", "sinLugar"}
    BY <1>3, PideTomaHace, VerificaSigue, OciosoTipo
  <2> QED BY <1>2, <1>3, <2>1, PideTomaHace DEF PidiendoPagina
<1>4. CASE PideActual
  <2>1. UNCHANGED ultimaPagina /\ pide.pc = "leeActual"
    BY <1>4 DEF PideActual, PideRecibe, admin
  <2>2. pide'.pc = "leeSiguiente"
    BY <1>4, PideActualHace DEF Lee
  <2> QED BY <1>2, <2>1, <2>2 DEF PidiendoPagina
<1>5. CASE PideSiguiente
  <2>1. UNCHANGED ultimaPagina /\ pide.pc = "leeSiguiente"
    BY <1>5 DEF PideSiguiente, PideRecibe, admin
  <2>2. pide'.pc \in {"compactado", "leeActual", "leeBloque"}
    BY <1>5, PideSiguienteHace, EmpiezaSigue
  <2> QED BY <1>2, <2>1, <2>2 DEF PidiendoPagina
<1>6. CASE PideCompactado
  <2>1. pide'.pc \in {"leeActual", "leeBloque"}
    BY <1>6, PideCompactadoHace, EmpiezaSigue
  <2> QED BY <1>2, <1>6, <2>1, PideCompactadoHace DEF PidiendoPagina
<1>7. CASE PideBloque
  <2>1. UNCHANGED ultimaPagina /\ pide.pc = "leeBloque"
    BY <1>7 DEF PideBloque, PideRecibe, admin
  <2>2. pide'.pid = pide.pid /\ pide'.pc \in {"bloque", "leeActual", "leeBloque", "sinLugar"}
    BY <1>7, PideBloqueHace, VerificaSigue DEF Lee, Sigue
  <2> QED BY <1>2, <2>1, <2>2 DEF PidiendoPagina
<1>8. CASE PidePagina
  <2> USE PidePaginaHace
  <2> DEFINE p == pide.pid
  <2>1. p \in Pids /\ Pidiendo = {p} /\ estado[p] = "espera" /\ p \in Cargados
    BY <1>8, PideEspera
  <2>2. pide'.pid = p /\ pide'.pc = "reservaPagina" /\ pide'.pagina = ultimaPagina[p]
        /\ ultimaPagina' = [ultimaPagina EXCEPT ![p] = ultimaPagina[p] + 1]
        /\ UNCHANGED <<estado, sems>> /\ pide.pc = "sinLugar"
    BY <1>8
  <2>3. ultimaPagina[p] = ultimaPaginaPid[p]
    BY <2>1, <2>2 DEF Marcos, MismaCuenta, PidiendoPagina
  <2>4. ultimaPagina'[p] = ultimaPagina[p] + 1 /\ \A q \in Pids \ {p} : ultimaPagina'[q] = ultimaPagina[q]
    BY <2>1, <2>2 DEF TiposHeap
  <2>5. sems.reservo = 0
    <3>1. CuantosDe(aMemoria, "pide") \in Nat /\ sems.reservo \in Nat
      BY QuietoCuenta, LenProperties, SitioFinito DEF TiposHeap
    <3>2. Uno(pide.pc = "reservaPagina") = 0
      BY <2>2 DEF Uno
    <3>3. sems.reservo + CuantosDe(aMemoria, "pide") = 0
      BY <3>2 DEF RespuestasContadas
    <3> QED BY <3>1, <3>3
  <2>6. Pidiendo' = {p}
    BY <2>2 DEF Pidiendo
  <2> HIDE DEF p
  <2>7. CuentaDePide'
    BY <1>1, <2>2, <2>3, <2>4, <2>5 DEF CuentaDePide
  <2>8. \A q \in Pids :
          /\ estado'[q] \in {"nuevo", "carga"} => ultimaPagina'[q] = PaginasIniciales
          /\ estado'[q] \in {"corre", "espera"} /\ ~(q \in Pidiendo' /\ pide'.pc \in PidiendoPagina) =>
               ultimaPagina'[q] = ultimaPaginaPid'[q]
    BY <1>1, <2>1, <2>2, <2>4, <2>6 DEF Marcos, MismaCuenta, PidiendoPagina
  <2> QED BY <2>2, <2>7, <2>8 DEF MismaCuenta, PaginaConcedida
<1>9. CASE PideReservada
  <2>1. /\ pide.pc = "reservaPagina" /\ sems.reservo > 0 /\ pide'.pid = pide.pid /\ pide'.pagina = pide.pagina
        /\ \/ abortoPorFaltaDeMemoria = 0 /\ pide'.pc = "paginaNueva"
           \/ abortoPorFaltaDeMemoria = 1 /\ pide'.pc = "bloque"
        /\ UNCHANGED <<estado, ultimaPagina, abortoPorFaltaDeMemoria>>
    BY <1>9, PideReservadaHace DEF Sigue
  <2>2. Pidiendo' = Pidiendo /\ pide'.pc \in PidiendoPagina
    BY <2>1 DEF Pidiendo, PidiendoPagina
  <2>3. CuentaDePide'
    BY <1>1, <2>1 DEF Marcos, MismaCuenta, CuentaDePide
  <2>4. MismaCuenta'
    BY <1>1, <2>1, <2>2, <2>3, CuentaQueda DEF Marcos
  <2> QED BY <2>1, <2>4 DEF PaginaConcedida
<1>10. CASE PideRegistra
  <2>1. /\ pide.pc = "paginaNueva" /\ pide'.pid = pide.pid /\ pide'.pc = "bloque"
        /\ UNCHANGED <<estado, ultimaPagina, abortoPorFaltaDeMemoria>>
    BY <1>10, PideRegistraHace DEF Sigue
  <2>2. Pidiendo' = Pidiendo /\ pide'.pc \in PidiendoPagina
    BY <2>1 DEF Pidiendo, PidiendoPagina
  <2>3. CuentaDePide'
    BY <1>1, <2>1 DEF Marcos, MismaCuenta, CuentaDePide
  <2>4. MismaCuenta'
    BY <1>1, <2>1, <2>2, <2>3, CuentaQueda DEF Marcos
  <2> QED BY <2>1, <2>4 DEF PaginaConcedida
<1>11. CASE PideReserva
  <2>1. /\ pide.pc = "bloque" /\ UNCHANGED <<ultimaPagina, abortoPorFaltaDeMemoria>>
        /\ \/ abortoPorFaltaDeMemoria = 0 /\ pide'.pc = "leeViejo" /\ UNCHANGED estado
           \/ pide'.pc = "espera" /\ estado' = [estado EXCEPT ![pide.pid] = "aborta"]
    BY <1>11, PideReservaHace, OciosoTipo DEF Lee
  <2>2. pide.pid \in Pids /\ estado[pide.pid] = "espera" /\ Pidiendo = {pide.pid}
    BY <2>1, PideEspera
  <2>3. CuentaDePide'
    BY <2>1 DEF CuentaDePide
  <2>4. abortoPorFaltaDeMemoria = 0 => ultimaPagina[pide.pid] = ultimaPaginaPid[pide.pid]
    BY <2>1 DEF Marcos, MismaCuenta, CuentaDePide
  <2>5. \A q \in Pids : /\ estado'[q] \in {"nuevo", "carga"} => estado[q] \in {"nuevo", "carga"}
                        /\ estado'[q] \in {"corre", "espera"} => estado[q] \in {"corre", "espera"}
    <3>1. \A q \in Pids : /\ estado[q] # "espera" => estado'[q] = estado[q]
                          /\ estado[q] = "espera" => estado'[q] \in {"espera", "corre", "aborta"}
      BY <1>1, CambiaUnoDa
    <3> QED BY <3>1
  <2>6. \A q \in Pids : estado'[q] \in {"corre", "espera"} /\ q \in Pidiendo =>
          ultimaPagina[q] = ultimaPaginaPid[q]
    BY <2>1, <2>2, <2>4 DEF TiposHeap
  <2>7. MismaCuenta'
    BY <1>1, <2>1, <2>3, <2>5, <2>6, CuentaQueda DEF Marcos
  <2> QED BY <2>1, <2>7 DEF PaginaConcedida
<1>12. CASE PideCabecera
  BY <1>2, <1>12, PideCabeceraHace DEF PidiendoPagina
<1>13. CASE PideResto
  BY <1>2, <1>13, PideRestoHace DEF PidiendoPagina
<1>14. CASE PideTermina
  <2>1. UNCHANGED ultimaPagina /\ pide.pc = "escribeResto" /\ pide'.pc = "espera"
    BY <1>14, PideTerminaHace, OciosoTipo
  <2> QED BY <1>2, <2>1 DEF PidiendoPagina
<1> QED BY <1>3, <1>4, <1>5, <1>6, <1>7, <1>8, <1>9, <1>10, <1>11, <1>12, <1>13, <1>14 DEF ProcesarHeap

LEMMA CuentaLibera ==
  ASSUME TiposHeap, Lugares, Marcos, LiberarHeap
  PROVE  MismaCuenta' /\ PaginaConcedida'
<1>1. CambiaUno /\ UNCHANGED ultimaPaginaPid
  BY HilosCambian, TablasHilos
<1>2. UNCHANGED <<pide, ultimaPagina, abortoPorFaltaDeMemoria>> /\ sems'.reservo = sems.reservo
  <2>1. sems.reservo \in Nat
    BY DEF TiposHeap
  <2> QED BY <2>1, LiberaTomaHace, LiberaLeeHace, LiberaEscribeHace, LiberaEscritoHace, LiberaListaHace
        DEF LiberarHeap, Varia
<1>3. CuentaDePide' /\ Pidiendo' = Pidiendo
  BY <1>1, <1>2 DEF Marcos, MismaCuenta, CuentaDePide, Pidiendo
<1>4. \A q \in Pids : /\ estado'[q] \in {"nuevo", "carga"} => estado[q] \in {"nuevo", "carga"}
                      /\ estado'[q] \in {"corre", "espera"} => estado[q] \in {"corre", "espera"}
  <2>1. \A q \in Pids : /\ estado[q] # "espera" => estado'[q] = estado[q]
                        /\ estado[q] = "espera" => estado'[q] \in {"espera", "corre", "aborta"}
    BY <1>1, CambiaUnoDa
  <2> QED BY <2>1
<1>5. MismaCuenta'
  BY <1>1, <1>2, <1>3, <1>4, CuentaQueda DEF Marcos
<1> QED BY <1>2, <1>5 DEF Marcos, PaginaConcedida

LEMMA MarcosHilos ==
  ASSUME TiposHeap, Hilos, Marcos, ProcesarHeap \/ LiberarHeap
  PROVE  Marcos'
<1>1. Lugares /\ RespuestasContadas
  BY DEF Hilos
<1>2. TablaBien' /\ PaginasDadas' /\ Bajas' /\ Administradas'
  BY <1>1, TablasHilos, AdministradasHilos
<1>3. MismaCuenta' /\ PaginaConcedida'
  BY <1>1, CuentaPide, CuentaLibera
<1> QED BY <1>2, <1>3 DEF Marcos

-----------------------------------------------------------------------------
(* What Memoria does to the table.                                          *)

\* The hash of a page is a frame.
LEMMA MarcoEs ==
  ASSUME NEW n \in Paginas
  PROVE  /\ Marco(n) \in Frames /\ n # Nada /\ n.pid \in Pids /\ n.pagina \in Nat
         /\ n = Pagina(n.pid, n.pagina)
<1>1. n.pid \in Nat \ {0} /\ n.pagina \in Nat /\ MARCOS \in Nat \ {0} /\ n.pid \in Pids
  BY PidsSupuesto, MarcosAssumption DEF Paginas
<1>2. PICK c \in Nat \ {0} : Marco(n) = (n.pid * c + n.pagina) % MARCOS
  BY DEF Marco, CalcularPosicion
<1>3. n.pid * c + n.pagina \in Nat
  BY <1>1, <1>2, Productos
<1>4. (n.pid * c + n.pagina) % MARCOS \in 0 .. MARCOS - 1
  <2>1. PICK x \in Nat : x = n.pid * c + n.pagina
    BY <1>3
  <2>2. x % MARCOS \in 0 .. MARCOS - 1
    BY <1>1, <2>1, Division
  <2> QED BY <2>1, <2>2
<1>5. n # Nada /\ n = Pagina(n.pid, n.pagina)
  BY <1>1 DEF Pagina, Paginas, Nada
<1> QED BY <1>1, <1>2, <1>4, <1>5 DEF Frames

\* One page more, in a frame that was free.
LEMMA GuardaLibre ==
  ASSUME NEW n \in Paginas, NEW t, NEW o, t[Marco(n)] = Nada
  PROVE  Guarda([tabla |-> t, overflow |-> o], n) = [tabla |-> [t EXCEPT ![Marco(n)] = n], overflow |-> o]
  BY DEF Guarda, FrameNuevo, EstaLibre, Marco

LEMMA GuardaUna ==
  ASSUME NEW p \in Pids, NEW n \in Nat, NEW t, NEW o, Caben(t, p, n),
         NEW s \in SUBSET (1 .. n), NEW x \in s
  PROVE  Guarda([tabla |-> ConPaginas(t, p, s \ {x}), overflow |-> o], Nodos(p, n)[x])
           = [tabla |-> ConPaginas(t, p, s), overflow |-> o]
<1> DEFINE u == ConPaginas(t, p, s \ {x})
           f == Marco(Pagina(p, x - 1))
           w == ConPaginas(t, p, s)
<1>1. x \in 1 .. n /\ x - 1 \in Nat /\ s \subseteq 1 .. n
  OBVIOUS
<1>2. Nodos(p, n)[x] = Pagina(p, x - 1)
  BY <1>1 DEF Nodos, Pagina
<1>3. f \in Frames /\ Pagina(p, x - 1) \in Paginas
  BY <1>1, PaginaTipo, MarcoEs
<1>4. \A i \in s \ {x} : Marco(Pagina(p, i - 1)) # f
  BY <1>1 DEF Caben
<1>5. u[f] = Nada
  <2>1. u[f] = t[f]
    BY <1>3, <1>4 DEF ConPaginas
  <2> QED BY <1>1, <2>1 DEF Caben
<1>6. w = [u EXCEPT ![f] = Pagina(p, x - 1)]
  <2> DEFINE r == [u EXCEPT ![f] = Pagina(p, x - 1)]
  <2>1. DOMAIN u = Frames /\ r = [g \in Frames |-> IF g = f THEN Pagina(p, x - 1) ELSE u[g]]
    BY <1>3 DEF ConPaginas
  <2>2. ASSUME NEW g \in Frames PROVE w[g] = IF g = f THEN Pagina(p, x - 1) ELSE u[g]
    <3>1. CASE g = f
      <4>1. \A i \in s : g = Marco(Pagina(p, i - 1)) <=> i = x
        BY <1>4, <3>1
      <4>2. (CHOOSE i \in s : g = Marco(Pagina(p, i - 1))) = x
        BY <4>1
      <4>3. w[g] = Pagina(p, (CHOOSE i \in s : g = Marco(Pagina(p, i - 1))) - 1)
        BY <4>1 DEF ConPaginas
      <4> QED BY <3>1, <4>2, <4>3
    <3>2. CASE g # f
      <4>1. \A i \in s : g = Marco(Pagina(p, i - 1)) <=> i \in s \ {x} /\ g = Marco(Pagina(p, i - 1))
        BY <3>2
      <4>2. (CHOOSE i \in s : g = Marco(Pagina(p, i - 1)))
              = (CHOOSE i \in s \ {x} : g = Marco(Pagina(p, i - 1)))
        BY <4>1
      <4>3. (\E i \in s : g = Marco(Pagina(p, i - 1))) <=> (\E i \in s \ {x} : g = Marco(Pagina(p, i - 1)))
        BY <4>1
      <4> QED BY <3>2, <4>2, <4>3 DEF ConPaginas
    <3> QED BY <3>1, <3>2
  <2>3. w = [g \in Frames |-> w[g]]
    BY DEF ConPaginas
  <2> HIDE DEF w, u, f
  <2> QED BY <2>1, <2>2, <2>3
<1> HIDE DEF u, w
<1>7. Guarda([tabla |-> u, overflow |-> o], Pagina(p, x - 1))
        = [tabla |-> [u EXCEPT ![f] = Pagina(p, x - 1)], overflow |-> o]
  BY <1>3, <1>5, GuardaLibre
<1> QED BY <1>2, <1>6, <1>7 DEF u, w

\* inicializarPrograma: every page is in its frame, and no list of overflow changes.
LEMMA GuardaTodas ==
  ASSUME NEW p \in Pids, NEW n \in Nat, NEW t, DOMAIN t = Frames, t = [f \in Frames |-> t[f]],
         NEW o, Caben(t, p, n)
  PROVE  ConTodas(t, o, p, n) = [tabla |-> ConPaginas(t, p, 1 .. n), overflow |-> o]
<1> DEFINE b == [tabla |-> t, overflow |-> o]
           r == [s \in SUBSET (1 .. n) |-> [tabla |-> ConPaginas(t, p, s), overflow |-> o]]
           c == CHOOSE it : it = Guardando(p, n, b, it)
<1>1. DOMAIN Nodos(p, n) = 1 .. n
  BY DEF Nodos
<1>2. ConTodas(t, o, p, n) = c[1 .. n]
  <2> DEFINE q == Nodos(p, n)
  <2>1. FoldLeft(Guarda, b, q) =
         (CHOOSE it : it = [s \in SUBSET DOMAIN q |->
            IF s = {} THEN b ELSE Guarda(it[s \ {Max(s)}], q[Max(s)])])[DOMAIN q]
    BY Zenon DEF FoldLeft, MapThenFoldSet
  <2> QED BY ONLY <1>1, <2>1, Zenon DEF Guardando, ConTodas
<1>3. r = Guardando(p, n, b, r)
  <2>1. r[{}] = b
    <3>1. ConPaginas(t, p, {}) = t
      BY DEF ConPaginas
    <3> QED BY <3>1
  <2>2. ASSUME NEW s \in SUBSET (1 .. n), s # {}
        PROVE  r[s] = Guarda(r[s \ {Max(s)}], Nodos(p, n)[Max(s)])
    <3>1. Max(s) \in s
      BY <2>2, MaxEs
    <3>2. PICK x \in s : x = Max(s)
      BY <3>1
    <3>3. r[s \ {x}] = [tabla |-> ConPaginas(t, p, s \ {x}), overflow |-> o]
          /\ r[s] = [tabla |-> ConPaginas(t, p, s), overflow |-> o]
      OBVIOUS
    <3> HIDE DEF r
    <3> QED BY <3>2, <3>3, GuardaUna
  <2>3. r = [s \in SUBSET (1 .. n) |-> r[s]]
    OBVIOUS
  <2> HIDE DEF r, b
  <2> QED BY <2>1, <2>2, <2>3 DEF Guardando
<1>4. c = Guardando(p, n, b, c)
  BY <1>3
<1> HIDE DEF c, r, b
<1> DEFINE S == {k \in Nat : k <= n => c[1 .. k] = r[1 .. k]}
<1>5. 0 \in S
  <2>1. 1 .. 0 = {} /\ {} \in SUBSET (1 .. n)
    OBVIOUS
  <2>2. c[{}] = b /\ r[{}] = b
    BY <1>3, <1>4, <2>1 DEF Guardando
  <2> QED BY <2>1, <2>2
<1>6. ASSUME NEW k \in Nat, k \in S PROVE k + 1 \in S
  <2> SUFFICES ASSUME k + 1 <= n PROVE c[1 .. k + 1] = r[1 .. k + 1]
    OBVIOUS
  <2>1. c[1 .. k] = r[1 .. k] /\ k + 1 - 1 = k /\ k + 1 \in Nat \ {0}
    BY <1>6
  <2>2. Max(1 .. k + 1) = k + 1 /\ (1 .. k + 1) \ {k + 1} = 1 .. k
    BY <2>1, MaxIntervalo
  <2>3. 1 .. k + 1 \in SUBSET (1 .. n) /\ 1 .. k + 1 # {}
    <3>1. k + 1 \in 1 .. k + 1
      OBVIOUS
    <3> QED BY <3>1
  <2> DEFINE s == 1 .. k + 1
             z == 1 .. k
  <2>4. Max(s) = k + 1 /\ s \ {k + 1} = z /\ s \in SUBSET (1 .. n) /\ s # {} /\ c[z] = r[z]
    BY <2>1, <2>2, <2>3
  <2> HIDE DEF s, z
  <2>5. c[s] = Guarda(c[z], Nodos(p, n)[k + 1])
    BY <1>4, <2>4 DEF Guardando
  <2>6. r[s] = Guarda(r[z], Nodos(p, n)[k + 1])
    BY <1>3, <2>4 DEF Guardando
  <2> QED BY <2>4, <2>5, <2>6 DEF s
<1>7. n \in S
  <2> HIDE DEF S
  <2> QED BY <1>5, <1>6, InduccionNat
<1>8. r[1 .. n] = [tabla |-> ConPaginas(t, p, 1 .. n), overflow |-> o]
  <2>1. 1 .. n \in SUBSET (1 .. n)
    OBVIOUS
  <2> QED BY <2>1 DEF r
<1> QED BY <1>2, <1>7, <1>8 DEF b

\* Where each page of the table is; and which frames are left.
LEMMA ConPaginasEs ==
  ASSUME NEW p \in Pids, NEW n \in Nat, NEW t, Caben(t, p, n)
  PROVE  LET u == ConPaginas(t, p, 1 .. n)
         IN  /\ DOMAIN u = Frames
             /\ \A i \in 1 .. n : u[Marco(Pagina(p, i - 1))] = Pagina(p, i - 1)
             /\ \A f \in Frames : \/ u[f] = t[f] /\ \A i \in 1 .. n : f # Marco(Pagina(p, i - 1))
                                  \/ \E i \in 1 .. n : f = Marco(Pagina(p, i - 1)) /\ t[f] = Nada
<1> DEFINE u == ConPaginas(t, p, 1 .. n)
<1>1. DOMAIN u = Frames
  BY DEF ConPaginas
<1>2. ASSUME NEW i \in 1 .. n PROVE u[Marco(Pagina(p, i - 1))] = Pagina(p, i - 1)
  <2>1. i - 1 \in Nat
    OBVIOUS
  <2>2. Marco(Pagina(p, i - 1)) \in Frames
    BY <2>1, PaginaTipo, MarcoEs
  <2>3. \A j \in 1 .. n : Marco(Pagina(p, i - 1)) = Marco(Pagina(p, j - 1)) <=> j = i
    BY DEF Caben
  <2>4. (CHOOSE j \in 1 .. n : Marco(Pagina(p, i - 1)) = Marco(Pagina(p, j - 1))) = i
    BY <2>3
  <2>5. \E j \in 1 .. n : Marco(Pagina(p, i - 1)) = Marco(Pagina(p, j - 1))
    OBVIOUS
  <2> QED BY <2>2, <2>4, <2>5 DEF ConPaginas
<1>3. ASSUME NEW f \in Frames
      PROVE  \/ u[f] = t[f] /\ \A i \in 1 .. n : f # Marco(Pagina(p, i - 1))
             \/ \E i \in 1 .. n : f = Marco(Pagina(p, i - 1)) /\ t[f] = Nada
  <2>1. CASE \E i \in 1 .. n : f = Marco(Pagina(p, i - 1))
    BY <2>1 DEF Caben
  <2>2. CASE ~ \E i \in 1 .. n : f = Marco(Pagina(p, i - 1))
    BY <2>2 DEF ConPaginas
  <2> QED BY <2>1, <2>2
<1> QED BY <1>1, <1>2, <1>3

-----------------------------------------------------------------------------
(* The frames, when Memoria serves a message.                               *)

\* The pages that are in their frames stay there.
LEMMA PaginaQueda ==
  ASSUME TablaBien, NEW n \in Paginas, EnSuMarco(n),
         \A f \in Frames : punteroMemoria[f] # Nada => punteroMemoria'[f] = punteroMemoria[f]
  PROVE  EnSuMarco(n)'
<1>1. Marco(n) \in Frames /\ n # Nada /\ punteroMemoria[Marco(n)] = n
  BY MarcoEs DEF EnSuMarco
<1> QED BY <1>1 DEF EnSuMarco, Marco, CalcularPosicion

\* The messages that free pages, once the first one is served.
LEMMA BajasContesta ==
  ASSUME TiposHeap, TablaBien, Bajas, aMemoria # <<>>, aMemoria' = Tail(aMemoria),
         \A q \in Pids : estado[q] = "fin" => estado'[q] = "fin",
         \A f \in Frames : punteroMemoria[f] # Nada => punteroMemoria'[f] = punteroMemoria[f]
  PROVE  Bajas'
<1>1. \A i \in DOMAIN aMemoria' : aMemoria'[i].op = "libera" =>
        \A n \in aMemoria'[i].nodos : n \in Paginas
  <2>1. aMemoria' \in Seq(Mensajes)
    BY PrimeroTipo
  <2> QED BY <2>1, EnLista, MensajeEs
<1>2. \A i \in DOMAIN aMemoria' : aMemoria'[i].op = "libera" =>
        \A n \in aMemoria'[i].nodos : EnSuMarco(n) => EnSuMarco(n)'
  BY <1>1, PaginaQueda
<1> QED BY <1>2, BajasQuedan DEF SinBajas

LEMMA LibresFinito ==
  IsFiniteSet(Frames) /\ IsFiniteSet(Libres) /\ Cardinality(Libres) \in Nat /\ Libres \subseteq Frames
<1>1. IsFiniteSet(Frames)
  BY MarcosAssumption, FS_Interval DEF Frames
<1>2. Libres \subseteq Frames
  BY DEF Libres
<1> QED BY <1>1, <1>2, FS_Subset, FS_CardinalityType

\* Some frames that were free are used.
LEMMA LibresMenos ==
  ASSUME NEW S, NEW n \in Nat, S \subseteq Libres, Cardinality(S) = n, Libres' = Libres \ S
  PROVE  Cardinality(Libres') = Cardinality(Libres) - n
<1>1. IsFiniteSet(Libres) /\ Cardinality(Libres) \in Nat
  BY LibresFinito
<1>2. Libres \cap S = S
  OBVIOUS
<1>3. Cardinality(Libres \ S) = Cardinality(Libres) - Cardinality(Libres \cap S)
  BY <1>1, FS_Difference
<1> QED BY <1>2, <1>3

\* One page more for the program that asks for it.
LEMMA TablaAsigna ==
  ASSUME TablaBien, NEW n \in Paginas, punteroMemoria[Marco(n)] = Nada,
         punteroMemoria' = [punteroMemoria EXCEPT ![Marco(n)] = n],
         UNCHANGED overflow, framesLibres' = framesLibres - 1
  PROVE  /\ TablaBien' /\ EnSuMarco(n)'
         /\ \A f \in Frames : punteroMemoria[f] # Nada => punteroMemoria'[f] = punteroMemoria[f]
<1> DEFINE g == Marco(n)
<1>1. g \in Frames /\ n # Nada
  BY MarcoEs
<1>2. /\ punteroMemoria' \in [Frames -> Paginas \cup {Nada}] /\ punteroMemoria'[g] = n
      /\ \A f \in Frames \ {g} : punteroMemoria'[f] = punteroMemoria[f]
  BY <1>1 DEF TablaBien
<1>3. \A x : Marco(x)' = Marco(x)
  BY DEF Marco, CalcularPosicion
<1>4. Libres' = Libres \ {g} /\ g \in Libres
  BY <1>1, <1>2 DEF Libres, EstaLibre, Frames, Nada
<1>5. Cardinality(Libres') = Cardinality(Libres) - 1
  <2>1. {g} \subseteq Libres /\ Cardinality({g}) = 1
    BY <1>4, FS_Singleton
  <2> HIDE DEF g
  <2> QED BY <1>4, <2>1, LibresMenos
<1>6. \A f \in Frames : punteroMemoria'[f] # Nada => Marco(punteroMemoria'[f]) = f
  BY <1>2 DEF TablaBien
<1>7. TablaBien'
  BY <1>2, <1>3, <1>5, <1>6 DEF TablaBien, Frames, Paginas, Nada
<1>8. EnSuMarco(n)'
  BY <1>2, <1>3 DEF EnSuMarco
<1> QED BY <1>2, <1>7, <1>8

\* All the pages of a program that comes.
LEMMA TablaInicia ==
  ASSUME TablaBien, NEW p \in Pids, NEW n \in Nat, Caben(punteroMemoria, p, n), InicializarPrograma(p, n)
  PROVE  /\ TablaBien' /\ \A i \in Nat : i < n => EnSuMarco(Pagina(p, i))'
         /\ \A f \in Frames : punteroMemoria[f] # Nada => punteroMemoria'[f] = punteroMemoria[f]
<1> DEFINE M == {Marco(Pagina(p, i - 1)) : i \in 1 .. n}
<1>1. punteroMemoria \in [Frames -> Paginas \cup {Nada}] /\ overflow = [f \in Frames |-> {}]
  BY DEF TablaBien
<1>2. punteroMemoria' = ConPaginas(punteroMemoria, p, 1 .. n) /\ overflow' = overflow
      /\ framesLibres' = framesLibres - n
  <2>1. PICK t, o : t = punteroMemoria /\ o = overflow
    OBVIOUS
  <2>2. DOMAIN t = Frames /\ t = [f \in Frames |-> t[f]] /\ Caben(t, p, n)
    BY <1>1, <2>1
  <2>3. ConTodas(t, o, p, n) = [tabla |-> ConPaginas(t, p, 1 .. n), overflow |-> o]
    BY <2>2, GuardaTodas
  <2>4. FoldLeft(Guarda, Paginado, Nodos(p, n)) = ConTodas(t, o, p, n)
    BY <2>1 DEF ConTodas, Paginado
  <2> QED BY <2>1, <2>3, <2>4 DEF InicializarPrograma
<1>3. /\ DOMAIN punteroMemoria' = Frames
      /\ \A i \in 1 .. n : punteroMemoria'[Marco(Pagina(p, i - 1))] = Pagina(p, i - 1)
      /\ \A f \in Frames : \/ punteroMemoria'[f] = punteroMemoria[f] /\ \A i \in 1 .. n : f # Marco(Pagina(p, i - 1))
                           \/ \E i \in 1 .. n : f = Marco(Pagina(p, i - 1)) /\ punteroMemoria[f] = Nada
  BY <1>2, ConPaginasEs
<1>4. \A i \in 1 .. n : /\ Pagina(p, i - 1) \in Paginas /\ Pagina(p, i - 1) # Nada
                        /\ Marco(Pagina(p, i - 1)) \in Frames
  <2>1. \A i \in 1 .. n : i - 1 \in Nat
    OBVIOUS
  <2> QED BY <2>1, PaginaTipo, MarcoEs
<1>5. punteroMemoria' \in [Frames -> Paginas \cup {Nada}]
  <2>1. \A f \in Frames : punteroMemoria'[f] \in Paginas \cup {Nada}
    BY <1>1, <1>3, <1>4
  <2>2. punteroMemoria' = [f \in Frames |-> punteroMemoria'[f]]
    BY <1>2 DEF ConPaginas
  <2> QED BY <2>1, <2>2
<1>6. \A x : Marco(x)' = Marco(x)
  BY DEF Marco, CalcularPosicion
<1>7. \A f \in Frames : punteroMemoria'[f] # Nada => Marco(punteroMemoria'[f]) = f
  BY <1>3 DEF TablaBien
<1>8. M \subseteq Libres /\ Libres' = Libres \ M
  <2>1. \A f \in Frames : f \in M <=> \E i \in 1 .. n : f = Marco(Pagina(p, i - 1))
    OBVIOUS
  <2>2. \A f \in M : f \in Frames /\ punteroMemoria[f] = Nada /\ punteroMemoria'[f] # Nada
    BY <1>3, <1>4 DEF Caben
  <2>3. \A f \in Frames \ M : punteroMemoria'[f] = punteroMemoria[f]
    BY <1>3, <2>1
  <2> HIDE DEF M
  <2> QED BY <2>2, <2>3 DEF Libres, EstaLibre, Frames, Nada
<1>9. Cardinality(M) = n
  <2>1. PICK h : h = [i \in 1 .. n |-> Marco(Pagina(p, i - 1))]
    OBVIOUS
  <2>2. DOMAIN h = 1 .. n /\ \A i \in 1 .. n : h[i] = Marco(Pagina(p, i - 1))
    BY <2>1
  <2>3. \A i, j \in 1 .. n : h[i] = h[j] => i = j
    BY <2>2 DEF Caben
  <2>4. h \in [1 .. n -> M] /\ \A f \in M : \E i \in 1 .. n : h[i] = f
    BY <2>1, <2>2
  <2> HIDE DEF M
  <2>5. h \in Bijection(1 .. n, M)
    BY <2>3, <2>4 DEF Bijection, Injection, Surjection, IsInjective
  <2>6. IsFiniteSet(1 .. n) /\ Cardinality(1 .. n) = n
    BY FS_Interval
  <2> QED BY <2>5, <2>6, FS_Bijection DEF ExistsBijection
<1> HIDE DEF M
<1>10. Cardinality(Libres') = Cardinality(Libres) - n
  BY <1>8, <1>9, LibresMenos
<1>11. TablaBien'
  BY <1>1, <1>2, <1>5, <1>6, <1>7, <1>10 DEF TablaBien, Frames, Paginas, Nada
<1>12. ASSUME NEW i \in Nat, i < n PROVE EnSuMarco(Pagina(p, i))'
  <2>1. i + 1 \in 1 .. n /\ i + 1 - 1 = i
    BY <1>12
  <2>2. punteroMemoria'[Marco(Pagina(p, i))] = Pagina(p, i)
    BY <1>3, <2>1
  <2> QED BY <1>6, <2>2 DEF EnSuMarco, Pagina
<1> QED BY <1>3, <1>11, <1>12

\* The pages of a program that ended.
LEMMA TablaLibera ==
  ASSUME TablaBien, NEW S \in SUBSET Paginas, IsFiniteSet(S), \A n \in S : EnSuMarco(n), LiberarPaginas(S)
  PROVE  /\ TablaBien'
         /\ \A n \in Paginas \ S : EnSuMarco(n) => EnSuMarco(n)'
<1> DEFINE M == {f \in Frames : punteroMemoria[f] \in S}
<1>1. /\ punteroMemoria \in [Frames -> Paginas \cup {Nada}] /\ framesLibres = Cardinality(Libres)
      /\ \A f \in Frames : punteroMemoria[f] # Nada => Marco(punteroMemoria[f]) = f
  BY DEF TablaBien
<1>2. /\ punteroMemoria' = [f \in Frames |-> IF punteroMemoria[f] \in S THEN Nada ELSE punteroMemoria[f]]
      /\ UNCHANGED overflow /\ framesLibres' = framesLibres + Cardinality(S)
  BY DEF LiberarPaginas
<1>3. \A n \in S : n # Nada /\ Marco(n) \in Frames
  BY MarcoEs
<1>4. \A x : Marco(x)' = Marco(x)
  BY DEF Marco, CalcularPosicion
<1>5. Libres' = Libres \cup M /\ Libres \cap M = {}
  BY <1>1, <1>2, <1>3 DEF Libres, EstaLibre, Frames, Nada
<1>6. Cardinality(M) = Cardinality(S)
  <2>1. PICK h : h = [f \in M |-> punteroMemoria[f]]
    OBVIOUS
  <2>2. DOMAIN h = M /\ \A f \in M : h[f] = punteroMemoria[f] /\ h[f] \in S
    BY <2>1
  <2>3. \A f, g \in M : h[f] = h[g] => f = g
    BY <1>1, <1>3, <2>2
  <2>4. \A n \in S : Marco(n) \in M /\ h[Marco(n)] = n
    BY <1>3, <2>2 DEF EnSuMarco
  <2>5. h \in [M -> S]
    BY <2>1
  <2> HIDE DEF M
  <2>6. h \in Bijection(M, S)
    BY <2>2, <2>3, <2>4, <2>5 DEF Bijection, Injection, Surjection, IsInjective
  <2>7. IsFiniteSet(M)
    <3>1. M \subseteq Frames
      BY DEF M
    <3> QED BY <3>1, LibresFinito, FS_Subset
  <2> QED BY <2>6, <2>7, FS_Bijection DEF ExistsBijection
<1>7. Cardinality(Libres') = Cardinality(Libres) + Cardinality(S)
  <2>1. IsFiniteSet(M) /\ M \subseteq Frames
    BY LibresFinito, FS_Subset
  <2> HIDE DEF M
  <2>2. Cardinality(Libres \cup M) = Cardinality(Libres) + Cardinality(M) - Cardinality(Libres \cap M)
    BY <2>1, LibresFinito, FS_Union
  <2>3. Cardinality(Libres \cap M) = 0
    BY <1>5, FS_EmptySet
  <2>4. Cardinality(Libres) \in Nat /\ Cardinality(M) \in Nat
    BY <2>1, LibresFinito, FS_CardinalityType
  <2> QED BY <1>5, <1>6, <2>2, <2>3, <2>4
<1>8. TablaBien'
  <2>1. punteroMemoria' \in [Frames -> Paginas \cup {Nada}]
    BY <1>1, <1>2
  <2>2. \A f \in Frames : punteroMemoria'[f] # Nada => Marco(punteroMemoria'[f]) = f
    BY <1>1, <1>2
  <2>3. overflow' = [f \in Frames |-> {}] /\ framesLibres' = Cardinality(Libres')
    BY <1>1, <1>2, <1>7 DEF TablaBien
  <2> QED BY <1>4, <2>1, <2>2, <2>3 DEF TablaBien, Frames, Paginas, Nada
<1>9. ASSUME NEW n \in Paginas \ S, EnSuMarco(n) PROVE EnSuMarco(n)'
  <2>1. Marco(n) \in Frames /\ punteroMemoria[Marco(n)] = n
    BY <1>9, MarcoEs DEF EnSuMarco
  <2>2. punteroMemoria'[Marco(n)] = n
    BY <1>2, <2>1
  <2> QED BY <1>4, <2>2 DEF EnSuMarco
<1> QED BY <1>8, <1>9

\* Memoria reads, writes or fails: no frame changes.
LEMMA MarcosQuedan ==
  ASSUME TiposHeap, Marcos, aMemoria # <<>>, aMemoria' = Tail(aMemoria), UNCHANGED tablas,
         UNCHANGED <<estado, pide, listaAdmHeap, ultimaPagina, abortoPorFaltaDeMemoria>>,
         sems'.reservo = sems.reservo
  PROVE  Marcos'
<1> USE DEF Marcos
<1>1. Cargados' = Cargados
  BY DEF Cargados
<1>2. TablaBien' /\ PaginasDadas'
  BY <1>1, TablaQueda, DadasQuedan
<1>3. Administradas'
  BY <1>1, EntradasQuedan, AdministradasQuedan DEF tablas
<1>4. MismaCuenta' /\ PaginaConcedida'
  BY DEF MismaCuenta, PaginaConcedida, CuentaDePide, Pidiendo, tablas
<1>5. Bajas'
  BY BajasContesta DEF tablas
<1> QED BY <1>2, <1>3, <1>4, <1>5

LEMMA MarcosInicia ==
  ASSUME TiposHeap, Hilos, Marcos, aMemoria # <<>>, aMemoria' = Tail(aMemoria), UNCHANGED pide,
         CInicia, "colision" \notin historia'
  PROVE  Marcos'
<1>0. PICK p, n : p = Primero.nodo.pid /\ n = Primero.nodo.pagina
  OBVIOUS
<1>1. Primero \in Mensajes /\ 1 \in DOMAIN aMemoria /\ aMemoria[1] = Primero /\ Primero.op = "inicia"
  BY PrimeroTipo DEF CInicia
<1>2. estado[p] = "carga" /\ n = PaginasIniciales /\ p \in Pids /\ n \in Nat \ {0}
  <2>1. p \in Pids
    BY <1>0, <1>1, MensajeEs DEF Paginas
  <2> QED BY <1>0, <1>1, <2>1, PaginasSupuesto DEF Hilos, Cargas
<1>3. /\ InicializarPrograma(p, n) /\ estado' = [estado EXCEPT ![p] = "corre"]
      /\ UNCHANGED <<sems, listaAdmHeap, ultimaPagina, abortoPorFaltaDeMemoria>>
      /\ historia' = historia \cup
           (IF \E i \in 1 .. n : \/ Colisiona(Paginado, Pagina(p, i - 1))
                                 \/ \E k \in 1 .. i - 1 : MismoFrame(p, k - 1, i - 1)
            THEN {"colision"} ELSE {})
  BY <1>0 DEF CInicia, Inicia, respuestas, admin, Historia
<1>4. Caben(punteroMemoria, p, n)
  <2>1. \A i \in 1 .. n : /\ ~Colisiona(Paginado, Pagina(p, i - 1))
                          /\ \A k \in 1 .. i - 1 : ~MismoFrame(p, k - 1, i - 1)
    BY <1>3
  <2>2. \A i \in 1 .. n : punteroMemoria[Marco(Pagina(p, i - 1))] = Nada
    BY <2>1 DEF Colisiona, Paginado, EstaLibre, Marco
  <2>3. ASSUME NEW i \in 1 .. n, NEW k \in 1 .. i - 1
        PROVE  Marco(Pagina(p, k - 1)) # Marco(Pagina(p, i - 1))
    BY <2>1 DEF MismoFrame, Marco, Pagina
  <2>4. \A i, j \in 1 .. n : i # j => j \in 1 .. i - 1 \/ i \in 1 .. j - 1
    BY <1>2
  <2> QED BY <2>2, <2>3, <2>4 DEF Caben
<1>5. /\ TablaBien' /\ \A i \in Nat : i < n => EnSuMarco(Pagina(p, i))'
      /\ \A f \in Frames : punteroMemoria[f] # Nada => punteroMemoria'[f] = punteroMemoria[f]
  BY <1>2, <1>3, <1>4, TablaInicia DEF Marcos
<1>6. estado'[p] = "corre" /\ \A q \in Pids \ {p} : estado'[q] = estado[q]
  BY <1>2, <1>3 DEF TiposHeap
<1>7. Cargados' = Cargados \cup {p} /\ p \notin Cargados
  BY <1>2, <1>6 DEF Cargados
<1>8. /\ DOMAIN ultimaPaginaPid' = {p} \cup DOMAIN ultimaPaginaPid /\ ultimaPaginaPid'[p] = n
      /\ \A q \in DOMAIN ultimaPaginaPid : q # p => ultimaPaginaPid'[q] = ultimaPaginaPid[q]
  BY <1>3 DEF InicializarPrograma
<1>9. \A q \in Cargados : /\ q \in Pids /\ q # p /\ q \in DOMAIN ultimaPaginaPid
                          /\ ultimaPaginaPid'[q] = ultimaPaginaPid[q]
  BY <1>7, <1>8 DEF Marcos, PaginasDadas, Cargados
<1>10. PaginasDadas'
  <2> SUFFICES ASSUME NEW q \in Cargados'
               PROVE  /\ q \in DOMAIN ultimaPaginaPid' /\ ultimaPaginaPid'[q] \in Nat
                      /\ ultimaPaginaPid'[q] >= PaginasIniciales
                      /\ \A i \in Nat : i < ultimaPaginaPid'[q] => EnSuMarco(Pagina(q, i))'
    BY DEF PaginasDadas
  <2>1. CASE q = p
    BY <1>2, <1>5, <1>8, <2>1
  <2>2. CASE q \in Cargados
    <3>1. /\ q \in DOMAIN ultimaPaginaPid /\ ultimaPaginaPid[q] \in Nat /\ ultimaPaginaPid[q] >= PaginasIniciales
          /\ \A i \in Nat : i < ultimaPaginaPid[q] => EnSuMarco(Pagina(q, i))
      BY <2>2 DEF Marcos, PaginasDadas
    <3>2. \A i \in Nat : EnSuMarco(Pagina(q, i)) => EnSuMarco(Pagina(q, i))'
      <4> SUFFICES ASSUME NEW i \in Nat, EnSuMarco(Pagina(q, i)) PROVE EnSuMarco(Pagina(q, i))'
        OBVIOUS
      <4>1. PICK x \in Paginas : x = Pagina(q, i)
        BY <1>9, <2>2, PaginaTipo
      <4>2. EnSuMarco(x)'
        BY <1>5, <4>1, PaginaQueda DEF Marcos
      <4> QED BY <4>1, <4>2 DEF EnSuMarco, Marco, Pagina
    <3> QED BY <1>8, <1>9, <2>2, <3>1, <3>2
  <2> QED BY <1>7, <2>1, <2>2
<1>11. Administradas'
  <2>1. \A j \in DOMAIN listaAdmHeap : listaAdmHeap[j].pid \in Pids
    <3>1. \A j \in DOMAIN listaAdmHeap : listaAdmHeap[j] \in Entradas
      BY EnLista DEF TiposHeap
    <3> QED BY <3>1 DEF Entradas
  <2> QED BY <1>2, <1>3, <1>6, <1>7, <1>9, <2>1 DEF Marcos, Administradas
<1>12. pide.pc # "espera" => pide.pid \in Cargados
  BY PideEspera DEF Hilos
<1>13. CuentaDePide'
  BY <1>3, <1>9, <1>12 DEF Marcos, MismaCuenta, CuentaDePide
<1>14. MismaCuenta'
  <2>1. \A q \in Pids \ {p} : /\ estado'[q] \in {"nuevo", "carga"} => ultimaPagina'[q] = PaginasIniciales
                              /\ estado'[q] \in {"corre", "espera"} /\ ~(q \in Pidiendo' /\ pide'.pc \in PidiendoPagina) =>
                                   ultimaPagina'[q] = ultimaPaginaPid'[q]
    BY <1>3, <1>6, <1>9 DEF Marcos, MismaCuenta, Pidiendo, Cargados
  <2>2. ultimaPagina'[p] = ultimaPaginaPid'[p]
    BY <1>2, <1>3, <1>8 DEF Marcos, MismaCuenta
  <2> QED BY <1>6, <1>13, <2>1, <2>2 DEF MismaCuenta
<1>15. Bajas'
  <2>1. \A q \in Pids : estado[q] = "fin" => estado'[q] = "fin"
    BY <1>2, <1>6
  <2> QED BY <1>5, <2>1, BajasContesta DEF Marcos
<1> QED BY <1>3, <1>5, <1>10, <1>11, <1>14, <1>15 DEF Marcos, PaginaConcedida

LEMMA MarcosAsigna ==
  ASSUME TiposHeap, Hilos, Marcos, aMemoria # <<>>, aMemoria' = Tail(aMemoria), UNCHANGED pide,
         CPide, "colision" \notin historia'
  PROVE  Marcos'
<1>0. PICK p : p = pide.pid
  OBVIOUS
<1>1. Primero \in Mensajes /\ 1 \in DOMAIN aMemoria /\ aMemoria[1] = Primero /\ Primero.op = "pide"
  BY PrimeroTipo DEF CPide
<1>2. pide.pc = "reservaPagina" /\ Primero.nodo.pid = p
  BY <1>0, <1>1 DEF Hilos, PidePagina_
<1>3. p \in Pids /\ p \in Cargados /\ Pidiendo = {p} /\ pide.pagina \in Nat
  BY <1>0, <1>2, PideEspera DEF Hilos
<1>4. sems.reservo = 0
  <2>1. sems.reservo > 0 => \A i \in DOMAIN aMemoria : aMemoria[i].op # "pide"
    BY SinPedidos DEF Hilos
  <2>2. sems.reservo \in Nat
    BY DEF TiposHeap
  <2> QED BY <1>1, <2>1, <2>2
<1>5. ultimaPaginaPid[p] = pide.pagina /\ ultimaPagina[p] = pide.pagina + 1 /\ p \in DOMAIN ultimaPaginaPid
  BY <1>0, <1>2, <1>3, <1>4 DEF Marcos, MismaCuenta, CuentaDePide, PaginasDadas
<1>6. PICK algo \in {0, 1} :
        /\ AsignarPagina(p, algo) /\ abortoPorFaltaDeMemoria' = 1 - algo
        /\ sems' = [sems EXCEPT !.reservo = @ + 1]
        /\ historia' = historia \cup
             (IF algo = 1 /\ Colisiona(Paginado, Pagina(p, ultimaPaginaPid[p])) THEN {"colision"} ELSE {})
        /\ UNCHANGED <<estado, listaAdmHeap, ultimaPagina>>
  BY <1>2 DEF CPide, Asigna, programas, Historia
<1>7. sems'.reservo = 1
  BY <1>4, <1>6, SemsVaria DEF TiposHeap, Varia
<1>8. Cargados' = Cargados /\ Pidiendo' = {p} /\ \A q \in Pids : estado[q] = "fin" => estado'[q] = "fin"
  BY <1>3, <1>6 DEF Cargados, Pidiendo
<1>9. CASE algo = 0
  <2>1. UNCHANGED tablas
    BY <1>6, <1>9 DEF AsignarPagina, memoria, tablas
  <2>2. TablaBien' /\ PaginasDadas'
    BY <1>8, <2>1, TablaQueda, DadasQuedan DEF Marcos
  <2>3. Administradas'
    BY <1>6, <1>8, <2>1, EntradasQuedan, AdministradasQuedan DEF tablas, Marcos
  <2>4. Bajas'
    BY <1>8, <2>1, BajasContesta DEF tablas, Marcos
  <2>5. MismaCuenta'
    <3>1. CuentaDePide'
      BY <1>2, <1>6, <1>7, <1>9 DEF CuentaDePide
    <3> QED BY <1>3, <1>6, <1>8, <2>1, <3>1 DEF Marcos, MismaCuenta, tablas
  <2> QED BY <1>2, <2>2, <2>3, <2>4, <2>5 DEF Marcos, PaginaConcedida
<1>10. CASE algo = 1
  <2>1. PICK n \in Paginas : n = Pagina(p, pide.pagina)
    BY <1>3, PaginaTipo
  <2>2. punteroMemoria[Marco(n)] = Nada
    <3>1. ~Colisiona(Paginado, n)
      BY <1>5, <1>6, <1>10, <2>1
    <3> QED BY <3>1 DEF Colisiona, Paginado, EstaLibre, Marco
  <2>3. /\ punteroMemoria' = [punteroMemoria EXCEPT ![Marco(n)] = n] /\ UNCHANGED overflow
        /\ framesLibres' = framesLibres - 1
        /\ ultimaPaginaPid' = [ultimaPaginaPid EXCEPT ![p] = @ + 1]
    <3>1. PICK m : m = Guarda(Paginado, n)
      OBVIOUS
    <3>2. /\ punteroMemoria' = m.tabla /\ overflow' = m.overflow /\ framesLibres' = framesLibres - 1
          /\ ultimaPaginaPid' = [ultimaPaginaPid EXCEPT ![p] = @ + 1]
      BY <1>5, <1>6, <1>10, <2>1, <3>1 DEF AsignarPagina, Pagina
    <3>3. m = [tabla |-> [punteroMemoria EXCEPT ![Marco(n)] = n], overflow |-> overflow]
      BY <2>2, <3>1, GuardaLibre DEF Paginado
    <3> QED BY <3>2, <3>3
  <2>4. /\ TablaBien' /\ EnSuMarco(n)'
        /\ \A f \in Frames : punteroMemoria[f] # Nada => punteroMemoria'[f] = punteroMemoria[f]
    BY <2>2, <2>3, TablaAsigna DEF Marcos
  <2>5. /\ DOMAIN ultimaPaginaPid' = DOMAIN ultimaPaginaPid /\ ultimaPaginaPid'[p] = pide.pagina + 1
        /\ \A q : q # p => ultimaPaginaPid'[q] = ultimaPaginaPid[q]
    <3>1. ultimaPaginaPid'[p] = pide.pagina + 1
      BY <1>3, <1>5, <2>3
    <3>2. ASSUME NEW q, q # p PROVE ultimaPaginaPid'[q] = ultimaPaginaPid[q]
      BY <2>3, <3>2
    <3> QED BY <2>3, <3>1, <3>2
  <2>6. Bajas'
    BY <1>8, <2>4, BajasContesta DEF Marcos
  <2>7. PaginasDadas'
    <3> SUFFICES ASSUME NEW q \in Cargados
                 PROVE  /\ q \in DOMAIN ultimaPaginaPid' /\ ultimaPaginaPid'[q] \in Nat
                        /\ ultimaPaginaPid'[q] >= PaginasIniciales
                        /\ \A i \in Nat : i < ultimaPaginaPid'[q] => EnSuMarco(Pagina(q, i))'
      BY <1>8 DEF PaginasDadas
    <3>1. /\ q \in DOMAIN ultimaPaginaPid /\ ultimaPaginaPid[q] \in Nat /\ ultimaPaginaPid[q] >= PaginasIniciales
          /\ \A i \in Nat : i < ultimaPaginaPid[q] => EnSuMarco(Pagina(q, i))
      BY DEF Marcos, PaginasDadas
    <3>2. \A i \in Nat : EnSuMarco(Pagina(q, i)) => EnSuMarco(Pagina(q, i))'
      <4> SUFFICES ASSUME NEW i \in Nat, EnSuMarco(Pagina(q, i)) PROVE EnSuMarco(Pagina(q, i))'
        OBVIOUS
      <4>1. PICK x \in Paginas : x = Pagina(q, i)
        BY PaginaTipo DEF Cargados
      <4>2. EnSuMarco(x)'
        BY <2>4, <4>1, PaginaQueda DEF Marcos
      <4> QED BY <4>1, <4>2 DEF EnSuMarco, Marco, Pagina
    <3>3. CASE q # p
      BY <2>5, <3>1, <3>2, <3>3
    <3>4. CASE q = p
      <4>1. EnSuMarco(Pagina(p, pide.pagina))'
        BY <2>1, <2>4 DEF EnSuMarco, Marco, Pagina
      <4>2. \A i \in Nat : i < pide.pagina + 1 => i < pide.pagina \/ i = pide.pagina
        BY <1>3
      <4>3. \A i \in Nat : i < pide.pagina + 1 => EnSuMarco(Pagina(p, i))'
        BY <1>5, <3>1, <3>2, <3>4, <4>1, <4>2
      <4>4. PaginasIniciales \in Nat /\ pide.pagina + 1 \in Nat /\ pide.pagina + 1 >= PaginasIniciales
        BY <1>3, <1>5, <3>1, <3>4, PaginasSupuesto
      <4> QED BY <1>5, <2>5, <3>4, <4>3, <4>4
    <3> QED BY <3>3, <3>4
  <2>8. Administradas'
    <3>1. \A j \in DOMAIN listaAdmHeap : listaAdmHeap[j].pagina \in Nat
      <4>1. \A j \in DOMAIN listaAdmHeap : listaAdmHeap[j] \in Entradas
        BY EnLista DEF TiposHeap
      <4> QED BY <4>1 DEF Entradas
    <3>2. ASSUME NEW j \in DOMAIN listaAdmHeap, listaAdmHeap[j].pid \in Cargados
          PROVE  listaAdmHeap[j].pagina < ultimaPaginaPid'[listaAdmHeap[j].pid]
      <4>1. listaAdmHeap[j].pagina < ultimaPaginaPid[listaAdmHeap[j].pid]
        BY <3>2 DEF Marcos, Administradas
      <4> QED BY <1>3, <1>5, <2>5, <3>1, <4>1
    <3> QED BY <1>6, <1>8, <3>2 DEF Marcos, Administradas
  <2>9. MismaCuenta'
    <3>1. CuentaDePide'
      BY <1>0, <1>2, <1>5, <1>6, <1>7, <1>10, <2>5 DEF CuentaDePide
    <3> QED BY <1>2, <1>3, <1>6, <1>8, <2>5, <3>1 DEF Marcos, MismaCuenta, PidiendoPagina
  <2> QED BY <1>2, <2>4, <2>6, <2>7, <2>8, <2>9 DEF Marcos, PaginaConcedida
<1> QED BY <1>9, <1>10

LEMMA MarcosLibera ==
  ASSUME TiposHeap, Marcos, aMemoria # <<>>, aMemoria' = Tail(aMemoria), UNCHANGED pide, CLibera
  PROVE  Marcos'
<1> DEFINE S == Primero.nodos
<1>1. Primero \in Mensajes /\ Menguo(aMemoria, aMemoria') /\ aMemoria' \in Seq(Mensajes)
      /\ 1 \in DOMAIN aMemoria /\ aMemoria[1] = Primero /\ Primero.op = "libera"
  BY PrimeroTipo DEF CLibera
<1>2. /\ S \in SUBSET Paginas /\ IsFiniteSet(S)
      /\ \A n \in S : estado[n.pid] = "fin" /\ EnSuMarco(n)
  BY <1>1, MensajeEs DEF Marcos, Bajas
<1>3. LiberarPaginas(S) /\ UNCHANGED <<estado, sems, listaAdmHeap, ultimaPagina, abortoPorFaltaDeMemoria>>
      /\ UNCHANGED ultimaPaginaPid
  BY DEF CLibera, LiberarPaginas, programas, respuestas, admin
<1>4. PICK n \in Nat \ {0} : /\ DOMAIN aMemoria = 1 .. n /\ DOMAIN aMemoria' = 1 .. n - 1
                            /\ \A i \in 1 .. n - 1 : aMemoria'[i] = aMemoria[i + 1]
  BY <1>1 DEF Menguo
<1>5. \A i \in 1 .. n - 1 : aMemoria'[i].op = "libera" => aMemoria'[i].nodos \cap S = {}
  <2>1. \A i \in 1 .. n - 1 : i + 1 \in 1 .. n /\ i + 1 # 1
    BY <1>4
  <2> QED BY <1>1, <1>4, <2>1 DEF Marcos, Bajas
<1> HIDE DEF S
<1>6. TablaBien' /\ \A x \in Paginas \ S : EnSuMarco(x) => EnSuMarco(x)'
  BY <1>2, <1>3, TablaLibera DEF Marcos
<1>7. Cargados' = Cargados
  BY <1>3 DEF Cargados
<1>8. PaginasDadas'
  <2> SUFFICES ASSUME NEW q \in Cargados
               PROVE  /\ q \in DOMAIN ultimaPaginaPid /\ ultimaPaginaPid[q] \in Nat
                      /\ ultimaPaginaPid[q] >= PaginasIniciales
                      /\ \A i \in Nat : i < ultimaPaginaPid[q] => EnSuMarco(Pagina(q, i))'
    BY <1>3, <1>7 DEF PaginasDadas
  <2>1. /\ q \in DOMAIN ultimaPaginaPid /\ ultimaPaginaPid[q] \in Nat /\ ultimaPaginaPid[q] >= PaginasIniciales
        /\ \A i \in Nat : i < ultimaPaginaPid[q] => EnSuMarco(Pagina(q, i))
    BY DEF Marcos, PaginasDadas
  <2>2. \A i \in Nat : EnSuMarco(Pagina(q, i)) => EnSuMarco(Pagina(q, i))'
    <3> SUFFICES ASSUME NEW i \in Nat, EnSuMarco(Pagina(q, i)) PROVE EnSuMarco(Pagina(q, i))'
      OBVIOUS
    <3>1. PICK x \in Paginas : x = Pagina(q, i) /\ x.pid = q
      BY PaginaTipo DEF Cargados
    <3>2. x \notin S
      BY <1>2, <3>1 DEF Cargados
    <3>3. EnSuMarco(x)'
      BY <1>6, <3>1, <3>2
    <3> QED BY <3>1, <3>3 DEF EnSuMarco, Marco, Pagina
  <2> QED BY <2>1, <2>2
<1>9. Administradas'
  BY <1>3, <1>7, EntradasQuedan, AdministradasQuedan DEF Marcos
<1>10. MismaCuenta' /\ PaginaConcedida'
  BY <1>3 DEF Marcos, MismaCuenta, PaginaConcedida, CuentaDePide, Pidiendo
<1>11. Bajas'
  <2>1. \A i \in DOMAIN aMemoria' : aMemoria'[i].op = "libera" =>
          \A x \in aMemoria'[i].nodos : x \in Paginas
    BY <1>1, EnLista, MensajeEs
  <2>2. \A i \in DOMAIN aMemoria' : aMemoria'[i].op = "libera" =>
          \A x \in aMemoria'[i].nodos : EnSuMarco(x) => EnSuMarco(x)'
    BY <1>4, <1>5, <1>6, <2>1
  <2> QED BY <1>3, <2>2, BajasQuedan DEF SinBajas, Marcos
<1> QED BY <1>6, <1>8, <1>9, <1>10, <1>11 DEF Marcos

LEMMA MarcosContesta ==
  ASSUME TiposHeap, Hilos, Marcos, Contesta, "colision" \notin historia'
  PROVE  Marcos'
<1>1. aMemoria # <<>> /\ aMemoria' = Tail(aMemoria) /\ UNCHANGED pide
  BY ContestaEs
<1>2. CLee \/ CEscribe \/ CRompe => Marcos'
  <2> SUFFICES ASSUME CLee \/ CEscribe \/ CRompe PROVE Marcos'
    OBVIOUS
  <2>1. UNCHANGED tablas /\ UNCHANGED <<estado, listaAdmHeap, ultimaPagina, abortoPorFaltaDeMemoria>>
    BY DEF CLee, CEscribe, CRompe, EscribirEnPagina, Rompe, memoria, tablas, programas, admin
  <2>2. sems'.reservo = sems.reservo
    <3>1. sems.reservo \in Nat
      BY DEF TiposHeap
    <3> QED BY <3>1, SemsVaria DEF CLee, CEscribe, CRompe, Rompe, Publica, respuestas, TiposHeap, Varia
  <2> QED BY <1>1, <2>1, <2>2, MarcosQuedan
<1> QED BY <1>1, <1>2, ContestaEs, MarcosInicia, MarcosAsigna, MarcosLibera

-----------------------------------------------------------------------------
(* The invariant of the frames.                                             *)

\* What has happened is not forgotten.
LEMMA HistoriaVerifica ==
  ASSUME NEW h, Verifica(h) \/ EmpiezaPagina(h)
  PROVE  historia \subseteq historia'
  BY DEF Verifica, EmpiezaPagina, Lee

LEMMA HistoriaCrece ==
  ASSUME TiposHeap, [NextHeap]_vars
  PROVE  historia \subseteq historia'
<1>1. Programas => historia' = historia
  BY DEF Programas, Llega, Termina, Reserva, Libera
<1>2. Contesta => historia \subseteq historia'
  BY ContestaEs DEF CInicia, CPide, CLee, CEscribe, CLibera, CRompe, Inicia, Asigna, Historia
<1>3. PideToma => historia \subseteq historia'
  BY PideTomaHace, HistoriaVerifica
<1>4. PideActual => historia \subseteq historia'
  BY PideActualHace DEF Lee
<1>5. PideSiguiente => historia \subseteq historia'
  BY PideSiguienteHace, HistoriaVerifica
<1>6. PideCompactado => historia \subseteq historia'
  BY PideCompactadoHace, HistoriaVerifica
<1>7. PideBloque => historia \subseteq historia'
  BY PideBloqueHace, HistoriaVerifica DEF Lee
<1>8. PideReserva => historia \subseteq historia'
  BY PideReservaHace DEF Lee
<1>9. PidePagina \/ PideReservada \/ PideRegistra \/ PideCabecera \/ PideResto \/ PideTermina =>
        historia' = historia
  BY PidePaginaHace, PideReservadaHace, PideRegistraHace, PideCabeceraHace, PideRestoHace, PideTerminaHace
<1>10. LiberarHeap => historia \subseteq historia'
  BY LiberaTomaHace, LiberaLeeHace, LiberaEscribeHace, LiberaEscritoHace, LiberaListaHace DEF LiberarHeap
<1>11. UsaLiberada => historia' = historia
  BY DEF UsaLiberada
<1>12. UNCHANGED vars => historia' = historia
  BY DEF vars
<1> QED BY <1>1, <1>2, <1>3, <1>4, <1>5, <1>6, <1>7, <1>8, <1>9, <1>10, <1>11, <1>12 DEF NextHeap, ProcesarHeap

LEMMA MarcosInicio == InitHeap => Marcos
<1> SUFFICES ASSUME InitHeap PROVE Marcos
  OBVIOUS
<1> USE DEF InitHeap, InitMemoria
<1>1. Cargados = {} /\ pide.pc = "espera"
  BY DEF Cargados, Ocioso
<1>2. TablaBien
  <2>1. Libres = Frames
    BY DEF Libres, EstaLibre
  <2>2. Cardinality(Frames) = MARCOS
    <3>1. 0 \in Int /\ MARCOS - 1 \in Int /\ MARCOS \in Nat /\ 0 <= MARCOS - 1
      BY MarcosAssumption
    <3>2. Cardinality(0 .. MARCOS - 1) = (MARCOS - 1) - 0 + 1
      BY <3>1, FS_Interval
    <3> QED BY <3>1, <3>2 DEF Frames
  <2> QED BY <2>1, <2>2 DEF TablaBien
<1>3. PaginasDadas
  BY <1>1 DEF PaginasDadas
<1>4. Administradas
  BY DEF Administradas
<1>5. MismaCuenta /\ PaginaConcedida
  BY <1>1 DEF MismaCuenta, CuentaDePide, PaginaConcedida
<1>6. Bajas
  BY DEF Bajas
<1> QED BY <1>2, <1>3, <1>4, <1>5, <1>6 DEF Marcos

LEMMA MarcosPaso ==
  ASSUME InvMarcos, [NextHeap]_vars
  PROVE  InvMarcos'
<1>1. TiposHeap /\ InvHilos'
  BY HilosPaso DEF InvMarcos, InvHilos
<1> SUFFICES ASSUME "colision" \notin historia' PROVE Marcos'
  BY <1>1 DEF InvMarcos
<1>2. Marcos
  BY <1>1, HistoriaCrece DEF InvMarcos
<1>3. CASE UNCHANGED vars
  <2>1. /\ UNCHANGED tablas /\ UNCHANGED <<estado, pide, aMemoria, sems, listaAdmHeap, ultimaPagina,
                                          abortoPorFaltaDeMemoria>>
    BY <1>3 DEF vars, memoria, tablas, programas, respuestas, admin
  <2>2. Cargados' = Cargados
    BY <2>1 DEF Cargados
  <2>3. TablaBien' /\ PaginasDadas' /\ Administradas'
    BY <1>1, <1>2, <2>1, <2>2, TablaQueda, DadasQuedan, EntradasQuedan, AdministradasQuedan DEF Marcos, tablas
  <2>4. MismaCuenta' /\ PaginaConcedida'
    BY <1>2, <2>1 DEF Marcos, MismaCuenta, PaginaConcedida, CuentaDePide, Pidiendo, tablas
  <2>5. \A n : EnSuMarco(n) => EnSuMarco(n)'
    BY <2>1 DEF EnSuMarco, Marco, CalcularPosicion, tablas
  <2>6. Bajas'
    BY <1>1, <1>2, <2>1, <2>5, BajasQuedan DEF SinBajas, Marcos
  <2> QED BY <2>3, <2>4, <2>6 DEF Marcos
<1>4. ASSUME NextHeap, ~UNCHANGED vars PROVE Marcos'
  <2>1. fallo = "no" /\ Hilos
    BY <1>4 DEF InvMarcos, InvHilos, NextHeap
  <2>2. CASE Programas
    BY <1>1, <1>2, <2>1, <2>2, MarcosProgramas
  <2>3. CASE Contesta
    BY <1>1, <1>2, <2>1, <2>3, MarcosContesta
  <2>4. CASE ProcesarHeap \/ LiberarHeap
    BY <1>1, <1>2, <2>1, <2>4, MarcosHilos
  <2>5. CASE UsaLiberada
    <3>1. /\ UNCHANGED tablas /\ UNCHANGED <<estado, pide, aMemoria, listaAdmHeap, ultimaPagina,
                                            abortoPorFaltaDeMemoria>>
      BY <2>5 DEF UsaLiberada, memoria, tablas, programas, admin
    <3>2. sems'.reservo = sems.reservo
      <4>1. sems.reservo \in Nat
        BY <1>1 DEF TiposHeap
      <4> QED BY <1>1, <2>5, <4>1, UsaLiberadaHace DEF Varia
    <3>3. Cargados' = Cargados
      BY <3>1 DEF Cargados
    <3>4. TablaBien' /\ PaginasDadas' /\ Administradas'
      BY <1>1, <1>2, <3>1, <3>3, TablaQueda, DadasQuedan, EntradasQuedan, AdministradasQuedan DEF Marcos, tablas
    <3>5. MismaCuenta' /\ PaginaConcedida'
      BY <1>2, <3>1, <3>2 DEF Marcos, MismaCuenta, PaginaConcedida, CuentaDePide, Pidiendo, tablas
    <3>6. \A n : EnSuMarco(n) => EnSuMarco(n)'
      BY <3>1 DEF EnSuMarco, Marco, CalcularPosicion, tablas
    <3>7. Bajas'
      BY <1>1, <1>2, <3>1, <3>6, BajasQuedan DEF SinBajas, Marcos
    <3> QED BY <3>4, <3>5, <3>7 DEF Marcos
  <2> QED BY <1>4, <2>2, <2>3, <2>4, <2>5 DEF NextHeap
<1> QED BY <1>3, <1>4

\* The frames, in every execution: unless two pages asked for the same one, each page of
\* a program is in its frame, and the counters of Memoria and of the Kernel agree with
\* the table (InvMarcos).
THEOREM MarcosSiempre == SpecHeap => []InvMarcos
<1>1. InitHeap => InvMarcos
  BY HilosInicio, MarcosInicio DEF InvMarcos
<1>2. InvMarcos /\ [NextHeap]_vars => InvMarcos'
  BY MarcosPaso
<1> QED BY <1>1, <1>2, PTL DEF SpecHeap

\* The pages that the Kernel frees when a program ends are in their frames.
LEMMA PaginasDeEnMarco ==
  ASSUME TiposHeap, Marcos, NEW p \in Cargados
  PROVE  \A n \in PaginasDe(p) \cup {Pagina(p, 0)} : n \in Paginas /\ EnSuMarco(n)
<1>1. p \in Pids
  BY DEF Cargados
<1>2. \A i \in Nat : i < ultimaPaginaPid[p] => Pagina(p, i) \in Paginas /\ EnSuMarco(Pagina(p, i))
  BY <1>1, PaginaTipo DEF Marcos, PaginasDadas
<1>3. ultimaPaginaPid[p] \in Nat /\ PaginasIniciales <= ultimaPaginaPid[p]
  BY DEF Marcos, PaginasDadas
<1>4. /\ \A i \in 1 .. PaginasIniciales - 1 : i \in Nat /\ i < ultimaPaginaPid[p]
      /\ 0 < ultimaPaginaPid[p]
  BY <1>3, PaginasSupuesto
<1>5. \A j \in DOMAIN listaAdmHeap : listaAdmHeap[j].pid = p =>
        listaAdmHeap[j].pagina \in Nat /\ listaAdmHeap[j].pagina < ultimaPaginaPid[p]
  <2>1. \A j \in DOMAIN listaAdmHeap : listaAdmHeap[j] \in Entradas
    BY EnLista DEF TiposHeap
  <2> QED BY <2>1 DEF Marcos, Administradas, Entradas
<1> QED BY <1>2, <1>4, <1>5 DEF PaginasDe

LEMMA InvMarcosFrames == InvMarcos => FramesContados
<1> SUFFICES ASSUME InvMarcos, "colision" \notin historia PROVE FramesContados
  BY DEF FramesContados
<1>1. Marcos /\ TiposHeap
  BY DEF InvMarcos, InvHilos
<1>2. ASSUME NEW p \in Pids, estado[p] \in {"corre", "espera"}, NEW n \in PaginasDe(p) \cup {Pagina(p, 0)}
      PROVE  Cardinality(FrameDe(n)) = 1
  <2>1. p \in Cargados
    BY <1>2 DEF Cargados
  <2>2. n \in Paginas /\ EnSuMarco(n)
    BY <1>1, <1>2, <2>1, PaginasDeEnMarco
  <2>3. FrameDe(n) = {Marco(n)}
    BY <2>2 DEF EnSuMarco, FrameDe, EsPaginaCorrecta, Marco
  <2> QED BY <2>3, FS_Singleton
<1>3. framesLibres = Cardinality({f \in Frames : EstaLibre(punteroMemoria, f)})
  BY <1>1 DEF Marcos, TablaBien, Libres
<1> QED BY <1>2, <1>3 DEF FramesContados

\* In every execution where no two pages ask for the same frame, the counter of free
\* frames is right and no page of a program that runs is lost (FramesContados).
THEOREM FramesContadosSiempre == SpecHeap => []FramesContados
BY MarcosSiempre, InvMarcosFrames, PTL

-----------------------------------------------------------------------------
(* The blocks of a page.                                                    *)

LEMMA DimensionTipo ==
  /\ MARCOS_SIZE \in Nat \ {0}
  /\ \A x : x \in 0 .. MARCOS_SIZE <=> x \in Nat /\ x <= MARCOS_SIZE
  /\ \A x : x \in 0 .. MARCOS_SIZE - 1 <=> x \in Nat /\ x < MARCOS_SIZE
  BY MarcosAssumption

\* What a page that is tiled gives of one of its blocks.
LEMMA TeselaEs ==
  ASSUME NEW s, NEW v, Teselada(s, v), NEW o, EsInicio(s, o)
  PROVE  /\ o \in Nat /\ o < MARCOS_SIZE /\ v[o].size \in Nat
         /\ Tras(v, o) \in s /\ Tras(v, o) \in Nat /\ Tras(v, o) = o + 1 + v[o].size
         /\ o < Tras(v, o) /\ Tras(v, o) <= MARCOS_SIZE
         /\ \A x \in s : x \in Nat /\ (x <= o \/ x >= Tras(v, o))
<1>1. s \subseteq 0 .. MARCOS_SIZE /\ o \in s /\ o < MARCOS_SIZE
  BY DEF Teselada, EsInicio
<1>2. v[o].size \in Nat /\ Tras(v, o) \in s /\ \A x \in s : x <= o \/ x >= Tras(v, o)
  BY <1>1 DEF Teselada
<1>3. \A x \in s : x \in Nat /\ x <= MARCOS_SIZE
  BY <1>1, DimensionTipo
<1>4. Tras(v, o) = o + 1 + v[o].size
  BY DEF Tras
<1> QED BY <1>1, <1>2, <1>3, <1>4, DimensionTipo

\* The page as v sees it when only the headers that are not blocks change, or
\* a block changes hands.
LEMMA TeselaIgual ==
  ASSUME NEW s, NEW v, NEW w, Teselada(s, v), \A o : EsInicio(s, o) => w[o].size = v[o].size
  PROVE  Teselada(s, w)
<1>1. \A o : EsInicio(s, o) => Tras(w, o) = Tras(v, o)
  BY DEF Tras
<1> QED BY <1>1 DEF Teselada, EsInicio

\* Two blocks in a row become one.
LEMMA TeselaFunde ==
  ASSUME NEW s, NEW v, NEW w, Teselada(s, v), NEW o, EsInicio(s, o), NEW y, y = Tras(v, o), EsInicio(s, y),
         w[o].size = v[o].size + 1 + v[y].size, \A x : EsInicio(s, x) /\ x # o => w[x].size = v[x].size
  PROVE  Teselada(s \ {y}, w)
<1>1. /\ o \in Nat /\ y \in Nat /\ v[o].size \in Nat /\ v[y].size \in Nat /\ y = o + 1 + v[o].size
      /\ y < MARCOS_SIZE /\ o < MARCOS_SIZE
      /\ Tras(v, y) \in s /\ Tras(v, y) = y + 1 + v[y].size
  BY TeselaEs
<1>2. Tras(w, o) = Tras(v, y) /\ Tras(v, y) # y
  BY <1>1 DEF Tras
<1>3. s \subseteq 0 .. MARCOS_SIZE /\ 0 \in s \ {y} /\ MARCOS_SIZE \in s \ {y} /\ w[o].size \in Nat
  BY <1>1 DEF Teselada
<1>4. ASSUME NEW x \in s \ {y}, x < MARCOS_SIZE
      PROVE  /\ w[x].size \in Nat /\ Tras(w, x) \in s \ {y}
             /\ \A z \in s \ {y} : z <= x \/ z >= Tras(w, x)
  <2>1. EsInicio(s, x)
    BY <1>4 DEF EsInicio
  <2>2. CASE x = o
    <3>1. \A z \in s : z \in Nat /\ (z <= o \/ z >= y) /\ (z <= y \/ z >= Tras(v, y))
      BY TeselaEs
    <3> QED BY <1>1, <1>2, <1>3, <2>2, <3>1
  <2>3. CASE x # o
    <3>1. Tras(w, x) = Tras(v, x) /\ w[x].size = v[x].size
      BY <2>1, <2>3 DEF Tras
    <3>2. /\ x \in Nat /\ v[x].size \in Nat /\ Tras(v, x) \in s /\ Tras(v, x) \in Nat /\ x < Tras(v, x)
          /\ \A z \in s : z <= x \/ z >= Tras(v, x)
      BY <2>1, TeselaEs
    <3>3. Tras(v, x) # y
      <4>1. x <= o \/ x >= y
        BY <1>4, TeselaEs
      <4>2. o <= x \/ o >= Tras(v, x)
        BY <3>2 DEF EsInicio
      <4> QED BY <1>1, <1>4, <2>3, <3>2, <4>1, <4>2
    <3> QED BY <3>1, <3>2, <3>3
  <2> QED BY <2>2, <2>3
<1> QED BY <1>3, <1>4 DEF Teselada

\* A block is cut in two.
LEMMA TeselaParte ==
  ASSUME NEW s, NEW v, NEW w, Teselada(s, v), NEW o, EsInicio(s, o), NEW n \in Nat, n + 1 <= v[o].size,
         NEW z, z = o + 1 + n, w[o].size = n, w[z].size = v[o].size - n - 1,
         \A x : EsInicio(s, x) /\ x # o => w[x].size = v[x].size
  PROVE  Teselada(s \cup {z}, w) /\ z \notin s /\ z \in Nat /\ z < MARCOS_SIZE
<1>1. /\ o \in Nat /\ v[o].size \in Nat /\ o < MARCOS_SIZE
      /\ Tras(v, o) \in s /\ Tras(v, o) = o + 1 + v[o].size /\ Tras(v, o) <= MARCOS_SIZE
      /\ \A x \in s : x \in Nat /\ (x <= o \/ x >= Tras(v, o))
  BY TeselaEs
<1>2. z \in Nat /\ o < z /\ z < Tras(v, o) /\ z < MARCOS_SIZE /\ z \notin s
  <2>1. z \in Nat /\ o < z /\ z < Tras(v, o)
    BY <1>1
  <2>2. z \notin s
    BY <1>1, <2>1
  <2> QED BY <1>1, <2>1, <2>2, DimensionTipo
<1>3. Tras(w, o) = z /\ Tras(w, z) = Tras(v, o) /\ w[o].size \in Nat /\ w[z].size \in Nat
  BY <1>1, <1>2 DEF Tras
<1>4. s \cup {z} \subseteq 0 .. MARCOS_SIZE /\ 0 \in s \cup {z} /\ MARCOS_SIZE \in s \cup {z}
  <2>1. s \subseteq 0 .. MARCOS_SIZE /\ 0 \in s /\ MARCOS_SIZE \in s
    BY DEF Teselada
  <2>2. z \in 0 .. MARCOS_SIZE
    BY <1>2, DimensionTipo
  <2> QED BY <2>1, <2>2
<1>5. ASSUME NEW x \in s \cup {z}, x < MARCOS_SIZE
      PROVE  /\ w[x].size \in Nat /\ Tras(w, x) \in s \cup {z}
             /\ \A a \in s \cup {z} : a <= x \/ a >= Tras(w, x)
  <2>1. CASE x = o
    <3>1. \A a \in s \cup {z} : a <= o \/ a >= z
      BY <1>1, <1>2
    <3> QED BY <1>3, <2>1, <3>1
  <2>2. CASE x = z
    <3>1. \A a \in s \cup {z} : a <= z \/ a >= Tras(v, o)
      BY <1>1, <1>2
    <3> QED BY <1>1, <1>3, <2>2, <3>1
  <2>3. CASE x # o /\ x # z
    <3>1. EsInicio(s, x)
      BY <1>5, <2>3 DEF EsInicio
    <3>2. Tras(w, x) = Tras(v, x) /\ w[x].size = v[x].size
      BY <2>3, <3>1 DEF Tras
    <3>3. /\ x \in Nat /\ v[x].size \in Nat /\ Tras(v, x) \in s /\ Tras(v, x) \in Nat
          /\ \A a \in s : a <= x \/ a >= Tras(v, x)
      BY <3>1, TeselaEs
    <3>4. z <= x \/ z >= Tras(v, x)
      <4>1. x <= o \/ x >= Tras(v, o)
        BY <1>1, <3>1 DEF EsInicio
      <4>2. o <= x \/ o >= Tras(v, x)
        BY <3>3 DEF EsInicio
      <4> QED BY <1>1, <1>2, <2>3, <3>3, <4>1, <4>2
    <3> QED BY <3>2, <3>3, <3>4
  <2> QED BY <2>1, <2>2, <2>3
<1> QED BY <1>2, <1>4, <1>5 DEF Teselada

\* A page that is new has one block.
LEMMA TeselaNueva ==
  ASSUME NEW v, v[0] = PaginaVacia
  PROVE  Teselada({0, MARCOS_SIZE}, v)
<1>1. v[0].size = MARCOS_SIZE - 1
  BY VaciaTipo
<1>2. Tras(v, 0) = MARCOS_SIZE
  BY <1>1, DimensionTipo DEF Tras
<1> QED BY <1>1, <1>2, DimensionTipo DEF Teselada

\* The free blocks of a page.
LEMMA LibresEs ==
  ASSUME NEW s, NEW v, Teselada(s, v)
  PROVE  /\ IsFiniteSet(BloquesLibres(s, v))
         /\ \A o \in BloquesLibres(s, v) : EsInicio(s, o) /\ v[o].isFree = -1 /\ v[o].size \in Int
         /\ \A o : EsInicio(s, o) /\ v[o].isFree = -1 => o \in BloquesLibres(s, v)
<1>1. s \subseteq 0 .. MARCOS_SIZE
  BY DEF Teselada
<1>2. IsFiniteSet(0 .. MARCOS_SIZE)
  BY FS_Interval, DimensionTipo
<1>3. IsFiniteSet(BloquesLibres(s, v))
  <2>1. BloquesLibres(s, v) \subseteq 0 .. MARCOS_SIZE
    BY <1>1 DEF BloquesLibres
  <2> QED BY <1>2, <2>1, FS_Subset
<1>4. \A o \in BloquesLibres(s, v) : EsInicio(s, o) /\ v[o].isFree = -1
  BY <1>1, DimensionTipo DEF BloquesLibres, EsInicio
<1>5. \A o : EsInicio(s, o) /\ v[o].isFree = -1 => o \in BloquesLibres(s, v)
  BY DimensionTipo DEF BloquesLibres, EsInicio
<1> QED BY <1>3, <1>4, <1>5, TeselaEs

\* Every element of a page that is tiled but its end is a block.
LEMMA IniciosSon ==
  ASSUME NEW s, NEW v, Teselada(s, v)
  PROVE  /\ \A x \in s \ {MARCOS_SIZE} : EsInicio(s, x)
         /\ EsInicio(s, 0) /\ MARCOS_SIZE \in s
<1>1. \A x \in s : x \in Nat /\ x <= MARCOS_SIZE
  BY DimensionTipo DEF Teselada
<1>2. 0 \in s /\ MARCOS_SIZE \in s /\ 0 < MARCOS_SIZE /\ MARCOS_SIZE \in Nat
  BY DimensionTipo DEF Teselada
<1> QED BY <1>1, <1>2 DEF EsInicio

\* The free space of a page whose blocks are the same.
LEMMA LibreIgual ==
  ASSUME NEW s, NEW v, NEW w, Teselada(s, v),
         \A o : EsInicio(s, o) => w[o].size = v[o].size /\ (w[o].isFree = -1 <=> v[o].isFree = -1)
  PROVE  EspacioLibre(s, w) = EspacioLibre(s, v) /\ EspacioLibre(s, v) \in Int
<1>1. BloquesLibres(s, w) = BloquesLibres(s, v)
  <2>1. \A o \in s \ {MARCOS_SIZE} : EsInicio(s, o)
    BY DimensionTipo DEF Teselada, EsInicio
  <2> QED BY <2>1 DEF BloquesLibres
<1>2. \A o \in BloquesLibres(s, v) : v[o].size \in Int /\ w[o].size = v[o].size
  BY LibresEs
<1>3. IsFiniteSet(BloquesLibres(s, v))
  BY LibresEs
<1> HIDE DEF BloquesLibres
<1> QED BY <1>1, <1>2, <1>3, EspacioIgual DEF EspacioLibre

\* Joining two free blocks gives the space of a header.
LEMMA LibreFunde ==
  ASSUME NEW s, NEW v, NEW w, Teselada(s, v), NEW o, EsInicio(s, o), NEW y, y = Tras(v, o), EsInicio(s, y),
         v[o].isFree = -1, v[y].isFree = -1,
         w[o].size = v[o].size + 1 + v[y].size, w[o].isFree = -1,
         \A x : EsInicio(s, x) /\ x # o => w[x].size = v[x].size /\ (w[x].isFree = -1 <=> v[x].isFree = -1)
  PROVE  EspacioLibre(s \ {y}, w) = EspacioLibre(s, v) + 1
<1> DEFINE S == BloquesLibres(s, v)
           R == S \ {o, y}
<1>1. IsFiniteSet(S) /\ o \in S /\ y \in S /\ \A x \in S : EsInicio(s, x) /\ v[x].size \in Int
  BY LibresEs
<1>2. o # y /\ y # MARCOS_SIZE
  BY TeselaEs DEF EsInicio
<1>3. BloquesLibres(s \ {y}, w) = S \ {y}
  <2>1. \A x \in s \ {MARCOS_SIZE} : EsInicio(s, x)
    BY IniciosSon
  <2> QED BY <1>2, <2>1 DEF BloquesLibres
<1>4. \A x \in R : w[x].size = v[x].size
  BY <1>1
<1>5. v[o].size \in Int /\ v[y].size \in Int
  BY <1>1
<1>6. \A x \in S \ {y} : w[x].size \in Int
  BY <1>1, <1>5
<1>7. IsFiniteSet(S \ {y}) /\ IsFiniteSet(R)
  BY <1>1, FS_Subset
<1> HIDE DEF S
<1>8. EspacioDe(v, S) = EspacioDe(v, S \ {y}) + v[y].size
  BY <1>1, <1>2, LibreCon
<1>9. EspacioDe(v, S \ {y}) = EspacioDe(v, R) + v[o].size /\ EspacioDe(v, R) \in Int
  BY <1>1, <1>2, <1>7, LibreCon
<1>10. EspacioDe(w, S \ {y}) = EspacioDe(v, R) + w[o].size
  <2>1. R \subseteq S \ {y} /\ o \in S \ {y} /\ S \ {y} = R \cup {o} /\ o \notin R
    BY <1>1, <1>2
  <2>2. \A x \in R : v[x].size = w[x].size
    BY <1>4
  <2> QED BY <1>6, <1>7, <2>1, <2>2, LibreCon
<1>11. EspacioDe(w, S \ {y}) = EspacioDe(v, S) + 1
  BY <1>5, <1>8, <1>9, <1>10
<1> QED BY <1>3, <1>11 DEF EspacioLibre, S

\* Cutting a free block takes what is given of it, with its header.
LEMMA LibreParte ==
  ASSUME NEW s, NEW v, NEW w, Teselada(s, v), NEW o, EsInicio(s, o), NEW n \in Nat,
         NEW z, z \notin s, z \in Nat, z < MARCOS_SIZE, v[o].isFree = -1, w[o].isFree # -1,
         w[z].isFree = -1, w[z].size = v[o].size - n - 1,
         \A x : EsInicio(s, x) /\ x # o => w[x].size = v[x].size /\ (w[x].isFree = -1 <=> v[x].isFree = -1)
  PROVE  EspacioLibre(s \cup {z}, w) = EspacioLibre(s, v) - (n + 1)
<1> DEFINE S == BloquesLibres(s, v)
           R == S \ {o}
           W == R \cup {z}
<1>1. IsFiniteSet(S) /\ o \in S /\ \A x \in S : x \in s /\ EsInicio(s, x) /\ v[x].size \in Int
  BY LibresEs DEF EsInicio
<1>2. BloquesLibres(s \cup {z}, w) = W
  <2>1. \A x \in s \ {MARCOS_SIZE} : EsInicio(s, x)
    BY IniciosSon
  <2>2. z # MARCOS_SIZE /\ o # MARCOS_SIZE
    BY DimensionTipo DEF EsInicio
  <2> QED BY <2>1, <2>2 DEF BloquesLibres
<1>3. \A x \in R : w[x].size = v[x].size
  BY <1>1
<1>4. v[o].size \in Int
  BY <1>1
<1>5. IsFiniteSet(R) /\ z \notin R
  BY <1>1, FS_Subset
<1>6. IsFiniteSet(W)
  BY <1>5, FS_AddElement
<1>7. \A x \in W : w[x].size \in Int
  BY <1>1, <1>3, <1>4
<1> HIDE DEF S
<1>8. EspacioDe(v, S) = EspacioDe(v, R) + v[o].size /\ EspacioDe(v, R) \in Int
  BY <1>1, LibreCon
<1>9. EspacioDe(w, W) = EspacioDe(v, R) + w[z].size
  <2>1. R \subseteq W /\ z \in W
    OBVIOUS
  <2>2. \A x \in R : v[x].size = w[x].size
    BY <1>3
  <2> QED BY <1>5, <1>6, <1>7, <2>1, <2>2, LibreCon
<1>10. EspacioDe(w, W) = EspacioDe(v, S) - (n + 1)
  BY <1>4, <1>8, <1>9
<1> QED BY <1>2, <1>10 DEF EspacioLibre, S

\* A block that is marked as free gives its size.
LEMMA LibreMarca ==
  ASSUME NEW s, NEW v, NEW w, Teselada(s, v), NEW o, EsInicio(s, o), v[o].isFree # -1, w[o].isFree = -1,
         w[o].size = v[o].size,
         \A x : EsInicio(s, x) /\ x # o => w[x].size = v[x].size /\ (w[x].isFree = -1 <=> v[x].isFree = -1)
  PROVE  EspacioLibre(s, w) = EspacioLibre(s, v) + v[o].size
<1> DEFINE S == BloquesLibres(s, v)
           W == S \cup {o}
<1>1. IsFiniteSet(S) /\ o \notin S /\ \A x \in S : EsInicio(s, x) /\ v[x].size \in Int
  BY LibresEs
<1>2. BloquesLibres(s, w) = W
  <2>1. \A x \in s \ {MARCOS_SIZE} : EsInicio(s, x)
    BY IniciosSon
  <2>2. o # MARCOS_SIZE /\ o \in s
    BY DimensionTipo DEF EsInicio
  <2> QED BY <2>1, <2>2 DEF BloquesLibres
<1>3. v[o].size \in Int
  BY TeselaEs
<1>4. IsFiniteSet(W)
  BY <1>1, FS_AddElement
<1>5. \A x \in W : w[x].size \in Int
  BY <1>1, <1>3
<1>6. \A x \in S : v[x].size = w[x].size
  BY <1>1
<1> HIDE DEF S
<1>7. EspacioDe(w, W) = EspacioDe(v, S) + w[o].size
  <2>1. S \subseteq W /\ o \in W
    OBVIOUS
  <2> QED BY <1>1, <1>4, <1>5, <1>6, <2>1, LibreCon
<1> QED BY <1>2, <1>7 DEF EspacioLibre, S

\* A page that is new is free but for a header.
LEMMA LibreNueva ==
  ASSUME NEW v, v[0] = PaginaVacia
  PROVE  EspacioLibre({0, MARCOS_SIZE}, v) = MARCOS_SIZE - 1
<1>1. BloquesLibres({0, MARCOS_SIZE}, v) = {} \cup {0}
  BY DimensionTipo, VaciaTipo DEF BloquesLibres
<1>2. EspacioDe(v, {} \cup {0}) = EspacioDe(v, {}) + v[0].size
  <2>1. v[0].size \in Int
    BY DimensionTipo, VaciaTipo
  <2>2. IsFiniteSet({})
    BY FS_EmptySet
  <2>3. \A o \in {} \cup {0} : v[o].size \in Int
    BY <2>1
  <2> QED BY <2>2, <2>3, EspacioMas
<1>3. EspacioDe(v, {}) = 0
  <2>1. IsFiniteSet({})
    BY FS_EmptySet
  <2>2. PICK it : EsSuma({}, Medidas(v, {}), it) /\ EspacioDe(v, {}) = it[{}]
    BY <2>1, EspacioEs
  <2>3. Suma({}, Medidas(v, {}), it)
    BY <2>2, SumaPorCualquiera
  <2> QED BY <2>2, <2>3 DEF Suma
<1>4. v[0].size = MARCOS_SIZE - 1
  BY VaciaTipo
<1>5. EspacioDe(v, {} \cup {0}) = MARCOS_SIZE - 1
  BY <1>2, <1>3, <1>4, DimensionTipo
<1> QED BY <1>1, <1>5 DEF EspacioLibre

-----------------------------------------------------------------------------
(* What is to be written and to be read, when a message comes or is served.  *)

\* Nothing to be written comes, and more may be.
LEMMA EscriturasMas ==
  ASSUME NEW q, NEW W, NEW M, Escrituras(q, W, M), NEW V, W \subseteq V, NEW r,
         r = q \/ \E e : Crecio(q, e, r) /\ e.op # "escribe"
  PROVE  Escrituras(r, V, M)
<1>1. CASE r = q
  BY <1>1 DEF Escrituras
<1>2. CASE \E e : Crecio(q, e, r) /\ e.op # "escribe"
  <2>1. PICK e : Crecio(q, e, r) /\ e.op # "escribe"
    BY <1>2
  <2>2. \A i \in Sitio(r, "escribe") : i \in Sitio(q, "escribe") /\ r[i] = q[i]
    BY <2>1, SitioCrece
  <2>3. \A i \in DOMAIN q : i \in DOMAIN r /\ r[i] = q[i]
    BY <2>1, SitioCrece
  <2> QED BY <2>2, <2>3 DEF Escrituras
<1> QED BY <1>1, <1>2

\* A writing comes when only the one of the other thread is to be done.
LEMMA EscriturasManda ==
  ASSUME NEW q, NEW W, NEW M, Escrituras(q, W, M), \A i \in Sitio(q, "escribe") : q[i] \in M,
         NEW V, NEW e \in V, e \notin M, NEW r, Crecio(q, e, r)
  PROVE  Escrituras(r, V, M)
<1>1. \A i \in Sitio(r, "escribe") : (i \in Sitio(q, "escribe") /\ r[i] = q[i]) \/ (i = Len(q) + 1 /\ r[i] = e)
  BY SitioCrece
<1>2. \A i \in DOMAIN q : i \in DOMAIN r /\ r[i] = q[i]
  BY SitioCrece
<1>3. \A i, j \in Sitio(q, "escribe") : i = j
  BY DEF Escrituras
<1> QED BY <1>1, <1>2, <1>3 DEF Escrituras

\* The mark of a block comes.
LEMMA EscriturasMarca ==
  ASSUME NEW q, NEW W, Escrituras(q, W, {}), NEW e, e \notin W, e.op = "escribe", NEW r, Crecio(q, e, r)
  PROVE  Escrituras(r, W, {e})
<1>1. \A i \in Sitio(r, "escribe") : (i \in Sitio(q, "escribe") /\ r[i] = q[i]) \/ (i = Len(q) + 1 /\ r[i] = e)
  BY SitioCrece
<1>2. \A i, j \in Sitio(q, "escribe") : i = j
  BY DEF Escrituras
<1>3. \A i \in Sitio(q, "escribe") : q[i] \in W
  BY DEF Escrituras
<1>4. Len(q) + 1 \in DOMAIN r /\ r[Len(q) + 1] = e
  BY SitioCrece
<1> QED BY <1>1, <1>2, <1>3, <1>4 DEF Escrituras

\* Another message is served.
LEMMA EscriturasSigue ==
  ASSUME NEW q, NEW W, NEW M, Escrituras(q, W, M), \A m \in M : m.op = "escribe",
         NEW r, Menguo(q, r), Head(q).op # "escribe"
  PROVE  Escrituras(r, W, M)
<1>1. \A i \in Sitio(r, "escribe") : i \in Nat \ {0} /\ i + 1 \in Sitio(q, "escribe") /\ r[i] = q[i + 1]
  BY SitioMengua
<1>2. \A i, j \in Sitio(r, "escribe") : i # j => i + 1 # j + 1
  BY <1>1
<1>3. ASSUME NEW m \in M PROVE \E i \in DOMAIN r : r[i] = m
  <2>1. PICK i \in DOMAIN q : q[i] = m
    BY DEF Escrituras
  <2>2. i # 1
    BY <2>1, SitioMengua
  <2> QED BY <2>1, <2>2, SitioMengua
<1> QED BY <1>1, <1>2, <1>3 DEF Escrituras

\* What procesarHeap writes is served: nothing more of it is to be done.
LEMMA EscriturasHecha ==
  ASSUME NEW q, NEW W, NEW M, Escrituras(q, W, M),
         NEW r, Menguo(q, r), Head(q).op = "escribe", Head(q) \notin M, NEW V
  PROVE  Escrituras(r, V, M) /\ \A i \in Sitio(r, "escribe") : r[i] \in M
<1>1. \A i \in Sitio(r, "escribe") : i \in Nat \ {0} /\ i + 1 \in Sitio(q, "escribe") /\ r[i] = q[i + 1]
  BY SitioMengua
<1>2. 1 \in Sitio(q, "escribe") /\ q[1] = Head(q)
  BY SitioMengua
<1>3. \A i \in Sitio(r, "escribe") : i + 1 # 1
  BY <1>1
<1>4. \A i \in Sitio(r, "escribe") : r[i] \in M
  BY <1>1, <1>2, <1>3 DEF Escrituras
<1>5. \A i, j \in Sitio(r, "escribe") : i # j => i + 1 # j + 1
  BY <1>1
<1>6. \A i, j \in Sitio(r, "escribe") : i = j
  BY <1>1, <1>4, <1>5 DEF Escrituras
<1>7. ASSUME NEW m \in M PROVE \E i \in DOMAIN r : r[i] = m
  <2>1. PICK i \in DOMAIN q : q[i] = m
    BY DEF Escrituras
  <2>2. i # 1
    BY <1>2, <2>1
  <2> QED BY <2>1, <2>2, SitioMengua
<1> QED BY <1>4, <1>6, <1>7 DEF Escrituras

\* The mark is served.
LEMMA EscriturasMarcada ==
  ASSUME NEW q, NEW W, NEW M, Escrituras(q, W, M),
         NEW r, Menguo(q, r), Head(q).op = "escribe", Head(q) \in M
  PROVE  Escrituras(r, W, {})
<1>1. \A i \in Sitio(r, "escribe") : i \in Nat \ {0} /\ i + 1 \in Sitio(q, "escribe") /\ r[i] = q[i + 1]
  BY SitioMengua
<1>2. 1 \in Sitio(q, "escribe") /\ q[1] = Head(q)
  BY SitioMengua
<1>3. \A i \in Sitio(r, "escribe") : i + 1 # 1
  BY <1>1
<1>4. \A i \in Sitio(r, "escribe") : r[i] \notin M
  BY <1>1, <1>2, <1>3 DEF Escrituras
<1>5. \A i, j \in Sitio(r, "escribe") : i # j => i + 1 # j + 1
  BY <1>1
<1>6. \A i, j \in Sitio(r, "escribe") : i = j
  BY <1>1, <1>4, <1>5 DEF Escrituras
<1> QED BY <1>1, <1>4, <1>6 DEF Escrituras

\* Nothing is to be written.
LEMMA EscriturasNinguna ==
  ASSUME NEW q, \A i \in DOMAIN q : q[i].op # "escribe", NEW V
  PROVE  Escrituras(q, V, {})
  BY DEF Escrituras, Sitio

\* The readings.
LEMMA LecturasMas ==
  ASSUME NEW q, NEW L, Lecturas(q, L), NEW r, r = q \/ \E e : Crecio(q, e, r) /\ (e.op # "lee" \/ e \in L)
  PROVE  Lecturas(r, L)
<1>1. CASE r = q
  BY <1>1
<1>2. CASE \E e : Crecio(q, e, r) /\ (e.op # "lee" \/ e \in L)
  <2>1. PICK e : Crecio(q, e, r) /\ (e.op # "lee" \/ e \in L)
    BY <1>2
  <2>2. \A i \in Sitio(r, "lee") : (i \in Sitio(q, "lee") /\ r[i] = q[i]) \/ r[i] \in L
    BY <2>1, SitioCrece
  <2> QED BY <2>2 DEF Lecturas
<1> QED BY <1>1, <1>2

LEMMA LecturasMenos ==
  ASSUME NEW q, NEW L, Lecturas(q, L), NEW r, Menguo(q, r)
  PROVE  Lecturas(r, L) /\ (Head(q).op = "lee" => Head(q) \in L)
<1>1. \A i \in Sitio(r, "lee") : i + 1 \in Sitio(q, "lee") /\ r[i] = q[i + 1]
  BY SitioMengua
<1>2. Head(q).op = "lee" => 1 \in Sitio(q, "lee") /\ q[1] = Head(q)
  BY SitioMengua
<1> QED BY <1>1, <1>2 DEF Lecturas

\* The order of both.
LEMMA FusionMas ==
  ASSUME NEW q, NEW W, NEW n, NEW h, FusionAntes(q, W, n, h), NEW r,
         r = q \/ \E e : Crecio(q, e, r) /\ e.op # "lee" /\ (e.op = "escribe" => e \notin W)
  PROVE  FusionAntes(r, W, n, h)
<1>1. CASE r = q
  BY <1>1
<1>2. CASE \E e : Crecio(q, e, r) /\ e.op # "lee" /\ (e.op = "escribe" => e \notin W)
  <2>1. PICK e : Crecio(q, e, r) /\ e.op # "lee" /\ (e.op = "escribe" => e \notin W)
    BY <1>2
  <2>2. \A i \in Sitio(r, "lee") : i \in Sitio(q, "lee")
    BY <2>1, SitioCrece
  <2>3. \A i \in Sitio(r, "escribe") : r[i] \in W => i \in Sitio(q, "escribe") /\ q[i] \in W
    BY <2>1, SitioCrece
  <2> QED BY <2>2, <2>3 DEF FusionAntes
<1> QED BY <1>1, <1>2

LEMMA FusionMenos ==
  ASSUME NEW q, NEW W, NEW n, NEW h, FusionAntes(q, W, n, h), NEW r, Menguo(q, r), NEW m,
         m = n \/ Head(q).op = "lee"
  PROVE  FusionAntes(r, W, m, h)
<1>1. \A i \in Sitio(r, "lee") : i \in Nat \ {0} /\ i + 1 \in Sitio(q, "lee")
  BY SitioMengua
<1>2. \A i \in Sitio(r, "escribe") : i \in Nat \ {0} /\ i + 1 \in Sitio(q, "escribe") /\ r[i] = q[i + 1]
  BY SitioMengua
<1>3. Head(q).op = "lee" => 1 \in Sitio(q, "lee")
  BY SitioMengua
<1>4. \A j \in Sitio(r, "escribe"), i \in Sitio(r, "lee") : j + 1 < i + 1 => j < i
  BY <1>1, <1>2
<1>5. \A j \in Sitio(r, "escribe") : ~(j + 1 < 1)
  BY <1>2
<1> QED BY <1>1, <1>2, <1>3, <1>4, <1>5 DEF FusionAntes

\* Nothing of W is to be done.
LEMMA FusionNinguna ==
  ASSUME NEW q, NEW W, \A i \in Sitio(q, "escribe") : q[i] \notin W, NEW n, NEW h
  PROVE  FusionAntes(q, W, n, h)
  BY DEF FusionAntes

-----------------------------------------------------------------------------
(* What the steps of the threads leave as it is.                            *)

\* Where the invariant holds, and the threads and the frames, before and after a
\* step.
Antes(t)   == TiposHeap /\ Hilos /\ Marcos /\ historia = {} /\ BloquesDe(t)
Despues    == TiposHeap' /\ Hilos' /\ Marcos' /\ historia' = {}

LEMMA ContenidoEs ==
  ASSUME TiposHeap, NEW n \in Paginas, NEW o \in 0 .. MARCOS_SIZE - 1
  PROVE  /\ Contenido[n][o] \in Celdas
         /\ Contenido[n][o] = IF Marco(n) * MARCOS_SIZE + o \in DOMAIN contenido
                              THEN contenido[Marco(n) * MARCOS_SIZE + o] ELSE Otro
<1>1. Contenido[n][o] = IF Marco(n) * MARCOS_SIZE + o \in DOMAIN contenido
                        THEN contenido[Marco(n) * MARCOS_SIZE + o] ELSE Otro
  BY DEF Contenido
<1>2. \A a \in DOMAIN contenido : contenido[a] \in Celdas
  BY DEF TiposHeap
<1> QED BY <1>1, <1>2, CeldaTipo

LEMMA ContenidoQueda == UNCHANGED contenido => Contenido' = Contenido
  BY DEF Contenido, Marco, CalcularPosicion

\* The threads work on pages of different programs.
LEMMA NodosAparte ==
  ASSUME TiposHeap, Lugares, pide.pc # "espera", libera.pc # "espera"
  PROVE  /\ Nodo(pide) # PaginaDe(libera.b) /\ pide.pid # libera.b.pid
         /\ Nodo(pide) \in Paginas /\ PaginaDe(libera.b) \in Paginas /\ libera.b.offset \in Int
<1>1. pide \in Buscando /\ libera.b \in Bloques
  BY HiloTipo, LiberaTipo DEF TiposHeap
<1>2. pide.pid # libera.b.pid
  BY DEF Lugares, Pidiendo, Liberando
<1>3. Nodo(pide).pid = pide.pid /\ PaginaDe(libera.b).pid = libera.b.pid
  BY DEF Nodo, PaginaDe, Pagina
<1> QED BY <1>1, <1>2, <1>3, BuscandoTipo, BloqueTipo

\* The pages of the heap are in their frames.
LEMMA PaginasHeapSon ==
  ASSUME TiposHeap, Marcos, NEW n \in PaginasHeap
  PROVE  n \in Paginas /\ EnSuMarco(n) /\ n.pid \in Cargados
<1>1. PICK j \in DOMAIN listaAdmHeap : n = PaginaDe(listaAdmHeap[j]) /\ listaAdmHeap[j].pid \in Cargados
  BY DEF PaginasHeap
<1>2. listaAdmHeap[j].pid \in Pids /\ listaAdmHeap[j].pagina \in Nat
  <2>1. listaAdmHeap[j] \in Entradas
    BY <1>1, EnLista DEF TiposHeap
  <2> QED BY <2>1 DEF Entradas
<1>3. listaAdmHeap[j].pagina < ultimaPaginaPid[listaAdmHeap[j].pid]
  BY <1>1 DEF Marcos, Administradas
<1>4. n = Pagina(listaAdmHeap[j].pid, listaAdmHeap[j].pagina)
  BY <1>1 DEF PaginaDe
<1>5. EnSuMarco(n)
  BY <1>1, <1>2, <1>3, <1>4 DEF Marcos, PaginasDadas
<1> QED BY <1>1, <1>2, <1>4, <1>5, PaginaTipo

LEMMA PaginasQuedan ==
  ASSUME MismasEntradas, Cargados' = Cargados
  PROVE  PaginasHeap' = PaginasHeap
  BY DEF MismasEntradas, PaginasHeap, PaginaDe, Pagina

\* The threads write no header, load no program and, but for a page that is
\* new, add none.
LEMMA HilosDejan ==
  ASSUME NEW t, Antes(t), ProcesarHeap \/ LiberarHeap
  PROVE  Contenido' = Contenido /\ Cargados' = Cargados /\ (PaginasHeap' = PaginasHeap \/ PideRegistra)
<1>1. UNCHANGED memoria
  BY HilosEnvian DEF Antes
<1>2. Contenido' = Contenido
  BY <1>1, ContenidoQueda DEF memoria
<1>3. CambiaUno
  BY HilosCambian DEF Antes, Hilos
<1>4. Cargados' = Cargados
  BY <1>3, CambiaUnoDa DEF Antes
<1>5. MismasEntradas \/ PideRegistra
  BY HilosListan DEF Antes
<1> QED BY <1>2, <1>4, <1>5, PaginasQuedan

\* A page is seen as it is when procesarHeap cuts no block of it.
LEMMA SinCorteVista ==
  ASSUME NEW h, h.pc \notin {"escribeBloque", "escribeResto"}
  PROVE  Corte(h) = SinCorte /\ \A c : \A n \in Paginas : Vista(c, Corte(h), n) = c[n]
<1>1. Corte(h) = SinCorte
  BY DEF Corte
<1>2. \A n \in Paginas : n # SinCorte.nodo
  BY MarcoEs DEF SinCorte
<1> QED BY <1>1, <1>2 DEF Vista

\* The blocks, when procesarHeap neither cuts nor takes anything.
LEMMA BloquesQuietos ==
  ASSUME NEW t, BloquesDe(t), Contenido' = Contenido, PaginasHeap' = PaginasHeap,
         UNCHANGED <<libera, listaAdmHeap, bloques, colaLiberaHeap>>,
         Corte(pide)' = Corte(pide), Reservado(pide)' = Reservado(pide)
  PROVE  Teselado(t)' /\ EnUsoBien(t)' /\ Contado(t)' /\ (UNCHANGED ultimaPagina => Distintas')
<1>1. Teselado(t)'
  BY DEF BloquesDe, Teselado
<1>2. EnUsoBien(t)'
  BY DEF BloquesDe, EnUsoBien
<1>3. Contado(t)'
  BY DEF BloquesDe, Contado
<1>4. UNCHANGED ultimaPagina => Distintas'
  BY DEF BloquesDe, Distintas
<1> QED BY <1>1, <1>2, <1>3, <1>4

\* liberarHeap, when procesarHeap goes on.
LEMMA LiberaQuieta ==
  ASSUME NEW t, BloquesDe(t), Contenido' = Contenido, PaginasHeap' = PaginasHeap, UNCHANGED libera,
         pide.pc # "compactado" \/ pide'.pc = "compactado"
  PROVE  LiberaBien' /\ Marcas(Contenido, libera)' = Marcas(Contenido, libera)
<1>1. LiberaBien'
  BY DEF BloquesDe, LiberaBien, PasoLibera
<1> QED BY <1>1

-----------------------------------------------------------------------------
(* Who reads.                                                               *)

LEMMA LeyendoNadie ==
  ASSUME Despues, ~LeyendoMetadata(pide)', ~LeyendoMetadata(libera)', NEW u
  PROVE  Leyendo(u)'
<1>1. sems'.meta + CuantosDe(aMemoria', "lee") = 0
  BY DEF Despues, Hilos, RespuestasContadas, Uno
<1>2. Len(aMemoria') \in Nat /\ DOMAIN aMemoria' = 1 .. Len(aMemoria') /\ sems'.meta \in Nat
  BY EnLista DEF Despues, TiposHeap
<1>3. CuantosDe(aMemoria', "lee") \in Nat
  BY <1>2, CuantosHay
<1>4. sems'.meta = 0 /\ CuantosDe(aMemoria', "lee") = 0
  BY <1>1, <1>2, <1>3
<1>5. \A i \in DOMAIN aMemoria' : aMemoria'[i].op # "lee"
  BY <1>2, <1>4, CuantosHay
<1>6. UnoLee(pide, libera)'
  BY DEF UnoLee
<1>7. Lecturas(aMemoria, LecturasDe(pide, libera))'
  BY <1>5 DEF Lecturas, Sitio
<1>8. Leido(Contenido, pide, libera, sems.meta, metaDataLeida)'
  BY <1>4 DEF Leido
<1>9. FusionAntes(aMemoria, EscriturasPide(u, Contenido, pide), sems.meta, pide)'
  BY DEF FusionAntes
<1> QED BY <1>6, <1>7, <1>8, <1>9 DEF Leyendo

\* procesarHeap begins to read a header.
LEMMA LeyendoPide ==
  ASSUME TiposHeap, Despues, NEW h, NEW pc \in {"leeActual", "leeSiguiente", "leeBloque", "leeViejo"},
         NEW o, o = (IF pc = "leeSiguiente" THEN h.off + 1 + h.size ELSE h.off), Lee(h, pc, o),
         UNCHANGED libera, NEW u
  PROVE  Leyendo(u)'
<1>1. PICK m : m = Lectura(Nodo(h), o)
  OBVIOUS
<1>2. m.op = "lee" /\ Crecio(aMemoria, m, aMemoria')
  BY <1>1, LeeTipos DEF Lectura, Mensaje, TiposHeap
<1>3. ~LeyendoMetadata(libera)'
  BY DEF Lee, Despues, Solapa
<1>4. pide'.pc = pc /\ pide'.off = h.off /\ pide'.size = h.size /\ Nodo(pide') = Nodo(h)
  BY DEF Lee, Sigue, Nodo
<1>5. LeyendoMetadata(pide)' /\ LeeEn(pide') = o
  BY <1>4 DEF LeyendoMetadata, LeeEn
<1>6. LecturasDe(pide', libera') = {m}
  BY <1>1, <1>4, <1>5 DEF LecturasDe
<1>7. sems'.meta + CuantosDe(aMemoria', "lee") = 1
  BY <1>3, <1>5 DEF Despues, Hilos, RespuestasContadas, Uno
<1>8. Len(aMemoria) \in Nat /\ DOMAIN aMemoria' = 1 .. Len(aMemoria) + 1 /\ aMemoria'[Len(aMemoria) + 1] = m
  BY <1>2 DEF Crecio
<1>9. CuantosDe(aMemoria', "lee") \in Nat /\ sems'.meta \in Nat
  <2>1. Len(aMemoria) + 1 \in Nat
    BY <1>8
  <2> QED BY <1>8, <2>1, CuantosHay DEF Despues, TiposHeap
<1>10. CuantosDe(aMemoria', "lee") # 0
  <2>1. Len(aMemoria) + 1 \in Nat /\ Len(aMemoria) + 1 \in DOMAIN aMemoria'
    BY <1>8
  <2> QED BY <1>2, <1>8, <2>1, CuantosHay
<1>11. sems'.meta = 0 /\ CuantosDe(aMemoria', "lee") <= 1
  BY <1>7, <1>9, <1>10
<1>12. \A i \in Sitio(aMemoria', "lee") : i = Len(aMemoria) + 1
  <2>1. Len(aMemoria) + 1 \in Nat /\ Len(aMemoria) + 1 \in DOMAIN aMemoria'
    BY <1>8
  <2> QED BY <1>2, <1>8, <1>11, <2>1, CuantosHay DEF Sitio
<1>13. UnoLee(pide, libera)'
  BY <1>3 DEF UnoLee
<1>14. Lecturas(aMemoria, LecturasDe(pide, libera))'
  BY <1>6, <1>8, <1>12 DEF Lecturas
<1>15. Leido(Contenido, pide, libera, sems.meta, metaDataLeida)'
  BY <1>11 DEF Leido
<1>16. FusionAntes(aMemoria, EscriturasPide(u, Contenido, pide), sems.meta, pide)'
  <2>1. \A j \in Sitio(aMemoria', "escribe") : j < Len(aMemoria) + 1
    <3>1. \A j \in Sitio(aMemoria', "escribe") : j \in 1 .. Len(aMemoria) + 1 /\ j # Len(aMemoria) + 1
      BY <1>2, <1>8 DEF Sitio
    <3> QED BY <1>8, <3>1
  <2> QED BY <1>11, <1>12, <2>1 DEF FusionAntes
<1> QED BY <1>13, <1>14, <1>15, <1>16 DEF Leyendo

\* What is sent, when it reads nothing and is not what procesarHeap has to see.
EnviaAparte(t) ==
  \/ UNCHANGED aMemoria
  \/ \E m \in Mensajes :
       /\ m.op # "lee" /\ aMemoria' = Append(aMemoria, m)
       /\ m.op = "escribe" /\ LeyendoMetadata(pide) => m \notin EscriturasPide(t, Contenido, pide)

\* Who was reading goes on, and the others do not read.
LEMMA LeyendoQueda ==
  ASSUME NEW t, TiposHeap, Leyendo(t), Contenido' = Contenido, UNCHANGED metaDataLeida, sems'.meta = sems.meta,
         UNCHANGED pide \/ (~LeyendoMetadata(pide) /\ ~LeyendoMetadata(pide)'),
         UNCHANGED libera \/ (~LeyendoMetadata(libera) /\ ~LeyendoMetadata(libera)'),
         EnviaAparte(t), NEW u, LeyendoMetadata(pide) => u = t
  PROVE  Leyendo(u)'
<1>1. aMemoria' = aMemoria \/ \E m :
         /\ Crecio(aMemoria, m, aMemoria') /\ m.op # "lee"
         /\ m.op = "escribe" /\ LeyendoMetadata(pide) => m \notin EscriturasPide(t, Contenido, pide)
  BY EnviaTipo DEF EnviaAparte, TiposHeap
<1>2. LecturasDe(pide, libera)' = LecturasDe(pide, libera)
  BY DEF LecturasDe
<1>3. UnoLee(pide, libera)'
  BY DEF UnoLee, Leyendo
<1>4. Lecturas(aMemoria, LecturasDe(pide, libera))'
  <2>1. Lecturas(aMemoria, LecturasDe(pide, libera))
    BY DEF Leyendo
  <2>2. aMemoria' = aMemoria \/ \E e : Crecio(aMemoria, e, aMemoria') /\ (e.op # "lee" \/ e \in LecturasDe(pide, libera))
    BY <1>1
  <2>3. Lecturas(aMemoria', LecturasDe(pide, libera))
    BY <2>1, <2>2, LecturasMas
  <2> QED BY <1>2, <2>3
<1>5. Leido(Contenido, pide, libera, sems.meta, metaDataLeida)'
  BY DEF Leido, Leyendo
<1>6. FusionAntes(aMemoria, EscriturasPide(u, Contenido, pide), sems.meta, pide)'
  <2>1. CASE ~LeyendoMetadata(pide)'
    BY <2>1 DEF FusionAntes
  <2>2. CASE LeyendoMetadata(pide)'
    <3>1. UNCHANGED pide /\ u = t /\ LeyendoMetadata(pide)
      BY <2>2
    <3>2. FusionAntes(aMemoria, EscriturasPide(t, Contenido, pide), sems.meta, pide)
      BY DEF Leyendo
    <3>3. PICK W : W = EscriturasPide(t, Contenido, pide)
      OBVIOUS
    <3>4. aMemoria' = aMemoria \/ \E e : Crecio(aMemoria, e, aMemoria') /\ e.op # "lee" /\ (e.op = "escribe" => e \notin W)
      BY <1>1, <3>1, <3>3
    <3>5. FusionAntes(aMemoria', W, sems.meta, pide)
      BY <3>2, <3>3, <3>4, FusionMas
    <3> QED BY <3>1, <3>3, <3>5
  <2> QED BY <2>1, <2>2
<1> QED BY <1>3, <1>4, <1>5, <1>6 DEF Leyendo

-----------------------------------------------------------------------------
(* The blocks, when procesarHeap looks for one.                             *)

Cortando == {"leeViejo", "escribeBloque", "escribeResto"}

LEMMA SinCortar ==
  ASSUME NEW h, h.pc \notin Cortando
  PROVE  /\ Corte(h) = SinCorte /\ Reservado(h) = SinCuenta
         /\ h.pc \notin {"compactado", "leeActual", "leeBloque", "paginaNueva"} =>
              \A t, c : EscriturasPide(t, c, h) = {}
  BY DEF Cortando, Corte, Reservado, EscriturasPide

\* What is to be written, by whom.
LEMMA EscribeQuien ==
  /\ \A t, c, h : \A m \in EscriturasPide(t, c, h) : m.op = "escribe" /\ m.nodo = Nodo(h)
  /\ \A c, l : \A m \in Marcas(c, l) : m.op = "escribe" /\ m.nodo = PaginaDe(l.b) /\ l.pc \in {"escribe", "escrito"}
<1>1. \A n, o, c : Escritura(n, o, c).op = "escribe" /\ Escritura(n, o, c).nodo = n
  BY DEF Escritura, Mensaje
<1>2. \A t, c, h : \A m \in EscriturasPide(t, c, h) : m.op = "escribe" /\ m.nodo = Nodo(h)
  BY <1>1 DEF EscriturasPide
<1>3. \A c, l : \A m \in Marcas(c, l) : m.op = "escribe" /\ m.nodo = PaginaDe(l.b) /\ l.pc \in {"escribe", "escrito"}
  BY <1>1 DEF Marcas, MarcaDe, Marcando
<1> QED BY <1>2, <1>3

LEMMA EscribeAparte ==
  ASSUME TiposHeap, Lugares, pide.pc # "espera", NEW n, n = Nodo(pide), NEW m, m.nodo = n
  PROVE  m \notin Marcas(Contenido, libera)
<1>1. ASSUME m \in Marcas(Contenido, libera) PROVE FALSE
  <2>1. m.nodo = PaginaDe(libera.b) /\ libera.pc # "espera"
    BY <1>1, EscribeQuien
  <2> QED BY <2>1, NodosAparte
<1> QED BY <1>1

\* procesarHeap has read: nothing of what it writes is left.
LEMMA NadaQueFundir ==
  ASSUME NEW t, Antes(t), LeyendoMetadata(pide), sems.meta > 0
  PROVE  Escrituras(aMemoria, {}, Marcas(Contenido, libera)) /\ ~LeyendoMetadata(libera)
<1>1. \A j \in Sitio(aMemoria, "escribe") : aMemoria[j] \notin EscriturasPide(t, Contenido, pide)
  <2>1. sems.meta # 0
    BY DEF Antes, TiposHeap
  <2> QED BY <2>1 DEF Antes, BloquesDe, Leyendo, FusionAntes
<1>2. Escrituras(aMemoria, EscriturasPide(t, Contenido, pide), Marcas(Contenido, libera))
  BY DEF Antes, BloquesDe, Escribiendo
<1>3. ~LeyendoMetadata(libera)
  BY DEF Antes, BloquesDe, Leyendo, UnoLee
<1> QED BY <1>1, <1>2, <1>3 DEF Escrituras

\* A thread has the answer of the only writing.
LEMMA NadaQueEscribir ==
  ASSUME NEW t, Antes(t), sems.pagina > 0, pide.pc \notin EsperaEscritura \/ libera.pc # "escribe"
  PROVE  /\ \A i \in DOMAIN aMemoria : aMemoria[i].op # "escribe"
         /\ Marcas(Contenido, libera) = {} /\ ~Marcando(Contenido, libera) /\ Escrituras(aMemoria, {}, {})
<1>1. sems.pagina + CuantosDe(aMemoria, "escribe") <= 1
  BY DEF Antes, Hilos, RespuestasContadas, Uno
<1>2. Len(aMemoria) \in Nat /\ DOMAIN aMemoria = 1 .. Len(aMemoria) /\ sems.pagina \in Nat
  BY EnLista DEF Antes, TiposHeap
<1>3. CuantosDe(aMemoria, "escribe") \in Nat
  BY <1>2, CuantosHay
<1>4. CuantosDe(aMemoria, "escribe") = 0
  BY <1>1, <1>2, <1>3
<1>5. \A i \in DOMAIN aMemoria : aMemoria[i].op # "escribe"
  BY <1>2, <1>4, CuantosHay
<1>6. \A m \in Marcas(Contenido, libera) : \E i \in DOMAIN aMemoria : aMemoria[i] = m
  BY DEF Antes, BloquesDe, Escribiendo, Escrituras
<1>7. \A m \in Marcas(Contenido, libera) : m.op = "escribe"
  BY EscribeQuien
<1>8. Marcas(Contenido, libera) = {}
  BY <1>5, <1>6, <1>7
<1>9. ~Marcando(Contenido, libera)
  BY <1>8 DEF Marcas
<1> QED BY <1>5, <1>8, <1>9, EscriturasNinguna

\* A step of procesarHeap that cuts nothing.
LEMMA PideComun ==
  ASSUME NEW t, Antes(t), ProcesarHeap, PaginasHeap' = PaginasHeap,
         pide.pc \notin Cortando, pide'.pc \notin Cortando, UNCHANGED <<libera, listaAdmHeap, bloques, colaLiberaHeap>>,
         pide.pc # "compactado" \/ pide'.pc = "compactado" \/ ~Marcando(Contenido, libera) \/ libera.pc # "escrito",
         UNCHANGED ultimaPagina \/ Distintas',
         Escribiendo(t)', Leyendo(t)', PideBien(t)'
  PROVE  BloquesDe(t)'
<1>1. Contenido' = Contenido
  BY HilosDejan
<1>2. Corte(pide)' = Corte(pide) /\ Reservado(pide)' = Reservado(pide)
  <2>1. Corte(pide) = SinCorte /\ Reservado(pide) = SinCuenta
    BY SinCortar
  <2>2. Corte(pide') = SinCorte /\ Reservado(pide') = SinCuenta
    BY SinCortar
  <2> QED BY <2>1, <2>2
<1>3. BloquesDe(t)
  BY DEF Antes
<1>4. Teselado(t)' /\ EnUsoBien(t)' /\ Contado(t)' /\ (UNCHANGED ultimaPagina => Distintas')
  BY <1>1, <1>2, <1>3, BloquesQuietos
<1>5. LiberaBien'
  BY <1>1, <1>3 DEF BloquesDe, LiberaBien, PasoLibera
<1> QED BY <1>4, <1>5 DEF BloquesDe

\* What the step of procesarHeap is in, while it looks for a block.
LEMMA BuscaBien ==
  ASSUME NEW t, pide'.pc \in {"leeActual", "leeBloque", "compactado", "sinLugar", "espera"},
         pide'.pc # "espera" => pide'.cantidad + 2 <= MARCOS_SIZE,
         pide'.pc \notin {"sinLugar", "espera"} =>
           Nodo(pide') \in PaginasHeap' /\ EsInicio(t[Nodo(pide')], pide'.off)
  PROVE  PideBien(t)'
  BY DEF PideBien, PasoPide, EnBloque

\* procesarHeap begins with a page, or goes on with it.
LEMMA EmpiezaBien ==
  ASSUME NEW t, Antes(t), Despues, NEW h \in Buscando, EmpiezaPagina(h), UNCHANGED libera,
         Contenido' = Contenido, PaginasHeap' = PaginasHeap,
         Nodo(h) \in PaginasHeap, h.off \in t[Nodo(h)], h.cantidad + 2 <= MARCOS_SIZE, pide.pc \notin Cortando,
         \/ Escrituras(aMemoria, {}, Marcas(Contenido, libera))
         \/ h = pide /\ pide.pc = "compactado"
  PROVE  Leyendo(t)' /\ Escribiendo(t)' /\ PideBien(t)' /\ pide'.pc \in {"leeActual", "leeBloque"}
<1>1. Nodo(h) \in Paginas
  BY BuscandoTipo
<1>2. Teselada(t[Nodo(h)], Contenido[Nodo(h)])
  <2>1. Vista(Contenido, Corte(pide), Nodo(h)) = Contenido[Nodo(h)]
    BY <1>1, SinCorteVista DEF Cortando
  <2> QED BY <2>1 DEF Antes, BloquesDe, Teselado, Teselas
<1>3. PICK pc, g :
        /\ pc \in {"leeActual", "leeBloque"}
        /\ Lee(g, pc, g.off) /\ g.pid = h.pid /\ g.cantidad = h.cantidad /\ g.pagina = h.pagina
        /\ \/ pc = "leeActual" /\ g.off = h.off /\ h.off < MARCOS_SIZE
           \/ pc = "leeBloque" /\ g.off = 0
  BY DEF EmpiezaPagina
<1>4. Leyendo(t)'
  <2>1. TiposHeap
    BY DEF Antes
  <2> QED BY <1>3, <2>1, LeyendoPide
<1>5. /\ pide'.pc = pc /\ pide'.cantidad = h.cantidad /\ pide'.off = g.off
      /\ Nodo(pide') = Nodo(h) /\ pide'.pc # "espera"
  BY <1>3 DEF Lee, Sigue, Nodo
<1>6. EsInicio(t[Nodo(h)], g.off)
  <2>1. EsInicio(t[Nodo(h)], 0)
    BY <1>2, IniciosSon
  <2> QED BY <1>3, <2>1 DEF EsInicio
<1>7. PideBien(t)'
  <2>1. Nodo(pide') \in PaginasHeap' /\ EsInicio(t[Nodo(pide')], pide'.off)
    BY <1>5, <1>6
  <2>2. pide'.cantidad + 2 <= MARCOS_SIZE /\ pide'.pc \in {"leeActual", "leeBloque"}
    BY <1>3, <1>5
  <2> QED BY <2>1, <2>2, BuscaBien
<1>8. \E m : Crecio(aMemoria, m, aMemoria') /\ m.op # "escribe"
  <2>1. Crecio(aMemoria, Lectura(Nodo(g), g.off), aMemoria')
    BY <1>3, LeeTipos DEF Antes, TiposHeap
  <2>2. Lectura(Nodo(g), g.off).op = "lee"
    BY DEF Lectura, Mensaje
  <2> QED BY <2>1, <2>2
<1>9. Escrituras(aMemoria', EscriturasPide(t, Contenido, pide'), Marcas(Contenido, libera))
  <2>1. CASE Escrituras(aMemoria, {}, Marcas(Contenido, libera))
    BY <1>8, <2>1, EscriturasMas
  <2>2. CASE h = pide /\ pide.pc = "compactado"
    <3>1. Fundidos(t[Nodo(h)], Contenido[Nodo(h)], pide) \subseteq Fundidos(t[Nodo(h)], Contenido[Nodo(h)], pide')
      BY <1>3, <1>5, <2>2 DEF Fundidos
    <3>2. EscriturasPide(t, Contenido, pide) \subseteq EscriturasPide(t, Contenido, pide')
      <4>1. EscriturasPide(t, Contenido, pide) =
              {Escritura(Nodo(h), o, Junto(Contenido[Nodo(h)], o)) : o \in Fundidos(t[Nodo(h)], Contenido[Nodo(h)], pide)}
        BY <2>2 DEF EscriturasPide
      <4>2. EscriturasPide(t, Contenido, pide') =
              {Escritura(Nodo(h), o, Junto(Contenido[Nodo(h)], o)) : o \in Fundidos(t[Nodo(h)], Contenido[Nodo(h)], pide')}
        BY <1>3, <1>5 DEF EscriturasPide
      <4> QED BY <3>1, <4>1, <4>2
    <3>3. Escrituras(aMemoria, EscriturasPide(t, Contenido, pide), Marcas(Contenido, libera))
      BY DEF Antes, BloquesDe, Escribiendo
    <3> QED BY <1>8, <3>2, <3>3, EscriturasMas
  <2> QED BY <2>1, <2>2
<1>10. Escribiendo(t)'
  BY <1>9 DEF Escribiendo
<1> QED BY <1>3, <1>4, <1>5, <1>7, <1>10

\* verificarEspacioLibreHeap.
LEMMA VerificaBien ==
  ASSUME NEW t, Antes(t), Despues, NEW h \in Buscando, Verifica(h), UNCHANGED libera,
         Contenido' = Contenido, PaginasHeap' = PaginasHeap,
         h.pid \in Cargados, h.cantidad + 2 <= MARCOS_SIZE, pide.pc \notin Cortando,
         Escrituras(aMemoria, {}, Marcas(Contenido, libera))
  PROVE  /\ Escribiendo(t)' /\ PideBien(t)' /\ pide'.pc \in {"leeActual", "leeBloque", "sinLugar"}
         /\ Leyendo(t)' \/ (pide'.pc = "sinLugar" /\ UNCHANGED aMemoria)
<1>1. CASE Sigue(h) /\ pide'.pc = "sinLugar" /\ UNCHANGED <<aMemoria, historia>>
  <2>1. PideBien(t)'
    <3>1. pide'.cantidad + 2 <= MARCOS_SIZE
      BY <1>1 DEF Sigue
    <3> QED BY <1>1, <3>1, BuscaBien
  <2>2. Escrituras(aMemoria', EscriturasPide(t, Contenido, pide'), Marcas(Contenido, libera))
    BY <1>1, EscriturasMas
  <2>3. Escribiendo(t)'
    BY <2>2 DEF Escribiendo
  <2> QED BY <1>1, <2>1, <2>3
<1>2. ASSUME NEW j \in DOMAIN listaAdmHeap, NEW g \in Buscando, listaAdmHeap[j].pid = h.pid,
             g.pid = h.pid, g.cantidad = h.cantidad, g.pagina = listaAdmHeap[j].pagina, g.off = 0,
             EmpiezaPagina(g)
      PROVE  Escribiendo(t)' /\ PideBien(t)' /\ pide'.pc \in {"leeActual", "leeBloque"} /\ Leyendo(t)'
  <2>1. Nodo(g) = PaginaDe(listaAdmHeap[j]) /\ Nodo(g) \in PaginasHeap
    BY <1>2 DEF Nodo, PaginaDe, PaginasHeap
  <2>2. g.off \in t[Nodo(g)]
    <3>1. Teselada(t[Nodo(g)], Vista(Contenido, Corte(pide), Nodo(g)))
      BY <2>1 DEF Antes, BloquesDe, Teselado, Teselas
    <3>2. EsInicio(t[Nodo(g)], 0)
      BY <3>1, IniciosSon
    <3> QED BY <1>2, <3>2 DEF EsInicio
  <2>3. g.cantidad + 2 <= MARCOS_SIZE
    BY <1>2
  <2> QED BY <1>2, <2>1, <2>2, <2>3, EmpiezaBien
<1> QED BY <1>1, <1>2 DEF Verifica

\* The page at which procesarHeap is.
LEMMA EnPagina ==
  ASSUME NEW t, Antes(t), pide.pc # "espera", pide.pc \notin {"escribeBloque", "escribeResto"}
  PROVE  /\ pide \in Buscando /\ Nodo(pide) \in Paginas /\ pide.pid \in Cargados
         /\ pide.cantidad \in Nat /\ pide.off \in Int /\ pide.size \in Int /\ pide.cantidad + 2 <= MARCOS_SIZE
         /\ Nodo(pide) \in PaginasHeap => Teselada(t[Nodo(pide)], Contenido[Nodo(pide)])
         /\ pide.pc \in {"leeActual", "leeSiguiente", "compactado", "leeBloque"} =>
              /\ Nodo(pide) \in PaginasHeap /\ EsInicio(t[Nodo(pide)], pide.off)
<1>1. pide \in Buscando /\ Nodo(pide) \in Paginas /\ pide.cantidad \in Nat /\ pide.off \in Int /\ pide.size \in Int
  BY HiloTipo, BuscandoTipo DEF Antes, TiposHeap
<1>2. pide.pid \in Cargados
  BY PideEspera DEF Antes, Hilos
<1>3. pide.cantidad + 2 <= MARCOS_SIZE
  BY DEF Antes, BloquesDe, PideBien, PasoPide
<1>4. ASSUME Nodo(pide) \in PaginasHeap PROVE Teselada(t[Nodo(pide)], Contenido[Nodo(pide)])
  <2>1. Vista(Contenido, Corte(pide), Nodo(pide)) = Contenido[Nodo(pide)]
    BY <1>1, SinCorteVista
  <2> QED BY <1>4, <2>1 DEF Antes, BloquesDe, Teselado, Teselas
<1>5. pide.pc \in {"leeActual", "leeSiguiente", "compactado", "leeBloque"} =>
        Nodo(pide) \in PaginasHeap /\ EsInicio(t[Nodo(pide)], pide.off)
  BY DEF Antes, BloquesDe, PideBien, PasoPide, EnBloque
<1> QED BY <1>1, <1>2, <1>3, <1>4, <1>5

\* procesarHeap takes a request.
LEMMA BloquesToma ==
  ASSUME NEW t, Antes(t), Despues, PideToma
  PROVE  BloquesDe(t)'
<1>1. TiposHeap /\ BloquesDe(t)
  BY DEF Antes
<1>2. /\ pide.pc = "espera" /\ colaHeap # <<>> /\ Head(colaHeap) \in Pedidos
      /\ UNCHANGED <<bloques, colaLiberaHeap, metaDataLeida, sems, libera, listaAdmHeap, ultimaPagina>>
  BY <1>1, PideTomaHace
<1>3. ~PideRegistra /\ ProcesarHeap
  BY <1>2 DEF PideRegistra, ProcesarHeap
<1>4. Contenido' = Contenido /\ PaginasHeap' = PaginasHeap
  BY <1>3, HilosDejan
<1>5. Escrituras(aMemoria, {}, Marcas(Contenido, libera)) /\ pide.pc \notin Cortando
  <2>1. pide.pc \notin Cortando /\ EscriturasPide(t, Contenido, pide) = {}
    BY <1>2, SinCortar DEF Cortando
  <2> QED BY <1>1, <2>1 DEF BloquesDe, Escribiendo
<1>6. ~LeyendoMetadata(pide)
  BY <1>2 DEF LeyendoMetadata
<1>7. ASSUME UNCHANGED aMemoria, pide'.pc \in {"espera", "sinLugar"} PROVE Leyendo(t)'
  <2>1. ~LeyendoMetadata(pide)'
    BY <1>7 DEF LeyendoMetadata
  <2>2. EnviaAparte(t)
    BY <1>7 DEF EnviaAparte
  <2> QED BY <1>1, <1>2, <1>4, <1>6, <2>1, <2>2, LeyendoQueda DEF BloquesDe
<1>8. Escribiendo(t)' /\ PideBien(t)' /\ Leyendo(t)' /\ pide'.pc \in {"espera", "leeActual", "leeBloque", "sinLugar"}
  <2>1. CASE pide' = Ocioso /\ UNCHANGED aMemoria
    <3>1. pide'.pc = "espera"
      BY <2>1, OciosoTipo
    <3>2. Escrituras(aMemoria', EscriturasPide(t, Contenido, pide'), Marcas(Contenido, libera))
      BY <1>5, <2>1, EscriturasMas
    <3>3. Escribiendo(t)'
      BY <1>2, <1>4, <3>2 DEF Escribiendo
    <3>4. PideBien(t)'
      BY <3>1, BuscaBien
    <3> QED BY <1>7, <2>1, <3>1, <3>3, <3>4
  <2>2. ASSUME NEW h, PedidoNuevo(h), Verifica(h), Head(colaHeap).cantidad <= MARCOS_SIZE - 2
        PROVE  Escribiendo(t)' /\ PideBien(t)' /\ Leyendo(t)' /\ pide'.pc \in {"leeActual", "leeBloque", "sinLugar"}
    <3>1. h \in Buscando /\ h.pid = Head(colaHeap).pid /\ h.cantidad = Head(colaHeap).cantidad
      BY <2>2 DEF PedidoNuevo
    <3>2. h.cantidad + 2 <= MARCOS_SIZE
      <4>1. Head(colaHeap).cantidad \in Nat
        BY <1>2 DEF Pedidos
      <4> QED BY <2>2, <3>1, <4>1, DimensionTipo
    <3>3. h.pid \in Cargados
      <4>1. Menguo(colaHeap, Tail(colaHeap))
        BY <1>1, <1>2, ColaMengua DEF TiposHeap
      <4>2. Head(colaHeap).pid \in EnCola(colaHeap)
        BY <4>1, EncoladosMenguan DEF Antes, Hilos, Lugares
      <4>3. estado[Head(colaHeap).pid] = "espera" /\ Head(colaHeap).pid \in Pids
        BY <1>1, <4>2, LugaresTipos DEF Antes, Hilos, Lugares
      <4> QED BY <3>1, <4>3 DEF Cargados
    <3>4. UNCHANGED libera
      BY <1>2
    <3>5. /\ Escribiendo(t)' /\ PideBien(t)' /\ pide'.pc \in {"leeActual", "leeBloque", "sinLugar"}
          /\ Leyendo(t)' \/ (pide'.pc = "sinLugar" /\ UNCHANGED aMemoria)
      BY <1>4, <1>5, <2>2, <3>1, <3>2, <3>3, <3>4, VerificaBien
    <3> QED BY <1>7, <3>5
  <2> QED BY <1>1, <2>1, <2>2, PideTomaHace
<1>9. pide'.pc \notin Cortando
  BY <1>8 DEF Cortando
<1> QED BY <1>2, <1>3, <1>4, <1>5, <1>8, <1>9, PideComun

\* It reads the header of the block at which it is.
LEMMA BloquesActual ==
  ASSUME NEW t, Antes(t), Despues, PideActual
  PROVE  BloquesDe(t)'
<1>1. TiposHeap /\ BloquesDe(t)
  BY DEF Antes
<1>2. PideRecibe("leeActual")
  BY DEF PideActual
<1>3. /\ pide.pc = "leeActual" /\ sems.meta > 0 /\ metaDataLeida \in Celdas
      /\ UNCHANGED <<bloques, colaLiberaHeap, libera, listaAdmHeap, ultimaPagina>>
  <2>1. "leeActual" \in PasosPide
    BY DEF PasosPide
  <2> QED BY <1>1, <1>2, <2>1, PideRecibeHace
<1>4. ProcesarHeap /\ ~PideRegistra
  BY <1>3 DEF ProcesarHeap, PideRegistra
<1>5. Contenido' = Contenido /\ PaginasHeap' = PaginasHeap
  BY <1>4, HilosDejan
<1>6. LeyendoMetadata(pide)
  BY <1>3 DEF LeyendoMetadata
<1>7. Escrituras(aMemoria, {}, Marcas(Contenido, libera))
  BY <1>3, <1>6, NadaQueFundir
<1>8. Nodo(pide) \in PaginasHeap /\ EsInicio(t[Nodo(pide)], pide.off) /\ pide.cantidad + 2 <= MARCOS_SIZE
  BY <1>3, EnPagina
<1>9. Coincide(metaDataLeida, Contenido[Nodo(pide)][pide.off])
  <2>1. LeeEn(pide) = pide.off /\ pide.off < MARCOS_SIZE
    BY <1>3, <1>8 DEF LeeEn, EsInicio
  <2> QED BY <1>1, <1>3, <1>6, <2>1 DEF BloquesDe, Leyendo, Leido
<1>10. PICK h \in Buscando :
         /\ h.pid = pide.pid /\ h.cantidad = pide.cantidad /\ h.pagina = pide.pagina
         /\ h.off = pide.off /\ h.size = metaDataLeida.size /\ h.isFree = metaDataLeida.isFree
         /\ Lee(h, "leeSiguiente", h.off + 1 + h.size)
  BY <1>1, PideActualHace
<1>11. Leyendo(t)'
  BY <1>1, <1>3, <1>10, LeyendoPide
<1>12. /\ pide'.pc = "leeSiguiente" /\ pide'.cantidad = pide.cantidad /\ pide'.off = pide.off
       /\ pide'.size = metaDataLeida.size /\ pide'.isFree = metaDataLeida.isFree /\ Nodo(pide') = Nodo(pide)
  BY <1>10 DEF Lee, Sigue, Nodo
<1>13. PideBien(t)'
  <2>1. Coincide(pide', Contenido[Nodo(pide')][pide'.off])
    BY <1>9, <1>12 DEF Coincide
  <2>2. Nodo(pide') \in PaginasHeap' /\ EsInicio(t[Nodo(pide')], pide'.off)
    BY <1>5, <1>8, <1>12
  <2> QED BY <1>5, <1>8, <1>12, <2>1, <2>2 DEF PideBien, PasoPide, EnBloque
<1>14. \E m : Crecio(aMemoria, m, aMemoria') /\ m.op # "escribe"
  <2>1. Crecio(aMemoria, Lectura(Nodo(h), h.off + 1 + h.size), aMemoria')
    BY <1>1, <1>10, LeeTipos DEF TiposHeap
  <2>2. Lectura(Nodo(h), h.off + 1 + h.size).op = "lee"
    BY DEF Lectura, Mensaje
  <2> QED BY <2>1, <2>2
<1>15. Escrituras(aMemoria', EscriturasPide(t, Contenido, pide'), Marcas(Contenido, libera))
  BY <1>7, <1>14, EscriturasMas
<1>16. Escribiendo(t)'
  BY <1>3, <1>5, <1>15 DEF Escribiendo
<1>17. pide.pc \notin Cortando /\ pide'.pc \notin Cortando /\ pide.pc # "compactado"
  BY <1>3, <1>12 DEF Cortando
<1> QED BY <1>3, <1>4, <1>5, <1>11, <1>13, <1>16, <1>17, PideComun

\* It joins two blocks, or goes on with the next one.
LEMMA BloquesSiguiente ==
  ASSUME NEW t, Antes(t), Despues, PideSiguiente
  PROVE  BloquesDe(t)'
<1> DEFINE n == Nodo(pide)
           y == pide.off + 1 + pide.size
<1>1. TiposHeap /\ BloquesDe(t)
  BY DEF Antes
<1>2. PideRecibe("leeSiguiente")
  BY DEF PideSiguiente
<1>3. /\ pide.pc = "leeSiguiente" /\ sems.meta > 0 /\ metaDataLeida \in Celdas
      /\ UNCHANGED <<bloques, colaLiberaHeap, libera, listaAdmHeap, ultimaPagina>>
  <2>1. "leeSiguiente" \in PasosPide
    BY DEF PasosPide
  <2> QED BY <1>1, <1>2, <2>1, PideRecibeHace
<1>4. ProcesarHeap /\ ~PideRegistra
  BY <1>3 DEF ProcesarHeap, PideRegistra
<1>5. Contenido' = Contenido /\ PaginasHeap' = PaginasHeap
  BY <1>4, HilosDejan
<1>6. LeyendoMetadata(pide) /\ LeeEn(pide) = pide.off + 1 + pide.size
  BY <1>3 DEF LeyendoMetadata, LeeEn
<1>7. Escrituras(aMemoria, {}, Marcas(Contenido, libera)) /\ ~LeyendoMetadata(libera)
  BY <1>3, <1>6, NadaQueFundir
<1>8. /\ Nodo(pide) \in PaginasHeap /\ EsInicio(t[Nodo(pide)], pide.off) /\ pide.cantidad + 2 <= MARCOS_SIZE
      /\ Teselada(t[Nodo(pide)], Contenido[Nodo(pide)]) /\ pide \in Buscando
  BY <1>3, EnPagina
<1>9. Coincide(pide, Contenido[Nodo(pide)][pide.off])
  BY <1>1, <1>3 DEF BloquesDe, PideBien, PasoPide
<1>10. y = Tras(Contenido[n], pide.off) /\ y \in t[n] /\ y \in Nat
  <2>1. Tras(Contenido[n], pide.off) \in t[n] /\ Tras(Contenido[n], pide.off) \in Nat
    BY <1>8, TeselaEs
  <2>2. y = Tras(Contenido[n], pide.off)
    BY <1>9 DEF Tras, Coincide
  <2> QED BY <2>1, <2>2
<1>11. pide.pc \notin Cortando /\ pide.pc # "compactado"
  BY <1>3 DEF Cortando
<1>12. Escribiendo(t)' /\ Leyendo(t)' /\ PideBien(t)' /\ pide'.pc \in {"compactado", "leeActual", "leeBloque"}
  <2>1. CASE pide.isFree = -1 /\ metaDataLeida.isFree = -1
    <3>1. PICK c \in Celdas :
            /\ c = [isFree |-> -1, size |-> pide.size + 1 + metaDataLeida.size]
            /\ Escritura(n, pide.off, c) \in Mensajes
            /\ aMemoria' = Append(aMemoria, Escritura(n, pide.off, c))
            /\ pide'.size = c.size
            /\ pide' \in HilosPide /\ pide'.pc = "compactado" /\ pide'.pid = pide.pid
            /\ pide'.cantidad = pide.cantidad /\ pide'.pagina = pide.pagina /\ pide'.off = pide.off
            /\ historia' = historia \cup (IF pide.off + 1 + pide.size >= MARCOS_SIZE THEN {"cruza"} ELSE {})
      BY <1>1, <2>1, PideSiguienteHace
    <3>2. y < MARCOS_SIZE
      <4>1. ~(y >= MARCOS_SIZE)
        BY <3>1 DEF Despues
      <4> QED BY <1>10, <4>1, DimensionTipo
    <3>3. Coincide(metaDataLeida, Contenido[n][y])
      BY <1>1, <1>3, <1>6, <3>2 DEF BloquesDe, Leyendo, Leido
    <3>4. pide.off \in Fundidos(t[n], Contenido[n], pide') /\ c = Junto(Contenido[n], pide.off)
      <4>1. Contenido[n][pide.off].isFree = -1 /\ Contenido[n][y].isFree = -1
        BY <1>9, <2>1, <3>3 DEF Coincide
      <4>2. pide.off \in Juntos(t[n], Contenido[n])
        BY <1>8, <1>10, <3>2, <4>1 DEF Juntos, EsInicio
      <4>3. c = Junto(Contenido[n], pide.off)
        BY <1>9, <1>10, <3>1, <3>3 DEF Junto, Coincide
      <4> QED BY <3>1, <4>2, <4>3 DEF Fundidos
    <3>5. Nodo(pide') = n
      BY <3>1 DEF Nodo
    <3>6. PICK m : m = Escritura(n, pide.off, c)
      OBVIOUS
    <3>7. m \in EscriturasPide(t, Contenido, pide')
      BY <3>1, <3>4, <3>5, <3>6 DEF EscriturasPide
    <3>8. m \notin Marcas(Contenido, libera)
      <4>1. m.nodo = n /\ pide.pc # "espera"
        BY <1>3, <3>6 DEF Escritura, Mensaje
      <4> QED BY <1>1, <4>1, EscribeAparte DEF Antes, Hilos
    <3>9. Crecio(aMemoria, m, aMemoria')
      BY <1>1, <3>1, <3>6, EnviaTipo DEF TiposHeap
    <3>10. Escrituras(aMemoria', EscriturasPide(t, Contenido, pide'), Marcas(Contenido, libera))
      <4>1. \A i \in Sitio(aMemoria, "escribe") : aMemoria[i] \in Marcas(Contenido, libera)
        BY <1>7 DEF Escrituras
      <4> QED BY <1>7, <3>7, <3>8, <3>9, <4>1, EscriturasManda
    <3>11. Escribiendo(t)'
      BY <1>3, <1>5, <3>10 DEF Escribiendo
    <3>12. ~LeyendoMetadata(pide)' /\ ~LeyendoMetadata(libera)'
      BY <1>3, <1>7, <3>1 DEF LeyendoMetadata
    <3>13. Leyendo(t)'
      BY <3>12, LeyendoNadie
    <3>14. PideBien(t)'
      <4>1. Nodo(pide') \in PaginasHeap' /\ EsInicio(t[Nodo(pide')], pide'.off) /\ pide'.cantidad + 2 <= MARCOS_SIZE
        BY <1>5, <1>8, <3>1, <3>5
      <4> QED BY <3>1, <4>1, BuscaBien
    <3> QED BY <3>1, <3>11, <3>13, <3>14
  <2>2. ASSUME NEW h \in Buscando, h.pid = pide.pid, h.cantidad = pide.cantidad, h.pagina = pide.pagina,
               h.off = y, EmpiezaPagina(h)
        PROVE  Escribiendo(t)' /\ Leyendo(t)' /\ PideBien(t)' /\ pide'.pc \in {"leeActual", "leeBloque"}
    <3>1. Nodo(h) = n
      BY <2>2 DEF Nodo
    <3>2. h.cantidad + 2 <= MARCOS_SIZE /\ Nodo(h) \in PaginasHeap /\ h.off \in t[Nodo(h)] /\ UNCHANGED libera
      BY <1>3, <1>8, <1>10, <2>2, <3>1
    <3> QED BY <1>5, <1>7, <1>11, <2>2, <3>2, EmpiezaBien
  <2> QED BY <1>1, <2>1, <2>2, PideSiguienteHace
<1>13. pide'.pc \notin Cortando
  BY <1>12 DEF Cortando
<1> QED BY <1>3, <1>4, <1>5, <1>11, <1>12, <1>13, PideComun

\* It has joined them.
LEMMA BloquesCompactado ==
  ASSUME NEW t, Antes(t), Despues, PideCompactado
  PROVE  BloquesDe(t)'
<1>1. TiposHeap /\ BloquesDe(t)
  BY DEF Antes
<1>2. /\ pide.pc = "compactado" /\ pide \in Buscando /\ sems.pagina > 0 /\ EmpiezaPagina(pide)
      /\ UNCHANGED <<bloques, colaLiberaHeap, libera, listaAdmHeap, ultimaPagina>>
  BY <1>1, PideCompactadoHace
<1>3. ProcesarHeap /\ ~PideRegistra
  BY <1>2 DEF ProcesarHeap, PideRegistra
<1>4. Contenido' = Contenido /\ PaginasHeap' = PaginasHeap
  BY <1>3, HilosDejan
<1>5. Nodo(pide) \in PaginasHeap /\ EsInicio(t[Nodo(pide)], pide.off) /\ pide.cantidad + 2 <= MARCOS_SIZE
  BY <1>2, EnPagina
<1>6. pide.pc \notin Cortando
  BY <1>2 DEF Cortando
<1>7. Leyendo(t)' /\ Escribiendo(t)' /\ PideBien(t)' /\ pide'.pc \in {"leeActual", "leeBloque"}
  <2>1. pide.off \in t[Nodo(pide)] /\ UNCHANGED libera
    BY <1>2, <1>5 DEF EsInicio
  <2> QED BY <1>2, <1>4, <1>5, <1>6, <2>1, EmpiezaBien
<1>8. ~Marcando(Contenido, libera) \/ libera.pc # "escrito"
  <2>1. CASE libera.pc = "escrito"
    <3>1. libera.pc # "escribe"
      BY <2>1
    <3> QED BY <1>2, <3>1, NadaQueEscribir
  <2> QED BY <2>1
<1>9. pide'.pc \notin Cortando
  BY <1>7 DEF Cortando
<1> QED BY <1>2, <1>3, <1>4, <1>6, <1>7, <1>8, <1>9, PideComun

\* It looks at the next block, at the next page or for a new one, or it has found one.
LEMMA BloquesBloque ==
  ASSUME NEW t, Antes(t), Despues, PideBloque
  PROVE  BloquesDe(t)'
<1> DEFINE n == Nodo(pide)
           d == metaDataLeida
<1>1. TiposHeap /\ BloquesDe(t)
  BY DEF Antes
<1>2. PideRecibe("leeBloque")
  BY DEF PideBloque
<1>3. /\ pide.pc = "leeBloque" /\ sems.meta > 0 /\ metaDataLeida \in Celdas
      /\ UNCHANGED <<bloques, colaLiberaHeap, libera, listaAdmHeap, ultimaPagina>>
  <2>1. "leeBloque" \in PasosPide
    BY DEF PasosPide
  <2> QED BY <1>1, <1>2, <2>1, PideRecibeHace
<1>4. ProcesarHeap /\ ~PideRegistra
  BY <1>3 DEF ProcesarHeap, PideRegistra
<1>5. Contenido' = Contenido /\ PaginasHeap' = PaginasHeap
  BY <1>4, HilosDejan
<1>6. LeyendoMetadata(pide) /\ LeeEn(pide) = pide.off
  BY <1>3 DEF LeyendoMetadata, LeeEn
<1>7. Escrituras(aMemoria, {}, Marcas(Contenido, libera)) /\ ~LeyendoMetadata(libera)
  BY <1>3, <1>6, NadaQueFundir
<1>8. /\ n \in PaginasHeap /\ EsInicio(t[n], pide.off) /\ pide.cantidad + 2 <= MARCOS_SIZE
      /\ Teselada(t[n], Contenido[n]) /\ pide \in Buscando /\ pide.pid \in Cargados
  BY <1>3, EnPagina
<1>9. Coincide(d, Contenido[n][pide.off])
  <2>1. pide.off < MARCOS_SIZE
    BY <1>8 DEF EsInicio
  <2> QED BY <1>1, <1>3, <1>6, <2>1 DEF BloquesDe, Leyendo, Leido
<1>10. pide.pc \notin Cortando /\ pide.pc # "compactado"
  BY <1>3 DEF Cortando
<1>11. ASSUME ~LeyendoMetadata(pide)' PROVE Leyendo(t)'
  <2>1. ~LeyendoMetadata(libera)'
    BY <1>3, <1>7
  <2> QED BY <1>11, <2>1, LeyendoNadie
<1>12. Escribiendo(t)' /\ Leyendo(t)' /\ PideBien(t)' /\ pide'.pc \in {"bloque", "leeActual", "leeBloque", "sinLugar"}
  <2>1. CASE Alcanza(d, pide.cantidad) /\ Sigue(pide) /\ pide'.pc = "bloque" /\ UNCHANGED <<aMemoria, historia>>
    <3>1. Nodo(pide') = n /\ pide'.off = pide.off /\ pide'.cantidad = pide.cantidad
      BY <2>1 DEF Sigue, Nodo
    <3>2. BloqueBueno(t, Contenido, pide', PaginasHeap)
      BY <1>8, <1>9, <2>1, <3>1 DEF BloqueBueno, EnBloque, Alcanza, Coincide
    <3>3. PideBien(t)'
      BY <1>5, <1>8, <2>1, <3>1, <3>2 DEF PideBien, PasoPide
    <3>4. Leyendo(t)'
      BY <1>11, <2>1 DEF LeyendoMetadata
    <3>5. Escrituras(aMemoria', EscriturasPide(t, Contenido, pide'), Marcas(Contenido, libera))
      BY <1>7, <2>1, EscriturasMas
    <3>6. Escribiendo(t)'
      BY <1>3, <1>5, <3>5 DEF Escribiendo
    <3> QED BY <2>1, <3>3, <3>4, <3>6
  <2>2. ASSUME NEW h \in Buscando, pide.off + 1 + d.size < MARCOS_SIZE, h.pid = pide.pid, h.cantidad = pide.cantidad,
               h.pagina = pide.pagina, h.off = pide.off + 1 + d.size, Lee(h, "leeBloque", h.off)
        PROVE  Escribiendo(t)' /\ Leyendo(t)' /\ PideBien(t)' /\ pide'.pc = "leeBloque"
    <3>1. Nodo(pide') = n /\ pide'.pc = "leeBloque" /\ pide'.off = h.off /\ pide'.cantidad = pide.cantidad
      BY <2>2 DEF Lee, Sigue, Nodo
    <3>2. EsInicio(t[n], h.off)
      <4>1. Tras(Contenido[n], pide.off) \in t[n]
        BY <1>8, TeselaEs
      <4>2. h.off = Tras(Contenido[n], pide.off)
        BY <1>9, <2>2 DEF Tras, Coincide
      <4> QED BY <2>2, <4>1, <4>2 DEF EsInicio
    <3>3. Leyendo(t)'
      BY <1>1, <1>3, <2>2, LeyendoPide
    <3>4. PideBien(t)'
      <4>1. Nodo(pide') \in PaginasHeap' /\ EsInicio(t[Nodo(pide')], pide'.off) /\ pide'.cantidad + 2 <= MARCOS_SIZE
        BY <1>5, <1>8, <3>1, <3>2
      <4> QED BY <3>1, <4>1, BuscaBien
    <3>5. \E m : Crecio(aMemoria, m, aMemoria') /\ m.op # "escribe"
      <4>1. Crecio(aMemoria, Lectura(Nodo(h), h.off), aMemoria')
        BY <1>1, <2>2, LeeTipos DEF TiposHeap
      <4>2. Lectura(Nodo(h), h.off).op = "lee"
        BY DEF Lectura, Mensaje
      <4> QED BY <4>1, <4>2
    <3>6. Escrituras(aMemoria', EscriturasPide(t, Contenido, pide'), Marcas(Contenido, libera))
      BY <1>7, <3>5, EscriturasMas
    <3>7. Escribiendo(t)'
      BY <1>3, <1>5, <3>6 DEF Escribiendo
    <3> QED BY <3>1, <3>3, <3>4, <3>7
  <2>3. CASE Verifica(pide)
    <3>1. UNCHANGED libera
      BY <1>3
    <3>2. /\ Escribiendo(t)' /\ PideBien(t)' /\ pide'.pc \in {"leeActual", "leeBloque", "sinLugar"}
          /\ Leyendo(t)' \/ (pide'.pc = "sinLugar" /\ UNCHANGED aMemoria)
      BY <1>5, <1>7, <1>8, <1>10, <2>3, <3>1, VerificaBien
    <3>3. pide'.pc = "sinLugar" => Leyendo(t)'
      BY <1>11 DEF LeyendoMetadata
    <3> QED BY <3>2, <3>3
  <2> QED BY <1>1, <2>1, <2>2, <2>3, PideBloqueHace
<1>13. pide'.pc \notin Cortando
  BY <1>12 DEF Cortando
<1> QED BY <1>3, <1>4, <1>5, <1>10, <1>12, <1>13, PideComun

\* It asks for a page.
LEMMA BloquesPagina ==
  ASSUME NEW t, Antes(t), Despues, PidePagina
  PROVE  BloquesDe(t)'
<1>1. TiposHeap /\ BloquesDe(t)
  BY DEF Antes
<1>2. /\ pide.pc = "sinLugar" /\ pide \in Buscando /\ ultimaPagina[pide.pid] \in Nat
      /\ ultimaPagina' = [ultimaPagina EXCEPT ![pide.pid] = ultimaPagina[pide.pid] + 1]
      /\ pide'.pc = "reservaPagina" /\ pide'.pid = pide.pid /\ pide'.cantidad = pide.cantidad
      /\ pide'.pagina = ultimaPagina[pide.pid] /\ pide'.off = 0
      /\ \E m \in Mensajes : m.op = "pide" /\ aMemoria' = Append(aMemoria, m)
      /\ UNCHANGED <<bloques, colaLiberaHeap, libera, listaAdmHeap, metaDataLeida, sems>>
  BY <1>1, PidePaginaHace
<1>3. ProcesarHeap /\ ~PideRegistra
  BY <1>2 DEF ProcesarHeap, PideRegistra
<1>4. Contenido' = Contenido /\ PaginasHeap' = PaginasHeap
  BY <1>3, HilosDejan
<1>5. pide.pc \notin Cortando /\ pide.pc # "compactado" /\ pide'.pc \notin Cortando
  BY <1>2 DEF Cortando
<1>6. ~LeyendoMetadata(pide) /\ ~LeyendoMetadata(pide)'
  BY <1>2 DEF LeyendoMetadata
<1>7. Leyendo(t)'
  <2>1. EnviaAparte(t)
    BY <1>2 DEF EnviaAparte
  <2> QED BY <1>1, <1>2, <1>4, <1>6, <2>1, LeyendoQueda DEF BloquesDe
<1>8. Escrituras(aMemoria, {}, Marcas(Contenido, libera))
  <2>1. EscriturasPide(t, Contenido, pide) = {}
    BY <1>2, <1>5, SinCortar
  <2> QED BY <1>1, <2>1 DEF BloquesDe, Escribiendo
<1>9. \E m : Crecio(aMemoria, m, aMemoria') /\ m.op # "escribe"
  BY <1>1, <1>2, EnviaTipo DEF TiposHeap
<1>10. Escrituras(aMemoria', EscriturasPide(t, Contenido, pide'), Marcas(Contenido, libera))
  BY <1>8, <1>9, EscriturasMas
<1>11. Escribiendo(t)'
  BY <1>2, <1>4, <1>10 DEF Escribiendo
<1>12. PaginasDistintas(listaAdmHeap, ultimaPagina)
  BY <1>1 DEF BloquesDe, Distintas
<1>13. \A j \in DOMAIN listaAdmHeap : listaAdmHeap[j].pid \in Pids /\ listaAdmHeap[j].pagina \in Nat
  <2>1. \A j \in DOMAIN listaAdmHeap : listaAdmHeap[j] \in Entradas
    BY <1>1, EnLista DEF TiposHeap
  <2> QED BY <2>1 DEF Entradas
<1>14. Distintas'
  <2>1. \A p \in Pids : ultimaPagina[p] \in Nat /\ ultimaPagina'[p] \in Nat /\ ultimaPagina[p] <= ultimaPagina'[p]
    BY <1>1, <1>2 DEF TiposHeap
  <2>2. \A j \in DOMAIN listaAdmHeap : listaAdmHeap[j].pagina < ultimaPagina'[listaAdmHeap[j].pid]
    BY <1>12, <1>13, <2>1 DEF PaginasDistintas
  <2> QED BY <1>2, <1>12, <2>2 DEF Distintas, PaginasDistintas
<1>15. PideBien(t)'
  <2>1. EntradasMenores(listaAdmHeap, pide')
    BY <1>2, <1>12 DEF EntradasMenores, PaginasDistintas
  <2>2. pide'.cantidad + 2 <= MARCOS_SIZE
    BY <1>2, EnPagina
  <2> QED BY <1>2, <2>1, <2>2 DEF PideBien, PasoPide
<1> QED BY <1>2, <1>3, <1>4, <1>5, <1>7, <1>11, <1>14, <1>15, PideComun

\* procesarHeap waits for the only writing, that has just been sent.
LEMMA EscribeSolo ==
  ASSUME TiposHeap, Despues, pide'.pc \in ConMutex \cap EsperaEscritura,
         NEW m \in Mensajes, m.op = "escribe", aMemoria' = Append(aMemoria, m)
  PROVE  sems'.pagina = 0 /\ ~LeyendoMetadata(pide)' /\ ~LeyendoMetadata(libera)'
<1>1. libera'.pc \notin {"lee", "escribe"}
  BY DEF Despues, Hilos, SinChoque
<1>2. sems'.pagina + CuantosDe(aMemoria', "escribe") = 1
  BY <1>1 DEF Despues, Hilos, RespuestasContadas, Uno
<1>3. CuantosDe(aMemoria', "escribe") = CuantosDe(aMemoria, "escribe") + 1 /\ CuantosDe(aMemoria, "escribe") \in Nat
  BY EnviaCuenta DEF Mensajea
<1>4. sems'.pagina \in Nat
  BY DEF Despues, TiposHeap
<1>5. sems'.pagina = 0
  BY <1>2, <1>3, <1>4
<1>6. pide'.pc \in {"paginaNueva", "escribeBloque", "escribeResto"}
  BY DEF ConMutex, EsperaEscritura
<1>7. libera'.pc \in {"espera", "leido", "escrito"}
  <2>1. libera' \in HilosLibera
    BY DEF Despues, TiposHeap
  <2> QED BY <1>1, <2>1 DEF HilosLibera, Ocioso
<1> QED BY <1>5, <1>6, <1>7 DEF LeyendoMetadata

-----------------------------------------------------------------------------
(* The blocks, when procesarHeap holds the mutex.                           *)

\* The thread of liberarHeap waits for the mutex.
LEMMA LiberaNoEscribe ==
  ASSUME TiposHeap, SinChoque, pide.pc \in ConMutex
  PROVE  ~LeyendoMetadata(libera) /\ libera.pc # "escribe"
<1>1. libera.pc \notin {"lee", "escribe"} /\ libera \in HilosLibera
  BY DEF SinChoque, TiposHeap
<1>2. libera.pc \in {"espera", "leido", "escrito"}
  BY <1>1 DEF HilosLibera, Ocioso
<1> QED BY <1>2 DEF LeyendoMetadata

\* procesarHeap sends a writing, the first one of a page or of a cut.
LEMMA MandaBien ==
  ASSUME NEW t, Antes(t), Despues, Contenido' = Contenido, UNCHANGED libera, pide.pc # "espera",
         EscriturasPide(t, Contenido, pide) = {} \/ \A i \in DOMAIN aMemoria : aMemoria[i].op # "escribe",
         pide'.pc \in ConMutex \cap EsperaEscritura, Nodo(pide') = Nodo(pide),
         NEW m \in Mensajes, aMemoria' = Append(aMemoria, m), EscriturasPide(t, Contenido, pide') = {m}
  PROVE  Escribiendo(t)' /\ Leyendo(t)' /\ sems'.pagina = 0
<1>1. m.op = "escribe" /\ m.nodo = Nodo(pide)
  BY EscribeQuien
<1>2. m \notin Marcas(Contenido, libera)
  BY <1>1, EscribeAparte DEF Antes, Hilos
<1>3. Escrituras(aMemoria, EscriturasPide(t, Contenido, pide), Marcas(Contenido, libera))
  BY DEF Antes, BloquesDe, Escribiendo
<1>4. \A i \in Sitio(aMemoria, "escribe") : aMemoria[i] \in Marcas(Contenido, libera)
  BY <1>3 DEF Escrituras, Sitio
<1>5. Crecio(aMemoria, m, aMemoria')
  BY EnviaTipo DEF Antes, TiposHeap
<1>6. Escrituras(aMemoria', {m}, Marcas(Contenido, libera))
  BY <1>2, <1>3, <1>4, <1>5, EscriturasManda
<1>7. Escribiendo(t)'
  BY <1>6 DEF Escribiendo
<1>8. sems'.pagina = 0 /\ ~LeyendoMetadata(pide)' /\ ~LeyendoMetadata(libera)'
  BY <1>1, EscribeSolo DEF Antes
<1>9. Leyendo(t)'
  BY <1>8, LeyendoNadie
<1> QED BY <1>7, <1>8, <1>9

\* Memoria has answered if there is a page.
LEMMA BloquesReservada ==
  ASSUME NEW t, Antes(t), Despues, PideReservada
  PROVE  BloquesDe(t)'
<1>1. TiposHeap /\ BloquesDe(t)
  BY DEF Antes
<1>2. /\ pide.pc = "reservaPagina" /\ pide \in Buscando /\ Sigue(pide)
      /\ UNCHANGED <<bloques, colaLiberaHeap, libera, listaAdmHeap, ultimaPagina, abortoPorFaltaDeMemoria>>
  BY <1>1, PideReservadaHace
<1>3. ProcesarHeap /\ ~PideRegistra
  BY <1>2 DEF ProcesarHeap, PideRegistra
<1>4. Contenido' = Contenido /\ PaginasHeap' = PaginasHeap
  BY <1>3, HilosDejan
<1>5. pide.pc \notin Cortando /\ pide.pc # "compactado" /\ pide.pc # "espera" /\ EscriturasPide(t, Contenido, pide) = {}
  BY <1>2, SinCortar DEF Cortando
<1>6. /\ Nodo(pide') = Nodo(pide) /\ pide'.cantidad = pide.cantidad /\ pide'.off = pide.off
      /\ pide'.pid = pide.pid /\ pide'.pagina = pide.pagina
  BY <1>2 DEF Sigue, Nodo
<1>7. pide.off = 0 /\ EntradasMenores(listaAdmHeap, pide) /\ pide.cantidad + 2 <= MARCOS_SIZE
  BY <1>1, <1>2 DEF BloquesDe, PideBien, PasoPide
<1>8. Escribiendo(t)' /\ Leyendo(t)' /\ PideBien(t)' /\ pide'.pc \in {"paginaNueva", "bloque"}
  <2>1. CASE /\ pide'.pc = "paginaNueva" /\ Escritura(Nodo(pide), 0, PaginaVacia) \in Mensajes
             /\ aMemoria' = Append(aMemoria, Escritura(Nodo(pide), 0, PaginaVacia))
    <3>1. PICK m \in Mensajes : m = Escritura(Nodo(pide), 0, PaginaVacia)
      BY <2>1
    <3>2. EscriturasPide(t, Contenido, pide') = {m}
      BY <1>6, <2>1, <3>1 DEF EscriturasPide
    <3>3. pide'.pc \in ConMutex \cap EsperaEscritura
      BY <2>1 DEF ConMutex, EsperaEscritura
    <3>4. Escribiendo(t)' /\ Leyendo(t)' /\ sems'.pagina = 0
      BY <1>2, <1>4, <1>5, <1>6, <2>1, <3>1, <3>2, <3>3, MandaBien
    <3>5. EntradasMenores(listaAdmHeap', pide')
      BY <1>2, <1>6, <1>7 DEF EntradasMenores
    <3>6. PideBien(t)'
      BY <1>6, <1>7, <2>1, <3>4, <3>5 DEF PideBien, PasoPide
    <3> QED BY <2>1, <3>4, <3>6
  <2>2. CASE abortoPorFaltaDeMemoria = 1 /\ pide'.pc = "bloque" /\ UNCHANGED aMemoria
    <3>1. ~LeyendoMetadata(pide)' /\ ~LeyendoMetadata(libera)'
      <4>1. pide.pc \in ConMutex
        BY <1>2 DEF ConMutex
      <4>2. ~LeyendoMetadata(libera)
        BY <1>1, <4>1, LiberaNoEscribe DEF Antes, Hilos
      <4> QED BY <1>2, <2>2, <4>2 DEF LeyendoMetadata
    <3>2. Leyendo(t)'
      BY <3>1, LeyendoNadie
    <3>3. Escrituras(aMemoria, {}, Marcas(Contenido, libera))
      BY <1>1, <1>5 DEF BloquesDe, Escribiendo
    <3>4. Escrituras(aMemoria', EscriturasPide(t, Contenido, pide'), Marcas(Contenido, libera))
      BY <2>2, <3>3, EscriturasMas
    <3>5. Escribiendo(t)'
      BY <1>2, <1>4, <3>4 DEF Escribiendo
    <3>6. PideBien(t)'
      BY <1>2, <1>6, <1>7, <2>2 DEF PideBien, PasoPide
    <3> QED BY <2>2, <3>2, <3>5, <3>6
  <2> QED BY <1>1, <2>1, <2>2, PideReservadaHace
<1>9. pide'.pc \notin Cortando
  BY <1>8 DEF Cortando
<1> QED BY <1>2, <1>3, <1>4, <1>5, <1>8, <1>9, PideComun

\* Different entries are of different pages.
LEMMA EntradaEs ==
  ASSUME TiposHeap, Distintas, NEW j \in DOMAIN listaAdmHeap, NEW n, n = PaginaDe(listaAdmHeap[j])
  PROVE  EntradaDe(n) = j
<1>1. Len(listaAdmHeap) \in Nat /\ DOMAIN listaAdmHeap = 1 .. Len(listaAdmHeap)
  BY EnLista DEF TiposHeap
<1>2. n.pid = listaAdmHeap[j].pid /\ n.pagina = listaAdmHeap[j].pagina
  BY DEF PaginaDe, Pagina
<1>3. \A i \in DOMAIN listaAdmHeap :
        listaAdmHeap[i].pagina = n.pagina /\ listaAdmHeap[i].pid = n.pid => i = j
  BY <1>2 DEF Distintas, PaginasDistintas, PaginaDe
<1> DEFINE I == {i \in 1 .. Len(listaAdmHeap) : listaAdmHeap[i].pagina = n.pagina /\ listaAdmHeap[i].pid = n.pid}
<1>4. I = {j} /\ I # {} /\ I \subseteq Nat
  BY <1>1, <1>2, <1>3
<1>5. Min(I) \in I
  BY <1>4, MinEs
<1>6. EntradaDe(n) = Min(I)
  BY <1>4 DEF EntradaDe, SelectInSeq
<1> QED BY <1>4, <1>5, <1>6

\* What is counted of each page.
LEMMA ContadoTipo ==
  ASSUME TiposHeap, NEW j \in DOMAIN listaAdmHeap, NEW n, n = PaginaDe(listaAdmHeap[j])
  PROVE  /\ listaAdmHeap[j] \in Entradas /\ listaAdmHeap[j].disponible \in Int /\ n \in Paginas
         /\ Cuanto(SinCuenta, n) = 0 /\ Cuanto(PorSumar(Contenido, libera), n) \in Int
<1>1. listaAdmHeap[j] \in Entradas
  BY EnLista DEF TiposHeap
<1>2. n \in Paginas
  BY <1>1, PaginaTipo DEF Entradas, PaginaDe
<1>3. Cuanto(SinCuenta, n) = 0
  BY <1>2, MarcoEs DEF Cuanto, SinCuenta
<1>4. libera.pc # "espera" => libera.size \in Int
  BY LiberaTipo DEF TiposHeap
<1>5. Cuanto(PorSumar(Contenido, libera), n) \in Int
  <2>1. CASE PorSumar(Contenido, libera) = SinCuenta
    BY <1>3, <2>1
  <2>2. CASE PorSumar(Contenido, libera) # SinCuenta
    <3>1. PorSumar(Contenido, libera).cuanto \in Int
      BY <1>4, <2>2 DEF PorSumar
    <3> QED BY <3>1 DEF Cuanto
  <2> QED BY <2>1, <2>2
<1> QED BY <1>1, <1>2, <1>3, <1>5 DEF Entradas

\* It takes the space of the block from its page.
LEMMA BloquesReserva ==
  ASSUME NEW t, Antes(t), Despues, PideReserva
  PROVE  BloquesDe(t)'
<1> DEFINE n == Nodo(pide)
<1>1. TiposHeap /\ BloquesDe(t)
  BY DEF Antes
<1>2. /\ pide.pc = "bloque" /\ pide \in Buscando
      /\ UNCHANGED <<bloques, colaLiberaHeap, libera, metaDataLeida, sems, ultimaPagina, abortoPorFaltaDeMemoria>>
  BY <1>1, PideReservaHace
<1>3. ProcesarHeap /\ ~PideRegistra
  BY <1>2 DEF ProcesarHeap, PideRegistra
<1>4. Contenido' = Contenido /\ PaginasHeap' = PaginasHeap
  BY <1>3, HilosDejan
<1>5. pide.pc \notin Cortando /\ EscriturasPide(t, Contenido, pide) = {} /\ ~LeyendoMetadata(pide)
  BY <1>2, SinCortar DEF Cortando, LeyendoMetadata
<1>6. Escrituras(aMemoria, {}, Marcas(Contenido, libera))
  BY <1>1, <1>5 DEF BloquesDe, Escribiendo
<1>7. CASE pide' = Ocioso /\ UNCHANGED <<aMemoria, listaAdmHeap>>
  <2>1. pide'.pc = "espera"
    BY <1>7, OciosoTipo
  <2>2. Escrituras(aMemoria', EscriturasPide(t, Contenido, pide'), Marcas(Contenido, libera))
    BY <1>6, <1>7, EscriturasMas
  <2>3. Escribiendo(t)'
    BY <1>2, <1>4, <2>2 DEF Escribiendo
  <2>4. PideBien(t)'
    BY <2>1, BuscaBien
  <2>5. Leyendo(t)'
    <3>1. ~LeyendoMetadata(pide)'
      BY <2>1 DEF LeyendoMetadata
    <3>2. EnviaAparte(t)
      BY <1>7 DEF EnviaAparte
    <3> QED BY <1>1, <1>2, <1>4, <1>5, <3>1, <3>2, LeyendoQueda DEF BloquesDe
  <2>6. pide'.pc \notin Cortando
    BY <2>1 DEF Cortando
  <2> QED BY <1>2, <1>3, <1>4, <1>5, <1>7, <2>3, <2>4, <2>5, <2>6, PideComun
<1>8. CASE /\ abortoPorFaltaDeMemoria = 0
           /\ Ajusta(listaAdmHeap, listaAdmHeap', EntradaDe(Nodo(pide)), 0 - Ocupa(pide.cantidad))
           /\ Lee(pide, "leeViejo", pide.off)
  <2>1. /\ pide'.pc = "leeViejo" /\ Nodo(pide') = n /\ pide'.cantidad = pide.cantidad /\ pide'.off = pide.off
    BY <1>8 DEF Lee, Sigue, Nodo
  <2>2. Corte(pide) = SinCorte /\ Reservado(pide) = SinCuenta
    BY <1>5, SinCortar
  <2>3. Corte(pide') = SinCorte /\ Reservado(pide') = [nodo |-> n, cuanto |-> Ocupa(pide.cantidad)]
    BY <2>1 DEF Corte, Reservado
  <2>4. Teselado(t)' /\ EnUsoBien(t)'
    BY <1>1, <1>2, <1>4, <2>2, <2>3 DEF BloquesDe, Teselado, EnUsoBien
  <2>5. LiberaBien'
    BY <1>1, <1>2, <1>4 DEF BloquesDe, LiberaBien, PasoLibera
  <2>6. DOMAIN listaAdmHeap' = DOMAIN listaAdmHeap
    BY <1>8 DEF Ajusta
  <2>7. \A j \in DOMAIN listaAdmHeap : /\ PaginaDe(listaAdmHeap'[j]) = PaginaDe(listaAdmHeap[j])
          /\ listaAdmHeap'[j].pid = listaAdmHeap[j].pid /\ listaAdmHeap'[j].pagina = listaAdmHeap[j].pagina
    BY <1>8 DEF Ajusta, PaginaDe
  <2>8. Distintas'
    BY <1>1, <1>2, <2>6, <2>7 DEF BloquesDe, Distintas, PaginasDistintas
  <2>9. Contado(t)'
    <3>1. ASSUME NEW j \in DOMAIN listaAdmHeap, NEW x, x = PaginaDe(listaAdmHeap[j]), x \in PaginasHeap
          PROVE  listaAdmHeap'[j].disponible + Cuanto(Reservado(pide'), x) + Cuanto(PorSumar(Contenido, libera), x)
                   <= EspacioLibre(t[x], Vista(Contenido, SinCorte, x))
      <4>1. listaAdmHeap[j].disponible + Cuanto(SinCuenta, x) + Cuanto(PorSumar(Contenido, libera), x)
              <= EspacioLibre(t[x], Vista(Contenido, SinCorte, x))
        BY <1>1, <2>2, <3>1 DEF BloquesDe, Contado, Espacio
      <4>2. /\ listaAdmHeap[j].disponible \in Int /\ Cuanto(SinCuenta, x) = 0
            /\ Cuanto(PorSumar(Contenido, libera), x) \in Int
        BY <1>1, <3>1, ContadoTipo
      <4>3. Ocupa(pide.cantidad) \in Int
        BY <1>2, BuscandoTipo DEF Ocupa
      <4>4. CASE x = n
        <5>1. EntradaDe(n) = j
          BY <1>1, <3>1, <4>4, EntradaEs DEF BloquesDe
        <5>2. listaAdmHeap'[j].disponible = listaAdmHeap[j].disponible + (0 - Ocupa(pide.cantidad))
          BY <1>8, <5>1 DEF Ajusta
        <5>3. Cuanto(Reservado(pide'), x) = Ocupa(pide.cantidad)
          BY <2>3, <4>4 DEF Cuanto
        <5> QED BY <4>1, <4>2, <4>3, <5>2, <5>3
      <4>5. CASE x # n
        <5>1. EntradaDe(n) # j
          <6>1. ASSUME EntradaDe(n) = j PROVE FALSE
            <7>1. n \in PaginasHeap
              BY <1>1, <1>2, <1>8 DEF BloquesDe, PideBien, PasoPide, BloqueBueno, EnBloque
            <7>2. PICK i \in DOMAIN listaAdmHeap : n = PaginaDe(listaAdmHeap[i])
              BY <7>1 DEF PaginasHeap
            <7>3. EntradaDe(n) = i
              BY <1>1, <7>2, EntradaEs DEF BloquesDe
            <7> QED BY <3>1, <4>5, <6>1, <7>2, <7>3
          <6> QED BY <6>1
        <5>2. listaAdmHeap'[j].disponible = listaAdmHeap[j].disponible
          BY <1>8, <5>1 DEF Ajusta
        <5>3. Cuanto(Reservado(pide'), x) = 0
          BY <2>3, <4>5 DEF Cuanto
        <5> QED BY <4>1, <4>2, <5>2, <5>3
      <4> QED BY <4>4, <4>5
    <3> QED BY <1>2, <1>4, <2>3, <2>6, <2>7, <3>1 DEF Contado, Espacio
  <2>10. Leyendo(t)'
    BY <1>1, <1>2, <1>8, LeyendoPide
  <2>11. \E m : Crecio(aMemoria, m, aMemoria') /\ m.op # "escribe"
    <3>1. Crecio(aMemoria, Lectura(Nodo(pide), pide.off), aMemoria')
      BY <1>1, <1>8, LeeTipos DEF TiposHeap
    <3>2. Lectura(Nodo(pide), pide.off).op = "lee"
      BY DEF Lectura, Mensaje
    <3> QED BY <3>1, <3>2
  <2>12. Escrituras(aMemoria', EscriturasPide(t, Contenido, pide'), Marcas(Contenido, libera))
    BY <1>6, <2>11, EscriturasMas
  <2>13. Escribiendo(t)'
    BY <1>2, <1>4, <2>12 DEF Escribiendo
  <2>14. PideBien(t)'
    <3>1. BloqueBueno(t, Contenido, pide, PaginasHeap) /\ pide.cantidad + 2 <= MARCOS_SIZE
      BY <1>1, <1>2, <1>8 DEF BloquesDe, PideBien, PasoPide
    <3>2. BloqueBueno(t, Contenido, pide', PaginasHeap)
      BY <2>1, <3>1 DEF BloqueBueno, EnBloque
    <3> QED BY <1>4, <2>1, <3>1, <3>2 DEF PideBien, PasoPide
  <2> QED BY <2>4, <2>5, <2>8, <2>9, <2>10, <2>13, <2>14 DEF BloquesDe
<1> QED BY <1>1, <1>7, <1>8, PideReservaHace

\* It writes the header of what is left.
LEMMA BloquesResto ==
  ASSUME NEW t, Antes(t), Despues, PideResto
  PROVE  BloquesDe(t)'
<1>1. TiposHeap /\ BloquesDe(t)
  BY DEF Antes
<1>2. /\ pide.pc = "escribeBloque" /\ pide \in Buscando /\ Sigue(pide) /\ pide'.pc = "escribeResto"
      /\ sems.pagina > 0
      /\ Escritura(Nodo(pide), OffsetResto(pide), CeldaResto(pide)) \in Mensajes
      /\ aMemoria' = Append(aMemoria, Escritura(Nodo(pide), OffsetResto(pide), CeldaResto(pide)))
      /\ UNCHANGED <<bloques, colaLiberaHeap, libera, listaAdmHeap, ultimaPagina>>
  BY <1>1, PideRestoHace
<1>3. ProcesarHeap /\ ~PideRegistra
  BY <1>2 DEF ProcesarHeap, PideRegistra
<1>4. Contenido' = Contenido /\ PaginasHeap' = PaginasHeap
  BY <1>3, HilosDejan
<1>5. /\ Nodo(pide') = Nodo(pide) /\ pide'.cantidad = pide.cantidad /\ pide'.off = pide.off
      /\ pide'.size = pide.size
  BY <1>2 DEF Sigue, Nodo
<1>6. Corte(pide') = Corte(pide) /\ Reservado(pide') = Reservado(pide)
  BY <1>2, <1>5 DEF Corte, Reservado
<1>7. Teselado(t)' /\ EnUsoBien(t)' /\ Contado(t)' /\ Distintas'
  BY <1>1, <1>2, <1>4, <1>6, BloquesQuietos
<1>8. pide.pc \in ConMutex
  BY <1>2 DEF ConMutex
<1>9. libera.pc # "escribe"
  BY <1>1, <1>8, LiberaNoEscribe DEF Antes, Hilos
<1>10. \A i \in DOMAIN aMemoria : aMemoria[i].op # "escribe"
  BY <1>2, <1>9, NadaQueEscribir
<1>11. PICK m \in Mensajes : m = Escritura(Nodo(pide), OffsetResto(pide), CeldaResto(pide))
  BY <1>2
<1>12. OffsetResto(pide') = OffsetResto(pide) /\ CeldaResto(pide') = CeldaResto(pide) /\ Cabecera(pide') = Cabecera(pide)
  BY <1>5 DEF OffsetResto, CeldaResto, Cabecera
<1>13. EscriturasPide(t, Contenido, pide') = {m}
  BY <1>2, <1>5, <1>11, <1>12 DEF EscriturasPide
<1>14. pide'.pc \in ConMutex \cap EsperaEscritura
  BY <1>2 DEF ConMutex, EsperaEscritura
<1>15. Escribiendo(t)' /\ Leyendo(t)' /\ sems'.pagina = 0
  BY <1>2, <1>4, <1>5, <1>10, <1>11, <1>13, <1>14, MandaBien
<1>16. PideBien(t)'
  <2>1. /\ pide.cantidad + 2 <= MARCOS_SIZE /\ EnBloque(t, pide, PaginasHeap) /\ pide.size >= pide.cantidad + 1
        /\ Contenido[Nodo(pide)][pide.off] = Cabecera(pide)
    BY <1>1, <1>2 DEF BloquesDe, PideBien, PasoPide
  <2>2. EnBloque(t, pide', PaginasHeap)
    BY <1>5, <2>1 DEF EnBloque
  <2> QED BY <1>2, <1>4, <1>5, <1>12, <1>15, <2>1, <2>2 DEF PideBien, PasoPide
<1>17. LiberaBien'
  BY <1>1, <1>2, <1>4, LiberaQuieta
<1> QED BY <1>7, <1>15, <1>16, <1>17 DEF BloquesDe

\* It has read the header of the block, and writes it.
LEMMA BloquesCabecera ==
  ASSUME NEW t, Antes(t), Despues, PideCabecera
  PROVE  BloquesDe(t)'
<1> DEFINE n == Nodo(pide)
<1>1. TiposHeap /\ BloquesDe(t)
  BY DEF Antes
<1>2. /\ pide.pc = "leeViejo" /\ pide \in Buscando /\ pide'.pc = "escribeBloque" /\ pide'.pid = pide.pid
      /\ pide'.cantidad = pide.cantidad /\ pide'.pagina = pide.pagina /\ pide'.off = pide.off
      /\ pide'.size = metaDataLeida.size /\ sems.meta > 0
      /\ Escritura(Nodo(pide), pide.off, Cabecera(pide)) \in Mensajes
      /\ aMemoria' = Append(aMemoria, Escritura(Nodo(pide), pide.off, Cabecera(pide)))
      /\ UNCHANGED <<bloques, colaLiberaHeap, libera, listaAdmHeap, ultimaPagina>>
  BY <1>1, PideCabeceraHace
<1>3. ProcesarHeap /\ ~PideRegistra
  BY <1>2 DEF ProcesarHeap, PideRegistra
<1>4. Contenido' = Contenido /\ PaginasHeap' = PaginasHeap
  BY <1>3, HilosDejan
<1>5. Nodo(pide') = n /\ LeyendoMetadata(pide) /\ LeeEn(pide) = pide.off /\ EscriturasPide(t, Contenido, pide) = {}
  BY <1>2 DEF Nodo, LeyendoMetadata, LeeEn, EscriturasPide
<1>6. BloqueBueno(t, Contenido, pide, PaginasHeap) /\ pide.cantidad + 2 <= MARCOS_SIZE
  BY <1>1, <1>2 DEF BloquesDe, PideBien, PasoPide
<1>7. n \in PaginasHeap /\ n \in Paginas /\ EsInicio(t[n], pide.off)
  BY <1>1, <1>6, PaginasHeapSon DEF BloqueBueno, EnBloque, Antes
<1>8. Vista(Contenido, Corte(pide), n) = Contenido[n] /\ Corte(pide) = SinCorte
  BY <1>2, <1>7, SinCorteVista
<1>9. Teselada(t[n], Contenido[n])
  BY <1>1, <1>7, <1>8 DEF BloquesDe, Teselado, Teselas
<1>10. pide.off \in 0 .. MARCOS_SIZE - 1
  BY <1>7, <1>9, TeselaEs, DimensionTipo
<1>11. Coincide(metaDataLeida, Contenido[n][pide.off])
  <2>1. LeeEn(pide) < MARCOS_SIZE
    BY <1>5, <1>7 DEF EsInicio
  <2> QED BY <1>1, <1>2, <1>5, <2>1 DEF BloquesDe, Leyendo, Leido
<1>12. Contenido[n][pide.off] = [isFree |-> -1, size |-> pide'.size]
  <2>1. Contenido[n][pide.off] \in Celdas
    BY <1>1, <1>7, <1>10, ContenidoEs
  <2>2. Contenido[n][pide.off].isFree = -1 /\ Contenido[n][pide.off].size = pide'.size
    BY <1>2, <1>6, <1>11 DEF BloqueBueno, Coincide
  <2> QED BY <2>1, <2>2 DEF Celdas
<1>13. Corte(pide') = [nodo |-> n, off |-> pide.off, size |-> pide'.size] /\ Reservado(pide') = Reservado(pide)
  BY <1>2, <1>5 DEF Corte, Reservado
<1>14. \A x \in PaginasHeap : Vista(Contenido, Corte(pide'), x) = Contenido[x]
  <2>1. [Contenido[n] EXCEPT ![pide.off] = [isFree |-> -1, size |-> pide'.size]] = Contenido[n]
    BY <1>7, <1>12 DEF Contenido
  <2>2. Corte(pide').nodo = n /\ Corte(pide').off = pide.off /\ Corte(pide').size = pide'.size
    BY <1>13
  <2>3. Vista(Contenido, Corte(pide'), n) = Contenido[n]
    BY <2>1, <2>2 DEF Vista
  <2> QED BY <2>2, <2>3 DEF Vista
<1>15. \A x \in PaginasHeap : Vista(Contenido, Corte(pide), x) = Contenido[x]
  BY <1>1, <1>2, SinCorteVista, PaginasHeapSon DEF Antes
<1>16. Teselado(t)'
  BY <1>1, <1>4, <1>14, <1>15 DEF BloquesDe, Teselado, Teselas
<1>17. Contado(t)'
  BY <1>1, <1>2, <1>4, <1>13, <1>14, <1>15 DEF BloquesDe, Contado, Espacio
<1>18. Distintas'
  BY <1>1, <1>2 DEF BloquesDe, Distintas
<1>19. EnUsoBien(t)'
  <2> DEFINE E == EnLiberacion(colaLiberaHeap, Contenido, libera)
  <2>1. BloquesEnUso(t, Contenido, Corte(pide), PaginasHeap, bloques, E)
    BY <1>1 DEF BloquesDe, EnUsoBien
  <2>2. ASSUME NEW b \in bloques \cup E PROVE EnUso(t, Contenido, Corte(pide'), PaginasHeap, b)
    <3>1. EnUso(t, Contenido, Corte(pide), PaginasHeap, b)
      BY <2>1 DEF BloquesEnUso
    <3>2. Contenido[PaginaDe(b)][b.offset].isFree = 1
      BY <3>1 DEF EnUso
    <3>3. Contenido[n][pide.off].isFree = -1
      BY <1>12
    <3>4. PaginaDe(b) = n => b.offset # pide.off
      BY <3>2, <3>3
    <3>5. Corte(pide').nodo = n /\ Corte(pide').off = pide.off
      BY <1>13
    <3> QED BY <3>1, <3>4, <3>5 DEF EnUso
  <2>3. BloquesEnUso(t, Contenido, Corte(pide'), PaginasHeap, bloques, E)
    BY <2>1, <2>2 DEF BloquesEnUso
  <2> QED BY <1>2, <1>4, <2>3 DEF EnUsoBien
<1>20. PICK m \in Mensajes : m = Escritura(n, pide.off, Cabecera(pide))
  BY <1>2
<1>21. EscriturasPide(t, Contenido, pide') = {m}
  BY <1>2, <1>5, <1>20 DEF EscriturasPide, Cabecera
<1>22. pide'.pc \in ConMutex \cap EsperaEscritura
  BY <1>2 DEF ConMutex, EsperaEscritura
<1>23. Escribiendo(t)' /\ Leyendo(t)' /\ sems'.pagina = 0
  BY <1>2, <1>4, <1>5, <1>20, <1>21, <1>22, MandaBien
<1>24. PideBien(t)'
  <2>1. EnBloque(t, pide', PaginasHeap)
    BY <1>2, <1>5, <1>7 DEF EnBloque
  <2>2. Contenido[n][pide.off].size = pide'.size
    BY <1>12
  <2>3. pide'.size >= pide'.cantidad + 1
    BY <1>2, <1>6, <2>2 DEF BloqueBueno
  <2> QED BY <1>2, <1>4, <1>5, <1>6, <1>12, <1>23, <2>1, <2>3 DEF PideBien, PasoPide
<1>25. LiberaBien'
  BY <1>1, <1>2, <1>4, LiberaQuieta
<1> QED BY <1>16, <1>17, <1>18, <1>19, <1>23, <1>24, <1>25 DEF BloquesDe

\* It has written both headers: there are two blocks, and the first one is given.
LEMMA BloquesTermina ==
  ASSUME NEW t, Antes(t), Despues, PideTermina
  PROVE  \E u : BloquesDe(u)'
<1> DEFINE n == Nodo(pide)
           E == EnLiberacion(colaLiberaHeap, Contenido, libera)
<1>1. TiposHeap /\ BloquesDe(t)
  BY DEF Antes
<1>2. /\ pide.pc = "escribeResto" /\ pide \in Buscando /\ sems.pagina > 0 /\ pide' = Ocioso
      /\ Dado \in Bloques /\ bloques' = bloques \cup {Dado}
      /\ UNCHANGED <<colaLiberaHeap, aMemoria, libera, listaAdmHeap, ultimaPagina>>
  BY <1>1, PideTerminaHace
<1>3. ProcesarHeap /\ ~PideRegistra
  BY <1>2 DEF ProcesarHeap, PideRegistra
<1>4. Contenido' = Contenido /\ PaginasHeap' = PaginasHeap
  BY <1>3, HilosDejan
<1>5. PICK z : z = OffsetResto(pide)
  OBVIOUS
<1>6. /\ pide.cantidad \in Nat /\ pide.off \in Int /\ pide.size \in Int /\ n \in Paginas
      /\ z = pide.off + 1 + pide.cantidad
  BY <1>2, <1>5, BuscandoTipo DEF OffsetResto
<1>7. /\ n \in PaginasHeap /\ EsInicio(t[n], pide.off) /\ pide.size >= pide.cantidad + 1
      /\ Contenido[n][pide.off] = Cabecera(pide) /\ Contenido[n][z] = CeldaResto(pide)
  BY <1>1, <1>2, <1>5 DEF BloquesDe, PideBien, PasoPide, EnBloque
<1>8. /\ Contenido[n][pide.off].isFree = 1 /\ Contenido[n][pide.off].size = pide.cantidad
      /\ Contenido[n][z].isFree = -1 /\ Contenido[n][z].size = pide.size - pide.cantidad - 1
  BY <1>2, <1>7, RestoTipo DEF Cabecera
<1>9. Corte(pide).nodo = n /\ Corte(pide).off = pide.off /\ Corte(pide).size = pide.size
  BY <1>2 DEF Corte
<1>10. PICK v : v = Vista(Contenido, Corte(pide), n)
  OBVIOUS
<1>11. Teselada(t[n], v)
  BY <1>1, <1>7, <1>10 DEF BloquesDe, Teselado, Teselas
<1>12. \A x \in 0 .. MARCOS_SIZE - 1 : /\ x # pide.off => v[x] = Contenido[n][x]
                                       /\ x = pide.off => v[x].isFree = -1 /\ v[x].size = pide.size
  BY <1>6, <1>9, <1>10 DEF Vista, Contenido
<1>13. \A x : EsInicio(t[n], x) => x \in 0 .. MARCOS_SIZE - 1
  BY <1>11, TeselaEs, DimensionTipo
<1>14. PICK s : s = t[n] \cup {z}
  OBVIOUS
<1>15. Teselada(s, Contenido[n]) /\ z \notin t[n] /\ z \in Nat /\ z < MARCOS_SIZE
  <2>1. pide.cantidad + 1 <= v[pide.off].size /\ Contenido[n][z].size = v[pide.off].size - pide.cantidad - 1
    BY <1>6, <1>7, <1>8, <1>12, <1>13
  <2>2. \A x : EsInicio(t[n], x) /\ x # pide.off => Contenido[n][x].size = v[x].size
    BY <1>12, <1>13
  <2>3. PICK g, w, o, k : g = t[n] /\ w = Contenido[n] /\ o = pide.off /\ k = pide.cantidad
    OBVIOUS
  <2>4. /\ Teselada(g, v) /\ EsInicio(g, o) /\ k \in Nat /\ k + 1 <= v[o].size /\ z = o + 1 + k
        /\ w[o].size = k /\ w[z].size = v[o].size - k - 1 /\ \A x : EsInicio(g, x) /\ x # o => w[x].size = v[x].size
    BY <1>6, <1>7, <1>8, <1>11, <2>1, <2>2, <2>3
  <2>5. Teselada(g \cup {z}, w) /\ z \notin g /\ z \in Nat /\ z < MARCOS_SIZE
    BY <2>4, TeselaParte
  <2> QED BY <1>14, <2>3, <2>5
<1>16. EspacioLibre(s, Contenido[n]) = EspacioLibre(t[n], v) - (pide.cantidad + 1)
  <2>1. v[pide.off].isFree = -1 /\ Contenido[n][pide.off].isFree # -1 /\ Contenido[n][z].size = v[pide.off].size - pide.cantidad - 1
    BY <1>7, <1>8, <1>12, <1>13
  <2>2. \A x : EsInicio(t[n], x) /\ x # pide.off =>
          Contenido[n][x].size = v[x].size /\ (Contenido[n][x].isFree = -1 <=> v[x].isFree = -1)
    BY <1>12, <1>13
  <2> QED BY <1>6, <1>7, <1>8, <1>11, <1>14, <1>15, <2>1, <2>2, LibreParte
<1>17. EspacioLibre(t[n], v) \in Int
  BY <1>11, LibreIgual
<1>18. PICK u : u = [x \in Paginas |-> IF x = n THEN s ELSE t[x]]
  OBVIOUS
<1>19. u[n] = s /\ \A x \in Paginas : x # n => u[x] = t[x]
  BY <1>6, <1>18
<1>20. \A x \in PaginasHeap : x \in Paginas
  BY <1>1, PaginasHeapSon DEF Antes
<1>21. pide'.pc = "espera" /\ Corte(pide') = SinCorte /\ Reservado(pide') = SinCuenta
  BY <1>2, OciosoTipo DEF Corte, Reservado
<1>22. \A x \in Paginas : Vista(Contenido, Corte(pide'), x) = Contenido[x]
  <2>1. \A x \in Paginas : x # SinCorte.nodo
    BY MarcoEs DEF SinCorte
  <2> QED BY <1>21, <2>1 DEF Vista
<1>23. \A x \in Paginas : x # n => Vista(Contenido, Corte(pide), x) = Contenido[x]
  BY <1>9 DEF Vista
<1>24. Teselado(u)'
  <2>1. ASSUME NEW x \in PaginasHeap PROVE Teselada(u[x], Vista(Contenido, Corte(pide'), x))
    <3>1. CASE x = n
      BY <1>6, <1>15, <1>19, <1>22, <3>1
    <3>2. CASE x # n
      <4>1. Teselada(t[x], Vista(Contenido, Corte(pide), x))
        BY <1>1 DEF BloquesDe, Teselado, Teselas
      <4> QED BY <1>19, <1>20, <1>22, <1>23, <3>2, <4>1
    <3> QED BY <3>1, <3>2
  <2> QED BY <1>4, <2>1 DEF Teselado, Teselas
<1>25. Contado(u)'
  <2>1. ASSUME NEW j \in DOMAIN listaAdmHeap, NEW x, x = PaginaDe(listaAdmHeap[j]), x \in PaginasHeap
        PROVE  listaAdmHeap[j].disponible + Cuanto(SinCuenta, x) + Cuanto(PorSumar(Contenido, libera), x)
                 <= EspacioLibre(u[x], Contenido[x])
    <3>1. listaAdmHeap[j].disponible + Cuanto(Reservado(pide), x) + Cuanto(PorSumar(Contenido, libera), x)
            <= EspacioLibre(t[x], Vista(Contenido, Corte(pide), x))
      BY <1>1, <2>1 DEF BloquesDe, Contado, Espacio
    <3>2. /\ listaAdmHeap[j].disponible \in Int /\ Cuanto(SinCuenta, x) = 0
          /\ Cuanto(PorSumar(Contenido, libera), x) \in Int
      BY <1>1, <2>1, ContadoTipo
    <3>3. Reservado(pide).nodo = n /\ Reservado(pide).cuanto = pide.cantidad + 1
      BY <1>2 DEF Reservado, Ocupa
    <3>4. CASE x = n
      <4>1. Cuanto(Reservado(pide), x) = pide.cantidad + 1
        BY <3>3, <3>4 DEF Cuanto
      <4>2. u[x] = s /\ Contenido[x] = Contenido[n] /\ t[x] = t[n] /\ Vista(Contenido, Corte(pide), x) = v
        BY <1>10, <1>19, <3>4
      <4>3. listaAdmHeap[j].disponible + (pide.cantidad + 1) + Cuanto(PorSumar(Contenido, libera), x)
              <= EspacioLibre(t[n], v)
        BY <3>1, <4>1, <4>2
      <4>4. listaAdmHeap[j].disponible + 0 + Cuanto(PorSumar(Contenido, libera), x)
              <= EspacioLibre(s, Contenido[n])
        BY <1>6, <1>16, <1>17, <3>2, <4>3
      <4> QED BY <3>2, <4>2, <4>4
    <3>5. CASE x # n
      <4>1. Cuanto(Reservado(pide), x) = 0
        BY <3>3, <3>5 DEF Cuanto
      <4>2. u[x] = t[x] /\ Vista(Contenido, Corte(pide), x) = Contenido[x]
        BY <1>19, <1>20, <1>23, <2>1, <3>5
      <4> QED BY <3>1, <3>2, <4>1, <4>2
    <3> QED BY <3>4, <3>5
  <2>2. \A j \in DOMAIN listaAdmHeap : PaginaDe(listaAdmHeap[j]) \in PaginasHeap =>
          Vista(Contenido, Corte(pide'), PaginaDe(listaAdmHeap[j])) = Contenido[PaginaDe(listaAdmHeap[j])]
    BY <1>20, <1>22
  <2> QED BY <1>2, <1>4, <1>21, <2>1, <2>2 DEF Contado, Espacio
<1>26. Distintas'
  BY <1>1, <1>2 DEF BloquesDe, Distintas
<1>27. PaginaDe(Dado) = n /\ Dado.offset = pide.off /\ Dado.size = pide.cantidad
  BY DEF PaginaDe, Dado, Nodo
<1>28. EnUsoBien(u)'
  <2>1. BloquesEnUso(t, Contenido, Corte(pide), PaginasHeap, bloques, E)
    BY <1>1 DEF BloquesDe, EnUsoBien
  <2>2. \A b \in bloques \cup E : EnUso(t, Contenido, Corte(pide), PaginasHeap, b)
    BY <2>1 DEF BloquesEnUso
  <2>3. ASSUME NEW b \in bloques \cup E
        PROVE  EnUso(u, Contenido, SinCorte, PaginasHeap, b) /\ ~MismoLugar(b, Dado) /\ b # Dado
    <3>1. /\ PaginaDe(b) \in PaginasHeap /\ EsInicio(t[PaginaDe(b)], b.offset)
          /\ Contenido[PaginaDe(b)][b.offset] = [isFree |-> 1, size |-> b.size]
          /\ PaginaDe(b) = Corte(pide).nodo => b.offset # Corte(pide).off
      BY <2>2 DEF EnUso
    <3>2. ~MismoLugar(b, Dado) /\ b # Dado
      BY <1>9, <1>27, <3>1 DEF MismoLugar
    <3>3. EsInicio(u[PaginaDe(b)], b.offset)
      BY <1>14, <1>19, <1>20, <3>1 DEF EsInicio
    <3>4. PaginaDe(b) # SinCorte.nodo
      BY <1>20, <3>1, MarcoEs DEF SinCorte
    <3> QED BY <3>1, <3>2, <3>3, <3>4 DEF EnUso
  <2>4. EnUso(u, Contenido, SinCorte, PaginasHeap, Dado)
    <3>1. EsInicio(u[n], pide.off)
      BY <1>7, <1>14, <1>19 DEF EsInicio
    <3>2. n # SinCorte.nodo
      BY <1>6, MarcoEs DEF SinCorte
    <3>3. Contenido[n][pide.off] = [isFree |-> 1, size |-> pide.cantidad]
      BY <1>7 DEF Cabecera
    <3> QED BY <1>7, <1>27, <3>1, <3>2, <3>3 DEF EnUso
  <2>5. \A b, d : MismoLugar(b, d) => MismoLugar(d, b)
    BY DEF MismoLugar
  <2>6. \A b \in bloques' : \A d \in (bloques' \cup E) \ {b} : ~MismoLugar(b, d)
    <3>1. ASSUME NEW b \in bloques', NEW d \in (bloques' \cup E) \ {b} PROVE ~MismoLugar(b, d)
      <4>1. CASE b = Dado
        <5>1. d \in bloques \cup E
          BY <1>2, <3>1, <4>1
        <5> QED BY <2>3, <2>5, <4>1, <5>1
      <4>2. CASE b # Dado /\ d = Dado
        <5>1. b \in bloques
          BY <1>2, <3>1, <4>2
        <5> QED BY <2>3, <4>2, <5>1
      <4>3. CASE b # Dado /\ d # Dado
        <5>1. b \in bloques /\ d \in (bloques \cup E) \ {b}
          BY <1>2, <3>1, <4>3
        <5> QED BY <2>1, <5>1 DEF BloquesEnUso
      <4> QED BY <4>1, <4>2, <4>3
    <3> QED BY <3>1
  <2>7. bloques' \cap E = {}
    <3>1. bloques \cap E = {}
      BY <2>1 DEF BloquesEnUso
    <3> QED BY <1>2, <2>3, <3>1
  <2>8. \A b \in bloques' \cup E : EnUso(u, Contenido, SinCorte, PaginasHeap, b)
    BY <1>2, <2>3, <2>4
  <2>9. BloquesEnUso(u, Contenido, SinCorte, PaginasHeap, bloques', E)
    BY <2>6, <2>7, <2>8 DEF BloquesEnUso
  <2> QED BY <1>2, <1>4, <1>21, <2>9 DEF EnUsoBien
<1>29. /\ \A i \in DOMAIN aMemoria : aMemoria[i].op # "escribe"
       /\ Marcas(Contenido, libera) = {} /\ ~LeyendoMetadata(libera)
  <2>1. pide.pc \in ConMutex
    BY <1>2 DEF ConMutex
  <2>2. libera.pc # "escribe" /\ ~LeyendoMetadata(libera)
    BY <1>1, <2>1, LiberaNoEscribe DEF Antes, Hilos
  <2> QED BY <1>2, <2>2, NadaQueEscribir
<1>30. Escribiendo(u)'
  BY <1>2, <1>4, <1>29, EscriturasNinguna DEF Escribiendo
<1>31. Leyendo(u)'
  <2>1. ~LeyendoMetadata(pide)' /\ ~LeyendoMetadata(libera)'
    BY <1>2, <1>21, <1>29 DEF LeyendoMetadata
  <2> QED BY <2>1, LeyendoNadie
<1>32. PideBien(u)'
  BY <1>21, BuscaBien
<1>33. LiberaBien'
  BY <1>1, <1>2, <1>4, LiberaQuieta
<1> QED BY <1>24, <1>25, <1>26, <1>28, <1>30, <1>31, <1>32, <1>33 DEF BloquesDe

\* The page that is new has an entry.
LEMMA BloquesRegistra ==
  ASSUME NEW t, Antes(t), Despues, PideRegistra
  PROVE  \E u : BloquesDe(u)'
<1> DEFINE n == Nodo(pide)
           E == EnLiberacion(colaLiberaHeap, Contenido, libera)
<1>1. TiposHeap /\ BloquesDe(t)
  BY DEF Antes
<1>2. /\ pide.pc = "paginaNueva" /\ pide \in Buscando /\ sems.pagina > 0 /\ Sigue(pide) /\ pide'.pc = "bloque"
      /\ UNCHANGED <<colaLiberaHeap, bloques, aMemoria, libera, ultimaPagina, ultimaPaginaPid>>
  BY <1>1, PideRegistraHace DEF memoria
<1>3. PICK e \in Entradas : /\ e.pid = pide.pid /\ e.pagina = pide.pagina /\ e.disponible = MARCOS_SIZE - 1
                            /\ listaAdmHeap' = Append(listaAdmHeap, e)
  BY <1>1, PideRegistraHace
<1>4. Contenido' = Contenido /\ Cargados' = Cargados
  BY HilosDejan DEF ProcesarHeap
<1>5. /\ Nodo(pide') = n /\ pide'.cantidad = pide.cantidad /\ pide'.off = pide.off /\ n \in Paginas
      /\ pide.cantidad \in Nat
  BY <1>2, BuscandoTipo DEF Sigue, Nodo
<1>6. PaginaDe(e) = n
  BY <1>3 DEF PaginaDe, Nodo
<1>7. /\ pide.off = 0 /\ EntradasMenores(listaAdmHeap, pide) /\ pide.cantidad + 2 <= MARCOS_SIZE
      /\ Contenido[n][0] = PaginaVacia
  BY <1>1, <1>2 DEF BloquesDe, PideBien, PasoPide
<1>8. /\ Len(listaAdmHeap) \in Nat /\ DOMAIN listaAdmHeap = 1 .. Len(listaAdmHeap)
      /\ \A j \in DOMAIN listaAdmHeap : listaAdmHeap[j] \in Entradas
  BY <1>1, EnLista DEF TiposHeap
<1>9. Crecio(listaAdmHeap, e, listaAdmHeap')
  BY <1>1, <1>3, ColaCrece DEF TiposHeap
<1>10. /\ DOMAIN listaAdmHeap' = DOMAIN listaAdmHeap \cup {Len(listaAdmHeap) + 1}
       /\ listaAdmHeap'[Len(listaAdmHeap) + 1] = e /\ Len(listaAdmHeap) + 1 \notin DOMAIN listaAdmHeap
       /\ \A j \in DOMAIN listaAdmHeap : listaAdmHeap'[j] = listaAdmHeap[j]
  BY <1>9 DEF Crecio
<1>11. \A j \in DOMAIN listaAdmHeap : PaginaDe(listaAdmHeap[j]) # n
  <2>1. ASSUME NEW j \in DOMAIN listaAdmHeap, PaginaDe(listaAdmHeap[j]) = n PROVE FALSE
    <3>1. listaAdmHeap[j].pid = pide.pid /\ listaAdmHeap[j].pagina = pide.pagina
      BY <2>1 DEF PaginaDe, Nodo, Pagina
    <3>2. listaAdmHeap[j].pagina < pide.pagina
      BY <1>7, <2>1, <3>1 DEF EntradasMenores
    <3> QED BY <1>2, <3>1, <3>2, BuscandoTipo
  <2> QED BY <2>1
<1>12. n \notin PaginasHeap
  BY <1>11 DEF PaginasHeap
<1>13. pide.pid \in Cargados
  BY <1>1, <1>2, PideEspera DEF Antes, Hilos
<1>14. PaginasHeap' = PaginasHeap \cup {n}
  <2>1. ASSUME NEW x \in PaginasHeap' PROVE x \in PaginasHeap \cup {n}
    <3>1. PICK j \in DOMAIN listaAdmHeap' : x = PaginaDe(listaAdmHeap'[j]) /\ listaAdmHeap'[j].pid \in Cargados'
      BY <2>1 DEF PaginasHeap
    <3>2. CASE j \in DOMAIN listaAdmHeap
      BY <1>4, <1>10, <3>1, <3>2 DEF PaginasHeap
    <3>3. CASE j = Len(listaAdmHeap) + 1
      BY <1>6, <1>10, <3>1, <3>3
    <3> QED BY <1>10, <3>2, <3>3
  <2>2. ASSUME NEW x \in PaginasHeap PROVE x \in PaginasHeap'
    <3>1. PICK j \in DOMAIN listaAdmHeap : x = PaginaDe(listaAdmHeap[j]) /\ listaAdmHeap[j].pid \in Cargados
      BY <2>2 DEF PaginasHeap
    <3>2. j \in DOMAIN listaAdmHeap' /\ x = PaginaDe(listaAdmHeap'[j]) /\ listaAdmHeap'[j].pid \in Cargados'
      BY <1>4, <1>10, <3>1
    <3> QED BY <3>2 DEF PaginasHeap
  <2>3. n \in PaginasHeap'
    <3>1. PICK j : j = Len(listaAdmHeap) + 1
      OBVIOUS
    <3>2. j \in DOMAIN listaAdmHeap' /\ n = PaginaDe(listaAdmHeap'[j]) /\ listaAdmHeap'[j].pid \in Cargados'
      BY <1>3, <1>4, <1>6, <1>10, <1>13, <3>1
    <3> QED BY <3>2 DEF PaginasHeap
  <2> QED BY <2>1, <2>2, <2>3
<1>15. PICK u : u = [x \in Paginas |-> IF x = n THEN {0, MARCOS_SIZE} ELSE t[x]]
  OBVIOUS
<1>16. \A x \in PaginasHeap : x \in Paginas /\ x # n /\ u[x] = t[x]
  <2>1. \A x \in PaginasHeap : x \in Paginas
    BY <1>1, PaginasHeapSon DEF Antes
  <2> QED BY <1>12, <1>15, <2>1
<1>17. u[n] = {0, MARCOS_SIZE}
  BY <1>5, <1>15
<1>18. /\ pide.pc \notin {"escribeBloque", "escribeResto"} /\ pide'.pc \notin {"escribeBloque", "escribeResto"}
       /\ Corte(pide) = SinCorte /\ Corte(pide') = SinCorte
       /\ Reservado(pide) = SinCuenta /\ Reservado(pide') = SinCuenta
  BY <1>2 DEF Corte, Reservado
<1>19. \A x \in Paginas : Vista(Contenido, SinCorte, x) = Contenido[x]
  BY <1>18, SinCorteVista
<1>20. Teselado(u)'
  <2>1. Teselada(u[n], Vista(Contenido, SinCorte, n))
    BY <1>5, <1>7, <1>17, <1>19, TeselaNueva
  <2>2. \A x \in PaginasHeap : Teselada(u[x], Vista(Contenido, SinCorte, x))
    BY <1>1, <1>16, <1>18 DEF BloquesDe, Teselado, Teselas
  <2> QED BY <1>4, <1>14, <1>18, <2>1, <2>2 DEF Teselado, Teselas
<1>21. libera.pc # "espera" => PaginaDe(libera.b) \in PaginasHeap
  BY <1>1 DEF BloquesDe, LiberaBien, PasoLibera
<1>22. /\ \A i \in DOMAIN aMemoria : aMemoria[i].op # "escribe"
       /\ Marcas(Contenido, libera) = {} /\ ~Marcando(Contenido, libera) /\ ~LeyendoMetadata(libera)
  <2>1. pide.pc \in ConMutex
    BY <1>2 DEF ConMutex
  <2>2. libera.pc # "escribe" /\ ~LeyendoMetadata(libera)
    BY <1>1, <2>1, LiberaNoEscribe DEF Antes, Hilos
  <2> QED BY <1>2, <2>2, NadaQueEscribir
<1>23. LiberaBien'
  <2>1. PasoLibera(Contenido, pide, libera, PaginasHeap)
    BY <1>1 DEF BloquesDe, LiberaBien
  <2>2. PasoLibera(Contenido, pide', libera, PaginasHeap')
    BY <1>14, <1>22, <2>1 DEF PasoLibera
  <2> QED BY <1>2, <1>4, <2>2 DEF LiberaBien
<1>24. Contado(u)'
  <2>1. ASSUME NEW j \in DOMAIN listaAdmHeap', NEW x, x = PaginaDe(listaAdmHeap'[j]), x \in PaginasHeap'
        PROVE  listaAdmHeap'[j].disponible + Cuanto(SinCuenta, x) + Cuanto(PorSumar(Contenido, libera), x)
                 <= EspacioLibre(u[x], Vista(Contenido, SinCorte, x))
    <3>1. CASE j \in DOMAIN listaAdmHeap
      <4>1. x = PaginaDe(listaAdmHeap[j]) /\ x \in PaginasHeap
        BY <1>10, <1>11, <1>14, <2>1, <3>1
      <4>2. listaAdmHeap[j].disponible + Cuanto(SinCuenta, x) + Cuanto(PorSumar(Contenido, libera), x)
              <= EspacioLibre(t[x], Vista(Contenido, SinCorte, x))
        BY <1>1, <1>18, <3>1, <4>1 DEF BloquesDe, Contado, Espacio
      <4> QED BY <1>10, <1>16, <3>1, <4>1, <4>2
    <3>2. CASE j = Len(listaAdmHeap) + 1
      <4>1. x = n /\ listaAdmHeap'[j].disponible = MARCOS_SIZE - 1
        BY <1>3, <1>6, <1>10, <2>1, <3>2
      <4>2. EspacioLibre(u[x], Vista(Contenido, SinCorte, x)) = MARCOS_SIZE - 1
        BY <1>5, <1>7, <1>17, <1>19, <4>1, LibreNueva
      <4>3. Cuanto(SinCuenta, x) = 0
        BY <1>5, <4>1, MarcoEs DEF Cuanto, SinCuenta
      <4>4. Cuanto(PorSumar(Contenido, libera), x) = 0
        <5>1. CASE libera.pc = "espera"
          BY <4>3, <5>1 DEF PorSumar
        <5>2. CASE libera.pc # "espera"
          <6>1. PaginaDe(libera.b) # x
            BY <1>12, <1>21, <4>1, <5>2
          <6> QED BY <4>3, <6>1 DEF PorSumar, Cuanto
        <5> QED BY <5>1, <5>2
      <4> QED BY <4>1, <4>2, <4>3, <4>4, DimensionTipo
    <3> QED BY <1>10, <2>1, <3>1, <3>2
  <2> QED BY <1>2, <1>4, <1>18, <2>1 DEF Contado, Espacio
<1>25. Distintas'
  <2>1. PaginasDistintas(listaAdmHeap, ultimaPagina)
    BY <1>1 DEF BloquesDe, Distintas
  <2>2. ASSUME NEW i \in DOMAIN listaAdmHeap', NEW j \in DOMAIN listaAdmHeap', i # j
        PROVE  PaginaDe(listaAdmHeap'[i]) # PaginaDe(listaAdmHeap'[j])
    <3>1. CASE i \in DOMAIN listaAdmHeap /\ j \in DOMAIN listaAdmHeap
      BY <1>10, <2>1, <2>2, <3>1 DEF PaginasDistintas
    <3>2. CASE i \in DOMAIN listaAdmHeap /\ j = Len(listaAdmHeap) + 1
      BY <1>6, <1>10, <1>11, <3>2
    <3>3. CASE i = Len(listaAdmHeap) + 1 /\ j \in DOMAIN listaAdmHeap
      BY <1>6, <1>10, <1>11, <3>3
    <3> QED BY <1>10, <2>2, <3>1, <3>2, <3>3
  <2>3. ASSUME NEW j \in DOMAIN listaAdmHeap' PROVE listaAdmHeap'[j].pagina < ultimaPagina[listaAdmHeap'[j].pid]
    <3>1. CASE j \in DOMAIN listaAdmHeap
      BY <1>10, <2>1, <3>1 DEF PaginasDistintas
    <3>2. CASE j = Len(listaAdmHeap) + 1
      <4>1. pide.pagina + 1 = ultimaPaginaPid[pide.pid] /\ ultimaPagina[pide.pid] = ultimaPaginaPid[pide.pid]
        BY <1>2 DEF Antes, Marcos, MismaCuenta, CuentaDePide
      <4>2. pide.pagina \in Nat /\ ultimaPagina[pide.pid] = pide.pagina + 1
        BY <1>2, <4>1, BuscandoTipo
      <4>3. listaAdmHeap'[j].pagina = pide.pagina /\ listaAdmHeap'[j].pid = pide.pid
        BY <1>3, <1>10, <3>2
      <4>4. pide.pagina < ultimaPagina[pide.pid]
        BY <4>2
      <4> QED BY <4>3, <4>4
    <3> QED BY <1>10, <2>3, <3>1, <3>2
  <2> QED BY <1>2, <2>2, <2>3 DEF Distintas, PaginasDistintas
<1>26. EnUsoBien(u)'
  <2>1. BloquesEnUso(t, Contenido, SinCorte, PaginasHeap, bloques, E)
    BY <1>1, <1>18 DEF BloquesDe, EnUsoBien
  <2>2. \A b \in bloques \cup E : EnUso(u, Contenido, SinCorte, PaginasHeap', b)
    BY <1>14, <1>16, <2>1 DEF BloquesEnUso, EnUso
  <2>3. BloquesEnUso(u, Contenido, SinCorte, PaginasHeap', bloques, E)
    BY <2>1, <2>2 DEF BloquesEnUso
  <2> QED BY <1>2, <1>4, <1>18, <2>3 DEF EnUsoBien
<1>27. Escribiendo(u)'
  BY <1>2, <1>4, <1>22, EscriturasNinguna DEF Escribiendo
<1>28. Leyendo(u)'
  <2>1. ~LeyendoMetadata(pide)' /\ ~LeyendoMetadata(libera)'
    BY <1>2, <1>22 DEF LeyendoMetadata
  <2> QED BY <2>1, LeyendoNadie
<1>29. PideBien(u)'
  <2>1. EsInicio(u[n], 0)
    BY <1>17, DimensionTipo DEF EsInicio
  <2>2. Contenido[n][0].isFree = -1 /\ Contenido[n][0].size = MARCOS_SIZE - 1
    BY <1>7, VaciaTipo
  <2>3. Contenido[n][0].size >= pide'.cantidad + 1
    BY <1>5, <1>7, <2>2, DimensionTipo
  <2>4. BloqueBueno(u, Contenido, pide', PaginasHeap')
    BY <1>5, <1>7, <1>14, <2>1, <2>2, <2>3 DEF BloqueBueno, EnBloque
  <2> QED BY <1>2, <1>4, <1>5, <1>7, <2>4 DEF PideBien, PasoPide
<1> QED BY <1>20, <1>23, <1>24, <1>25, <1>26, <1>27, <1>28, <1>29 DEF BloquesDe

\* A step of procesarHeap.
LEMMA BloquesPide ==
  ASSUME NEW t, Antes(t), Despues, ProcesarHeap
  PROVE  \E u : BloquesDe(u)'
<1>1. CASE PideToma
  BY <1>1, BloquesToma
<1>2. CASE PideActual
  BY <1>2, BloquesActual
<1>3. CASE PideSiguiente
  BY <1>3, BloquesSiguiente
<1>4. CASE PideCompactado
  BY <1>4, BloquesCompactado
<1>5. CASE PideBloque
  BY <1>5, BloquesBloque
<1>6. CASE PidePagina
  BY <1>6, BloquesPagina
<1>7. CASE PideReservada
  BY <1>7, BloquesReservada
<1>8. CASE PideRegistra
  BY <1>8, BloquesRegistra
<1>9. CASE PideReserva
  BY <1>9, BloquesReserva
<1>10. CASE PideCabecera
  BY <1>10, BloquesCabecera
<1>11. CASE PideResto
  BY <1>11, BloquesResto
<1>12. CASE PideTermina
  BY <1>12, BloquesTermina
<1> QED
  BY <1>1, <1>2, <1>3, <1>4, <1>5, <1>6, <1>7, <1>8, <1>9, <1>10, <1>11, <1>12 DEF ProcesarHeap

-----------------------------------------------------------------------------
(* The blocks, when liberarHeap frees one.                                  *)

\* liberarHeap begins to read a header.
LEMMA LeyendoLibera ==
  ASSUME TiposHeap, Despues, ~LeyendoMetadata(pide)', libera'.pc = "lee", NEW m \in Mensajes,
         m = Lectura(PaginaDe(libera'.b), libera'.b.offset), aMemoria' = Append(aMemoria, m), NEW u
  PROVE  Leyendo(u)'
<1>1. LeyendoMetadata(libera)'
  BY DEF LeyendoMetadata
<1>2. m.op = "lee" /\ Crecio(aMemoria, m, aMemoria')
  BY EnviaTipo DEF Lectura, Mensaje, TiposHeap
<1>3. LecturasDe(pide', libera') = {m}
  BY <1>1 DEF LecturasDe
<1>4. sems'.meta + CuantosDe(aMemoria', "lee") = 1
  BY <1>1 DEF Despues, Hilos, RespuestasContadas, Uno
<1>5. /\ Len(aMemoria) \in Nat /\ DOMAIN aMemoria' = 1 .. Len(aMemoria) + 1
      /\ aMemoria'[Len(aMemoria) + 1] = m
  BY <1>2 DEF Crecio
<1>6. PICK n \in Nat : n = Len(aMemoria) + 1
  BY <1>5
<1>7. DOMAIN aMemoria' = 1 .. n /\ n \in DOMAIN aMemoria' /\ aMemoria'[n] = m
  BY <1>5, <1>6
<1>8. PICK q : q = aMemoria'
  OBVIOUS
<1>9. /\ CuantosDe(q, "lee") \in Nat
      /\ CuantosDe(q, "lee") = 0 <=> \A i \in DOMAIN q : q[i].op # "lee"
      /\ CuantosDe(q, "lee") <= 1 => \A i, j \in DOMAIN q : q[i].op = "lee" /\ q[j].op = "lee" => i = j
  <2>1. DOMAIN q = 1 .. n
    BY <1>7, <1>8
  <2>2. ASSUME NEW op
        PROVE  /\ CuantosDe(q, op) \in Nat
               /\ CuantosDe(q, op) = 0 <=> \A i \in DOMAIN q : q[i].op # op
               /\ CuantosDe(q, op) <= 1 => \A i, j \in DOMAIN q : q[i].op = op /\ q[j].op = op => i = j
    BY <2>1, CuantosHay
  <2> QED BY <2>2
<1>10. sems'.meta = 0 /\ \A i \in Sitio(aMemoria', "lee") : i = n
  <2>1. CuantosDe(q, "lee") # 0
    BY <1>2, <1>7, <1>8, <1>9
  <2>2. sems'.meta \in Nat /\ sems'.meta + CuantosDe(q, "lee") = 1
    BY <1>4, <1>8 DEF Despues, TiposHeap
  <2>3. sems'.meta = 0 /\ CuantosDe(q, "lee") <= 1
    BY <1>9, <2>1, <2>2
  <2> QED BY <1>2, <1>7, <1>8, <1>9, <2>3 DEF Sitio
<1>11. UnoLee(pide, libera)'
  BY DEF UnoLee
<1>12. Lecturas(aMemoria, LecturasDe(pide, libera))'
  BY <1>3, <1>7, <1>10 DEF Lecturas
<1>13. Leido(Contenido, pide, libera, sems.meta, metaDataLeida)'
  BY <1>10 DEF Leido
<1>14. FusionAntes(aMemoria, EscriturasPide(u, Contenido, pide), sems.meta, pide)'
  BY DEF FusionAntes
<1> QED BY <1>11, <1>12, <1>13, <1>14 DEF Leyendo

\* A step of liberarHeap that leaves the blocks and their space as they are.
LEMMA LiberaComun ==
  ASSUME NEW t, Antes(t), LiberarHeap, UNCHANGED <<pide, listaAdmHeap, bloques, ultimaPagina, abortoPorFaltaDeMemoria>>,
         EnLiberacion(colaLiberaHeap', Contenido, libera') = EnLiberacion(colaLiberaHeap, Contenido, libera),
         PorSumar(Contenido, libera') = PorSumar(Contenido, libera)
  PROVE  /\ Contenido' = Contenido /\ PaginasHeap' = PaginasHeap
         /\ Teselado(t)' /\ EnUsoBien(t)' /\ Contado(t)' /\ Distintas'
         /\ sems'.pagina = sems.pagina => PideBien(t)'
<1>1. BloquesDe(t)
  BY DEF Antes
<1>2. ~PideRegistra
  <2>1. libera # libera'
    <3>1. TiposHeap
      BY DEF Antes
    <3>2. CASE LiberaToma
      BY <3>1, <3>2, LiberaTomaHace
    <3>3. CASE LiberaLee
      BY <3>1, <3>3, LiberaLeeHace DEF SigueLiberando
    <3>4. CASE LiberaEscribe
      BY <3>1, <3>4, LiberaEscribeHace DEF SigueLiberando
    <3>5. CASE LiberaEscrito
      BY <3>1, <3>5, LiberaEscritoHace DEF SigueLiberando
    <3>6. CASE LiberaLista
      BY <3>1, <3>6, LiberaListaHace, OciosoTipo
    <3> QED BY <3>2, <3>3, <3>4, <3>5, <3>6 DEF LiberarHeap
  <2> QED BY <2>1 DEF PideRegistra
<1>3. Contenido' = Contenido /\ PaginasHeap' = PaginasHeap
  BY <1>2, HilosDejan
<1>4. Teselado(t)'
  BY <1>1, <1>3 DEF BloquesDe, Teselado
<1>5. EnUsoBien(t)'
  BY <1>1, <1>3 DEF BloquesDe, EnUsoBien
<1>6. Contado(t)'
  BY <1>1, <1>3 DEF BloquesDe, Contado
<1>7. Distintas'
  BY <1>1 DEF BloquesDe, Distintas
<1>8. sems'.pagina = sems.pagina => PideBien(t)'
  BY <1>1, <1>3 DEF BloquesDe, PideBien
<1> QED BY <1>3, <1>4, <1>5, <1>6, <1>7, <1>8

\* What a block that is being freed is.
LEMMA LiberandoEs ==
  ASSUME NEW t, Antes(t), NEW b \in EnLiberacion(colaLiberaHeap, Contenido, libera)
  PROVE  PaginaDe(b) \in PaginasHeap /\ Contenido[PaginaDe(b)][b.offset].isFree = 1
<1>1. EnUso(t, Contenido, Corte(pide), PaginasHeap, b)
  BY DEF Antes, BloquesDe, EnUsoBien, BloquesEnUso
<1> QED BY <1>1 DEF EnUso

\* It takes the block that is to be freed.
LEMMA BloquesLiberaToma ==
  ASSUME NEW t, Antes(t), Despues, LiberaToma
  PROVE  BloquesDe(t)'
<1>1. TiposHeap /\ BloquesDe(t)
  BY DEF Antes
<1>2. /\ libera.pc = "espera" /\ colaLiberaHeap # <<>> /\ colaLiberaHeap' = Tail(colaLiberaHeap)
      /\ libera'.pc = "lee" /\ libera'.b = Head(colaLiberaHeap)
      /\ historia' = historia \cup Solapa(pide)
      /\ UNCHANGED <<bloques, metaDataLeida, sems, pide, listaAdmHeap, ultimaPagina, abortoPorFaltaDeMemoria>>
  BY <1>1, LiberaTomaHace
<1>3. PICK m \in Mensajes : m = Lectura(PaginaDe(libera'.b), libera'.b.offset) /\ aMemoria' = Append(aMemoria, m)
  BY <1>1, <1>2, LiberaTomaHace
<1>4. ~LeyendoMetadata(pide)'
  BY <1>2 DEF Solapa, Despues
<1>5. Leyendo(t)'
  BY <1>1, <1>2, <1>3, <1>4, LeyendoLibera
<1>6. ToSet(colaLiberaHeap) = ToSet(colaLiberaHeap') \cup {libera'.b}
  <2>1. colaLiberaHeap \in Seq(Bloques)
    BY <1>1 DEF TiposHeap
  <2>2. EsLista(colaLiberaHeap)
    BY <2>1 DEF EsLista
  <2> QED BY <1>2, <2>2, ListaMengua
<1>7. ~Marcando(Contenido, libera) /\ ~Marcando(Contenido, libera')
  BY <1>2 DEF Marcando
<1>8. EnLiberacion(colaLiberaHeap', Contenido, libera') = EnLiberacion(colaLiberaHeap, Contenido, libera)
  BY <1>2, <1>6, <1>7 DEF EnLiberacion
<1>9. PorSumar(Contenido, libera') = PorSumar(Contenido, libera)
  BY <1>2 DEF PorSumar
<1>10. /\ Contenido' = Contenido /\ PaginasHeap' = PaginasHeap
       /\ Teselado(t)' /\ EnUsoBien(t)' /\ Contado(t)' /\ Distintas' /\ PideBien(t)'
  BY <1>2, <1>8, <1>9, LiberaComun DEF LiberarHeap
<1>11. Marcas(Contenido, libera') = {} /\ Marcas(Contenido, libera) = {}
  BY <1>7 DEF Marcas
<1>12. Escribiendo(t)'
  <2>1. Escrituras(aMemoria, EscriturasPide(t, Contenido, pide), {})
    BY <1>1, <1>11 DEF BloquesDe, Escribiendo
  <2>2. Crecio(aMemoria, m, aMemoria') /\ m.op = "lee"
    BY <1>1, <1>3, EnviaTipo DEF TiposHeap, Lectura, Mensaje
  <2>3. Escrituras(aMemoria', EscriturasPide(t, Contenido, pide), {})
    BY <2>1, <2>2, EscriturasMas
  <2> QED BY <1>2, <1>10, <1>11, <2>3 DEF Escribiendo
<1>13. LiberaBien'
  <2>1. libera'.b \in EnLiberacion(colaLiberaHeap, Contenido, libera)
    BY <1>6 DEF EnLiberacion
  <2>2. PaginaDe(libera'.b) \in PaginasHeap
    BY <2>1, LiberandoEs
  <2> QED BY <1>2, <1>10, <2>2 DEF LiberaBien, PasoLibera
<1> QED BY <1>5, <1>10, <1>12, <1>13 DEF BloquesDe

\* It has read its header.
LEMMA BloquesLiberaLee ==
  ASSUME NEW t, Antes(t), Despues, LiberaLee
  PROVE  BloquesDe(t)'
<1>1. TiposHeap /\ BloquesDe(t)
  BY DEF Antes
<1>2. /\ libera.pc = "lee" /\ sems.meta > 0 /\ libera'.pc = "leido" /\ libera'.b = libera.b
      /\ libera'.size = metaDataLeida.size /\ sems'.pagina = sems.pagina
      /\ UNCHANGED <<bloques, colaLiberaHeap, aMemoria, pide, listaAdmHeap, ultimaPagina, abortoPorFaltaDeMemoria>>
  <2>1. Varia(-1, 0, 0) /\ SigueLiberando("leido")
    BY <1>1, LiberaLeeHace
  <2>2. sems.pagina \in Nat
    BY <1>1, SemsVaria DEF TiposHeap
  <2>3. sems'.pagina = sems.pagina
    BY <2>1, <2>2 DEF Varia
  <2> QED BY <1>1, <2>1, <2>3, LiberaLeeHace DEF SigueLiberando
<1>3. LeyendoMetadata(libera) /\ ~LeyendoMetadata(libera)'
  BY <1>2 DEF LeyendoMetadata
<1>4. ~LeyendoMetadata(pide) /\ metaDataLeida.size = libera.b.size
  BY <1>1, <1>2, <1>3 DEF BloquesDe, Leyendo, UnoLee, Leido
<1>5. Leyendo(t)'
  <2>1. ~LeyendoMetadata(pide)'
    BY <1>2, <1>4
  <2> QED BY <1>3, <2>1, LeyendoNadie
<1>6. ~Marcando(Contenido, libera) /\ ~Marcando(Contenido, libera')
  BY <1>2 DEF Marcando
<1>7. EnLiberacion(colaLiberaHeap', Contenido, libera') = EnLiberacion(colaLiberaHeap, Contenido, libera)
  BY <1>2 DEF EnLiberacion
<1>8. PorSumar(Contenido, libera') = PorSumar(Contenido, libera)
  BY <1>2 DEF PorSumar
<1>9. /\ Contenido' = Contenido /\ PaginasHeap' = PaginasHeap
      /\ Teselado(t)' /\ EnUsoBien(t)' /\ Contado(t)' /\ Distintas' /\ PideBien(t)'
  BY <1>2, <1>7, <1>8, LiberaComun DEF LiberarHeap
<1>10. Escribiendo(t)'
  <2>1. Marcas(Contenido, libera') = Marcas(Contenido, libera)
    BY <1>6 DEF Marcas
  <2> QED BY <1>1, <1>2, <1>9, <2>1 DEF BloquesDe, Escribiendo
<1>11. LiberaBien'
  <2>1. PaginaDe(libera.b) \in PaginasHeap
    BY <1>1, <1>2 DEF BloquesDe, LiberaBien, PasoLibera
  <2> QED BY <1>2, <1>4, <1>9, <2>1 DEF LiberaBien, PasoLibera
<1> QED BY <1>5, <1>9, <1>10, <1>11 DEF BloquesDe

\* It marks it.
LEMMA BloquesLiberaEscribe ==
  ASSUME NEW t, Antes(t), Despues, LiberaEscribe
  PROVE  BloquesDe(t)'
<1>1. TiposHeap /\ BloquesDe(t)
  BY DEF Antes
<1>2. /\ libera.pc = "leido" /\ libera'.pc = "escribe" /\ libera'.b = libera.b /\ libera'.size = libera.size
      /\ Marca \in Mensajes /\ aMemoria' = Append(aMemoria, Marca)
      /\ UNCHANGED <<bloques, colaLiberaHeap, metaDataLeida, sems, pide, listaAdmHeap, ultimaPagina,
                     abortoPorFaltaDeMemoria>>
  BY <1>1, LiberaEscribeHace DEF SigueLiberando
<1>3. libera.b \in EnLiberacion(colaLiberaHeap, Contenido, libera)
  BY <1>2 DEF EnLiberacion
<1>4. Contenido[PaginaDe(libera.b)][libera.b.offset].isFree = 1 /\ PaginaDe(libera.b) \in PaginasHeap
  BY <1>3, LiberandoEs
<1>5. ~Marcando(Contenido, libera) /\ Marcando(Contenido, libera')
  BY <1>2, <1>4 DEF Marcando
<1>6. EnLiberacion(colaLiberaHeap', Contenido, libera') = EnLiberacion(colaLiberaHeap, Contenido, libera)
  BY <1>2, <1>5 DEF EnLiberacion
<1>7. PorSumar(Contenido, libera') = PorSumar(Contenido, libera)
  BY <1>2, <1>5 DEF PorSumar
<1>8. /\ Contenido' = Contenido /\ PaginasHeap' = PaginasHeap
      /\ Teselado(t)' /\ EnUsoBien(t)' /\ Contado(t)' /\ Distintas' /\ PideBien(t)'
  BY <1>2, <1>6, <1>7, LiberaComun DEF LiberarHeap
<1>9. PICK m \in Mensajes : m = Marca
  BY <1>2
<1>10. m.op = "escribe" /\ m.nodo = PaginaDe(libera.b)
  BY <1>9 DEF Marca, Escritura, Mensaje
<1>11. m \notin EscriturasPide(t, Contenido, pide)
  <2>1. CASE pide.pc = "espera"
    BY <2>1 DEF EscriturasPide
  <2>2. CASE pide.pc # "espera"
    <3>1. Nodo(pide) # PaginaDe(libera.b)
      BY <1>1, <1>2, <2>2, NodosAparte DEF Antes, Hilos
    <3> QED BY <1>10, <3>1, EscribeQuien
  <2> QED BY <2>1, <2>2
<1>12. Marcas(Contenido, libera) = {} /\ Marcas(Contenido, libera') = {m}
  <2>1. MarcaDe(libera') = m
    BY <1>2, <1>9 DEF MarcaDe, Marca
  <2> QED BY <1>5, <2>1 DEF Marcas
<1>13. Escribiendo(t)'
  <2>1. Escrituras(aMemoria, EscriturasPide(t, Contenido, pide), {})
    BY <1>1, <1>12 DEF BloquesDe, Escribiendo
  <2>2. Crecio(aMemoria, m, aMemoria')
    BY <1>1, <1>2, <1>9, EnviaTipo DEF TiposHeap
  <2>3. Escrituras(aMemoria', EscriturasPide(t, Contenido, pide), {m})
    BY <1>10, <1>11, <2>1, <2>2, EscriturasMarca
  <2> QED BY <1>2, <1>8, <1>12, <2>3 DEF Escribiendo
<1>14. Leyendo(t)'
  <2>1. EnviaAparte(t)
    BY <1>2, <1>9, <1>10, <1>11 DEF EnviaAparte
  <2>2. ~LeyendoMetadata(libera) /\ ~LeyendoMetadata(libera)'
    BY <1>2 DEF LeyendoMetadata
  <2> QED BY <1>1, <1>2, <1>8, <2>1, <2>2, LeyendoQueda DEF BloquesDe
<1>15. LiberaBien'
  <2>1. libera.size = libera.b.size
    BY <1>1, <1>2 DEF BloquesDe, LiberaBien, PasoLibera
  <2> QED BY <1>2, <1>4, <1>8, <2>1 DEF LiberaBien, PasoLibera
<1> QED BY <1>8, <1>13, <1>14, <1>15 DEF BloquesDe

\* It has the answer of a writing, that may not be its own.
LEMMA BloquesLiberaEscrito ==
  ASSUME NEW t, Antes(t), Despues, LiberaEscrito
  PROVE  BloquesDe(t)'
<1>1. TiposHeap /\ BloquesDe(t)
  BY DEF Antes
<1>2. /\ libera.pc = "escribe" /\ libera'.pc = "escrito" /\ libera'.b = libera.b /\ libera'.size = libera.size
      /\ sems.pagina > 0 /\ sems.pagina \in Nat /\ sems'.meta = sems.meta
      /\ UNCHANGED <<bloques, colaLiberaHeap, aMemoria, metaDataLeida, pide, listaAdmHeap, ultimaPagina,
                     abortoPorFaltaDeMemoria>>
  <2>1. Varia(0, -1, 0) /\ SigueLiberando("escrito")
    BY <1>1, LiberaEscritoHace
  <2>2. sems.meta \in Nat /\ sems.pagina \in Nat
    BY <1>1, SemsVaria DEF TiposHeap
  <2>3. sems'.meta = sems.meta
    BY <2>1, <2>2 DEF Varia
  <2> QED BY <1>1, <2>1, <2>2, <2>3, LiberaEscritoHace DEF SigueLiberando
<1>3. Marcando(Contenido, libera') <=> Marcando(Contenido, libera)
  BY <1>2 DEF Marcando
<1>4. Marcas(Contenido, libera') = Marcas(Contenido, libera)
  BY <1>2, <1>3 DEF Marcas, MarcaDe
<1>5. EnLiberacion(colaLiberaHeap', Contenido, libera') = EnLiberacion(colaLiberaHeap, Contenido, libera)
  BY <1>2, <1>3 DEF EnLiberacion
<1>6. PorSumar(Contenido, libera') = PorSumar(Contenido, libera)
  BY <1>2, <1>3 DEF PorSumar
<1>7. /\ Contenido' = Contenido /\ PaginasHeap' = PaginasHeap
      /\ Teselado(t)' /\ EnUsoBien(t)' /\ Contado(t)' /\ Distintas'
  BY <1>2, <1>5, <1>6, LiberaComun DEF LiberarHeap
<1>8. Escribiendo(t)'
  BY <1>1, <1>2, <1>4, <1>7 DEF BloquesDe, Escribiendo
<1>9. Leyendo(t)'
  <2>1. EnviaAparte(t)
    BY <1>2 DEF EnviaAparte
  <2>2. ~LeyendoMetadata(libera) /\ ~LeyendoMetadata(libera)'
    BY <1>2 DEF LeyendoMetadata
  <2> QED BY <1>1, <1>2, <1>7, <2>1, <2>2, LeyendoQueda DEF BloquesDe
<1>10. pide.pc \notin ConMutex
  BY <1>2 DEF Antes, Hilos, SinChoque
<1>11. PideBien(t)'
  <2>1. pide.pc \notin {"paginaNueva", "escribeBloque", "escribeResto"}
    BY <1>10 DEF ConMutex
  <2>2. PasoPide(t, Contenido, pide, PaginasHeap, listaAdmHeap, sems.pagina, abortoPorFaltaDeMemoria)
    BY <1>1 DEF BloquesDe, PideBien
  <2>3. ASSUME NEW pag PROVE PasoPide(t, Contenido, pide, PaginasHeap, listaAdmHeap, pag, abortoPorFaltaDeMemoria)
    BY <2>1, <2>2 DEF PasoPide
  <2> QED BY <1>2, <1>7, <2>3 DEF PideBien
<1>12. Marcando(Contenido, libera) => pide.pc = "compactado"
  <2>1. SUFFICES ASSUME Marcando(Contenido, libera) PROVE pide.pc = "compactado"
    OBVIOUS
  <2>2. MarcaDe(libera) \in Marcas(Contenido, libera)
    BY <2>1 DEF Marcas
  <2>3. PICK i \in DOMAIN aMemoria : aMemoria[i] = MarcaDe(libera)
    BY <1>1, <2>2 DEF BloquesDe, Escribiendo, Escrituras
  <2>4. aMemoria[i].op = "escribe"
    BY <2>2, <2>3, EscribeQuien
  <2>5. Len(aMemoria) \in Nat /\ DOMAIN aMemoria = 1 .. Len(aMemoria)
    BY <1>1, EnLista DEF TiposHeap
  <2>6. CuantosDe(aMemoria, "escribe") \in Nat /\ CuantosDe(aMemoria, "escribe") # 0
    BY <2>3, <2>4, <2>5, CuantosHay
  <2>7. sems.pagina + CuantosDe(aMemoria, "escribe") = Uno(pide.pc \in EsperaEscritura) + 1
    BY <1>2 DEF Antes, Hilos, RespuestasContadas, Uno
  <2>8. pide.pc \in EsperaEscritura
    BY <1>2, <2>6, <2>7 DEF Uno
  <2> QED BY <1>10, <2>8 DEF EsperaEscritura, ConMutex
<1>13. LiberaBien'
  <2>1. libera.size = libera.b.size /\ PaginaDe(libera.b) \in PaginasHeap
    BY <1>1, <1>2 DEF BloquesDe, LiberaBien, PasoLibera
  <2>2. PasoLibera(Contenido, pide, libera', PaginasHeap)
    BY <1>2, <1>3, <1>12, <2>1 DEF PasoLibera
  <2> QED BY <1>2, <1>7, <2>2 DEF LiberaBien
<1> QED BY <1>7, <1>8, <1>9, <1>11, <1>13 DEF BloquesDe

\* It gives the space of the block to its page.
LEMMA BloquesLiberaLista ==
  ASSUME NEW t, Antes(t), Despues, LiberaLista
  PROVE  BloquesDe(t)'
<1> DEFINE n == PaginaDe(libera.b)
<1>1. TiposHeap /\ BloquesDe(t)
  BY DEF Antes
<1>2. /\ libera.pc = "escrito" /\ ~PideTieneLista /\ libera' = Ocioso /\ libera'.pc = "espera" /\ libera \in Liberador
      /\ Ajusta(listaAdmHeap, listaAdmHeap', EntradaDe(n), libera.size)
      /\ UNCHANGED <<bloques, colaLiberaHeap, aMemoria, metaDataLeida, sems, pide, ultimaPagina,
                     abortoPorFaltaDeMemoria>>
  BY <1>1, LiberaListaHace, OciosoTipo
<1>3. ~Marcando(Contenido, libera) /\ n \in PaginasHeap
  BY <1>1, <1>2 DEF BloquesDe, LiberaBien, PasoLibera, PideTieneLista
<1>4. ~Marcando(Contenido, libera')
  BY <1>2 DEF Marcando
<1>5. Marcas(Contenido, libera') = Marcas(Contenido, libera)
  BY <1>3, <1>4 DEF Marcas
<1>6. EnLiberacion(colaLiberaHeap', Contenido, libera') = EnLiberacion(colaLiberaHeap, Contenido, libera)
  BY <1>2, <1>3, <1>4 DEF EnLiberacion
<1>7. DOMAIN listaAdmHeap' = DOMAIN listaAdmHeap
  BY <1>2 DEF Ajusta
<1>8. \A j \in DOMAIN listaAdmHeap : /\ PaginaDe(listaAdmHeap'[j]) = PaginaDe(listaAdmHeap[j])
        /\ listaAdmHeap'[j].pid = listaAdmHeap[j].pid /\ listaAdmHeap'[j].pagina = listaAdmHeap[j].pagina
  BY <1>2 DEF Ajusta, PaginaDe
<1>9. MismasEntradas
  BY <1>7, <1>8 DEF MismasEntradas
<1>10. Contenido' = Contenido /\ PaginasHeap' = PaginasHeap
  <2>1. Contenido' = Contenido /\ Cargados' = Cargados
    BY HilosDejan DEF LiberarHeap
  <2> QED BY <1>9, <2>1, PaginasQuedan
<1>11. Teselado(t)' /\ EnUsoBien(t)'
  BY <1>1, <1>2, <1>6, <1>10 DEF BloquesDe, Teselado, EnUsoBien
<1>12. Distintas'
  BY <1>1, <1>2, <1>7, <1>8 DEF BloquesDe, Distintas, PaginasDistintas
<1>13. Escribiendo(t)'
  BY <1>1, <1>2, <1>5, <1>10 DEF BloquesDe, Escribiendo
<1>14. Leyendo(t)'
  <2>1. EnviaAparte(t)
    BY <1>2 DEF EnviaAparte
  <2>2. ~LeyendoMetadata(libera) /\ ~LeyendoMetadata(libera)'
    BY <1>2 DEF LeyendoMetadata
  <2> QED BY <1>1, <1>2, <1>10, <2>1, <2>2, LeyendoQueda DEF BloquesDe
<1>15. PideBien(t)'
  <2>1. PasoPide(t, Contenido, pide, PaginasHeap, listaAdmHeap, sems.pagina, abortoPorFaltaDeMemoria)
    BY <1>1 DEF BloquesDe, PideBien
  <2>2. EntradasMenores(listaAdmHeap, pide) => EntradasMenores(listaAdmHeap', pide)
    BY <1>7, <1>8 DEF EntradasMenores
  <2>3. PasoPide(t, Contenido, pide, PaginasHeap, listaAdmHeap', sems.pagina, abortoPorFaltaDeMemoria)
    BY <2>1, <2>2 DEF PasoPide
  <2> QED BY <1>2, <1>10, <2>3 DEF PideBien
<1>16. LiberaBien'
  BY <1>2, <1>4 DEF LiberaBien, PasoLibera
<1>17. PorSumar(Contenido, libera).nodo = n /\ PorSumar(Contenido, libera).cuanto = libera.size
  BY <1>2, <1>3 DEF PorSumar
<1>18. PorSumar(Contenido, libera') = SinCuenta
  BY <1>2 DEF PorSumar
<1>19. Contado(t)'
  <2>1. ASSUME NEW j \in DOMAIN listaAdmHeap, NEW x, x = PaginaDe(listaAdmHeap[j]), x \in PaginasHeap
        PROVE  listaAdmHeap'[j].disponible + Cuanto(Reservado(pide), x) + Cuanto(SinCuenta, x)
                 <= EspacioLibre(t[x], Vista(Contenido, Corte(pide), x))
    <3>1. listaAdmHeap[j].disponible + Cuanto(Reservado(pide), x) + Cuanto(PorSumar(Contenido, libera), x)
            <= EspacioLibre(t[x], Vista(Contenido, Corte(pide), x))
      BY <1>1, <2>1 DEF BloquesDe, Contado, Espacio
    <3>2. listaAdmHeap[j].disponible \in Int /\ Cuanto(SinCuenta, x) = 0
      BY <1>1, <2>1, ContadoTipo
    <3>3. Cuanto(Reservado(pide), x) \in Int /\ libera.size \in Int
      <4>1. libera.size \in Int
        BY <1>2 DEF Liberador
      <4>2. pide.pc # "espera" => Ocupa(pide.cantidad) \in Int
        BY <1>1, HiloTipo, BuscandoTipo DEF TiposHeap, Ocupa
      <4>3. Reservado(pide) = SinCuenta \/ Reservado(pide).cuanto \in Int
        BY <4>2 DEF Reservado
      <4>4. Cuanto(Reservado(pide), x) \in Int
        BY <3>2, <4>3 DEF Cuanto
      <4> QED BY <4>1, <4>4
    <3>4. CASE x = n
      <4>1. EntradaDe(n) = j
        BY <1>1, <2>1, <3>4, EntradaEs DEF BloquesDe
      <4>2. listaAdmHeap'[j].disponible = listaAdmHeap[j].disponible + libera.size
        BY <1>2, <4>1 DEF Ajusta
      <4>3. Cuanto(PorSumar(Contenido, libera), x) = libera.size
        BY <1>17, <3>4 DEF Cuanto
      <4>4. listaAdmHeap[j].disponible + Cuanto(Reservado(pide), x) + libera.size
              <= EspacioLibre(t[x], Vista(Contenido, Corte(pide), x))
        BY <3>1, <4>3
      <4>5. listaAdmHeap[j].disponible + libera.size + Cuanto(Reservado(pide), x) + 0
              = listaAdmHeap[j].disponible + Cuanto(Reservado(pide), x) + libera.size
        BY <3>2, <3>3
      <4> QED BY <3>2, <4>2, <4>4, <4>5
    <3>5. CASE x # n
      <4>1. EntradaDe(n) # j
        <5>1. ASSUME EntradaDe(n) = j PROVE FALSE
          <6>1. PICK i \in DOMAIN listaAdmHeap : n = PaginaDe(listaAdmHeap[i])
            BY <1>3 DEF PaginasHeap
          <6>2. EntradaDe(n) = i
            BY <1>1, <6>1, EntradaEs DEF BloquesDe
          <6> QED BY <2>1, <3>5, <5>1, <6>1, <6>2
        <5> QED BY <5>1
      <4>2. listaAdmHeap'[j].disponible = listaAdmHeap[j].disponible
        BY <1>2, <4>1 DEF Ajusta
      <4>3. Cuanto(PorSumar(Contenido, libera), x) = 0
        BY <1>17, <3>5 DEF Cuanto
      <4> QED BY <3>1, <3>2, <4>2, <4>3
    <3> QED BY <3>4, <3>5
  <2> QED BY <1>2, <1>7, <1>8, <1>10, <1>18, <2>1 DEF Contado, Espacio
<1> QED BY <1>11, <1>12, <1>13, <1>14, <1>15, <1>16, <1>19 DEF BloquesDe

\* A step of liberarHeap.
LEMMA BloquesLibera ==
  ASSUME NEW t, Antes(t), Despues, LiberarHeap
  PROVE  BloquesDe(t)'
BY BloquesLiberaToma, BloquesLiberaLee, BloquesLiberaEscribe, BloquesLiberaEscrito, BloquesLiberaLista
   DEF LiberarHeap

-----------------------------------------------------------------------------
(* The blocks, when the programs go on.                                     *)

LEMMA ProgramasDejan ==
  ASSUME TiposHeap, Programas
  PROVE  /\ UNCHANGED <<contenido, metaDataLeida, sems, pide, libera, listaAdmHeap, ultimaPagina,
                        abortoPorFaltaDeMemoria>>
         /\ Cargados' \subseteq Cargados /\ \A q \in Pids : estado[q] = "espera" => estado'[q] = "espera"
<1>1. UNCHANGED <<contenido, metaDataLeida, sems, pide, libera, listaAdmHeap, ultimaPagina, abortoPorFaltaDeMemoria>>
  BY DEF Programas, Llega, Reserva, Libera, Termina, memoria, respuestas, admin
<1>2. ASSUME NEW p \in Pids, NEW e \in {"carga", "espera", "fin"}, estado' = [estado EXCEPT ![p] = e],
             \/ estado[p] = "nuevo" /\ e = "carga"
             \/ estado[p] = "corre" /\ e = "espera"
             \/ estado[p] \in {"corre", "aborta"} /\ e = "fin"
      PROVE  Cargados' \subseteq Cargados /\ \A q \in Pids : estado[q] = "espera" => estado'[q] = "espera"
  <2>1. e \in Estados
    BY DEF Estados
  <2>2. estado'[p] = e /\ \A q \in Pids \ {p} : estado'[q] = estado[q]
    BY <1>2, <2>1, EstadoCambia DEF TiposHeap
  <2> QED BY <1>2, <2>2 DEF Cargados
<1>3. ASSUME NEW p \in Pids, Llega(p)
      PROVE  Cargados' \subseteq Cargados /\ \A q \in Pids : estado[q] = "espera" => estado'[q] = "espera"
  BY <1>2, <1>3 DEF Llega
<1>4. ASSUME NEW p \in Pids, NEW n, Reserva(p, n)
      PROVE  Cargados' \subseteq Cargados /\ \A q \in Pids : estado[q] = "espera" => estado'[q] = "espera"
  BY <1>2, <1>4 DEF Reserva
<1>5. ASSUME NEW p \in Pids, Termina(p)
      PROVE  Cargados' \subseteq Cargados /\ \A q \in Pids : estado[q] = "espera" => estado'[q] = "espera"
  BY <1>2, <1>5 DEF Termina
<1>6. ASSUME NEW b \in bloques, Libera(b)
      PROVE  Cargados' \subseteq Cargados /\ \A q \in Pids : estado[q] = "espera" => estado'[q] = "espera"
  <2>1. b.pid \in Pids
    BY BloqueTipo DEF TiposHeap
  <2> QED BY <1>2, <1>6, <2>1 DEF Libera
<1> QED BY <1>1, <1>3, <1>4, <1>5, <1>6 DEF Programas

\* The pages of the heap of the programs that are still loaded.
LEMMA PaginasMenos ==
  ASSUME TiposHeap, UNCHANGED listaAdmHeap, Cargados' \subseteq Cargados
  PROVE  /\ PaginasHeap' \subseteq PaginasHeap
         /\ \A x \in PaginasHeap : x.pid \in Cargados' => x \in PaginasHeap'
<1>1. PaginasHeap' \subseteq PaginasHeap
  BY DEF PaginasHeap
<1>2. ASSUME NEW x \in PaginasHeap, x.pid \in Cargados' PROVE x \in PaginasHeap'
  <2>1. PICK j \in DOMAIN listaAdmHeap : x = PaginaDe(listaAdmHeap[j])
    BY <1>2 DEF PaginasHeap
  <2>2. x.pid = listaAdmHeap[j].pid
    BY <2>1 DEF PaginaDe, Pagina
  <2> QED BY <1>2, <2>1, <2>2 DEF PaginasHeap
<1> QED BY <1>1, <1>2

\* A program whose block is being freed waits.
LEMMA LiberandoEspera ==
  ASSUME TiposHeap, Lugares, NEW b \in EnLiberacion(colaLiberaHeap, Contenido, libera)
  PROVE  b \in Bloques /\ estado[b.pid] = "espera"
<1>1. CASE b \in ToSet(colaLiberaHeap)
  <2>1. b \in Bloques /\ \E i \in DOMAIN colaLiberaHeap : colaLiberaHeap[i] = b
    BY <1>1, EnLista DEF TiposHeap
  <2>2. b.pid \in EnCola(colaLiberaHeap)
    BY <2>1 DEF EnCola
  <2> QED BY <2>1, <2>2 DEF Lugares
<1>2. CASE b \notin ToSet(colaLiberaHeap)
  <2>1. b = libera.b /\ libera.pc # "espera"
    BY <1>2 DEF EnLiberacion, Marcando
  <2>2. libera.b \in Bloques
    BY <2>1, LiberaTipo DEF TiposHeap
  <2>3. b.pid \in Liberando
    BY <2>1 DEF Liberando
  <2> QED BY <2>1, <2>2, <2>3 DEF Lugares
<1> QED BY <1>1, <1>2

\* What the programs hold is of fewer pages, or is being freed.
LEMMA ProgramasBien ==
  ASSUME NEW t, Antes(t), Despues, Programas, NEW B, B = bloques', NEW E,
         E = EnLiberacion(colaLiberaHeap', Contenido, libera),
         B \subseteq bloques, B \cap E = {},
         E \subseteq bloques \cup EnLiberacion(colaLiberaHeap, Contenido, libera),
         \A b \in B \cup E : b.pid \in Cargados'
  PROVE  BloquesDe(t)'
<1>1. TiposHeap /\ BloquesDe(t)
  BY DEF Antes
<1>2. /\ UNCHANGED <<contenido, metaDataLeida, sems, pide, libera, listaAdmHeap, ultimaPagina, abortoPorFaltaDeMemoria>>
      /\ Cargados' \subseteq Cargados /\ \A q \in Pids : estado[q] = "espera" => estado'[q] = "espera"
  BY <1>1, ProgramasDejan
<1>3. Contenido' = Contenido
  BY <1>2, ContenidoQueda
<1>4. PaginasHeap' \subseteq PaginasHeap /\ \A x \in PaginasHeap : x.pid \in Cargados' => x \in PaginasHeap'
  BY <1>1, <1>2, PaginasMenos
<1>5. Teselado(t)'
  BY <1>1, <1>2, <1>3, <1>4 DEF BloquesDe, Teselado, Teselas
<1>6. Contado(t)'
  BY <1>1, <1>2, <1>3, <1>4 DEF BloquesDe, Contado, Espacio
<1>7. Distintas'
  BY <1>1, <1>2 DEF BloquesDe, Distintas
<1>8. UNCHANGED aMemoria \/ \E m \in Mensajes : m.op \in {"inicia", "libera"} /\ aMemoria' = Append(aMemoria, m)
  BY <1>1, ProgramasEnvian
<1>9. aMemoria' = aMemoria \/ \E m : Crecio(aMemoria, m, aMemoria') /\ m.op # "escribe"
  BY <1>1, <1>8, EnviaTipo DEF TiposHeap
<1>10. Escribiendo(t)'
  <2>1. Escrituras(aMemoria, EscriturasPide(t, Contenido, pide), Marcas(Contenido, libera))
    BY <1>1 DEF BloquesDe, Escribiendo
  <2>2. Escrituras(aMemoria', EscriturasPide(t, Contenido, pide), Marcas(Contenido, libera))
    BY <1>9, <2>1, EscriturasMas
  <2> QED BY <1>2, <1>3, <2>2 DEF Escribiendo
<1>11. Leyendo(t)'
  <2>1. EnviaAparte(t)
    BY <1>8 DEF EnviaAparte
  <2> QED BY <1>1, <1>2, <1>3, <2>1, LeyendoQueda DEF BloquesDe
<1>12. ASSUME NEW q \in Pids, estado[q] = "espera" PROVE q \in Cargados'
  BY <1>2, <1>12 DEF Cargados
<1>13. PideBien(t)'
  <2>1. PasoPide(t, Contenido, pide, PaginasHeap, listaAdmHeap, sems.pagina, abortoPorFaltaDeMemoria)
    BY <1>1 DEF BloquesDe, PideBien
  <2>2. pide.pc # "espera" /\ Nodo(pide) \in PaginasHeap => Nodo(pide) \in PaginasHeap'
    <3>1. SUFFICES ASSUME pide.pc # "espera", Nodo(pide) \in PaginasHeap PROVE Nodo(pide) \in PaginasHeap'
      OBVIOUS
    <3>2. pide.pid \in Pids /\ estado[pide.pid] = "espera"
      BY <1>1, <3>1, PideEspera DEF Antes, Hilos
    <3>3. Nodo(pide).pid \in Cargados'
      BY <1>12, <3>2 DEF Nodo, Pagina
    <3> QED BY <1>4, <3>1, <3>3
  <2>3. PasoPide(t, Contenido, pide, PaginasHeap', listaAdmHeap, sems.pagina, abortoPorFaltaDeMemoria)
    BY <2>1, <2>2 DEF PasoPide, EnBloque, BloqueBueno
  <2> QED BY <1>2, <1>3, <2>3 DEF PideBien
<1>14. LiberaBien'
  <2>1. PasoLibera(Contenido, pide, libera, PaginasHeap)
    BY <1>1 DEF BloquesDe, LiberaBien
  <2>2. libera.pc # "espera" => PaginaDe(libera.b) \in PaginasHeap'
    <3>1. SUFFICES ASSUME libera.pc # "espera" PROVE PaginaDe(libera.b) \in PaginasHeap'
      OBVIOUS
    <3>2. libera.b \in Bloques /\ libera.b.pid \in Liberando
      BY <1>1, <3>1, LiberaTipo DEF TiposHeap, Liberando
    <3>3. estado[libera.b.pid] = "espera" /\ libera.b.pid \in Pids
      BY <3>2, BloqueTipo DEF Antes, Hilos, Lugares
    <3>4. PaginaDe(libera.b).pid \in Cargados'
      BY <1>12, <3>3 DEF PaginaDe, Pagina
    <3> QED BY <1>4, <2>1, <3>1, <3>4 DEF PasoLibera
  <2>3. PasoLibera(Contenido, pide, libera, PaginasHeap')
    BY <2>1, <2>2 DEF PasoLibera
  <2> QED BY <1>2, <1>3, <2>3 DEF LiberaBien
<1>15. EnUsoBien(t)'
  <2>1. BloquesEnUso(t, Contenido, Corte(pide), PaginasHeap, bloques,
                     EnLiberacion(colaLiberaHeap, Contenido, libera))
    BY <1>1 DEF BloquesDe, EnUsoBien
  <2>2. ASSUME NEW b \in B \cup E PROVE EnUso(t, Contenido, Corte(pide), PaginasHeap', b)
    <3>1. EnUso(t, Contenido, Corte(pide), PaginasHeap, b)
      BY <2>1 DEF BloquesEnUso
    <3>2. PaginaDe(b) \in PaginasHeap'
      <4>1. PaginaDe(b).pid \in Cargados'
        BY DEF PaginaDe, Pagina
      <4> QED BY <1>4, <3>1, <4>1 DEF EnUso
    <3> QED BY <3>1, <3>2 DEF EnUso
  <2>3. \A b \in B : \A d \in (B \cup E) \ {b} : ~MismoLugar(b, d)
    BY <2>1 DEF BloquesEnUso
  <2>4. BloquesEnUso(t, Contenido, Corte(pide), PaginasHeap', B, E)
    BY <2>2, <2>3 DEF BloquesEnUso
  <2> QED BY <1>2, <1>3, <2>4 DEF EnUsoBien
<1> QED BY <1>5, <1>6, <1>7, <1>10, <1>11, <1>13, <1>14, <1>15 DEF BloquesDe

\* A step of the programs.
LEMMA BloquesProgramas ==
  ASSUME NEW t, Antes(t), Despues, Programas
  PROVE  BloquesDe(t)'
<1> DEFINE L == EnLiberacion(colaLiberaHeap, Contenido, libera)
<1>1. TiposHeap /\ BloquesDe(t)
  BY DEF Antes
<1>2. BloquesEnUso(t, Contenido, Corte(pide), PaginasHeap, bloques, L)
  BY <1>1 DEF BloquesDe, EnUsoBien
<1>3. \A b \in bloques : b \in Bloques /\ b.pid \in Pids /\ b.pid \in Cargados
  <2>1. ASSUME NEW b \in bloques PROVE b \in Bloques /\ b.pid \in Pids /\ b.pid \in Cargados
    <3>1. b \in Bloques /\ b.pid \in Pids
      BY <1>1, BloqueTipo DEF TiposHeap
    <3>2. PaginaDe(b) \in PaginasHeap
      BY <1>2 DEF BloquesEnUso, EnUso
    <3>3. PaginaDe(b).pid \in Cargados
      BY <1>1, <3>2, PaginasHeapSon DEF Antes
    <3> QED BY <3>1, <3>3 DEF PaginaDe, Pagina
  <2> QED BY <2>1
<1>4. \A b \in L : b.pid \in Pids /\ estado[b.pid] = "espera"
  BY <1>1, LiberandoEspera, BloqueTipo DEF Antes, Hilos
<1>5. \A q \in Pids : estado[q] = "espera" => estado'[q] = "espera"
  BY <1>1, ProgramasDejan
<1>6. \A b \in L : b.pid \in Cargados'
  BY <1>4, <1>5 DEF Cargados
<1>7. ASSUME UNCHANGED <<bloques, colaLiberaHeap>>, \A q \in Cargados : q \in Cargados' PROVE BloquesDe(t)'
  <2>1. bloques \cap L = {}
    BY <1>2 DEF BloquesEnUso
  <2> QED BY <1>3, <1>6, <1>7, <2>1, ProgramasBien
<1>8. ASSUME NEW p \in Pids, Llega(p) PROVE BloquesDe(t)'
  <2>1. estado[p] = "nuevo" /\ estado' = [estado EXCEPT ![p] = "carga"] /\ UNCHANGED <<bloques, colaLiberaHeap>>
    BY <1>8 DEF Llega
  <2>2. \A q \in Pids \ {p} : estado'[q] = estado[q]
    BY <1>1, <2>1 DEF TiposHeap
  <2> QED BY <1>7, <2>1, <2>2 DEF Cargados
<1>9. ASSUME NEW p \in Pids, NEW n, Reserva(p, n) PROVE BloquesDe(t)'
  <2>1. estado[p] = "corre" /\ estado' = [estado EXCEPT ![p] = "espera"] /\ UNCHANGED <<bloques, colaLiberaHeap>>
    BY <1>9 DEF Reserva
  <2>2. estado'[p] = "espera" /\ \A q \in Pids \ {p} : estado'[q] = estado[q]
    BY <1>1, <2>1 DEF TiposHeap
  <2> QED BY <1>7, <2>1, <2>2 DEF Cargados
<1>10. ASSUME NEW p \in Pids, Termina(p) PROVE BloquesDe(t)'
  <2>1. /\ estado' = [estado EXCEPT ![p] = "fin"] /\ UNCHANGED colaLiberaHeap
        /\ bloques' = {b \in bloques : b.pid # p}
    BY <1>10 DEF Termina
  <2>2. \A q \in Pids \ {p} : estado'[q] = estado[q]
    BY <1>1, <2>1 DEF TiposHeap
  <2>3. \A b \in bloques' : b.pid \in Cargados'
    BY <1>3, <2>1, <2>2 DEF Cargados
  <2>4. bloques' \subseteq bloques /\ bloques' \cap L = {}
    BY <1>2, <2>1 DEF BloquesEnUso
  <2> QED BY <1>6, <2>1, <2>3, <2>4, ProgramasBien
<1>11. ASSUME NEW b \in bloques, Libera(b) PROVE BloquesDe(t)'
  <2>1. /\ estado' = [estado EXCEPT ![b.pid] = "espera"]
        /\ bloques' = bloques \ {b} /\ colaLiberaHeap' = Append(colaLiberaHeap, b)
    BY <1>11 DEF Libera
  <2>2. b \in Bloques /\ b.pid \in Pids /\ colaLiberaHeap \in Seq(Bloques)
    BY <1>1, <1>3 DEF TiposHeap
  <2>3. estado'[b.pid] = "espera" /\ \A q \in Pids \ {b.pid} : estado'[q] = estado[q]
    BY <1>1, <2>1, <2>2 DEF TiposHeap
  <2>4. ToSet(colaLiberaHeap') = ToSet(colaLiberaHeap) \cup {b}
    BY <2>1, <2>2, ListaAgrega
  <2>5. PICK F : F = EnLiberacion(colaLiberaHeap', Contenido, libera)
    OBVIOUS
  <2>6. F = L \cup {b}
    BY <2>4, <2>5 DEF EnLiberacion
  <2>7. \A c \in bloques' \cup F : c.pid \in Cargados'
    BY <1>3, <1>6, <2>1, <2>2, <2>3, <2>6 DEF Cargados
  <2>8. bloques' \subseteq bloques /\ bloques' \cap F = {} /\ F \subseteq bloques \cup L
    BY <1>2, <2>1, <2>6 DEF BloquesEnUso
  <2> QED BY <2>5, <2>7, <2>8, ProgramasBien
<1> QED BY <1>8, <1>9, <1>10, <1>11 DEF Programas

-----------------------------------------------------------------------------
(* What Memoria reads and writes.                                           *)

\* A page that is in its frame is found there.
LEMMA FrameDeEs ==
  ASSUME NEW n \in Paginas, EnSuMarco(n)
  PROVE  /\ Leible(n) /\ Marco(n) \in Nat
         /\ \A o : Direccion(n, o) = Marco(n) * MARCOS_SIZE + o
<1>1. FrameDe(n) = {Marco(n)}
  BY DEF FrameDe, EsPaginaCorrecta, EnSuMarco, Marco
<1>2. Marco(n) \in Nat
  BY MarcoEs, MarcosAssumption DEF Frames
<1>3. (CHOOSE f \in FrameDe(n) : TRUE) = Marco(n)
  BY <1>1
<1> QED BY <1>1, <1>2, <1>3 DEF Leible, Direccion

\* The addresses of the frames are different.
LEMMA DireccionesAparte ==
  ASSUME NEW f \in Frames, NEW g \in Frames, NEW o \in 0 .. MARCOS_SIZE - 1, NEW p \in 0 .. MARCOS_SIZE - 1
  PROVE  /\ f * MARCOS_SIZE + o \in Direcciones
         /\ f * MARCOS_SIZE + o = g * MARCOS_SIZE + p => f = g /\ o = p
<1>1. f \in Nat /\ g \in Nat /\ f < MARCOS /\ g < MARCOS /\ MARCOS \in Nat /\ MARCOS_SIZE \in Nat \ {0}
  BY MarcosAssumption DEF Frames
<1>2. o \in Nat /\ p \in Nat /\ o < MARCOS_SIZE /\ p < MARCOS_SIZE
  BY DimensionTipo
<1>3. PICK a, b, d : a = f * MARCOS_SIZE /\ b = g * MARCOS_SIZE /\ d = MARCOS * MARCOS_SIZE
  OBVIOUS
<1>4. a \in Nat /\ b \in Nat /\ d \in Nat /\ a + MARCOS_SIZE <= d
  BY <1>1, <1>3, Productos
<1>5. f < g => a + MARCOS_SIZE <= b
  BY <1>1, <1>3, Productos
<1>6. g < f => b + MARCOS_SIZE <= a
  BY <1>1, <1>3, Productos
<1>7. a + o \in 0 .. d - 1
  BY <1>1, <1>2, <1>4
<1>8. ASSUME a + o = b + p PROVE f = g /\ o = p
  <2>1. ~(f < g)
    <3>1. f < g => b + p < b
      BY <1>1, <1>2, <1>4, <1>5, <1>8
    <3> QED BY <1>2, <1>4, <3>1
  <2>2. ~(g < f)
    <3>1. g < f => a + o < a
      BY <1>1, <1>2, <1>4, <1>6, <1>8
    <3> QED BY <1>2, <1>4, <3>1
  <2>3. f = g
    BY <1>1, <2>1, <2>2
  <2>4. a = b
    BY <1>3, <2>3
  <2> QED BY <1>2, <1>4, <1>8, <2>3, <2>4
<1> QED BY <1>3, <1>7, <1>8 DEF Direcciones

\* The content of a page changes at an offset, and the others do not.
Cambia(n, o, c) ==
  /\ Contenido'[n][o] = c
  /\ \A x \in 0 .. MARCOS_SIZE - 1 : x # o => Contenido'[n][x] = Contenido[n][x]
  /\ \A y \in PaginasHeap : y # n => Contenido'[y] = Contenido[y]

LEMMA EscribeContenido ==
  ASSUME TiposHeap, Marcos, NEW n \in Paginas, EnSuMarco(n), NEW o \in 0 .. MARCOS_SIZE - 1, NEW c,
         EscribirEnPagina(n, o, <<c>>), Escribible(n, o)
  PROVE  Cambia(n, o, c)
<1>1. Direccion(n, o) = Marco(n) * MARCOS_SIZE + o
  BY FrameDeEs
<1>2. PICK a : a = Direccion(n, o)
  OBVIOUS
<1>3. Escrito(a, c)
  BY <1>2, EscribeUna
<1>4. Contenido'[n][o] = c
  <2>1. a \in DOMAIN contenido' /\ contenido'[a] = c /\ a = Marco(n) * MARCOS_SIZE + o
    BY <1>1, <1>2, <1>3 DEF Escrito
  <2> QED BY <2>1 DEF Contenido
<1>5. ASSUME NEW y \in Paginas, NEW x \in 0 .. MARCOS_SIZE - 1, Marco(y) * MARCOS_SIZE + x # a
      PROVE  Contenido'[y][x] = Contenido[y][x]
  <2>1. PICK d : d = Marco(y) * MARCOS_SIZE + x
    OBVIOUS
  <2>2. /\ d \in DOMAIN contenido' <=> d \in DOMAIN contenido
        /\ d \in DOMAIN contenido => contenido'[d] = contenido[d]
    BY <1>3, <1>5, <2>1 DEF Escrito
  <2>3. Contenido'[y][x] = IF d \in DOMAIN contenido' THEN contenido'[d] ELSE Otro
    BY <2>1 DEF Contenido
  <2>4. Contenido[y][x] = IF d \in DOMAIN contenido THEN contenido[d] ELSE Otro
    BY <2>1 DEF Contenido
  <2> QED BY <2>2, <2>3, <2>4
<1>6. \A y \in Paginas : Marco(y) \in Frames
  BY MarcoEs
<1>7. \A x \in 0 .. MARCOS_SIZE - 1 : x # o => Contenido'[n][x] = Contenido[n][x]
  BY <1>1, <1>2, <1>5, <1>6, DireccionesAparte
<1>8. ASSUME NEW y \in PaginasHeap, y # n PROVE Contenido'[y] = Contenido[y]
  <2>1. y \in Paginas /\ EnSuMarco(y)
    BY PaginasHeapSon
  <2>2. Marco(y) # Marco(n)
    BY <1>8, <2>1 DEF EnSuMarco
  <2>3. \A x \in 0 .. MARCOS_SIZE - 1 : Contenido'[y][x] = Contenido[y][x]
    BY <1>1, <1>2, <1>5, <1>6, <2>1, <2>2, DireccionesAparte
  <2>4. /\ Contenido[y] = [x \in 0 .. MARCOS_SIZE - 1 |-> Contenido[y][x]]
        /\ Contenido'[y] = [x \in 0 .. MARCOS_SIZE - 1 |-> Contenido'[y][x]]
    BY <2>1 DEF Contenido
  <2> QED BY <2>3, <2>4
<1> QED BY <1>4, <1>7, <1>8 DEF Cambia

\* What is to be read is of a page of the heap.
LEMMA LecturaEs ==
  ASSUME NEW t, Antes(t), NEW m \in LecturasDe(pide, libera)
  PROVE  /\ m.nodo \in PaginasHeap /\ m.op = "lee"
         /\ LeyendoMetadata(pide) => m.nodo = Nodo(pide) /\ m.offset = LeeEn(pide)
         /\ LeyendoMetadata(libera) => m.nodo = PaginaDe(libera.b) /\ m.offset = libera.b.offset
<1>1. BloquesDe(t)
  BY DEF Antes
<1>2. ~(LeyendoMetadata(pide) /\ LeyendoMetadata(libera))
  BY <1>1 DEF BloquesDe, Leyendo, UnoLee
<1>3. CASE LeyendoMetadata(pide)
  <2>1. m = Lectura(Nodo(pide), LeeEn(pide))
    BY <1>3 DEF LecturasDe
  <2>2. pide.pc \in {"leeActual", "leeSiguiente", "leeBloque", "leeViejo"}
    <3>1. pide \in HilosPide
      BY DEF Antes, TiposHeap
    <3>2. pide.pc # "lee"
      BY <3>1, OciosoTipo DEF HilosPide, PasosPide, EsperaEscritura
    <3> QED BY <1>3, <3>2 DEF LeyendoMetadata
  <2>3. Nodo(pide) \in PaginasHeap
    BY <1>1, <2>2 DEF BloquesDe, PideBien, PasoPide, EnBloque, BloqueBueno
  <2> QED BY <1>2, <1>3, <2>1, <2>3 DEF Lectura, Mensaje
<1>4. CASE ~LeyendoMetadata(pide) /\ LeyendoMetadata(libera)
  <2>1. m = Lectura(PaginaDe(libera.b), libera.b.offset)
    BY <1>4 DEF LecturasDe
  <2>2. libera.pc # "espera"
    BY <1>4 DEF LeyendoMetadata
  <2>3. PaginaDe(libera.b) \in PaginasHeap
    BY <1>1, <2>2 DEF BloquesDe, LiberaBien, PasoLibera
  <2> QED BY <1>4, <2>1, <2>3 DEF Lectura, Mensaje
<1> QED BY <1>3, <1>4 DEF LecturasDe

\* Where procesarHeap is while it cuts a block.
LEMMA CorteEs ==
  ASSUME NEW t, Antes(t), pide.pc \in {"escribeBloque", "escribeResto"}, NEW n, n = Nodo(pide),
         NEW z, z = OffsetResto(pide), NEW v, v = Vista(Contenido, Corte(pide), n)
  PROVE  /\ pide \in Buscando /\ n \in Paginas /\ n \in PaginasHeap /\ EsInicio(t[n], pide.off)
         /\ Teselada(t[n], v) /\ v[pide.off].size = pide.size /\ pide.off \in 0 .. MARCOS_SIZE - 1
         /\ z \in 0 .. MARCOS_SIZE - 1 /\ z \notin t[n] /\ z # pide.off
         /\ Corte(pide).nodo = n /\ Corte(pide).off = pide.off
         /\ \A x \in 0 .. MARCOS_SIZE - 1 : x # pide.off => v[x] = Contenido[n][x]
<1>1. TiposHeap /\ Lugares /\ BloquesDe(t) /\ pide.pc # "espera"
  BY DEF Antes, Hilos
<1>2. pide \in Buscando
  BY <1>1, PideEspera
<1>3. /\ pide.cantidad \in Nat /\ pide.off \in Int /\ pide.size \in Int /\ n \in Paginas
      /\ z = pide.off + 1 + pide.cantidad
  BY <1>2, BuscandoTipo DEF OffsetResto
<1>4. n \in PaginasHeap /\ EsInicio(t[n], pide.off) /\ pide.size >= pide.cantidad + 1
  BY <1>1 DEF BloquesDe, PideBien, PasoPide, EnBloque
<1>5. Corte(pide).nodo = n /\ Corte(pide).off = pide.off /\ Corte(pide).size = pide.size
  BY DEF Corte
<1>6. Teselada(t[n], v)
  BY <1>1, <1>4 DEF BloquesDe, Teselado, Teselas
<1>7. pide.off \in Nat /\ pide.off < MARCOS_SIZE
  BY <1>4, <1>6, TeselaEs
<1>8. pide.off \in 0 .. MARCOS_SIZE - 1
  BY <1>7, DimensionTipo
<1>9. v[pide.off].size = pide.size /\ \A x \in 0 .. MARCOS_SIZE - 1 : x # pide.off => v[x] = Contenido[n][x]
  BY <1>3, <1>5, <1>8 DEF Vista, Contenido
<1>10. PICK y : y = Tras(v, pide.off)
  OBVIOUS
<1>11. y = pide.off + 1 + pide.size /\ y <= MARCOS_SIZE /\ \A x \in t[n] : x \in Nat /\ (x <= pide.off \/ x >= y)
  BY <1>4, <1>6, <1>9, <1>10, TeselaEs
<1>12. MARCOS_SIZE \in Nat
  BY DimensionTipo
<1>13. z \in Nat /\ z < MARCOS_SIZE /\ pide.off < z /\ z < y
  BY <1>3, <1>4, <1>7, <1>11, <1>12
<1>14. z \in 0 .. MARCOS_SIZE - 1
  BY <1>13, DimensionTipo
<1>15. z # pide.off
  BY <1>7, <1>13
<1>16. y \in Int
  BY <1>3, <1>7, <1>11
<1>17. z \notin t[n]
  BY <1>7, <1>11, <1>13, <1>16
<1> QED BY <1>2, <1>3, <1>4, <1>5, <1>6, <1>8, <1>9, <1>14, <1>15, <1>17

\* What is to be written is of a page that is in its frame.
LEMMA EscrituraEs ==
  ASSUME NEW t, Antes(t), NEW m \in EscriturasPide(t, Contenido, pide) \cup Marcas(Contenido, libera)
  PROVE  /\ m.op = "escribe" /\ m.nodo \in Paginas /\ EnSuMarco(m.nodo) /\ m.offset \in 0 .. MARCOS_SIZE - 1
         /\ pide.pc # "paginaNueva" \/ m \in Marcas(Contenido, libera) => m.nodo \in PaginasHeap
<1>1. TiposHeap /\ Lugares /\ Marcos /\ BloquesDe(t)
  BY DEF Antes, Hilos
<1>2. m.op = "escribe"
  BY EscribeQuien
<1>3. \A n \in PaginasHeap : n \in Paginas /\ EnSuMarco(n)
  BY <1>1, PaginasHeapSon
<1>4. ASSUME NEW n \in PaginasHeap, NEW o, EsInicio(t[n], o) PROVE o \in 0 .. MARCOS_SIZE - 1
  <2>1. Teselada(t[n], Vista(Contenido, Corte(pide), n))
    BY <1>1 DEF BloquesDe, Teselado, Teselas
  <2> QED BY <1>4, <2>1, TeselaEs, DimensionTipo
<1>5. CASE m \in Marcas(Contenido, libera)
  <2>1. m = MarcaDe(libera) /\ Marcando(Contenido, libera)
    BY <1>5 DEF Marcas
  <2>2. m.nodo = PaginaDe(libera.b) /\ m.offset = libera.b.offset
    BY <2>1 DEF MarcaDe, Escritura, Mensaje
  <2>3. libera.b \in EnLiberacion(colaLiberaHeap, Contenido, libera)
    BY <2>1 DEF EnLiberacion
  <2>4. EnUso(t, Contenido, Corte(pide), PaginasHeap, libera.b)
    BY <1>1, <2>3 DEF BloquesDe, EnUsoBien, BloquesEnUso
  <2>5. PaginaDe(libera.b) \in PaginasHeap /\ EsInicio(t[PaginaDe(libera.b)], libera.b.offset)
    BY <2>4 DEF EnUso
  <2> QED BY <1>2, <1>3, <1>4, <2>2, <2>5
<1>6. CASE m \in EscriturasPide(t, Contenido, pide) /\ pide.pc \in {"compactado", "leeActual", "leeBloque"}
  <2>1. PICK o \in Fundidos(t[Nodo(pide)], Contenido[Nodo(pide)], pide) :
          m = Escritura(Nodo(pide), o, Junto(Contenido[Nodo(pide)], o))
    BY <1>6 DEF EscriturasPide
  <2>2. m.nodo = Nodo(pide) /\ m.offset = o
    BY <2>1 DEF Escritura, Mensaje
  <2>3. EsInicio(t[Nodo(pide)], o)
    BY <2>1 DEF Fundidos, Juntos, EsInicio
  <2>4. Nodo(pide) \in PaginasHeap
    BY <1>1, <1>6 DEF BloquesDe, PideBien, PasoPide, EnBloque
  <2> QED BY <1>2, <1>3, <1>4, <2>2, <2>3, <2>4
<1>7. CASE m \in EscriturasPide(t, Contenido, pide) /\ pide.pc = "paginaNueva" /\ m \notin Marcas(Contenido, libera)
  <2>1. m.nodo = Nodo(pide) /\ m.offset = 0
    BY <1>7 DEF EscriturasPide, Escritura, Mensaje
  <2>2. /\ pide.pid \in Pids /\ pide.pagina \in Nat /\ pide.pid \in Cargados
        /\ Nodo(pide) = Pagina(pide.pid, pide.pagina) /\ Nodo(pide) \in Paginas
    BY <1>1, <1>7, PideEspera, PaginaTipo DEF Nodo
  <2>3. pide.pagina + 1 = ultimaPaginaPid[pide.pid]
    BY <1>1, <1>7 DEF Marcos, MismaCuenta, CuentaDePide
  <2>4. ultimaPaginaPid[pide.pid] \in Nat /\ \A i \in Nat : i < ultimaPaginaPid[pide.pid] => EnSuMarco(Pagina(pide.pid, i))
    BY <1>1, <2>2 DEF Marcos, PaginasDadas
  <2>5. EnSuMarco(Nodo(pide))
    BY <2>2, <2>3, <2>4
  <2>6. 0 \in 0 .. MARCOS_SIZE - 1
    BY DimensionTipo
  <2> QED BY <1>2, <1>7, <2>1, <2>2, <2>5, <2>6
<1>8. CASE m \in EscriturasPide(t, Contenido, pide) /\ pide.pc \in {"escribeBloque", "escribeResto"}
  <2>1. m.nodo = Nodo(pide) /\ m.offset \in {pide.off, OffsetResto(pide)}
    BY <1>8 DEF EscriturasPide, Escritura, Mensaje
  <2>2. Nodo(pide) \in PaginasHeap /\ pide.off \in 0 .. MARCOS_SIZE - 1 /\ OffsetResto(pide) \in 0 .. MARCOS_SIZE - 1
    BY <1>8, CorteEs
  <2> QED BY <1>2, <1>3, <2>1, <2>2
<1> QED BY <1>5, <1>6, <1>7, <1>8 DEF EscriturasPide

-----------------------------------------------------------------------------
(* The blocks, when Memoria serves a message.                               *)

\* Another message than a writing.
LEMMA ContestaComun ==
  ASSUME NEW t, Antes(t), aMemoria # <<>>, aMemoria' = Tail(aMemoria), Primero.op # "escribe",
         Contenido' = Contenido, PaginasHeap' = PaginasHeap,
         UNCHANGED <<pide, libera, bloques, colaLiberaHeap, listaAdmHeap, ultimaPagina>>,
         sems'.pagina = sems.pagina, pide.pc = "bloque" => UNCHANGED abortoPorFaltaDeMemoria,
         Primero.op = "lee" \/ sems'.meta = sems.meta,
         Leido(Contenido, pide, libera, sems'.meta, metaDataLeida')
  PROVE  BloquesDe(t)'
<1>1. TiposHeap /\ BloquesDe(t)
  BY DEF Antes
<1>2. Menguo(aMemoria, aMemoria') /\ Head(aMemoria).op # "escribe"
  BY <1>1, PrimeroTipo DEF Primero
<1>3. Teselado(t)' /\ EnUsoBien(t)' /\ Contado(t)' /\ Distintas' /\ LiberaBien'
  BY <1>1, BloquesQuietos, LiberaQuieta
<1>4. Escribiendo(t)'
  <2>1. PICK q, W, M : q = aMemoria /\ W = EscriturasPide(t, Contenido, pide) /\ M = Marcas(Contenido, libera)
    OBVIOUS
  <2>2. Escrituras(q, W, M) /\ \A m \in M : m.op = "escribe"
    BY <1>1, <2>1, EscribeQuien DEF BloquesDe, Escribiendo
  <2>3. Escrituras(aMemoria', W, M)
    BY <1>2, <2>1, <2>2, EscriturasSigue
  <2> QED BY <2>1, <2>3 DEF Escribiendo
<1>5. Leyendo(t)'
  <2>1. PICK q, W, L : q = aMemoria /\ W = EscriturasPide(t, Contenido, pide) /\ L = LecturasDe(pide, libera)
    OBVIOUS
  <2>2. UnoLee(pide, libera) /\ Lecturas(q, L) /\ FusionAntes(q, W, sems.meta, pide)
    BY <1>1, <2>1 DEF BloquesDe, Leyendo
  <2>3. Lecturas(aMemoria', L)
    BY <1>2, <2>1, <2>2, LecturasMenos
  <2>4. FusionAntes(aMemoria', W, sems'.meta, pide)
    <3>1. sems'.meta = sems.meta \/ Head(aMemoria).op = "lee"
      BY DEF Primero
    <3> QED BY <1>2, <2>1, <2>2, <3>1, FusionMenos
  <2> QED BY <2>1, <2>2, <2>3, <2>4 DEF Leyendo
<1>6. PideBien(t)'
  <2>1. PasoPide(t, Contenido, pide, PaginasHeap, listaAdmHeap, sems.pagina, abortoPorFaltaDeMemoria)
    BY <1>1 DEF BloquesDe, PideBien
  <2>2. PasoPide(t, Contenido, pide, PaginasHeap, listaAdmHeap, sems.pagina, abortoPorFaltaDeMemoria')
    BY <2>1 DEF PasoPide
  <2> QED BY <2>2 DEF PideBien
<1> QED BY <1>3, <1>4, <1>5, <1>6 DEF BloquesDe

\* The pages of the heap of the others, when the ones of a program come.
LEMMA BloquesInicia ==
  ASSUME NEW t, Antes(t), aMemoria # <<>>, aMemoria' = Tail(aMemoria), UNCHANGED <<pide, libera>>, CInicia
  PROVE  BloquesDe(t)'
<1>0. PICK p, n : p = Primero.nodo.pid /\ n = Primero.nodo.pagina
  OBVIOUS
<1>1. TiposHeap /\ Hilos /\ Marcos /\ BloquesDe(t)
  BY DEF Antes
<1>2. Primero \in Mensajes /\ 1 \in DOMAIN aMemoria /\ aMemoria[1] = Primero /\ Primero.op = "inicia"
  BY <1>1, PrimeroTipo DEF CInicia
<1>3. p \in Pids
  BY <1>0, <1>2, MensajeEs DEF Paginas
<1>4. estado[p] = "carga"
  BY <1>0, <1>1, <1>2 DEF Hilos, Cargas
<1>5. /\ InicializarPrograma(p, n) /\ estado' = [estado EXCEPT ![p] = "corre"]
      /\ UNCHANGED <<bloques, colaLiberaHeap, metaDataLeida, sems, listaAdmHeap, ultimaPagina, abortoPorFaltaDeMemoria>>
  BY <1>0 DEF CInicia, Inicia, respuestas, admin
<1>6. Contenido' = Contenido
  BY <1>5, ContenidoQueda DEF InicializarPrograma
<1>7. Cargados' = Cargados \cup {p}
  <2>1. estado'[p] = "corre" /\ \A q \in Pids \ {p} : estado'[q] = estado[q]
    BY <1>1, <1>3, <1>5 DEF TiposHeap
  <2> QED BY <1>3, <2>1 DEF Cargados
<1>8. \A j \in DOMAIN listaAdmHeap : listaAdmHeap[j].pid # p
  BY <1>1, <1>4 DEF Marcos, Administradas
<1>9. PaginasHeap' = PaginasHeap
  BY <1>5, <1>7, <1>8 DEF PaginasHeap
<1>10. Leido(Contenido, pide, libera, sems'.meta, metaDataLeida')
  BY <1>1, <1>5 DEF BloquesDe, Leyendo
<1> QED BY <1>2, <1>5, <1>6, <1>9, <1>10, ContestaComun

\* Memoria gives a page or refuses it.
LEMMA BloquesAsigna ==
  ASSUME NEW t, Antes(t), aMemoria # <<>>, aMemoria' = Tail(aMemoria), UNCHANGED <<pide, libera>>, CPide
  PROVE  BloquesDe(t)'
<1>1. TiposHeap /\ Hilos /\ BloquesDe(t)
  BY DEF Antes
<1>2. Primero \in Mensajes /\ 1 \in DOMAIN aMemoria /\ aMemoria[1] = Primero /\ Primero.op = "pide"
  BY <1>1, PrimeroTipo DEF CPide
<1>3. pide.pc = "reservaPagina"
  BY <1>1, <1>2 DEF Hilos, PidePagina_
<1>4. PICK p, algo : /\ AsignarPagina(p, algo) /\ sems' = [sems EXCEPT !.reservo = @ + 1]
                     /\ UNCHANGED <<programas, metaDataLeida, listaAdmHeap, ultimaPagina>>
  BY DEF CPide, Asigna
<1>5. UNCHANGED <<estado, bloques, colaLiberaHeap>>
  BY <1>4 DEF programas
<1>6. Contenido' = Contenido
  BY <1>4, ContenidoQueda DEF AsignarPagina, memoria
<1>7. PaginasHeap' = PaginasHeap
  BY <1>4, <1>5 DEF PaginasHeap, Cargados
<1>8. sems'.pagina = sems.pagina /\ sems'.meta = sems.meta
  <2>1. Varia(0, 0, 1) /\ sems.meta \in Nat /\ sems.pagina \in Nat
    BY <1>1, <1>4, SemsVaria DEF TiposHeap
  <2> QED BY <2>1 DEF Varia
<1>9. Leido(Contenido, pide, libera, sems'.meta, metaDataLeida')
  BY <1>1, <1>4, <1>8 DEF BloquesDe, Leyendo
<1> QED BY <1>2, <1>3, <1>4, <1>5, <1>6, <1>7, <1>8, <1>9, ContestaComun

\* Memoria frees the pages of a program.
LEMMA BloquesBaja ==
  ASSUME NEW t, Antes(t), aMemoria # <<>>, aMemoria' = Tail(aMemoria), UNCHANGED <<pide, libera>>, CLibera
  PROVE  BloquesDe(t)'
<1>1. TiposHeap /\ BloquesDe(t)
  BY DEF Antes
<1>2. /\ Primero.op = "libera"
      /\ UNCHANGED <<contenido, estado, bloques, colaLiberaHeap, metaDataLeida, sems, listaAdmHeap, ultimaPagina,
                     abortoPorFaltaDeMemoria>>
  BY DEF CLibera, LiberarPaginas, programas, respuestas, admin
<1>3. Contenido' = Contenido
  BY <1>2, ContenidoQueda
<1>4. PaginasHeap' = PaginasHeap
  BY <1>2 DEF PaginasHeap, Cargados
<1>5. Leido(Contenido, pide, libera, sems'.meta, metaDataLeida')
  BY <1>1, <1>2 DEF BloquesDe, Leyendo
<1> QED BY <1>2, <1>3, <1>4, <1>5, ContestaComun

\* What is read is what is in the page.
LEMMA BloquesLee ==
  ASSUME NEW t, Antes(t), aMemoria # <<>>, aMemoria' = Tail(aMemoria), UNCHANGED <<pide, libera>>, CLee
  PROVE  BloquesDe(t)'
<1>0. PICK n, o, d : n = Primero.nodo /\ o = Primero.offset /\ d = Head(LeerDePagina(n, o, 1))
  OBVIOUS
<1>1. TiposHeap /\ Lugares /\ Marcos /\ BloquesDe(t)
  BY DEF Antes, Hilos
<1>2. /\ Primero.op = "lee" /\ metaDataLeida' = d /\ sems' = [sems EXCEPT !.meta = @ + 1]
      /\ UNCHANGED <<contenido, estado, bloques, colaLiberaHeap, listaAdmHeap, ultimaPagina, abortoPorFaltaDeMemoria>>
  BY <1>0 DEF CLee, Publica, memoria, programas, admin
<1>3. Contenido' = Contenido
  BY <1>2, ContenidoQueda
<1>4. PaginasHeap' = PaginasHeap
  BY <1>2 DEF PaginasHeap, Cargados
<1>5. sems'.pagina = sems.pagina
  <2>1. Varia(1, 0, 0) /\ sems.pagina \in Nat
    BY <1>1, <1>2, SemsVaria DEF TiposHeap
  <2> QED BY <2>1 DEF Varia
<1>6. Primero \in LecturasDe(pide, libera) /\ Primero \in Mensajes
  <2>1. Menguo(aMemoria, aMemoria') /\ Primero \in Mensajes
    BY <1>1, PrimeroTipo
  <2>2. PICK q, L : q = aMemoria /\ L = LecturasDe(pide, libera)
    OBVIOUS
  <2>3. Lecturas(q, L)
    BY <1>1, <2>2 DEF BloquesDe, Leyendo
  <2> QED BY <1>2, <2>1, <2>2, <2>3, LecturasMenos DEF Primero
<1>7. /\ n \in PaginasHeap /\ n \in Paginas /\ EnSuMarco(n) /\ o \in Int
      /\ LeyendoMetadata(pide) => n = Nodo(pide) /\ o = LeeEn(pide)
      /\ LeyendoMetadata(libera) => n = PaginaDe(libera.b) /\ o = libera.b.offset
  BY <1>0, <1>1, <1>2, <1>6, LecturaEs, PaginasHeapSon, MensajeEs
<1>8. d \in Celdas
  BY <1>0, <1>1, LeeUna DEF TiposHeap
<1>9. o \in 0 .. MARCOS_SIZE - 1 => d = Contenido[n][o]
  <2>1. Direccion(n, o) = Marco(n) * MARCOS_SIZE + o /\ Marco(n) \in Nat
    BY <1>7, FrameDeEs
  <2>2. Direccion(n, o) \in Int
    BY <1>7, <2>1, DimensionTipo
  <2>3. d = IF Direccion(n, o) \in DOMAIN contenido THEN contenido[Direccion(n, o)] ELSE Otro
    BY <1>0, <2>2, LeeUna
  <2> QED BY <1>1, <1>7, <2>1, <2>3, ContenidoEs
<1>10. CASE LeyendoMetadata(pide)
  <2>1. ~LeyendoMetadata(libera)
    BY <1>1, <1>10 DEF BloquesDe, Leyendo, UnoLee
  <2>2. pide.pc # "espera" /\ pide \in HilosPide
    BY <1>1, <1>10 DEF LeyendoMetadata, TiposHeap
  <2>3. pide.pc \in {"leeActual", "leeSiguiente", "leeBloque", "leeViejo"}
    <3>1. pide.pc # "lee"
      BY <2>2, OciosoTipo DEF HilosPide, PasosPide, EsperaEscritura
    <3> QED BY <1>10, <3>1 DEF LeyendoMetadata
  <2>4. /\ Teselada(t[n], Contenido[n]) /\ EsInicio(t[n], pide.off) /\ pide.size \in Int
    BY <1>1, <1>7, <1>10, <2>2, <2>3, EnPagina DEF BloquesDe, PideBien, PasoPide, BloqueBueno, EnBloque
  <2>5. pide.off \in Nat /\ Contenido[n][pide.off].size \in Nat
    BY <2>4, TeselaEs
  <2>6. pide.pc = "leeSiguiente" => pide.size \in Nat
    <3>1. pide.pc = "leeSiguiente" => Coincide(pide, Contenido[n][pide.off])
      BY <1>1, <1>7, <1>10 DEF BloquesDe, PideBien, PasoPide
    <3> QED BY <2>5, <3>1 DEF Coincide
  <2>7. LeeEn(pide) \in Nat
    BY <2>5, <2>6 DEF LeeEn
  <2>8. LeeEn(pide) < MARCOS_SIZE => Coincide(d, Contenido[n][o])
    BY <1>7, <1>9, <1>10, <2>7, DimensionTipo DEF Coincide
  <2>9. Leido(Contenido, pide, libera, sems'.meta, metaDataLeida')
    BY <1>2, <1>7, <1>8, <1>10, <2>1, <2>8 DEF Leido
  <2> QED BY <1>2, <1>3, <1>4, <1>5, <2>9, ContestaComun
<1>11. CASE ~LeyendoMetadata(pide)
  <2>1. LeyendoMetadata(libera)
    BY <1>6, <1>11 DEF LecturasDe
  <2>2. libera.pc = "lee"
    BY <1>1, <2>1, LiberaTipo DEF LeyendoMetadata, TiposHeap, HilosLibera
  <2>3. libera.b \in EnLiberacion(colaLiberaHeap, Contenido, libera)
    BY <2>2 DEF EnLiberacion
  <2>4. EnUso(t, Contenido, Corte(pide), PaginasHeap, libera.b)
    BY <1>1, <2>3 DEF BloquesDe, EnUsoBien, BloquesEnUso
  <2>5. EsInicio(t[n], o) /\ Contenido[n][o] = [isFree |-> 1, size |-> libera.b.size]
    BY <1>7, <2>1, <2>4 DEF EnUso
  <2>6. o \in 0 .. MARCOS_SIZE - 1
    <3>1. Teselada(t[n], Vista(Contenido, Corte(pide), n))
      BY <1>1, <1>7 DEF BloquesDe, Teselado, Teselas
    <3> QED BY <2>5, <3>1, TeselaEs, DimensionTipo
  <2>7. d.size = libera.b.size
    BY <1>9, <2>5, <2>6
  <2>8. Leido(Contenido, pide, libera, sems'.meta, metaDataLeida')
    BY <1>2, <1>8, <1>11, <2>7 DEF Leido
  <2> QED BY <1>2, <1>3, <1>4, <1>5, <2>8, ContestaComun
<1> QED BY <1>10, <1>11

\* Memoria always finds the page.
LEMMA NadaRompe ==
  ASSUME NEW t, Antes(t), aMemoria # <<>>, aMemoria' = Tail(aMemoria)
  PROVE  ~CRompe
<1> SUFFICES ASSUME CRompe PROVE FALSE
  OBVIOUS
<1>1. TiposHeap /\ Lugares /\ Marcos /\ BloquesDe(t)
  BY DEF Antes, Hilos
<1>2. Primero \in Mensajes /\ 1 \in DOMAIN aMemoria /\ aMemoria[1] = Primero
  BY <1>1, PrimeroTipo
<1>3. CASE Primero.op = "lee"
  <2>1. Primero \in LecturasDe(pide, libera)
    BY <1>1, <1>2, <1>3 DEF BloquesDe, Leyendo, Lecturas, Sitio
  <2>2. Leible(Primero.nodo)
    BY <1>1, <2>1, LecturaEs, PaginasHeapSon, FrameDeEs
  <2> QED BY <1>3, <2>2 DEF CRompe
<1>4. CASE Primero.op = "escribe"
  <2>1. Primero \in EscriturasPide(t, Contenido, pide) \cup Marcas(Contenido, libera)
    BY <1>1, <1>2, <1>4 DEF BloquesDe, Escribiendo, Escrituras, Sitio
  <2>2. Primero.nodo \in Paginas /\ EnSuMarco(Primero.nodo) /\ Primero.offset \in 0 .. MARCOS_SIZE - 1
    BY <2>1, EscrituraEs
  <2>3. Leible(Primero.nodo) /\ Direccion(Primero.nodo, Primero.offset) = Marco(Primero.nodo) * MARCOS_SIZE + Primero.offset
    BY <2>2, FrameDeEs
  <2>4. Marco(Primero.nodo) \in Frames
    BY <2>2, MarcoEs
  <2>5. Marco(Primero.nodo) * MARCOS_SIZE + Primero.offset \in Direcciones
    BY <2>2, <2>4, DireccionesAparte
  <2> QED BY <1>4, <2>3, <2>5 DEF CRompe, Escribible
<1>5. CASE Primero.op = "libera"
  <2>1. \A n \in Primero.nodos : EnSuMarco(n)
    BY <1>1, <1>2, <1>5 DEF Marcos, Bajas
  <2>2. Primero.nodos \in SUBSET Paginas
    BY <1>2, <1>5, MensajeEs
  <2>3. Liberable(Primero.nodos)
    BY <2>1, <2>2, MarcoEs DEF Liberable, EnSuMarco
  <2> QED BY <1>5, <2>3 DEF CRompe
<1> QED BY <1>3, <1>4, <1>5 DEF CRompe

\* A writing is served.
LEMMA EscritaEs ==
  ASSUME NEW t, Antes(t), aMemoria # <<>>, aMemoria' = Tail(aMemoria), CEscribe
  PROVE  /\ Primero \in EscriturasPide(t, Contenido, pide) \cup Marcas(Contenido, libera)
         /\ Primero.op = "escribe" /\ Menguo(aMemoria, aMemoria') /\ Head(aMemoria) = Primero
         /\ 1 \in Sitio(aMemoria, "escribe") /\ aMemoria[1] = Primero
         /\ Cambia(Primero.nodo, Primero.offset, Primero.celda) /\ PaginasHeap' = PaginasHeap
         /\ Primero.nodo \in Paginas /\ Primero.offset \in 0 .. MARCOS_SIZE - 1
         /\ sems'.meta = sems.meta /\ sems'.pagina > 0
         /\ UNCHANGED <<bloques, colaLiberaHeap, metaDataLeida, listaAdmHeap, ultimaPagina, abortoPorFaltaDeMemoria>>
<1>1. TiposHeap /\ Marcos /\ BloquesDe(t)
  BY DEF Antes
<1>2. /\ Primero \in Mensajes /\ Menguo(aMemoria, aMemoria') /\ 1 \in DOMAIN aMemoria
      /\ aMemoria[1] = Primero /\ Head(aMemoria) = Primero
  BY <1>1, PrimeroTipo DEF Primero
<1>3. /\ Primero.op = "escribe" /\ Escribible(Primero.nodo, Primero.offset)
      /\ EscribirEnPagina(Primero.nodo, Primero.offset, <<Primero.celda>>)
      /\ sems' = [sems EXCEPT !.pagina = @ + 1]
      /\ UNCHANGED <<estado, bloques, colaLiberaHeap, metaDataLeida, listaAdmHeap, ultimaPagina, abortoPorFaltaDeMemoria>>
  BY DEF CEscribe, programas, admin
<1>4. Primero \in EscriturasPide(t, Contenido, pide) \cup Marcas(Contenido, libera)
  BY <1>1, <1>2, <1>3 DEF BloquesDe, Escribiendo, Escrituras, Sitio
<1>5. Primero.nodo \in Paginas /\ EnSuMarco(Primero.nodo) /\ Primero.offset \in 0 .. MARCOS_SIZE - 1
  BY <1>4, EscrituraEs
<1>6. Cambia(Primero.nodo, Primero.offset, Primero.celda)
  BY <1>1, <1>3, <1>5, EscribeContenido
<1>7. PaginasHeap' = PaginasHeap
  BY <1>3 DEF PaginasHeap, Cargados
<1>8. sems'.meta = sems.meta /\ sems'.pagina > 0
  <2>1. Varia(0, 1, 0) /\ sems.meta \in Nat /\ sems.pagina \in Nat
    BY <1>1, <1>3, SemsVaria DEF TiposHeap
  <2> QED BY <2>1 DEF Varia
<1> QED BY <1>2, <1>3, <1>4, <1>5, <1>6, <1>7, <1>8 DEF Sitio

\* The writing is of procesarHeap: liberarHeap sees nothing of it, and what is left to
\* be written is the mark.
LEMMA EscritaPide ==
  ASSUME NEW t, Antes(t), aMemoria # <<>>, aMemoria' = Tail(aMemoria), UNCHANGED <<pide, libera>>, CEscribe,
         Primero \in EscriturasPide(t, Contenido, pide)
  PROVE  /\ pide.pc # "espera" /\ Primero.nodo = Nodo(pide) /\ Nodo(pide) \in Paginas
         /\ EnLiberacion(colaLiberaHeap', Contenido', libera) = EnLiberacion(colaLiberaHeap, Contenido, libera)
         /\ PorSumar(Contenido', libera) = PorSumar(Contenido, libera)
         /\ LiberaBien' /\ Distintas' /\ \A u : Escribiendo(u)' /\ Leyendo(u)'
<1>0. PICK q, M : q = aMemoria /\ M = Marcas(Contenido, libera)
  OBVIOUS
<1>1. TiposHeap /\ Lugares /\ BloquesDe(t)
  BY DEF Antes, Hilos
<1>2. pide.pc # "espera" /\ Primero.nodo = Nodo(pide)
  <2>1. Primero.nodo = Nodo(pide)
    BY EscribeQuien
  <2>2. pide.pc = "espera" => EscriturasPide(t, Contenido, pide) = {}
    BY DEF EscriturasPide
  <2> QED BY <2>1, <2>2
<1>3. Nodo(pide) \in Paginas /\ Cambia(Nodo(pide), Primero.offset, Primero.celda)
  BY <1>2, EscritaEs
<1>4. Marcando(Contenido', libera) <=> Marcando(Contenido, libera)
  <2>1. CASE libera.pc \in {"escribe", "escrito"}
    <3>1. PaginaDe(libera.b) \in PaginasHeap
      BY <1>1, <2>1 DEF BloquesDe, LiberaBien, PasoLibera
    <3>2. Nodo(pide) # PaginaDe(libera.b)
      BY <1>1, <1>2, <2>1, NodosAparte
    <3> QED BY <1>3, <3>1, <3>2 DEF Cambia, Marcando
  <2>2. CASE libera.pc \notin {"escribe", "escrito"}
    BY <2>2 DEF Marcando
  <2> QED BY <2>1, <2>2
<1>5. Primero \notin M
  BY <1>0, <1>1, <1>2, EscribeAparte
<1>6. /\ UNCHANGED <<bloques, colaLiberaHeap, metaDataLeida, listaAdmHeap, ultimaPagina>>
      /\ PaginasHeap' = PaginasHeap /\ sems'.meta = sems.meta
  BY EscritaEs
<1>7. Marcas(Contenido', libera) = M
  BY <1>0, <1>4 DEF Marcas
<1>8. ASSUME NEW V PROVE Escrituras(aMemoria', V, M) /\ \A i \in Sitio(aMemoria', "escribe") : aMemoria'[i] \in M
  <2>1. PICK W : W = EscriturasPide(t, Contenido, pide)
    OBVIOUS
  <2>2. Escrituras(q, W, M)
    BY <1>0, <1>1, <2>1 DEF BloquesDe, Escribiendo
  <2>3. Menguo(q, aMemoria') /\ Head(q).op = "escribe" /\ Head(q) \notin M
    BY <1>0, <1>5, EscritaEs
  <2> QED BY <2>2, <2>3, EscriturasHecha
<1>9. ASSUME NEW u PROVE Escribiendo(u)'
  BY <1>7, <1>8 DEF Escribiendo
<1>10. ASSUME NEW u PROVE Leyendo(u)'
  <2>1. PICK V, L : V = EscriturasPide(u, Contenido', pide) /\ L = LecturasDe(pide, libera)
    OBVIOUS
  <2>2. /\ UnoLee(pide, libera) /\ Lecturas(q, L) /\ Leido(Contenido, pide, libera, sems.meta, metaDataLeida)
        /\ FusionAntes(q, EscriturasPide(t, Contenido, pide), sems.meta, pide)
    BY <1>0, <1>1, <2>1 DEF BloquesDe, Leyendo
  <2>3. LeyendoMetadata(pide) => sems.meta = 0
    BY <1>0, <2>2, EscritaEs DEF FusionAntes
  <2>4. Leido(Contenido', pide, libera, sems'.meta, metaDataLeida')
    BY <1>6, <2>2, <2>3 DEF Leido
  <2>5. Lecturas(aMemoria', L)
    BY <1>0, <2>2, EscritaEs, LecturasMenos
  <2>6. \A i \in Sitio(aMemoria', "escribe") : aMemoria'[i] \notin V
    <3>1. ASSUME NEW m \in M PROVE m \notin V
      <4>1. ~(m \in V) \/ m.nodo = Nodo(pide)
        BY <2>1, EscribeQuien
      <4> QED BY <1>0, <1>1, <1>2, <4>1, EscribeAparte
    <3> QED BY <1>8, <3>1
  <2>7. FusionAntes(aMemoria', V, sems'.meta, pide)
    <3>1. PICK r, x : r = aMemoria' /\ x = sems'.meta
      OBVIOUS
    <3> QED BY <2>6, <3>1, FusionNinguna
  <2> QED BY <2>1, <2>2, <2>4, <2>5, <2>7 DEF Leyendo
<1>11. LiberaBien'
  BY <1>1, <1>4, <1>6 DEF BloquesDe, LiberaBien, PasoLibera
<1>12. Distintas'
  BY <1>1, <1>6 DEF BloquesDe, Distintas
<1>13. EnLiberacion(colaLiberaHeap', Contenido', libera) = EnLiberacion(colaLiberaHeap, Contenido, libera)
  BY <1>4, <1>6 DEF EnLiberacion
<1>14. PorSumar(Contenido', libera) = PorSumar(Contenido, libera)
  BY <1>4 DEF PorSumar
<1> QED BY <1>2, <1>3, <1>9, <1>10, <1>11, <1>12, <1>13, <1>14

\* The blocks, when what is written is not the header of any.
LEMMA BloquesIguales ==
  ASSUME NEW t, Antes(t), PaginasHeap' = PaginasHeap,
         UNCHANGED <<pide, libera, bloques, colaLiberaHeap, listaAdmHeap>>,
         EnLiberacion(colaLiberaHeap', Contenido', libera) = EnLiberacion(colaLiberaHeap, Contenido, libera),
         PorSumar(Contenido', libera) = PorSumar(Contenido, libera),
         \A x \in PaginasHeap : \A o : EsInicio(t[x], o) =>
           /\ Vista(Contenido', Corte(pide), x)[o] = Vista(Contenido, Corte(pide), x)[o]
           /\ x # Corte(pide).nodo \/ o # Corte(pide).off => Contenido'[x][o] = Contenido[x][o]
  PROVE  Teselado(t)' /\ EnUsoBien(t)' /\ Contado(t)'
<1>0. PICK k : k = Corte(pide)
  OBVIOUS
<1>1. TiposHeap /\ BloquesDe(t)
  BY DEF Antes
<1>2. ASSUME NEW x \in PaginasHeap
      PROVE  /\ Teselada(t[x], Vista(Contenido', k, x))
             /\ EspacioLibre(t[x], Vista(Contenido', k, x)) = EspacioLibre(t[x], Vista(Contenido, k, x))
  <2>1. PICK v, w : v = Vista(Contenido, k, x) /\ w = Vista(Contenido', k, x)
    OBVIOUS
  <2>2. Teselada(t[x], v)
    BY <1>0, <1>1, <2>1 DEF BloquesDe, Teselado, Teselas
  <2>3. \A o : EsInicio(t[x], o) => w[o] = v[o]
    BY <1>0, <2>1
  <2> QED BY <2>1, <2>2, <2>3, TeselaIgual, LibreIgual
<1>3. Teselado(t)'
  BY <1>0, <1>2 DEF Teselado, Teselas
<1>4. EnUsoBien(t)'
  <2>1. PICK E : E = EnLiberacion(colaLiberaHeap, Contenido, libera)
    OBVIOUS
  <2>2. BloquesEnUso(t, Contenido, k, PaginasHeap, bloques, E)
    BY <1>0, <1>1, <2>1 DEF BloquesDe, EnUsoBien
  <2>3. ASSUME NEW b \in bloques \cup E PROVE EnUso(t, Contenido', k, PaginasHeap, b)
    <3>1. EnUso(t, Contenido, k, PaginasHeap, b)
      BY <2>2 DEF BloquesEnUso
    <3> QED BY <1>0, <3>1 DEF EnUso
  <2>4. BloquesEnUso(t, Contenido', k, PaginasHeap, bloques, E)
    BY <2>2, <2>3 DEF BloquesEnUso
  <2> QED BY <1>0, <2>1, <2>4 DEF EnUsoBien
<1>5. Contado(t)'
  <2>1. Espacio(t, Contenido, k, PaginasHeap, listaAdmHeap, Reservado(pide), PorSumar(Contenido, libera))
    BY <1>0, <1>1 DEF BloquesDe, Contado
  <2>2. Espacio(t, Contenido', k, PaginasHeap, listaAdmHeap, Reservado(pide), PorSumar(Contenido, libera))
    BY <1>2, <2>1 DEF Espacio
  <2> QED BY <1>0, <2>2 DEF Contado
<1> QED BY <1>3, <1>4, <1>5

\* A new page has its first block, before it has an entry.
LEMMA BloquesPaginaNueva ==
  ASSUME NEW t, Antes(t), aMemoria # <<>>, aMemoria' = Tail(aMemoria), UNCHANGED <<pide, libera>>, CEscribe,
         Primero \in EscriturasPide(t, Contenido, pide), pide.pc = "paginaNueva"
  PROVE  BloquesDe(t)'
<1>1. TiposHeap /\ BloquesDe(t) /\ Marcos
  BY DEF Antes
<1>2. Primero.celda = PaginaVacia /\ Primero.offset = 0
  BY DEF EscriturasPide, Escritura, Mensaje
<1>3. /\ PaginasHeap' = PaginasHeap /\ sems'.pagina > 0 /\ Primero.nodo = Nodo(pide)
      /\ Cambia(Nodo(pide), 0, PaginaVacia)
      /\ UNCHANGED <<bloques, colaLiberaHeap, listaAdmHeap, abortoPorFaltaDeMemoria>>
  BY <1>2, EscritaEs, EscritaPide
<1>4. PasoPide(t, Contenido, pide, PaginasHeap, listaAdmHeap, sems.pagina, abortoPorFaltaDeMemoria)
  BY <1>1 DEF BloquesDe, PideBien
<1>5. \A x \in PaginasHeap : x # Nodo(pide)
  <2>1. \A j \in DOMAIN listaAdmHeap : listaAdmHeap[j].pid = pide.pid => listaAdmHeap[j].pagina < pide.pagina
    BY <1>4 DEF PasoPide, EntradasMenores
  <2>2. pide.pagina \in Nat
    BY <1>1, PideEspera DEF Antes, Hilos
  <2>3. \A j \in DOMAIN listaAdmHeap : PaginaDe(listaAdmHeap[j]) # Nodo(pide)
    <3> SUFFICES ASSUME NEW j \in DOMAIN listaAdmHeap, PaginaDe(listaAdmHeap[j]) = Nodo(pide) PROVE FALSE
      OBVIOUS
    <3>1. listaAdmHeap[j].pid = pide.pid /\ listaAdmHeap[j].pagina = pide.pagina
      BY DEF PaginaDe, Nodo, Pagina
    <3> QED BY <2>1, <2>2, <3>1
  <2> QED BY <2>3 DEF PaginasHeap
<1>6. \A x \in PaginasHeap : Contenido'[x] = Contenido[x]
  BY <1>3, <1>5 DEF Cambia
<1>7. \A x \in PaginasHeap : Vista(Contenido', Corte(pide), x) = Vista(Contenido, Corte(pide), x)
  BY <1>6 DEF Vista
<1>8. Teselado(t)' /\ EnUsoBien(t)' /\ Contado(t)'
  BY <1>3, <1>6, <1>7, EscritaPide, BloquesIguales
<1>9. PideBien(t)'
  <2>1. PasoPide(t, Contenido', pide, PaginasHeap, listaAdmHeap, sems'.pagina, abortoPorFaltaDeMemoria)
    BY <1>3, <1>4 DEF PasoPide, Cambia
  <2> QED BY <1>3, <2>1 DEF PideBien
<1> QED BY <1>8, <1>9, EscritaPide DEF BloquesDe

\* A block that is being cut has its header, or the one of the rest.
LEMMA BloquesCortado ==
  ASSUME NEW t, Antes(t), aMemoria # <<>>, aMemoria' = Tail(aMemoria), UNCHANGED <<pide, libera>>, CEscribe,
         Primero \in EscriturasPide(t, Contenido, pide), pide.pc \in {"escribeBloque", "escribeResto"}
  PROVE  BloquesDe(t)'
<1>0. PICK n, z, v, k, w : /\ n = Nodo(pide) /\ z = OffsetResto(pide) /\ v = Vista(Contenido, Corte(pide), n)
                           /\ k = Corte(pide) /\ w = Vista(Contenido', Corte(pide), n)
  OBVIOUS
<1>1. TiposHeap /\ BloquesDe(t)
  BY DEF Antes
<1>2. \/ pide.pc = "escribeBloque" /\ Primero.offset = pide.off /\ Primero.celda = Cabecera(pide)
      \/ pide.pc = "escribeResto" /\ Primero.offset = z /\ Primero.celda = CeldaResto(pide)
  BY <1>0 DEF EscriturasPide, Escritura, Mensaje
<1>3. /\ PaginasHeap' = PaginasHeap /\ sems'.pagina > 0 /\ Cambia(n, Primero.offset, Primero.celda)
      /\ UNCHANGED <<bloques, colaLiberaHeap, listaAdmHeap, abortoPorFaltaDeMemoria>>
  BY <1>0, EscritaEs, EscritaPide
<1>4. /\ n \in Paginas /\ n \in PaginasHeap /\ EsInicio(t[n], pide.off) /\ Teselada(t[n], v)
      /\ pide.off \in 0 .. MARCOS_SIZE - 1 /\ z \in 0 .. MARCOS_SIZE - 1 /\ z \notin t[n] /\ z # pide.off
      /\ k.nodo = n /\ k.off = pide.off
  BY <1>0, CorteEs
<1>5. \A x \in t[n] : x # z
  BY <1>4
<1>6. ASSUME NEW x \in PaginasHeap, NEW o, EsInicio(t[x], o)
      PROVE  /\ Vista(Contenido', k, x)[o] = Vista(Contenido, k, x)[o]
             /\ x # k.nodo \/ o # k.off => Contenido'[x][o] = Contenido[x][o]
  <2>1. CASE x # n
    BY <1>3, <1>4, <2>1 DEF Cambia, Vista
  <2>2. CASE x = n
    <3>1. o \in 0 .. MARCOS_SIZE - 1 /\ o # z
      BY <1>4, <1>5, <1>6, <2>2, TeselaEs, DimensionTipo DEF EsInicio
    <3>2. o # pide.off => Contenido'[n][o] = Contenido[n][o]
      BY <1>2, <1>3, <3>1 DEF Cambia
    <3>3. /\ DOMAIN Contenido'[n] = 0 .. MARCOS_SIZE - 1 /\ DOMAIN Contenido[n] = 0 .. MARCOS_SIZE - 1
      BY <1>4 DEF Contenido
    <3>4. Vista(Contenido', k, n)[o] = Vista(Contenido, k, n)[o]
      BY <1>4, <3>1, <3>2, <3>3 DEF Vista
    <3> QED BY <1>4, <2>2, <3>2, <3>4
  <2> QED BY <2>1, <2>2
<1>7. Teselado(t)' /\ EnUsoBien(t)' /\ Contado(t)'
  BY <1>0, <1>3, <1>6, EscritaPide, BloquesIguales
<1>8. PideBien(t)'
  <2>1. PasoPide(t, Contenido, pide, PaginasHeap, listaAdmHeap, sems.pagina, abortoPorFaltaDeMemoria)
    BY <1>1 DEF BloquesDe, PideBien
  <2>2. pide.pc = "escribeBloque" => Contenido'[n][pide.off] = Cabecera(pide)
    BY <1>2, <1>3 DEF Cambia
  <2>3. pide.pc = "escribeResto" => /\ Contenido'[n][pide.off] = Cabecera(pide)
                                    /\ Contenido'[n][z] = CeldaResto(pide)
    BY <1>0, <1>2, <1>3, <1>4, <2>1 DEF Cambia, PasoPide
  <2>4. PasoPide(t, Contenido', pide, PaginasHeap, listaAdmHeap, sems'.pagina, abortoPorFaltaDeMemoria)
    BY <1>0, <1>3, <2>1, <2>2, <2>3 DEF PasoPide
  <2> QED BY <1>3, <2>4 DEF PideBien
<1> QED BY <1>7, <1>8, EscritaPide DEF BloquesDe

\* Two blocks are joined: the second one is no more.
LEMMA BloquesFundido ==
  ASSUME NEW t, Antes(t), Despues, aMemoria # <<>>, aMemoria' = Tail(aMemoria), UNCHANGED <<pide, libera>>, CEscribe,
         Primero \in EscriturasPide(t, Contenido, pide), pide.pc \in {"compactado", "leeActual", "leeBloque"}
  PROVE  \E u : BloquesDe(u)'
<1>0. PICK n, v, w : n = Nodo(pide) /\ v = Contenido[n] /\ w = Contenido'[n]
  OBVIOUS
<1>1. TiposHeap /\ Marcos /\ BloquesDe(t)
  BY DEF Antes
<1>2. PICK o \in Fundidos(t[n], v, pide) : Primero = Escritura(n, o, Junto(v, o))
  BY <1>0 DEF EscriturasPide
<1>3. PICK y : y = Tras(v, o)
  OBVIOUS
<1>4. /\ EsInicio(t[n], o) /\ v[o].isFree = -1 /\ v[y].isFree = -1 /\ y < MARCOS_SIZE
      /\ o = pide.off \/ pide.off = 0
  BY <1>2, <1>3 DEF Fundidos, Juntos, EsInicio
<1>5. /\ PaginasHeap' = PaginasHeap /\ Cambia(n, o, Junto(v, o))
      /\ UNCHANGED <<bloques, colaLiberaHeap, listaAdmHeap, abortoPorFaltaDeMemoria>>
  BY <1>0, <1>2, EscritaEs DEF Escritura, Mensaje
<1>6. /\ n \in Paginas /\ n \in PaginasHeap /\ Teselada(t[n], v) /\ EsInicio(t[n], pide.off)
      /\ pide.cantidad + 2 <= MARCOS_SIZE
  BY <1>0, EnPagina
<1>7. /\ y \in t[n] /\ o \in Nat /\ y \in Nat /\ o < y /\ v[o].size \in Nat
      /\ \A x \in t[n] : x \in Nat /\ (x <= o \/ x >= y)
  BY <1>3, <1>4, <1>6, TeselaEs
<1>8. EsInicio(t[n], y)
  BY <1>4, <1>7 DEF EsInicio
<1>9. \A x : EsInicio(t[n], x) => x \in 0 .. MARCOS_SIZE - 1
  BY <1>6, TeselaEs, DimensionTipo
<1>10. w[o].size = v[o].size + 1 + v[y].size /\ w[o].isFree = -1
  BY <1>0, <1>3, <1>5 DEF Cambia, Junto
<1>11. \A x : EsInicio(t[n], x) /\ x # o => w[x] = v[x]
  BY <1>0, <1>5, <1>9 DEF Cambia
<1>12. PICK s : s = t[n] \ {y}
  OBVIOUS
<1>13. Teselada(s, w) /\ EspacioLibre(s, w) = EspacioLibre(t[n], v) + 1
  <2>1. PICK g : g = t[n]
    OBVIOUS
  <2>2. /\ Teselada(g, v) /\ EsInicio(g, o) /\ y = Tras(v, o) /\ EsInicio(g, y) /\ v[o].isFree = -1 /\ v[y].isFree = -1
        /\ w[o].size = v[o].size + 1 + v[y].size /\ w[o].isFree = -1
        /\ \A x : EsInicio(g, x) /\ x # o => w[x].size = v[x].size /\ (w[x].isFree = -1 <=> v[x].isFree = -1)
    BY <1>3, <1>4, <1>6, <1>8, <1>10, <1>11, <2>1
  <2>3. Teselada(g \ {y}, w)
    BY <2>2, TeselaFunde
  <2>4. EspacioLibre(g \ {y}, w) = EspacioLibre(g, v) + 1
    BY <2>2, LibreFunde
  <2> QED BY <1>12, <2>1, <2>3, <2>4
<1>14. EspacioLibre(t[n], v) \in Int
  BY <1>6, LibreIgual
<1>15. y # pide.off
  <2>1. pide.off = 0 => pide.off < y
    BY <1>7
  <2> QED BY <1>4, <1>7, <2>1
<1>16. PICK u : u = [x \in Paginas |-> IF x = n THEN s ELSE t[x]]
  OBVIOUS
<1>17. u[n] = s /\ \A x \in Paginas : x # n => u[x] = t[x]
  BY <1>6, <1>16
<1>18. \A x \in PaginasHeap : x \in Paginas
  BY <1>1, PaginasHeapSon
<1>19. \A x \in PaginasHeap : x # n => Contenido'[x] = Contenido[x]
  BY <1>5 DEF Cambia
<1>20. Corte(pide) = SinCorte /\ \A c : \A x \in Paginas : Vista(c, Corte(pide), x) = c[x]
  BY SinCorteVista
<1>21. Teselado(u)'
  <2>1. ASSUME NEW x \in PaginasHeap PROVE Teselada(u[x], Vista(Contenido', Corte(pide), x))
    <3>1. CASE x = n
      BY <1>0, <1>13, <1>17, <1>18, <1>20, <3>1
    <3>2. CASE x # n
      <4>1. Teselada(t[x], Vista(Contenido, Corte(pide), x))
        BY <1>1 DEF BloquesDe, Teselado, Teselas
      <4> QED BY <1>17, <1>18, <1>19, <1>20, <3>2, <4>1
    <3> QED BY <3>1, <3>2
  <2> QED BY <1>5, <2>1 DEF Teselado, Teselas
<1>22. PorSumar(Contenido', libera) = PorSumar(Contenido, libera)
  BY EscritaPide
<1>23. Contado(u)'
  <2>0. PICK r, i : r = Reservado(pide) /\ i = PorSumar(Contenido, libera)
    OBVIOUS
  <2>1. ASSUME NEW j \in DOMAIN listaAdmHeap, NEW x, x = PaginaDe(listaAdmHeap[j]), x \in PaginasHeap
        PROVE  listaAdmHeap[j].disponible + Cuanto(r, x) + Cuanto(i, x)
                 <= EspacioLibre(u[x], Vista(Contenido', Corte(pide), x))
    <3>1. listaAdmHeap[j].disponible + Cuanto(r, x) + Cuanto(i, x) <= EspacioLibre(t[x], Contenido[x])
      BY <1>1, <1>18, <1>20, <2>0, <2>1 DEF BloquesDe, Contado, Espacio
    <3>2. CASE x = n
      <4>1. EspacioLibre(u[x], Vista(Contenido', Corte(pide), x)) = EspacioLibre(t[n], v) + 1
        BY <1>0, <1>6, <1>13, <1>17, <1>20, <3>2
      <4>2. listaAdmHeap[j].disponible + Cuanto(r, x) + Cuanto(i, x) <= EspacioLibre(t[n], v)
        BY <1>0, <3>1, <3>2
      <4>3. r = SinCuenta
        <5>1. pide.pc \notin Cortando
          BY DEF Cortando
        <5> QED BY <2>0, <5>1, SinCortar
      <4>4. listaAdmHeap[j].disponible \in Int /\ Cuanto(r, x) \in Int /\ Cuanto(i, x) \in Int
        BY <1>1, <2>0, <2>1, <4>3, ContadoTipo
      <4> QED BY <1>14, <4>1, <4>2, <4>4
    <3>3. CASE x # n
      BY <1>17, <1>18, <1>19, <1>20, <2>1, <3>1, <3>3
    <3> QED BY <3>2, <3>3
  <2> QED BY <1>5, <1>22, <2>0, <2>1 DEF Contado, Espacio
<1>24. EnUsoBien(u)'
  <2>1. PICK E : E = EnLiberacion(colaLiberaHeap, Contenido, libera)
    OBVIOUS
  <2>2. BloquesEnUso(t, Contenido, Corte(pide), PaginasHeap, bloques, E)
    BY <1>1, <2>1 DEF BloquesDe, EnUsoBien
  <2>3. ASSUME NEW b \in bloques \cup E PROVE EnUso(u, Contenido', Corte(pide), PaginasHeap, b)
    <3>1. /\ PaginaDe(b) \in PaginasHeap /\ EsInicio(t[PaginaDe(b)], b.offset)
          /\ Contenido[PaginaDe(b)][b.offset] = [isFree |-> 1, size |-> b.size]
          /\ PaginaDe(b) = Corte(pide).nodo => b.offset # Corte(pide).off
      BY <2>2 DEF BloquesEnUso, EnUso
    <3>2. EsInicio(u[PaginaDe(b)], b.offset) /\ Contenido'[PaginaDe(b)][b.offset] = Contenido[PaginaDe(b)][b.offset]
      <4>1. CASE PaginaDe(b) = n
        <5>1. v[b.offset].isFree = 1
          BY <1>0, <3>1, <4>1
        <5>2. b.offset # o /\ b.offset # y
          BY <1>4, <5>1
        <5>3. EsInicio(t[n], b.offset)
          BY <3>1, <4>1
        <5>4. EsInicio(s, b.offset)
          BY <1>12, <5>2, <5>3 DEF EsInicio
        <5> QED BY <1>0, <1>11, <1>17, <4>1, <5>2, <5>3, <5>4
      <4>2. CASE PaginaDe(b) # n
        BY <1>17, <1>18, <1>19, <3>1, <4>2
      <4> QED BY <4>1, <4>2
    <3> QED BY <3>1, <3>2 DEF EnUso
  <2>4. BloquesEnUso(u, Contenido', Corte(pide), PaginasHeap, bloques, E)
    BY <2>2, <2>3 DEF BloquesEnUso
  <2>5. EnLiberacion(colaLiberaHeap', Contenido', libera) = E
    BY <2>1, EscritaPide
  <2> QED BY <1>5, <2>4, <2>5 DEF EnUsoBien
<1>25. PideBien(u)'
  <2>1. EsInicio(u[n], pide.off)
    BY <1>6, <1>12, <1>15, <1>17 DEF EsInicio
  <2> QED BY <1>0, <1>5, <1>6, <2>1, BuscaBien
<1> QED BY <1>21, <1>23, <1>24, <1>25, EscritaPide DEF BloquesDe

\* The block of liberarHeap is marked as free.
LEMMA BloquesMarcado ==
  ASSUME NEW t, Antes(t), aMemoria # <<>>, aMemoria' = Tail(aMemoria), UNCHANGED <<pide, libera>>, CEscribe,
         Primero \in Marcas(Contenido, libera)
  PROVE  BloquesDe(t)'
<1>0. PICK b, n, o, v, w, k : /\ b = libera.b /\ n = PaginaDe(b) /\ o = b.offset /\ v = Contenido[n]
                              /\ w = Contenido'[n] /\ k = Corte(pide)
  OBVIOUS
<1>1. TiposHeap /\ Lugares /\ SinChoque /\ Marcos /\ BloquesDe(t)
  BY DEF Antes, Hilos
<1>2. Marcando(Contenido, libera) /\ Primero = MarcaDe(libera)
  BY DEF Marcas
<1>3. libera.pc \in {"escribe", "escrito"} /\ v[o].isFree = 1
  BY <1>0, <1>2 DEF Marcando
<1>4. PasoLibera(Contenido, pide, libera, PaginasHeap)
  BY <1>1 DEF BloquesDe, LiberaBien
<1>5. n \in PaginasHeap /\ libera.size = b.size
  BY <1>0, <1>3, <1>4 DEF PasoLibera
<1>6. /\ PaginasHeap' = PaginasHeap /\ sems'.meta = sems.meta /\ Cambia(n, o, [isFree |-> -1, size |-> b.size])
      /\ UNCHANGED <<bloques, colaLiberaHeap, metaDataLeida, listaAdmHeap, ultimaPagina, abortoPorFaltaDeMemoria>>
  BY <1>0, <1>2, <1>5, EscritaEs DEF MarcaDe, Escritura, Mensaje
<1>7. pide.pc \notin ConMutex
  <2>1. CASE libera.pc = "escribe"
    BY <1>1, <2>1 DEF SinChoque
  <2>2. CASE libera.pc = "escrito"
    BY <1>2, <1>4, <2>2 DEF PasoLibera, ConMutex
  <2> QED BY <1>3, <2>1, <2>2
<1>8. k = SinCorte /\ \A c : \A x \in Paginas : Vista(c, k, x) = c[x]
  BY <1>0, <1>7, SinCorteVista DEF ConMutex
<1>9. \A x \in PaginasHeap : x \in Paginas
  BY <1>1, PaginasHeapSon
<1>10. PICK E, F : /\ E = EnLiberacion(colaLiberaHeap, Contenido, libera)
                   /\ F = EnLiberacion(colaLiberaHeap', Contenido', libera)
  OBVIOUS
<1>11. ~Marcando(Contenido', libera) /\ Marcas(Contenido', libera) = {}
  BY <1>0, <1>6 DEF Cambia, Marcando, Marcas
<1>12. b \in E /\ F = ToSet(colaLiberaHeap) /\ F \subseteq E
  BY <1>0, <1>2, <1>3, <1>6, <1>10, <1>11 DEF EnLiberacion
<1>13. b \notin F
  <2>1. \A d \in ToSet(colaLiberaHeap) : d.pid \in EnCola(colaLiberaHeap)
    BY DEF EnCola, ToSet
  <2>2. b.pid \in Liberando
    BY <1>0, <1>3 DEF Liberando
  <2> QED BY <1>1, <1>12, <2>1, <2>2 DEF Lugares
<1>14. BloquesEnUso(t, Contenido, k, PaginasHeap, bloques, E)
  BY <1>0, <1>1, <1>10 DEF BloquesDe, EnUsoBien
<1>15. ASSUME NEW d \in bloques \cup F PROVE PaginaDe(d) # n \/ d.offset # o
  <2>1. CASE d \in bloques
    <3>1. d # b /\ b \in (bloques \cup E) \ {d}
      BY <1>12, <1>14, <2>1 DEF BloquesEnUso
    <3> QED BY <1>0, <1>14, <2>1, <3>1 DEF BloquesEnUso, MismoLugar
  <2>2. CASE d \in F
    <3>1. d.pid \in EnCola(colaLiberaHeap)
      BY <1>12, <2>2 DEF EnCola, ToSet
    <3>2. b.pid \in Liberando
      BY <1>0, <1>3 DEF Liberando
    <3>3. d.pid # b.pid
      BY <1>1, <3>1, <3>2 DEF Lugares
    <3> QED BY <1>0, <3>3 DEF PaginaDe, Pagina
  <2> QED BY <2>1, <2>2
<1>16. EnUso(t, Contenido, k, PaginasHeap, b)
  BY <1>12, <1>14 DEF BloquesEnUso
<1>17. EsInicio(t[n], o) /\ v[o] = [isFree |-> 1, size |-> b.size]
  BY <1>0, <1>16 DEF EnUso
<1>18. Teselada(t[n], v)
  BY <1>0, <1>1, <1>5, <1>8, <1>9 DEF BloquesDe, Teselado, Teselas
<1>19. \A x : EsInicio(t[n], x) => x \in 0 .. MARCOS_SIZE - 1
  BY <1>18, TeselaEs, DimensionTipo
<1>20. \A x : EsInicio(t[n], x) /\ x # o => w[x] = v[x]
  BY <1>0, <1>6, <1>19 DEF Cambia
<1>21. w[o].isFree = -1 /\ w[o].size = v[o].size /\ v[o].isFree # -1 /\ v[o].size = b.size
  BY <1>0, <1>6, <1>17 DEF Cambia
<1>22. Teselada(t[n], w) /\ EspacioLibre(t[n], w) = EspacioLibre(t[n], v) + b.size
  <2>1. PICK s : s = t[n]
    OBVIOUS
  <2>2. /\ Teselada(s, v) /\ EsInicio(s, o) /\ v[o].isFree # -1 /\ w[o].isFree = -1 /\ w[o].size = v[o].size
        /\ \A x : EsInicio(s, x) /\ x # o => w[x].size = v[x].size /\ (w[x].isFree = -1 <=> v[x].isFree = -1)
        /\ \A x : EsInicio(s, x) => w[x].size = v[x].size
    BY <1>17, <1>18, <1>20, <1>21, <2>1
  <2>3. Teselada(s, w)
    BY <2>2, TeselaIgual
  <2>4. EspacioLibre(s, w) = EspacioLibre(s, v) + v[o].size
    BY <2>2, LibreMarca
  <2> QED BY <1>21, <2>1, <2>3, <2>4
<1>23. EspacioLibre(t[n], v) \in Int /\ b.size \in Int
  BY <1>17, <1>18, LibreIgual, TeselaEs
<1>24. \A x \in PaginasHeap : x # n => Contenido'[x] = Contenido[x]
  BY <1>6 DEF Cambia
<1>25. Teselado(t)'
  <2>1. ASSUME NEW x \in PaginasHeap PROVE Teselada(t[x], Vista(Contenido', k, x))
    <3>1. CASE x = n
      BY <1>0, <1>8, <1>9, <1>22, <3>1
    <3>2. CASE x # n
      <4>1. Teselada(t[x], Vista(Contenido, k, x))
        BY <1>0, <1>1 DEF BloquesDe, Teselado, Teselas
      <4> QED BY <1>8, <1>9, <1>24, <3>2, <4>1
    <3> QED BY <3>1, <3>2
  <2> QED BY <1>0, <1>6, <2>1 DEF Teselado, Teselas
<1>26. EnUsoBien(t)'
  <2>1. ASSUME NEW d \in bloques \cup F PROVE EnUso(t, Contenido', k, PaginasHeap, d)
    <3>1. EnUso(t, Contenido, k, PaginasHeap, d)
      BY <1>12, <1>14 DEF BloquesEnUso
    <3>2. PaginaDe(d) \in PaginasHeap /\ EsInicio(t[PaginaDe(d)], d.offset)
      BY <3>1 DEF EnUso
    <3>3. Contenido'[PaginaDe(d)][d.offset] = Contenido[PaginaDe(d)][d.offset]
      BY <1>0, <1>15, <1>20, <1>24, <3>2
    <3> QED BY <3>1, <3>3 DEF EnUso
  <2>2. BloquesEnUso(t, Contenido', k, PaginasHeap, bloques, F)
    BY <1>12, <1>14, <2>1 DEF BloquesEnUso
  <2> QED BY <1>0, <1>6, <1>10, <2>2 DEF EnUsoBien
<1>27. Contado(t)'
  <2>0. PICK r, i, h : r = Reservado(pide) /\ i = PorSumar(Contenido, libera) /\ h = PorSumar(Contenido', libera)
    OBVIOUS
  <2>1. i = SinCuenta /\ h.nodo = n /\ h.cuanto = b.size
    BY <1>0, <1>2, <1>3, <1>5, <1>11, <2>0 DEF PorSumar
  <2>2. r = SinCuenta
    <3>1. pide.pc \notin Cortando
      BY <1>7 DEF Cortando, ConMutex
    <3> QED BY <2>0, <3>1, SinCortar
  <2>3. ASSUME NEW j \in DOMAIN listaAdmHeap, NEW x, x = PaginaDe(listaAdmHeap[j]), x \in PaginasHeap
        PROVE  listaAdmHeap[j].disponible + Cuanto(r, x) + Cuanto(h, x)
                 <= EspacioLibre(t[x], Vista(Contenido', k, x))
    <3>1. listaAdmHeap[j].disponible + Cuanto(r, x) + Cuanto(i, x) <= EspacioLibre(t[x], Contenido[x])
      BY <1>0, <1>1, <1>8, <1>9, <2>0, <2>3 DEF BloquesDe, Contado, Espacio
    <3>2. listaAdmHeap[j].disponible \in Int /\ Cuanto(r, x) = 0 /\ Cuanto(i, x) = 0
      BY <1>1, <2>1, <2>2, <2>3, ContadoTipo
    <3>3. CASE x = n
      <4>1. Cuanto(h, x) = b.size
        BY <2>1, <3>3 DEF Cuanto
      <4>2. EspacioLibre(t[x], Vista(Contenido', k, x)) = EspacioLibre(t[n], v) + b.size
        BY <1>0, <1>8, <1>9, <1>22, <2>3, <3>3
      <4>3. listaAdmHeap[j].disponible + 0 + 0 <= EspacioLibre(t[n], v)
        BY <1>0, <3>1, <3>2, <3>3
      <4> QED BY <1>23, <3>2, <4>1, <4>2, <4>3
    <3>4. CASE x # n
      <4>1. Cuanto(h, x) = 0
        BY <2>1, <3>4 DEF Cuanto
      <4>2. Vista(Contenido', k, x) = Contenido[x]
        BY <1>8, <1>9, <1>24, <2>3, <3>4
      <4> QED BY <3>1, <3>2, <4>1, <4>2
    <3> QED BY <3>3, <3>4
  <2> QED BY <1>0, <1>6, <2>0, <2>3 DEF Contado, Espacio
<1>28. Nodo(pide) \in PaginasHeap /\ pide.pc # "espera" => Contenido'[Nodo(pide)] = Contenido[Nodo(pide)]
  <2>1. pide.pc # "espera" => Nodo(pide) # n
    BY <1>0, <1>1, <1>3, NodosAparte
  <2> QED BY <1>24, <2>1
<1>29. PasoPide(t, Contenido, pide, PaginasHeap, listaAdmHeap, sems.pagina, abortoPorFaltaDeMemoria)
  BY <1>1 DEF BloquesDe, PideBien
<1>30. PideBien(t)'
  <2>1. pide.pc \notin {"leeViejo", "reservaPagina", "paginaNueva", "escribeBloque", "escribeResto"}
    BY <1>7 DEF ConMutex
  <2>2. PasoPide(t, Contenido', pide, PaginasHeap, listaAdmHeap, sems'.pagina, abortoPorFaltaDeMemoria)
    BY <1>28, <1>29, <2>1 DEF PasoPide, EnBloque, BloqueBueno
  <2> QED BY <1>6, <2>2 DEF PideBien
<1>31. LiberaBien'
  <2>1. PasoLibera(Contenido', pide, libera, PaginasHeap)
    BY <1>4, <1>11 DEF PasoLibera
  <2> QED BY <1>6, <2>1 DEF LiberaBien
<1>32. EscriturasPide(t, Contenido', pide) = EscriturasPide(t, Contenido, pide)
  <2>1. pide.pc \in {"compactado", "leeActual", "leeBloque"} => Nodo(pide) \in PaginasHeap
    BY <1>29 DEF PasoPide, EnBloque
  <2> QED BY <1>28, <2>1 DEF EscriturasPide
<1>33. PICK q, W, L : q = aMemoria /\ W = EscriturasPide(t, Contenido, pide) /\ L = LecturasDe(pide, libera)
  OBVIOUS
<1>34. Escribiendo(t)'
  <2>1. PICK M : M = Marcas(Contenido, libera)
    OBVIOUS
  <2>2. Escrituras(q, W, M)
    BY <1>1, <1>33, <2>1 DEF BloquesDe, Escribiendo
  <2>3. Menguo(q, aMemoria') /\ Head(q).op = "escribe" /\ Head(q) \in M
    BY <1>33, <2>1, EscritaEs
  <2>4. Escrituras(aMemoria', W, {})
    BY <2>2, <2>3, EscriturasMarcada
  <2> QED BY <1>11, <1>32, <1>33, <2>4 DEF Escribiendo
<1>35. Leyendo(t)'
  <2>1. /\ UnoLee(pide, libera) /\ Lecturas(q, L) /\ Leido(Contenido, pide, libera, sems.meta, metaDataLeida)
        /\ FusionAntes(q, W, sems.meta, pide)
    BY <1>1, <1>33 DEF BloquesDe, Leyendo
  <2>2. Lecturas(aMemoria', L)
    BY <1>33, <2>1, EscritaEs, LecturasMenos
  <2>3. FusionAntes(aMemoria', W, sems.meta, pide)
    BY <1>33, <2>1, EscritaEs, FusionMenos
  <2>4. LeyendoMetadata(pide) => Nodo(pide) \in PaginasHeap /\ pide.pc # "espera"
    <3>1. pide.pc # "lee"
      BY <1>1, OciosoTipo DEF TiposHeap, HilosPide, PasosPide, EsperaEscritura
    <3> QED BY <1>7, <1>29, <3>1 DEF LeyendoMetadata, ConMutex, PasoPide, EnBloque
  <2>5. Leido(Contenido', pide, libera, sems.meta, metaDataLeida)
    BY <1>28, <2>1, <2>4 DEF Leido
  <2> QED BY <1>6, <1>32, <1>33, <2>1, <2>2, <2>3, <2>5 DEF Leyendo
<1>36. Distintas'
  BY <1>1, <1>6 DEF BloquesDe, Distintas
<1> QED BY <1>25, <1>26, <1>27, <1>30, <1>31, <1>34, <1>35, <1>36 DEF BloquesDe

\* Memoria serves a message.
LEMMA BloquesContesta ==
  ASSUME NEW t, Antes(t), Despues, Contesta
  PROVE  \E u : BloquesDe(u)'
<1>1. /\ aMemoria # <<>> /\ aMemoria' = Tail(aMemoria) /\ UNCHANGED <<pide, libera>>
      /\ CInicia \/ CPide \/ CLee \/ CEscribe \/ CLibera \/ CRompe
  BY ContestaEs
<1>2. CASE CInicia
  BY <1>1, <1>2, BloquesInicia
<1>3. CASE CPide
  BY <1>1, <1>3, BloquesAsigna
<1>4. CASE CLee
  BY <1>1, <1>4, BloquesLee
<1>5. CASE CLibera
  BY <1>1, <1>5, BloquesBaja
<1>6. CASE CRompe
  BY <1>1, <1>6, NadaRompe
<1>7. CASE CEscribe
  <2>1. CASE Primero \in Marcas(Contenido, libera)
    BY <1>1, <1>7, <2>1, BloquesMarcado
  <2>2. CASE Primero \in EscriturasPide(t, Contenido, pide)
    <3>1. pide.pc \in {"compactado", "leeActual", "leeBloque", "paginaNueva", "escribeBloque", "escribeResto"}
      BY <2>2 DEF EscriturasPide
    <3>2. CASE pide.pc \in {"compactado", "leeActual", "leeBloque"}
      BY <1>1, <1>7, <2>2, <3>2, BloquesFundido
    <3>3. CASE pide.pc = "paginaNueva"
      BY <1>1, <1>7, <2>2, <3>3, BloquesPaginaNueva
    <3>4. CASE pide.pc \in {"escribeBloque", "escribeResto"}
      BY <1>1, <1>7, <2>2, <3>4, BloquesCortado
    <3> QED BY <3>1, <3>2, <3>3, <3>4
  <2> QED BY <1>1, <1>7, <2>1, <2>2, EscritaEs
<1> QED BY <1>1, <1>2, <1>3, <1>4, <1>5, <1>6, <1>7

-----------------------------------------------------------------------------
(* The invariant of the blocks.                                             *)

LEMMA BloquesInicio == InitHeap => InvBloques
<1> SUFFICES ASSUME InitHeap PROVE InvBloques
  OBVIOUS
<1>1. InvMarcos
  BY HilosInicio, MarcosInicio DEF InvMarcos
<1>2. /\ aMemoria = <<>> /\ bloques = {} /\ colaLiberaHeap = <<>> /\ listaAdmHeap = <<>> /\ fallo = "no"
      /\ pide = Ocioso /\ libera = Ocioso /\ sems = [meta |-> 0, pagina |-> 0, reservo |-> 0]
  BY DEF InitHeap
<1>3. pide.pc = "espera" /\ libera.pc = "espera" /\ sems.meta = 0
  BY <1>2 DEF Ocioso
<1>4. PaginasHeap = {} /\ DOMAIN listaAdmHeap = {} /\ DOMAIN aMemoria = {} /\ ToSet(colaLiberaHeap) = {}
  BY <1>2 DEF PaginasHeap, ToSet
<1>5. PICK t : t = <<>>
  OBVIOUS
<1>6. Teselado(t) /\ Contado(t)
  BY <1>4 DEF Teselado, Teselas, Contado, Espacio
<1>7. ~LeyendoMetadata(pide) /\ ~LeyendoMetadata(libera)
  BY <1>3 DEF LeyendoMetadata
<1>8. Escribiendo(t)
  <2>1. Marcas(Contenido, libera) = {}
    BY <1>3 DEF Marcas, Marcando
  <2> QED BY <1>4, <2>1 DEF Escribiendo, Escrituras, Sitio
<1>9. Leyendo(t)
  <2>1. Lecturas(aMemoria, LecturasDe(pide, libera))
    BY <1>4 DEF Lecturas, Sitio
  <2>2. FusionAntes(aMemoria, EscriturasPide(t, Contenido, pide), sems.meta, pide)
    BY <1>7 DEF FusionAntes
  <2>3. Leido(Contenido, pide, libera, sems.meta, metaDataLeida)
    BY <1>3 DEF Leido
  <2> QED BY <1>7, <2>1, <2>2, <2>3 DEF Leyendo, UnoLee
<1>10. PideBien(t)
  BY <1>3 DEF PideBien, PasoPide
<1>11. LiberaBien
  BY <1>3 DEF LiberaBien, PasoLibera
<1>12. EnUsoBien(t)
  <2>1. EnLiberacion(colaLiberaHeap, Contenido, libera) = {}
    BY <1>3, <1>4 DEF EnLiberacion, Marcando
  <2> QED BY <1>2, <2>1 DEF EnUsoBien, BloquesEnUso
<1>13. Distintas
  BY <1>4 DEF Distintas, PaginasDistintas
<1>14. BloquesDe(t)
  BY <1>6, <1>8, <1>9, <1>10, <1>11, <1>12, <1>13 DEF BloquesDe
<1> QED BY <1>1, <1>2, <1>14 DEF InvBloques

LEMMA BloquesPaso ==
  ASSUME InvBloques, [NextHeap]_vars
  PROVE  InvBloques'
<1>1. InvMarcos /\ InvMarcos'
  BY MarcosPaso DEF InvBloques
<1>2. TiposHeap /\ TiposHeap'
  BY <1>1 DEF InvMarcos, InvHilos
<1> SUFFICES ASSUME historia' = {} PROVE fallo' = "no" /\ \E u : BloquesDe(u)'
  BY <1>1 DEF InvBloques
<1>3. historia = {}
  BY <1>2, HistoriaCrece
<1>4. fallo = "no"
  BY <1>3 DEF InvBloques
<1>5. PICK t : BloquesDe(t)
  BY <1>3 DEF InvBloques
<1>6. Antes(t)
  BY <1>1, <1>2, <1>3, <1>4, <1>5 DEF Antes, InvMarcos, InvHilos
<1>7. CASE UNCHANGED vars
  <2>1. /\ UNCHANGED <<contenido, estado, bloques, colaLiberaHeap, aMemoria, metaDataLeida, sems, pide, libera,
                       listaAdmHeap, ultimaPagina, abortoPorFaltaDeMemoria, fallo>>
    BY <1>7 DEF vars, memoria, programas, respuestas, admin
  <2>2. Contenido' = Contenido
    BY <2>1, ContenidoQueda
  <2>3. PaginasHeap' = PaginasHeap
    BY <2>1 DEF PaginasHeap, Cargados
  <2>4. Teselado(t)' /\ EnUsoBien(t)' /\ Contado(t)' /\ Distintas' /\ LiberaBien'
    BY <1>5, <2>1, <2>2, <2>3, BloquesQuietos, LiberaQuieta
  <2>5. Escribiendo(t)' /\ Leyendo(t)' /\ PideBien(t)'
    BY <1>5, <2>1, <2>2, <2>3 DEF BloquesDe, Escribiendo, Leyendo, PideBien
  <2> QED BY <1>4, <2>1, <2>4, <2>5 DEF BloquesDe
<1>8. CASE NextHeap
  <2>1. ~UsaLiberada
    <3> SUFFICES ASSUME UsaLiberada PROVE FALSE
      OBVIOUS
    <3>1. sems.meta > 0 /\ metaDataLeida = Nada
      BY <1>2, UsaLiberadaHace
    <3>2. metaDataLeida \in Celdas
      BY <1>5, <3>1 DEF BloquesDe, Leyendo, Leido
    <3> QED BY <3>1, <3>2, CeldaTipo
  <2>2. Programas \/ Contesta \/ ProcesarHeap \/ LiberarHeap
    BY <1>8, <2>1 DEF NextHeap
  <2>3. fallo' = "no"
    <3>1. CASE Contesta
      <4>1. /\ aMemoria # <<>> /\ aMemoria' = Tail(aMemoria)
            /\ CInicia \/ CPide \/ CLee \/ CEscribe \/ CLibera \/ CRompe
        BY <3>1, ContestaEs
      <4>2. ~CRompe
        BY <1>6, <4>1, NadaRompe
      <4> QED BY <1>4, <4>1, <4>2 DEF CInicia, CPide, CLee, CEscribe, CLibera, Inicia, Asigna
    <3>2. CASE Programas
      BY <1>4, <3>2 DEF Programas, Llega, Reserva, Libera, Termina
    <3>3. CASE ProcesarHeap
      BY <1>4, <3>3 DEF ProcesarHeap, PideToma, PideActual, PideSiguiente, PideCompactado, PideBloque, PidePagina,
                        PideReservada, PideRegistra, PideReserva, PideCabecera, PideResto, PideTermina, PideRecibe
    <3>4. CASE LiberarHeap
      BY <1>4, <3>4 DEF LiberarHeap, LiberaToma, LiberaLee, LiberaEscribe, LiberaEscrito, LiberaLista
    <3> QED BY <2>2, <3>1, <3>2, <3>3, <3>4
  <2>4. Despues
    BY <1>1, <1>2, <2>3 DEF Despues, InvMarcos, InvHilos
  <2> QED BY <1>6, <2>2, <2>3, <2>4, BloquesProgramas, BloquesContesta, BloquesPide, BloquesLibera
<1> QED BY <1>7, <1>8

\* The blocks of the heap, in every execution: unless a reading was mixed up, a block joined
\* with one of the next frame or a frame asked by two pages, the blocks of each page follow
\* one another, those in use are as they were given and no header is used once it is
\* freed (InvBloques).
THEOREM BloquesSiempre == SpecHeap => []InvBloques
<1>1. InitHeap => InvBloques
  BY BloquesInicio
<1>2. InvBloques /\ [NextHeap]_vars => InvBloques'
  BY BloquesPaso
<1> QED BY <1>1, <1>2, PTL DEF SpecHeap

-----------------------------------------------------------------------------
(* What the invariant of the blocks says.                                   *)

\* Going from each block to the next gives all the blocks of the page.
LEMMA IniciosEs ==
  ASSUME NEW s, NEW v, NEW e, Teselada(s, v),
         \A o \in 0 .. MARCOS_SIZE - 1 : Celda(e, o).size = v[o].size
  PROVE  Inicios(e) = s
<1> DEFINE M == MARCOS_SIZE
           T == SUBSET s
           Avanza(x) == x \cup {o + 1 + Celda(e, o).size : o \in {y \in x : y < M}}
           Es(h) == h = [i \in 0 .. M |-> IF i = 0 THEN {0}
                                          ELSE LET antes == h[i - 1]
                                               IN  antes \cup {o + 1 + Celda(e, o).size : o \in {x \in antes : x < M}}]
           h == CHOOSE f : Es(f)
           g == [y \in (1 .. M) \X T |-> Avanza(y[2])]
<1>1. Inicios(e) = h[M]
  BY DEF Inicios
<1>2. /\ M \in Nat \ {0} /\ 0 \in s /\ M \in s
      /\ \A x \in s : x \in Nat /\ x <= M
      /\ \A o \in s : o < M => /\ Celda(e, o).size = v[o].size /\ v[o].size \in Nat
                               /\ o + 1 + Celda(e, o).size = Tras(v, o) /\ Tras(v, o) \in s
                               /\ \A x \in s : x <= o \/ x >= Tras(v, o)
  <2>1. \A o \in s : o < M => o \in 0 .. MARCOS_SIZE - 1
    BY DimensionTipo DEF Teselada
  <2> QED BY <2>1, DimensionTipo DEF Teselada, Tras
<1>3. \A x \in T : Avanza(x) \in T
  <2> SUFFICES ASSUME NEW x \in T, NEW z \in Avanza(x) PROVE z \in s
    OBVIOUS
  <2>1. CASE z \in x
    BY <2>1
  <2>2. CASE \E o \in x : o < M /\ z = o + 1 + Celda(e, o).size
    BY <1>2, <2>2
  <2> QED BY <2>1, <2>2
<1>4. \A i \in 1 .. M, x \in T : g[<<i, x>>] = Avanza(x)
  OBVIOUS
<1>5. {0} \in T
  BY <1>2
<1> HIDE DEF g, T, M
<1>6. PICK f : f \in Recursivas(T, M, {0}, g)
  <2>1. EsPaso(T, M, g)
    BY <1>3, <1>4 DEF EsPaso
  <2> QED BY <1>2, <1>5, <2>1, FuncionRecursiva
<1>7. f \in [0 .. M -> T] /\ f[0] = {0} /\ \A i \in 1 .. M : f[i] = Avanza(f[i - 1])
  <2>1. /\ f \in [0 .. M -> T] /\ f[0] = {0} /\ \A i \in 1 .. M : f[i] = g[<<i, f[i - 1]>>]
    BY <1>6 DEF Recursivas
  <2>2. \A i \in 1 .. M : i - 1 \in 0 .. M
    BY <1>2
  <2> QED BY <1>4, <2>1, <2>2
<1>8. Es(f)
  <2>1. \A i \in 0 .. M : i = 0 \/ i \in 1 .. M
    BY <1>2
  <2>2. f = [i \in 0 .. M |-> f[i]]
    BY <1>7
  <2>3. \A i \in 0 .. M : f[i] = IF i = 0 THEN {0} ELSE Avanza(f[i - 1])
    BY <1>2, <1>7, <2>1
  <2> QED BY <2>2, <2>3
<1>9. Es(h)
  BY <1>8
<1> HIDE DEF h
<1>10. h[0] = {0} /\ \A i \in 1 .. M : h[i] = Avanza(h[i - 1])
  <2>1. 0 \in 0 .. M /\ \A i \in 1 .. M : i \in 0 .. M /\ i # 0
    BY <1>2
  <2>2. h = [i \in 0 .. M |-> IF i = 0 THEN {0} ELSE Avanza(h[i - 1])]
    BY <1>9
  <2> HIDE DEF Avanza
  <2>3. \A i \in 0 .. M : h[i] = IF i = 0 THEN {0} ELSE Avanza(h[i - 1])
    BY ONLY <2>2, Zenon
  <2> QED BY <2>1, <2>3
\* After i steps there are all the blocks up to i.
<1> DEFINE S == {i \in Nat : i <= M => h[i] \subseteq s /\ \A x \in s : x <= i => x \in h[i]}
<1>11. 0 \in S
  <2>1. \A x \in s : x <= 0 => x = 0
    BY <1>2
  <2> QED BY <1>2, <1>10, <2>1
<1>12. ASSUME NEW i \in Nat, i \in S PROVE i + 1 \in S
  <2> SUFFICES ASSUME i + 1 <= M
               PROVE  h[i + 1] \subseteq s /\ \A x \in s : x <= i + 1 => x \in h[i + 1]
    OBVIOUS
  <2>1. i <= M /\ i + 1 \in 1 .. M /\ (i + 1) - 1 = i
    BY <1>2
  <2>2. h[i] \subseteq s /\ \A x \in s : x <= i => x \in h[i]
    BY <1>12, <2>1
  <2>3. h[i + 1] = Avanza(h[i])
    BY <1>10, <2>1
  <2>4. h[i + 1] \subseteq s
    BY <1>3, <2>2, <2>3 DEF T
  <2>5. ASSUME NEW x \in s, x = i + 1 PROVE x \in h[i + 1]
    <3> DEFINE A == {y \in s : y < x}
    <3>1. PICK o \in A : \A y \in A : y <= o
      <4> DEFINE B == {i - y : y \in A}
      <4>1. \A y \in A : y \in Nat /\ i - y \in Nat
        BY <1>2, <2>5
      <4>2. B \subseteq Nat /\ B # {}
        <5>1. 0 \in A
          BY <1>2, <2>5
        <5> QED BY <4>1, <5>1
      <4>3. PICK m \in B : \A k \in B : m <= k
        BY <4>2, MinimoNatural
      <4>4. PICK y \in A : m = i - y
        BY <4>3
      <4>5. ASSUME NEW z \in A PROVE z <= y
        <5>1. i - z \in B
          OBVIOUS
        <5>2. i - y <= i - z
          BY <4>3, <4>4, <5>1
        <5> QED BY <4>1, <5>2
      <4> QED BY <4>5
    <3>2. o \in s /\ o < x /\ x <= M /\ o \in Nat /\ x \in Nat
      BY <1>2
    <3>3. o < M
      BY <1>2, <3>2
    <3>4. /\ Tras(v, o) = o + 1 + Celda(e, o).size /\ Tras(v, o) \in s /\ Tras(v, o) \in Nat
          /\ x <= o \/ x >= Tras(v, o)
      BY <1>2, <3>2, <3>3
    <3>5. Tras(v, o) > o
      BY <1>2, <3>2, <3>3, <3>4
    <3>6. ~(Tras(v, o) < x)
      BY <3>1, <3>2, <3>4, <3>5
    <3>7. x = Tras(v, o)
      BY <3>2, <3>4, <3>6
    <3>8. o \in h[i]
      BY <2>2, <2>5, <3>2
    <3> QED BY <2>3, <3>3, <3>4, <3>7, <3>8
  <2>6. ASSUME NEW x \in s, x <= i PROVE x \in h[i + 1]
    BY <2>2, <2>3, <2>6
  <2>7. \A x \in s : x <= i + 1 => x <= i \/ x = i + 1
    BY <1>2
  <2> QED BY <2>4, <2>5, <2>6, <2>7
<1>13. M \in S
  <2> HIDE DEF S
  <2> QED BY <1>2, <1>11, <1>12, InduccionNat
<1>14. h[M] = s
  BY <1>2, <1>13
<1> QED BY <1>1, <1>14

\* What Memoria would read of a page of the heap.
LEMMA CeldaEs ==
  ASSUME TiposHeap, Marcos, NEW e, NEW n, n = PaginaDe(e), n \in PaginasHeap, NEW o \in 0 .. MARCOS_SIZE - 1
  PROVE  Celda(e, o) = Contenido[n][o]
<1>1. n \in Paginas /\ EnSuMarco(n) /\ n = Pagina(e.pid, e.pagina)
  BY PaginasHeapSon DEF PaginaDe
<1>2. Direccion(n, o) = Marco(n) * MARCOS_SIZE + o /\ Marco(n) \in Nat
  BY <1>1, FrameDeEs
<1>3. Direccion(n, o) \in Int
  BY <1>2, DimensionTipo
<1>4. Celda(e, o) = IF Direccion(n, o) \in DOMAIN contenido THEN contenido[Direccion(n, o)] ELSE Otro
  BY <1>1, <1>3, LeeUna DEF Celda
<1> QED BY <1>1, <1>2, <1>4, ContenidoEs

\* The pages of Enteras are tiled, and no block of them is being cut.
LEMMA EnteraEs ==
  ASSUME InvBloques, Ordenado, NEW t, BloquesDe(t), NEW j \in Enteras, NEW n, n = PaginaDe(listaAdmHeap[j])
  PROVE  /\ n \in PaginasHeap /\ Teselada(t[n], Contenido[n]) /\ Vista(Contenido, Corte(pide), n) = Contenido[n]
         /\ Inicios(listaAdmHeap[j]) = t[n]
         /\ \A o \in 0 .. MARCOS_SIZE - 1 : Celda(listaAdmHeap[j], o) = Contenido[n][o]
<1>1. TiposHeap /\ Marcos /\ j \in DOMAIN listaAdmHeap /\ estado[listaAdmHeap[j].pid] # "fin"
  BY DEF InvBloques, InvMarcos, InvHilos, Ordenado, Enteras
<1>2. PICK e : e = listaAdmHeap[j]
  OBVIOUS
<1>3. e.pid \in Cargados
  <2>1. e \in Entradas
    BY <1>1, <1>2, EnLista DEF TiposHeap
  <2>2. e.pid \in Pids
    BY <2>1 DEF Entradas
  <2>3. estado[e.pid] \in Estados /\ estado[e.pid] \notin {"nuevo", "carga"}
    BY <1>1, <1>2, <2>2 DEF TiposHeap, Marcos, Administradas
  <2> QED BY <1>1, <1>2, <2>2, <2>3 DEF Cargados, Estados
<1>4. n \in PaginasHeap
  BY <1>1, <1>2, <1>3 DEF PaginasHeap
<1>5. Vista(Contenido, Corte(pide), n) = Contenido[n]
  <2>1. n \in Paginas
    BY <1>1, <1>4, PaginasHeapSon
  <2>2. CASE pide.pc \in {"escribeBloque", "escribeResto"}
    <3>1. Nodo(pide) # n
      BY <2>2 DEF Enteras, PaginaDe
    <3>2. Corte(pide).nodo = Nodo(pide)
      BY <2>2 DEF Corte
    <3> QED BY <3>1, <3>2 DEF Vista
  <2>3. CASE pide.pc \notin {"escribeBloque", "escribeResto"}
    BY <2>1, <2>3, SinCorteVista
  <2> QED BY <2>2, <2>3
<1>6. Teselada(t[n], Contenido[n])
  BY <1>4, <1>5 DEF BloquesDe, Teselado, Teselas
<1>7. \A o \in 0 .. MARCOS_SIZE - 1 : Celda(e, o) = Contenido[n][o]
  BY <1>1, <1>2, <1>4, CeldaEs
<1>8. Inicios(e) = t[n]
  <2>1. PICK s, v : s = t[n] /\ v = Contenido[n]
    OBVIOUS
  <2>2. Teselada(s, v) /\ \A o \in 0 .. MARCOS_SIZE - 1 : Celda(e, o).size = v[o].size
    BY <1>6, <1>7, <2>1
  <2>3. Inicios(e) = s
    BY <2>2, IniciosEs
  <2> QED BY <2>1, <2>3
<1> QED BY <1>2, <1>4, <1>5, <1>6, <1>7, <1>8

LEMMA InvCadena == InvBloques => CadenaIntacta
<1> SUFFICES ASSUME InvBloques, Ordenado, NEW j \in Enteras PROVE MARCOS_SIZE \in Inicios(listaAdmHeap[j])
  BY DEF CadenaIntacta
<1>1. PICK t : BloquesDe(t)
  BY DEF InvBloques, Ordenado
<1>2. PICK n : n = PaginaDe(listaAdmHeap[j])
  OBVIOUS
<1>3. Teselada(t[n], Contenido[n]) /\ Inicios(listaAdmHeap[j]) = t[n]
  BY <1>1, <1>2, EnteraEs
<1> QED BY <1>3 DEF Teselada

LEMMA InvVigentes == InvBloques => BloquesVigentes
<1> SUFFICES ASSUME InvBloques, Ordenado, NEW b \in bloques
             PROVE  /\ Celda(b, b.offset) = [isFree |-> 1, size |-> b.size]
                    /\ b.offset + 1 + b.size <= MARCOS_SIZE
                    /\ \A c \in bloques \ {b} :
                         b.pid = c.pid /\ b.pagina = c.pagina =>
                           b.offset + b.size < c.offset \/ c.offset + c.size < b.offset
  BY DEF BloquesVigentes
<1>1. TiposHeap /\ Marcos
  BY DEF InvBloques, InvMarcos, InvHilos, Ordenado
<1>2. PICK t : BloquesDe(t)
  BY DEF InvBloques, Ordenado
<1>3. PICK n, v, s : n = PaginaDe(b) /\ v = Vista(Contenido, Corte(pide), n) /\ s = t[n]
  OBVIOUS
<1>4. BloquesEnUso(t, Contenido, Corte(pide), PaginasHeap, bloques, EnLiberacion(colaLiberaHeap, Contenido, libera))
  BY <1>2 DEF BloquesDe, EnUsoBien
<1>5. n \in PaginasHeap
  BY <1>3, <1>4 DEF BloquesEnUso, EnUso
<1>6. Teselada(s, v) /\ n \in Paginas
  BY <1>1, <1>2, <1>3, <1>5, PaginasHeapSon DEF BloquesDe, Teselado, Teselas
<1>7. ASSUME NEW c \in bloques, PaginaDe(c) = n
      PROVE  /\ EsInicio(s, c.offset) /\ Contenido[n][c.offset] = [isFree |-> 1, size |-> c.size]
             /\ c.offset \in 0 .. MARCOS_SIZE - 1 /\ c.offset \in Nat /\ c.size \in Nat /\ c.offset \in s
             /\ c.offset + 1 + c.size <= MARCOS_SIZE
             /\ \A x \in s : x \in Nat /\ (x <= c.offset \/ x >= c.offset + 1 + c.size)
  <2>1. /\ EsInicio(s, c.offset) /\ Contenido[n][c.offset] = [isFree |-> 1, size |-> c.size]
        /\ n = Corte(pide).nodo => c.offset # Corte(pide).off
    BY <1>3, <1>4, <1>7 DEF BloquesEnUso, EnUso
  <2>2. c.offset \in Nat /\ c.offset < MARCOS_SIZE /\ c.offset \in 0 .. MARCOS_SIZE - 1
    BY <1>6, <2>1, TeselaEs, DimensionTipo
  <2>3. v[c.offset] = Contenido[n][c.offset]
    BY <1>3, <1>6, <2>1, <2>2 DEF Vista, Contenido
  <2>4. v[c.offset].size = c.size
    BY <2>1, <2>3
  <2>5. /\ c.size \in Nat /\ Tras(v, c.offset) = c.offset + 1 + c.size /\ Tras(v, c.offset) <= MARCOS_SIZE
        /\ \A x \in s : x \in Nat /\ (x <= c.offset \/ x >= Tras(v, c.offset))
    BY <1>6, <2>1, <2>4, TeselaEs
  <2> QED BY <2>1, <2>2, <2>5 DEF EsInicio
<1>8. Celda(b, b.offset) = [isFree |-> 1, size |-> b.size]
  BY <1>1, <1>3, <1>5, <1>7, CeldaEs
<1>9. b.offset + 1 + b.size <= MARCOS_SIZE
  BY <1>3, <1>7
<1>10. ASSUME NEW c \in bloques \ {b}, b.pid = c.pid, b.pagina = c.pagina
       PROVE  b.offset + b.size < c.offset \/ c.offset + c.size < b.offset
  <2>1. PaginaDe(c) = n
    BY <1>3, <1>10 DEF PaginaDe
  <2>2. b.offset # c.offset
    BY <1>3, <1>4, <1>10, <2>1 DEF BloquesEnUso, MismoLugar
  <2>3. /\ c.offset \in Nat /\ c.size \in Nat /\ b.offset \in Nat /\ b.size \in Nat
        /\ c.offset <= b.offset \/ c.offset >= b.offset + 1 + b.size
        /\ b.offset <= c.offset \/ b.offset >= c.offset + 1 + c.size
    BY <1>3, <1>7, <1>10, <2>1
  <2> QED BY <2>2, <2>3
<1> QED BY <1>8, <1>9, <1>10

\* The space of some blocks, as Memoria would read them.
EspacioLeido(e, S) == FoldSet(LAMBDA o, n : Celda(e, o).size + n, 0, S)

LEMMA LeidoEs ==
  ASSUME NEW e, NEW S, NEW v, \A o \in S : Celda(e, o).size = v[o].size
  PROVE  EspacioLeido(e, S) = EspacioDe(v, S)
<1> DEFINE F(it) == [s \in SUBSET S |->
                       IF s = {} THEN 0
                       ELSE Celda(e, CHOOSE x \in s : TRUE).size + it[s \ {CHOOSE x \in s : TRUE}]]
           G(it) == [s \in SUBSET S |->
                       IF s = {} THEN 0
                       ELSE v[CHOOSE x \in s : TRUE].size + it[s \ {CHOOSE x \in s : TRUE}]]
<1>1. EspacioLeido(e, S) = (CHOOSE it : it = F(it))[S]
  BY Zenon DEF EspacioLeido, FoldSet, MapThenFoldSet
<1>2. EspacioDe(v, S) = (CHOOSE it : it = G(it))[S]
  BY Zenon DEF EspacioDe, FoldSet, MapThenFoldSet
<1>3. ASSUME NEW it PROVE F(it) = G(it)
  <2>1. ASSUME NEW s \in SUBSET S, s # {} PROVE (CHOOSE x \in s : TRUE) \in S
    BY <2>1
  <2>2. \A s \in SUBSET S : s # {} => Celda(e, CHOOSE x \in s : TRUE).size = v[CHOOSE x \in s : TRUE].size
    BY <2>1
  <2> QED BY <2>2
<1> HIDE DEF F, G
<1>4. (CHOOSE it : it = F(it)) = (CHOOSE it : it = G(it))
  BY <1>3
<1> QED BY <1>1, <1>2, <1>4

LEMMA InvDisponible == InvBloques => DisponibleNoSobra
<1> SUFFICES ASSUME InvBloques, Ordenado, NEW j \in Enteras
             PROVE  listaAdmHeap[j].disponible <=
                      EspacioLeido(listaAdmHeap[j], {o \in Inicios(listaAdmHeap[j]) \ {MARCOS_SIZE} :
                                                       Celda(listaAdmHeap[j], o).isFree = -1})
  BY Zenon DEF DisponibleNoSobra, EspacioLeido
<1>0. PICK e, S : /\ e = listaAdmHeap[j]
                  /\ S = {o \in Inicios(e) \ {MARCOS_SIZE} : Celda(e, o).isFree = -1}
  OBVIOUS
<1>1. TiposHeap /\ Lugares /\ j \in DOMAIN listaAdmHeap
  BY DEF InvBloques, InvMarcos, InvHilos, Hilos, Ordenado, Enteras
<1>2. PICK t : BloquesDe(t)
  BY DEF InvBloques, Ordenado
<1>3. PICK n, v, s : n = PaginaDe(e) /\ v = Contenido[n] /\ s = t[n]
  OBVIOUS
<1>4. /\ n \in PaginasHeap /\ Teselada(s, v) /\ Vista(Contenido, Corte(pide), n) = v /\ Inicios(e) = s
      /\ \A o \in 0 .. MARCOS_SIZE - 1 : Celda(e, o) = v[o]
  BY <1>0, <1>2, <1>3, EnteraEs
<1>5. \A o \in s \ {MARCOS_SIZE} : Celda(e, o) = v[o]
  <2>1. \A o \in s \ {MARCOS_SIZE} : o \in 0 .. MARCOS_SIZE - 1
    BY <1>4, IniciosSon, TeselaEs, DimensionTipo
  <2> QED BY <1>4, <2>1
<1>6. S = BloquesLibres(s, v)
  BY <1>0, <1>4, <1>5 DEF BloquesLibres
<1>7. EspacioLeido(e, S) = EspacioLibre(s, v)
  <2>1. \A o \in S : Celda(e, o).size = v[o].size
    BY <1>0, <1>4, <1>5
  <2>2. EspacioLeido(e, S) = EspacioDe(v, S)
    BY <2>1, LeidoEs
  <2> QED BY <1>6, <2>2 DEF EspacioLibre
<1>8. e.disponible + Cuanto(Reservado(pide), n) + Cuanto(PorSumar(Contenido, libera), n) <= EspacioLibre(s, v)
  BY <1>0, <1>1, <1>2, <1>3, <1>4 DEF BloquesDe, Contado, Espacio
<1>9. Cuanto(Reservado(pide), n) \in Nat
  <2>1. CASE pide.pc \in Cortando
    <3>1. pide \in Buscando
      BY <1>1, <2>1, PideEspera DEF Cortando
    <3>2. pide.cantidad \in Nat
      BY <3>1, BuscandoTipo
    <3> QED BY <3>2 DEF Cuanto, Reservado, Ocupa, SinCuenta
  <2>2. CASE pide.pc \notin Cortando
    BY <2>2, SinCortar DEF Cuanto, SinCuenta
  <2> QED BY <2>1, <2>2
<1>10. Cuanto(PorSumar(Contenido, libera), n) \in Nat
  <2>1. CASE libera.pc \in {"escribe", "escrito"}
    <3>1. libera.size = libera.b.size
      BY <1>2, <2>1 DEF BloquesDe, LiberaBien, PasoLibera
    <3>2. libera.b \in Bloques
      BY <1>1, <2>1, OciosoTipo DEF TiposHeap, HilosLibera
    <3>3. libera.size \in Nat
      BY <3>1, <3>2 DEF Bloques
    <3> QED BY <3>3 DEF Cuanto, PorSumar, SinCuenta
  <2>2. CASE libera.pc \notin {"escribe", "escrito"}
    BY <2>2 DEF Cuanto, PorSumar, SinCuenta
  <2> QED BY <2>1, <2>2
<1>11. e.disponible \in Int /\ EspacioLibre(s, v) \in Int
  BY <1>0, <1>1, <1>3, <1>4, ContadoTipo, LibreIgual
<1>12. e.disponible <= EspacioLeido(e, S)
  BY <1>7, <1>8, <1>9, <1>10, <1>11
<1> QED BY <1>0, <1>12

\* In every execution where no reading was mixed up, no block joined with one of the next
\* frame and no page lacked its frame, the blocks of every page of the heap follow one
\* another up to its end (CadenaIntacta).
THEOREM CadenaSiempre == SpecHeap => []CadenaIntacta
BY BloquesSiempre, InvCadena, PTL

\* In those executions a block that a program holds is marked as such, with the size
\* that was asked, within its page and apart from the others (BloquesVigentes).
THEOREM VigentesSiempre == SpecHeap => []BloquesVigentes
BY BloquesSiempre, InvVigentes, PTL

\* In those executions the Kernel never counts more space in a page than what its free
\* blocks have (DisponibleNoSobra).
THEOREM DisponibleSiempre == SpecHeap => []DisponibleNoSobra
BY BloquesSiempre, InvDisponible, PTL
-----------------------------------------------------------------------------
\* The loop of the main thread, whose index is moved, only chooses which of the
\* steps of SpecHeap are taken.
THEOREM BucleEsUnOrden == SpecBucle => SpecHeap
<1>1. [NextBucle]_bucle => [NextHeap]_vars
  <2> SUFFICES ASSUME NextBucle PROVE [NextHeap]_vars
    BY DEF bucle
  <2>1. CASE Desbloquea
    BY <2>1 DEF Desbloquea
  <2>2. CASE Atiende
    BY <2>2 DEF NextBucle, NextHeap, Atiende, Programas
  <2> QED BY <2>1, <2>2 DEF NextBucle, NextHeap, Programas
<1> QED BY <1>1, PTL DEF SpecBucle, InitBucle, SpecHeap
=============================================================================
