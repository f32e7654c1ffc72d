------------------------------- MODULE HeapInv -------------------------------
(* The inductive invariants of Heap: of its threads and the answers they wait *)
(* for, of the frames, and of the blocks.                                    *)
EXTENDS Heap, ListasLemas

Estados == {"nuevo", "carga", "corre", "espera", "aborta", "fin"}
Celdas  == [isFree : Int, size : Int]
Paginas == [pid : Pids, pagina : Nat]
Bloques == [pid : Pids, pagina : Nat, offset : Int, size : Nat]
Pedidos == [pid : Pids, cantidad : Nat]
Entradas == [pid : Pids, pagina : Nat, disponible : Int]
Mensajes ==
  [op : {"inicia", "pide", "lee", "escribe"}, nodo : Paginas, offset : Int, celda : Celdas]
    \cup [op : {"libera"}, nodos : SUBSET Paginas]

\* What procesarHeap does while it looks for a block; while it looks in a page
\* that it has found; while it waits for a writing.
EsperaEscritura == {"compactado", "paginaNueva", "escribeBloque", "escribeResto"}
PasosPide ==
  {"leeActual", "leeSiguiente", "leeBloque", "leeViejo", "sinLugar", "reservaPagina", "bloque"}
    \cup EsperaEscritura
ConMutex == {"reservaPagina", "paginaNueva", "leeViejo", "escribeBloque", "escribeResto"}

HilosPide ==
  {Ocioso} \cup [pc : PasosPide, pid : Pids, cantidad : Nat, k : Nat, pagina : Nat,
                 off : Int, size : Int, isFree : Int]
HilosLibera ==
  {Ocioso} \cup [pc : {"lee", "leido", "escribe", "escrito"}, b : Bloques, size : Int]

TiposHeap ==
  /\ estado \in [Pids -> Estados] /\ bloques \subseteq Bloques
  /\ colaHeap \in Seq(Pedidos) /\ colaLiberaHeap \in Seq(Bloques)
  /\ aMemoria \in Seq(Mensajes)
  /\ \A a \in DOMAIN contenido : contenido[a] \in Celdas
  /\ metaDataLeida \in Celdas \cup {Nada}
  /\ sems \in [meta : Nat, pagina : Nat, reservo : Nat]
  /\ mutexMemoria \in {"nadie", "pide", "libera"}
  /\ pide \in HilosPide /\ libera \in HilosLibera
  /\ listaAdmHeap \in Seq(Entradas) /\ ultimaPagina \in [Pids -> Nat]
  /\ abortoPorFaltaDeMemoria \in {0, 1} /\ fallo \in {"no", "ub"}
-----------------------------------------------------------------------------
(* The threads.                                                             *)

\* The programs of the threads.
Pidiendo  == IF pide.pc = "espera" THEN {} ELSE {pide.pid}
Liberando == IF libera.pc = "espera" THEN {} ELSE {libera.b.pid}

\* A program that was asked something is in one place, and waits.
Lugares ==
  /\ SinRepetidos(colaHeap) /\ SinRepetidos(colaLiberaHeap)
  /\ EnCola(colaHeap) \cap EnCola(colaLiberaHeap) = {}
  /\ (EnCola(colaHeap) \cup EnCola(colaLiberaHeap)) \cap (Pidiendo \cup Liberando) = {}
  /\ Pidiendo \cap Liberando = {}
  /\ \A p \in EnCola(colaHeap) \cup EnCola(colaLiberaHeap) \cup Pidiendo \cup Liberando :
       estado[p] = "espera"

DuenioDelMutex ==
  mutexMemoria = IF pide.pc \in ConMutex THEN "pide"
                 ELSE IF libera.pc \in {"lee", "escribe"} THEN "libera" ELSE "nadie"

SinChoque == ~(pide.pc \in ConMutex /\ libera.pc \in {"lee", "escribe"})

\* Every answer, given or to come, has a thread that waits for it.
RespuestasContadas ==
  /\ sems.meta + CuantosDe(aMemoria, "lee")
       = Uno(LeyendoMetadata(pide)) + Uno(LeyendoMetadata(libera))
  /\ sems.pagina + CuantosDe(aMemoria, "escribe")
       = Uno(pide.pc \in EsperaEscritura) + Uno(libera.pc = "escribe")
  /\ sems.reservo + CuantosDe(aMemoria, "pide") = Uno(pide.pc = "reservaPagina")

PidePagina_ ==
  \A i \in DOMAIN aMemoria :
    aMemoria[i].op = "pide" => pide.pc = "reservaPagina" /\ aMemoria[i].nodo.pid = pide.pid

\* A program is loaded once.
Cargas ==
  \A i \in DOMAIN aMemoria : aMemoria[i].op = "inicia" =>
    /\ estado[aMemoria[i].nodo.pid] = "carga" /\ aMemoria[i].nodo.pagina = PaginasIniciales
    /\ \A j \in DOMAIN aMemoria :
         j # i /\ aMemoria[j].op = "inicia" => aMemoria[j].nodo.pid # aMemoria[i].nodo.pid

Hilos ==
  Lugares /\ DuenioDelMutex /\ SinChoque /\ RespuestasContadas /\ PidePagina_ /\ Cargas

InvHilos == TiposHeap /\ (fallo = "no" => Hilos)
-----------------------------------------------------------------------------
(* The frames.                                                              *)

Marco(n) == CalcularPosicion(n.pid, n.pagina)
EnSuMarco(n) == punteroMemoria[Marco(n)] = n
Libres == {f \in Frames : EstaLibre(punteroMemoria, f)}

\* Programs that have their pages.
Cargados == {p \in Pids : estado[p] \in {"corre", "espera", "aborta"}}

TablaBien ==
  /\ punteroMemoria \in [Frames -> Paginas \cup {Nada}]
  /\ overflow = [f \in Frames |-> {}]
  /\ \A f \in Frames : punteroMemoria[f] # Nada => Marco(punteroMemoria[f]) = f
  /\ framesLibres = Cardinality(Libres)

PaginasDadas ==
  \A p \in Cargados :
    /\ p \in DOMAIN ultimaPaginaPid /\ ultimaPaginaPid[p] \in Nat
    /\ ultimaPaginaPid[p] >= PaginasIniciales
    /\ \A i \in Nat : i < ultimaPaginaPid[p] => EnSuMarco(Pagina(p, i))

Administradas ==
  \A j \in DOMAIN listaAdmHeap :
    LET e == listaAdmHeap[j]
    IN  /\ estado[e.pid] \notin {"nuevo", "carga"}
        /\ e.pid \in Cargados => e.pagina < ultimaPaginaPid[e.pid]

\* While procesarHeap asks for a page.
PidiendoPagina == {"reservaPagina", "paginaNueva", "bloque"}

\* The Kernel has counted the page that it asks; Memoria, when it has answered.
CuentaDePide ==
  LET dadas == ultimaPaginaPid[pide.pid]
      contadas == ultimaPagina[pide.pid]
  IN  /\ pide.pc = "reservaPagina" /\ sems.reservo = 0 => pide.pagina = dadas /\ contadas = dadas + 1
      /\ pide.pc = "reservaPagina" /\ sems.reservo > 0 /\ abortoPorFaltaDeMemoria = 0 =>
           pide.pagina + 1 = dadas /\ contadas = dadas
      /\ pide.pc = "paginaNueva" => pide.pagina + 1 = dadas /\ contadas = dadas
      /\ pide.pc = "bloque" /\ abortoPorFaltaDeMemoria = 0 => contadas = dadas

\* The Kernel and Memoria count the same pages, but for the one that is asked;
\* when it is refused the program aborts.
MismaCuenta ==
  /\ \A p \in Pids :
       /\ estado[p] \in {"nuevo", "carga"} => ultimaPagina[p] = PaginasIniciales
       /\ estado[p] \in {"corre", "espera"} /\ ~(p \in Pidiendo /\ pide.pc \in PidiendoPagina) =>
            ultimaPagina[p] = ultimaPaginaPid[p]
  /\ CuentaDePide

PaginaConcedida == pide.pc = "paginaNueva" => abortoPorFaltaDeMemoria = 0

\* The pages of a program are freed once.
Bajas ==
  \A i \in DOMAIN aMemoria : aMemoria[i].op = "libera" =>
    /\ IsFiniteSet(aMemoria[i].nodos)
    /\ \A n \in aMemoria[i].nodos : estado[n.pid] = "fin" /\ EnSuMarco(n)
    /\ \A j \in DOMAIN aMemoria :
         j # i /\ aMemoria[j].op = "libera" => aMemoria[j].nodos \cap aMemoria[i].nodos = {}

\* The table t with the pages of p whose numbers, from 1, are in s; and how
\* inicializarPrograma comes to it.
ConPaginas(t, p, s) ==
  [f \in Frames |-> IF \E i \in s : f = Marco(Pagina(p, i - 1))
                    THEN Pagina(p, (CHOOSE i \in s : f = Marco(Pagina(p, i - 1))) - 1) ELSE t[f]]

ConTodas(t, o, p, n) == FoldLeft(Guarda, [tabla |-> t, overflow |-> o], Nodos(p, n))

Guardando(p, n, base, it) ==
  [s \in SUBSET (1 .. n) |-> IF s = {} THEN base
                             ELSE Guarda(it[s \ {Max(s)}], Nodos(p, n)[Max(s)])]

\* The pages from 0 on have frames that are different and free.
Caben(t, p, n) ==
  /\ \A i, j \in 1 .. n : i # j => Marco(Pagina(p, i - 1)) # Marco(Pagina(p, j - 1))
  /\ \A i \in 1 .. n : t[Marco(Pagina(p, i - 1))] = Nada

Marcos == TablaBien /\ PaginasDadas /\ Administradas /\ MismaCuenta /\ PaginaConcedida /\ Bajas

InvMarcos == InvHilos /\ ("colision" \notin historia => Marcos)
-----------------------------------------------------------------------------
(* The blocks: operators of what the variables have, and not of the         *)
(* variables, so that a step is a fact about two values of each.            *)

PaginaDe(b) == Pagina(b.pid, b.pagina)

\* What is in the pages.
Contenido ==
  [n \in Paginas |->
     [o \in 0 .. MARCOS_SIZE - 1 |->
        LET a == Marco(n) * MARCOS_SIZE + o
        IN  IF a \in DOMAIN contenido THEN contenido[a] ELSE Otro]]

\* The pages of the heap of the programs that have theirs.
PaginasHeap ==
  {PaginaDe(listaAdmHeap[j]) : j \in {k \in DOMAIN listaAdmHeap : listaAdmHeap[k].pid \in Cargados}}

\* The block that procesarHeap is cutting, which counts as it was until it has
\* finished; and how a page is then seen.
SinCorte == [nodo |-> Nada, off |-> 0, size |-> 0]
Corte(h) ==
  IF h.pc \in {"escribeBloque", "escribeResto"}
  THEN [nodo |-> Nodo(h), off |-> h.off, size |-> h.size] ELSE SinCorte
Vista(c, k, n) ==
  IF n = k.nodo THEN [c[n] EXCEPT ![k.off] = [isFree |-> -1, size |-> k.size]] ELSE c[n]

\* The blocks of a page begin at s, where the last one ends included, and
\* follow one another.
EsInicio(s, o) == o \in s /\ o < MARCOS_SIZE
Tras(v, o) == o + 1 + v[o].size
Teselada(s, v) ==
  /\ s \subseteq 0 .. MARCOS_SIZE /\ 0 \in s /\ MARCOS_SIZE \in s
  /\ \A o \in s : o < MARCOS_SIZE =>
       /\ v[o].size \in Nat /\ Tras(v, o) \in s
       /\ \A x \in s : x <= o \/ x >= Tras(v, o)
Teselas(t, c, k, N) == \A n \in N : Teselada(t[n], Vista(c, k, n))

\* A block in use, as it was given.
EnUso(t, c, k, N, b) ==
  /\ PaginaDe(b) \in N /\ EsInicio(t[PaginaDe(b)], b.offset)
  /\ c[PaginaDe(b)][b.offset] = [isFree |-> 1, size |-> b.size]
  /\ PaginaDe(b) = k.nodo => b.offset # k.off

\* liberarHeap has sent the mark of its block as free, and Memoria has not
\* written it.
Marcando(c, l) == l.pc \in {"escribe", "escrito"} /\ c[PaginaDe(l.b)][l.b.offset].isFree = 1
MarcaDe(l) == Escritura(PaginaDe(l.b), l.b.offset, [isFree |-> -1, size |-> l.size])
Marcas(c, l) == IF Marcando(c, l) THEN {MarcaDe(l)} ELSE {}

\* The free blocks that are followed by another, those of them that procesarHeap
\* may be joining with it, and what they become.
Juntos(s, v) ==
  {o \in s : /\ o < MARCOS_SIZE /\ v[o].isFree = -1
             /\ Tras(v, o) < MARCOS_SIZE /\ v[Tras(v, o)].isFree = -1}
Fundidos(s, v, h) == {o \in Juntos(s, v) : o = h.off \/ h.off = 0}
Junto(v, o) == [isFree |-> -1, size |-> v[o].size + 1 + v[Tras(v, o)].size]

\* What procesarHeap writes when it cuts a block.
Cabecera(h) == [isFree |-> 1, size |-> h.cantidad]
OffsetResto(h) == h.off + 1 + h.cantidad
CeldaResto(h) == [isFree |-> -1, size |-> Resto(h.size, h.cantidad)]

\* What it may have sent to be written.
EscriturasPide(t, c, h) ==
  IF h.pc \in {"compactado", "leeActual", "leeBloque"}
    THEN {Escritura(Nodo(h), o, Junto(c[Nodo(h)], o)) : o \in Fundidos(t[Nodo(h)], c[Nodo(h)], h)}
  ELSE IF h.pc = "paginaNueva" THEN {Escritura(Nodo(h), 0, PaginaVacia)}
  ELSE IF h.pc = "escribeBloque" THEN {Escritura(Nodo(h), h.off, Cabecera(h))}
  ELSE IF h.pc = "escribeResto" THEN {Escritura(Nodo(h), OffsetResto(h), CeldaResto(h))}
  ELSE {}

\* What is to be written is of W or of M, one of each at most; M is sent.
Escrituras(q, W, M) ==
  /\ \A i \in Sitio(q, "escribe") : q[i] \in W \cup M
  /\ \A i, j \in Sitio(q, "escribe") : i # j => (q[i] \in M <=> q[j] \notin M)
  /\ \A m \in M : \E i \in DOMAIN q : q[i] = m

\* The header that a thread reads.
LeeEn(h) == IF h.pc = "leeSiguiente" THEN h.off + 1 + h.size ELSE h.off
LecturasDe(h, l) ==
  IF LeyendoMetadata(h) THEN {Lectura(Nodo(h), LeeEn(h))}
  ELSE IF LeyendoMetadata(l) THEN {Lectura(PaginaDe(l.b), l.b.offset)} ELSE {}
Lecturas(q, L) == \A i \in Sitio(q, "lee") : q[i] \in L

UnoLee(h, l) == ~(LeyendoMetadata(h) /\ LeyendoMetadata(l))

\* What was read is still there, but a block in use may have been freed.
Coincide(d, e) == d.size = e.size /\ (d.isFree = -1 => e.isFree = -1)
Leido(c, h, l, meta, d) ==
  meta > 0 =>
    /\ d \in Celdas
    /\ LeyendoMetadata(h) /\ LeeEn(h) < MARCOS_SIZE => Coincide(d, c[Nodo(h)][LeeEn(h)])
    /\ LeyendoMetadata(l) => d.size = l.b.size

\* procesarHeap reads a page only after what it wrote there.
FusionAntes(q, W, meta, h) ==
  LeyendoMetadata(h) =>
    \A j \in Sitio(q, "escribe") : q[j] \in W =>
      meta = 0 /\ \A i \in Sitio(q, "lee") : j < i

\* procesarHeap is at a block; and at one that is free and large enough.
EnBloque(t, h, N) == Nodo(h) \in N /\ EsInicio(t[Nodo(h)], h.off)
BloqueBueno(t, c, h, N) ==
  /\ EnBloque(t, h, N) /\ c[Nodo(h)][h.off].isFree = -1
  /\ c[Nodo(h)][h.off].size >= h.cantidad + 1

EntradasMenores(A, h) == \A j \in DOMAIN A : A[j].pid = h.pid => A[j].pagina < h.pagina

PasoPide(t, c, h, N, A, pag, aborto) ==
  /\ h.pc # "espera" => h.cantidad + 2 <= MARCOS_SIZE
  /\ h.pc \in {"leeActual", "leeSiguiente", "compactado", "leeBloque"} => EnBloque(t, h, N)
  /\ h.pc = "leeSiguiente" => Coincide(h, c[Nodo(h)][h.off])
  /\ h.pc = "leeViejo" \/ (h.pc = "bloque" /\ aborto = 0) => BloqueBueno(t, c, h, N)
  /\ h.pc \in {"reservaPagina", "paginaNueva"} => h.off = 0 /\ EntradasMenores(A, h)
  /\ h.pc = "paginaNueva" /\ pag > 0 => c[Nodo(h)][0] = PaginaVacia
  /\ h.pc \in {"escribeBloque", "escribeResto"} => EnBloque(t, h, N) /\ h.size >= h.cantidad + 1
  /\ h.pc = "escribeBloque" =>
       c[Nodo(h)][h.off] = IF pag > 0 THEN Cabecera(h) ELSE [isFree |-> -1, size |-> h.size]
  /\ h.pc = "escribeResto" =>
       /\ c[Nodo(h)][h.off] = Cabecera(h)
       /\ pag > 0 => c[Nodo(h)][OffsetResto(h)] = CeldaResto(h)

\* Marking while it has an answer, it took the one of a writing of procesarHeap.
PasoLibera(c, h, l, N) ==
  /\ l.pc # "espera" => PaginaDe(l.b) \in N
  /\ l.pc \in {"leido", "escribe", "escrito"} => l.size = l.b.size
  /\ l.pc = "escrito" /\ Marcando(c, l) => h.pc = "compactado"

\* The blocks that are being freed, while they are marked as used.
EnLiberacion(cola, c, l) ==
  ToSet(cola) \cup IF l.pc \in {"lee", "leido"} \/ Marcando(c, l) THEN {l.b} ELSE {}

MismoLugar(b, d) == PaginaDe(b) = PaginaDe(d) /\ b.offset = d.offset
BloquesEnUso(t, c, k, N, B, E) ==
  /\ \A b \in B \cup E : EnUso(t, c, k, N, b)
  /\ \A b \in B : \A d \in (B \cup E) \ {b} : ~MismoLugar(b, d)
  /\ B \cap E = {}

PaginasDistintas(A, ult) ==
  /\ \A i, j \in DOMAIN A : i # j => PaginaDe(A[i]) # PaginaDe(A[j])
  /\ \A j \in DOMAIN A : A[j].pagina < ult[A[j].pid]

\* The space that was taken, or given back, and not yet counted.
SinCuenta == [nodo |-> Nada, cuanto |-> 0]
Reservado(h) ==
  IF h.pc \in {"leeViejo", "escribeBloque", "escribeResto"}
  THEN [nodo |-> Nodo(h), cuanto |-> Ocupa(h.cantidad)] ELSE SinCuenta
PorSumar(c, l) ==
  IF l.pc \in {"escribe", "escrito"} /\ ~Marcando(c, l)
  THEN [nodo |-> PaginaDe(l.b), cuanto |-> l.size] ELSE SinCuenta
Cuanto(r, n) == IF r.nodo = n THEN r.cuanto ELSE 0

BloquesLibres(s, v) == {o \in s \ {MARCOS_SIZE} : v[o].isFree = -1}
EspacioLibre(s, v) == EspacioDe(v, BloquesLibres(s, v))
Espacio(t, c, k, N, A, r, s) ==
  \A j \in DOMAIN A :
    LET n == PaginaDe(A[j])
    IN  n \in N => A[j].disponible + Cuanto(r, n) + Cuanto(s, n) <= EspacioLibre(t[n], Vista(c, k, n))

\* All of it, with the beginnings of the blocks of each page.
Teselado(t) == Teselas(t, Contenido, Corte(pide), PaginasHeap)
Escribiendo(t) ==
  Escrituras(aMemoria, EscriturasPide(t, Contenido, pide), Marcas(Contenido, libera))
Leyendo(t) ==
  /\ UnoLee(pide, libera) /\ Lecturas(aMemoria, LecturasDe(pide, libera))
  /\ Leido(Contenido, pide, libera, sems.meta, metaDataLeida)
  /\ FusionAntes(aMemoria, EscriturasPide(t, Contenido, pide), sems.meta, pide)
PideBien(t) ==
  PasoPide(t, Contenido, pide, PaginasHeap, listaAdmHeap, sems.pagina, abortoPorFaltaDeMemoria)
LiberaBien == PasoLibera(Contenido, pide, libera, PaginasHeap)
EnUsoBien(t) ==
  BloquesEnUso(t, Contenido, Corte(pide), PaginasHeap, bloques,
               EnLiberacion(colaLiberaHeap, Contenido, libera))
Distintas == PaginasDistintas(listaAdmHeap, ultimaPagina)
Contado(t) ==
  Espacio(t, Contenido, Corte(pide), PaginasHeap, listaAdmHeap, Reservado(pide),
          PorSumar(Contenido, libera))

BloquesDe(t) ==
  /\ Teselado(t) /\ Escribiendo(t) /\ Leyendo(t) /\ PideBien(t) /\ LiberaBien
  /\ EnUsoBien(t) /\ Distintas /\ Contado(t)

InvBloques ==
  /\ InvMarcos
  /\ historia = {} => fallo = "no" /\ \E t : BloquesDe(t)
=============================================================================
