-------------------------------- MODULE Heap --------------------------------
(***************************************************************************)
(* The heap of the programs: the Kernel's thread of procesarHeap, that gives *)
(* blocks, the one of liberarHeap, that takes them back, and the headers of  *)
(* the blocks, that both read and write in the pages of Memoria by messages. *)
(*                                                                          *)
(* The answers of Memoria are received by the Kernel's main thread, that     *)
(* leaves what was read in the global metaDataLeida and posts a semaphore:   *)
(* both threads wait on the same ones.  Serving a message and handling its    *)
(* answer are one step, since messages and answers keep their order.         *)
(* mutexListaAdminHeap is held by procesarHeap while it looks for a block,   *)
(* and else only within a step.  A kill during a request is left out.       *)
(*                                                                          *)
(* SpecHeap lets the main thread go on whenever there is a message for it;   *)
(* SpecBucle adds that it may wait for a socket that has none, because the   *)
(* index of its loop was moved (Despacho).                                  *)
(***************************************************************************)
EXTENDS Memoria

CONSTANTS
  Pids,              \* the processes
  PaginasIniciales,  \* how many pages a process has before its heap
  Tamanos,           \* the sizes that programs ask for
  MaxPedidosHeap     \* the bound of the requests in these runs

ASSUME PidsSupuesto    == Pids \subseteq Nat \ {0}
ASSUME PaginasSupuesto == PaginasIniciales \in Nat \ {0}
ASSUME TamanosSupuesto == Tamanos \subseteq Nat

VARIABLES
  estado,            \* of each program
  bloques,           \* what the programs hold, of [pid, pagina, offset, size]
  colaHeap, colaLiberaHeap,
  aMemoria,          \* the messages to Memoria
  metaDataLeida,     \* a header; Nada when it was freed
  sems,              \* [meta, pagina, reservo]: the semaphores
  mutexMemoria,      \* who holds it, or "nadie"
  pide, libera,      \* the threads of procesarHeap and liberarHeap
  listaAdmHeap,      \* of [pid, pagina, disponible]
  ultimaPagina,      \* the Kernel's ultimaPaginaPid
  abortoPorFaltaDeMemoria,
  fallo,             \* "no", or "ub": undefined behaviour was met
  cuenta,            \* how many requests there have been
  historia,          \* what has happened, for the properties
  bloqueado          \* the main thread waits for a socket that has nothing

programas == <<estado, bloques, colaHeap, colaLiberaHeap, cuenta>>
respuestas == <<metaDataLeida, sems>>
admin == <<listaAdmHeap, ultimaPagina, abortoPorFaltaDeMemoria>>
vars == <<memoria, programas, aMemoria, respuestas, mutexMemoria, pide, libera, admin,
          fallo, historia>>

Pagina(pid, pagina) == [pid |-> pid, pagina |-> pagina]
Ocioso == [pc |-> "espera"]

InitHeap ==
  /\ InitMemoria
  /\ estado = [p \in Pids |-> "nuevo"] /\ bloques = {} /\ cuenta = 0
  /\ colaHeap = <<>> /\ colaLiberaHeap = <<>> /\ aMemoria = <<>>
  /\ metaDataLeida = Nada /\ sems = [meta |-> 0, pagina |-> 0, reservo |-> 0]
  /\ mutexMemoria = "nadie" /\ pide = Ocioso /\ libera = Ocioso
  /\ listaAdmHeap = <<>> /\ ultimaPagina = [p \in Pids |-> PaginasIniciales]
  /\ abortoPorFaltaDeMemoria = 0 /\ fallo = "no" /\ historia = {}
-----------------------------------------------------------------------------
(* The messages.                                                            *)

Mensaje(op, nodo, offset, celda) ==
  [op |-> op, nodo |-> nodo, offset |-> offset, celda |-> celda]

Lectura(nodo, offset)          == Mensaje("lee", nodo, offset, Otro)
Escritura(nodo, offset, celda) == Mensaje("escribe", nodo, offset, celda)

Envia(m)   == aMemoria' = Append(aMemoria, m)
Historia(h) == historia' = historia \cup h

LeyendoMetadata(hilo) ==
  hilo.pc \in {"leeActual", "leeSiguiente", "leeBloque", "leeViejo", "lee"}

\* What is wrong with reading while the other thread reads.
Solapa(hilo) == IF LeyendoMetadata(hilo) THEN {"carrera"} ELSE {}

\* sem_wait of semMetaDataLeida, and what metaDataLeida is then.
EsperaMetadata == sems.meta > 0 /\ sems' = [sems EXCEPT !.meta = @ - 1]
EsperaPagina   == sems.pagina > 0 /\ sems' = [sems EXCEPT !.pagina = @ - 1]

\* The pages that the Kernel frees when a program ends: it counts from 1.
PaginasDe(p) ==
  {Pagina(p, i) : i \in 1 .. PaginasIniciales - 1}
    \cup {Pagina(p, listaAdmHeap[j].pagina) :
            j \in {k \in DOMAIN listaAdmHeap : listaAdmHeap[k].pid = p}}
-----------------------------------------------------------------------------
(* The programs and the Kernel's main thread.                               *)

\* procesarScript accepts a program; it runs once its pages are there.
Llega(p) ==
  /\ estado[p] = "nuevo"
  /\ estado' = [estado EXCEPT ![p] = "carga"]
  /\ Envia(Mensaje("inicia", Pagina(p, PaginasIniciales), 0, Otro))
  /\ UNCHANGED <<memoria, bloques, colaHeap, colaLiberaHeap, cuenta, respuestas,
                 mutexMemoria, pide, libera, admin, fallo, historia>>

\* PROCESOPIDEHEAP.
Reserva(p, n) ==
  /\ estado[p] = "corre"
  /\ cuenta < MaxPedidosHeap /\ cuenta' = cuenta + 1
  /\ estado' = [estado EXCEPT ![p] = "espera"]
  /\ colaHeap' = Append(colaHeap, [pid |-> p, cantidad |-> n])
  /\ UNCHANGED <<memoria, bloques, colaLiberaHeap, aMemoria, respuestas, mutexMemoria,
                 pide, libera, admin, fallo, historia>>

\* PROCESOLIBERAHEAP, of a block that the program holds.
Libera(b) ==
  /\ estado[b.pid] = "corre"
  /\ cuenta < MaxPedidosHeap /\ cuenta' = cuenta + 1
  /\ estado' = [estado EXCEPT ![b.pid] = "espera"]
  /\ bloques' = bloques \ {b}
  /\ colaLiberaHeap' = Append(colaLiberaHeap, b)
  /\ UNCHANGED <<memoria, colaHeap, aMemoria, respuestas, mutexMemoria, pide, libera,
                 admin, fallo, historia>>

\* PROGRAMATERMINADO, or abortar of one that was told to abort: its pages are
\* freed, with one message; its entries of listaAdmHeap stay.
Termina(p) ==
  /\ estado[p] \in {"corre", "aborta"}
  /\ estado' = [estado EXCEPT ![p] = "fin"]
  /\ bloques' = {b \in bloques : b.pid # p}
  /\ Envia([op |-> "libera", nodos |-> PaginasDe(p)])
  /\ UNCHANGED <<memoria, colaHeap, colaLiberaHeap, cuenta, respuestas, mutexMemoria,
                 pide, libera, admin, fallo, historia>>

Rompe ==
  /\ fallo' = "ub"
  /\ UNCHANGED <<memoria, programas, respuestas, admin>>

\* Mutant: the semaphore is not posted.
PublicaSinAvisar(celda) == metaDataLeida' = celda /\ UNCHANGED sems

\* METADATALEIDA in the main thread.
Publica(celda) ==
  /\ metaDataLeida' = celda
  /\ sems' = [sems EXCEPT !.meta = @ + 1]

\* Two pages of a program that ask for the same frame.
MismoFrame(p, i, k) == CalcularPosicion(p, i) = CalcularPosicion(p, k)

\* INICIALIZARPROCESO.
Inicia(p, n) ==
  /\ InicializarPrograma(p, n)
  /\ estado' = [estado EXCEPT ![p] = "corre"]
  /\ Historia(IF \E i \in 1 .. n : \/ Colisiona(Paginado, Pagina(p, i - 1))
                                   \/ \E k \in 1 .. i - 1 : MismoFrame(p, k - 1, i - 1)
              THEN {"colision"} ELSE {})
  /\ UNCHANGED <<bloques, colaHeap, colaLiberaHeap, cuenta, respuestas, admin, fallo>>

\* PROCESOPIDEHEAP in Memoria, and MEMORIARESERVOHEAP in the main thread.
Asigna(p) ==
  \E algo \in {0, 1} :
    /\ AsignarPagina(p, algo)
    /\ abortoPorFaltaDeMemoria' = 1 - algo
    /\ sems' = [sems EXCEPT !.reservo = @ + 1]
    /\ Historia(IF algo = 1 /\ Colisiona(Paginado, Pagina(p, ultimaPaginaPid[p]))
                THEN {"colision"} ELSE {})
    /\ UNCHANGED <<programas, metaDataLeida, listaAdmHeap, ultimaPagina, fallo>>

\* Memoria serves a message and the main thread handles the answer.
Contesta ==
  /\ aMemoria # <<>> /\ aMemoria' = Tail(aMemoria)
  /\ UNCHANGED <<mutexMemoria, pide, libera>>
  /\ LET m == Head(aMemoria)
     IN  \/ m.op = "inicia" /\ Inicia(m.nodo.pid, m.nodo.pagina)
         \/ m.op = "pide" /\ Asigna(m.nodo.pid)
         \/ /\ m.op = "lee" /\ Leible(m.nodo)
            /\ Publica(Head(LeerDePagina(m.nodo, m.offset, 1)))
            /\ UNCHANGED <<memoria, programas, admin, fallo, historia>>
         \/ /\ m.op = "escribe" /\ Escribible(m.nodo, m.offset)
            /\ EscribirEnPagina(m.nodo, m.offset, <<m.celda>>)
            /\ sems' = [sems EXCEPT !.pagina = @ + 1]
            /\ UNCHANGED <<programas, metaDataLeida, admin, fallo, historia>>
         \/ /\ m.op = "libera" /\ Liberable(m.nodos)
            /\ LiberarPaginas(m.nodos)
            /\ UNCHANGED <<programas, respuestas, admin, fallo, historia>>
         \/ /\ \/ m.op = "lee" /\ ~Leible(m.nodo)
               \/ m.op = "escribe" /\ ~Escribible(m.nodo, m.offset)
               \/ m.op = "libera" /\ ~Liberable(m.nodos)
            /\ Rompe /\ UNCHANGED historia
-----------------------------------------------------------------------------
(* The thread of procesarHeap.  h.pagina is the page it looks at, h.off the  *)
(* offset in it and h.size and h.isFree what was read of the block there.    *)

Nodo(h) == Pagina(h.pid, h.pagina)

PideLee(h, pc, offset) ==
  /\ pide' = [h EXCEPT !.pc = pc]
  /\ Envia(Lectura(Nodo(h), offset))
  /\ Historia(Solapa(libera))

\* The loop of compactarPaginaHeap: h.size is the one of the block before; and
\* the beginning of the one of paginaHeapBloqueSuficiente.
Compacta(h) ==
  IF h.off < MARCOS_SIZE /\ h.off + 1 + h.size < MARCOS_SIZE - 1
  THEN PideLee(h, "leeActual", h.off)
  ELSE PideLee([h EXCEPT !.off = 0], "leeBloque", 0)

\* The loop of verificarEspacioLibreHeap, from the k-th entry on.
VerificarDesde(h, k) ==
  LET j == SelectInSubSeq(listaAdmHeap, k, Len(listaAdmHeap),
             LAMBDA e : e.disponible >= h.cantidad + 1 /\ e.pid = h.pid)
  IN  IF j = 0
      THEN pide' = [h EXCEPT !.pc = "sinLugar"] /\ UNCHANGED <<aMemoria, historia>>
      ELSE Compacta([h EXCEPT !.k = j, !.pagina = listaAdmHeap[j].pagina, !.off = 0, !.size = 0])

\* The program is told to abort.
Rechaza(p) ==
  /\ estado' = [estado EXCEPT ![p] = "aborta"] /\ pide' = Ocioso
  /\ UNCHANGED <<aMemoria, historia>>

PideToma ==
  /\ pide.pc = "espera" /\ colaHeap # <<>> /\ colaHeap' = Tail(colaHeap)
  /\ LET r == Head(colaHeap)
         h == [pc |-> "toma", pid |-> r.pid, cantidad |-> r.cantidad, k |-> 0,
               pagina |-> 0, off |-> 0, size |-> 0, isFree |-> 0]
     IN  IF r.cantidad > MARCOS_SIZE - 2 THEN Rechaza(r.pid)
         ELSE VerificarDesde(h, 1) /\ UNCHANGED estado
  /\ UNCHANGED <<memoria, bloques, colaLiberaHeap, cuenta, respuestas, mutexMemoria,
                 libera, admin, fallo>>

\* The thread goes on with what was read, and frees it.
PideRecibe(pc) ==
  /\ pide.pc = pc /\ EsperaMetadata /\ metaDataLeida # Nada
  /\ metaDataLeida' = Nada
  /\ UNCHANGED <<memoria, programas, mutexMemoria, libera, admin, fallo>>

PideActual ==
  /\ PideRecibe("leeActual")
  /\ LET h == [pide EXCEPT !.size = metaDataLeida.size, !.isFree = metaDataLeida.isFree]
     IN  PideLee(h, "leeSiguiente", h.off + 1 + h.size)

\* Two free blocks in a row become one.  After the last of the page comes the
\* first of the next frame.
PideSiguiente ==
  /\ PideRecibe("leeSiguiente")
  /\ LET siguiente == pide.off + 1 + pide.size
         junto == [isFree |-> -1, size |-> pide.size + 1 + metaDataLeida.size]
     IN  IF pide.isFree = -1 /\ metaDataLeida.isFree = -1
         THEN /\ Envia(Escritura(Nodo(pide), pide.off, junto))
              /\ pide' = [pide EXCEPT !.pc = "compactado", !.size = junto.size]
              /\ Historia(IF siguiente >= MARCOS_SIZE THEN {"cruza"} ELSE {})
         ELSE Compacta([pide EXCEPT !.off = siguiente])

PideCompactado ==
  /\ pide.pc = "compactado" /\ EsperaPagina
  /\ Compacta(pide)
  /\ UNCHANGED <<memoria, programas, metaDataLeida, mutexMemoria, libera, admin, fallo>>

\* Mutant: a block in use is taken too.
AlcanzaSinMirar(celda, n) == celda.size >= n + 1

Alcanza(celda, n) == celda.size >= n + 1 /\ celda.isFree = -1

\* The loop of paginaHeapBloqueSuficiente; if the page has none, the next entry.
PideBloque ==
  /\ PideRecibe("leeBloque")
  /\ LET siguiente == pide.off + 1 + metaDataLeida.size
     IN  IF Alcanza(metaDataLeida, pide.cantidad)
         THEN pide' = [pide EXCEPT !.pc = "bloque"] /\ UNCHANGED <<aMemoria, historia>>
         ELSE IF siguiente < MARCOS_SIZE
              THEN PideLee([pide EXCEPT !.off = siguiente], "leeBloque", siguiente)
              ELSE VerificarDesde(pide, pide.k + 1)

\* procesoPideHeap and reservarPaginaHeap: a new page.
PidePagina ==
  /\ pide.pc = "sinLugar" /\ mutexMemoria = "nadie" /\ mutexMemoria' = "pide"
  /\ ultimaPagina' = [ultimaPagina EXCEPT ![pide.pid] = @ + 1]
  /\ pide' = [pide EXCEPT !.pc = "reservaPagina", !.pagina = ultimaPagina[pide.pid], !.off = 0]
  /\ Envia(Mensaje("pide", Pagina(pide.pid, 0), 0, Otro))
  /\ UNCHANGED <<memoria, programas, respuestas, libera, listaAdmHeap,
                 abortoPorFaltaDeMemoria, fallo, historia>>

PaginaVacia == [isFree |-> -1, size |-> MARCOS_SIZE - 1]

\* reservarPaginaHeap, with the answer.
PideReservada ==
  /\ pide.pc = "reservaPagina"
  /\ sems.reservo > 0 /\ sems' = [sems EXCEPT !.reservo = @ - 1]
  /\ \/ /\ abortoPorFaltaDeMemoria = 0
        /\ Envia(Escritura(Nodo(pide), 0, PaginaVacia))
        /\ pide' = [pide EXCEPT !.pc = "paginaNueva"] /\ UNCHANGED mutexMemoria
     \/ /\ abortoPorFaltaDeMemoria = 1
        /\ pide' = [pide EXCEPT !.pc = "bloque"] /\ mutexMemoria' = "nadie"
        /\ UNCHANGED aMemoria
  /\ UNCHANGED <<memoria, programas, metaDataLeida, libera, admin, fallo, historia>>

PideRegistra ==
  /\ pide.pc = "paginaNueva" /\ EsperaPagina
  /\ mutexMemoria' = "nadie"
  /\ listaAdmHeap' = Append(listaAdmHeap, [pid |-> pide.pid, pagina |-> pide.pagina,
                                           disponible |-> MARCOS_SIZE - 1])
  /\ pide' = [pide EXCEPT !.pc = "bloque"]
  /\ UNCHANGED <<memoria, programas, aMemoria, metaDataLeida, libera, ultimaPagina,
                 abortoPorFaltaDeMemoria, fallo, historia>>

\* The place of the entry of a page.
EntradaDe(nodo) ==
  SelectInSeq(listaAdmHeap, LAMBDA e : e.pagina = nodo.pagina /\ e.pid = nodo.pid)

\* Mutant: the header of the block is not counted.
OcupaSinCabecera(n) == n

\* What a block takes of the space of its page.
Ocupa(n) == n + 1

\* procesoPideHeap and reservarBloqueHeap, until the header is read; the flag
\* that it looks at may be of an earlier request.
PideReserva ==
  /\ pide.pc = "bloque"
  /\ \/ /\ abortoPorFaltaDeMemoria = 0
        /\ mutexMemoria = "nadie" /\ mutexMemoria' = "pide"
        /\ listaAdmHeap' = [listaAdmHeap EXCEPT
                              ![EntradaDe(Nodo(pide))].disponible = @ - Ocupa(pide.cantidad)]
        /\ PideLee(pide, "leeViejo", pide.off) /\ UNCHANGED estado
     \/ /\ abortoPorFaltaDeMemoria = 1
        /\ Rechaza(pide.pid) /\ UNCHANGED <<mutexMemoria, listaAdmHeap>>
  /\ UNCHANGED <<memoria, bloques, colaHeap, colaLiberaHeap, cuenta, respuestas, libera,
                 ultimaPagina, abortoPorFaltaDeMemoria, fallo>>

\* reservarBloqueHeap: the header of the block; metaDataLeida is written over.
PideCabecera ==
  /\ pide.pc = "leeViejo" /\ EsperaMetadata /\ metaDataLeida # Nada
  /\ LET celda == [isFree |-> 1, size |-> pide.cantidad]
     IN  Envia(Escritura(Nodo(pide), pide.off, celda)) /\ metaDataLeida' = celda
  /\ pide' = [pide EXCEPT !.pc = "escribeBloque", !.size = metaDataLeida.size]
  /\ UNCHANGED <<memoria, programas, mutexMemoria, libera, admin, fallo, historia>>

\* Mutant: the header of the rest is not counted.
RestoSinCabecera(viejo, n) == viejo - n

\* What is left of a free block.
Resto(viejo, n) == viejo - n - 1

\* The header of what is left.
PideResto ==
  /\ pide.pc = "escribeBloque" /\ EsperaPagina
  /\ LET celda == [isFree |-> -1, size |-> Resto(pide.size, pide.cantidad)]
     IN  /\ Envia(Escritura(Nodo(pide), pide.off + 1 + pide.cantidad, celda))
         /\ metaDataLeida' = celda
  /\ pide' = [pide EXCEPT !.pc = "escribeResto"]
  /\ UNCHANGED <<memoria, programas, mutexMemoria, libera, admin, fallo, historia>>

\* The block is given to the program.
PideTermina ==
  /\ pide.pc = "escribeResto" /\ EsperaPagina
  /\ metaDataLeida' = Nada /\ mutexMemoria' = "nadie" /\ pide' = Ocioso
  /\ estado' = [estado EXCEPT ![pide.pid] = "corre"]
  /\ bloques' = bloques \cup {[pid |-> pide.pid, pagina |-> pide.pagina,
                               offset |-> pide.off, size |-> pide.cantidad]}
  /\ UNCHANGED <<memoria, colaHeap, colaLiberaHeap, cuenta, aMemoria, libera, admin,
                 fallo, historia>>
-----------------------------------------------------------------------------
(* The thread of liberarHeap; b is the block to be freed.                   *)

LiberaToma ==
  /\ libera.pc = "espera" /\ colaLiberaHeap # <<>> /\ colaLiberaHeap' = Tail(colaLiberaHeap)
  /\ mutexMemoria = "nadie" /\ mutexMemoria' = "libera"
  /\ LET b == Head(colaLiberaHeap)
     IN  /\ libera' = [pc |-> "lee", b |-> b, size |-> 0]
         /\ Envia(Lectura(Pagina(b.pid, b.pagina), b.offset))
  /\ Historia(Solapa(pide))
  /\ UNCHANGED <<memoria, estado, bloques, colaHeap, cuenta, respuestas, pide, admin, fallo>>

LiberaLee ==
  /\ libera.pc = "lee" /\ EsperaMetadata /\ metaDataLeida # Nada
  /\ metaDataLeida' = Nada /\ mutexMemoria' = "nadie"
  /\ libera' = [libera EXCEPT !.pc = "leido", !.size = metaDataLeida.size]
  /\ UNCHANGED <<memoria, programas, aMemoria, pide, admin, fallo, historia>>

LiberaEscribe ==
  /\ libera.pc = "leido" /\ mutexMemoria = "nadie" /\ mutexMemoria' = "libera"
  /\ libera' = [libera EXCEPT !.pc = "escribe"]
  /\ Envia(Escritura(Pagina(libera.b.pid, libera.b.pagina), libera.b.offset,
                     [isFree |-> -1, size |-> libera.size]))
  /\ UNCHANGED <<memoria, programas, respuestas, pide, admin, fallo, historia>>

LiberaEscrito ==
  /\ libera.pc = "escribe" /\ EsperaPagina
  /\ mutexMemoria' = "nadie"
  /\ libera' = [libera EXCEPT !.pc = "escrito"]
  /\ UNCHANGED <<memoria, programas, aMemoria, metaDataLeida, pide, admin, fallo, historia>>

\* procesarHeap holds mutexListaAdminHeap.
PideTieneLista == pide.pc \in {"leeActual", "leeSiguiente", "compactado", "leeBloque"}

LiberaLista ==
  /\ libera.pc = "escrito" /\ ~PideTieneLista
  /\ listaAdmHeap' = [listaAdmHeap EXCEPT
       ![EntradaDe(Pagina(libera.b.pid, libera.b.pagina))].disponible = @ + libera.size]
  /\ libera' = Ocioso
  /\ estado' = [estado EXCEPT ![libera.b.pid] = "corre"]
  /\ UNCHANGED <<memoria, bloques, colaHeap, colaLiberaHeap, cuenta, aMemoria, respuestas,
                 mutexMemoria, pide, ultimaPagina, abortoPorFaltaDeMemoria, fallo, historia>>

\* A thread goes on with what the other one has read and freed.
UsaLiberada ==
  /\ \/ LeyendoMetadata(pide)
     \/ LeyendoMetadata(libera)
  /\ EsperaMetadata /\ metaDataLeida = Nada
  /\ fallo' = "ub"
  /\ UNCHANGED <<memoria, programas, aMemoria, metaDataLeida, mutexMemoria, pide, libera,
                 admin, historia>>
-----------------------------------------------------------------------------
Programas ==
  \/ \E p \in Pids : Llega(p) \/ Termina(p) \/ \E n \in Tamanos : Reserva(p, n)
  \/ \E b \in bloques : Libera(b)

ProcesarHeap ==
  \/ PideToma \/ PideActual \/ PideSiguiente \/ PideCompactado \/ PideBloque
  \/ PidePagina \/ PideReservada \/ PideRegistra \/ PideReserva
  \/ PideCabecera \/ PideResto \/ PideTermina

LiberarHeap ==
  LiberaToma \/ LiberaLee \/ LiberaEscribe \/ LiberaEscrito \/ LiberaLista

NextHeap ==
  /\ fallo = "no"
  /\ Programas \/ Contesta \/ ProcesarHeap \/ LiberarHeap \/ UsaLiberada

SpecHeap == InitHeap /\ [][NextHeap]_vars

(* The loop of the main thread.  PROGRAMATERMINADO and crearPCB move its     *)
(* index, and the round may then come to a socket that it has already read.  *)
Atiende ==
  /\ ~bloqueado
  /\ \/ /\ Contesta \/ (\E p \in Pids : \E n \in Tamanos : Reserva(p, n)) \/ \E b \in bloques : Libera(b)
        /\ UNCHANGED bloqueado
     \/ \E p \in Pids :
          Termina(p) /\ bloqueado' \in IF estado[p] = "corre" THEN BOOLEAN ELSE {FALSE}

\* What it waits for comes.
Desbloquea == bloqueado /\ bloqueado' = FALSE /\ UNCHANGED vars

bucle == <<vars, bloqueado>>

InitBucle == InitHeap /\ bloqueado = FALSE

NextBucle ==
  /\ fallo = "no"
  /\ \/ Atiende \/ Desbloquea
     \/ (\E p \in Pids : Llega(p)) /\ bloqueado' \in {bloqueado, TRUE}
     \/ (ProcesarHeap \/ LiberarHeap \/ UsaLiberada) /\ UNCHANGED bloqueado

SpecBucle == InitBucle /\ [][NextBucle]_bucle

\* While a thread or Memoria can go on, one of them does; the programs may stop, and
\* nobody has to send what the main thread waits for.
SpecHeapJusta ==
  /\ SpecBucle
  /\ WF_bucle(/\ fallo = "no"
              /\ (~bloqueado /\ Contesta) \/ ProcesarHeap \/ LiberarHeap
              /\ UNCHANGED bloqueado)
-----------------------------------------------------------------------------
(* Properties.                                                              *)

\* No two threads were reading at a time, no block was joined with one of the
\* next frame and no page lacked its frame.
Ordenado == historia = {}

\* The pages of the heap whose blocks are not being written by procesarHeap.
Enteras ==
  {j \in DOMAIN listaAdmHeap :
     LET e == listaAdmHeap[j]
     IN  /\ estado[e.pid] # "fin"
         /\ pide.pc \in {"escribeBloque", "escribeResto"} =>
              Nodo(pide) # Pagina(e.pid, e.pagina)}

Celda(e, o) == Head(LeerDePagina(Pagina(e.pid, e.pagina), o, 1))

\* The offsets of the blocks, and where the last one ends: going from each to
\* the next takes no more steps than the page has units.
Inicios(e) ==
  LET hasta[i \in 0 .. MARCOS_SIZE] ==
        IF i = 0 THEN {0}
        ELSE LET antes == hasta[i - 1]
             IN  antes \cup {o + 1 + Celda(e, o).size : o \in {x \in antes : x < MARCOS_SIZE}}
  IN  hasta[MARCOS_SIZE]

\* The blocks of every page of the heap follow one another, free or not, and
\* the last one ends where the page does, whatever the programs ask and
\* whatever the order in which both threads read and write.
CadenaIntacta ==
  Ordenado => \A j \in Enteras : MARCOS_SIZE \in Inicios(listaAdmHeap[j])

\* A block that a program holds is marked as such, with the size that was asked,
\* in its page, and no other one that a program holds has a part of it.
BloquesVigentes ==
  Ordenado => \A b \in bloques :
    /\ Celda(b, b.offset) = [isFree |-> 1, size |-> b.size]
    /\ b.offset + 1 + b.size <= MARCOS_SIZE
    /\ \A c \in bloques \ {b} :
         b.pid = c.pid /\ b.pagina = c.pagina =>
           b.offset + b.size < c.offset \/ c.offset + c.size < b.offset

\* The space that the Kernel thinks a page has is not more than what its free
\* blocks have.
DisponibleNoSobra ==
  Ordenado => \A j \in Enteras :
    LET e == listaAdmHeap[j]
        libres == {o \in Inicios(e) \ {MARCOS_SIZE} : Celda(e, o).isFree = -1}
    IN  e.disponible <= FoldSet(LAMBDA o, n : Celda(e, o).size + n, 0, libres)

\* The counter of free frames is the number of frames that are free, and no page
\* of a program that runs has been lost, as programs come, ask and end.
FramesContados ==
  "colision" \notin historia =>
    /\ framesLibres = Cardinality({f \in Frames : EstaLibre(punteroMemoria, f)})
    /\ \A p \in Pids : estado[p] \in {"corre", "espera"} =>
         \A n \in PaginasDe(p) \cup {Pagina(p, 0)} : Cardinality(FrameDe(n)) = 1

\* Every request is answered, unless a reading was mixed up or the main thread waits
\* for ever for a socket that has nothing.
TodoPedidoSeContesta ==
  \A p \in Pids :
    estado[p] = "espera" ~>
      estado[p] # "espera" \/ ~Ordenado \/ fallo # "no" \/ []bloqueado
=============================================================================
