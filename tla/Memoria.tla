------------------------------- MODULE Memoria -------------------------------
(***************************************************************************)
(* The Memoria process: the frames, the inverted page table (a frame holds *)
(* one page of one process, at the place a hash of both gives) and the     *)
(* lists of overflow of the pages that did not find their frame free.      *)
(*                                                                         *)
(* mutexProcesar makes every request one step.  A cell is what is read as  *)
(* one at an address; its size, a HeapMetaData or less, is the unit of     *)
(* sizes and offsets.  The cell after the last frame and the entry after   *)
(* the last of the table, which the code looks at, are of nobody.  A list  *)
(* of overflow is the set of its frames: its order and its repetitions     *)
(* change no search. The cache is in Cache.                                *)
(***************************************************************************)
EXTENDS Integers, Sequences, FiniteSets, SequencesExt, TLC

CONSTANTS MARCOS, MARCOS_SIZE

ASSUME MarcosAssumption == MARCOS \in Nat \ {0} /\ MARCOS_SIZE \in Nat \ {0}

VARIABLES
  punteroMemoria,    \* the page in each frame
  overflow,          \* the frames used instead of each frame
  contenido,         \* frameGeneral.puntero: the headers written, by address
  framesLibres,
  ultimaPaginaPid    \* how many pages each process was given

memoria == <<punteroMemoria, overflow, contenido, framesLibres, ultimaPaginaPid>>

Frames      == 0 .. MARCOS - 1
Direcciones == 0 .. MARCOS * MARCOS_SIZE - 1
Nada        == [pid |-> 0, pagina |-> 0]
\* What is read where there is no header.
Otro        == [isFree |-> 0, size |-> 0]

InitMemoria ==
  /\ punteroMemoria = [f \in Frames |-> Nada]
  /\ overflow = [f \in Frames |-> {}]
  /\ contenido = <<>>
  /\ framesLibres = MARCOS
  /\ ultimaPaginaPid = <<>>
-----------------------------------------------------------------------------
\* calcularPosicion: the digits of both numbers one after the other.
CalcularPosicion(pid, pagina) ==
  LET cifras == IF pagina < 10 THEN 10 ELSE IF pagina < 100 THEN 100 ELSE 1000
  IN  (pid * cifras + pagina) % MARCOS

EstaLibre(tabla, f) == tabla[f] = Nada

\* It is always the same frame, free or not.
BuscarFrameLibre == CalcularPosicion(0, 0)

\* Where a page that arrives is kept.
FrameNuevo(tabla, nodo) ==
  LET f == CalcularPosicion(nodo.pid, nodo.pagina)
  IN  IF EstaLibre(tabla, f) THEN f ELSE BuscarFrameLibre

\* The body of the loop of inicializarPrograma, and asignarPaginasAProceso.
Guarda(m, nodo) ==
  LET f == CalcularPosicion(nodo.pid, nodo.pagina)
      g == FrameNuevo(m.tabla, nodo)
  IN  [tabla |-> [m.tabla EXCEPT ![g] = nodo],
       overflow |-> IF EstaLibre(m.tabla, f) THEN m.overflow
                    ELSE [m.overflow EXCEPT ![f] = @ \cup {g}]]

Colisiona(m, nodo) == ~EstaLibre(m.tabla, CalcularPosicion(nodo.pid, nodo.pagina))

Paginado == [tabla |-> punteroMemoria, overflow |-> overflow]

\* The pages from 0 on of a process.
Nodos(pid, n) == [i \in 1 .. n |-> [pid |-> pid, pagina |-> i - 1]]

\* INICIALIZARPROCESO.
InicializarPrograma(pid, n) ==
  LET m == FoldLeft(Guarda, Paginado, Nodos(pid, n))
  IN  /\ punteroMemoria' = m.tabla /\ overflow' = m.overflow
      /\ framesLibres' = framesLibres - n
      /\ ultimaPaginaPid' = [p \in {pid} \cup DOMAIN ultimaPaginaPid |->
                              IF p = pid THEN n ELSE ultimaPaginaPid[p]]
      /\ UNCHANGED contenido

\* PROCESOPIDEHEAP; the answer is 1 or 0.
AsignarPagina(pid, noIMporta) ==
  \/ /\ framesLibres > 0 /\ noIMporta = 1
     /\ LET m == Guarda(Paginado, [pid |-> pid, pagina |-> ultimaPaginaPid[pid]])
        IN  punteroMemoria' = m.tabla /\ overflow' = m.overflow
     /\ framesLibres' = framesLibres - 1
     /\ ultimaPaginaPid' = [ultimaPaginaPid EXCEPT ![pid] = @ + 1]
     /\ UNCHANGED contenido
  \/ framesLibres <= 0 /\ noIMporta = 0 /\ UNCHANGED memoria
-----------------------------------------------------------------------------
EsPaginaCorrecta(f, nodo) == punteroMemoria[f] = nodo

\* Where leerDePagina and escribirEnPagina look; the empty set stands for the
\* value that buscarEnOverflow does not return.
FrameDe(nodo) ==
  LET f == CalcularPosicion(nodo.pid, nodo.pagina)
  IN  IF EsPaginaCorrecta(f, nodo) THEN {f}
      ELSE {g \in overflow[f] : EsPaginaCorrecta(g, nodo)}

\* The address of an offset of a page, which may be of the next frame.
Direccion(nodo, offset) ==
  (CHOOSE f \in FrameDe(nodo) : TRUE) * MARCOS_SIZE + offset

Leible(nodo) == FrameDe(nodo) # {}
LeerDePagina(nodo, offset, tamano) ==
  LET d == Direccion(nodo, offset)
  IN  [i \in 1 .. tamano |->
         IF d + i - 1 \in DOMAIN contenido THEN contenido[d + i - 1] ELSE Otro]

Escribible(nodo, offset) == Leible(nodo) /\ Direccion(nodo, offset) \in Direcciones
EscribirEnPagina(nodo, offset, celdas) ==
  LET d == Direccion(nodo, offset)
      escritas == d .. d + Len(celdas) - 1
  IN  /\ contenido' = [a \in DOMAIN contenido \cup escritas |->
                          IF a \in escritas THEN celdas[a - d + 1] ELSE contenido[a]]
      /\ UNCHANGED <<punteroMemoria, overflow, framesLibres, ultimaPaginaPid>>

\* buscarFrame, of pages that are in the table.
Liberable(nodos) == nodos \subseteq {punteroMemoria[f] : f \in Frames}

\* Mutant: the frame is not counted.
LiberarSinContar(nodos) ==
  /\ punteroMemoria' = [f \in Frames |->
                          IF punteroMemoria[f] \in nodos THEN Nada ELSE punteroMemoria[f]]
  /\ UNCHANGED <<contenido, overflow, framesLibres, ultimaPaginaPid>>

\* LIBERARPAGINAS of several pages in a row; the lists of overflow keep theirs.
LiberarPaginas(nodos) ==
  /\ punteroMemoria' = [f \in Frames |->
                          IF punteroMemoria[f] \in nodos THEN Nada ELSE punteroMemoria[f]]
  /\ framesLibres' = framesLibres + Cardinality(nodos)
  /\ UNCHANGED <<contenido, overflow, ultimaPaginaPid>>
=============================================================================
