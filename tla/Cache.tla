-------------------------------- MODULE Cache --------------------------------
(***************************************************************************)
(* The cache of Memoria: copies of whole pages, made when a CPU reads them *)
(* (LEERSENTENCIA and DEREFERENCIAR) and never brought up to date.         *)
(*                                                                         *)
(* The n-th entry keeps its copy in the n-th place until remplazoLru moves *)
(* entries: it sorts entries of punteroUsos that were never set and copies *)
(* a page to an offset that is not one of a copy, so from then on nothing  *)
(* is known of the cache.  The uses that only it looks at are left out.    *)
(***************************************************************************)
EXTENDS Memoria

CONSTANTS ENTRADAS_CACHE, CACHE_X_PROC

ASSUME CacheAssumption == ENTRADAS_CACHE \in Nat \ {0} /\ CACHE_X_PROC \in Nat

VARIABLE
  cache   \* [nodos, copias: punteroCache and cache1 up to indiceCache; entradasPid;
          \*  reemplazada: remplazoLru has been called]

InitCache ==
  cache = [nodos |-> <<>>, copias |-> <<>>, entradasPid |-> 0, reemplazada |-> FALSE]

BuscarPidCache(pid) == \E i \in DOMAIN cache.nodos : cache.nodos[i].pid = pid

\* The entry of a page, or 0.
BuscarNodoCache(nodo) ==
  IF CACHE_X_PROC = 0 THEN 0 ELSE SelectInSeq(cache.nodos, LAMBDA n : n = nodo)

\* Mutant: the copy is kept in the first place, and the others move.
CopiarEnLaPrimera(c, nodo) ==
  [c EXCEPT !.nodos = Append(@, nodo), !.entradasPid = @ + 1,
            !.copias = <<LeerDePagina(nodo, 0, MARCOS_SIZE)>> \o @]

\* A page takes the next entry and the place after the last copy.
Copiar(c, nodo) ==
  [c EXCEPT !.nodos = Append(@, nodo), !.entradasPid = @ + 1,
            !.copias = Append(@, LeerDePagina(nodo, 0, MARCOS_SIZE))]

\* almacenarFrameEnCache.  entradasPid counts the entries of the process that
\* took its first one last.
AlmacenarFrameEnCache(nodo) ==
  \/ /\ Len(cache.nodos) = ENTRADAS_CACHE \/ CACHE_X_PROC = 0
     /\ UNCHANGED cache
  \/ /\ Len(cache.nodos) < ENTRADAS_CACHE /\ CACHE_X_PROC > 0
     /\ ~BuscarPidCache(nodo.pid)
     /\ cache' = Copiar([cache EXCEPT !.entradasPid = 0], nodo)
  \/ /\ Len(cache.nodos) < ENTRADAS_CACHE
     /\ BuscarPidCache(nodo.pid)
     /\ cache' = IF cache.entradasPid < CACHE_X_PROC THEN Copiar(cache, nodo)
                 ELSE [cache EXCEPT !.reemplazada = TRUE]

\* What is answered to a reading.
LeerDeMemoria(nodo, offset, tamano) ==
  LET i == BuscarNodoCache(nodo)
  IN  IF i = 0 THEN LeerDePagina(nodo, offset, tamano)
      ELSE SubSeq(cache.copias[i], offset + 1, offset + tamano)

\* LEERSENTENCIA and DEREFERENCIAR, of a page that is in the table.
Consultar(nodo) ==
  \/ BuscarNodoCache(nodo) = 0 /\ AlmacenarFrameEnCache(nodo)
  \/ BuscarNodoCache(nodo) # 0 /\ UNCHANGED cache

\* The command of the console.  Neither the places nor the counters go back.
Flush ==
  cache' = [cache EXCEPT !.nodos = [i \in DOMAIN @ |-> Nada]]
=============================================================================
