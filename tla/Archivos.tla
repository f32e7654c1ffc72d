------------------------------- MODULE Archivos -------------------------------
(***************************************************************************)
(* The Kernel's file-system layer: the queue of requests of the programs,   *)
(* the thread of procesarCapaFs that serves them one by one, the table of   *)
(* open files of every process and the global one, and the FileSystem       *)
(* process (SistemaDeArchivos) it asks.                                     *)
(*                                                                          *)
(* A program waits for the answer of each request.  The thread waits for    *)
(* the answer of the FileSystem on a semaphore that the main thread posts.  *)
(* A position in tablaArchivosGlobal counts from 0.  The entries carry one  *)
(* field more, path, the file that abrir() named: the code has only the     *)
(* position in the global table.  The pointer of an entry, which only says  *)
(* where in the blocks the data goes, is left out.                          *)
(***************************************************************************)
EXTENDS SistemaDeArchivos

CONSTANTS
  Procs,         \* the processes
  Banderas,      \* the flags programs open files with
  Basura,        \* the flags that may be read after the end of permisos
  Descriptores,  \* the descriptors programs use
  MaxPedidos,    \* the bound of the requests served in these runs
  Nadie          \* none

\* An entry of a table of open files, and one of the global table.
Permisos        == UNION (Banderas \cup Basura)
EntradaDeTabla  == [fd : Nat, flags : SUBSET Permisos, globalFd : Int, path : Paths]
EntradaGlobal   == [path : Paths, open : Int]

ASSUME NadieSupuesto == Nadie \notin {0, 1} /\ Nadie \notin Seq(EntradaDeTabla)

VARIABLES
  colaCapaFs,           \* the processes with a request to be served
  actual, fase,         \* the request being served and what it waits for
  respuesta,            \* what the FileSystem answered; Nadie before
  tablaArchivosGlobal,  \* of [path, open]
  tablas,               \* tablas[p]: its entry of listaTablasProcesos, or Nadie
  vivos,                \* the programs that were not aborted
  fallo,                \* "no", or "nulo": a NULL was dereferenced
  pedidos,              \* how many requests there have been
  historia              \* what has happened, for the properties

tablasKernel == <<tablaArchivosGlobal, tablas>>
vars == <<fs, colaCapaFs, actual, fase, respuesta, tablasKernel, vivos, fallo, pedidos, historia>>

InitArchivos ==
  /\ Init
  /\ colaCapaFs = <<>> /\ actual = Nadie /\ fase = "espera" /\ respuesta = Nadie
  /\ tablaArchivosGlobal = <<>> /\ tablas = [p \in Procs |-> Nadie]
  /\ vivos = Procs /\ fallo = "no" /\ pedidos = 0 /\ historia = {}
-----------------------------------------------------------------------------
(* The tables.                                                              *)

\* The place of the entry of a descriptor; 0 when there is none.
EntradaDe(p, fd) == SelectInSeq(tablas[p], LAMBDA e : e.fd = fd)
TieneFd(p, fd)   == tablas[p] # Nadie /\ EntradaDe(p, fd) # 0
Entrada(p, fd)   == tablas[p][EntradaDe(p, fd)]
Abierto(p, fd)   == tablaArchivosGlobal[Entrada(p, fd).globalFd + 1].path

\* buscarDireccionEnTablaGlobal finds an entry.
EnRango(p, fd) == Entrada(p, fd).globalFd + 1 \in DOMAIN tablaArchivosGlobal

\* The entry of the descriptor taken off its table, and added again at the end.
SinEntrada(p, fd) == RemoveAt(tablas[p], EntradaDe(p, fd))
Rotada(p, fd)     == Append(SinEntrada(p, fd), Entrada(p, fd))

\* buscarIndiceEnTablaGlobal: the last entry of that path; 0 when there is none.
IndiceEnGlobal(path) == SelectLastInSeq(tablaArchivosGlobal, LAMBDA e : e.path = path)

\* Mutant: open is not incremented.
AumentarSinContar(global, path) ==
  LET i == SelectInSeq(global, LAMBDA e : e.path = path)
  IN  Append(RemoveAt(global, i), global[i])

\* aumentarOpenEnTablaGlobal: the entry goes to the end of the table.
AumentarOpen(global, path) ==
  LET i == SelectInSeq(global, LAMBDA e : e.path = path)
  IN  Append(RemoveAt(global, i), [global[i] EXCEPT !.open = @ + 1])

\* actualizarIndicesGlobalesEnTablasProcesos.
Actualizar(t, indice) ==
  LET Baja(e) == IF e.globalFd > indice THEN [e EXCEPT !.globalFd = @ - 1] ELSE e
  IN  [p \in Procs |-> IF t[p] = Nadie THEN Nadie
                       ELSE [j \in DOMAIN t[p] |-> Baja(t[p][j])]]

QuedaSinAbrir(indice) == tablaArchivosGlobal[indice + 1].open = 1

\* Mutant: the positions after the entry removed are not corrected.
DisminuirSinActualizar(t, indice) == t

\* disminuirOpenYVerificarExistenciaEntradaGlobal, on the tables of the
\* processes and on the global one.
Disminuir(t, indice) == IF QuedaSinAbrir(indice) THEN Actualizar(t, indice) ELSE t
DisminuirOpen(indice) ==
  tablaArchivosGlobal' =
    IF QuedaSinAbrir(indice) THEN RemoveAt(tablaArchivosGlobal, indice + 1)
    ELSE [tablaArchivosGlobal EXCEPT ![indice + 1].open = @ - 1]

Historia(h) == historia' = historia \cup h
-----------------------------------------------------------------------------
(* The programs and the Kernel's main thread.                               *)

Espera(p) ==
  \/ actual # Nadie /\ actual.pid = p
  \/ p \in ToSet(colaCapaFs)

\* A system call of p.  What it asks is chosen when the thread takes it: nobody
\* looks at it before.
Pide(p) ==
  /\ p \in vivos /\ ~Espera(p)
  /\ pedidos < MaxPedidos /\ pedidos' = pedidos + 1
  /\ colaCapaFs' = Append(colaCapaFs, p)
  /\ UNCHANGED <<fs, actual, fase, respuesta, tablasKernel, vivos, fallo, historia>>
-----------------------------------------------------------------------------
(* The thread of procesarCapaFs.  Each action runs until the thread waits or *)
(* is done with a request.                                                   *)

\* It takes the first request, of p.
Toma(p) ==
  /\ actual = Nadie /\ colaCapaFs # <<>>
  /\ p = Head(colaCapaFs)
  /\ colaCapaFs' = Tail(colaCapaFs)

\* It asks the FileSystem about a file, for p, and waits.
Consulta(p, path, flags, n, f) ==
  /\ actual' = [pid |-> p, path |-> path, flags |-> flags, n |-> n]
  /\ fase' = f /\ respuesta' = Nadie

\* It answers p; a program that gets 0 or 2 is aborted.
Responde(p, resultado) ==
  /\ actual' = Nadie /\ fase' = "espera" /\ respuesta' = Nadie
  /\ vivos' = IF resultado = 1 THEN vivos ELSE vivos \ {p}

\* The answer 0 or 2 is used as an address, or an entry that is not there is.
Rompe(h) ==
  /\ fallo' = "nulo" /\ Historia(h)
  /\ UNCHANGED <<fs, pedidos, actual, fase, respuesta, tablasKernel, vivos>>

\* abrirArchivo, until it knows whether the file exists.  permisos has no end
\* of string: what is read after it may hold other flags.
Valida(p) ==
  /\ Toma(p)
  /\ \E path \in Paths, b \in Banderas, resto \in Basura :
       Consulta(p, path, b \cup resto, 0, "valida")
  /\ UNCHANGED <<fs, pedidos, tablasKernel, vivos, fallo, historia>>

\* abrirArchivo: the entry of the process, and the answer.
Registra(global, indice) ==
  LET p == actual.pid
      t == IF tablas[p] = Nadie THEN <<>> ELSE tablas[p]
  IN  /\ tablaArchivosGlobal' = AumentarOpen(global, actual.path)
      /\ tablas' = [tablas EXCEPT ![p] =
           Append(t, [fd |-> Len(t) + 3, flags |-> actual.flags, globalFd |-> indice,
                      path |-> actual.path])]
      /\ Historia(IF \E q \in Procs : tablas[q] # Nadie /\
                       \E e \in ToSet(tablas[q]) : e.path = actual.path
                  THEN {"comparte"} ELSE {})
      /\ Responde(actual.pid, 1)

NuevaGlobal == Append(tablaArchivosGlobal, [path |-> actual.path, open |-> 0])

\* Mutant: the position is counted from 1.
IndiceDesdeUno(path) == Len(tablaArchivosGlobal) + 1

\* The position of a new entry.
IndiceNuevo(path) == Len(tablaArchivosGlobal)

\* abrirArchivo of a file that exists.
AbreExistente ==
  /\ fase = "valida" /\ respuesta = 1
  /\ LET i == IndiceEnGlobal(actual.path)
     IN  IF i = 0 THEN Registra(NuevaGlobal, IndiceNuevo(actual.path))
                  ELSE Registra(tablaArchivosGlobal, i - 1)
  /\ UNCHANGED <<fs, pedidos, colaCapaFs, fallo>>

\* abrirArchivo of a file that does not.
AbreInexistente ==
  /\ fase = "valida" /\ respuesta = 0
  /\ UNCHANGED <<colaCapaFs, pedidos>>
  /\ \/ /\ "c" \in actual.flags
        /\ Consulta(actual.pid, actual.path, actual.flags, 0, "crea")
        /\ UNCHANGED <<fs, pedidos, tablasKernel, vivos, fallo, historia>>
     \/ "c" \notin actual.flags /\ Rompe({"ilegal"})

\* abrirArchivo after crearArchivo: the entry is added whether or not the table
\* has one of that path.
AbreCreado ==
  /\ fase = "crea" /\ respuesta # Nadie
  /\ \/ respuesta = 1 /\ Registra(NuevaGlobal, IndiceNuevo(actual.path))
     \/ respuesta = 0 /\ Responde(actual.pid, 2) /\ UNCHANGED <<tablasKernel, historia>>
  /\ UNCHANGED <<fs, pedidos, colaCapaFs, fallo>>

\* cerrarArchivo.
Cierra(p, fd) ==
  /\ Toma(p)
  /\ \/ tablas[p] = Nadie /\ Rompe({"ilegal"})
     \/ /\ tablas[p] # Nadie /\ ~TieneFd(p, fd)
        /\ Responde(p, 0) /\ Historia({"ilegal"})
        /\ UNCHANGED <<fs, pedidos, tablasKernel, fallo>>
     \/ TieneFd(p, fd) /\ ~EnRango(p, fd) /\ Rompe({})
     \/ /\ TieneFd(p, fd) /\ EnRango(p, fd)
        /\ LET i == Entrada(p, fd).globalFd
           IN  /\ DisminuirOpen(i)
               /\ tablas' = Disminuir([tablas EXCEPT ![p] = SinEntrada(p, fd)], i)
        /\ Responde(p, 1)
        /\ UNCHANGED <<fs, pedidos, fallo, historia>>

Puede(p, fd, permiso) == TieneFd(p, fd) /\ permiso \in Entrada(p, fd).flags

\* escribirArchivo and leerArchivo, until they wait for the FileSystem.
Accede(p, fd, n, permiso, f) ==
  /\ Toma(p)
  /\ \/ ~Puede(p, fd, permiso) /\ Rompe({"ilegal"})
     \/ Puede(p, fd, permiso) /\ ~EnRango(p, fd) /\ Rompe({})
     \/ /\ Puede(p, fd, permiso) /\ EnRango(p, fd)
        /\ tablas' = [tablas EXCEPT ![p] = Rotada(p, fd)]
        /\ Consulta(p, Abierto(p, fd), {}, n, f)
        /\ UNCHANGED <<fs, pedidos, tablaArchivosGlobal, vivos, fallo, historia>>

Escribe(p, fd) ==
  \E n \in Tamanios :
    /\ Puede(p, fd, "w") /\ EnRango(p, fd) /\ Existe(Abierto(p, fd)) =>
         archivos[Abierto(p, fd)].tamanio + n <= MaxTamanio
    /\ Accede(p, fd, n, "w", "guarda")
Lee(p, fd) == Accede(p, fd, 0, "r", "obtiene")

\* escribirArchivo and leerArchivo, after it.
TrasAcceder ==
  /\ fase \in {"guarda", "obtiene"} /\ respuesta # Nadie
  /\ Responde(actual.pid, respuesta)
  /\ UNCHANGED <<fs, pedidos, colaCapaFs, tablasKernel, fallo, historia>>

\* borrarArchivo: the positions are corrected twice.
Borra(p, fd) ==
  /\ Toma(p)
  /\ \/ ~TieneFd(p, fd) /\ Rompe({"ilegal"})
     \/ TieneFd(p, fd) /\ ~EnRango(p, fd) /\ Rompe({})
     \/ /\ TieneFd(p, fd) /\ EnRango(p, fd)
        /\ Consulta(p, Abierto(p, fd), {}, fd, "borra")
        /\ LET i == Entrada(p, fd).globalFd
           IN  /\ DisminuirOpen(i)
               /\ tablas' = Actualizar(
                    Disminuir([tablas EXCEPT ![p] = SinEntrada(p, fd)], i), i)
        /\ Historia({"borra"})
        /\ UNCHANGED <<fs, pedidos, vivos, fallo>>

\* borrarArchivo answers 1 whatever the FileSystem said.
TrasBorrar ==
  /\ fase = "borra" /\ respuesta # Nadie
  /\ Responde(actual.pid, 1)
  /\ UNCHANGED <<fs, pedidos, colaCapaFs, tablasKernel, fallo, historia>>

\* moverCursorArchivo: the table of the process is not put back in
\* listaTablasProcesos when it does not have the descriptor.
Mueve(p, fd) ==
  /\ Toma(p)
  /\ \/ tablas[p] = Nadie /\ Rompe({"ilegal"})
     \/ /\ tablas[p] # Nadie
        /\ tablas' = [tablas EXCEPT ![p] = IF TieneFd(p, fd) THEN Rotada(p, fd) ELSE Nadie]
        /\ Historia(IF TieneFd(p, fd) THEN {} ELSE {"ilegal", "pierde"})
        /\ Responde(p, IF TieneFd(p, fd) THEN 1 ELSE 0)
        /\ UNCHANGED <<fs, pedidos, tablaArchivosGlobal, fallo>>
-----------------------------------------------------------------------------
(* The FileSystem.  GUARDARDATOS of a file that does not exist has no answer. *)

Atiende(v) ==
  LET f == actual.path
  IN  \/ fase = "valida" /\ v = (IF Existe(f) THEN 1 ELSE 0) /\ UNCHANGED fs
      \/ fase = "crea" /\ Crear(f, v)
      \/ fase = "guarda" /\ Guardar(f, actual.n, v)
      \/ fase = "obtiene" /\ v = (IF Existe(f) THEN 1 ELSE 0) /\ UNCHANGED fs
      \/ fase = "borra" /\ Borrar(f, v)

FileSystem ==
  /\ actual # Nadie /\ respuesta = Nadie
  /\ \E v \in {0, 1} : Atiende(v) /\ respuesta' = v
  /\ UNCHANGED <<colaCapaFs, pedidos, actual, fase, tablasKernel, vivos, fallo, historia>>

CapaFs ==
  \/ \E p \in Procs :
       \/ Valida(p)
       \/ \E fd \in Descriptores :
            Cierra(p, fd) \/ Escribe(p, fd) \/ Lee(p, fd) \/ Borra(p, fd) \/ Mueve(p, fd)
  \/ AbreExistente \/ AbreInexistente \/ AbreCreado \/ TrasAcceder \/ TrasBorrar

NextArchivos ==
  /\ fallo = "no"
  /\ \/ \E p \in Procs : Pide(p)
     \/ CapaFs
     \/ FileSystem

SpecArchivos == InitArchivos /\ [][NextArchivos]_vars
-----------------------------------------------------------------------------
(* Properties.                                                              *)

Entradas == UNION {{<<p, j>> : j \in DOMAIN tablas[p]} : p \in {q \in Procs : tablas[q] # Nadie}}

\* No file was open twice at a time, none was deleted and no table was lost.
Exclusivo == historia \cap {"comparte", "borra", "pierde"} = {}

\* While files are used by one program at a time, whatever the order in which
\* they are opened and closed, the position an entry keeps is the one of the
\* file it was opened for.
ApuntaASuArchivo ==
  Exclusivo => \A x \in Entradas :
    LET e == tablas[x[1]][x[2]]
    IN  /\ e.globalFd + 1 \in DOMAIN tablaArchivosGlobal
        /\ tablaArchivosGlobal[e.globalFd + 1] = [path |-> e.path, open |-> 1]

\* However files are shared and deleted, every open file is counted in the
\* global table, though maybe for another: the sum of open is the number of
\* descriptors.
CuentaAbiertos ==
  "pierde" \notin historia =>
    FoldSeq(LAMBDA e, n : e.open + n, 0, tablaArchivosGlobal) = Cardinality(Entradas)

\* The thread waits for an answer that will not come.
EsperaEnVano == fase = "guarda" /\ respuesta = Nadie /\ ~Existe(actual.path)

\* Programs that use the descriptors they got, as they opened them, and files
\* one at a time, neither make the Kernel use a NULL nor stop its layer.
SinFallo == Exclusivo /\ "ilegal" \notin historia => fallo = "no" /\ ~EsperaEnVano

\* "Si ese archivo no lo tiene abierto no lo puede borrar": the file that the
\* FileSystem is told to delete is one that the descriptor was opened for.
BorraLoQueTieneAbierto ==
  [][fase' = "borra" /\ fase # "borra" =>
       \E e \in ToSet(tablas[actual'.pid]) : e.fd = actual'.n /\ e.path = actual'.path]_vars
=============================================================================
