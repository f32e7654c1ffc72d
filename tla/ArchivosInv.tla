----------------------------- MODULE ArchivosInv -----------------------------
(* The inductive invariants of Archivos: one for the FileSystem, one for the *)
(* tables of open files while files are used by one program at a time.       *)
EXTENDS Archivos

Metadata == [tamanio : Nat, bloques : Seq(Bloques)]

TiposFs ==
  /\ DOMAIN archivos \subseteq Paths
  /\ archivos \in [DOMAIN archivos -> Metadata]
  /\ bitarray \subseteq Bloques

\* The request the thread waits for, and what the FileSystem must know of its
\* file: it is asked to create only files there are not.
Pedido ==
  /\ fase \in {"espera", "valida", "crea", "guarda", "obtiene", "borra"}
  /\ respuesta \in {0, 1, Nadie}
  /\ fase # "espera" => actual.pid \in Procs /\ actual.path \in Paths
  /\ fase \in {"valida", "crea"} => actual.flags \in SUBSET Permisos
  /\ fase = "guarda" => actual.n \in Tamanios
  /\ fase = "valida" /\ respuesta = 0 => ~Existe(actual.path)
  /\ fase = "crea" /\ respuesta = Nadie => ~Existe(actual.path)

\* No file has one of the blocks that main() marks: deleting it would free it.
SinMarcados == \A f \in DOMAIN archivos : ToSet(archivos[f].bloques) \cap Marcados = {}

\* What the FileSystem keeps right whatever it is asked.
InvFs == TiposFs /\ BitmapExacto /\ UnDuenio /\ SinMarcados /\ TamanioJusto

\* The table of open files of a process, or Nadie.
Tabla == {Nadie} \cup Seq(EntradaDeTabla)

TiposTablas ==
  /\ tablas \in [Procs -> Tabla]
  /\ tablaArchivosGlobal \in Seq(EntradaGlobal)

\* Whatever the programs do.
IInvFs == InvFs /\ Pedido /\ TiposTablas

\* The entries of p.
EntradasDe(p) == IF tablas[p] = Nadie THEN {} ELSE ToSet(tablas[p])

\* e points to the entry of its file.
Apunta(e) ==
  /\ e.globalFd + 1 \in DOMAIN tablaArchivosGlobal
  /\ tablaArchivosGlobal[e.globalFd + 1] = [path |-> e.path, open |-> 1]

\* A file has one entry, of one process, and one in the global table.
UnaEntrada ==
  /\ \A p, q \in Procs : \A e \in EntradasDe(p), d \in EntradasDe(q) :
       e.path = d.path => p = q /\ e = d
  /\ \A p \in Procs : tablas[p] # Nadie => IsInjective(tablas[p])
  /\ \A i, j \in DOMAIN tablaArchivosGlobal :
       tablaArchivosGlobal[i].path = tablaArchivosGlobal[j].path => i = j

\* The entries of the global table are of files there are, that someone opened.
GlobalVigente ==
  \A i \in DOMAIN tablaArchivosGlobal :
    /\ Existe(tablaArchivosGlobal[i].path)
    /\ \E p \in Procs : \E e \in EntradasDe(p) : e.path = tablaArchivosGlobal[i].path

\* Every open file has one entry, of one process, that points to its entry of
\* the global table, which has no other.
TablasEnOrden ==
  /\ \A p \in Procs : \A e \in EntradasDe(p) : Apunta(e)
  /\ UnaEntrada /\ GlobalVigente

\* What is known of the file of the request.
PedidoVigente ==
  /\ fase = "valida" /\ respuesta = 1 => Existe(actual.path)
  /\ fase = "crea" =>
       /\ \A i \in DOMAIN tablaArchivosGlobal : tablaArchivosGlobal[i].path # actual.path
       /\ respuesta = 1 => Existe(actual.path)
  /\ fase = "guarda" => Existe(actual.path)
  /\ fase # "borra"

EnOrden ==
  /\ TablasEnOrden /\ PedidoVigente
  /\ "ilegal" \notin historia => fallo = "no"

\* While they use files one at a time.
IInvTablas == IInvFs /\ (Exclusivo => EnOrden)

\* What becomes of an entry when the one at indice leaves the global table.
Corregida(e, indice) ==
  [fd |-> e.fd, flags |-> e.flags, path |-> e.path,
   globalFd |-> IF e.globalFd > indice THEN e.globalFd - 1 ELSE e.globalFd]

\* The new entry of abrirArchivo, and the table of the process before it.
NuevaEntrada(t, indice) ==
  [fd |-> Len(t) + 3, flags |-> actual.flags, globalFd |-> indice, path |-> actual.path]
Previa(p) == IF tablas[p] = Nadie THEN <<>> ELSE tablas[p]

\* The sum of open of the global table, as CuentaAbiertos has it.
Abiertos(q) == FoldSeq(LAMBDA e, n : e.open + n, 0, q)

\* The places of the entries of some tables.
EntradasEn(t) == UNION {{<<p, j>> : j \in DOMAIN t[p]} : p \in {q \in Procs : t[q] # Nadie}}

\* The entries are finitely many, and open counts them while no table is lost.
Contado ==
  /\ IsFiniteSet(Entradas)
  /\ "pierde" \notin historia => Abiertos(tablaArchivosGlobal) = Cardinality(Entradas)

\* However files are shared and deleted.
IInvCuenta == IInvFs /\ Contado
=============================================================================
