-------------------------- MODULE SistemaDeArchivos --------------------------
(***************************************************************************)
(* The FileSystem process: the bitmap of blocks and the metadata of every   *)
(* file, TAMANIO and BLOQUES.  It handles one request of the Kernel at a    *)
(* time.  The contents of the blocks are left out, and with them the        *)
(* offsets and OBTENERDATOS, which changes nothing.                         *)
(***************************************************************************)
EXTENDS Integers, Sequences, FiniteSets, SequencesExt

CONSTANTS
  Paths,             \* the names of files
  CANTIDAD_BLOQUES, TAMANIO_BLOQUES,
  Tamanios,          \* how much a program may write at once
  MaxTamanio,        \* the bound of the size of a file in these runs
  MaxReinicios       \* how many times the process is restarted

ASSUME TamaniosSupuesto ==
  /\ CANTIDAD_BLOQUES \in Nat /\ TAMANIO_BLOQUES \in Nat \ {0}
  /\ Tamanios \subseteq Nat \ {0}

VARIABLES
  archivos,   \* archivos[f]: the metadata of f; the domain is the files there are
  bitarray,   \* the blocks marked as used
  reinicios

fs == <<archivos, bitarray, reinicios>>

Bloques == 0..CANTIDAD_BLOQUES - 1
Libres  == Bloques \ bitarray
Existe(f) == f \in DOMAIN archivos

\* main() fills Bitmap.bin with bytes of value 1: with MSB_FIRST, the last
\* block of every eight is marked.
Marcados == {b \in Bloques : b % 8 = 7}

Init ==
  /\ archivos = <<>>
  /\ bitarray = Marcados
  /\ reinicios = 0

\* The n free blocks with the lowest numbers, in order.
Primeros(n) ==
  [i \in 1..n |-> CHOOSE b \in Libres : Cardinality({a \in Libres : a < b}) = i - 1]

Techo(a, b) == (a + b - 1) \div b

\* The metadata with a new file f, of one block.
ConArchivo(f) ==
  [g \in DOMAIN archivos \cup {f} |->
     IF g = f THEN [tamanio |-> 0, bloques |-> <<Min(Libres)>>] ELSE archivos[g]]

\* Mutant: the block is not marked in the bitmap.
CrearSinMarcar(f, validado) ==
  \/ /\ Libres # {} /\ validado = 1
     /\ archivos' = ConArchivo(f)
     /\ UNCHANGED <<bitarray, reinicios>>
  \/ /\ Libres = {} /\ validado = 0
     /\ UNCHANGED fs

\* CREARARCHIVO: one block, even for an empty file.  What a file of that name
\* had is replaced.  A fopen that fails, after the block was found, is left out:
\* the code does not look at what it returned.
Crear(f, validado) ==
  \/ /\ Libres # {} /\ validado = 1
     /\ archivos' = ConArchivo(f)
     /\ bitarray' = bitarray \cup {Min(Libres)}
     /\ UNCHANGED reinicios
  \/ /\ Libres = {} /\ validado = 0
     /\ UNCHANGED fs

\* What is left in the last block of f.
Restante(f) == Len(archivos[f].bloques) * TAMANIO_BLOQUES - archivos[f].tamanio

\* Mutant: what was left in the last block is not discounted.
MasBloquesDeMas(f, n) == Techo(n, TAMANIO_BLOQUES)

\* How many more blocks n bytes need.
MasBloques(f, n) ==
  IF n < Restante(f) THEN 0 ELSE Techo(n - Restante(f), TAMANIO_BLOQUES)

\* Mutant: the blocks are marked while they are looked for, and stay so when they
\* are not enough.
GuardarMarcandoAlBuscar(f, n, validado) ==
  /\ Existe(f)
  /\ \/ /\ MasBloques(f, n) <= Cardinality(Libres) /\ validado = 1
        /\ LET nuevos == Primeros(MasBloques(f, n))
           IN  /\ archivos' = [archivos EXCEPT ![f].tamanio = @ + n,
                                               ![f].bloques = @ \o nuevos]
               /\ bitarray' = bitarray \cup ToSet(nuevos)
        /\ UNCHANGED reinicios
     \/ /\ MasBloques(f, n) > Cardinality(Libres) /\ validado = 0
        /\ bitarray' = Bloques
        /\ UNCHANGED <<archivos, reinicios>>

\* GUARDARDATOS: TAMANIO grows by what is written wherever it is written.  A
\* write that fills the last block leaves a comma after it in BLOQUES, which is
\* no block when it is read again.
Guardar(f, n, validado) ==
  /\ Existe(f)
  /\ \/ /\ MasBloques(f, n) <= Cardinality(Libres) /\ validado = 1
        /\ LET nuevos == Primeros(MasBloques(f, n))
           IN  /\ archivos' = [archivos EXCEPT ![f].tamanio = @ + n,
                                               ![f].bloques = @ \o nuevos]
               /\ bitarray' = bitarray \cup ToSet(nuevos)
        /\ UNCHANGED reinicios
     \/ /\ MasBloques(f, n) > Cardinality(Libres) /\ validado = 0
        /\ UNCHANGED fs

\* BORRARARCHIVOFS; remove() may fail.
Borrar(f, validado) ==
  \/ /\ Existe(f) /\ validado = 1
     /\ archivos' = [g \in DOMAIN archivos \ {f} |-> archivos[g]]
     /\ bitarray' = bitarray \ ToSet(archivos[f].bloques)
     /\ UNCHANGED reinicios
  \/ validado = 0 /\ UNCHANGED fs

\* The process is started again: the bitmap is written anew, the metadata is
\* as it was.
Reinicia ==
  /\ reinicios < MaxReinicios
  /\ reinicios' = reinicios + 1
  /\ bitarray' = Marcados
  /\ UNCHANGED archivos

(* On its own, it serves a Kernel that creates what VALIDARARCHIVO says does *)
(* not exist.                                                                *)
Next ==
  \/ \E f \in Paths, v \in {0, 1} :
       \/ ~Existe(f) /\ Crear(f, v)
       \/ Borrar(f, v)
       \/ \E n \in Tamanios : Existe(f) /\ archivos[f].tamanio + n <= MaxTamanio
                                        /\ Guardar(f, n, v)
  \/ Reinicia

Spec == Init /\ [][Next]_fs
-----------------------------------------------------------------------------
(* Properties.                                                              *)

\* The bitmap marks the blocks of the files, and those main() marks: creating,
\* growing and deleting files neither loses a block nor frees one in use, even
\* when a request fails for want of space.
BitmapExacto ==
  bitarray = Marcados \cup UNION {ToSet(archivos[f].bloques) : f \in DOMAIN archivos}

\* No block belongs to two files, or twice to one.
UnDuenio ==
  \A f, g \in DOMAIN archivos :
    /\ IsInjective(archivos[f].bloques)
    /\ f # g => ToSet(archivos[f].bloques) \cap ToSet(archivos[g].bloques) = {}

\* A file has the blocks its size needs, one at least: the branch that fills
\* the last block exactly, which asks for none, keeps the count right for the
\* next write.
TamanioJusto ==
  \A f \in DOMAIN archivos :
    LET justo == Techo(archivos[f].tamanio, TAMANIO_BLOQUES)
    IN  Len(archivos[f].bloques) = IF justo = 0 THEN 1 ELSE justo
=============================================================================
