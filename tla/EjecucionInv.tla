---------------------------- MODULE EjecucionInv -----------------------------
(* The inductive invariants of Ejecucion: what the stack of a process is,    *)
(* where Memoria has its pages, what they keep, and what was read.           *)
EXTENDS Ejecucion, ListasLemas

\* The addresses, and the contexts whose names, values and the rest are of U.
Lugares      == [pag : Nat, off : Nat]
Vars(U)      == [etiqueta : U, dir : Lugares, valor : U]
Args(U)      == [dir : Lugares, valor : U]
Contextos(U) == [retPos : U, retVar : U, destino : U, vars : Seq(Vars(U)), args : Seq(Args(U))]

\* What is alive in a stack, from the bottom.
Elem(U)     == Vars(U) \cup Args(U)
Grupo(c)    == c.args \o c.vars
VivasDe(s)  == FlattenSeq([i \in DOMAIN s |-> s[i].args \o s[i].vars])

\* Where a variable may be: addresses are multiples of VARIABLE_SIZE.
EnPagina(d) ==
  /\ d.pag \in CantidadDePaginas + 1 .. UltimaDelStack
  /\ \E k \in 0 .. MARCOS_SIZE : d.off = k * VARIABLE_SIZE
  /\ d.off + VARIABLE_SIZE <= MARCOS_SIZE

EnOrden(v) ==
  \A i \in DOMAIN v :
    /\ EnPagina(v[i].dir)
    /\ i > 1 => Puntero(v[i - 1].dir) + VARIABLE_SIZE <= Puntero(v[i].dir)

\* Only a function that is called by one that has variables has an argument.
ArgumentosTrasVariables(s) ==
  \A i \in DOMAIN s : s[i].args # <<>> => i > 1 /\ s[i - 1].vars # <<>>

\* The main part of the program has nowhere to return to.
PilaBien(U, s) ==
  /\ s \in Seq(Contextos(U))
  /\ EnOrden(VivasDe(s))
  /\ ArgumentosTrasVariables(s)
  /\ s # <<>> => s[1].retVar = NULO

Estados  == {"nuevo", "carga", "busca", "ejecuta", "caida", "fin", "desborda", "libre"}
EnMarcha == {"nuevo", "carga", "busca", "ejecuta"}
EsPcb(x) == DOMAIN x = {"pc", "pila", "liberados"}

\* The stacks, with what the names and the values are left open.
Pilas(U) ==
  /\ guion \in Guiones
  /\ DOMAIN pcb = Pids /\ estado \in [Pids -> Estados]
  /\ \A p \in Pids :
       /\ EsPcb(pcb[p]) /\ PilaBien(U, pcb[p].pila)
       /\ estado[p] \in EnMarcha => pcb[p].pila # <<>>

InvPilas == \E U : Pilas(U)
-----------------------------------------------------------------------------
\* Two lists of what is alive that are at the same addresses, and two contexts of
\* which one is the other with other values.
MismasDirs(v, w) == Len(v) = Len(w) /\ \A i \in 1..Len(v) : v[i].dir = w[i].dir
MismoContexto(c, d) ==
  MismasDirs(c.args, d.args) /\ MismasDirs(c.vars, d.vars) /\ c.retVar = d.retVar

\* What definirVariable leaves of a context, and the context of a call when it left
\* an argument in it.
ConVariable(c, v) == [c EXCEPT !.vars = Append(c.vars, v)]
ArgumentoTras(c, d) ==
  /\ c.vars # <<>> /\ Len(d.args) = 1
  /\ d.args[1].dir = ProximaDireccion(UltimaVariable(c)) /\ ~Desborda(d.args[1].dir)
-----------------------------------------------------------------------------
\* Where a name is, and what a call keeps of the one that called: where the result
\* goes, that is NULO or a place of a name of its, and a sentence before the last.
DirDe(c, x) == IF x = "0" THEN c.args[1].dir ELSE c.vars[IndiceDe(c, x)].dir

RetornoBien(b, c) ==
  /\ Definido(b, c.destino) /\ c.retVar = DirDe(b, c.destino)
  /\ c.retPos + 1 \in 0 .. Len(guion.codigo) - 1

RetornosBien(s) ==
  \A i \in DOMAIN s : s[i].retVar # NULO => i > 1 /\ RetornoBien(s[i - 1], s[i])

Retornos == \A p \in Pids : RetornosBien(pcb[p].pila)

\* Every page of a process that was loaded is in the frame the hash gives it.
Marco(p, k) == CalcularPosicion(p, k)
EnMemoria(e, k) == e # "nuevo" /\ (e = "libre" => k = 0)

PaginasEnSuMarco ==
  /\ SinColision
  /\ overflow = [f \in Frames |-> {}]
  /\ punteroMemoria = [f \in Frames |-> punteroMemoria[f]]
  /\ \A p \in Pids : \A k \in 0 .. UltimaDelStack :
       punteroMemoria[Marco(p, k)] = IF EnMemoria(estado[p], k) THEN Pagina(p, k) ELSE Nada

\* What there is in m at an address, at an offset of a page, and in all of it.
Lee(m, a)      == IF a \in DOMAIN m THEN m[a] ELSE Otro
En(m, p, k, o) == Lee(m, Marco(p, k) * MARCOS_SIZE + o)
Copia(m, p, k) == [i \in 1 .. MARCOS_SIZE |-> En(m, p, k, i - 1)]

\* The table t with the pages of p whose numbers, from 1, are in s; and how
\* inicializarPrograma comes to it.
ConPaginas(t, p, s) ==
  [f \in Frames |-> IF \E i \in s : f = Marco(p, i - 1)
                    THEN Pagina(p, (CHOOSE i \in s : f = Marco(p, i - 1)) - 1) ELSE t[f]]

ConTodas(t, o, p, n) == FoldLeft(Guarda, [tabla |-> t, overflow |-> o], Nodos(p, n))

Guardando(p, n, base, it) ==
  [s \in SUBSET (1 .. n) |-> IF s = {} THEN base
                             ELSE Guarda(it[s \ {Max(s)}], Nodos(p, n)[Max(s)])]

\* The pages from 0 on have frames that are different and free.
Caben(t, p, n) ==
  /\ \A i, j \in 1 .. n : i # j => Marco(p, i - 1) # Marco(p, j - 1)
  /\ \A i \in 1 .. n : t[Marco(p, i - 1)] = Nada

\* What a write in a page changes of the pages of the programs.
Escribio(m, n, u, p, k, d, celdas) ==
  \A q \in Pids, j \in 0 .. u, o \in 0 .. MARCOS_SIZE - 1 :
    En(n, q, j, o) = IF q = p /\ j = k /\ o \in d .. d + Len(celdas) - 1
                     THEN celdas[o - d + 1] ELSE En(m, q, j, o)

\* The pages of the text that were sent are in memory.
CargadaHasta(p) ==
  IF estado[p] = "carga" THEN lectura[p].pag - 1
  ELSE IF estado[p] \in {"busca", "ejecuta"} THEN CantidadDePaginas ELSE 0

TextoCargado ==
  /\ DOMAIN lectura = Pids
  /\ \A p \in Pids : estado[p] \in {"nuevo", "carga"} =>
       /\ "pag" \in DOMAIN lectura[p] /\ lectura[p].pag \in 1 .. CantidadDePaginas
       /\ estado[p] = "nuevo" => lectura[p].pag = 1
  /\ \A p \in Pids : \A k \in 1 .. CargadaHasta(p) : Copia(contenido, p, k) = TextoDePagina(k)

\* Writes are of the stack, or of page 0.  What is in the cache are pages of programs
\* that were loaded; a copy of one that was not written since is what the page is.
Escrita(k) == k = 0 \/ k \in CantidadDePaginas + 1 .. UltimaDelStack

Leidas == {Pagina(p, k) : p \in {q \in Pids : estado[q] \notin {"nuevo", "carga"}},
                          k \in 0 .. UltimaDelStack}

CopiaFiel(m, escritas, n, copia) ==
  n \notin escritas => copia = Copia(m, n.pid, n.pagina)

\* The cache c has copies of pages of leidas as they are in m.
CopiasDe(c, m, escritas, leidas) ==
  /\ DOMAIN c = {"nodos", "copias", "entradasPid", "reemplazada"}
  /\ EsLista(c.nodos) /\ EsLista(c.copias) /\ Len(c.nodos) = Len(c.copias)
  /\ \A i \in 1 .. Len(c.nodos) : c.nodos[i] # Nada =>
       c.nodos[i] \in leidas /\ CopiaFiel(m, escritas, c.nodos[i], c.copias[i])

\* A write changes a page only, that is among the written ones if c has a copy of it.
SoloEscribe(c, m, n, nodo, antes, despues, leidas) ==
  /\ \A x \in leidas : x # nodo => Copia(n, x.pid, x.pagina) = Copia(m, x.pid, x.pagina)
  /\ antes \subseteq despues
  /\ (\E i \in 1 .. Len(c.nodos) : c.nodos[i] = nodo) => nodo \in despues

CopiasFieles ==
  /\ CopiasDe(cache, contenido, sucias, Leidas)
  /\ \A n \in sucias : Escrita(n.pagina)

\* What a sentence does to Memoria: it writes a variable, or where none is, and it
\* reads one.
DondeEscribe(d) ==
  Escrita(d.pag) /\ d.off \in Nat /\ d.off + VARIABLE_SIZE <= MARCOS_SIZE
EscribeBien(p) ==
  \/ \E d, celda : DondeEscribe(d) /\ EscribirVariable(p, d, celda)
  \/ UNCHANGED <<memoria, sucias>>
ConsultaBien(p) ==
  UNCHANGED cache \/ \E k \in 0 .. UltimaDelStack : Consultar(Pagina(p, k))

\* A sentence, and what the CPU does with a process that was loaded.
Avanza(p, estados) ==
  /\ UNCHANGED estado \/ \E e \in estados : estado' = [estado EXCEPT ![p] = e]
  /\ UNCHANGED lectura \/ \E l : lectura' = [lectura EXCEPT ![p] = l]

\* How a sentence ends: the CPU crashes only if it does not support it, and what
\* follows is a sentence and a stack that returns.
PcBien(p) == "pc" \in DOMAIN pcb[p] /\ pcb[p].pc \in 0 .. Len(guion.codigo) - 1

SigueBien(p, x) ==
  /\ Sigue(p, x) /\ EsPcb(x) /\ RetornosBien(x.pila)
  /\ x.pc + 1 \in 0 .. Len(guion.codigo)
  /\ x.pc + 1 = Len(guion.codigo) => NoSoportada(p)

SentenciaBien(p) ==
  \/ Cae(p) /\ NoSoportada(p)
  \/ \E e \in {"fin", "desborda"} : Deja(p, e)
  \/ \E x : SigueBien(p, x)
  \/ UNCHANGED <<guion, estado, pcb, lectura>>

\* What was read of the sentence, and from where the rest will be.
Ubicacion(p) == guion.indice[pcb[p].pc + 1]

LecturaHecha(p) ==
  LET s == Ubicacion(p)
      l == lectura[p]
  IN  /\ l.falta \in 0 .. s.tamano
      /\ BienUbicada(s) =>
           /\ EsLista(l.datos) /\ Len(l.datos) = s.tamano - l.falta
           /\ \A i \in 1 .. s.tamano - l.falta : l.datos[i] = [codigo |-> s.inicio + i - 1]

\* How many pages there are before the one that is read next.
PaginasAntes(s, l) == IF s.inicio % MARCOS_SIZE = 0 THEN l.pag ELSE l.pag - 1

LecturaPendiente(p) ==
  LET s == Ubicacion(p)
      l == lectura[p]
  IN  /\ l.pag \in 0 .. CantidadDePaginas /\ l.off \in 0 .. MARCOS_SIZE - 1
      /\ PaginasAntes(s, l) * MARCOS_SIZE + l.off = s.inicio + s.tamano - l.falta
      /\ l.falta = 0 => s.tamano = 0

LecturaDe(p) ==
  /\ estado[p] \in EnMarcha => PcBien(p)
  /\ estado[p] \in {"nuevo", "carga"} => pcb[p].pc = 0
  /\ estado[p] \in {"busca", "ejecuta"} => LecturaHecha(p)
  /\ estado[p] = "busca" => LecturaPendiente(p)
  /\ estado[p] = "ejecuta" => lectura[p].falta = 0

LecturaBien == \A p \in Pids : LecturaDe(p)

\* What makes SentenciaCorrecta inductive.
InvTexto ==
  /\ InvPilas /\ Retornos /\ PaginasEnSuMarco /\ TextoCargado /\ CopiasFieles /\ LecturaBien

\* Two addresses of variables that share no cell, and lists that differ in a value.
Apartadas(d, e) ==
  d.pag = e.pag => d.off + VARIABLE_SIZE <= e.off \/ e.off + VARIABLE_SIZE <= d.off

CambiaUno(v, w, k, y) ==
  /\ MismasDirs(v, w) /\ k \in 1..Len(v) /\ w[k].valor = y
  /\ \A i \in 1..Len(v) : i # k => w[i].valor = v[i].valor

\* The write of a variable, from m to n, and what is alive that m has.
EscribioValor(m, n, p, d, y) ==
  \E celdas : /\ Len(celdas) = VARIABLE_SIZE /\ \A i \in 1 .. VARIABLE_SIZE : celdas[i] = y
              /\ Escribio(m, n, UltimaDelStack, p, d.pag, d.off, celdas)

TieneValor(m, p, e) ==
  \A c \in 0 .. VARIABLE_SIZE - 1 : En(m, p, e.dir.pag, e.dir.off + c) = e.valor

ConSuValor(m, p, v) == \A i \in DOMAIN v : TieneValor(m, p, v[i])

\* Memoria has what the programs assigned last.
ValoresEnMemoria == \A p \in Pids : ConSuValor(contenido, p, VivasDe(pcb[p].pila))

\* Who does not have its pages has nothing in its stack.
SinPila ==
  \A p \in Pids : estado[p] \notin {"busca", "ejecuta", "caida"} => VivasDe(pcb[p].pila) = <<>>

\* What makes LeeLoAsignado inductive.
InvValores == InvTexto /\ ValoresEnMemoria /\ SinPila
=============================================================================
