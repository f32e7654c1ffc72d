------------------------------ MODULE Ejecucion ------------------------------
(***************************************************************************)
(* What the CPUs do with a program in Memoria: its text is sent page by    *)
(* page, its sentences are read back, and the primitives of the parser     *)
(* keep its variables, arguments and calls in the pages of its stack.      *)
(*                                                                         *)
(* A process is on one CPU at a time, and what one does depends on the     *)
(* others only through Memoria, whose requests are steps: CPUs are left    *)
(* out, and so is planning (Despacho), except that the PCB is copied at    *)
(* the end of a quantum. The parser is external: it calls the primitives   *)
(* as the code of them expects.  One variable is defined by a sentence,    *)
(* and an argument is a number.                                            *)
(***************************************************************************)
EXTENDS Cache

CONSTANTS
  Pids,
  STACK_SIZE,   \* how many pages a stack has
  VARIABLE_SIZE, \* the cells of a variable: 4 bytes
  Guiones       \* the scripts: [tamano, indice, codigo]

\* The Kernel numbers the programs from 1.
ASSUME EjecucionAssumption ==
  /\ Pids \subseteq Nat \ {0}
  /\ STACK_SIZE \in Nat \ {0}
  /\ VARIABLE_SIZE \in 1 .. MARCOS_SIZE /\ MARCOS_SIZE % VARIABLE_SIZE = 0

\* What the parser makes of a script: where each sentence is in its text; jumps
\* and calls go to a sentence, and the last one is the end of a block.
ASSUME GuionesAssumption ==
  \A g \in Guiones :
    /\ g.tamano \in Nat \ {0}
    /\ Len(g.codigo) \in Nat \ {0} /\ DOMAIN g.codigo = 1 .. Len(g.codigo)
    /\ DOMAIN g.indice = DOMAIN g.codigo
    /\ \A i \in DOMAIN g.indice :
         LET s == g.indice[i]
         IN  s.inicio \in Nat /\ s.tamano \in Nat /\ s.inicio + s.tamano <= g.tamano
    /\ \A i \in DOMAIN g.codigo :
         /\ g.codigo[i].op \in {"jnz", "llama"} => g.codigo[i].a \in 0 .. Len(g.codigo) - 1
         /\ i = Len(g.codigo) => g.codigo[i].op \in {"fin", "retorna"}

VARIABLES
  guion,     \* the script that the consoles send
  estado,    \* of each process
  pcb,       \* unPcb of the CPU that has it
  lectura,   \* leerSentencia: the page, the offset, what is left and what was read
  sucias,    \* the pages written since they were copied
  fallo      \* "no", or "ub": Memoria met undefined behaviour

vars == <<memoria, cache, guion, estado, pcb, lectura, sucias, fallo>>

Pagina(pid, pagina) == [pid |-> pid, pagina |-> pagina]
NULO     == [pag |-> -1, off |-> 0]
Cero     == [valor |-> 0]
Relleno  == [codigo |-> -1]
CantidadDePaginas == (guion.tamano + MARCOS_SIZE - 1) \div MARCOS_SIZE
UltimaDelStack    == CantidadDePaginas + STACK_SIZE
PaginasTotales    == CantidadDePaginas + STACK_SIZE + 1

\* The frames are enough and no page finds its own taken; Heap has the rest.
SinColision ==
  \A m, n \in {Pagina(p, i) : p \in Pids, i \in 0 .. UltimaDelStack} :
    m # n => CalcularPosicion(m.pid, m.pagina) # CalcularPosicion(n.pid, n.pagina)

Contexto(retPos, retVar, destino) ==
  [retPos |-> retPos, retVar |-> retVar, destino |-> destino, vars |-> <<>>, args |-> <<>>]

\* crearPCB; liberados: indiceStack has contexts that were destroyed.
PcbInicial == [pc |-> 0, pila |-> <<Contexto(0, NULO, "")>>, liberados |-> FALSE]

\* crearEstructuraParaMemoria.
Estructura(pc) ==
  LET s == guion.indice[pc + 1]
  IN  [pag |-> (s.inicio + MARCOS_SIZE - 1) \div MARCOS_SIZE, off |-> s.inicio % MARCOS_SIZE,
       falta |-> s.tamano, datos |-> <<>>]

InitEjecucion ==
  /\ InitMemoria /\ InitCache
  /\ guion \in Guiones /\ SinColision
  /\ estado = [p \in Pids |-> "nuevo"]
  /\ pcb = [p \in Pids |-> PcbInicial]
  /\ lectura = [p \in Pids |-> [pag |-> 1, falta |-> 0]]
  /\ sucias = {} /\ fallo = "no"
-----------------------------------------------------------------------------
(* The text of the program.                                                 *)

\* procesarScript: INICIALIZARPROCESO.  The script thread loads one at a time.
Inicializa(p) ==
  /\ estado[p] = "nuevo" /\ \A q \in Pids : estado[q] = "nuevo" => p <= q
  /\ \A q \in Pids : estado[q] # "carga"
  /\ InicializarPrograma(p, PaginasTotales)
  /\ estado' = [estado EXCEPT ![p] = "carga"]
  /\ UNCHANGED <<cache, guion, pcb, lectura, sucias, fallo>>

\* Mutant: the last page is filled from where the one before began.
TextoDeLaAnterior(k) ==
  LET desde == (IF k = CantidadDePaginas /\ k > 1 THEN k - 2 ELSE k - 1) * MARCOS_SIZE
  IN  [i \in 1 .. MARCOS_SIZE |->
         IF k < CantidadDePaginas \/ i <= guion.tamano % MARCOS_SIZE
         THEN [codigo |-> desde + i - 1] ELSE Relleno]

\* What enviarProcesoAMemoria sends of page k: the last one gets the remainder
\* of the division, that may be nothing, and filling.
TextoDePagina(k) ==
  [i \in 1 .. MARCOS_SIZE |->
     IF k < CantidadDePaginas \/ i <= guion.tamano % MARCOS_SIZE
     THEN [codigo |-> (k - 1) * MARCOS_SIZE + i - 1] ELSE Relleno]

\* PAGINA, and its answer; after the last one the process is planned.
EnviaPagina(p) ==
  /\ estado[p] = "carga"
  /\ LET k == lectura[p].pag
     IN  /\ EscribirEnPagina(Pagina(p, k), 0, TextoDePagina(k))
         /\ IF k = CantidadDePaginas
            THEN /\ estado' = [estado EXCEPT ![p] = "busca"]
                 /\ lectura' = [lectura EXCEPT ![p] = Estructura(0)]
            ELSE /\ UNCHANGED estado
                 /\ lectura' = [lectura EXCEPT ![p].pag = k + 1]
  /\ UNCHANGED <<cache, guion, pcb, sucias, fallo>>

\* leerSentencia: what is in one page, and then what is in the next.
LeerSentencia(p) ==
  /\ estado[p] = "busca"
  /\ LET l == lectura[p]
         n == IF l.off + l.falta <= MARCOS_SIZE THEN l.falta ELSE MARCOS_SIZE - l.off
         nodo == Pagina(p, l.pag)
     IN  /\ lectura' = [lectura EXCEPT ![p] =
               [pag |-> l.pag + 1, off |-> 0, falta |-> l.falta - n,
                datos |-> l.datos \o LeerDeMemoria(nodo, l.off, n)]]
         /\ Consultar(nodo)
         /\ estado' = IF n = l.falta THEN [estado EXCEPT ![p] = "ejecuta"] ELSE estado
  /\ UNCHANGED <<memoria, guion, pcb, sucias, fallo>>
-----------------------------------------------------------------------------
(* The stack.                                                               *)

Pila(p) == pcb[p].pila
Tope(p) == Last(Pila(p))

\* Mutant: a variable fits where the page ends.
ProximaDesalineada(d) ==
  IF d = NULO THEN NULO
  ELSE IF d.off + VARIABLE_SIZE > MARCOS_SIZE THEN [pag |-> d.pag + 1, off |-> 0]
  ELSE [pag |-> d.pag, off |-> d.off + VARIABLE_SIZE]

\* The place after d; NULO is what list_get returns, and is dereferenced.
ProximaDireccion(d) ==
  IF d = NULO THEN NULO
  ELSE IF d.off + VARIABLE_SIZE >= MARCOS_SIZE THEN [pag |-> d.pag + 1, off |-> 0]
  ELSE [pag |-> d.pag, off |-> d.off + VARIABLE_SIZE]

Desborda(d) == d.pag > UltimaDelStack

DireccionPrimeraPagina == [pag |-> CantidadDePaginas + 1, off |-> 0]

\* Of the n-th variable of a context.
DireccionDe(contexto, n) ==
  IF n \in DOMAIN contexto.vars THEN contexto.vars[n].dir ELSE NULO

UltimaVariable(contexto) == DireccionDe(contexto, Len(contexto.vars))

\* Where definirVariable puts a variable: armarDireccionPrimeraPagina,
\* armarProximaDireccion or armarDireccionDeFuncion.
DireccionDeVariable(pila) ==
  LET actual == Last(pila)
  IN  IF actual.vars # <<>> THEN ProximaDireccion(UltimaVariable(actual))
      ELSE IF actual.args # <<>> THEN ProximaDireccion(Last(actual.args).dir)
      ELSE IF \A i \in DOMAIN pila : pila[i].vars = <<>> THEN DireccionPrimeraPagina
      ELSE ProximaDireccion(UltimaVariable(pila[Len(pila) - 1]))

\* Mutant: the variables of the function that is called are looked at.
ArgumentoTrasLaActual(pila) == ProximaDireccion(UltimaVariable(Last(pila)))

\* armarDireccionDeArgumento.  The second one is looked for after a variable.
DireccionDeArgumento(pila) ==
  LET actual == Last(pila)
  IN  IF actual.args = <<>> THEN ProximaDireccion(UltimaVariable(pila[Len(pila) - 1]))
      ELSE ProximaDireccion(DireccionDe(actual, Len(actual.args)))

\* The last variable of that name: where obtenerPosicionVariable finds it.
IndiceDe(contexto, x) == SelectLastInSeq(contexto.vars, LAMBDA v : v.etiqueta = x)

\* Arguments are named by digits, the first by 0.
Definido(contexto, x) ==
  IF x = "0" THEN contexto.args # <<>> ELSE IndiceDe(contexto, x) # 0

ObtenerPosicionVariable(p, x) ==
  IF x = "0" THEN Tope(p).args[1].dir ELSE Tope(p).vars[IndiceDe(Tope(p), x)].dir

Sentencia(p) == guion.codigo[pcb[p].pc + 1]

\* What the script has where the sentence is.
Texto(p) ==
  LET s == guion.indice[pcb[p].pc + 1]
  IN  [i \in 1 .. s.tamano |-> [codigo |-> s.inicio + i - 1]]

\* The names that a sentence uses.
Nombres(s) ==
  (IF s.op = "asigna" \/ (s.op = "llama" /\ s.x # "") THEN {s.x} ELSE {})
  \cup (IF s.op \in {"asigna", "jnz", "retorna"} /\ s.e.tipo # "numero" THEN {s.e.x} ELSE {})

Ejecuta(p, op) ==
  /\ estado[p] = "ejecuta" /\ lectura[p].datos = Texto(p) /\ Sentencia(p).op = op
  /\ \A x \in Nombres(Sentencia(p)) : Definido(Tope(p), x)

\* The process is the CPU's of which nothing more is known.
Cae(p) ==
  /\ estado' = [estado EXCEPT ![p] = "caida"]
  /\ UNCHANGED <<memoria, cache, guion, pcb, lectura, sucias, fallo>>

\* The end of a sentence; pc was left at it, or before the one to go to.
Sigue(p, nuevo) ==
  LET pc == nuevo.pc + 1
  IN  /\ pcb' = [pcb EXCEPT ![p] = [nuevo EXCEPT !.pc = pc]]
      /\ IF pc < Len(guion.codigo)
         THEN /\ estado' = [estado EXCEPT ![p] = "busca"]
              /\ lectura' = [lectura EXCEPT ![p] = Estructura(pc)]
         ELSE estado' = [estado EXCEPT ![p] = "caida"] /\ UNCHANGED lectura
      /\ UNCHANGED <<guion, fallo>>

\* programaAbortado or programaFinalizado: the CPU is done with the process.
Deja(p, como) ==
  /\ estado' = [estado EXCEPT ![p] = como]
  /\ pcb' = [pcb EXCEPT ![p].pila = <<>>]
  /\ UNCHANGED <<guion, lectura, fallo>>

\* ESCRIBIRVARIABLE.
EscribirVariable(p, d, celda) ==
  LET nodo == Pagina(p, d.pag)
  IN  /\ EscribirEnPagina(nodo, d.off, [i \in 1 .. VARIABLE_SIZE |-> celda])
      /\ sucias' = IF \E i \in DOMAIN cache'.nodos : cache'.nodos[i] = nodo
                   THEN sucias \cup {nodo} ELSE sucias

\* What dereferenciar returns of a variable.
Dereferenciar(p, d) == Head(LeerDeMemoria(Pagina(p, d.pag), d.off, VARIABLE_SIZE))

\* An expression is a number or a variable.
Valor(p, e) ==
  IF e.tipo = "numero" THEN [valor |-> e.n]
  ELSE Dereferenciar(p, ObtenerPosicionVariable(p, e.x))

\* What reading it does to the cache.
Evalua(p, e) ==
  IF e.tipo = "numero" THEN UNCHANGED cache
  ELSE Consultar(Pagina(p, ObtenerPosicionVariable(p, e.x).pag))

\* The context once x was given a value.
ConValor(contexto, x, celda) ==
  IF x = "0" THEN [contexto EXCEPT !.args[1].valor = celda]
  ELSE [contexto EXCEPT !.vars[IndiceDe(contexto, x)].valor = celda]
-----------------------------------------------------------------------------
(* The primitives, each in the sentence that uses it.                       *)

\* definirVariable of a name; the variable begins as 0.
Variables(p) ==
  /\ Ejecuta(p, "variables")
  /\ LET d == DireccionDeVariable(Pila(p))
         v == [etiqueta |-> Sentencia(p).x, dir |-> d, valor |-> Cero]
     IN  \/ d = NULO /\ Cae(p)
         \/ /\ Desborda(d) /\ Deja(p, "desborda")
            /\ UNCHANGED <<memoria, cache, sucias>>
         \/ /\ d # NULO /\ ~Desborda(d)
            /\ UNCHANGED cache /\ EscribirVariable(p, d, Cero)
            /\ Sigue(p, [pcb[p] EXCEPT !.pila[Len(Pila(p))].vars = Append(@, v)])

\* obtenerPosicionVariable and asignar, with dereferenciar in the expression.
Asigna(p) ==
  /\ Ejecuta(p, "asigna")
  /\ LET s == Sentencia(p)
         celda == Valor(p, s.e)
     IN  /\ Evalua(p, s.e)
         /\ EscribirVariable(p, ObtenerPosicionVariable(p, s.x), celda)
         /\ Sigue(p, [pcb[p] EXCEPT !.pila = Front(@) \o <<ConValor(Tope(p), s.x, celda)>>])

\* irAlLabel, if the variable is not zero.  What was never written may be.
Jnz(p) ==
  /\ Ejecuta(p, "jnz")
  /\ LET s == Sentencia(p)
         celda == Valor(p, s.e)
     IN  /\ Evalua(p, s.e)
         /\ \/ celda # Cero /\ Sigue(p, [pcb[p] EXCEPT !.pc = s.a - 1])
            \/ celda \in {Cero, Otro} /\ Sigue(p, pcb[p])
  /\ UNCHANGED <<memoria, sucias>>

\* llamarSinRetorno or llamarConRetorno: the context of a call.
Llamado(p) ==
  LET s == Sentencia(p)
  IN  IF s.x = "" THEN Contexto(pcb[p].pc, NULO, "")
      ELSE Contexto(pcb[p].pc, ObtenerPosicionVariable(p, s.x), s.x)

ConArgumento(contexto, d, celda) ==
  [contexto EXCEPT !.args = Append(@, [dir |-> d, valor |-> celda])]

\* A call, and definirVariable and asignar of its arguments.  After contexts that
\* were destroyed, list_get finds one of them, which may be the new one: malloc
\* gives again what was freed last.
Llama(p) ==
  /\ Ejecuta(p, "llama")
  /\ LET args  == Sentencia(p).args
         nueva == Append(Pila(p), Llamado(p))
         d     == DireccionDeArgumento(nueva)
         celda == [valor |-> args[1]]
         dos   == Append(Pila(p), ConArgumento(Llamado(p), d, celda))
         va    == [pcb[p] EXCEPT !.pc = Sentencia(p).a - 1]
     IN  \/ pcb[p].liberados /\ Cae(p)
         \/ /\ args = <<>>
            /\ Sigue(p, [va EXCEPT !.pila = nueva])
            /\ UNCHANGED <<memoria, cache, sucias>>
         \/ args # <<>> /\ d = NULO /\ Cae(p)
         \/ Len(args) = 2 /\ d # NULO /\ DireccionDeArgumento(dos) = NULO /\ Cae(p)
         \/ /\ Len(args) = 1 /\ d # NULO /\ Desborda(d)
            /\ UNCHANGED cache /\ EscribirVariable(p, [pag |-> 0, off |-> 0], celda)
            /\ Deja(p, "desborda")
         \/ /\ Len(args) = 1 /\ d # NULO /\ ~Desborda(d)
            /\ UNCHANGED cache /\ EscribirVariable(p, d, celda)
            /\ Sigue(p, [va EXCEPT !.pila = dos])

\* destruirContextoActual, once the one below is as abajo.
Destruye(p, abajo) ==
  [pcb[p] EXCEPT !.pila = Front(Front(@)) \o <<abajo>>, !.liberados = TRUE]

\* retornar.  A call that gave no variable left retVar as malloc did.
Retorna(p) ==
  /\ Ejecuta(p, "retorna")
  /\ LET actual == Tope(p)
         abajo  == Pila(p)[Len(Pila(p)) - 1]
         celda  == Valor(p, Sentencia(p).e)
     IN  \/ /\ actual.retVar = NULO
            /\ fallo' = "ub" /\ UNCHANGED <<memoria, cache, guion, estado, pcb, lectura, sucias>>
         \/ /\ actual.retVar # NULO
            /\ Evalua(p, Sentencia(p).e)
            /\ EscribirVariable(p, actual.retVar, celda)
            /\ Sigue(p, [Destruye(p, ConValor(abajo, actual.destino, celda))
                           EXCEPT !.pc = actual.retPos])

\* finalizar.  After the end of a function comes the sentence that follows.
Finaliza(p) ==
  /\ Ejecuta(p, "fin")
  /\ \/ Len(Pila(p)) = 1 /\ Deja(p, "fin")
     \/ Len(Pila(p)) > 1 /\ Sigue(p, Destruye(p, Pila(p)[Len(Pila(p)) - 1]))
  /\ UNCHANGED <<memoria, cache, sucias>>

\* obtenerPosicionVariable does not return a value for a variable that it does not
\* find, and dereferences what list_get returns for an argument.
UsaSinDefinir(p) ==
  /\ estado[p] = "ejecuta" /\ lectura[p].datos = Texto(p)
  /\ \E x \in Nombres(Sentencia(p)) :
       /\ ~Definido(Tope(p), x)
       /\ \/ x = "0" /\ Cae(p)
          \/ /\ x # "0" /\ fallo' = "ub"
             /\ UNCHANGED <<memoria, cache, guion, estado, pcb, lectura, sucias>>

\* The parser is given something else than the sentence.
OtroTexto(p) ==
  estado[p] = "ejecuta" /\ lectura[p].datos # Texto(p) /\ Cae(p)

\* FINDEQUATUM: serializarPCB copies the contexts that are not destroyed.
FinDeQuantum(p) ==
  /\ estado[p] = "busca" /\ lectura[p].datos = <<>> /\ pcb[p].liberados
  /\ pcb' = [pcb EXCEPT ![p].liberados = FALSE]
  /\ UNCHANGED <<memoria, cache, guion, estado, lectura, sucias, fallo>>

\* PROGRAMATERMINADO and the abort, in the Kernel: it counts pages from 1.
LiberaElKernel(p) ==
  /\ estado[p] \in {"fin", "desborda"}
  /\ estado' = [estado EXCEPT ![p] = "libre"]
  /\ LiberarPaginas({Pagina(p, i) : i \in 1 .. UltimaDelStack})
  /\ UNCHANGED <<cache, guion, pcb, lectura, sucias, fallo>>

\* The console of Memoria, between two requests.
VaciaCache ==
  /\ Flush /\ cache' # cache
  /\ UNCHANGED <<memoria, guion, estado, pcb, lectura, sucias, fallo>>

\* It does not take mutexProcesar: leerDeCache may not find what was there.
VaciaEnLectura ==
  /\ \E p \in Pids : estado[p] = "busca" /\ BuscarNodoCache(Pagina(p, lectura[p].pag)) # 0
  /\ Flush /\ fallo' = "ub"
  /\ UNCHANGED <<memoria, guion, estado, pcb, lectura, sucias>>
-----------------------------------------------------------------------------
Primitivas(p) ==
  Variables(p) \/ Asigna(p) \/ Jnz(p) \/ Llama(p) \/ Retorna(p) \/ Finaliza(p)

NextEjecucion ==
  /\ fallo = "no" /\ ~cache.reemplazada
  /\ \/ \E p \in Pids :
          \/ Inicializa(p) \/ EnviaPagina(p) \/ LeerSentencia(p) \/ Primitivas(p)
          \/ UsaSinDefinir(p) \/ OtroTexto(p) \/ FinDeQuantum(p) \/ LiberaElKernel(p)
     \/ VaciaCache \/ VaciaEnLectura

SpecEjecucion == InitEjecucion /\ [][NextEjecucion]_vars
-----------------------------------------------------------------------------
(* Properties.                                                              *)

\* What is alive in the stack of a process, from the bottom.
Vivas(p) == FlattenSeq([i \in DOMAIN Pila(p) |-> Pila(p)[i].args \o Pila(p)[i].vars])

Puntero(d) == d.pag * MARCOS_SIZE + d.off

\* The variables and arguments that are alive follow one another without sharing
\* a cell, none of them is cut by the end of a page and all of them are in the pages
\* that the process has for its stack, as functions call one another, return and
\* are called again.
EnSuStack ==
  \A p \in Pids :
    LET d == [i \in DOMAIN Vivas(p) |-> Vivas(p)[i].dir]
    IN  \A i \in DOMAIN d :
          /\ d[i].pag \in CantidadDePaginas + 1 .. UltimaDelStack
          /\ d[i].off + VARIABLE_SIZE <= MARCOS_SIZE
          /\ i > 1 => Puntero(d[i - 1]) + VARIABLE_SIZE <= Puntero(d[i])

\* Memoria keeps, for every variable and argument that is alive, what its program
\* assigned to it last, and that is what a CPU reads, unless the page was written
\* after it was copied to the cache.
LeeLoAsignado ==
  \A p \in Pids : \A i \in DOMAIN Vivas(p) :
    LET v == Vivas(p)[i]
        nodo == Pagina(p, v.dir.pag)
    IN  /\ \A c \in 0 .. VARIABLE_SIZE - 1 :
             LeerDePagina(nodo, v.dir.off + c, 1) = <<v.valor>>
        /\ Dereferenciar(p, v.dir) = v.valor \/ nodo \in sucias

\* The sentence whose text is read does not begin where a page does, nor reaches a
\* last page that the script fills.
BienUbicada(s) ==
  /\ s.inicio % MARCOS_SIZE # 0
  /\ guion.tamano % MARCOS_SIZE = 0 =>
       s.inicio + s.tamano <= (CantidadDePaginas - 1) * MARCOS_SIZE

\* A CPU executes the sentence that the script has at its program counter, read
\* from one page or several, from the cache or not, if it is BienUbicada.
SentenciaCorrecta ==
  \A p \in Pids :
    estado[p] = "ejecuta" /\ BienUbicada(guion.indice[pcb[p].pc + 1]) =>
      lectura[p].datos = Texto(p)

\* The sentences that the CPU does not support: a call with two arguments, or after
\* another one returned in the same quantum; what needs the last variable of a
\* caller that has none; the use of an argument that was not given; the end of a
\* function that does not return.
NoSoportada(p) ==
  LET s == Sentencia(p)
      llamador == Pila(p)[Len(Pila(p)) - 1]
  IN  \/ /\ s.op = "llama"
         /\ \/ Len(s.args) = 2 \/ pcb[p].liberados
            \/ s.args # <<>> /\ Tope(p).vars = <<>>
      \/ /\ s.op = "variables" /\ Len(Pila(p)) > 1
         /\ Tope(p).vars = <<>> /\ Tope(p).args = <<>> /\ llamador.vars = <<>>
      \/ "0" \in Nombres(s) /\ Tope(p).args = <<>>
      \/ s.op = "fin" /\ Len(Pila(p)) > 1

\* A CPU crashes at a sentence it does not support or that was not found, and at no
\* other one.
SoloCaePor ==
  [][\A p \in Pids :
       estado[p] # "caida" /\ estado'[p] = "caida" =>
         NoSoportada(p) \/ ~BienUbicada(guion.indice[pcb[p].pc + 1])]_vars
=============================================================================
