------------------------------ MODULE Admision ------------------------------
(***************************************************************************)
(* How programs enter the Kernel: the consoles, the main thread that       *)
(* serves every socket in a loop around select, the script thread          *)
(* (procesarScript) and Memoria, that says whether a program fits.         *)
(*                                                                         *)
(* The index of the loop of the main thread, i, is a global: crearPCB, in  *)
(* the script thread, and PROGRAMATERMINADO use it for loops of their own. *)
(* A step of the main thread ends where i is read again, but for the loop  *)
(* of PROGRAMATERMINADO, one step.  Planning is one step (Despacho has the *)
(* rest) and what a program does before it ends is left out: the main      *)
(* thread has other messages of the CPUs to read, and waits for those CPUs *)
(* too if another one ends a program.  The FileSystem and the standard     *)
(* input send nothing here, and nobody leaves.  entraproceso is left out:  *)
(* NOENTROPROCESO does not post semEntraElProceso, so it is OK whenever it *)
(* is looked at.                                                           *)
(***************************************************************************)
EXTENDS Integers, Sequences, FiniteSets, FiniteSetsExt, SequencesExt

CONSTANTS
  Consolas, Cpus,
  MEM, SERVIDOR,      \* clienteMEM and servidor; the clients get the numbers after it
  GRADO_MULTIPROG, STACK_SIZE,
  MEMORIA,            \* the pages of tamanioDisponible at the beginning
  Paginas,            \* the pages of the scripts of each console
  LANZAMIENTOS,       \* bound: the scripts that the consoles send
  INSTRUCCIONES,      \* the sentences of every script
  Primeros            \* the clients that are connected at the beginning, as they came

Clientes == Consolas \cup Cpus

ASSUME AdmisionAssumption ==
  /\ MEM \in Nat \ {0} /\ SERVIDOR \in Nat /\ MEM < SERVIDOR
  /\ GRADO_MULTIPROG \in Nat \ {0} /\ STACK_SIZE \in Nat \ {0}
  /\ Consolas \cap Cpus = {} /\ Paginas \in [Consolas -> Nat \ {0}]
  /\ IsFiniteSet(Consolas) /\ IsFiniteSet(Cpus) /\ INSTRUCCIONES \in Nat
  /\ Primeros \in Seq(Clientes) /\ IsInjective(Primeros)

\* Memoria reads the size of a program in a signed byte.
ASSUME TamanoEnUnByte == \A c \in Consolas : Paginas[c] + STACK_SIZE + 1 < 128

VARIABLES
  i, leibles,          \* the index and read_fds
  rebobinaron,         \* whose ends moved i back, in the round that goes
  etapa,               \* of the main thread
  paquete,             \* paqueteRecibido: the socket it was read from and the message
  llegadas,            \* the clients that connect, before accept
  descriptor,          \* the socket of each client; 0 before accept
  alKernel,            \* what each socket has to be read
  aMemoria, disponible, \* the requests, and tamanioDisponible in pages
  unScript, semUnScript, semEntraElProceso, semPaginaEnviada,
  hilo,                \* the script thread
  cantidadDeProcesos,
  programas,           \* the PCBs, by processID
  colaNew, colaCpu, colaExec,
  consola,             \* crearNuevoProceso, in each
  ejecutando,          \* the CPUs that have a program
  historia             \* what happened so far, and in the round that goes

kernel   == <<i, leibles, rebobinaron, etapa, paquete>>
red      == <<llegadas, descriptor, alKernel>>
mem      == <<aMemoria, disponible>>
admision == <<unScript, semUnScript, semEntraElProceso, semPaginaEnviada, hilo>>
colas    == <<colaNew, colaCpu, colaExec>>
clientes == <<consola, ejecutando>>
vars == <<kernel, red, mem, admision, cantidadDeProcesos, programas, colas, clientes,
          historia>>

Sockets  == {MEM} \cup SERVIDOR + 1 .. SERVIDOR + Cardinality(Clientes)
Mensaje(tipo) == [tipo |-> tipo]

NingunPaquete == [socket |-> 0]

Programa(paginas, de) == [paginas |-> paginas, de |-> de, indice |-> {}, vivo |-> TRUE]

\* One of the first consoles sent a script, that was admitted and waits for a CPU; what
\* the first CPUs say that they are is still to be read.
InitAdmision ==
  /\ i = SERVIDOR + Len(Primeros) + 1 /\ leibles = {} /\ rebobinaron = {}
  /\ etapa = "select" /\ paquete = NingunPaquete
  /\ llegadas = <<>>
  /\ descriptor = [c \in Clientes |->
       IF c \in ToSet(Primeros) THEN SERVIDOR + SelectInSeq(Primeros, LAMBDA d : d = c) ELSE 0]
  /\ alKernel = [s \in Sockets |->
                   IF \E c \in Cpus : descriptor[c] = s THEN <<Mensaje("CPU")>> ELSE <<>>]
  /\ aMemoria = <<>> /\ disponible = MEMORIA
  /\ semUnScript = 0 /\ semEntraElProceso = 0 /\ semPaginaEnviada = 0
  /\ hilo = [etapa |-> "espera"]
  /\ \E c \in ToSet(Primeros) \cap Consolas :
       /\ unScript = [socket |-> descriptor[c], paginas |-> Paginas[c], de |-> <<c, 1>>]
       /\ programas = <<[Programa(Paginas[c], <<c, 1>>) EXCEPT !.indice = 0 .. INSTRUCCIONES - 1]>>
       /\ consola = [d \in Consolas |->
                       [espera |-> FALSE, semPidListo |-> 0,
                        pidActual |-> IF d = c THEN 1 ELSE 0, lanzados |-> IF d = c THEN 1 ELSE 0]]
  /\ cantidadDeProcesos = 1
  /\ colaNew = <<1>> /\ colaCpu = <<>> /\ colaExec = [s \in Sockets |-> 0]
  /\ ejecutando = {} /\ historia = {}
-----------------------------------------------------------------------------
(* The clients.                                                             *)

Conectado(c) == descriptor[c] # 0 \/ \E k \in DOMAIN llegadas : llegadas[k] = c

Conecta(c) ==
  /\ ~Conectado(c)
  /\ llegadas' = Append(llegadas, c)
  /\ UNCHANGED <<kernel, descriptor, alKernel, mem, admision, cantidadDeProcesos, programas,
                 colas, clientes, historia>>

\* A client sends messages, one after the other.
Envia(c, mensajes) ==
  /\ descriptor[c] # 0
  /\ alKernel' = [alKernel EXCEPT ![descriptor[c]] = @ \o mensajes]
  /\ UNCHANGED <<llegadas, descriptor>>

Lanzados == FoldSet(LAMBDA c, n : n + consola[c].lanzados, 0, Consolas)

\* crearNuevoProceso: ARCHIVO.
Lanza(c) ==
  /\ ~consola[c].espera /\ Lanzados < LANZAMIENTOS
  /\ consola' = [consola EXCEPT ![c].espera = TRUE, ![c].lanzados = @ + 1]
  /\ Envia(c, <<[tipo |-> "ARCHIVO", paginas |-> Paginas[c], de |-> <<c, consola[c].lanzados + 1>>]>>)
  /\ UNCHANGED <<kernel, mem, admision, cantidadDeProcesos, programas, colas, ejecutando,
                 historia>>

\* Its end; pidActual stays.
Informa(c) ==
  /\ consola[c].espera /\ consola[c].semPidListo > 0
  /\ consola' = [consola EXCEPT ![c].espera = FALSE, ![c].semPidListo = @ - 1]
  /\ UNCHANGED <<kernel, red, mem, admision, cantidadDeProcesos, programas, colas, ejecutando,
                 historia>>

\* Mutant: pidActual is set and semPidListo is posted for PID only.
RespondeSiEntro(socket, pid) ==
  consola' = [c \in Consolas |->
                IF descriptor[c] # socket \/ pid <= 0 THEN consola[c]
                ELSE [consola[c] EXCEPT !.pidActual = pid, !.semPidListo = @ + 1]]

\* procesar of the console, for PID, ABORTOEXPECIONDEMEMORIA and
\* ABORTOGRADOMULTIPROG.  A socket of another client does nothing with it.
Responde(socket, pid) ==
  consola' = [c \in Consolas |->
                IF descriptor[c] # socket THEN consola[c]
                ELSE [consola[c] EXCEPT !.pidActual = pid, !.semPidListo = @ + 1]]

\* planificadorLargoPlazo, planificadorCortoPlazo and ejecutar.
Despacha ==
  /\ colaNew # <<>> /\ colaCpu # <<>>
  /\ colaExec' = [colaExec EXCEPT ![Head(colaCpu)] = Head(colaNew)]
  /\ colaNew' = Tail(colaNew) /\ colaCpu' = Tail(colaCpu)
  /\ ejecutando' = ejecutando \cup {c \in Cpus : descriptor[c] = Head(colaCpu)}
  /\ UNCHANGED <<kernel, red, mem, admision, cantidadDeProcesos, programas, consola,
                 historia>>

\* Mutant: one PORLASDUDAS.
FinalConUnaDuda == <<Mensaje("PROGRAMATERMINADO"), Mensaje("PORLASDUDAS")>>

\* finalizar, of a CPU.  What it sends comes as one: were it to come in pieces, the
\* main thread would wait for the next.
FinalDePrograma ==
  <<Mensaje("PROGRAMATERMINADO")>> \o [k \in 1 .. 3 |-> Mensaje("PORLASDUDAS")]

Finaliza(c) ==
  /\ c \in ejecutando
  /\ ejecutando' = ejecutando \ {c}
  /\ Envia(c, FinalDePrograma)
  /\ UNCHANGED <<kernel, mem, admision, cantidadDeProcesos, programas, colas, consola,
                 historia>>

\* Memoria: TAMANO, PAGINA and LIBERARPAGINAS, one after the other.  What a program
\* takes is not taken from tamanioDisponible.
AtiendeMemoria ==
  /\ aMemoria # <<>> /\ aMemoria' = Tail(aMemoria)
  /\ LET m == Head(aMemoria)
         contesta(tipo) == alKernel' = [alKernel EXCEPT ![MEM] = Append(@, Mensaje(tipo))]
     IN  \/ m.tipo = "TAMANO" /\ m.paginas > disponible
            /\ contesta("NOENTROPROCESO") /\ UNCHANGED disponible
         \/ m.tipo = "TAMANO" /\ m.paginas <= disponible
            /\ contesta("ENTRAPROCESO") /\ UNCHANGED disponible
         \/ m.tipo = "PAGINA" /\ contesta("PAGINAENVIADA") /\ UNCHANGED disponible
         \/ m.tipo = "LIBERARPAGINAS"
            /\ disponible' = disponible + m.paginas /\ UNCHANGED alKernel
  /\ UNCHANGED <<kernel, llegadas, descriptor, admision, cantidadDeProcesos, programas, colas,
                 clientes, historia>>
-----------------------------------------------------------------------------
(* The main thread.                                                         *)

Listos == {s \in Sockets : alKernel[s] # <<>>}
          \cup (IF llegadas # <<>> THEN {SERVIDOR} ELSE {})

\* A round begins; master has every socket that may be ready.
Select ==
  /\ etapa = "select" /\ Listos # {}
  /\ leibles' = Listos /\ i' = 0 /\ rebobinaron' = {} /\ etapa' = "recorre"
  /\ historia' = (historia \ {"movido"})
                 \cup (IF hilo.etapa = "copia" THEN {"movido", "cruzado"} ELSE {})
  /\ UNCHANGED <<paquete, red, mem, admision, cantidadDeProcesos, programas, colas, clientes>>

QuedanPorMirar == {s \in leibles : s >= i}
Siguiente == Min(QuedanPorMirar)

Aceptados == {c \in Clientes : descriptor[c] # 0}
Fdmax == SERVIDOR + Cardinality(Aceptados)

FinDeVuelta ==
  /\ etapa = "recorre" /\ QuedanPorMirar = {}
  /\ etapa' = "select" /\ leibles' = {} /\ i' = Fdmax + 1
  /\ UNCHANGED <<rebobinaron, paquete, red, mem, admision, cantidadDeProcesos, programas, colas,
                 clientes, historia>>

\* accept, of the first that came; its greeting comes with it.
Acepta ==
  /\ LET c == Head(llegadas)
         s == Fdmax + 1
     IN  /\ descriptor' = [descriptor EXCEPT ![c] = s]
         /\ alKernel' = [alKernel EXCEPT ![s] =
                           <<Mensaje(IF c \in Cpus THEN "CPU" ELSE "CONSOLA")>>]
  /\ llegadas' = Tail(llegadas) /\ etapa' = "recorre"

RecibeConexion ==
  /\ etapa = "recorre" /\ QuedanPorMirar # {} /\ Siguiente = SERVIDOR /\ llegadas # <<>>
  /\ Acepta /\ i' = SERVIDOR + 1
  /\ UNCHANGED <<leibles, rebobinaron, paquete, mem, admision, cantidadDeProcesos, programas, colas,
                 clientes, historia>>

HayAlgo(s) == IF s = SERVIDOR THEN llegadas # <<>> ELSE alKernel[s] # <<>>

\* Deserializar; it waits for something to read, whatever select said before.
Deserializa(s) ==
  /\ alKernel[s] # <<>>
  /\ paquete' = [socket |-> s, mensaje |-> Head(alKernel[s])]
  /\ alKernel' = [alKernel EXCEPT ![s] = Tail(@)]
  /\ etapa' = "procesa"

Recibe ==
  /\ etapa = "recorre" /\ QuedanPorMirar # {} /\ Siguiente # SERVIDOR
  /\ Deserializa(Siguiente) /\ i' = Siguiente
  /\ UNCHANGED <<leibles, rebobinaron, llegadas, descriptor, mem, admision, cantidadDeProcesos, programas,
                 colas, clientes, historia>>

SeBloquea ==
  /\ etapa = "recorre" /\ QuedanPorMirar # {} /\ ~HayAlgo(Siguiente)
  /\ etapa' = "bloqueado" /\ i' = Siguiente /\ paquete' = [socket |-> Siguiente]
  /\ UNCHANGED <<leibles, rebobinaron, red, mem, admision, cantidadDeProcesos, programas, colas, clientes,
                 historia>>

\* What it waited for comes.
Despierta ==
  /\ etapa = "bloqueado" /\ HayAlgo(paquete.socket)
  /\ \/ paquete.socket = SERVIDOR /\ Acepta /\ i' = i + 1 /\ paquete' = NingunPaquete
     \/ paquete.socket # SERVIDOR /\ Deserializa(paquete.socket) /\ UNCHANGED <<i, llegadas, descriptor>>
  /\ UNCHANGED <<leibles, rebobinaron, mem, admision, cantidadDeProcesos, programas, colas, clientes,
                 historia>>
-----------------------------------------------------------------------------
(* procesar.  The socket that it is given is i.                             *)

Trata(tipo) == etapa = "procesa" /\ paquete.mensaje.tipo = tipo

Desvio == IF i # paquete.socket THEN {"desviado"} ELSE {}

\* The end of most handlers.
Vuelve ==
  /\ etapa' = "recorre" /\ i' = i + 1 /\ paquete' = NingunPaquete
  /\ historia' = historia \cup Desvio
  /\ UNCHANGED <<leibles, rebobinaron, red>>

RecibeNada ==
  /\ Trata("PORLASDUDAS") \/ Trata("CONSOLA")
  /\ Vuelve
  /\ UNCHANGED <<mem, admision, cantidadDeProcesos, programas, colas, clientes>>

\* NOENTROPROCESO posts nothing.
RecibeNoEntra ==
  /\ Trata("NOENTROPROCESO")
  /\ etapa' = "recorre" /\ i' = i + 1 /\ paquete' = NingunPaquete
  /\ historia' = historia \cup Desvio \cup {"rechazado"}
  /\ UNCHANGED <<leibles, rebobinaron, red, mem, admision, cantidadDeProcesos, programas, colas,
                 clientes>>

\* ARCHIVO.  There is one unScript, whatever procesarScript does with it.
RecibeArchivo ==
  /\ Trata("ARCHIVO")
  /\ unScript' = [socket |-> i, paginas |-> paquete.mensaje.paginas, de |-> paquete.mensaje.de]
  /\ semUnScript' = semUnScript + 1
  /\ etapa' = "recorre" /\ i' = i + 1 /\ paquete' = NingunPaquete
  /\ historia' = historia \cup Desvio
       \cup (IF semUnScript > 0 \/ hilo.etapa # "espera" THEN {"pisado"} ELSE {})
  /\ UNCHANGED <<leibles, rebobinaron, red, mem, semEntraElProceso, semPaginaEnviada, hilo,
                 cantidadDeProcesos, programas, colas, clientes>>

RecibeCpu ==
  /\ Trata("CPU") /\ Vuelve
  /\ colaCpu' = Append(colaCpu, i)
  /\ UNCHANGED <<mem, admision, cantidadDeProcesos, programas, colaNew, colaExec, clientes>>

RecibeEntra ==
  /\ Trata("ENTRAPROCESO") /\ Vuelve
  /\ semEntraElProceso' = semEntraElProceso + 1
  /\ UNCHANGED <<mem, unScript, semUnScript, semPaginaEnviada, hilo, cantidadDeProcesos,
                 programas, colas, clientes>>

RecibePaginaEnviada ==
  /\ Trata("PAGINAENVIADA") /\ Vuelve
  /\ semPaginaEnviada' = semPaginaEnviada + 1
  /\ UNCHANGED <<mem, unScript, semUnScript, semEntraElProceso, hilo, cantidadDeProcesos,
                 programas, colas, clientes>>

\* PROGRAMATERMINADO: cantidadDeProcesos is read here and written in Descuenta.
RecibeTerminado ==
  /\ Trata("PROGRAMATERMINADO")
  /\ etapa' = "termina"
  /\ paquete' = [socket |-> i, mensaje |-> paquete.mensaje, leida |-> cantidadDeProcesos]
  /\ historia' = historia \cup Desvio
  /\ UNCHANGED <<i, leibles, rebobinaron, red, mem, admision, cantidadDeProcesos, programas, colas, clientes>>

Carrera(leida) == IF leida # cantidadDeProcesos THEN {"carrera"} ELSE {}

\* The rest: the loop that frees the pages leaves i after the last one.  It is one step,
\* though crearPCB may write i meanwhile: that round counts as moved.
Descuenta ==
  /\ etapa = "termina"
  /\ cantidadDeProcesos' = paquete.leida - 1
  /\ LET s == paquete.socket
         pid == colaExec[s]
         paginas == programas[pid].paginas + STACK_SIZE
     IN  /\ colaExec' = [colaExec EXCEPT ![s] = 0] /\ colaCpu' = Append(colaCpu, s)
         /\ aMemoria' = Append(aMemoria, [tipo |-> "LIBERARPAGINAS", paginas |-> paginas])
         /\ programas' = [programas EXCEPT ![pid].vivo = FALSE]
         /\ i' = paginas + 2 /\ etapa' = "recorre" /\ paquete' = NingunPaquete
         /\ rebobinaron' = rebobinaron \cup (IF paginas + 2 <= s THEN {s} ELSE {})
         /\ historia' = historia \cup Carrera(paquete.leida)
  /\ UNCHANGED <<leibles, red, disponible, admision, colaNew, clientes>>
-----------------------------------------------------------------------------
(* procesarScript.                                                          *)

Hilo(cual) == hilo.etapa = cual

\* The script thread asks Memoria about the first script that it is told of.
TomaScript ==
  /\ Hilo("espera") /\ semUnScript > 0
  /\ semUnScript' = semUnScript - 1
  /\ hilo' = [etapa |-> "decide", paginas |-> unScript.paginas]
  /\ aMemoria' = Append(aMemoria,
                   [tipo |-> "TAMANO", paginas |-> unScript.paginas + STACK_SIZE + 1])
  /\ UNCHANGED <<kernel, red, disponible, unScript, semEntraElProceso, semPaginaEnviada,
                 cantidadDeProcesos, programas, colas, clientes, historia>>

\* Mutant: one program more than there may be.
HayGradoDeMas == cantidadDeProcesos <= GRADO_MULTIPROG

HayGrado == cantidadDeProcesos < GRADO_MULTIPROG

\* cantidadDeProcesos is read here and written in Cuenta.
Admite ==
  /\ Hilo("decide") /\ semEntraElProceso > 0 /\ HayGrado
  /\ semEntraElProceso' = semEntraElProceso - 1
  /\ hilo' = [etapa |-> "cuenta", paginas |-> hilo.paginas, leida |-> cantidadDeProcesos]
  /\ UNCHANGED <<kernel, red, mem, unScript, semUnScript, semPaginaEnviada, cantidadDeProcesos,
                 programas, colas, clientes, historia>>

\* ABORTOGRADOMULTIPROG is for when there are more programs than there may be, and
\* ABORTOEXPECIONDEMEMORIA for the rest.
Rechaza ==
  /\ Hilo("decide") /\ semEntraElProceso > 0 /\ ~HayGrado
  /\ semEntraElProceso' = semEntraElProceso - 1
  /\ hilo' = [etapa |-> "espera"]
  /\ Responde(unScript.socket, IF cantidadDeProcesos > GRADO_MULTIPROG THEN -5 ELSE 0)
  /\ UNCHANGED <<kernel, red, mem, unScript, semUnScript, semPaginaEnviada, cantidadDeProcesos,
                 programas, colas, ejecutando, historia>>

\* And processID++, the first thing that crearPCB does.
Cuenta ==
  /\ Hilo("cuenta")
  /\ cantidadDeProcesos' = hilo.leida + 1
  /\ historia' = historia \cup Carrera(hilo.leida)
  /\ programas' = Append(programas, Programa(hilo.paginas, unScript.de))
  /\ hilo' = [etapa |-> "crea", paginas |-> hilo.paginas]
  /\ UNCHANGED <<kernel, red, mem, unScript, semUnScript, semEntraElProceso, semPaginaEnviada,
                 colas, clientes>>

\* Mutant: processID before crearPCB adds to it.
ProcessIDAnterior == Len(programas) - 1

ProcessID == Len(programas)

\* The loop of crearPCB begins: i is that of the main thread.
CreaPCB ==
  /\ Hilo("crea")
  /\ i' = 0 /\ hilo' = [etapa |-> "copia", paginas |-> hilo.paginas]
  /\ historia' = historia \cup (IF etapa = "select" THEN {} ELSE {"movido", "cruzado"})
  /\ UNCHANGED <<leibles, rebobinaron, etapa, paquete, red, mem, unScript, semUnScript, semEntraElProceso,
                 semPaginaEnviada, cantidadDeProcesos, programas, colas, clientes>>

\* One of its iterations.
CopiaSentencia ==
  /\ Hilo("copia") /\ i < INSTRUCCIONES
  /\ programas' = [programas EXCEPT ![ProcessID].indice = @ \cup {i}]
  /\ i' = i + 1
  /\ UNCHANGED <<leibles, rebobinaron, etapa, paquete, red, mem, admision, cantidadDeProcesos, colas, clientes,
                 historia>>

\* colaProcesosConsola, INICIALIZARPROCESO, PID, and the first page.
Acepto ==
  /\ Hilo("copia") /\ i >= INSTRUCCIONES
  /\ Responde(unScript.socket, ProcessID)
  /\ aMemoria' = Append(aMemoria, Mensaje("PAGINA"))
  /\ hilo' = [etapa |-> "pagina", socket |-> unScript.socket, faltan |-> hilo.paginas]
  /\ UNCHANGED <<kernel, red, disponible, unScript, semUnScript, semEntraElProceso,
                 semPaginaEnviada, cantidadDeProcesos, programas, colas, ejecutando, historia>>

\* enviarProcesoAMemoria, and the push on colaNew after the last one.
SiguePagina ==
  /\ Hilo("pagina") /\ semPaginaEnviada > 0
  /\ semPaginaEnviada' = semPaginaEnviada - 1
  /\ \/ /\ hilo.faltan > 1
        /\ hilo' = [etapa |-> "pagina", socket |-> hilo.socket, faltan |-> hilo.faltan - 1]
        /\ aMemoria' = Append(aMemoria, Mensaje("PAGINA"))
        /\ UNCHANGED colaNew
     \/ /\ hilo.faltan = 1
        /\ hilo' = [etapa |-> "espera"]
        /\ colaNew' = Append(colaNew, ProcessID)
        /\ UNCHANGED aMemoria
  /\ UNCHANGED <<kernel, red, disponible, unScript, semUnScript, semEntraElProceso,
                 cantidadDeProcesos, programas, colaCpu, colaExec, clientes, historia>>
-----------------------------------------------------------------------------
HiloPrincipal ==
  \/ Select \/ FinDeVuelta \/ RecibeConexion \/ Recibe \/ SeBloquea \/ Despierta
  \/ RecibeNada \/ RecibeNoEntra \/ RecibeArchivo \/ RecibeCpu \/ RecibeEntra \/ RecibePaginaEnviada
  \/ RecibeTerminado \/ Descuenta

ProcesarScript ==
  \/ TomaScript \/ Admite \/ Rechaza \/ Cuenta \/ CreaPCB \/ CopiaSentencia \/ Acepto
  \/ SiguePagina

\* What follows is not modelled once a message is charged to another socket than the
\* one it came by, or there are two scripts for the one unScript, where the code of the
\* second is used after it was freed.
Sigue == historia \cap {"pisado", "desviado"} = {}

NextAdmision ==
  /\ Sigue
  /\ \/ HiloPrincipal \/ ProcesarScript \/ AtiendeMemoria \/ Despacha
     \/ \E c \in Clientes : Conecta(c)
     \/ \E c \in Consolas : Lanza(c) \/ Informa(c)
     \/ \E c \in Cpus : Finaliza(c)

\* The threads of the Kernel, Memoria and the thread of each console that waits go on
\* while they can; nobody has to start anything, nor a program to end.
SpecAdmision ==
  /\ InitAdmision /\ [][NextAdmision]_vars
  /\ WF_vars(Sigue /\ HiloPrincipal) /\ WF_vars(Sigue /\ ProcesarScript)
  /\ WF_vars(Sigue /\ AtiendeMemoria)
  /\ \A c \in Consolas : WF_vars(Sigue /\ Informa(c))
-----------------------------------------------------------------------------
(* Properties.                                                              *)

Vivos == {p \in DOMAIN programas : programas[p].vivo}

\* cantidadDeProcesos counts the programs that were admitted and did not end, and
\* they are never more than GRADO_MULTIPROG, as the script thread and the main one
\* add and take, unless the two do it at the same time.
GradoContado ==
  "carrera" \notin historia =>
    cantidadDeProcesos = Cardinality(Vivos) /\ Cardinality(Vivos) <= GRADO_MULTIPROG

\* The pid that a console shows for a script is that of the program made of that
\* script, with all of its sentences, unless another script came before it was done
\* with, a message was charged to another socket, or the main thread was serving
\* sockets while crearPCB ran.
ProgramaPropio ==
  \A c \in Consolas :
    ~consola[c].espera /\ consola[c].pidActual > 0 /\ consola[c].lanzados > 0
      /\ historia \cap {"pisado", "desviado"} = {} =>
        LET p == programas[consola[c].pidActual]
        IN  /\ p.de = <<c, consola[c].lanzados>>
            /\ consola[c].semPidListo = 0
            /\ "cruzado" \notin historia => p.indice = 0 .. INSTRUCCIONES - 1

\* The main thread waits for a socket that has nothing only in a round in which the
\* index was moved, by programs that ended or by the script thread.  Those that ended
\* make it wait for other clients, never for the CPUs they left, each of which has a
\* PORLASDUDAS to be read every time that the index goes back: three are enough for
\* three CPUs.
SeBloqueaSoloPorElIndice ==
  Cardinality(Cpus) <= 3 /\ etapa = "bloqueado" =>
    \/ historia \cap {"movido", "desviado"} # {}
    \/ rebobinaron # {} /\ paquete.socket \notin rebobinaron

\* Whoever sends a script is told what became of it, unless Memoria refused a program,
\* another script came before it was done with, a message was charged to another
\* socket, the main thread was serving sockets while crearPCB ran, or it waits for
\* ever for a socket that has nothing.
TodosRespondidos ==
  \A c \in Consolas :
    consola[c].espera ~> \/ ~consola[c].espera
                         \/ historia \cap {"rechazado", "pisado", "desviado", "cruzado"} # {}
                         \/ [](etapa = "bloqueado")
=============================================================================
