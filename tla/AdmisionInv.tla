---------------------------- MODULE AdmisionInv ----------------------------
(* Inductive invariants of Admision: what is pending at each socket, where   *)
(* each program and each CPU is, and where the script of each console is.    *)
EXTENDS Admision, ListasLemas

\* A program, whatever its pages are of.
EsPrograma(x) ==
  x = [paginas |-> x.paginas, de |-> x.de, indice |-> x.indice, vivo |-> x.vivo]

EsConsola(x) ==
  /\ x = [espera |-> x.espera, semPidListo |-> x.semPidListo, pidActual |-> x.pidActual,
          lanzados |-> x.lanzados]
  /\ x.espera \in BOOLEAN /\ x.semPidListo \in Nat /\ x.pidActual \in Int /\ x.lanzados \in Nat

Conjuntos ==
  /\ descriptor \in [Clientes -> Nat] /\ llegadas \in Seq(Clientes)
  /\ colaCpu \in Seq(Sockets) /\ colaNew \in Seq(Nat) /\ colaExec \in [Sockets -> Nat]
  /\ ejecutando \subseteq Cpus
  /\ leibles \subseteq Sockets \cup {SERVIDOR}
  /\ etapa = "bloqueado" => paquete.socket \in Sockets \cup {SERVIDOR}
  /\ DOMAIN alKernel = Sockets
  /\ EsLista(programas) /\ \A p \in DOMAIN programas : EsPrograma(programas[p])
  /\ \A s \in Sockets : EsLista(alKernel[s])

\* What the Kernel has to read from s and what it read and did not finish with.
Ocupado == etapa \in {"procesa", "termina"}
Sirve(s) == Ocupado /\ paquete.socket = s
Pendientes(s) == IF Sirve(s) THEN <<paquete.mensaje>> \o alKernel[s] ELSE alKernel[s]

Hay(q, tipo) == \E m \in ToSet(q) : m.tipo = tipo
Una(q, tipo) == \A j, k \in DOMAIN q : q[j].tipo = tipo /\ q[k].tipo = tipo => j = k

\* Every client has its socket, the first ones the first.
SocketsDeCadaUno ==
  /\ \A c, d \in Clientes : c # d /\ descriptor[c] = descriptor[d] => descriptor[c] = 0
  /\ \A c \in Clientes : descriptor[c] = 0 \/ descriptor[c] \in SERVIDOR + 1 .. Fdmax
  /\ IsInjective(llegadas) /\ \A c \in ToSet(llegadas) : descriptor[c] = 0
  /\ \A s \in Sockets : s > Fdmax => Pendientes(s) = <<>> /\ s \notin ToSet(colaCpu)
  /\ Ocupado => paquete.socket \in Sockets
  /\ \A c \in ejecutando : descriptor[c] # 0

Ejecuta(s) == \E c \in ejecutando : descriptor[c] = s

\* A CPU just came, waits for a program, has one, or says that it ended.
CpuEnUnaParte ==
  /\ IsInjective(colaCpu)
  /\ \A s \in Sockets :
       LET p == Pendientes(s)
       IN  /\ Una(p, "CPU") /\ Una(p, "PROGRAMATERMINADO")
           /\ Hay(p, "CPU") => ~Hay(p, "PROGRAMATERMINADO") /\ ~Ejecuta(s) /\ s \notin ToSet(colaCpu)
           /\ Hay(p, "PROGRAMATERMINADO") => ~Ejecuta(s) /\ s \notin ToSet(colaCpu)
           /\ Ejecuta(s) => s \notin ToSet(colaCpu)
           /\ Ejecuta(s) \/ Hay(p, "PROGRAMATERMINADO") => colaExec[s] # 0

EnAlta == hilo.etapa \in {"crea", "copia", "pagina"}

\* A program that lives is being accepted, waits for a CPU, or has one, and no other.
ProgramaEnUnaParte ==
  /\ IsInjective(colaNew) /\ ToSet(colaNew) \subseteq Vivos
  /\ \A s \in Sockets : colaExec[s] # 0 => colaExec[s] \in Vivos \ ToSet(colaNew)
  /\ \A s, t \in Sockets : s # t /\ colaExec[s] = colaExec[t] => colaExec[s] = 0
  /\ EnAlta => /\ ProcessID \in Vivos \ ToSet(colaNew)
               /\ \A s \in Sockets : colaExec[s] # ProcessID

Leidas ==
  /\ cantidadDeProcesos \in Int
  /\ hilo.etapa = "cuenta" => hilo.leida \in Int /\ hilo.leida < GRADO_MULTIPROG
  /\ etapa = "termina" => paquete.leida \in Int /\ Hay(Pendientes(paquete.socket), "PROGRAMATERMINADO")
                          /\ paquete.mensaje.tipo = "PROGRAMATERMINADO"

\* A script is being admitted, until its console is told; and whose it is.
Tramite == semUnScript = 1 \/ hilo.etapa \in {"decide", "cuenta", "crea", "copia"}
EnTramite(c) == Tramite /\ unScript.de[1] = c

\* The script that a console sent last is on its way, is being admitted, or has
\* been answered.
ScriptEnUnaParte ==
  /\ DOMAIN consola = Consolas /\ \A c \in Consolas : EsConsola(consola[c])
  /\ semUnScript \in {0, 1} /\ (semUnScript = 1 => hilo.etapa = "espera")
  /\ Tramite =>
       \E c \in Consolas : /\ unScript.de = <<c, consola[c].lanzados>> /\ consola[c].espera
                           /\ unScript.socket = descriptor[c] /\ descriptor[c] # 0
  /\ \A s \in Sockets :
       /\ Una(Pendientes(s), "ARCHIVO")
       /\ \A m \in ToSet(Pendientes(s)) : m.tipo = "ARCHIVO" =>
            \E c \in Consolas : /\ descriptor[c] = s /\ m.de = <<c, consola[c].lanzados>>
                                /\ consola[c].espera /\ consola[c].semPidListo = 0
                                /\ ~EnTramite(c)
  /\ \A c \in Consolas :
       /\ consola[c].semPidListo \in {0, 1}
       /\ consola[c].semPidListo = 1 => consola[c].espera /\ ~EnTramite(c)

Contestada(c) == consola[c].semPidListo = 1 \/ ~consola[c].espera

\* What a console shows is of the script it sent last.
PidsDeCadaUno ==
  /\ \A c \in Consolas :
       Contestada(c) /\ consola[c].pidActual > 0 /\ consola[c].lanzados > 0 =>
         /\ consola[c].pidActual \in DOMAIN programas
         /\ programas[consola[c].pidActual].de = <<c, consola[c].lanzados>>
         /\ hilo.etapa \in {"crea", "copia"} => consola[c].pidActual # ProcessID
         /\ "cruzado" \notin historia =>
              programas[consola[c].pidActual].indice = 0 .. INSTRUCCIONES - 1
  /\ hilo.etapa \in {"crea", "copia"} =>
       ProcessID \in DOMAIN programas /\ programas[ProcessID].de = unScript.de
  /\ hilo.etapa = "crea" => programas[ProcessID].indice = {}
  /\ hilo.etapa = "copia" /\ "cruzado" \notin historia =>
       /\ etapa = "select" /\ i \in Nat /\ i <= INSTRUCCIONES
       /\ programas[ProcessID].indice = 0 .. i - 1

\* A CPU that says that its program ended says three times nothing after it.
Acompaniado(q) ==
  \A k \in DOMAIN q : q[k].tipo = "PROGRAMATERMINADO" =>
    \A j \in 1..3 : k + j \in DOMAIN q /\ q[k + j].tipo = "PORLASDUDAS"

DeCpu(s) == \E c \in Cpus : descriptor[c] = s

FinalesCompletos ==
  \A s \in Sockets : LET q == Pendientes(s)
                     IN  Acompaniado(q) /\ (Hay(q, "PROGRAMATERMINADO") => DeCpu(s))

\* The pages of a script, wherever it is, and the index.
Numeros ==
  /\ i \in Int /\ unScript.paginas \in Nat
  /\ \A s \in Sockets : \A m \in ToSet(Pendientes(s)) : m.tipo = "ARCHIVO" => m.paginas \in Nat
  /\ hilo.etapa \in {"decide", "cuenta", "crea", "copia"} => hilo.paginas \in Nat
  /\ \A p \in DOMAIN programas : programas[p].paginas \in Nat

\* The index comes to s in what is left of the round, unless it goes back.
PorMirar(s) == \/ etapa \in {"recorre", "bloqueado"} /\ s >= i
               \/ Ocupado /\ s > i

ConDudas(q, n) == \A k \in 1..n : k \in DOMAIN q /\ q[k].tipo = "PORLASDUDAS"

\* A CPU that moved the index back has a PORLASDUDAS for each of the others that may,
\* and one more if it is to be read before.
QuedanDudas ==
  \A s \in rebobinaron :
    ConDudas(alKernel[s], (3 - Cardinality(rebobinaron)) + (IF PorMirar(s) THEN 1 ELSE 0))

\* A round whose index crearPCB did not move.
Ronda ==
  /\ etapa \in {"procesa", "termina", "bloqueado"} => i = paquete.socket
  /\ hilo.etapa = "copia" => etapa = "select"
  /\ rebobinaron \subseteq {s \in Sockets : DeCpu(s)}
  /\ Ocupado /\ paquete.socket \in rebobinaron => paquete.mensaje.tipo = "PORLASDUDAS"
  /\ etapa = "bloqueado" => rebobinaron # {} /\ paquete.socket \notin rebobinaron
  /\ rebobinaron = {} => \A s \in leibles : PorMirar(s) => HayAlgo(s)
  /\ QuedanDudas

Estructura ==
  /\ Conjuntos /\ SocketsDeCadaUno /\ CpuEnUnaParte /\ ProgramaEnUnaParte
  /\ Leidas

InvGrado == GradoContado /\ (Sigue => Estructura)
Vueltas == /\ FinalesCompletos /\ Numeros
           /\ Cardinality(Cpus) <= 3 /\ "movido" \notin historia => Ronda
InvVueltas == /\ InvGrado /\ (Sigue => Vueltas)
              /\ "pisado" \in historia => etapa # "bloqueado"
InvPids == InvGrado /\ (Sigue => ScriptEnUnaParte /\ PidsDeCadaUno)
=============================================================================
