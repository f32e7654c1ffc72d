-------------------------- MODULE InterrupcionesInv --------------------------
(* Inductive invariants of Interrupciones: one for the semaphores of the      *)
(* short-term planner, one for the programs of the console that leaves.       *)
EXTENDS Interrupciones, ListasLemas

\* CPUs that left, and what the Kernel reads only from them.
Idas == {"muerta", "destruida"}
DeIdas == {"DESTRUICPUSINPID", "CORTADO"}

\* What is counted is a list, a counter or a CPU's.
Contables ==
  /\ semReady \in Nat /\ semCpu \in Nat
  /\ EsLista(colaReady) /\ EsLista(colaCpu)
  /\ DOMAIN aKernel = CPUs /\ DOMAIN fase = CPUs
  /\ codigoAborto \in [CPUs -> {"ABORTO", "ABORTOPORCONSOLA"}]
  /\ \A c \in CPUs : EsLista(aKernel[c])

\* A CPU is taken off colaCpu, without semCpu, only after it left.
SalenLasIdas ==
  \A c \in CPUs : \A m \in ToSet(aKernel[c]) : m.tipo \in DeIdas => fase[c] \in Idas

\* How many the semaphores and the planner count, above what the queues have.
SobraReady ==
  semReady + (IF pcPcp \in {"espera_cpu", "saca"} THEN 1 ELSE 0) - Len(colaReady)
SobraCpu == semCpu + (IF pcPcp = "saca" THEN 1 ELSE 0) - Len(colaCpu)

InvSemaforos == Contables /\ SalenLasIdas /\ SemaforosAlDia

\* While the console is leaving, the program that is looked for is in none of
\* the places of ConsolaSinProgramas; it is in one when it is found, and nobody
\* leaves them.
InvConsola ==
  /\ EsLista(colaExit) /\ EsLista(colaProcesosConsola) /\ DOMAIN abortado = Procs
  /\ \A p \in DeLaConsola \cap registrados :
       \/ p \in ToSet(colaExit) \/ abortado[p]
       \/ p \in ToSet(colaProcesosConsola)
       \/ consola = "saliendo" /\ p = matando
=============================================================================
