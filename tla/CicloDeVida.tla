----------------------------- MODULE CicloDeVida -----------------------------
(* What the Kernel promises of its planning, without semaphores, mutexes or  *)
(* messages: the programs become ready in the order they were accepted, get  *)
(* a CPU in the order they became ready, one CPU each and one program per    *)
(* CPU, and stop running only to be ready again or to end.                   *)
EXTENDS Integers, Sequences

CONSTANTS
  Procs,   \* the processes
  CPUs,    \* the CPUs
  Nadie    \* none

VARIABLES
  afuera,       \* not accepted yet
  nuevos,       \* accepted, in order
  listos,       \* ready, in order
  corre,        \* corre[p]: the CPU that runs p, Nadie if none does
  terminados    \* ended

ciclo == <<afuera, nuevos, listos, corre, terminados>>

Init ==
  /\ afuera = Procs
  /\ nuevos = <<>> /\ listos = <<>>
  /\ corre = [p \in Procs |-> Nadie]
  /\ terminados = {}

Acepta(p) ==
  /\ p \in afuera
  /\ afuera' = afuera \ {p}
  /\ nuevos' = Append(nuevos, p)
  /\ UNCHANGED <<listos, corre, terminados>>

Prepara ==
  /\ nuevos # <<>>
  /\ nuevos' = Tail(nuevos)
  /\ listos' = Append(listos, Head(nuevos))
  /\ UNCHANGED <<afuera, corre, terminados>>

\* The first that is ready gets a CPU that runs nobody.
Ejecuta(c) ==
  /\ listos # <<>>
  /\ \A q \in Procs : corre[q] # c
  /\ listos' = Tail(listos)
  /\ corre' = [corre EXCEPT ![Head(listos)] = c]
  /\ UNCHANGED <<afuera, nuevos, terminados>>

Desaloja(p) ==
  /\ corre[p] # Nadie
  /\ corre' = [corre EXCEPT ![p] = Nadie]
  /\ listos' = Append(listos, p)
  /\ UNCHANGED <<afuera, nuevos, terminados>>

Termina(p) ==
  /\ corre[p] # Nadie
  /\ corre' = [corre EXCEPT ![p] = Nadie]
  /\ terminados' = terminados \cup {p}
  /\ UNCHANGED <<afuera, nuevos, listos>>

Next ==
  \/ \E p \in Procs : Acepta(p) \/ Desaloja(p) \/ Termina(p)
  \/ Prepara
  \/ \E c \in CPUs : Ejecuta(c)

Spec == Init /\ [][Next]_ciclo
=============================================================================
