-------------------------- MODULE SemaforoAbstracto --------------------------
(* What a programmer of ANSISOP expects of wait and signal: counting         *)
(* semaphores that serve in order of arrival.                                *)
EXTENDS Integers, Sequences, SequencesExt

CONSTANTS
  Procs,    \* the processes
  Sems,     \* the semaphores
  Inicial   \* Inicial[s]: the value s starts with

VARIABLES
  libres,   \* libres[s]: how many waits on s would go on
  espera    \* espera[s]: the processes blocked on s, in order

Init ==
  /\ libres = Inicial
  /\ espera = [s \in Sems |-> <<>>]

Bloqueados == UNION {ToSet(espera[s]) : s \in Sems}

Pasa(s) ==
  /\ libres[s] > 0
  /\ libres' = [libres EXCEPT ![s] = @ - 1]
  /\ UNCHANGED espera

Bloquea(p, s) ==
  /\ libres[s] <= 0
  /\ p \notin Bloqueados
  /\ espera' = [espera EXCEPT ![s] = Append(@, p)]
  /\ UNCHANGED libres

Despierta(s) ==
  /\ espera[s] # <<>>
  /\ espera' = [espera EXCEPT ![s] = Tail(@)]
  /\ UNCHANGED libres

Suma(s) ==
  /\ espera[s] = <<>>
  /\ libres' = [libres EXCEPT ![s] = @ + 1]
  /\ UNCHANGED espera

\* A process that dies stops waiting.
Abandona(p, s) ==
  /\ p \in ToSet(espera[s])
  /\ espera' = [espera EXCEPT ![s] = Remove(@, p)]
  /\ UNCHANGED libres

Next ==
  \E s \in Sems :
    \/ Pasa(s) \/ Despierta(s) \/ Suma(s)
    \/ \E p \in Procs : Bloquea(p, s) \/ Abandona(p, s)

Spec == Init /\ [][Next]_<<libres, espera>>
=============================================================================
