------------------------------ MODULE Semaforos ------------------------------
(***************************************************************************)
(* The semaphores of ANSISOP programs, as the Kernel keeps them: the values *)
(* of SEM_INIT, one queue of processes per semaphore (colas_semaforos), and *)
(* one list, for all of them, of who asked for what                         *)
(* (colaProcesosBloqueados).                                                *)
(*                                                                          *)
(* Wait and Signal are what the handlers of PROCESOWAIT and PROCESOSIGNAL   *)
(* do to this state, and Quita what abortarProgramaPorConsola does to it    *)
(* when it finds the process in the queue of a semaphore.  All three run in *)
(* the Kernel's main thread, one at a time.                                 *)
(***************************************************************************)
EXTENDS Integers, Sequences, SequencesExt

CONSTANTS
  Procs,      \* the processes
  Sems,       \* the semaphores of SEM_IDS
  Inicial,    \* SEM_INIT
  MaxValor,   \* the bound of the value of a semaphore in these runs
  Nadie       \* none

ASSUME NadieSupuesto == Nadie \notin Sems
ASSUME InicialSupuesto == Inicial \in [Sems -> Nat]
\* Four bytes of SEM_INIT[i] are written: three digits and the end of string.
ASSUME MaxValorSupuesto == MaxValor \in 1..999

VARIABLES
  valor,                   \* valor[s]: atoi(SEM_INIT[i])
  colas_semaforos,         \* colas_semaforos[s]
  colaProcesosBloqueados,  \* of [pid, semaforo]
  pidio                    \* history: what each blocked process asked for

semaforos == <<valor, colas_semaforos, colaProcesosBloqueados>>

Init ==
  /\ valor = Inicial
  /\ colas_semaforos = [s \in Sems |-> <<>>]
  /\ colaProcesosBloqueados = <<>>
  /\ pidio = [p \in Procs |-> Nadie]

\* conseguirSemaforoDeBloqueado: the semaphore of the first entry of pid.
Conseguir(lista, pid) ==
  lista[SelectInSeq(lista, LAMBDA b : b.pid = pid)].semaforo

\* Mutant: colaProcesosBloqueados is left as it is.
SacarNinguno(lista, s) == lista

\* sacarSemaforosDesbloqueados: the entry after one that is removed is skipped,
\* so in a run of entries of s every other one goes.  recorre[i] is what is left
\* of the first i, and whether the next is skipped.
SacarDesbloqueados(lista, s) ==
  LET recorre[i \in 0..Len(lista)] ==
        IF i = 0 THEN [queda |-> <<>>, salta |-> FALSE]
        ELSE IF lista[i].semaforo = s /\ ~recorre[i - 1].salta
             THEN [queda |-> recorre[i - 1].queda, salta |-> TRUE]
             ELSE [queda |-> Append(recorre[i - 1].queda, lista[i]), salta |-> FALSE]
  IN  recorre[Len(lista)].queda

\* Mutant: one too early.
BloqueaPronto(s) == valor[s] <= 1

\* Whether a wait on s blocks.
Bloquea(s) == valor[s] <= 0

\* PROCESOWAIT of p on s.
Wait(p, s) ==
  \/ /\ Bloquea(s)
     /\ colaProcesosBloqueados' = Append(colaProcesosBloqueados,
                                         [pid |-> p, semaforo |-> s])
     /\ LET cola == Conseguir(colaProcesosBloqueados', p)   \* bloqueoSemaforo
        IN  colas_semaforos' = [colas_semaforos EXCEPT ![cola] = Append(@, p)]
     /\ pidio' = [pidio EXCEPT ![p] = s]
     /\ UNCHANGED valor
  \/ /\ ~Bloquea(s)
     /\ valor' = [valor EXCEPT ![s] = @ - 1]
     /\ UNCHANGED <<colas_semaforos, colaProcesosBloqueados, pidio>>

\* The process liberaSemaforo makes ready, Nadie when nobody waits.
Despertado(s) == IF colas_semaforos[s] = <<>> THEN Nadie ELSE Head(colas_semaforos[s])

\* PROCESOSIGNAL on s: liberaSemaforo.
Signal(s) ==
  \/ /\ colas_semaforos[s] # <<>>
     /\ colaProcesosBloqueados' = SacarDesbloqueados(colaProcesosBloqueados, s)
     /\ colas_semaforos' = [colas_semaforos EXCEPT ![s] = Tail(@)]
     /\ pidio' = [pidio EXCEPT ![Despertado(s)] = Nadie]
     /\ UNCHANGED valor
  \/ /\ colas_semaforos[s] = <<>>
     /\ valor' = [valor EXCEPT ![s] = @ + 1]
     /\ UNCHANGED <<colas_semaforos, colaProcesosBloqueados, pidio>>

\* abortarProgramaPorConsola takes p off the first queue it finds it in;
\* colaProcesosBloqueados keeps its entry.
Quita(p) ==
  \E s \in Sems :
    /\ p \in ToSet(colas_semaforos[s])
    /\ colas_semaforos' = [colas_semaforos EXCEPT ![s] = RemoveFirst(@, p)]
    /\ pidio' = [pidio EXCEPT ![p] = "muerto"]
    /\ UNCHANGED <<valor, colaProcesosBloqueados>>

(* On their own, the semaphores are used by any process that is not blocked. *)
Corren == {p \in Procs : pidio[p] = Nadie}

Usa ==
  \/ \E p \in Corren, s \in Sems : Wait(p, s)
  \/ \E s \in Sems : Corren # {} /\ Signal(s)

\* The bound of these runs: no signal takes a semaphore beyond MaxValor.
Next == Usa /\ \A s \in Sems : valor'[s] > valor[s] => valor[s] < MaxValor

Spec == Init /\ [][Next]_<<semaforos, pidio>>

\* The same without the bound.
SpecUso == Init /\ [][Usa]_<<semaforos, pidio>>
-----------------------------------------------------------------------------
(* Properties.                                                              *)

Tipos ==
  /\ valor \in [Sems -> Nat]
  /\ colas_semaforos \in [Sems -> Seq(Procs)]
  /\ colaProcesosBloqueados \in Seq([pid : Procs, semaforo : Sems])
  /\ pidio \in [Procs -> Sems \cup {Nadie, "muerto"}]

\* Nobody is blocked on a semaphore that is free: a signal wakes before it
\* adds, and a wait does not block while there is something to take.
NadieEsperaDeMas == \A s \in Sems : valor[s] > 0 => colas_semaforos[s] = <<>>

\* Every blocked process is in the queue of the semaphore it asked for, once,
\* and in no other: colaProcesosBloqueados, which is where bloqueoSemaforo
\* learns the semaphore from, has no older entry of that process.
EsperaLoQuePidio ==
  \A p \in Procs : \A s \in Sems :
    /\ p \in ToSet(colas_semaforos[s]) <=> pidio[p] = s
    /\ IsInjective(colas_semaforos[s])

\* The Kernel's semaphores are the ones a programmer expects.
Abstracto == INSTANCE SemaforoAbstracto WITH libres <- valor, espera <- colas_semaforos
Implementa == Abstracto!Spec
=============================================================================
