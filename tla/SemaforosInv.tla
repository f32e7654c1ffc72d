---------------------------- MODULE SemaforosInv ----------------------------
(* The inductive invariant of Semaforos.                                     *)
EXTENDS Semaforos

\* The entries of colaProcesosBloqueados are of processes that still wait for
\* what they say.  Some that wait have none: sacarSemaforosDesbloqueados takes
\* more than the entry of the process that is woken.
EntradasVigentes ==
  \A i \in DOMAIN colaProcesosBloqueados :
    colaProcesosBloqueados[i].pid \in ToSet(colas_semaforos[colaProcesosBloqueados[i].semaforo])

\* p came to the queue before q.
Antes(cola, p, q) == \E a, b \in DOMAIN cola : a < b /\ cola[a] = p /\ cola[b] = q

\* Those on the same semaphore are in the order of its queue, so the entry of
\* the process that is woken, if it has one, is the first of them: the one that
\* sacarSemaforosDesbloqueados is sure to take.
EntradasEnOrden ==
  \A i, j \in DOMAIN colaProcesosBloqueados :
    /\ i < j
    /\ colaProcesosBloqueados[i].semaforo = colaProcesosBloqueados[j].semaforo
    => Antes(colas_semaforos[colaProcesosBloqueados[i].semaforo],
             colaProcesosBloqueados[i].pid, colaProcesosBloqueados[j].pid)

IInv ==
  /\ Tipos /\ NadieEsperaDeMas /\ EsperaLoQuePidio
  /\ EntradasVigentes /\ EntradasEnOrden
=============================================================================
