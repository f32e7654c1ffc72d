--------------------------- MODULE SemaforosProofs ---------------------------
(* The semaphores of the programs: what sacarSemaforosDesbloqueados leaves,   *)
(* the invariants of Semaforos and the refinement of SemaforoAbstracto, for   *)
(* any processes, semaphores and initial values.                              *)
EXTENDS SemaforosInv, ListasLemas

Bloqueado == [pid : Procs, semaforo : Sems]

\* r is what is left of the first n entries of lista, in the same order, without
\* the first of s.
Quedan(lista, s, n, r) ==
  /\ r \in Seq(Bloqueado)
  /\ \E e \in [1..Len(r) -> 1..n] :
       /\ \A j \in 1..Len(r) : r[j] = lista[e[j]]
       /\ \A j, k \in 1..Len(r) : j < k => e[j] < e[k]
       /\ \A j \in 1..Len(r) : r[j].semaforo = s =>
            \E k \in 1..n : k < e[j] /\ lista[k].semaforo = s

\* One more entry, that stays: it is of another semaphore, or comes after one
\* of s.
LEMMA QuedaUnaMas ==
  ASSUME NEW lista \in Seq(Bloqueado), NEW s, NEW n \in Nat, n + 1 \in 1..Len(lista), NEW r,
         Quedan(lista, s, n, r),
         lista[n + 1].semaforo = s => n \in 1..n /\ lista[n].semaforo = s
  PROVE  Quedan(lista, s, n + 1, Append(r, lista[n + 1]))
<1> DEFINE x == lista[n + 1]
           m == Len(r)
           t == Append(r, x)
<1>1. PICK e \in [1..Len(r) -> 1..n] :
       /\ \A j \in 1..Len(r) : r[j] = lista[e[j]]
       /\ \A j, k \in 1..Len(r) : j < k => e[j] < e[k]
       /\ \A j \in 1..Len(r) : r[j].semaforo = s =>
            \E k \in 1..n : k < e[j] /\ lista[k].semaforo = s
  BY DEF Quedan
<1>2. r \in Seq(Bloqueado) /\ x \in Bloqueado /\ m \in Nat
  BY ElementOfSeq, LenProperties DEF Quedan
<1>3. /\ t \in Seq(Bloqueado) /\ Len(t) = m + 1
      /\ \A j \in 1..m : t[j] = r[j]
      /\ t[m + 1] = x
  BY <1>2, AppendProperties
<1> HIDE DEF t, m
<1> DEFINE d == [j \in 1..m + 1 |-> IF j = m + 1 THEN n + 1 ELSE e[j]]
<1>4. \A j \in 1..m : d[j] = e[j] /\ d[j] \in 1..n /\ j # m + 1 /\ j \in 1..m + 1
  BY <1>1, <1>2 DEF m
<1>5. d[m + 1] = n + 1 /\ m + 1 \in 1..m + 1
  BY <1>2
<1>6. \A j \in 1..m + 1 : j \in 1..m \/ j = m + 1
  BY <1>2
<1>7. d \in [1..m + 1 -> 1..n + 1]
  <2>1. \A j \in 1..m + 1 : d[j] \in 1..n + 1
    <3>1. 1..n \subseteq 1..n + 1 /\ n + 1 \in 1..n + 1
      OBVIOUS
    <3> HIDE DEF d
    <3> QED BY <3>1, <1>4, <1>5, <1>6
  <2> QED BY <2>1
<1> HIDE DEF d
<1>8. \A j \in 1..m + 1 : t[j] = lista[d[j]]
  BY <1>1, <1>3, <1>4, <1>5, <1>6 DEF m
<1>9. ASSUME NEW j \in 1..m + 1, NEW k \in 1..m + 1, j < k PROVE d[j] < d[k]
  <2>1. j \in 1..m
    BY <1>2, <1>9
  <2>2. CASE k \in 1..m
    BY <2>1, <2>2, <1>1, <1>4, <1>9 DEF m
  <2>3. CASE k = m + 1
    BY <2>1, <2>3, <1>4, <1>5
  <2> QED BY <1>6, <2>2, <2>3
<1>10. ASSUME NEW j \in 1..m + 1, t[j].semaforo = s
       PROVE  \E k \in 1..n + 1 : k < d[j] /\ lista[k].semaforo = s
  <2>1. CASE j \in 1..m
    <3>1. \E k \in 1..n : k < e[j] /\ lista[k].semaforo = s
      BY <1>1, <1>3, <1>10, <2>1 DEF m
    <3> QED BY <3>1, <2>1, <1>4
  <2>2. CASE j = m + 1
    <3>1. n \in 1..n /\ lista[n].semaforo = s
      BY <1>3, <1>10, <2>2
    <3> QED BY <3>1, <2>2, <1>5
  <2> QED BY <1>6, <2>1, <2>2
<1>11. \E f \in [1..Len(t) -> 1..n + 1] :
       /\ \A j \in 1..Len(t) : t[j] = lista[f[j]]
       /\ \A j, k \in 1..Len(t) : j < k => f[j] < f[k]
       /\ \A j \in 1..Len(t) : t[j].semaforo = s =>
            \E k \in 1..n + 1 : k < f[j] /\ lista[k].semaforo = s
  BY <1>3, <1>7, <1>8, <1>9, <1>10
<1>12. Quedan(lista, s, n + 1, t)
  BY <1>3, <1>11 DEF Quedan
<1> QED BY <1>12 DEF t

\* One more entry, that is removed.
LEMMA QuedanIgual ==
  ASSUME NEW lista \in Seq(Bloqueado), NEW s, NEW n \in Nat, NEW r, Quedan(lista, s, n, r)
  PROVE  Quedan(lista, s, n + 1, r)
<1>1. PICK e \in [1..Len(r) -> 1..n] :
       /\ \A j \in 1..Len(r) : r[j] = lista[e[j]]
       /\ \A j, k \in 1..Len(r) : j < k => e[j] < e[k]
       /\ \A j \in 1..Len(r) : r[j].semaforo = s =>
            \E k \in 1..n : k < e[j] /\ lista[k].semaforo = s
  BY DEF Quedan
<1>2. \A k \in 1..n : k \in 1..n + 1
  OBVIOUS
<1>3. e \in [1..Len(r) -> 1..n + 1]
  BY <1>2
<1>4. \A j \in 1..Len(r) : r[j].semaforo = s =>
        \E k \in 1..n + 1 : k < e[j] /\ lista[k].semaforo = s
  BY <1>1, <1>2
<1> QED BY <1>1, <1>3, <1>4 DEF Quedan

\* sacarSemaforosDesbloqueados removes the first entry of s and no entry of
\* another semaphore, and keeps the order of those it leaves.
LEMMA SacarQuedan ==
  ASSUME NEW lista \in Seq(Bloqueado), NEW s
  PROVE  Quedan(lista, s, Len(lista), SacarDesbloqueados(lista, s))
<1> DEFINE n == Len(lista)
           T == [queda : Seq(Bloqueado), salta : BOOLEAN]
           Paso(i, x) == IF lista[i].semaforo = s /\ ~x.salta
                         THEN [queda |-> x.queda, salta |-> TRUE]
                         ELSE [queda |-> Append(x.queda, lista[i]), salta |-> FALSE]
           Es(f) == f = [i \in 0..n |->
             IF i = 0 THEN [queda |-> <<>>, salta |-> FALSE]
             ELSE IF lista[i].semaforo = s /\ ~f[i - 1].salta
                  THEN [queda |-> f[i - 1].queda, salta |-> TRUE]
                  ELSE [queda |-> Append(f[i - 1].queda, lista[i]), salta |-> FALSE]]
           h == CHOOSE f : Es(f)
           g == [y \in (1..n) \X T |-> Paso(y[1], y[2])]
           cero == [queda |-> <<>>, salta |-> FALSE]
<1>1. SacarDesbloqueados(lista, s) = h[n].queda
  BY DEF SacarDesbloqueados
<1>2. n \in Nat /\ \A i \in 1..n : lista[i] \in Bloqueado
  BY LenProperties, ElementOfSeq
<1>3. \A i \in 1..n, x \in T : g[<<i, x>>] = Paso(i, x) /\ Paso(i, x) \in T
  <2> TAKE i \in 1..n, x \in T
  <2>1. x.queda \in Seq(Bloqueado) /\ x.salta \in BOOLEAN
    OBVIOUS
  <2>2. Append(x.queda, lista[i]) \in Seq(Bloqueado)
    BY <1>2, <2>1, AppendProperties
  <2> QED BY <2>1, <2>2
<1>4. cero \in T
  BY EmptySeq
<1> HIDE DEF g, T, n, Paso, cero
<1>5. PICK f : f \in Recursivas(T, n, cero, g)
  <2>1. n \in Nat
    BY <1>2
  <2>2. EsPaso(T, n, g)
    BY <1>3 DEF EsPaso
  <2> QED BY <1>4, <2>1, <2>2, FuncionRecursiva
<1>6. /\ f \in [0..n -> T] /\ f[0] = cero
      /\ \A i \in 1..n : f[i] = Paso(i, f[i - 1]) /\ i \in 0..n /\ i - 1 \in 0..n
  <2>1. \A i \in 1..n : i \in 0..n /\ i - 1 \in 0..n
    BY <1>2
  <2>2. /\ f \in [0..n -> T] /\ f[0] = cero
        /\ \A i \in 1..n : f[i] = g[<<i, f[i - 1]>>]
    BY <1>5 DEF Recursivas
  <2> QED BY <1>3, <2>1, <2>2
<1>7. Es(f)
  <2>1. \A i \in 0..n : i = 0 \/ i \in 1..n
    BY <1>2
  <2> QED BY <2>1, <1>6 DEF Paso, cero
<1>8. Es(h)
  BY <1>7
<1>9. /\ h[0] = cero
      /\ \A i \in 1..n : h[i] = Paso(i, h[i - 1]) /\ i \in 0..n /\ i - 1 \in 0..n
  <2>1. 0 \in 0..n /\ \A i \in 1..n : i \in 0..n /\ i # 0
    BY <1>2
  <2>2. \A i \in 0..n : h[i] =
             IF i = 0 THEN [queda |-> <<>>, salta |-> FALSE]
             ELSE IF lista[i].semaforo = s /\ ~h[i - 1].salta
                  THEN [queda |-> h[i - 1].queda, salta |-> TRUE]
                  ELSE [queda |-> Append(h[i - 1].queda, lista[i]), salta |-> FALSE]
    <3> HIDE DEF h
    <3> QED BY <1>8
  <2> HIDE DEF h, Es
  <2>3. h[0] = cero
    BY <2>1, <2>2 DEF cero
  <2>4. \A i \in 1..n : h[i] = Paso(i, h[i - 1])
    BY <2>1, <2>2 DEF Paso
  <2> QED BY <1>6, <2>3, <2>4
<1> HIDE DEF h
\* By induction on the entries read.
<1> DEFINE P == {i \in Nat : i \in 0..n =>
             /\ Quedan(lista, s, i, h[i].queda) /\ h[i].salta \in BOOLEAN
             /\ h[i].salta => i \in 1..n /\ lista[i].semaforo = s}
<1>10. 0 \in P
  <2>1. h[0].queda = <<>> /\ h[0].salta = FALSE
    BY <1>9 DEF cero
  <2>2. Quedan(lista, s, 0, <<>>)
    <3>1. <<>> \in Seq(Bloqueado) /\ Len(<<>>) = 0 /\ 1..0 = {}
      BY EmptySeq
    <3>2. [j \in {} |-> 0] \in [1..0 -> 1..0]
      BY <3>1
    <3> QED BY <3>1, <3>2 DEF Quedan
  <2> QED BY <2>1, <2>2
<1>11. ASSUME NEW i \in Nat, i \in P PROVE i + 1 \in P
  <2> SUFFICES ASSUME i + 1 \in 0..n
               PROVE  /\ Quedan(lista, s, i + 1, h[i + 1].queda)
                      /\ h[i + 1].salta \in BOOLEAN
                      /\ h[i + 1].salta => i + 1 \in 1..n /\ lista[i + 1].semaforo = s
    OBVIOUS
  <2>1. i + 1 \in 1..n /\ i \in 0..n
    BY <1>2
  <2>2. /\ Quedan(lista, s, i, h[i].queda) /\ h[i].salta \in BOOLEAN
        /\ h[i].salta => i \in 1..n /\ lista[i].semaforo = s
    BY <1>11, <2>1
  <2>3. h[i + 1] = Paso(i + 1, h[i])
    <3>1. (i + 1) - 1 = i
      OBVIOUS
    <3> QED BY <3>1, <2>1, <1>9
  <2> HIDE DEF P
  <2>4. CASE lista[i + 1].semaforo = s /\ ~h[i].salta
    <3>1. h[i + 1].queda = h[i].queda /\ h[i + 1].salta = TRUE
      BY <2>3, <2>4 DEF Paso
    <3>2. Quedan(lista, s, i + 1, h[i].queda)
      BY <2>2, QuedanIgual
    <3> QED BY <3>1, <3>2, <2>1, <2>4
  <2>5. CASE ~(lista[i + 1].semaforo = s /\ ~h[i].salta)
    <3>1. h[i + 1].queda = Append(h[i].queda, lista[i + 1]) /\ h[i + 1].salta = FALSE
      BY <2>3, <2>5 DEF Paso
    <3>2. lista[i + 1].semaforo = s => i \in 1..i /\ lista[i].semaforo = s
      BY <2>2, <2>5
    <3>3. Quedan(lista, s, i + 1, Append(h[i].queda, lista[i + 1]))
      BY <2>1, <2>2, <3>2, QuedaUnaMas DEF n
    <3> QED BY <3>1, <3>3
  <2> QED BY <2>4, <2>5
<1> HIDE DEF P
<1>12. n \in P
  BY <1>2, <1>10, <1>11, InduccionNat
<1>13. n \in 0..n
  BY <1>2
<1> QED BY <1>1, <1>12, <1>13 DEF P, n
-----------------------------------------------------------------------------
(* The invariant.                                                             *)

\* bloqueoSemaforo of a process that colaProcesosBloqueados does not know: it
\* goes to the queue of what it asked for.
LEMMA ConseguirNuevo ==
  ASSUME NEW lista \in Seq(Bloqueado), NEW p \in Procs, NEW s \in Sems,
         \A i \in DOMAIN lista : lista[i].pid # p
  PROVE  Conseguir(Append(lista, [pid |-> p, semaforo |-> s]), p) = s
<1> DEFINE x == [pid |-> p, semaforo |-> s]
           t == Append(lista, x)
           n == Len(lista)
           I == {i \in 1..Len(t) : t[i].pid = p}
           k == SelectInSeq(t, LAMBDA b : b.pid = p)
<1>1. n \in Nat /\ DOMAIN lista = 1..n
  BY LenProperties
<1>2. Len(t) = n + 1 /\ (\A i \in 1..n : t[i] = lista[i]) /\ t[n + 1] = x
  BY AppendProperties DEF Bloqueado
<1>3. k = IF I # {} THEN Min(I) ELSE 0
  BY DEF SelectInSeq
<1>4. Conseguir(t, p) = t[k].semaforo
  BY DEF Conseguir
<1> HIDE DEF t, k, n
<1>5. \A i \in I : i = n + 1
  <2>1. \A i \in 1..n + 1 : i \in 1..n \/ i = n + 1
    BY <1>1
  <2> QED BY <2>1, <1>1, <1>2
<1>6. n + 1 \in I /\ I \subseteq Nat
  BY <1>1, <1>2
<1>7. k = n + 1
  BY <1>3, <1>5, <1>6, MinEs
<1> QED BY <1>2, <1>4, <1>7 DEF t

\* The entries and the queues are of blocked processes only.
LEMMA DeBloqueados ==
  ASSUME IInv, NEW p \in Procs, pidio[p] = Nadie
  PROVE  /\ \A s \in Sems : p \notin ToSet(colas_semaforos[s])
         /\ \A i \in DOMAIN colaProcesosBloqueados : colaProcesosBloqueados[i].pid # p
<1>1. \A s \in Sems : p \notin ToSet(colas_semaforos[s])
  BY NadieSupuesto DEF IInv, EsperaLoQuePidio
<1>2. \A i \in DOMAIN colaProcesosBloqueados :
        colaProcesosBloqueados[i].semaforo \in Sems
  <2>1. colaProcesosBloqueados \in Seq(Bloqueado)
    BY DEF IInv, Tipos, Bloqueado
  <2>2. \A i \in DOMAIN colaProcesosBloqueados : colaProcesosBloqueados[i] \in Bloqueado
    BY <2>1, EnLista
  <2> QED BY <2>2 DEF Bloqueado
<1> QED BY <1>1, <1>2 DEF IInv, EntradasVigentes

\* A wait that blocks.
LEMMA WaitBloquea ==
  ASSUME IInv, NEW p \in Procs, NEW s \in Sems, pidio[p] = Nadie, Wait(p, s), Bloquea(s)
  PROVE  /\ IInv'
         /\ colas_semaforos' = [colas_semaforos EXCEPT ![s] = Append(@, p)]
         /\ UNCHANGED valor
<1> DEFINE lista == colaProcesosBloqueados
           q == colas_semaforos
           x == [pid |-> p, semaforo |-> s]
           n == Len(lista)
           m == Len(q[s])
<1>1. /\ lista \in Seq(Bloqueado) /\ q \in [Sems -> Seq(Procs)] /\ q[s] \in Seq(Procs)
      /\ x \in Bloqueado /\ valor \in [Sems -> Nat]
      /\ pidio \in [Procs -> Sems \cup {Nadie, "muerto"}]
  BY DEF IInv, Tipos, Bloqueado
<1>2. /\ n \in Nat /\ DOMAIN lista = 1..n /\ m \in Nat /\ DOMAIN q[s] = 1..m
      /\ \A i \in 1..n : lista[i] \in Bloqueado
  BY <1>1, EnLista
<1>3. /\ \A t \in Sems : p \notin ToSet(q[t])
      /\ \A i \in DOMAIN lista : lista[i].pid # p
  BY DeBloqueados
<1>4. Conseguir(Append(lista, x), p) = s
  BY <1>1, <1>3, ConseguirNuevo
<1>5. /\ lista' = Append(lista, x) /\ q' = [q EXCEPT ![s] = Append(@, p)]
      /\ pidio' = [pidio EXCEPT ![p] = s] /\ UNCHANGED valor
  BY <1>4 DEF Wait
<1>6. /\ lista' \in Seq(Bloqueado) /\ Len(lista') = n + 1 /\ DOMAIN lista' = 1..n + 1
      /\ (\A i \in 1..n : lista'[i] = lista[i]) /\ lista'[n + 1] = x
  <2>1. /\ Append(lista, x) \in Seq(Bloqueado) /\ Len(Append(lista, x)) = n + 1
        /\ (\A i \in 1..n : Append(lista, x)[i] = lista[i]) /\ Append(lista, x)[n + 1] = x
    BY <1>1, AppendProperties
  <2> QED BY <1>5, <2>1, LenProperties
<1>7. /\ q' \in [Sems -> Seq(Procs)] /\ q'[s] \in Seq(Procs)
      /\ ToSet(q'[s]) = ToSet(q[s]) \cup {p}
      /\ IsInjective(q'[s]) /\ DOMAIN q'[s] = 1..m + 1
      /\ (\A a \in 1..m : q'[s][a] = q[s][a]) /\ q'[s][m + 1] = p
      /\ \A t \in Sems : t # s => q'[t] = q[t]
  <2>1. IsInjective(q[s])
    BY DEF IInv, EsperaLoQuePidio
  <2>2. /\ Append(q[s], p) \in Seq(Procs) /\ ToSet(Append(q[s], p)) = ToSet(q[s]) \cup {p}
        /\ IsInjective(Append(q[s], p))
    BY <1>1, <1>3, <2>1, ListaAgrega
  <2>3. /\ Len(Append(q[s], p)) = m + 1 /\ Append(q[s], p)[m + 1] = p
        /\ \A a \in 1..m : Append(q[s], p)[a] = q[s][a]
    BY <1>1, AppendProperties
  <2>4. DOMAIN Append(q[s], p) = 1..m + 1
    BY <2>2, <2>3, LenProperties
  <2>5. q'[s] = Append(q[s], p) /\ \A t \in Sems : t # s => q'[t] = q[t]
    BY <1>1, <1>5
  <2>6. q' \in [Sems -> Seq(Procs)]
    BY <1>1, <1>5, <2>2
  <2> QED BY <2>2, <2>3, <2>4, <2>5, <2>6
<1> HIDE DEF lista, q, x, n, m
<1>8. Tipos'
  <2>1. pidio' \in [Procs -> Sems \cup {Nadie, "muerto"}]
    BY <1>1, <1>5
  <2> QED BY <2>1, <1>1, <1>5, <1>6, <1>7 DEF Tipos, lista, q, Bloqueado
<1>9. NadieEsperaDeMas'
  <2>1. ~(valor[s] > 0)
    BY <1>1 DEF Bloquea
  <2> QED BY <2>1, <1>5, <1>7 DEF IInv, NadieEsperaDeMas, q
<1>10. EsperaLoQuePidio'
  <2>1. \A r \in Procs : \A t \in Sems :
          (r \in ToSet(q[t]) <=> pidio[r] = t) /\ IsInjective(q[t])
    BY DEF IInv, EsperaLoQuePidio, q
  <2>2. pidio'[p] = s /\ \A r \in Procs : r # p => pidio'[r] = pidio[r]
    BY <1>1, <1>5
  <2>3. ASSUME NEW r \in Procs, NEW t \in Sems
        PROVE  (r \in ToSet(q'[t]) <=> pidio'[r] = t) /\ IsInjective(q'[t])
    <3>1. CASE t = s
      BY <3>1, <2>1, <2>2, <1>7
    <3>2. CASE t # s
      BY <3>2, <2>1, <2>2, <1>3, <1>7
    <3> QED BY <3>1, <3>2
  <2> QED BY <2>3 DEF EsperaLoQuePidio, q
<1>11. \A i \in 1..n + 1 : i \in 1..n \/ i = n + 1
  BY <1>2
<1>12. \A i \in 1..n : lista[i].pid \in ToSet(q[lista[i].semaforo]) /\ lista[i].semaforo \in Sems
  BY <1>2 DEF IInv, EntradasVigentes, lista, q, Bloqueado
<1>13. EntradasVigentes'
  <2>1. ASSUME NEW i \in 1..n + 1 PROVE lista'[i].pid \in ToSet(q'[lista'[i].semaforo])
    <3>1. CASE i \in 1..n
      <4>1. lista'[i] = lista[i]
        BY <3>1, <1>6
      <4> QED BY <4>1, <3>1, <1>7, <1>12
    <3>2. CASE i = n + 1
      <4>1. lista'[i].pid = p /\ lista'[i].semaforo = s
        BY <3>2, <1>6 DEF x
      <4> QED BY <4>1, <1>7
    <3> QED BY <1>11, <3>1, <3>2
  <2> QED BY <2>1, <1>6 DEF EntradasVigentes, lista, q
<1>14. EntradasEnOrden'
  <2>1. ASSUME NEW t \in Sems, NEW a, NEW b, Antes(q[t], a, b) PROVE Antes(q'[t], a, b)
    <3>1. CASE t # s
      BY <2>1, <3>1, <1>7
    <3>2. CASE t = s
      <4>1. PICK c, d \in 1..m : c < d /\ q[s][c] = a /\ q[s][d] = b
        BY <2>1, <3>2, <1>2 DEF Antes
      <4>2. c \in 1..m + 1 /\ d \in 1..m + 1 /\ q'[s][c] = a /\ q'[s][d] = b
        BY <4>1, <1>2, <1>7
      <4> QED BY <4>1, <4>2, <3>2, <1>7 DEF Antes
    <3> QED BY <3>1, <3>2
  <2>2. ASSUME NEW i \in 1..n, lista[i].semaforo = s PROVE Antes(q'[s], lista[i].pid, p)
    <3>1. lista[i].pid \in ToSet(q[s])
      BY <1>12, <2>2
    <3>2. PICK c \in 1..m : q[s][c] = lista[i].pid
      BY <3>1, <1>2 DEF ToSet
    <3>3. c \in 1..m + 1 /\ m + 1 \in 1..m + 1 /\ c < m + 1
      BY <1>2
    <3>4. q'[s][c] = lista[i].pid /\ q'[s][m + 1] = p
      BY <3>2, <1>7
    <3> QED BY <3>3, <3>4, <1>7 DEF Antes
  <2>3. ASSUME NEW i \in 1..n + 1, NEW j \in 1..n + 1, i < j,
               lista'[i].semaforo = lista'[j].semaforo
        PROVE  Antes(q'[lista'[i].semaforo], lista'[i].pid, lista'[j].pid)
    <3>1. i \in 1..n /\ lista'[i] = lista[i]
      BY <2>3, <1>2, <1>6
    <3>2. CASE j \in 1..n
      <4>1. lista'[j] = lista[j]
        BY <3>2, <1>6
      <4>2. Antes(q[lista[i].semaforo], lista[i].pid, lista[j].pid)
        BY <2>3, <3>1, <3>2, <4>1, <1>2 DEF IInv, EntradasEnOrden, lista, q
      <4>3. Antes(q'[lista[i].semaforo], lista[i].pid, lista[j].pid)
        BY <4>2, <3>1, <2>1, <1>12
      <4> QED BY <4>1, <4>3, <3>1
    <3>3. CASE j = n + 1
      <4>1. lista'[j].pid = p /\ lista[i].semaforo = s
        BY <2>3, <3>1, <3>3, <1>6 DEF x
      <4> QED BY <4>1, <3>1, <2>2
    <3> QED BY <1>11, <3>2, <3>3
  <2> QED BY <2>3, <1>6 DEF EntradasEnOrden, lista, q
<1> QED BY <1>5, <1>8, <1>9, <1>10, <1>13, <1>14 DEF IInv, q

\* A signal on which someone waits.
LEMMA SignalDespierta ==
  ASSUME IInv, NEW s \in Sems, colas_semaforos[s] # <<>>, Signal(s)
  PROVE  /\ IInv'
         /\ colas_semaforos' = [colas_semaforos EXCEPT ![s] = Tail(@)]
         /\ UNCHANGED valor
<1> DEFINE lista == colaProcesosBloqueados
           q == colas_semaforos
           n == Len(lista)
           m == Len(q[s])
           u == Tail(q[s])
<1>1. /\ lista \in Seq(Bloqueado) /\ q \in [Sems -> Seq(Procs)] /\ q[s] \in Seq(Procs)
      /\ valor \in [Sems -> Nat] /\ pidio \in [Procs -> Sems \cup {Nadie, "muerto"}]
      /\ q[s] # <<>>
  BY DEF IInv, Tipos, Bloqueado
<1>2. PICK h \in Procs : h = Head(q[s]) /\ h = q[s][1] /\ h \in ToSet(q[s])
  BY <1>1, ListaSaca
<1>3. /\ lista' = SacarDesbloqueados(lista, s) /\ q' = [q EXCEPT ![s] = Tail(@)]
      /\ pidio' = [pidio EXCEPT ![h] = Nadie] /\ UNCHANGED valor
  BY <1>1, <1>2 DEF Signal, Despertado
<1>4. /\ n \in Nat /\ DOMAIN lista = 1..n /\ m \in Nat /\ DOMAIN q[s] = 1..m /\ m >= 1
      /\ \A i \in 1..n : lista[i] \in Bloqueado
  BY <1>1, EnLista, ListaSaca
<1>5. /\ IsInjective(q[s]) /\ u \in Seq(Procs) /\ DOMAIN u = 1..m - 1
      /\ ToSet(u) = ToSet(q[s]) \ {h} /\ IsInjective(u)
      /\ \A a \in 1..m - 1 : u[a] = q[s][a + 1]
  <2>1. IsInjective(q[s])
    BY DEF IInv, EsperaLoQuePidio
  <2>2. /\ u \in Seq(Procs) /\ Len(u) = m - 1
        /\ ToSet(u) = ToSet(q[s]) \ {h} /\ IsInjective(u)
        /\ \A a \in 1..m - 1 : u[a] = q[s][a + 1]
    BY <1>1, <1>2, <2>1, ListaSaca
  <2> QED BY <2>1, <2>2, LenProperties
<1>6. q'[s] = u /\ \A t \in Sems : t # s => q'[t] = q[t]
  BY <1>1, <1>3
<1>7. Quedan(lista, s, n, lista')
  BY <1>1, <1>3, SacarQuedan
<1>8. q' \in [Sems -> Seq(Procs)]
  BY <1>1, <1>3, <1>5
<1> HIDE DEF lista, q, n, m, u
<1>9. PICK e \in [1..Len(lista') -> 1..n] :
        /\ \A j \in 1..Len(lista') : lista'[j] = lista[e[j]]
        /\ \A j, k \in 1..Len(lista') : j < k => e[j] < e[k]
        /\ \A j \in 1..Len(lista') : lista'[j].semaforo = s =>
             \E k \in 1..n : k < e[j] /\ lista[k].semaforo = s
  BY <1>7 DEF Quedan
<1>10. lista' \in Seq(Bloqueado) /\ DOMAIN lista' = 1..Len(lista')
  BY <1>7, LenProperties DEF Quedan
<1>11. \A i \in 1..n : lista[i].pid \in ToSet(q[lista[i].semaforo])
                       /\ lista[i].semaforo \in Sems /\ lista[i].pid \in Procs
  BY <1>4 DEF IInv, EntradasVigentes, lista, q, Bloqueado
<1>12. \A i, j \in 1..n : i < j /\ lista[i].semaforo = lista[j].semaforo =>
         Antes(q[lista[i].semaforo], lista[i].pid, lista[j].pid)
  BY <1>4 DEF IInv, EntradasEnOrden, lista, q
<1>13. \A r \in Procs : \A t \in Sems :
         (r \in ToSet(q[t]) <=> pidio[r] = t) /\ IsInjective(q[t])
  BY DEF IInv, EsperaLoQuePidio, q
<1>14. Tipos'
  <2>1. pidio' \in [Procs -> Sems \cup {Nadie, "muerto"}]
    BY <1>1, <1>3
  <2> QED BY <2>1, <1>1, <1>3, <1>8, <1>10 DEF Tipos, lista, q, Bloqueado
<1>15. NadieEsperaDeMas'
  <2>1. ~(valor[s] > 0)
    BY <1>1 DEF IInv, NadieEsperaDeMas, q
  <2> QED BY <2>1, <1>3, <1>6 DEF IInv, NadieEsperaDeMas, q
<1>16. EsperaLoQuePidio'
  <2>1. pidio'[h] = Nadie /\ \A r \in Procs : r # h => pidio'[r] = pidio[r]
    BY <1>1, <1>3
  <2>2. ASSUME NEW r \in Procs, NEW t \in Sems
        PROVE  (r \in ToSet(q'[t]) <=> pidio'[r] = t) /\ IsInjective(q'[t])
    <3>1. CASE t = s
      BY <3>1, <2>1, <1>5, <1>6, <1>13, NadieSupuesto
    <3>2. CASE t # s
      BY <3>2, <2>1, <1>2, <1>6, <1>13, NadieSupuesto
    <3> QED BY <3>1, <3>2
  <2> QED BY <2>2 DEF EsperaLoQuePidio, q
\* No entry of the process that is woken is left.
<1>17. ASSUME NEW j \in 1..Len(lista') PROVE lista'[j].pid # h
  <2> SUFFICES ASSUME lista'[j].pid = h PROVE FALSE
    OBVIOUS
  <2>1. e[j] \in 1..n /\ lista[e[j]] = lista'[j]
    BY <1>9
  <2>2. h \in ToSet(q[lista'[j].semaforo]) /\ lista'[j].semaforo \in Sems
    BY <2>1, <1>11
  <2>3. lista'[j].semaforo = s
    BY <2>2, <1>2, <1>13 DEF q
  <2>4. PICK k \in 1..n : k < e[j] /\ lista[k].semaforo = s
    BY <2>3, <1>9
  <2>5. Antes(q[s], lista[k].pid, h)
    BY <2>1, <2>3, <2>4, <1>12
  <2>6. PICK a, b \in 1..m : a < b /\ q[s][b] = h
    BY <2>5, <1>4 DEF Antes, q
  <2>7. 1 \in 1..m /\ q[s][1] = h
    BY <1>2, <1>4 DEF q
  <2>8. b = 1
    BY <2>6, <2>7, <1>4, <1>5 DEF IsInjective, q
  <2> QED BY <2>6, <2>8
<1>18. EntradasVigentes'
  <2>1. ASSUME NEW j \in 1..Len(lista') PROVE lista'[j].pid \in ToSet(q'[lista'[j].semaforo])
    <3>1. lista'[j].pid \in ToSet(q[lista'[j].semaforo]) /\ lista'[j].semaforo \in Sems
      BY <1>9, <1>11
    <3>2. lista'[j].pid # h
      BY <1>17
    <3> QED BY <3>1, <3>2, <1>5, <1>6
  <2> QED BY <2>1, <1>10 DEF EntradasVigentes, lista, q
<1>19. EntradasEnOrden'
  <2>1. ASSUME NEW t \in Sems, NEW a, NEW b, a # h, Antes(q[t], a, b) PROVE Antes(q'[t], a, b)
    <3>1. CASE t # s
      BY <2>1, <3>1, <1>6
    <3>2. CASE t = s
      <4>1. PICK c, d \in 1..m : c < d /\ q[s][c] = a /\ q[s][d] = b
        BY <2>1, <3>2, <1>4 DEF Antes, q
      <4>2. c # 1
        BY <2>1, <4>1, <1>2 DEF q
      <4>3. /\ c - 1 \in 1..m - 1 /\ d - 1 \in 1..m - 1 /\ c - 1 < d - 1
            /\ (c - 1) + 1 = c /\ (d - 1) + 1 = d
        BY <4>1, <4>2, <1>4
      <4>4. u[c - 1] = a /\ u[d - 1] = b
        BY <4>1, <4>3, <1>5
      <4> QED BY <4>3, <4>4, <3>2, <1>5, <1>6 DEF Antes
    <3> QED BY <3>1, <3>2
  <2>2. ASSUME NEW i \in 1..Len(lista'), NEW j \in 1..Len(lista'), i < j,
               lista'[i].semaforo = lista'[j].semaforo
        PROVE  Antes(q'[lista'[i].semaforo], lista'[i].pid, lista'[j].pid)
    <3>1. /\ e[i] \in 1..n /\ e[j] \in 1..n /\ e[i] < e[j]
          /\ lista'[i] = lista[e[i]] /\ lista'[j] = lista[e[j]]
      BY <2>2, <1>9
    <3>2. Antes(q[lista'[i].semaforo], lista'[i].pid, lista'[j].pid)
      BY <2>2, <3>1, <1>12
    <3>3. lista'[i].pid # h /\ lista'[i].semaforo \in Sems
      BY <3>1, <1>11, <1>17
    <3> QED BY <3>2, <3>3, <2>1
  <2> QED BY <2>2, <1>10 DEF EntradasEnOrden, lista, q
<1> QED BY <1>3, <1>14, <1>15, <1>16, <1>18, <1>19 DEF IInv, q

\* A wait that goes on, or a signal for nobody: only the value changes.
LEMMA SoloValor ==
  ASSUME IInv, NEW s \in Sems, NEW v \in Nat, valor' = [valor EXCEPT ![s] = v],
         v > 0 => colas_semaforos[s] = <<>>,
         UNCHANGED <<colas_semaforos, colaProcesosBloqueados, pidio>>
  PROVE  IInv'
<1>1. valor \in [Sems -> Nat]
  BY DEF IInv, Tipos
<1>2. valor'[s] = v /\ \A t \in Sems : t # s => valor'[t] = valor[t]
  BY <1>1
<1>3. valor' \in [Sems -> Nat]
  BY <1>1
<1>4. Tipos'
  BY <1>3 DEF IInv, Tipos
<1>5. NadieEsperaDeMas'
  BY <1>2 DEF IInv, NadieEsperaDeMas
<1>6. EsperaLoQuePidio'
  BY DEF IInv, EsperaLoQuePidio
<1>7. EntradasVigentes' /\ EntradasEnOrden'
  BY DEF IInv, EntradasVigentes, EntradasEnOrden
<1> QED BY <1>4, <1>5, <1>6, <1>7 DEF IInv

\* No process is blocked at the start.
LEMMA InicialSemaforos == Init => IInv
<1> SUFFICES ASSUME Init PROVE IInv
  OBVIOUS
<1>1. /\ \A s \in Sems : colas_semaforos[s] = <<>> /\ ToSet(colas_semaforos[s]) = {}
                         /\ IsInjective(colas_semaforos[s])
      /\ \A p \in Procs : pidio[p] = Nadie
      /\ DOMAIN colaProcesosBloqueados = {}
  BY DEF Init, ToSet, IsInjective
<1>2. Tipos
  BY InicialSupuesto DEF Init, Tipos
<1>3. NadieEsperaDeMas /\ EsperaLoQuePidio
  BY <1>1, NadieSupuesto DEF NadieEsperaDeMas, EsperaLoQuePidio
<1>4. EntradasVigentes /\ EntradasEnOrden
  BY <1>1 DEF EntradasVigentes, EntradasEnOrden
<1> QED BY <1>2, <1>3, <1>4 DEF IInv

\* A wait of a process that is not blocked is one of the abstract semaphores.
LEMMA WaitCumple ==
  ASSUME IInv, NEW p \in Corren, NEW s \in Sems, Wait(p, s)
  PROVE  IInv' /\ Abstracto!Next
<1>1. p \in Procs /\ pidio[p] = Nadie /\ valor \in [Sems -> Nat]
  BY DEF Corren, IInv, Tipos
<1>2. CASE Bloquea(s)
  <2>1. /\ IInv' /\ UNCHANGED valor
        /\ colas_semaforos' = [colas_semaforos EXCEPT ![s] = Append(@, p)]
    BY <1>1, <1>2, WaitBloquea
  <2>2. p \notin Abstracto!Bloqueados
    BY <1>1, DeBloqueados DEF Abstracto!Bloqueados, Abstracto!ToSet, ToSet
  <2>3. Abstracto!Bloquea(p, s)
    BY <1>2, <2>1, <2>2 DEF Abstracto!Bloquea, Bloquea
  <2> QED BY <1>1, <2>1, <2>3 DEF Abstracto!Next
<1>3. CASE ~Bloquea(s)
  <2>1. /\ valor' = [valor EXCEPT ![s] = @ - 1] /\ valor[s] > 0 /\ valor[s] - 1 \in Nat
        /\ UNCHANGED <<colas_semaforos, colaProcesosBloqueados, pidio>>
    BY <1>1, <1>3 DEF Wait, Bloquea
  <2>2. colas_semaforos[s] = <<>>
    BY <2>1 DEF IInv, NadieEsperaDeMas
  <2>3. IInv'
    BY <2>1, <2>2, SoloValor
  <2>4. Abstracto!Pasa(s)
    BY <2>1 DEF Abstracto!Pasa
  <2> QED BY <2>3, <2>4 DEF Abstracto!Next
<1> QED BY <1>2, <1>3

\* So is a signal.
LEMMA SignalCumple ==
  ASSUME IInv, NEW s \in Sems, Signal(s)
  PROVE  IInv' /\ Abstracto!Next
<1>1. CASE colas_semaforos[s] # <<>>
  <2>1. /\ IInv' /\ UNCHANGED valor
        /\ colas_semaforos' = [colas_semaforos EXCEPT ![s] = Tail(@)]
    BY <1>1, SignalDespierta
  <2>2. Abstracto!Despierta(s)
    BY <1>1, <2>1 DEF Abstracto!Despierta
  <2> QED BY <2>1, <2>2 DEF Abstracto!Next
<1>2. CASE colas_semaforos[s] = <<>>
  <2>1. /\ valor' = [valor EXCEPT ![s] = @ + 1] /\ valor[s] + 1 \in Nat
        /\ UNCHANGED <<colas_semaforos, colaProcesosBloqueados, pidio>>
    BY <1>2 DEF Signal, IInv, Tipos
  <2>2. IInv'
    BY <1>2, <2>1, SoloValor
  <2>3. Abstracto!Suma(s)
    BY <1>2, <2>1 DEF Abstracto!Suma
  <2> QED BY <2>2, <2>3 DEF Abstracto!Next
<1> QED BY <1>1, <1>2

\* Every step keeps the invariant and is a step of the abstract semaphores.
LEMMA PasoSemaforos ==
  ASSUME IInv, Usa
  PROVE  IInv' /\ Abstracto!Next
BY WaitCumple, SignalCumple DEF Usa

\* So does a step in which nothing of these moves.
LEMMA QuietoSemaforos ==
  ASSUME IInv, UNCHANGED <<semaforos, pidio>>
  PROVE  IInv' /\ UNCHANGED <<valor, colas_semaforos>>
BY DEF IInv, Tipos, NadieEsperaDeMas, EsperaLoQuePidio, EntradasVigentes, EntradasEnOrden,
       semaforos

\* The queues of the semaphores, the list of blocked processes and what each
\* blocked process asked for agree, however waits and signals interleave.
THEOREM SemaforosCorrectos == Spec => []IInv
<1>1. IInv /\ [Next]_<<semaforos, pidio>> => IInv'
  BY PasoSemaforos, QuietoSemaforos DEF Next
<1> QED BY <1>1, InicialSemaforos, PTL DEF Spec

\* No process is blocked on a semaphore whose value is positive.
THEOREM NadieEsperaDeMasSiempre == Spec => []NadieEsperaDeMas
<1>1. IInv => NadieEsperaDeMas
  BY DEF IInv
<1> QED BY <1>1, SemaforosCorrectos, PTL

\* Although sacarSemaforosDesbloqueados removes entries of processes that stay
\* blocked, conseguirSemaforoDeBloqueado never reads an old entry: every blocked
\* process is, once, in the queue of the semaphore it asked for and in no other.
THEOREM EsperaLoQuePidioSiempre == Spec => []EsperaLoQuePidio
<1>1. IInv => EsperaLoQuePidio
  BY DEF IInv
<1> QED BY <1>1, SemaforosCorrectos, PTL

\* The Kernel's semaphores, with their two structures, are counting semaphores
\* that serve in order of arrival: each handler is a step of SemaforoAbstracto.
THEOREM ImplementaSemaforos == Spec => Implementa
<1>1. Init => Abstracto!Init
  BY DEF Init, Abstracto!Init
<1>2. IInv /\ [Next]_<<semaforos, pidio>> =>
        [Abstracto!Next]_<<valor, colas_semaforos>>
  BY PasoSemaforos, QuietoSemaforos DEF Next
<1> QED BY <1>1, <1>2, SemaforosCorrectos, PTL DEF Spec, Implementa, Abstracto!Spec
=============================================================================
